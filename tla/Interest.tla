------------------------------ MODULE Interest ------------------------------
(***************************************************************************)
(* The identity index of fam's Interests and the two change sources that   *)
(* cover them: the kernel inode monitor and the Pollster.                  *)
(*                                                                         *)
(*  - Interest.c++: the hash chains of interests by (dev, ino), kept as    *)
(*    the linked list the code keeps (a head per bucket and a hashlink per *)
(*    interest); the constructor, revoke, dev_ino, do_stat and the walk of *)
(*    imon_handler.                                                        *)
(*  - IMon.c++, IMonLinux.c++: express (with its stat to detect a race)    *)
(*    and revoke, and the read handler of the kernel's event queue.        *)
(*  - LocalFileSystem.c++ ll_monitor / ll_notify_*: Pollster watch/forget. *)
(*  - Pollster.c++: the polled set and polling_task.                       *)
(*  - Directory.c++, DirectoryScanner.c++, DirEntry.c++: a Directory's     *)
(*    scan, which stats the entries, creates new ones and deletes vanished *)
(*    ones, as far as it touches the index.                                *)
(*                                                                         *)
(* Every request is a Directory request on the same directory, so the      *)
(* requests' interests share identities.  The client's output is always    *)
(* ready and no request is suspended (Session.tla models flow control), so *)
(* scan() always runs do_scan() at once.  The file system is changed by    *)
(* other processes at any moment, between any two steps of the daemon and, *)
(* in a bounded number of cases, between express's ioctl and its stat.     *)
(***************************************************************************)
EXTENDS Integers, FiniteSets, Sequences, SequencesExt

CONSTANTS
    Tops,        \* Directory requests, all on the same directory
    Kids,        \* the names the directory can hold
    Self,        \* the name of the directory itself
    Null,        \* the NULL pointer
    NBuckets,    \* Interest::HASHSIZE
    MaxIno,      \* inode numbers are 1..MaxIno
    MaxDiskOps,  \* changes made by other processes
    MaxRaces,    \* changes made between express's ioctl and its stat
    QCap         \* capacity of the kernel's event queue

ASSUME NBuckets \in Nat \ {0} /\ MaxIno \in Nat /\ QCap \in Nat \ {0}

Names == {Self} \cup Kids
\* An interest: the Directory of a request, or one of its DirEntries.
Ids == Tops \X Names
Path(i) == i[2]
IsEntry(i) == i[2] # Self
EntriesOf(t) == {t} \X Kids
Inodes == 1..MaxIno
\* Interest::hashchain(): hashtable[(dev + ino) % HASHSIZE], one device.
Bucket(x) == x % NBuckets
Buckets == 0..(NBuckets - 1)

VARIABLES
    disk,      \* the inode each name has on disk, 0 when absent
    nextIno,   \* the last inode number the file system handed out
    diskOps,   \* changes made so far by other processes
    races,     \* changes made so far inside express
    imonq,     \* the kernel's queue of CHANGE events (inode numbers)
    over,      \* the kernel dropped an event and will report IMON_OVER
    live,      \* interests that exist (are not freed)
    ino,       \* Interest::dev/ino, equal to old_stat's (0: nonexistent)
    hashlink,  \* Interest::hashlink
    head,      \* Interest::hashtable
    ksub,      \* inodes the kernel monitor is watching
    polled,    \* Pollster::polled_interests
    stack,     \* the handler running and the calls it is inside
    fault      \* "UseAfterFree" once a freed interest is dereferenced

vars == <<disk, nextIno, diskOps, races, imonq, over, live, ino, hashlink,
          head, ksub, polled, stack, fault>>

(***************************************************************************)
(* The daemon's state as a record, so that the code's nested calls can be  *)
(* written as operators from state to (sets of) states.                    *)
(***************************************************************************)
S == [disk |-> disk, nextIno |-> nextIno, races |-> races, imonq |-> imonq,
      over |-> over, live |-> live, ino |-> ino, hashlink |-> hashlink,
      head |-> head, ksub |-> ksub, polled |-> polled]

Apply(s) ==
    /\ disk' = s.disk /\ nextIno' = s.nextIno /\ races' = s.races
    /\ imonq' = s.imonq /\ over' = s.over /\ live' = s.live /\ ino' = s.ino
    /\ hashlink' = s.hashlink /\ head' = s.head /\ ksub' = s.ksub
    /\ polled' = s.polled

(***************************************************************************)
(* The kernel: a change to a name posts a CHANGE for each touched inode    *)
(* the monitor watches; a full queue drops the event and sets IMON_OVER.   *)
(***************************************************************************)
Enqueue(s, touched) ==
    LET room == QCap - Len(s.imonq)
    IN  {[s EXCEPT !.imonq = @ \o SubSeq(ev, 1, IF Len(ev) < room
                                                 THEN Len(ev) ELSE room),
                   !.over = @ \/ Len(ev) > room]
           : ev \in SetToSeqs((touched \ {0}) \cap s.ksub)}

\* Name p now refers to y (0: removed).  Its old inode and, for an entry,
\* the directory's inode are touched, in either order.
DiskChange(s, p, y) ==
    {[s1 EXCEPT !.disk[p] = y, !.nextIno = IF y > s.nextIno THEN y ELSE @]
       : s1 \in Enqueue(s, {s.disk[p]} \cup IF p = Self THEN {}
                                            ELSE {s.disk[Self]})}

\* A hard link b to a's inode: a's link count and the directory change.
LinkChange(s, a, b) ==
    {[s1 EXCEPT !.disk[b] = s.disk[a]] : s1 \in Enqueue(s, {s.disk[a], s.disk[Self]})}

Fresh(s) == IF s.nextIno < MaxIno THEN {s.nextIno + 1} ELSE {}

\* What another process can make of name p: remove it or give it a new
\* inode.  The directory itself is only ever replaced, never removed.
Changes(s, p) == (({0} \cup Fresh(s)) \ {s.disk[p]}) \ IF p = Self THEN {0} ELSE {}

(***************************************************************************)
(* The Pollster's set and the local file system's low-level hooks.         *)
(***************************************************************************)
\* Pollster::watch / Pollster::forget (the polling task is installed while
\* the set is not empty).
Watch(s, i) == [s EXCEPT !.polled = @ \cup {i}]
Forget(s, i) == [s EXCEPT !.polled = @ \ {i}]

\* LocalFileSystem::ll_monitor: poll what the kernel does not watch.
LLMonitor(s, i, imonitored) == IF imonitored THEN s ELSE Watch(s, i)

\* DirEntry / ClientInterest::notify_created and notify_deleted, forwarded
\* to LocalFileSystem::ll_notify_created (forget) and ll_notify_deleted
\* (watch).
NotifyCreated(s, i) == Forget(s, i)
NotifyDeleted(s, i) == Watch(s, i)

(***************************************************************************)
(* The hash chains.                                                        *)
(***************************************************************************)
RECURSIVE ChainFrom(_, _, _)
ChainFrom(hl, p, n) ==
    IF p = Null \/ n = 0 THEN <<>> ELSE <<p>> \o ChainFrom(hl, hl[p], n - 1)

\* The chain of a bucket, cut after one element more than there are
\* interests (so a cycle shows as a repeated element).
Chain(s, b) == ChainFrom(s.hashlink, s.head[b], Cardinality(Ids) + 1)

Chained(s) == UNION {ToSet(Chain(s, b)) : b \in Buckets}

\* Mutant: revoke unlinks the interest only when it heads its chain.
RevokeHeadOnly(s, i) ==
    IF s.ino[i] = 0 THEN s
    ELSE LET b == Bucket(s.ino[i])
             cut == IF s.head[b] = i THEN [s EXCEPT !.head[b] = s.hashlink[i]]
                    ELSE s
             same == \E j \in ToSet(Chain(cut, b)) : j # i /\ s.ino[j] = s.ino[i]
         IN  [cut EXCEPT !.ksub = IF same THEN @ ELSE @ \ {s.ino[i]}]

\* Interest::revoke: unlink this interest from its chain; revoke the
\* kernel's watch only if no other interest on the chain has the identity.
Revoke(s, i) ==
    IF s.ino[i] = 0 THEN s
    ELSE LET b    == Bucket(s.ino[i])
             c    == Chain(s, b)
             same == \E k \in 1..Len(c) : c[k] # i /\ s.ino[c[k]] = s.ino[i]
             pred == {k \in 1..(Len(c) - 1) : c[k + 1] = i}
             cut  == IF s.head[b] = i
                       THEN [s EXCEPT !.head[b] = s.hashlink[i]]
                     ELSE IF pred = {} THEN s
                     ELSE [s EXCEPT !.hashlink[c[CHOOSE k \in pred : TRUE]]
                                        = s.hashlink[i]]
         IN  [cut EXCEPT !.ksub = IF same THEN @ ELSE @ \ {s.ino[i]}]

\* "Insert on new chain": at the head of the bucket of the identity.
Insert(s, i) ==
    LET b == Bucket(s.ino[i])
    IN  [s EXCEPT !.hashlink[i] = s.head[b], !.head[b] = i]

\* Mutant: the ioctl's failure on a name that does not exist is not
\* checked, so the call reports OK for inode 0.
ExpressNoCheck(s, i) ==
    {[st |-> [s EXCEPT !.ksub = @ \cup {s.disk[Path(i)]}], ok |-> TRUE]}

\* IMon::express / imon_express: the ioctl watches the inode the name has;
\* if a stat then finds another inode (the name was changed in between),
\* that inode is revoked and the result is BAD.  Each outcome is a record
\* of the state after the call and whether it returned OK.
Express(s, i) ==
    LET p   == Path(i)
        x   == s.disk[p]
        sub == [s EXCEPT !.ksub = @ \cup {x}]
        raced(y) == {[s1 EXCEPT !.ksub = @ \ {x}]
                       : s1 \in DiskChange([sub EXCEPT !.races = @ + 1], p, y)}
    IN  IF x = 0 THEN {[st |-> s, ok |-> FALSE]}
        ELSE {[st |-> sub, ok |-> TRUE]}
             \cup {[st |-> r, ok |-> FALSE] :
                     r \in UNION {raced(y) : y \in IF s.races < MaxRaces
                                                  THEN Changes(s, p) ELSE {}}}

\* Interest::Interest: express; on OK insert on the chain, else lstat; then
\* LocalFileSystem::ll_monitor polls the interest unless it was expressed.
Construct(s, i) ==
    LET s0 == [s EXCEPT !.live = @ \cup {i}, !.hashlink[i] = Null]
        set(o) == [o.st EXCEPT !.ino[i] = o.st.disk[Path(i)]]
    IN  {LLMonitor(IF o.ok THEN Insert(set(o), i) ELSE set(o), i, o.ok)
           : o \in Express(s0, i)}

\* Interest::dev_ino: revoke, take the new identity, express it and insert
\* on its chain.  Outcomes carry keep_polling, true when express failed.
DevIno(s, i, new) ==
    LET s1 == [Revoke(s, i) EXCEPT !.ino[i] = new]
    IN  IF new # 0
        THEN {[st |-> IF o.ok THEN Insert(o.st, i) ELSE o.st, keep |-> ~o.ok]
                : o \in Express(s1, i)}
        ELSE {[st |-> [s1 EXCEPT !.hashlink[i] = Null], keep |-> FALSE]}

\* Interest::do_stat: lstat; a new identity goes through dev_ino; Created
\* calls notify_created (Pollster::forget) unless keep_polling, Deleted
\* calls notify_deleted (Pollster::watch).  The events posted are left out.
DoStat(s, i) ==
    LET old  == s.ino[i]
        new  == s.disk[Path(i)]
        outs == IF new # old THEN DevIno(s, i, new)
                ELSE {[st |-> s, keep |-> FALSE]}
    IN  {CASE new # 0 /\ old = 0 /\ ~o.keep -> NotifyCreated(o.st, i)
           [] new = 0 /\ old # 0 -> NotifyDeleted(o.st, i)
           [] OTHER -> o.st : o \in outs}

\* ~DirEntry / ~Interest: Pollster::forget, revoke, free.
Destroy(s, i) == [Revoke(Forget(s, i), i) EXCEPT !.live = @ \ {i}]

RECURSIVE DestroyAll(_, _)
DestroyAll(s, is) ==
    IF is = {} THEN s
    ELSE LET i == CHOOSE i \in is : TRUE
         IN  DestroyAll(Destroy(s, i), is \ {i})

(***************************************************************************)
(* The call stack.  A handler pushes a frame; a Directory's scan pushes    *)
(* its DirectoryScanner on top of the walk or poll that started it.        *)
(***************************************************************************)
ScanFrame(t) == [kind |-> "scan", t |-> t, opened |-> FALSE,
                 todo |-> {}, read |-> {}]

Scanning(t) == \E k \in 1..Len(stack) : stack[k].kind = "scan" /\ stack[k].t = t

\* p->scan() (also Pollster's p->poll()), with output ready: a DirEntry's
\* do_scan is do_stat; a Directory's do_scan is do_stat and then a new
\* DirectoryScanner, unless one is running (SCANNING).
ScanOf(s, i) ==
    IF IsEntry(i) THEN {[st |-> x, push |-> FALSE] : x \in DoStat(s, i)}
    ELSE IF Scanning(i[1]) THEN {[st |-> s, push |-> FALSE]}
    ELSE {[st |-> x, push |-> TRUE] : x \in DoStat(s, i)}

\* Replace the top frame by f, pushing the scanner of i when o says so.
Continue(f, o, i) ==
    /\ Apply(o.st)
    /\ stack' = Append(Front(stack), f) \o
                  (IF o.push THEN <<ScanFrame(i[1])>> ELSE <<>>)

Idle == stack = <<>> /\ fault = "none"

Busy(kind) == stack # <<>> /\ Last(stack).kind = kind /\ fault = "none"

-----------------------------------------------------------------------------
Init ==
    /\ \E present \in SUBSET Kids :
         LET kl == SetToSeq(Kids)
         IN  /\ disk = [n \in Names |->
                          IF n = Self THEN 1
                          ELSE IF n \in present
                               THEN 1 + CHOOSE k \in 1..Len(kl) : kl[k] = n
                               ELSE 0]
             /\ nextIno = 1 + Len(kl)
    /\ diskOps = 0 /\ races = 0 /\ imonq = <<>> /\ over = FALSE
    /\ live = {} /\ ino = [i \in Ids |-> 0] /\ hashlink = [i \in Ids |-> Null]
    /\ head = [b \in Buckets |-> Null] /\ ksub = {} /\ polled = {}
    /\ stack = <<>> /\ fault = "none"

\* A monitor request: the Directory's constructor (Interest::Interest) and
\* its first DirectoryScanner.
Monitor(t) ==
    /\ Idle
    /\ <<t, Self>> \notin live
    /\ \E s1 \in Construct(S, <<t, Self>>) : Apply(s1)
    /\ stack' = <<ScanFrame(t)>>
    /\ UNCHANGED <<diskOps, fault>>

\* A cancel: ~Directory deletes its entries, then ~Interest runs for it.
Cancel(t) ==
    /\ Idle
    /\ <<t, Self>> \in live
    /\ Apply(Destroy(DestroyAll(S, EntriesOf(t) \cap live), <<t, Self>>))
    /\ UNCHANGED <<diskOps, stack, fault>>

\* DirectoryScanner: chdir and opendir (the directory always exists here).
ScanOpen ==
    /\ Busy("scan") /\ ~Last(stack).opened
    /\ stack' = Append(Front(stack),
                       [Last(stack) EXCEPT !.opened = TRUE,
                          !.todo = {k \in Kids : disk[k] # 0}])
    /\ UNCHANGED <<disk, nextIno, diskOps, races, imonq, over, live, ino,
                   hashlink, head, ksub, polled, fault>>

\* One readdir: a name with an entry is scanned (scan_no_chdir), a new
\* name gets a new DirEntry.
ScanRead ==
    /\ Busy("scan") /\ Last(stack).opened
    /\ \E k \in Last(stack).todo :
         LET f == Last(stack)
             i == <<f.t, k>>
         IN  /\ \E s1 \in IF i \in live THEN DoStat(S, i) ELSE Construct(S, i) :
                  Apply(s1)
             /\ stack' = Append(Front(stack),
                                [f EXCEPT !.todo = @ \ {k}, !.read = @ \cup {k}])
    /\ UNCHANGED <<diskOps, fault>>

\* End of the directory: entries not read are deleted; the done handler
\* clears SCANNING.
ScanEnd ==
    /\ Busy("scan") /\ Last(stack).opened /\ Last(stack).todo = {}
    /\ LET f == Last(stack)
       IN  Apply(DestroyAll(S, ({f.t} \X (Kids \ f.read)) \cap live))
    /\ stack' = Front(stack)
    /\ UNCHANGED <<diskOps, fault>>

\* IMon::read_handler takes a CHANGE and calls Interest::imon_handler,
\* which walks the chain of its bucket.
ImonRead ==
    /\ Idle
    /\ imonq # <<>>
    /\ stack' = <<[kind |-> "walk", x |-> Head(imonq),
                   next |-> head[Bucket(Head(imonq))]]>>
    /\ imonq' = Tail(imonq)
    /\ UNCHANGED <<disk, nextIno, diskOps, races, over, live, ino, hashlink,
                   head, ksub, polled, fault>>

\* IMon::read_handler on IMON_OVER: the overflow is logged, nothing else.
ImonOver ==
    /\ Idle
    /\ over
    /\ over' = FALSE
    /\ UNCHANGED <<disk, nextIno, diskOps, races, imonq, live, ino, hashlink,
                   head, ksub, polled, stack, fault>>

\* One iteration of imon_handler: p = next; next = p->hashlink; if p has
\* the event's identity, p->scan().  Reading a freed p is a fault.
WalkStep ==
    /\ Busy("walk")
    /\ LET f == Last(stack)
           p == f.next
       IN  \/ /\ p = Null
              /\ stack' = Front(stack)
              /\ UNCHANGED <<disk, nextIno, diskOps, races, imonq, over, live,
                             ino, hashlink, head, ksub, polled, fault>>
           \/ /\ p # Null /\ p \notin live
              /\ fault' = "UseAfterFree"
              /\ UNCHANGED <<disk, nextIno, diskOps, races, imonq, over, live,
                             ino, hashlink, head, ksub, polled, stack>>
           \/ /\ p \in live
              /\ LET g == [f EXCEPT !.next = hashlink[p]]
                 IN  IF ino[p] = f.x
                     THEN \E o \in ScanOf(S, p) : Continue(g, o, p)
                     ELSE Continue(g, [st |-> S, push |-> FALSE], p)
              /\ UNCHANGED <<diskOps, fault>>

\* Pollster::polling_task, installed while the polled set is not empty:
\* each polled interest is polled once, in the set's order.
PollStart ==
    /\ Idle
    /\ polled # {}
    /\ stack' = <<[kind |-> "poll", done |-> {}]>>
    /\ UNCHANGED <<disk, nextIno, diskOps, races, imonq, over, live, ino,
                   hashlink, head, ksub, polled, fault>>

PollStep ==
    /\ Busy("poll")
    /\ \E i \in polled \ Last(stack).done :
         \E o \in ScanOf(S, i) :
            Continue([Last(stack) EXCEPT !.done = @ \cup {i}], o, i)
    /\ UNCHANGED <<diskOps, fault>>

PollEnd ==
    /\ Busy("poll")
    /\ polled \subseteq Last(stack).done
    /\ stack' = Front(stack)
    /\ UNCHANGED <<disk, nextIno, diskOps, races, imonq, over, live, ino,
                   hashlink, head, ksub, polled, fault>>

\* Other processes: create, remove or replace (rename over) a name, replace
\* the directory by another one, or add a hard link.
DiskOp ==
    /\ fault = "none" /\ diskOps < MaxDiskOps
    /\ \/ \E p \in Names : \E y \in Changes(S, p) :
            \E s1 \in DiskChange(S, p, y) : Apply(s1)
       \/ \E a, b \in Kids :
            /\ disk[a] # 0 /\ disk[b] = 0
            /\ \E s1 \in LinkChange(S, a, b) : Apply(s1)
    /\ diskOps' = diskOps + 1
    /\ UNCHANGED <<stack, fault>>

Next ==
    \/ \E t \in Tops : Monitor(t) \/ Cancel(t)
    \/ ScanOpen \/ ScanRead \/ ScanEnd
    \/ ImonRead \/ ImonOver \/ WalkStep
    \/ PollStart \/ PollStep \/ PollEnd
    \/ DiskOp

Spec == Init /\ [][Next]_vars

-----------------------------------------------------------------------------
Frames ==
    [kind : {"walk"}, x : Inodes, next : Ids \cup {Null}]
    \cup [kind : {"poll"}, done : SUBSET Ids]
    \cup [kind : {"scan"}, t : Tops, opened : BOOLEAN,
          todo : SUBSET Kids, read : SUBSET Kids]

TypeOK ==
    /\ disk \in [Names -> 0..MaxIno] /\ nextIno \in Inodes
    /\ imonq \in Seq(Inodes) /\ Len(imonq) <= QCap /\ over \in BOOLEAN
    /\ live \subseteq Ids /\ ino \in [Ids -> 0..MaxIno]
    /\ hashlink \in [Ids -> Ids \cup {Null}]
    /\ head \in [Buckets -> Ids \cup {Null}]
    /\ ksub \subseteq Inodes /\ polled \subseteq live
    /\ stack \in Seq(Frames)
    /\ fault \in {"none", "UseAfterFree"}

\* The hash chains that Interest::revoke and "insert on new chain" edit in
\* place are well formed: no cycle, no element twice, every element a live
\* interest with an identity that hashes to the chain's bucket.
ChainsWellFormed ==
    fault = "none" =>
      \A b \in Buckets :
        LET c == Chain(S, b)
        IN  /\ Len(c) <= Cardinality(Ids)
            /\ IsInjective(c)
            /\ \A k \in 1..Len(c) : c[k] \in live /\ ino[c[k]] # 0
                                    /\ Bucket(ino[c[k]]) = b

\* imon_handler's saved next pointer is never a freed interest.
WalkNextLive ==
    \A k \in 1..Len(stack) :
        stack[k].kind = "walk" => stack[k].next \in live \cup {Null}

====
