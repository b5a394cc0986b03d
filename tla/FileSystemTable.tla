-------------------------- MODULE FileSystemTable --------------------------
(***************************************************************************)
(* The table of mounted filesystems (FileSystemTable.c++) and how a       *)
(* ClientInterest is attached to and moved between FileSystem objects     *)
(* (ClientInterest.c++, FileSystem.c++).                                  *)
(*                                                                         *)
(* fs_by_name is a StringTable from mount directory to FileSystem*, kept  *)
(* as a sequence of [key, value] pairs in table order; fs_by_id is a      *)
(* SmallTable from statvfs f_fsid to FileSystem*, a sequence sorted by    *)
(* key.  A FileSystem object is an id of FsIds with its mount entry and   *)
(* its set myinterests; a ClientInterest is named by its path.  The       *)
(* kernel mount table and /etc/mtab are one sequence `mounts`; the mtab   *)
(* watcher's pending Changed event is the flag `pending`.  A device's     *)
(* fsname is also its f_fsid.  A device with a host is an NFS export     *)
(* ("host:dir"): its FileSystem is an NFSFileSystem holding a             *)
(* ServerHostRef, and ServerHostRef's hosts_by_name table and refcounts   *)
(* (ServerHostRef.c++) are modelled with it.  Each ClientInterest holds   *)
(* a Cred (Cred.tla): find() becomes its user and create_fs_by_name()     *)
(* becomes the SuperUser.  An interest on an NFSFileSystem is filed in   *)
(* its ServerHost's request table (ServerHost::send_monitor) under a      *)
(* number the ServerHost hands out, and its fs_request keeps the number.  *)
(***************************************************************************)
EXTENDS Integers, Sequences, FiniteSets, Cred

SX == INSTANCE SequencesExt

CONSTANTS
    Dirs,        \* mount directories other than "/", as component sequences
    Paths,       \* names ClientInterests are created for
    Devs,        \* devices (fsname, and f_fsid) other than the root device
    RootDev,     \* the device mounted on "/"
    FsIds,       \* the FileSystem objects the heap can hand out
    MaxMtabOps,  \* bound on mounts plus unmounts
    HostOf,      \* device -> the host part of an NFS fsname, or Null (local)
    Resolve,     \* host name -> gethostbyname(): <<h_name, alias, ...>>
    HostIds,     \* the ServerHost objects the heap can hand out
    ClientsOf,   \* path -> the credentials a request for it may carry
    MaxRequest   \* bound on a ServerHost's unique_request

ASSUME /\ Devs \subseteq Nat /\ RootDev \in Nat /\ RootDev \notin Devs
       /\ <<>> \notin Dirs /\ Null \notin FsIds /\ Null \notin HostIds

VARIABLES
    mounts,   \* the mount table: <<[dir, dev], ...>>, "/" first
    pending,  \* /etc/mtab changed and the watcher has not yet run
    mtabOps,  \* mounts and unmounts so far (bounded)
    byName,   \* fs_by_name, or Null before the first find()
    byId,     \* fs_by_id
    root,     \* FileSystemTable::root
    fs,       \* live FileSystem objects: id -> [dir, dev, ints]
    myfs,     \* live ClientInterests: path -> myfilesystem
    fault,    \* "none", or the assertion or use-after-free that stopped fam
    hosts,    \* live ServerHosts: id -> refcount
    byHost,   \* ServerHostRef::hosts_by_name, or Null
    hcount,   \* ServerHostRef::count, the ServerHostRef handles extant
    cred,     \* the Cred statics and the process's identity (Cred.tla)
    mycred,   \* live ClientInterests: path -> ClientInterest::mycred
    reqs,     \* live ServerHosts: id -> requests, Request -> ClientInterest
    unique,   \* live ServerHosts: id -> unique_request
    fsreq     \* live ClientInterests: path -> ClientInterest::fs_request

vars == <<mounts, pending, mtabOps, byName, byId, root, fs, myfs, fault,
          hosts, byHost, hcount, cred, mycred, reqs, unique, fsreq>>

(* ---------------- SmallTable.h: fs_by_id --------------------------------*)

\* position(): binary search over [l, r); index is 0-based as in the code.
RECURSIVE Position(_, _, _, _)
Position(t, k, l, r) ==
    IF l >= r THEN [present |-> FALSE, index |-> l]
    ELSE LET mid == (l + r) \div 2 IN
         IF k < t[mid + 1].key THEN Position(t, k, l, mid)
         ELSE IF k > t[mid + 1].key THEN Position(t, k, mid + 1, r)
         ELSE [present |-> TRUE, index |-> mid]

SmallFind(t, k) ==
    LET c == Position(t, k, 0, Len(t)) IN
    IF c.present THEN t[c.index + 1].value ELSE Null

\* insert(): overwrite a present key, else shift the tail right.
SmallInsert(t, k, v) ==
    LET c == Position(t, k, 0, Len(t)) IN
    IF c.present THEN [t EXCEPT ![c.index + 1].value = v]
    ELSE SX!InsertAt(t, c.index + 1, [key |-> k, value |-> v])

(* ---------------- StringTable.h: fs_by_name -----------------------------*)

\* position(): the first i (0-based) from i on whose key is k, or -1.
RECURSIVE NameScan(_, _, _)
NameScan(t, k, i) ==
    IF i >= Len(t) THEN -1 ELSE IF t[i + 1].key = k THEN i ELSE NameScan(t, k, i + 1)

NamePosition(t, k) == NameScan(t, k, 0)

NameFind(t, k) ==
    LET i == NamePosition(t, k) IN IF i >= 0 THEN t[i + 1].value ELSE Null

\* insert(): overwrite a present key, else append.
NameInsert(t, k, v) ==
    LET i == NamePosition(t, k) IN
    IF i >= 0 THEN [t EXCEPT ![i + 1].value = v]
    ELSE Append(t, [key |-> k, value |-> v])

\* remove(): the last pair moves into the removed one's slot.
NameRemove(t, k) ==
    LET i == NamePosition(t, k) IN
    SubSeq([t EXCEPT ![i + 1] = t[Len(t)]], 1, Len(t) - 1)

\* The values a `for (i = 0; (fs = t.value(i)) != NULL; i++)` loop visits.
NameValues(t) == [i \in 1..Len(t) |-> t[i].value]

(* ---------------- path lookups -----------------------------------------*)

LongestPrefixNoRoot(t, rootfs, path) ==
    LET Step(acc, p) ==
            IF /\ SX!IsPrefix(p.key, path)
               /\ p.key # <<>> \/ path = <<>>
               /\ Len(p.key) > acc.max
            THEN [best |-> p.value, max |-> Len(p.key)]
            ELSE acc
    IN SX!FoldLeft(Step, [best |-> Null, max |-> -1], t).best

\* longest_prefix(): a key matches when it is a whole-component prefix of
\* path; the key "/" (<<>>) matches only the path "/" itself.
LongestPrefix(t, rootfs, path) ==
    LET Step(acc, p) ==
            IF /\ SX!IsPrefix(p.key, path)
               /\ p.key # <<>> \/ path = <<>>
               /\ Len(p.key) > acc.max
            THEN [best |-> p.value, max |-> Len(p.key)]
            ELSE acc
    IN SX!FoldLeft(Step, [best |-> rootfs, max |-> -1], t).best

\* statvfs(path).f_fsid: the device of the topmost mount on the deepest
\* mount point above path.
KernelDev(path) ==
    LET Step(acc, m) ==
            IF SX!IsPrefix(m.dir, path) /\ Len(m.dir) >= acc.len
            THEN [dev |-> m.dev, len |-> Len(m.dir)] ELSE acc
    IN SX!FoldLeft(Step, [dev |-> RootDev, len |-> -1], mounts).dev

\* The state one handler threads through the calls it makes.
State == [byName |-> byName, byId |-> byId, root |-> root, fs |-> fs,
          myfs |-> myfs, fault |-> fault, hosts |-> hosts, byHost |-> byHost,
          hcount |-> hcount, cred |-> cred, mycred |-> mycred, reqs |-> reqs,
          unique |-> unique, fsreq |-> fsreq]

\* `cr.become_user()' in find(), once before statvfs() and again before
\* realpath().
BecomeCr(st, cr) == [st EXCEPT !.cred = BecomeUser(@, cr)]

\* FileSystemTable::find() once fs_by_name exists, as the user cr: the
\* fsid cache first, else the longest prefix, which is then cached under
\* the fsid.
Find(st, path, cr) ==
    LET s   == BecomeCr(st, cr)
        dev == KernelDev(path)
        hit == SmallFind(s.byId, dev)
        f   == LongestPrefix(s.byName, s.root, path)
    IN IF hit # Null THEN [st |-> s, fs |-> hit]
       ELSE [st |-> [BecomeCr(s, cr) EXCEPT !.byId = SmallInsert(@, dev, f)], fs |-> f]

Extend(f, x, v) == [y \in DOMAIN f \cup {x} |-> IF y = x THEN v ELSE f[y]]

Drop(f, x) == [y \in DOMAIN f \ {x} |-> f[y]]

(* ---------------- requests: FileSystem.c++, ServerHost.c++ --------------*)

\* ServerHost::send_monitor(): the number is unique_request++, asserted
\* free in the table, and the interest is filed under it (the activation
\* and the message to the remote fam are ServerHost.tla's).
SendMonitor(st, h, p) ==
    LET r == st.unique[h] IN
    IF r \in DOMAIN st.reqs[h] THEN [st EXCEPT !.fault = "dup"]
    ELSE [st EXCEPT !.unique[h] = r + 1, !.reqs[h] = Extend(@, r, p),
                    !.fsreq = Extend(@, p, r)]

\* `fs_request = fs->monitor(this, type)': FileSystem::monitor() puts the
\* interest in myinterests, then hl_monitor(): an NFSFileSystem's goes to
\* its host's send_monitor(), a LocalFileSystem's answers 0.  A call
\* through a FileSystem that is not live is a use-after-free.
FsMonitor(st, f, p) ==
    LET s == [st EXCEPT !.fs[f].ints = @ \cup {p}] IN
    IF f \notin DOMAIN st.fs THEN [st EXCEPT !.fault = "uaf"]
    ELSE IF st.fs[f].host = Null THEN [s EXCEPT !.fsreq = Extend(@, p, 0)]
    ELSE SendMonitor(s, st.fs[f].host, p)

\* ServerHost::send_cancel(): assert the number is in the table, remove it.
SendCancel(st, h, r) ==
    IF r \notin DOMAIN st.reqs[h] THEN [st EXCEPT !.fault = "noreq"]
    ELSE [st EXCEPT !.reqs[h] = Drop(@, r)]

\* FileSystem::cancel(): hl_cancel() (an NFSFileSystem's goes to its host's
\* send_cancel(), a LocalFileSystem's does nothing), then
\* myinterests.remove().
FsCancel(st, f, p) ==
    LET s == IF st.fs[f].host = Null THEN st
             ELSE SendCancel(st, st.fs[f].host, st.fsreq[p])
    IN [s EXCEPT !.fs[f].ints = @ \ {p}]

SwitchToNoCancel(st, p, new) ==
    FsMonitor([st EXCEPT !.myfs[p] = new], new, p)

SwitchToKeepRequest(st, p, new) ==
    LET old == st.myfs[p] IN
    IF old \notin DOMAIN st.fs THEN [st EXCEPT !.fault = "uaf"]
    ELSE LET s == FsMonitor([FsCancel(st, old, p) EXCEPT !.myfs[p] = new], new, p)
         IN [s EXCEPT !.fsreq[p] = st.fsreq[p]]

\* ClientInterest::filesystem(): myfilesystem->cancel(this, fs_request),
\* then fs_request = fs->monitor() on the new one (every path is
\* exported to the requesting host).
SwitchTo(st, p, new) ==
    LET old == st.myfs[p] IN
    IF old \notin DOMAIN st.fs THEN [st EXCEPT !.fault = "uaf"]
    ELSE FsMonitor([FsCancel(st, old, p) EXCEPT !.myfs[p] = new], new, p)

\* ClientInterest::findfilesystem(), with filesystem() when it moves.
FindFileSystem(st, p) ==
    LET r == Find(st, p, st.mycred[p]) IN
    IF r.fs # st.myfs[p] THEN SwitchTo(r.st, p, r.fs) ELSE r.st

\* FileSystem::relocate_interests(): myinterests is walked in the order
\* of the ClientInterest addresses, given as `order`.
Relocate(st, f, order) ==
    LET Step(s, p) == IF f \in DOMAIN s.fs /\ p \in s.fs[f].ints
                      THEN FindFileSystem(s, p) ELSE s
    IN SX!FoldLeft(Step, st, order)

(* ---------------- ServerHostRef.c++ -------------------------------------*)

\* find()'s miss: gethostbyname() gives a new ServerHost, filed under the
\* name asked for, then its h_name and each alias (insert overwrites).
HostFile(st, t, new, name) ==
    LET File(acc, k) == NameInsert(acc, k, new)
    IN [st |-> [st EXCEPT !.byHost = SX!FoldLeft(File, NameInsert(t, name, new),
                                                 Resolve[name]),
                          !.hosts = Extend(@, new, 0),
                          !.reqs = Extend(@, new, [r \in {} |-> Null]),
                          !.unique = Extend(@, new, 1)],
        h |-> new]

\* ServerHostRef::find(): hosts_by_name is created on the first call; a
\* name in it gives its ServerHost, otherwise HostFile.
HostFind(st, name) ==
    LET t == IF st.byHost = Null THEN <<>> ELSE st.byHost IN
    IF NameFind(t, name) # Null
    THEN [st |-> [st EXCEPT !.byHost = t], h |-> NameFind(t, name)]
    ELSE HostFile(st, t, SX!Min(HostIds \ DOMAIN st.hosts), name)

\* `host = ServerHostRef(hostname)` in NFSFileSystem's constructor: the
\* member and the temporary each add a handle and the temporary's
\* destructor takes one back, so refcount and count both grow by one.
AddRef(r) ==
    [st |-> [r.st EXCEPT !.hosts[r.h] = @ + 1, !.hcount = @ + 1], h |-> r.h]

NewHostRef(st, name) == AddRef(HostFind(st, name))

\* The loop of ~ServerHostRef with i advanced after a removal too.
RECURSIVE ForgetHostSkip(_, _, _)
ForgetHostSkip(t, p, i) ==
    IF i >= Len(t) THEN t
    ELSE IF t[i + 1].value = p THEN ForgetHostSkip(NameRemove(t, t[i + 1].key), p, i + 1)
    ELSE ForgetHostSkip(t, p, i + 1)

\* ~ServerHostRef's loop: remove every name of p from hosts_by_name; after
\* a removal slot i holds the pair that was last, so i stays.
RECURSIVE ForgetHost(_, _, _)
ForgetHost(t, p, i) ==
    IF i >= Len(t) THEN t
    ELSE IF t[i + 1].value = p THEN ForgetHost(NameRemove(t, t[i + 1].key), p, i)
    ELSE ForgetHost(t, p, i + 1)

\* ~ServerHostRef(), first half: the last reference unfiles its host and
\* deletes it, and ~ServerHost asserts that its request table is empty
\* (!active()); the handle count drops.
Unref(st, p) ==
    LET last == st.hosts[p] = 1 IN
    [st EXCEPT !.hosts  = IF last THEN Drop(@, p) ELSE [@ EXCEPT ![p] = @ - 1],
               !.byHost = IF last THEN ForgetHost(@, p, 0) ELSE @,
               !.reqs   = IF last THEN Drop(@, p) ELSE @,
               !.unique = IF last THEN Drop(@, p) ELSE @,
               !.fault  = IF last /\ DOMAIN st.reqs[p] # {} THEN "active" ELSE @,
               !.hcount = @ - 1]

\* Second half: the last handle deletes hosts_by_name, asserting that it is
\* empty.
ReleaseTable(s) ==
    IF s.hcount # 0 \/ s.byHost = Null THEN s
    ELSE IF s.byHost # <<>> THEN [s EXCEPT !.fault = "busy"]
    ELSE [s EXCEPT !.byHost = Null]

DropHostRef(st, p) == ReleaseTable(Unref(st, p))

(* ---------------- FileSystem destruction --------------------------------*)

\* ~NFSFileSystem(): `while (myinterests.size()) findfilesystem()` on the
\* first interest, then its ServerHostRef member is destroyed.  It runs
\* right after relocate_interests() of the same FileSystem (Create's
\* Dismount), which called findfilesystem() on every interest and left
\* fs_by_id holding each answer; a second call gives the same answer, so an
\* interest still here is given back for ever and the loop spins.
NfsDestroy(st, f) ==
    IF st.fs[f].ints # {} THEN [st EXCEPT !.fault = "hang"]
    ELSE DropHostRef(st, st.fs[f].host)

\* `delete fs`: the NFS destructor if it is one (~LocalFileSystem does
\* nothing), then ~FileSystem's assert(!myinterests.size()).
DeleteFs(st, f) ==
    LET s == IF st.fs[f].host # Null THEN NfsDestroy(st, f) ELSE st
    IN IF s.fault # "none" THEN s
       ELSE IF s.fs[f].ints # {} THEN [s EXCEPT !.fault = "busy"]
       ELSE [s EXCEPT !.fs = Drop(@, f)]

\* `new FileSystem`: the heap hands out a free object.
Alloc(st) == SX!Min(FsIds \ DOMAIN st.fs)

\* A new FileSystem record, with its host (Null for a local one).
AddFs(st, id, e, h) ==
    [st EXCEPT !.fs = Extend(@, id, [dir |-> e.dir, dev |-> e.dev, ints |-> {}, host |-> h])]

AddNfs(r, id, e) == AddFs(r.st, id, e, r.h)

\* `new NFSFileSystem(*mp)` for an NFS entry whose fsname has a colon,
\* taking a reference to its host; `new LocalFileSystem(*mp)` otherwise.
NewFs(st, id, e) ==
    IF HostOf[e.dev] = Null THEN AddFs(st, id, e, Null)
    ELSE AddNfs(NewHostRef(st, HostOf[e.dev]), id, e)

MatchesDirOnly(st, f, e) == st.fs[f].dir = e.dir

\* FileSystem::matches(): same directory and same fsname.
Matches(st, f, e) == st.fs[f].dir = e.dir /\ st.fs[f].dev = e.dev

\* One getmntent() turn of create_fs_by_name(): reuse the old FileSystem
\* if it matches, else create one and note the parent it was mounted in.
MountEntry(acc, e) ==
    LET old     == IF acc.built THEN NameFind(acc.st.byName, e.dir) ELSE Null
        matched == old # Null /\ Matches(acc.st, old, e)
        id      == Alloc(acc.st)
        f       == IF matched THEN old ELSE id
        parent  == LongestPrefix(acc.st.byName, acc.root, e.dir)
    IN [acc EXCEPT
          !.st      = IF matched THEN @ ELSE NewFs(@, id, e),
          !.new     = NameInsert(@, e.dir, f),
          !.dism    = IF matched /\ NameFind(@, e.dir) # Null
                      THEN NameRemove(@, e.dir) ELSE @,
          !.parents = IF ~matched /\ acc.built
                      THEN NameInsert(@, acc.st.fs[parent].dir, parent) ELSE @,
          !.root    = IF e.dir = <<>> THEN f ELSE @]

\* create_fs_by_name(), first part: read the mount table into a new
\* fs_by_name and install it.  `built` says whether an old fs_by_name
\* existed.
Build(st, built) ==
    LET acc0 == [st |-> [BecomeCr(st, SuperUserId) EXCEPT !.root = Null], built |-> built,
                 new |-> <<>>, parents |-> <<>>,
                 dism |-> IF built THEN st.byName ELSE <<>>, root |-> Null]
        acc  == SX!FoldLeft(MountEntry, acc0, mounts)
    IN [acc EXCEPT !.st = [acc.st EXCEPT !.byName = acc.new, !.root = acc.root]]

\* The rest: relocate the interests of every parent of a new mount, then
\* relocate out of every dismounted FileSystem and delete it.
Finish(acc, order) ==
    LET RelocateParent(s, f) == Relocate(s, f, order)
        Dismount(s, f)       == DeleteFs(Relocate(s, f, order), f)
    IN SX!FoldLeft(Dismount,
                   SX!FoldLeft(RelocateParent, acc.st, NameValues(acc.parents)),
                   NameValues(acc.dism))

Create(st, built, order) == Finish(Build(st, built), order)

\* The handler's resulting state becomes the program's.
Apply(st) ==
    /\ byName' = st.byName /\ byId' = st.byId /\ root' = st.root
    /\ fs' = st.fs /\ myfs' = st.myfs /\ fault' = st.fault
    /\ hosts' = st.hosts /\ byHost' = st.byHost /\ hcount' = st.hcount
    /\ cred' = st.cred /\ mycred' = st.mycred
    /\ reqs' = st.reqs /\ unique' = st.unique /\ fsreq' = st.fsreq

Init ==
    /\ mounts = <<[dir |-> <<>>, dev |-> RootDev]>>
    /\ pending = FALSE
    /\ mtabOps = 0
    /\ byName = Null
    /\ byId = <<>>
    /\ root = Null
    /\ fs = [f \in {} |-> Null]
    /\ myfs = [p \in {} |-> Null]
    /\ fault = "none"
    /\ hosts = [h \in {} |-> 0]
    /\ byHost = Null
    /\ hcount = 0
    /\ cred = Cred0
    /\ mycred = [p \in {} |-> Null]
    /\ reqs = [h \in {} |-> Null]
    /\ unique = [h \in {} |-> 1]
    /\ fsreq = [p \in {} |-> 0]

\* The InternalClient that watches /etc/mtab exists once find() has first
\* built fs_by_name; its File interest reports a change of mtab, and
\* post_event hands it to mtab_event_handler.
MtabWatched == byName # Null

\* Neither an assertion nor a failed set*id call has stopped fam.
Running == fault = "none" /\ ~cred.exited

\* The model's bound: a handler runs only if no ServerHost's
\* unique_request passes MaxRequest.
Bounded(st) == \A h \in DOMAIN st.unique : st.unique[h] <= MaxRequest

\* mount(8): a device not mounted elsewhere goes on top of dir; the
\* watcher is told only once it exists.
Mount(d, v) ==
    /\ Running
    /\ mtabOps < MaxMtabOps
    /\ \A i \in DOMAIN mounts : mounts[i].dev # v
    /\ mounts' = Append(mounts, [dir |-> d, dev |-> v])
    /\ pending' = MtabWatched
    /\ mtabOps' = mtabOps + 1
    /\ UNCHANGED <<byName, byId, root, fs, myfs, fault, hosts, byHost, hcount,
                   cred, mycred, reqs, unique, fsreq>>

\* umount(8) of a mount nothing is mounted on or under since.
Unmount(i) ==
    /\ Running
    /\ mtabOps < MaxMtabOps
    /\ \A j \in i + 1..Len(mounts) : ~SX!IsPrefix(mounts[i].dir, mounts[j].dir)
    /\ mounts' = SX!RemoveAt(mounts, i)
    /\ pending' = MtabWatched
    /\ mtabOps' = mtabOps + 1
    /\ UNCHANGED <<byName, byId, root, fs, myfs, fault, hosts, byHost, hcount,
                   cred, mycred, reqs, unique, fsreq>>

\* The orders relocate_interests may walk the live interests in (it
\* never meets another).
Orders == SX!SetToSeqs(DOMAIN myfs)

MtabEventKeepCache ==
    /\ Running
    /\ pending
    /\ MtabWatched
    /\ \E b \in {Build(State, TRUE)} : \E order \in Orders :
       \E st \in {Finish(b, order)} : Bounded(st) /\ Apply(st)
    /\ pending' = FALSE
    /\ UNCHANGED <<mounts, mtabOps>>

\* mtab_event_handler(): empty fs_by_id, then create_fs_by_name(), whose
\* relocations walk the interests in any order.
MtabEvent ==
    /\ Running
    /\ pending
    /\ MtabWatched
    /\ \E b \in {Build([State EXCEPT !.byId = <<>>], TRUE)} : \E order \in Orders :
       \E st \in {Finish(b, order)} : Bounded(st) /\ Apply(st)
    /\ pending' = FALSE
    /\ UNCHANGED <<mounts, mtabOps>>

\* A request from a client of credential c (TCP_Client::process_msg): the
\* message's Cred, interned by new_impl(), then the
\* ClientInterest constructor: myfilesystem = FileSystemTable::find(name,
\* cr), building fs_by_name on the first call, then
\* fs_request = myfilesystem->monitor(); mycred copies cr, and the
\* message's Cred is destroyed when process_msg returns.
\* (Each `\E x \in {e}' names one intermediate state of the handler.)
Monitor(p, c) ==
    /\ Running
    /\ p \notin DOMAIN myfs
    /\ Allocatable(cred, c)
    /\ \E m \in {NewImpl(cred, c)} :
       \E st \in {IF byName = Null THEN Create([State EXCEPT !.cred = m.cs], FALSE, <<>>)
                  ELSE [State EXCEPT !.cred = m.cs]} :
       \E r \in {Find(st, p, m.p)} :
       \E s1 \in {FsMonitor([r.st EXCEPT !.myfs = Extend(@, p, r.fs),
                                         !.mycred = Extend(@, p, m.p)], r.fs, p)} :
       \E s2 \in {[s1 EXCEPT !.cred = ReleaseCred(CopyCred(@, m.p), m.p)]} :
          Bounded(s2) /\ Apply(s2)
    /\ UNCHANGED <<mounts, pending, mtabOps>>

\* ~ClientInterest(): myfilesystem->cancel(this, fs_request), then its
\* mycred is destroyed.
Cancel(p) ==
    /\ Running
    /\ p \in DOMAIN myfs
    /\ IF myfs[p] \notin DOMAIN fs
       THEN Apply([State EXCEPT !.fault = "uaf"])
       ELSE LET s == FsCancel(State, myfs[p], p)
            IN Apply([s EXCEPT !.myfs = Drop(@, p), !.fsreq = Drop(@, p),
                               !.cred = ReleaseCred(@, mycred[p]),
                               !.mycred = Drop(@, p)])
    /\ UNCHANGED <<mounts, pending, mtabOps>>

Next ==
    \/ \E d \in Dirs, v \in Devs : Mount(d, v)
    \/ \E i \in 2..Len(mounts) : Unmount(i)
    \/ MtabEvent
    \/ \E p \in Paths : \E c \in ClientsOf[p] : Monitor(p, c)
    \/ \E p \in Paths : Cancel(p)

Spec == Init /\ [][Next]_vars

-----------------------------------------------------------------------------
TypeOK ==
    /\ mounts \in Seq([dir : Dirs \cup {<<>>}, dev : Devs \cup {RootDev}])
    /\ pending \in BOOLEAN /\ mtabOps \in 0..MaxMtabOps
    /\ byName \in Seq([key : Dirs \cup {<<>>}, value : FsIds]) \cup {Null}
    /\ byId \in Seq([key : Devs \cup {RootDev}, value : FsIds])
    /\ root \in FsIds \cup {Null}
    /\ DOMAIN fs \subseteq FsIds /\ DOMAIN myfs \subseteq Paths
    /\ \A f \in DOMAIN fs : fs[f].ints \subseteq Paths
    /\ \A p \in DOMAIN myfs : myfs[p] \in FsIds
    /\ \A f \in DOMAIN fs : fs[f].host \in HostIds \cup {Null}
    /\ fault \in {"none", "busy", "uaf", "hang", "dup", "noreq", "active"}
    /\ DOMAIN hosts \subseteq HostIds /\ hcount \in Nat
    /\ byHost \in Seq([key : DOMAIN Resolve, value : HostIds]) \cup {Null}
    /\ DOMAIN cred.impls \subseteq ImplIds \cup {SuperUserId, UntrustedId}
    /\ cred.last \in ImplIds \cup {SuperUserId, UntrustedId, Null}
    /\ cred.exited \in BOOLEAN /\ DOMAIN mycred \subseteq Paths
    /\ DOMAIN reqs = DOMAIN hosts /\ DOMAIN unique = DOMAIN hosts
    /\ \A h \in DOMAIN reqs : reqs[h] \in [DOMAIN reqs[h] -> Paths]
    /\ \A h \in DOMAIN unique : unique[h] \in 1..MaxRequest
    /\ DOMAIN fsreq \subseteq Paths /\ \A p \in DOMAIN fsreq : fsreq[p] \in 0..MaxRequest

\* The tables never point at a deleted FileSystem: every fs_by_name pair
\* names a live FileSystem mounted on its key, keys are unique, root is
\* live, and the fs_by_id cache, emptied by mtab_event_handler before each
\* rebuild, is sorted and holds only live FileSystems.
TablesSound ==
    /\ byName # Null =>
         /\ root \in DOMAIN fs
         /\ \A i \in DOMAIN byName :
              /\ byName[i].value \in DOMAIN fs
              /\ fs[byName[i].value].dir = byName[i].key
              /\ \A j \in DOMAIN byName : i # j => byName[i].key # byName[j].key
    /\ \A i \in DOMAIN byId :
         /\ byId[i].value \in DOMAIN fs
         /\ i < Len(byId) => byId[i].key < byId[i + 1].key

\* ClientInterest::myfilesystem and FileSystem::myinterests agree, both
\* ways, across every relocation: no interest is left in a FileSystem that
\* create_fs_by_name() deletes (the assert in ~FileSystem) and none
\* cancels through a deleted one.
InterestsAttached ==
    /\ fault = "none"
    /\ \A p \in DOMAIN myfs : myfs[p] \in DOMAIN fs /\ p \in fs[myfs[p]].ints
    /\ \A f \in DOMAIN fs : \A p \in fs[f].ints :
         p \in DOMAIN myfs /\ myfs[p] = f

\* ServerHostRef's bookkeeping survives every NFS mount, unmount and
\* rebuild: each live ServerHost's refcount is the number of live
\* NFSFileSystems on it, no name in hosts_by_name outlives its ServerHost
\* (~ServerHostRef's removal loop finds every name the host was filed
\* under, h_name and aliases included), and hosts_by_name exists exactly
\* while a handle does.
HostRefsSound ==
    /\ \A h \in DOMAIN hosts :
         hosts[h] = Cardinality({f \in DOMAIN fs : fs[f].host = h})
    /\ hcount = Cardinality({f \in DOMAIN fs : fs[f].host # Null})
    /\ (byHost = Null) <=> (hcount = 0)
    /\ byHost # Null => \A i \in DOMAIN byHost : byHost[i].value \in DOMAIN hosts

\* Every ServerHost's request table routes exactly the interests on its
\* NFSFileSystems, across every mount, unmount, rebuild and relocation:
\* each such interest is filed under its own fs_request, every entry
\* names a live interest whose FileSystem is on that host (so an event the
\* remote fam sends for it reaches a live ClientInterest), no number is
\* at or past unique_request, and each cancel finds its number
\* (send_cancel's and ~ServerHost's assertions hold).
RequestsRouted ==
    /\ fault \notin {"dup", "noreq", "active"}
    /\ \A h \in DOMAIN reqs :
         /\ \A r \in DOMAIN reqs[h] :
              /\ r < unique[h]
              /\ reqs[h][r] \in DOMAIN myfs /\ fsreq[reqs[h][r]] = r
              /\ myfs[reqs[h][r]] \in DOMAIN fs /\ fs[myfs[reqs[h][r]]].host = h
         /\ \A p \in DOMAIN myfs :
              myfs[p] \in DOMAIN fs /\ fs[myfs[p]].host = h =>
                  fsreq[p] \in DOMAIN reqs[h] /\ reqs[h][fsreq[p]] = p

\* Cred's reference counting and interning survive every interest created
\* and destroyed: each live Implementation's refcount is the number of
\* Creds pointing at it (the static SuperUser and untrusted, and each
\* ClientInterest's mycred), no interest holds a deleted one, impllist
\* lists each live Implementation once (drop() moved the last entry into
\* the hole), and no two live ones have equal content, so that new_impl
\* finds the one to share.
CredsInterned ==
    LET live == DOMAIN cred.impls
        Holders(x) == IF x \in {SuperUserId, UntrustedId} THEN 1 ELSE 0
        Users(x)   == Cardinality({p \in DOMAIN mycred : mycred[p] = x})
    IN /\ \A x \in live : cred.impls[x].refcount = Holders(x) + Users(x)
       /\ \A p \in DOMAIN mycred : mycred[p] \in live
       /\ SX!ToSet(cred.list) = live /\ SX!IsInjective(cred.list)
       /\ \A x, y \in live : x # y => Content(cred.impls[x]) # Content(cred.impls[y])

\* Implementation::last is a true cache of the process's identity: no
\* set*id call of become_user() has failed, and once a become_user() has
\* run, `last' is a live Implementation and the effective uid, gid and
\* groups are its own, after interests are created as their users, find()
\* is called for every relocated interest as its user, and an
\* Implementation that was `last' is deleted and its address reused.
EffectiveIdentity ==
    /\ ~cred.exited
    /\ cred.last # Null =>
         /\ cred.last \in DOMAIN cred.impls
         /\ cred.proc = [euid |-> cred.impls[cred.last].uid,
                         egid |-> cred.impls[cred.last].gid,
                         groups |-> cred.impls[cred.last].groups]

\* Once the watcher has handled every mtab change, fs_by_name has exactly
\* one FileSystem per mount directory, for the device now on top there:
\* create_fs_by_name() kept only FileSystems that still match.
TableMirrorsMounts ==
    (byName # Null /\ ~pending) =>
        /\ {byName[i].key : i \in DOMAIN byName} = {mounts[i].dir : i \in DOMAIN mounts}
        /\ \A i \in DOMAIN byName : fs[byName[i].value].dev = KernelDev(byName[i].key)

\* Every live FileSystem object is reachable from fs_by_name once the
\* watcher has caught up: create_fs_by_name() either moves an old one into
\* the new table or deletes it as dismounted, so none is left behind.
NoLeak ==
    (byName # Null /\ ~pending) =>
        DOMAIN fs = {byName[i].value : i \in DOMAIN byName}
====
