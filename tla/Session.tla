------------------------------ MODULE Session ------------------------------
(***************************************************************************)
(* One client session of the fam daemon: the TCP connection with its      *)
(* flow control (NetConnection), the request table (MxClient), the        *)
(* session's scan queue and pending scanner (TCP_Client), and the         *)
(* Directory, DirEntry and DirectoryScanner objects the requests create.  *)
(*                                                                         *)
(* fam runs on one thread, but its handlers call each other re-entrantly: *)
(* a scanner may delete an entry, which dequeues it from the scan queue,  *)
(* which re-enables input, which delivers buffered requests, all inside   *)
(* the write-ready handler.  The model therefore keeps the call stack     *)
(* explicitly: `stack' holds one frame per active handler, and only the   *)
(* top frame takes a step.  Events from outside (a request arriving, the  *)
(* socket draining, a kernel notification) start a new stack when the     *)
(* previous one has returned, as the select() loop does.  The directory   *)
(* contents change at any time, because other processes change them.      *)
(***************************************************************************)
EXTENDS Integers, FiniteSets, Sequences, SequencesExt

CONSTANTS
    Req,         \* request numbers the client library hands out
    Names,       \* names that may appear in the monitored directory
    DirSelf,     \* stands for the monitored directory itself
    NoReq,       \* "no request": an empty my_scanner, an empty event
    MaxSend,     \* bound on the requests the client sends
    MaxDiskOps   \* bound on the changes made to the directory

ASSUME DirSelf \notin Names /\ NoReq \notin Req
ASSUME MaxSend \in Nat /\ MaxDiskOps \in Nat

Ops == {"M", "C", "S", "U"}       \* monitor dir, cancel, suspend, resume
Msgs == [op : Ops, r : Req]
Interests == Req \X (Names \cup {DirSelf})
EntryIds == Req \X Names
EventKinds == {"Exists", "Created", "Deleted", "Changed",
               "EndExist", "Acknowledge", "none"}
NoScan == [ev |-> "none", todo |-> {}, seen |-> {}]
Frame(k, r, from, n, todo) ==
    [k |-> k, r |-> r, from |-> from, n |-> n, todo |-> todo]
Kinds == {"deliver", "scan", "unblock", "imon", "resume"}
Froms == {"ctor", "doscan", "unblock", "start", "wait", "queue", "loop0",
          "loop", "-"}
Faults == {"none", "ScannerOverwrite", "DeleteWhileScanning",
           "ResumeWhileScanning", "DanglingScanQueue", "CorruptInput",
           "PostWhileSuspended"}

VARIABLES
    wire, nsent, used,              \* the client and its socket stream
    present, ver, nops, imonq,      \* the directory on disk; kernel events
    ibuf, iready, oready,           \* NetConnection input buffer and flags
    requests, active, scanning,     \* MxClient::requests, ACTIVE, SCANNING
    entries, sc, myscanner,         \* DirEntry lists, scanners, my_scanner
    tbs, marked, known,             \* to_be_scanned, needs_scan, old_stat
    stack, fault,                   \* the call stack; a failed assertion
    view, endexist, lastPost        \* what the client has been told

clientVars == <<wire, nsent, used>>
diskVars == <<present, ver, nops, imonq>>
outVars == <<view, endexist, lastPost, oready>>
vars == <<wire, nsent, used, present, ver, nops, imonq, ibuf, iready,
          oready, requests, active, scanning, entries, sc, myscanner, tbs,
          marked, known, stack, fault, view, endexist, lastPost>>

\* Mutant of Stat: a failed lstat leaves the stat buffer uninitialised.
StatNoMemset(n) == IF n \in present THEN ver[n] ELSE -1

\* lstat of a directory entry, abstracted to 0 (absent: the buffer is
\* zeroed) or a version that changes whenever the file's ctime, mtime,
\* size or inode would change.
Stat(n) == IF n \in present THEN ver[n] ELSE 0

Top == Last(stack)
Pop(st) == Front(st)
SetTop(st, f) == [st EXCEPT ![Len(st)] = f]
DirOf(r) == <<r, DirSelf>>
EntriesOf(r) == {<<r, n>> : n \in entries[r]}

(***************************************************************************)
(* ClientInterest::post_event -> TCP_Client::post_event ->                *)
(* ClientConnection::send_event -> NetConnection::mprintf: the event is   *)
(* queued and flush() sends until the socket would block, leaving output  *)
(* blocked (oready FALSE) if anything is left over.  The client's view is *)
(* the set of names it has been told exist.                               *)
(***************************************************************************)
Post(r, n, ev) ==
    /\ view' = [view EXCEPT ![r] =
                  CASE n # DirSelf /\ ev \in {"Exists", "Created"} -> @ \cup {n}
                    [] n # DirSelf /\ ev = "Deleted" -> @ \ {n}
                    [] OTHER -> @]
    /\ endexist' = IF ev = "EndExist" THEN endexist \cup {r} ELSE endexist
    /\ lastPost' = [r |-> r, n |-> n, ev |-> ev, blocked |-> ~oready]
    /\ oready' \in IF oready THEN BOOLEAN ELSE {FALSE}

NoPost == UNCHANGED outVars

(* TCP_Client::enqueue_for_scan: the first queued interest disables input.*)
Enqueue(p, q) ==
    /\ tbs' = q \cup {p}
    /\ iready' = IF q = {} THEN FALSE ELSE iready

(***************************************************************************)
(* Directory::do_scan: a directory that is active, marked and not already *)
(* scanning starts a DirectoryScanner reporting new names as Created and  *)
(* scanning the entries it finds (LocalFileSystem::dir_entries_scanned).  *)
(* The directory never stops being a directory, so do_stat posts nothing. *)
(* Its needs_scan flag is never cleared.                                   *)
(***************************************************************************)
DirDoScan(r, m1, st, q) ==
    /\ marked' = m1
    /\ tbs' = q
    /\ IF active[r] /\ DirOf(r) \in m1 /\ ~scanning[r]
         THEN /\ scanning' = [scanning EXCEPT ![r] = TRUE]
              /\ sc' = [sc EXCEPT ![r] =
                          [ev |-> "Created", todo |-> present, seen |-> {}]]
              /\ stack' = Append(st, Frame("scan", r, "doscan", 0, {}))
         ELSE /\ stack' = st
              /\ UNCHANGED <<scanning, sc>>
    /\ NoPost
    /\ UNCHANGED <<known, iready>>

(***************************************************************************)
(* DirEntry::do_scan -> Interest::do_scan and do_stat: clear needs_scan,  *)
(* lstat, and post Created, Deleted or Changed by comparing with old_stat.*)
(***************************************************************************)
EntryDoScan(p, m1, st, q) ==
    LET s == Stat(p[2])
        old == known[p]
        ev == CASE s # 0 /\ old = 0 -> "Created"
                [] s = 0 /\ old # 0 -> "Deleted"
                [] s # 0 /\ old # s -> "Changed"
                [] OTHER -> "none"
    IN /\ stack' = st
       /\ tbs' = q
       /\ IF active[p[1]]
            THEN /\ marked' = m1 \ {p}
                 /\ known' = [known EXCEPT ![p] = s]
                 /\ IF ev # "none" THEN Post(p[1], p[2], ev) ELSE NoPost
            ELSE /\ marked' = m1
                 /\ UNCHANGED known
                 /\ NoPost
       /\ UNCHANGED iready

\* Mutant of ScanInterest: the scan runs without asking ready_for_events.
ScanInterestUnchecked(p, st, q) ==
    LET m1 == marked \cup {p} IN
    IF p[2] = DirSelf THEN DirDoScan(p[1], m1, st, q)
                      ELSE EntryDoScan(p, m1, st, q) /\ UNCHANGED <<scanning, sc>>

(***************************************************************************)
(* ClientInterest::scan (DirEntry::scan forwards to its parent): mark the *)
(* interest, then scan it now if the client is ready for events, else     *)
(* queue it.  `st' and `q' are the stack and queue the caller left.        *)
(***************************************************************************)
ScanInterest(p, st, q) ==
    LET m1 == marked \cup {p} IN
    IF oready
      THEN IF p[2] = DirSelf
             THEN DirDoScan(p[1], m1, st, q)
             ELSE EntryDoScan(p, m1, st, q) /\ UNCHANGED <<scanning, sc>>
      ELSE /\ marked' = m1
           /\ Enqueue(p, q)
           /\ stack' = st
           /\ NoPost
           /\ UNCHANGED <<known, scanning, sc>>

(***************************************************************************)
(* TCP_Client::enqueue_scanner: assert(!my_scanner), then disable input.  *)
(***************************************************************************)
EnqueueScanner(r) ==
    IF myscanner # NoReq
      THEN /\ fault' = "ScannerOverwrite"
           /\ UNCHANGED <<myscanner, iready>>
      ELSE /\ myscanner' = r
           /\ iready' = FALSE
           /\ UNCHANGED fault

(***************************************************************************)
(* ~DirEntry -> unscan: only an entry that needs a scan is dequeued, and  *)
(* dequeue_from_scan re-enables input as soon as the queue is empty.  An  *)
(* entry that is queued but no longer marked stays in to_be_scanned after *)
(* it is freed.                                                             *)
(***************************************************************************)
DestroyEntry(p) ==
    LET q == IF p \in marked THEN tbs \ {p} ELSE tbs IN
    /\ tbs' = q
    /\ marked' = marked \ {p}
    /\ iready' = IF p \in marked /\ q = {} THEN TRUE ELSE iready
    /\ fault' = IF p \notin marked /\ p \in tbs THEN "DanglingScanQueue"
                                                ELSE fault

-----------------------------------------------------------------------------
Init ==
    /\ wire = <<>> /\ nsent = 0 /\ used = {}
    /\ present \in SUBSET Names
    /\ ver = [n \in Names |-> 1]
    /\ nops = 0
    /\ imonq = {}
    /\ ibuf = <<>> /\ iready = TRUE /\ oready = TRUE
    /\ requests = {}
    /\ active = [r \in Req |-> FALSE]
    /\ scanning = [r \in Req |-> FALSE]
    /\ entries = [r \in Req |-> {}]
    /\ sc = [r \in Req |-> NoScan]
    /\ myscanner = NoReq
    /\ tbs = {} /\ marked = {}
    /\ known = [p \in EntryIds |-> 0]
    /\ stack = <<>>
    /\ fault = "none"
    /\ view = [r \in Req |-> {}]
    /\ endexist = {}
    /\ lastPost = [r |-> NoReq, n |-> DirSelf, ev |-> "none", blocked |-> FALSE]

Idle == stack = <<>> /\ fault = "none"

(***************************************************************************)
(* The client library: FAMMonitorDirectory takes a fresh request number, *)
(* FAMCancelMonitor, FAMSuspendMonitor and FAMResumeMonitor name one it  *)
(* has used.  Each writes one frame to the socket.                        *)
(***************************************************************************)
ClientSend ==
    /\ nsent < MaxSend
    /\ \E m \in Msgs :
         /\ IF m.op = "M" THEN m.r \notin used ELSE m.r \in used
         /\ wire' = Append(wire, m)
         /\ used' = used \cup {m.r}
    /\ nsent' = nsent + 1
    /\ UNCHANGED <<present, ver, nops, imonq, ibuf, iready, oready, requests,
                   active, scanning, entries, sc, myscanner, tbs, marked,
                   known, stack, fault, view, endexist, lastPost>>

(***************************************************************************)
(* Other processes create, remove or modify a name in the directory; the *)
(* kernel queues a change notification for the directory and the file.   *)
(***************************************************************************)
DiskOp ==
    /\ nops < MaxDiskOps
    /\ nops' = nops + 1
    /\ \E n \in Names :
         /\ \/ /\ n \notin present                      \* create
               /\ present' = present \cup {n}
               /\ imonq' = imonq \cup {DirSelf}
            \/ /\ n \in present                         \* unlink
               /\ present' = present \ {n}
               /\ imonq' = imonq \cup {DirSelf, n}
            \/ /\ n \in present                         \* write
               /\ present' = present
               /\ imonq' = imonq \cup {n}
         /\ ver' = [ver EXCEPT ![n] = @ + 1]
    /\ UNCHANGED <<clientVars, ibuf, iready, oready, requests, active,
                   scanning, entries, sc, myscanner, tbs, marked, known,
                   stack, fault, view, endexist, lastPost>>

(***************************************************************************)
(* NetConnection::read_handler -> input: recv() appends whatever part of *)
(* the stream has arrived, then deliver_input runs.  The read handler is  *)
(* installed only while iready && oready.                                  *)
(***************************************************************************)
Recv ==
    /\ Idle /\ iready /\ oready /\ wire # <<>>
    /\ \E k \in 1..Len(wire) :
         /\ ibuf' = ibuf \o SubSeq(wire, 1, k)
         /\ wire' = SubSeq(wire, k + 1, Len(wire))
    /\ stack' = <<Frame("deliver", NoReq, "-", 0, {})>>
    /\ UNCHANGED <<nsent, used, diskVars, iready, oready, requests, active,
                   scanning, entries, sc, myscanner, tbs, marked, known,
                   fault, view, endexist, lastPost>>

(***************************************************************************)
(* NetConnection::write_handler -> flush: the client has read enough for *)
(* the queued events to go out; set_handlers sees output unblock and      *)
(* calls TCP_Client::unblock_handler.                                      *)
(***************************************************************************)
WriteReady ==
    /\ Idle /\ ~oready
    /\ oready' = TRUE
    /\ stack' = <<Frame("unblock", NoReq, "start", 0, {})>>
    /\ UNCHANGED <<clientVars, diskVars, ibuf, iready, requests, active,
                   scanning, entries, sc, myscanner, tbs, marked, known,
                   fault, view, endexist, lastPost>>

(***************************************************************************)
(* IMon::read_handler -> Interest::imon_handler: a CHANGE event for an   *)
(* inode scans every interest on its hash chain with that inode: all the *)
(* Directory interests for the directory, or the DirEntry of that name in *)
(* every directory.                                                        *)
(***************************************************************************)
ImonEvent ==
    /\ Idle
    /\ \E x \in imonq :
         LET chain == IF x = DirSelf THEN {DirOf(r) : r \in requests}
                      ELSE {<<r, x>> : r \in {s \in requests : x \in entries[s]}}
         IN /\ imonq' = imonq \ {x}
            /\ stack' = IF chain = {} THEN stack
                        ELSE <<Frame("imon", NoReq, "-", 0, chain)>>
    /\ UNCHANGED <<clientVars, present, ver, nops, ibuf, iready, oready,
                   requests, active, scanning, entries, sc, myscanner, tbs,
                   marked, known, fault, view, endexist, lastPost>>

-----------------------------------------------------------------------------
(***************************************************************************)
(* TCP_Client::input_msg, one case per opcode.  `st' is the stack with    *)
(* the deliver frame already past this message.                           *)
(***************************************************************************)

\* 'M': MxClient::monitor_dir.  check_new ignores a request number already
\* in use (no Acknowledge); otherwise the Directory constructor posts Exists
\* for the directory, sets SCANNING and runs a scanner that reports every
\* name as Exists without scanning it.  The request is inserted into
\* `requests' when the constructor returns (ScanDone / ScanBlocked).
CheckNew(r) == r \notin requests

\* The ClientInterest constructor sets ACTIVE and posts Exists; the
\* Directory constructor sets SCANNING and runs its first scanner.
DirectoryCtor(r, st) ==
    /\ active' = [active EXCEPT ![r] = TRUE]
    /\ Post(r, DirSelf, "Exists")
    /\ scanning' = [scanning EXCEPT ![r] = TRUE]
    /\ entries' = [entries EXCEPT ![r] = {}]
    /\ sc' = [sc EXCEPT ![r] = [ev |-> "Exists", todo |-> present, seen |-> {}]]
    /\ stack' = Append(st, Frame("scan", r, "ctor", 0, {}))
    /\ UNCHANGED <<iready, requests, myscanner, tbs, marked, known, fault>>

MonitorDir(r, st) ==
    IF CheckNew(r)
      THEN DirectoryCtor(r, st)
      ELSE /\ stack' = st
           /\ UNCHANGED <<iready, outVars, requests, active, scanning,
                          entries, sc, myscanner, tbs, marked, known, fault>>

\* 'C': MxClient::cancel removes the request, ClientInterest::cancel posts
\* Acknowledge and unscans the directory, then the Directory is deleted:
\* ~Directory asserts it is not SCANNING and deletes every DirEntry, each
\* of which unscans itself.  Input is already enabled inside the deliver
\* loop, so the dequeues cannot re-enter it.
Cancel(r, st) ==
    LET dead == {DirOf(r)} \cup EntriesOf(r) IN
    IF r \notin requests
      THEN /\ stack' = st
           /\ UNCHANGED <<iready, outVars, requests, active, scanning,
                          entries, sc, myscanner, tbs, marked, known, fault>>
      ELSE /\ requests' = requests \ {r}
           /\ active' = [active EXCEPT ![r] = TRUE]
           /\ Post(r, DirSelf, "Acknowledge")
           /\ fault' = CASE scanning[r] -> "DeleteWhileScanning"
                         [] (dead \ marked) \cap tbs # {} -> "DanglingScanQueue"
                         [] OTHER -> fault
           /\ tbs' = tbs \ (dead \cap marked)
           /\ marked' = marked \ dead
           /\ entries' = [entries EXCEPT ![r] = {}]
           /\ known' = [p \in EntryIds |-> IF p[1] = r THEN 0 ELSE known[p]]
           /\ stack' = st
           /\ UNCHANGED <<iready, scanning, sc, myscanner>>

\* 'S': ClientInterest::suspend clears ACTIVE (hl_suspend is a no-op on a
\* local file system).
Suspend(r, st) ==
    /\ stack' = st
    /\ active' = IF r \in requests THEN [active EXCEPT ![r] = FALSE]
                                   ELSE active
    /\ UNCHANGED <<iready, outVars, requests, scanning, entries, sc,
                   myscanner, tbs, marked, known, fault>>

\* 'U': Directory::resume asserts the directory is not SCANNING, sets
\* ACTIVE, runs Directory::do_scan and then scans every entry that needs a
\* scan (the resume frame, below the scanner's frame).
Resume(r, st) ==
    LET st1 == Append(st, Frame("resume", r, "loop0", 0, {})) IN
    IF r \notin requests
      THEN /\ stack' = st
           /\ UNCHANGED <<iready, outVars, requests, active, scanning,
                          entries, sc, myscanner, tbs, marked, known, fault>>
      ELSE /\ fault' = IF scanning[r] THEN "ResumeWhileScanning" ELSE fault
           /\ active' = [active EXCEPT ![r] = TRUE]
           /\ IF DirOf(r) \in marked /\ ~scanning[r]
                THEN /\ scanning' = [scanning EXCEPT ![r] = TRUE]
                     /\ sc' = [sc EXCEPT ![r] =
                                 [ev |-> "Created", todo |-> present,
                                  seen |-> {}]]
                     /\ stack' = Append(st1, Frame("scan", r, "doscan", 0, {}))
                ELSE /\ stack' = st1
                     /\ UNCHANGED <<scanning, sc>>
           /\ UNCHANGED <<iready, outVars, requests, entries, myscanner, tbs,
                          marked, known>>

\* TCP_Client::input_msg dispatches on the opcode.
InputMsg(m, st) ==
    CASE m.op = "M" -> MonitorDir(m.r, st)
      [] m.op = "C" -> Cancel(m.r, st)
      [] m.op = "S" -> Suspend(m.r, st)
      [] m.op = "U" -> Resume(m.r, st)

(***************************************************************************)
(* NetConnection::deliver_input: while iready && oready and a whole frame *)
(* is buffered, hand it to input_msg; then slide the rest of the buffer   *)
(* to the front.  A deliver_input nested inside another one leaves the    *)
(* outer loop's ihead pointing into a buffer that has been slid.          *)
(***************************************************************************)
DeliverMsg ==
    /\ fault = "none" /\ stack # <<>> /\ Top.k = "deliver"
    /\ iready /\ oready /\ Top.n < Len(ibuf)
    /\ InputMsg(ibuf[Top.n + 1], SetTop(stack, [Top EXCEPT !.n = @ + 1]))
    /\ UNCHANGED <<clientVars, diskVars, ibuf>>

DeliverEnd ==
    /\ fault = "none" /\ stack # <<>> /\ Top.k = "deliver"
    /\ ~(iready /\ oready /\ Top.n < Len(ibuf))
    /\ ibuf' = SubSeq(ibuf, Top.n + 1, Len(ibuf))
    /\ stack' = Pop(stack)
    /\ fault' = IF Top.n > 0 /\ \E i \in 1..Len(stack) - 1 :
                                   stack[i].k = "deliver"
                  THEN "CorruptInput" ELSE fault
    /\ UNCHANGED <<clientVars, diskVars, iready, oready, requests, active,
                   scanning, entries, sc, myscanner, tbs, marked, known,
                   view, endexist, lastPost>>

-----------------------------------------------------------------------------
(***************************************************************************)
(* DirectoryScanner::done, one readdir() or one deletion per step.  The   *)
(* scanner reads the directory as it was when opendir ran (sc[r].todo);   *)
(* `seen' is the part of the entry list before epp.  `ready' is re-read  *)
(* after every event, and the scanner returns false as soon as it is      *)
(* FALSE.                                                                  *)
(***************************************************************************)
ScanFrameOn == fault = "none" /\ stack # <<>> /\ Top.k = "scan"

\* A name that is already an entry (at epp, in discard, or further down
\* the list) is kept and, in a rescan, scanned with scan_no_chdir; a new
\* name becomes a DirEntry, whose constructor lstats it, and is posted.
ScanRead ==
    /\ ScanFrameOn /\ oready
    /\ LET r == Top.r IN
       \E n \in sc[r].todo :
         /\ sc' = [sc EXCEPT ![r].todo = @ \ {n}, ![r].seen = @ \cup {n}]
         /\ IF n \in entries[r]
              THEN /\ UNCHANGED entries
                   /\ IF sc[r].ev = "Created"
                        THEN EntryDoScan(<<r, n>>, marked \cup {<<r, n>>},
                                         stack, tbs)
                        ELSE UNCHANGED <<marked, known, tbs, iready, stack,
                                         outVars>>
              ELSE /\ active[r]
                   /\ entries' = [entries EXCEPT ![r] = @ \cup {n}]
                   /\ known' = [known EXCEPT ![<<r, n>>] = Stat(n)]
                   /\ Post(r, n, sc[r].ev)
                   /\ UNCHANGED <<marked, tbs, iready, stack>>
    /\ UNCHANGED <<clientVars, diskVars, ibuf, requests, active, scanning,
                   myscanner, fault>>

\* Mutant of ScanDelete: the entry is deleted without a Deleted event.
ScanDeleteSilent ==
    /\ ScanFrameOn /\ oready
    /\ LET r == Top.r IN
       /\ sc[r].todo = {} /\ active[r]
       /\ \E e \in entries[r] \ sc[r].seen :
            /\ entries' = [entries EXCEPT ![r] = @ \ {e}]
            /\ known' = [known EXCEPT ![<<r, e>>] = 0]
            /\ DestroyEntry(<<r, e>>)
            /\ stack' = IF ~iready /\ iready' /\ oready /\ ibuf # <<>>
                          THEN Append(stack, Frame("deliver", NoReq, "-", 0, {}))
                          ELSE stack
    /\ UNCHANGED <<clientVars, diskVars, ibuf, requests, active, scanning, sc,
                   myscanner, outVars>>

\* An entry left at or after epp, or in discard, is posted Deleted and
\* deleted.  If its unscan empties the queue, input is re-enabled and
\* set_handlers calls deliver_input from inside the scanner.
ScanDelete ==
    /\ ScanFrameOn /\ oready
    /\ LET r == Top.r IN
       /\ sc[r].todo = {} /\ active[r]
       /\ \E e \in entries[r] \ sc[r].seen :
            /\ Post(r, e, "Deleted")
            /\ entries' = [entries EXCEPT ![r] = @ \ {e}]
            /\ known' = [known EXCEPT ![<<r, e>>] = 0]
            /\ DestroyEntry(<<r, e>>)
            /\ stack' = IF ~iready /\ iready' /\ oready' /\ ibuf # <<>>
                          THEN Append(stack, Frame("deliver", NoReq, "-", 0, {}))
                          ELSE stack
    /\ UNCHANGED <<clientVars, diskVars, ibuf, requests, active, scanning, sc,
                   myscanner>>

\* The scan is complete: the done handler clears SCANNING (the initial
\* scan's new_done_handler also posts EndExist) and done() returns true.
\* The caller deletes the scanner: the Directory constructor, which then
\* returns to monitor_dir; Directory::do_scan; or unblock_handler, which
\* clears my_scanner and goes on to the scan queue.
ScanDone ==
    /\ ScanFrameOn /\ oready
    /\ LET r == Top.r IN
       /\ sc[r].todo = {} /\ entries[r] \subseteq sc[r].seen
       /\ sc[r].ev = "Exists" => active[r]
       /\ scanning' = [scanning EXCEPT ![r] = FALSE]
       /\ IF sc[r].ev = "Exists" THEN Post(r, DirSelf, "EndExist") ELSE NoPost
       /\ sc' = [sc EXCEPT ![r] = NoScan]
       /\ requests' = IF Top.from = "ctor" THEN requests \cup {r} ELSE requests
       /\ myscanner' = IF Top.from = "unblock" THEN NoReq ELSE myscanner
       /\ stack' = IF Top.from = "unblock"
                     THEN SetTop(Pop(stack), [Last(Pop(stack)) EXCEPT
                                                 !.from = "queue"])
                     ELSE Pop(stack)
    /\ UNCHANGED <<clientVars, diskVars, ibuf, iready, active, entries, tbs,
                   marked, known, fault>>

\* A step above that posts an event for a request a deliver_input run
\* inside the scanner has suspended: ClientInterest::post_event asserts
\* active() (a new name, a vanished entry, or the initial scan's
\* EndExist).
ScanPostAssert ==
    /\ ScanFrameOn /\ oready
    /\ LET r == Top.r IN
       /\ ~active[r]
       /\ \/ sc[r].todo \ entries[r] # {}
          \/ sc[r].todo = {} /\ entries[r] \ sc[r].seen # {}
          \/ sc[r].todo = {} /\ entries[r] \subseteq sc[r].seen /\ sc[r].ev = "Exists"
    /\ fault' = "PostWhileSuspended"
    /\ UNCHANGED <<clientVars, diskVars, ibuf, iready, outVars, requests,
                   active, scanning, entries, sc, myscanner, tbs, marked,
                   known, stack>>

\* Mutant of ScanBlocked: a suspended scanner is dropped instead of being
\* handed to enqueue_scanner, so the directory stays SCANNING.
ScanBlockedDropped ==
    /\ ScanFrameOn /\ ~oready
    /\ LET r == Top.r IN
       /\ stack' = IF Top.from = "unblock" THEN Pop(Pop(stack)) ELSE Pop(stack)
       /\ requests' = IF Top.from = "ctor" THEN requests \cup {r} ELSE requests
    /\ UNCHANGED <<clientVars, diskVars, ibuf, outVars, active, scanning,
                   entries, sc, tbs, marked, known, myscanner, iready, fault>>

\* Output blocked: done() returns false.  The constructor and do_scan hand
\* the scanner to enqueue_scanner; unblock_handler just returns.
ScanBlocked ==
    /\ ScanFrameOn /\ ~oready
    /\ LET r == Top.r IN
       IF Top.from = "unblock"
         THEN /\ stack' = Pop(Pop(stack))
              /\ UNCHANGED <<requests, myscanner, iready, fault>>
         ELSE /\ EnqueueScanner(r)
              /\ requests' = IF Top.from = "ctor" THEN requests \cup {r}
                                                  ELSE requests
              /\ stack' = Pop(stack)
    /\ UNCHANGED <<clientVars, diskVars, ibuf, outVars, active, scanning,
                   entries, sc, tbs, marked, known>>

-----------------------------------------------------------------------------
(***************************************************************************)
(* TCP_Client::unblock_handler: continue my_scanner, if any; if it has    *)
(* finished, scan queued interests while the client stays ready; if it is *)
(* still ready at the end, enable input, which delivers buffered requests *)
(* only if input had been disabled.                                        *)
(***************************************************************************)
UnblockOn(ph) ==
    fault = "none" /\ stack # <<>> /\ Top.k = "unblock" /\ Top.from = ph

\* Mutant of UnblockStart: queued interests are scanned before my_scanner
\* is continued.
UnblockStartQueueFirst ==
    /\ UnblockOn("start")
    /\ stack' = IF myscanner # NoReq /\ tbs = {}
                  THEN Append(SetTop(stack, [Top EXCEPT !.from = "wait"]),
                              Frame("scan", myscanner, "unblock", 0, {}))
                  ELSE SetTop(stack, [Top EXCEPT !.from = "queue"])
    /\ UNCHANGED <<clientVars, diskVars, ibuf, iready, outVars, requests,
                   active, scanning, entries, sc, myscanner, tbs, marked,
                   known, fault>>

UnblockStart ==
    /\ UnblockOn("start")
    /\ stack' = IF myscanner # NoReq
                  THEN Append(SetTop(stack, [Top EXCEPT !.from = "wait"]),
                              Frame("scan", myscanner, "unblock", 0, {}))
                  ELSE SetTop(stack, [Top EXCEPT !.from = "queue"])
    /\ UNCHANGED <<clientVars, diskVars, ibuf, iready, outVars, requests,
                   active, scanning, entries, sc, myscanner, tbs, marked,
                   known, fault>>

\* to_be_scanned is a Set ordered by address, so any queued interest may
\* come first.
UnblockScan ==
    /\ UnblockOn("queue") /\ oready /\ tbs # {}
    /\ \E ip \in tbs : ScanInterest(ip, stack, tbs \ {ip})
    /\ UNCHANGED <<clientVars, diskVars, ibuf, requests, active, entries,
                   myscanner, fault>>

UnblockEnd ==
    /\ UnblockOn("queue") /\ ~(oready /\ tbs # {})
    /\ iready' = (iready \/ oready)
    /\ stack' = IF oready /\ ~iready /\ ibuf # <<>>
                  THEN SetTop(stack, Frame("deliver", NoReq, "-", 0, {}))
                  ELSE Pop(stack)
    /\ UNCHANGED <<clientVars, diskVars, ibuf, outVars, requests, active,
                   scanning, entries, sc, myscanner, tbs, marked, known,
                   fault>>

(***************************************************************************)
(* Interest::imon_handler walks the hash chain and calls scan() on every  *)
(* interest with the event's inode.  Interests deleted meanwhile have     *)
(* left the chain.                                                         *)
(***************************************************************************)
Live(p) == p[1] \in requests /\ (p[2] = DirSelf \/ p[2] \in entries[p[1]])

ImonScan ==
    /\ fault = "none" /\ stack # <<>> /\ Top.k = "imon"
    /\ \E p \in Top.todo :
         /\ Live(p)
         /\ ScanInterest(p, SetTop(stack, [Top EXCEPT !.todo = @ \ {p}]), tbs)
    /\ UNCHANGED <<clientVars, diskVars, ibuf, requests, active, entries,
                   myscanner, fault>>

ImonEnd ==
    /\ fault = "none" /\ stack # <<>> /\ Top.k = "imon"
    /\ \A p \in Top.todo : ~Live(p)
    /\ stack' = Pop(stack)
    /\ UNCHANGED <<clientVars, diskVars, ibuf, iready, outVars, requests,
                   active, scanning, entries, sc, myscanner, tbs, marked,
                   known, fault>>

(***************************************************************************)
(* The loop at the end of Directory::resume: every entry that needs a     *)
(* scan is scanned (or queued, once output blocks).                        *)
(***************************************************************************)
ResumeOn(ph) ==
    fault = "none" /\ stack # <<>> /\ Top.k = "resume" /\ Top.from = ph

ResumeLoop ==
    /\ ResumeOn("loop0")
    /\ stack' = SetTop(stack, [Top EXCEPT !.from = "loop",
                                          !.todo = EntriesOf(Top.r) \cap marked])
    /\ UNCHANGED <<clientVars, diskVars, ibuf, iready, outVars, requests,
                   active, scanning, entries, sc, myscanner, tbs, marked,
                   known, fault>>

ResumeScan ==
    /\ ResumeOn("loop") /\ Top.todo # {}
    /\ \E p \in Top.todo :
         ScanInterest(p, SetTop(stack, [Top EXCEPT !.todo = @ \ {p}]), tbs)
    /\ UNCHANGED <<clientVars, diskVars, ibuf, requests, active, entries,
                   myscanner, fault>>

ResumeEnd ==
    /\ ResumeOn("loop") /\ Top.todo = {}
    /\ stack' = Pop(stack)
    /\ UNCHANGED <<clientVars, diskVars, ibuf, iready, outVars, requests,
                   active, scanning, entries, sc, myscanner, tbs, marked,
                   known, fault>>

-----------------------------------------------------------------------------
\* Steps of the daemon, which the select() loop and the call stack drive.
Daemon ==
    \/ Recv \/ WriteReady \/ ImonEvent
    \/ DeliverMsg \/ DeliverEnd
    \/ ScanRead \/ ScanDelete \/ ScanDone \/ ScanBlocked \/ ScanPostAssert
    \/ UnblockStart \/ UnblockScan \/ UnblockEnd
    \/ ImonScan \/ ImonEnd
    \/ ResumeLoop \/ ResumeScan \/ ResumeEnd

Next ==
    \/ fault = "none" /\ (ClientSend \/ DiskOp)
    \/ Daemon

\* The select() loop serves every ready descriptor, and the client keeps
\* reading its socket: an arrived request, a writable socket and a queued
\* kernel event are each eventually handled, and a handler that has begun
\* runs on.  The client and the other processes owe nothing.
Fairness ==
    /\ WF_vars(Recv) /\ WF_vars(WriteReady) /\ WF_vars(ImonEvent)
    /\ WF_vars(Daemon)

Spec == Init /\ [][Next]_vars /\ Fairness

-----------------------------------------------------------------------------
TypeOK ==
    /\ wire \in Seq(Msgs) /\ ibuf \in Seq(Msgs)
    /\ nsent \in 0..MaxSend /\ used \subseteq Req
    /\ present \subseteq Names /\ ver \in [Names -> Nat]
    /\ nops \in 0..MaxDiskOps /\ imonq \subseteq Names \cup {DirSelf}
    /\ iready \in BOOLEAN /\ oready \in BOOLEAN
    /\ requests \subseteq Req
    /\ active \in [Req -> BOOLEAN] /\ scanning \in [Req -> BOOLEAN]
    /\ entries \in [Req -> SUBSET Names]
    /\ \A r \in Req : sc[r].ev \in {"none", "Exists", "Created"}
                      /\ sc[r].todo \cup sc[r].seen \subseteq Names
    /\ myscanner \in Req \cup {NoReq}
    /\ tbs \subseteq Interests /\ marked \subseteq Interests
    /\ known \in [EntryIds -> Nat]
    /\ \A i \in 1..Len(stack) : stack[i].k \in Kinds /\ stack[i].from \in Froms
    /\ fault \in Faults
    /\ view \in [Req -> SUBSET Names] /\ endexist \subseteq Req
    /\ lastPost.ev \in EventKinds

\* A directory that is being scanned or monitored.
Monitored(r) == r \in requests \/ scanning[r]

\* What the client has been told agrees with the DirEntry list: every name
\* it believes exists has a DirEntry, and every DirEntry whose last lstat
\* found a file has been reported to it (by the scanner's Exists/Created or
\* by the entry's own Created).  Broken by any path of the scanner or of
\* Interest::do_stat that changes the list or old_stat without posting.
ViewConsistent ==
    fault = "none" =>
      \A r \in Req : Monitored(r) =>
        /\ view[r] \subseteq entries[r]
        /\ {n \in entries[r] : known[<<r, n>>] # 0} \subseteq view[r]

\* No Created, Deleted or Changed event reaches the client before the
\* EndExist that closes the directory's initial listing: entry scans
\* requested during the initial scan wait in to_be_scanned until
\* unblock_handler has finished my_scanner.
EndExistFirst ==
    lastPost.ev \in {"Created", "Deleted", "Changed"} => lastPost.r \in endexist

\* Every event is generated while the connection's output is unblocked:
\* each path that posts checks ready_for_events first, so mprintf never
\* queues behind a blocked socket and flush never calls the unblock
\* handler from inside another handler.
NoEventWhileBlocked == ~lastPost.blocked

\* Once the directory stops changing and every kernel event has been
\* handled, each active request's client view equals the directory.
Converges ==
    <>[](fault # "none" \/ \A r \in requests : active[r] => view[r] = present)

\* Each failed assertion or use of freed memory the daemon can reach.
NotDeletedWhileScanning == fault # "DeleteWhileScanning"
NoDanglingQueue == fault # "DanglingScanQueue"

\* Every request that reached the daemon's input buffer is eventually
\* handed to input_msg (NetConnection::set_handlers delivers buffered input
\* when input is re-enabled).
InputDelivered == ibuf # <<>> ~> (ibuf = <<>> \/ fault # "none")
====
