---------------------------- MODULE ServerHost ----------------------------
(***************************************************************************)
(* The remote-host proxy of famd: one ServerHost (src/src/ServerHost.c++)  *)
(* with its RPC_TCP_Connector (src/src/RPC_TCP_Connector.c++), the         *)
(* ServerConnection to the fam on the NFS server, that server's request    *)
(* table, the Pollster's membership of the host, and the deferred-scan     *)
(* queue that defeats the NFS attribute cache.                             *)
(*                                                                         *)
(* Requests are numbered 1..MaxReq as send_monitor numbers them.  The      *)
(* connector's socket calls are nondeterministic outcomes; a call that     *)
(* completes at once runs the next handler synchronously, as the code      *)
(* does.  Timers of the connector and of the idle timeout may fire at any  *)
(* time.  The deferred scans' due times are kept relative to the present *)
(* second (an element is due when its `when` is <= 0), and Tick moves    *)
(* them all one second closer.                                          *)
(***************************************************************************)
EXTENDS Integers, FiniteSets, Sequences, SequencesExt

CONSTANTS
    MaxReq,            \* request numbers send_monitor may hand out
    CacheTimeouts,     \* attribute-cache timeouts of the host's file systems, s
    RemotePolling,     \* Pollster::remote_polling_enabled (option -l)
    MaxPeerEvents,     \* bound on the events the server's fam sends
    MaxLate,           \* seconds the scheduler may run a due task late
    MaxRetryInterval,  \* RPC_TCP_Connector MAX_RETRY_INTERVAL (1024 s)
    RetryInterval,     \* ServerHost RETRY_INTERVAL (10 s)
    MaxInFlight        \* bound on requests written and not yet read

\* Constants of the code.
InitialRetryInterval == 1      \* RPC_TCP_Connector INITIAL_RETRY_INTERVAL

VARIABLES
    reqs,        \* keys of ServerHost::requests
    suspended,   \* requests whose ClientInterest is not active()
    unique,      \* ServerHost::unique_request
    conn,        \* connection != NULL
    toPeer,      \* messages written on the connection, not yet read
    peer,        \* the server fam's view: request -> status
    fromPeer,    \* events sent by the server fam, not yet read
    nev,         \* events sent so far (bounded by MaxPeerEvents)
    cstate,      \* RPC_TCP_Connector::state
    wh,          \* connector's write handler installed (sockfd >= 0)
    retryTask,   \* connector's retry_task installed
    interval,    \* RPC_TCP_Connector::retry_interval
    polled,      \* host is in Pollster::polled_hosts
    timeoutTask, \* ServerHost::timeout_task installed
    dq,          \* the deferred_scans list
    lastIdx,     \* position of ServerHost::last in dq (0 = NULL)
    minTime,     \* ServerHost::min_time = due time of the scan task
    wOf,         \* attribute-cache timeout of each request's file system
    fault        \* an assertion of the code that failed

connVars == <<cstate, wh, retryTask, interval>>
linkVars == <<conn, toPeer, peer, fromPeer>>
dqVars == <<dq, lastIdx, minTime>>
vars == <<reqs, suspended, unique, wOf, nev, polled, timeoutTask, fault,
          connVars, linkVars, dqVars>>

Requests == 1..MaxReq
\* min_time == 0 (no scan task): a due time no task can have.
NoTask == -MaxLate - 1
MaxRetryExp == CHOOSE k \in 0..10 : 2^k = MaxRetryInterval
CStates == {"IDLE", "PMAPPING", "CONNECTING", "PAUSING"}
Ops == {"monitor", "cancel", "suspend", "resume"}
Msg(op, r) == [op |-> op, r |-> r]
PeerStatus == {"none", "active", "suspended"}
EventKinds == {"Changed", "Created", "Other"}

\* What the server fam should know of request r.
LocalStatus(r) ==
    IF r \notin reqs THEN "none"
    ELSE IF r \in suspended THEN "suspended" ELSE "active"

Active == reqs # {}                          \* ServerHost::active

(***************************************************************************)
(* RPC_TCP_Connector.  An attempt is described by its outcome: the new     *)
(* state, whether a write handler and a retry task are installed, the new  *)
(* retry interval, and whether connect_handler was called.                 *)
(***************************************************************************)
Outcome(st, w, rt, iv, up) ==
    [st |-> st, wh |-> w, retry |-> rt, iv |-> iv, up |-> up]

\* Mutant: the interval doubles without the cap.
TryAgainNoCap(iv) ==
    [st |-> "PAUSING", wh |-> FALSE, retry |-> TRUE, iv |-> 2 * iv,
     up |-> FALSE]

\* try_again: pause, install retry_task, double the interval up to the cap.
TryAgain(iv) ==
    Outcome("PAUSING", FALSE, TRUE,
            IF iv < MaxRetryInterval THEN 2 * iv ELSE iv, FALSE)

RECURSIVE TryToConnect(_, _), WriteHandler(_, _)

\* try_to_connect: rresvport fails or connect fails (try_again); FIONBIO
\* fails (deactivate); connect is in progress (install write handler);
\* connect completes at once (write_handler now).
TryToConnect(st, iv) ==
    {TryAgain(iv),
     Outcome("IDLE", FALSE, FALSE, iv, FALSE),
     Outcome(st, TRUE, FALSE, iv, FALSE)}
    \cup WriteHandler(st, iv)

\* write_handler: connect failed (try_again); connected to the portmapper:
\* the GETPORT call fails (try_again) or gives a port (try_to_connect to
\* it); connected to fam: go IDLE and call connect_handler.
WriteHandler(st, iv) ==
    {TryAgain(iv)}
    \cup (IF st = "PMAPPING" THEN TryToConnect("CONNECTING", iv)
          ELSE {Outcome("IDLE", FALSE, FALSE, iv, TRUE)})

ApplyOutcome(o) ==
    /\ cstate' = o.st
    /\ wh' = o.wh
    /\ retryTask' = o.retry
    /\ interval' = o.iv

Resync ==
    LET rs == SetToSortSeq(reqs, <)
    IN FlattenSeq([i \in 1..Len(rs) |->
          <<Msg("monitor", rs[i])>> \o
          (IF rs[i] \in suspended THEN <<Msg("suspend", rs[i])>> ELSE <<>>)])

ConnectHandler ==
    /\ conn' = TRUE
    /\ toPeer' = Resync
    /\ polled' = FALSE
    /\ UNCHANGED <<peer, fromPeer>>

\* The connection is gone: the server fam forgets this client's requests.
LinkDown ==
    /\ conn' = FALSE
    /\ toPeer' = <<>>
    /\ fromPeer' = <<>>
    /\ peer' = [r \in Requests |-> "none"]

\* A write on the connection (ServerConnection::send_*), if there is one.
\* The output queue is unbounded in the code; the model's bound lets a
\* client call write only while fewer than MaxInFlight messages are
\* unread (connect_handler's resend is not bounded).
SendIfConnected(m) ==
    /\ Len(toPeer) < MaxInFlight
    /\ toPeer' = IF conn THEN Append(toPeer, m) ELSE toPeer
    /\ UNCHANGED <<conn, peer, fromPeer>>

(***************************************************************************)
(* The deferred-scan list.  A list state is a record: q the list, li the   *)
(* position of `last`, mt min_time.  An element carries the request,      *)
(* whether it names an entry (a path), and its retries left.               *)
(***************************************************************************)
DQState == [q |-> dq, li |-> lastIdx, mt |-> minTime]

\* The position after which the middle case of defer_scan inserts: prev
\* walks on while the element after it is due strictly earlier.
InsertPos(q, t) ==
    CHOOSE i \in 1..Len(q) :
        /\ \A j \in 2..i : q[j].when < t
        /\ i = Len(q) \/ q[i + 1].when >= t

\* Mutant: the scan task is installed only when none is; an earlier
\* element does not move it.
DeferScanFirstOnly(s, ds) ==
    LET q == s.q
        t == ds.when
        mt == IF s.mt = NoTask THEN t ELSE s.mt
    IN  IF q = <<>> \/ Head(q).when >= t
        THEN [s EXCEPT !.q = <<ds>> \o q,
                       !.li = IF s.li = 0 THEN 1 ELSE s.li + 1, !.mt = mt]
        ELSE IF q[s.li].when <= t
        THEN [s EXCEPT !.q = SubSeq(q, 1, s.li) \o <<ds>>,
                       !.li = s.li + 1, !.mt = mt]
        ELSE [s EXCEPT !.q = InsertAt(q, InsertPos(q, t) + 1, ds),
                       !.li = s.li + 1, !.mt = mt]

\* ServerHost::defer_scan with the element ds (ds.when is absolute): put it
\* at the head, after `last`, or in the middle, and move the scan task
\* earlier if ds is due before min_time.
DeferScan(s, ds) ==
    LET q == s.q
        t == ds.when
        mt == IF s.mt = NoTask \/ t < s.mt THEN t ELSE s.mt
    IN  IF q = <<>> \/ Head(q).when >= t
        THEN [s EXCEPT !.q = <<ds>> \o q,
                       !.li = IF s.li = 0 THEN 1 ELSE s.li + 1, !.mt = mt]
        ELSE IF q[s.li].when <= t
        THEN [s EXCEPT !.q = SubSeq(q, 1, s.li) \o <<ds>>,
                       !.li = s.li + 1, !.mt = mt]
        ELSE [s EXCEPT !.q = InsertAt(q, InsertPos(q, t) + 1, ds),
                       !.li = s.li + 1, !.mt = mt]

\* One due element of deferred_scan_task: its request is gone, or its
\* entry is gone, or the scan saw a change (nothing more to do), or it saw
\* none: reschedule one RETRY_INTERVAL later while retries remain.
ScanDeferred(s, ds) ==
    IF ds.r \notin reqs THEN {s}
    ELSE {s} \cup
         {IF ds.retries > 0
          THEN DeferScan(s, [ds EXCEPT !.when = RetryInterval + 1,
                                       !.retries = ds.retries - 1])
          ELSE s}

\* Delete the head; `last` becomes NULL when the list empties.
Unlink(s) ==
    [s EXCEPT !.q = Tail(s.q),
              !.li = IF Len(s.q) = 1 THEN 0 ELSE s.li - 1]

RECURSIVE RunDue(_)
\* The loop of deferred_scan_task over every element already due.
RunDue(s) ==
    IF s.q = <<>> \/ Head(s.q).when > 0 THEN {s}
    ELSE UNION {RunDue(Unlink(t)) : t \in ScanDeferred(s, Head(s.q))}

SetDQ(s) ==
    /\ dq' = s.q
    /\ lastIdx' = s.li
    /\ minTime' = s.mt

-----------------------------------------------------------------------------
Init ==
    /\ reqs = {} /\ suspended = {} /\ unique = 1
    /\ wOf = [r \in Requests |-> 0]
    /\ conn = FALSE /\ toPeer = <<>> /\ fromPeer = <<>> /\ nev = 0
    /\ peer = [r \in Requests |-> "none"]
    /\ cstate = "IDLE" /\ wh = FALSE /\ retryTask = FALSE
    /\ interval = InitialRetryInterval
    /\ polled = FALSE /\ timeoutTask = FALSE
    /\ dq = <<>> /\ lastIdx = 0 /\ minTime = NoTask
    /\ fault = "none"

\* Mutant: activate leaves the idle timeout of a live connection installed.
ActivateKeepTimeout ==
    \/ /\ conn
       /\ UNCHANGED <<connVars, polled, timeoutTask>>
    \/ /\ ~conn
       /\ cstate = "IDLE"
       /\ \E o \in TryToConnect("PMAPPING", InitialRetryInterval) :
             /\ ~o.up
             /\ ApplyOutcome(o)
       /\ polled' = RemotePolling
       /\ UNCHANGED timeoutTask

\* ServerHost::activate, for a host with no requests: keep a live
\* connection (cancel its idle timeout), or start the connector and hand
\* the host to the Pollster.  A connection that completes inside
\* connector.activate() is the action SendMonitorConnectsAtOnce.
Activate ==
    \/ /\ conn
       /\ timeoutTask' = FALSE
       /\ UNCHANGED <<connVars, polled>>
    \/ /\ ~conn
       /\ cstate = "IDLE"
       /\ \E o \in TryToConnect("PMAPPING", InitialRetryInterval) :
             /\ ~o.up
             /\ ApplyOutcome(o)
       /\ polled' = RemotePolling
       /\ UNCHANGED timeoutTask

\* ServerHost::send_monitor (from NFSFileSystem::hl_monitor): activate if
\* idle, take the next request number, tell the server fam if connected.
SendMonitor ==
    /\ fault = "none"
    /\ unique <= MaxReq
    /\ \E w \in CacheTimeouts : wOf' = [wOf EXCEPT ![unique] = w]
    /\ IF Active THEN UNCHANGED <<connVars, polled, timeoutTask>>
       ELSE Activate
    /\ SendIfConnected(Msg("monitor", unique))
    /\ reqs' = reqs \cup {unique}
    /\ unique' = unique + 1
    /\ UNCHANGED <<suspended, nev, fault, dqVars>>

\* The connector connects inside activate(): connect_handler runs before
\* send_monitor has inserted the request, and asserts host->active().
SendMonitorConnectsAtOnce ==
    /\ fault = "none"
    /\ unique <= MaxReq
    /\ ~Active /\ ~conn /\ cstate = "IDLE"
    /\ \E o \in TryToConnect("PMAPPING", InitialRetryInterval) : o.up
    /\ fault' = "ConnectWhileInactive"
    /\ UNCHANGED <<reqs, suspended, unique, wOf, nev, polled, timeoutTask,
                   connVars, linkVars, dqVars>>

\* ServerHost::deactivate: start the idle timeout of a live connection, or
\* stop the connector and leave the Pollster.
Deactivate ==
    \/ /\ conn
       /\ timeoutTask' = TRUE
       /\ UNCHANGED <<connVars, polled>>
    \/ /\ ~conn
       /\ cstate' = "IDLE" /\ wh' = FALSE /\ retryTask' = FALSE
       /\ UNCHANGED interval
       /\ polled' = FALSE
       /\ UNCHANGED timeoutTask

\* ServerHost::send_cancel: tell the server fam, forget r, deactivate when
\* it was the last request.
SendCancel(r) ==
    /\ fault = "none"
    /\ r \in reqs
    /\ SendIfConnected(Msg("cancel", r))
    /\ reqs' = reqs \ {r}
    /\ suspended' = suspended \ {r}
    /\ IF reqs' = {} THEN Deactivate
       ELSE UNCHANGED <<connVars, polled, timeoutTask>>
    /\ UNCHANGED <<unique, wOf, nev, fault, dqVars>>

\* ClientInterest::suspend of an active request: hl_suspend -> send_suspend.
SendSuspend(r) ==
    /\ fault = "none"
    /\ r \in reqs \ suspended
    /\ suspended' = suspended \cup {r}
    /\ SendIfConnected(Msg("suspend", r))
    /\ UNCHANGED <<reqs, unique, wOf, nev, polled, timeoutTask, fault,
                   connVars, dqVars>>

\* ClientInterest::resume of a suspended request: hl_resume -> send_resume.
SendResume(r) ==
    /\ fault = "none"
    /\ r \in suspended
    /\ suspended' = suspended \ {r}
    /\ SendIfConnected(Msg("resume", r))
    /\ UNCHANGED <<reqs, unique, wOf, nev, polled, timeoutTask, fault,
                   connVars, dqVars>>

\* RPC_TCP_Connector::write_handler: the pending connect has finished.
ConnectorWrite ==
    /\ fault = "none"
    /\ wh
    /\ \E o \in WriteHandler(cstate, interval) :
          /\ ApplyOutcome(o)
          /\ IF o.up THEN ConnectHandler ELSE UNCHANGED <<linkVars, polled>>
    /\ UNCHANGED <<reqs, suspended, unique, wOf, nev, timeoutTask,
                   fault, dqVars>>

\* RPC_TCP_Connector::retry_task: start over at the portmapper.
RetryTask ==
    /\ fault = "none"
    /\ retryTask
    /\ cstate = "PAUSING"
    /\ \E o \in TryToConnect("PMAPPING", interval) :
          /\ ApplyOutcome(o)
          /\ IF o.up THEN ConnectHandler ELSE UNCHANGED <<linkVars, polled>>
    /\ UNCHANGED <<reqs, suspended, unique, wOf, nev, timeoutTask,
                   fault, dqVars>>

\* Mutant: disconnect_handler reconnects without handing the host to the
\* Pollster.
PeerLostNoWatch ==
    /\ fault = "none"
    /\ conn
    /\ \/ /\ Active
          /\ \E o \in TryToConnect("PMAPPING", InitialRetryInterval) :
                /\ ApplyOutcome(o)
                /\ IF o.up
                   THEN /\ conn' = TRUE /\ toPeer' = Resync
                        /\ fromPeer' = <<>>
                        /\ peer' = [r \in Requests |-> "none"]
                        /\ polled' = FALSE
                   ELSE LinkDown /\ UNCHANGED polled
          /\ UNCHANGED timeoutTask
       \/ /\ ~Active
          /\ LinkDown
          /\ timeoutTask' = FALSE
          /\ UNCHANGED <<connVars, polled>>
    /\ UNCHANGED <<reqs, suspended, unique, wOf, nev, fault, dqVars>>

\* ServerHost::disconnect_handler, called by ServerConnection::input_msg
\* when the connection reads EOF.  An active host goes back to the Pollster
\* and reconnects; an idle one drops its idle timeout.
PeerLost ==
    /\ fault = "none"
    /\ conn
    /\ \/ /\ Active
          /\ \E o \in TryToConnect("PMAPPING", InitialRetryInterval) :
                /\ ApplyOutcome(o)
                /\ IF o.up
                   THEN /\ conn' = TRUE /\ toPeer' = Resync
                        /\ fromPeer' = <<>>
                        /\ peer' = [r \in Requests |-> "none"]
                        /\ polled' = FALSE
                   ELSE LinkDown /\ polled' = RemotePolling
          /\ UNCHANGED timeoutTask
       \/ /\ ~Active
          /\ LinkDown
          /\ timeoutTask' = FALSE
          /\ UNCHANGED <<connVars, polled>>
    /\ UNCHANGED <<reqs, suspended, unique, wOf, nev, fault, dqVars>>

\* ServerHost::timeout_task: close the connection of an idle host.
TimeoutTask ==
    /\ fault = "none"
    /\ timeoutTask
    /\ conn
    /\ LinkDown
    /\ timeoutTask' = FALSE
    /\ UNCHANGED <<reqs, suspended, unique, wOf, nev, polled, fault,
                   connVars, dqVars>>

\* The server fam reads a request (its TCP_Client::input_msg).
PeerRecv ==
    /\ fault = "none"
    /\ toPeer # <<>>
    /\ LET m == Head(toPeer)
           st == peer[m.r]
       IN peer' = [peer EXCEPT ![m.r] =
                     CASE m.op = "monitor" -> "active"
                       [] m.op = "cancel"  -> "none"
                       [] st = "none"      -> "none"
                       [] m.op = "suspend" -> "suspended"
                       [] OTHER            -> "active"]
    /\ toPeer' = Tail(toPeer)
    /\ UNCHANGED <<conn, fromPeer, reqs, suspended, unique, wOf, nev, polled,
                   timeoutTask, fault, connVars, dqVars>>

\* The server fam reports an event on one of its active requests.
PeerEvent ==
    /\ fault = "none"
    /\ conn
    /\ nev < MaxPeerEvents
    /\ \E r \in Requests, ev \in EventKinds :
          /\ peer[r] = "active"
          /\ fromPeer' = Append(fromPeer, [r |-> r, ev |-> ev])
    /\ nev' = nev + 1
    /\ UNCHANGED <<conn, toPeer, peer, reqs, suspended, unique, wOf, polled,
                   timeoutTask, fault, connVars, dqVars>>

\* ServerHost::event_handler: for a Changed (Deleted) or Created (Exists)
\* of a known request whose entry still exists, scan now and defer a
\* rescan min(wait, RETRY_INTERVAL) s later with (wait-1)/RETRY_INTERVAL
\* retries, when the file system caches attributes.
EventHandler ==
    /\ fault = "none"
    /\ fromPeer # <<>>
    /\ LET m == Head(fromPeer)
           w == wOf[m.r]
       IN \/ /\ \/ m.ev = "Other"
                \/ m.r \notin reqs
                \/ w = 0
                \/ m.ev = "Changed"      \* find_name found no entry
             /\ UNCHANGED dqVars
          \/ /\ m.ev \in {"Changed", "Created"}
             /\ m.r \in reqs
             /\ w > 0
             /\ SetDQ(DeferScan(DQState,
                   [when |-> (IF w < RetryInterval THEN w
                                    ELSE RetryInterval) + 1,
                    retries |-> (w - 1) \div RetryInterval,
                    r |-> m.r, path |-> m.ev = "Changed"]))
    /\ fromPeer' = Tail(fromPeer)
    /\ UNCHANGED <<conn, toPeer, peer, reqs, suspended, unique, wOf, nev,
                   polled, timeoutTask, fault, connVars>>

\* ServerHost::deferred_scan_task: run every element already due, then
\* install the task for the new head, or clear min_time.
DeferredScanTask ==
    /\ fault = "none"
    /\ minTime # NoTask
    /\ minTime <= 0
    /\ \E s \in RunDue(DQState) :
          SetDQ([s EXCEPT !.mt = IF s.q # <<>> THEN Head(s.q).when ELSE NoTask])
    /\ UNCHANGED <<linkVars, reqs, suspended, unique, wOf, nev, polled,
                   timeoutTask, fault, connVars>>

\* The clock only matters to the deferred scans, so it moves only while
\* one is pending.
Tick ==
    /\ fault = "none"
    /\ dq # <<>>
    /\ Head(dq).when > -MaxLate
    /\ dq' = [i \in 1..Len(dq) |-> [dq[i] EXCEPT !.when = @ - 1]]
    /\ minTime' = minTime - 1
    /\ UNCHANGED <<linkVars, reqs, suspended, unique, wOf, nev, polled,
                   timeoutTask, fault, connVars, lastIdx>>

Next ==
    \/ SendMonitor
    \/ SendMonitorConnectsAtOnce
    \/ \E r \in Requests : SendCancel(r) \/ SendSuspend(r) \/ SendResume(r)
    \/ ConnectorWrite
    \/ RetryTask
    \/ PeerLost
    \/ TimeoutTask
    \/ PeerRecv
    \/ PeerEvent
    \/ EventHandler
    \/ DeferredScanTask
    \/ Tick

Spec == Init /\ [][Next]_vars

-----------------------------------------------------------------------------
(* Properties *)

TypeOK ==
    /\ reqs \subseteq Requests /\ suspended \subseteq reqs
    /\ unique \in 1..(MaxReq + 1)
    /\ wOf \in [Requests -> CacheTimeouts \cup {0}]
    /\ conn \in BOOLEAN /\ toPeer \in Seq([op : Ops, r : Requests])
    /\ peer \in [Requests -> PeerStatus]
    /\ fromPeer \in Seq([r : Requests, ev : EventKinds])
    /\ cstate \in CStates /\ wh \in BOOLEAN /\ retryTask \in BOOLEAN
    /\ interval \in {2^k : k \in 0..MaxRetryExp}
    /\ polled \in BOOLEAN /\ timeoutTask \in BOOLEAN
    /\ lastIdx \in 0..Len(dq)
    /\ minTime \in {NoTask} \cup (-MaxLate)..(RetryInterval + 1)

PolledIffUnconnected ==
    fault = "none" => (polled <=> (RemotePolling /\ Active /\ ~conn))

\* The idle timeout is pending only on a live connection of a host with no
\* requests: send_monitor cancels it and disconnect_handler removes it, so
\* timeout_task never closes the connection of an active host.
IdleTimeoutOnlyWhenIdle ==
    timeoutTask => (conn /\ ~Active)

\* The deferred-scan list is sorted by due time, `last` is its tail, and
\* the installed scan task is due exactly when the head is: defer_scan's
\* three insertion cases and deferred_scan_task's loop, which reinserts
\* into the list it is walking, keep the three in step.
DeferredQueueOrdered ==
    /\ \A i, j \in 1..Len(dq) : i < j => dq[i].when <= dq[j].when
    /\ lastIdx = Len(dq)
    /\ minTime = IF dq = <<>> THEN NoTask ELSE Head(dq).when
====
