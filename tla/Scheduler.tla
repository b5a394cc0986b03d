------------------------------ MODULE Scheduler ------------------------------
(***************************************************************************)
(* The select() reactor of famd (Scheduler.c++) together with the code    *)
(* that installs and removes its handlers and tasks: the flow control of  *)
(* NetConnection (set_handlers, shutdown), the Listener (accept_client    *)
(* and the UNIX-domain negotiation of create_local_client,                *)
(* accept_localclient, cleanup_negotiation), the idle timer of Activity,  *)
(* the lazy open of the kernel monitor (IMon::is_active) and the          *)
(* Pollster's recurring task (start_polling, stop_polling).               *)
(*                                                                         *)
(* The fdinfo array is two functions from descriptors to handlers, with   *)
(* the two fd_sets and nfds.  A handler is named by the function the code *)
(* installs; its closure is the object that owns the descriptor.  Time    *)
(* is kept relative to the present: a task's `when` and the recurring     *)
(* task's next_task_time are offsets from now, and select() moves them.   *)
(* The kernel's descriptor table is `open`; socket(), accept() and        *)
(* open() return its lowest free descriptor, as POSIX requires.           *)
(*                                                                         *)
(* What a client, the kernel monitor or the Pollster does inside a        *)
(* handler is reduced to what it does to the scheduler: a post that       *)
(* blocks output (set_handlers(iready, false)), work queued for scanning   *)
(* (ready_for_input(false)), the first or last polled interest, a request *)
(* for a local socket, or the loss of the connection.                     *)
(***************************************************************************)
EXTENDS Integers, Sequences, FiniteSets

SX == INSTANCE SequencesExt

CONSTANTS
    Fds,          \* descriptors the process can hold: 0 .. n-1
    NcIds,        \* NegotiatingClient objects the heap can hand out
    IdleTime,     \* Activity::idle_time
    NegoTimeout,  \* create_local_client's 60 seconds
    PollInterval, \* Pollster::pintvl
    MaxLate,      \* how far past its timeout select() may return
    MaxJumps,     \* bound on backward jumps of the clock
    ListenCanFail,\* whether listen() on the new UNIX socket may fail
    Null

ASSUME /\ Fds = 0 .. (Cardinality(Fds) - 1) /\ Cardinality(Fds) >= 2
       /\ IdleTime \in Nat /\ NegoTimeout \in Nat \ {0}
       /\ PollInterval \in Nat \ {0} /\ MaxLate \in Nat /\ MaxJumps \in Nat

\* The listening socket set up by main() through set_rendezvous_fd.
RendezvousFd == 0

Handlers == {"accept_client", "accept_localclient", "imon_read",
             "conn_read", "conn_write"}
Procs == {"activity", "cleanup_negotiation"}
Kinds == {"rendezvous", "imon", "client", "nego"}
Faults == {"none", "assert", "null_handler", "select_failed"}

VARIABLES
    h,        \* fdinfo: [r |-> fd -> read handler, w |-> fd -> write handler]
    bits,     \* read.fds and write.fds
    nfds,     \* Scheduler::nfds
    tasks,    \* the one-time task list: <<[when, proc, cl], ...>>
    ntasks,   \* Scheduler::ntasks
    rec,      \* recurring_proc: Null, or [next |-> next_task_time]
    open,     \* the kernel's descriptor table: fd -> kind of owner, or Null
    conn,     \* NetConnection of a client fd: [iready, oready]
    count,    \* Activity::count
    polled,   \* client fds with a polled interest (Pollster::polled_interests)
    imon,     \* IMon::imonfd: -2 before the first open, -1 if it failed
    negtab,   \* negotiating_clients: fd -> NegotiatingClient, or Null
    ncs,      \* live NegotiatingClients: id -> nc->sock, or Null
    lsn,      \* which NegotiatingClient's socket listens on a fd (history)
    fault,    \* a failed assert, or a call through a NULL handler
    running,  \* Scheduler::running
    phase,    \* where select() is: "select", "write", "read", "recur", "onetime"
    cursor,   \* handle_io's loop variable
    ready,    \* the fd_sets select() returned: [r |-> SUBSET Fds, w |-> ...]
    jumps     \* backward clock jumps so far

vars == <<h, bits, nfds, tasks, ntasks, rec, open, conn, count, polled, imon,
          negtab, ncs, lsn, fault, running, phase, cursor, ready, jumps>>

(***************************************************************************)
(* Nested calls are operators on a record of the process's state.          *)
(***************************************************************************)
State == [h |-> h, bits |-> bits, nfds |-> nfds, tasks |-> tasks,
          ntasks |-> ntasks, rec |-> rec, open |-> open, conn |-> conn,
          count |-> count, polled |-> polled, imon |-> imon,
          negtab |-> negtab, ncs |-> ncs, lsn |-> lsn, fault |-> fault,
          running |-> running]

Apply(st) ==
    /\ h' = st.h /\ bits' = st.bits /\ nfds' = st.nfds /\ tasks' = st.tasks
    /\ ntasks' = st.ntasks /\ rec' = st.rec /\ open' = st.open
    /\ conn' = st.conn /\ count' = st.count /\ polled' = st.polled
    /\ imon' = st.imon /\ negtab' = st.negtab /\ ncs' = st.ncs
    /\ lsn' = st.lsn /\ fault' = st.fault /\ running' = st.running

\* An assert that fails aborts the process; the first failure is kept.
Fail(st, f) == IF st.fault = "none" THEN [st EXCEPT !.fault = f] ELSE st
Check(st, cond) == IF cond THEN st ELSE Fail(st, "assert")

\* The lowest free descriptor, or Null when the table is full (EMFILE).
LowestFree(st) ==
    LET free == {fd \in Fds : st.open[fd] = Null}
    IN IF free = {} THEN Null ELSE SX!Min(free)

(***************************************************************************)
(* The fdinfo array (Scheduler::fd_to_info, trim_fdinfo,                   *)
(* install_io_handler, remove_io_handler).  Entries at or beyond nfds are  *)
(* zero, as fd_to_info's memset leaves them.                               *)
(***************************************************************************)
FdToInfo(st, fd) == IF st.nfds < fd + 1 THEN [st EXCEPT !.nfds = fd + 1] ELSE st

\* Shrink nfds while its last entry has neither handler.
RECURSIVE TrimFrom(_, _)
TrimFrom(st, n) ==
    IF n > 0 /\ st.h.r[n - 1] = Null /\ st.h.w[n - 1] = Null
    THEN TrimFrom(st, n - 1) ELSE n
Trim(st) == [st EXCEPT !.nfds = TrimFrom(st, st.nfds)]

InstallIO(st, k, fd, hd) ==
    LET s1 == FdToInfo(st, fd)
        old == s1.h[k][fd]
        s2 == [s1 EXCEPT !.h[k][fd] = hd, !.bits[k] = @ \cup {fd}]
    IN Check(s2, old = Null \/ fd \in s1.bits[k])

\* remove_io_handler, with the caller's assert on the handler it returns.
RemoveIO(st, k, fd, expect) ==
    IF ~(fd < st.nfds) THEN Fail(st, "assert")
    ELSE LET old == st.h[k][fd]
             s1 == Trim([st EXCEPT !.h[k][fd] = Null])
         IN Check([s1 EXCEPT !.bits[k] = @ \ {fd}],
                  old # Null /\ (expect = Null \/ old = expect))

(***************************************************************************)
(* Timed tasks (install_onetime_task, remove_onetime_task,                 *)
(* install_recurring_task, remove_recurring_task).                         *)
(***************************************************************************)
\* The new task goes before the first one not due strictly earlier, so
\* tasks due at the same time run last-installed first.
InstallOnetime(st, when, proc, cl) ==
    LET q == st.tasks
        i == CHOOSE i \in 1 .. Len(q) + 1 :
               /\ \A j \in 1 .. i - 1 : q[j].when < when
               /\ i <= Len(q) => q[i].when >= when
    IN [st EXCEPT !.tasks = SX!InsertAt(q, i, [when |-> when, proc |-> proc,
                                               cl |-> cl]),
                  !.ntasks = @ + 1]

\* Mutant: ntasks is decremented even when no task matched.
RemoveOnetimeAlwaysCount(st, proc, cl) ==
    LET i == SX!SelectInSeq(st.tasks, LAMBDA t : t.proc = proc /\ t.cl = cl)
    IN IF i = 0 THEN [st EXCEPT !.ntasks = @ - 1]
       ELSE [st EXCEPT !.tasks = SX!RemoveAt(@, i), !.ntasks = @ - 1]

\* The first task with this proc and closure, if any, is unlinked.
RemoveOnetime(st, proc, cl) ==
    LET i == SX!SelectInSeq(st.tasks, LAMBDA t : t.proc = proc /\ t.cl = cl)
    IN IF i = 0 THEN st
       ELSE [st EXCEPT !.tasks = SX!RemoveAt(@, i), !.ntasks = @ - 1]

\* Pollster::start_polling and stop_polling, with the asserts of
\* install_recurring_task and remove_recurring_task.
InstallRecurring(st) ==
    Check([st EXCEPT !.rec = [next |-> PollInterval], !.ntasks = @ + 1],
          st.rec = Null)
RemoveRecurring(st) ==
    Check([st EXCEPT !.rec = Null, !.ntasks = @ - 1], st.rec # Null)

(***************************************************************************)
(* Activity: one per TCP_Client.  The last one to go arms the idle task;   *)
(* the first one to come disarms it.                                        *)
(***************************************************************************)
\* Mutant: the constructor tests count without incrementing it.
ActivityCtorNoCount(st) ==
    IF st.count = 0 /\ IdleTime > 0
    THEN RemoveOnetime(st, "activity", Null) ELSE st

ActivityCtor(st) ==
    LET s1 == [st EXCEPT !.count = @ + 1]
    IN IF st.count = 0 /\ IdleTime > 0
       THEN RemoveOnetime(s1, "activity", Null) ELSE s1

ActivityDtor(st) ==
    LET s1 == [st EXCEPT !.count = @ - 1]
    IN IF s1.count = 0 /\ IdleTime > 0
       THEN InstallOnetime(s1, IdleTime, "activity", Null) ELSE s1

(***************************************************************************)
(* NetConnection's handler discipline: the read handler is installed iff   *)
(* iready && oready, the write handler iff !oready.                         *)
(***************************************************************************)
\* Mutant: the read handler follows iready alone.
SetHandlersIreadyOnly(st, fd, ni, no) ==
    LET c == st.conn[fd]
        s1 == IF c.oready = no THEN st
              ELSE IF no THEN RemoveIO(st, "w", fd, "conn_write")
              ELSE InstallIO(st, "w", fd, "conn_write")
        s2 == IF c.iready = ni THEN s1
              ELSE IF ni THEN InstallIO(s1, "r", fd, "conn_read")
                   ELSE RemoveIO(s1, "r", fd, "conn_read")
    IN [s2 EXCEPT !.conn[fd] = [iready |-> ni, oready |-> no]]

SetHandlers(st, fd, ni, no) ==
    LET c == st.conn[fd]
        s1 == IF c.oready = no THEN st
              ELSE IF no THEN RemoveIO(st, "w", fd, "conn_write")
              ELSE Check(InstallIO(st, "w", fd, "conn_write"),
                         st.h.w[fd] = Null)
        s2 == IF (c.iready /\ c.oready) = (ni /\ no) THEN s1
              ELSE IF ni /\ no
                   THEN Check(InstallIO(s1, "r", fd, "conn_read"),
                              s1.h.r[fd] = Null)
                   ELSE RemoveIO(s1, "r", fd, "conn_read")
    IN [s2 EXCEPT !.conn[fd] = [iready |-> ni, oready |-> no]]

\* shutdown(): drop the handlers the connection holds and close the fd.
Shutdown(st, fd) ==
    LET c == st.conn[fd]
        s1 == IF c.iready /\ c.oready THEN RemoveIO(st, "r", fd, "conn_read")
              ELSE st
        s2 == IF ~c.oready THEN RemoveIO(s1, "w", fd, "conn_write") ELSE s1
    IN [s2 EXCEPT !.open[fd] = Null]

\* The NetConnection and TCP_Client constructors for an accepted fd.
NewClient(st, fd) ==
    ActivityCtor(InstallIO([st EXCEPT !.open[fd] = "client",
                                      !.conn[fd] = [iready |-> TRUE,
                                                    oready |-> TRUE]],
                           "r", fd, "conn_read"))

\* input_msg(NULL): the TCP_Client deletes itself.  ~MxClient cancels its
\* requests, which may leave the Pollster with nothing to poll.
DeleteClient(st, fd) ==
    LET s1 == [st EXCEPT !.polled = @ \ {fd}]
        s2 == IF fd \in st.polled /\ s1.polled = {}
              THEN RemoveRecurring(s1) ELSE s1
    IN ActivityDtor(s2)

\* What a post or a rescan for a client can do to its flow control: the
\* send blocks (flush), and a scan suspended by it queues the client's
\* input (enqueue_scanner, enqueue_for_scan).
Disturb(st, fd) ==
    LET c == st.conn[fd]
        blocked == SetHandlers(st, fd, c.iready, FALSE)
    IN IF c.oready THEN {blocked, SetHandlers(blocked, fd, FALSE, FALSE)}
       ELSE {SetHandlers(st, fd, FALSE, FALSE)}

(***************************************************************************)
(* Listener and IMon.  A call whose outcome depends on the kernel gives    *)
(* the set of states it can end in.                                        *)
(***************************************************************************)
\* Listener::accept_client: accept() fails, or a TCP_Client is made.
AcceptClient(st) ==
    {st} \cup (IF LowestFree(st) = Null THEN {}
               ELSE {NewClient(st, LowestFree(st))})

\* Mutant: the NegotiatingClient is made without its cleanup task.
CreateLocalClientNoCleanup(st, c) ==
    LET sock == LowestFree(st)
        made(nc) ==
            [st EXCEPT !.ncs[nc] = sock,
                       !.negtab = IF @[sock] = Null
                                  THEN [@ EXCEPT ![sock] = nc] ELSE @]
        listening(nc) ==
            InstallIO([made(nc) EXCEPT !.open[sock] = "nego",
                                       !.lsn[sock] = nc],
                      "r", sock, "accept_localclient")
        replied(nc) ==
            {listening(nc),
             SetHandlers(listening(nc), c, st.conn[c].iready, FALSE)}
    IN {st} \cup
       (IF sock = Null THEN {}
        ELSE UNION {(IF ListenCanFail THEN {made(nc)} ELSE {})
                      \cup replied(nc) : nc \in {n \in NcIds : st.ncs[n] = Null}})

\* Listener::create_local_client, called from client c's 'N' request.  A
\* failure before the NegotiatingClient is made leaves nothing behind.  A
\* failed listen() closes the socket but keeps the table entry and the
\* cleanup task.  The reply is a post to c, which may block.
CreateLocalClient(st, c) ==
    LET sock == LowestFree(st)
        made(nc) ==
            InstallOnetime(
              [st EXCEPT !.ncs[nc] = sock,
                         !.negtab = IF @[sock] = Null
                                    THEN [@ EXCEPT ![sock] = nc] ELSE @],
              NegoTimeout, "cleanup_negotiation", nc)
        listening(nc) ==
            InstallIO([made(nc) EXCEPT !.open[sock] = "nego",
                                       !.lsn[sock] = nc],
                      "r", sock, "accept_localclient")
        replied(nc) ==
            {listening(nc),
             SetHandlers(listening(nc), c, st.conn[c].iready, FALSE)}
    IN {st} \cup
       (IF sock = Null THEN {}
        ELSE UNION {(IF ListenCanFail THEN {made(nc)} ELSE {})
                      \cup replied(nc) : nc \in {n \in NcIds : st.ncs[n] = Null}})

\* Listener::accept_localclient on negotiation socket ofd.
AcceptLocalClient(st, ofd) ==
    LET nc == st.negtab[ofd]
        cfd == LowestFree(st)
        s1 == RemoveOnetime(st, "cleanup_negotiation", nc)
        s2 == RemoveIO(NewClient(s1, cfd), "r", ofd, Null)
    IN IF nc = Null THEN {Fail(st, "assert")}
       ELSE {st} \cup
            (IF cfd = Null THEN {}
             ELSE {[s2 EXCEPT !.open[ofd] = Null, !.negtab[ofd] = Null,
                              !.ncs[nc] = Null]})

\* cleanup_negotiation: the socket nc made is unlisted, unwatched and
\* closed, whoever holds that descriptor now.
CleanupNegotiation(st, nc) ==
    LET sock == st.ncs[nc]
        s1 == RemoveIO([st EXCEPT !.negtab[sock] = Null], "r", sock, Null)
    IN [s1 EXCEPT !.open[sock] = Null, !.ncs[nc] = Null]

\* IMon::is_active: the first express opens the device and watches it.
ImonActive(st) ==
    LET fd == LowestFree(st)
    IN IF st.imon # -2 THEN {st}
       ELSE {[st EXCEPT !.imon = -1]} \cup
            (IF fd = Null THEN {}
             ELSE {InstallIO([st EXCEPT !.imon = fd, !.open[fd] = "imon"],
                             "r", fd, "imon_read")})

(***************************************************************************)
(* Handlers.                                                                *)
(***************************************************************************)
Clients(st) == {fd \in Fds : st.open[fd] = "client"}

\* A request that monitors a file: the kernel monitor is tried, and an
\* interest it cannot watch goes to the Pollster (Pollster::watch).
MonitorRequest(st, c) ==
    LET watch(s) == IF s.polled = {}
                    THEN InstallRecurring([s EXCEPT !.polled = {c}])
                    ELSE [s EXCEPT !.polled = @ \cup {c}]
    IN UNION {{s, watch(s)} \cup Disturb(s, c) : s \in ImonActive(st)}

\* A cancel of the client's last polled interest (Pollster::forget).
CancelRequest(st, c) ==
    IF c \in st.polled
    THEN LET s1 == [st EXCEPT !.polled = @ \ {c}]
         IN {st, IF s1.polled = {} THEN RemoveRecurring(s1) ELSE s1}
    ELSE {st}

\* NetConnection::read_handler: end of file or an error shuts the
\* connection down and deletes the client; a frame is a request.
ClientRead(st, c) ==
    {st, DeleteClient(Shutdown(st, c), c)}
    \cup MonitorRequest(st, c) \cup CancelRequest(st, c)
    \cup CreateLocalClient(st, c)

\* NetConnection::write_handler: flush() drains the queue or not.  When it
\* does, TCP_Client::unblock_handler rescans, which can block again, and
\* otherwise enables input.
ClientWrite(st, c) ==
    LET s1 == SetHandlers(st, c, st.conn[c].iready, TRUE)
    IN {st, SetHandlers(s1, c, TRUE, TRUE)} \cup Disturb(s1, c)

\* IMon::read_handler: Interest::imon_handler rescans interests of any
\* client, and a post may block that client's output.
ImonRead(st) == {st} \cup UNION {Disturb(st, c) : c \in Clients(st)}

\* Pollster::polling_task: a polled interest that changed is posted.
PollingTask(st) == {st} \cup UNION {Disturb(st, c) : c \in st.polled}

\* handle_io's call through fdinfo[fd]'s handler of kind k.
CallHandler(st, k, fd) ==
    CASE st.h[k][fd] = Null                 -> {Fail(st, "null_handler")}
      [] st.h[k][fd] = "accept_client"      -> AcceptClient(st)
      [] st.h[k][fd] = "accept_localclient" -> AcceptLocalClient(st, fd)
      [] st.h[k][fd] = "imon_read"          -> ImonRead(st)
      [] st.h[k][fd] = "conn_read"          -> ClientRead(st, fd)
      [] st.h[k][fd] = "conn_write"         -> ClientWrite(st, fd)

\* A one-time task's proc: Activity::task calls Scheduler::exit.
RunProc(st, t) ==
    IF t.proc = "activity" THEN [st EXCEPT !.running = FALSE]
    ELSE CleanupNegotiation(st, t.cl)

(***************************************************************************)
(* The main loop: Scheduler::loop runs select() while `running`.           *)
(***************************************************************************)
Init ==
    /\ open = [fd \in Fds |-> IF fd = RendezvousFd THEN "rendezvous" ELSE Null]
    /\ h = [r |-> [fd \in Fds |-> IF fd = RendezvousFd THEN "accept_client"
                                                     ELSE Null],
            w |-> [fd \in Fds |-> Null]]
    /\ bits = [r |-> {RendezvousFd}, w |-> {}]
    /\ nfds = RendezvousFd + 1
    /\ tasks = <<>> /\ ntasks = 0 /\ rec = Null
    /\ conn = [fd \in Fds |-> [iready |-> TRUE, oready |-> TRUE]]
    /\ count = 0 /\ polled = {} /\ imon = -2
    /\ negtab = [fd \in Fds |-> Null] /\ ncs = [n \in NcIds |-> Null]
    /\ lsn = [fd \in Fds |-> Null]
    /\ fault = "none" /\ running = TRUE
    /\ phase = "select" /\ cursor = 0 /\ ready = [r |-> {}, w |-> {}]
    /\ jumps = 0

\* Mutant: no timeout unless a recurring task exists.
CalcTimeoutRecurringOnly ==
    IF rec = Null THEN Null
    ELSE LET wake == IF ~(tasks # <<>> /\ Head(tasks).when < rec.next)
                     THEN rec.next ELSE Head(tasks).when
         IN IF wake < 0 THEN 0 ELSE wake

\* calc_timeout: Null for none, else the seconds until the earliest task.
\* With no recurring task and no one-time task it would read first_task
\* through a NULL pointer; TimersConsistent shows ntasks prevents that.
CalcTimeout ==
    IF ntasks = 0 THEN Null
    ELSE LET wake == IF rec # Null /\ ~(tasks # <<>> /\ Head(tasks).when < rec.next)
                     THEN rec.next ELSE Head(tasks).when
         IN IF wake < 0 THEN 0 ELSE wake

\* The clock moves by d seconds while select() waits (d < 0: it was set back).
Shift(d) ==
    /\ tasks' = [i \in DOMAIN tasks |-> [tasks[i] EXCEPT !.when = @ - d]]
    /\ rec' = IF rec = Null THEN Null ELSE [next |-> rec.next - d]

\* Scheduler::select: the kernel reports ready descriptors among those
\* registered, or the timeout expires.  A registered descriptor that is
\* closed makes select() fail with EBADF, and the process exits.
SelectFailed ==
    /\ phase = "select" /\ running /\ fault = "none"
    /\ \E fd \in bits.r \cup bits.w : open[fd] = Null
    /\ fault' = "select_failed"
    /\ UNCHANGED <<h, bits, nfds, tasks, ntasks, rec, open, conn, count, polled,
                   imon, negtab, ncs, lsn, running, phase, cursor, ready, jumps>>

\* The seconds select() can take: up to the timeout when descriptors are
\* ready, the timeout and at most MaxLate more when none is; or the clock
\* is set back one second.
Waits(R, W) ==
    LET t == CalcTimeout
    IN (IF R \cup W = {}
        THEN IF t = Null THEN {} ELSE t .. t + MaxLate
        ELSE 0 .. (IF t = Null THEN 0 ELSE t))
       \cup (IF jumps < MaxJumps THEN {-1} ELSE {})

SelectReturns(R, W, d) ==
    /\ phase = "select" /\ running /\ fault = "none"
    /\ \A fd \in bits.r \cup bits.w : open[fd] # Null
    /\ d \in Waits(R, W)
    /\ Shift(d)
    /\ jumps' = IF d < 0 THEN jumps + 1 ELSE jumps
    /\ ready' = [r |-> R, w |-> W]
    /\ cursor' = 0
    /\ phase' = IF R \cup W = {} THEN "recur" ELSE "write"
    /\ UNCHANGED <<h, bits, nfds, ntasks, open, conn, count, polled, imon,
                   negtab, ncs, lsn, fault, running>>

\* select() either fails (status -1, errno EBADF, and exit(1)) or returns.
Select ==
    IF \E fd \in bits.r \cup bits.w : open[fd] = Null
    THEN SelectFailed
    ELSE \E R \in SUBSET bits.r, W \in SUBSET bits.w :
           \E d \in Waits(R, W) : SelectReturns(R, W, d)

\* A select() during which the clock advanced, and the states in which one
\* can happen (ENABLED of it: a timeout is set, and it or the lateness
\* allowed is at least a second).  Whenever a timeout is set there is a
\* pending task, so the shift shows on the first task or the recurring one.
ClockRuns ==
    /\ Select
    /\ \/ tasks # <<>> /\ tasks'[1].when < tasks[1].when
       \/ rec # Null /\ rec'.next < rec.next
CanTick ==
    /\ phase = "select" /\ running /\ fault = "none"
    /\ \A fd \in bits.r \cup bits.w : open[fd] # Null
    /\ CalcTimeout # Null /\ CalcTimeout + MaxLate >= 1

\* handle_io: the next descriptor at or after the cursor that was ready,
\* while fd < nfds (nfds re-read on every iteration); writes, then reads.
NextReady(k) == {fd \in ready[k] : fd >= cursor /\ fd < nfds}

HandleIO(k) ==
    /\ phase = (IF k = "w" THEN "write" ELSE "read") /\ fault = "none"
    /\ NextReady(k) # {}
    /\ LET fd == SX!Min(NextReady(k))
       IN /\ \E s \in CallHandler(State, k, fd) : Apply(s)
          /\ cursor' = fd + 1
    /\ UNCHANGED <<phase, ready, jumps>>

HandleIODone(k) ==
    /\ phase = (IF k = "w" THEN "write" ELSE "read") /\ fault = "none"
    /\ NextReady(k) = {}
    /\ phase' = IF k = "w" THEN "read" ELSE "recur"
    /\ cursor' = 0
    /\ UNCHANGED <<h, bits, nfds, tasks, ntasks, rec, open, conn, count,
                   polled, imon, negtab, ncs, lsn, fault, running, ready, jumps>>

\* Mutant: no reset of next_task_time when the clock ran backward.
DoRecurringNoReset ==
    /\ phase = "recur" /\ fault = "none"
    /\ \/ /\ ntasks = 0
          /\ phase' = "select"
          /\ UNCHANGED <<h, bits, nfds, tasks, ntasks, rec, open, conn, count,
                         polled, imon, negtab, ncs, lsn, fault, running>>
       \/ /\ ntasks # 0 /\ rec # Null /\ rec.next <= 0
          /\ \E s \in PollingTask(State) :
               LET n == rec.next + PollInterval
               IN Apply([s EXCEPT !.rec = [next |-> IF n < 0 THEN PollInterval
                                                              ELSE n]])
          /\ phase' = "onetime"
       \/ /\ ntasks # 0 /\ ~(rec # Null /\ rec.next <= 0)
          /\ phase' = "onetime"
          /\ UNCHANGED <<h, bits, nfds, tasks, ntasks, rec, open, conn, count,
                         polled, imon, negtab, ncs, lsn, fault, running>>
    /\ UNCHANGED <<cursor, ready, jumps>>

\* do_tasks, first half: the recurring task runs if due; next_task_time is
\* advanced by the interval, or reset when it fell behind or when the
\* clock ran backward.
DoRecurring ==
    /\ phase = "recur" /\ fault = "none"
    /\ \/ /\ ntasks = 0
          /\ phase' = "select"
          /\ UNCHANGED <<h, bits, nfds, tasks, ntasks, rec, open, conn, count,
                         polled, imon, negtab, ncs, lsn, fault, running>>
       \/ /\ ntasks # 0 /\ rec # Null /\ rec.next <= 0
          /\ \E s \in PollingTask(State) :
               LET n == rec.next + PollInterval
               IN Apply([s EXCEPT !.rec = [next |-> IF n < 0 THEN PollInterval
                                                              ELSE n]])
          /\ phase' = "onetime"
       \/ /\ ntasks # 0 /\ ~(rec # Null /\ rec.next <= 0)
          /\ rec' = IF rec # Null /\ PollInterval < rec.next
                    THEN [next |-> PollInterval] ELSE rec
          /\ phase' = "onetime"
          /\ UNCHANGED <<h, bits, nfds, tasks, ntasks, open, conn, count,
                         polled, imon, negtab, ncs, lsn, fault, running>>
    /\ UNCHANGED <<cursor, ready, jumps>>

\* do_tasks, second half: while the first one-time task is overdue, it is
\* removed and its proc called.
RunOnetime ==
    /\ phase = "onetime" /\ fault = "none"
    /\ tasks # <<>> /\ Head(tasks).when < 0
    /\ LET t == Head(tasks)
       IN Apply(RunProc(RemoveOnetime(State, t.proc, t.cl), t))
    /\ UNCHANGED <<phase, cursor, ready, jumps>>

OnetimeDone ==
    /\ phase = "onetime" /\ fault = "none"
    /\ ~(tasks # <<>> /\ Head(tasks).when < 0)
    /\ phase' = "select"
    /\ UNCHANGED <<h, bits, nfds, tasks, ntasks, rec, open, conn, count,
                   polled, imon, negtab, ncs, lsn, fault, running, cursor,
                   ready, jumps>>

Next ==
    \/ Select
    \/ \E k \in {"w", "r"} : HandleIO(k) \/ HandleIODone(k)
    \/ DoRecurring
    \/ RunOnetime
    \/ OnetimeDone

Spec == Init /\ [][Next]_vars

\* Scheduler::loop calls select() again as long as running, and every step
\* of a round runs without waiting: weak fairness on Next, which is enabled
\* in every state but those where the process has exited or aborted.
\* Time does not stand still: a select() that lets the clock advance, if
\* possible infinitely often, eventually happens (strong fairness on
\* ClockRuns, with CanTick for its ENABLED).
Stopped == ~running \/ fault # "none"
FairSpec ==
    /\ Spec
    /\ []<><<Next>>_vars \/ <>[]Stopped
    /\ []<>CanTick => []<><<ClockRuns>>_vars

(***************************************************************************)
(* Properties.                                                              *)
(***************************************************************************)
TaskRec == [when : Int, proc : Procs, cl : NcIds \cup {Null}]
TypeOK ==
    /\ h \in [{"r", "w"} -> [Fds -> Handlers \cup {Null}]]
    /\ bits \in [{"r", "w"} -> SUBSET Fds]
    /\ nfds \in 0 .. Cardinality(Fds)
    /\ tasks \in Seq(TaskRec) /\ ntasks \in Nat
    /\ rec = Null \/ rec \in [next : Int]
    /\ open \in [Fds -> Kinds \cup {Null}]
    /\ conn \in [Fds -> [iready : BOOLEAN, oready : BOOLEAN]]
    /\ count \in Nat /\ polled \subseteq Fds
    /\ imon \in {-2, -1} \cup Fds
    /\ negtab \in [Fds -> NcIds \cup {Null}] /\ ncs \in [NcIds -> Fds \cup {Null}]
    /\ lsn \in [Fds -> NcIds \cup {Null}]
    /\ fault \in Faults /\ running \in BOOLEAN
    /\ phase \in {"select", "write", "read", "recur", "onetime"}
    /\ cursor \in 0 .. Cardinality(Fds)
    /\ ready \in [{"r", "w"} -> SUBSET Fds] /\ jumps \in 0 .. MaxJumps

\* The handler an owner of each kind keeps on its descriptor for reading.
ReadHandlerOf(kind) ==
    CASE kind = "rendezvous" -> "accept_client"
      [] kind = "imon"       -> "imon_read"
      [] kind = "nego"       -> "accept_localclient"
      [] kind = "client"     -> "conn_read"

\* The fdinfo array agrees with its owners across every install and
\* remove of every handler: a descriptor is in an fd_set exactly when it
\* has that handler, nfds is one past the highest descriptor with a
\* handler (fd_to_info grows it, trim_fdinfo shrinks it), only an open
\* descriptor has handlers and only its owner's, and a client's handlers
\* follow NetConnection's rule (read iff iready and oready, write iff not
\* oready).  A negotiation socket is listed under the NegotiatingClient
\* that made it.
HandlersConsistent ==
    fault = "none" =>
    /\ \A k \in {"r", "w"}, fd \in Fds : h[k][fd] # Null <=> fd \in bits[k]
    /\ LET used == {fd \in Fds : h.r[fd] # Null \/ h.w[fd] # Null}
       IN nfds = IF used = {} THEN 0 ELSE SX!Max(used) + 1
    /\ \A fd \in Fds :
         /\ h.r[fd] # Null => open[fd] # Null /\ h.r[fd] = ReadHandlerOf(open[fd])
         /\ h.w[fd] # Null => open[fd] = "client"
         /\ open[fd] \in {"rendezvous", "imon", "nego"} => h.r[fd] # Null
         /\ open[fd] = "client" =>
              /\ (h.r[fd] # Null <=> conn[fd].iready /\ conn[fd].oready)
              /\ (h.w[fd] # Null <=> ~conn[fd].oready)
         /\ open[fd] = "nego" => negtab[fd] = lsn[fd]

\* The timer state stays coherent under every install and removal by the
\* Activity, the Listener and the Pollster: ntasks counts the one-time
\* list plus the recurring task (so calc_timeout never reads a NULL
\* first_task), the list is sorted by due time, the Pollster's task exists
\* exactly while something is polled, the idle task is pending only while
\* no client exists and at most once, Activity::count is the number of
\* clients, and every live NegotiatingClient has exactly one cleanup task.
TimersConsistent ==
    fault = "none" =>
    /\ ntasks = Len(tasks) + (IF rec # Null THEN 1 ELSE 0)
    /\ \A i \in 1 .. Len(tasks) - 1 : tasks[i].when <= tasks[i + 1].when
    /\ (rec # Null) <=> (polled # {})
    /\ count = Cardinality({fd \in Fds : open[fd] = "client"})
    /\ LET idle == {i \in DOMAIN tasks : tasks[i].proc = "activity"}
       IN Cardinality(idle) <= 1 /\ (idle # {} => count = 0)
    /\ \A nc \in NcIds :
         Cardinality({i \in DOMAIN tasks : tasks[i].proc = "cleanup_negotiation"
                                           /\ tasks[i].cl = nc})
         = IF ncs[nc] # Null THEN 1 ELSE 0

\* After do_tasks, nothing is overdue: every one-time task that was due
\* strictly before now has run, including ones installed by the tasks
\* run, and the recurring task is due within one interval, even after the
\* clock was set back or select() returned late.
RoundLeavesNothingDue ==
    (phase = "select" /\ fault = "none") =>
    /\ \A i \in DOMAIN tasks : tasks[i].when >= 0
    /\ rec # Null => 0 <= rec.next /\ rec.next <= PollInterval

\* Activity: once the last client is gone and the idle task is armed, the
\* daemon exits (Scheduler::exit from Activity::task) unless a client
\* arrives first, whatever the Pollster, pending negotiations and clock
\* jumps do meanwhile.
IdlePending == \E i \in DOMAIN tasks : tasks[i].proc = "activity"
IdleExit ==
    (count = 0 /\ IdlePending) ~> (~running \/ count > 0 \/ fault # "none")

\* Listener: the UNIX socket a NegotiatingClient holds is eventually let
\* go, by the local client's connect (accept_localclient) or by the
\* 60-second cleanup_negotiation task, whichever runs first, so a client
\* that asks for sockets and never connects holds descriptors only for a
\* while, whatever clients, the Pollster and clock jumps do meanwhile.
NegotiationEnds ==
    \A nc \in NcIds : ncs[nc] # Null ~> (ncs[nc] = Null \/ Stopped)

\* handle_io never calls through a NULL handler: a descriptor select()
\* reported ready still has its handler when the loop reaches it, though
\* a handler earlier in the same round may have removed it.
NoNullHandlerCall == fault # "null_handler"
====
