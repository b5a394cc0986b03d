------------------------------ MODULE LibClient -----------------------------
(***************************************************************************)
(* The receive side of the client library (lib/Client.c++): the input     *)
(* buffer that reads of the famd socket fill, the length-prefixed frames  *)
(* NetConnection::mprintf sends, and Client::nextEvent, which parses one  *)
(* event, maps it to a FAMEvent code and slides the buffer.  The whole    *)
(* loop of an application calling FAMNextEvent until end of file is one  *)
(* recursive operator, run over every short event history and every read  *)
(* size.  The four header bytes are integers, the payload characters.     *)
(***************************************************************************)
EXTENDS Protocol
LOCAL SX == INSTANCE SequencesExt

CONSTANTS
    MsgBufSiz,   \* MSGBUFSIZ, the size of inbuf
    MaxMsgSiz,   \* MAXMSGSIZ, the largest frame payload libfam accepts
    ReadSizes,   \* how many bytes one read() of the socket returns at most
    HistReqs,    \* the request numbers of the event histories checked
    HistNames,   \* their file names
    HistLen      \* their length

\* htonl(len) followed by the message, as NetConnection::mprintf queues it.
Frame(msg) ==
    <<0, 0, Len(msg) \div 256, Len(msg) % 256>> \o msg

\* getword(): the big-endian length at the head of the buffer.
GetWord(buf) == ((buf[1] * 256 + buf[2]) * 256 + buf[3]) * 256 + buf[4]

\* The state of a Client: inbuf up to inend, haveCompleteEvent, whether
\* sock is still open, the request numbers in the endExist BTree, the
\* bytes famd has sent that are not read yet, whether a read has met end
\* of file, and the events the application has been given.
Client0(stream) ==
    [buf |-> <<>>, complete |-> FALSE, connected |-> TRUE, endExist |-> {},
     stream |-> stream, eof |-> FALSE, out |-> <<>>]

\* croakConnection(): close the socket, forget the complete event.
Croak(c) == [c EXCEPT !.connected = FALSE, !.complete = FALSE]

\* checkBufferForEvent(): a bad length kills the connection; a complete
\* frame in the buffer sets haveCompleteEvent.
CheckBufferForEvent(c) ==
    IF ~c.connected THEN c
    ELSE IF Len(c.buf) <= 4 THEN [c EXCEPT !.complete = FALSE]
    ELSE IF GetWord(c.buf) = 0 \/ GetWord(c.buf) > MaxMsgSiz THEN Croak(c)
    ELSE [c EXCEPT !.complete = Len(c.buf) >= GetWord(c.buf) + 4]

\* One read(sock, inend, MSGBUFSIZ - (inend - inbuf)) returning at most k
\* bytes; a read that returns nothing is end of file (rc <= 0).
ReadOnce(c, k) ==
    LET rc == SX!Min({k, Len(c.stream), MsgBufSiz - Len(c.buf)}) IN
    IF rc <= 0 THEN [c EXCEPT !.eof = TRUE]
    ELSE CheckBufferForEvent([c EXCEPT !.buf = @ \o SubSeq(c.stream, 1, rc),
                                       !.stream = SubSeq(@, rc + 1, Len(@))])

\* readEvent(true): read until a complete event is buffered, or end of file.
RECURSIVE ReadEvent(_, _), ReadOn(_, _)
ReadOn(c, k) == IF c.eof THEN c ELSE ReadEvent(c, k)
ReadEvent(c, k) ==
    IF ~c.connected \/ c.complete THEN c ELSE ReadOn(ReadOnce(c, k), k)

-----------------------------------------------------------------------------
(* Client::nextEvent's parse of the message at the head of inbuf.         *)

\* The FAMEvent code of each letter but F and e, which depend on endExist.
LibCode == [c |-> "FAMChanged", A |-> "FAMDeleted", X |-> "FAMStartExecuting",
            Q |-> "FAMStopExecuting", G |-> "FAMAcknowledge", P |-> "FAMEndExist"]

\* The switch on the code: the FAMEvent code, and the endExist BTree after
\* it (storeEndExist on P, freeRequest on G).
Translate(code, r, ee) ==
    IF code \in {"F", "e"}
    THEN [fam |-> IF r \in ee THEN "FAMCreated" ELSE "FAMExists", ee |-> ee]
    ELSE [fam |-> LibCode[code],
          ee  |-> CASE code = "P" -> ee \cup {r}
                    [] code = "G" -> ee \ {r}
                    [] OTHER     -> ee]

\* After `p = q; p++', a Changed event's flags are copied into changeInfo
\* (at most 99 of them) and then every white-space character is skipped:
\* the start of the file name and whether changeInfo overflowed.
LibSkipFlags(m, p) ==
    LET f == ScanTo(m, p, LAMBDA ch : ch = NUL \/ IsSpace(ch))
    IN [ok |-> f - p < 100, at |-> ScanTo(m, f, LAMBDA ch : ~IsSpace(ch))]

\* The file name runs to the NUL or the first newline; PATH_MAX - 1
\* characters fit (the `--limit' test).
LibName(m, p) ==
    LET e == ScanTo(m, p, LAMBDA ch : ch = NUL \/ ch = NL)
    IN [ok |-> e - p < PathMax, chars |-> SubSeq(m, p, e - 1)]

\* The message after its header: its GetWord(buf) bytes, NUL included.
HeadMsg(c) == SubSeq(c.buf, 5, 4 + GetWord(c.buf))

\* The rest of nextEvent once the code, number and name are known: an
\* unknown code kills the connection; otherwise the event is handed to
\* the application, the message is slid out of inbuf and the buffer is
\* checked for the next one.
Deliver(c, code, r, name) ==
    IF code \notin DOMAIN LibCode \cup {"F", "e"} THEN Croak(c)
    ELSE CheckBufferForEvent(
           [c EXCEPT !.endExist = Translate(code, r, @).ee,
                     !.out = Append(@, [code |-> Translate(code, r, c.endExist).fam,
                                        reqnum |-> r, filename |-> name]),
                     !.buf = SubSeq(@, GetWord(@) + 5, Len(@))])

\* Parse a buffered complete message.
ParseEvent(c, m) ==
    LET n  == Strtol(m, 2)
        fl == IF m[1] = "c" THEN LibSkipFlags(m, n.end + 1)
              ELSE [ok |-> TRUE, at |-> n.end + 1]
        nm == LibName(m, fl.at)
    IN IF n.end = 2 \/ ~fl.ok \/ ~nm.ok THEN Croak(c)
       ELSE Deliver(c, m[1], n.val, nm.chars)

\* Client::nextEvent(): read until an event is complete, then parse it;
\* end of file or a killed connection ends the loop of the application.
Parse(c) == IF ~c.connected \/ c.eof THEN c ELSE ParseEvent(c, HeadMsg(c))
NextEvent(c, k) == Parse(ReadEvent(c, k))

\* An application calling FAMNextEvent until it returns -1.
RECURSIVE RunApp(_, _)
RunApp(c, k) == IF ~c.connected \/ c.eof THEN c ELSE RunApp(NextEvent(c, k), k)
-----------------------------------------------------------------------------
(* What the application is promised.                                      *)

\* The events a fam may send: any event, request number and name.
HistEvents == [ev : DaemonEvents, r : HistReqs, name : HistNames]

Histories == SX!BoundedSeq(HistEvents, HistLen)

\* The byte stream famd writes for a history.
Stream(h) == SX!FoldLeft(LAMBDA acc, e : acc \o Frame(SendEvent(e.ev, e.r, e.name)), <<>>, h)

\* The request of event i had an EndExist earlier, not followed by an
\* Acknowledge of that request.
EndExistBefore(h, i) ==
    \E j \in 1..i - 1 :
        /\ h[j].ev = "EndExist" /\ h[j].r = h[i].r
        /\ \A l \in j + 1..i - 1 : ~(h[l].ev = "Acknowledge" /\ h[l].r = h[i].r)

AppCode(h, i) ==
    IF h[i].ev \in {"Exists", "Created"}
    THEN IF EndExistBefore(h, i) THEN "FAMCreated" ELSE "FAMExists"
    ELSE LibCode[Code[h[i].ev]]

\* An application calling FAMNextEvent until end of file on the stream of
\* history h, read k bytes at a time, gets every event in order with its
\* request number and name, an entry event reported as FAMExists before
\* its request's EndExist and as FAMCreated after it, and the connection
\* is not killed by checkBufferForEvent or nextEvent.
AppDelivered(h, k) ==
    LET c == RunApp(Client0(Stream(h)), k) IN
    /\ c.connected /\ c.eof
    /\ c.out = [i \in 1..Len(h) |-> [code |-> AppCode(h, i), reqnum |-> h[i].r,
                                      filename |-> h[i].name]]

\* Every short history is delivered, whatever the read size.
AppHistoriesDelivered == \A h \in Histories, k \in ReadSizes : AppDelivered(h, k)
====
