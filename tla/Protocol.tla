------------------------------ MODULE Protocol ------------------------------
(***************************************************************************)
(* The text of fam's messages, inside the length-prefixed frames that     *)
(* NetConnection adds.  A message is a sequence of characters, each a     *)
(* one-character string; NUL is the terminator that mprintf's length and  *)
(* libfam's strlen()+1 include.                                            *)
(*                                                                         *)
(* Requests (a ServerHost to a fam): "<op><req> <uid> <gid> <path>\n",   *)
(* parsed by TCP_Client::input_msg.  Events (a fam to libfam and to a     *)
(* ServerHost): "<code><req> [c ]<name>\n", parsed by ServerConnection's  *)
(* input_msg and by libfam (LibClient.tla).  The optional group list      *)
(* after a request's NUL is not modelled.                                 *)
(***************************************************************************)
EXTENDS Integers, Sequences
LOCAL SX == INSTANCE SequencesExt

CONSTANTS
    PathMax,     \* PATH_MAX: a path holds at most PathMax - 1 characters
    NameChars,   \* the characters file names are made of here
    Nums         \* request numbers, uids and gids

NL  == "\n"
NUL == "NUL"

DigitOf == [d \in 0..9 |-> <<"0", "1", "2", "3", "4", "5", "6", "7", "8", "9">>[d + 1]]
DigitChars == {DigitOf[d] : d \in 0..9}
ValueOfDigit(c) == CHOOSE d \in 0..9 : DigitOf[d] = c

\* isspace() over the characters the messages here hold.
IsSpace(c) == c \in {" ", NL}

\* printf's %d / %lu of a non-negative number.
RECURSIVE Decimal(_)
Decimal(n) ==
    IF n < 10 THEN <<DigitOf[n]>> ELSE Decimal(n \div 10) \o <<DigitOf[n % 10]>>

\* The first position at or after i whose character stops a scan, or the
\* position after the end.
ScanTo(s, i, Stop(_)) ==
    SX!Min({j \in i..Len(s) + 1 : j = Len(s) + 1 \/ Stop(s[j])})

\* strtol(p, &q, 10) at position i: leading white space, then digits;
\* with no digits q is p itself.
Strtol(s, i) ==
    LET b == ScanTo(s, i, LAMBDA c : ~IsSpace(c))
        e == ScanTo(s, b, LAMBDA c : c \notin DigitChars)
        Acc(v, c) == 10 * v + ValueOfDigit(c)
    IN IF e = b THEN [val |-> 0, end |-> i]
       ELSE [val |-> SX!FoldLeft(Acc, 0, SubSeq(s, b, e - 1)), end |-> e]

-----------------------------------------------------------------------------
(* Event codes: Event::code() and Event::getEventFromOpcode().            *)

Code == [Changed |-> "c", Deleted |-> "A", Executing |-> "X", Exited |-> "Q",
         Created |-> "F", Acknowledge |-> "G", Exists |-> "e", EndExist |-> "P"]

\* The events fam sends (Moved is not supported, and code() asserts so).
DaemonEvents == DOMAIN Code

\* getEventFromOpcode(): an unknown letter is logged and gives Error.
EventFromOpcode(c) ==
    IF \E ev \in DaemonEvents : Code[ev] = c
    THEN CHOOSE ev \in DaemonEvents : Code[ev] = c
    ELSE "Error"

-----------------------------------------------------------------------------
(* Formatting.                                                            *)

\* ClientConnection::send_event through mprintf: a Changed event carries
\* the flag list "c" that older fams expect.
SendEvent(ev, r, name) ==
    <<Code[ev]>> \o Decimal(r) \o <<" ">>
      \o (IF ev = "Changed" THEN <<"c", " ">> ELSE <<>>)
      \o name \o <<NL, NUL>>

\* ServerConnection::send_monitor with no additional groups.
MonitorMsg(op, r, uid, gid, path) ==
    <<op>> \o Decimal(r) \o <<" ">> \o Decimal(uid) \o <<" ">> \o Decimal(gid)
      \o <<" ">> \o path \o <<NL, NUL>>

\* The text of a request without a path (sendSimpleMessage in libfam).
SimpleMsg(op, r, uid, gid) ==
    <<op>> \o Decimal(r) \o <<" ">> \o Decimal(uid) \o <<" ">> \o Decimal(gid)
      \o <<NL, NUL>>

\* ServerConnection's send_cancel, send_suspend and send_resume: a
\* ServerHost's requests carry uid and gid 0.
SendSimple(op, r) == SimpleMsg(op, r, 0, 0)

-----------------------------------------------------------------------------
(* Parsing.                                                               *)

\* A message a parser drops, and one that makes it close the connection.
Ignored == [dropped |-> "ignored"]
Close == [dropped |-> "close"]

\* Mutant of SkipFlags: the scan starts on the space before the flags.
SkipFlagsNoAdvance(s, p) == ScanTo(s, p, LAMBDA c : IsSpace(c))

\* input_msg's `p++; while (isascii(*p) && !isspace(*p)) p++;' over the
\* flags of a Changed event (the scan would run past a NUL; a message
\* without a space after its flags is not formatted by any sender here).
SkipFlags(s, p) == ScanTo(s, p + 1, LAMBDA c : IsSpace(c))

\* The `for (i = 0; *p; i++)' copy of a name: the characters up to the
\* NUL, which fail (`too long') when PATH_MAX of them come first.
CopyName(s, p) ==
    LET e == ScanTo(s, p, LAMBDA c : c = NUL)
    IN [ok |-> e - p <= PathMax, chars |-> SubSeq(s, p, e - 1)]

\* ServerConnection::input_msg(): a message is either handed to the event
\* handler as [event, request, name] or dropped (Ignored) while the
\* connection stays up.
InputMsg(s) ==
    IF Len(s) = 0 \/ s[Len(s)] # NUL THEN Ignored
    ELSE LET op   == s[1]
             n    == Strtol(s, 2)
             p    == IF op = "c" THEN SkipFlags(s, n.end) ELSE n.end
             name == CopyName(s, p + 1).chars
         IN IF ~CopyName(s, p + 1).ok THEN Ignored
            ELSE IF name # <<>> /\ SX!Last(name) # NL THEN Ignored
            ELSE [event |-> EventFromOpcode(op), request |-> n.val,
                  name |-> IF name = <<>> THEN name ELSE SX!Front(name)]

\* Mutant of StripNewline: the trailing newline is kept in the name.
StripNone(name) == name

\* TCP_Client::input_msg's `if (i > 0 && filename[i - 1] == '\n')'.
StripNewline(name) == IF name # <<>> /\ SX!Last(name) = NL THEN SX!Front(name) ELSE name

\* TCP_Client::input_msg() up to the file name: opcode, then request
\* number, uid and gid with strtol, each missing number closing the
\* connection (Close); one character is skipped and the name runs to
\* the NUL, a trailing newline stripped.
ClientInputMsg(s) ==
    LET r   == Strtol(s, 2)
        uid == Strtol(s, r.end)
        gid == Strtol(s, uid.end)
        name == CopyName(s, gid.end + 1)
    IN IF r.end = 2 \/ uid.end = r.end \/ gid.end = uid.end THEN Close
       ELSE IF ~name.ok THEN Close
       ELSE [op |-> s[1], request |-> r.val, uid |-> uid.val, gid |-> gid.val,
             path |-> StripNewline(name.chars)]

-----------------------------------------------------------------------------
(* Every name of up to PATH_MAX - 1 characters, and every absolute path.  *)
Names == SX!BoundedSeq(NameChars, PathMax - 1)
Paths == {<<"/">> \o n : n \in SX!BoundedSeq(NameChars, PathMax - 2)}

\* Every name a path can hold survives ClientConnection::send_event and
\* ServerConnection::input_msg, for every event and request number: the
\* flag list of a Changed event skipped, blanks and inner newlines kept,
\* only the final newline stripped, and no name refused as too long.
EventsRoundTrip ==
    \A ev \in DaemonEvents, r \in Nums, n \in Names :
        InputMsg(SendEvent(ev, r, n)) = [event |-> ev, request |-> r, name |-> n]

MonitorOps == {"W", "M"}        \* ClientInterest::FILE, DIRECTORY
SimpleOps == {"C", "S", "U"}    \* cancel, suspend, resume

\* TCP_Client::input_msg reads back every request a ServerHost's
\* connection formats (send_monitor, send_cancel and its siblings), for
\* every request number, uid, gid and absolute path: the path's blanks
\* and inner newlines kept, and nothing else taken from the text.
RequestsRoundTrip ==
    \A r, uid, gid \in Nums :
        /\ \A op \in MonitorOps, path \in Paths :
              ClientInputMsg(MonitorMsg(op, r, uid, gid, path))
                = [op |-> op, request |-> r, uid |-> uid, gid |-> gid, path |-> path]
        /\ \A op \in SimpleOps :
              ClientInputMsg(SendSimple(op, r))
                = [op |-> op, request |-> r, uid |-> 0, gid |-> 0, path |-> <<>>]
====
