---------------------------- MODULE MCServerHost ----------------------------
EXTENDS ServerHost, LibClient

\* File names over a blank, a newline, the flag letter and a plain letter,
\* with PATH_MAX 4; the request numbers of the link and ids of one and
\* two digits.
MCNameChars == {"a", "c", " ", "\n"}
MCNums == {1, 2, 12}

\* Histories of one event of request 1, named with a leading blank or a
\* trailing newline: names a fam can send (both characters are in
\* MCNameChars, and EventsRoundTrip shows that famd's own parser keeps
\* them).
MCHistNames == {<<" ", "a">>, <<"a", "\n">>}

-----------------------------------------------------------------------------
(* The link's messages as text.  toPeer and fromPeer hold requests and    *)
(* events as records; on the wire they are the text of Protocol.tla, and  *)
(* the round trips there are checked for every request number, id and    *)
(* name the link's records stand for.                                     *)

\* Whenever the server fam has written events that the ServerHost has not
\* read yet, they reach ServerHost::event_handler as sent, whatever file
\* names they carry (ClientConnection::send_event, then
\* ServerConnection::input_msg skipping a Changed event's flags).
PeerEventsDelivered == fromPeer # <<>> => EventsRoundTrip

\* Whenever the ServerHost has written requests on the link, they reach
\* the server fam's TCP_Client::input_msg with opcode, numbers and path.
RequestsDelivered == toPeer # <<>> => RequestsRoundTrip

\* The events on the link go on, through the local fam, to applications:
\* whenever events are in flight, libfam's readEvent and nextEvent hand
\* an application every short history of events in order, named as sent
\* and with the right FAMExists/FAMCreated code, for any read size.
AppEventsDelivered == fromPeer # <<>> => AppHistoriesDelivered
====
