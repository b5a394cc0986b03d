---------------------------- MODULE MCScheduler ----------------------------
EXTENDS Scheduler

\* Three descriptors: the rendezvous socket, and two for clients, the
\* kernel monitor and negotiation sockets.
MCFds == 0 .. 2
MCNcIds == {1}
====
