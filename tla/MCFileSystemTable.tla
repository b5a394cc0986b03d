------------------------- MODULE MCFileSystemTable -------------------------
(* Mount points /a and /a/b, interests /, /a and /a/b deep, three devices  *)
(* besides the root's, so that mounts nest, stack on one directory and     *)
(* replace one another, each with interests above and below it.  Each     *)
(* rebuild can allocate one FileSystem per mount entry, so FsIds holds     *)
(* the root's, one per mount and one per entry of every rebuild.           *)
(* Devices 3 and 4 are NFS exports of one machine, named "h1" and "srv":   *)
(* "h1" resolves to h_name "srv", so its ServerHost is filed under two     *)
(* names, and a mount of "srv" shares it or, once "srv" names another      *)
(* host, gets its own.                                                     *)
(* /x and /a/x are watched by one trusted user, /a/b/x by another, so   *)
(* that two interests share an Implementation.  The first user has the   *)
(* SuperUser's gid and other groups, the second the first's groups and   *)
(* another gid, so that each of become_user()'s skips is taken and not   *)
(* taken.  Two Implementation addresses let one freed by the first user  *)
(* be reused by the second.                                               *)
EXTENDS FileSystemTable

MCDirs  == {<<"a">>, <<"a", "b">>}
MCPaths == {<<"x">>, <<"a", "x">>, <<"a", "b", "x">>}
MCDevs  == {2, 3, 4}
MCFsIds == 1..12
MCHostOf == [v \in MCDevs \cup {1} |-> CASE v = 3 -> "h1"
                                          [] v = 4 -> "srv"
                                          [] OTHER -> Null]
MCResolve == [n \in {"h1", "srv"} |-> <<"srv">>]
MCHostIds == 1..3
MCUntrusted == [uid |-> 2, gid |-> 2, groups |-> <<>>]
MCUserA == [uid |-> 1, gid |-> 0, groups |-> <<3>>]
MCUserB == [uid |-> 3, gid |-> 2, groups |-> <<3>>]
MCClientsOf == [p \in MCPaths |-> IF p = <<"a", "b", "x">> THEN {MCUserB} ELSE {MCUserA}]
\* Implementation addresses are only compared, so renaming them is sound.
MCImplSymmetry == Permutations(ImplIds)

\* Request numbers are only compared with each other and handed out in
\* increasing order, so two states that differ only by an order-preserving
\* renumbering of each ServerHost's requests behave alike: the view keeps
\* each live request's rank in its host's table, and whether
\* unique_request is free; a number no table holds is kept as it is.
MCRank(h, r) == Cardinality({x \in DOMAIN reqs[h] : x < r})
MCReqOf(p) ==
    LET h == IF myfs[p] \in DOMAIN fs THEN fs[myfs[p]].host ELSE Null IN
    IF h \in DOMAIN reqs /\ fsreq[p] \in DOMAIN reqs[h]
    THEN <<"live", MCRank(h, fsreq[p])>> ELSE <<"raw", fsreq[p]>>
MCView ==
    <<mounts, pending, mtabOps, byName, byId, root, fs, myfs, fault, hosts,
      byHost, hcount, cred, mycred,
      [h \in DOMAIN reqs |-> {<<MCRank(h, r), reqs[h][r]>> : r \in DOMAIN reqs[h]}],
      [h \in DOMAIN unique |-> unique[h] \in DOMAIN reqs[h]],
      [p \in DOMAIN fsreq |-> MCReqOf(p)]>>
====
