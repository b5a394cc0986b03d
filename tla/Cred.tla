-------------------------------- MODULE Cred --------------------------------
(***************************************************************************)
(* Credentials (Cred.c++).  A Cred is a pointer to a shared, reference    *)
(* counted Cred::Implementation; new_impl interns Implementations by      *)
(* content (uid, gid, additional groups) through the static impllist,     *)
(* and drop() removes a dead one by moving the last entry into its slot.  *)
(* Implementation::become_user() switches the process's effective         *)
(* identity, skipping each system call whose result it believes already  *)
(* holds, because the static `last` remembers the Implementation last     *)
(* become.  ~Implementation turns the process back into the SuperUser if  *)
(* it is the one `last` points at.                                        *)
(*                                                                         *)
(* The operators take and return a record cs: impls (live                 *)
(* Implementations: id -> content and refcount), list (impllist, in       *)
(* order), last, proc (the process's effective uid, gid and groups) and   *)
(* exited (a failed set*id call made fam exit(1)).  MAC labels are left   *)
(* out: HAVE_MAC is defined only for IRIX's Trusted builds.               *)
(***************************************************************************)
EXTENDS Integers, Sequences, TLC
LOCAL CX == INSTANCE SequencesExt

CONSTANTS
    ImplIds,      \* addresses `new Implementation' can return (the one
                  \* chosen among free ones is immaterial: none is named
                  \* anywhere else)
    SuperUserId,  \* the Implementation of the static Cred::SuperUser
    UntrustedId,  \* the one set_untrusted_user() gave Cred::untrusted
    Untrusted,    \* the untrusted user's uid, gid and groups
    Null

\* Cred::SuperUser(0, 1, SuperUser_groups, -1): gid gs[0] = 0, no more groups.
SuperUser == [uid |-> 0, gid |-> 0, groups |-> <<>>]

ASSUME /\ SuperUserId \notin ImplIds /\ UntrustedId \notin ImplIds
       /\ Untrusted # SuperUser

Content(im) == [uid |-> im.uid, gid |-> im.gid, groups |-> im.groups]

\* An Implementation of content c with n references.
Impl(c, n) == [uid |-> c.uid, gid |-> c.gid, groups |-> c.groups, refcount |-> n]

\* At startup impllist holds the SuperUser's Implementation, created by the
\* static constructor, then the untrusted user's, interned by
\* set_untrusted_user() before any request; each is held by its static
\* Cred for the daemon's life.  No become_user() has run yet.
Cred0 ==
    [impls |-> (SuperUserId :> Impl(SuperUser, 1)) @@
               (UntrustedId :> Impl(Untrusted, 1)),
     list  |-> <<SuperUserId, UntrustedId>>,
     last  |-> Null,
     proc  |-> [euid |-> 0, egid |-> 0, groups |-> <<>>],
     exited |-> FALSE]

-----------------------------------------------------------------------------
(* Reference counting and interning.                                      *)

\* Mutant of NewImpl: a Cred that shares an Implementation does not count
\* itself.
NewImplNoRef(cs, c) ==
    LET k == CX!SelectInSeq(cs.list, LAMBDA x : Content(cs.impls[x]) = c)
        a == CHOOSE x \in ImplIds : x \notin DOMAIN cs.impls
    IN IF k # 0 THEN [cs |-> cs, p |-> cs.list[k]]
       ELSE [cs |-> [cs EXCEPT !.impls = (a :> Impl(c, 1)) @@ @, !.list = Append(@, a)],
             p |-> a]

\* new_impl(): Implementation::equal() compares uid, gid and the groups in
\* order; the first equal Implementation in impllist gains a reference,
\* otherwise a new one, at a free address, is appended by add().
NewImpl(cs, c) ==
    LET k == CX!SelectInSeq(cs.list, LAMBDA x : Content(cs.impls[x]) = c)
        a == CHOOSE x \in ImplIds : x \notin DOMAIN cs.impls
    IN IF k # 0
       THEN [cs |-> [cs EXCEPT !.impls[cs.list[k]].refcount = @ + 1], p |-> cs.list[k]]
       ELSE [cs |-> [cs EXCEPT !.impls = (a :> Impl(c, 1)) @@ @, !.list = Append(@, a)],
             p |-> a]

\* new_impl() shares an Implementation or `new' has room for one.
Allocatable(cs, c) ==
    ImplIds \ DOMAIN cs.impls # {} \/ \E x \in DOMAIN cs.impls : Content(cs.impls[x]) = c

\* The copy constructor, and operator= taking a valid Cred into an invalid
\* one: p = that.p; p->refcount++.
CopyCred(cs, p) ==
    IF p = Null THEN cs ELSE [cs EXCEPT !.impls[p].refcount = @ + 1]

\* The loop of drop(): the entry found is overwritten by the last one and
\* nimpl shrinks.
ListRemove(l, d) ==
    LET k == CX!SelectInSeq(l, LAMBDA x : x = d) IN
    IF k = 0 THEN l
    ELSE [j \in 1..Len(l) - 1 |-> IF j = k THEN l[Len(l)] ELSE l[j]]

-----------------------------------------------------------------------------
(* The process's effective identity.  fam is started as root, so its real *)
(* and saved uid are 0: seteuid(0) always succeeds, and setgroups() and   *)
(* setegid() need an effective uid of 0, as does seteuid() to any uid    *)
(* but 0 and the current one.                                             *)

Privileged(proc) == proc.euid = 0

\* Implementation::become_user(): nothing if i is `last'; otherwise back to
\* euid 0 unless last's uid is 0 (or there is no last), then setgroups()
\* unless last's groups are equal, setegid() unless last's gid is, and
\* seteuid() unless the uid is 0.  A failing call is exit(1).
BecomeUser(cs, i) ==
    LET me       == cs.impls[i]
        had      == cs.last # Null
        cur      == IF had THEN cs.impls[cs.last].uid ELSE 0
        p0       == IF cur # 0 THEN [cs.proc EXCEPT !.euid = 0] ELSE cs.proc
        setGroups == ~had \/ me.groups # cs.impls[cs.last].groups
        setGid    == ~had \/ me.gid # cs.impls[cs.last].gid
        p1       == [p0 EXCEPT !.groups = IF setGroups THEN me.groups ELSE @,
                               !.egid   = IF setGid THEN me.gid ELSE @]
        fails    == \/ (setGroups \/ setGid) /\ ~Privileged(p0)
                    \/ me.uid \notin {0, p0.euid} /\ ~Privileged(p0)
    IN IF i = cs.last THEN cs
       ELSE IF fails THEN [cs EXCEPT !.exited = TRUE]
       ELSE [cs EXCEPT !.proc = IF me.uid # 0 THEN [p1 EXCEPT !.euid = me.uid] ELSE p1,
                       !.last = i]

\* Mutant of ImplDelete: the destructor forgets that `last' may be dp.
ImplDeleteKeepLast(cs, d) == [cs EXCEPT !.impls = [x \in DOMAIN @ \ {d} |-> @[x]]]

\* `delete dp': ~Implementation becomes the SuperUser if dp is `last'.
ImplDelete(cs, d) ==
    LET s == IF d = cs.last THEN BecomeUser(cs, SuperUserId) ELSE cs
    IN [s EXCEPT !.impls = [x \in DOMAIN @ \ {d} |-> @[x]]]

\* drop(): take the dead Implementation out of impllist and delete it.
DropImpl(cs, d) == ImplDelete([cs EXCEPT !.list = ListRemove(@, d)], d)

\* ~Cred(): `if (p && (!--p->refcount)) drop(p)'.
ReleaseCred(cs, p) ==
    IF p = Null THEN cs
    ELSE IF cs.impls[p].refcount = 1
    THEN DropImpl([cs EXCEPT !.impls[p].refcount = 0], p)
    ELSE [cs EXCEPT !.impls[p].refcount = @ - 1]
====
