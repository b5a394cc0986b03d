------------------------------- MODULE BTree -------------------------------
(***************************************************************************)
(* The in-core B-tree of src/include/BTree.h, behind every Set of the     *)
(* daemon (the Pollster's polled interests, a client's to_be_scanned, a   *)
(* file system's interests) and the client library's tables.              *)
(*                                                                         *)
(* A node is a record of its keys, values and links, as sequences: the    *)
(* code's key[j] is key[j+1] here, and operators take the code's 0-based  *)
(* indices.  A link is a node or Null.  The code changes nodes in place;  *)
(* here the recursive helpers return the rebuilt subtree with the Closure *)
(* (status, key, value, link) the code returns.  The fanout is a          *)
(* parameter: the code's 32 is one instance of the same algorithm.        *)
(***************************************************************************)
EXTENDS Integers, Sequences, FiniteSets, TLC

SX == INSTANCE SequencesExt

CONSTANTS
    Keys,      \* the keys (pointers or request numbers), positive integers
    Vals,      \* the values
    Fanout,    \* BTree::fanout; must be even
    Null       \* a NULL link

ASSUME Fanout % 2 = 0 /\ Fanout >= 2 /\ Keys \subseteq Nat \ {0}

VARIABLES
    root,      \* BTree::root
    npairs,    \* BTree::npairs
    result     \* the value the last insert() or remove() returned

vars == <<root, npairs, result>>

Half == Fanout \div 2
Size(p) == Len(p.key)

\* A Closure; `node` carries the subtree the returning call rebuilt.
Closure(s, k, v, l) ==
    [status |-> s, key |-> k, value |-> v, link |-> l, node |-> Null]

WithNode(c, p) == [c EXCEPT !.node = p]
Status(s, p) == [status |-> s, node |-> p]

-----------------------------------------------------------------------------
(* Node operations.                                                        *)

RECURSIVE Search(_, _, _, _)
\* The binary search of Node::find: the index of k, or of the first key
\* greater than k.
Search(p, k, l, r) ==
    IF l >= r THEN l
    ELSE LET m == (l + r) \div 2
         IN  IF k = p.key[m + 1] THEN m
             ELSE IF k < p.key[m + 1] THEN Search(p, k, l, m)
             ELSE Search(p, k, m + 1, r)

NodeFind(p, k) == Search(p, k, 0, Size(p))

Found(p, i, k) == i < Size(p) /\ p.key[i + 1] = k

\* Node::insert when the node is not full: the pair goes to position j and
\* the closure's link to its right.
NodeInsert(p, j, c) ==
    [key   |-> SX!InsertAt(p.key, j + 1, c.key),
     value |-> SX!InsertAt(p.value, j + 1, c.value),
     link  |-> SX!InsertAt(p.link, j + 2, c.link)]

\* Node::remove: the node without its j'th pair and the link to its right,
\* and the closure holding them.
NodeRemove(p, j) ==
    [node |-> [key   |-> SX!RemoveAt(p.key, j + 1),
               value |-> SX!RemoveAt(p.value, j + 1),
               link  |-> SX!RemoveAt(p.link, j + 2)],
     it   |-> Closure("OVER", p.key[j + 1], p.value[j + 1], p.link[j + 2])]

\* Mutant: the values of the new node are copied one place too early.
CutValueShift(p, index) ==
    [left  |-> [key   |-> SubSeq(p.key, 1, index),
                value |-> SubSeq(p.value, 1, index),
                link  |-> SubSeq(p.link, 1, index + 1)],
     right |-> [key   |-> SubSeq(p.key, index + 1, Size(p)),
                value |-> SubSeq(p.value, index, Size(p) - 1),
                link  |-> SubSeq(p.link, index + 1, Size(p) + 1)]]

\* Node::Node(that, index): the new node takes the pairs from index on;
\* `that` keeps the first index pairs and links 0..index, so that both
\* share the link at index until the caller resolves it.
Cut(p, index) ==
    [left  |-> [key   |-> SubSeq(p.key, 1, index),
                value |-> SubSeq(p.value, 1, index),
                link  |-> SubSeq(p.link, 1, index + 1)],
     right |-> [key   |-> SubSeq(p.key, index + 1, Size(p)),
                value |-> SubSeq(p.value, index + 1, Size(p)),
                link  |-> SubSeq(p.link, index + 1, Size(p) + 1)]]

\* Mutant: join forgets link[n] = that->link[that->n].
JoinNoLastLink(p, it, that) ==
    [key   |-> p.key \o <<it.key>> \o that.key,
     value |-> p.value \o <<it.value>> \o that.value,
     link  |-> p.link \o SubSeq(that.link, 1, Size(that))]

\* Node::join: this node, the closure's pair, then all of that node.
Join(p, it, that) ==
    [key   |-> p.key \o <<it.key>> \o that.key,
     value |-> p.value \o <<it.value>> \o that.value,
     link  |-> p.link \o that.link]

\* Node::Node(p, closure): the new root above a split.
NewRoot(p, c) == [key |-> <<c.key>>, value |-> <<c.value>>, link |-> <<p, c.link>>]

-----------------------------------------------------------------------------
(* Insertion.                                                              *)

\* The split of BTree::insert(Node*) when p (already holding the child's
\* result) is full: the three cases of the code, by where i falls.
Split(p, i, it) ==
    IF i > Half THEN
        LET h  == Cut(p, Half + 1)
            np == NodeInsert(h.right, i - Half - 1, it)
            r  == NodeRemove(h.left, Half)
        IN  WithNode(Closure("OVER", r.it.key, r.it.value, np), r.node)
    ELSE IF i < Half THEN
        LET h == Cut(p, Half)
            r == NodeRemove(NodeInsert(h.left, i, it), Half)
        IN  WithNode(Closure("OVER", r.it.key, r.it.value, h.right), r.node)
    ELSE
        LET h == Cut(p, Half)
        IN  WithNode(Closure("OVER", it.key, it.value,
                             [h.right EXCEPT !.link[1] = it.link]), h.left)

RECURSIVE Ins(_, _, _)
\* BTree::insert(Node*, key, value): the closure it returns, with the
\* rebuilt subtree as `node`.
Ins(p, k, v) ==
    IF p = Null THEN Closure("OVER", k, v, Null)
    ELSE
    LET i == NodeFind(p, k)
    IN  IF Found(p, i, k) THEN WithNode(Closure("NO", k, v, Null), p)
        ELSE
        LET it == Ins(p.link[i + 1], k, v)
            q  == [p EXCEPT !.link[i + 1] = it.node]
        IN  IF it.status # "OVER" THEN WithNode(it, q)
            ELSE IF Size(q) < Fanout
                 THEN WithNode(Closure("OK", k, v, Null), NodeInsert(q, i, it))
            ELSE Split(q, i, it)

-----------------------------------------------------------------------------
(* Removal.                                                                *)

\* Mutant: a node with exactly fanout/2 pairs is reported as UNDER.
FillStrict(p) == Status(IF Size(p) > Half THEN "OK" ELSE "UNDER", p)

Fill(p) == Status(IF Size(p) >= Half THEN "OK" ELSE "UNDER", p)

\* BTree::underflow(p, i): child i of p has too few pairs.  Join it with a
\* minimal right or left sibling, or else move one pair over from the left
\* or the right sibling.
Underflow(p, i) ==
    LET cp == p.link[i + 1]
        rp == IF i < Size(p) THEN p.link[i + 2] ELSE Null
        lp == IF i > 0 THEN p.link[i] ELSE Null
    IN
    CASE rp # Null /\ Size(rp) = Half ->
            LET r == NodeRemove(p, i)
            IN  Fill([r.node EXCEPT !.link[i + 1] = Join(cp, r.it, rp)])
      [] lp # Null /\ Size(lp) = Half ->
            LET r == NodeRemove(p, i - 1)
            IN  Fill([r.node EXCEPT !.link[i] = Join(lp, r.it, cp)])
      [] lp # Null ->
            LET li == NodeRemove(lp, Size(lp) - 1)
                c1 == NodeInsert(cp, 0, Closure("OVER", p.key[i], p.value[i],
                                                cp.link[1]))
            IN  Status("OK", [p EXCEPT !.key[i] = li.it.key,
                                       !.value[i] = li.it.value,
                                       !.link[i] = li.node,
                                       !.link[i + 1] = [c1 EXCEPT !.link[1] = li.it.link]])
      [] rp # Null ->
            LET ri == NodeRemove(rp, 0)
                c1 == NodeInsert(cp, Size(cp), Closure("OVER", p.key[i + 1],
                                                       p.value[i + 1], rp.link[1]))
            IN  Status("OK", [p EXCEPT !.key[i + 1] = ri.it.key,
                                       !.value[i + 1] = ri.it.value,
                                       !.link[i + 1] = c1,
                                       !.link[i + 2] = [ri.node EXCEPT !.link[1] = ri.it.link]])
      [] OTHER -> Fill(p)

RECURSIVE RemoveRightmost(_)
\* BTree::remove_rightmost: take the last pair of the subtree's rightmost
\* leaf, fixing underflows on the way back.
RemoveRightmost(p) ==
    LET i  == Size(p)
        cp == p.link[i + 1]
    IN  IF cp # Null
        THEN LET it == RemoveRightmost(cp)
                 q  == [p EXCEPT !.link[i + 1] = it.node]
             IN  IF it.status = "UNDER"
                 THEN LET u == Underflow(q, i)
                      IN  [it EXCEPT !.status = u.status, !.node = u.node]
                 ELSE WithNode(it, q)
        ELSE LET r == NodeRemove(p, Size(p) - 1)
             IN  [r.it EXCEPT !.status = Fill(r.node).status, !.node = r.node]

RECURSIVE Rem(_, _)
\* BTree::remove(Node*, key): a pair found in an inner node is replaced by
\* the rightmost pair of its left subtree.
Rem(p, k) ==
    IF p = Null THEN Status("NO", Null)
    ELSE
    LET i == NodeFind(p, k)
    IN  IF Found(p, i, k) THEN
            LET r == NodeRemove(p, i)
            IN  IF r.node.link[i + 1] # Null
                THEN LET rm == RemoveRightmost(r.node.link[i + 1])
                         q  == NodeInsert([r.node EXCEPT !.link[i + 1] = rm.node], i,
                                          Closure("OVER", rm.key, rm.value, r.it.link))
                     IN  IF rm.status = "UNDER" THEN Underflow(q, i) ELSE Fill(q)
                ELSE Fill(r.node)
        ELSE
            LET s == Rem(p.link[i + 1], k)
                q == [p EXCEPT !.link[i + 1] = s.node]
            IN  IF s.status = "UNDER" THEN Underflow(q, i) ELSE Status(s.status, q)

-----------------------------------------------------------------------------
(* Lookup and iteration: find(), first(), next().  0 is "none".           *)

RECURSIVE FindIn(_, _)
\* Mutant: find() drops the key comparison and takes the nearest pair.
FindNoMatch(p, k) ==
    IF p = Null THEN 0
    ELSE LET i == NodeFind(p, k)
         IN  IF i < Size(p) THEN p.value[i + 1] ELSE FindIn(p.link[i + 1], k)

FindIn(p, k) ==
    IF p = Null THEN 0
    ELSE LET i == NodeFind(p, k)
         IN  IF Found(p, i, k) THEN p.value[i + 1] ELSE FindIn(p.link[i + 1], k)

Find(k) == FindIn(root, k)

RECURSIVE Leftmost(_)
Leftmost(p) == IF p.link[1] = Null THEN p.key[1] ELSE Leftmost(p.link[1])

First == IF root = Null THEN 0 ELSE Leftmost(root)

RECURSIVE NodeNext(_, _)
\* Mutant: next() does not step past a key equal to pred.
NodeNextNoSkip(p, pred) ==
    IF p = Null THEN Closure("OVER", 0, 0, Null)
    ELSE
    LET i  == NodeFind(p, pred)
        it == NodeNext(p.link[i + 1], pred)
    IN  IF it.status # "OVER" THEN it
        ELSE IF i = Size(p) THEN it
        ELSE Closure("OK", p.key[i + 1], 0, Null)

\* Node::next: the least key greater than pred in the subtree, or OVER.
\* The code calls it on NULL links and tests `this`.
NodeNext(p, pred) ==
    IF p = Null THEN Closure("OVER", 0, 0, Null)
    ELSE
    LET i0 == NodeFind(p, pred)
        i  == IF Found(p, i0, pred) THEN i0 + 1 ELSE i0
        it == NodeNext(p.link[i + 1], pred)
    IN  IF it.status # "OVER" THEN it
        ELSE IF i = Size(p) THEN it
        ELSE Closure("OK", p.key[i + 1], 0, Null)

NextKey(pred) ==
    IF root = Null THEN 0
    ELSE LET it == NodeNext(root, pred)
         IN  IF it.status = "OK" THEN it.key ELSE 0

-----------------------------------------------------------------------------
(* The public calls.                                                       *)

Init ==
    /\ root = Null
    /\ npairs = 0
    /\ result = FALSE

Insert(k, v) ==
    LET it == Ins(root, k, v)
    IN  \/ /\ it.status = "OK"
           /\ root' = it.node /\ npairs' = npairs + 1 /\ result' = TRUE
        \/ /\ it.status = "NO"
           /\ result' = FALSE /\ UNCHANGED <<root, npairs>>
        \/ /\ it.status = "OVER"
           /\ root' = NewRoot(it.node, it) /\ npairs' = npairs + 1
           /\ result' = TRUE

\* Mutant: the UNDER case of remove() forgets --npairs.
RemoveUnderNoCount(k) ==
    LET s == Rem(root, k)
    IN  \/ /\ s.status = "OK"
           /\ root' = s.node /\ npairs' = npairs - 1 /\ result' = TRUE
        \/ /\ s.status = "NO"
           /\ result' = FALSE /\ UNCHANGED <<root, npairs>>
        \/ /\ s.status = "UNDER"
           /\ root' = IF Size(s.node) = 0 THEN s.node.link[1] ELSE s.node
           /\ result' = TRUE /\ UNCHANGED npairs

Remove(k) ==
    LET s == Rem(root, k)
    IN  \/ /\ s.status = "OK"
           /\ root' = s.node /\ npairs' = npairs - 1 /\ result' = TRUE
        \/ /\ s.status = "NO"
           /\ result' = FALSE /\ UNCHANGED <<root, npairs>>
        \/ /\ s.status = "UNDER"
           /\ root' = IF Size(s.node) = 0 THEN s.node.link[1] ELSE s.node
           /\ npairs' = npairs - 1 /\ result' = TRUE

Next == \E k \in Keys : (\E v \in Vals : Insert(k, v)) \/ Remove(k)

Spec == Init /\ [][Next]_vars

-----------------------------------------------------------------------------
(* The tree's contents and shape, for the properties.                      *)

RECURSIVE InOrder(_), Walk(_, _)
\* The pairs of a subtree from link i of p on, in order.
Walk(p, i) ==
    InOrder(p.link[i + 1])
    \o (IF i < Size(p)
        THEN <<<<p.key[i + 1], p.value[i + 1]>>>> \o Walk(p, i + 1)
        ELSE <<>>)
InOrder(p) == IF p = Null THEN <<>> ELSE Walk(p, 0)

Contents(p) ==
    SX!FoldLeft(LAMBDA f, e : f @@ (e[1] :> e[2]), <<>>, InOrder(p))

RECURSIVE Height(_)
Height(p) == IF p = Null THEN 0 ELSE 1 + Height(p.link[1])

RECURSIVE NodesOf(_)
NodesOf(p) ==
    IF p = Null THEN {}
    ELSE {p} \cup UNION {NodesOf(p.link[j]) : j \in DOMAIN p.link}

Least(S) == CHOOSE x \in S : \A y \in S : x <= y

TypeOK ==
    /\ npairs \in 0..Cardinality(Keys)
    /\ result \in BOOLEAN
    /\ \A q \in NodesOf(root) :
          /\ DOMAIN q = {"key", "value", "link"}
          /\ q.key \in Seq(Keys) /\ q.value \in Seq(Vals)
          /\ Len(q.value) = Size(q) /\ Len(q.link) = Size(q) + 1

\* The B-tree shape that insert's splits and remove's underflow handling
\* must restore after every call, and that the asserts of Node::join,
\* underflow and remove take for granted: the root holds 1..fanout pairs
\* and every other node fanout/2..fanout; all children of a node have the
\* same height (so all leaves are at one depth); the keys in order are
\* strictly increasing, so each key is in one place and searches find it.
WellFormed ==
    /\ root # Null => Size(root) \in 1..Fanout
    /\ \A q \in NodesOf(root) \ {root} : Size(q) \in Half..Fanout
    /\ \A q \in NodesOf(root) :
          \A j \in DOMAIN q.link : Height(q.link[j]) = Height(q.link[1])
    /\ LET s == InOrder(root)
       IN  \A j \in 1..Len(s) - 1 : s[j][1] < s[j + 1][1]

\* size() (npairs, counted up and down by the status insert() and remove()
\* get back from the recursion) is the number of pairs in the tree.
SizeMatches == npairs = Len(InOrder(root))

\* find() returns the value stored with a key, and 0 for a key the tree
\* does not hold, for every key whatever the shape of the tree.
LookupCorrect ==
    LET c == Contents(root)
    IN  \A k \in Keys : Find(k) = IF k \in DOMAIN c THEN c[k] ELSE 0

\* first() and next(pred) enumerate the keys in increasing order: next
\* gives the least key above pred, also when pred itself is not (or no
\* longer) in the tree, as when the Pollster's loop removes the interest
\* it stands on; 0 ends the enumeration.
IterationInOrder ==
    LET ks == DOMAIN Contents(root)
        Succ(x) == {k \in ks : k > x}
    IN  /\ First = IF ks = {} THEN 0 ELSE Least(ks)
        /\ \A pred \in {0} \cup Keys :
              NextKey(pred) = IF Succ(pred) = {} THEN 0 ELSE Least(Succ(pred))

\* The tree implements a key-value map: each insert() of a new key adds
\* exactly its pair, each remove() of a present key deletes exactly its
\* pair, and every other call leaves the contents as they were.
Map == INSTANCE KeyValueMap WITH map <- Contents(root)
MapRefinement == Map!Spec
============================================================================
