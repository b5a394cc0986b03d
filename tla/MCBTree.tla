------------------------------ MODULE MCBTree ------------------------------
EXTENDS BTree

CONSTANTS v1, v2

\* Seven keys let a tree of fanout 2 grow to three levels, so underflows
\* propagate through inner nodes and joins move links, not only leaves.
MCKeys == 1..7
MCVals == {v1, v2}
============================================================================
