---------------------------- MODULE MCInterest ----------------------------
(* Model-checking instance of Interest: one or two Directory requests on a *)
(* directory of two names.                                                 *)
EXTENDS Interest

CONSTANTS t1, t2, a, b

MCTops1 == {t1}
MCTops2 == {t1, t2}
MCKids == {a, b}
====
