----------------------------- MODULE MCSession -----------------------------
EXTENDS Session
====
