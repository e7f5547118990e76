----------------------------- MODULE MCSpinLock -----------------------------
(* SpinLock with three nodes in two buckets: n1 and n2 collide.             *)
EXTENDS SpinLock

CONSTANTS n1, n2, n3, b1, b2

MCBucket == [n \in Nodes |-> IF n = n3 THEN b2 ELSE b1]
=============================================================================
