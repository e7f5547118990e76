---------------------------- MODULE MCTimestamps ----------------------------
(* Instances of Timestamps for TLC.                                         *)
EXTENDS Timestamps

\* A thread's ts is dead outside a call, its res inside one.
LiveTs(t) == IF pc[t] \in {"recheck", "move"} THEN ts[t] ELSE 0
LiveRes(t) == IF pc[t] = "idle" THEN res[t] ELSE 0

View == <<kind, stamp, pc, op, ghostVars, [t \in Threads |-> <<LiveTs(t), LiveRes(t)>>]>>
=============================================================================
