------------------------------ MODULE MCEpoch ------------------------------
(* Instances of Epoch for TLC.                                              *)
EXTENDS Epoch, TLC

CONSTANTS o1, o2, o3

ObjectSymmetry == Permutations(Objects)

-----------------------------------------------------------------------------
(* Views that identify states which differ only in dead values: a local     *)
(* variable of announce or update_epoch outside the lines that read it.     *)

LiveE(t) == IF pc[t] \in {"exchange", "recheck", "scan", "scan_again",
                          "before_hook", "cas"} THEN current_e[t] ELSE 0
LiveI(t) == IF pc[t] \in {"scan", "scan_again"} THEN i[t] ELSE 0
LiveStamp(t) == IF pc[t] \in {"cas", "after_done", "after_prev"}
                THEN current_stamp[t] ELSE 0
Control == <<pc, current_epoch, last, [t \in Threads |-> <<LiveE(t), LiveI(t)>>]>>

\* A thread that has reached o while it was linked is inside with_epoch when
\* o is unlinked, so o is in its fading set and it may as well pick o up then.
LatePickUp == \A t \in Threads : (refs'[t] \ refs[t]) \cap linked = {}

View == <<Control, poolVars, clientVars, clock, done_stamp, prev_stamp,
          local_stamp, [t \in Threads |-> LiveStamp(t)]>>

\* The life of an object is followed with three objects of one thread or two of any,
\* without snapshots; the stamps with one object at a time and two epochs.
Bounded ==
    \/ /\ clock = 1 /\ \A t \in Threads : local_stamp[t] = -1
       /\ \/ \A t \in Threads \ {0} : pend[t] = None /\ current[t] = {}
          \/ Cardinality(Objects \ Freed) <= 2
    \/ Cardinality(Objects \ Freed) <= 1 /\ current_epoch <= 2
=============================================================================
