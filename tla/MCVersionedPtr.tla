--------------------------- MODULE MCVersionedPtr ---------------------------
(* Instances of VersionedPtr for TLC.                                       *)
EXTENDS VersionedPtr, TLC

CONSTANTS t1, t2, t3, p1, p2

Setup(bit, calls, start, stored, width, ticks) ==
    [bit |-> bit, calls |-> calls, start |-> start, stored |-> stored, width |-> width, clock |-> ticks]

Stored(first, second) == [q \in Ptrs |-> IF q = p1 THEN first ELSE second]
Each(n, calls) == [i \in 1 .. n |-> calls]
AllCalls == {"store", "load", "snap"}
Both == {"node", "null"}

\* one pointer, with the bit and without it; nulls in one pointer while another
\* gets nodes; three operations at a time; two snapshots and two stores, of
\* which the second snapshot may begin when one of the stores is over
MCSetups == {
    Setup(TRUE, Each(4, AllCalls), "node", Stored(Both, {}), 2, 2),
    Setup(FALSE, Each(3, AllCalls), "node", Stored(Both, {}), 2, 2),
    Setup(FALSE, Each(3, {"store", "snap"}), "node", Stored({"null"}, {"node"}), 2, 2),
    Setup(TRUE, Each(3, {"store", "snap"}), "node", Stored({"node"}, {"node"}), 3, 2),
    Setup(FALSE, << {"snap"}, {"store"}, {"store"}, {"snap"} >>, "node",
          Stored({"node"}, {"node"}), 3, 1) }

ThreadSymmetry == Permutations(Threads)

-----------------------------------------------------------------------------
(* States that differ only in the value of a dead local are identified.     *)

Live(t) ==
    IF pc[t] = "idle" THEN <<>>
    ELSE <<op[t], floor[t],
           IF pc[t] = "stamp_wait" THEN ts[t] ELSE 0,
           IF op[t] = "snap" THEN <<local_stamp[t], todo[t], res[t]>> ELSE <<>>,
           IF pc[t] \in {"load", "read_stamp", "snap_return"} /\ op[t] = "snap"
           THEN <<>> ELSE <<p[t], x[t]>>,
           IF op[t] = "store" THEN old_v[t] ELSE <<>> >>

\* done_stamp decides about links only, born about done_stamp only.
Epochs ==
    IF \E q \in Ptrs : "null" \in setup.stored[q]
    THEN <<done_stamp, [t \in Threads |-> IF pc[t] = "idle" THEN 0 ELSE born[t]]>>
    ELSE <<>>

View ==
    <<setup, v, obj, nobj, locked, clock, Epochs, pc, [t \in Threads |-> Live(t)],
      ops, seen, before, cuts, pm, reclaim>>
=============================================================================
