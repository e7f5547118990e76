-------------------------- MODULE TimestampsProofs --------------------------
(* The clocks keep what read_snapshot needs of them, whatever the number of *)
(* threads.                                                                 *)
EXTENDS Timestamps, TLAPS

\* Read stamps lie behind the clock once they are returned: strictly behind
\* it when it is the readers that move the clock.
ReadsBehind ==
    /\ maxRead <= stamp
    /\ kind \in {"read_hw", "read"} => maxRead < stamp

\* A call returns no stamp from before its beginning.
CallInv ==
    \A t \in Threads : pc[t] # "idle" =>
        /\ readFloor[t] <= maxRead
        /\ writeFloor[t] <= maxWrite
        /\ pc[t] # "load" =>
            /\ readFloor[t] <= ts[t] /\ writeFloor[t] <= ts[t] /\ ts[t] <= stamp
            /\ kind \in {"read_hw", "read"} => op[t] = "read"

StampInv ==
    /\ TypeOK /\ ReadsBehind /\ maxWrite <= stamp
    /\ CallInv /\ WritesAfterSnapshots /\ StampsFollowRealTime

LEMMA StampInit == Init => StampInv
  BY NAssumption, KindsAssumption
  DEF Init, FirstStamp, StampInv, TypeOK, Ops, ReadsBehind, CallInv,
      WritesAfterSnapshots, StampsFollowRealTime, Finished

\* A call returns v: enough that v is not before its beginning and that the
\* clock has passed it.
LEMMA ReturnPreserves ==
  ASSUME StampInv, NEW t \in Threads, NEW v \in Nat, Return(t, v),
         UNCHANGED <<kind, op>>,
         pc[t] # "idle",
         stamp' \in Nat, stamp <= stamp', v <= stamp',
         ts' \in [Threads -> Nat], \A u \in Threads \ {t} : ts'[u] = ts[u],
         readFloor[t] <= v, writeFloor[t] <= v,
         op[t] = "read" /\ kind \in {"read_hw", "read"} => v < stamp',
         op[t] = "write" /\ kind # "read_write" => readFloor[t] < v
  PROVE  StampInv'
<1> USE DEF StampInv, TypeOK, Return
<1>0. TypeOK'
  OBVIOUS
<1>1. ReadsBehind' /\ (maxWrite <= stamp)'
  BY DEF ReadsBehind
<1>2. CallInv'
  BY DEF CallInv
<1>3. WritesAfterSnapshots'
  BY DEF WritesAfterSnapshots, Finished
<1>4. StampsFollowRealTime'
  BY DEF StampsFollowRealTime, Finished
<1> QED BY <1>0, <1>1, <1>2, <1>3, <1>4

LEMMA StampStep ==
  ASSUME StampInv, [Next]_vars
  PROVE  StampInv'
<1> USE DEF Ops
<1>1. CASE Tick
  BY <1>1 DEF Tick, ghostVars, StampInv, TypeOK, ReadsBehind, CallInv,
              WritesAfterSnapshots, StampsFollowRealTime, Finished
<1>2. ASSUME NEW t \in Threads, NEW o \in Ops, Call(t, o) PROVE StampInv'
  BY <1>2 DEF Call, StampInv, TypeOK, ReadsBehind, CallInv,
              WritesAfterSnapshots, StampsFollowRealTime, Finished
<1>3. ASSUME NEW t \in Threads, Load(t) PROVE StampInv'
  <2>1. CASE MustMove(op[t], stamp)
    <3>1. kind \in {"read_hw", "read"} => op[t] = "read"
      BY <2>1 DEF MustMove
    <3> QED
      BY <1>3, <2>1, <3>1
      DEF Load, ghostVars, StampInv, TypeOK, ReadsBehind, CallInv,
          WritesAfterSnapshots, StampsFollowRealTime, Finished
  <2>2. CASE ~ MustMove(op[t], stamp)
    <3>1. /\ Return(t, stamp) /\ UNCHANGED <<kind, stamp, op>> /\ pc[t] # "idle"
          /\ ts' = [ts EXCEPT ![t] = stamp]
      BY <1>3, <2>2 DEF Load
    <3>2. /\ stamp \in Nat /\ ts \in [Threads -> Nat] /\ kind \in Kinds /\ op[t] \in Ops
          /\ readFloor[t] <= stamp /\ writeFloor[t] <= stamp
          /\ kind \in {"read_hw", "read"} => readFloor[t] < stamp
      BY <3>1 DEF StampInv, TypeOK, CallInv, ReadsBehind
    <3>3. /\ kind \in {"read_hw", "read"} => op[t] # "read"
          /\ kind \in {"write_hw", "write"} => op[t] # "write"
      BY <2>2 DEF MustMove
    <3> QED
      BY <3>1, <3>2, <3>3, KindsAssumption, ReturnPreserves
  <2> QED BY <2>1, <2>2
<1>4. ASSUME NEW t \in Threads, pc[t] \in {"recheck", "move"},
             NEW v \in {ts[t], Moved(op[t], ts[t])}, Return(t, v),
             v # Moved(op[t], ts[t]) => kind = "read_write",
             UNCHANGED <<kind, op, ts>>,
             stamp' \in Nat, stamp <= stamp', ts[t] < stamp'
      PROVE  StampInv'
  <2>1. /\ stamp \in Nat /\ ts \in [Threads -> Nat] /\ kind \in Kinds /\ op[t] \in Ops
        /\ readFloor[t] \in Nat /\ writeFloor[t] \in Nat
        /\ readFloor[t] <= ts[t] /\ writeFloor[t] <= ts[t] /\ ts[t] <= stamp
    BY <1>4 DEF StampInv, TypeOK, CallInv
  <2>2. /\ v \in Nat /\ v <= stamp' /\ readFloor[t] <= v /\ writeFloor[t] <= v
        /\ op[t] = "read" => v < stamp'
        /\ op[t] = "write" /\ kind # "read_write" => readFloor[t] < v
    BY <1>4, <2>1 DEF Moved
  <2> QED
    BY <1>4, <2>1, <2>2, ReturnPreserves
<1>5. ASSUME NEW t \in Threads, WaitForTick(t) PROVE StampInv'
  <2>1. ts[t] \in Nat /\ stamp \in Nat /\ ts[t] <= stamp
    BY <1>5 DEF WaitForTick, StampInv, TypeOK, CallInv
  <2> QED BY <1>4, <1>5, <2>1 DEF WaitForTick
<1>6. ASSUME NEW t \in Threads, Recheck(t) PROVE StampInv'
  <2>1. ts[t] \in Nat /\ stamp \in Nat /\ ts[t] <= stamp
    BY <1>6 DEF Recheck, StampInv, TypeOK, CallInv
  <2>2. CASE stamp = ts[t]
    BY <1>6, <2>2
    DEF Recheck, ghostVars, StampInv, TypeOK, ReadsBehind, CallInv,
        WritesAfterSnapshots, StampsFollowRealTime, Finished
  <2>3. CASE stamp # ts[t]
    BY <1>4, <1>6, <2>1, <2>3 DEF Recheck
  <2> QED BY <2>2, <2>3
<1>7. ASSUME NEW t \in Threads, FetchAdd(t) PROVE StampInv'
  <2>1. ts[t] \in Nat /\ stamp \in Nat /\ ts[t] <= stamp
    BY <1>7 DEF FetchAdd, StampInv, TypeOK, CallInv
  <2> QED BY <1>4, <1>7, <2>1 DEF FetchAdd
<1>8. ASSUME NEW t \in Threads, CasStamp(t) PROVE StampInv'
  <2>1. ts[t] \in Nat /\ stamp \in Nat /\ ts[t] <= stamp
    BY <1>8 DEF CasStamp, StampInv, TypeOK, CallInv
  <2> QED BY <1>4, <1>8, <2>1 DEF CasStamp
<1>9. CASE UNCHANGED vars
  BY <1>9 DEF vars, StampInv, TypeOK, ReadsBehind, CallInv,
              WritesAfterSnapshots, StampsFollowRealTime, Finished
<1> QED
  BY <1>1, <1>2, <1>3, <1>5, <1>6, <1>7, <1>8, <1>9 DEF Next

-----------------------------------------------------------------------------
(* The theorems.                                                            *)

\* StampInv holds in every reachable state.
THEOREM StampInvariant == Spec => []StampInv
<1>1. Init => StampInv
  BY StampInit
<1>2. StampInv /\ [Next]_vars => StampInv'
  BY StampStep
<1> QED BY <1>1, <1>2, PTL DEF Spec

\* For any number of threads: with the hardware clocks, the read clock and the
\* write clock, a version stamped by a call made after a snapshot got its
\* stamp is later than the snapshot.
THEOREM WritesAfterSnapshotsHolds == Spec => []WritesAfterSnapshots
<1>1. StampInv => WritesAfterSnapshots
  BY DEF StampInv
<1> QED BY <1>1, StampInvariant, PTL

\* For any number of threads and every clock: stamps respect the order in
\* which calls return and begin.
THEOREM StampsFollowRealTimeHolds == Spec => []StampsFollowRealTime
<1>1. StampInv => StampsFollowRealTime
  BY DEF StampInv
<1> QED BY <1>1, StampInvariant, PTL
=============================================================================
