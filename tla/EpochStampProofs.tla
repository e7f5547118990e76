-------------------------- MODULE EpochStampProofs --------------------------
(* done_stamp never passes the stamp of a running snapshot. *)
EXTENDS EpochProofs

\* prev_stamp was taken before the epoch became the current one, done_stamp
\* before it became the previous one.  A snapshot that announced the current
\* epoch is therefore not before prev_stamp, one that announced the previous
\* epoch not before done_stamp; the last two conjuncts say the same of the
\* values the after hooks are about to store.
ClockInv ==
    /\ done_stamp <= prev_stamp /\ prev_stamp <= clock
    /\ \A t \in Threads :
        /\ pc[t] \in Hooks \cup {"cas"} => current_stamp[t] <= clock
        /\ local_stamp[t] # -1 => InEpoch(t)
        /\ pc[t] = "cas" /\ current_epoch = current_e[t] => prev_stamp <= current_stamp[t]
        /\ pc[t] \in Hooks => prev_stamp <= current_stamp[t]

SnapshotInv ==
    \A t \in Threads : local_stamp[t] # -1 =>
        /\ last[t] = current_epoch => prev_stamp <= local_stamp[t]
        /\ current_epoch = last[t] + 1 => done_stamp <= local_stamp[t]
        /\ \A w \in Threads : pc[w] \in Hooks =>
            /\ last[t] = current_epoch => current_stamp[w] <= local_stamp[t]
            /\ current_epoch = last[t] + 1 /\ pc[w] = "after_done"
                   => prev_stamp <= local_stamp[t]

StampInv == ClockInv /\ SnapshotInv

LEMMA StampInit == Init => StampInv
  BY DEF Init, StampInv, ClockInv, SnapshotInv, Hooks

\* Steps that change no stamp, no epoch and no announcement of a snapshot.
QuietStamps ==
    /\ UNCHANGED <<stampVars, current_epoch>>
    /\ \A u \in Threads : local_stamp[u] # -1 => last'[u] = last[u] /\ InEpoch(u)'
    /\ \A u \in Threads : pc'[u] \in Hooks \cup {"cas"}
                              => pc'[u] = pc[u] /\ current_e'[u] = current_e[u]

LEMMA QuietStampsPreserves ==
  ASSUME StampInv, QuietStamps
  PROVE  StampInv'
<1> USE DEF QuietStamps, stampVars, StampInv, Hooks
<1>1. ClockInv'
  BY DEF ClockInv
<1>2. SnapshotInv'
  BY DEF SnapshotInv
<1> QED BY <1>1, <1>2

\* While hooks are pending nobody holds a scan for the current epoch.
LEMMA NoScanDuringHooks ==
  ASSUME TypeInv, EpochInv, NEW t \in Threads, NEW u \in Threads,
         pc[t] \in Hooks, pc[u] = "cas"
  PROVE  current_epoch # current_e[u]
<1>1. i[u] = N /\ InEpoch(t) /\ current_epoch = last[t] + 1
  BY DEF EpochInv, AnnounceInv, InEpoch, Hooks, RetirePC
<1>2. t < i[u]
  BY <1>1, NAssumption DEF Threads
<1>3. last[t] \in Nat \cup {-1}
  BY DEF TypeInv, TypeOK
<1>4. current_epoch = current_e[u] => last[t] = current_epoch
  BY <1>1, <1>2 DEF EpochInv, ScanInv, Scanning
<1> QED BY <1>1, <1>3, <1>4

LEMMA StampStep ==
  ASSUME TypeInv, EpochInv, StampInv, [Next]_vars
  PROVE  StampInv'
<1> USE DEF LoadCurrent, Goto, InEpoch, Hooks, RetirePC
<1>1. CASE Tick
  BY <1>1 DEF Tick, epochVars, TypeInv, TypeOK, StampInv, ClockInv, SnapshotInv
<1>2. ASSUME NEW t \in Threads, ThreadStep(t) PROVE StampInv'
  <2> USE DEF TypeInv, TypeOK, epochVars
  <2>a. \A u \in Threads : local_stamp[u] # -1 => InEpoch(u)
    BY DEF StampInv, ClockInv
  <2>1. CASE AnnounceLoad(t)
    BY <2>1, <2>a, QuietStampsPreserves DEF AnnounceLoad, QuietStamps
  <2>2. CASE AnnounceExchange(t)
    BY <2>2, <2>a, QuietStampsPreserves DEF AnnounceExchange, QuietStamps
  <2>3. CASE AnnounceRecheck(t)
    BY <2>3, <2>a, QuietStampsPreserves DEF AnnounceRecheck, QuietStamps
  <2>4. CASE Unannounce(t)
    BY <2>4 DEF Unannounce, StampInv, ClockInv, SnapshotInv
  <2>5. CASE TakeSnapshot(t)
    BY <2>5 DEF TakeSnapshot, StampInv, ClockInv, SnapshotInv
  <2>6. ASSUME NEW o \in Objects, NewObj(t, o) PROVE StampInv'
    BY <2>6, <2>a, QuietStampsPreserves DEF NewObj, QuietStamps
  <2>7. ASSUME NEW o \in Objects, PickUp(t, o) PROVE StampInv'
    BY <2>7, <2>a, QuietStampsPreserves DEF PickUp, QuietStamps
  <2>8. ASSUME NEW o \in Objects, Retire(t, o) PROVE StampInv'
    BY <2>8, <2>a, QuietStampsPreserves DEF Retire, QuietStamps
  <2>9. CASE AdvanceEpoch(t)
    BY <2>9, <2>a, QuietStampsPreserves DEF AdvanceEpoch, QuietStamps
  <2>10. CASE ClearList(t)
    BY <2>10, <2>a, QuietStampsPreserves DEF ClearList, QuietStamps
  <2>11. CASE SetPoolEpoch(t)
    BY <2>11, <2>a, QuietStampsPreserves DEF SetPoolEpoch, QuietStamps
  <2>12. CASE Heuristic(t)
    BY <2>12, <2>a, QuietStampsPreserves DEF Heuristic, QuietStamps
  <2>13. CASE Push(t)
    BY <2>13, <2>a, QuietStampsPreserves DEF Push, QuietStamps
  <2>14. CASE UpdateLoad(t)
    BY <2>14, <2>a, QuietStampsPreserves DEF UpdateLoad, QuietStamps
  <2>15. CASE ScanAnnounced(t)
    BY <2>15, <2>a, QuietStampsPreserves DEF ScanAnnounced, NextSlot, QuietStamps
  <2>16. CASE ScanOlder(t)
    BY <2>16, <2>a, QuietStampsPreserves DEF ScanOlder, NextSlot, QuietStamps
  <2>17. CASE BeforeHook(t)
    BY <2>17 DEF BeforeHook, StampInv, ClockInv, SnapshotInv
  <2>18. CASE CasEpoch(t)
    <3>1. CASE current_epoch # current_e[t]
      BY <2>18, <3>1, <2>a, QuietStampsPreserves DEF CasEpoch, QuietStamps
    <3>2. CASE current_epoch = current_e[t]
      <4>1. /\ pc[t] = "cas" /\ pc' = [pc EXCEPT ![t] = "after_done"]
            /\ current_epoch' = current_epoch + 1
            /\ UNCHANGED <<last, current_e, i, stampVars>>
        BY <2>18, <3>2 DEF CasEpoch
      <4>2. \A v \in Threads : InEpoch(v) => last[v] = current_epoch
        <5>1. i[t] = N
          BY <4>1 DEF EpochInv, AnnounceInv
        <5>2. \A v \in Threads : v < i[t]
          BY <5>1, NAssumption DEF Threads
        <5> QED BY <3>2, <4>1, <5>2 DEF EpochInv, ScanInv, Scanning
      <4>3. \A v \in Threads : v # t => pc'[v] = pc[v]
        BY <4>1
      <4>4. \A v \in Threads : pc[v] \notin Hooks
        BY <4>2 DEF EpochInv, AnnounceInv
      <4>5. ClockInv'
        <5>1. \A v \in Threads : v # t => current_epoch' # current_e'[v]
          BY <4>1 DEF EpochInv, AnnounceInv
        <5> QED BY <4>1, <4>3, <3>2, <5>1 DEF StampInv, ClockInv, stampVars
      <4>6. SnapshotInv'
        BY <4>1, <4>2, <4>3, <4>4, <2>a DEF StampInv, ClockInv, SnapshotInv, stampVars
      <4> QED BY <4>5, <4>6 DEF StampInv
    <3> QED BY <3>1, <3>2
  <2>19. CASE AfterHookDone(t)
    <3>1. \A v \in Threads : v # t => pc'[v] = pc[v]
      BY <2>19 DEF AfterHookDone
    <3>2. ClockInv'
      BY <2>19, <3>1 DEF AfterHookDone, StampInv, ClockInv
    <3>3. SnapshotInv'
      BY <2>19, <3>1 DEF AfterHookDone, StampInv, ClockInv, SnapshotInv
    <3> QED BY <3>2, <3>3 DEF StampInv
  <2>20. CASE AfterHookPrev(t)
    <3>1. \A v \in Threads : v # t => pc'[v] = pc[v]
      BY <2>20 DEF AfterHookPrev
    <3>2. \A v \in Threads : v # t => pc[v] \notin Hooks
      BY <2>20 DEF AfterHookPrev, EpochInv, HooksExclusive
    <3>3. \A v \in Threads : pc[v] = "cas" => current_epoch # current_e[v]
      BY <2>20, NoScanDuringHooks DEF AfterHookPrev
    <3>4. ClockInv'
      BY <2>20, <3>1, <3>2, <3>3 DEF AfterHookPrev, StampInv, ClockInv
    <3>5. SnapshotInv'
      BY <2>20, <3>1, <3>2 DEF AfterHookPrev, StampInv, SnapshotInv
    <3> QED BY <3>4, <3>5 DEF StampInv
  <2>21. CASE Clear(t)
    BY <2>21, <2>a DEF Clear, StampInv, ClockInv, SnapshotInv
  <2> QED
    BY <1>2, <2>1, <2>2, <2>3, <2>4, <2>5, <2>6, <2>7, <2>8, <2>9, <2>10, <2>11,
       <2>12, <2>13, <2>14, <2>15, <2>16, <2>17, <2>18, <2>19, <2>20, <2>21
    DEF ThreadStep
<1>3. CASE UNCHANGED vars
  BY <1>3, QuietStampsPreserves DEF vars, epochVars, QuietStamps, StampInv, ClockInv
<1> QED
  BY <1>1, <1>2, <1>3 DEF Next

-----------------------------------------------------------------------------
(* The theorems.                                                            *)

\* StampInv holds in every reachable state, on top of the base invariant.
THEOREM StampInvariant == Spec => []StampInv
<1>1. Init => StampInv
  BY StampInit
<1>2. BaseInv /\ StampInv /\ [Next]_vars => StampInv'
  BY StampStep DEF BaseInv
<1> QED BY <1>1, <1>2, BaseInvariant, PTL DEF Spec

\* For any number of threads and clock values: a version older than
\* done_stamp is needed by no snapshot that is still running.
THEOREM DoneStampSafeHolds == Spec => []DoneStampSafe
<1>1. BaseInv /\ StampInv => DoneStampSafe
  <2> SUFFICES ASSUME BaseInv, StampInv, NEW t \in Threads, local_stamp[t] # -1
               PROVE  done_stamp <= local_stamp[t]
    BY DEF DoneStampSafe
  <2>1. InEpoch(t)
    BY DEF BaseInv, StampInv, ClockInv
  <2>2. last[t] = current_epoch \/ current_epoch = last[t] + 1
    BY <2>1 DEF BaseInv, EpochInv, AnnounceInv, TypeInv, TypeOK
  <2> QED BY <2>2 DEF BaseInv, StampInv, ClockInv, SnapshotInv, TypeInv, TypeOK
<1> QED BY <1>1, BaseInvariant, StampInvariant, PTL
=============================================================================
