---------------------------- MODULE EpochProofs ----------------------------
(* Proofs about Epoch, for every number of threads, set of objects and bound. *)
EXTENDS Epoch, TLAPS

-----------------------------------------------------------------------------
(* Type correctness.                                                        *)

\* Every step of the epoch scheme keeps the variables in their types; in
\* particular the scan index of update_epoch stays within the slots.
TypeInv ==
    /\ TypeOK
    /\ \A t \in Threads : pc[t] \in {"scan", "scan_again"} => i[t] < N
    /\ \A t \in Threads : pc[t] \in RetirePC => pend[t] # None

LEMMA TypeInit == Init => TypeInv
  BY NAssumption DEF Init, TypeInv, TypeOK, PC, RetirePC, Threads

LEMMA TypeStep ==
  ASSUME TypeInv, [Next]_vars
  PROVE  TypeInv'
<1> USE NAssumption DEF TypeInv, TypeOK, PC, RetirePC, Goto, LoadCurrent
<1>1. CASE Tick
  BY <1>1 DEF Tick, epochVars, poolVars, clientVars
<1>2. ASSUME NEW t \in Threads, ThreadStep(t) PROVE TypeInv'
  <2>1. CASE AnnounceLoad(t)
    BY <2>1 DEF AnnounceLoad, stampVars, poolVars, clientVars
  <2>2. CASE AnnounceExchange(t)
    BY <2>2 DEF AnnounceExchange, stampVars, poolVars, clientVars
  <2>3. CASE AnnounceRecheck(t)
    BY <2>3 DEF AnnounceRecheck, epochVars, stampVars, poolVars, clientVars
  <2>4. CASE Unannounce(t)
    BY <2>4 DEF Unannounce, poolVars
  <2>5. CASE TakeSnapshot(t)
    BY <2>5 DEF TakeSnapshot, epochVars, poolVars, clientVars
  <2>6. ASSUME NEW o \in Objects, NewObj(t, o) PROVE TypeInv'
    BY <2>6 DEF NewObj, epochVars, stampVars, poolVars
  <2>7. ASSUME NEW o \in Objects, PickUp(t, o) PROVE TypeInv'
    BY <2>7 DEF PickUp, epochVars, stampVars, poolVars
  <2>8. ASSUME NEW o \in Objects, Retire(t, o) PROVE TypeInv'
    BY <2>8, NoneAssumption DEF Retire, epochVars, stampVars
  <2>9. CASE AdvanceEpoch(t)
    BY <2>9 DEF AdvanceEpoch, epochVars, stampVars, poolVars, clientVars
  <2>10. CASE ClearList(t)
    BY <2>10 DEF ClearList, epochVars, stampVars, clientVars
  <2>11. CASE SetPoolEpoch(t)
    BY <2>11 DEF SetPoolEpoch, epochVars, stampVars, clientVars
  <2>12. CASE Heuristic(t)
    BY <2>12 DEF Heuristic, epochVars, stampVars, poolVars, clientVars
  <2>13. CASE Push(t)
    <3>1. pend[t] \in Objects
      BY <2>13 DEF Push
    <3> QED BY <2>13, <3>1 DEF Push, epochVars, stampVars, clientVars
  <2>14. CASE UpdateLoad(t)
    BY <2>14 DEF UpdateLoad, stampVars, poolVars, clientVars
  <2>15. CASE ScanAnnounced(t)
    BY <2>15 DEF ScanAnnounced, NextSlot, stampVars, poolVars, clientVars
  <2>16. CASE ScanOlder(t)
    BY <2>16 DEF ScanOlder, NextSlot, stampVars, poolVars, clientVars
  <2>17. CASE BeforeHook(t)
    BY <2>17 DEF BeforeHook, epochVars, poolVars, clientVars
  <2>18. CASE CasEpoch(t)
    BY <2>18 DEF CasEpoch, stampVars, poolVars, clientVars
  <2>19. CASE AfterHookDone(t)
    BY <2>19 DEF AfterHookDone, epochVars, poolVars, clientVars
  <2>20. CASE AfterHookPrev(t)
    BY <2>20 DEF AfterHookPrev, epochVars, poolVars, clientVars
  <2>21. CASE Clear(t)
    BY <2>21 DEF Clear, clientVars
  <2> QED
    BY <1>2, <2>1, <2>2, <2>3, <2>4, <2>5, <2>6, <2>7, <2>8, <2>9, <2>10, <2>11,
       <2>12, <2>13, <2>14, <2>15, <2>16, <2>17, <2>18, <2>19, <2>20, <2>21
    DEF ThreadStep
<1>3. CASE UNCHANGED vars
  BY <1>3 DEF vars, epochVars, stampVars, poolVars, clientVars
<1> QED
  BY <1>1, <1>2, <1>3 DEF Next

-----------------------------------------------------------------------------
(* The epoch never runs two ahead of a running operation.                   *)

Scanning == {"scan", "scan_again", "before_hook", "cas"}
Hooks == {"after_done", "after_prev"}

\* An updater that is scanning for the current epoch has behind it only
\* operations that announced this epoch.  The thread that moved the epoch is
\* itself announced one behind until its after hooks are done, which keeps
\* every other updater out.
ScanInv ==
    \A u, v \in Threads :
        /\ pc[u] \in Scanning
        /\ v < i[u]
        /\ InEpoch(v)
        /\ current_epoch = current_e[u]
        => last[v] = current_epoch

AnnounceInv ==
    \A t \in Threads :
        /\ current_e[t] <= current_epoch
        /\ pc[t] = "recheck" => last[t] = current_e[t]
        /\ InEpoch(t) => /\ last[t] # -1
                         /\ last[t] <= current_epoch
                         /\ current_epoch <= last[t] + 1
        /\ pc[t] \in {"before_hook", "cas"} => i[t] = N
        /\ pc[t] \in Hooks => current_epoch = last[t] + 1

EpochInv == AnnounceInv /\ ScanInv /\ HooksExclusive

LEMMA EpochInit == Init => EpochInv
  BY DEF Init, EpochInv, AnnounceInv, ScanInv, HooksExclusive, InEpoch, Scanning,
         Hooks, RetirePC

\* Steps that leave the epoch variables alone and stay inside an operation,
\* away from the scan and from the hooks.
QuietStep(t) ==
    /\ UNCHANGED epochVars
    /\ \/ UNCHANGED pc
       \/ /\ InEpoch(t)
          /\ \E l \in {"in", "advance", "clear_list", "set_epoch", "heuristic",
                     "load_e", "push"} : Goto(t, l)

LEMMA QuietPreserves ==
  ASSUME TypeInv, EpochInv, NEW t \in Threads, QuietStep(t)
  PROVE  EpochInv'
<1> USE DEF QuietStep, epochVars, EpochInv, AnnounceInv, ScanInv, HooksExclusive,
            InEpoch, Goto, TypeInv, TypeOK, Scanning, Hooks, RetirePC
<1>1. CASE UNCHANGED pc
  BY <1>1
<1>2. CASE InEpoch(t) /\ \E l \in {"in", "advance", "clear_list", "set_epoch",
                                  "heuristic", "load_e", "push"} : Goto(t, l)
  <2>1. PICK l \in {"in", "advance", "clear_list", "set_epoch", "heuristic",
                    "load_e", "push"} : pc' = [pc EXCEPT ![t] = l]
    BY <1>2
  <2>2. \A u \in Threads : InEpoch(u)' <=> InEpoch(u)
    BY <1>2, <2>1
  <2>3. \A u \in Threads : pc'[u] \in Scanning \cup Hooks \cup {"recheck"}
                                => pc'[u] = pc[u]
    BY <1>2, <2>1
  <2>4. UNCHANGED <<current_epoch, last, current_e, i>>
    OBVIOUS
  <2>5. AnnounceInv'
    BY <2>2, <2>3, <2>4
  <2>6. ScanInv'
    BY <2>2, <2>3, <2>4
  <2>7. HooksExclusive'
    BY <2>3
  <2> QED BY <2>5, <2>6, <2>7
<1> QED BY <1>1, <1>2

\* The slot an updater looks at is the slot of a thread.
LEMMA SlotInRange ==
  ASSUME TypeInv, NEW t \in Threads, pc[t] \in {"scan", "scan_again"}
  PROVE  i[t] \in Threads
  BY NAssumption DEF TypeInv, TypeOK, Threads

\* Passing a slot extends what the scan has behind it by one thread.
LEMMA NextSlotPreserves ==
  ASSUME TypeInv, EpochInv, NEW t \in Threads, NextSlot(t),
         pc[t] \in {"scan", "scan_again"},
         UNCHANGED <<current_epoch, last, current_e>>,
         InEpoch(i[t]) /\ current_epoch = current_e[t] => last[i[t]] = current_epoch
  PROVE  EpochInv'
<1> USE DEF EpochInv, AnnounceInv, ScanInv, HooksExclusive, InEpoch, Goto,
            TypeInv, TypeOK, Scanning, Hooks, RetirePC
<1>1. i[t] \in Threads
  BY SlotInRange
<1>2. i' = [i EXCEPT ![t] = i[t] + 1]
  BY DEF NextSlot
<1>3. PICK l \in {"before_hook", "scan"} :
          pc' = [pc EXCEPT ![t] = l] /\ (l = "before_hook" => i[t] + 1 = N)
  BY DEF NextSlot
<1>4. \A v \in Threads : InEpoch(v)' <=> InEpoch(v)
  BY <1>3
<1>5. \A v \in Threads : v # t => pc'[v] = pc[v] /\ i'[v] = i[v]
  BY <1>2, <1>3
<1>6. AnnounceInv'
  BY <1>2, <1>3, <1>4, <1>5
<1>7. ScanInv'
  <2> SUFFICES ASSUME NEW u \in Threads, NEW v \in Threads,
                      pc'[u] \in Scanning, v < i'[u], InEpoch(v)',
                      current_epoch' = current_e'[u]
               PROVE  last'[v] = current_epoch'
    OBVIOUS
  <2>1. CASE u # t
    BY <2>1, <1>4, <1>5
  <2>2. CASE u = t /\ v = i[t]
    BY <2>2, <1>4
  <2>3. CASE u = t /\ v # i[t]
    <3>1. v < i[t]
      BY <2>3, <1>1, <1>2 DEF Threads
    <3> QED BY <2>3, <3>1, <1>4
  <2> QED BY <2>1, <2>2, <2>3
<1>8. HooksExclusive'
  BY <1>3, <1>5
<1> QED BY <1>6, <1>7, <1>8

\* What the client and the pool do is of this kind.
LEMMA PoolStepsQuiet ==
  ASSUME NEW t \in Threads,
         \/ TakeSnapshot(t)
         \/ \E o \in Objects : NewObj(t, o) \/ PickUp(t, o) \/ Retire(t, o)
         \/ AdvanceEpoch(t) \/ ClearList(t) \/ SetPoolEpoch(t)
         \/ Heuristic(t) \/ Push(t) \/ AfterHookPrev(t)
  PROVE  QuietStep(t)
<1> USE DEF QuietStep, Goto, InEpoch, RetirePC
<1>1. CASE TakeSnapshot(t)
  BY <1>1 DEF TakeSnapshot
<1>2. CASE \E o \in Objects : NewObj(t, o) \/ PickUp(t, o) \/ Retire(t, o)
  BY <1>2 DEF NewObj, PickUp, Retire
<1>3. CASE AdvanceEpoch(t)
  BY <1>3 DEF AdvanceEpoch
<1>4. CASE ClearList(t)
  BY <1>4 DEF ClearList
<1>5. CASE SetPoolEpoch(t)
  BY <1>5 DEF SetPoolEpoch
<1>6. CASE Heuristic(t)
  BY <1>6 DEF Heuristic
<1>7. CASE Push(t)
  BY <1>7 DEF Push
<1>8. CASE AfterHookPrev(t)
  BY <1>8 DEF AfterHookPrev
<1> QED BY <1>1, <1>2, <1>3, <1>4, <1>5, <1>6, <1>7, <1>8

LEMMA EpochStep ==
  ASSUME TypeInv, EpochInv, [Next]_vars
  PROVE  EpochInv'
<1>0. 0 \in Threads
  BY NAssumption DEF Threads
<1>1. CASE Tick
  BY <1>0, <1>1, QuietPreserves DEF Tick, QuietStep
<1>2. ASSUME NEW t \in Threads, ThreadStep(t) PROVE EpochInv'
  <2>0. CASE \/ TakeSnapshot(t)
             \/ \E o \in Objects : NewObj(t, o) \/ PickUp(t, o) \/ Retire(t, o)
             \/ AdvanceEpoch(t) \/ ClearList(t) \/ SetPoolEpoch(t)
             \/ Heuristic(t) \/ Push(t) \/ AfterHookPrev(t)
    BY <2>0, PoolStepsQuiet, QuietPreserves
  <2> USE DEF EpochInv, AnnounceInv, ScanInv, HooksExclusive, InEpoch, Goto,
              LoadCurrent, TypeInv, TypeOK, PC, Scanning, Hooks, RetirePC
  <2>1. CASE AnnounceLoad(t)
    BY <2>1 DEF AnnounceLoad
  <2>2. CASE AnnounceExchange(t)
    BY <2>2 DEF AnnounceExchange
  <2>3. CASE AnnounceRecheck(t)
    BY <2>3 DEF AnnounceRecheck, AnnouncedCurrent, epochVars
  <2>4. CASE Unannounce(t)
    BY <2>4 DEF Unannounce
  <2>5. CASE UpdateLoad(t)
    BY <2>5 DEF UpdateLoad, Threads
  <2>6. CASE ScanAnnounced(t)
    <3>1. CASE last[i[t]] = -1
      <4>1. NextSlot(t) /\ pc[t] = "scan"
        BY <2>6, <3>1 DEF ScanAnnounced
      <4>2. InEpoch(i[t]) => last[i[t]] = current_epoch
        BY <2>6, <3>1, SlotInRange DEF ScanAnnounced
      <4> QED BY <2>6, <4>1, <4>2, NextSlotPreserves DEF ScanAnnounced
    <3>2. CASE last[i[t]] # -1
      <4>1. i' = i /\ pc' = [pc EXCEPT ![t] = "scan_again"] /\ pc[t] = "scan"
        BY <2>6, <3>2 DEF ScanAnnounced
      <4> QED BY <2>6, <4>1 DEF ScanAnnounced
    <3> QED BY <3>1, <3>2
  <2>7. CASE ScanOlder(t)
    <3>1. CASE SlotOlder(t)
      BY <2>7, <3>1, QuietPreserves DEF ScanOlder, QuietStep, epochVars
    <3>2. CASE ~SlotOlder(t)
      <4>1. NextSlot(t) /\ pc[t] = "scan_again"
        BY <2>7, <3>2 DEF ScanOlder
      <4>2. i[t] \in Threads /\ current_e[t] <= last[i[t]]
        BY <2>7, <3>2, SlotInRange DEF ScanOlder, SlotOlder
      <4>3. InEpoch(i[t]) /\ current_epoch = current_e[t] => last[i[t]] = current_epoch
        BY <4>2
      <4> QED BY <2>7, <4>1, <4>3, NextSlotPreserves DEF ScanOlder
    <3> QED BY <3>1, <3>2
  <2>8. CASE BeforeHook(t)
    BY <2>8 DEF BeforeHook, epochVars
  <2>9. CASE CasEpoch(t)
    <3>1. CASE current_epoch # current_e[t]
      BY <2>9, <3>1, QuietPreserves DEF CasEpoch, QuietStep, epochVars
    <3>2. CASE current_epoch = current_e[t]
      <4>1. /\ pc[t] = "cas" /\ pc' = [pc EXCEPT ![t] = "after_done"]
            /\ current_epoch' = current_epoch + 1
            /\ UNCHANGED <<last, current_e, i>>
        BY <2>9, <3>2 DEF CasEpoch
      <4>2. \A v \in Threads : InEpoch(v) => last[v] = current_epoch
        <5>1. i[t] = N /\ pc[t] \in Scanning
          BY <4>1
        <5>2. \A v \in Threads : v < i[t]
          BY <5>1, NAssumption DEF Threads
        <5> QED BY <3>2, <5>1, <5>2
      <4>3. \A v \in Threads : pc[v] \notin Hooks
        BY <4>2
      <4>4. \A v \in Threads : InEpoch(v)' <=> InEpoch(v)
        BY <4>1
      <4>5. \A v \in Threads : v # t => pc'[v] = pc[v]
        BY <4>1
      <4>6. AnnounceInv'
        BY <4>1, <4>2, <4>3, <4>4, <4>5
      <4>7. ScanInv'
        <5>1. \A u \in Threads : current_e'[u] <= current_epoch /\ current_epoch \in Nat
          BY <4>1
        <5>2. \A u \in Threads : current_epoch' # current_e'[u]
          BY <4>1, <5>1
        <5> QED BY <5>2
      <4>8. HooksExclusive'
        BY <4>3, <4>5
      <4> QED BY <4>6, <4>7, <4>8
    <3> QED BY <3>1, <3>2
  <2>10. CASE AfterHookDone(t)
    BY <2>10 DEF AfterHookDone, epochVars
  <2>11. CASE Clear(t)
    BY <2>11 DEF Clear
  <2> HIDE DEF EpochInv, TypeInv, InEpoch, Goto
  <2> QED
    BY <1>2, <2>0, <2>1, <2>2, <2>3, <2>4, <2>5, <2>6, <2>7, <2>8, <2>9,
       <2>10, <2>11
    DEF ThreadStep
<1>3. CASE UNCHANGED vars
  BY <1>0, <1>3, QuietPreserves DEF vars, QuietStep
<1> QED
  BY <1>1, <1>2, <1>3 DEF Next

-----------------------------------------------------------------------------
(* The theorems.                                                            *)

\* The first layer of the invariant: types, announcements, scans and hooks.
BaseInv == TypeInv /\ EpochInv

\* Every reachable state of the epoch scheme satisfies the base invariant.
THEOREM BaseInvariant == Spec => []BaseInv
<1>1. Init => BaseInv
  BY TypeInit, EpochInit DEF BaseInv
<1>2. BaseInv /\ [Next]_vars => BaseInv'
  BY TypeStep, EpochStep DEF BaseInv
<1> QED BY <1>1, <1>2, PTL DEF Spec

\* Every variable of epoch_s, mem_pool and the hooks keeps its type.
THEOREM TypeCorrect == Spec => []TypeOK
<1>1. BaseInv => TypeOK
  BY DEF BaseInv, TypeInv
<1> QED BY <1>1, BaseInvariant, PTL

\* For any number of threads: the epoch that update_epoch installs is never
\* two ahead of an operation inside with_epoch.
THEOREM EpochGapHolds == Spec => []EpochGap
<1>1. BaseInv => EpochGap
  BY DEF BaseInv, EpochInv, AnnounceInv, EpochGap, TypeInv, TypeOK
<1> QED BY <1>1, BaseInvariant, PTL

\* For any number of threads: the after hooks of update_epoch never run in
\* two threads at once, so plain done_stamp and prev_stamp are enough.
THEOREM HooksExclusiveHolds == Spec => []HooksExclusive
<1>1. BaseInv => HooksExclusive
  BY DEF BaseInv, EpochInv
<1> QED BY <1>1, BaseInvariant, PTL
=============================================================================
