------------------------- MODULE EpochReclaimProofs -------------------------
(* No operation holds an object that the pool has destructed. *)
EXTENDS EpochProofs

Held(o) ==
    o \in linked \/ \E p \in Threads : o \in old[p] \cup current[p] \cup {pend[p]}

LEMMA FreedIsNotHeld ==
  \A o \in Objects : o \in Freed <=> ~ Held(o)
  BY DEF Freed, Held

\* Past the grace check of advance_epoch.
Settled == RetirePC \ {"advance", "clear_list", "set_epoch"}

\* Between the swap of the lists and the second load of the epoch the old
\* list is judged by the epoch that pools[p].epoch is about to take.
Lag(p) == IF pc[p] = "set_epoch" THEN 2 ELSE 0

PoolInv ==
    \A p \in Threads :
        /\ epoch[p] <= current_epoch
        /\ pc[p] \in {"clear_list", "set_epoch"} => epoch[p] + 2 <= current_epoch
        /\ pc[p] = "set_epoch" => current[p] = {}
        /\ pend[p] # None => pc[p] \in RetirePC /\ pend[p] \in fading[p]
        /\ fading[p] # {} \/ refs[p] # {} => InEpoch(p)
        /\ pc[p] \in Settled => last[p] <= epoch[p] + 1

\* A retired object is in one place only.
OnceInv ==
    /\ RetiredOnce
    /\ \A p, q \in Threads : pend[p] # None =>
        /\ pend[p] \notin linked \cup old[q] \cup current[q]
        /\ p # q => pend[p] # pend[q]

\* How far the pool's epoch may be behind an operation that can still lead
\* others to a retired object.
FadingInv ==
    \A t \in Threads : \A o \in fading[t] :
        /\ Held(o)
        /\ \A p \in Threads :
            /\ o \in current[p] => last[t] <= epoch[p] + 1
            /\ o \in old[p] => last[t] + 1 <= epoch[p] + Lag(p)
            /\ o = pend[p] /\ pc[p] \in Settled => last[t] <= epoch[p] + 1

\* ... and behind an operation that holds one.
RefInv ==
    \A t \in Threads : \A o \in refs[t] :
        /\ Held(o)
        /\ \A p \in Threads :
            /\ o \in current[p] => last[t] <= epoch[p] + 2
            /\ o \in old[p] => last[t] <= epoch[p] + Lag(p)

ReclaimInv == PoolInv /\ OnceInv /\ FadingInv /\ RefInv

LEMMA ReclaimInit == Init => ReclaimInv
  BY DEF Init, ReclaimInv, PoolInv, OnceInv, RetiredOnce, FadingInv, RefInv, Settled,
         RetirePC

\* Steps that change no pool and nothing of the client.
QuietPools ==
    /\ UNCHANGED <<poolVars, clientVars>>
    /\ current_epoch' \in Nat /\ current_epoch <= current_epoch'
    /\ \A u \in Threads :
        /\ InEpoch(u) => InEpoch(u)' /\ last'[u] = last[u]
        /\ pc[u] \in RetirePC <=> pc'[u] \in RetirePC
        /\ pc'[u] \in Settled => pc[u] \in Settled
        /\ pc'[u] = "clear_list" => pc[u] = "clear_list"
        /\ pc'[u] = "set_epoch" <=> pc[u] = "set_epoch"

LEMMA QuietPoolsPreserves ==
  ASSUME TypeInv, ReclaimInv, QuietPools
  PROVE  ReclaimInv'
<1> USE DEF ReclaimInv, QuietPools, poolVars, clientVars, TypeInv, TypeOK
<1>0. /\ UNCHANGED <<old, current, epoch, pend, linked, fading, refs>>
      /\ \A p \in Threads : Lag(p)' = Lag(p) /\ Lag(p) \in Nat
  BY DEF Lag
<1>1. PoolInv'
  <2> SUFFICES ASSUME NEW p \in Threads
               PROVE  /\ epoch[p] <= current_epoch'
                      /\ pc'[p] \in {"clear_list", "set_epoch"} => epoch[p] + 2 <= current_epoch'
                      /\ pc'[p] = "set_epoch" => current[p] = {}
                      /\ pend[p] # None => pc'[p] \in RetirePC /\ pend[p] \in fading[p]
                      /\ fading[p] # {} \/ refs[p] # {} => InEpoch(p)'
                      /\ pc'[p] \in Settled => last'[p] <= epoch[p] + 1
    BY <1>0 DEF PoolInv, InEpoch
  <2>1. pc'[p] \in Settled => InEpoch(p)
    BY DEF InEpoch, Settled
  <2> QED BY <2>1 DEF PoolInv
<1>2. OnceInv'
  BY <1>0 DEF OnceInv, RetiredOnce
<1>h. \A o : Held(o)' <=> Held(o)
  BY <1>0 DEF Held
<1>3. FadingInv'
  BY <1>0, <1>h DEF FadingInv, PoolInv
<1>4. RefInv'
  BY <1>0, <1>h DEF RefInv, PoolInv
<1> QED BY <1>1, <1>2, <1>3, <1>4

\* The steps of announce, with_snapshot and update_epoch are of this kind.
LEMMA EpochStepsQuiet ==
  ASSUME TypeInv, NEW t \in Threads,
         \/ AnnounceLoad(t) \/ AnnounceExchange(t) \/ AnnounceRecheck(t)
         \/ TakeSnapshot(t) \/ Heuristic(t) \/ UpdateLoad(t)
         \/ ScanAnnounced(t) \/ ScanOlder(t) \/ BeforeHook(t) \/ CasEpoch(t)
         \/ AfterHookDone(t) \/ AfterHookPrev(t)
  PROVE  QuietPools
<1> USE DEF QuietPools, Goto, InEpoch, RetirePC, Settled, epochVars, TypeInv, TypeOK
<1>1. CASE AnnounceLoad(t)
  BY <1>1 DEF AnnounceLoad
<1>2. CASE AnnounceExchange(t)
  BY <1>2 DEF AnnounceExchange
<1>3. CASE AnnounceRecheck(t)
  BY <1>3 DEF AnnounceRecheck
<1>4. CASE TakeSnapshot(t)
  BY <1>4 DEF TakeSnapshot
<1>5. CASE Heuristic(t)
  BY <1>5 DEF Heuristic
<1>6. CASE UpdateLoad(t)
  BY <1>6 DEF UpdateLoad
<1>7. CASE ScanAnnounced(t)
  BY <1>7 DEF ScanAnnounced, NextSlot
<1>8. CASE ScanOlder(t)
  BY <1>8 DEF ScanOlder, NextSlot
<1>9. CASE BeforeHook(t)
  BY <1>9 DEF BeforeHook
<1>10. CASE CasEpoch(t)
  BY <1>10 DEF CasEpoch
<1>11. CASE AfterHookDone(t)
  BY <1>11 DEF AfterHookDone
<1>12. CASE AfterHookPrev(t)
  BY <1>12 DEF AfterHookPrev
<1> QED BY <1>1, <1>2, <1>3, <1>4, <1>5, <1>6, <1>7,
           <1>8, <1>9, <1>10, <1>11, <1>12

LEMMA ReclaimStep ==
  ASSUME TypeInv, EpochInv, ReclaimInv, [Next]_vars
  PROVE  ReclaimInv'
<1>1. CASE Tick
  BY <1>1, QuietPoolsPreserves DEF Tick, epochVars, QuietPools, InEpoch, TypeInv, TypeOK
<1>2. ASSUME NEW t \in Threads, ThreadStep(t) PROVE ReclaimInv'
  <2>a. \A u \in Threads : InEpoch(u) => /\ last[u] \in Nat
                                        /\ last[u] <= current_epoch
                                        /\ current_epoch <= last[u] + 1
    BY DEF EpochInv, AnnounceInv, TypeInv, TypeOK
  <2>1. CASE AnnounceLoad(t)
    BY <2>1, EpochStepsQuiet, QuietPoolsPreserves
  <2>2. CASE AnnounceExchange(t)
    BY <2>2, EpochStepsQuiet, QuietPoolsPreserves
  <2>3. CASE AnnounceRecheck(t)
    BY <2>3, EpochStepsQuiet, QuietPoolsPreserves
  <2>4. CASE Unannounce(t)
    <3> USE DEF LoadCurrent, Goto, InEpoch, RetirePC, Settled, ReclaimInv, TypeInv, TypeOK,
                epochVars
    <3>1. PoolInv'
      BY <2>4 DEF Unannounce, poolVars, PoolInv
    <3>2. OnceInv'
      BY <2>4 DEF Unannounce, poolVars, OnceInv, RetiredOnce
    <3>3. FadingInv'
      BY <2>4 DEF Unannounce, poolVars, FadingInv, Lag, Held
    <3>4. RefInv'
      BY <2>4 DEF Unannounce, poolVars, RefInv, Lag, Held
    <3> QED BY <3>1, <3>2, <3>3, <3>4
  <2>5. CASE TakeSnapshot(t)
    BY <2>5, EpochStepsQuiet, QuietPoolsPreserves
  <2>6. ASSUME NEW o \in Objects, NewObj(t, o) PROVE ReclaimInv'
    <3> USE DEF LoadCurrent, Goto, InEpoch, RetirePC, Settled, ReclaimInv, TypeInv, TypeOK,
                epochVars
    <3>0. ~ Held(o)
      BY <2>6, FreedIsNotHeld DEF NewObj
    <3>1. PoolInv'
      BY <2>6 DEF NewObj, poolVars, PoolInv
    <3>2. OnceInv'
      BY <2>6, <3>0 DEF NewObj, poolVars, OnceInv, RetiredOnce, Held
    <3>3. FadingInv'
      BY <2>6 DEF NewObj, poolVars, FadingInv, Lag, Held
    <3>4. RefInv'
      BY <2>6 DEF NewObj, poolVars, RefInv, Lag, Held
    <3> QED BY <3>1, <3>2, <3>3, <3>4
  <2>7. ASSUME NEW o \in Objects, PickUp(t, o) PROVE ReclaimInv'
    <3> USE DEF LoadCurrent, Goto, InEpoch, RetirePC, Settled, ReclaimInv, TypeInv, TypeOK,
                epochVars
    <3>1. PoolInv'
      BY <2>7 DEF PickUp, poolVars, PoolInv
    <3>2. OnceInv'
      BY <2>7 DEF PickUp, poolVars, OnceInv, RetiredOnce
    <3>3. FadingInv'
      BY <2>7 DEF PickUp, poolVars, FadingInv, Lag, Held
    <3>4. /\ Held(o)
          /\ \A p \in Threads :
               /\ o \in current[p] => last[t] <= epoch[p] + 2
               /\ o \in old[p] => last[t] <= epoch[p] + Lag(p)
      <4>1. CASE o \in linked
        BY <4>1 DEF Held, OnceInv, RetiredOnce
      <4>2. ASSUME NEW q \in Threads, o \in fading[q]
            PROVE  /\ Held(o)
                   /\ \A p \in Threads :
                        /\ o \in current[p] => last[t] <= epoch[p] + 2
                        /\ o \in old[p] => last[t] <= epoch[p] + Lag(p)
        <5>3. InEpoch(q) /\ InEpoch(t)
          BY <2>7, <4>2 DEF PoolInv, PickUp
        <5>4. last[t] <= last[q] + 1
          BY <5>3, <2>a
        <5>5. \A p \in Threads : Lag(p) \in Nat
          BY DEF Lag
        <5> QED BY <4>2, <5>3, <5>4, <5>5, <2>a DEF FadingInv
      <4> QED BY <2>7, <4>1, <4>2 DEF PickUp
    <3>5. RefInv'
      BY <2>7, <3>4 DEF PickUp, poolVars, RefInv, Lag, Held
    <3> QED BY <3>1, <3>2, <3>3, <3>5
  <2>8. ASSUME NEW o \in Objects, Retire(t, o) PROVE ReclaimInv'
    <3> USE DEF LoadCurrent, Goto, InEpoch, RetirePC, Settled, ReclaimInv, TypeInv, TypeOK,
                epochVars
    <3>0. pend[t] = None
      BY <2>8 DEF Retire, PoolInv
    <3>1. PoolInv'
      BY <2>8, <3>0, NoneAssumption DEF Retire, PoolInv
    <3>2. OnceInv'
      BY <2>8, <3>0, NoneAssumption DEF Retire, OnceInv, RetiredOnce
    <3>h. Held(o)' /\ \A x \in Objects : Held(x) => Held(x)'
      BY <2>8, <3>0, NoneAssumption DEF Retire, Held
    <3>3. FadingInv'
      <4> SUFFICES ASSUME NEW u \in Threads, NEW x \in fading'[u], NEW p \in Threads
                   PROVE  /\ Held(x)'
                          /\ x \in current[p] => last[u] <= epoch[p] + 1
                          /\ x \in old[p] => last[u] + 1 <= epoch[p] + Lag(p)'
                          /\ x = pend'[p] /\ pc'[p] \in Settled => last[u] <= epoch[p] + 1
        BY <2>8 DEF Retire, FadingInv
      <4>0. Lag(p)' = Lag(p)
        BY <2>8 DEF Retire, Lag
      <4>1. CASE x \in fading[u]
        BY <2>8, <3>h, <4>0, <4>1 DEF Retire, FadingInv
      <4>2. CASE x = o
        BY <2>8, <3>h, <4>2, NoneAssumption DEF Retire, OnceInv, RetiredOnce
      <4> QED BY <2>8, <4>1, <4>2 DEF Retire
    <3>4. RefInv'
      BY <2>8, <3>h DEF Retire, RefInv, Lag
    <3> QED BY <3>1, <3>2, <3>3, <3>4
  <2>9. CASE AdvanceEpoch(t)
    <3> USE DEF LoadCurrent, Goto, InEpoch, RetirePC, Settled, ReclaimInv, TypeInv, TypeOK,
                epochVars
    <3>1. PoolInv'
      BY <2>9, <2>a DEF AdvanceEpoch, GraceOver, poolVars, clientVars, PoolInv
    <3>2. OnceInv'
      BY <2>9 DEF AdvanceEpoch, poolVars, clientVars, OnceInv, RetiredOnce
    <3>3. FadingInv'
      BY <2>9, <2>a DEF AdvanceEpoch, GraceOver, poolVars, clientVars, FadingInv, Lag, Held, PoolInv
    <3>4. RefInv'
      BY <2>9 DEF AdvanceEpoch, poolVars, clientVars, RefInv, Lag, Held
    <3> QED BY <3>1, <3>2, <3>3, <3>4
  <2>10. CASE ClearList(t)
    <3> USE DEF LoadCurrent, Goto, InEpoch, RetirePC, Settled, ReclaimInv, TypeInv, TypeOK,
                epochVars
    <3> USE DEF ClearList, stampVars, clientVars
    <3>0. InEpoch(t) /\ epoch[t] + 2 <= current_epoch
      BY <2>10 DEF PoolInv
    <3>1. \A u \in Threads : fading[u] \cap old[t] = {}
      <4> SUFFICES ASSUME NEW u \in Threads, NEW o \in fading[u], o \in old[t]
                   PROVE  FALSE
        OBVIOUS
      <4>1. last[u] + 1 <= epoch[t]
        BY <2>10 DEF FadingInv, Lag
      <4>2. InEpoch(u)
        BY DEF PoolInv
      <4> QED BY <3>0, <4>1, <4>2, <2>a
    <3>2. \A u \in Threads : refs[u] \cap old[t] = {}
      <4> SUFFICES ASSUME NEW u \in Threads, NEW o \in refs[u], o \in old[t]
                   PROVE  FALSE
        OBVIOUS
      <4>1. last[u] <= epoch[t]
        BY <2>10 DEF RefInv, Lag
      <4>2. InEpoch(u)
        BY DEF PoolInv
      <4> QED BY <3>0, <4>1, <4>2, <2>a
    <3>3. PoolInv'
      BY <2>10 DEF PoolInv
    <3>4. OnceInv'
      BY <2>10 DEF OnceInv, RetiredOnce
    <3>h. \A x \in Objects : Held(x) /\ x \notin old[t] => Held(x)'
      BY <2>10 DEF Held
    <3>5. FadingInv'
      BY <2>10, <3>1, <3>h DEF FadingInv, Lag
    <3>6. RefInv'
      BY <2>10, <3>2, <3>h DEF RefInv, Lag
    <3> QED BY <3>3, <3>4, <3>5, <3>6
  <2>11. CASE SetPoolEpoch(t)
    <3> USE DEF LoadCurrent, Goto, InEpoch, RetirePC, Settled, ReclaimInv, TypeInv, TypeOK,
                epochVars
    <3> USE DEF SetPoolEpoch, stampVars, clientVars
    <3>0. InEpoch(t) /\ epoch[t] + 2 <= current_epoch
      BY <2>11 DEF PoolInv
    <3>1. PoolInv'
      BY <2>11, <3>0, <2>a DEF PoolInv
    <3>2. OnceInv'
      BY <2>11 DEF OnceInv, RetiredOnce
    <3>3. FadingInv'
      BY <2>11, <3>0, <2>a, SMTT(30) DEF FadingInv, Lag, Held, PoolInv
    <3>4. RefInv'
      BY <2>11, <3>0 DEF RefInv, Lag, Held, PoolInv
    <3> QED BY <3>1, <3>2, <3>3, <3>4
  <2>12. CASE Heuristic(t)
    BY <2>12, EpochStepsQuiet, QuietPoolsPreserves
  <2>13. CASE Push(t)
    <3> USE DEF LoadCurrent, Goto, InEpoch, RetirePC, Settled, ReclaimInv, TypeInv, TypeOK,
                epochVars
    <3> USE DEF Push, stampVars, clientVars
    <3>0. pend[t] # None /\ pend[t] \in fading[t]
      BY <2>13 DEF PoolInv
    <3>1. InEpoch(t) /\ last[t] <= epoch[t] + 1
      BY <2>13 DEF PoolInv
    <3>2. PoolInv'
      BY <2>13, NoneAssumption DEF PoolInv
    <3>3. OnceInv'
      BY <2>13, <3>0, NoneAssumption DEF OnceInv, RetiredOnce
    <3>h. \A x \in Objects : Held(x) => Held(x)'
      BY <2>13 DEF Held
    <3>4. FadingInv'
      BY <2>13, <3>0, <3>h, NoneAssumption DEF FadingInv, Lag
    <3>5. RefInv'
      <4>2. \A u \in Threads : refs[u] # {} => last[u] <= epoch[t] + 2
        BY <3>1, <2>a DEF PoolInv
      <4> QED BY <2>13, <3>h, <4>2 DEF RefInv, Lag
    <3> QED BY <3>2, <3>3, <3>4, <3>5
  <2>14. CASE UpdateLoad(t)
    BY <2>14, EpochStepsQuiet, QuietPoolsPreserves
  <2>15. CASE ScanAnnounced(t)
    BY <2>15, EpochStepsQuiet, QuietPoolsPreserves
  <2>16. CASE ScanOlder(t)
    BY <2>16, EpochStepsQuiet, QuietPoolsPreserves
  <2>17. CASE BeforeHook(t)
    BY <2>17, EpochStepsQuiet, QuietPoolsPreserves
  <2>18. CASE CasEpoch(t)
    BY <2>18, EpochStepsQuiet, QuietPoolsPreserves
  <2>19. CASE AfterHookDone(t)
    BY <2>19, EpochStepsQuiet, QuietPoolsPreserves
  <2>20. CASE AfterHookPrev(t)
    BY <2>20, EpochStepsQuiet, QuietPoolsPreserves
  <2>21. CASE Clear(t)
    <3> USE DEF LoadCurrent, Goto, InEpoch, RetirePC, Settled, ReclaimInv, TypeInv, TypeOK,
                epochVars
    <3>1. \A u \in Threads : fading[u] = {} /\ refs[u] = {} /\ pend[u] = None
      BY <2>21 DEF Clear, PoolInv
    <3>2. PoolInv'
      BY <2>21, <3>1, SMTT(30) DEF Clear, clientVars, PoolInv
    <3>3. OnceInv'
      BY <2>21, <3>1 DEF Clear, clientVars, OnceInv, RetiredOnce
    <3>4. FadingInv' /\ RefInv'
      BY <2>21, <3>1 DEF Clear, clientVars, FadingInv, RefInv
    <3> QED BY <3>2, <3>3, <3>4
  <2> QED
    BY <1>2, <2>1, <2>2, <2>3, <2>4, <2>5, <2>6, <2>7, <2>8, <2>9, <2>10, <2>11,
       <2>12, <2>13, <2>14, <2>15, <2>16, <2>17, <2>18, <2>19, <2>20, <2>21
    DEF ThreadStep
<1>3. CASE UNCHANGED vars
  BY <1>3, QuietPoolsPreserves DEF vars, epochVars, QuietPools, InEpoch, TypeInv, TypeOK
<1> QED
  BY <1>1, <1>2, <1>3 DEF Next

-----------------------------------------------------------------------------
(* The theorems.                                                            *)

\* ReclaimInv holds in every reachable state, on top of the base invariant.
THEOREM ReclaimInvariant == Spec => []ReclaimInv
<1>1. Init => ReclaimInv
  BY ReclaimInit
<1>2. BaseInv /\ ReclaimInv /\ [Next]_vars => ReclaimInv'
  BY ReclaimStep DEF BaseInv
<1> QED BY <1>1, <1>2, BaseInvariant, PTL DEF Spec

\* For any number of threads and objects: clear_list destructs nothing that
\* a running operation has reached.
THEOREM NoUseAfterFreeHolds == Spec => []NoUseAfterFree
<1>1. BaseInv /\ ReclaimInv => NoUseAfterFree
  <2> SUFFICES ASSUME BaseInv, ReclaimInv, NEW t \in Threads, NEW o \in refs[t] \cap Freed
               PROVE  FALSE
    BY DEF NoUseAfterFree
  <2>1. o \in Objects /\ Held(o)
    BY DEF BaseInv, TypeInv, TypeOK, ReclaimInv, RefInv
  <2> QED BY <2>1, FreedIsNotHeld
<1> QED BY <1>1, BaseInvariant, ReclaimInvariant, PTL

\* For any number of threads and objects: no object is retired twice or
\* freed while it is linked.
THEOREM RetiredOnceHolds == Spec => []RetiredOnce
<1>1. BaseInv /\ ReclaimInv => RetiredOnce
  BY DEF BaseInv, ReclaimInv, OnceInv
<1> QED BY <1>1, BaseInvariant, ReclaimInvariant, PTL
=============================================================================
