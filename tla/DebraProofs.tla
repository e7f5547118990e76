---------------------------- MODULE DebraProofs ----------------------------
(***************************************************************************)
(* Proofs that DEBRA frees nothing a running operation can hold, for any   *)
(* number of threads, objects and epochs, when every thread registers at   *)
(* most once (Registrations <= 1).                                         *)
(*                                                                         *)
(* The epoch advances at most once while an operation runs, because a scan *)
(* that lets it advance began after the previous advance and saw the       *)
(* operation's announcement (EpochInv). A thread that unlinked an object   *)
(* in an operation's sight therefore reads at most two new epochs while    *)
(* that operation runs, and the object leaves its bag only at the third    *)
(* (LimboInv).                                                             *)
(***************************************************************************)
EXTENDS Debra, TLAPS

\* how many new epochs the owner of a bag has read since the bag was current
Age(t, i) == IF i = index[t] THEN 0 ELSE IF i = nextIndex(index[t]) THEN 2 ELSE 1

InLimbo(t, o) == o \in removed[t] \/ o \in freelist[t] \/ \E i \in Bags : o \in bag[t][i]

\* what is known of a running operation
Running(t) ==
  Active(t) => ~ quiescent[t] /\ announced[t] = local[t] /\ local[t] <= since[t] /\ epoch <= since[t] + 1

\* a scan in the current epoch has passed only operations that were announced in it
Seen(s, u) == u < checked[s] /\ local[s] = epoch /\ Active(u) => since[u] = epoch

\* a scan that is complete is not continued before a new epoch is read
Progress(t) ==
  /\ pc[t] \in {"free", "announce", "scan"} => checked[t] < N
  /\ pc[t] = "advance" => checked[t] = N
  /\ pc[t] \in {"idle", "run", "done"} /\ checked[t] = N => local[t] # epoch

\* The epoch is at most one ahead of the epoch in which a running operation announced itself.
EpochInv ==
  /\ \A t \in Threads : local[t] <= epoch /\ since[t] <= epoch /\ checked[t] <= N
  /\ \A t \in Threads : Running(t)
  /\ \A s, u \in Threads : Seen(s, u)
  /\ \A t \in Threads : Progress(t)

\* A thread outside an operation holds nothing, and index and currentBag agree.
IdleInv ==
  \A t \in Threads :
    /\ ~ Active(t) => held[t] = {} /\ removed[t] = {}
    /\ index[t] = current[t]
    /\ registered[t] = 0 => index[t] = 0 /\ pc[t] = "out"

\* Every object is in at most one place.
PlaceInv ==
  \A o \in Objects :
    /\ o \in linked => o \notin free
    /\ \A t \in Threads : InLimbo(t, o) => o \notin linked /\ o \notin free
    /\ \A t, u \in Threads : InLimbo(t, o) /\ InLimbo(u, o) => t = u
    /\ \A t \in Threads : o \in removed[t] => o \notin freelist[t]
    /\ \A t \in Threads : \A i \in Bags : o \in bag[t][i] => o \notin removed[t] /\ o \notin freelist[t]
    /\ \A t \in Threads : \A i, j \in Bags : o \in bag[t][i] /\ o \in bag[t][j] => i = j

\* An object in a bag that is not current was retired Age epochs ago, and a thread that still holds it
\* announced itself so late that the owner of the bag has read at most two new epochs since.
LimboInv ==
  \A t \in Threads : \A i \in Bags : \A o \in bag[t][i] :
    /\ retiredIn[o] + Age(t, i) <= local[t]
    /\ \A u \in Threads : o \in held[u] => i = index[t] \/ since[u] + Age(t, i) <= local[t] + 1

ReclaimInv == LimboInv /\ TwoEpochsAgo /\ NoUseAfterFree

-----------------------------------------------------------------------------
\* nextIndex goes round the three bags.
LEMMA NextIndex ==
  /\ Bags = {0, 1, 2}
  /\ nextIndex(0) = 1 /\ nextIndex(1) = 2 /\ nextIndex(2) = 0
BY DEF Bags, nextIndex, NUMBER_OF_EPOCH_BAGS

\* After a rotation every bag but the new current one is one epoch older.
LEMMA Rotation ==
  ASSUME NEW x \in Bags, NEW i \in Bags
  PROVE  LET age(k) == IF i = k THEN 0 ELSE IF i = nextIndex(k) THEN 2 ELSE 1 IN
         /\ nextIndex(x) \in Bags /\ nextIndex(x) # x
         /\ i # nextIndex(x) => age(nextIndex(x)) = age(x) + 1 /\ age(x) \in {0, 1}
         /\ age(nextIndex(x)) = 0 <=> i = nextIndex(x)
BY NextIndex

\* Epochs are whole numbers.
LEMMA NextEpoch ==
  ASSUME NEW a \in Int, NEW b \in Int, a <= b, b # a
  PROVE  a + 1 <= b
OBVIOUS

\* What was age epochs before l is one more before a later epoch e.
LEMMA Older ==
  ASSUME NEW r \in Int, NEW age \in Int, NEW l \in Int, NEW e \in Int, r + age <= l, l + 1 <= e
  PROVE  r + (age + 1) <= e
OBVIOUS

\* startOp, endOp, registration and the client keep the types.
LEMMA TypeCorrect == Spec => []TypeOK
<1>1. Init => TypeOK
  BY NextIndex DEF Init, TypeOK, PC, NoEpoch
<1>2. TypeOK /\ [Next]_vars => TypeOK'
  <2> SUFFICES ASSUME TypeOK, [Next]_vars PROVE TypeOK'
    OBVIOUS
  <2>1. CASE UNCHANGED vars
    BY <2>1 DEF TypeOK, vars
  <2>2. ASSUME NEW t \in Threads, Step(t), UNCHANGED setup PROVE TypeOK'
    <3> USE <2>2 DEF TypeOK, Goto, PC, shared, scan, bags, client
    <3>1. CASE initThread(t) BY <3>1, NextIndex DEF initThread
    <3>2. CASE deinitThread(t)
      <4>1. bag' \in [Threads -> [Bags -> SUBSET Objects]] BY <3>2 DEF deinitThread
      <4>2. free' \subseteq Objects BY <3>2 DEF deinitThread
      <4> QED BY <3>2, <4>1, <4>2 DEF deinitThread
    <3>3. CASE ReadEpoch(t)
      <4>1. nextIndex(index[t]) \in Bags BY Rotation
      <4>2. CASE epoch = local[t] BY <3>3, <4>2 DEF ReadEpoch
      <4>3. CASE epoch # local[t]
        <5>1. PICK moved \in SUBSET bag[t][nextIndex(index[t])] :
                /\ freelist' = [freelist EXCEPT ![t] = @ \cup moved]
                /\ bag' = [bag EXCEPT ![t][nextIndex(index[t])] = @ \ moved]
                /\ index' = [index EXCEPT ![t] = nextIndex(index[t])]
                /\ current' = [current EXCEPT ![t] = nextIndex(index[t])]
          BY <3>3, <4>3 DEF ReadEpoch, rotateEpochBags
        <5>2. freelist' \in [Threads -> SUBSET Objects] BY <4>1, <5>1
        <5>3. bag' \in [Threads -> [Bags -> SUBSET Objects]] BY <4>1, <5>1
        <5>4. index' \in [Threads -> Bags] /\ current' \in [Threads -> Bags] BY <4>1, <5>1
        <5>5. /\ local' \in [Threads -> Int] /\ checked' \in [Threads -> Nat] /\ pc' \in [Threads -> PC]
              /\ UNCHANGED <<epoch, announced, quiescent, ops, registered, linked, held, removed, free, since, retiredIn>>
          BY <3>3 DEF ReadEpoch
        <5> QED BY <5>2, <5>3, <5>4, <5>5
      <4> QED BY <4>2, <4>3
    <3>4. CASE FreeOne(t)
      <4>1. freelist' \in [Threads -> SUBSET Objects] /\ free' \subseteq Objects
        <5>1. CASE UNCHANGED <<freelist, free>> BY <5>1
        <5>2. ASSUME NEW o \in freelist[t], freelist' = [freelist EXCEPT ![t] = @ \ {o}], free' = free \cup {o}
              PROVE  freelist' \in [Threads -> SUBSET Objects] /\ free' \subseteq Objects
          BY <5>2
        <5> QED BY <3>4, <5>1, <5>2 DEF FreeOne
      <4>2. /\ pc' \in [Threads -> PC]
            /\ UNCHANGED <<epoch, announced, quiescent, local, checked, ops, index, current, bag,
                           registered, linked, held, removed, since, retiredIn>>
        BY <3>4 DEF FreeOne
      <4> QED BY <4>1, <4>2
    <3>5. CASE Announce(t) BY <3>5 DEF Announce
    <3>6. CASE Scan(t) BY <3>6 DEF Scan
    <3>7. CASE Advance(t) BY <3>7 DEF Advance
    <3>8. CASE endOp(t) BY <3>8 DEF endOp
    <3>9. CASE Reach(t) BY <3>9 DEF Reach
    <3>10. CASE Link(t) BY <3>10 DEF Link
    <3>11. CASE Unlink(t) BY <3>11 DEF Unlink
    <3>12. CASE retire(t) BY <3>12 DEF retire
    <3> QED BY <3>1, <3>2, <3>3, <3>4, <3>5, <3>6, <3>7, <3>8, <3>9, <3>10, <3>11, <3>12 DEF Step
  <2> QED BY <2>1, <2>2 DEF Next
<1> QED BY <1>1, <1>2, PTL DEF Spec

-----------------------------------------------------------------------------
\* The epoch advances at most once while an operation runs: every scan that completes in the current
\* epoch began in it, and found each running operation announced in it.
THEOREM EpochCorrect == Spec => []EpochInv
<1>1. Init => EpochInv
  BY NAssumption DEF Init, EpochInv, Running, Seen, Progress, Active, NoEpoch, Threads
<1>2. TypeOK /\ EpochInv /\ [Next]_vars => EpochInv'
  <2> SUFFICES ASSUME TypeOK, EpochInv, [Next]_vars PROVE EpochInv'
    OBVIOUS
  <2>1. CASE UNCHANGED vars
    BY <2>1 DEF EpochInv, Running, Seen, Progress, Active, vars
  <2>2. ASSUME NEW t \in Threads, Step(t) PROVE EpochInv'
    <3>a. /\ epoch \in Nat /\ announced \in [Threads -> Int] /\ quiescent \in [Threads -> BOOLEAN]
          /\ local \in [Threads -> Int] /\ checked \in [Threads -> Nat] /\ pc \in [Threads -> PC]
          /\ since \in [Threads -> Nat] /\ N \in Nat \ {0} /\ Threads \subseteq Nat
      BY NAssumption DEF TypeOK, Threads
    <3> USE <2>2, <3>a DEF EpochInv, Active, Goto
    <3>1. CASE initThread(t)
      <4>1. /\ pc' = [pc EXCEPT ![t] = "idle"] /\ checked' = [checked EXCEPT ![t] = 0]
            /\ UNCHANGED <<epoch, announced, quiescent, local, since>>
        BY <3>1 DEF initThread, shared, scan
      <4>2. ASSUME NEW u \in Threads PROVE Running(u)' BY <4>1 DEF Running
      <4>3. ASSUME NEW s \in Threads, NEW u \in Threads PROVE Seen(s, u)' BY <4>1 DEF Seen, Running
      <4>4. ASSUME NEW u \in Threads PROVE Progress(u)' BY <4>1 DEF Progress
      <4>5. ASSUME NEW u \in Threads PROVE (local[u] <= epoch /\ since[u] <= epoch /\ checked[u] <= N)' BY <4>1 DEF Progress
      <4> QED BY <4>2, <4>3, <4>4, <4>5
    <3>2. CASE deinitThread(t)
      <4>1. /\ pc' = [pc EXCEPT ![t] = "out"]
            /\ UNCHANGED <<epoch, announced, quiescent, local, since, checked>>
        BY <3>2 DEF deinitThread, shared, scan
      <4>2. ASSUME NEW u \in Threads PROVE Running(u)' BY <4>1 DEF Running
      <4>3. ASSUME NEW s \in Threads, NEW u \in Threads PROVE Seen(s, u)' BY <4>1 DEF Seen, Running
      <4>4. ASSUME NEW u \in Threads PROVE Progress(u)' BY <4>1 DEF Progress
      <4>5. ASSUME NEW u \in Threads PROVE (local[u] <= epoch /\ since[u] <= epoch /\ checked[u] <= N)' BY <4>1 DEF Progress
      <4> QED BY <4>2, <4>3, <4>4, <4>5
    <3>3. CASE ReadEpoch(t)
      <4>1. /\ pc[t] = "idle" /\ pc' = [pc EXCEPT ![t] = "free"]
            /\ local' = [local EXCEPT ![t] = epoch]
            /\ checked' = [checked EXCEPT ![t] = IF epoch # local[t] THEN 0 ELSE @]
            /\ UNCHANGED <<epoch, announced, quiescent, since>>
        BY <3>3 DEF ReadEpoch, shared, scan
      <4>2. ASSUME NEW u \in Threads PROVE Running(u)' BY <4>1 DEF Running
      <4>3. ASSUME NEW s \in Threads, NEW u \in Threads PROVE Seen(s, u)' BY <4>1 DEF Seen, Running
      <4>4. ASSUME NEW u \in Threads PROVE Progress(u)' BY <4>1 DEF Progress
      <4>5. ASSUME NEW u \in Threads PROVE (local[u] <= epoch /\ since[u] <= epoch /\ checked[u] <= N)' BY <4>1 DEF Progress
      <4> QED BY <4>2, <4>3, <4>4, <4>5
    <3>4. CASE FreeOne(t)
      <4>1. /\ pc[t] = "free" /\ pc' = [pc EXCEPT ![t] = "announce"]
            /\ UNCHANGED <<epoch, announced, quiescent, local, since, checked>>
        BY <3>4 DEF FreeOne, shared, scan
      <4>2. ASSUME NEW u \in Threads PROVE Running(u)' BY <4>1 DEF Running
      <4>3. ASSUME NEW s \in Threads, NEW u \in Threads PROVE Seen(s, u)' BY <4>1 DEF Seen, Running
      <4>4. ASSUME NEW u \in Threads PROVE Progress(u)' BY <4>1 DEF Progress
      <4>5. ASSUME NEW u \in Threads PROVE (local[u] <= epoch /\ since[u] <= epoch /\ checked[u] <= N)' BY <4>1 DEF Progress
      <4> QED BY <4>2, <4>3, <4>4, <4>5
    <3>5. CASE Announce(t)
      <4>1. /\ pc[t] = "announce"
            /\ pc' = [pc EXCEPT ![t] = "scan"] \/ pc' = [pc EXCEPT ![t] = "run"]
            /\ announced' = [announced EXCEPT ![t] = local[t]]
            /\ quiescent' = [quiescent EXCEPT ![t] = FALSE]
            /\ since' = [since EXCEPT ![t] = epoch]
            /\ UNCHANGED <<epoch, local, checked>>
        BY <3>5 DEF Announce, shared, scan
      <4>2. ASSUME NEW u \in Threads PROVE Running(u)' BY <4>1 DEF Running
      <4>3. ASSUME NEW s \in Threads, NEW u \in Threads PROVE Seen(s, u)' BY <4>1 DEF Seen, Running
      <4>4. ASSUME NEW u \in Threads PROVE Progress(u)' BY <4>1 DEF Progress
      <4>5. ASSUME NEW u \in Threads PROVE (local[u] <= epoch /\ since[u] <= epoch /\ checked[u] <= N)' BY <4>1 DEF Progress
      <4> QED BY <4>2, <4>3, <4>4, <4>5
    <3>6. CASE Scan(t)
      <4>1. /\ pc[t] = "scan" /\ UNCHANGED <<epoch, announced, quiescent, local, since>>
            /\ \/ checked' = checked /\ pc' = [pc EXCEPT ![t] = "run"]
               \/ /\ announced[checked[t]] = local[t] \/ quiescent[checked[t]]
                  /\ checked' = [checked EXCEPT ![t] = checked[t] + 1]
                  /\ pc' = [pc EXCEPT ![t] = IF checked[t] + 1 >= N THEN "advance" ELSE "run"]
        BY <3>6 DEF Scan, shared, scan
      <4>2. ASSUME NEW u \in Threads PROVE Running(u)' BY <4>1 DEF Running
      <4>3. ASSUME NEW s \in Threads, NEW u \in Threads PROVE Seen(s, u)' BY <4>1 DEF Seen, Running
      <4>4. ASSUME NEW u \in Threads PROVE Progress(u)' BY <4>1 DEF Progress
      <4>5. ASSUME NEW u \in Threads PROVE (local[u] <= epoch /\ since[u] <= epoch /\ checked[u] <= N)' BY <4>1 DEF Progress
      <4> QED BY <4>2, <4>3, <4>4, <4>5
    <3>7. CASE Advance(t)
      <4>1. /\ pc[t] = "advance" /\ pc' = [pc EXCEPT ![t] = "run"]
            /\ epoch' = IF epoch = local[t] THEN epoch + 1 ELSE epoch
            /\ UNCHANGED <<announced, quiescent, local, since, checked>>
        BY <3>7 DEF Advance, shared, scan
      <4>2. ASSUME NEW u \in Threads PROVE Running(u)'
        <5>1. checked[t] = N /\ u < checked[t]
          BY <4>1 DEF Progress, Threads
        <5>2. epoch = local[t] /\ Active(u) => since[u] = epoch
          BY <5>1 DEF Seen
        <5> QED BY <4>1, <5>2 DEF Running
      <4>3. ASSUME NEW s \in Threads, NEW u \in Threads PROVE Seen(s, u)' BY <4>1 DEF Seen, Running
      <4>4. ASSUME NEW u \in Threads PROVE Progress(u)' BY <4>1 DEF Progress
      <4>5. ASSUME NEW u \in Threads PROVE (local[u] <= epoch /\ since[u] <= epoch /\ checked[u] <= N)' BY <4>1 DEF Progress
      <4> QED BY <4>2, <4>3, <4>4, <4>5
    <3>8. CASE endOp(t)
      <4>1. /\ pc[t] = "run" /\ (pc' = [pc EXCEPT ![t] = "idle"] \/ pc' = [pc EXCEPT ![t] = "done"])
            /\ quiescent' = [quiescent EXCEPT ![t] = TRUE]
            /\ announced' = [announced EXCEPT ![t] = local[t]]
            /\ UNCHANGED <<epoch, local, since, checked>>
        BY <3>8 DEF endOp, shared, scan
      <4>2. ASSUME NEW u \in Threads PROVE Running(u)' BY <4>1 DEF Running
      <4>3. ASSUME NEW s \in Threads, NEW u \in Threads PROVE Seen(s, u)' BY <4>1 DEF Seen, Running
      <4>4. ASSUME NEW u \in Threads PROVE Progress(u)' BY <4>1 DEF Progress
      <4>5. ASSUME NEW u \in Threads PROVE (local[u] <= epoch /\ since[u] <= epoch /\ checked[u] <= N)' BY <4>1 DEF Progress
      <4> QED BY <4>2, <4>3, <4>4, <4>5
    <3>9. CASE Reach(t) \/ Link(t) \/ Unlink(t) \/ retire(t)
      <4>1. UNCHANGED <<epoch, announced, quiescent, local, since, checked, pc>>
        BY <3>9 DEF Reach, Link, Unlink, retire, shared, scan
      <4> QED BY <4>1 DEF Running, Seen, Progress
    <3> QED BY <3>1, <3>2, <3>3, <3>4, <3>5, <3>6, <3>7, <3>8, <3>9 DEF Step
  <2> QED BY <2>1, <2>2 DEF Next
<1> QED BY <1>1, <1>2, TypeCorrect, PTL DEF Spec

\* The incremental scan of startOp stays inside the array of announcements.
THEOREM ScanSafe == Spec => []ScanInBounds
<1>1. EpochInv => ScanInBounds
  BY DEF EpochInv, Progress, ScanInBounds
<1> QED BY <1>1, EpochCorrect, PTL

-----------------------------------------------------------------------------
\* Between operations a thread holds nothing, and a thread that registers once retires into epochbags[index].
LEMMA IdleCorrect ==
  ASSUME Registrations <= 1
  PROVE  Spec => []IdleInv
<1>1. Init => IdleInv
  BY DEF Init, IdleInv, Active
<1>2. TypeOK /\ IdleInv /\ [Next]_vars => IdleInv'
  <2> SUFFICES ASSUME TypeOK, IdleInv, [Next]_vars PROVE IdleInv'
    OBVIOUS
  <2>1. CASE UNCHANGED vars
    BY <2>1 DEF IdleInv, Active, vars
  <2>2. ASSUME NEW t \in Threads, Step(t) PROVE IdleInv'
    <3>a. /\ pc \in [Threads -> PC] /\ held \in [Threads -> SUBSET Objects] /\ removed \in [Threads -> SUBSET Objects]
          /\ index \in [Threads -> Bags] /\ current \in [Threads -> Bags] /\ registered \in [Threads -> Nat]
      BY DEF TypeOK
    <3> USE <3>a DEF IdleInv, Active, Goto
    <3>1. CASE initThread(t)
      <4>1. registered[t] = 0 BY <3>1, BoundsAssumption DEF initThread
      <4> QED BY <3>1, <4>1 DEF initThread, client
    <3>2. CASE deinitThread(t) BY <3>2 DEF deinitThread, client
    <3>3. CASE ReadEpoch(t)
      <4>1. /\ pc[t] = "idle" /\ pc' = [pc EXCEPT ![t] = "free"] /\ UNCHANGED <<held, removed, registered>>
            /\ \/ UNCHANGED <<index, current>>
               \/ \E i : index' = [index EXCEPT ![t] = i] /\ current' = [current EXCEPT ![t] = i]
        BY <3>3 DEF ReadEpoch, rotateEpochBags, client, bags
      <4> QED BY <4>1
    <3>4. CASE FreeOne(t) BY <3>4 DEF FreeOne, client
    <3>5. CASE Announce(t) BY <3>5 DEF Announce, client, bags
    <3>6. CASE Scan(t) BY <3>6 DEF Scan, client, bags
    <3>7. CASE Advance(t) BY <3>7 DEF Advance, client, bags
    <3>8. CASE endOp(t) BY <3>8 DEF endOp, bags
    <3>9. CASE Reach(t) BY <3>9 DEF Reach, bags
    <3>10. CASE Link(t) BY <3>10 DEF Link, bags
    <3>11. CASE Unlink(t) BY <3>11 DEF Unlink, bags
    <3>12. CASE retire(t) BY <3>12 DEF retire
    <3> QED BY <2>2, <3>1, <3>2, <3>3, <3>4, <3>5, <3>6, <3>7, <3>8, <3>9, <3>10, <3>11, <3>12 DEF Step
  <2> QED BY <2>1, <2>2 DEF Next
<1> QED BY <1>1, <1>2, TypeCorrect, PTL DEF Spec

\* No object is in two bags, on two lists, or in limbo and in the structure or the pool.
LEMMA PlaceCorrect == Spec => []PlaceInv
<1>1. Init => PlaceInv
  BY DEF Init, PlaceInv, InLimbo
<1>2. TypeOK /\ PlaceInv /\ [Next]_vars => PlaceInv'
  <2> SUFFICES ASSUME TypeOK, PlaceInv, [Next]_vars PROVE PlaceInv'
    OBVIOUS
  <2>1. CASE UNCHANGED vars
    BY <2>1 DEF PlaceInv, InLimbo, vars
  <2>2. ASSUME NEW t \in Threads, Step(t) PROVE PlaceInv'
    <3>a. /\ current \in [Threads -> Bags] /\ index \in [Threads -> Bags]
          /\ bag \in [Threads -> [Bags -> SUBSET Objects]] /\ freelist \in [Threads -> SUBSET Objects]
          /\ linked \subseteq Objects /\ free \subseteq Objects /\ removed \in [Threads -> SUBSET Objects]
      BY DEF TypeOK
    <3> USE <3>a DEF PlaceInv, InLimbo
    <3>1. CASE UNCHANGED <<linked, free, removed, freelist, bag>> BY <3>1
    <3>2. CASE deinitThread(t)
      <4>1. /\ free' = free \cup freelist[t] \cup UNION {bag[t][i] : i \in Bags}
            /\ bag' = [bag EXCEPT ![t] = [i \in Bags |-> {}]] /\ freelist' = [freelist EXCEPT ![t] = {}]
            /\ UNCHANGED <<linked, removed>>
        BY <3>2 DEF deinitThread, client
      <4> QED BY <4>1
    <3>3. CASE ReadEpoch(t) /\ epoch # local[t]
      <4>1. nextIndex(index[t]) \in Bags BY Rotation
      <4>2. PICK moved \in SUBSET bag[t][nextIndex(index[t])] :
              /\ freelist' = [freelist EXCEPT ![t] = @ \cup moved]
              /\ bag' = [bag EXCEPT ![t][nextIndex(index[t])] = @ \ moved]
        BY <3>3 DEF ReadEpoch, rotateEpochBags
      <4>3. UNCHANGED <<linked, free, removed>> BY <3>3 DEF ReadEpoch, client
      <4> QED BY <4>1, <4>2, <4>3
    <3>4. CASE FreeOne(t) /\ freelist[t] # {}
      <4>1. PICK o \in freelist[t] : freelist' = [freelist EXCEPT ![t] = @ \ {o}] /\ free' = free \cup {o}
        BY <3>4 DEF FreeOne
      <4>2. UNCHANGED <<linked, bag, removed>> BY <3>4 DEF FreeOne, client
      <4> QED BY <4>1, <4>2
    <3>5. CASE Link(t) BY <3>5 DEF Link, bags
    <3>6. CASE Unlink(t) BY <3>6 DEF Unlink, bags
    <3>7. CASE retire(t)
      <4>1. PICK o \in removed[t] : /\ removed' = [removed EXCEPT ![t] = @ \ {o}]
                                   /\ bag' = [bag EXCEPT ![t][current[t]] = @ \cup {o}]
        BY <3>7 DEF retire
      <4>2. UNCHANGED <<linked, freelist, free>> BY <3>7 DEF retire
      <4> QED BY <4>1, <4>2
    <3> QED BY <2>2, <3>1, <3>2, <3>3, <3>4, <3>5, <3>6, <3>7
            DEF Step, initThread, ReadEpoch, FreeOne, Announce, Scan, Advance, endOp, Reach, bags, client
  <2> QED BY <2>1, <2>2 DEF Next
<1> QED BY <1>1, <1>2, TypeCorrect, PTL DEF Spec

-----------------------------------------------------------------------------
\* An operation that holds an object of another thread's bag keeps that thread from reading a third new epoch.
LEMMA ReclaimCorrect ==
  ASSUME Registrations <= 1
  PROVE  Spec => []ReclaimInv
<1>1. Init => ReclaimInv
  BY DEF Init, ReclaimInv, LimboInv, TwoEpochsAgo, NoUseAfterFree
<1>2. TypeOK /\ EpochInv /\ IdleInv /\ PlaceInv /\ ReclaimInv /\ [Next]_vars => ReclaimInv'
  <2> SUFFICES ASSUME TypeOK, EpochInv, IdleInv, PlaceInv, ReclaimInv, [Next]_vars PROVE ReclaimInv'
    OBVIOUS
  <2>1. CASE UNCHANGED vars
    BY <2>1 DEF ReclaimInv, LimboInv, TwoEpochsAgo, NoUseAfterFree, Age, vars
  <2>2. ASSUME NEW t \in Threads, Step(t) PROVE ReclaimInv'
    <3>a. /\ epoch \in Nat /\ local \in [Threads -> Int] /\ since \in [Threads -> Nat] /\ retiredIn \in [Objects -> Int]
          /\ index \in [Threads -> Bags] /\ bag \in [Threads -> [Bags -> SUBSET Objects]]
          /\ freelist \in [Threads -> SUBSET Objects] /\ removed \in [Threads -> SUBSET Objects]
          /\ held \in [Threads -> SUBSET Objects] /\ linked \subseteq Objects /\ free \subseteq Objects
      BY DEF TypeOK
    <3>b. \A u \in Threads, i \in Bags : Age(u, i) \in {0, 1, 2}
      BY DEF Age
    <3>c. \A u \in Threads : since[u] <= epoch /\ local[u] <= epoch
      BY DEF EpochInv
    <3>d. \A u \in Threads : held[u] # {} => epoch <= since[u] + 1
      BY DEF EpochInv, Running, IdleInv
    <3> USE <3>a DEF ReclaimInv
    <3>1. CASE UNCHANGED <<local, index, bag, freelist, held, free, since, retiredIn>>
      BY <3>1 DEF LimboInv, TwoEpochsAgo, NoUseAfterFree, Age
    <3>2. CASE deinitThread(t)
      <4>1. /\ bag' = [bag EXCEPT ![t] = [i \in Bags |-> {}]]
            /\ freelist' = [freelist EXCEPT ![t] = {}]
            /\ UNCHANGED <<local, index, held, since, retiredIn>>
        BY <3>2 DEF deinitThread, client
      <4>2. \A u \in Threads : pc[u] \in {"done", "out"}
        BY <3>2 DEF deinitThread
      <4>3. \A u \in Threads : held[u] = {}
        BY <4>2 DEF IdleInv, Active
      <4> QED BY <4>1, <4>3 DEF LimboInv, TwoEpochsAgo, NoUseAfterFree, Age
    <3>3. CASE ReadEpoch(t) /\ epoch # local[t]
      <4> DEFINE n == nextIndex(index[t])
      <4>1. n \in Bags /\ n # index[t] BY Rotation
      <4>2. PICK moved \in SUBSET bag[t][n] :
              /\ freelist' = [freelist EXCEPT ![t] = @ \cup moved]
              /\ bag' = [bag EXCEPT ![t][n] = @ \ moved]
              /\ index' = [index EXCEPT ![t] = n]
        BY <3>3 DEF ReadEpoch, rotateEpochBags
      <4>b. local[t] + 1 <= epoch /\ local[t] \in Int /\ epoch \in Int
        <5>1. epoch # local[t] BY <3>3
        <5>2. local[t] <= epoch BY <3>c
        <5>3. local[t] \in Int /\ epoch \in Int OBVIOUS
        <5> QED BY <5>1, <5>2, <5>3, NextEpoch
      <4>3. local' = [local EXCEPT ![t] = epoch] /\ UNCHANGED <<held, free, since, retiredIn>>
        BY <3>3 DEF ReadEpoch, client
      <4>4. Age(t, n) = 2 BY <4>1 DEF Age
      <4> HIDE DEF n
      <4>5. \A o \in moved : retiredIn[o] + 2 <= local[t]
        BY <4>1, <4>2, <4>4 DEF LimboInv
      <4>6. \A o \in moved : \A u \in Threads : o \notin held[u]
        <5> SUFFICES ASSUME NEW o \in moved, NEW u \in Threads, o \in held[u] PROVE FALSE
          OBVIOUS
        <5>1. since[u] + 2 <= local[t] + 1 BY <4>1, <4>2, <4>4 DEF LimboInv
        <5>2. epoch <= since[u] + 1 BY <3>d
        <5> QED BY <4>b, <5>1, <5>2
      <4>7. TwoEpochsAgo'
        <5> SUFFICES ASSUME NEW v \in Threads, NEW o \in freelist'[v] PROVE retiredIn[o] + 2 <= local'[v]
          BY <4>3 DEF TwoEpochsAgo
        <5>1. CASE v # t BY <5>1, <4>2, <4>3 DEF TwoEpochsAgo
        <5>2. CASE v = t
          <6>1. o \in freelist[t] \/ o \in moved BY <5>2, <4>2
          <6>2. retiredIn[o] + 2 <= local[t] BY <6>1, <4>5 DEF TwoEpochsAgo
          <6>3. local'[v] = epoch /\ retiredIn[o] \in Int BY <5>2, <6>1, <4>1, <4>2, <4>3
          <6> QED BY <6>2, <6>3, <4>b
        <5> QED BY <5>1, <5>2
      <4>8. NoUseAfterFree'
        BY <4>2, <4>3, <4>6 DEF NoUseAfterFree
      <4>9. ASSUME NEW v \in Threads, NEW i \in Bags, NEW o \in bag[v][i]', NEW u \in Threads
            PROVE  /\ retiredIn'[o] + Age(v, i)' <= local'[v]
                   /\ o \in held'[u] => i = index'[v] \/ since'[u] + Age(v, i)' <= local'[v] + 1
        <5>1. o \in bag[v][i] /\ o \in Objects BY <4>1, <4>2
        <5>2. /\ retiredIn[o] + Age(v, i) <= local[v]
              /\ o \in held[u] => i = index[v] \/ since[u] + Age(v, i) <= local[v] + 1
          BY <5>1 DEF LimboInv
        <5>3. CASE v # t
          BY <5>2, <5>3, <4>2, <4>3 DEF Age
        <5>4. CASE v = t /\ i = n
          <6>1. Age(v, i)' = 0 /\ i = index'[v] BY <5>4, <4>2 DEF Age
          <6>2. local'[v] = epoch /\ retiredIn'[o] = retiredIn[o] /\ retiredIn[o] \in Int BY <5>1, <5>4, <4>3
          <6>3. retiredIn[o] <= local[t] BY <5>2, <5>4, <6>2, <4>4, <4>b
          <6> QED BY <6>1, <6>2, <6>3, <4>b
        <5>5. CASE v = t /\ i # n
          <6>1. Age(v, i)' = Age(v, i) + 1 BY <5>5, <4>2, Rotation DEF Age, n
          <6>2. i = index[v] => Age(v, i) = 0 BY DEF Age
          <6>3. since[u] <= epoch BY <3>c
          <6>4. /\ local'[v] = epoch /\ retiredIn'[o] = retiredIn[o] /\ since'[u] = since[u] /\ held'[u] = held[u]
                /\ retiredIn[o] \in Int /\ since[u] \in Int /\ Age(v, i) \in Int
            BY <5>1, <5>5, <4>3, <3>b, SMTT(30)
          <6>5. local[v] + 1 <= epoch /\ local[v] \in Int /\ epoch \in Int BY <5>5, <4>b
          <6>6. retiredIn[o] + (Age(v, i) + 1) <= epoch BY <5>2, <6>4, <6>5, Older
          <6>7. ASSUME o \in held[u] PROVE since[u] + (Age(v, i) + 1) <= epoch + 1
            <7>1. CASE i = index[v] BY <7>1, <6>2, <6>3, <6>4, <6>5
            <7>2. CASE i # index[v]
              <8>1. since[u] + Age(v, i) <= local[v] + 1 BY <5>2, <6>7, <7>2
              <8>2. local[v] + 1 \in Int /\ epoch + 1 \in Int /\ (local[v] + 1) + 1 <= epoch + 1 BY <6>5
              <8> QED BY <8>1, <8>2, <6>4, Older
            <7> QED BY <7>1, <7>2
          <6> QED BY <6>1, <6>4, <6>6, <6>7
        <5> QED BY <5>3, <5>4, <5>5
      <4>10. LimboInv' BY <4>9 DEF LimboInv
      <4> QED BY <4>7, <4>8, <4>10
    <3>4. CASE ReadEpoch(t) /\ epoch = local[t]
      <4>1. local' = local BY <3>4 DEF ReadEpoch
      <4>2. UNCHANGED <<index, bag, freelist, held, free, since, retiredIn>> BY <3>4 DEF ReadEpoch, bags, client
      <4> QED BY <4>1, <4>2, <3>1
    <3>5. CASE FreeOne(t)
      <4>1. /\ UNCHANGED <<local, index, bag, held, since, retiredIn>>
            /\ \/ UNCHANGED <<freelist, free>>
               \/ \E o \in freelist[t] : freelist' = [freelist EXCEPT ![t] = @ \ {o}] /\ free' = free \cup {o}
        BY <3>5 DEF FreeOne, client
      <4>2. \A u \in Threads : freelist'[u] \subseteq freelist[u] BY <4>1
      <4>3. free' \subseteq free \cup freelist[t] BY <4>1
      <4>4. LimboInv' BY <4>1 DEF LimboInv, Age
      <4>5. TwoEpochsAgo' BY <4>1, <4>2 DEF TwoEpochsAgo
      <4>6. NoUseAfterFree' BY <4>1, <4>2, <4>3 DEF NoUseAfterFree
      <4> QED BY <4>4, <4>5, <4>6
    <3>6. CASE Announce(t)
      <4>1. /\ since' = [since EXCEPT ![t] = epoch] /\ held[t] = {}
            /\ UNCHANGED <<local, index, bag, freelist, held, free, retiredIn>>
        BY <3>6 DEF Announce, bags, client, IdleInv, Active
      <4>2. \A u \in Threads : held[u] # {} => since'[u] = since[u]
        BY <4>1
      <4>3. LimboInv' BY <4>1, <4>2 DEF LimboInv, Age
      <4>4. TwoEpochsAgo' /\ NoUseAfterFree' BY <4>1 DEF TwoEpochsAgo, NoUseAfterFree
      <4> QED BY <4>3, <4>4
    <3>7. CASE endOp(t)
      <4>1. /\ held' = [held EXCEPT ![t] = {}]
            /\ UNCHANGED <<local, index, bag, freelist, since, free, retiredIn>>
        BY <3>7 DEF endOp, bags
      <4>2. \A u \in Threads : held'[u] \subseteq held[u] BY <4>1
      <4>3. LimboInv' BY <4>1, <4>2 DEF LimboInv, Age
      <4>4. TwoEpochsAgo' /\ NoUseAfterFree' BY <4>1, <4>2 DEF TwoEpochsAgo, NoUseAfterFree
      <4> QED BY <4>3, <4>4
    <3>8. CASE Reach(t)
      <4>1. PICK o \in linked : held' = [held EXCEPT ![t] = @ \cup {o}]
        BY <3>8 DEF Reach
      <4>2. UNCHANGED <<local, index, bag, freelist, since, free, retiredIn>>
        BY <3>8 DEF Reach, bags
      <4>3. o \notin free /\ \A u \in Threads : o \notin freelist[u] /\ \A i \in Bags : o \notin bag[u][i]
        BY DEF PlaceInv, InLimbo
      <4> QED BY <4>1, <4>2, <4>3, SMTT(30) DEF LimboInv, TwoEpochsAgo, NoUseAfterFree, Age
    <3>9. CASE Link(t)
      <4>1. free' \subseteq free /\ UNCHANGED <<local, index, bag, freelist, held, since, retiredIn>>
        BY <3>9 DEF Link, bags
      <4> QED BY <4>1 DEF LimboInv, TwoEpochsAgo, NoUseAfterFree, Age
    <3>10. CASE retire(t)
      <4>1. PICK r \in removed[t] : /\ bag' = [bag EXCEPT ![t][current[t]] = @ \cup {r}]
                                    /\ retiredIn' = [retiredIn EXCEPT ![r] = local[t]]
        BY <3>10 DEF retire
      <4>2. current[t] = index[t] BY DEF IdleInv
      <4>3. UNCHANGED <<local, index, freelist, held, since, free>> BY <3>10 DEF retire
      <4>4. \A u \in Threads : r \notin freelist[u] /\ \A i \in Bags : r \notin bag[u][i]
        BY DEF PlaceInv, InLimbo
      <4>5. TwoEpochsAgo' /\ NoUseAfterFree'
        BY <4>1, <4>3, <4>4 DEF TwoEpochsAgo, NoUseAfterFree
      <4>6. ASSUME NEW v \in Threads, NEW i \in Bags, NEW o \in bag[v][i]', NEW u \in Threads
            PROVE  /\ retiredIn'[o] + Age(v, i)' <= local'[v]
                   /\ o \in held'[u] => i = index'[v] \/ since'[u] + Age(v, i)' <= local'[v] + 1
        <5>1. CASE o = r
          <6>1. v = t /\ i = index[t] BY <5>1, <4>1, <4>2, <4>4
          <6> QED BY <6>1, <5>1, <4>1, <4>3 DEF Age
        <5>2. CASE o # r
          <6>1. o \in bag[v][i] /\ o \in Objects BY <5>2, <4>1, <4>2
          <6> QED BY <6>1, <5>2, <4>1, <4>3 DEF LimboInv, Age
        <5> QED BY <5>1, <5>2
      <4>7. LimboInv' BY <4>6 DEF LimboInv
      <4> QED BY <4>5, <4>7
    <3> QED BY <2>2, <3>1, <3>2, <3>3, <3>4, <3>5, <3>6, <3>7, <3>8, <3>9, <3>10
            DEF Step, initThread, Scan, Advance, Unlink, bags, client
  <2> QED BY <2>1, <2>2 DEF Next
<1> QED BY <1>1, <1>2, TypeCorrect, EpochCorrect, IdleCorrect, PlaceCorrect, PTL DEF Spec

\* No operation holds an object that was freed or is about to be (rotateEpochBags, startOp), when threads register once.
THEOREM ReclaimSafe ==
  ASSUME Registrations <= 1
  PROVE  Spec => []NoUseAfterFree
BY ReclaimCorrect, PTL DEF ReclaimInv

\* What is handed to deamortizedFreeables was retired two epochs ago or earlier, when threads register once.
THEOREM GracePeriod ==
  ASSUME Registrations <= 1
  PROVE  Spec => []TwoEpochsAgo
BY ReclaimCorrect, PTL DEF ReclaimInv
=============================================================================
