--------------------------- MODULE SpinLockProofs ---------------------------
(* Mutual exclusion of the hash lock for every number of threads, every     *)
(* hashing of nodes to buckets and every width of the counter.              *)
EXTENDS SpinLock, SequenceTheorems, TLAPS

-----------------------------------------------------------------------------
(* Sequences used as stacks.                                                *)

LEMMA BelowFacts ==
  ASSUME NEW s \in Seq(Frame), s # <<>>
  PROVE  /\ Below(s) \in Seq(Frame) /\ Len(s) \in Nat /\ Len(Below(s)) = Len(s) - 1
         /\ \A k \in 1 .. Len(s) - 1 : Below(s)[k] = s[k]
         /\ Len(s) \in 1 .. Len(s) /\ s[Len(s)] \in Frame
<1>1. Len(s) \in Nat \ {0}
  BY EmptySeq
<1>2. \A k \in 1 .. Len(s) : s[k] \in Frame
  BY ElementOfSeq
<1> DEFINE n == Len(s) - 1
           q == SubSeq(s, 1, n)
<1>3. n \in Nat /\ \A k \in 1 .. n : s[k] \in Frame
  BY <1>1, <1>2
<1>4. Below(s) = q /\ Len(s) = n + 1
  BY <1>1 DEF Below
<1>5. /\ q \in Seq(Frame)
      /\ Len(q) = IF 1 <= n THEN n - 1 + 1 ELSE 0
      /\ \A k \in 1 .. n - 1 + 1 : q[k] = s[1 + k - 1]
  <2> HIDE DEF n
  <2> QED BY <1>3, SubSeqProperties
<1> HIDE DEF n, q
<1>6. n - 1 + 1 = n /\ \A k \in 1 .. n : 1 + k - 1 = k
  BY <1>3
<1>7. Len(q) = n
  BY <1>3, <1>5, <1>6
<1>8. \A k \in 1 .. n : q[k] = s[k]
  <2> SUFFICES ASSUME NEW k \in 1 .. n PROVE q[k] = s[k]
    OBVIOUS
  <2>1. 1 + k - 1 = k
    BY <1>6
  <2>2. q[k] = s[1 + k - 1]
    BY <1>5, <1>6
  <2> QED BY <2>1, <2>2
<1> QED BY <1>1, <1>2, <1>3, <1>4, <1>5, <1>7, <1>8

LEMMA AppendFacts ==
  ASSUME NEW s \in Seq(Frame), NEW e \in Frame
  PROVE  /\ Append(s, e) \in Seq(Frame) /\ Len(Append(s, e)) = Len(s) + 1
         /\ \A k \in 1 .. Len(s) : Append(s, e)[k] = s[k]
         /\ Append(s, e)[Len(s) + 1] = e
  OBVIOUS

LEMMA TakeFacts ==
  ASSUME NEW le \in Entry, NEW t \in Threads, ~ is_locked(le)
  PROVE  take_lock(le, t) \in Entry /\ is_locked(take_lock(le, t))
  BY LimitAssumption, ThreadsAssumption DEF Entry, is_locked, take_lock, Threads

LEMMA ReleaseFacts ==
  ASSUME NEW le \in Entry, is_locked(le)
  PROVE  release_lock(le) \in Entry /\ ~ is_locked(release_lock(le))
  BY LimitAssumption, ThreadsAssumption DEF Entry, is_locked, release_lock

-----------------------------------------------------------------------------
(* The inductive invariant.                                                 *)

\* A held bucket carries its holder's id, and only a holder finds its own id
\* in a locked entry.
EntryInv ==
    \A t \in Threads, b \in Buckets :
        b \in held[t] <=> is_locked(lck[b]) /\ lck[b].procid = t + 1

\* The frames of a stack are protected; an owner's frame lies below all other
\* frames of its bucket and remembers the entry that is still in the lock.
StackInv ==
    \A t \in Threads : \A k \in 1 .. Len(stack[t]) :
        /\ stack[t][k].b \in held[t]
        /\ stack[t][k].own =>
            /\ stack[t][k].newl = lck[stack[t][k].b]
            /\ \A j \in 1 .. k - 1 : stack[t][j].b # stack[t][k].b

PcInv ==
    \A t \in Threads :
        /\ pc[t] = "cas" => ~ is_locked(seen[t])
        /\ pc[t] \in {"check", "store"} => stack[t] # <<>> /\ Top(t).own

LockInv == TypeOK /\ EntryInv /\ StackInv /\ PcInv

LEMMA LockInit == Init => LockInv
<1> SUFFICES ASSUME Init PROVE LockInv
  OBVIOUS
<1>1. Unlocked \in Entry /\ ~ is_locked(Unlocked)
  BY LimitAssumption, ThreadsAssumption DEF Unlocked, Entry, is_locked
<1>2. TypeOK
  BY <1>1, TriesAssumption DEF Init, TypeOK
<1>3. EntryInv
  BY <1>1 DEF Init, EntryInv
<1>4. StackInv /\ PcInv
  BY <1>1 DEF Init, StackInv, PcInv
<1> QED BY <1>2, <1>3, <1>4 DEF LockInv

LEMMA LockStep ==
  ASSUME LockInv, [Next]_vars
  PROVE  LockInv'
<1> USE DEF LockInv
<1>1. ASSUME NEW t \in Threads, NEW n \in Nodes, TryLock(t, n) PROVE LockInv'
  <2> DEFINE b == Bucket[n]
  <2>0. b \in Buckets /\ lck[b] \in Entry
    BY BucketAssumption DEF TypeOK
  <2>1. tries' \in [Threads -> 0 .. MaxTries]
    BY <1>1, TriesAssumption DEF TryLock, TypeOK
  <2>2. CASE ~ is_locked(lck[b]) /\ UNCHANGED stack
    <3>1. /\ want' = [want EXCEPT ![t] = b] /\ seen' = [seen EXCEPT ![t] = lck[b]]
          /\ pc' = [pc EXCEPT ![t] = "cas"] /\ UNCHANGED <<lck, held>>
      BY <1>1, <2>2 DEF TryLock, Goto
    <3>2. TypeOK'
      BY <2>0, <2>1, <2>2, <3>1 DEF TypeOK
    <3>3. EntryInv' /\ StackInv'
      BY <2>2, <3>1 DEF EntryInv, StackInv
    <3>4. PcInv'
      BY <2>2, <3>1 DEF PcInv, Top, TypeOK
    <3> QED BY <3>2, <3>3, <3>4
  <2>3. CASE is_locked(lck[b]) /\ is_self_locked(lck[b], t)
    <3> DEFINE f == [b |-> b, own |-> FALSE, newl |-> lck[b]]
    <3>1. /\ pc[t] = "run" /\ stack' = [stack EXCEPT ![t] = Append(stack[t], f)]
          /\ UNCHANGED <<pc, want, seen, lck, held>>
      BY <1>1, <2>3 DEF TryLock, Reenter, PushFrame
    <3>2. f \in Frame /\ stack[t] \in Seq(Frame)
      BY <2>0 DEF Frame, TypeOK
    <3>3. b \in held[t]
      BY <2>0, <2>3 DEF EntryInv, is_self_locked
    <3>4. TypeOK'
      BY <2>1, <3>1, <3>2, AppendFacts DEF TypeOK
    <3>5. EntryInv'
      BY <3>1 DEF EntryInv
    <3> HIDE DEF f
    <3>6. f.b = b /\ f.own = FALSE
      BY DEF f
    <3>7. StackInv'
      BY <3>1, <3>2, <3>3, <3>6, AppendFacts DEF StackInv, TypeOK
    <3>8. PcInv'
      BY <3>1 DEF PcInv, Top, TypeOK
    <3> QED BY <3>4, <3>5, <3>7, <3>8
  <2> QED BY <1>1, <2>2, <2>3 DEF TryLock
<1>2. ASSUME NEW t \in Threads, Acquire(t) PROVE LockInv'
  <2> DEFINE b == want[t]
             newl == take_lock(seen[t], t)
             f == [b |-> b, own |-> TRUE, newl |-> newl]
  <2>0. b \in Buckets /\ seen[t] \in Entry /\ ~ is_locked(seen[t]) /\ pc[t] = "cas"
    BY <1>2 DEF TypeOK, PcInv, Acquire
  <2>1. newl \in Entry /\ is_locked(newl) /\ newl.procid = t + 1
    BY <2>0, TakeFacts DEF take_lock
  <2>2. CASE ~ CasWins(t)
    <3>1. pc' = [pc EXCEPT ![t] = "run"] /\ UNCHANGED <<lck, held, stack, want, seen, tries>>
      BY <1>2, <2>2 DEF Acquire, Goto
    <3> QED BY <3>1 DEF TypeOK, EntryInv, StackInv, PcInv, Top
  <2>3. CASE CasWins(t)
    <3>1. /\ pc' = [pc EXCEPT ![t] = "run"] /\ lck' = [lck EXCEPT ![b] = newl]
          /\ held' = [held EXCEPT ![t] = held[t] \cup {b}]
          /\ stack' = [stack EXCEPT ![t] = Append(stack[t], f)]
          /\ UNCHANGED <<want, seen, tries>>
      BY <1>2, <2>3 DEF Acquire, Goto, PushFrame
    <3>2. \A u \in Threads : b \notin held[u]
      BY <2>0, <2>3 DEF CasWins, EntryInv
    <3>3. f \in Frame /\ stack[t] \in Seq(Frame) /\ f.b = b /\ f.newl = newl
      BY <2>0, <2>1 DEF Frame, TypeOK
    <3> HIDE DEF f, newl
    <3>4. TypeOK'
      BY <2>0, <2>1, <3>1, <3>3, AppendFacts DEF TypeOK
    <3>5. EntryInv'
      BY <2>0, <2>1, <3>1, <3>2 DEF EntryInv, TypeOK, Threads
    <3>6. StackInv'
      <4> SUFFICES ASSUME NEW u \in Threads, NEW k \in 1 .. Len(stack'[u])
                   PROVE  /\ stack'[u][k].b \in held'[u]
                          /\ stack'[u][k].own =>
                              /\ stack'[u][k].newl = lck'[stack'[u][k].b]
                              /\ \A j \in 1 .. k - 1 : stack'[u][j].b # stack'[u][k].b
        BY DEF StackInv
      <4>1. CASE u # t
        <5>1. stack'[u] = stack[u] /\ held'[u] = held[u]
          BY <4>1, <3>1 DEF TypeOK
        <5>2. stack[u][k].b \in held[u] /\ stack[u][k].b # b
          BY <5>1, <3>2 DEF StackInv
        <5>3. lck'[stack[u][k].b] = lck[stack[u][k].b]
          BY <5>2, <3>1 DEF TypeOK
        <5> QED BY <5>1, <5>2, <5>3 DEF StackInv
      <4>2. CASE u = t
        <5>1. stack'[t] = Append(stack[t], f) /\ held'[t] = held[t] \cup {b}
          BY <3>1 DEF TypeOK
        <5>2. Len(stack[t]) \in Nat /\ \A j \in 1 .. Len(stack[t]) : stack[t][j].b \in held[t]
          BY <3>3 DEF StackInv
        <5>3. CASE k = Len(stack[t]) + 1
          BY <4>2, <5>1, <5>2, <5>3, <3>1, <3>2, <3>3, <2>0, AppendFacts DEF TypeOK
        <5>4. CASE k \in 1 .. Len(stack[t])
          <6>1. stack'[t][k] = stack[t][k] /\ \A j \in 1 .. k - 1 : stack'[t][j] = stack[t][j]
            BY <5>1, <5>2, <5>4, <3>3, AppendFacts
          <6>2. stack[t][k].b \in held[t] /\ stack[t][k].b # b
            BY <5>4, <3>2 DEF StackInv
          <6>3. lck'[stack[t][k].b] = lck[stack[t][k].b]
            BY <6>2, <3>1 DEF TypeOK
          <6> QED BY <4>2, <5>1, <5>4, <6>1, <6>2, <6>3 DEF StackInv
        <5>5. k \in 1 .. Len(stack[t]) + 1
          BY <4>2, <5>1, <3>3, AppendFacts
        <5> QED BY <5>2, <5>3, <5>4, <5>5
      <4> QED BY <4>1, <4>2
    <3>7. PcInv'
      BY <3>1 DEF PcInv, Top, TypeOK
    <3> QED BY <3>4, <3>5, <3>6, <3>7
  <2> QED BY <2>2, <2>3
<1>3. ASSUME NEW t \in Threads, Return(t) PROVE LockInv'
  <2>0. stack[t] \in Seq(Frame) /\ stack[t] # <<>>
    BY <1>3 DEF Return, TypeOK
  <2>1. CASE Top(t).own
    <3>1. pc' = [pc EXCEPT ![t] = "check"] /\ UNCHANGED <<lck, held, stack, want, seen, tries>>
      BY <1>3, <2>1 DEF Return, Goto
    <3> QED BY <2>0, <2>1, <3>1 DEF TypeOK, EntryInv, StackInv, PcInv, Top
  <2>2. CASE ~ Top(t).own
    <3>1. pc[t] = "run" /\ stack' = [stack EXCEPT ![t] = Below(stack[t])]
          /\ UNCHANGED <<lck, pc, held, want, seen, tries>>
      BY <1>3, <2>2 DEF Return, Pop
    <3>2. TypeOK'
      BY <2>0, <3>1, BelowFacts DEF TypeOK
    <3>3. EntryInv'
      BY <3>1 DEF EntryInv
    <3>4. StackInv'
      <4> SUFFICES ASSUME NEW u \in Threads, NEW k \in 1 .. Len(stack'[u])
                   PROVE  /\ stack'[u][k].b \in held[u]
                          /\ stack'[u][k].own =>
                              /\ stack'[u][k].newl = lck[stack'[u][k].b]
                              /\ \A j \in 1 .. k - 1 : stack'[u][j].b # stack'[u][k].b
        BY <3>1 DEF StackInv
      <4>1. CASE u # t
        <5>1. stack'[u] = stack[u]
          BY <4>1, <3>1 DEF TypeOK
        <5> QED BY <5>1 DEF StackInv
      <4>2. CASE u = t
        <5>1. stack'[t] = Below(stack[t])
          BY <3>1 DEF TypeOK
        <5>2. Len(stack'[t]) = Len(stack[t]) - 1 /\ Len(stack[t]) \in Nat
              /\ \A j \in 1 .. Len(stack[t]) - 1 : stack'[t][j] = stack[t][j]
          BY <5>1, <2>0, BelowFacts
        <5>3. k \in 1 .. Len(stack[t]) - 1 /\ k \in 1 .. Len(stack[t])
          BY <4>2, <5>2
        <5>4. stack'[t][k] = stack[t][k] /\ \A j \in 1 .. k - 1 : stack'[t][j] = stack[t][j]
          BY <5>2, <5>3
        <5>5. /\ stack[t][k].b \in held[t]
              /\ stack[t][k].own =>
                  /\ stack[t][k].newl = lck[stack[t][k].b]
                  /\ \A j \in 1 .. k - 1 : stack[t][j].b # stack[t][k].b
          BY <5>3 DEF StackInv
        <5> QED BY <4>2, <5>4, <5>5
      <4> QED BY <4>1, <4>2
    <3>5. PcInv'
      BY <3>1 DEF PcInv, Top, TypeOK
    <3> QED BY <3>2, <3>3, <3>4, <3>5
  <2> QED BY <2>1, <2>2
<1>4. ASSUME NEW t \in Threads, CheckSelf(t) PROVE LockInv'
  <2>0. stack[t] \in Seq(Frame) /\ stack[t] # <<>> /\ Top(t).own
    BY <1>4 DEF CheckSelf, TypeOK, PcInv
  <2>1. is_self_locked(lck[Top(t).b], t)
    <3>0. /\ Top(t) = stack[t][Len(stack[t])] /\ Top(t) \in Frame
          /\ Len(stack[t]) \in 1 .. Len(stack[t])
      BY <2>0, BelowFacts DEF Top
    <3>1. Top(t).b \in held[t] /\ Top(t).b \in Buckets
      BY <3>0 DEF StackInv, Frame
    <3> QED BY <3>1 DEF EntryInv, is_self_locked
  <2>2. pc' = [pc EXCEPT ![t] = "store"] /\ UNCHANGED <<lck, held, stack, want, seen, tries>>
    BY <1>4, <2>1 DEF CheckSelf, Goto
  <2> QED BY <2>0, <2>2 DEF TypeOK, EntryInv, StackInv, PcInv, Top
<1>5. ASSUME NEW t \in Threads, Release(t) PROVE LockInv'
  <2> DEFINE b == Top(t).b
             m == Len(stack[t])
  <2>0. /\ stack[t] \in Seq(Frame) /\ stack[t] # <<>> /\ Top(t).own
        /\ Top(t) = stack[t][m] /\ m \in Nat /\ m \in 1 .. m
    BY <1>5, BelowFacts DEF Release, TypeOK, PcInv, Top
  <2>1. /\ b \in held[t] /\ b \in Buckets /\ Top(t).newl = lck[b]
        /\ \A j \in 1 .. m - 1 : stack[t][j].b # b
    BY <2>0 DEF StackInv, TypeOK
  <2>2. lck[b] \in Entry /\ is_locked(lck[b]) /\ lck[b].procid = t + 1
    BY <2>1 DEF EntryInv, TypeOK
  <2>3. release_lock(lck[b]) \in Entry /\ ~ is_locked(release_lock(lck[b]))
    BY <2>2, ReleaseFacts
  <2>4. /\ lck' = [lck EXCEPT ![b] = release_lock(lck[b])]
        /\ held' = [held EXCEPT ![t] = held[t] \ {b}]
        /\ stack' = [stack EXCEPT ![t] = Below(stack[t])]
        /\ pc' = [pc EXCEPT ![t] = "run"]
        /\ UNCHANGED <<want, seen, tries>>
    BY <1>5, <2>1 DEF Release, Pop, Goto
  <2>5. \A u \in Threads : u # t => b \notin held[u]
    BY <2>1, <2>2 DEF EntryInv, Threads
  <2>6. TypeOK'
    BY <2>0, <2>1, <2>3, <2>4, BelowFacts DEF TypeOK
  <2>7. EntryInv'
    BY <2>1, <2>3, <2>4, <2>5 DEF EntryInv, TypeOK
  <2>8. StackInv'
    <3> SUFFICES ASSUME NEW u \in Threads, NEW k \in 1 .. Len(stack'[u])
                 PROVE  /\ stack'[u][k].b \in held'[u]
                        /\ stack'[u][k].own =>
                            /\ stack'[u][k].newl = lck'[stack'[u][k].b]
                            /\ \A j \in 1 .. k - 1 : stack'[u][j].b # stack'[u][k].b
      BY DEF StackInv
    <3>1. CASE u # t
      <4>1. stack'[u] = stack[u] /\ held'[u] = held[u]
        BY <3>1, <2>4 DEF TypeOK
      <4>2. stack[u][k].b \in held[u] /\ stack[u][k].b # b
        BY <3>1, <4>1, <2>5 DEF StackInv
      <4>3. lck'[stack[u][k].b] = lck[stack[u][k].b]
        BY <4>2, <2>4 DEF TypeOK
      <4> QED BY <4>1, <4>2, <4>3 DEF StackInv
    <3>2. CASE u = t
      <4>1. stack'[t] = Below(stack[t]) /\ held'[t] = held[t] \ {b}
        BY <2>4 DEF TypeOK
      <4>0. Len(stack'[t]) = m - 1 /\ \A j \in 1 .. m - 1 : stack'[t][j] = stack[t][j]
        BY <4>1, <2>0, BelowFacts
      <4>2. /\ k \in 1 .. m - 1 /\ k \in 1 .. m /\ stack'[t][k] = stack[t][k]
            /\ \A j \in 1 .. k - 1 : stack'[t][j] = stack[t][j]
        BY <3>2, <4>0, <2>0
      <4>3. stack[t][k].b \in held[t] /\ stack[t][k].b # b
        BY <2>0, <2>1, <4>2 DEF StackInv
      <4>4. lck'[stack[t][k].b] = lck[stack[t][k].b]
        BY <4>3, <2>4 DEF TypeOK
      <4> QED BY <3>2, <4>1, <4>2, <4>3, <4>4, <2>0 DEF StackInv
    <3> QED BY <3>1, <3>2
  <2>9. PcInv'
    BY <2>4 DEF PcInv, Top, TypeOK
  <2> QED BY <2>6, <2>7, <2>8, <2>9
<1>6. CASE UNCHANGED vars
  BY <1>6 DEF vars, TypeOK, EntryInv, StackInv, PcInv, Top
<1> QED BY <1>1, <1>2, <1>3, <1>4, <1>5, <1>6 DEF Next, ThreadStep, InCall

-----------------------------------------------------------------------------
(* The theorems.                                                            *)

\* The invariant above holds in every reachable state of the hash lock.
THEOREM LockInvariant == Spec => []LockInv
<1>1. LockInv /\ [Next]_vars => LockInv'
  BY LockStep
<1> QED BY <1>1, LockInit, PTL DEF Spec

\* No two threads are inside thunks of one bucket, for every number of
\* threads, every hashing and every width of the counter (wrap included).
THEOREM MutualExclusionHolds == Spec => []MutualExclusion
<1>1. LockInv => MutualExclusion
  BY DEF LockInv, EntryInv, MutualExclusion, Threads, TypeOK
<1> QED BY <1>1, LockInvariant, PTL

\* A thunk is protected by its bucket until it returns, however calls nest.
THEOREM ThunksProtectedHolds == Spec => []ThunksProtected
<1>1. LockInv => ThunksProtected
  <2> SUFFICES ASSUME LockInv, NEW t \in Threads, NEW k \in DOMAIN stack[t]
               PROVE  stack[t][k].b \in held[t]
    BY DEF ThunksProtected
  <2>1. k \in 1 .. Len(stack[t])
    BY LenProperties DEF LockInv, TypeOK
  <2> QED BY <2>1 DEF LockInv, StackInv
<1> QED BY <1>1, LockInvariant, PTL
=============================================================================
