------------------------------ MODULE SpinLock ------------------------------
(***************************************************************************)
(* The try-locks of the tree: internal::lock of                             *)
(* common/artifact_flock/spin_lock.h behind the hash lock of flock.h.       *)
(*                                                                          *)
(* A node has no lock of its own: its address is hashed to a bucket, so a   *)
(* thunk that locks a second node may meet a bucket it already holds.  A    *)
(* call of try_lock_result is a frame on its thread's stack; the thunk f is *)
(* any sequence of nested calls. unlock and no_release, which no structure  *)
(* uses, are left out: the lock is given back when f returns.               *)
(***************************************************************************)
EXTENDS Integers, Sequences

CONSTANTS
    N,             \* number of threads
    Nodes,         \* the objects that are locked
    Buckets,       \* hash lock buckets
    Bucket,        \* get_lock: the bucket of a node
    CountLimit,    \* 2^32: the counter of a lock entry wraps here
    MaxTries,      \* an outermost call and its thunk make so many attempts
    MaxCount       \* no lock is taken once its counter is here

ASSUME ThreadsAssumption == N \in Nat \ {0}
ASSUME BucketAssumption == Bucket \in [Nodes -> Buckets]
ASSUME LimitAssumption == CountLimit \in Nat \ {0} /\ CountLimit % 2 = 0
ASSUME TriesAssumption == MaxTries \in Nat \ {0}
ASSUME CountAssumption == MaxCount \in 0 .. CountLimit

Threads == 0 .. N - 1

VARIABLES
    lck,    \* lck[b]: the lock entry of bucket b
    pc,     \* control point of a thread
    want,   \* the bucket of the call in progress
    seen,   \* the entry that call has loaded
    tries,  \* attempts since the thread held nothing
    stack,  \* the calls of try_lock_result whose thunk has not returned
    held    \* the buckets a thread has taken and not given back

vars == <<lck, pc, want, seen, tries, stack, held>>

-----------------------------------------------------------------------------
(* lock_entry: a counter, odd when locked, and one more than the holder.    *)

Entry == [count : 0 .. CountLimit - 1, procid : 0 .. N]
Frame == [b : Buckets, own : BOOLEAN, newl : Entry]

is_locked(le) == le.count % 2 = 1
is_self_locked(le, t) == le.procid = t + 1
take_lock(le, t) == [count |-> le.count + 1, procid |-> t + 1]

\* lock_entry(get_count() + 1): the carry out of the counter lands in the
\* bits of the holder.
release_lock_NoWrap(le) == [count |-> le.count + 1, procid |-> 0]
release_lock(le) ==
    IF le.count + 1 = CountLimit
    THEN [count |-> 0, procid |-> 1]
    ELSE [count |-> le.count + 1, procid |-> 0]

Unlocked == [count |-> 0, procid |-> 0]

Init ==
    /\ lck = [b \in Buckets |-> Unlocked]
    /\ pc = [t \in Threads |-> "run"]
    /\ want \in [Threads -> Buckets]
    /\ seen = [t \in Threads |-> Unlocked]
    /\ tries = [t \in Threads |-> 0]
    /\ stack = [t \in Threads |-> <<>>]
    /\ held = [t \in Threads |-> {}]

Goto(t, l) == pc' = [pc EXCEPT ![t] = l]
Top(t) == stack[t][Len(stack[t])]
Below(s) == SubSeq(s, 1, Len(s) - 1)
PushFrame(t, b, own, le) ==
    stack' = [stack EXCEPT ![t] = Append(@, [b |-> b, own |-> own, newl |-> le])]
Pop(t) == stack' = [stack EXCEPT ![t] = Below(@)]

-----------------------------------------------------------------------------
(* try_lock_result: load, then CAS, re-entry or failure.                    *)

\* A call that finds the bucket taken by another thread fails without a
\* change; try_lock returns false and with_lock calls again.
Reenter_AsOwner(t, b) == PushFrame(t, b, TRUE, lck[b])
Reenter(t, b) == PushFrame(t, b, FALSE, lck[b])

TryLock(t, n) ==
    LET b == Bucket[n] IN
    /\ pc[t] = "run"
    /\ stack[t] = <<>> \/ tries[t] < MaxTries
    /\ tries' = [tries EXCEPT ![t] = IF stack[t] = <<>> THEN 1 ELSE @ + 1]
    /\ \/ /\ ~ is_locked(lck[b]) /\ lck[b].count < MaxCount
          /\ want' = [want EXCEPT ![t] = b]
          /\ seen' = [seen EXCEPT ![t] = lck[b]]
          /\ Goto(t, "cas")
          /\ UNCHANGED stack
       \/ /\ is_locked(lck[b])
          /\ is_self_locked(lck[b], t)
          /\ Reenter(t, b)
          /\ UNCHANGED <<pc, want, seen>>
    /\ UNCHANGED <<lck, held>>

\* lck.compare_exchange_strong(current, newl)
CasWins_Blind(t) == TRUE
CasWins(t) == lck[want[t]] = seen[t]

Acquire(t) ==
    LET b == want[t]
        newl == take_lock(seen[t], t) IN
    /\ pc[t] = "cas"
    /\ IF CasWins(t)
       THEN /\ lck' = [lck EXCEPT ![b] = newl]
            /\ held' = [held EXCEPT ![t] = @ \cup {b}]
            /\ PushFrame(t, b, TRUE, newl)
       ELSE UNCHANGED <<lck, held, stack>>
    /\ Goto(t, "run")
    /\ UNCHANGED <<want, seen, tries>>

\* f() returns: a nested call just returns, the owner goes on to release.
Return_Leaks(t) ==
    /\ pc[t] = "run"
    /\ stack[t] # <<>>
    /\ Pop(t)
    /\ UNCHANGED <<lck, pc, want, seen, tries, held>>

Return(t) ==
    /\ pc[t] = "run"
    /\ stack[t] # <<>>
    /\ IF Top(t).own THEN Goto(t, "check") /\ UNCHANGED stack
                     ELSE Pop(t) /\ UNCHANGED pc
    /\ UNCHANGED <<lck, want, seen, tries, held>>

\* if (lck.load().is_self_locked(tid)): it may have been released early.
CheckSelf(t) ==
    /\ pc[t] = "check"
    /\ IF is_self_locked(lck[Top(t).b], t)
       THEN Goto(t, "store") /\ UNCHANGED stack
       ELSE Goto(t, "run") /\ Pop(t)
    /\ UNCHANGED <<lck, want, seen, tries, held>>

\* lck = newl.release_lock();
Release(t) ==
    LET b == Top(t).b IN
    /\ pc[t] = "store"
    /\ lck' = [lck EXCEPT ![b] = release_lock(Top(t).newl)]
    /\ held' = [held EXCEPT ![t] = @ \ {b}]
    /\ Pop(t)
    /\ Goto(t, "run")
    /\ UNCHANGED <<want, seen, tries>>

-----------------------------------------------------------------------------

InCall(t) == Acquire(t) \/ CheckSelf(t) \/ Release(t)

ThreadStep(t) ==
    \/ \E n \in Nodes : TryLock(t, n)
    \/ Return(t) \/ InCall(t)

Next == \E t \in Threads : ThreadStep(t)

\* A thread inside a lock call keeps running, and a thunk returns once it has
\* made its nested attempts.
Fairness == \A t \in Threads : WF_vars(InCall(t)) /\ WF_vars(Return(t))

Spec == Init /\ [][Next]_vars
FairSpec == Spec /\ Fairness

-----------------------------------------------------------------------------
(* Properties.                                                              *)

TypeOK ==
    /\ lck \in [Buckets -> Entry]
    /\ pc \in [Threads -> {"run", "cas", "check", "store"}]
    /\ want \in [Threads -> Buckets]
    /\ seen \in [Threads -> Entry]
    /\ tries \in [Threads -> 0 .. MaxTries]
    /\ stack \in [Threads -> Seq(Frame)]
    /\ held \in [Threads -> SUBSET Buckets]

\* Two threads never hold one bucket, whatever nodes collide in it, however
\* calls nest and across the wrap of the counter.
MutualExclusion ==
    \A t, u \in Threads : t # u => held[t] \cap held[u] = {}

\* Every thunk in progress is protected: the bucket of each call on a
\* thread's stack is held by that thread until the call returns, so a nested
\* call on a colliding node does not give the lock back under the outer one.
ThunksProtected ==
    \A t \in Threads : \A k \in DOMAIN stack[t] : stack[t][k].b \in held[t]

\* Try-locks cannot deadlock: whoever holds a bucket gives it back, also when
\* threads want each other's buckets.
HeldIsReleased ==
    \A t \in Threads, b \in Buckets : b \in held[t] ~> b \notin held[t]
=============================================================================
