------------------------------- MODULE Epoch -------------------------------
(***************************************************************************)
(* Epoch-based reclamation of the artifact ART: epoch_s and mem_pool of     *)
(* common/artifact_flock/epoch.h (the UseSetbenchTids build), together with *)
(* the timestamp hooks and with_snapshot of                                 *)
(* common/artifact_verlib/timestamps.h (the HWWriteStamp build).            *)
(*                                                                          *)
(* Every shared load, exchange, store and CAS of the code is a step of its  *)
(* own.  The client is the weakest one the versioned tree needs: an object  *)
(* is retired while the version chain still leads to it.  A reader that     *)
(* shortcuts a ver_link retires it although a writer, holding the link as   *)
(* its old_v, is about to publish a version that points to it; so every     *)
(* operation running at the unlinking may hand the object to others until   *)
(* it ends, and who started in that time may use it until it ends itself.   *)
(***************************************************************************)
EXTENDS Integers, FiniteSets

CONSTANTS
    N,         \* number of worker threads: size of announcements and pools
    Objects,   \* the objects of the pool
    None,      \* no object
    MaxEpoch,  \* update_epoch is called only below this epoch
    MaxClock   \* bound on the hardware clock

ASSUME NAssumption == N \in Nat \ {0}
ASSUME NoneAssumption == None \notin Objects
ASSUME MaxEpochAssumption == MaxEpoch \in Nat
ASSUME MaxClockAssumption == MaxClock \in Nat

Threads == 0 .. N - 1

VARIABLES
    pc,             \* control point of each thread
    \* --- epoch_s
    current_epoch,  \* the global epoch
    last,           \* announcements[t].last, -1 when t is outside with_epoch
    current_e,      \* the local current_e of announce and of update_epoch
    i,              \* the loop index of update_epoch
    \* --- timestamps.h
    clock,          \* rdtsc, one value for all cores
    done_stamp, prev_stamp,
    current_stamp,  \* thread_local, set by the before hook
    local_stamp,    \* thread_local, -1 outside with_snapshot
    \* --- mem_pool
    old,            \* pools[t].old
    current,        \* pools[t].current
    epoch,          \* pools[t].epoch
    pend,           \* the argument of the retire call in progress
    \* --- the client
    linked,         \* objects reachable from the data structure
    fading,         \* unlinked while t was running, reachable until t ends
    refs            \* objects t has picked up since it announced

epochVars == <<current_epoch, last, current_e, i>>
stampVars == <<clock, done_stamp, prev_stamp, current_stamp, local_stamp>>
poolVars == <<old, current, epoch, pend>>
clientVars == <<linked, fading, refs>>
vars == <<pc, epochVars, stampVars, poolVars, clientVars>>

\* Control points inside retire, that is inside add_to_current_list.
RetirePC == {"advance", "clear_list", "set_epoch", "heuristic", "load_e",
             "scan", "scan_again", "before_hook", "cas", "after_done",
             "after_prev", "push"}
PC == {"idle", "retry", "exchange", "recheck", "in"} \cup RetirePC

\* t is between a successful announce and its unannounce.
InEpoch(t) == pc[t] \in RetirePC \cup {"in"}

Freed == Objects \ (linked \cup UNION {old[t] \cup current[t] \cup {pend[t]} : t \in Threads})

Init ==
    /\ pc = [t \in Threads |-> "idle"]
    /\ current_epoch = 0
    /\ last = [t \in Threads |-> -1]
    /\ current_e = [t \in Threads |-> 0]
    /\ i = [t \in Threads |-> 0]
    /\ clock = 1 /\ done_stamp = 1 /\ prev_stamp = 1
    /\ current_stamp = [t \in Threads |-> 0]
    /\ local_stamp = [t \in Threads |-> -1]
    /\ old = [t \in Threads |-> {}]
    /\ current = [t \in Threads |-> {}]
    /\ epoch = [t \in Threads |-> 0]
    /\ pend = [t \in Threads |-> None]
    /\ linked = {}
    /\ fading = [t \in Threads |-> {}]
    /\ refs = [t \in Threads |-> {}]

-----------------------------------------------------------------------------
(* with_epoch: announce, the operation, unannounce.                         *)

Goto(t, l) == pc' = [pc EXCEPT ![t] = l]

\* get_current.
LoadCurrent_OffByOne == current_epoch - 1
LoadCurrent == current_epoch

\* announce: long current_e = get_current();
AnnounceLoad(t) ==
    /\ pc[t] \in {"idle", "retry"}
    /\ current_e' = [current_e EXCEPT ![t] = LoadCurrent]
    /\ Goto(t, "exchange")
    /\ UNCHANGED <<current_epoch, last, i, stampVars, poolVars, clientVars>>

\* announcements[id].last.exchange(tmp);
AnnounceExchange(t) ==
    /\ pc[t] = "exchange"
    /\ last' = [last EXCEPT ![t] = current_e[t]]
    /\ Goto(t, "recheck")
    /\ UNCHANGED <<current_epoch, current_e, i, stampVars, poolVars, clientVars>>

\* if (get_current() == current_e) return; otherwise go round the loop.
AnnouncedCurrent_Unchecked(t) == TRUE
AnnouncedCurrent(t) == LoadCurrent = current_e[t]

AnnounceRecheck(t) ==
    /\ pc[t] = "recheck"
    /\ Goto(t, IF AnnouncedCurrent(t) THEN "in" ELSE "retry")
    /\ UNCHANGED <<epochVars, stampVars, poolVars, clientVars>>

\* unannounce: the operation ends, what it picked up is dropped and what was
\* unlinked under it can no longer be reached through it.  with_snapshot has
\* reset local_stamp.
Unannounce(t) ==
    /\ pc[t] = "in"
    /\ last' = [last EXCEPT ![t] = -1]
    /\ local_stamp' = [local_stamp EXCEPT ![t] = -1]
    /\ refs' = [refs EXCEPT ![t] = {}]
    /\ fading' = [fading EXCEPT ![t] = {}]
    /\ Goto(t, "idle")
    /\ UNCHANGED <<current_epoch, current_e, i, clock, done_stamp, prev_stamp,
                   current_stamp, poolVars, linked>>

\* with_snapshot: local_stamp = global_stamp.get_read_stamp();
TakeSnapshot(t) ==
    /\ pc[t] = "in"
    /\ local_stamp[t] = -1
    /\ local_stamp' = [local_stamp EXCEPT ![t] = clock]
    /\ UNCHANGED <<pc, epochVars, clock, done_stamp, prev_stamp, current_stamp,
                   poolVars, clientVars>>

-----------------------------------------------------------------------------
(* The client inside with_epoch.                                            *)

\* new_obj, and the store that makes the object reachable.
NewObj(t, o) ==
    /\ pc[t] = "in"
    /\ o \in Freed
    /\ linked' = linked \cup {o}
    /\ UNCHANGED <<pc, epochVars, stampVars, poolVars, fading, refs>>

\* A traversal, possibly along a version chain, reaches o.
PickUp(t, o) ==
    /\ pc[t] = "in"
    /\ o \in linked \cup UNION {fading[p] : p \in Threads}
    /\ refs' = [refs EXCEPT ![t] = @ \cup {o}]
    /\ UNCHANGED <<pc, epochVars, stampVars, poolVars, linked, fading>>

\* The operation replaces o in the structure and calls retire(o).
Retire(t, o) ==
    /\ pc[t] = "in"
    /\ o \in linked
    /\ linked' = linked \ {o}
    /\ fading' = [u \in Threads |-> IF InEpoch(u) THEN fading[u] \cup {o} ELSE fading[u]]
    /\ pend' = [pend EXCEPT ![t] = o]
    /\ Goto(t, "advance")
    /\ UNCHANGED <<epochVars, stampVars, old, current, epoch, refs>>

-----------------------------------------------------------------------------
(* retire: advance_epoch, then the push onto pools[t].current.              *)

\* pid.epoch + 1 < epoch.get_current()
GraceOver_OffByOne(t) == epoch[t] < LoadCurrent
GraceOver(t) == epoch[t] + 1 < LoadCurrent

AdvanceEpoch(t) ==
    /\ pc[t] = "advance"
    /\ Goto(t, IF GraceOver(t) THEN "clear_list" ELSE "heuristic")
    /\ UNCHANGED <<epochVars, stampVars, poolVars, clientVars>>

\* clear_list(pid.old); pid.old = pid.current; pid.current = nullptr;
ClearList_NoReset(t) ==
    /\ pc[t] = "clear_list"
    /\ old' = [old EXCEPT ![t] = current[t]]
    /\ Goto(t, "set_epoch")
    /\ UNCHANGED <<epochVars, stampVars, current, epoch, pend, clientVars>>

ClearList(t) ==
    /\ pc[t] = "clear_list"
    /\ old' = [old EXCEPT ![t] = current[t]]
    /\ current' = [current EXCEPT ![t] = {}]
    /\ Goto(t, "set_epoch")
    /\ UNCHANGED <<epochVars, stampVars, epoch, pend, clientVars>>

\* pid.epoch = epoch.get_current();  (a second load)
SetPoolEpoch(t) ==
    /\ pc[t] = "set_epoch"
    /\ epoch' = [epoch EXCEPT ![t] = LoadCurrent]
    /\ Goto(t, "heuristic")
    /\ UNCHANGED <<epochVars, stampVars, old, current, pend, clientVars>>

\* The count and time heuristic decides whether update_epoch is called (it
\* never does once the epoch has reached the bound).
Heuristic(t) ==
    /\ pc[t] = "heuristic"
    /\ \/ current_epoch < MaxEpoch /\ Goto(t, "load_e")
       \/ Goto(t, "push")
    /\ UNCHANGED <<epochVars, stampVars, poolVars, clientVars>>

\* lnk->next = pid.current; pid.current = lnk;
Push(t) ==
    /\ pc[t] = "push"
    /\ current' = [current EXCEPT ![t] = @ \cup {pend[t]}]
    /\ pend' = [pend EXCEPT ![t] = None]
    /\ Goto(t, "in")
    /\ UNCHANGED <<epochVars, stampVars, old, epoch, clientVars>>

-----------------------------------------------------------------------------
(* update_epoch, called by advance_epoch.                                   *)

\* long current_e = get_current();
UpdateLoad(t) ==
    /\ pc[t] = "load_e"
    /\ current_e' = [current_e EXCEPT ![t] = LoadCurrent]
    /\ i' = [i EXCEPT ![t] = 0]
    /\ Goto(t, "scan")
    /\ UNCHANGED <<current_epoch, last, stampVars, poolVars, clientVars>>

\* The slot passes: go on with the next one, or leave the loop.
NextSlot(t) ==
    /\ i' = [i EXCEPT ![t] = @ + 1]
    /\ Goto(t, IF i[t] + 1 = N THEN "before_hook" ELSE "scan")

\* (announcements[i].last != -1l) && ...
ScanAnnounced(t) ==
    /\ pc[t] = "scan"
    /\ IF last[i[t]] = -1
       THEN NextSlot(t)
       ELSE Goto(t, "scan_again") /\ i' = i
    /\ UNCHANGED <<current_epoch, last, current_e, stampVars, poolVars, clientVars>>

\* ... && announcements[i].last < current_e: a load of its own.
SlotOlder_OffByOne(t) == last[i[t]] + 1 < current_e[t]
SlotOlder(t) == last[i[t]] < current_e[t]

ScanOlder(t) ==
    /\ pc[t] = "scan_again"
    /\ IF SlotOlder(t)
       THEN Goto(t, "push") /\ i' = i
       ELSE NextSlot(t)
    /\ UNCHANGED <<current_epoch, last, current_e, stampVars, poolVars, clientVars>>

\* before_epoch_hooks: current_stamp = global_stamp.get_stamp();
BeforeHook(t) ==
    /\ pc[t] = "before_hook"
    /\ current_stamp' = [current_stamp EXCEPT ![t] = clock]
    /\ Goto(t, "cas")
    /\ UNCHANGED <<epochVars, clock, done_stamp, prev_stamp, local_stamp,
                   poolVars, clientVars>>

\* current_epoch.compare_exchange_strong(current_e, current_e + 1)
CasEpoch(t) ==
    /\ pc[t] = "cas"
    /\ IF current_epoch = current_e[t]
       THEN /\ current_epoch' = current_epoch + 1
            /\ Goto(t, "after_done")
       ELSE /\ current_epoch' = current_epoch
            /\ Goto(t, "push")
    /\ UNCHANGED <<last, current_e, i, stampVars, poolVars, clientVars>>

\* after_epoch_hooks: done_stamp = prev_stamp;
AfterHookDone_Swapped(t) ==
    /\ pc[t] = "after_done"
    /\ done_stamp' = current_stamp[t]
    /\ Goto(t, "after_prev")
    /\ UNCHANGED <<epochVars, clock, prev_stamp, current_stamp, local_stamp,
                   poolVars, clientVars>>

AfterHookDone(t) ==
    /\ pc[t] = "after_done"
    /\ done_stamp' = prev_stamp
    /\ Goto(t, "after_prev")
    /\ UNCHANGED <<epochVars, clock, prev_stamp, current_stamp, local_stamp,
                   poolVars, clientVars>>

\* prev_stamp = current_stamp;
AfterHookPrev(t) ==
    /\ pc[t] = "after_prev"
    /\ prev_stamp' = current_stamp[t]
    /\ Goto(t, "push")
    /\ UNCHANGED <<epochVars, clock, done_stamp, current_stamp, local_stamp,
                   poolVars, clientVars>>

-----------------------------------------------------------------------------
(* clear: "to be used on termination", so no thread is inside with_epoch    *)
(* and update_epoch goes through undisturbed.                               *)
Clear(t) ==
    /\ \A u \in Threads : pc[u] = "idle"
    /\ current_epoch < MaxEpoch
    /\ current_epoch' = current_epoch + 1
    /\ current_e' = [current_e EXCEPT ![t] = current_epoch]
    /\ i' = [i EXCEPT ![t] = N]
    /\ current_stamp' = [current_stamp EXCEPT ![t] = clock]
    /\ done_stamp' = prev_stamp
    /\ prev_stamp' = clock
    /\ old' = [u \in Threads |-> {}]
    /\ current' = [u \in Threads |-> {}]
    /\ UNCHANGED <<pc, last, clock, local_stamp, epoch, pend, clientVars>>

Tick ==
    /\ clock < MaxClock
    /\ clock' = clock + 1
    /\ UNCHANGED <<pc, epochVars, done_stamp, prev_stamp, current_stamp,
                   local_stamp, poolVars, clientVars>>

ThreadStep(t) ==
    \/ AnnounceLoad(t) \/ AnnounceExchange(t) \/ AnnounceRecheck(t)
    \/ Unannounce(t) \/ TakeSnapshot(t)
    \/ \E o \in Objects : NewObj(t, o) \/ PickUp(t, o) \/ Retire(t, o)
    \/ AdvanceEpoch(t) \/ ClearList(t) \/ SetPoolEpoch(t) \/ Heuristic(t) \/ Push(t)
    \/ UpdateLoad(t) \/ ScanAnnounced(t) \/ ScanOlder(t)
    \/ BeforeHook(t) \/ CasEpoch(t) \/ AfterHookDone(t) \/ AfterHookPrev(t)
    \/ Clear(t)

Next == Tick \/ \E t \in Threads : ThreadStep(t)

Spec == Init /\ [][Next]_vars

-----------------------------------------------------------------------------
(* Properties.                                                              *)

TypeOK ==
    /\ pc \in [Threads -> PC]
    /\ current_epoch \in Nat
    /\ last \in [Threads -> Nat \cup {-1}]
    /\ current_e \in [Threads -> Nat]
    /\ i \in [Threads -> 0 .. N]
    /\ clock \in Nat /\ done_stamp \in Nat /\ prev_stamp \in Nat
    /\ current_stamp \in [Threads -> Nat]
    /\ local_stamp \in [Threads -> Nat \cup {-1}]
    /\ old \in [Threads -> SUBSET Objects]
    /\ current \in [Threads -> SUBSET Objects]
    /\ epoch \in [Threads -> Nat]
    /\ pend \in [Threads -> Objects \cup {None}]
    /\ linked \in SUBSET Objects
    /\ fading \in [Threads -> SUBSET Objects]
    /\ refs \in [Threads -> SUBSET Objects]

\* While a thread is inside with_epoch the global epoch is the one it
\* announced or the next one: the announce loop's recheck and the scan of
\* update_epoch never let the epoch run two ahead of a running operation.
EpochGap ==
    \A t \in Threads : InEpoch(t) => current_epoch \in {last[t], last[t] + 1}

\* No operation holds an object that clear_list has destructed, although
\* objects are retired while the version chain still leads to them.
NoUseAfterFree ==
    \A t \in Threads : refs[t] \cap Freed = {}

\* done_stamp never passes the stamp of a running snapshot: a version older
\* than done_stamp is needed by no with_snapshot that is still running.
DoneStampSafe ==
    \A t \in Threads : local_stamp[t] # -1 => done_stamp <= local_stamp[t]

\* The after hooks of two epoch changes never overlap (done_stamp and
\* prev_stamp are plain variables): at most one thread is between a
\* successful CAS and the end of its hooks.
HooksExclusive ==
    \A t, u \in Threads :
        pc[t] \in {"after_done", "after_prev"} /\ pc[u] \in {"after_done", "after_prev"}
            => t = u

\* An object is in at most one retire list, once, and never also reachable.
RetiredOnce ==
    \A t, u \in Threads :
        /\ old[t] \cap current[u] = {}
        /\ t # u => old[t] \cap old[u] = {} /\ current[t] \cap current[u] = {}
        /\ linked \cap (old[t] \cup current[t]) = {}
=============================================================================
