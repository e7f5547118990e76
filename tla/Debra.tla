------------------------------- MODULE Debra -------------------------------
(***************************************************************************)
(* DEBRA, the epoch-based reclaimer of common/recordmgr/reclaimer_debra.h, *)
(* used by the (a,b)-tree and most structures of ds/ through the record    *)
(* manager. A thread announces the epoch it read when it starts an         *)
(* operation and marks itself quiescent when it ends one. Retired objects  *)
(* go into the current one of three bags; a thread that reads a new epoch  *)
(* rotates its bags and hands the full blocks of the oldest one to         *)
(* deamortizedFreeables, from which every startOp frees one object. The    *)
(* announcements are scanned one per MIN_OPS_BEFORE_READ operations, and   *)
(* the thread that has seen all of them advances the epoch.                *)
(*                                                                         *)
(* The client is a structure that threads search for objects, link objects *)
(* into and unlink objects from. Threads register, run operations, wait    *)
(* for each other and deregister, as the phases of microbench/main.cpp do. *)
(* Epochs are counted in units of EPOCH_INCREMENT, and the quiescent bit   *)
(* of an announcement is a variable of its own. Memory is sequentially     *)
(* consistent: the record manager fences after startOp.                    *)
(***************************************************************************)
EXTENDS Integers, FiniteSets

CONSTANTS N,                    \* NUM_PROCESSES
          Objects,
          Setups,               \* BLOCK_SIZE, the objects in a full block, and MIN_OPS_BEFORE_READ
          Registrations,        \* how often a thread calls initThread
          MaxEpoch              \* bound on epoch

ASSUME NAssumption == N \in Nat \ {0}
ASSUME SetupsAssumption == \A s \in Setups : s.BLOCK_SIZE \in Nat \ {0} /\ s.MIN_OPS_BEFORE_READ \in Nat \ {0}
ASSUME BoundsAssumption == Registrations \in Nat /\ MaxEpoch \in Nat

Threads == 0 .. N - 1

VARIABLES setup,                \* the member of Setups that this behaviour uses
          epoch,
          announced, quiescent, \* announcedEpoch: BITS_EPOCH and QUIESCENT
          local,                \* localvar_announcedEpoch, NoEpoch at first
          checked, ops,         \* checked, opsSinceRead
          index, current,       \* index, and the bag that currentBag points to
          bag, freelist,        \* epochbags, deamortizedFreeables
          pc, registered,       \* control, and how often the thread registered
          linked, held, removed,\* the structure; what a thread has a pointer to, and has unlinked but not retired
          free,                 \* objects in the pool
          since, retiredIn      \* history: epoch when a thread announced; local of the retiring thread

shared == <<epoch, announced, quiescent>>
scan == <<checked, ops>>
bags == <<index, current, bag, freelist>>
client == <<linked, held, removed>>
vars == <<setup, epoch, announced, quiescent, local, checked, ops, index, current, bag, freelist,
          pc, registered, linked, held, removed, free, since, retiredIn>>

NUMBER_OF_EPOCH_BAGS == 3
Bags == 0 .. NUMBER_OF_EPOCH_BAGS - 1

\* GET_WITH_QUIESCENT(0) is no epoch, so the first startOp sees a new one
NoEpoch == 0 - 1

Init ==
  /\ setup \in Setups
  /\ epoch = 0
  /\ announced = [t \in Threads |-> 0] /\ quiescent = [t \in Threads |-> TRUE]
  /\ local = [t \in Threads |-> NoEpoch]
  /\ checked = [t \in Threads |-> 0] /\ ops = [t \in Threads |-> 0]
  /\ index = [t \in Threads |-> 0] /\ current = [t \in Threads |-> 0]
  /\ bag = [t \in Threads |-> [i \in Bags |-> {}]] /\ freelist = [t \in Threads |-> {}]
  /\ pc = [t \in Threads |-> "out"] /\ registered = [t \in Threads |-> 0]
  /\ linked = {} /\ held = [t \in Threads |-> {}] /\ removed = [t \in Threads |-> {}]
  /\ free = Objects
  /\ since = [t \in Threads |-> 0] /\ retiredIn = [o \in Objects |-> 0]

Goto(t, l) == pc' = [pc EXCEPT ![t] = l]

-----------------------------------------------------------------------------
\* initThread: the bags are new or empty; index is not touched. A phase begins when the last one is over.
initThread(t) ==
  /\ pc[t] = "out" /\ registered[t] < Registrations
  /\ \A u \in Threads : registered[u] \in {registered[t], registered[t] + 1} /\ (registered[u] = registered[t] => pc[u] = "out")
  /\ registered' = [registered EXCEPT ![t] = @ + 1]
  /\ current' = [current EXCEPT ![t] = 0]
  /\ checked' = [checked EXCEPT ![t] = 0] /\ ops' = [ops EXCEPT ![t] = 0]
  /\ Goto(t, "idle")
  /\ UNCHANGED <<shared, local, index, bag, freelist, client, free, since, retiredIn>>

\* deinitThread: everything in limbo goes to the pool, once all threads have left the structure
deinitThread(t) ==
  /\ pc[t] = "done"
  /\ \A u \in Threads : pc[u] = "done" \/ (pc[u] = "out" /\ registered[u] = registered[t])
  /\ free' = free \cup freelist[t] \cup UNION {bag[t][i] : i \in Bags}
  /\ bag' = [bag EXCEPT ![t] = [i \in Bags |-> {}]]
  /\ freelist' = [freelist EXCEPT ![t] = {}]
  /\ Goto(t, "out")
  /\ UNCHANGED <<shared, local, scan, index, current, registered, client, since, retiredIn>>

-----------------------------------------------------------------------------
\* appendMoveFullBlocks leaves the head block, which is not full, behind
FullBlocks(b, moved) ==
  Cardinality(b \ moved) < setup.BLOCK_SIZE /\ Cardinality(moved) % setup.BLOCK_SIZE = 0

\* mutant: two bags are enough
nextIndex_Two(i) == (i + 1) % 2

nextIndex(i) == (i + 1) % NUMBER_OF_EPOCH_BAGS

\* mutant: the bag that was current is taken for the oldest
rotateEpochBags_Current(t) ==
  LET i == nextIndex(index[t]) IN
  \E moved \in SUBSET bag[t][index[t]] :
    /\ FullBlocks(bag[t][index[t]], moved)
    /\ freelist' = [freelist EXCEPT ![t] = @ \cup moved]
    /\ bag' = [bag EXCEPT ![t][index[t]] = @ \ moved]
    /\ index' = [index EXCEPT ![t] = i]
    /\ current' = [current EXCEPT ![t] = i]

\* rotateEpochBags, on the variables of thread t
rotateEpochBags(t) ==
  LET i == nextIndex(index[t]) IN
  \E moved \in SUBSET bag[t][i] :
    /\ FullBlocks(bag[t][i], moved)
    /\ freelist' = [freelist EXCEPT ![t] = @ \cup moved]
    /\ bag' = [bag EXCEPT ![t][i] = @ \ moved]
    /\ index' = [index EXCEPT ![t] = i]
    /\ current' = [current EXCEPT ![t] = i]

\* mutant: a new epoch does not restart the scan
ReadEpoch_KeepScan(t) ==
  /\ pc[t] = "idle" /\ \A u \in Threads : pc[u] # "out"
  /\ local' = [local EXCEPT ![t] = epoch]
  /\ IF epoch # local[t] THEN rotateEpochBags(t) ELSE UNCHANGED bags
  /\ Goto(t, "free")
  /\ UNCHANGED <<shared, scan, registered, client, free, since, retiredIn>>

\* startOp: read the epoch; when it is new, restart the scan and rotate the bags
ReadEpoch(t) ==
  /\ pc[t] = "idle" /\ \A u \in Threads : pc[u] # "out"
  /\ local' = [local EXCEPT ![t] = epoch]
  /\ IF epoch # local[t] THEN rotateEpochBags(t) ELSE UNCHANGED bags
  /\ checked' = [checked EXCEPT ![t] = IF epoch # local[t] THEN 0 ELSE @]
  /\ Goto(t, "free")
  /\ UNCHANGED <<shared, ops, registered, client, free, since, retiredIn>>

\* startOp: one object that is safe to free goes to the pool
FreeOne(t) ==
  /\ pc[t] = "free"
  /\ \/ freelist[t] = {} /\ UNCHANGED <<freelist, free>>
     \/ \E o \in freelist[t] : freelist' = [freelist EXCEPT ![t] = @ \ {o}] /\ free' = free \cup {o}
  /\ Goto(t, "announce")
  /\ UNCHANGED <<shared, local, scan, index, current, bag, registered, client, since, retiredIn>>

\* startOp: announce the epoch that was read, which need not be the current one
Announce(t) ==
  LET turn == ops[t] + 1 = setup.MIN_OPS_BEFORE_READ IN
  /\ pc[t] = "announce"
  /\ announced' = [announced EXCEPT ![t] = local[t]]
  /\ quiescent' = [quiescent EXCEPT ![t] = FALSE]
  /\ since' = [since EXCEPT ![t] = epoch]
  /\ ops' = [ops EXCEPT ![t] = IF turn THEN 0 ELSE @ + 1]
  /\ Goto(t, IF turn THEN "scan" ELSE "run")
  /\ UNCHANGED <<epoch, local, checked, bags, registered, client, free, retiredIn>>

\* startOp: look at one announcement
Scan(t) ==
  LET u == checked[t]
      seen == announced[u] = local[t] \/ quiescent[u]
  IN
  /\ pc[t] = "scan"
  /\ checked' = [checked EXCEPT ![t] = IF seen THEN u + 1 ELSE u]
  /\ Goto(t, IF seen /\ u + 1 >= N THEN "advance" ELSE "run")
  /\ UNCHANGED <<shared, local, ops, bags, registered, client, free, since, retiredIn>>

\* startOp: all announcements were seen in this epoch
Advance(t) ==
  /\ pc[t] = "advance" /\ epoch < MaxEpoch
  /\ epoch' = IF epoch = local[t] THEN epoch + 1 ELSE epoch
  /\ Goto(t, "run")
  /\ UNCHANGED <<announced, quiescent, local, scan, bags, registered, client, free, since, retiredIn>>

\* endOp
endOp(t) ==
  /\ pc[t] = "run" /\ removed[t] = {}
  /\ quiescent' = [quiescent EXCEPT ![t] = TRUE]
  /\ announced' = [announced EXCEPT ![t] = local[t]]
  /\ held' = [held EXCEPT ![t] = {}]
  /\ \E l \in {"idle", "done"} : Goto(t, l)
  /\ UNCHANGED <<epoch, local, scan, bags, registered, linked, removed, free, since, retiredIn>>

-----------------------------------------------------------------------------
\* The client, inside an operation: reach an object, link a new one, unlink one, retire what was unlinked.
Reach(t) ==
  /\ pc[t] = "run"
  /\ \E o \in linked \ held[t] : held' = [held EXCEPT ![t] = @ \cup {o}]
  /\ UNCHANGED <<shared, local, scan, bags, pc, registered, linked, removed, free, since, retiredIn>>

Link(t) ==
  /\ pc[t] = "run"
  /\ \E o \in free : linked' = linked \cup {o} /\ free' = free \ {o}
  /\ UNCHANGED <<shared, local, scan, bags, pc, registered, held, removed, since, retiredIn>>

Unlink(t) ==
  /\ pc[t] = "run"
  /\ \E o \in held[t] \cap linked : linked' = linked \ {o} /\ removed' = [removed EXCEPT ![t] = @ \cup {o}]
  /\ UNCHANGED <<shared, local, scan, bags, pc, registered, held, free, since, retiredIn>>

retire(t) ==
  /\ pc[t] = "run"
  /\ \E o \in removed[t] :
       /\ removed' = [removed EXCEPT ![t] = @ \ {o}]
       /\ bag' = [bag EXCEPT ![t][current[t]] = @ \cup {o}]
       /\ retiredIn' = [retiredIn EXCEPT ![o] = local[t]]
  /\ UNCHANGED <<shared, local, scan, index, current, freelist, pc, registered, linked, held, free, since>>

-----------------------------------------------------------------------------
Step(t) ==
  \/ initThread(t) \/ deinitThread(t)
  \/ ReadEpoch(t) \/ FreeOne(t) \/ Announce(t) \/ Scan(t) \/ Advance(t) \/ endOp(t)
  \/ Reach(t) \/ Link(t) \/ Unlink(t) \/ retire(t)

Next == UNCHANGED setup /\ \E t \in Threads : Step(t)

Spec == Init /\ [][Next]_vars

-----------------------------------------------------------------------------
PC == {"out", "idle", "free", "announce", "scan", "advance", "run", "done"}

\* Epochs are numbers and bags hold objects; an announcement and a local copy may be NoEpoch.
TypeOK ==
  /\ setup \in Setups /\ epoch \in Nat
  /\ announced \in [Threads -> Int] /\ quiescent \in [Threads -> BOOLEAN] /\ local \in [Threads -> Int]
  /\ checked \in [Threads -> Nat] /\ ops \in [Threads -> Nat]
  /\ index \in [Threads -> Bags] /\ current \in [Threads -> Bags]
  /\ bag \in [Threads -> [Bags -> SUBSET Objects]] /\ freelist \in [Threads -> SUBSET Objects]
  /\ pc \in [Threads -> PC] /\ registered \in [Threads -> Nat]
  /\ linked \subseteq Objects /\ held \in [Threads -> SUBSET Objects] /\ removed \in [Threads -> SUBSET Objects]
  /\ free \subseteq Objects
  /\ since \in [Threads -> Nat] /\ retiredIn \in [Objects -> Int]

Active(t) == pc[t] \in {"scan", "advance", "run"}

\* An object that was given to the pool, or is about to be, is in no running thread's hands: the grace
\* period of rotateEpochBags covers every operation that was running when the object was unlinked.
NoUseAfterFree ==
  \A t, u \in Threads : held[t] \cap (free \cup freelist[u]) = {}

\* What startOp hands to deamortizedFreeables was retired "two epochs ago" (reclaimer_debra.h:189, 283) or earlier.
TwoEpochsAgo ==
  \A t \in Threads : \A o \in freelist[t] : retiredIn[o] + 2 <= local[t]

\* The incremental scan never reads the announcement of a thread that does not exist, although checked
\* reaches NUM_PROCESSES and is only reset when a new epoch is read (reclaimer_debra.h:336-340).
ScanInBounds ==
  \A t \in Threads : pc[t] = "scan" => checked[t] < N
=============================================================================
