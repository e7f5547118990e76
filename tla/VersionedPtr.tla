---------------------------- MODULE VersionedPtr ----------------------------
(***************************************************************************)
(* versioned_ptr of common/artifact_verlib/versioned_hybrid_ptr_level.h: the *)
(* child pointers of the versioned ART.  A pointer leads to the newest node  *)
(* of a version chain; a null is stored through a ver_link, so that it has a *)
(* stamp and a successor too, and the link is shortcut out once no snapshot  *)
(* needs it.  UnpersistedBit selects between the two definitions of the      *)
(* class: with the bit, readers wait until the writer has flushed.           *)
(*                                                                           *)
(* The pieces the class stands on are represented by what their own modules  *)
(* establish: one writer per pointer (SpinLock), the write_hw clock          *)
(* (Timestamps), done_stamp never later than the start of a running          *)
(* operation and the rule for who may still use a retired object (Epoch).    *)
(***************************************************************************)
EXTENDS Integers, Sequences, FiniteSets

CONSTANTS
    Threads,         \* the worker threads
    Ptrs,            \* the versioned pointers
    Setups,          \* builds and clients: one is chosen for a behaviour
    MaxOps           \* number of operations in a behaviour

\* bit: DO_ADD_UNPERSISTENT_BIT; calls: for each operation, in the order in
\* which they begin, what it may be; start: what the pointers are at first;
\* stored: what is stored in each pointer (nothing: the pointer is not used);
\* width: how many operations run at a time; clock: it ticks beyond this only for
\* a waiting writer
ASSUME SetupsAssumption ==
    \A s \in Setups :
        /\ s.bit \in BOOLEAN
        /\ Len(s.calls) \in 0 .. MaxOps
        /\ \A n \in DOMAIN s.calls : s.calls[n] \subseteq {"store", "load", "snap"}
        /\ s.start \in {"node", "null"} /\ s.stored \in [Ptrs -> SUBSET {"node", "null"}]
        /\ s.width \in Nat /\ s.clock \in Nat
ASSUME BoundsAssumption == MaxOps \in Nat

tbd == 1000000      \* later than every stamp
zero_stamp == 1
MaxObj == MaxOps + Cardinality(Ptrs)

VARIABLES
    setup,
    v,           \* the word of each pointer
    obj,         \* the nodes and links: link, next_version, time_stamp
    nobj,        \* number of objects allocated so far
    clock, done_stamp,
    locked,      \* pointers whose node is locked by a writer
    pc, op,      \* control point and operation of each thread
    p,           \* the pointer it works on
    old_v, x,    \* store's old_v; the new or the loaded word
    ts,          \* the local ts of get_write_stamp
    local_stamp,
    born,        \* the clock when the operation began
    todo, res,   \* pointers left to a snapshot, versions it has read
    pm,          \* the version of each pointer that has been flushed
    retired,     \* how often each object has been retired
    hand, may,   \* of a retired object: who can pass it on, who can use it
    ops,         \* operations begun
    seen, floor, \* versions known to have taken effect: now, when t began
    before,      \* seen, when the store of each version began
    cuts         \* the snapshots that have been returned

UnpersistedBit == setup.bit
Used == {q \in Ptrs : setup.stored[q] # {}}

memory == <<v, obj, nobj, pm, locked>>
stamps == <<clock, done_stamp>>
locals == <<op, p, old_v, x, ts, local_stamp, born, todo, res>>
reclaim == <<retired, hand, may>>
history == <<ops, seen, floor, before, cuts>>
vars == <<setup, memory, stamps, pc, locals, reclaim, history>>

\* A word: the object it points to (0 for null), the unpersisted bit and, for
\* the properties, which version of the pointer it is.
Word(o, unp, idx) == [o |-> o, unp |-> unp, idx |-> idx]
SameWord(a, b) == a.o = b.o /\ a.unp = b.unp

is_indirect(w) == w.o # 0 /\ obj[w.o].link

\* versioned(): time_stamp(tbd).  A node (link = FALSE) or a ver_link to null.
Object(link, next, stamp) ==
    [link |-> link, next_version |-> next, time_stamp |-> stamp]

NoObject == Object(FALSE, Word(0, FALSE, 0), tbd)

\* which of the n nodes each pointer leads to at first
FirstNode(n) ==
    CHOOSE first \in [Ptrs -> 0 .. n] :
        \A q, r \in Ptrs : n # 0 => first[q] # 0 /\ (q # r => first[q] # first[r])

\* init: every pointer leads to a node with the zero stamp, or all are null.
Init ==
    /\ setup \in Setups
    /\ nobj = IF setup.start = "node" THEN Cardinality(Ptrs) ELSE 0
    /\ v = [q \in Ptrs |-> Word(FirstNode(nobj)[q], FALSE, 0)]
    /\ obj = [o \in 1 .. MaxObj |->
                IF o <= nobj
                THEN Object(FALSE, Word(0, FALSE, 0), zero_stamp) ELSE NoObject]
    /\ clock = zero_stamp /\ done_stamp = zero_stamp
    /\ locked = {}
    /\ pc = [t \in Threads |-> "idle"]
    /\ op = [t \in Threads |-> "load"]
    /\ p \in [Threads -> {CHOOSE q \in Ptrs : TRUE}]
    /\ old_v = [t \in Threads |-> Word(0, FALSE, 0)]
    /\ x = [t \in Threads |-> Word(0, FALSE, 0)]
    /\ ts = [t \in Threads |-> 0]
    /\ local_stamp = [t \in Threads |-> -1]
    /\ born = [t \in Threads |-> 0]
    /\ todo = [t \in Threads |-> {}]
    /\ res = [t \in Threads |-> [q \in Ptrs |-> 0]]
    /\ pm = [q \in Ptrs |-> 0]
    /\ retired = [o \in 1 .. MaxObj |-> 0]
    /\ hand = [o \in 1 .. MaxObj |-> {}] /\ may = [o \in 1 .. MaxObj |-> Threads]
    /\ ops = 0
    /\ seen = [q \in Ptrs |-> 0]
    /\ floor = [t \in Threads |-> [q \in Ptrs |-> 0]]
    /\ before = [q \in Ptrs |-> <<>>]
    /\ cuts = {}

-----------------------------------------------------------------------------
(* with_epoch around an operation, and retirement.                          *)

Running == {t \in Threads : pc[t] # "idle"}

Goto(t, l) == pc' = [pc EXCEPT ![t] = l]

\* An operation begins.  It may use the retired objects that somebody else
\* may still pass on to it.
Begin(t, o, l) ==
    /\ pc[t] = "idle"
    /\ Cardinality(Running) < setup.width
    /\ ops < Len(setup.calls) /\ o \in setup.calls[ops + 1] /\ ops' = ops + 1
    /\ op' = [op EXCEPT ![t] = o]
    /\ born' = [born EXCEPT ![t] = clock]
    /\ floor' = [floor EXCEPT ![t] = seen]
    /\ may' = [r \in 1 .. MaxObj |-> IF hand[r] # {} THEN may[r] \cup {t} ELSE may[r]]
    /\ Goto(t, l)

\* RETIRE_LINK, or the retire of a node: every operation in `who' may go on
\* using the objects and may pass them on.
Retire(objs, who) ==
    /\ retired' = [r \in 1 .. MaxObj |-> IF r \in objs THEN retired[r] + 1 ELSE retired[r]]
    /\ hand' = [r \in 1 .. MaxObj |-> IF r \in objs THEN who ELSE hand[r]]
    /\ may' = [r \in 1 .. MaxObj |-> IF r \in objs THEN who ELSE may[r]]

\* The operation ends, with the versions vec known to have taken effect; the
\* writer retires the node it has replaced.
End(t, vec, objs) ==
    /\ seen' = [q \in Ptrs |-> IF vec[q] > seen[q] THEN vec[q] ELSE seen[q]]
    /\ retired' = [r \in 1 .. MaxObj |-> IF r \in objs THEN retired[r] + 1 ELSE retired[r]]
    /\ hand' = [r \in 1 .. MaxObj |-> (IF r \in objs THEN Running ELSE hand[r]) \ {t}]
    /\ may' = [r \in 1 .. MaxObj |->
                 IF r \in objs THEN Running \ {t}
                 ELSE IF retired[r] > 0 THEN may[r] \ {t} ELSE may[r]]
    /\ local_stamp' = [local_stamp EXCEPT ![t] = -1]
    /\ Goto(t, "idle")

\* What the operation on p[t] establishes: version idx of that pointer.
Effect(t, idx) == [seen EXCEPT ![p[t]] = idx]

-----------------------------------------------------------------------------
(* set_stamp and the shortcuts, shared by the operations.                   *)

AfterStamp(t) ==
    CASE op[t] = "snap" -> "chase"
      [] op[t] # "snap" /\ is_indirect(x[t]) -> "shortcut"
      [] op[t] = "store" /\ ~ is_indirect(x[t]) -> "flush"
      [] op[t] = "load" /\ ~ is_indirect(x[t]) -> "return"

\* ptr != nullptr && time_stamp == tbd, then TS t = rdtsc();
StampBegin(t) ==
    /\ pc[t] = "stamp"
    /\ IF x[t].o # 0 /\ obj[x[t].o].time_stamp = tbd
       THEN ts' = [ts EXCEPT ![t] = clock] /\ Goto(t, "stamp_wait")
       ELSE ts' = ts /\ Goto(t, AfterStamp(t))
    /\ UNCHANGED <<memory, stamps, op, p, old_v, x, local_stamp, born, todo, res,
                   reclaim, history>>

\* The rest of get_write_stamp, and time_stamp.cas_ni(tbd, t).
WriteStamp_Early(t) == ts[t]
WriteStamp(t) == ts[t] + 1

StampSet_NoWait(t) ==
    /\ pc[t] = "stamp_wait"
    /\ obj' = IF obj[x[t].o].time_stamp = tbd
              THEN [obj EXCEPT ![x[t].o].time_stamp = WriteStamp(t)] ELSE obj
    /\ Goto(t, AfterStamp(t))
    /\ UNCHANGED <<v, nobj, pm, locked, stamps, locals, reclaim, history>>

StampSet(t) ==
    /\ pc[t] = "stamp_wait"
    /\ clock # ts[t]
    /\ obj' = IF obj[x[t].o].time_stamp = tbd
              THEN [obj EXCEPT ![x[t].o].time_stamp = WriteStamp(t)] ELSE obj
    /\ Goto(t, AfterStamp(t))
    /\ UNCHANGED <<v, nobj, pm, locked, stamps, locals, reclaim, history>>

\* ptr_->time_stamp.load_ni() <= done_stamp
OldEnough(t) == obj[x[t].o].time_stamp <= done_stamp

AfterShortcut(t) == IF op[t] = "store" THEN "flush" ELSE "return"

ShortcutTest(t) ==
    /\ pc[t] = "shortcut"
    /\ Goto(t, IF OldEnough(t) THEN "shortcut_cas" ELSE AfterShortcut(t))
    /\ UNCHANGED <<memory, stamps, locals, reclaim, history>>

\* if (v.cas(ptr, ptr_->value)) RETIRE_LINK(ptr_);  the writer's own shortcut
\* expects the unpersisted bit.
Expected(t) == [x[t] EXCEPT !.unp = UnpersistedBit /\ op[t] = "store"]

ShortcutCas_AlwaysRetires(t) ==
    /\ pc[t] = "shortcut_cas"
    /\ v' = IF SameWord(v[p[t]], Expected(t))
            THEN [v EXCEPT ![p[t]] = Word(0, FALSE, x[t].idx)] ELSE v
    /\ Retire({x[t].o}, Running)
    /\ Goto(t, AfterShortcut(t))
    /\ UNCHANGED <<obj, nobj, pm, locked, stamps, locals, history>>

ShortcutCas(t) ==
    /\ pc[t] = "shortcut_cas"
    /\ IF SameWord(v[p[t]], Expected(t))
       THEN /\ v' = [v EXCEPT ![p[t]] = Word(0, FALSE, x[t].idx)]
            /\ Retire({x[t].o}, Running)
       ELSE UNCHANGED <<v, reclaim>>
    /\ Goto(t, AfterShortcut(t))
    /\ UNCHANGED <<obj, nobj, pm, locked, stamps, locals, history>>

-----------------------------------------------------------------------------
(* store_with_unpersisted_bit, and store.                                   *)

Store(t, q) ==
    /\ Begin(t, "store", "store_load")
    /\ q \notin locked /\ locked' = locked \cup {q}
    /\ p' = [p EXCEPT ![t] = q]
    /\ before' = [before EXCEPT ![q] = Append(@, seen)]
    /\ UNCHANGED <<v, obj, nobj, pm, stamps, old_v, x, ts, local_stamp, todo, res,
                   retired, hand, seen, cuts>>

\* old_v = v.load(); a node, or for null a new link, gets old_v as its
\* next_version.
StoreLoad(t, what) ==
    /\ pc[t] = "store_load"
    /\ nobj' = nobj + 1
    /\ obj' = [obj EXCEPT ![nobj + 1] = Object(what = "null", v[p[t]], tbd)]
    /\ old_v' = [old_v EXCEPT ![t] = v[p[t]]]
    /\ x' = [x EXCEPT ![t] = Word(nobj + 1, FALSE, Len(before[p[t]]))]
    /\ Goto(t, "cam")
    /\ UNCHANGED <<v, pm, locked, stamps, op, p, ts, local_stamp, born, todo, res,
                   reclaim, history>>

\* new_v_marked
Marked(t) == [x[t] EXCEPT !.unp = UnpersistedBit]

\* v.cam(old_v, new_v_marked): fails only against a reader's shortcut.
StoreCam(t) ==
    /\ pc[t] = "cam"
    /\ v' = IF SameWord(v[p[t]], old_v[t]) THEN [v EXCEPT ![p[t]] = Marked(t)] ELSE v
    /\ Goto(t, IF is_indirect(old_v[t]) THEN "cam_check" ELSE "stamp")
    /\ UNCHANGED <<obj, nobj, pm, locked, stamps, locals, reclaim, history>>

\* val = v.load(); if (val != old_l->value) RETIRE_LINK(old_l); else try again.
StoreCheck(t) ==
    /\ pc[t] = "cam_check"
    /\ IF v[p[t]].o # 0
       THEN Retire({old_v[t].o}, Running) /\ Goto(t, "stamp")
       ELSE UNCHANGED reclaim /\ Goto(t, "cam_again")
    /\ UNCHANGED <<memory, stamps, locals, history>>

\* v.cam(val, new_v_marked)
StoreCamAgain(t) ==
    /\ pc[t] = "cam_again"
    /\ v' = IF v[p[t]].o = 0 THEN [v EXCEPT ![p[t]] = Marked(t)] ELSE v
    /\ Goto(t, "stamp")
    /\ UNCHANGED <<obj, nobj, pm, locked, stamps, locals, reclaim, history>>

\* The node that the store has replaced, which the tree retires.
Replaced(t) == {old_v[t].o} \ ({0} \cup {o \in 1 .. MaxObj : obj[o].link})

\* FLUSH_LINES(&v).  Without the unpersisted bit this ends the store.
StoreFlush_Skipped(t) ==
    /\ pc[t] = "flush"
    /\ Goto(t, "clear")
    /\ UNCHANGED <<memory, stamps, locals, reclaim, history>>

StoreFlush(t) ==
    /\ pc[t] = "flush"
    /\ pm' = [pm EXCEPT ![p[t]] = v[p[t]].idx]
    /\ IF UnpersistedBit
       THEN Goto(t, "clear") /\ UNCHANGED <<locked, local_stamp, reclaim, seen>>
       ELSE /\ locked' = locked \ {p[t]}
            /\ End(t, Effect(t, x[t].idx), Replaced(t))
    /\ UNCHANGED <<v, obj, nobj, stamps, op, p, old_v, x, ts, born, todo, res, ops,
                   floor, before, cuts>>

\* v = new_v, unless the new link has been shortcut.
StoreClear(t) ==
    /\ pc[t] = "clear"
    /\ v' = IF v[p[t]].o = 0 THEN v ELSE [v EXCEPT ![p[t]] = x[t]]
    /\ locked' = locked \ {p[t]}
    /\ End(t, Effect(t, x[t].idx), Replaced(t))
    /\ UNCHANGED <<obj, nobj, pm, stamps, op, p, old_v, x, ts, born, todo, res, ops,
                   floor, before, cuts>>

-----------------------------------------------------------------------------
(* load_wait (load, without the bit): outside a snapshot.                   *)

\* while (has_unpersisted_bit(x)) x = v.load();
Readable_Unchecked(q) == TRUE
Readable(q) == ~ v[q].unp

Load(t, q) ==
    /\ Begin(t, "load", "load")
    /\ p' = [p EXCEPT ![t] = q]
    /\ UNCHANGED <<memory, stamps, old_v, x, ts, local_stamp, todo, res, retired,
                   hand, seen, before, cuts>>

LoadWord(t) ==
    /\ pc[t] = "load" /\ op[t] = "load"
    /\ Readable(p[t])
    /\ x' = [x EXCEPT ![t] = v[p[t]]]
    /\ Goto(t, "stamp")
    /\ UNCHANGED <<memory, stamps, op, p, old_v, ts, local_stamp, born, todo, res,
                   reclaim, history>>

LoadReturn(t) ==
    /\ pc[t] = "return"
    /\ End(t, Effect(t, x[t].idx), {})
    /\ UNCHANGED <<memory, stamps, op, p, old_v, x, ts, born, todo, res, ops, floor,
                   before, cuts>>

-----------------------------------------------------------------------------
(* with_snapshot, and read_snapshot of every pointer in some order.         *)

Snapshot(t) ==
    /\ Begin(t, "snap", "read_stamp")
    /\ todo' = [todo EXCEPT ![t] = Used]
    /\ UNCHANGED <<memory, stamps, p, old_v, x, ts, local_stamp, res, retired,
                   hand, seen, before, cuts>>

\* local_stamp = global_stamp.get_read_stamp();
ReadStamp(t) ==
    /\ pc[t] = "read_stamp"
    /\ local_stamp' = [local_stamp EXCEPT ![t] = clock]
    /\ Goto(t, "load")
    /\ UNCHANGED <<memory, stamps, op, p, old_v, x, ts, born, todo, res, reclaim,
                   history>>

\* mutant: a stamp for each pointer
SnapLoad_Restamps(t, q) ==
    /\ pc[t] = "load" /\ op[t] = "snap"
    /\ q \in todo[t]
    /\ Readable(q)
    /\ p' = [p EXCEPT ![t] = q]
    /\ x' = [x EXCEPT ![t] = v[q]]
    /\ local_stamp' = [local_stamp EXCEPT ![t] = clock]
    /\ Goto(t, "stamp")
    /\ UNCHANGED <<memory, stamps, op, old_v, ts, born, todo, res, reclaim, history>>

SnapLoad(t, q) ==
    /\ pc[t] = "load" /\ op[t] = "snap"
    /\ q \in todo[t]
    /\ Readable(q)
    /\ p' = [p EXCEPT ![t] = q]
    /\ x' = [x EXCEPT ![t] = v[q]]
    /\ Goto(t, "stamp")
    /\ UNCHANGED <<memory, stamps, op, old_v, ts, local_stamp, born, todo, res, reclaim,
                   history>>

\* head != nullptr && less(ls, head_unmarked->time_stamp)
TooNew(t) == x[t].o # 0 /\ local_stamp[t] < obj[x[t].o].time_stamp

\* Go down the version chain, or take the version and read the next pointer.
SnapChase(t) ==
    /\ pc[t] = "chase"
    /\ IF TooNew(t)
       THEN /\ x' = [x EXCEPT ![t] = obj[x[t].o].next_version]
            /\ UNCHANGED <<todo, res, pc>>
       ELSE /\ res' = [res EXCEPT ![t][p[t]] = x[t].idx]
            /\ todo' = [todo EXCEPT ![t] = @ \ {p[t]}]
            /\ Goto(t, IF todo[t] = {p[t]} THEN "snap_return" ELSE "load")
            /\ x' = x
    /\ UNCHANGED <<memory, stamps, op, p, old_v, ts, local_stamp, born, reclaim, history>>

SnapReturn(t) ==
    /\ pc[t] = "snap_return"
    /\ cuts' = cuts \cup {res[t]}
    /\ End(t, res[t], {})
    /\ UNCHANGED <<memory, stamps, op, p, old_v, x, ts, born, todo, res, ops, floor,
                   before>>

-----------------------------------------------------------------------------
(* The environment.                                                         *)

Tick ==
    /\ \/ clock < setup.clock
       \/ \E t \in Threads : pc[t] = "stamp_wait" /\ ts[t] = clock
    /\ clock' = clock + 1
    /\ UNCHANGED <<memory, done_stamp, pc, locals, reclaim, history>>

\* An epoch change: done_stamp moves, not past the start of an operation that
\* is still running.
AdvanceDone ==
    /\ \E d \in done_stamp + 1 .. clock :
        /\ \A t \in Running : d <= born[t]
        /\ done_stamp' = d
    /\ UNCHANGED <<memory, clock, pc, locals, reclaim, history>>

Continue(t) ==
    \/ StampBegin(t) \/ StampSet(t) \/ ShortcutTest(t) \/ ShortcutCas(t)
    \/ \E what \in setup.stored[p[t]] : StoreLoad(t, what)
    \/ StoreCam(t) \/ StoreCheck(t) \/ StoreCamAgain(t) \/ StoreFlush(t) \/ StoreClear(t)
    \/ LoadWord(t) \/ LoadReturn(t)
    \/ ReadStamp(t) \/ SnapChase(t) \/ SnapReturn(t)
    \/ \E q \in Ptrs : SnapLoad(t, q)

StartOp(t) == Snapshot(t) \/ \E q \in Used : Store(t, q) \/ Load(t, q)

Next ==
    /\ Tick \/ AdvanceDone \/ \E t \in Threads : StartOp(t) \/ Continue(t)
    /\ UNCHANGED setup

Spec == Init /\ [][Next]_vars

-----------------------------------------------------------------------------
(* Properties.                                                              *)

IsWord(w) == w.o \in 0 .. MaxObj /\ w.unp \in BOOLEAN /\ w.idx \in 0 .. MaxOps

TypeOK ==
    /\ \A q \in Ptrs : IsWord(v[q]) /\ pm[q] \in 0 .. MaxOps /\ seen[q] \in 0 .. MaxOps
    /\ \A o \in 1 .. MaxObj :
        IsWord(obj[o].next_version) /\ obj[o].link \in BOOLEAN /\ obj[o].time_stamp \in Nat
    /\ nobj \in 0 .. MaxObj
    /\ clock \in Nat /\ done_stamp \in 1 .. clock
    /\ locked \subseteq Ptrs
    /\ \A t \in Threads :
        /\ IsWord(old_v[t]) /\ IsWord(x[t]) /\ ~ x[t].unp /\ ~ old_v[t].unp
        /\ p[t] \in Ptrs /\ todo[t] \subseteq Ptrs
        /\ ts[t] \in Nat /\ born[t] \in Nat /\ local_stamp[t] \in Nat \cup {-1}
    /\ \A o \in 1 .. MaxObj : hand[o] \subseteq may[o] /\ may[o] \subseteq Threads

\* Snapshots are atomic.  Two snapshots never disagree on the order of two
\* stores to different pointers; a snapshot has everything that had taken
\* effect when it began; and with a store it has everything that had taken
\* effect when that store began.  A load outside a snapshot returns nothing
\* older than what had taken effect when it began, whoever shortcut the pointer
\* in between.
ReadsAtomic ==
    /\ \A c, d \in cuts : (\A q \in Ptrs : c[q] <= d[q]) \/ (\A q \in Ptrs : d[q] <= c[q])
    /\ \A t \in Threads : pc[t] = "snap_return" =>
        \A q \in Ptrs :
            /\ res[t][q] >= floor[t][q]
            /\ \A r \in Ptrs : \A k \in 1 .. res[t][r] : res[t][q] >= before[r][k][q]
    /\ \A t \in Threads : pc[t] = "return" => x[t].idx >= floor[t][p[t]]

\* An object the thread is about to read through its word, or has returned.
Dereferenced(t) ==
    {CASE pc[t] \in {"stamp", "stamp_wait", "shortcut", "shortcut_cas", "chase", "return"}
            -> x[t].o
       [] pc[t] = "cam_check" -> old_v[t].o
       [] OTHER -> 0} \ {0}

\* No operation follows a pointer to a retired object outside the rule under
\* which the epochs keep retired objects: links that readers shortcut are
\* still the old_v of a writer and the next_version of what it stores.
RetiredUse ==
    \A t \in Threads : \A o \in Dereferenced(t) : t \in may[o]

\* Every object is retired once: never twice, although a reader's shortcut and
\* the writer race for a link, and not forgotten: when nothing is running, what
\* has been allocated and not retired is what the pointers lead to.
RetiredExactlyOnce ==
    /\ \A o \in 1 .. MaxObj : retired[o] <= 1
    /\ Running = {} => \A o \in 1 .. nobj :
        retired[o] = 1 <=> \A q \in Ptrs : v[q].o # o

\* With the unpersisted bit, what a finished operation has written or returned
\* has been flushed: a crash cannot take back what somebody has seen.
DurableBeforeVisible ==
    UnpersistedBit => \A q \in Ptrs : seen[q] <= pm[q]

\* A store never finds its own link old enough to be shortcut: the epoch it
\* runs in keeps done_stamp below the stamp it has just set.
FreshLinkKept ==
    \A t \in Threads :
        pc[t] = "shortcut" /\ op[t] = "store" => obj[x[t].o].time_stamp > done_stamp
=============================================================================
