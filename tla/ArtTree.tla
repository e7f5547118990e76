------------------------------ MODULE ArtTree ------------------------------
(***************************************************************************)
(* The durable adaptive radix tree of ds/04-artifact: insert, remove, find *)
(* and range_internal, with their lock-free descents, validated reads and  *)
(* locked copy-on-write updates.                                           *)
(*                                                                         *)
(* Logs is the number of log entries of a log leaf: 0 is art.h, whose big  *)
(* leaf is a log leaf without log entries, 2 is art_double_log_leaves.h.   *)
(* A sorted array of pairs is the set of its keys here; the constructors   *)
(* that merge array and log entries are modelled in LogMerge.              *)
(*                                                                         *)
(* One action is one access to shared memory, or a critical section as far *)
(* as its one visible write. A child pointer is atomic (VersionedPtr), a   *)
(* lock has one owner (SpinLock) and memory is not reused under a running  *)
(* operation (Epoch), so the heap only grows.                              *)
(***************************************************************************)
EXTENDS Integers, Sequences, FiniteSets, SequencesExt

CONSTANTS Threads,
          Keys,       \* the integers used as keys
          Misread,    \* what find may answer on an inner node
          Setups      \* builds and clients: one is chosen for a behaviour

\* sizes, in the order of the code's macros: bytes of a key, values of a byte (256 in the code),
\* pairs in a small and in a big leaf, children of a sparse and of an indirect node
\* logs: log entries of a log leaf
\* fill: the calls one thread makes before the others start; calls: those made then, each an
\* operation and a key; threads: who makes them; ops: how many each
ASSUME SetupsAssumption == \A s \in Setups :
  /\ Keys \subseteq 0 .. s.radix ^ s.key_len - 1
  /\ 0 < s.max_small /\ s.max_small < s.max_big /\ s.max_sparse <= s.max_indirect
  /\ s.logs \in 0 .. 2 /\ s.threads \in SUBSET Threads \ {{}} /\ s.ops \in Nat
ASSUME MisreadAssumption == Misread \in SUBSET BOOLEAN \ {{}}

VARIABLES heap,     \* sequence of nodes; a pointer is an index, 0 is nullptr
          locks,    \* the nodes whose lock is held
          pc, loc,  \* per thread: control, and the result of find_location so far
          setup,    \* the member of Setups chosen
          fill, ops, \* calls of the filling left, calls made by each thread
          call      \* the call of each thread as SetSpec sees it

vars == <<heap, locks, pc, loc, setup, fill, ops, call>>

KeyLen == setup.key_len
Radix == setup.radix
MAX_SMALL_LEAF_SIZE == setup.max_small
MAX_BIG_LEAF_SIZE == setup.max_big
MAX_SPARSE_SIZE == setup.max_sparse
MAX_INDIRECT_SIZE == setup.max_indirect
Logs == setup.logs

-----------------------------------------------------------------------------
root == 1

Bytes == 0 .. Radix - 1

get_byte(k, pos) == (k \div Radix ^ (KeyLen - 1 - pos)) % Radix

Inner(nt, k, byte_num, child) ==
  [nt |-> nt, key |-> k, byte_num |-> byte_num, child |-> child, removed |-> FALSE]

\* log is the list of valid log entries
NewLeaf(nt, k, byte_num, kvs) ==
  [nt |-> nt, key |-> k, byte_num |-> byte_num, kvs |-> kvs, log |-> << >>]

is_leaf(n) == n.nt \in {"Leaf", "LogLeaf"}

Entry(k, delete) == [key |-> k, delete |-> delete]

Replay(kvs, e) == IF e.delete THEN kvs \ {e.key} ELSE kvs \cup {e.key}

\* the keys of a leaf: its array with the log entries applied in order
LeafKeys(n) ==
  CASE Len(n.log) = 0 -> n.kvs
    [] Len(n.log) = 1 -> Replay(n.kvs, n.log[1])
    [] OTHER          -> Replay(Replay(n.kvs, n.log[1]), n.log[2])

first_diff(pos, S) ==
  IF Cardinality(S) = 1 THEN KeyLen
  ELSE Min({KeyLen} \cup {j \in pos .. KeyLen - 1 : \E a, b \in S : get_byte(a, j) # get_byte(b, j)})

HasChild(n, k) == get_byte(k, n.byte_num) \in DOMAIN n.child

get_child(n, k) == n.child[get_byte(k, n.byte_num)]

is_full_Late(n) ==
  \/ n.nt = "Sparse" /\ Cardinality(DOMAIN n.child) > MAX_SPARSE_SIZE
  \/ n.nt = "Indirect" /\ Cardinality(DOMAIN n.child) > MAX_INDIRECT_SIZE

is_full(n) ==
  \/ n.nt = "Sparse" /\ Cardinality(DOMAIN n.child) = MAX_SPARSE_SIZE
  \/ n.nt = "Indirect" /\ Cardinality(DOMAIN n.child) = MAX_INDIRECT_SIZE

\* the bytes find_location compares on the way into c, at least one
Compared(c, k, pos) ==
  Min({q \in pos + 1 .. KeyLen + 1 : q >= c.byte_num \/ get_byte(k, q) # get_byte(c.key, q)})

SetChild(h, n, k, c) == [h EXCEPT ![n].child[get_byte(k, h[n].byte_num)] = c]

-----------------------------------------------------------------------------
(* The tree as one thread alone would read it. *)

RECURSIVE FindFrom(_, _, _, _)
FindFrom(h, n, k, pos) ==
  /\ HasChild(h[n], k)
  /\ LET c == get_child(h[n], k) IN
     /\ c # 0
     /\ LET q == Compared(h[c], k, pos) IN
        IF is_leaf(h[c]) THEN k \in LeafKeys(h[c])
        ELSE q = h[c].byte_num /\ FindFrom(h, c, k, q)

Contents(h) == {k \in Keys : FindFrom(h, root, k, 0)}

\* mutant: the last child of the range is left out
Slots_Exclusive(a, lo, hi) ==
  {c \in DOMAIN a.child :
     /\ c >= (IF lo = -1 THEN 0 ELSE get_byte(lo, a.byte_num))
     /\ c < (IF hi = -1 THEN Radix ELSE get_byte(hi, a.byte_num))}

\* the children range_internal visits
Slots(a, lo, hi) ==
  {c \in DOMAIN a.child :
     /\ c >= (IF lo = -1 THEN 0 ELSE get_byte(lo, a.byte_num))
     /\ c <= (IF hi = -1 THEN Radix - 1 ELSE get_byte(hi, a.byte_num))}

\* range_internal: lo and hi are dropped (-1) once the path is strictly inside that side
\* of the range, and a node whose common bytes leave the range is not entered
RECURSIVE RangeFrom(_, _, _, _, _)
RangeFrom(h, n, lo, hi, pos) ==
  IF n = 0 THEN {}
  ELSE IF is_leaf(h[n])
  THEN {k \in LeafKeys(h[n]) : (lo = -1 \/ lo <= k) /\ (hi = -1 \/ k <= hi)}
  ELSE
    LET a == h[n]
        i == Min({a.byte_num} \cup {j \in pos .. a.byte_num - 1 :
                   \/ lo # -1 /\ get_byte(lo, j) # get_byte(a.key, j)
                   \/ hi # -1 /\ get_byte(hi, j) # get_byte(a.key, j)})
        b == get_byte(a.key, i)
        below == lo # -1 /\ get_byte(lo, i) < b
        above == hi # -1 /\ get_byte(hi, i) > b
    IN IF i < a.byte_num
       THEN IF (lo # -1 /\ get_byte(lo, i) > b) \/ (hi # -1 /\ get_byte(hi, i) < b) THEN {}
            ELSE RangeFrom(h, n, IF below THEN -1 ELSE lo, IF above THEN -1 ELSE hi, i + 1)
       ELSE UNION {RangeFrom(h, a.child[c], lo, hi, a.byte_num) : c \in Slots(a, lo, hi)}

range(lo, hi) == RangeFrom(heap, root, lo, hi, 0)

-----------------------------------------------------------------------------
AtRoot == [gp |-> 0, p |-> root, cptr |-> FALSE, c |-> 0, pos |-> 0, again |-> FALSE, res |-> FALSE]

NoCall == [op |-> "none", key |-> CHOOSE k \in Keys : TRUE, may |-> {}, done |-> FALSE, ret |-> FALSE]

Init ==
  /\ setup \in Setups
  /\ heap = << Inner("Full", 0, 0, [b \in Bytes |-> 0]) >>
  /\ locks = {}
  /\ pc = [t \in Threads |-> "idle"]
  /\ loc = [t \in Threads |-> AtRoot]
  /\ fill = setup.fill
  /\ ops = [t \in Threads |-> 0]
  /\ call = [t \in Threads |-> NoCall]

Filler == CHOOSE t \in setup.threads : TRUE

Goto(t, l) == pc' = [pc EXCEPT ![t] = l]

Key(t) == call[t].key

Op(t) == call[t].op

\* try_loop: start again from the root, after giving up the locks
Retry(t, held) ==
  /\ loc' = [loc EXCEPT ![t] = AtRoot]
  /\ locks' = locks \ held
  /\ Goto(t, "descend")
  /\ UNCHANGED heap

Answer(t, l, r) ==
  /\ loc' = [loc EXCEPT ![t] = [l EXCEPT !.res = r]]
  /\ Goto(t, "return")

\* mutant: the locks stay held
Commit_KeepsLocks(t, h, held) ==
  LET S == Contents(h) IN
  /\ heap' = h
  /\ UNCHANGED locks
  /\ call' = [u \in Threads |->
       IF Op(u) = "none" THEN call[u]
       ELSE [call[u] EXCEPT !.may = @ \cup {Key(u) \in S}, !.done = @ \/ u = t]]
  /\ Answer(t, loc[t], TRUE)

\* a new heap; every running call sees what became of its key, and the caller has done its update
Commit(t, h, held) ==
  LET S == Contents(h) IN
  /\ heap' = h
  /\ locks' = locks \ held
  /\ call' = [u \in Threads |->
       IF Op(u) = "none" THEN call[u]
       ELSE [call[u] EXCEPT !.may = @ \cup {Key(u) \in S}, !.done = @ \/ u = t]]
  /\ Answer(t, loc[t], TRUE)

-----------------------------------------------------------------------------
(* Calls, and the descent of find_location. *)

Invoke(t, o, k) ==
  /\ pc[t] = "idle"
  /\ IF fill # << >>
     THEN /\ t = Filler /\ fill[1] = <<o, k>>
          /\ fill' = Tail(fill) /\ UNCHANGED ops
     ELSE /\ pc[Filler] = "idle" \/ ops[Filler] > 0
          /\ <<o, k>> \in setup.calls /\ ops[t] < setup.ops
          /\ ops' = [ops EXCEPT ![t] = @ + 1] /\ UNCHANGED fill
  /\ call' = [call EXCEPT ![t] =
       [op |-> o, key |-> k, may |-> {k \in Contents(heap)}, done |-> FALSE, ret |-> FALSE]]
  /\ loc' = [loc EXCEPT ![t] = AtRoot]
  /\ Goto(t, "descend")
  /\ UNCHANGED <<heap, locks>>

Respond(t) ==
  /\ pc[t] = "return"
  /\ call' = [call EXCEPT ![t] = [@ EXCEPT !.op = "none", !.may = {}, !.done = FALSE, !.ret = loc[t].res]]
  /\ loc' = [loc EXCEPT ![t] = AtRoot]
  /\ Goto(t, "idle")
  /\ UNCHANGED <<heap, locks, fill, ops>>

\* what find_, try_insert and try_remove do once they know whether the leaf has the key
Decide(t, l, found) ==
  LET go(lbl) == loc' = [loc EXCEPT ![t] = l] /\ Goto(t, lbl) IN
  CASE Op(t) = "find" -> Answer(t, l, found)
    [] Op(t) = "insert" /\ l.again -> IF found THEN Answer(t, l, FALSE) ELSE Retry(t, {})
    [] Op(t) = "insert" /\ found -> go("validate")
    [] Op(t) = "insert" /\ ~ found -> go(IF l.cptr THEN "lock" ELSE "lock_gp")
    [] Op(t) = "remove" /\ ~ l.cptr -> Answer(t, l, FALSE)
    [] Op(t) = "remove" /\ ~ found -> go("validate")
    [] Op(t) = "remove" /\ found -> go("lock")

\* the end of find_location: nothing there, a leaf, or an inner node the key does not belong under,
\* which find_ reads as if it were a leaf
Located(t, l) ==
  IF l.c = 0 THEN Decide(t, l, FALSE)
  ELSE IF heap[l.c].nt = "LogLeaf" /\ Logs > 0
  THEN loc' = [loc EXCEPT ![t] = l] /\ Goto(t, "second_log")
  ELSE IF is_leaf(heap[l.c]) THEN Decide(t, l, Key(t) \in heap[l.c].kvs)
  ELSE \E b \in (IF Op(t) = "find" THEN Misread ELSE {FALSE}) : Decide(t, l, b)

Descend(t) ==
  LET n == heap[loc[t].p]
      c == IF HasChild(n, Key(t)) THEN get_child(n, Key(t)) ELSE 0
      here == [loc[t] EXCEPT !.cptr = HasChild(n, Key(t)), !.c = c]
      pos == IF c = 0 THEN loc[t].pos ELSE Compared(heap[c], Key(t), loc[t].pos)
  IN /\ pc[t] = "descend"
     /\ IF c # 0 /\ pos = heap[c].byte_num /\ ~ is_leaf(heap[c])
        THEN /\ loc' = [loc EXCEPT ![t] = [here EXCEPT !.gp = loc[t].p, !.p = c, !.pos = pos]]
             /\ UNCHANGED pc
        ELSE Located(t, [here EXCEPT !.pos = pos])
     /\ UNCHANGED <<heap, locks, fill, ops, call>>

\* find of a log leaf: the second log entry, then the first, then the array
SecondLog(t) ==
  LET n == heap[loc[t].c] IN
  /\ pc[t] = "second_log"
  /\ IF Len(n.log) >= 2 /\ n.log[2].key = Key(t)
     THEN Decide(t, loc[t], ~ n.log[2].delete)
     ELSE Goto(t, "first_log") /\ UNCHANGED loc
  /\ UNCHANGED <<heap, locks, fill, ops, call>>

FirstLog(t) ==
  LET n == heap[loc[t].c] IN
  /\ pc[t] = "first_log"
  /\ Decide(t, loc[t], IF Len(n.log) >= 1 /\ n.log[1].key = Key(t) THEN ~ n.log[1].delete ELSE Key(t) \in n.kvs)
  /\ UNCHANGED <<heap, locks, fill, ops, call>>

\* read_lock: the child pointer still holds what was found ...
Validate(t) ==
  /\ pc[t] = "validate"
  /\ IF get_child(heap[loc[t].p], Key(t)) = loc[t].c
     THEN Goto(t, "validate_removed") /\ UNCHANGED <<heap, locks, loc>>
     ELSE Retry(t, {})
  /\ UNCHANGED <<fill, ops, call>>

\* ... and the node is still in the tree; an insert then reads the value it returns again
ValidateRemoved(t) ==
  /\ pc[t] = "validate_removed"
  /\ IF heap[loc[t].p].removed THEN Retry(t, {})
     ELSE /\ IF Op(t) = "remove" \/ heap[loc[t].c].nt = "Leaf" \/ Logs = 0
             THEN Answer(t, loc[t], FALSE)
             ELSE loc' = [loc EXCEPT ![t].again = TRUE] /\ Goto(t, "second_log")
          /\ UNCHANGED <<heap, locks>>
  /\ UNCHANGED <<fill, ops, call>>

-----------------------------------------------------------------------------
(* Updates under the lock of the parent p. What the lock protects is read when it is taken and *)
(* written in a second step, so a lock that failed to exclude would show.                      *)

\* mutant: p may have been replaced by a copy
Lock_NoRemoved(t) ==
  LET l == loc[t]
      stale == \/ get_child(heap[l.p], Key(t)) # l.c
               \/ /\ l.c # 0 /\ heap[l.c].nt = "LogLeaf"
                  /\ (Key(t) \in LeafKeys(heap[l.c])) = (Op(t) = "insert")
  IN /\ pc[t] = "lock"
     /\ IF l.p \in locks \/ stale THEN Retry(t, {})
        ELSE locks' = locks \cup {l.p} /\ Goto(t, "write") /\ UNCHANGED <<heap, loc>>
     /\ UNCHANGED <<fill, ops, call>>

Lock(t) ==
  LET l == loc[t]
      stale == \/ heap[l.p].removed
               \/ get_child(heap[l.p], Key(t)) # l.c
               \/ /\ l.c # 0 /\ heap[l.c].nt = "LogLeaf"
                  /\ (Key(t) \in LeafKeys(heap[l.c])) = (Op(t) = "insert")
  IN /\ pc[t] = "lock"
     /\ IF l.p \in locks \/ stale THEN Retry(t, {})
        ELSE locks' = locks \cup {l.p} /\ Goto(t, "write") /\ UNCHANGED <<heap, loc>>
     /\ UNCHANGED <<fill, ops, call>>

NewLeafOf(k) == NewLeaf("Leaf", k, KeyLen, {k})

new_leaf(pos, S) ==
  NewLeaf(IF Cardinality(S) > MAX_SMALL_LEAF_SIZE THEN "LogLeaf" ELSE "Leaf", Min(S), first_diff(pos, S), S)

\* where, in the sorted keys S, the byte at pos changes
RunStarts(pos, S) ==
  {a \in S : a = Min(S) \/ get_byte(Max({b \in S : b < a}), pos) # get_byte(a, pos)}

\* a sparse node with one leaf for each run of keys with the same byte at pos, at heap
\* positions at + 1, at + 2, ...; get_child finds the first child with a byte
Split(at, pos, S) ==
  LET start == SetToSortSeq(RunStarts(pos, S), <)
      runs == 1 .. Len(start)
      run(i) == {k \in S : k >= start[i] /\ (i < Len(start) => k < start[i + 1])}
      child == [b \in {get_byte(start[i], pos) : i \in runs} |->
                  at + 1 + Min({i \in runs : get_byte(start[i], pos) = b})]
  IN << Inner("Sparse", Min(S), pos, child) >> \o [i \in runs |-> new_leaf(pos + 1, run(i))]

realSize(n) ==
  Cardinality(n.kvs) + Cardinality({i \in DOMAIN n.log : ~ n.log[i].delete})
                     - Cardinality({i \in DOMAIN n.log : n.log[i].delete})

is_appendable(n) == n.nt = "LogLeaf" /\ Len(n.log) < Logs

\* mutant: byte_num is copied from the old leaf
InsertNodes_KeepsByteNum(at, c, pos, k) ==
  CASE c = 0 -> << NewLeafOf(k) >>
    [] c # 0 /\ ~ is_leaf(heap[c]) ->
         << Inner("Sparse", heap[c].key, pos,
                  [b \in {get_byte(heap[c].key, pos), get_byte(k, pos)} |->
                     IF b = get_byte(heap[c].key, pos) THEN c ELSE at + 2]), NewLeafOf(k) >>
    [] c # 0 /\ is_leaf(heap[c]) ->
         LET n == heap[c] IN
         IF realSize(n) >= MAX_BIG_LEAF_SIZE THEN Split(at, pos, LeafKeys(n) \cup {k})
         ELSE << NewLeaf(IF n.nt = "Leaf" /\ Cardinality(n.kvs) < MAX_SMALL_LEAF_SIZE THEN "Leaf" ELSE "LogLeaf",
                         n.key, n.byte_num, LeafKeys(n) \cup {k}) >>

\* the nodes that replace c once k is in it, the one to link first
InsertNodes(at, c, pos, k) ==
  CASE c = 0 -> << NewLeafOf(k) >>
    [] c # 0 /\ ~ is_leaf(heap[c]) ->
         << Inner("Sparse", heap[c].key, pos,
                  [b \in {get_byte(heap[c].key, pos), get_byte(k, pos)} |->
                     IF b = get_byte(heap[c].key, pos) THEN c ELSE at + 2]), NewLeafOf(k) >>
    [] c # 0 /\ is_leaf(heap[c]) ->
         LET n == heap[c] IN
         IF realSize(n) >= MAX_BIG_LEAF_SIZE THEN Split(at, pos, LeafKeys(n) \cup {k})
         ELSE << NewLeaf(IF n.nt = "Leaf" /\ Cardinality(n.kvs) < MAX_SMALL_LEAF_SIZE THEN "Leaf" ELSE "LogLeaf",
                         n.key, pos, LeafKeys(n) \cup {k}) >>

\* the nodes that replace the leaf c once k is out of it
RemoveNodes(at, c, pos, k) ==
  LET n == heap[c]
      rest == LeafKeys(n) \ {k}
      newSize == realSize(n) - 1
  IN CASE newSize = 0 -> << >>
       [] newSize > 0 /\ newSize >= MAX_BIG_LEAF_SIZE -> Split(at, pos, rest)
       [] newSize > 0 /\ newSize < MAX_BIG_LEAF_SIZE ->
            << NewLeaf(IF newSize <= MAX_SMALL_LEAF_SIZE THEN "Leaf" ELSE "LogLeaf",
                       Min(rest), first_diff(n.byte_num, rest), rest) >>

\* the critical section of try_insert and of try_remove
Write(t) ==
  LET l == loc[t]
      at == Len(heap)
      nodes == IF Op(t) = "insert" THEN InsertNodes(at, l.c, l.pos, Key(t))
                                   ELSE RemoveNodes(at, l.c, l.pos, Key(t))
  IN /\ pc[t] = "write"
     /\ IF l.c # 0 /\ is_appendable(heap[l.c])
        THEN Commit(t, [heap EXCEPT ![l.c].log = Append(@, Entry(Key(t), Op(t) = "remove"))], {l.p})
        ELSE Commit(t, SetChild(heap \o nodes, l.p, Key(t), IF nodes = << >> THEN 0 ELSE at + 1), {l.p})
     /\ UNCHANGED <<fill, ops>>

-----------------------------------------------------------------------------
(* add_child: a node without a slot for the byte is copied, under the locks of its parent and its own. *)

LockGp(t) ==
  LET l == loc[t] IN
  /\ pc[t] = "lock_gp"
  /\ IF \/ l.gp \in locks \/ heap[l.gp].removed
        \/ get_child(heap[l.gp], heap[l.p].key) # l.p
     THEN Retry(t, {})
     ELSE locks' = locks \cup {l.gp} /\ Goto(t, "lock_p") /\ UNCHANGED <<heap, loc>>
  /\ UNCHANGED <<fill, ops, call>>

LockP(t) ==
  LET l == loc[t] IN
  /\ pc[t] = "lock_p"
  /\ IF l.p \in locks \/ HasChild(heap[l.p], Key(t)) THEN Retry(t, {l.gp})
     ELSE locks' = locks \cup {l.p} /\ Goto(t, "mark_removed") /\ UNCHANGED <<heap, loc>>
  /\ UNCHANGED <<fill, ops, call>>

MarkRemoved(t) ==
  /\ pc[t] = "mark_removed"
  /\ heap' = [heap EXCEPT ![loc[t].p].removed = TRUE]
  /\ Goto(t, "add_child")
  /\ UNCHANGED <<locks, loc, fill, ops, call>>

\* p with a slot for k: a full sparse node becomes an indirect one, a full indirect one a full node
Grown(n, k, c) ==
  LET nt == CASE ~ is_full(n) -> n.nt
              [] is_full(n) /\ n.nt = "Sparse" -> "Indirect"
              [] is_full(n) /\ n.nt = "Indirect" -> "Full"
      slots == IF nt = "Full" THEN Bytes ELSE DOMAIN n.child \cup {get_byte(k, n.byte_num)}
  IN Inner(nt, n.key, n.byte_num,
           [b \in slots |-> CASE b = get_byte(k, n.byte_num) -> c
                              [] b \in DOMAIN n.child -> n.child[b]
                              [] OTHER -> 0])

AddChild(t) ==
  LET l == loc[t]
      at == Len(heap)
      n == heap[l.p]
  IN /\ pc[t] = "add_child"
     /\ Commit(t, SetChild(heap \o << Grown(n, Key(t), at + 2), NewLeafOf(Key(t)) >>, l.gp, n.key, at + 1),
               {l.gp, l.p})
     /\ UNCHANGED <<fill, ops>>

-----------------------------------------------------------------------------
Step(t) ==
  \/ \E o \in {"insert", "remove", "find"}, k \in Keys : Invoke(t, o, k)
  \/ Descend(t) \/ SecondLog(t) \/ FirstLog(t)
  \/ Validate(t) \/ ValidateRemoved(t)
  \/ Lock(t) \/ Write(t)
  \/ LockGp(t) \/ LockP(t) \/ MarkRemoved(t) \/ AddChild(t)
  \/ Respond(t)

Next == UNCHANGED setup /\ \E t \in setup.threads : Step(t)

Spec == Init /\ [][Next]_vars

-----------------------------------------------------------------------------
\* every variable has its type; a lock is held by the thread that is in its critical section
TypeOK ==
  /\ \A i \in DOMAIN heap :
       /\ heap[i].nt \in {"Full", "Indirect", "Sparse", "Leaf", "LogLeaf"} /\ heap[i].byte_num \in 0 .. KeyLen
       /\ IF is_leaf(heap[i]) THEN heap[i].kvs \subseteq Keys /\ Len(heap[i].log) <= Logs
          ELSE /\ \A b \in DOMAIN heap[i].child : b \in Bytes /\ heap[i].child[b] \in {0} \cup DOMAIN heap
               /\ heap[i].removed \in BOOLEAN
  /\ \A t \in Threads : loc[t].p \in DOMAIN heap /\ loc[t].c \in {0} \cup DOMAIN heap
  /\ locks = {loc[t].p : t \in {t \in Threads : pc[t] \in {"write", "mark_removed", "add_child"}}}
        \cup {loc[t].gp : t \in {t \in Threads : pc[t] \in {"lock_p", "mark_removed", "add_child"}}}

RECURSIVE Below(_)
Below(n) ==
  {n} \cup IF is_leaf(heap[n]) THEN {}
           ELSE UNION {Below(c) : c \in {heap[n].child[b] : b \in DOMAIN heap[n].child} \ {0}}

KeysBelow(n) == UNION {LeafKeys(heap[m]) : m \in {m \in Below(n) : is_leaf(heap[m])}}

SharePrefix(j, a, b) == \A i \in 0 .. j - 1 : get_byte(a, i) = get_byte(b, i)

\* Linearizability: every insert, remove and find takes effect at one moment between its call and
\* its return, although find_location takes no lock, a node may be replaced or marked removed
\* under it, and remove answers "no such child" without validating it.
Abstract == INSTANCE SetSpec WITH set <- Contents(heap)
Linearizable == Abstract!Spec

\* The radix tree is well formed after every write, whatever the order of splits, new parents,
\* copies of nodes and removals: the keys below a node agree with its key on all bytes before
\* byte_num and lie under the slot of their byte, byte_num grows downwards, and a node marked
\* removed is in the tree only until its copy is linked.
TrieShape == \A n \in Below(root) :
  /\ \A k \in KeysBelow(n) : SharePrefix(heap[n].byte_num, k, heap[n].key)
  /\ ~ is_leaf(heap[n]) =>
       /\ \A b \in DOMAIN heap[n].child : heap[n].child[b] # 0 =>
            LET c == heap[n].child[b] IN
            /\ heap[c].byte_num > heap[n].byte_num
            /\ \A k \in KeysBelow(c) \cup {heap[c].key} : get_byte(k, heap[n].byte_num) = b
       /\ heap[n].removed => \E t \in Threads : pc[t] = "add_child" /\ loc[t].p = n

\* The range walk returns exactly the keys of the set between its bounds, although it prunes
\* subtrees by comparing only the bytes a node skips and drops a bound once it is inside it.
RangeExact == (\A t \in Threads : pc[t] = "idle") =>
  \A lo, hi \in Keys : range(lo, hi) = {k \in Contents(heap) : lo <= k /\ k <= hi}

\* No inner node holds more children, no small leaf and no big leaf of art.h more pairs, than its
\* arrays have room for, whichever of two inserts makes the last copy before a node must grow and
\* however many runs a split makes (art_double_log_leaves.h:3122 asserts it of the split). The
\* arrays of log leaves are in LogMerge: a split can give one more pairs than it has room for.
NodesFit == \A n \in Below(root) :
  CASE heap[n].nt = "Leaf"     -> Cardinality(heap[n].kvs) <= MAX_SMALL_LEAF_SIZE
    [] heap[n].nt = "LogLeaf"  -> Logs = 0 => Cardinality(heap[n].kvs) <= MAX_BIG_LEAF_SIZE
    [] heap[n].nt = "Sparse"   -> Cardinality(DOMAIN heap[n].child) <= MAX_SPARSE_SIZE
    [] heap[n].nt = "Indirect" -> Cardinality(DOMAIN heap[n].child) <= MAX_INDIRECT_SIZE
    [] heap[n].nt = "Full"     -> TRUE

\* The children of the sparse node a split builds have different bytes.
NoDuplicateBytes == \A t \in Threads :
  (pc[t] = "write" /\ Op(t) = "insert" /\ loc[t].c # 0 /\ is_leaf(heap[loc[t].c])
     /\ realSize(heap[loc[t].c]) >= MAX_BIG_LEAF_SIZE /\ ~ is_appendable(heap[loc[t].c])) =>
  \A a, b \in RunStarts(loc[t].pos, LeafKeys(heap[loc[t].c]) \cup {Key(t)}) :
    a # b => get_byte(a, loc[t].pos) # get_byte(b, loc[t].pos)
=============================================================================
