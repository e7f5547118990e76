------------------------------ MODULE LogMerge ------------------------------
(***************************************************************************)
(* The leaves of art_double_log_leaves.h as arrays of pairs: a log leaf is *)
(* a sorted array and two log entries, and a full one is merged into a new *)
(* leaf by a constructor with a case for every combination of entries.     *)
(* Each constructor fills the array and, separately, computes the size it  *)
(* stores in the header.                                                   *)
(*                                                                         *)
(* One leaf is driven through every sequence of inserts and removes, as    *)
(* the critical sections of try_insert and try_remove drive it.            *)
(***************************************************************************)
EXTENDS Integers, Sequences, SequencesExt

CONSTANTS Keys, Values,
          MaxSmall, MaxBig    \* MAX_SMALL_LEAF_SIZE, MAX_BIG_LEAF_SIZE

ASSUME KeysAssumption == Keys \subseteq Nat /\ Values \subseteq Nat \ {0}
ASSUME SizesAssumption == MaxSmall \in Nat \ {0} /\ MaxBig \in Nat /\ MaxSmall < MaxBig

VARIABLES leaf,   \* the leaf, NoLeaf for a null child pointer
          dict    \* what it should hold: the value of each key, 0 for none

vars == <<leaf, dict>>

KV(k, v) == [key |-> k, value |-> v]

NoEntry == [valid |-> FALSE, delete |-> FALSE, key |-> 0, value |-> 0]

Entry(k, v, delete) == [valid |-> TRUE, delete |-> delete, key |-> k, value |-> v]

Pair(e) == KV(e.key, e.value)

Leaf(nt, size, kvs) == [nt |-> nt, size |-> size, kvs |-> kvs, log |-> NoEntry, second |-> NoEntry]

NoLeaf == Leaf("null", 0, << >>)

-----------------------------------------------------------------------------
(* Arrays. *)

\* how many leading pairs of in are before k
Before(in, k) == Cardinality({i \in DOMAIN in : \A j \in 1 .. i : in[j].key < k})

\* static insert
insert(in, kv) == InsertAt(in, Before(in, kv.key) + 1, kv)

Without(in, K) == SelectSeq(in, LAMBDA kv : kv.key \notin K)

SetValue(in, k, v) == [i \in DOMAIN in |-> IF in[i].key = k THEN KV(k, v) ELSE in[i]]

\* the search of the array: the first pair that is not before k decides
InArray(in, size, k) ==
  LET i == Before(SubSeq(in, 1, size), k) + 1
  IN IF i <= size /\ in[i].key = k THEN in[i].value ELSE 0

\* find: 0 when the leaf does not have k
find(l, k) ==
  CASE l.second.valid /\ l.second.key = k -> IF l.second.delete THEN 0 ELSE l.second.value
    [] ~ (l.second.valid /\ l.second.key = k) /\ l.log.valid /\ l.log.key = k ->
         IF l.log.delete THEN 0 ELSE l.log.value
    [] OTHER -> InArray(l.kvs, l.size, k)

is_appendable(l) == ~ l.log.valid \/ ~ l.second.valid

realSize(l) ==
  LET d(e) == IF ~ e.valid THEN 0 ELSE IF e.delete THEN -1 ELSE 1
  IN l.size + d(l.log) + d(l.second)

-----------------------------------------------------------------------------
(* The constructors that merge a log leaf whose two entries are valid. *)

insert_and_include_both_logs(in, kv, log, second) == insert(insert(insert(in, Pair(log)), Pair(second)), kv)

insert_and_exclude_both_logs(in, kv, log, second) == insert(Without(in, {log.key, second.key}), kv)

\* of an insert and a delete entry, the insert and the delete
TheInsert(l) == IF l.log.delete THEN l.second ELSE l.log
TheDelete(l) == IF l.log.delete THEN l.log ELSE l.second

\* both entries are about one key
AddSameKey(l, kv) ==
  IF ~ l.log.delete THEN insert(l.kvs, kv)
  ELSE SetValue(insert(l.kvs, kv), l.log.key, l.second.value)

AddBothDelete(l, kv) ==
  CASE l.log.key = kv.key -> SetValue(Without(l.kvs, {l.second.key}), kv.key, kv.value)
    [] l.second.key = kv.key -> SetValue(Without(l.kvs, {l.log.key}), kv.key, kv.value)
    [] OTHER -> insert_and_exclude_both_logs(l.kvs, kv, l.log, l.second)

\* mutant: the value of a deleted key that is inserted again is the old one
AddMixed_OldValue(l, kv) ==
  IF TheDelete(l).key = kv.key THEN insert(l.kvs, Pair(TheInsert(l)))
  ELSE insert(insert(Without(l.kvs, {TheDelete(l).key}), Pair(TheInsert(l))), kv)

AddMixed(l, kv) ==
  IF TheDelete(l).key = kv.key
  THEN SetValue(insert(l.kvs, Pair(TheInsert(l))), kv.key, kv.value)
  ELSE insert(insert(Without(l.kvs, {TheDelete(l).key}), Pair(TheInsert(l))), kv)

\* the log leaf that has kv besides what l has
CowAdd(l, kv) ==
  CASE l.log.key = l.second.key -> Leaf("LogLeaf", l.size + 1, AddSameKey(l, kv))
    [] l.log.key # l.second.key /\ ~ l.log.delete /\ ~ l.second.delete ->
         Leaf("LogLeaf", l.size + 3, insert_and_include_both_logs(l.kvs, kv, l.log, l.second))
    [] l.log.key # l.second.key /\ l.log.delete /\ l.second.delete ->
         Leaf("LogLeaf", l.size - 1, AddBothDelete(l, kv))
    [] l.log.key # l.second.key /\ l.log.delete # l.second.delete ->
         Leaf("LogLeaf", l.size + 1, AddMixed(l, kv))

RemoveSameKey(l, k) ==
  IF ~ l.log.delete \/ l.log.key = k THEN Without(l.kvs, {k})
  ELSE SetValue(Without(l.kvs, {k}), l.second.key, l.second.value)

RemoveBothInsert(l, k) ==
  CASE k = l.log.key -> insert(Without(l.kvs, {k}), Pair(l.second))
    [] k = l.second.key -> insert(Without(l.kvs, {k}), Pair(l.log))
    [] OTHER -> insert(insert(Without(l.kvs, {k}), Pair(l.log)), Pair(l.second))

RemoveBothDelete(l, k) == Without(l.kvs, {k, l.log.key, l.second.key})

RemoveMixed(l, k) ==
  IF k # l.log.key /\ k # l.second.key
  THEN insert(Without(l.kvs, {k, TheDelete(l).key}), Pair(TheInsert(l)))
  ELSE Without(l.kvs, {TheDelete(l).key})

\* mutant: the size of a merge with two delete entries counts the removed pair twice
CowRemoveSize_TwoDeletes(l) ==
  CASE l.log.key = l.second.key -> l.size - 1
    [] l.log.key # l.second.key /\ ~ l.log.delete /\ ~ l.second.delete -> l.size + 1
    [] l.log.key # l.second.key /\ l.log.delete /\ l.second.delete -> l.size - 2
    [] l.log.key # l.second.key /\ l.log.delete # l.second.delete -> l.size - 1

\* the sizes the log leaf constructor for a remove stores
CowRemoveSize(l) ==
  CASE l.log.key = l.second.key -> l.size - 1
    [] l.log.key # l.second.key /\ ~ l.log.delete /\ ~ l.second.delete -> l.size + 1
    [] l.log.key # l.second.key /\ l.log.delete /\ l.second.delete -> l.size - 3
    [] l.log.key # l.second.key /\ l.log.delete # l.second.delete -> l.size - 1

RemovedPairs(l, k) ==
  CASE l.log.key = l.second.key -> RemoveSameKey(l, k)
    [] l.log.key # l.second.key /\ ~ l.log.delete /\ ~ l.second.delete -> RemoveBothInsert(l, k)
    [] l.log.key # l.second.key /\ l.log.delete /\ l.second.delete -> RemoveBothDelete(l, k)
    [] l.log.key # l.second.key /\ l.log.delete # l.second.delete -> RemoveMixed(l, k)

\* the log leaf, and the small leaf, that have what l has except k; in the small leaf's
\* constructor the cases with a delete entry count the pairs they copy
CowRemove(l, k) == Leaf("LogLeaf", CowRemoveSize(l), RemovedPairs(l, k))

SmallRemove(l, k) ==
  Leaf("Leaf",
       CASE l.log.key = l.second.key -> l.size - 1
         [] l.log.key # l.second.key /\ ~ l.log.delete /\ ~ l.second.delete -> l.size + 1
         [] OTHER -> Len(RemovedPairs(l, k)),
       RemovedPairs(l, k))

\* the vector a split is cut from: the array, then each entry erased from it or pushed to its end
Erased(in, e) == IF e.delete THEN Without(in, {e.key}) ELSE Append(in, Pair(e))
Sorted(in) == SortSeq(in, LAMBDA a, b : a.key < b.key)
tmpVec(l) == Erased(Erased(l.kvs, l.log), l.second)

\* new_leaf: it does not compare the number of pairs with the room of the log leaf's array
new_leaf(kvs) == Leaf(IF Len(kvs) > MaxSmall THEN "LogLeaf" ELSE "Leaf", Len(kvs), kvs)

-----------------------------------------------------------------------------
Init == leaf = NoLeaf /\ dict = [k \in Keys |-> 0]

append(e) == IF leaf.log.valid THEN [leaf EXCEPT !.second = e] ELSE [leaf EXCEPT !.log = e]

Becomes(l, d) == leaf' = l /\ dict' = d

\* the leaf was given more pairs than it has room for: what memory holds then is not defined, and the
\* leaf is not followed further
Overrun == Len(leaf.kvs) > MaxBig

\* of the leaves a split makes, one for each run of pairs with the same byte, one is followed
FollowRun(kvs, d) ==
  \E start \in DOMAIN kvs : \E end \in start .. Len(kvs) :
    Becomes(new_leaf(SubSeq(kvs, start, end)),
            [q \in Keys |-> IF kvs[start].key <= q /\ q <= kvs[end].key THEN d[q] ELSE 0])

\* mutant: a leaf with as many pairs as the array has room for takes one more
FitsOneMore_OffByOne(l) == realSize(l) <= MaxBig

\* whether an insert merges the leaf into a new log leaf, or splits it
FitsOneMore(l) == realSize(l) < MaxBig

\* the split of a leaf that cannot be merged, with a new pair and without an old one
SplitWith(k, v) ==
  /\ ~ FitsOneMore(leaf)
  /\ FollowRun(Sorted(Append(tmpVec(leaf), KV(k, v))), [dict EXCEPT ![k] = v])

SplitWithout(k) ==
  /\ realSize(leaf) - 1 >= MaxBig
  /\ FollowRun(Sorted(Without(tmpVec(leaf), {k})), [dict EXCEPT ![k] = 0])

\* the critical section of try_insert
InsertKey(k, v) ==
  LET d == [dict EXCEPT ![k] = v] IN
  /\ ~ Overrun /\ find(leaf, k) = 0
  /\ CASE leaf.nt = "null" -> Becomes(Leaf("Leaf", 1, << KV(k, v) >>), d)
       [] leaf.nt = "Leaf" ->
            Becomes(Leaf(IF leaf.size < MaxSmall THEN "Leaf" ELSE "LogLeaf",
                         leaf.size + 1, insert(leaf.kvs, KV(k, v))), d)
       [] leaf.nt = "LogLeaf" /\ is_appendable(leaf) -> Becomes(append(Entry(k, v, FALSE)), d)
       [] leaf.nt = "LogLeaf" /\ ~ is_appendable(leaf) ->
            \/ FitsOneMore(leaf) /\ Becomes(CowAdd(leaf, KV(k, v)), d)
            \/ SplitWith(k, v)

\* the critical section of try_remove
RemoveKey(k) ==
  LET d == [dict EXCEPT ![k] = 0]
      newSize == realSize(leaf) - 1
  IN
  /\ ~ Overrun /\ find(leaf, k) # 0
  /\ CASE leaf.nt = "Leaf" ->
            Becomes(IF leaf.size = 1 THEN NoLeaf ELSE Leaf("Leaf", leaf.size - 1, Without(leaf.kvs, {k})), d)
       [] leaf.nt = "LogLeaf" /\ is_appendable(leaf) -> Becomes(append(Entry(k, 0, TRUE)), d)
       [] leaf.nt = "LogLeaf" /\ ~ is_appendable(leaf) ->
            CASE newSize = 0 -> Becomes(NoLeaf, d)
              [] newSize > 0 /\ newSize <= MaxSmall -> Becomes(SmallRemove(leaf, k), d)
              [] newSize > MaxSmall /\ newSize < MaxBig -> Becomes(CowRemove(leaf, k), d)
              [] newSize > MaxSmall /\ newSize >= MaxBig -> SplitWithout(k)

Next == \/ \E k \in Keys, v \in Values : InsertKey(k, v)
        \/ \E k \in Keys : RemoveKey(k)

Spec == Init /\ [][Next]_vars

-----------------------------------------------------------------------------
\* The leaf answers every find as the inserts and removes so far demand, value included, whichever
\* of the merging constructors it went through: no case drops, revives or mixes up a pair.
Faithful == \A k \in Keys : find(leaf, k) = dict[k]

\* After every constructor the array is sorted without duplicates, and the size in the header is
\* the number of pairs that were written, in a small leaf within its capacity. realSize, by which
\* the critical sections choose among the constructors, is the number of pairs the leaf holds.
ArrayExact ==
  /\ \A i \in 1 .. Len(leaf.kvs) - 1 : leaf.kvs[i].key < leaf.kvs[i + 1].key
  /\ leaf.size = Len(leaf.kvs)
  /\ leaf.nt = "Leaf" => leaf.size <= MaxSmall
  /\ realSize(leaf) = Cardinality({k \in Keys : dict[k] # 0})

\* No merge writes past the array of the new log leaf, although the two entries may have brought the
\* old leaf to more pairs than fit (asserted at art_double_log_leaves.h:2943 and 3437): only a split
\* can, when too many of the pairs have the same byte.
OnlySplitsOverrun == [][
  leaf'.size > MaxBig =>
    \/ \E k \in Keys, v \in Values : dict[k] = 0 /\ SplitWith(k, v)
    \/ \E k \in Keys : dict[k] # 0 /\ SplitWithout(k) ]_vars
=============================================================================
