------------------------------ MODULE ABTree ------------------------------
(***************************************************************************)
(* The persistent (a,b)-tree of ds/24-abtree-pm-occ/optik_btree.h. Leaves  *)
(* are unsorted arrays that are read under a version number and written    *)
(* under a lock; internal nodes never change their keys, and one of their  *)
(* pointers changes only under their lock, first to a dirty pointer, which *)
(* readers wait out, and then to a flushed one. A full leaf is replaced by *)
(* a tag node with two leaves; cleanup then removes tag nodes (weight 0)   *)
(* and underfull nodes on the path of a key, top down.                     *)
(*                                                                         *)
(* What a lock protects (marked, and the arrays for a writer) does not     *)
(* change while it is held, so an action runs from one access of           *)
(* unprotected shared state to the next. The value of a key is named by    *)
(* the key. Nodes are not reused: that is the reclaimer's part (Debra).    *)
(* Flushes and fences have no effect on what other threads see.            *)
(***************************************************************************)
EXTENDS Integers, Sequences, FiniteSetsExt

CONSTANTS Threads, Keys,
          Setups      \* records: DEGREE, load (calls made first, by one thread), prog (the calls of each thread)

ASSUME SetupsAssumption == \A s \in Setups :
  /\ s.DEGREE \in Nat \ {0, 1, 2}
  /\ DOMAIN s.prog = Threads
ASSUME KeysAssumption == Keys \subseteq Nat \ {0}

VARIABLES setup,      \* the member of Setups that this behaviour uses
          nodes,      \* the nodes that were created, in this order
          pc, loc,    \* control, and SearchInfo and other local variables
          prog,       \* calls each thread has yet to make
          set, call   \* history: the set, and the calls as SetSpec sees them

vars == <<setup, nodes, pc, loc, prog, set, call>>

Abstract == INSTANCE SetSpec

DEGREE == setup.DEGREE
a == Max({DEGREE \div 4, 2})
b == DEGREE

Entry == 1

-----------------------------------------------------------------------------
(* Nodes. A leaf has DEGREE keys, 0 in an empty slot, and values in ptrs;  *)
(* dirty is the index of the dirty pointer, or 0.                          *)

Node(leaf, weight, size, keys, ptrs, searchKey) ==
  [leaf |-> leaf, weight |-> weight, size |-> size, keys |-> keys, ptrs |-> ptrs, searchKey |-> searchKey,
   dirty |-> 0, marked |-> FALSE, opLocked |-> FALSE, writeVersion |-> 0]

createInternalNode(weight, keys, ptrs, searchKey) == Node(FALSE, weight, Len(ptrs), keys, ptrs, searchKey)

createExternalNode(pairs, searchKey) ==
  LET slot(i, f) == IF i <= Len(pairs) THEN pairs[i][f] ELSE 0 IN
  Node(TRUE, TRUE, Len(pairs), [i \in 1..DEGREE |-> slot(i, "key")], [i \in 1..DEGREE |-> slot(i, "val")], searchKey)

\* the pairs of a leaf in the order of their slots, and in the order of their keys
Slots(n) == {i \in 1..DEGREE : n.keys[i] # 0}
Pair(k, v) == [key |-> k, val |-> v]
Content(n) == {Pair(n.keys[i], n.ptrs[i]) : i \in Slots(n)}
Sorted(S) == [i \in 1..Cardinality(S) |-> CHOOSE x \in S : Cardinality({y \in S : y.key < x.key}) = i - 1]
Unsorted(n) ==
  [j \in 1..Cardinality(Slots(n)) |->
     LET i == CHOOSE s \in Slots(n) : Cardinality({r \in Slots(n) : r < s}) = j - 1 IN Pair(n.keys[i], n.ptrs[i])]

getChildIndex(n, key) ==
  LET larger == {i \in DOMAIN n.keys : key < n.keys[i]} IN
  IF larger = {} THEN n.size ELSE Min(larger)

NoLocals ==
  [node |-> Entry, parent |-> 0, gParent |-> 0, nodeIndex |-> 0, parentIndex |-> 0, sibling |-> 0,
   version |-> 0, i |-> 0, val |-> 0, todo |-> << >>, fix |-> "none", held |-> {}, old |-> {}, key |-> 0, res |-> FALSE]

Init ==
  /\ setup \in Setups
  /\ nodes = << createInternalNode(TRUE, << >>, << 2 >>, 1), createExternalNode(<< >>, 1) >>
  /\ pc = [t \in Threads |-> "idle"]
  /\ loc = [t \in Threads |-> NoLocals]
  /\ prog = [t \in Threads |-> IF t = 1 THEN setup.load \o setup.prog[t] ELSE setup.prog[t]]
  /\ Abstract!Init

Goto(t, l) == pc' = [pc EXCEPT ![t] = l]
Key(t) == call[t].key
Op(t) == call[t].op
node(t) == nodes[loc[t].node]
history == <<prog, set, call>>

\* start again at the entry
Restart(t) == [NoLocals EXCEPT !.key = loc[t].key, !.res = loc[t].res]

\* The call of t takes effect: every running call on its key may notice.
Effect(t) ==
  /\ set' = IF Op(t) = "insert" THEN set \cup {Key(t)} ELSE set \ {Key(t)}
  /\ call' = [u \in Threads |->
       IF Op(u) # "none" /\ Key(u) = Key(t) THEN [call[u] EXCEPT !.may = BOOLEAN, !.done = @ \/ u = t] ELSE call[u]]

-----------------------------------------------------------------------------
(* Calls and searches. *)

\* The calls of the load come first, as in the prefill phase of the benchmark.
Start(t) ==
  /\ pc[t] = "idle" /\ prog[t] # << >>
  /\ t # 1 => Len(prog[1]) <= Len(setup.prog[1])
  /\ LET c == Head(prog[t]) IN
     call' = [call EXCEPT ![t] = [op |-> c[1], key |-> c[2], may |-> {c[2] \in set}, done |-> FALSE, ret |-> FALSE]]
  /\ loc' = [loc EXCEPT ![t].key = Head(prog[t])[2]]
  /\ Goto(t, "search")
  /\ UNCHANGED <<nodes, prog, set>>

Return(t) ==
  /\ pc[t] = "return"
  /\ call' = [call EXCEPT ![t] = [@ EXCEPT !.op = "none", !.may = {}, !.done = FALSE, !.ret = loc[t].res]]
  /\ prog' = [prog EXCEPT ![t] = Tail(@)]
  /\ loc' = [loc EXCEPT ![t] = NoLocals]
  /\ Goto(t, "idle")
  /\ UNCHANGED <<nodes, set>>

\* one step down, in search, searchBasic and cleanup: readUntilFlushed of the pointer to the child
Descend(t) ==
  LET l == loc[t]
      i == getChildIndex(node(t), l.key)
  IN
  /\ pc[t] \in {"search", "cleanup"}
  /\ node(t).dirty # i
  /\ loc' = [loc EXCEPT ![t] = [l EXCEPT !.gParent = l.parent, !.parent = l.node, !.parentIndex = l.nodeIndex,
                                         !.nodeIndex = i, !.node = node(t).ptrs[i]]]
  /\ Goto(t, CASE pc[t] = "cleanup" -> "inspect"
               [] nodes[node(t).ptrs[i]].leaf -> "version"
               [] OTHER -> "search")
  /\ UNCHANGED <<nodes, history>>

\* getKeyIndexValueVersion: version, keys, value, version
ReadVersion(t) ==
  /\ pc[t] = "version"
  /\ node(t).writeVersion % 2 = 0
  /\ loc' = [loc EXCEPT ![t].version = node(t).writeVersion, ![t].i = 1, ![t].val = 0]
  /\ Goto(t, "keys")
  /\ UNCHANGED <<nodes, history>>

ReadKey(t) ==
  LET found == node(t).keys[loc[t].i] = Key(t) IN
  /\ pc[t] = "keys"
  /\ loc' = [loc EXCEPT ![t].i = IF found THEN @ ELSE @ + 1]
  /\ Goto(t, IF found THEN "value" ELSE IF loc[t].i = DEGREE THEN "check" ELSE "keys")
  /\ UNCHANGED <<nodes, history>>

ReadValue(t) ==
  /\ pc[t] = "value"
  /\ loc' = [loc EXCEPT ![t].val = node(t).ptrs[loc[t].i]]
  /\ Goto(t, "check")
  /\ UNCHANGED <<nodes, history>>

\* what a call that found v returns: a value that is not the key's own would be neither TRUE nor FALSE
Found(t, v) == IF v = Key(t) THEN TRUE ELSE v

\* mutant: the second read of the version is left out
CheckVersion_Skip(t) ==
  LET found == loc[t].val # 0 IN
  /\ pc[t] = "check"
  /\ \/ /\ Op(t) = "find" \/ found = (Op(t) = "insert")
        /\ loc' = [loc EXCEPT ![t].res = IF Op(t) = "find" /\ found THEN Found(t, loc[t].val) ELSE FALSE]
        /\ Goto(t, "return")
     \/ /\ Op(t) # "find" /\ found = (Op(t) = "remove")
        /\ loc' = [loc EXCEPT ![t].todo = << loc[t].node >>, ![t].fix = Op(t)]
        /\ Goto(t, "acquire")
  /\ UNCHANGED <<nodes, history>>

\* the second read of the version; then find returns, tryInsert returns a key that is there and tryErase
\* one that is not, and otherwise insert and erase lock the leaf
CheckVersion(t) ==
  LET found == loc[t].val # 0 IN
  /\ pc[t] = "check"
  /\ \/ /\ node(t).writeVersion # loc[t].version
        /\ Goto(t, "version") /\ UNCHANGED loc
     \/ /\ node(t).writeVersion = loc[t].version
        /\ Op(t) = "find" \/ found = (Op(t) = "insert")
        /\ loc' = [loc EXCEPT ![t].res = IF Op(t) = "find" /\ found THEN Found(t, loc[t].val) ELSE FALSE]
        /\ Goto(t, "return")
     \/ /\ node(t).writeVersion = loc[t].version
        /\ Op(t) # "find" /\ found = (Op(t) = "remove")
        /\ loc' = [loc EXCEPT ![t].todo = << loc[t].node >>, ![t].fix = Op(t)]
        /\ Goto(t, "acquire")
  /\ UNCHANGED <<nodes, history>>

-----------------------------------------------------------------------------
(* Locks. A thread acquires those in todo one after the other; fix says    *)
(* what it does with them, and where it goes when it releases them.        *)

\* Acquire a lock and repeat the checks that were made without it. In fixUnderfullViolation those of the
\* node and its sibling come after both locks.
Acquire(t) ==
  LET l == loc[t]
      n == Head(l.todo)
      pair == {l.node, l.sibling}
      refused == IF l.fix = "underfull" /\ n \in pair
                 THEN pair \subseteq l.held \cup {n} /\ (node(t).size >= a \/ \E m \in pair : nodes[m].marked)
                 ELSE nodes[n].marked
  IN
  /\ pc[t] = "acquire" /\ ~ nodes[n].opLocked
  /\ nodes' = [nodes EXCEPT ![n].opLocked = TRUE]
  /\ loc' = [loc EXCEPT ![t].held = @ \cup {n}, ![t].todo = Tail(@),
                        ![t].fix = IF ~ refused THEN @ ELSE IF @ \in {"tag", "underfull"} THEN "cleanup" ELSE "search"]
  /\ Goto(t, IF refused THEN "release" ELSE IF Len(l.todo) = 1 THEN l.fix ELSE "acquire")
  /\ UNCHANGED history

\* mutant: the sibling is not marked
Release_Unmarked(t) ==
  LET l == loc[t] IN
  /\ pc[t] = "release"
  /\ nodes' = [n \in DOMAIN nodes |->
       [nodes[n] EXCEPT !.opLocked = @ /\ n \notin l.held, !.marked = @ \/ n \in l.old \ {l.sibling}]]
  /\ loc' = [loc EXCEPT ![t] = Restart(t)]
  /\ Goto(t, l.fix)
  /\ UNCHANGED history

\* mark the nodes that were replaced and release the locks
Release(t) ==
  LET l == loc[t] IN
  /\ pc[t] = "release"
  /\ nodes' = [n \in DOMAIN nodes |->
       [nodes[n] EXCEPT !.opLocked = @ /\ n \notin l.held, !.marked = @ \/ n \in l.old]]
  /\ loc' = [loc EXCEPT ![t] = Restart(t)]
  /\ Goto(t, l.fix)
  /\ UNCHANGED history

\* The last of the new nodes takes the place of what p points to at i, behind a dirty pointer.
Replace(t, p, i, new, old, key) ==
  /\ nodes' = [nodes EXCEPT ![p].ptrs[i] = Len(nodes) + Len(new), ![p].dirty = i] \o new
  /\ loc' = [loc EXCEPT ![t].old = old, ![t].key = key]
  /\ Goto(t, "flush")
  /\ UNCHANGED history

\* flushPtr: the new nodes become visible; an insert that split its leaf takes effect
Flush(t) ==
  LET l == loc[t] IN
  /\ pc[t] = "flush"
  /\ nodes' = [nodes EXCEPT ![IF l.fix = "overflow" THEN l.parent ELSE l.gParent].dirty = 0]
  /\ loc' = [loc EXCEPT ![t].fix = "cleanup", ![t].res = IF l.fix = "overflow" THEN TRUE ELSE @]
  /\ Goto(t, "release")
  /\ IF l.fix = "overflow" THEN Effect(t) ELSE UNCHANGED <<set, call>>
  /\ UNCHANGED prog

-----------------------------------------------------------------------------
(* insert and erase, with the leaf locked and not marked. *)

\* the first store: the version becomes odd
Begin(t, i) ==
  /\ nodes' = [nodes EXCEPT ![loc[t].node].writeVersion = @ + 1]
  /\ loc' = [loc EXCEPT ![t].i = i]

\* give up with the answer FALSE
Fail(t) ==
  /\ loc' = [loc EXCEPT ![t].res = FALSE, ![t].fix = "return"]
  /\ Goto(t, "release")
  /\ UNCHANGED nodes

insert(t) ==
  LET n == node(t) IN
  /\ pc[t] = "insert"
  /\ \/ \E i \in Slots(n) : n.keys[i] = Key(t) /\ Fail(t)
     \/ /\ \A i \in Slots(n) : n.keys[i] # Key(t)
        /\ n.size < b
        /\ Begin(t, Min(1..DEGREE \ Slots(n)))
        /\ Goto(t, "store value")
     \/ /\ \A i \in Slots(n) : n.keys[i] # Key(t)
        /\ n.size >= b
        /\ loc' = [loc EXCEPT ![t].fix = "overflow", ![t].todo = << loc[t].parent >>]
        /\ Goto(t, "acquire") /\ UNCHANGED nodes
  /\ UNCHANGED history

erase(t) ==
  LET n == node(t) IN
  /\ pc[t] = "remove"
  /\ \/ \E i \in Slots(n) : n.keys[i] = Key(t) /\ Begin(t, i) /\ Goto(t, "store key")
     \/ (\A i \in Slots(n) : n.keys[i] # Key(t)) /\ Fail(t)
  /\ UNCHANGED history

StoreValue(t) ==
  /\ pc[t] = "store value"
  /\ nodes' = [nodes EXCEPT ![loc[t].node].ptrs[loc[t].i] = Key(t)]
  /\ Goto(t, "store key")
  /\ UNCHANGED <<loc, history>>

StoreKey(t) ==
  LET inserts == Op(t) = "insert" IN
  /\ pc[t] = "store key"
  /\ nodes' = [nodes EXCEPT ![loc[t].node].keys[loc[t].i] = IF inserts THEN Key(t) ELSE 0,
                            ![loc[t].node].size = IF inserts THEN @ + 1 ELSE @ - 1]
  /\ Goto(t, "end")
  /\ UNCHANGED <<loc, history>>

\* mutant: erase never cleans up
End_NoCleanup(t) ==
  LET n == node(t) IN
  /\ pc[t] = "end"
  /\ nodes' = [nodes EXCEPT ![loc[t].node].writeVersion = @ + 1]
  /\ loc' = [loc EXCEPT ![t].res = Found(t, n.ptrs[loc[t].i]), ![t].fix = "return"]
  /\ Effect(t)
  /\ Goto(t, "release")
  /\ UNCHANGED prog

\* the version becomes even; an erase that made the leaf underfull cleans up on the path of its searchKey
End(t) ==
  LET n == node(t)
      underfull == Op(t) = "remove" /\ n.size = a - 1
  IN
  /\ pc[t] = "end"
  /\ nodes' = [nodes EXCEPT ![loc[t].node].writeVersion = @ + 1]
  /\ loc' = [loc EXCEPT ![t].res = Found(t, n.ptrs[loc[t].i]),
                        ![t].fix = IF underfull THEN "cleanup" ELSE "return",
                        ![t].key = IF underfull THEN n.searchKey ELSE @]
  /\ Effect(t)
  /\ Goto(t, "release")
  /\ UNCHANGED prog

\* insert into a full leaf: two leaves under a node of weight 0, or under a new root
overflow(t) ==
  LET l == loc[t]
      pairs == Sorted(Content(node(t)) \cup {Pair(Key(t), Key(t))})
      leftSize == Len(pairs) \div 2
      middle == pairs[leftSize + 1].key
      left == createExternalNode(SubSeq(pairs, 1, leftSize), pairs[1].key)
      right == createExternalNode(SubSeq(pairs, leftSize + 1, DEGREE + 1), middle)
      top == createInternalNode(l.parent = Entry, << middle >>, << Len(nodes) + 1, Len(nodes) + 2 >>, middle)
  IN
  /\ pc[t] = "overflow"
  /\ Replace(t, l.parent, l.nodeIndex, << left, right, top >>, {l.node}, middle)

-----------------------------------------------------------------------------
(* cleanup: the first violation on the path of a key is fixed, and the     *)
(* descent starts again.                                                   *)

\* no violation here: go on to the child, or return from the call
Pass(t) == Goto(t, IF node(t).leaf THEN "return" ELSE "cleanup") /\ UNCHANGED loc

\* what cleanup reads of the node: its weight and size
Inspect(t) ==
  LET l == loc[t] IN
  /\ pc[t] = "inspect"
  /\ \/ /\ ~ node(t).weight
        /\ loc' = [loc EXCEPT ![t].fix = "tag", ![t].todo = << l.node, l.parent, l.gParent >>]
        /\ Goto(t, "acquire")
     \/ node(t).weight /\ node(t).size >= a /\ Pass(t)
     \/ node(t).weight /\ node(t).size < a /\ Goto(t, "root") /\ UNCHANGED loc
  /\ UNCHANGED <<nodes, history>>

\* the root may be underfull; the pointer to it is read again
CompareRoot(t) ==
  LET isRoot == nodes[Entry].dirty = 0 /\ nodes[Entry].ptrs[1] = loc[t].node IN
  /\ pc[t] = "root"
  /\ \/ isRoot /\ Pass(t)
     \/ ~ isRoot /\ Goto(t, "sibling") /\ UNCHANGED loc
  /\ UNCHANGED <<nodes, history>>

siblingIndex(l) == IF l.nodeIndex > 1 THEN l.nodeIndex - 1 ELSE 2

\* fixUnderfullViolation reads the sibling without a lock; the left one of the two is locked first. A thread
\* is lost when the sibling is behind a dirty pointer, or when the node was the root and has no grandparent.
ReadSibling(t) ==
  LET l == loc[t]
      i == siblingIndex(l)
      s == nodes[l.parent].ptrs[i]
      lost == l.gParent = 0 \/ nodes[l.parent].dirty = i
  IN
  /\ pc[t] = "sibling"
  /\ loc' = [loc EXCEPT ![t] =
       IF lost THEN NoLocals
       ELSE [l EXCEPT !.sibling = s, !.fix = "underfull",
                      !.todo = (IF i < l.nodeIndex THEN << s, l.node >> ELSE << l.node, s >>) \o << l.parent, l.gParent >>]]
  /\ Goto(t, IF lost THEN "lost" ELSE "acquire")
  /\ UNCHANGED <<nodes, history>>

\* s with the elements from i to j replaced by those of m
Splice(s, i, j, m) == SubSeq(s, 1, i - 1) \o m \o SubSeq(s, j + 1, Len(s))

\* fixTagViolation: the children of the tag node go into a copy of its parent, or into two halves of it
fixTagViolation(t) ==
  LET l == loc[t]
      parent == nodes[l.parent]
      ptrs == Splice(parent.ptrs, l.nodeIndex, l.nodeIndex, node(t).ptrs)
      keys == Splice(parent.keys, l.nodeIndex, l.nodeIndex - 1, node(t).keys)
      size == Len(ptrs)
      absorber == createInternalNode(TRUE, keys, ptrs, keys[1])
      leftSize == size \div 2
      left == createInternalNode(TRUE, SubSeq(keys, 1, leftSize - 1), SubSeq(ptrs, 1, leftSize), keys[1])
      right == createInternalNode(TRUE, SubSeq(keys, leftSize + 1, size - 1), SubSeq(ptrs, leftSize + 1, size), keys[leftSize + 1])
      top == createInternalNode(l.gParent = Entry, << keys[leftSize] >>, << Len(nodes) + 1, Len(nodes) + 2 >>, keys[leftSize])
  IN
  /\ pc[t] = "tag"
  /\ Replace(t, l.gParent, l.parentIndex, IF size <= b THEN << absorber >> ELSE << left, right, top >>,
             {l.node, l.parent}, l.key)

\* AbsorbSibling: one node for the two, in a copy of the parent or as the new root
AbsorbSibling(t, L, R) ==
  LET l == loc[t]
      parent == nodes[l.parent]
      left == nodes[IF L = l.nodeIndex THEN l.node ELSE l.sibling]
      right == nodes[IF R = l.nodeIndex THEN l.node ELSE l.sibling]
      newNode == IF left.leaf THEN createExternalNode(Unsorted(left) \o Unsorted(right), node(t).searchKey)
                 ELSE createInternalNode(TRUE, left.keys \o << parent.keys[L] >> \o right.keys, left.ptrs \o right.ptrs, node(t).searchKey)
      newParent == createInternalNode(TRUE, Splice(parent.keys, L, L, << >>),
                                      Splice(parent.ptrs, L, R, << Len(nodes) + 1 >>), parent.searchKey)
      root == l.gParent = Entry /\ parent.size = 2
  IN
  Replace(t, l.gParent, l.parentIndex, IF root THEN << newNode >> ELSE << newNode, newParent >>,
          {l.node, l.parent, l.sibling}, l.key)

\* Distribute: two nodes of the same size, up to one, in a copy of the parent
Distribute(t, L, R) ==
  LET l == loc[t]
      parent == nodes[l.parent]
      left == nodes[IF L = l.nodeIndex THEN l.node ELSE l.sibling]
      right == nodes[IF R = l.nodeIndex THEN l.node ELSE l.sibling]
      size == left.size + right.size
      leftSize == size \div 2
      pairs == Sorted(Content(left) \cup Content(right))
      keys == left.keys \o << parent.keys[L] >> \o right.keys
      ptrs == left.ptrs \o right.ptrs
      External(from, to) == createExternalNode(SubSeq(pairs, from, to), pairs[from].key)
      Internal(from, to) == createInternalNode(TRUE, SubSeq(keys, from, to - 1), SubSeq(ptrs, from, to), keys[from])
      Half(from, to) == IF left.leaf THEN External(from, to) ELSE Internal(from, to)
      pivot == IF left.leaf THEN pairs[leftSize + 1].key ELSE keys[leftSize]
      newParent == createInternalNode(parent.weight, [parent.keys EXCEPT ![L] = pivot],
                                      [parent.ptrs EXCEPT ![L] = Len(nodes) + 1, ![R] = Len(nodes) + 2], parent.searchKey)
  IN
  Replace(t, l.gParent, l.parentIndex, << Half(1, leftSize), Half(leftSize + 1, size), newParent >>,
          {l.node, l.parent, l.sibling}, l.key)

\* fixUnderfullViolation, with all locks; a sibling that is a tag node has to be fixed first
fixUnderfullViolation(t) ==
  LET l == loc[t]
      L == Min({l.nodeIndex, siblingIndex(l)})
      R == Max({l.nodeIndex, siblingIndex(l)})
      size == node(t).size + nodes[l.sibling].size
  IN
  /\ pc[t] = "underfull"
  /\ \/ /\ ~ nodes[l.sibling].weight
        /\ loc' = [loc EXCEPT ![t].fix = "cleanup"]
        /\ Goto(t, "release")
        /\ UNCHANGED <<nodes, history>>
     \/ nodes[l.sibling].weight /\ size < 2 * a /\ AbsorbSibling(t, L, R)
     \/ nodes[l.sibling].weight /\ size >= 2 * a /\ Distribute(t, L, R)

-----------------------------------------------------------------------------
Step(t) ==
  \/ Start(t) \/ Return(t) \/ Descend(t)
  \/ ReadVersion(t) \/ ReadKey(t) \/ ReadValue(t) \/ CheckVersion(t)
  \/ Acquire(t) \/ Release(t) \/ Flush(t)
  \/ insert(t) \/ erase(t) \/ StoreValue(t) \/ StoreKey(t) \/ End(t) \/ overflow(t)
  \/ Inspect(t) \/ CompareRoot(t) \/ ReadSibling(t) \/ fixTagViolation(t) \/ fixUnderfullViolation(t)

\* every call has returned, except those of threads that are lost
Done == \A t \in Threads : pc[t] = "lost" \/ (pc[t] = "idle" /\ prog[t] = << >>)

Next ==
  /\ UNCHANGED setup
  /\ \/ \E t \in Threads : Step(t)
     \/ Done /\ UNCHANGED <<nodes, pc, loc, history>>

Spec == Init /\ [][Next]_vars

-----------------------------------------------------------------------------
Children(S) == UNION {{nodes[n].ptrs[i] : i \in DOMAIN nodes[n].ptrs} : n \in {m \in S : ~ nodes[m].leaf}}

\* the nodes at a distance from the entry
Level(d) == LET level[e \in 0..d] == IF e = 0 THEN {Entry} ELSE Children(level[e - 1]) IN level[d]

Height == CHOOSE d \in 1..Len(nodes) : Level(d) # {} /\ Level(d + 1) = {}

Reachable == UNION {Level(d) : d \in 0..Height}

\* where a search for a key ends
LeafOf(k) ==
  LET at[d \in 0..Height] ==
        IF d = 0 THEN Entry
        ELSE LET n == nodes[at[d - 1]] IN IF n.leaf THEN at[d - 1] ELSE n.ptrs[getChildIndex(n, k)]
  IN at[Height]

\* "When a pointer switches away from a node, the node is marked" (optik_btree.h:807-809), before anybody else
\* can lock it, and only then; so a thread that has locked unmarked nodes finds them where it read them, and
\* what it replaces is theirs ("is guaranteed to contain node", 582-584).
SwitchedAway ==
  /\ LET live == Reachable IN
     \A n \in DOMAIN nodes : ~ nodes[n].opLocked => (nodes[n].marked <=> n \notin live)
  /\ \A t \in Threads :
       LET l == loc[t] IN
       /\ pc[t] \in {"overflow", "tag", "underfull"} => nodes[l.parent].ptrs[l.nodeIndex] = l.node
       /\ pc[t] \in {"tag", "underfull"} => nodes[l.gParent].ptrs[l.parentIndex] = l.parent
       /\ pc[t] = "underfull" => nodes[l.parent].ptrs[siblingIndex(l)] = l.sibling

\* Between calls the tree is an (a,b)-tree with the keys of the set: no tag nodes and no duplicate keys, as
\* validateSubtree demands, every key where a search looks for it, no underfull node but the root, and all
\* leaves on one level.
Validated ==
  (\A t \in Threads : pc[t] = "idle") =>
    LET leaves == Level(Height) IN
    /\ \A n \in Reachable : nodes[n].weight /\ (nodes[n].leaf <=> n \in leaves)
    /\ \A n \in Reachable \ {Entry, nodes[Entry].ptrs[1]} : nodes[n].size \in a..b
    /\ \A n \in leaves : nodes[n].size = Cardinality(Slots(nodes[n]))
    /\ \A n \in leaves : \A i, j \in Slots(nodes[n]) : i # j => nodes[n].keys[i] # nodes[n].keys[j]
    /\ \A n \in leaves : \A i \in Slots(nodes[n]) : LeafOf(nodes[n].keys[i]) = n
    /\ set = UNION {{nodes[n].keys[i] : i \in Slots(nodes[n])} : n \in leaves}

\* Linearizability: find, tryInsert and tryErase are those of a set, although leaves are read without locks
\* and replaced while they are read.
Linearizable == Abstract!Spec
=============================================================================
