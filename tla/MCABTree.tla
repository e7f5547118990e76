----------------------------- MODULE MCABTree -----------------------------
\* Trees and calls for TLC.
EXTENDS ABTree

ins(k) == << "insert", k >>
del(k) == << "remove", k >>
get(k) == << "find", k >>
Insert(ks) == [i \in DOMAIN ks |-> ins(ks[i])]

Tree(degree, load, p1, p2, p3) == [DEGREE |-> degree, load |-> load, prog |-> << p1, p2, p3 >>]

Up(n) == [k \in 1..n |-> ins(k)]

MCSetups == {
  \* a full root leaf is split while others insert into it, remove from it and search it
  Tree(4, Up(4), << ins(5) >>, << ins(6) >>, << del(1), get(5) >>),
  \* insert and remove of one key, with slots that are used again
  Tree(3, Up(2), << del(1), ins(3) >>, << ins(1) >>, << get(1) >>),
  \* two threads with the same calls
  Tree(3, Up(2), << ins(3), del(1) >>, << ins(3), del(1) >>, << get(1) >>),
  \* a root leaf that is underfull when it is read, and split when it is compared with the root
  Tree(3, Up(2), << del(1) >>, << ins(3), ins(4), ins(5) >>, << get(2) >>),
  \* two leaves become one and the root goes
  Tree(3, Up(4), << del(1) >>, << del(3), ins(3) >>, << get(4) >>),
  \* three leaves, all underfull
  Tree(3, Up(6), << del(1) >>, << del(3) >>, << del(5) >>),
  \* two leaves are filled up from each other while both change
  Tree(3, Up(5), << del(1) >>, << del(4) >>, << ins(6), get(3) >>),
  \* a full node is split below the entry while a sibling of the tag node is underfull
  Tree(3, Insert(<< 1, 3, 5, 7, 9, 2, 4 >>), << ins(6) >>, << del(3) >>, << get(5) >>),
  \* two tag nodes below one parent
  Tree(3, Insert(<< 1, 3, 5, 7, 9, 4 >>), << ins(6) >>, << ins(2) >>, << get(7) >>),
  \* internal nodes become one, and the tree loses a level
  Tree(3, Up(8), << del(1) >>, << del(7) >>, << get(4) >>),
  \* internal nodes are filled up from each other
  Tree(3, Up(10), << del(1) >>, << ins(11) >>, << get(6) >>),
  \* splits and merges of neighbours, twice
  Tree(4, Up(7), << ins(8), ins(9) >>, << del(1), del(3) >>, << get(5) >>)
}
=============================================================================
