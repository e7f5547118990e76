----------------------------- MODULE MCPathCas -----------------------------
\* Programs for TLC. The words are version numbers that grow.
EXTENDS PathCas

Operation(name, words, n, step) == [op |-> name, reads |-> words, writes |-> n, by |-> step]
exec(words) == Operation("execute", words, Len(words), 2)
path(words, n) == Operation("validateAndExecute", words, n, 2)
removal(words, n) == Operation("validateAndExecute", words, n, 1)
check(words) == Operation("validate", words, 0, 0)

Versions(p1, p2, p3) == [prog |-> <<p1, p2, p3>>]

MCSetups == {
  \* updates of the same words, added in opposite orders, and a descriptor used again
  Versions(<<exec(<<1, 2>>)>>, <<exec(<<2, 1>>), exec(<<1>>)>>, <<>>),
  \* each writes what the other relies on
  Versions(<<path(<<2, 1>>, 1)>>, <<path(<<1, 2>>, 1)>>, <<check(<<1, 2>>)>>),
  \* the same in a circle of three
  Versions(<<path(<<1, 2>>, 1)>>, <<path(<<2, 3>>, 1)>>, <<path(<<3, 1>>, 1)>>),
  \* the first relies on what the second writes, the second on what the third writes
  Versions(<<path(<<1, 2>>, 1)>>, <<path(<<2, 3>>, 1)>>, <<exec(<<3>>)>>),
  \* a removal marks a word that the others have visited
  Versions(<<removal(<<1, 2>>, 2)>>, <<path(<<2, 1>>, 1), check(<<1, 2>>)>>, <<>>),
  \* three threads help one another
  Versions(<<exec(<<1, 2>>)>>, <<exec(<<2>>)>>, <<exec(<<1>>)>>)
}
=============================================================================
