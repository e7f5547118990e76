----------------------------- MODULE MCLogLeaf -----------------------------
(* One leaf, its writer and a reader that makes two calls.                  *)
EXTENDS LogLeaf

CONSTANTS k1, k2, r1

MCKeys == {k1, k2}
MCReaders == {r1}
=============================================================================
