------------------------------ MODULE MCDebra ------------------------------
\* Objects are interchangeable; the threads are numbers and are not.
EXTENDS Debra, TLC

Symmetry == Permutations(Objects)

Sizes(block, ops_) == [BLOCK_SIZE |-> block, MIN_OPS_BEFORE_READ |-> ops_]
MCSetups == {Sizes(1, 1), Sizes(2, 1), Sizes(1, 2)}
MCRapid == {Sizes(1, 1)}
=============================================================================
