----------------------------- MODULE MCArtTree -----------------------------
(* Small trees for ArtTree: keys are numbers whose bytes are their digits in base radix. *)
EXTENDS ArtTree

CONSTANTS t1, t2, t3

ins(k) == <<"insert", k>>
rem(k) == <<"remove", k>>
All(K) == {"insert", "remove", "find"} \X K

MCKeys == 0 .. 5
MCAbsent == {FALSE}

\* art.h: three bytes of five values, so 0 to 4 differ in their last byte and 5 in the one before
Plain(threads, first, calls, n) ==
  [key_len |-> 3, radix |-> 5, max_small |-> 1, max_big |-> 2, max_sparse |-> 3, max_indirect |-> 4,
   logs |-> 0, threads |-> threads, fill |-> first, calls |-> calls, ops |-> n]

\* art_double_log_leaves.h, with nodes that do not grow
Logged(key_len, radix, max_big, threads, first, calls, n) ==
  [key_len |-> key_len, radix |-> radix, max_small |-> 1, max_big |-> max_big, max_sparse |-> 6, max_indirect |-> 7,
   logs |-> 2, threads |-> threads, fill |-> first, calls |-> calls, ops |-> n]

sparse == << ins(0), ins(1), ins(2) >>
indirect == << ins(0), ins(1), ins(2), ins(3) >>
logged == << ins(0), ins(1), ins(2) >>                      \* a log leaf with one entry
merged == << ins(0), ins(1), ins(2), rem(2), ins(2) >>      \* one with three pairs and none

MCSetups == {
  Plain({t1}, << >>, All(MCKeys), 4),
  Plain({t1, t2}, sparse, All({3}) \cup {ins(5), rem(2)}, 2),
  Plain({t1, t2, t3}, sparse, {ins(3), rem(2), ins(5)}, 1),
  Plain({t1, t2}, indirect, {ins(4), rem(2), ins(5)}, 1),
  Logged(2, 6, 3, {t1}, logged, All(MCKeys), 3),
  Logged(2, 6, 3, {t1}, merged, All(MCKeys), 3),
  Logged(2, 6, 3, {t1, t2}, logged, All({2, 3}), 2) }

\* {0, 1} differ in the last byte, 3 and 4 in the one before
MCSplit == { Logged(3, 3, 2, {t1}, << ins(0), ins(1) >>, {"insert"} \X MCKeys, 3) }
=============================================================================
