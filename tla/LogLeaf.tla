------------------------------ MODULE LogLeaf ------------------------------
(***************************************************************************)
(* The log entries of a log leaf while readers run: append of              *)
(* art_double_log_leaves.h publishes an entry, flushes it, clears its      *)
(* unpersisted bit and stamps it; find and the range walk read the entries *)
(* without a lock, wait for the bit and help with the stamp.               *)
(*                                                                         *)
(* One child pointer is followed through the leaves it points to, in       *)
(* order. The updates of all writers are one sequence, because a writer    *)
(* holds the lock of the parent (SpinLock). Linking a leaf is one durable  *)
(* step and read_snapshot walks to older leaves by stamp (VersionedPtr);   *)
(* the clock is the write_hw clock (Timestamps). What is in a merged leaf  *)
(* is the subject of LogMerge.                                             *)
(***************************************************************************)
EXTENDS Integers, Sequences

CONSTANTS Readers, Keys,
          MaxUpdates,   \* bound: updates of the leaf
          MaxReads,     \* bound: finds and ranges of each reader
          MaxClock      \* bound: the clock ticks beyond it only for a waiting thread

ASSUME KeysAssumption == Keys # {}
ASSUME BoundsAssumption == MaxUpdates \in Nat /\ MaxReads \in Nat /\ MaxClock \in Nat

writer == "writer"
Threads == Readers \cup {writer}
tbd == 1000000      \* later than every stamp

VARIABLES leaves,   \* the leaves in the order they were linked: array, log, the update that made it
          upd,      \* the updates: key, delete, stamp, unpersisted bit
          durable,  \* how many of the updates have been flushed
          clock,
          pc,
          target,   \* the update whose stamp or bit a thread is looking at
          ts,       \* local of get_write_stamp
          local_stamp, at, slot, res, \* reader: snapshot, leaf, log entry (0: the leaf itself), pairs so far
          key,      \* the key of a find, NoKey in a range
          reads,
          cuts, seen \* results of the ranges; the latest update an operation has returned on

vars == <<leaves, upd, durable, clock, pc, target, ts, local_stamp, at, slot, res, key, reads, cuts, seen>>
locals == <<local_stamp, at, slot, res, key, reads>>
NoKey == "none"

Replay(S, i) == IF upd[i].delete THEN S \ {upd[i].key} ELSE S \cup {upd[i].key}

\* the first leaf was there from the start
StampOf(i) == IF i = 0 THEN 0 ELSE upd[i].stamp

Last == leaves[Len(leaves)]

Keep(l) ==
  CASE Len(l.log) = 0 -> l.kvs
    [] Len(l.log) = 1 -> Replay(l.kvs, l.log[1])
    [] OTHER -> Replay(Replay(l.kvs, l.log[1]), l.log[2])

Init ==
  /\ leaves = << [kvs |-> {}, log |-> << >>, made |-> 0] >>
  /\ upd = << >> /\ durable = 0 /\ clock = 1
  /\ pc = [t \in Threads |-> "idle"]
  /\ target = [t \in Threads |-> 0]
  /\ ts = [t \in Threads |-> 0]
  /\ local_stamp = [r \in Readers |-> 0]
  /\ at = [r \in Readers |-> 1]
  /\ slot = [r \in Readers |-> 0]
  /\ res = [r \in Readers |-> {}]
  /\ key = [r \in Readers |-> NoKey]
  /\ reads = [r \in Readers |-> 0]
  /\ cuts = {} /\ seen = 0

Goto(t, l) == pc' = [pc EXCEPT ![t] = l]
Later(i) == seen' = IF i > seen THEN i ELSE seen

-----------------------------------------------------------------------------
(* The writer, in its critical section. *)

NewUpdate(k, unp) ==
  Append(upd, [key |-> k, delete |-> k \in Keep(Last), stamp |-> tbd, unp |-> unp])

\* mutant: a third entry
Publish_Third(k) ==
  /\ pc[writer] = "idle" /\ Len(upd) < MaxUpdates
  /\ Len(Last.log) <= 2
  /\ upd' = NewUpdate(k, TRUE)
  /\ leaves' = [leaves EXCEPT ![Len(leaves)].log = Append(@, Len(upd) + 1)]
  /\ target' = [target EXCEPT ![writer] = Len(upd) + 1]
  /\ Goto(writer, "persist")
  /\ UNCHANGED <<durable, clock, ts, locals, cuts, seen>>

\* append: key and value, then meta with VALID and UNPERSISTED
Publish(k) ==
  /\ pc[writer] = "idle" /\ Len(upd) < MaxUpdates
  /\ Len(Last.log) < 2
  /\ upd' = NewUpdate(k, TRUE)
  /\ leaves' = [leaves EXCEPT ![Len(leaves)].log = Append(@, Len(upd) + 1)]
  /\ target' = [target EXCEPT ![writer] = Len(upd) + 1]
  /\ Goto(writer, "persist")
  /\ UNCHANGED <<durable, clock, ts, locals, cuts, seen>>

\* persist: flush the entry ...
Persist ==
  /\ pc[writer] = "persist"
  /\ durable' = Len(upd)
  /\ Goto(writer, "clear")
  /\ UNCHANGED <<leaves, upd, clock, target, ts, locals, cuts, seen>>

\* mutant: the bit stays
Clear_Skipped ==
  /\ pc[writer] = "clear"
  /\ Goto(writer, "stamp")
  /\ UNCHANGED <<leaves, upd, durable, clock, target, ts, locals, cuts, seen>>

\* ... and clear the bit
Clear ==
  /\ pc[writer] = "clear"
  /\ upd' = [upd EXCEPT ![Len(upd)].unp = FALSE]
  /\ Goto(writer, "stamp")
  /\ UNCHANGED <<leaves, durable, clock, target, ts, locals, cuts, seen>>

\* a full leaf is replaced by a merged one
Link(k) ==
  /\ pc[writer] = "idle" /\ Len(upd) < MaxUpdates
  /\ Len(Last.log) = 2
  /\ upd' = NewUpdate(k, FALSE)
  /\ durable' = Len(upd) + 1
  /\ leaves' = Append(leaves, [kvs |-> IF k \in Keep(Last) THEN Keep(Last) \ {k} ELSE Keep(Last) \cup {k},
                               log |-> << >>, made |-> Len(upd) + 1])
  /\ target' = [target EXCEPT ![writer] = Len(upd) + 1]
  /\ Goto(writer, "stamp")
  /\ UNCHANGED <<clock, ts, locals, cuts, seen>>

Return ==
  /\ pc[writer] = "stamped"
  /\ Later(Len(upd))
  /\ target' = [target EXCEPT ![writer] = 0]
  /\ Goto(writer, "idle")
  /\ UNCHANGED <<leaves, upd, durable, clock, ts, locals, cuts>>

-----------------------------------------------------------------------------
(* set_stamp, by the writer or a reader that helps. *)

SetStamp(t) ==
  /\ pc[t] = "stamp"
  /\ IF StampOf(target[t]) = tbd
     THEN ts' = [ts EXCEPT ![t] = clock] /\ Goto(t, "tick")
     ELSE Goto(t, "stamped") /\ UNCHANGED ts
  /\ UNCHANGED <<leaves, upd, durable, clock, target, locals, cuts, seen>>

\* mutant: the clock need not move
CasStamp_NoTick(t) ==
  /\ pc[t] = "tick"
  /\ upd' = [upd EXCEPT ![target[t]].stamp = IF @ = tbd THEN ts[t] + 1 ELSE @]
  /\ ts' = [ts EXCEPT ![t] = 0]
  /\ Goto(t, "stamped")
  /\ UNCHANGED <<leaves, durable, clock, target, locals, cuts, seen>>

\* get_write_stamp returns once the clock has moved; the CAS keeps the first stamp
CasStamp(t) ==
  /\ pc[t] = "tick" /\ clock # ts[t]
  /\ upd' = [upd EXCEPT ![target[t]].stamp = IF @ = tbd THEN ts[t] + 1 ELSE @]
  /\ ts' = [ts EXCEPT ![t] = 0]
  /\ Goto(t, "stamped")
  /\ UNCHANGED <<leaves, durable, clock, target, locals, cuts, seen>>

Tick ==
  /\ clock < MaxClock \/ \E t \in Threads : pc[t] = "tick" /\ ts[t] = clock
  /\ clock' = clock + 1
  /\ UNCHANGED <<leaves, upd, durable, pc, target, ts, locals, cuts, seen>>

-----------------------------------------------------------------------------
(* Readers. *)

Begin(r, k) ==
  /\ pc[r] = "idle" /\ reads[r] < MaxReads
  /\ reads' = [reads EXCEPT ![r] = @ + 1]
  /\ key' = [key EXCEPT ![r] = k]
  /\ local_stamp' = [local_stamp EXCEPT ![r] = IF k = NoKey THEN clock ELSE 0]
  /\ Goto(r, "head")
  /\ UNCHANGED <<leaves, upd, durable, clock, target, ts, at, slot, res, cuts, seen>>

\* find loads the leaf and starts with its second entry, read_snapshot stamps the leaf first
LoadHead(r) ==
  /\ pc[r] = "head"
  /\ at' = [at EXCEPT ![r] = Len(leaves)]
  /\ slot' = [slot EXCEPT ![r] = IF key[r] = NoKey THEN 0 ELSE 2]
  /\ target' = [target EXCEPT ![r] = Last.made]
  /\ Goto(r, IF key[r] = NoKey THEN "stamp" ELSE "entry")
  /\ UNCHANGED <<leaves, upd, durable, clock, ts, local_stamp, res, key, reads, cuts, seen>>

\* return S from a range; last is the latest update the result rests on
Finish(r, last, S) ==
  /\ cuts' = IF key[r] = NoKey THEN cuts \cup {<<local_stamp[r], S>>} ELSE cuts
  /\ Later(last)
  /\ res' = [res EXCEPT ![r] = {}]
  /\ key' = [key EXCEPT ![r] = NoKey]
  /\ target' = [target EXCEPT ![r] = 0]
  /\ local_stamp' = [local_stamp EXCEPT ![r] = 0]
  /\ at' = [at EXCEPT ![r] = 1]
  /\ slot' = [slot EXCEPT ![r] = 0]
  /\ Goto(r, "idle")

\* is_valid: an entry that is valid is waited for and stamped
EntryRead(r) ==
  LET l == leaves[at[r]] IN
  /\ pc[r] = "entry"
  /\ IF Len(l.log) >= slot[r]
     THEN /\ target' = [target EXCEPT ![r] = l.log[slot[r]]]
          /\ Goto(r, "wait")
          /\ UNCHANGED <<local_stamp, at, slot, res, key, cuts, seen>>
     ELSE IF key[r] # NoKey /\ slot[r] = 2
     THEN slot' = [slot EXCEPT ![r] = 1] /\ UNCHANGED <<pc, target, local_stamp, at, res, key, cuts, seen>>
     ELSE Finish(r, target[r], res[r])
  /\ UNCHANGED <<leaves, upd, durable, clock, ts, reads>>

\* mutant: no wait for the bit
Waited_Not(r) == pc[r] = "wait"

Waited(r) == pc[r] = "wait" /\ ~ upd[target[r]].unp

WaitForPersisted(r) ==
  /\ Waited(r)
  /\ Goto(r, "stamp")
  /\ UNCHANGED <<leaves, upd, durable, clock, target, ts, locals, cuts, seen>>

\* mutant: a version of the snapshot's own stamp is skipped
Visible_Strict(i, s) == StampOf(i) < s

\* ! global_stamp.less(localStamp, logStamp)
Visible(i, s) == StampOf(i) <= s

\* a range goes back to the leaf of its snapshot, then applies the entries its snapshot can see
RangeStep(r) ==
  LET i == target[r]
      visible == Visible(i, local_stamp[r])
  IN /\ pc[r] = "stamped" /\ key[r] = NoKey
     /\ CASE slot[r] = 0 /\ ~ visible ->
               /\ at' = [at EXCEPT ![r] = @ - 1]
               /\ target' = [target EXCEPT ![r] = leaves[at[r] - 1].made]
               /\ UNCHANGED <<pc, local_stamp, slot, res, key, cuts, seen>>
          [] slot[r] = 0 /\ visible ->
               /\ res' = [res EXCEPT ![r] = leaves[at[r]].kvs]
               /\ slot' = [slot EXCEPT ![r] = 1]
               /\ Goto(r, "entry") /\ UNCHANGED <<local_stamp, at, target, key, cuts, seen>>
          [] slot[r] = 1 /\ visible ->
               /\ res' = [res EXCEPT ![r] = Replay(@, i)]
               /\ slot' = [slot EXCEPT ![r] = 2]
               /\ Goto(r, "entry") /\ UNCHANGED <<local_stamp, at, target, key, cuts, seen>>
          [] slot[r] = 2 \/ (slot[r] = 1 /\ ~ visible) ->
               IF visible THEN Finish(r, i, Replay(res[r], i)) ELSE Finish(r, 0, res[r])
     /\ UNCHANGED <<leaves, upd, durable, clock, ts, reads>>

\* a find is done at the entry that has its key, or after the first entry with the array
FindStep(r) ==
  /\ pc[r] = "stamped" /\ key[r] # NoKey
  /\ IF upd[target[r]].key # key[r] /\ slot[r] = 2
     THEN /\ slot' = [slot EXCEPT ![r] = 1]
          /\ Goto(r, "entry") /\ UNCHANGED <<target, local_stamp, at, res, key, cuts, seen>>
     ELSE Finish(r, IF upd[target[r]].key = key[r] THEN target[r] ELSE leaves[at[r]].made, {})
  /\ UNCHANGED <<leaves, upd, durable, clock, ts, reads>>

-----------------------------------------------------------------------------
WriterStep == Persist \/ Clear \/ Return \/ SetStamp(writer) \/ CasStamp(writer)

ReaderStep(r) ==
  \/ LoadHead(r) \/ EntryRead(r) \/ WaitForPersisted(r)
  \/ SetStamp(r) \/ CasStamp(r) \/ RangeStep(r) \/ FindStep(r)

Next ==
  \/ \E k \in Keys : Publish(k) \/ Link(k)
  \/ WriterStep \/ Tick
  \/ \E r \in Readers : ReaderStep(r) \/ \E k \in Keys \cup {NoKey} : Begin(r, k)

Spec == Init /\ [][Next]_vars

\* a thread that has begun goes on, and time passes
FairSpec == Spec /\ WF_vars(WriterStep) /\ WF_vars(Tick) /\ \A r \in Readers : WF_vars(ReaderStep(r))

-----------------------------------------------------------------------------
\* every variable has its type
TypeOK ==
  /\ durable \in 0 .. Len(upd) /\ seen \in 0 .. Len(upd)
  /\ \A i \in DOMAIN upd : upd[i].key \in Keys /\ upd[i].stamp \in (0 .. clock + 1) \cup {tbd}
  /\ \A i \in DOMAIN leaves : Len(leaves[i].log) <= 2 /\ leaves[i].made \in 0 .. Len(upd)
  /\ \A t \in Threads : target[t] \in 0 .. Len(upd)
  /\ \A r \in Readers : at[r] \in DOMAIN leaves /\ res[r] \subseteq Keys

\* what the updates with a stamp up to s leave in the leaf
RECURSIVE AsOf(_, _)
AsOf(s, n) == IF n = 0 THEN {} ELSE IF upd[n].stamp <= s THEN Replay(AsOf(s, n - 1), n) ELSE AsOf(s, n - 1)

\* A range returns exactly the updates stamped up to its snapshot, those stamped later by somebody
\* else included, although entries appear, are stamped by several threads and are merged into a
\* new leaf while it reads.
SnapshotExact == \A c \in cuts : c[2] = AsOf(c[1], Len(upd))

\* Updates are stamped in the order they were made, whoever stamps them.
StampOrder == \A i, j \in DOMAIN upd : i < j /\ upd[j].stamp # tbd => upd[i].stamp < upd[j].stamp

\* No operation returns because of an entry that a crash could still take back.
DurableReads == seen <= durable

\* The wait for the unpersisted bit and for the clock ends: every find and every range returns.
ReadsEnd == \A r \in Readers : pc[r] # "idle" ~> pc[r] = "idle"
=============================================================================
