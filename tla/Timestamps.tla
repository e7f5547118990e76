----------------------------- MODULE Timestamps -----------------------------
(***************************************************************************)
(* The global clocks of common/artifact_verlib/timestamps.h.  A version is  *)
(* stamped with get_write_stamp after it has been installed; a snapshot     *)
(* reads, for the stamp get_read_stamp gave it, the newest version that is  *)
(* not later.  What that needs of a clock is stated below over the calls:   *)
(* the order in which they return and begin, against the stamps.            *)
(*                                                                          *)
(* Every load, fetch_add and CAS is a step of its own.  The hardware clock  *)
(* is one counter all cores agree on.  The delay loops only pass time.      *)
(***************************************************************************)
EXTENDS Integers

CONSTANTS
    N,         \* number of threads
    Kinds,     \* the timestamp types under study, one of which is chosen
    MaxStamp   \* past this stamp only calls that cannot move the clock begin

ASSUME NAssumption == N \in Nat \ {0}
ASSUME KindsAssumption ==
    Kinds \subseteq {"read_hw", "write_hw", "read", "write", "read_write"}
ASSUME MaxStampAssumption == MaxStamp \in Nat

Threads == 0 .. N - 1
Ops == {"read", "write"}    \* get_read_stamp, get_write_stamp

VARIABLES
    kind,    \* the type of global_stamp
    stamp,   \* the atomic counter, or the hardware clock
    pc, op,  \* control point and call of each thread
    ts,      \* the local ts (or s) of the call
    res,     \* what the last call returned
    maxRead, maxWrite,   \* the largest stamps returned so far
    readFloor,           \* maxRead when the current call began
    writeFloor           \* maxWrite when the current call began

vars == <<kind, stamp, pc, op, ts, res, maxRead, maxWrite, readFloor, writeFloor>>
ghostVars == <<maxRead, maxWrite, readFloor, writeFloor>>

Hardware == kind \in {"read_hw", "write_hw"}

\* The first stamp of each type; rdtsc starts anywhere.
FirstStamp_Unset == -1
FirstStamp == IF kind = "write" THEN 2 ELSE 1

Init ==
    /\ kind \in Kinds
    /\ stamp = FirstStamp
    /\ pc = [t \in Threads |-> "idle"]
    /\ op = [t \in Threads |-> "read"]
    /\ ts = [t \in Threads |-> 0]
    /\ res = [t \in Threads |-> 0]
    /\ maxRead = 0 /\ maxWrite = 0
    /\ readFloor = [t \in Threads |-> 0]
    /\ writeFloor = [t \in Threads |-> 0]

\* Does call o, having loaded s, have to see the clock move before it returns?
MustMove(o, s) ==
    CASE kind \in {"read_hw", "read"} -> o = "read"
      [] kind \in {"write_hw", "write"} -> o = "write"
      [] kind = "read_write" -> IF o = "write" THEN s % 2 = 0 ELSE s % 2 = 1

\* The stamp returned once the clock has moved past s.
Moved_Old(o, s) == s
Moved(o, s) == IF o = "write" THEN s + 1 ELSE s

-----------------------------------------------------------------------------

Call(t, o) ==
    /\ pc[t] = "idle"
    /\ \/ stamp < MaxStamp
       \/ ~ MustMove(o, stamp) /\ \A u \in Threads : pc[u] = "idle"
    /\ op' = [op EXCEPT ![t] = o]
    /\ readFloor' = [readFloor EXCEPT ![t] = maxRead]
    /\ writeFloor' = [writeFloor EXCEPT ![t] = maxWrite]
    /\ pc' = [pc EXCEPT ![t] = "load"]
    /\ UNCHANGED <<kind, stamp, ts, res, maxRead, maxWrite>>

Return(t, v) ==
    /\ res' = [res EXCEPT ![t] = v]
    /\ pc' = [pc EXCEPT ![t] = "idle"]
    /\ maxRead' = IF op[t] = "read" /\ v > maxRead THEN v ELSE maxRead
    /\ maxWrite' = IF op[t] = "write" /\ v > maxWrite THEN v ELSE maxWrite
    /\ UNCHANGED <<readFloor, writeFloor>>

\* TS ts = stamp.load();  returned at once when the call needs no more.
Load(t) ==
    /\ pc[t] = "load"
    /\ ts' = [ts EXCEPT ![t] = stamp]
    /\ IF MustMove(op[t], stamp)
       THEN pc' = [pc EXCEPT ![t] = "recheck"] /\ UNCHANGED <<res, ghostVars>>
       ELSE Return(t, stamp)
    /\ UNCHANGED <<kind, stamp, op>>

\* while (ts == rdtsc()) {}
WaitForTick(t) ==
    /\ Hardware /\ pc[t] = "recheck"
    /\ stamp # ts[t]
    /\ Return(t, Moved(op[t], ts[t]))
    /\ UNCHANGED <<kind, stamp, op, ts>>

\* if (stamp.load() == ts) ...: somebody else may have moved the clock.  The
\* read_write clock then returns the s it loaded, whichever the call.
Recheck(t) ==
    /\ ~ Hardware /\ pc[t] = "recheck"
    /\ IF stamp = ts[t]
       THEN pc' = [pc EXCEPT ![t] = "move"] /\ UNCHANGED <<res, ghostVars>>
       ELSE Return(t, IF kind = "read_write" THEN ts[t] ELSE Moved(op[t], ts[t]))
    /\ UNCHANGED <<kind, stamp, op, ts>>

\* stamp.fetch_add(1)
FetchAdd(t) ==
    /\ kind \in {"read", "write"} /\ pc[t] = "move"
    /\ stamp' = stamp + 1
    /\ Return(t, Moved(op[t], ts[t]))
    /\ UNCHANGED <<kind, op, ts>>

\* mutant: a store
CasStamp_Store(t) ==
    /\ kind = "read_write" /\ pc[t] = "move"
    /\ stamp' = ts[t] + 1
    /\ Return(t, Moved(op[t], ts[t]))
    /\ UNCHANGED <<kind, op, ts>>

\* stamp.compare_exchange_strong(tmp, s + 1)
CasStamp(t) ==
    /\ kind = "read_write" /\ pc[t] = "move"
    /\ stamp' = IF stamp = ts[t] THEN stamp + 1 ELSE stamp
    /\ Return(t, Moved(op[t], ts[t]))
    /\ UNCHANGED <<kind, op, ts>>

\* The hardware clock moves (past the bound only while a call waits for it).
Tick ==
    /\ Hardware
    /\ stamp < MaxStamp \/ \E t \in Threads : pc[t] = "recheck" /\ ts[t] = stamp
    /\ stamp' = stamp + 1
    /\ UNCHANGED <<kind, pc, op, ts, res, ghostVars>>

Next ==
    \/ Tick
    \/ \E t \in Threads :
        \/ \E o \in Ops : Call(t, o)
        \/ Load(t) \/ WaitForTick(t) \/ Recheck(t) \/ FetchAdd(t) \/ CasStamp(t)

Spec == Init /\ [][Next]_vars

-----------------------------------------------------------------------------
(* Properties.                                                              *)

TypeOK ==
    /\ kind \in Kinds
    /\ stamp \in Nat /\ maxRead \in Nat /\ maxWrite \in Nat
    /\ pc \in [Threads -> {"idle", "load", "recheck", "move"}]
    /\ op \in [Threads -> Ops]
    /\ ts \in [Threads -> Nat] /\ res \in [Threads -> Nat]
    /\ readFloor \in [Threads -> Nat] /\ writeFloor \in [Threads -> Nat]

Finished(t, o) == pc[t] = "idle" /\ op[t] = o /\ res[t] # 0

\* A write stamp is later than every read stamp that was returned before
\* get_write_stamp was called.  This is what makes read_snapshot atomic: a
\* version installed after a snapshot began is never part of the snapshot.
\* timestamp_read_write does not have the property: after its back-off it may
\* return the stamp it loaded first, which a running snapshot also has.
WritesAfterSnapshots ==
    kind # "read_write" =>
        \A t \in Threads : Finished(t, "write") => res[t] > readFloor[t]

\* Stamps respect the order of the calls otherwise: a snapshot is not before
\* a write that has been stamped or a snapshot that has begun, and a write is
\* not before a write that has been stamped.
StampsFollowRealTime ==
    \A t \in Threads :
        /\ Finished(t, "read") => res[t] >= writeFloor[t] /\ res[t] >= readFloor[t]
        /\ Finished(t, "write") => res[t] >= writeFloor[t]
=============================================================================
