------------------------------ MODULE SetSpec ------------------------------
(***************************************************************************)
(* What a concurrent set promises: a linearizable set of keys with insert, *)
(* remove and find. The structures of ds/ are shown to implement it.       *)
(*                                                                         *)
(* A call that changes the set does so in one step, Update, between its    *)
(* Invoke and its Respond. A call that changes nothing may answer whatever *)
(* was true of its key at some moment while it was running; may collects   *)
(* those answers. For calls on one key this is linearizability.            *)
(***************************************************************************)
CONSTANTS Threads, Keys

VARIABLES set,      \* the keys in the set
          call      \* per thread, the call it is in and the last result

vars == <<set, call>>

NoCall == [op |-> "none", key |-> CHOOSE k \in Keys : TRUE, may |-> {}, done |-> FALSE, ret |-> FALSE]

Init == set = {} /\ call = [t \in Threads |-> NoCall]

Invoke(t, o, k, present) ==
  /\ call[t].op = "none"
  /\ call' = [call EXCEPT ![t] = [op |-> o, key |-> k, may |-> {present}, done |-> FALSE, ret |-> FALSE]]
  /\ present = (k \in set)
  /\ UNCHANGED set

\* insert puts an absent key in, remove takes a present one out, once; every call on that key may notice
Update(t) ==
  LET k == call[t].key IN
  /\ ~ call[t].done
  /\ call' = [u \in Threads |->
       IF call[u].op # "none" /\ call[u].key = k
       THEN [call[u] EXCEPT !.may = BOOLEAN, !.done = @ \/ u = t] ELSE call[u]]
  /\ \/ call[t].op = "insert" /\ k \notin set /\ set' = set \cup {k}
     \/ call[t].op = "remove" /\ k \in set /\ set' = set \ {k}

Allowed(t, r) ==
  CASE call[t].op = "find"   -> r \in call[t].may
    [] call[t].op = "insert" -> r = call[t].done /\ (r \/ TRUE \in call[t].may)
    [] call[t].op = "remove" -> r = call[t].done /\ (r \/ FALSE \in call[t].may)

Respond(t, r) ==
  /\ call[t].op # "none"
  /\ Allowed(t, r)
  /\ call' = [call EXCEPT ![t] = [@ EXCEPT !.op = "none", !.may = {}, !.done = FALSE, !.ret = r]]
  /\ UNCHANGED set

\* every step changes the call of the thread that takes it
Next == \E t \in Threads :
  /\ call'[t] # call[t]
  /\ \/ \E o \in {"insert", "remove", "find"}, k \in Keys, present \in BOOLEAN : Invoke(t, o, k, present)
     \/ Update(t)
     \/ \E r \in BOOLEAN : Respond(t, r)

Spec == Init /\ [][Next]_vars
=============================================================================
