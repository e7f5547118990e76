------------------------------ MODULE MultiCas ------------------------------
(***************************************************************************)
(* What the PathCAS library of common/kcas promises: words that are read   *)
(* one at a time and changed several at a time.                            *)
(*                                                                         *)
(* A call names the entries it wants to change (address, old and new       *)
(* value) and the path it relies on (address and the value read there). It *)
(* commits in one step, under three conditions. Its entries have their old *)
(* values. There was a moment of the call when entries and path all had    *)
(* the values named, and since then no read returned and no commit changed *)
(* one of its entries: the commit could have happened then. And it is      *)
(* serializable with the calls that are done: of two calls that each write *)
(* what the other relies on, one does not commit. A validation that        *)
(* returns TRUE is serializable in the same way. A call without a path     *)
(* that returns FALSE saw, at some moment, an entry with another value.    *)
(*                                                                         *)
(* The values of a word are version numbers: every commit raises those of  *)
(* its entries.                                                            *)
(***************************************************************************)
EXTENDS Naturals

LOCAL INSTANCE Graphs

CONSTANTS Threads, Addrs

VARIABLES val,      \* the value of each word
          call,     \* per thread, the call it is in, and what it read last
          log       \* what each finished call relied on and wrote

vars == <<val, call, log>>

\* the version number of a removed node is odd, and nothing may rely on it
IS_MARKED(v) == v % 2 = 1

Holds(items, m) == \A e \in items : m[e.addr] = e.old

\* what the running call c knows when the words become m and other threads touch the addresses in touched
Noticed(c, m, touched) ==
  LET fits == Holds(c.want \cup c.path, m) /\ \A e \in c.path : ~ IS_MARKED(e.old)
      kept == c.valid /\ \A e \in c.want : e.addr \notin touched
  IN [c EXCEPT !.valid = fits \/ kept, !.missed = @ \/ ~ fits]

NoCall == [op |-> "none", want |-> {}, path |-> {}, valid |-> FALSE, missed |-> FALSE, done |-> FALSE, last |-> 0, ret |-> FALSE]

Init == val = [a \in Addrs |-> 0] /\ call = [t \in Threads |-> NoCall] /\ log = {}

Footprint(c) ==
  [reads |-> {[addr |-> e.addr, v |-> e.old] : e \in c.want \cup c.path},
   writes |-> {[addr |-> e.addr, v |-> e.new] : e \in c.want}]

\* f comes before g: g saw what f wrote, or f did not see what g wrote
Precedes(f, g) ==
  \/ \E w \in f.writes, r \in g.reads : w.addr = r.addr /\ w.v <= r.v
  \/ \E r \in f.reads, w \in g.writes : w.addr = r.addr /\ r.v < w.v

Serializable(L) == IsDag([node |-> L, edge |-> {e \in L \X L : e[1] # e[2] /\ Precedes(e[1], e[2])}])

Finished(c) == log \cup {Footprint(c)}

Others(t, m, touched) ==
  [u \in Threads |-> IF u = t \/ call[u].op = "none" \/ call[u].done THEN call[u] ELSE Noticed(call[u], m, touched)]

Read(t, a) ==
  /\ call[t].op = "none"
  /\ call' = [Others(t, val, {a}) EXCEPT ![t].last = val[a]]
  /\ UNCHANGED <<val, log>>

Invoke(t, o, want, path) ==
  /\ call[t].op = "none"
  /\ call' = [call EXCEPT ![t] = Noticed([NoCall EXCEPT !.op = o, !.want = want, !.path = path, !.last = call[t].last], val, {})]
  /\ UNCHANGED <<val, log>>

Written(m, want) == [a \in DOMAIN m |-> IF \E e \in want : e.addr = a THEN (CHOOSE e \in want : e.addr = a).new ELSE m[a]]

Commit(t) ==
  /\ call[t].op \in {"execute", "validateAndExecute"} /\ ~ call[t].done
  /\ call[t].valid /\ Holds(call[t].want, val)
  /\ val' = Written(val, call[t].want)
  /\ call' = [Others(t, val', {e.addr : e \in call[t].want}) EXCEPT ![t].done = TRUE]
  /\ log' = Finished(call[t]) /\ Serializable(log')

Allowed(t, r) ==
  CASE call[t].op = "execute"            -> r = call[t].done /\ (r \/ call[t].missed)
    [] call[t].op = "validateAndExecute" -> r = call[t].done
    [] call[t].op = "validate"           -> r => call[t].valid

Respond(t, r) ==
  /\ call[t].op # "none" /\ Allowed(t, r)
  /\ call' = [call EXCEPT ![t] = [NoCall EXCEPT !.last = call[t].last, !.ret = r]]
  /\ log' = IF call[t].op = "validate" /\ r THEN Finished(call[t]) ELSE log
  /\ Serializable(log')
  /\ UNCHANGED val

Next == \E t \in Threads :
  \/ \E a \in Addrs : Read(t, a)
  \/ call'[t].op # "none" /\ Invoke(t, call'[t].op, call'[t].want, call'[t].path)
  \/ Commit(t)
  \/ \E r \in BOOLEAN : Respond(t, r)

Spec == Init /\ [][Next]_vars
=============================================================================
