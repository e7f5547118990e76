------------------------------ MODULE PathCas ------------------------------
(***************************************************************************)
(* The PathCAS library, common/kcas/kcas_validate.h: a lock-free multi-    *)
(* word compare-and-swap whose descriptors are reused (one kcas and one    *)
(* rdcss descriptor per thread, told apart by sequence numbers), and which *)
(* can validate the version numbers of a visited path before it commits.   *)
(* Without a path it is the algorithm of kcas_reuse_impl.h.                *)
(*                                                                         *)
(* A word of memory holds a value, the tag of an rdcss or the tag of a     *)
(* kcas. Every access to a shared word or to the seqBits of a descriptor   *)
(* is one action. The fields of a descriptor change only under a sequence  *)
(* number no tag has, so they are written in the step that completes it;   *)
(* DESC_SNAPSHOT is two steps, the copy and the check.                     *)
(*                                                                         *)
(* The client of a thread follows a program: each of its operations reads  *)
(* words and then executes, validates and executes, or validates, adding   *)
(* an entry that advances each word it writes.                             *)
(***************************************************************************)
EXTENDS Integers, Sequences, TLC

CONSTANTS Threads, Addrs,
          Setups      \* records: prog, the operations of each thread

\* what is written is a later version of the word
ASSUME SetupsAssumption == \A s \in Setups :
  /\ DOMAIN s.prog = Threads
  /\ \A t \in Threads : \A i \in DOMAIN s.prog[t] : s.prog[t][i].writes > 0 => s.prog[t][i].by > 0

VARIABLES setup,      \* the member of Setups that this behaviour uses
          mem,        \* the words
          kdesc,      \* kcasDescriptors: sequence number, state, entries, path
          rdesc,      \* rdcssDescriptors: sequence number, kcas tag, address and old value
          pc, stack,  \* control, and the calls of help a thread is in, innermost first
          loc,        \* locals of a thread outside help
          prog,       \* the operations a thread has still to make
          call, log   \* history: what MultiCas knows of the running and of the finished calls

vars == <<setup, mem, kdesc, rdesc, pc, stack, loc, prog, call, log>>
history == <<call, log>>

Undecided == "undecided"
Succeeded == "succeeded"
Failed == "failed"

Value(v) == [kind |-> "val", v |-> v]
RdcssTag(t, seq) == [kind |-> "rdcss", t |-> t, seq |-> seq]
KcasTag(t, seq) == [kind |-> "kcas", t |-> t, seq |-> seq]
isRdcss(w) == w.kind = "rdcss"
isKcas(w) == w.kind = "kcas"

\* version numbers of removed nodes are odd
IS_MARKED(v) == v % 2 = 1

Entry(a, old, new) == [addr |-> a, old |-> old, new |-> new]

NoTag == KcasTag(CHOOSE t \in Threads : TRUE, 0)
NewKcasDesc(seq) == [seq |-> seq, state |-> Undecided, entries |-> <<>>, path |-> <<>>, required |-> FALSE]
NewRdcssDesc(seq) == [seq |-> seq, old1 |-> NoTag, addr2 |-> CHOOSE a \in Addrs : TRUE, old2 |-> 0]
NoLocals == [got |-> <<>>, rtag |-> NoTag, rsnap |-> NewRdcssDesc(0), v |-> Undecided, back |-> "idle",
             ktag |-> NoTag, ksnap |-> NewKcasDesc(0), j |-> 1, res |-> FALSE]

\* the value a word has for its readers: a tag stands for the value it replaced, until its kcas has succeeded;
\* nobody can tell what a tag stands for whose descriptor was reused
Lost == 0 - 1
ValueOf(m, k, r) ==
  [a \in Addrs |->
    LET w == m[a] IN
    CASE w.kind = "val" -> w.v
      [] isRdcss(w) /\ r[w.t].seq = w.seq -> r[w.t].old2
      [] isKcas(w) /\ k[w.t].seq = w.seq ->
           LET n == CHOOSE n \in DOMAIN k[w.t].entries : k[w.t].entries[n].addr = a
           IN IF k[w.t].state = Succeeded THEN k[w.t].entries[n].new ELSE k[w.t].entries[n].old
      [] OTHER -> Lost]

Abstract == INSTANCE MultiCas WITH val <- ValueOf(mem, kdesc, rdesc)

Init ==
  /\ setup \in Setups
  /\ mem = [a \in Addrs |-> Value(0)]
  /\ kdesc = [t \in Threads |-> NewKcasDesc(1)]
  /\ rdesc = [t \in Threads |-> NewRdcssDesc(1)]
  /\ pc = [t \in Threads |-> "idle"]
  /\ stack = [t \in Threads |-> <<>>]
  /\ loc = [t \in Threads |-> NoLocals]
  /\ prog = setup.prog
  /\ call = [t \in Threads |-> Abstract!NoCall] /\ log = {}

Goto(t, l) == pc' = [pc EXCEPT ![t] = l]
Top(t) == Head(stack[t])
SetTop(t, f) == stack' = [stack EXCEPT ![t] = <<f>> \o Tail(@)]
NextEntry(f) == [f EXCEPT !.i = @ + 1]
ForgetRdcss(t) == [loc EXCEPT ![t].rtag = NoTag, ![t].rsnap = NewRdcssDesc(0), ![t].v = Undecided]
Op(t) == Head(prog[t])

-----------------------------------------------------------------------------
\* rdcss: put a kcas tag in a word that has its old value, while the kcas is undecided

\* DESC_READ_FIELD: the state of the kcas that the tag names, or Succeeded when its descriptor was reused
StateFor(tag) == IF kdesc[tag.t].seq = tag.seq THEN kdesc[tag.t].state ELSE Succeeded

\* call rdcssHelpOther for the tag w, then go on at l
HelpRdcss(t, w, l) ==
  /\ loc' = [loc EXCEPT ![t].rtag = w, ![t].back = l]
  /\ Goto(t, "rdcss_copy")

\* the memcpy of DESC_SNAPSHOT
RdcssCopy(t) ==
  /\ pc[t] = "rdcss_copy"
  /\ loc' = [loc EXCEPT ![t].rsnap = rdesc[loc[t].rtag.t]]
  /\ Goto(t, "rdcss_check")
  /\ UNCHANGED <<mem, kdesc, rdesc, stack, prog, history>>

\* the check of DESC_SNAPSHOT: a descriptor that was reused needs no help
RdcssCheck(t) ==
  /\ pc[t] = "rdcss_check"
  /\ IF rdesc[loc[t].rtag.t].seq = loc[t].rtag.seq
     THEN Goto(t, "rdcss_state") /\ UNCHANGED loc
     ELSE Goto(t, loc[t].back) /\ loc' = ForgetRdcss(t)
  /\ UNCHANGED <<mem, kdesc, rdesc, stack, prog, history>>

\* rdcssHelp, first step: read the state of the kcas
RdcssState(t) ==
  /\ pc[t] = "rdcss_state"
  /\ loc' = [loc EXCEPT ![t].v = StateFor(loc[t].rsnap.old1)]
  /\ Goto(t, "rdcss_cas")
  /\ UNCHANGED <<mem, kdesc, rdesc, stack, prog, history>>

\* rdcssHelp, second step: replace the rdcss tag by the kcas tag, or by the old value
RdcssCas(t) ==
  LET s == loc[t].rsnap IN
  /\ pc[t] = "rdcss_cas"
  /\ mem' = IF mem[s.addr2] = loc[t].rtag
            THEN [mem EXCEPT ![s.addr2] = IF loc[t].v = Undecided THEN s.old1 ELSE Value(s.old2)] ELSE mem
  /\ Goto(t, loc[t].back)
  /\ loc' = ForgetRdcss(t)
  /\ IF loc[t].rtag.t = t THEN SetTop(t, NextEntry(Top(t))) ELSE UNCHANGED stack
  /\ UNCHANGED <<kdesc, rdesc, prog, history>>

-----------------------------------------------------------------------------
\* help: lock the entries, validate, decide, unlock

Frame(tag, d, other, back) ==
  [tag |-> tag, entries |-> d.entries, path |-> d.path, required |-> d.required,
   i |-> IF other THEN 2 ELSE 1, j |-> 1, new |-> Succeeded, back |-> back]

\* call helpOther for the tag w, then go on at l
HelpKcas(t, w, l) ==
  /\ loc' = [loc EXCEPT ![t].ktag = w, ![t].back = l]
  /\ Goto(t, "kcas_copy")

KcasCopy(t) ==
  /\ pc[t] = "kcas_copy"
  /\ loc' = [loc EXCEPT ![t].ksnap = kdesc[loc[t].ktag.t]]
  /\ Goto(t, "kcas_check")
  /\ UNCHANGED <<mem, kdesc, rdesc, stack, prog, history>>

\* a helper starts at the second entry: it met the tag, so the first was locked
KcasCheck(t) ==
  /\ pc[t] = "kcas_check"
  /\ LET same == kdesc[loc[t].ktag.t].seq = loc[t].ktag.seq IN
     /\ stack' = IF same THEN [stack EXCEPT ![t] = <<Frame(loc[t].ktag, loc[t].ksnap, TRUE, loc[t].back)>> \o @] ELSE stack
     /\ Goto(t, IF same THEN "help" ELSE loc[t].back)
  /\ loc' = [loc EXCEPT ![t].ksnap = NewKcasDesc(0), ![t].ktag = NoTag]
  /\ UNCHANGED <<mem, kdesc, rdesc, prog, history>>

\* return from help with the result r; the result of helping somebody else is not used
Leave(t, r) ==
  /\ stack' = [stack EXCEPT ![t] = Tail(@)]
  /\ loc' = IF Top(t).back = "return" THEN [loc EXCEPT ![t].res = r] ELSE loc
  /\ Goto(t, Top(t).back)

\* read the state of the kcas
HelpState(t) ==
  LET tag == Top(t).tag IN
  /\ pc[t] = "help"
  /\ IF kdesc[tag.t].seq # tag.seq THEN Leave(t, FALSE)
     ELSE /\ Goto(t, IF kdesc[tag.t].state = Undecided THEN "lock" ELSE "decided")
          /\ UNCHANGED <<stack, loc>>
  /\ UNCHANGED <<mem, kdesc, rdesc, prog, history>>

\* the next entry, if there is one: fill the thread's rdcss descriptor and run rdcss on it
Prepare(t) ==
  LET f == Top(t) IN
  /\ pc[t] = "lock"
  /\ IF f.i > Len(f.entries)
     THEN Goto(t, IF f.required THEN "validate" ELSE "decide") /\ UNCHANGED rdesc
     ELSE /\ rdesc' = [rdesc EXCEPT ![t] = [seq |-> @.seq + 2, old1 |-> f.tag, addr2 |-> f.entries[f.i].addr, old2 |-> f.entries[f.i].old]]
          /\ Goto(t, "rdcss")
  /\ UNCHANGED <<mem, kdesc, stack, loc, prog, history>>

\* mutant: a word locked by any kcas counts as locked by this one
Rdcss_AnyTag(t) ==
  LET d == rdesc[t]
      w == mem[d.addr2]
      mine == RdcssTag(t, d.seq)
  IN
  /\ pc[t] = "rdcss"
  /\ \/ /\ w = Value(d.old2)
        /\ mem' = [mem EXCEPT ![d.addr2] = mine]
        /\ loc' = [loc EXCEPT ![t].rtag = mine, ![t].rsnap = d, ![t].back = "lock"]
        /\ Goto(t, "rdcss_state")
        /\ UNCHANGED stack
     \/ isRdcss(w) /\ HelpRdcss(t, w, "rdcss") /\ UNCHANGED <<mem, stack>>
     \/ isKcas(w) /\ SetTop(t, NextEntry(Top(t))) /\ Goto(t, "lock") /\ UNCHANGED <<mem, loc>>
     \/ /\ w.kind = "val" /\ w # Value(d.old2)
        /\ SetTop(t, [Top(t) EXCEPT !.new = Failed])
        /\ Goto(t, "decide")
        /\ UNCHANGED <<mem, loc>>
  /\ UNCHANGED <<kdesc, rdesc, prog, history>>

\* the VAL_CAS of rdcss, and what help makes of the value it returns
Rdcss(t) ==
  LET d == rdesc[t]
      w == mem[d.addr2]
      mine == RdcssTag(t, d.seq)
  IN
  /\ pc[t] = "rdcss"
  /\ \/ /\ w = Value(d.old2)
        /\ mem' = [mem EXCEPT ![d.addr2] = mine]
        /\ loc' = [loc EXCEPT ![t].rtag = mine, ![t].rsnap = d, ![t].back = "lock"]
        /\ Goto(t, "rdcss_state")
        /\ UNCHANGED stack
     \/ isRdcss(w) /\ HelpRdcss(t, w, "rdcss") /\ UNCHANGED <<mem, stack>>
     \/ isKcas(w) /\ w # Top(t).tag /\ HelpKcas(t, w, "lock") /\ UNCHANGED <<mem, stack>>
     \/ w = Top(t).tag /\ SetTop(t, NextEntry(Top(t))) /\ Goto(t, "lock") /\ UNCHANGED <<mem, loc>>
     \/ /\ w.kind = "val" /\ w # Value(d.old2)
        /\ SetTop(t, [Top(t) EXCEPT !.new = Failed])
        /\ Goto(t, "decide")
        /\ UNCHANGED <<mem, loc>>
  /\ UNCHANGED <<kdesc, rdesc, prog, history>>

\* mutant: an item that another kcas has locked counts as valid while that kcas is undecided
ItemValid_Undecided(item, w, tag) ==
  \/ w = tag
  \/ isKcas(w) /\ StateFor(w) = Undecided
  \/ w = Value(item.old) /\ ~ IS_MARKED(item.old)

\* one item of the path: another operation's tag, another value or a mark makes it invalid
ItemValid(item, w, tag) ==
  \/ w = tag
  \/ w = Value(item.old) /\ ~ IS_MARKED(item.old)

\* validate(snapshot, tagptr), one item
Validate(t) ==
  LET f == Top(t)
      item == f.path[f.j]
  IN
  /\ pc[t] = "validate"
  /\ \/ f.j > Len(f.path) /\ Goto(t, "decide") /\ UNCHANGED stack
     \/ /\ f.j <= Len(f.path) /\ ItemValid(item, mem[item.addr], f.tag)
        /\ SetTop(t, [f EXCEPT !.j = @ + 1])
        /\ UNCHANGED pc
     \/ /\ f.j <= Len(f.path) /\ ~ ItemValid(item, mem[item.addr], f.tag)
        /\ SetTop(t, [f EXCEPT !.new = Failed])
        /\ Goto(t, "decide")
  /\ UNCHANGED <<mem, kdesc, rdesc, loc, prog, history>>

\* what the other calls notice when call t commits
Committed(t) ==
  [Abstract!Others(t, Abstract!Written(ValueOf(mem, kdesc, rdesc), call[t].want), {e.addr : e \in call[t].want})
     EXCEPT ![t].done = TRUE]

\* SEQBITS_CAS_FIELD: the first to decide an undecided kcas decides it
Decide(t) ==
  LET f == Top(t)
      wins == kdesc[f.tag.t].seq = f.tag.seq /\ kdesc[f.tag.t].state = Undecided
  IN
  /\ pc[t] = "decide"
  /\ kdesc' = IF wins THEN [kdesc EXCEPT ![f.tag.t].state = f.new] ELSE kdesc
  /\ IF wins /\ f.new = Succeeded
     THEN call' = Committed(f.tag.t) /\ log' = Abstract!Finished(call[f.tag.t])
     ELSE UNCHANGED history
  /\ Goto(t, "decided")
  /\ UNCHANGED <<mem, rdesc, stack, loc, prog>>

\* read the state again: phase 2 is for the descriptor's own kcas only
Decided(t) ==
  LET tag == Top(t).tag IN
  /\ pc[t] = "decided"
  /\ IF kdesc[tag.t].seq # tag.seq THEN Leave(t, FALSE)
     ELSE /\ SetTop(t, [Top(t) EXCEPT !.new = kdesc[tag.t].state, !.i = 1])
          /\ Goto(t, "unlock")
          /\ UNCHANGED loc
  /\ UNCHANGED <<mem, kdesc, rdesc, prog, history>>

\* phase 2, one entry: replace the tag by the new or the old value
Unlock(t) ==
  LET f == Top(t)
      e == f.entries[f.i]
  IN
  /\ pc[t] = "unlock"
  /\ IF f.i > Len(f.entries)
     THEN Leave(t, f.new = Succeeded) /\ UNCHANGED mem
     ELSE /\ mem' = IF mem[e.addr] = f.tag THEN [mem EXCEPT ![e.addr] = Value(IF f.new = Succeeded THEN e.new ELSE e.old)] ELSE mem
          /\ SetTop(t, NextEntry(f))
          /\ UNCHANGED <<pc, loc>>
  /\ UNCHANGED <<kdesc, rdesc, prog, history>>

-----------------------------------------------------------------------------
\* the client

\* start: a new sequence number, and an empty descriptor
Start(t) ==
  /\ pc[t] = "idle" /\ prog[t] # <<>>
  /\ kdesc' = [kdesc EXCEPT ![t] = NewKcasDesc(@.seq + 1)]
  /\ loc' = [loc EXCEPT ![t] = NoLocals]
  /\ Goto(t, "read")
  /\ UNCHANGED <<mem, rdesc, stack, prog, history>>

Validated(o) == o.op # "execute"

\* readVal or visit of the next word: tags are helped until the word has a value
Read(t) ==
  LET a == Op(t).reads[Len(loc[t].got) + 1]
      w == mem[a]
  IN
  /\ pc[t] = "read"
  /\ \/ isRdcss(w) /\ HelpRdcss(t, w, "read") /\ UNCHANGED <<kdesc, call>>
     \/ isKcas(w) /\ HelpKcas(t, w, "read") /\ UNCHANGED <<kdesc, call>>
     \/ /\ w.kind = "val"
        /\ loc' = [loc EXCEPT ![t].got = Append(@, w.v)]
        /\ kdesc' = IF Validated(Op(t)) THEN [kdesc EXCEPT ![t].path = Append(@, [addr |-> a, old |-> w.v])] ELSE kdesc
        /\ call' = [Abstract!Others(t, ValueOf(mem, kdesc, rdesc), {a}) EXCEPT ![t].last = w.v]
        /\ Goto(t, IF Len(loc'[t].got) = Len(Op(t).reads) THEN "call" ELSE "read")
  /\ UNCHANGED <<mem, rdesc, stack, prog, log>>

\* add, for every word the operation writes
Added(t) ==
  LET entry(n) == Entry(Op(t).reads[n], loc[t].got[n], loc[t].got[n] + Op(t).by)
  IN [n \in 1..Op(t).writes |-> entry(n)]

\* mutant: entries in the order in which they were added
kcasdesc_sort_Not(s) == s

kcasdesc_sort(s) == SortSeq(s, LAMBDA x, y : x.addr < y.addr)

\* execute and validateAndExecute complete the descriptor and call help; validate goes over the path
Call(t) ==
  LET d == [kdesc[t] EXCEPT !.entries = kcasdesc_sort(Added(t)), !.required = Op(t).op = "validateAndExecute", !.seq = @ + 1]
      elems(s) == {s[n] : n \in DOMAIN s}
  IN
  /\ pc[t] = "call"
  /\ IF Op(t).op = "validate"
     THEN Goto(t, "check") /\ UNCHANGED <<kdesc, stack>>
     ELSE /\ kdesc' = [kdesc EXCEPT ![t] = d]
          /\ stack' = [stack EXCEPT ![t] = <<Frame(KcasTag(t, d.seq), d, FALSE, "return")>>]
          /\ Goto(t, "help")
  /\ call' = [call EXCEPT ![t] =
       Abstract!Noticed([Abstract!NoCall EXCEPT !.op = Op(t).op, !.want = elems(Added(t)), !.path = elems(kdesc[t].path), !.last = call[t].last],
                        ValueOf(mem, kdesc, rdesc), {})]
  /\ UNCHANGED <<mem, rdesc, loc, prog, log>>

\* validate(), one item
Check(t) ==
  LET item == kdesc[t].path[loc[t].j]
      w == mem[item.addr]
  IN
  /\ pc[t] = "check"
  /\ \/ isRdcss(w) /\ HelpRdcss(t, w, "check")
     \/ isKcas(w) /\ HelpKcas(t, w, "check")
     \/ /\ w = Value(item.old) /\ ~ IS_MARKED(item.old)
        /\ loc' = [loc EXCEPT ![t].j = @ + 1, ![t].res = TRUE]
        /\ Goto(t, IF loc[t].j = Len(kdesc[t].path) THEN "return" ELSE "check")
     \/ /\ w.kind = "val" /\ (w # Value(item.old) \/ IS_MARKED(item.old))
        /\ loc' = [loc EXCEPT ![t].res = FALSE]
        /\ Goto(t, "return")
  /\ UNCHANGED <<mem, kdesc, rdesc, stack, prog, history>>

Return(t) ==
  /\ pc[t] = "return"
  /\ prog' = [prog EXCEPT ![t] = Tail(@)]
  /\ call' = [call EXCEPT ![t] = [Abstract!NoCall EXCEPT !.last = call[t].last, !.ret = loc[t].res]]
  /\ log' = IF Op(t).op = "validate" /\ loc[t].res THEN Abstract!Finished(call[t]) ELSE log
  /\ loc' = [loc EXCEPT ![t] = NoLocals]
  /\ Goto(t, "idle")
  /\ UNCHANGED <<mem, kdesc, rdesc, stack>>

Step(t) ==
  \/ RdcssCopy(t) \/ RdcssCheck(t) \/ RdcssState(t) \/ RdcssCas(t)
  \/ KcasCopy(t) \/ KcasCheck(t) \/ HelpState(t) \/ Prepare(t) \/ Rdcss(t) \/ Validate(t) \/ Decide(t) \/ Decided(t) \/ Unlock(t)
  \/ Start(t) \/ Read(t) \/ Call(t) \/ Check(t) \/ Return(t)

Next == UNCHANGED setup /\ \E t \in Threads : Step(t)

Spec == Init /\ [][Next]_vars

-----------------------------------------------------------------------------
Words == [kind : {"val"}, v : Nat] \cup [kind : {"rdcss", "kcas"}, t : Threads, seq : Nat]

\* Memory holds values and tags, a thread outside help has unwound every call of help it made, and the
\* entries of a descriptor that is in use are in the order of their addresses, each address once.
TypeOK ==
  /\ \A a \in Addrs : mem[a] \in Words
  /\ \A t \in Threads :
       /\ kdesc[t].state \in {Undecided, Succeeded, Failed}
       /\ rdesc[t].seq \in Nat /\ kdesc[t].seq \in Nat
       /\ \A n, m \in DOMAIN kdesc[t].entries : n < m => kdesc[t].entries[n].addr < kdesc[t].entries[m].addr
       /\ pc[t] \in {"idle", "call", "return"} => stack[t] = <<>>
       /\ pc[t] \in {"help", "lock", "rdcss", "validate", "decide", "decided", "unlock"} => stack[t] # <<>>

\* While a kcas is undecided, a thread that has passed an entry of it, or skipped the first because it
\* came as a helper (kcas_validate.h:472), finds every entry it passed locked by that kcas.
LockedPrefix ==
  \A t \in Threads : \A n \in DOMAIN stack[t] :
    LET f == stack[t][n]
        d == kdesc[f.tag.t]
        locking == n > 1 \/ pc[t] \notin {"decided", "unlock"}
    IN (locking /\ d.seq = f.tag.seq /\ d.state = Undecided) =>
         \A i \in 1..(f.i - 1) : mem[f.entries[i].addr] = f.tag

\* Reads, execute, validateAndExecute and validate are those of the multi-word compare-and-swap MultiCas,
\* although any thread may complete any other's operation, late, from a copy of a reused descriptor, and
\* although a path is validated item by item and is not locked: the calls that succeed are serializable.
Implements == Abstract!Spec
=============================================================================
