------------------------------ MODULE CacheKey ------------------------------
(***************************************************************************)
(* JITCallable.cache_key (jit.py): the key under which a function's kernels *)
(* are stored, computed from its source, the keys of the functions it calls *)
(* and the values of the constexpr globals it uses.  Every function has a   *)
(* lock and keeps its key; computing one walks the function's references    *)
(* and computes the keys of its callees on the way, locks held.             *)
(*                                                                          *)
(* A key (a SHA-256 in the code) is the record of what went into it: keys   *)
(* are equal if and only if that is.                                        *)
(***************************************************************************)
EXTENDS Naturals, Sequences, FiniteSets, TLC

CONSTANT Setups   \* what the processes and threads may be (chosen in Init)

(* A setup has the fields                                                   *)
(*   refs     function -> sequence of references, in source order           *)
(*   src      process -> function -> version of its source                  *)
(*   globals  process -> global -> value at the start                       *)
(*   proc     thread -> process                                             *)
(* and those JitRuntime names.                                              *)

(* Every thread runs in some process.                                       *)
ASSUME SetupAssumption ==
  \A s \in Setups : \A t \in DOMAIN s.proc : s.proc[t] \in DOMAIN s.src

(* What a function refers to are functions and globals there are, and no    *)
(* thread or function has a name that stands for none.                      *)
ASSUME ReferenceAssumption ==
  \A s \in Setups :
    /\ "nobody" \notin DOMAIN s.proc /\ "nothing" \notin DOMAIN s.refs
    /\ s.globals = [p \in DOMAIN s.src |-> s.globals[p]]
    /\ \A f \in DOMAIN s.refs :
         /\ Len(s.refs[f]) \in Nat /\ DOMAIN s.refs[f] = 1 .. Len(s.refs[f])
         /\ \A i \in DOMAIN s.refs[f] :
              s.refs[f][i].kind = "call" => s.refs[f][i].name \in DOMAIN s.refs

VARIABLES
  setup,
  value,    \* process -> global -> value now
  hash,     \* process -> function -> NoHash, a placeholder or the key
  used,     \* process -> function -> used_global_vals
  lock,     \* process -> function -> NoThread or the owner of _hash_lock
  stack,    \* thread -> the functions whose keys it is computing, innermost last
  asked,    \* thread -> function whose cache_key it is about to read, or NoFunction
  key       \* thread -> the key it asked for, KeyError, or NoHash

keyVars == <<value, hash, used, lock, stack, asked, key>>

NoHash == <<"none">>
KeyError == <<"error">>
NoThread == "nobody"
NoFunction == "nothing"
NoGlobals == << >>
Recursion(f) == <<"recursion", f>>

Global(g) == [kind |-> "global", name |-> g]
Call(f) == [kind |-> "call", name |-> f]

(* f with the value y for x                                                 *)
Bind(f, x, y) == [z \in DOMAIN f \cup {x} |-> IF z = x THEN y ELSE f[z]]

Threads == DOMAIN setup.proc
Processes == DOMAIN setup.src
Functions == DOMAIN setup.refs
Proc(t) == setup.proc[t]

(* u, and the values of w for what u has none of                            *)
Merged(u, w) == [g \in DOMAIN u \cup DOMAIN w |-> IF g \in DOMAIN u THEN u[g] ELSE w[g]]

(*------------------------- what a function means -------------------------*)

Named(f, kind) == {setup.refs[f][i].name : i \in {j \in DOMAIN setup.refs[f] : setup.refs[f][j].kind = kind}}

(* A set of functions that calls nothing outside it                         *)
Closed(S) == \A h \in S : Named(h, "call") \subseteq S

(* f and what it calls, directly or by others                               *)
Reach(f) == {h \in Functions : \A S \in SUBSET Functions : f \in S /\ Closed(S) => h \in S}

(* What the code generator sees in process p: the sources of the function   *)
(* and of those it calls, and the values its globals have at that time.     *)
Meaning(p, f) ==
  <<"meaning", [h \in Reach(f) |-> setup.src[p][h]],
    [g \in UNION {Named(h, "global") : h \in Reach(f)} |-> value[p][g]]>>

GlobalsOf(meaning) == meaning[3]

(*----------------------------- the key -----------------------------------*)

Top(t) == stack[t][Len(stack[t])]
WithTop(t, frame) == [stack EXCEPT ![t][Len(stack[t])] = frame]

Frame(f) == [fn |-> f, at |-> 1, callees |-> << >>, used |-> NoGlobals]

(* As a bug would have it: without the functions called.                    *)
DigestOfSource(p, frame) ==
  <<"key", frame.fn, setup.src[p][frame.fn], << >>, frame.used>>

Digest(p, frame) ==
  <<"key", frame.fn, setup.src[p][frame.fn], frame.callees, frame.used>>

(* The frames s after cache_key has returned d to the innermost of them.    *)
Returned(s, d) ==
  IF s = << >> THEN s
  ELSE [s EXCEPT ![Len(s)].callees = Append(@, d), ![Len(s)].at = @ + 1]

Answer(t, s, d) ==
  /\ stack' = [stack EXCEPT ![t] = Returned(s, d)]
  /\ key' = IF s = << >> THEN [key EXCEPT ![t] = d] ELSE key
  /\ asked' = [asked EXCEPT ![t] = NoFunction]

(* The lock is left held when the key is already there.                     *)
KeyKnownHeld(t, f) ==
  /\ asked[t] = f
  /\ lock[Proc(t)][f] \in {NoThread, t}
  /\ hash[Proc(t)][f] # NoHash
  /\ lock' = [lock EXCEPT ![Proc(t)][f] = t]
  /\ Answer(t, stack[t], hash[Proc(t)][f])
  /\ UNCHANGED <<value, hash, used>>

(* with self._hash_lock: if self.hash is not None: return self.hash         *)
KeyKnown(t, f) ==
  /\ asked[t] = f
  /\ lock[Proc(t)][f] \in {NoThread, t}
  /\ hash[Proc(t)][f] # NoHash
  /\ Answer(t, stack[t], hash[Proc(t)][f])
  /\ UNCHANGED <<value, hash, used, lock>>

(* with self._hash_lock: self.hash = the placeholder that breaks recursion  *)
KeyBegin(t, f) ==
  /\ asked[t] = f
  /\ lock[Proc(t)][f] \in {NoThread, t}
  /\ hash[Proc(t)][f] = NoHash
  /\ lock' = [lock EXCEPT ![Proc(t)][f] = t]
  /\ hash' = [hash EXCEPT ![Proc(t)][f] = Recursion(f)]
  /\ stack' = [stack EXCEPT ![t] = Append(@, Frame(f))]
  /\ asked' = [asked EXCEPT ![t] = NoFunction]
  /\ UNCHANGED <<value, used, key>>

Visiting(t) ==
  /\ stack[t] # << >>
  /\ asked[t] = NoFunction
  /\ Top(t).at \in DOMAIN setup.refs[Top(t).fn]

Visited(t) == setup.refs[Top(t).fn][Top(t).at]

(* record_reference of a plain value                                        *)
VisitGlobal(t) ==
  /\ Visiting(t)
  /\ Visited(t).kind = "global"
  /\ LET g == Visited(t).name
         frame == Top(t) IN
     stack' = WithTop(t, [frame EXCEPT !.used = Bind(@, g, value[Proc(t)][g]), !.at = @ + 1])
  /\ UNCHANGED <<value, hash, used, lock, asked, key>>

Conflict(mine, theirs) == \E g \in DOMAIN mine \cap DOMAIN theirs : mine[g] # theirs[g]

(* _update_hash: the callee's globals are merged before its key is asked    *)
(* for, so those of a callee that has no key yet are not among them.        *)
VisitCall(t) ==
  /\ Visiting(t)
  /\ Visited(t).kind = "call"
  /\ ~ Conflict(Top(t).used, used[Proc(t)][Visited(t).name])
  /\ LET h == Visited(t).name
         frame == Top(t) IN
     /\ stack' = WithTop(t, [frame EXCEPT !.used = Merged(used[Proc(t)][h], @)])
     /\ asked' = [asked EXCEPT ![t] = h]
  /\ UNCHANGED <<value, hash, used, lock, key>>

(* _update_hash raises: the with statements release the locks, the          *)
(* placeholders stay.                                                       *)
VisitConflict(t) ==
  /\ Visiting(t)
  /\ Visited(t).kind = "call"
  /\ Conflict(Top(t).used, used[Proc(t)][Visited(t).name])
  /\ stack' = [stack EXCEPT ![t] = << >>]
  /\ lock' = [lock EXCEPT ![Proc(t)] = [f \in Functions |-> IF @[f] = t THEN NoThread ELSE @[f]]]
  /\ key' = [key EXCEPT ![t] = KeyError]
  /\ UNCHANGED <<value, hash, used, asked>>

FinishKey(t) ==
  /\ stack[t] # << >>
  /\ asked[t] = NoFunction
  /\ Top(t).at > Len(setup.refs[Top(t).fn])
  /\ LET f == Top(t).fn
         d == Digest(Proc(t), Top(t)) IN
     /\ hash' = [hash EXCEPT ![Proc(t)][f] = d]
     /\ used' = [used EXCEPT ![Proc(t)][f] = Top(t).used]
     /\ lock' = [lock EXCEPT ![Proc(t)][f] = NoThread]
     /\ Answer(t, SubSeq(stack[t], 1, Len(stack[t]) - 1), d)
  /\ UNCHANGED value

KeyStep(t) ==
  \/ \E f \in Functions : KeyKnown(t, f) \/ KeyBegin(t, f)
  \/ VisitGlobal(t) \/ VisitCall(t) \/ VisitConflict(t) \/ FinishKey(t)

InitKeys ==
  /\ value = setup.globals
  /\ hash = [p \in Processes |-> [f \in Functions |-> NoHash]]
  /\ used = [p \in Processes |-> [f \in Functions |-> NoGlobals]]
  /\ lock = [p \in Processes |-> [f \in Functions |-> NoThread]]
  /\ stack = [t \in Threads |-> << >>]
  /\ asked = [t \in Threads |-> NoFunction]
  /\ key = [t \in Threads |-> NoHash]
=============================================================================
