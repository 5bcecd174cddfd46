---------------------------- MODULE MCJitRuntime ----------------------------
(***************************************************************************)
(* Instances of JitRuntime.  K calls the helper H, both use the global G in *)
(* some setups; L is another kernel that calls H.                           *)
(***************************************************************************)
EXTENDS JitRuntime

MCThreads == {"a", "b"}
MCOutputs == <<"source", "ttadapter", "npubin">>

K1 == [fn |-> "K", spec |-> 1, spelling |-> 1]
K1again == [fn |-> "K", spec |-> 1, spelling |-> 2]   \* another call, the same compile key
K2 == [fn |-> "K", spec |-> 2, spelling |-> 1]
L1 == [fn |-> "L", spec |-> 1, spelling |-> 1]
H1 == [fn |-> "H", spec |-> 1, spelling |-> 1]

Plain == [K |-> <<Call("H")>>, L |-> <<Call("H")>>, H |-> << >>]
WithGlobal == [K |-> <<Global("G"), Call("H")>>, L |-> <<Global("G"), Call("H")>>, H |-> <<Global("G")>>]
GlobalInside == [K |-> <<Call("H")>>, L |-> <<Call("H")>>, H |-> <<Global("G")>>]
Diamond == [K |-> <<Call("L"), Call("H")>>, L |-> <<Call("H")>>, H |-> << >>]

Src(k, l, h) == [K |-> k, L |-> l, H |-> h]
G(v) == [G |-> v]

(* Calls that fail in the front end, in an assertion of the kernel, or in a *)
(* stage behind.                                                            *)
AllCompile == << >>
InFrontEnd(calls) == [c \in calls |-> [output |-> "source", error |-> "CompilationError"]]
InAssertion(calls) == [c \in calls |-> [output |-> "source", error |-> "CompileTimeAssertionFailure"]]
Behind(calls, output) == [c \in calls |-> [output |-> output, error |-> "MLIRCompilationError"]]

OneProcess(refs, script, fails, workers) ==
  [refs |-> refs, src |-> [p |-> Src(1, 1, 1)], globals |-> [p |-> G(0)],
   proc |-> [t \in DOMAIN script |-> "p"], script |-> script,
   fails |-> fails, workers |-> workers, crashes |-> 0]

TwoProcesses(refs, q, g, script, max) ==
  [refs |-> refs, src |-> [p |-> Src(1, 1, 1), q |-> q], globals |-> [p |-> G(0), q |-> G(g)],
   proc |-> [a |-> "p", b |-> "q"], script |-> script,
   fails |-> AllCompile, workers |-> 1, crashes |-> max]

(* Two processes compile the same kernel, one with the same sources and the *)
(* same global as the other, or with an edited helper or another value;     *)
(* either may crash.                                                        *)
Files ==
  {TwoProcesses(GlobalInside, Src(1, 1, h), g, [a |-> <<Launch(K1)>>, b |-> <<Launch(K1)>>], 2) :
     h \in {1, 2}, g \in {0, 1}}

(* Two threads compute keys that depend on each other.                      *)
Keys ==
  {OneProcess(refs, [a |-> <<Launch(ca)>>, b |-> <<Launch(cb)>>], AllCompile, 1) :
     refs \in {Diamond, WithGlobal}, ca \in {K1}, cb \in {L1, H1}}

(* A user's block: two workers, a call that may not compile, a second call  *)
(* with the same compile key, and what can be done afterwards.              *)
Block(last) ==
  <<Enter(FALSE), Warmup(K1), Warmup(K2), Warmup(K1again), Launch(K1), Exit>> \o last

Blocks ==
  {OneProcess(Plain, [a |-> Block(last)], fails, 2) :
     fails \in {AllCompile, Behind({K2}, "npubin"), InFrontEnd({K1, K1again})},
     last \in {<<Launch(K2)>>, <<Enter(FALSE), Launch(L1), Exit>>, <<Launch(L1)>>,
               <<Enter(TRUE), Warmup(L1), Result(L1), Exit, Bench(L1), Launch(L1)>>}}

(* Two threads with a block each.                                           *)
TwoBlocks ==
  {OneProcess(Plain, [a |-> <<Enter(FALSE), Warmup(K1), Launch(K1), Exit>>,
                      b |-> <<Enter(TRUE), Warmup(c), Result(c), Exit, Bench(c)>>], fails, 1) :
     c \in {K1, K1again, L1}, fails \in {AllCompile, InAssertion({K1, K1again})}}

(* The autotuner's batch, and the benchmark of what compiled.               *)
Batch(before) ==
  before \o <<Enter(TRUE), Warmup(K1), Warmup(K2), Warmup(L1), Result(K1), Result(K2), Result(L1), Exit,
              Bench(K1), Bench(K2), Bench(L1)>>

Batches ==
  {OneProcess(Plain, [a |-> Batch(before)], fails, 2) :
     before \in {<< >>, <<Launch(L1)>>},
     fails \in {AllCompile, Behind({K1}, "ttadapter"), InAssertion({K2}), Behind({K1, K2}, "npubin"),
                InFrontEnd({K1}), InFrontEnd({K2}), Behind({K1}, "npubin") @@ InFrontEnd({K2})}}

(* A global changes after the kernel has been compiled, or before a second  *)
(* kernel is that uses it.                                                  *)
Globals ==
  {OneProcess(WithGlobal, [a |-> <<Launch(K1), Set("G", 1), Launch(c), Set("G", 0), Launch(K1)>>], AllCompile, 1) :
     c \in {K1, L1}}

FailingLaunch == {OneProcess(Plain, [a |-> <<Launch(K1), Launch(K2)>>], Behind({K1}, "npubin"), 1)}

Runs == FailingLaunch \cup Files \cup Keys \cup Blocks \cup TwoBlocks \cup Batches \cup Globals

(* A global that changes when only the helper uses it, between launches of  *)
(* two specializations, and after a conflict was raised for the kernel.     *)
GlobalChanges ==
  {OneProcess(GlobalInside, [a |-> <<Launch(K1), Set("G", 1), Launch(K1)>>], AllCompile, 1),
   OneProcess(WithGlobal, [a |-> <<Launch(K1), Set("G", 1), Launch(K2), Set("G", 0), Launch(K2)>>], AllCompile, 1),
   OneProcess(WithGlobal, [a |-> <<Launch(K1), Set("G", 1), Launch(L1), Launch(L1),
                                   Set("G", 2), Launch(L1)>>], AllCompile, 1)}
=============================================================================
