----------------------------- MODULE JitRuntime -----------------------------
(***************************************************************************)
(* JITFunction.run (jit.py) on top of CacheKey and CompileCache, with       *)
(* AsyncCompileMode (_async_compile.py), in which kernels are compiled by   *)
(* the workers of an executor, and the Ascend autotuner's batch of configs  *)
(* (autotuner.py), which uses it.                                           *)
(*                                                                          *)
(* A thread runs a script of statements; one that raises is given up and    *)
(* the script goes on behind it, as at a prompt.  A process may crash and   *)
(* start again with nothing but the files.                                  *)
(*                                                                          *)
(* Further fields of a setup:                                               *)
(*   script   thread -> sequence of statements                              *)
(*   fails    a call that does not compile -> [output, error]: the stage    *)
(*            that raises, and the class of the exception                   *)
(*   workers  workers of every executor                                     *)
(*   crashes  how many crashes there may be                                 *)
(***************************************************************************)
EXTENDS CompileCache

CONSTANTS ThreadIds, MaxFutures   \* bounds on threads and futures of one mode

(* Statements i and j of a script begin and end a with block.               *)
IsBlock(script, i, j) ==
  /\ script[i].op = "enter" /\ script[j].op = "exit"
  /\ \A k \in i + 1 .. j - 1 : script[k].op \notin {"enter", "exit"}

(* A block ends where it says, and none is inside another.                  *)
ASSUME ScriptAssumption ==
  \A s \in Setups : \A t \in DOMAIN s.proc :
    LET script == s.script[t]
    IN  /\ Len(script) \in Nat /\ DOMAIN script = 1 .. Len(script)
        /\ \A i \in DOMAIN script :
             script[i].op = "enter" => \E j \in i + 1 .. Len(script) : IsBlock(script, i, j)
        /\ \A j \in DOMAIN script :
             script[j].op = "exit" => \E i \in 1 .. j - 1 : IsBlock(script, i, j)

(* What is called are functions there are.                                  *)
ASSUME CallAssumption ==
  \A s \in Setups : \A t \in DOMAIN s.proc : \A i \in DOMAIN s.script[t] :
    s.script[t][i].op \in {"warmup", "launch", "bench"} => s.script[t][i].call.fn \in DOMAIN s.refs

VARIABLES
  kernels,   \* process -> the kernel cache: call -> what was compiled
  run,       \* thread -> its state, see Idle
  crashes    \* crashes so far

vars == <<setup, keyVars, cacheVars, kernels, run, crashes>>

Enter(batch) == [op |-> "enter", batch |-> batch]
Exit == [op |-> "exit"]
Warmup(c) == [op |-> "warmup", call |-> c]
Result(c) == [op |-> "result", call |-> c]
Launch(c) == [op |-> "launch", call |-> c]
Bench(c) == [op |-> "bench", call |-> c]
Set(g, v) == [op |-> "set", global |-> g, to |-> v]

Idle == [pc |-> 1, at |-> "ready",
         active |-> FALSE,      \* active_mode is this thread's mode
         open |-> FALSE,        \* its executor takes work
         futures |-> << >>,     \* the mode's futures: their keys and first calls
         handled |-> {},        \* those __exit__ has finalized
         raised |-> FALSE,      \* an exception leaves the with block
         got |-> << >>,         \* what the calls of this block returned
         tuned |-> {},          \* run_fns of the batch
         kernel |-> NoMeaning]  \* what the statement has in hand

Script(t) == setup.script[t]
Ended(t) == run[t].pc > Len(Script(t))
Now(t) == Script(t)[run[t].pc]
Doing(t, ops) == ~ Ended(t) /\ run[t].at = "ready" /\ Now(t).op \in ops
At(t, at) == ~ Ended(t) /\ run[t].at = at

IsAt(t, i, op) == i \in DOMAIN Script(t) /\ Script(t)[i].op = op
ExitOf(t) ==
  CHOOSE i \in run[t].pc .. Len(Script(t)) :
    IsAt(t, i, "exit") /\ \A k \in run[t].pc .. i - 1 : ~ IsAt(t, k, "exit")
EnterOf(t) ==
  {i \in 1 .. run[t].pc - 1 : IsAt(t, i, "enter") /\ \A k \in i .. run[t].pc - 1 : ~ IsAt(t, k, "exit")}
Inside(t) == EnterOf(t) # {}
InBatch(t) == \E i \in EnterOf(t) : Script(t)[i].batch

Future(i) == <<"future", i>>
IsFuture(k) == k[1] = "future"
Job(t, i) == <<t, i>>

Next1(r) == [r EXCEPT !.pc = @ + 1, !.at = "ready", !.kernel = NoMeaning]

(* An exception: to the exit of the with block, or to the next statement.   *)
Raise(t, r) ==
  IF Inside(t) THEN [r EXCEPT !.pc = ExitOf(t), !.at = "ready", !.raised = TRUE, !.kernel = NoMeaning]
  ELSE Next1(r)

SetRun(t, r) == run' = [run EXCEPT ![t] = r]

Remember(t, c, k) == kernels' = [kernels EXCEPT ![Proc(t)] = Bind(@, c, k)]

(*-------------------------- AsyncCompileMode -----------------------------*)

EnterMode(t) ==
  /\ Doing(t, {"enter"})
  /\ IF run[t].active
       THEN SetRun(t, [run[t] EXCEPT !.pc = ExitOf(t) + 1, !.active = ~ Now(t).batch])
       ELSE SetRun(t, [run[t] EXCEPT !.pc = @ + 1, !.active = TRUE, !.open = TRUE,
                                     !.futures = << >>, !.handled = {}, !.got = << >>, !.tuned = {}])
  /\ UNCHANGED <<keyVars, cacheVars, kernels>>

(* FutureKernel.result of future i, once its job has ended well: the first  *)
(* call with its key is the one that enters the kernel cache.               *)
Finalize(t, i) == Remember(t, run[t].futures[i].call, jobs[Job(t, i)].kernel)

(* __exit__: the futures as they complete ...                               *)
ExitOne(t) ==
  /\ Doing(t, {"exit"})
  /\ \E i \in DOMAIN run[t].futures \ run[t].handled :
       /\ Finished(Job(t, i))
       /\ IF jobs[Job(t, i)].at = "failed"
            THEN /\ SetRun(t, [run[t] EXCEPT !.at = "shutdown", !.raised = TRUE])
                 /\ UNCHANGED kernels
            ELSE /\ SetRun(t, [run[t] EXCEPT !.handled = @ \cup {i}])
                 /\ Finalize(t, i)
  /\ UNCHANGED <<keyVars, cacheVars>>

(* __exit__ does not wait for futures nobody took a result of.              *)
ExitModeAtOnce(t) ==
  /\ Doing(t, {"exit"})
  /\ SetRun(t, [run[t] EXCEPT !.at = "shutdown", !.active = FALSE])
  /\ UNCHANGED <<keyVars, cacheVars, kernels>>

(* ... and only then the mode is left.                                      *)
ExitMode(t) ==
  /\ Doing(t, {"exit"})
  /\ run[t].handled = DOMAIN run[t].futures
  /\ SetRun(t, [run[t] EXCEPT !.at = "shutdown", !.active = FALSE])
  /\ UNCHANGED <<keyVars, cacheVars, kernels>>

(* The batch relies on __exit__.                                            *)
LeftActiveAsIs(t) == run[t].active

(* The mode a batch that raised leaves: _batch_bench resets it.             *)
LeftActive(t) == run[t].active /\ ~ (run[t].raised /\ InBatch(t))

JobsOf(t) == {Job(t, i) : i \in DOMAIN run[t].futures}

(* The executor's own exit waits for all its work.  A mode that is left is  *)
(* forgotten, one that stays active keeps its futures.                      *)
Shutdown(t) ==
  /\ At(t, "shutdown")
  /\ \A j \in JobsOf(t) : Finished(j)
  /\ SetRun(t, [Next1(run[t]) EXCEPT !.open = FALSE, !.raised = FALSE, !.active = LeftActive(t),
                                     !.futures = IF LeftActive(t) THEN @ ELSE << >>,
                                     !.handled = {}, !.got = << >>])
  /\ jobs' = IF LeftActive(t) THEN jobs ELSE [j \in DOMAIN jobs \ JobsOf(t) |-> jobs[j]]
  /\ UNCHANGED <<keyVars, dir, kernels>>

(*---------------------------- JITFunction.run ----------------------------*)

CallOf(t) == Now(t).call

StartRun(t) ==
  /\ \/ Doing(t, {"warmup", "launch"})
     \/ Doing(t, {"bench"}) /\ CallOf(t) \in run[t].tuned
  /\ IF CallOf(t) \in DOMAIN kernels[Proc(t)]
       THEN /\ SetRun(t, [run[t] EXCEPT !.at = "check", !.kernel = kernels[Proc(t)][CallOf(t)]])
            /\ UNCHANGED asked
       ELSE /\ SetRun(t, [run[t] EXCEPT !.at = "key"])
            /\ asked' = [asked EXCEPT ![t] = CallOf(t).fn]
  /\ UNCHANGED <<value, hash, used, lock, stack, key, cacheVars, kernels>>

HasKey(t) == At(t, "key") /\ key[t] # NoHash
CompileKey(t) == <<key[t], CallOf(t).spec>>

KeyFails(t) ==
  /\ HasKey(t) /\ key[t] = KeyError
  /\ SetRun(t, Raise(t, run[t]))
  /\ key' = [key EXCEPT ![t] = NoHash]
  /\ UNCHANGED <<value, hash, used, lock, stack, asked, cacheVars, kernels>>

CompileNow(t) ==
  /\ HasKey(t) /\ key[t] # KeyError
  /\ ~ run[t].active
  /\ jobs' = Bind(jobs, Job(t, 0), [NewJob(CallOf(t), CompileKey(t)) EXCEPT !.at = "lookup"])
  /\ SetRun(t, [run[t] EXCEPT !.at = "compile"])
  /\ key' = [key EXCEPT ![t] = NoHash]
  /\ UNCHANGED <<value, hash, used, lock, stack, asked, dir, kernels>>

WithKey(t) == {i \in DOMAIN run[t].futures : run[t].futures[i].key = CompileKey(t)}

(* AsyncCompileMode.submit                                                  *)
Submit(t) ==
  /\ HasKey(t) /\ key[t] # KeyError
  /\ run[t].active
  /\ \/ /\ \E i \in WithKey(t) : SetRun(t, [run[t] EXCEPT !.at = "check", !.kernel = Future(i)])
        /\ UNCHANGED jobs
     \/ /\ WithKey(t) = {} /\ ~ run[t].open
        /\ SetRun(t, Raise(t, run[t]))
        /\ UNCHANGED jobs
     \/ /\ WithKey(t) = {} /\ run[t].open
        /\ \E i \in {Len(run[t].futures) + 1} :
             /\ SetRun(t, [run[t] EXCEPT !.at = "check", !.kernel = Future(i),
                  !.futures = Append(@, [key |-> CompileKey(t), call |-> CallOf(t)])])
             /\ jobs' = Bind(jobs, Job(t, i), NewJob(CallOf(t), CompileKey(t)))
  /\ key' = [key EXCEPT ![t] = NoHash]
  /\ UNCHANGED <<value, hash, used, lock, stack, asked, dir, kernels>>

Compiled(t) ==
  /\ At(t, "compile") /\ Finished(Job(t, 0))
  /\ IF jobs[Job(t, 0)].at = "failed"
       THEN SetRun(t, Raise(t, run[t])) /\ UNCHANGED kernels
       ELSE /\ SetRun(t, [run[t] EXCEPT !.at = "check", !.kernel = jobs[Job(t, 0)].kernel])
            /\ Remember(t, CallOf(t), jobs[Job(t, 0)].kernel)
  /\ jobs' = [j \in DOMAIN jobs \ {Job(t, 0)} |-> jobs[j]]
  /\ UNCHANGED <<keyVars, dir>>

(* Check that used global values have not changed.                          *)
GlobalsMatch(t) ==
  LET known == used[Proc(t)][CallOf(t).fn]
  IN \A g \in DOMAIN known : known[g] = value[Proc(t)][g]

Check(t) ==
  /\ At(t, "check")
  /\ SetRun(t, IF ~ GlobalsMatch(t) THEN Raise(t, run[t])
               ELSE IF Now(t).op = "warmup"
                 THEN [Next1(run[t]) EXCEPT !.got = Bind(@, CallOf(t), run[t].kernel)]
               ELSE [run[t] EXCEPT !.at = IF IsFuture(run[t].kernel) THEN "await" ELSE "launch"])
  /\ UNCHANGED <<keyVars, cacheVars, kernels>>

(* kernel.result() of a launch in the mode                                  *)
Await(t) ==
  /\ At(t, "await") /\ Finished(Job(t, run[t].kernel[2]))
  /\ LET i == run[t].kernel[2] IN
     IF jobs[Job(t, i)].at = "failed"
       THEN SetRun(t, Raise(t, run[t])) /\ UNCHANGED kernels
       ELSE /\ SetRun(t, [run[t] EXCEPT !.at = "launch", !.kernel = jobs[Job(t, i)].kernel])
            /\ Finalize(t, i)
  /\ UNCHANGED <<keyVars, cacheVars>>

LaunchKernel(t) ==
  /\ At(t, "launch")
  /\ SetRun(t, Next1(run[t]))
  /\ UNCHANGED <<keyVars, cacheVars, kernels>>

(*------------------------- the autotuner's batch -------------------------*)

(* The exceptions the loop over the futures catches.                        *)
Caught == {"CompileTimeAssertionFailure", "MLIRCompilationError"}
ErrorOf(j) == setup.fails[jobs[j].call].error

(* The first config that does not compile ends the batch.                   *)
TakeResultOrRaise(t) ==
  /\ Doing(t, {"result"}) /\ CallOf(t) \in DOMAIN run[t].got
  /\ LET c == Now(t).call
         k == run[t].got[c] IN
     IF ~ IsFuture(k)
       THEN SetRun(t, [Next1(run[t]) EXCEPT !.tuned = @ \cup {c}]) /\ UNCHANGED kernels
       ELSE /\ Finished(Job(t, k[2]))
            /\ IF jobs[Job(t, k[2])].at = "failed"
                 THEN SetRun(t, Raise(t, run[t])) /\ UNCHANGED kernels
                 ELSE /\ SetRun(t, [Next1(run[t]) EXCEPT !.tuned = @ \cup {c}])
                      /\ Finalize(t, k[2])
  /\ UNCHANGED <<keyVars, cacheVars>>

(* fut.result() in _batch_bench, for every call of the batch that returned: *)
(* a config whose exception is caught is left out of run_fns, any other     *)
(* exception leaves the with block, and the configs behind it are not asked *)
(* for their results.                                                       *)
TakeResult(t) ==
  /\ Doing(t, {"result"}) /\ CallOf(t) \in DOMAIN run[t].got
  /\ LET c == Now(t).call
         k == run[t].got[c] IN
     IF ~ IsFuture(k)
       THEN SetRun(t, [Next1(run[t]) EXCEPT !.tuned = @ \cup {c}]) /\ UNCHANGED kernels
       ELSE /\ Finished(Job(t, k[2]))
            /\ IF jobs[Job(t, k[2])].at = "failed"
                 THEN /\ SetRun(t, IF ErrorOf(Job(t, k[2])) \in Caught THEN Next1(run[t])
                                   ELSE Raise(t, run[t]))
                      /\ UNCHANGED kernels
                 ELSE /\ SetRun(t, [Next1(run[t]) EXCEPT !.tuned = @ \cup {c}])
                      /\ Finalize(t, k[2])
  /\ UNCHANGED <<keyVars, cacheVars>>

SkipBench(t) ==
  /\ Doing(t, {"bench"}) /\ CallOf(t) \notin run[t].tuned
  /\ SetRun(t, Next1(run[t]))
  /\ UNCHANGED <<keyVars, cacheVars, kernels>>

SetGlobal(t) ==
  /\ Doing(t, {"set"})
  /\ value' = [value EXCEPT ![Proc(t)][Now(t).global] = Now(t).to]
  /\ SetRun(t, Next1(run[t]))
  /\ UNCHANGED <<hash, used, lock, stack, asked, key, cacheVars, kernels>>

(*---------------------------- threads, workers ---------------------------*)

Computing(t) ==
  /\ KeyStep(t)
  /\ UNCHANGED <<cacheVars, kernels, run>>

Compiling(j) ==
  /\ JobStep(j, Proc(j[1]))
  /\ UNCHANGED <<keyVars, kernels, run>>

ThreadStep(t) ==
  /\ t \in Threads
  /\ \/ EnterMode(t) \/ ExitOne(t) \/ ExitMode(t) \/ Shutdown(t)
     \/ StartRun(t) \/ KeyFails(t) \/ CompileNow(t) \/ Submit(t) \/ Compiled(t)
     \/ Check(t) \/ Await(t) \/ LaunchKernel(t)
     \/ TakeResult(t) \/ SkipBench(t) \/ SetGlobal(t)
     \/ Computing(t)
     \/ /\ Job(t, 0) \in DOMAIN jobs
        /\ Compiling(Job(t, 0))
  /\ UNCHANGED <<setup, crashes>>

Busy(t) == {i \in 1 .. MaxFutures :
              Job(t, i) \in DOMAIN jobs /\ jobs[Job(t, i)].at \notin {"queued", "done", "failed"}}

(* A worker takes the oldest job of the executor's queue.                   *)
TakeJob(t, i) ==
  /\ jobs[Job(t, i)].at = "queued"
  /\ \A k \in 1 .. i - 1 : jobs[Job(t, k)].at # "queued"
  /\ Cardinality(Busy(t)) < setup.workers
  /\ jobs' = To(Job(t, i), "lookup")
  /\ UNCHANGED <<keyVars, dir, kernels, run>>

WorkerStep(t, i) ==
  /\ t \in Threads /\ Job(t, i) \in DOMAIN jobs
  /\ TakeJob(t, i) \/ Compiling(Job(t, i))
  /\ UNCHANGED <<setup, crashes>>

Of(p) == {t \in Threads : Proc(t) = p}

Crash(p) ==
  /\ crashes < setup.crashes
  /\ \E t \in Of(p) : ~ Ended(t)
  /\ crashes' = crashes + 1
  /\ value' = [value EXCEPT ![p] = setup.globals[p]]
  /\ hash' = [hash EXCEPT ![p] = [f \in Functions |-> NoHash]]
  /\ used' = [used EXCEPT ![p] = [f \in Functions |-> NoGlobals]]
  /\ lock' = [lock EXCEPT ![p] = [f \in Functions |-> NoThread]]
  /\ stack' = [t \in Threads |-> IF Proc(t) = p THEN << >> ELSE stack[t]]
  /\ asked' = [t \in Threads |-> IF Proc(t) = p THEN NoFunction ELSE asked[t]]
  /\ key' = [t \in Threads |-> IF Proc(t) = p THEN NoHash ELSE key[t]]
  /\ jobs' = [j \in {i \in DOMAIN jobs : Proc(i[1]) # p} |-> jobs[j]]
  /\ kernels' = [kernels EXCEPT ![p] = << >>]
  /\ run' = [t \in Threads |-> IF Proc(t) = p THEN Idle ELSE run[t]]
  /\ UNCHANGED <<setup, dir>>

Init ==
  /\ setup \in Setups
  /\ InitKeys /\ InitCache
  /\ kernels = [p \in Processes |-> << >>]
  /\ run = [t \in Threads |-> Idle]
  /\ crashes = 0

Next ==
  \/ \E t \in ThreadIds : ThreadStep(t)
  \/ \E t \in ThreadIds, i \in 1 .. MaxFutures : WorkerStep(t, i)
  \/ \E p \in Processes : Crash(p)

(* The operating system runs every thread and every worker.                 *)
Fairness ==
  /\ \A t \in ThreadIds : WF_vars(ThreadStep(t))
  /\ \A t \in ThreadIds, i \in 1 .. MaxFutures : WF_vars(WorkerStep(t, i))

Spec == Init /\ [][Next]_vars /\ Fairness

(*------------------------------ properties -------------------------------*)

(* Nobody ever loads a kernel of which a file is missing or half written,   *)
(* though processes compile the same kernel at once and may stop anywhere.  *)
KernelsComplete ==
  /\ \A j \in DOMAIN jobs : jobs[j].kernel # Broken
  /\ \A p \in Processes, c \in UNION {DOMAIN kernels[q] : q \in Processes} :
       c \in DOMAIN kernels[p] => kernels[p][c] # Broken

(* A kernel that is launched was compiled from the sources this process has *)
(* of the function and of all it calls, with the values their globals have  *)
(* now: whoever compiled it, and whatever was edited elsewhere.             *)
LaunchAsWritten ==
  \A t \in Threads : At(t, "launch") => run[t].kernel = Meaning(Proc(t), CallOf(t).fn)

(* jit.py:517: "every time we run the function, we check that the values of *)
(* the globals match what's expected, otherwise we raise an error": what is *)
(* launched was compiled with the values the globals have now.              *)
GlobalsAsExpected ==
  \A t \in Threads :
    At(t, "launch") => GlobalsOf(run[t].kernel) = GlobalsOf(Meaning(Proc(t), CallOf(t).fn))

(* The block the thread entered last, in it or not any more.                *)
LastEntered(t) ==
  {i \in 1 .. run[t].pc - 1 : IsAt(t, i, "enter") /\ \A k \in i + 1 .. run[t].pc - 1 : ~ IsAt(t, k, "enter")}

(* Outside its with blocks a mode stays active only if one of its kernels   *)
(* did not compile, and only after a user's block: a batch cleans up behind *)
(* itself.                                                                  *)
ModeLeftOnlyAfterFailure ==
  \A t \in Threads :
    run[t].active /\ ~ Inside(t) =>
      /\ \E i \in DOMAIN run[t].futures : Job(t, i) \in DOMAIN jobs /\ jobs[Job(t, i)].at = "failed"
      /\ \E i \in LastEntered(t) : ~ Script(t)[i].batch

(* When a block is left without an exception, every kernel that was asked   *)
(* for in it is in the kernel cache, under the first call that asked.       *)
CachedAfterExit ==
  \A t \in Threads :
    At(t, "shutdown") /\ ~ run[t].raised =>
      \A i \in DOMAIN run[t].futures : run[t].futures[i].call \in DOMAIN kernels[Proc(t)]

(* The statements of the block so far that take a result, and those among   *)
(* them that no config in front keeps from being reached: one whose         *)
(* exception the loop does not catch.                                       *)
ResultsOf(t) == {k \in 1 .. run[t].pc - 1 : IsAt(t, k, "result") /\ \E i \in EnterOf(t) : i < k}
EndsBatch(c) == c \in Failing /\ setup.fails[c].error \notin Caught
ReachedBy(t) == {k \in ResultsOf(t) : \A m \in ResultsOf(t) : m < k => ~ EndsBatch(Script(t)[m].call)}

(* A config that fails with an exception the loop catches keeps no other    *)
(* config from being tuned, though __exit__ raises it again; one that fails *)
(* with another (a plain CompilationError of the front end) keeps exactly   *)
(* those behind it: at the end of a batch the rest of those that compile    *)
(* are to be tuned.                                                         *)
FailuresStayAlone ==
  \A t \in Threads :
    At(t, "shutdown") /\ InBatch(t) =>
      run[t].tuned = {Script(t)[k].call : k \in ReachedBy(t)} \ Failing

(* Every thread gets to its end: no lock, queue or future is waited for for *)
(* ever.                                                                    *)
EveryThreadEnds == \A t \in ThreadIds : <>(t \in Threads => Ended(t))
=============================================================================
