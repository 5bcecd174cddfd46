# Triton-Ascend, specified in TLA+

Triton-Ascend compiles Triton kernels for Ascend NPUs.  This project models the parts of it in which
the order of steps decides whether the result is right:

- **The dynamic cube/vector pipeline.**  An Ascend AI core is one *cube* core (matrix products) and two
  *vector* sub-blocks that run independently and share only memory and hardware flags.  The passes of
  `third_party/ascend/lib/DynamicCVPipeline` split the main loop of a kernel between the cores and
  insert everything they need to run it together: buffers, flags, shared counters, conditions, and
  extra loop rounds.  What they emit is a concurrent program that nobody wrote by hand and that tests
  exercise on one hardware schedule at a time.
- **Shared memory and the software pipeline of the GPU path**: which bytes each buffer gets
  (`Allocation`), where threads need barriers and fences (`Membar`, `ProxFenceInsertion`), how a
  loop is cut into stages that work on different iterations at the same time (`ScheduleLoops`,
  `PipelineExpander`), how its loads become asynchronous copies (`LowerLoops`), and what the copies
  and the dots that read them are waited for with (`WGMMAPipeline`).
- **The Python runtime**: keys of functions behind locks, the compile cache that processes share,
  asynchronous compilation and the autotuner's batches.

All paths below are relative to the repository; `lib/` stands for
`third_party/ascend/lib/DynamicCVPipeline/`.

- [Inventory](#inventory) of the system
- [The modelled part](#the-modelled-part): modules, state, actions, correspondence with the code
- [Runs](#runs), their bounds and what they show
- [Fairness](#fairness)
- [Proofs](#proofs)
- [Disagreements](#disagreements-between-documentation-and-code) between documentation and code
- [Observations](#observations) that no run reports
- [Not modelled](#not-modelled)
- [Plan](#plan)

## Inventory

### The dynamic CV pipeline (`third_party/ascend/lib/DynamicCVPipeline`)

| Component | State it keeps | Operations | Hard behaviour | What makes it correct |
|---|---|---|---|---|
| `PlanComputeBlock` | block ids on operations | group operations into cube and vector blocks, reorder | graph cycles between blocks | every dependency leads forwards in the block order |
| `SplitDataflow` (`InterCoreTransferAndSync`, `DataDependencyAnalysis`, `SeparateCVScope`) | per transfer: a buffer in the consumer's memory and a flag id with two directions, "filled" and "empty" | insert copy, wait and set around producer and consumer blocks; set before and wait after the loop | cores run at their own speed; a flag set and not consumed leaks into the next use of the id | a buffer has one owner at a time; the consumer reads the value of its own iteration; no deadlock; no flag left over |
| `AllocMultiCache/AddMultiBufferOuterScope` | a second buffer and flag id per transfer, chosen by `(iv / step) % 2` | clone buffers, wrap sets and waits in `scf.if` | two cores must choose the same buffer at different times; negative induction variables | as above, per buffer |
| `AllocMultiCache/AddMultiBufferInnerScope` | N copies of a value passed between two vector blocks | index the copies by the iteration modulo N | producer several iterations ahead of the consumer | the consumer reads what its own iteration wrote |
| `AddControlFlowCondition/CreateIfOps`, `InitDependentMap` | map from dependencies to tags, blocks and capacities | wrap every block into `scf.if` | numbering of producers and consumers must agree | every dependency is counted by both of its ends |
| `AddControlFlowCondition/UpdateForOps` | a loop-carried counter per block and per intra-core dependency; flag 15 | extend the loop's iteration arguments; one set and one wait of flag 15 per round, one more set where a vector scope opens, one more wait where the cube scope closes | one id, two directions, three cores; loops with zero rounds | the flag is a token: pending for at most one side, none left at the end |
| `AddControlFlowCondition/UpdateConditionInfo` | the SSBuffer: one word per cross-core dependency and sub-block, in shared memory | load, test, decrement or increment, store | plain loads and stores by three cores; cleared by each of them at its own time | each word is the number of items in flight |
| `AddControlFlowCondition/UpdateLoopIterTimes` | the new upper bound | factor from dependencies and buffers, bound arithmetic in the generated code | machine integers, unsigned division; enough rounds for every graph | every block runs once per original iteration, and no more |
| `Common/FlagIdManager`, `BufferCountManager`, `MemoryEffectsTracker` | ids in use, buffer counts, effects | acquire and release at compile time | ids run out at 14 | an id is never given to two live transfers |
| `SeparateMemoryFromCompute` | prefetch buffers for global loads | hoist loads, multi-buffer them | load of iteration i+1 racing with use of i | as for transfers |

The passes interact only through the IR: `PlanComputeBlock` gives block ids, `SplitDataflow` makes
two copies of the loop with transfers between them, `AllocMultiCache` multiplies buffers,
`AddControlFlowCondition` makes blocks conditional and the loop longer.  The *generated* cores
interact through the SSBuffer, the transfer buffers, the per-transfer flags and flag 15.

### The GPU path's analyses and transforms (`lib/Analysis`, `lib/Dialect/TritonGPU/Transforms`)

| Component | State it keeps | Operations | Hard behaviour | What makes it correct |
|---|---|---|---|---|
| `AllocationAnalysis` | offsets, the list of free (offset, interval) triples, the interference graph | greedy start offsets, then colouring until nothing interferes | partitions of a warp-specialised loop run side by side; alignment after placement; a fixpoint without a bound | no byte has two live owners; it ends |
| `MembarAnalysis`, `ProxyFenceAnalysis` | per block: accesses no barrier has ordered; per function: those pending at its return | walk a work list of blocks, insert barriers or fences while walking | the transfer function changes the program it analyses and is not monotonic; loops, branches, calls, scratch buffers | no race on any path; it ends; nothing is inserted twice |
| `ScheduleLoops` | stage and cluster of each operation | latencies to stages, `if` and dependencies, distance-1 users, the rest | several passes over a schedule others have begun | an operation comes after what it uses, in its own iteration and the next |
| `PipelineExpander` | versions of each value, iteration arguments, predicates | prologue, kernel, epilogue | fewer iterations than stages; loops of zero trips; values used several stages later | the pipelined loop computes what the loop computes |
| `LowerLoops` | N buffers for a load, counters for the buffer to fill, the buffer to read and the phase of its barrier | loads to copies with commit groups or barriers, read where they are first used | copies several iterations ahead; a ring of buffers; barriers shared by copies; parity as the only memory of a barrier | a read sees the copy of its own iteration |
| `WGMMAPipeline` | the number a wait leaves outstanding, dots in flight | `updateWaits`, `combineRedundantWaitOps`, `asyncLaunchDots` | numbers that hold in prologue and kernel, on the first turn and on the tenth; dots that still read when the next copies start | a copy has arrived when it is read; no buffer is overwritten under a dot |
| Warp specialisation, layouts | IR | partitions of a loop, barriers between them | partitions side by side | as for transfers |

`ScheduleLoops` hands `LowerLoops` and the expander attributes on operations; the wait numbers are
computed on what the expander has emitted; `Allocation` hands `Membar` offsets.

### The Python runtime (`python/triton`, `third_party/ascend/backend`)

| Component | State | Operations | Hard behaviour | What makes it correct |
|---|---|---|---|---|
| Compile cache (`runtime/cache.py`, `compiler/compiler.py`) | a directory per key; a group file naming its members | `put` (temporary file, `os.replace`), `get_group`, `put_group`, `compile` | processes compile the same key at once; a crash between members and group file | a group that is found is complete and of the sources the key stands for |
| JIT (`runtime/jit.py`) | per function: key behind a lock, globals used, kernel cache | `cache_key`, `run`, `_do_compile` | locks taken along the call graph; globals that change | what is launched is what the source says |
| Async compilation (`runtime/_async_compile.py`) | active mode of a context, futures by key | `submit`, `result`, `__enter__`, `__exit__` | failure of one future; duplicate submissions; a closed executor | the mode ends with its block; results reach the kernel cache |
| Ascend autotuner (`backend/runtime/autotuner.py`) | configs that compiled, timings | `_batch_bench`, pruning, benchmark | exceptions in the middle of a batch, some caught per config, others not | a failure that is caught costs no other config its place |
| libentry | second kernel cache in front of the JIT | look up, fill | look-up without the lock, checked again behind it | one kernel per key |

`run` calls `cache_key`, which calls that of each callee; `_do_compile` calls `compile` or hands it to
the mode's executor, and `compile` looks into the shared directory first.

### The rest of the repository

| Component | State | Hard behaviour |
|---|---|---|
| Proton profiler (`third_party/proton`) | sessions, correlation ids, queue of external ids per thread | buffers completed on another thread; nested scopes |
| Ascend lowering (`TritonToLinalg`, ...), `TritonAffinityOpt` | IR | sequential rewriting |
| `TritonInstrument` (concurrency sanitizer), NVIDIA, AMD, linear layouts | IR, shadow state | sequential |
| Front end, interpreters, tools, driver | AST, IR, numpy arrays | I/O, translation |

## The modelled part

```
 BoundedDataflow      what the pipeline promises (abstract)
        ^  refines, with done[b] = executions of block b
    SSBuffer -------- extends ----+          ConditionalLoopProofs
   MCSSBuffer      ^              |
                   |              |
   ConditionalTransfers           |          SSBuffer with the flags inside its blocks
                                  |          (ConditionalLoopProofs too)
                            LoopExtension    bound arithmetic (pure operators)
   LoopRounds  ---- extends ------+          LoopExtensionProofs (lemmas), LoopRoundsProofs
   LoopBound   ---- extends ------+          LoopBoundProofs
   TransferSync                              one transfer layer below SSBuffer
                                             TransferSyncProofs

   Allocation     Membar                     shared memory: offsets, then barriers
                                             AllocationProofs, MembarProofs

   LoopSchedule <-- LoopLowering <-- LoopExpander <-- AsyncCopies
                                             schedule a loop, lower its loads, expand it, run it

   CacheKey <-- CompileCache <-- JitRuntime  keys, files, threads and processes
                                             JitRuntimeProofs
```

Each `MC...` module instantiates one of these for TLC.

### `LoopExtension` – `UpdateLoopIterTimes.cpp`

Pure operators.  `Factor` is what `calculateFactor` computes for one dependency (`req` rounds every
`x` iterations); `CalculateFactor` takes the largest one by cross multiplication, as
`collectForOpsAndUpdateMax` does.  `NewUpperBound` is the generated code operation by operation, in
integers of `Width` bits with the unsigned `ceildivui`; `NewTripCount` is what `scf.for` makes of
it.  No operator is `RECURSIVE`.

### `SSBuffer` – the program `AddControlFlowCondition` emits

Each core `c` is a process with its own position: `pc[c]`, `pass[c]` (executions of the loop),
`round[c]`, `blk[c]`.

| Variable | In the generated program |
|---|---|
| `counter[c][b]` | the iteration argument added for block `b` (`extendForOpWithExtraArgs`); it starts at the lower bound and is advanced by the step when the block runs |
| `var[s][d]` | the iteration argument that counts an intra-core dependency |
| `stat[d][s]` | the SSBuffer word of dependency `d` in the copy of sub-block `s` |
| `held[c][d][s]` | what the core loaded from that word, until it stores the changed value |
| `toCube[s]`, `toVector[s]` | flag 15, pending in either direction |
| `slot`, `islot`, `runs` | history: which execution wrote a buffer last, and how often a block ran |

Initially the SSBuffer words have any value (0 or 1 stand for "right" and "wrong"): memory is not
cleared before the kernel.

| Action | Code |
|---|---|
| `ZeroSSBuffer` | `allocSSBuffer`: stores of zero ahead of the first scope, on every core |
| `OpenScope`, `CloseScope` | `insertSyncOpsForVector`, `insertSyncOpsForCube` |
| `Wait`, `NextRound`, `EndPass` | the wait at the start and the set at the end of each round (`insertSyncOpsForForOp`) |
| `EnterBlock`, `SkipBlock` | the `scf.if` on `combineConditions`: counts of inputs, room in outputs, counter below the original bound |
| `RunBody` | the block: fills the buffers its indices select, then loads the words it will change |
| `Publish` | the end of the then-region: stores `held + Delta`, yields counts and counter |

`RunBody` and `Publish` are separate steps, and the loaded value is kept in between, because the
update is a load and a store without any lock: another core may act in between unless flag 15 stops
it.  A vector block that is entered touches only its own copy, a cube block both.  `Advance` skips
nothing: all blocks are tested in order in every round.

The values that flow are not modelled; `slot`/`islot` record for which iteration a buffer was
filled, which is what `FreshInput` compares.

### `BoundedDataflow` – what is promised

Each block fires `Total` times; a firing needs an item on each incoming edge and room on each
outgoing edge.  No cores, rounds, counters or flags.  `SSBuffer!ImplementsDataflow` is the
refinement (`done[<<c, b>>] <- runs[c][b]`), and includes the fairness of the abstraction: a block
that can fire does.  The `Total` of the abstraction is the original trip count times the passes, so
the refinement fails both if a block runs once too often and if the rounds end too early.

### `LoopRounds` – are the rounds enough, for every dependency graph?

`SSBuffer` answers for one graph.  Here the graph is chosen by `Init` and the loop is run as a
schedule: in every round the cube's blocks, then a vector's.  `SSBuffer!ExclusiveAccess` justifies
the alternation, and the two sub-blocks see the same counts, so that one stands for both.  `Steady(g)` says of a graph
that its buffers let every block keep pace with the loop; for those graphs the rounds are enough (run `steady`, and
`SteadyGraphsAreComplete`).

### `LoopBound` – the arithmetic against its specification

`Init` chooses bounds, step, block count and intra-core dependencies; `Extend` does what the generated
code does ahead of the loop.  Properties compare the result with the formula in the pass's comments.

### `TransferSync` – the program `SplitDataflow` emits

The layer below the conditions: unconditional blocks with a copy into the consumer's buffer and two
counters per flag id.  `filled[d][i][s]` and `empty[d][i][s]` are `sync_block_set` from producer to
consumer and back.  `Buffers = 2` adds the second buffer of `AddMultiBufferOuterScope` with the
index `(iv / step) % 2` (division towards zero, so indices of negative induction variables are
covered).  V→C transfers are inserted before C→V ones, each at what is then the end of the block:
`ReleaseInputs` comes before the sends on the cube and after them on a vector.  `Start` and `Drain`
are the sets ahead of the loop and the waits after it.

### `ConditionalTransfers` – conditions and transfer flags together

`AddControlFlowCondition` wraps a block together with the waits and sets `SplitDataflow` has put into it, so the
generated program has both: a condition on counts ahead of the block, and inside of it waits for flags, made while
the core holds flag 15.  The module extends `SSBuffer`; `at[c]` is where a core is between two steps of `SSBuffer`,
`filled` and `empty` are the flags as in `TransferSync`.  `Enter` is `EnterBlock`; then follow `AwaitInputs`,
`AwaitRoom`, `SignalData`, `ReleaseInputs` in the order of their core, and `LoadWords` and `StoreWords` are
`RunBody` and `Publish`.  `Declare` and `Drain` surround each *execution* of the loop (`TransferSync` has only one).
`FlagsAreTransparent` is the specification of `SSBuffer`, fairness included, as a property of the composition: each
of its steps is one of `SSBuffer` or leaves its state alone by construction, what is checked is that no core is held
up for ever.

### `Allocation` – `AllocationAnalysis`

A step is one turn of one of the pass's loops over buffers.  `CalculateStarts` is the greedy first phase: take
the lowest triple, place a buffer in it or throw it away; `TriplesAfter` are the triples that follow one.  Then
`computeOffsets`' loop: `BuildInterferenceGraph`, `Color` (one buffer: the first colour no neighbour has), `Move` (one
buffer: if it is not of the first colour, above its neighbours as they lie *now*, aligned), and the graph again,
until it is empty.  Two buffers interfere if they overlap in memory and either in time or as `SideBySide` says: their
owners lie in different regions of one `warp_specialize` op.  Buffers come with size, alignment, lifetime, that op
(`ws`, 0 for none) and the region; how MLIR liveness and alias sets give lifetimes is not modelled.

### `Membar` – `MembarAnalysis` and `ProxyFenceAnalysis`

Two phases.  In the first the analysis runs, with a step for each thing its loops do: `StartBlock` takes a block off the
work list with the accesses pending at its start (`block`, `blockInfo`), `VisitOp` applies `update` to the operation at
`pos` and splices what takes its place, a barrier or fence before or behind it included, into `code`; `EndBlock` compares the
result with the last one (`Unchanged`), keeps it and joins it into the successors' inputs.  `FinishFunction` joins what
is pending at the returns into `funcInfo`, which calls of the function use.  In the second phase the program *with the
inserted barriers* is executed along every path, calls included; `pending` is what the threads may have in flight since
the last barrier.  `NoRace` speaks about the execution, not about the analysis.

`CallsInPlace` and `CallsTold` say which calls the analysis is right about: the callee's frame begins where
its caller's does, and the callee's summary has all that the callee does, not only what is pending when it
returns (see [Observations](#observations) for the others).

### `LoopSchedule`, `LoopLowering`, `LoopExpander`, `AsyncCopies` – the software pipeliner

`LoopSchedule` has one action for each pass over the schedule in `scheduleLoop`: `InitialSchedule` from latencies (`scheduleKeyOps`) or
attributes (`deSerialize`), `if` operations, dependencies, distance-1 dependencies, the remaining
operations.  `LoopExpander` then emits and executes the pipelined loop in one go, an operation
per step: prologue parts, the kernel with its predicates, epilogue parts with the selects on how many
iterations there were.  The value of operation `k` in iteration `n` is the token `<<"op", k, n>>`, and
an operation yields its token only if its operands are those of iteration `n` of the original
loop: what is checked is which *version* of a value an operation uses.

Between the two, `LowerLoads` replaces each load whose users are stages away by what `createAsyncCopy` or
`createTMAAsyncCopy` makes of it, and adds the counters; `role` says what each operation of the new loop
stands for.  `buffers` is the number of buffers (`getDefUseStageDiff`, one more for dots that read the buffer
itself), `barrierOf` the barrier that descriptor loads share (`createTMABarrierAndWait`).  The second
`scheduleDependencies` places the counters, with the actions of `LoopSchedule`.  `KeepLoads` is a loop without
such loads.

`AsyncCopies` adds shared memory to the expander's steps: each operation it runs also does what it does to
buffers, commit groups, barriers or dots.

| Variable | In the generated program |
|---|---|
| `prologueWaits`, `kernelWaits` | the numbers of the waits that are left after `updateWaits` and `combineRedundantWaitOps` |
| `filled[k][i]` | the iteration whose copy was issued last into buffer `i` of load `k`, with its commit group or phase |
| `groups`, `arrived` | commit groups so far, and how many of them a wait has seen arrive |
| `begun[k][i]`, `over[k][i]` | phases a barrier was armed for, and those a wait has seen end |
| `reading` | the buffers read by dots that have been launched and not been awaited |
| `mishaps` | history: a read of the wrong or of a late copy, a barrier armed too early or never armed, a buffer overwritten under a dot |

Nothing arrives before it is awaited, which is the slowest the hardware can be; a copy under `predicateOp`
that is masked writes zeros, and commits, waits and reads are never masked.

### `CacheKey`, `CompileCache`, `JitRuntime` – the Python runtime

| Variable | In the code |
|---|---|
| `hash[p][f]`, `used[p][f]`, `lock[p][f]` | `JITCallable.hash`, `used_global_vals`, `_hash_lock` of function `f` in process `p` |
| `stack[t]`, `asked[t]`, `key[t]` | the `cache_key` calls thread `t` is in, the one it is about to make, the result |
| `value[p][g]` | a constexpr global of the process |
| `dir[k]` | the directory of compile key `k`: files and the group file's list |
| `jobs[j]` | one call of `compile()`: by a thread (`<<t, 0>>`) or a worker (`<<t, i>>`) |
| `kernels[p]` | `kernel_cache` of all functions of the process |
| `run[t]` | where the thread is in its script and in `JITFunction.run`; its `AsyncCompileMode` with futures and executor |

A key is the record of what was hashed into it, `Reach` the functions a kernel is made of (the smallest set closed under calls), a compiled kernel the record of the sources and values the
code generator saw (`Meaning`); `LaunchAsWritten` compares the second with what the launching process
has.  `setup.fails` says which calls do not compile, at which stage and with which exception (`FailAssumption`): `make_ir`
raises its own, a `CompilationError` or its subclass `CompileTimeAssertionFailure`, unwrapped (`compiler.py:303`), every
later stage an `MLIRCompilationError` (`compiler.py:324`).  A `static_assert` in the kernel's own body is a
`CompileTimeAssertionFailure`; one in a function it calls reaches `make_ir` as a `CompilationError`
(`code_generator.py:1356`).  A thread's script is a list of statements (`Enter`, `Warmup`, `Result`, `Launch`, `Bench`, `Set`,
`Exit`); a statement that raises is given up as at a prompt, inside a with block after `__exit__` and
the executor's own exit.  `Crash` stops a process between any two steps and starts it again with nothing
but the files.

| Action | Code |
|---|---|
| `KeyKnown`, `KeyBegin`, `FinishKey` | `cache_key` under its lock |
| `VisitGlobal`, `VisitCall`, `VisitConflict` | `record_reference`, `_update_hash` and its `RuntimeError` |
| `Lookup`, `Stage`, `Put`, `Rename`, `PutGroup`, `Load` | `compile`: `get_group`, the stages, `put` (temporary file, then `os.replace`), `put_group`, `CompiledKernel` |
| `StartRun`, `CompileNow`, `Compiled`, `Submit`, `Check`, `Await`, `LaunchKernel` | `JITFunction.run` and `_do_compile` |
| `EnterMode`, `ExitOne`, `ExitMode`, `Shutdown` | `AsyncCompileMode`, then `ThreadPoolExecutor.__exit__` |
| `TakeResult`, `SkipBench`, `LeftActive` | `_batch_bench`: results with the exceptions of `Caught` caught and others leaving the block, `run_fns`, the reset of `active_mode` |
| `TakeJob` | a worker takes the oldest job |

The with block of `_batch_bench` and a user's differ in what becomes of an exception:
the batch swallows it and resets `active_mode`, the user's keeps the mode.  The block in the Ascend autotuner's
`warmup` is of the second kind: its exceptions go to the caller and nobody resets the mode, so what
`ModeLeftOnlyAfterFailure` says of a batch is not said of it.

## Runs

| Run | Module, instance | Distinct states | Shows |
|---|---|---|---|
| `attention` | `MCSSBuffer`: cube and two sub-blocks, the four-block attention loop of `crossCoreDeps_test.mlir`, 3 iterations, executed twice | about 800 | exclusive access, exact counts, balanced flags, the dataflow and its progress |
| `conditional` | `MCConditionalTransfers`: three cube and three vector blocks in turn, the first cube block feeding two vector blocks and the first vector block the last, two buffers everywhere, loop from 1 to 14 by 2, twice | 13 000 | flags and conditions agree; freshness and completeness with full buffers and stalled blocks, several buffers and a step, a factor of 3/2 |
| `steady` | `MCLoopRounds`: every forward graph between 2 cube and 3 vector blocks, 1 or 2 buffers, up to 4 iterations | 1.6 million | where the buffers allow a steady schedule the rounds are enough |
| `loopbound` | `MCLoopBound`: bounds -9..24, steps 1 and 3, 7-bit integers, up to two dependencies | 830 000 | the generated arithmetic agrees with the formula and covers each dependency |
| `transfers` | `MCTransferSync`: every set of forward transfers between 2 cube and 2 vector blocks; single buffers in loops from 0 (up to 2 iterations), and two buffers in loops from -1 by 2 (up to 3 iterations) | 570 000 | hand-over, freshness, no deadlock, nothing left over, also across the sign change |
| `allocation` | `MCAllocation`: four buffers of sizes 1 and 3, three buffers with alignment 4 in three regions of two `warp_specialize` ops, every combination of lifetimes | 370 000 | no overlap; the phases end |
| `membar` | `MCMembar`: all choices of operations in a loop, a branch, a nested loop, a loop with a call; the same for fences | 133 000 | no race, no double barrier, the walk ends |
| `pipeline` | `MCLoopExpander`: every wiring of three operations and an argument; expansion for 0 to 4 iterations, bounds known or not, epilogue peeled or not; loops with one or two copied loads | 170 000 | schedule, lowering and expansion keep the loop's meaning; copies arrive in time |
| `runtime` | `MCJitRuntime`: two threads or two processes (up to two crashes), seven families of scripts, three files per kernel, failures at each of them | 110 000 | complete kernels, launches as written, everybody ends |
| `sufficient` | `MCLoopRounds` | violated | see below |
| `emptyloop` | `MCLoopBound` | violated | see below |
| `globals` | `MCJitRuntime` | violated | see below |

The properties:

- `ExclusiveAccess` (attention; proved for all instances): while a core works on the SSBuffer nobody clears it, and the cube
  and a vector never use it together.
- `CountsAreOccupancy` (attention; proved for all instances): from the first clearing on, each word is producer executions
  minus consumer executions and lies in `0 .. cap`.
- `FreshInput` (conditional and transfers; proved for all instances, see [Proofs](#proofs) for the conditions): while a block runs, each input buffer it
  selects holds the value of the same iteration.
- `IterationsComplete` (conditional; proved for all steady kernels, its half `NeverTooOften` for all instances): each finished execution of
  the loop ran each block exactly once per original iteration.
- `FlagsBalance` (attention; proved for all instances): flag 15 is pending for at most one side, and for none at the end.
- `Termination` (transfers): all cores reach the end.
- `ImplementsDataflow` (attention; its steps proved): refinement of `BoundedDataflow`, with liveness.
- `BlocksNeverStall` (conditional; proved under the same conditions): a block whose condition holds finds the flags of its transfers; it waits at most
  for a consumer that is between two executions of the loop and comes to declare its buffers without flag 15.
- `FlagsMatchCounts` (conditional; proved for all instances): outside of the two blocks concerned, the SSBuffer word of a transfer is the
  number of its "filled" flags, and "empty" are the other buffers, plus one of each for an execution the consumer
  has declared and the producer not yet reached.
- `FlagsAreTransparent` (conditional; its steps proved): the composition implements `SSBuffer`, progress included.
- `SteadyGraphsComplete` (steady; proved for all instances): with buffers for a steady schedule the extended loop is
  long enough, for every graph.
- `NonEmptyLoopExtended`, `EveryDependencyCovered` (loopbound; proved for all instances): the generated arithmetic
  gives the documented number of rounds, and that is enough for every dependency inside the vector loop.
- `TriplesLast`, `MemoryIsSound` (proved for all instances), `Termination` (allocation): the greedy phase never runs out of triples,
  though it throws away those that fit no buffer; no byte is shared by two buffers that are live
  together or in partitions that run side by side; moving buffers up does not go on for ever.
- `NoRace`, `DanglingCovered`, `NoDoubleBarrier`, `NoProxyRace` (proved for all instances, see [Proofs](#proofs) for the conditions on
  calls), `AnalysisTerminates` (membar): between
  two barriers no byte is written by one thread and touched by another, on any path; what a caller is
  told about a callee covers what the callee really leaves pending; blocks are visited again without
  being given the same barrier again; a copy of the TMA unit is fenced from ordinary accesses.
- `DependenciesHold`, `CarriedHold`, `LatencyKept` (pipeline, about the schedule): definitions before uses
  in the same iteration and, for carried values, in the next; a load's users stay as many stages away
  as its latency asks.
- `OperandsAsInLoop`, `ResultsAsInLoop`, `PipelineTerminates` (pipeline, about the expansion): each operation has
  the operands of its own iteration, runs once per iteration, and the results are the loop's.
- `CopiesArrive`, `DotsKeepOperands` (pipeline, about the copies): what is read from a buffer is the copy of the
  same iteration, it has been awaited, no barrier takes one phase for another, and nothing is under way when the
  buffers are given up; no copy goes into a buffer that a dot may still be reading.
- `KernelsComplete` (proved for all instances), `LaunchAsWritten` (proved where no global is set and no function calls itself) (runtime): no kernel is loaded of which a file is missing or half
  written; what is launched was compiled from the launching process's sources and globals, whoever
  compiled it.
- `ModeLeftOnlyAfterFailure`, `CachedAfterExit` (proved for all instances), `FailuresStayAlone` (proved for batches like the
  autotuner's), `EveryThreadEnds` (runtime): a mode
  stays active only behind a user's block and after one of its compiles failed, never behind a batch; a block left normally leaves
  all its kernels in the cache; what a batch has to tune at its end are exactly the configs that compile, up to the first
  one whose exception its loop does not catch – a failure that is caught costs no other config its place, one that is not costs
  those behind it; no lock, queue or future is waited for for ever.
- `OneOwner`, `FlagsDrained` (transfers; proved for all instances): at every moment a buffer belongs to exactly one of: a
  pending flag, the producer that copies, the consumer that reads.

Each property has at least one mutant in `PROJECT.json`: a plausible mistake in a pass (a full buffer
that passes as free, the loop's induction variable in place of the block's counter, the closing
wait forgotten, the block count not added, ...), kept as an operator next to the definition it
replaces, that makes the property fail in its own run.

### Bounds

- *Two sub-blocks*, as in the hardware: the smallest number at which "the cube waits for all" and
  "for one" differ.
- *Two executions of the loop*: the smallest at which counters restart and the SSBuffer does not.
- *Three iterations, one or two buffers* (seven in `conditional`): more iterations than buffers, so
  that each buffer is reused; in `conditional` the chain is slower than its first block, and seven
  iterations are what that block needs to meet its capacity limit.
- *`Width`* is 16 where overflow plays no part, 7 in `LoopBound`, where it does; `Fits` names the
  inputs for which nothing overflows.
- *`MaxIterations`* (2 to 4) bounds trips in the modules where they are a variable; with up to three
  blocks on the vector the schedule is periodic after the factor's denominator (at most 2).
- Flags are counters without a maximum: `OneOwner` and `FlagsBalance` show that they never pass 1 in one execution
  of the loop; with an outer loop `empty` may reach 2, see [Observations](#observations).

- *Allocation*: three to four buffers are needed for a chain of conflicts that moves a buffer twice;
  sizes 1 and 3 leave gaps that fit and gaps that do not; alignment 4 is above every size it is
  combined with.  Three regions in two ops are same region, same op and different ops.
- *Membar*: three blocks with up to two operations make every order of two accesses around a back edge;
  two intervals and one that overlaps both are all the relations intervals can have here.
- *Pipeline*: three operations give a producer, a user in between and a last user; stage counts of up to
  five against 0 to 4 iterations make every part of prologue and epilogue run or be switched off.
- *Copied loads*: one or two, of latency 1 to 3 (2 to 4 stages), by commit groups, by barriers, one of each,
  or one that gives the address of the other; read by dots or into registers, with or without a branch between
  two waits.  Four to six iterations let every ring wrap, and every barrier come back to a parity; two or none
  end inside the prologue.  The epilogue is not peeled, as `SoftwarePipeliner` asks.
- *Runtime*: `MaxFutures` 3, two workers, two calls with one compile key.  A call graph of three
  functions has a function reached on two ways.  Two crashes let a process meet what another and its
  own former self have left.  Three files per kernel (`MCOutputs`: the front end's, one of a stage between, the binary) let a
  call fail in the front end, in the middle and at the end; a batch of three configs has one before and one behind the
  one that fails.

Only `Sub` could be declared symmetric; it is not, since the runs check liveness too.

### Deadlock

TLC's deadlock check is on in every run but `runtime`, in which scripts simply come to their end:
there `EveryThreadEnds` says that nothing else stops.  In the others the normal end is an explicit
stuttering step.

## Fairness

`SSBuffer`, `TransferSync` and `ConditionalTransfers` assume weak fairness of each core's step, one conjunct per core.  The
cores are separate processors that execute their own instruction streams; the only instruction that
does not complete by itself is `sync_block_wait`, which completes once the flag is set.  A flag a
core waits for is only consumed by that core, so the wait, once enabled, stays enabled, and weak
fairness is enough.  No fairness between blocks, rounds or cores is assumed.

`Allocation`, `Membar` (its first phase) and the software pipeliner (`AsyncCopies`, with the steps of the three
modules below it) are sequential computations that keep running: weak fairness of their step.  The execution phase of `Membar` has
none, a kernel may loop for ever.  `JitRuntime` has weak fairness per thread and per job of an
executor: the operating system runs every thread, and a lock or a worker that is free is free for
good unless another thread takes it, which happens finitely often.  Crashes are not fair and are bounded
by the setup.

## Proofs

A theorem holds for every value of the constants that satisfies the assumptions it names; the runs show the same
properties on small instances.  The assumptions are about constants and are evaluated by TLC in the runs.

| Module | About | Theorems |
|---|---|---|
| `ConditionalLoopProofs` | `SSBuffer` | `TypeCorrect`, `AccessIsExclusive`, `CountsNeverDrift`, `FlagsAreBalanced`; `BlocksStopInTime`, `OnePassInputsAreFresh`, `InputsAreFresh`, `OnePassStepsOfTheDataflow`, `StepsOfTheDataflow`; `SteadyKernelsComplete`, `SteadyInputsAreFresh`, `SteadyStepsOfTheDataflow` |
| | `ConditionalTransfers` | `FlagsAddNoStep`, `FlagsAgreeWithCounts`, `OnePassNeverStalls`, `NeverStalls`, `SteadyNeverStalls` |
| `LoopRoundsProofs` | `LoopRounds` | `SteadyGraphsAreComplete` |
| `LoopExtensionProofs`, `LoopBoundProofs` | `LoopExtension`, `LoopBound` | `LoopIsExtended`, `DependenciesAreCovered` |
| `TransferSyncProofs` | `TransferSync` | `TypeCorrect`, `BuffersHaveOneOwner`, `FlagsAreDrained`, `InputsAreFresh` |
| `AllocationProofs` | `Allocation` | `TriplesAlwaysLast`, `MemoryAlwaysSound` |
| `MembarProofs` | `Membar` | `NoThreadRaces`, `NoProxyRaces`, `SummariesCover`; `PlainNoRace`, `PlainNoProxyRace`, `PlainDanglingCovered`; `NoSecondBarrier` |
| `JitRuntimeProofs` | `JitRuntime` | `KernelsAlwaysComplete`, `ExitCachesEverything`, `ModesAreLeft`, `KernelsAreLaunchedAsWritten`, `FailingConfigsStayAlone` |

`ConditionalLoopProofs` is about two modules, of which one extends the other; its proofs about `SSBuffer` use none of the
definitions and assumptions of `ConditionalTransfers`.

### `ConditionalLoopProofs`: access and counts

The first part proves, for every number of sub-blocks, block counts, dependency graph, capacities,
loop bounds, step, passes and integer width:

| Theorem | Statement |
|---|---|
| `TypeCorrect` | `Spec => []TypeOK` |
| `AccessIsExclusive` | `Spec => []ExclusiveAccess` |
| `CountsNeverDrift` | `Spec => []CountsAreOccupancy` |
| `FlagsAreBalanced` | `Spec => []FlagsBalance` |

from the assumptions on the constants `CoreAssumption`, `BlockAssumption`, `CrossAssumption`,
`IntraAssumption`, `LoopAssumption`, `WidthAssumption` and `PowerAssumption`.  `IntraAssumption` is the case in which
`UpdateLoopIterTimes` does not give up (finitely many dependencies, all forwards); `CrossAssumption` says that a
dependency names existing blocks and has one or two buffers; `LoopAssumption` that the bounds are numbers of
the loop's type and the step is positive.  `PowerAssumption` is a fact, not a restriction: that
`2 ^ (Width - 1)` is a positive integer and `2 ^ Width` twice as much follows from `Width \in Nat \ {0}`, but the provers
have no axioms about powers.

**The argument.**  `ExclusiveAccess` is not inductive: nothing in it says why the cube cannot pass
its wait.  The strengthening `AccessInv` is `TypeOK /\ Token /\ BeforeAll`:

- `Token`: for each sub-block `s`, exactly one of these holds – `s` has not opened its scope, a flag
  is pending for the cube, a flag is pending for `s`, `s` is between its wait and its set, the cube is
  between its wait and its set, or the cube has taken the closing flag.  Flag 15 *is* a token of the
  pair (cube, `s`), and the set that opens the vector's scope creates it.
- `BeforeAll`: a core that has not cleared the SSBuffer yet has not handed its token to anybody, which
  is why nobody clears it once a block has started although every core clears it in its own time:
  the cube must have cleared before it waits, and it waits for every sub-block, each of which clears
  before it sets the flag.

`TokenStays`, `TokenTaken` and `TokenGiven` say how the three kinds of step act on the token;
`HolderIsAlone` draws the conclusion.  `FlagsBalance` is another consequence of `Token`: pending flags are two of its
cases, of which only one holds, and at the end the token is with the cube, which has taken the closing flag.

`CountsAreOccupancy` needs more: the update is a load and a store, and the conditions are tested
before both.  `CountInv` adds

- `HeldIsCurrent`: between load and store, what the core loaded is still what the word holds, because
  the other side cannot have the token, and the other sub-block has words of its own;
- `StillEnabled`: between the test and the store the condition still holds, for the same reason; so
  the decrement does not go below zero, nor the increment above the capacity.

`OthersApart` is the fact that a word is touched by two cores only if one is the cube and that the
two ends of a dependency are different cores.  `PublishStat`, `PublishEnds` and `CountPublish`
follow one store; `CountNext` has one step per action.

`Token`, `BeforeAll`, `HeldIsCurrent` and `StillEnabled` hold on the instance of the run `attention` too.

### `ConditionalLoopProofs`: iterations and buffers

What flows through the buffers, from the same assumptions:

| Theorem | Statement |
|---|---|
| `BlocksStopInTime` | `Spec => []NeverTooOften` |
| `OnePassInputsAreFresh` | `ASSUME Alternating, Passes = 1 PROVE Spec => []FreshInput` |
| `InputsAreFresh` | `ASSUME Alternating PROVE Spec /\ []OftenEnough => []FreshInput` |
| `OnePassStepsOfTheDataflow` | `ASSUME Passes = 1 PROVE Spec => Dataflow!Init /\ [][Dataflow!Next]_AbsDone` |
| `StepsOfTheDataflow` | `Spec /\ []OftenEnough => Dataflow!Init /\ [][Dataflow!Next]_AbsDone` |

Two hypotheses are more than assumptions on the kernel's shape, and both are needed.

- `Alternating`: single buffers, or a lower bound that is not negative or is a multiple of the step.  The index
  `(iv / step) % 2` rounds towards zero, so from -1 by 2 the first two iterations use one buffer twice
  (see [Observations](#observations)); with such a loop `FreshInput` is false.
- `[]OftenEnough`, for kernels with an outer loop: every pass makes all its iterations.  It depends on the dependency
  graph whether it does (the run `sufficient` shows a graph for which it does not; the next section proves it for steady
  kernels).  If a pass ends early, items stay in the buffers, the counts are not cleared, and the next pass pairs them with
  the wrong iterations.  A kernel whose main loop runs once needs nothing of the kind.

The invariants, each built on the ones before:

- `CounterInv`: a block's counter is `Lb + Step * k` after `k` runs in this pass (`Counted`), it was below the
  bound when its condition was tested (`StillBelow`), and so `k` is never more than the original trip count
  (`Limit`): `NeverTooOften` follows.  Its parameter says whether the passes before were complete, in which case the
  runs are exactly `pass * Iterations + k`.
- `InStep`: the cube and a vector go through rounds and passes in step.  The cube is a round ahead exactly while the
  vector has the token or is about to get it; a pass may end between the two.  It is what makes "in this pass" mean the
  same for the two ends of a dependency.
- `SlotInv`: the buffer that the index of iteration `r` selects holds item `r`, for every item made and not yet
  consumed.  The counts (`CountInv`) admit no more items than buffers, and the indices of consecutive items differ
  (`NextBuffer`), so that none is overwritten.
- `VarInv`, `IslotInv`: the same inside one vector core, where counts are loop-carried and the index is the iteration
  modulo the number of copies.

The step to `BoundedDataflow`: `Publish` is `Fire`, everything else a stutter.  The guards of `Fire` are about runs
(`done`), those of the code about words in memory; `CrossOccupancy` and `IntraOccupancy` say that they are the same.

### `ConditionalLoopProofs` and `LoopRoundsProofs`: the rounds are enough

| Module | Theorem | Statement |
|---|---|---|
| `LoopRoundsProofs` | `SteadyGraphsAreComplete` | `Spec => []SteadyGraphsComplete` |
| `ConditionalLoopProofs` | `SteadyKernelsComplete` | `ASSUME Steady, NoOverflow PROVE Spec => []IterationsComplete` |
| | `SteadyInputsAreFresh` | `ASSUME Steady, NoOverflow, Alternating PROVE Spec => []FreshInput` |
| | `SteadyStepsOfTheDataflow` | `ASSUME Steady, NoOverflow PROVE Spec => Dataflow!Init /\ [][Dataflow!Next]_AbsDone` |

`UpdateLoopIterTimes` cannot know from the intra-core buffers alone that the extended loop is long enough, since it
looks at nothing else.  `Steady` (in `LoopRounds` and `SSBuffer`, by `IsSchedule` of `LoopExtension`) is what
the rest of the graph has to satisfy: every block can be given a number `start[b]` in `0 .. IfCount` such that along
each dependency the two blocks are at least `Latency` rounds apart (one from a vector block to a cube block, whose turn
in the round is over) and at most as many as the buffers allow (`Reach`).  `NoOverflow` says that the new bound can be
represented.  The compiler establishes neither; that the kernels of the runs `attention` and `conditional` have both
properties is an `ASSUME` of their `MC` modules.

The argument.  `CalculateFactor` grants `req` rounds for every `x` iterations; let iteration `k` of the loop begin in
round `Begin(F, k)`, the ceiling of `k * req / x`.  The claim, `Kept(start)`, is that block `b` has run iteration `k`
when its turn in round `start[b] + Begin(F, k)` is over.  It is kept by every turn (`BuffersReady`): the
producers of `b` have run iteration `k`, because they start by `Latency` earlier; and the consumers have run
iteration `k - cap`, because by the choice of `F` it began enough rounds before (`BeginsApart`).  So the
conditions of `b` hold, or it has run iteration `k` already.  The last iteration begins `IfCount` rounds before the end
(`BeginsInTime`, `LastBegins`).  In `SSBuffer`, where there are no global rounds, `InStep` provides what the other
core has done (`OtherEnd`).

The distance along dependencies inside a vector loop is part of `Steady` too.  An earlier form of
`SteadyGraphsComplete` asked for it only between cores; the run on two cube and three vector blocks did not
refute that, the proof did (see [Observations](#observations)).

### `ConditionalLoopProofs`: the flags of the transfers

From the assumptions of `SSBuffer` and `RoundsAssumption` (the extended loop makes a round):

| Theorem | Statement |
|---|---|
| `FlagsAddNoStep` | `TransferSpec => Init /\ [][Next]_vars` |
| `FlagsAgreeWithCounts` | `TransferSpec => []FlagsMatchCounts` |
| `OnePassNeverStalls` | `ASSUME Alternating, Passes = 1 PROVE TransferSpec => []BlocksNeverStall` |
| `NeverStalls` | `ASSUME Alternating PROVE TransferSpec /\ []OftenEnough => []BlocksNeverStall` |
| `SteadyNeverStalls` | `ASSUME Alternating, Steady, NoOverflow PROVE TransferSpec => []BlocksNeverStall` |

By `FlagsAddNoStep` the invariants of `SSBuffer` are invariants here too, and the proofs use their step lemmas.

- `SumInv` counts what the current block has done with its transfers (`Signals`, `Rooms`, `Accepts`, `Returns`: the
  runs of the two blocks, plus one for the item in hand).  The filled flags of a transfer, over all its buffers, are
  `Signals - Accepts`, the empty ones `cap * Lent - (Rooms - Returns)`, where `Lent` says how often the buffers have been declared and not
  taken back.  Outside of the two blocks this is `FlagsMatchCounts`, whatever the order of the buffers.
- `BufferInv` splits the sums by buffer: the flags of buffer `i` are those of the items in flight whose
  place is `i`.  With `CountInv` there are at most two of them, and with `Alternating` they lie in different buffers.
  `FilledIsThere` and `EmptyIsThere` then say that a block whose condition holds finds the flag of the very buffer
  that it is about to use.

### `LoopExtensionProofs` and `LoopBoundProofs`

For every width of the induction variable, every non-empty loop, every block count and every finite set of forward
dependencies:

| Theorem | Statement |
|---|---|
| `LoopIsExtended` | `Spec => []NonEmptyLoopExtended` |
| `DependenciesAreCovered` | `Spec => []EveryDependencyCovered` |

Both properties speak of inputs for which the new count can be represented; `emptyloop` shows what happens
otherwise.  `LoopExtensionProofs` are the lemmas: rounding division, wrapping and reading back as a signed number,
the trip count of `scf.for`, and that the comparison by cross multiplication in `calculateFactor` is a total order, so that the largest factor
covers all the others (`CalculateFactorFacts`).  Where an induction is called for (a finite set of fractions has
a greatest) the proofs take the least counterexample: `NatLessThanWellFounded` and `WFMin` have no operator as a parameter, so the
provers can use them.

### `TransferSyncProofs`

For every set of transfers, number of sub-blocks, one or two buffers, and every loop with a
positive step (`TransferAssumption`: a transfer names existing blocks of the right cores):

| Theorem | Statement |
|---|---|
| `TypeCorrect` | `Spec => []TypeOK` |
| `BuffersHaveOneOwner` | `Spec => []OneOwner` |
| `FlagsAreDrained` | `Spec => []FlagsDrained` |
| `InputsAreFresh` | `Spec => []FreshInput` |

The argument has three layers, each an inductive invariant that uses the one before.

- `PlaceInv`: types, and at every place of the program which transfers the core has still to
  wait for or to signal there.
- `OwnerInv`: for each transfer, buffer and sub-block, exactly one of these holds – a flag "filled" is
  pending, a flag "empty" is pending, the producer is between its wait and its set, the consumer is,
  the buffer has not entered circulation, or it has left it.  It is `OneOwner`, spelled out; `FlagsDrained`
  follows: when both cores have drained, every buffer has left.
- `FreshInv`: what is in a buffer.  How often each side has used a buffer is counted from the
  iterations it has behind it (`Made`, `Used`); producer and consumer take the buffers in
  the same order *whatever* that order is, because both compute it from the same induction variable
  (`TurnAt`).  So the proof does not depend on the division towards zero in `createPollingCondition`, only on
  both sides using it.  A flag in flight says that the two counts of this buffer differ by
  one or are equal, hence that the content is of the iteration the consumer is in.

### `JitRuntimeProofs`

| Theorem | Statement |
|---|---|
| `KernelsAlwaysComplete` | `Spec => []KernelsComplete` |
| `ExitCachesEverything` | `Spec => []CachedAfterExit` |
| `ModesAreLeft` | `Spec => []ModeLeftOnlyAfterFailure` |
| `KernelsAreLaunchedAsWritten` | `Spec => [](Fixed => LaunchAsWritten)` |
| `FailingConfigsStayAlone` | `Spec => [](Tuning => FailuresStayAlone)` |

`KernelsAlwaysComplete`: for every number of processes and threads, every set of
functions and files (`SetupAssumption`, `OutputsAssumption`), crashes included: a kernel that a thread holds,
or that sits in a kernel cache, was read from complete files only, none missing.  The invariant
`CompleteInv` is `SetupInv /\ DirInv /\ JobInv /\ RunInv /\ KernelInv`.  `DirInv`: a file in its place is
complete, and a group names all files or none, and only files that are there.  `JobInv`: a job names the files
before the one it is at, they are there, and so are all of a group it has found.  `RunInv` and `KernelInv`: what a
thread has in hand and what a kernel cache holds come from jobs that got as far as loading.  No file is ever
removed or made incomplete (`Rename` puts whole files in place, a crash takes only temporary ones), which is why
`DirInv` survives crashes and other processes.

`ExitCachesEverything`, under the same assumptions: a block of the asynchronous mode that ends without an exception
has left every kernel that was asked for in it in its process's kernel cache, under the call that asked first.
`HandledInv` is the addition: a future that counts as handled has its call in the cache; and where `__exit__` has come to its end and nothing
was raised, all are handled.  The cache only grows (`KernelsGrow`), whichever thread writes to it.

`ModesAreLeft` adds `ScriptAssumption`: with blocks end where they say and are not nested (what `_batch_bench` does inside
a user's block is under [Observations](#observations)).  `ModeInv`: a thread between `__exit__` and the executor's
shutdown is at the end of a block, and if its mode is still active an exception is under way and a future of the mode failed;
outside of blocks an active mode has a failed future, and the last block the thread came to is a user's.  It needs
facts about scripts: where an exception goes (`ExitAhead`), what lies behind a block that could not be entered
(`BlockSkipped`), and that the block a thread leaves is a batch or the last block is a user's (`ExitStatement`).  A failed
future stays one: workers do not touch finished jobs, other threads do not touch this thread's, and a mode that stays active keeps its own.

`KernelsAreLaunchedAsWritten` is about keys.  `Fixed` says of the setup that no script sets a global (the run `globals` shows three ways
in which the property fails when one does) and that no function reaches itself through calls.  The processes may have different
sources and different globals, share the directories and crash.  `ReferenceAssumption` says that functions refer to functions and
globals there are.  Four steps:

- *What a key says.*  `KeyOf(p, k)`: `k` names the source that process `p` has of a function, the values `p` has of its globals, and
  for each function it calls a key of the same kind, down to the functions that call nothing.  A key that is of two
  processes stands for one kernel (`SameKeySameKernel`): the functions named by keys of both are closed under calls, so
  all of `Reach` is among them, and on them the two processes agree.
- *How keys are computed.*  `KeysInv`: a frame of `stack[t]` has the key of every callee it went past and the value of every global.
  It need not have the globals of its callees (whose own keys may have been computed before or after), and the theorem does not depend on them.
  The placeholder `recursion:...` is not a key, but it is seen only by a thread that holds the function's lock, which has the
  function on its own stack, and would be calling it from itself.
- *What is filed under a key.*  `DirMeans`, `JobsMean`: every complete file under a key is the kernel that every process means by that key.
  A job of any process computes it from the values its process has when it runs, and they are those of its key.
- *What is launched.*  `KernelsMean`, `RunsMean`: kernel caches and futures hold kernels of their call's function; so does what a
  thread is about to launch.

The inductive invariant is `MeansInv == ModeInv /\ KeysInv /\ (Fixed => Means)`.

`FailingConfigsStayAlone` is about the autotuner's batch and says what a failure costs: when a batch ends, `run_fns` (`tuned`) has exactly
the configs that compile among those whose results were reached (`ReachedBy`), and a result is not reached only if a config in
front of it failed with an exception that is not `Caught`.  (That such a failure costs the configs behind it is what the
code does, and part of the statement; see [Observations](#observations).)  `Tuning` says of the setup: no script sets a global and no
function calls itself (`Fixed`); calls with the same function and specialization fail alike, with the same exception
(`FailsByKey`: failing is up to what is compiled, and what is compiled to the key); and between its `with` and its end a batch
calls `warmup` and takes results only (`BatchesOnlyCompile`, which is what `_batch_bench` does).  All setups of the run
`runtime` that have a batch are of this kind.  `CallAssumption` says that what is called are functions there are, `FailAssumption` that a
call fails at one of its stages.  The invariant is `FailInv == MeansInv /\ (Tuning => Fails)`:

- *Jobs and files* (`JobsFail`, `DirFails`): a job of a call that fails never gets past the stage that raises, whichever it is, so
  it never puts the binary, and no directory with a binary in it is under the key of such a call.  Files of the stages before may be
  there, and those of other processes.  So `Lookup`, which takes any process's files on trust, finds no group for it.
- *Kernel caches* (`KernelsFail`) know no call that fails.
- *Threads* (`RunsFail`): a kernel in hand is of a call that compiles, or a future of a call with the same key; an exception is
  under way only at the end of a block.  In a batch (`BatchSound`) the mode is active and its executor open, so `submit` does not
  raise, nothing is awaited, and the globals match those of the keys; and `tuned` is what the script says of the statements so
  far (`TunedAt`), of which none ends the batch (`Lost`) unless an exception is under way.

A statement that takes a result adds its config (`TakenStatement`), or it leads to the end of the block, with the results in
between out of reach (`EndStatement`).  Nothing else in a batch raises, which is half of the proof.

### `AllocationProofs`

For every list of buffers, of any sizes, alignments, lifetimes and partitions (`RequestAssumption`):

| Theorem | Statement |
|---|---|
| `TriplesAlwaysLast` | `Spec => []TriplesLast` |
| `MemoryAlwaysSound` | `Spec => []MemoryIsSound` |

The invariant is `AllocationInv == TypeInv /\ TripleInv /\ AlignInv /\ SizeInv /\ ApartInv`.

- `TripleInv`: every buffer that is not placed yet meets a triple, which is more than that there is one.  A triple is
  thrown away only if none of the buffers it meets meets no other one; and the triples that follow a placement
  together cover the span of the one they replace (`SharedCovers`, `TriplesAfterFacts`).  That is why the code may
  insert `(range.start, xRange.end)` where `(range.start, xRange.start)` would do: "both are correct", says its comment.
- `AlignInv`: an offset is a multiple of the alignment from the beginning on (`AlignToFacts`), since a buffer that is not
  moved keeps a multiple.
- `SizeInv`: within a pass, `sharedMemorySize` covers the buffers whose turn is over, so all of them at the end.
- `ApartInv`: the loop ends only with an empty graph, and the graph has been built from the offsets it ends with.

Making each turn of a loop a step of the model is what puts this within the provers' reach: what a loop over a list
computes would be an induction over data, what its turns preserve is an invariant.  The insertion into the
multimap is one library call, about which `InsertTripleFacts` says that it keeps what is there and adds the new
element.  That the loop ends is not proved.

### `MembarProofs`

For every set of programs (`ProgramAssumption`: graphs of blocks, functions ordered callees first, an operation with a scratch
buffer has no other shared memory, as the code's `report_fatal_error` demands):

| Theorem | Statement |
|---|---|
| `NoThreadRaces` | `Spec => [](CallsInPlace /\ CallsTold => NoRace)` |
| `NoProxyRaces` | `Spec => [](CallsInPlace /\ CallsTold => NoProxyRace)` |
| `SummariesCover` | `Spec => [](CallsInPlace => DanglingCovered)` |
| `PlainNoRace` | `ASSUME PlainCalls PROVE Spec => []NoRace` |
| `PlainNoProxyRace` | `ASSUME PlainCalls PROVE Spec => []NoProxyRace` |
| `PlainDanglingCovered` | `ASSUME PlainCalls PROVE Spec => []DanglingCovered` |
| `NoSecondBarrier` | `ASSUME` the given programs have no two barriers in a row `PROVE Spec => []NoDoubleBarrier` |

The hypotheses about calls.  Without them the first three are false: TLC finds a race where a callee has a barrier inside or
lies at another offset than its caller (`Membar.cpp:191`).  `CallsInPlace` and `CallsTold` are about what the
analysis has made of the program.  `PlainCalls` is about the programs given: callees are called at offset 0 and, for
barriers, are a line of operations without conflicts between them, a scratch operation at the beginning only, and, for fences, start no TMA
copies.  It holds of every program without calls and of those of the run `membar`; that it implies the other two
(`CallsRight`) is an invariant of its own, `FromProgram`: the analysis inserts nothing into such a callee, and its
summary is the sum of its operations.

The argument.  A dataflow analysis is usually proved by monotonicity, which this one does not have: a barrier that a later
visit inserts makes the output of a block smaller, and the walk overwrites it.

- `Passes(before, op, next, after)` says of one operation what a correct analysis must have ensured: nothing in `before`
  clashes with it (`InOrder`), and `after` has what is pending behind it (`Leaves`).  Every case of `update`
  leaves operations behind of which it holds (`TransferFacts`), the barriers it inserts included.
- `WalkInv`: while a block is visited, its code up to `pos` is annotated, position by position, from
  `input[block]` to `blockInfo`.  An inserted barrier splits one annotation into two (`WalkOne`, `WalkTwo`).
- `ListInv`: a block that is not on the list is annotated from its present input to its output, and its output is within the
  inputs of its successors, which are known or on the list.  Inputs only grow.  That is all that is needed of a fixpoint:
  when the list is empty the annotations are closed under branches, however the walk came there.
- `SummaryInv` keeps such annotations for every function that is done, with its summary above the output of its returns.
- `ExecInv`: every frame stands at a position of an annotated block, and `pending` is covered by the annotations of all frames together.
  The exception is a thread between an asynchronous wait and the barrier behind it, where more is pending than noted.  A callee
  starts at its first annotation, whatever that notes; what was pending at the call stays with the caller's.
- `NestInv`: by `CallsTold` the summary of a function has those of its callees, so that a call that clashes with nothing in
  the caller's annotation makes nothing clash while the callee runs.

`NoSecondBarrier` has an invariant of its own, `BarrierInv`: behind a barrier `blockInfo` is empty, so nothing asks for another one.

### Only model-checked

- Everything about liveness, since the provers have neither fairness nor ENABLED: `Termination` and
  `EveryThreadEnds`, `AnalysisTerminates`, `PipelineTerminates`, and the liveness halves of `ImplementsDataflow` and
  `FlagsAreTransparent`.
- Whether a kernel is `Steady`.  It is a property of the dependency graph the compiler finds, and not true of all of them
  (`sufficient`); without it `OftenEnough` is not a theorem.
- The software pipeliner (`LoopSchedule`, `LoopLowering`, `LoopExpander`, `AsyncCopies`).  Its steps are folds and
  closures: one pass over a schedule goes over all dependencies.  What such a walk computes is an induction over data.
- In `JitRuntime`, `LaunchAsWritten` and `FailuresStayAlone` where scripts set globals: the first does not hold then
  (`globals`), and a changed global makes a call of a batch raise, which `FailingConfigsStayAlone` excludes.

## Disagreements between documentation and code

1. **`sufficient`**.  `updateLoopIterTimes_test.mlir:12` says that with enough multi-cache buffers it
   suffices to add the number of blocks to the trip count.  With one buffer per cross-core
   dependency and a value that skips a block (V1 is read by C1 and C2; C1 feeds V2 feeds C2), V1 must
   not run again before C2 has read, so an iteration takes two rounds; `calculateFactor` looks only
   at dependencies inside one vector loop.  The last iterations are not executed.  `Steady` is the condition on
   the buffers under which the computed rounds *are* enough (`steady`).
2. **`emptyloop`**.  The comment at `UpdateLoopIterTimes.cpp:56` gives the new count as
   `ceil(original_iter_count * requiredBuffers / x) + ifCount`.  For a loop whose upper bound lies
   below its lower bound, the original makes no trip, but the range is divided as an unsigned number
   and the extended loop makes up to half the integer range of rounds.  The blocks stay off (their
   counters are not below the original bound), the rounds still exchange flag 15.

3. **`globals`**.  `jit.py:517` says of a function's globals: "every time we run the function, we check
   that the values of the globals match what's expected, otherwise we raise an error".  Three ways
   round it, each a setup of `GlobalChanges`:
   - the kernel uses the global through a helper.  `_update_hash` merges the helper's globals (line 111)
     before it has the helper's key computed (line 113), so at the first computation there are none to
     merge, and nothing is checked when the kernel runs;
   - a second specialization is compiled after the global has changed.  It is stored in the kernel cache
     and in the directory of the *old* value's key before the check raises; once the global has its
     old value again, that kernel is launched;
   - after the `RuntimeError` for conflicting globals (line 108) the placeholder `recursion:...` stays
     as the function's key.  The next launch compiles under it and has no globals to check.

## Observations

Met while modelling; no run reports them, because nothing in the repository says otherwise, because they lie
outside of the checked instances, or because a property states what the code does instead.

- `AddMultiBufferOuterScope.cpp:691`: `(iv / step) % 2` divides towards zero, so a double-buffered loop that starts
  below zero and not at a multiple of its step (-1 by 2) uses one buffer twice in a row.  `SplitDataflow`'s own
  program copes (`transfers` has such a loop).  Under conditions it does not: two items are let through, the second
  block waits for its flag with flag 15 in hand, and no core moves again.  With `Lb` -1 the instance of `conditional`
  ends in that deadlock; nothing in the repository says that such loops are supported.
- `UpdateLoopIterTimes.cpp:58`: what a dependency inside a vector loop asks for is computed from the distance of its two
  blocks in the loop, one round; if the values between them go through the cube they may be several rounds
  apart.  Four cube and five vector blocks with single buffers, V1 to C2 to V2 to C3 to V3 to C4 to V5 with C1 feeding V1
  and V4, and V4 feeding V5 inside the vector loop: nine iterations get 23 rounds, in which C4 and V5 run eight times.  Each
  dependency between the cores alone leaves room for a schedule.  This is why `Steady` is about all dependencies.
- `InterCoreTransferAndSync.cpp:701`: with an outer loop, a consumer may declare its buffers empty for the next
  execution before the producer has taken back those of the last (`waitOpForEnd`): the same flag is set twice before
  it is awaited.  The counts add up (`FlagsMatchCounts`) if the hardware counts to two.
- `Membar.cpp:191`: for a call, the callee's pending accesses are used as they stand in the callee's
  frame: accesses before a barrier inside the callee are not among them, and the offset of the
  callee's frame is not added.  `Membar.h:178` says callers need no explicit barriers around calls;
  with `base # 0` or a barrier in the callee the model finds a race.  The instances of `membar`
  call functions without either.
- `PipelineExpander.cpp:644`: with a peeled epilogue and no more iterations than stages, an argument
  that yields a value from outside of the loop has that value already in iteration 0.  The checked
  loops leave the pair out.
- `ScheduleLoops.cpp:227`: an `scf.if` may be moved into the epilogue cluster, behind everything else of its
  stage.  If it is the first use of a copied load, the read moves with it, and in each turn the copy of
  iteration `n + N` is issued into buffer `n % N` before iteration `n` is read from it.  The comment at
  `AssignLatencies.cpp:220` knows that such a loop needs one more buffer, for MMA only.
- `LowerLoops.cpp:119`: a use through an iteration argument may be in an earlier stage than the load, at which
  the assertion "Op used before defined" stops the compiler.  The checked loops have neither.
- `jit.py:539`: locks are taken along the call graph.  That is safe for call graphs without cycles
  (`EveryThreadEnds`); two threads that start from two mutually recursive functions can wait for each
  other.  Also, a function's key depends on whether a helper's key had been computed before (its
  globals are or are not among the caller's): the same sources may get two keys, which costs a
  compilation but launches nothing wrong.
- `_async_compile.py:51`: a failing compile leaves the mode active.  `_batch_bench` resets it, the Ascend
  autotuner's `warmup` and a user's own block do not; inside a user's block `_batch_bench` cannot enter
  a mode, swallows the error and closes the user's.
- `autotuner.py:436`: the comment says of the exception that `_batch_bench` swallows: "ignore exception from `__exit__()` of
  AsyncCompileMode".  It swallows those of the block as well.  The loop over the futures catches
  `CompileTimeAssertionFailure` and `MLIRCompilationError` only (line 432); a config that fails in the front end with a
  plain `CompilationError` leaves the block, the configs behind it have been compiled and are never tuned, and nobody is
  told.  If it is the first, the batch ends in "No valid triton configs" although others compile, and the
  message does not name the exception.  Without parallel compilation (line 440) the same exception reaches the user.
  `FailuresStayAlone` says exactly what such a config costs, and `runtime` has batches with one.
- `autotuner.py:417`: with one physical core `max_workers` is 0, which `ThreadPoolExecutor` refuses; the
  batch reports "No valid triton configs".

## Not modelled

- How the IR is rewritten: cloning, moving, dominance, attributes.  The modules start from the
  program the passes emit.
- The values computed by blocks, and tensor shapes.
- Transfers outside of loops and the memory dependencies between scalar pipes (`insertPipeSSync`), a
  set and a wait without a flag back: whether the producer may run ahead depends on the maximum of a
  hardware flag counter, which the source does not state.
- The grouping of transfers in `AddMultiBufferOuterScope` and what it does when ids run out.
- Kernels in which a transfer has one buffer and another two: only `AddMultiBufferOuterScope` running out of ids
  makes them, and then the conditions do not know of the transfer.
- In the lowering of loops: loads of scalars, the select behind masked loads with another value than zero,
  dots with an operand in registers or used under a branch, MMAv5 and its peeled epilogues, the
  copying of TMA descriptors, TMA stores.  `AssignLatencies`, and whether a load can be copied
  asynchronously, are inputs.  Warp specialisation.
- In `Membar`, the backend's filter of pairs (AMD) and regions of warp-specialised loops.
- In the runtime: specialization of arguments, hooks, `preload`, `_unsafe_update_src`, the remote cache,
  overriding and dumping, files that somebody removes, `TRITON_STORE_BINARY_ONLY`; libentry, whose look-up is repeated under
  its lock; pruning and timing of configs.
- Proton: concurrent, planned, not reached.
- The rest is code in which nothing is ordered by anything but the program: op definitions, lowering and
  rewriting of IR, layouts (linear algebra over bits), the front end, interpreters, and the driver, which
  is I/O.  It is most of the repository's lines (conversions, dialects, layouts, bindings), its
  correctness is the meaning of tensor operations, and a model of it would repeat the code.  The share
  of the repository's lines that the modules stand for is therefore small, and stays so; the files with
  the ordering problems are covered in full or nearly so.

## Plan

Done: `BoundedDataflow`, `LoopExtension`, `SSBuffer`, `LoopRounds`, `LoopBound`, `TransferSync`; `Allocation`,
`Membar`; `LoopSchedule`, `LoopLowering`, `LoopExpander`, `AsyncCopies`; `ConditionalTransfers`; `CacheKey`, `CompileCache`,
`JitRuntime`; the proofs about all of these but the software pipeliner.  Next, in the order
of importance:

1. `PipeSync` (memory dependencies on the scalar pipe), `FlagIds` and the grouping of double buffers,
   the two numberings of `AddMultiBufferInnerScope`, and prefetching (`SeparateMemoryFromCompute`).
2. `ProtonSession`: external ids and flushing.
3. Proofs: the expander's `OperandsAsInLoop`, whose invariant says which version of each value the next iterations will use.
