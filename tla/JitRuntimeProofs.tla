-------------------------- MODULE JitRuntimeProofs --------------------------
(***************************************************************************)
(* For all processes, threads, workers, scripts and crashes, and any number *)
(* of stages: nobody loads a kernel with a missing or half written file.    *)
(*                                                                          *)
(* The argument.  A file comes to its place only when it is complete, and   *)
(* none goes away.  A group names all the files or none, and only files     *)
(* that are there; the group in a job's hands likewise.  So a job that gets *)
(* as far as loading finds everything.  Kernels reach the kernel cache from *)
(* such jobs only, directly or by futures that name one.                    *)
(*                                                                          *)
(* And: a block of the asynchronous mode that ends without an exception     *)
(* leaves its kernels in the kernel cache.  A future counts as handled only *)
(* when its call is there, nothing leaves the cache, and __exit__ comes to  *)
(* the end of its list, without an exception, when all are handled.         *)
(*                                                                          *)
(* And: no mode stays active outside its block unless one of its kernels    *)
(* failed, nor ever after a batch.                                          *)
(*                                                                          *)
(* And: a kernel that is launched was made from what its process has        *)
(* written, unless globals are set or functions call themselves.  A key is  *)
(* of a process when it names the sources and globals the process has, and  *)
(* keys of the same kind for all callees; so a key that is of two processes *)
(* stands for one kernel.  The key a computation ends with is of its        *)
(* process: its frame has the key of every callee it went past, and every   *)
(* global.  The placeholder is no key, but whoever meets it holds the lock, *)
(* so has the function on its own stack, and would have called it from      *)
(* itself.  What is filed under a key is what every process means by it.    *)
(*                                                                          *)
(* And: what a config that does not compile costs the rest of its batch.    *)
(* A batch calls warmup and takes results; what a call got is a kernel of a *)
(* call that compiles or a future of one with the same key, and files with  *)
(* a binary in them are of no call that fails.  So the result of a config   *)
(* says whether it compiles and, if not, with which exception; up to the    *)
(* first that the loop does not catch all that compile are tuned, and that  *)
(* one goes to the end of the block.                                        *)
(***************************************************************************)
EXTENDS JitRuntime, TLAPS

Complete(content) == content[1] = "meaning"

LEMMA CompleteOrNot ==
  /\ ~ Complete(Broken) /\ ~ Complete(Partial) /\ NoMeaning # Broken
  /\ \A k : Complete(k) => ~ IsFuture(k)
BY DEF Complete, Broken, Partial, NoMeaning, IsFuture

LEMMA MeaningComplete == ASSUME NEW p, NEW f PROVE Complete(Meaning(p, f))
BY DEF Complete, Meaning

LEMMA OutputFacts ==
  /\ Len(Puts) \in Nat \ {0}
  /\ DOMAIN Puts = 1 .. Len(Puts)
  /\ Binary \in Listed
  /\ "json" \in Listed
<1>1. Outputs \in Seq(STRING) /\ Outputs # << >>
  BY OutputsAssumption
<1>2. /\ Len(Outputs) \in Nat \ {0}
      /\ Len(Puts) = Len(Outputs) + 1
      /\ DOMAIN Puts = 1 .. Len(Outputs) + 1
      /\ Puts[Len(Outputs)] = Outputs[Len(Outputs)]
      /\ Puts[Len(Outputs) + 1] = "json"
  BY <1>1 DEF Puts
<1>3. Len(Outputs) \in DOMAIN Puts /\ Len(Outputs) + 1 \in DOMAIN Puts
  BY <1>2
<1> QED
  BY <1>2, <1>3 DEF Listed, Binary

-----------------------------------------------------------------------------
(* The files and the jobs that make them.                                   *)

Sound(d) ==
  /\ DOMAIN d = {"files", "group"}
  /\ d.group \in {{}, Listed}
  /\ d.group \subseteq DOMAIN d.files
  /\ \A f \in DOMAIN d.files : Complete(d.files[f])

DirInv == \A k \in DOMAIN dir : Sound(dir[k])

JobFields == {"call", "key", "at", "n", "group", "meaning", "kernel"}
Making == {"stage", "put", "rename"}

(* A job has put the files before the one it is at, and names them.         *)
JobSound(j) ==
  /\ DOMAIN j = JobFields
  /\ j.at \in {"queued", "lookup", "stage", "put", "rename", "group", "load", "done", "failed"}
  /\ j.at \in {"queued", "lookup"} => j.n = 1
  /\ j.at \in Making => j.n \in DOMAIN Puts /\ j.group = {Puts[i] : i \in 1 .. j.n - 1}
  /\ j.at \in {"put", "rename"} \/ (j.at = "stage" /\ j.n # 1) => Complete(j.meaning)
  /\ j.at \in {"group", "load"} => j.group = Listed
  /\ j.at \in Making \cup {"group", "load"} => j.group \subseteq DOMAIN Directory(j.key).files
  /\ j.kernel = NoMeaning \/ Complete(j.kernel)
  /\ j.at = "done" => Complete(j.kernel)

JobInv == \A j \in DOMAIN jobs : JobSound(jobs[j])

LEMMA DirectorySound == ASSUME DirInv, NEW k PROVE Sound(Directory(k))
<1>1. CASE k \in DOMAIN dir
  BY <1>1 DEF DirInv, Directory
<1>2. CASE k \notin DOMAIN dir
  <2>1. Directory(k) = [files |-> << >>, group |-> {}]
    BY <1>2 DEF Directory, NoGroup
  <2>2. DOMAIN Directory(k).files = {}
    BY <2>1
  <2> QED
    BY <2>1, <2>2 DEF Sound
<1> QED
  BY <1>1, <1>2

(* A directory is replaced by one with at least the same files.             *)
LEMMA DirGrows ==
  ASSUME DirInv, NEW k, NEW d, Sound(d),
         DOMAIN Directory(k).files \subseteq DOMAIN d.files,
         dir' = SetDir(dir, k, d)
  PROVE  /\ DirInv'
         /\ Directory(k)' = d
         /\ \A q : DOMAIN Directory(q).files \subseteq DOMAIN Directory(q)'.files
<1>1. /\ DOMAIN dir' = DOMAIN dir \cup {k}
      /\ dir'[k] = d
      /\ \A q \in DOMAIN dir : q # k => dir'[q] = dir[q]
  BY DEF SetDir, Bind
<1>2. /\ Directory(k)' = d
      /\ \A q : q # k => Directory(q)' = Directory(q)
  BY <1>1 DEF Directory
<1> QED
  BY <1>1, <1>2 DEF DirInv
(* What the others hold stays sound when directories grow.                  *)
LEMMA OthersSound ==
  ASSUME JobInv, NEW i \in DOMAIN jobs, jobs'[i] = jobs[i],
         \A q : DOMAIN Directory(q).files \subseteq DOMAIN Directory(q)'.files
  PROVE  JobSound(jobs[i])'
BY DEF JobInv, JobSound

LEMMA OneJobChanges ==
  ASSUME JobInv, NEW j \in DOMAIN jobs,
         DOMAIN jobs' = DOMAIN jobs, \A i \in DOMAIN jobs : i # j => jobs'[i] = jobs[i],
         \A q : DOMAIN Directory(q).files \subseteq DOMAIN Directory(q)'.files,
         JobSound(jobs[j])'
  PROVE  JobInv'
BY OthersSound DEF JobInv

LEMMA DirSame ==
  ASSUME DirInv, UNCHANGED dir
  PROVE  /\ DirInv'
         /\ \A q : Directory(q)' = Directory(q)
BY DEF DirInv, Directory, Sound

LEMMA LookupSound ==
  ASSUME DirInv, JobInv, NEW j \in DOMAIN jobs, Lookup(j)
  PROVE  DirInv' /\ JobInv'
<1> DEFINE found == GetGroup(jobs[j].key)
<1>1. JobSound(jobs[j]) /\ Sound(Directory(jobs[j].key))
  BY DirectorySound DEF JobInv
<1>2. found \in {{}, Listed} /\ found \subseteq DOMAIN Directory(jobs[j].key).files
  BY <1>1 DEF GetGroup, Sound
<1>3. "json" \in found => found = Listed
  BY <1>2
<1>4. jobs' = [jobs EXCEPT ![j].group = found, ![j].at = IF "json" \in found THEN "load" ELSE "stage"]
  BY DEF Lookup
<1>5. CASE "json" \in found
  <2>1. jobs' = [jobs EXCEPT ![j] = [jobs[j] EXCEPT !.group = found, !.at = "load"]]
    BY <1>4, <1>5
  <2>2. JobSound(jobs[j])'
    BY <1>1, <1>2, <1>3, <1>5, <2>1, DirSame DEF JobSound, Lookup, Making, JobFields
  <2> QED
    BY <2>1, <2>2, OneJobChanges, DirSame DEF Lookup
<1>6. CASE "json" \notin found
  <2>1. jobs' = [jobs EXCEPT ![j] = [jobs[j] EXCEPT !.group = found, !.at = "stage"]]
    BY <1>4, <1>6
  <2>2. found = {}
    BY <1>2, <1>6, OutputFacts
  <2>3. jobs[j].n = 1 /\ 1 \in DOMAIN Puts /\ found = {Puts[i] : i \in 1 .. 0}
    BY <1>1, <2>2, OutputFacts DEF JobSound, Lookup
  <2>4. JobSound(jobs[j])'
    BY <1>1, <1>2, <2>1, <2>3, DirSame DEF JobSound, Lookup, Making, JobFields
  <2> QED
    BY <2>1, <2>4, OneJobChanges, DirSame DEF Lookup
<1> QED
  BY <1>5, <1>6

LEMMA StageSound ==
  ASSUME DirInv, JobInv, NEW j \in DOMAIN jobs, NEW p, Stage(j, p)
  PROVE  DirInv' /\ JobInv'
<1>1. JobSound(jobs[j]) /\ DOMAIN jobs[j] = JobFields /\ jobs[j].at = "stage"
  BY DEF JobInv, JobSound, Stage
<1>2. CASE jobs' = To(j, "failed")
  <2>1. jobs' = [jobs EXCEPT ![j] = [jobs[j] EXCEPT !.at = "failed"]]
    BY <1>2 DEF To
  <2>2. JobSound(jobs[j])'
    BY <1>1, <2>1, DirSame DEF JobSound, Stage, Making, JobFields
  <2> QED
    BY <2>1, <2>2, OneJobChanges, DirSame DEF Stage
<1>3. CASE jobs' # To(j, "failed")
  <2> PICK m : m = IF jobs[j].n = 1 THEN Meaning(p, jobs[j].call.fn) ELSE jobs[j].meaning
    OBVIOUS
  <2>1. jobs' = [jobs EXCEPT ![j] = [jobs[j] EXCEPT !.meaning = m, !.at = "put"]]
    BY <1>3 DEF Stage
  <2>2. Complete(m)
    BY <1>1, MeaningComplete DEF JobSound
  <2>3. /\ jobs'[j].at = "put" /\ jobs'[j].n = jobs[j].n /\ jobs'[j].group = jobs[j].group
        /\ jobs'[j].key = jobs[j].key /\ jobs'[j].meaning = m /\ jobs'[j].kernel = jobs[j].kernel
        /\ DOMAIN jobs'[j] = JobFields
    BY <1>1, <2>1 DEF JobFields
  <2>4. JobSound(jobs[j])'
    BY <1>1, <2>2, <2>3, DirSame DEF JobSound, Stage, Making
  <2> QED
    BY <2>1, <2>4, OneJobChanges, DirSame DEF Stage
<1> QED
  BY <1>2, <1>3

LEMMA PutSound ==
  ASSUME DirInv, JobInv, NEW j \in DOMAIN jobs, Put(j)
  PROVE  DirInv' /\ JobInv'
<1>1. JobSound(jobs[j])
  BY DEF JobInv
<1>2. jobs' = [jobs EXCEPT ![j] = [jobs[j] EXCEPT !.at = "rename"]]
  BY DEF Put, To
<1>3. JobSound(jobs[j])'
  BY <1>1, <1>2, DirSame DEF JobSound, Put, Making, JobFields
<1> QED
  BY <1>2, <1>3, OneJobChanges, DirSame DEF Put

LEMMA RenameSound ==
  ASSUME DirInv, JobInv, NEW j \in DOMAIN jobs, Rename(j)
  PROVE  DirInv' /\ JobInv'
<1> PICK k : k = jobs[j].key
  OBVIOUS
<1> PICK file : file = Puts[jobs[j].n]
  OBVIOUS
<1> DEFINE at == IF jobs[j].n = Len(Puts) THEN "group" ELSE "stage"
           new == [jobs[j] EXCEPT !.group = @ \cup {file}, !.n = @ + 1, !.at = at]
<1>1. JobSound(jobs[j]) /\ jobs[j].at = "rename" /\ Sound(Directory(k))
  BY DirectorySound DEF JobInv, Rename
<1>2. /\ jobs[j].n \in 1 .. Len(Puts) /\ Len(Puts) \in Nat
      /\ jobs[j].group = {Puts[i] : i \in 1 .. jobs[j].n - 1}
      /\ Complete(jobs[j].meaning)
      /\ jobs[j].group \subseteq DOMAIN Directory(k).files
  BY <1>1, OutputFacts DEF JobSound, Making
<1>3. PICK d : /\ dir' = SetDir(dir, k, d)
               /\ DOMAIN d = {"files", "group"} /\ d.group = Directory(k).group
               /\ d.files = Bind(Directory(k).files, file, jobs[j].meaning)
  <2> DEFINE new_d == [Directory(k) EXCEPT !.files = Bind(@, file, jobs[j].meaning)]
  <2>1. dir' = SetDir(dir, k, new_d)
    BY DEF Rename, SetFile
  <2>2. DOMAIN new_d = {"files", "group"} /\ new_d.group = Directory(k).group
        /\ new_d.files = Bind(Directory(k).files, file, jobs[j].meaning)
    BY <1>1 DEF Sound
  <2> HIDE DEF new_d
  <2> QED
    BY <2>1, <2>2
<1>4. Sound(d) /\ DOMAIN d.files = DOMAIN Directory(k).files \cup {file}
  <2>1. DOMAIN d.files = DOMAIN Directory(k).files \cup {file}
    BY <1>3 DEF Bind
  <2>2. \A f \in DOMAIN d.files : d.files[f] = IF f = file THEN jobs[j].meaning ELSE Directory(k).files[f]
    BY <1>3 DEF Bind
  <2>3. \A f \in DOMAIN d.files : Complete(d.files[f])
    BY <1>1, <1>2, <2>1, <2>2 DEF Sound
  <2> QED
    BY <1>1, <1>3, <2>1, <2>3 DEF Sound
<1>5. DirInv' /\ Directory(k)' = d /\ \A q : DOMAIN Directory(q).files \subseteq DOMAIN Directory(q)'.files
  BY <1>3, <1>4, DirGrows
<1>6. jobs' = [jobs EXCEPT ![j] = new]
  BY DEF Rename
<1>7. DOMAIN jobs[j] = JobFields
  BY <1>1 DEF JobSound
<1>8. /\ new.at = at /\ new.n = jobs[j].n + 1 /\ new.group = jobs[j].group \cup {file}
      /\ new.key = k /\ new.meaning = jobs[j].meaning /\ new.kernel = jobs[j].kernel
      /\ DOMAIN new = JobFields
  BY <1>7 DEF JobFields
<1>9. new.group = {Puts[i] : i \in 1 .. new.n - 1}
  BY <1>2, <1>8
<1>10. jobs[j].n = Len(Puts) => new.group = Listed
  BY <1>2, <1>8, <1>9, OutputFacts DEF Listed
<1>11. jobs[j].n # Len(Puts) => new.n \in DOMAIN Puts
  BY <1>2, <1>8, OutputFacts
<1>12. new.group \subseteq DOMAIN d.files
  BY <1>2, <1>4, <1>8
<1>13. JobSound(jobs[j])'
  <2>1. jobs[j]' = new
    BY <1>6
  <2> HIDE DEF new
  <2> QED
    BY <1>1, <1>2, <1>5, <1>8, <1>9, <1>10, <1>11, <1>12, <2>1 DEF JobSound, Making
<1> QED
  <2> HIDE DEF new
  <2> QED
    BY <1>5, <1>6, <1>13, OneJobChanges

LEMMA PutGroupSound ==
  ASSUME DirInv, JobInv, NEW j \in DOMAIN jobs, PutGroup(j)
  PROVE  DirInv' /\ JobInv'
<1> PICK k : k = jobs[j].key
  OBVIOUS
<1> PICK d : d = [Directory(k) EXCEPT !.group = jobs[j].group]
  OBVIOUS
<1>1. JobSound(jobs[j]) /\ Sound(Directory(k)) /\ jobs[j].at = "group"
  BY DirectorySound DEF JobInv, PutGroup
<1>2. d.files = Directory(k).files /\ d.group = jobs[j].group /\ DOMAIN d = {"files", "group"}
  BY <1>1 DEF Sound
<1>3. Sound(d) /\ jobs[j].group = Listed /\ Listed \subseteq DOMAIN Directory(k).files
  BY <1>1, <1>2 DEF Sound, JobSound
<1>4. DirInv' /\ Directory(k)' = d /\ \A q : DOMAIN Directory(q).files \subseteq DOMAIN Directory(q)'.files
  <2>1. dir' = SetDir(dir, k, d)
    BY DEF PutGroup
  <2> QED
    BY <1>2, <1>3, <2>1, DirGrows
<1>5. jobs' = [jobs EXCEPT ![j] = [jobs[j] EXCEPT !.at = "load"]]
  BY DEF PutGroup, To
<1>6. JobSound(jobs[j])'
  BY <1>1, <1>2, <1>3, <1>4, <1>5 DEF JobSound, Making, JobFields
<1> QED
  BY <1>4, <1>5, <1>6, OneJobChanges

LEMMA LoadSound ==
  ASSUME DirInv, JobInv, NEW j \in DOMAIN jobs, Load(j)
  PROVE  DirInv' /\ JobInv'
<1> DEFINE d == Directory(jobs[j].key)
           k == Read(d, jobs[j].group)
<1>1. JobSound(jobs[j]) /\ Sound(d) /\ jobs[j].group = Listed /\ Listed \subseteq DOMAIN d.files
  BY DirectorySound DEF JobInv, JobSound, Load, Making
<1>2. \A f \in Listed : Complete(d.files[f])
  BY <1>1 DEF Sound
<1>3. Complete(k)
  BY <1>1, <1>2, OutputFacts, CompleteOrNot DEF Read
<1>4. jobs' = [jobs EXCEPT ![j] = [jobs[j] EXCEPT !.kernel = k, !.at = "done"]]
  BY DEF Load
<1>5. JobSound(jobs[j])'
  <2> HIDE DEF k
  <2> QED
    BY <1>1, <1>3, <1>4 DEF JobSound, Making, JobFields
<1> QED
  BY <1>4, <1>5, OneJobChanges, DirSame DEF Load

LEMMA StepSound ==
  ASSUME DirInv, JobInv, NEW j \in DOMAIN jobs, NEW p, JobStep(j, p)
  PROVE  DirInv' /\ JobInv' /\ DOMAIN jobs' = DOMAIN jobs
<1>1. DOMAIN jobs' = DOMAIN jobs
  BY DEF JobStep, Lookup, Stage, Put, Rename, PutGroup, Load, To
<1> QED
  BY <1>1, LookupSound, StageSound, PutSound, RenameSound, PutGroupSound, LoadSound DEF JobStep

LEMMA JobAdded ==
  ASSUME JobInv, UNCHANGED dir, NEW j, NEW new, JobSound(new), jobs' = Bind(jobs, j, new)
  PROVE  JobInv' /\ DOMAIN jobs' = DOMAIN jobs \cup {j}
<1>1. \A x : JobSound(x)' <=> JobSound(x)
  BY DEF JobSound, Directory
<1>2. DOMAIN jobs' = DOMAIN jobs \cup {j}
  BY DEF Bind
<1>3. \A i \in DOMAIN jobs' : jobs'[i] = IF i = j THEN new ELSE jobs[i]
  BY DEF Bind
<1> QED
  BY <1>1, <1>2, <1>3 DEF JobInv

LEMMA JobsRemoved ==
  ASSUME JobInv, UNCHANGED dir, NEW S, S \subseteq DOMAIN jobs, jobs' = [j \in S |-> jobs[j]]
  PROVE  JobInv'
BY DEF JobInv, JobSound, Directory

LEMMA NewJobSound ==
  ASSUME NEW c, NEW k, NEW j, j \in {NewJob(c, k), [NewJob(c, k) EXCEPT !.at = "lookup"]}
  PROVE  JobSound(j)
BY DEF NewJob, JobSound, JobFields, Making

-----------------------------------------------------------------------------
(* Threads: the futures they hold name jobs there are.                      *)

RunFields == {"pc", "at", "active", "open", "futures", "handled", "raised", "got", "tuned", "kernel"}

IsSeq(s) == s \in Seq({s[i] : i \in DOMAIN s})

FutureOf(r, k) == \E i \in DOMAIN r.futures : k = Future(i)
Held(r, k) == Complete(k) \/ FutureOf(r, k)

RunSound(t, r) ==
  /\ DOMAIN r = RunFields
  /\ IsSeq(r.futures)
  /\ \A i \in DOMAIN r.futures : Job(t, i) \in DOMAIN jobs
  /\ r.at = "compile" => Job(t, 0) \in DOMAIN jobs
  /\ r.at = "check" => Held(r, r.kernel)
  /\ r.at = "await" => FutureOf(r, r.kernel)
  /\ \A c \in DOMAIN r.got : Held(r, r.got[c])

RunInv == \A t \in Threads : RunSound(t, run[t])

KernelInv == \A p \in Processes : \A c \in DOMAIN kernels[p] : Complete(kernels[p][c])

SetupInv == setup \in Setups /\ DOMAIN run = Threads /\ DOMAIN kernels = Processes

CompleteInv == SetupInv /\ DirInv /\ JobInv /\ RunInv /\ KernelInv

LEMMA ThreadHasProcess == ASSUME SetupInv, NEW t \in Threads PROVE Proc(t) \in Processes
BY SetupAssumption DEF SetupInv, Threads, Processes, Proc

LEMMA AppendSeq ==
  ASSUME NEW s, IsSeq(s), NEW x
  PROVE  IsSeq(Append(s, x)) /\ DOMAIN Append(s, x) = DOMAIN s \cup {Len(s) + 1}
<1> DEFINE T == {s[i] : i \in DOMAIN s} \cup {x}
           a == Append(s, x)
<1>1. s \in Seq(T)
  BY DEF IsSeq
<1>2. a \in Seq(T) /\ Len(a) = Len(s) + 1 /\ DOMAIN a = 1 .. Len(s) + 1 /\ DOMAIN s = 1 .. Len(s)
  BY <1>1
<1>3. Len(s) \in Nat
  BY <1>1
<1>4. a[Len(s) + 1] = x /\ \A i \in DOMAIN s : a[i] = s[i]
  BY <1>1, <1>2, <1>3
<1>5. DOMAIN a = DOMAIN s \cup {Len(s) + 1}
  <2> HIDE DEF a
  <2> QED
    BY <1>2, <1>3
<1>6. {a[i] : i \in DOMAIN a} = T
  <2> HIDE DEF a
  <2> QED
    BY <1>4, <1>5
<1>7. IsSeq(a)
  BY <1>2, <1>6 DEF IsSeq
<1> QED
  BY <1>5, <1>7

LEMMA AppendKeeps ==
  ASSUME NEW s, IsSeq(s), NEW x, NEW k \in DOMAIN s
  PROVE  k \in DOMAIN Append(s, x) /\ Append(s, x)[k] = s[k]
<1> DEFINE T == {s[i] : i \in DOMAIN s} \cup {x}
<1>1. s \in Seq(T)
  BY DEF IsSeq
<1> QED
  BY <1>1

(* Two records of a thread that agree on what it holds.                     *)
Same(r, q) == DOMAIN q = RunFields /\ q.futures = r.futures /\ q.got = r.got

LEMMA SameSound ==
  ASSUME NEW t, NEW r, NEW q, RunSound(t, r), Same(r, q), q.at \notin {"compile", "check", "await"}
  PROVE  RunSound(t, q)
BY DEF RunSound, Same, Held, FutureOf

LEMMA NextSame ==
  ASSUME NEW r, DOMAIN r = RunFields
  PROVE  Same(r, Next1(r)) /\ Next1(r).at = "ready"
BY DEF Same, Next1, RunFields

LEMMA RaiseSame ==
  ASSUME NEW t, NEW r, DOMAIN r = RunFields
  PROVE  Same(r, Raise(t, r)) /\ Raise(t, r).at = "ready"
<1>1. CASE Inside(t)
  BY <1>1 DEF Same, Raise, RunFields
<1>2. CASE ~ Inside(t)
  BY <1>2, NextSame DEF Raise
<1> QED
  BY <1>1, <1>2

(* A step of t, seen from the threads: the others keep their jobs.          *)
LEMMA OneThreadRuns ==
  ASSUME SetupInv, RunInv, NEW t \in Threads, UNCHANGED setup, DOMAIN kernels' = DOMAIN kernels,
         NEW r, RunSound(t, r)', run' = [run EXCEPT ![t] = r],
         \A j \in DOMAIN jobs : j[1] # t => j \in DOMAIN jobs'
  PROVE  RunInv' /\ SetupInv'
<1>1. DOMAIN run' = Threads /\ run'[t] = r /\ \A u \in Threads : u # t => run'[u] = run[u]
  BY DEF SetupInv
<1>2. \A u \in Threads : \A i : u # t /\ Job(u, i) \in DOMAIN jobs => Job(u, i) \in DOMAIN jobs'
  BY DEF Job
<1>3. ASSUME NEW u \in Threads, u # t PROVE RunSound(u, run[u])'
  BY <1>1, <1>2, <1>3 DEF RunInv, RunSound, Held, FutureOf
<1>4. RunSound(t, run[t])'
  BY <1>1 DEF RunSound, Held, FutureOf
<1> QED
  BY <1>1, <1>3, <1>4 DEF RunInv, SetupInv, Threads, Processes

LEMMA RememberSound ==
  ASSUME SetupInv, KernelInv, UNCHANGED setup,
         NEW t \in Threads, NEW c, NEW k, Complete(k), Remember(t, c, k)
  PROVE  KernelInv' /\ DOMAIN kernels' = DOMAIN kernels
<1>1. DOMAIN kernels' = DOMAIN kernels
  BY DEF Remember
<1>2. ASSUME NEW p \in Processes, NEW d \in DOMAIN kernels'[p] PROVE Complete(kernels'[p][d])
  <2>1. CASE p = Proc(t)
    <3>1. kernels'[p] = Bind(kernels[p], c, k)
      BY <2>1 DEF Remember, SetupInv
    <3>2. d \in DOMAIN kernels[p] \cup {c} /\ kernels'[p][d] = IF d = c THEN k ELSE kernels[p][d]
      BY <1>2, <3>1 DEF Bind
    <3> QED
      BY <3>2 DEF KernelInv
  <2>2. CASE p # Proc(t)
    BY <1>2, <2>2 DEF Remember, SetupInv, KernelInv
  <2> QED
    BY <2>1, <2>2
<1> QED
  BY <1>1, <1>2 DEF KernelInv, Processes

LEMMA KernelsSame ==
  ASSUME KernelInv, UNCHANGED <<setup, kernels>>
  PROVE  KernelInv' /\ DOMAIN kernels' = DOMAIN kernels
BY DEF KernelInv, Processes

LEMMA JobsSame ==
  ASSUME JobInv, DirInv, UNCHANGED <<dir, jobs>>
  PROVE  JobInv' /\ DirInv'
BY DEF JobInv, JobSound, DirInv, Directory, Sound

(* A step of t that starts and ends no job and takes no kernel.             *)
LEMMA QuietStep ==
  ASSUME CompleteInv, NEW t \in Threads, NEW r, SetRun(t, r), UNCHANGED <<setup, dir, jobs, kernels>>,
         RunSound(t, r)
  PROVE  CompleteInv'
<1>1. RunSound(t, r)'
  BY DEF RunSound
<1> QED
  BY <1>1, OneThreadRuns, KernelsSame, JobsSame DEF CompleteInv, SetRun

(* One that puts a kernel into the kernel cache.                            *)
LEMMA TakingStep ==
  ASSUME CompleteInv, NEW t \in Threads, NEW r, SetRun(t, r), UNCHANGED <<setup, dir, jobs>>,
         RunSound(t, r), NEW c, NEW k, Complete(k), Remember(t, c, k)
  PROVE  CompleteInv'
<1>1. RunSound(t, r)'
  BY DEF RunSound
<1> QED
  BY <1>1, OneThreadRuns, RememberSound, JobsSame DEF CompleteInv, SetRun

(* What a job that ended well has made.                                     *)
LEMMA DoneIsComplete ==
  ASSUME JobInv, NEW j \in DOMAIN jobs, Finished(j), jobs[j].at # "failed"
  PROVE  Complete(jobs[j].kernel)
BY DEF JobInv, JobSound, Finished

-----------------------------------------------------------------------------
(* One lemma for each step of a thread.                                     *)

LEMMA EnterSound ==
  ASSUME CompleteInv, NEW t \in Threads, UNCHANGED setup, EnterMode(t)
  PROVE  CompleteInv'
<1>1. RunSound(t, run[t]) /\ DOMAIN run[t] = RunFields /\ run[t].at = "ready"
  BY DEF CompleteInv, RunInv, RunSound, EnterMode, Doing
<1>2. CASE run[t].active
  <2> DEFINE r == [run[t] EXCEPT !.pc = ExitOf(t) + 1, !.active = ~ Now(t).batch]
  <2>1. SetRun(t, r)
    BY <1>2 DEF EnterMode
  <2>2. Same(run[t], r) /\ r.at = "ready"
    BY <1>1 DEF Same, RunFields
  <2> HIDE DEF r
  <2> QED
    BY <1>1, <2>1, <2>2, SameSound, QuietStep DEF EnterMode, keyVars, cacheVars
<1>3. CASE ~ run[t].active
  <2> DEFINE r == [run[t] EXCEPT !.pc = @ + 1, !.active = TRUE, !.open = TRUE,
                                 !.futures = << >>, !.handled = {}, !.got = << >>, !.tuned = {}]
  <2>1. SetRun(t, r)
    BY <1>3 DEF EnterMode
  <2>2. DOMAIN r = RunFields /\ r.futures = << >> /\ r.got = << >> /\ r.at = "ready"
    BY <1>1 DEF RunFields
  <2> HIDE DEF r
  <2>3. RunSound(t, r)
    BY <2>2 DEF RunSound, IsSeq
  <2> QED
    BY <2>1, <2>3, QuietStep DEF EnterMode, keyVars, cacheVars
<1> QED
  BY <1>2, <1>3

LEMMA ExitOneSound ==
  ASSUME CompleteInv, NEW t \in Threads, UNCHANGED setup, ExitOne(t)
  PROVE  CompleteInv'
<1>1. RunSound(t, run[t]) /\ DOMAIN run[t] = RunFields /\ run[t].at = "ready"
  BY DEF CompleteInv, RunInv, RunSound, ExitOne, Doing
<1>2. PICK i \in DOMAIN run[t].futures :
        /\ Finished(Job(t, i))
        /\ IF jobs[Job(t, i)].at = "failed"
             THEN /\ SetRun(t, [run[t] EXCEPT !.at = "shutdown", !.raised = TRUE])
                  /\ UNCHANGED kernels
             ELSE /\ SetRun(t, [run[t] EXCEPT !.handled = @ \cup {i}])
                  /\ Finalize(t, i)
  BY DEF ExitOne
<1>3. CASE jobs[Job(t, i)].at = "failed"
  <2> DEFINE r == [run[t] EXCEPT !.at = "shutdown", !.raised = TRUE]
  <2>1. SetRun(t, r) /\ UNCHANGED kernels
    BY <1>2, <1>3
  <2>2. Same(run[t], r) /\ r.at = "shutdown"
    BY <1>1 DEF Same, RunFields
  <2> HIDE DEF r
  <2> QED
    BY <1>1, <2>1, <2>2, SameSound, QuietStep DEF ExitOne, keyVars, cacheVars
<1>4. CASE jobs[Job(t, i)].at # "failed"
  <2> DEFINE r == [run[t] EXCEPT !.handled = @ \cup {i}]
  <2>1. SetRun(t, r) /\ Finalize(t, i)
    BY <1>2, <1>4
  <2>2. Same(run[t], r) /\ r.at = "ready"
    BY <1>1 DEF Same, RunFields
  <2>3. Complete(jobs[Job(t, i)].kernel)
    BY <1>1, <1>2, <1>4, DoneIsComplete DEF RunSound, CompleteInv
  <2> HIDE DEF r
  <2> QED
    BY <1>1, <2>1, <2>2, <2>3, SameSound, TakingStep DEF ExitOne, keyVars, cacheVars, Finalize
<1> QED
  BY <1>3, <1>4

LEMMA ExitModeSound ==
  ASSUME CompleteInv, NEW t \in Threads, UNCHANGED setup, ExitMode(t)
  PROVE  CompleteInv'
<1> DEFINE r == [run[t] EXCEPT !.at = "shutdown", !.active = FALSE]
<1>1. RunSound(t, run[t]) /\ DOMAIN run[t] = RunFields
  BY DEF CompleteInv, RunInv, RunSound
<1>2. SetRun(t, r)
  BY DEF ExitMode
<1>3. Same(run[t], r) /\ r.at = "shutdown"
  BY <1>1 DEF Same, RunFields
<1> HIDE DEF r
<1> QED
  BY <1>1, <1>2, <1>3, SameSound, QuietStep DEF ExitMode, keyVars, cacheVars

(* The jobs that are forgotten are those of a mode that is left.            *)
LEMMA ShutdownSound ==
  ASSUME CompleteInv, NEW t \in Threads, UNCHANGED setup, Shutdown(t)
  PROVE  CompleteInv'
<1>1. RunSound(t, run[t])
  BY DEF CompleteInv, RunInv
<1>2. Same(run[t], Next1(run[t])) /\ Next1(run[t]).at = "ready"
  BY <1>1, NextSame DEF RunSound
<1>3. PICK r : /\ SetRun(t, r) /\ DOMAIN r = RunFields /\ r.at = "ready" /\ r.got = << >>
               /\ r.futures = IF LeftActive(t) THEN run[t].futures ELSE << >>
  <2> DEFINE r == [Next1(run[t]) EXCEPT !.open = FALSE, !.raised = FALSE, !.active = LeftActive(t),
                                        !.futures = IF LeftActive(t) THEN @ ELSE << >>,
                                        !.handled = {}, !.got = << >>]
  <2>1. SetRun(t, r)
    BY DEF Shutdown
  <2>2. /\ DOMAIN r = RunFields /\ r.at = "ready" /\ r.got = << >>
        /\ r.futures = IF LeftActive(t) THEN run[t].futures ELSE << >>
    BY <1>2 DEF Same, RunFields
  <2> HIDE DEF r
  <2> QED
    BY <2>1, <2>2
<1>4. JobInv' /\ DirInv'
  <2>1. JobsOf(t) \subseteq DOMAIN jobs
    BY <1>1 DEF JobsOf, RunSound
  <2> QED
    BY <2>1, JobsRemoved, JobsSame, DirSame DEF Shutdown, CompleteInv, keyVars
<1>5. \A j \in DOMAIN jobs : j \in DOMAIN jobs' \/ (~ LeftActive(t) /\ j \in JobsOf(t))
  BY DEF Shutdown
<1>6. \A j \in DOMAIN jobs : j[1] # t => j \in DOMAIN jobs'
  BY <1>5 DEF JobsOf, Job
<1>7. RunSound(t, r)'
  BY <1>1, <1>3, <1>5 DEF RunSound, IsSeq
<1> QED
  BY <1>3, <1>4, <1>6, <1>7, OneThreadRuns, KernelsSame DEF CompleteInv, SetRun, Shutdown, keyVars

LEMMA StartSound ==
  ASSUME CompleteInv, NEW t \in Threads, UNCHANGED setup, StartRun(t)
  PROVE  CompleteInv'
<1> DEFINE c == CallOf(t)
<1>1. RunSound(t, run[t]) /\ DOMAIN run[t] = RunFields
  BY DEF CompleteInv, RunInv, RunSound
<1>2. CASE c \in DOMAIN kernels[Proc(t)]
  <2> DEFINE k == kernels[Proc(t)][c]
             r == [run[t] EXCEPT !.at = "check", !.kernel = k]
  <2>1. SetRun(t, r)
    BY <1>2 DEF StartRun
  <2>2. Complete(k)
    BY <1>2, ThreadHasProcess DEF CompleteInv, KernelInv
  <2>3. Same(run[t], r) /\ r.at = "check" /\ r.kernel = k
    BY <1>1 DEF Same, RunFields
  <2> HIDE DEF r, k
  <2>4. RunSound(t, r)
    BY <1>1, <2>2, <2>3 DEF RunSound, Same, Held, FutureOf
  <2> QED
    BY <2>1, <2>4, QuietStep DEF StartRun, cacheVars
<1>3. CASE c \notin DOMAIN kernels[Proc(t)]
  <2> DEFINE r == [run[t] EXCEPT !.at = "key"]
  <2>1. SetRun(t, r)
    BY <1>3 DEF StartRun
  <2>2. Same(run[t], r) /\ r.at = "key"
    BY <1>1 DEF Same, RunFields
  <2> HIDE DEF r
  <2> QED
    BY <1>1, <2>1, <2>2, SameSound, QuietStep DEF StartRun, cacheVars
<1> QED
  BY <1>2, <1>3

LEMMA KeyFailsSound ==
  ASSUME CompleteInv, NEW t \in Threads, UNCHANGED setup, KeyFails(t)
  PROVE  CompleteInv'
<1>1. RunSound(t, run[t]) /\ DOMAIN run[t] = RunFields
  BY DEF CompleteInv, RunInv, RunSound
<1>2. SetRun(t, Raise(t, run[t]))
  BY DEF KeyFails
<1>3. RunSound(t, Raise(t, run[t]))
  BY <1>1, RaiseSame, SameSound
<1> QED
  BY <1>2, <1>3, QuietStep DEF KeyFails, cacheVars

(* A job begins: its thread's own or a worker's.                            *)
LEMMA StartingStep ==
  ASSUME CompleteInv, NEW t \in Threads, NEW r, SetRun(t, r), UNCHANGED <<setup, dir, kernels>>,
         NEW j, NEW new, JobSound(new), jobs' = Bind(jobs, j, new), RunSound(t, r)'
  PROVE  CompleteInv'
<1>1. JobInv' /\ DirInv' /\ DOMAIN jobs' = DOMAIN jobs \cup {j}
  BY JobAdded, DirSame DEF CompleteInv
<1> QED
  BY <1>1, OneThreadRuns, KernelsSame DEF CompleteInv, SetRun

LEMMA CompileNowSound ==
  ASSUME CompleteInv, NEW t \in Threads, UNCHANGED setup, CompileNow(t)
  PROVE  CompleteInv'
<1> DEFINE r == [run[t] EXCEPT !.at = "compile"]
           new == [NewJob(CallOf(t), CompileKey(t)) EXCEPT !.at = "lookup"]
<1>1. RunSound(t, run[t]) /\ DOMAIN run[t] = RunFields
  BY DEF CompleteInv, RunInv, RunSound
<1>2. SetRun(t, r) /\ jobs' = Bind(jobs, Job(t, 0), new)
  BY DEF CompileNow
<1>3. Same(run[t], r) /\ r.at = "compile"
  BY <1>1 DEF Same, RunFields
<1>4. JobSound(new)
  BY NewJobSound
<1> HIDE DEF r, new
<1>5. DOMAIN jobs' = DOMAIN jobs \cup {Job(t, 0)}
  BY <1>2 DEF Bind
<1>6. PICK q : q = r
  OBVIOUS
<1>7. RunSound(t, q)'
  BY <1>1, <1>3, <1>5, <1>6 DEF RunSound, Same, Held, FutureOf
<1> QED
  BY <1>2, <1>4, <1>6, <1>7, StartingStep DEF CompileNow

LEMMA SubmitSound ==
  ASSUME CompleteInv, NEW t \in Threads, UNCHANGED setup, Submit(t)
  PROVE  CompleteInv'
<1>1. RunSound(t, run[t]) /\ DOMAIN run[t] = RunFields
  BY DEF CompleteInv, RunInv, RunSound
<1>2. CASE UNCHANGED jobs /\ \E i \in WithKey(t) : SetRun(t, [run[t] EXCEPT !.at = "check", !.kernel = Future(i)])
  <2>1. PICK i \in DOMAIN run[t].futures : SetRun(t, [run[t] EXCEPT !.at = "check", !.kernel = Future(i)])
    BY <1>2 DEF WithKey
  <2> DEFINE r == [run[t] EXCEPT !.at = "check", !.kernel = Future(i)]
  <2>2. SetRun(t, r)
    BY <2>1
  <2>3. Same(run[t], r) /\ r.at = "check" /\ r.kernel = Future(i)
    BY <1>1 DEF Same, RunFields
  <2> HIDE DEF r
  <2>4. RunSound(t, r)
    BY <1>1, <2>3 DEF RunSound, Same, Held, FutureOf
  <2> QED
    BY <1>2, <2>2, <2>4, QuietStep DEF Submit
<1>3. CASE UNCHANGED jobs /\ SetRun(t, Raise(t, run[t]))
  <2>1. RunSound(t, Raise(t, run[t]))
    BY <1>1, RaiseSame, SameSound
  <2> QED
    BY <1>3, <2>1, QuietStep DEF Submit
<1>4. CASE \E i \in {Len(run[t].futures) + 1} :
             /\ SetRun(t, [run[t] EXCEPT !.at = "check", !.kernel = Future(i),
                  !.futures = Append(@, [key |-> CompileKey(t), call |-> CallOf(t)])])
             /\ jobs' = Bind(jobs, Job(t, i), NewJob(CallOf(t), CompileKey(t)))
  <2> DEFINE i == Len(run[t].futures) + 1
             more == Append(run[t].futures, [key |-> CompileKey(t), call |-> CallOf(t)])
             r == [run[t] EXCEPT !.at = "check", !.kernel = Future(i), !.futures = more]
  <2>1. SetRun(t, r) /\ jobs' = Bind(jobs, Job(t, i), NewJob(CallOf(t), CompileKey(t)))
    BY <1>4
  <2>2. IsSeq(more) /\ DOMAIN more = DOMAIN run[t].futures \cup {i}
    BY <1>1, AppendSeq DEF RunSound
  <2>3. DOMAIN jobs' = DOMAIN jobs \cup {Job(t, i)}
    BY <2>1 DEF Bind
  <2>4. /\ DOMAIN r = RunFields /\ r.at = "check" /\ r.kernel = Future(i)
        /\ r.futures = more /\ r.got = run[t].got
    BY <1>1 DEF RunFields
  <2> HIDE DEF r, more, i
  <2>5. PICK q : q = r
    OBVIOUS
  <2>6. RunSound(t, q)'
    BY <1>1, <2>2, <2>3, <2>4, <2>5 DEF RunSound, Held, FutureOf
  <2> QED
    BY <2>1, <2>5, <2>6, NewJobSound, StartingStep DEF Submit
<1> QED
  BY <1>2, <1>3, <1>4 DEF Submit

LEMMA CompiledSound ==
  ASSUME CompleteInv, NEW t \in Threads, UNCHANGED setup, Compiled(t)
  PROVE  CompleteInv'
<1>1. RunSound(t, run[t]) /\ DOMAIN run[t] = RunFields /\ Job(t, 0) \in DOMAIN jobs /\ Finished(Job(t, 0))
  BY DEF CompleteInv, RunInv, RunSound, Compiled, At
<1>2. jobs' = [j \in DOMAIN jobs \ {Job(t, 0)} |-> jobs[j]]
  BY DEF Compiled
<1>3. JobInv' /\ DirInv'
  BY <1>2, JobsRemoved, DirSame DEF Compiled, CompleteInv
<1>4. /\ \A j \in DOMAIN jobs : j[1] # t => j \in DOMAIN jobs'
      /\ \A i \in DOMAIN run[t].futures : Job(t, i) \in DOMAIN jobs'
  <2>1. \A i \in DOMAIN run[t].futures : i # 0
    BY <1>1 DEF RunSound, IsSeq
  <2> QED
    BY <1>1, <1>2, <2>1 DEF Job, RunSound
<1>5. CASE jobs[Job(t, 0)].at = "failed"
  <2>1. SetRun(t, Raise(t, run[t])) /\ UNCHANGED kernels
    BY <1>5 DEF Compiled
  <2>2. PICK r : r = Raise(t, run[t])
    OBVIOUS
  <2>3. RunSound(t, r)'
    BY <1>1, <1>4, <2>2, RaiseSame DEF RunSound, Same, Held, FutureOf
  <2> QED
    BY <1>3, <1>4, <2>1, <2>2, <2>3, OneThreadRuns, KernelsSame DEF CompleteInv, SetRun
<1>6. CASE jobs[Job(t, 0)].at # "failed"
  <2> DEFINE k == jobs[Job(t, 0)].kernel
             r == [run[t] EXCEPT !.at = "check", !.kernel = k]
  <2>1. SetRun(t, r) /\ Remember(t, CallOf(t), k)
    BY <1>6 DEF Compiled
  <2>2. Complete(k)
    BY <1>1, <1>6, DoneIsComplete DEF CompleteInv
  <2>3. Same(run[t], r) /\ r.at = "check" /\ r.kernel = k
    BY <1>1 DEF Same, RunFields
  <2> HIDE DEF r, k
  <2>4. PICK q : q = r
    OBVIOUS
  <2>5. RunSound(t, q)'
    BY <1>1, <1>4, <2>2, <2>3, <2>4 DEF RunSound, Same, Held, FutureOf
  <2>6. KernelInv' /\ DOMAIN kernels' = DOMAIN kernels
    BY <2>1, <2>2, RememberSound DEF CompleteInv
  <2> QED
    BY <1>3, <1>4, <2>1, <2>4, <2>5, <2>6, OneThreadRuns DEF CompleteInv, SetRun
<1> QED
  BY <1>5, <1>6

LEMMA CheckSound ==
  ASSUME CompleteInv, NEW t \in Threads, UNCHANGED setup, Check(t)
  PROVE  CompleteInv'
<1>1. RunSound(t, run[t]) /\ DOMAIN run[t] = RunFields /\ Held(run[t], run[t].kernel)
  BY DEF CompleteInv, RunInv, RunSound, Check, At
<1>2. CASE ~ GlobalsMatch(t)
  <2>1. SetRun(t, Raise(t, run[t]))
    BY <1>2 DEF Check
  <2>2. RunSound(t, Raise(t, run[t]))
    BY <1>1, RaiseSame, SameSound
  <2> QED
    BY <2>1, <2>2, QuietStep DEF Check, keyVars, cacheVars
<1>3. CASE GlobalsMatch(t) /\ Now(t).op = "warmup"
  <2> DEFINE got == Bind(run[t].got, CallOf(t), run[t].kernel)
             r == [Next1(run[t]) EXCEPT !.got = got]
  <2>1. r = [Next1(run[t]) EXCEPT !.got = Bind(@, CallOf(t), run[t].kernel)]
    BY <1>1, NextSame DEF Same
  <2>2. SetRun(t, r)
    BY <1>3, <2>1 DEF Check
  <2>3. \A c \in DOMAIN got : Held(run[t], got[c])
    BY <1>1 DEF Bind, RunSound
  <2>4. DOMAIN r = RunFields /\ r.at = "ready" /\ r.futures = run[t].futures /\ r.got = got
    BY <1>1, NextSame DEF Same, RunFields
  <2> HIDE DEF r, got
  <2>5. RunSound(t, r)
    BY <1>1, <2>3, <2>4 DEF RunSound, Held, FutureOf
  <2> QED
    BY <2>2, <2>5, QuietStep DEF Check, keyVars, cacheVars
<1>4. CASE GlobalsMatch(t) /\ Now(t).op # "warmup"
  <2> DEFINE at == IF IsFuture(run[t].kernel) THEN "await" ELSE "launch"
             r == [run[t] EXCEPT !.at = at]
  <2>1. SetRun(t, r)
    BY <1>4 DEF Check
  <2>2. Same(run[t], r) /\ r.at = at /\ r.kernel = run[t].kernel
    BY <1>1 DEF Same, RunFields
  <2>3. at = "await" => FutureOf(run[t], run[t].kernel)
    BY <1>1, CompleteOrNot DEF Held
  <2>4. at \in {"await", "launch"}
    OBVIOUS
  <2> HIDE DEF r, at
  <2>5. RunSound(t, r)
    BY <1>1, <2>2, <2>3, <2>4 DEF RunSound, Same, Held, FutureOf
  <2> QED
    BY <2>1, <2>5, QuietStep DEF Check, keyVars, cacheVars
<1> QED
  BY <1>2, <1>3, <1>4

LEMMA AwaitSound ==
  ASSUME CompleteInv, NEW t \in Threads, UNCHANGED setup, Await(t)
  PROVE  CompleteInv'
<1>1. RunSound(t, run[t]) /\ DOMAIN run[t] = RunFields /\ FutureOf(run[t], run[t].kernel)
  BY DEF CompleteInv, RunInv, RunSound, Await, At
<1>2. PICK i \in DOMAIN run[t].futures : run[t].kernel = Future(i)
  BY <1>1 DEF FutureOf
<1>3. run[t].kernel[2] = i /\ Job(t, i) \in DOMAIN jobs
  BY <1>1, <1>2 DEF Future, RunSound
<1>4. CASE jobs[Job(t, i)].at = "failed"
  <2>1. SetRun(t, Raise(t, run[t])) /\ UNCHANGED kernels
    BY <1>3, <1>4 DEF Await
  <2>2. RunSound(t, Raise(t, run[t]))
    BY <1>1, RaiseSame, SameSound
  <2> QED
    BY <2>1, <2>2, QuietStep DEF Await, keyVars, cacheVars
<1>5. CASE jobs[Job(t, i)].at # "failed"
  <2> DEFINE r == [run[t] EXCEPT !.at = "launch", !.kernel = jobs[Job(t, i)].kernel]
  <2>1. SetRun(t, r) /\ Finalize(t, i)
    BY <1>3, <1>5 DEF Await
  <2>2. Same(run[t], r) /\ r.at = "launch"
    BY <1>1 DEF Same, RunFields
  <2>3. Complete(jobs[Job(t, i)].kernel)
    BY <1>3, <1>5, DoneIsComplete DEF Await, CompleteInv
  <2> HIDE DEF r
  <2> QED
    BY <1>1, <2>1, <2>2, <2>3, SameSound, TakingStep DEF Await, keyVars, cacheVars, Finalize
<1> QED
  BY <1>4, <1>5

LEMMA TakeResultSound ==
  ASSUME CompleteInv, NEW t \in Threads, UNCHANGED setup, TakeResult(t)
  PROVE  CompleteInv'
<1> DEFINE c == CallOf(t)
           k == run[t].got[c]
           r == [Next1(run[t]) EXCEPT !.tuned = @ \cup {c}]
<1>1. RunSound(t, run[t]) /\ DOMAIN run[t] = RunFields /\ Held(run[t], k)
  BY DEF CompleteInv, RunInv, RunSound, TakeResult
<1>2. Same(run[t], r) /\ r.at = "ready"
  BY <1>1, NextSame DEF Same, RunFields
<1>3. RunSound(t, r) /\ RunSound(t, Next1(run[t])) /\ RunSound(t, Raise(t, run[t]))
  <2> HIDE DEF r
  <2> QED
    BY <1>1, <1>2, NextSame, RaiseSame, SameSound
<1>4. CASE ~ IsFuture(k)
  <2>1. SetRun(t, r) /\ UNCHANGED kernels
    BY <1>4 DEF TakeResult, CallOf
  <2> HIDE DEF r
  <2> QED
    BY <1>3, <2>1, QuietStep DEF TakeResult, keyVars, cacheVars
<1>5. CASE IsFuture(k)
  <2>1. PICK i \in DOMAIN run[t].futures : k = Future(i)
    BY <1>1, <1>5, CompleteOrNot DEF Held, FutureOf
  <2>2. k[2] = i /\ Job(t, i) \in DOMAIN jobs
    BY <1>1, <2>1 DEF Future, RunSound
  <2>3. /\ Finished(Job(t, i))
        /\ IF jobs[Job(t, i)].at = "failed"
             THEN (SetRun(t, Next1(run[t])) \/ SetRun(t, Raise(t, run[t]))) /\ UNCHANGED kernels
             ELSE SetRun(t, r) /\ Finalize(t, i)
    BY <1>5, <2>2 DEF TakeResult, CallOf
  <2> HIDE DEF r, k
  <2>4. CASE jobs[Job(t, i)].at = "failed"
    BY <1>3, <2>3, <2>4, QuietStep DEF TakeResult, keyVars, cacheVars
  <2>5. CASE jobs[Job(t, i)].at # "failed"
    <3>1. Complete(jobs[Job(t, i)].kernel)
      BY <2>2, <2>3, <2>5, DoneIsComplete DEF CompleteInv
    <3> QED
      BY <1>3, <2>3, <2>5, <3>1, TakingStep DEF TakeResult, keyVars, cacheVars, Finalize
  <2> QED
    BY <2>4, <2>5
<1> QED
  BY <1>4, <1>5

LEMMA GoingOnSound ==
  ASSUME CompleteInv, NEW t \in Threads, UNCHANGED setup, LaunchKernel(t) \/ SkipBench(t) \/ SetGlobal(t)
  PROVE  CompleteInv'
<1>1. RunSound(t, run[t]) /\ DOMAIN run[t] = RunFields
  BY DEF CompleteInv, RunInv, RunSound
<1>2. RunSound(t, Next1(run[t]))
  BY <1>1, NextSame, SameSound
<1> QED
  BY <1>2, QuietStep DEF LaunchKernel, SkipBench, SetGlobal, keyVars, cacheVars

-----------------------------------------------------------------------------
(* Jobs, crashes, and the whole.                                            *)

LEMMA ThreadsKept ==
  ASSUME SetupInv, RunInv, KernelInv, UNCHANGED <<setup, run, kernels>>, DOMAIN jobs' = DOMAIN jobs
  PROVE  SetupInv' /\ RunInv' /\ KernelInv'
BY DEF SetupInv, RunInv, KernelInv, RunSound, Held, FutureOf, Threads, Processes

LEMMA CompilingSound ==
  ASSUME CompleteInv, NEW j \in DOMAIN jobs, UNCHANGED setup, Compiling(j)
  PROVE  CompleteInv'
BY StepSound, ThreadsKept DEF CompleteInv, Compiling

LEMMA ComputingSound ==
  ASSUME CompleteInv, NEW t, UNCHANGED setup, Computing(t)
  PROVE  CompleteInv'
BY JobsSame, ThreadsKept DEF CompleteInv, Computing, cacheVars

LEMMA TakeJobSound ==
  ASSUME CompleteInv, NEW t, NEW i, Job(t, i) \in DOMAIN jobs, UNCHANGED setup, TakeJob(t, i)
  PROVE  CompleteInv'
<1> PICK j : j = Job(t, i)
  OBVIOUS
<1>1. JobSound(jobs[j]) /\ jobs[j].at = "queued" /\ UNCHANGED dir
  BY DEF CompleteInv, JobInv, TakeJob
<1>2. jobs' = [jobs EXCEPT ![j] = [jobs[j] EXCEPT !.at = "lookup"]]
  BY DEF TakeJob, To
<1>3. JobSound(jobs[j])'
  BY <1>1, <1>2, DirSame DEF JobSound, Making, JobFields
<1>4. JobInv' /\ DirInv' /\ DOMAIN jobs' = DOMAIN jobs
  BY <1>1, <1>2, <1>3, OneJobChanges, DirSame DEF CompleteInv
<1> QED
  BY <1>4, ThreadsKept DEF CompleteInv, TakeJob

LEMMA IdleSound == ASSUME NEW t PROVE RunSound(t, Idle) /\ RunSound(t, Idle)'
<1>1. /\ DOMAIN Idle = RunFields /\ Idle.at = "ready"
      /\ Idle.futures = << >> /\ Idle.got = << >>
  BY DEF Idle, RunFields
<1>2. DOMAIN Idle.futures = {} /\ DOMAIN Idle.got = {}
  BY <1>1
<1>3. IsSeq(Idle.futures)
  BY <1>1 DEF IsSeq
<1> QED
  BY <1>1, <1>2, <1>3 DEF RunSound

LEMMA CrashSound ==
  ASSUME CompleteInv, NEW p \in Processes, Crash(p)
  PROVE  CompleteInv'
<1>1. UNCHANGED <<setup, dir>>
  BY DEF Crash
<1> DEFINE S == {i \in DOMAIN jobs : Proc(i[1]) # p}
<1>2. jobs' = [j \in S |-> jobs[j]]
  BY DEF Crash
<1>3. JobInv' /\ DirInv'
  BY <1>1, <1>2, JobsRemoved, DirSame DEF CompleteInv
<1>4. run' = [t \in Threads |-> IF Proc(t) = p THEN Idle ELSE run[t]]
  BY DEF Crash
<1>5. ASSUME NEW t \in Threads PROVE RunSound(t, run[t])'
  <2>1. CASE Proc(t) = p
    <3>1. run'[t] = Idle
      BY <1>4, <2>1
    <3> QED
      BY <3>1, IdleSound
  <2>2. CASE Proc(t) # p
    <3>1. \A i : Job(t, i) \in DOMAIN jobs => Job(t, i) \in DOMAIN jobs'
      BY <1>2, <2>2 DEF Job
    <3>2. run'[t] = run[t] /\ RunSound(t, run[t])
      BY <1>4, <2>2 DEF CompleteInv, RunInv
    <3> QED
      BY <3>1, <3>2 DEF RunSound, Held, FutureOf
  <2> QED
    BY <2>1, <2>2
<1>6. KernelInv'
  <2>1. kernels' = [kernels EXCEPT ![p] = << >>]
    BY DEF Crash
  <2> QED
    BY <1>1, <2>1 DEF CompleteInv, KernelInv, SetupInv, Processes
<1>7. SetupInv'
  BY <1>1, <1>4 DEF Crash, CompleteInv, SetupInv, Threads, Processes
<1>8. RunInv'
  BY <1>1, <1>5 DEF RunInv, Threads
<1> QED
  BY <1>3, <1>6, <1>7, <1>8 DEF CompleteInv

LEMMA CompleteInit == Init => CompleteInv
<1> SUFFICES ASSUME Init PROVE CompleteInv
  OBVIOUS
<1>1. DirInv /\ JobInv
  BY DEF Init, InitCache, DirInv, JobInv
<1>2. SetupInv /\ KernelInv
  BY DEF Init, SetupInv, KernelInv
<1>3. RunInv
  BY IdleSound DEF Init, RunInv
<1> QED
  BY <1>1, <1>2, <1>3 DEF CompleteInv

LEMMA CompleteNext == CompleteInv /\ [Next]_vars => CompleteInv'
<1> SUFFICES ASSUME CompleteInv, [Next]_vars PROVE CompleteInv'
  OBVIOUS
<1>1. ASSUME NEW t \in ThreadIds, ThreadStep(t) PROVE CompleteInv'
  <2>1. t \in Threads /\ UNCHANGED setup
    BY <1>1 DEF ThreadStep
  <2>2. CASE EnterMode(t) \/ ExitOne(t) \/ ExitMode(t) \/ Shutdown(t)
    BY <2>1, <2>2, EnterSound, ExitOneSound, ExitModeSound, ShutdownSound
  <2>3. CASE StartRun(t) \/ KeyFails(t) \/ CompileNow(t) \/ Submit(t) \/ Compiled(t)
    BY <2>1, <2>3, StartSound, KeyFailsSound, CompileNowSound, SubmitSound, CompiledSound
  <2>4. CASE Check(t) \/ Await(t) \/ LaunchKernel(t) \/ TakeResult(t) \/ SkipBench(t) \/ SetGlobal(t)
    BY <2>1, <2>4, CheckSound, AwaitSound, TakeResultSound, GoingOnSound
  <2>5. CASE Computing(t)
    BY <2>1, <2>5, ComputingSound
  <2>6. CASE Job(t, 0) \in DOMAIN jobs /\ Compiling(Job(t, 0))
    BY <2>1, <2>6, CompilingSound
  <2> QED
    BY <1>1, <2>2, <2>3, <2>4, <2>5, <2>6 DEF ThreadStep
<1>2. ASSUME NEW t \in ThreadIds, NEW i \in 1 .. MaxFutures, WorkerStep(t, i) PROVE CompleteInv'
  BY <1>2, TakeJobSound, CompilingSound DEF WorkerStep
<1>3. ASSUME NEW p \in Processes, Crash(p) PROVE CompleteInv'
  BY <1>3, CrashSound
<1>4. CASE UNCHANGED vars
  <2>1. UNCHANGED <<setup, dir, jobs, run, kernels>>
    BY <1>4 DEF vars, cacheVars
  <2> QED
    BY <2>1, JobsSame, ThreadsKept DEF CompleteInv
<1> QED
  BY <1>1, <1>2, <1>3, <1>4 DEF Next

LEMMA CompleteSafe == CompleteInv => KernelsComplete
<1> SUFFICES ASSUME CompleteInv PROVE KernelsComplete
  OBVIOUS
<1>1. \A j \in DOMAIN jobs : jobs[j].kernel # Broken
  BY CompleteOrNot DEF CompleteInv, JobInv, JobSound
<1>2. \A p \in Processes : \A c : c \in DOMAIN kernels[p] => kernels[p][c] # Broken
  BY CompleteOrNot DEF CompleteInv, KernelInv
<1> QED
  BY <1>1, <1>2 DEF KernelsComplete

(* A file is moved to its place when it is complete and a group is put when *)
(* all its files are: whatever processes, threads and workers compile at    *)
(* once, and wherever they stop, every kernel that is loaded is complete.   *)
THEOREM KernelsAlwaysComplete == Spec => []KernelsComplete
BY CompleteInit, CompleteNext, CompleteSafe, PTL DEF Spec
-----------------------------------------------------------------------------
(* When a block is left, every kernel that was asked for in it is in the    *)
(* kernel cache.  A future counts as handled only once the call it belongs  *)
(* to is there, a block is left without an exception only when all futures  *)
(* are handled, and nothing but a crash, which also ends the block, takes a *)
(* kernel out of the cache again.                                           *)

HandledSound(t, r) ==
  /\ r.handled \subseteq DOMAIN r.futures
  /\ \A i \in r.handled : r.futures[i].call \in DOMAIN kernels[Proc(t)]
  /\ r.at = "shutdown" /\ ~ r.raised => r.handled = DOMAIN r.futures

HandledInv == \A t \in Threads : HandledSound(t, run[t])

CachedInv == CompleteInv /\ HandledInv

KernelsGrow ==
  \A p \in Processes : DOMAIN kernels[p] \subseteq DOMAIN kernels'[p]

LEMMA RememberGrows ==
  ASSUME SetupInv, NEW t \in Threads, NEW c, NEW k, Remember(t, c, k)
  PROVE  KernelsGrow /\ c \in DOMAIN kernels'[Proc(t)]
<1>1. Proc(t) \in Processes /\ DOMAIN kernels = Processes
  BY ThreadHasProcess DEF SetupInv
<1>2. kernels'[Proc(t)] = Bind(kernels[Proc(t)], c, k)
  BY <1>1 DEF Remember
<1>3. \A p \in Processes : p # Proc(t) => kernels'[p] = kernels[p]
  BY <1>1 DEF Remember
<1>4. DOMAIN kernels'[Proc(t)] = DOMAIN kernels[Proc(t)] \cup {c}
  BY <1>2 DEF Bind
<1> QED
  BY <1>3, <1>4 DEF KernelsGrow

(* A step of t that gives it the record r.                                  *)
LEMMA OneThreadHandles ==
  ASSUME CachedInv, NEW t \in Threads, UNCHANGED setup, KernelsGrow,
         NEW r, SetRun(t, r), HandledSound(t, r)'
  PROVE  HandledInv'
<1>1. Threads' = Threads /\ \A u : Proc(u)' = Proc(u)
  BY DEF Threads, Proc
<1>2. run'[t] = r /\ \A u \in Threads : u # t => run'[u] = run[u]
  BY DEF SetRun, CachedInv, CompleteInv, SetupInv
<1>3. ASSUME NEW u \in Threads, u # t PROVE HandledSound(u, run[u])'
  <2>1. HandledSound(u, run[u])
    BY DEF CachedInv, HandledInv
  <2>2. run'[u] = run[u]
    BY <1>2, <1>3
  <2>3. \A i \in run[u].handled : run[u].futures[i].call \in DOMAIN kernels'[Proc(u)]
    BY <2>1, ThreadHasProcess DEF HandledSound, KernelsGrow, CachedInv, CompleteInv
  <2> QED
    BY <1>1, <2>1, <2>2, <2>3 DEF HandledSound
<1>4. HandledSound(t, run[t])'
  BY <1>2 DEF HandledSound
<1> QED
  BY <1>1, <1>3, <1>4 DEF HandledInv

(* One that handles no further future, and does not leave a block.          *)
LEMMA HandlesNothing ==
  ASSUME CachedInv, NEW t \in Threads, UNCHANGED setup, KernelsGrow,
         NEW r, SetRun(t, r), r.handled = run[t].handled, r.futures = run[t].futures, r.at # "shutdown"
  PROVE  HandledInv'
<1>1. HandledSound(t, run[t])
  BY DEF CachedInv, HandledInv
<1>2. \A i \in r.handled : r.futures[i].call \in DOMAIN kernels'[Proc(t)]
  BY <1>1, ThreadHasProcess DEF HandledSound, KernelsGrow, CachedInv, CompleteInv
<1>3. HandledSound(t, r)'
  BY <1>1, <1>2 DEF HandledSound, Proc
<1> QED
  BY <1>3, OneThreadHandles

LEMMA GrowsWhenSame == ASSUME UNCHANGED kernels PROVE KernelsGrow
BY DEF KernelsGrow

LEMMA NextHandles ==
  ASSUME NEW t, NEW r, DOMAIN r = RunFields
  PROVE  /\ Next1(r).handled = r.handled /\ Raise(t, r).handled = r.handled
         /\ Next1(r).futures = r.futures /\ Raise(t, r).futures = r.futures
         /\ Next1(r).at = "ready" /\ Raise(t, r).at = "ready"
<1>1. Next1(r).handled = r.handled /\ Next1(r).futures = r.futures /\ Next1(r).at = "ready"
  BY DEF Next1, RunFields
<1>2. CASE Inside(t)
  BY <1>1, <1>2 DEF Raise, RunFields
<1>3. CASE ~ Inside(t)
  BY <1>1, <1>3 DEF Raise
<1> QED
  BY <1>1, <1>2, <1>3

LEMMA BlockHandles ==
  ASSUME CachedInv, NEW t \in Threads, UNCHANGED setup,
         EnterMode(t) \/ ExitOne(t) \/ ExitMode(t) \/ Shutdown(t)
  PROVE  HandledInv'
<1>1. DOMAIN run[t] = RunFields /\ HandledSound(t, run[t]) /\ SetupInv
  BY DEF CachedInv, CompleteInv, RunInv, RunSound, HandledInv
<1>2. CASE EnterMode(t)
  <2>0. KernelsGrow
    BY <1>2, GrowsWhenSame DEF EnterMode
  <2>1. CASE run[t].active
    <3> DEFINE r == [run[t] EXCEPT !.pc = ExitOf(t) + 1, !.active = ~ Now(t).batch]
    <3>1. SetRun(t, r)
      BY <1>2, <2>1 DEF EnterMode
    <3>2. r.handled = run[t].handled /\ r.futures = run[t].futures /\ r.at = run[t].at
      BY <1>1 DEF RunFields
    <3>3. run[t].at = "ready"
      BY <1>2 DEF EnterMode, Doing
    <3> HIDE DEF r
    <3> QED
      BY <2>0, <3>1, <3>2, <3>3, HandlesNothing
  <2>2. CASE ~ run[t].active
    <3> DEFINE r == [run[t] EXCEPT !.pc = @ + 1, !.active = TRUE, !.open = TRUE,
                                   !.futures = << >>, !.handled = {}, !.got = << >>, !.tuned = {}]
    <3>1. SetRun(t, r)
      BY <1>2, <2>2 DEF EnterMode
    <3>2. r.handled = {} /\ r.at = run[t].at
      BY <1>1 DEF RunFields
    <3>3. run[t].at = "ready"
      BY <1>2 DEF EnterMode, Doing
    <3> HIDE DEF r
    <3> PICK q : q = r
      OBVIOUS
    <3>4. HandledSound(t, q)'
      BY <3>2, <3>3 DEF HandledSound
    <3> QED
      BY <2>0, <3>1, <3>4, OneThreadHandles
  <2> QED
    BY <2>1, <2>2
<1>3. CASE ExitOne(t)
  <2>0. run[t].at = "ready"
    BY <1>3 DEF ExitOne, Doing
  <2>1. PICK i \in DOMAIN run[t].futures :
          IF jobs[Job(t, i)].at = "failed"
            THEN /\ SetRun(t, [run[t] EXCEPT !.at = "shutdown", !.raised = TRUE])
                 /\ UNCHANGED kernels
            ELSE /\ SetRun(t, [run[t] EXCEPT !.handled = @ \cup {i}])
                 /\ Finalize(t, i)
    BY <1>3 DEF ExitOne
  <2>2. CASE jobs[Job(t, i)].at = "failed"
    <3> DEFINE r == [run[t] EXCEPT !.at = "shutdown", !.raised = TRUE]
    <3>1. SetRun(t, r) /\ UNCHANGED kernels
      BY <2>1, <2>2
    <3>2. r.handled = run[t].handled /\ r.futures = run[t].futures /\ r.raised
      BY <1>1 DEF RunFields
    <3> HIDE DEF r
    <3> PICK q : q = r
      OBVIOUS
    <3>3. HandledSound(t, q)'
      BY <1>1, <3>1, <3>2 DEF HandledSound, Proc
    <3> QED
      BY <3>1, <3>3, GrowsWhenSame, OneThreadHandles
  <2>3. CASE jobs[Job(t, i)].at # "failed"
    <3> DEFINE r == [run[t] EXCEPT !.handled = @ \cup {i}]
    <3>1. SetRun(t, r) /\ Finalize(t, i)
      BY <2>1, <2>3
    <3>2. r.handled = run[t].handled \cup {i} /\ r.futures = run[t].futures /\ r.at = "ready"
      BY <1>1, <2>0 DEF RunFields
    <3> HIDE DEF r
    <3> PICK q : q = r
      OBVIOUS
    <3>3. KernelsGrow /\ run[t].futures[i].call \in DOMAIN kernels'[Proc(t)]
      BY <1>1, <3>1, RememberGrows DEF Finalize
    <3>4. \A k \in r.handled : r.futures[k].call \in DOMAIN kernels'[Proc(t)]
      BY <1>1, <3>2, <3>3, ThreadHasProcess DEF HandledSound, KernelsGrow
    <3>5. HandledSound(t, q)'
      BY <1>1, <3>2, <3>4 DEF HandledSound, Proc
    <3> QED
      BY <3>1, <3>3, <3>5, OneThreadHandles
  <2> QED
    BY <2>2, <2>3
<1>4. CASE ExitMode(t)
  <2> DEFINE r == [run[t] EXCEPT !.at = "shutdown", !.active = FALSE]
  <2>1. SetRun(t, r) /\ UNCHANGED kernels /\ run[t].handled = DOMAIN run[t].futures
    BY <1>4 DEF ExitMode
  <2>2. r.handled = run[t].handled /\ r.futures = run[t].futures
    BY <1>1 DEF RunFields
  <2> HIDE DEF r
  <2> PICK q : q = r
    OBVIOUS
  <2>3. HandledSound(t, q)'
    BY <1>1, <2>1, <2>2 DEF HandledSound, Proc
  <2> QED
    BY <2>1, <2>3, GrowsWhenSame, OneThreadHandles
<1>5. CASE Shutdown(t)
  <2> DEFINE fs == IF LeftActive(t) THEN run[t].futures ELSE << >>
             r == [Next1(run[t]) EXCEPT !.open = FALSE, !.raised = FALSE, !.active = LeftActive(t),
                                        !.futures = fs, !.handled = {}, !.got = << >>]
  <2>1. DOMAIN Next1(run[t]) = RunFields /\ Next1(run[t]).futures = run[t].futures /\ Next1(run[t]).at = "ready"
    BY <1>1, NextSame DEF Same
  <2>2. r = [Next1(run[t]) EXCEPT !.open = FALSE, !.raised = FALSE, !.active = LeftActive(t),
                                  !.futures = IF LeftActive(t) THEN @ ELSE << >>, !.handled = {}, !.got = << >>]
    BY <2>1
  <2>3. SetRun(t, r) /\ UNCHANGED kernels
    BY <1>5, <2>2 DEF Shutdown
  <2>4. r.handled = {} /\ r.at = "ready"
    BY <2>1 DEF RunFields
  <2> HIDE DEF r
  <2> PICK q : q = r
    OBVIOUS
  <2>5. HandledSound(t, q)'
    BY <2>4 DEF HandledSound
  <2> QED
    BY <2>3, <2>5, GrowsWhenSame, OneThreadHandles
<1> QED
  BY <1>2, <1>3, <1>4, <1>5
LEMMA RunHandles ==
  ASSUME CachedInv, NEW t \in Threads, UNCHANGED setup,
         StartRun(t) \/ KeyFails(t) \/ CompileNow(t) \/ Submit(t) \/ Compiled(t)
  PROVE  HandledInv'
<1>1. DOMAIN run[t] = RunFields /\ HandledSound(t, run[t]) /\ SetupInv /\ IsSeq(run[t].futures)
  BY DEF CachedInv, CompleteInv, RunInv, RunSound, HandledInv
<1>2. CASE StartRun(t)
  <2>1. UNCHANGED kernels
    BY <1>2 DEF StartRun
  <2>2. CASE SetRun(t, [run[t] EXCEPT !.at = "check", !.kernel = kernels[Proc(t)][CallOf(t)]])
    <3> DEFINE r == [run[t] EXCEPT !.at = "check", !.kernel = kernels[Proc(t)][CallOf(t)]]
    <3>1. SetRun(t, r)
      BY <2>2
    <3>2. r.handled = run[t].handled /\ r.futures = run[t].futures /\ r.at = "check"
      BY <1>1 DEF RunFields
    <3> HIDE DEF r
    <3> QED
      BY <2>1, <3>1, <3>2, GrowsWhenSame, HandlesNothing
  <2>3. CASE SetRun(t, [run[t] EXCEPT !.at = "key"])
    <3> DEFINE r == [run[t] EXCEPT !.at = "key"]
    <3>1. SetRun(t, r)
      BY <2>3
    <3>2. r.handled = run[t].handled /\ r.futures = run[t].futures /\ r.at = "key"
      BY <1>1 DEF RunFields
    <3> HIDE DEF r
    <3> QED
      BY <2>1, <3>1, <3>2, GrowsWhenSame, HandlesNothing
  <2> QED
    BY <1>2, <2>2, <2>3 DEF StartRun
<1>3. ASSUME UNCHANGED kernels, SetRun(t, Raise(t, run[t])) PROVE HandledInv'
  BY <1>1, <1>3, NextHandles, GrowsWhenSame, HandlesNothing
<1>4. CASE KeyFails(t)
  BY <1>3, <1>4 DEF KeyFails
<1>5. CASE CompileNow(t)
  <2> DEFINE r == [run[t] EXCEPT !.at = "compile"]
  <2>1. SetRun(t, r) /\ UNCHANGED kernels
    BY <1>5 DEF CompileNow
  <2>2. r.handled = run[t].handled /\ r.futures = run[t].futures /\ r.at = "compile"
    BY <1>1 DEF RunFields
  <2> HIDE DEF r
  <2> QED
    BY <2>1, <2>2, GrowsWhenSame, HandlesNothing
<1>6. CASE Submit(t)
  <2>1. UNCHANGED kernels
    BY <1>6 DEF Submit
  <2>2. CASE \E i \in WithKey(t) : SetRun(t, [run[t] EXCEPT !.at = "check", !.kernel = Future(i)])
    <3> PICK i \in WithKey(t) : SetRun(t, [run[t] EXCEPT !.at = "check", !.kernel = Future(i)])
      BY <2>2
    <3> DEFINE r == [run[t] EXCEPT !.at = "check", !.kernel = Future(i)]
    <3>1. SetRun(t, r)
      OBVIOUS
    <3>2. r.handled = run[t].handled /\ r.futures = run[t].futures /\ r.at = "check"
      BY <1>1 DEF RunFields
    <3> HIDE DEF r
    <3> QED
      BY <2>1, <3>1, <3>2, GrowsWhenSame, HandlesNothing
  <2>3. CASE SetRun(t, Raise(t, run[t]))
    BY <1>3, <2>1, <2>3
  <2>4. CASE \E i \in {Len(run[t].futures) + 1} :
               SetRun(t, [run[t] EXCEPT !.at = "check", !.kernel = Future(i),
                 !.futures = Append(@, [key |-> CompileKey(t), call |-> CallOf(t)])])
    <3> DEFINE i == Len(run[t].futures) + 1
               last == [key |-> CompileKey(t), call |-> CallOf(t)]
               more == Append(run[t].futures, last)
               r == [run[t] EXCEPT !.at = "check", !.kernel = Future(i), !.futures = more]
    <3>1. SetRun(t, r)
      BY <2>4
    <3>2. r.handled = run[t].handled /\ r.futures = more /\ r.at = "check"
      BY <1>1 DEF RunFields
    <3>3. \A k \in DOMAIN run[t].futures : k \in DOMAIN more /\ more[k] = run[t].futures[k]
      <4> HIDE DEF last
      <4> QED
        BY <1>1, AppendKeeps
    <3> HIDE DEF r, more, i, last
    <3> PICK q : q = r
      OBVIOUS
    <3>4. HandledSound(t, q)'
      BY <1>1, <2>1, <3>2, <3>3 DEF HandledSound, Proc
    <3> QED
      BY <2>1, <3>1, <3>4, GrowsWhenSame, OneThreadHandles
  <2> QED
    BY <1>6, <2>2, <2>3, <2>4 DEF Submit
<1>7. CASE Compiled(t)
  <2>1. CASE jobs[Job(t, 0)].at = "failed"
    BY <1>3, <1>7, <2>1 DEF Compiled
  <2>2. CASE jobs[Job(t, 0)].at # "failed"
    <3> DEFINE k == jobs[Job(t, 0)].kernel
               r == [run[t] EXCEPT !.at = "check", !.kernel = k]
    <3>1. SetRun(t, r) /\ Remember(t, CallOf(t), k)
      BY <1>7, <2>2 DEF Compiled
    <3>2. r.handled = run[t].handled /\ r.futures = run[t].futures /\ r.at = "check"
      BY <1>1 DEF RunFields
    <3> HIDE DEF r, k
    <3> QED
      BY <1>1, <3>1, <3>2, RememberGrows, HandlesNothing
  <2> QED
    BY <2>1, <2>2
<1> QED
  BY <1>2, <1>4, <1>5, <1>6, <1>7

LEMMA ResultHandles ==
  ASSUME CachedInv, NEW t \in Threads, UNCHANGED setup,
         Check(t) \/ Await(t) \/ LaunchKernel(t) \/ TakeResult(t) \/ SkipBench(t) \/ SetGlobal(t)
  PROVE  HandledInv'
<1>1. DOMAIN run[t] = RunFields /\ HandledSound(t, run[t]) /\ SetupInv
  BY DEF CachedInv, CompleteInv, RunInv, RunSound, HandledInv
<1>2. ASSUME UNCHANGED kernels, SetRun(t, Raise(t, run[t])) PROVE HandledInv'
  BY <1>1, <1>2, NextHandles, GrowsWhenSame, HandlesNothing
<1>3. ASSUME UNCHANGED kernels, SetRun(t, Next1(run[t])) PROVE HandledInv'
  BY <1>1, <1>3, NextHandles, GrowsWhenSame, HandlesNothing
<1>4. CASE Check(t)
  <2>1. UNCHANGED kernels
    BY <1>4 DEF Check
  <2>2. CASE ~ GlobalsMatch(t)
    BY <1>2, <1>4, <2>1, <2>2 DEF Check
  <2>3. CASE GlobalsMatch(t) /\ Now(t).op = "warmup"
    <3> DEFINE got == Bind(run[t].got, CallOf(t), run[t].kernel)
               r == [Next1(run[t]) EXCEPT !.got = got]
    <3>1. r = [Next1(run[t]) EXCEPT !.got = Bind(@, CallOf(t), run[t].kernel)]
      BY <1>1, NextSame DEF Same
    <3>2. SetRun(t, r)
      BY <1>4, <2>3, <3>1 DEF Check
    <3>3. DOMAIN Next1(run[t]) = RunFields
      BY <1>1, NextSame DEF Same
    <3>4. r.handled = run[t].handled /\ r.futures = run[t].futures /\ r.at = "ready"
      BY <1>1, <3>3, NextHandles DEF RunFields
    <3> HIDE DEF r, got
    <3> QED
      BY <2>1, <3>2, <3>4, GrowsWhenSame, HandlesNothing
  <2>4. CASE GlobalsMatch(t) /\ Now(t).op # "warmup"
    <3> DEFINE at == IF IsFuture(run[t].kernel) THEN "await" ELSE "launch"
               r == [run[t] EXCEPT !.at = at]
    <3>1. SetRun(t, r)
      BY <1>4, <2>4 DEF Check
    <3>2. r.handled = run[t].handled /\ r.futures = run[t].futures /\ r.at = at
      BY <1>1 DEF RunFields
    <3>3. at # "shutdown"
      OBVIOUS
    <3> HIDE DEF r, at
    <3> QED
      BY <2>1, <3>1, <3>2, <3>3, GrowsWhenSame, HandlesNothing
  <2> QED
    BY <2>2, <2>3, <2>4
<1>5. CASE Await(t)
  <2> DEFINE i == run[t].kernel[2]
             r == [run[t] EXCEPT !.at = "launch", !.kernel = jobs[Job(t, i)].kernel]
  <2>1. CASE jobs[Job(t, i)].at = "failed"
    BY <1>2, <1>5, <2>1 DEF Await
  <2>2. CASE jobs[Job(t, i)].at # "failed"
    <3>1. SetRun(t, r) /\ Finalize(t, i)
      BY <1>5, <2>2 DEF Await
    <3>2. r.handled = run[t].handled /\ r.futures = run[t].futures /\ r.at = "launch"
      BY <1>1 DEF RunFields
    <3> HIDE DEF r, i
    <3> QED
      BY <1>1, <3>1, <3>2, RememberGrows, HandlesNothing DEF Finalize
  <2> QED
    BY <2>1, <2>2
<1>6. CASE LaunchKernel(t) \/ SkipBench(t) \/ SetGlobal(t)
  BY <1>3, <1>6 DEF LaunchKernel, SkipBench, SetGlobal
<1>7. CASE TakeResult(t)
  <2> DEFINE k == run[t].got[CallOf(t)]
             r == [Next1(run[t]) EXCEPT !.tuned = @ \cup {CallOf(t)}]
  <2>1. DOMAIN Next1(run[t]) = RunFields
    BY <1>1, NextSame DEF Same
  <2>2. r.handled = run[t].handled /\ r.futures = run[t].futures /\ r.at = "ready"
    BY <1>1, <2>1, NextHandles DEF RunFields
  <2>3. \/ UNCHANGED kernels /\ (SetRun(t, r) \/ SetRun(t, Next1(run[t])) \/ SetRun(t, Raise(t, run[t])))
        \/ SetRun(t, r) /\ Finalize(t, k[2])
    BY <1>7 DEF TakeResult, CallOf
  <2> HIDE DEF r, k
  <2>4. CASE UNCHANGED kernels /\ SetRun(t, r)
    BY <2>2, <2>4, GrowsWhenSame, HandlesNothing
  <2>5. CASE SetRun(t, r) /\ Finalize(t, k[2])
    BY <1>1, <2>2, <2>5, RememberGrows, HandlesNothing DEF Finalize
  <2> QED
    BY <1>2, <1>3, <2>3, <2>4, <2>5
<1> QED
  BY <1>4, <1>5, <1>6, <1>7

LEMMA HandledSame ==
  ASSUME CachedInv, UNCHANGED <<setup, run, kernels>>
  PROVE  HandledInv'
BY DEF CachedInv, HandledInv, HandledSound, Threads, Proc

LEMMA CrashHandles ==
  ASSUME CachedInv, NEW p \in Processes, Crash(p)
  PROVE  HandledInv'
<1>1. /\ UNCHANGED setup
      /\ kernels' = [kernels EXCEPT ![p] = << >>]
      /\ run' = [t \in Threads |-> IF Proc(t) = p THEN Idle ELSE run[t]]
  BY DEF Crash
<1>2. ASSUME NEW t \in Threads PROVE HandledSound(t, run[t])'
  <2>1. CASE Proc(t) = p
    <3>1. run'[t] = Idle /\ Idle.handled = {} /\ Idle.at = "ready"
      BY <1>1, <2>1 DEF Idle
    <3> QED
      BY <3>1 DEF HandledSound
  <2>2. CASE Proc(t) # p
    <3>1. run'[t] = run[t] /\ kernels'[Proc(t)] = kernels[Proc(t)]
      BY <1>1, <2>2
    <3>2. HandledSound(t, run[t])
      BY DEF CachedInv, HandledInv
    <3> QED
      BY <1>1, <3>1, <3>2 DEF HandledSound, Proc
  <2> QED
    BY <2>1, <2>2
<1> QED
  BY <1>1, <1>2 DEF HandledInv, Threads

LEMMA CachedInit == Init => CachedInv
<1> SUFFICES ASSUME Init PROVE HandledInv
  BY CompleteInit DEF CachedInv
<1>1. Idle.handled = {} /\ Idle.at = "ready"
  BY DEF Idle
<1>2. \A t \in Threads : run[t] = Idle
  BY DEF Init
<1> QED
  BY <1>1, <1>2 DEF HandledInv, HandledSound

LEMMA CachedNext == CachedInv /\ [Next]_vars => CachedInv'
<1> SUFFICES ASSUME CachedInv, [Next]_vars PROVE HandledInv'
  BY CompleteNext DEF CachedInv
<1>1. ASSUME NEW t \in ThreadIds, ThreadStep(t) PROVE HandledInv'
  <2>1. t \in Threads /\ UNCHANGED setup
    BY <1>1 DEF ThreadStep
  <2>2. CASE EnterMode(t) \/ ExitOne(t) \/ ExitMode(t) \/ Shutdown(t)
    BY <2>1, <2>2, BlockHandles
  <2>3. CASE StartRun(t) \/ KeyFails(t) \/ CompileNow(t) \/ Submit(t) \/ Compiled(t)
    BY <2>1, <2>3, RunHandles
  <2>4. CASE Check(t) \/ Await(t) \/ LaunchKernel(t) \/ TakeResult(t) \/ SkipBench(t) \/ SetGlobal(t)
    BY <2>1, <2>4, ResultHandles
  <2>5. CASE Computing(t) \/ Compiling(Job(t, 0))
    BY <2>1, <2>5, HandledSame DEF Computing, Compiling
  <2> QED
    BY <1>1, <2>2, <2>3, <2>4, <2>5 DEF ThreadStep
<1>2. ASSUME NEW t \in ThreadIds, NEW i \in 1 .. MaxFutures, WorkerStep(t, i) PROVE HandledInv'
  BY <1>2, HandledSame DEF WorkerStep, TakeJob, Compiling
<1>3. ASSUME NEW p \in Processes, Crash(p) PROVE HandledInv'
  BY <1>3, CrashHandles
<1>4. CASE UNCHANGED vars
  BY <1>4, HandledSame DEF vars
<1> QED
  BY <1>1, <1>2, <1>3, <1>4 DEF Next

LEMMA CachedSafe == CachedInv => CachedAfterExit
BY DEF CachedInv, HandledInv, HandledSound, CachedAfterExit, At

(* __exit__ leaves a block without an exception only when the result of     *)
(* every future has been taken: then every kernel that was asked for in the *)
(* block is in the kernel cache, under the first call that asked, however   *)
(* many threads and workers there are and wherever other processes crash.   *)
THEOREM ExitCachesEverything == Spec => []CachedAfterExit
BY CachedInit, CachedNext, CachedSafe, PTL DEF Spec
-----------------------------------------------------------------------------
(* A mode stays active outside its block only after a failure.  While a     *)
(* thread is inside a with block nothing is claimed; __exit__ gives up with *)
(* the mode active only at a future that failed, which is kept with it, and *)
(* then it is reset unless the block is a user's; and a later block only    *)
(* closes the mode or leaves it as it is.                                   *)

OpAt(s, i, op) == i \in DOMAIN s /\ s[i].op = op

(* Before statement n of script s: inside a block; behind a user's block.   *)
InsideAt(s, n) == \E i \in 1 .. n - 1 : OpAt(s, i, "enter") /\ \A k \in i .. n - 1 : ~ OpAt(s, k, "exit")
UserLast(s, n) ==
  \E i \in 1 .. n - 1 : OpAt(s, i, "enter") /\ ~ s[i].batch /\ \A k \in i + 1 .. n - 1 : ~ OpAt(s, k, "enter")

Failed(j) == j \in DOMAIN jobs /\ jobs[j].at = "failed"
FailedFuture(t, r) == \E i \in DOMAIN r.futures : Failed(Job(t, i))

Running == {"key", "compile", "check", "await", "launch"}

ModeSound(t, r) ==
  /\ r.pc \in Nat \ {0}
  /\ r.at \in Running => r.pc \in DOMAIN Script(t) /\ Script(t)[r.pc].op \notin {"enter", "exit"}
  /\ r.at = "shutdown" => OpAt(Script(t), r.pc, "exit") /\ (r.active => r.raised /\ FailedFuture(t, r))
  /\ r.active /\ ~ InsideAt(Script(t), r.pc) => FailedFuture(t, r) /\ UserLast(Script(t), r.pc)

ModeInv == CompleteInv /\ \A t \in Threads : ModeSound(t, run[t])

LEMMA InsideIs ==
  ASSUME NEW t
  PROVE  Inside(t) <=> InsideAt(Script(t), run[t].pc)
BY DEF Inside, EnterOf, IsAt, InsideAt, OpAt

LEMMA ScriptFacts ==
  ASSUME SetupInv, NEW t \in Threads, NEW s, s = Script(t)
  PROVE  /\ Len(s) \in Nat /\ DOMAIN s = 1 .. Len(s)
         /\ \A i \in DOMAIN s : s[i].op = "enter" => \E j \in i + 1 .. Len(s) : IsBlock(s, i, j)
         /\ \A j \in DOMAIN s : s[j].op = "exit" => \E i \in 1 .. j - 1 : IsBlock(s, i, j)
BY ScriptAssumption DEF SetupInv, Threads, Script

(* A statement in between.                                                  *)
LEMMA PlainStatement ==
  ASSUME NEW s, NEW n \in Nat \ {0}, ~ OpAt(s, n, "enter"), ~ OpAt(s, n, "exit")
  PROVE  /\ InsideAt(s, n) => InsideAt(s, n + 1)
         /\ UserLast(s, n) => UserLast(s, n + 1)
<1>1. ASSUME InsideAt(s, n) PROVE InsideAt(s, n + 1)
  <2>1. PICK i \in 1 .. n - 1 : OpAt(s, i, "enter") /\ \A k \in i .. n - 1 : ~ OpAt(s, k, "exit")
    BY <1>1 DEF InsideAt
  <2>2. i \in 1 .. (n + 1) - 1 /\ \A k \in i .. (n + 1) - 1 : k = n \/ k \in i .. n - 1
    OBVIOUS
  <2> QED
    BY <2>1, <2>2 DEF InsideAt
<1>2. ASSUME UserLast(s, n) PROVE UserLast(s, n + 1)
  <2>1. PICK i \in 1 .. n - 1 :
          OpAt(s, i, "enter") /\ ~ s[i].batch /\ \A k \in i + 1 .. n - 1 : ~ OpAt(s, k, "enter")
    BY <1>2 DEF UserLast
  <2>2. i \in 1 .. (n + 1) - 1 /\ \A k \in i + 1 .. (n + 1) - 1 : k = n \/ k \in i + 1 .. n - 1
    OBVIOUS
  <2> QED
    BY <2>1, <2>2 DEF UserLast
<1> QED
  BY <1>1, <1>2

(* The beginning of a block.                                                *)
LEMMA EnterStatement ==
  ASSUME SetupInv, NEW t \in Threads, NEW s, s = Script(t), NEW n \in Nat \ {0}, OpAt(s, n, "enter")
  PROVE  InsideAt(s, n + 1) /\ ~ InsideAt(s, n)
<1>0. /\ Len(s) \in Nat /\ DOMAIN s = 1 .. Len(s)
      /\ \A i \in DOMAIN s : s[i].op = "enter" => \E j \in i + 1 .. Len(s) : IsBlock(s, i, j)
  BY ScriptFacts
<1>1. InsideAt(s, n + 1)
  <2>1. n \in 1 .. (n + 1) - 1 /\ \A k \in n .. (n + 1) - 1 : k = n
    OBVIOUS
  <2>2. ~ OpAt(s, n, "exit")
    BY DEF OpAt
  <2> QED
    BY <2>1, <2>2 DEF InsideAt
<1>2. ASSUME InsideAt(s, n) PROVE FALSE
  <2>1. PICK i \in 1 .. n - 1 : OpAt(s, i, "enter") /\ \A k \in i .. n - 1 : ~ OpAt(s, k, "exit")
    BY <1>2 DEF InsideAt
  <2>2. PICK j \in i + 1 .. Len(s) : IsBlock(s, i, j)
    BY <1>0, <2>1 DEF OpAt
  <2>3. j \in DOMAIN s /\ OpAt(s, j, "exit")
    BY <1>0, <2>2 DEF IsBlock, OpAt
  <2>4. j >= n
    BY <1>0, <2>1, <2>3
  <2>5. j # n
    BY <2>3 DEF OpAt
  <2>6. n \in i + 1 .. j - 1
    BY <1>0, <2>1, <2>4, <2>5
  <2> QED
    BY <2>2, <2>6 DEF IsBlock, OpAt
<1> QED
  BY <1>1, <1>2

(* Where an exception goes: to the end of the block it is in.               *)
LEMMA ExitAhead ==
  ASSUME SetupInv, NEW t \in Threads, Inside(t), run[t].pc \in Nat \ {0}
  PROVE  /\ ExitOf(t) \in Nat \ {0} /\ ExitOf(t) \in run[t].pc .. Len(Script(t))
         /\ OpAt(Script(t), ExitOf(t), "exit") /\ InsideAt(Script(t), ExitOf(t))
         /\ \A k \in run[t].pc .. ExitOf(t) - 1 : ~ OpAt(Script(t), k, "exit")
<1> DEFINE s == Script(t)
           n == run[t].pc
<1>0. /\ Len(s) \in Nat /\ DOMAIN s = 1 .. Len(s)
      /\ \A i \in DOMAIN s : s[i].op = "enter" => \E j \in i + 1 .. Len(s) : IsBlock(s, i, j)
  BY ScriptFacts
<1>1. PICK i \in 1 .. n - 1 : OpAt(s, i, "enter") /\ \A k \in i .. n - 1 : ~ OpAt(s, k, "exit")
  BY InsideIs DEF InsideAt
<1> HIDE DEF s, n
<1>2. PICK j \in i + 1 .. Len(s) : IsBlock(s, i, j)
  BY <1>0, <1>1 DEF OpAt
<1>3. j \in DOMAIN s /\ OpAt(s, j, "exit")
  BY <1>0, <1>2 DEF IsBlock, OpAt
<1>4. n \in Nat \ {0}
  BY DEF n
<1>5. j \in n .. Len(s)
  BY <1>0, <1>1, <1>3, <1>4
<1>6. \A k \in n .. j - 1 : ~ OpAt(s, k, "exit")
  <2> TAKE k \in n .. j - 1
  <2>1. k \in i + 1 .. j - 1
    BY <1>0, <1>1, <1>4, <1>5
  <2> QED
    BY <1>2, <2>1 DEF IsBlock, OpAt
<1>7. \E e \in n .. Len(s) : IsAt(t, e, "exit") /\ \A k \in n .. e - 1 : ~ IsAt(t, k, "exit")
  BY <1>3, <1>5, <1>6 DEF IsAt, OpAt, s
<1>8. /\ ExitOf(t) \in n .. Len(s)
      /\ IsAt(t, ExitOf(t), "exit") /\ \A k \in n .. ExitOf(t) - 1 : ~ IsAt(t, k, "exit")
  BY <1>7 DEF ExitOf, n, s
<1> DEFINE e == ExitOf(t)
<1> HIDE DEF e
<1>9. /\ e \in n .. Len(s) /\ OpAt(s, e, "exit")
      /\ \A k \in n .. e - 1 : ~ OpAt(s, k, "exit")
  BY <1>8 DEF IsAt, OpAt, s, e
<1>10. i \in 1 .. e - 1 /\ \A k \in i .. e - 1 : k \in i .. n - 1 \/ k \in n .. e - 1
  BY <1>0, <1>1, <1>4, <1>9
<1>11. InsideAt(s, e)
  BY <1>1, <1>9, <1>10 DEF InsideAt
<1>12. e \in Nat \ {0}
  BY <1>0, <1>4, <1>9
<1> QED
  BY <1>9, <1>11, <1>12 DEF s, e, n

(* A block that is not entered, and what is behind it.                      *)
LEMMA BlockSkipped ==
  ASSUME SetupInv, NEW t \in Threads, NEW s, s = Script(t), NEW n \in Nat \ {0}, n = run[t].pc, OpAt(s, n, "enter")
  PROVE  /\ ExitOf(t) + 1 \in Nat \ {0}
         /\ ~ s[n].batch => UserLast(s, ExitOf(t) + 1)
<1>0. /\ Len(s) \in Nat /\ DOMAIN s = 1 .. Len(s)
      /\ \A i \in DOMAIN s : s[i].op = "enter" => \E j \in i + 1 .. Len(s) : IsBlock(s, i, j)
  BY ScriptFacts
<1>1. PICK j \in n + 1 .. Len(s) : IsBlock(s, n, j)
  BY <1>0 DEF OpAt
<1>2. j \in n .. Len(s) /\ IsAt(t, j, "exit")
  BY <1>0, <1>1 DEF IsBlock, IsAt
<1>3. \A k \in n .. j - 1 : ~ IsAt(t, k, "exit")
  <2> TAKE k \in n .. j - 1
  <2>1. k = n \/ k \in n + 1 .. j - 1
    BY <1>0, <1>1
  <2> QED
    BY <1>1, <2>1 DEF IsBlock, IsAt, OpAt
<1>4. /\ ExitOf(t) \in n .. Len(s)
      /\ IsAt(t, ExitOf(t), "exit") /\ \A k \in n .. ExitOf(t) - 1 : ~ IsAt(t, k, "exit")
  BY <1>2, <1>3 DEF ExitOf
<1> DEFINE e == ExitOf(t)
<1> HIDE DEF e
<1>5. e \in n .. Len(s) /\ OpAt(s, e, "exit") /\ \A k \in n .. e - 1 : ~ IsAt(t, k, "exit")
  BY <1>4 DEF e, IsAt, OpAt
<1>6. e \in Nat \ {0}
  BY <1>0, <1>5
<1>7. e <= j
  BY <1>0, <1>2, <1>5, <1>6
<1>8. \A k \in n + 1 .. (e + 1) - 1 : ~ OpAt(s, k, "enter")
  <2> TAKE k \in n + 1 .. (e + 1) - 1
  <2>1. k = e \/ k \in n + 1 .. j - 1
    BY <1>0, <1>1, <1>6, <1>7
  <2> QED
    BY <1>1, <1>5, <2>1 DEF IsBlock, OpAt
<1>9. n \in 1 .. (e + 1) - 1
  BY <1>0, <1>5, <1>6
<1>10. ~ s[n].batch => UserLast(s, e + 1)
  BY <1>8, <1>9 DEF UserLast
<1> QED
  BY <1>6, <1>10 DEF e

(* The end of a block: it was a batch, or a user's is the last.             *)
LEMMA ExitStatement ==
  ASSUME SetupInv, NEW t \in Threads, OpAt(Script(t), run[t].pc, "exit"), run[t].pc \in Nat \ {0}
  PROVE  InBatch(t) \/ UserLast(Script(t), run[t].pc + 1)
<1> DEFINE s == Script(t)
           n == run[t].pc
<1>0. /\ Len(s) \in Nat /\ DOMAIN s = 1 .. Len(s)
      /\ \A j \in DOMAIN s : s[j].op = "exit" => \E i \in 1 .. j - 1 : IsBlock(s, i, j)
  BY ScriptFacts
<1>1. n \in DOMAIN s /\ s[n].op = "exit" /\ n \in Nat \ {0}
  BY DEF OpAt
<1> HIDE DEF s, n
<1>2. PICK i \in 1 .. n - 1 : IsBlock(s, i, n)
  BY <1>0, <1>1
<1>3. i \in 1 .. n - 1 /\ i \in DOMAIN s /\ s[i].op = "enter"
  BY <1>0, <1>1, <1>2 DEF IsBlock
<1>4. CASE s[i].batch
  <2>1. \A k \in i .. n - 1 : ~ OpAt(s, k, "exit")
    <3> TAKE k \in i .. n - 1
    <3>1. k = i \/ k \in i + 1 .. n - 1
      BY <1>1, <1>3
    <3> QED
      BY <1>2, <1>3, <3>1 DEF IsBlock, OpAt
  <2>2. i \in EnterOf(t)
    BY <1>3, <2>1 DEF EnterOf, IsAt, OpAt, s, n
  <2> QED
    BY <1>4, <2>2 DEF InBatch, s
<1>5. CASE ~ s[i].batch
  <2>1. \A k \in i + 1 .. (n + 1) - 1 : ~ OpAt(s, k, "enter")
    <3> TAKE k \in i + 1 .. (n + 1) - 1
    <3>1. k = n \/ k \in i + 1 .. n - 1
      BY <1>1, <1>3
    <3> QED
      BY <1>1, <1>2, <3>1 DEF IsBlock, OpAt
  <2>2. i \in 1 .. (n + 1) - 1 /\ OpAt(s, i, "enter")
    BY <1>1, <1>3 DEF OpAt
  <2>3. UserLast(s, n + 1)
    BY <1>5, <2>1, <2>2 DEF UserLast
  <2> QED
    BY <2>3 DEF s, n
<1> QED
  BY <1>4, <1>5

LEMMA FutureIndex ==
  ASSUME NEW s, IsSeq(s), NEW i \in DOMAIN s
  PROVE  i \in Nat \ {0}
BY DEF IsSeq

(* A failed future stays what it is, whatever the workers do.               *)
LEMMA ModeKept ==
  ASSUME NEW t, NEW r, ModeSound(t, r), UNCHANGED setup,
         \A i \in DOMAIN r.futures : Failed(Job(t, i)) => Failed(Job(t, i))'
  PROVE  ModeSound(t, r)'
<1>1. Script(t)' = Script(t)
  BY DEF Script
<1>2. FailedFuture(t, r) => FailedFuture(t, r)'
  BY DEF FailedFuture
<1> QED
  BY <1>1, <1>2 DEF ModeSound, OpAt, InsideAt, UserLast

(* A step of t that gives it the record r.                                  *)
LEMMA OneThreadModes ==
  ASSUME ModeInv, CompleteInv', NEW t \in Threads, UNCHANGED setup,
         NEW r, SetRun(t, r), ModeSound(t, r)',
         \A j \in DOMAIN jobs : j[1] # t /\ Failed(j) => Failed(j)'
  PROVE  ModeInv'
<1>1. Threads' = Threads /\ run'[t] = r /\ \A u \in Threads : u # t => run'[u] = run[u]
  BY DEF Threads, SetRun, ModeInv, CompleteInv, SetupInv
<1>2. ASSUME NEW u \in Threads, u # t PROVE ModeSound(u, run[u])'
  <2>1. ModeSound(u, run[u]) /\ run'[u] = run[u]
    BY <1>1, <1>2 DEF ModeInv
  <2>2. \A i : Failed(Job(u, i)) => Failed(Job(u, i))'
    BY <1>2 DEF Job, Failed
  <2> PICK q : q = run[u]
    OBVIOUS
  <2>3. ModeSound(u, q)'
    BY <2>1, <2>2, ModeKept
  <2>4. run'[u] = q
    BY <2>1
  <2> QED
    BY <2>3, <2>4 DEF ModeSound, FailedFuture
<1>3. ModeSound(t, run[t])'
  BY <1>1 DEF ModeSound
<1> QED
  BY <1>1, <1>2, <1>3 DEF ModeInv

(* What the steps of t do to its record: they go to another statement, ...  *)
Goes(t, r) ==
  /\ r.pc = run[t].pc + 1 \/ (Inside(t) /\ r.pc = ExitOf(t))
  /\ r.at = "ready" /\ r.active = run[t].active /\ r.futures = run[t].futures

(* ... or stay at this one.                                                 *)
Stays(t, r) ==
  /\ r.pc = run[t].pc /\ r.active = run[t].active
  /\ r.at \in Running /\ r.futures = run[t].futures

AtPlain(t) ==
  LET n == run[t].pc IN n \in DOMAIN Script(t) /\ Script(t)[n].op \notin {"enter", "exit"}

LEMMA GoesSound ==
  ASSUME SetupInv, NEW t \in Threads, ModeSound(t, run[t]), AtPlain(t), NEW r, Goes(t, r)
  PROVE  ModeSound(t, r)
<1> DEFINE n == run[t].pc
           s == Script(t)
<1>1. n \in Nat \ {0} /\ ~ OpAt(s, n, "enter") /\ ~ OpAt(s, n, "exit")
  BY DEF ModeSound, AtPlain, OpAt
<1>2. r.active /\ ~ InsideAt(s, n) => FailedFuture(t, r) /\ UserLast(s, n)
  BY DEF ModeSound, Goes, FailedFuture
<1>3. CASE r.pc = n + 1
  <2>1. InsideAt(s, n) => InsideAt(s, n + 1)
    BY <1>1, PlainStatement
  <2>2. UserLast(s, n) => UserLast(s, n + 1)
    BY <1>1, PlainStatement
  <2> HIDE DEF n, s
  <2>3. n + 1 \in Nat \ {0}
    BY <1>1
  <2>4. r.active /\ ~ InsideAt(s, r.pc) => FailedFuture(t, r) /\ UserLast(s, r.pc)
    BY <1>2, <1>3, <2>1, <2>2
  <2> QED
    BY <1>3, <2>3, <2>4 DEF ModeSound, Goes, Running, s
<1>4. CASE Inside(t) /\ r.pc = ExitOf(t)
  <2>1. ExitOf(t) \in Nat \ {0} /\ InsideAt(s, ExitOf(t))
    BY <1>1, <1>4, ExitAhead
  <2> QED
    BY <1>4, <2>1 DEF ModeSound, Goes, Running
<1> QED
  BY <1>3, <1>4 DEF Goes

LEMMA StaysSound ==
  ASSUME NEW t, ModeSound(t, run[t]), AtPlain(t), NEW r, Stays(t, r)
  PROVE  ModeSound(t, r)
BY DEF ModeSound, Stays, AtPlain, FailedFuture, Running

LEMMA NextGoes ==
  ASSUME NEW t, NEW r, DOMAIN r = RunFields, r.pc = run[t].pc, r.active = run[t].active, r.futures = run[t].futures
  PROVE  Goes(t, Next1(r)) /\ Goes(t, Raise(t, r))
<1>1. Goes(t, Next1(r))
  BY DEF Goes, Next1, RunFields
<1>2. CASE Inside(t)
  <2> DEFINE q == [r EXCEPT !.pc = ExitOf(t), !.at = "ready", !.raised = TRUE, !.kernel = NoMeaning]
  <2>1. Raise(t, r) = q
    BY <1>2 DEF Raise
  <2>2. q.pc = ExitOf(t) /\ q.at = "ready" /\ q.active = r.active /\ q.futures = r.futures
    BY DEF RunFields
  <2> HIDE DEF q
  <2> QED
    BY <1>1, <1>2, <2>1, <2>2 DEF Goes
<1>3. CASE ~ Inside(t)
  BY <1>1, <1>3 DEF Raise
<1> QED
  BY <1>1, <1>2, <1>3

(* A step within a statement that starts and ends no block.                 *)
LEMMA PlainStep ==
  ASSUME ModeInv, CompleteInv', NEW t \in Threads, UNCHANGED setup, AtPlain(t),
         NEW r, SetRun(t, r), Goes(t, r) \/ Stays(t, r),
         \A j \in DOMAIN jobs : j[2] # 0 /\ Failed(j) => Failed(j)',
         \A j \in DOMAIN jobs : j[1] # t /\ Failed(j) => Failed(j)'
  PROVE  ModeInv'
<1>1. SetupInv /\ ModeSound(t, run[t]) /\ RunSound(t, run[t])
  BY DEF ModeInv, CompleteInv, RunInv
<1>2. ModeSound(t, r)
  BY <1>1, GoesSound, StaysSound
<1>3. \A i \in DOMAIN r.futures : Failed(Job(t, i)) => Failed(Job(t, i))'
  <2>1. r.futures = run[t].futures
    BY DEF Goes, Stays
  <2>2. \A i \in DOMAIN r.futures : i # 0
    BY <1>1, <2>1, FutureIndex DEF RunSound
  <2>3. \A i : Job(t, i)[2] = i
    BY DEF Job
  <2> QED
    BY <2>2, <2>3 DEF Failed
<1>4. ModeSound(t, r)'
  BY <1>2, <1>3, ModeKept
<1> QED
  BY <1>4, OneThreadModes

LEMMA FailedSame == ASSUME NEW j, UNCHANGED jobs PROVE Failed(j)' <=> Failed(j)
BY DEF Failed

LEMMA RunFacts ==
  ASSUME ModeInv, NEW t \in Threads
  PROVE  /\ SetupInv /\ DOMAIN run[t] = RunFields /\ RunSound(t, run[t]) /\ ModeSound(t, run[t])
         /\ run[t].pc \in Nat \ {0}
         /\ \A i \in DOMAIN run[t].futures : i \in Nat \ {0}
<1>1. SetupInv /\ DOMAIN run[t] = RunFields /\ RunSound(t, run[t]) /\ ModeSound(t, run[t])
  BY DEF ModeInv, CompleteInv, RunInv, RunSound
<1>2. \A i \in DOMAIN run[t].futures : i \in Nat \ {0}
  BY <1>1, FutureIndex DEF RunSound
<1> QED
  BY <1>1, <1>2 DEF ModeSound

(* Where t is at a statement of one of the given kinds.                     *)
LEMMA DoingAt ==
  ASSUME ModeInv, NEW t \in Threads, NEW ops, Doing(t, ops)
  PROVE  /\ run[t].pc \in DOMAIN Script(t) /\ Script(t)[run[t].pc].op \in ops /\ run[t].at = "ready"
         /\ Now(t) = Script(t)[run[t].pc]
<1>1. run[t].pc \in Nat \ {0} /\ SetupInv
  BY RunFacts
<1>2. Len(Script(t)) \in Nat /\ DOMAIN Script(t) = 1 .. Len(Script(t))
  BY <1>1, ScriptFacts
<1>3. ~ (run[t].pc > Len(Script(t))) /\ run[t].at = "ready" /\ Now(t).op \in ops
  BY DEF Doing, Ended
<1> QED
  BY <1>1, <1>2, <1>3 DEF Now

LEMMA DoingPlain ==
  ASSUME ModeInv, NEW t \in Threads, NEW ops, Doing(t, ops), "enter" \notin ops, "exit" \notin ops
  PROVE  AtPlain(t)
BY DoingAt DEF AtPlain

LEMMA AtRunning ==
  ASSUME ModeInv, NEW t \in Threads, run[t].at \in Running
  PROVE  AtPlain(t)
BY RunFacts DEF ModeSound, AtPlain

LEMMA EnterModes ==
  ASSUME ModeInv, CompleteInv', NEW t \in Threads, UNCHANGED setup, EnterMode(t)
  PROVE  ModeInv'
<1> DEFINE s == Script(t)
           n == run[t].pc
<1>1. /\ SetupInv /\ n \in Nat \ {0} /\ DOMAIN run[t] = RunFields /\ ModeSound(t, run[t])
      /\ OpAt(s, n, "enter") /\ Now(t) = s[n] /\ run[t].at = "ready"
  BY RunFacts, DoingAt DEF EnterMode, OpAt
<1>2. UNCHANGED jobs
  BY DEF EnterMode, cacheVars
<1>3. \A j : Failed(j) => Failed(j)'
  BY <1>2, FailedSame
<1>4. InsideAt(s, n + 1) /\ ~ InsideAt(s, n)
  BY <1>1, EnterStatement
<1>5. CASE run[t].active
  <2> DEFINE r == [run[t] EXCEPT !.pc = ExitOf(t) + 1, !.active = ~ Now(t).batch]
  <2>1. SetRun(t, r)
    BY <1>5 DEF EnterMode
  <2>2. /\ r.pc = ExitOf(t) + 1 /\ r.active = ~ Now(t).batch /\ r.at = "ready"
        /\ r.futures = run[t].futures
    BY <1>1 DEF RunFields
  <2> HIDE DEF r
  <2>3. ExitOf(t) + 1 \in Nat \ {0} /\ (~ s[n].batch => UserLast(s, ExitOf(t) + 1))
    BY <1>1, BlockSkipped
  <2>4. FailedFuture(t, run[t])
    BY <1>1, <1>4, <1>5 DEF ModeSound
  <2>5. FailedFuture(t, r)
    BY <2>2, <2>4 DEF FailedFuture
  <2>6. r.active => ~ s[n].batch
    BY <1>1, <2>2
  <2>7. ModeSound(t, r)
    BY <2>2, <2>3, <2>5, <2>6 DEF ModeSound, Running, s
  <2> QED
    BY <1>3, <2>1, <2>7, ModeKept, OneThreadModes
<1>6. CASE ~ run[t].active
  <2> DEFINE r == [run[t] EXCEPT !.pc = @ + 1, !.active = TRUE, !.open = TRUE,
                                 !.futures = << >>, !.handled = {}, !.got = << >>, !.tuned = {}]
  <2>1. SetRun(t, r)
    BY <1>6 DEF EnterMode
  <2>2. r.pc = n + 1 /\ r.at = "ready"
    BY <1>1 DEF RunFields
  <2> HIDE DEF r
  <2>3. n + 1 \in Nat \ {0}
    BY <1>1
  <2>4. ModeSound(t, r)
    BY <1>4, <2>2, <2>3 DEF ModeSound, Running, s
  <2> QED
    BY <1>3, <2>1, <2>4, ModeKept, OneThreadModes
<1> QED
  BY <1>5, <1>6

LEMMA ExitOneModes ==
  ASSUME ModeInv, CompleteInv', NEW t \in Threads, UNCHANGED setup, ExitOne(t)
  PROVE  ModeInv'
<1>1. /\ SetupInv /\ run[t].pc \in Nat \ {0} /\ DOMAIN run[t] = RunFields /\ ModeSound(t, run[t])
      /\ OpAt(Script(t), run[t].pc, "exit") /\ run[t].at = "ready"
  BY RunFacts, DoingAt DEF ExitOne, OpAt
<1>2. UNCHANGED jobs
  BY DEF ExitOne, cacheVars
<1>3. \A j : Failed(j) => Failed(j)'
  BY <1>2, FailedSame
<1>4. PICK i \in DOMAIN run[t].futures \ run[t].handled :
        IF jobs[Job(t, i)].at = "failed"
          THEN SetRun(t, [run[t] EXCEPT !.at = "shutdown", !.raised = TRUE])
          ELSE SetRun(t, [run[t] EXCEPT !.handled = @ \cup {i}])
  BY DEF ExitOne
<1>5. CASE jobs[Job(t, i)].at = "failed"
  <2> DEFINE r == [run[t] EXCEPT !.at = "shutdown", !.raised = TRUE]
  <2>1. SetRun(t, r)
    BY <1>4, <1>5
  <2>2. /\ r.pc = run[t].pc /\ r.at = "shutdown" /\ r.active = run[t].active
        /\ r.raised = TRUE /\ r.futures = run[t].futures
    BY <1>1 DEF RunFields
  <2> HIDE DEF r
  <2>3. FailedFuture(t, r)
    BY <1>4, <1>5, <2>2, RunFacts DEF FailedFuture, Failed, RunSound
  <2>4. ModeSound(t, r)
    BY <1>1, <2>2, <2>3 DEF ModeSound, Running
  <2> QED
    BY <1>3, <2>1, <2>4, ModeKept, OneThreadModes
<1>6. CASE jobs[Job(t, i)].at # "failed"
  <2> DEFINE r == [run[t] EXCEPT !.handled = @ \cup {i}]
  <2>1. SetRun(t, r)
    BY <1>4, <1>6
  <2>2. r.pc = run[t].pc /\ r.at = "ready" /\ r.active = run[t].active /\ r.futures = run[t].futures
    BY <1>1 DEF RunFields
  <2> HIDE DEF r
  <2>3. ModeSound(t, r)
    BY <1>1, <2>2 DEF ModeSound, Running, FailedFuture
  <2> QED
    BY <1>3, <2>1, <2>3, ModeKept, OneThreadModes
<1> QED
  BY <1>5, <1>6

LEMMA ExitModes ==
  ASSUME ModeInv, CompleteInv', NEW t \in Threads, UNCHANGED setup, ExitMode(t)
  PROVE  ModeInv'
<1>1. /\ SetupInv /\ run[t].pc \in Nat \ {0} /\ DOMAIN run[t] = RunFields
      /\ OpAt(Script(t), run[t].pc, "exit")
  BY RunFacts, DoingAt DEF ExitMode, OpAt
<1>2. UNCHANGED jobs
  BY DEF ExitMode, cacheVars
<1>3. \A j : Failed(j) => Failed(j)'
  BY <1>2, FailedSame
<1> DEFINE r == [run[t] EXCEPT !.at = "shutdown", !.active = FALSE]
<1>4. SetRun(t, r)
  BY DEF ExitMode
<1>5. r.pc = run[t].pc /\ r.at = "shutdown" /\ r.active = FALSE
  BY <1>1 DEF RunFields
<1> HIDE DEF r
<1>6. ModeSound(t, r)
  BY <1>1, <1>5 DEF ModeSound, Running
<1> QED
  BY <1>3, <1>4, <1>6, ModeKept, OneThreadModes

(* The executor is closed: a mode that stays active keeps its futures.      *)
LEMMA ShutdownModes ==
  ASSUME ModeInv, CompleteInv', NEW t \in Threads, UNCHANGED setup, Shutdown(t)
  PROVE  ModeInv'
<1> DEFINE s == Script(t)
           n == run[t].pc
           left == LeftActive(t)
           r == [Next1(run[t]) EXCEPT !.open = FALSE, !.raised = FALSE, !.active = LeftActive(t),
                                      !.futures = IF LeftActive(t) THEN @ ELSE << >>,
                                      !.handled = {}, !.got = << >>]
<1>1. /\ SetupInv /\ n \in Nat \ {0} /\ DOMAIN run[t] = RunFields
      /\ run[t].at = "shutdown" /\ ModeSound(t, run[t])
  BY RunFacts DEF Shutdown, At
<1>2. OpAt(s, n, "exit") /\ (run[t].active => run[t].raised /\ FailedFuture(t, run[t]))
  BY <1>1 DEF ModeSound
<1>3. /\ SetRun(t, r)
      /\ jobs' = IF left THEN jobs ELSE [j \in DOMAIN jobs \ JobsOf(t) |-> jobs[j]]
  BY DEF Shutdown
<1>4. /\ r.pc = n + 1 /\ r.at = "ready" /\ r.active = left
      /\ left => r.futures = run[t].futures
  <2>1. Next1(run[t]).pc = n + 1 /\ Next1(run[t]).at = "ready" /\ Next1(run[t]).futures = run[t].futures
        /\ DOMAIN Next1(run[t]) = RunFields
    BY <1>1 DEF Next1, RunFields
  <2> HIDE DEF n
  <2> QED
    BY <2>1 DEF RunFields
<1>5. n + 1 \in Nat \ {0}
  BY <1>1
<1> HIDE DEF r
<1>6. left => FailedFuture(t, r) /\ UserLast(s, n + 1)
  <2>1. InBatch(t) \/ UserLast(s, n + 1)
    BY <1>1, <1>2, ExitStatement
  <2>2. left => run[t].active /\ ~ (run[t].raised /\ InBatch(t))
    BY DEF LeftActive
  <2> HIDE DEF s, n, left
  <2> QED
    BY <1>2, <1>4, <2>1, <2>2 DEF FailedFuture
<1>7. ModeSound(t, r)
  BY <1>4, <1>5, <1>6 DEF ModeSound, Running
<1>8. \A j \in DOMAIN jobs : j[1] # t /\ Failed(j) => Failed(j)'
  <2>1. \A j \in JobsOf(t) : j[1] = t
    BY DEF JobsOf, Job
  <2> QED
    BY <1>3, <2>1 DEF Failed
<1>9. left => \A j : Failed(j) => Failed(j)'
  BY <1>3, FailedSame
<1>10. PICK q : q = r
  OBVIOUS
<1>11. ModeSound(t, q)'
  <2>1. CASE left
    <3>1. ModeSound(t, q) /\ \A i \in DOMAIN q.futures : Failed(Job(t, i)) => Failed(Job(t, i))'
      BY <1>7, <1>9, <1>10, <2>1
    <3> QED
      BY <3>1, ModeKept
  <2>2. CASE ~ left
    <3>1. ~ q.active /\ q.at = "ready" /\ q.pc \in Nat \ {0}
      BY <1>4, <1>5, <1>10, <2>2
    <3> QED
      BY <3>1 DEF ModeSound, Running
  <2> QED
    BY <2>1, <2>2
<1>12. SetRun(t, q)
  BY <1>3, <1>10
<1> QED
  BY <1>8, <1>11, <1>12, OneThreadModes

(* A step of t that leaves the jobs alone.                                  *)
LEMMA QuietPlain ==
  ASSUME ModeInv, CompleteInv', NEW t \in Threads, UNCHANGED <<setup, jobs>>, AtPlain(t),
         NEW r, SetRun(t, r), Goes(t, r) \/ Stays(t, r)
  PROVE  ModeInv'
BY FailedSame, PlainStep

LEMMA StartModes ==
  ASSUME ModeInv, CompleteInv', NEW t \in Threads, UNCHANGED setup, StartRun(t)
  PROVE  ModeInv'
<1>1. AtPlain(t) /\ UNCHANGED jobs /\ DOMAIN run[t] = RunFields
  BY DoingPlain, RunFacts DEF StartRun, cacheVars
<1>2. CASE CallOf(t) \in DOMAIN kernels[Proc(t)]
  <2> DEFINE r == [run[t] EXCEPT !.at = "check", !.kernel = kernels[Proc(t)][CallOf(t)]]
  <2>1. SetRun(t, r)
    BY <1>2 DEF StartRun
  <2>2. Stays(t, r)
    BY <1>1 DEF Stays, Running, RunFields
  <2> QED
    BY <1>1, <2>1, <2>2, QuietPlain
<1>3. CASE CallOf(t) \notin DOMAIN kernels[Proc(t)]
  <2> DEFINE r == [run[t] EXCEPT !.at = "key"]
  <2>1. SetRun(t, r)
    BY <1>3 DEF StartRun
  <2>2. Stays(t, r)
    BY <1>1 DEF Stays, Running, RunFields
  <2> QED
    BY <1>1, <2>1, <2>2, QuietPlain
<1> QED
  BY <1>2, <1>3

LEMMA GoingGoes ==
  ASSUME ModeInv, NEW t \in Threads
  PROVE  Goes(t, Next1(run[t])) /\ Goes(t, Raise(t, run[t]))
BY RunFacts, NextGoes

LEMMA KeyFailsModes ==
  ASSUME ModeInv, CompleteInv', NEW t \in Threads, UNCHANGED setup, KeyFails(t)
  PROVE  ModeInv'
<1>1. AtPlain(t) /\ UNCHANGED jobs
  BY AtRunning DEF KeyFails, HasKey, At, Running, cacheVars
<1> QED
  BY <1>1, GoingGoes, QuietPlain DEF KeyFails

LEMMA CompileNowModes ==
  ASSUME ModeInv, CompleteInv', NEW t \in Threads, UNCHANGED setup, CompileNow(t)
  PROVE  ModeInv'
<1> DEFINE r == [run[t] EXCEPT !.at = "compile"]
<1>1. AtPlain(t) /\ DOMAIN run[t] = RunFields
  BY AtRunning, RunFacts DEF CompileNow, HasKey, At, Running
<1>2. PICK x : jobs' = Bind(jobs, Job(t, 0), x)
  BY DEF CompileNow
<1>3. \A j \in DOMAIN jobs : j # Job(t, 0) /\ Failed(j) => Failed(j)'
  BY <1>2 DEF Bind, Failed
<1>4. Job(t, 0)[1] = t /\ Job(t, 0)[2] = 0
  BY DEF Job
<1>5. SetRun(t, r)
  BY DEF CompileNow
<1>6. Stays(t, r)
  BY <1>1 DEF Stays, Running, RunFields
<1> HIDE DEF r
<1>7. /\ \A j \in DOMAIN jobs : j[2] # 0 /\ Failed(j) => Failed(j)'
      /\ \A j \in DOMAIN jobs : j[1] # t /\ Failed(j) => Failed(j)'
  BY <1>3, <1>4
<1> QED
  BY <1>1, <1>5, <1>6, <1>7, PlainStep

LEMMA SubmitModes ==
  ASSUME ModeInv, CompleteInv', NEW t \in Threads, UNCHANGED setup, Submit(t)
  PROVE  ModeInv'
<1>1. AtPlain(t) /\ DOMAIN run[t] = RunFields /\ ModeSound(t, run[t]) /\ IsSeq(run[t].futures)
  BY AtRunning, RunFacts DEF Submit, HasKey, At, Running, RunSound
<1>2. CASE UNCHANGED jobs /\ \E i \in WithKey(t) : SetRun(t, [run[t] EXCEPT !.at = "check", !.kernel = Future(i)])
  <2>1. PICK i : SetRun(t, [run[t] EXCEPT !.at = "check", !.kernel = Future(i)])
    BY <1>2
  <2>2. Stays(t, [run[t] EXCEPT !.at = "check", !.kernel = Future(i)])
    BY <1>1 DEF Stays, Running, RunFields
  <2> QED
    BY <1>1, <1>2, <2>1, <2>2, QuietPlain
<1>3. CASE UNCHANGED jobs /\ SetRun(t, Raise(t, run[t]))
  BY <1>1, <1>3, GoingGoes, QuietPlain
<1>4. ASSUME NEW i, i = Len(run[t].futures) + 1, NEW f,
             SetRun(t, [run[t] EXCEPT !.at = "check", !.kernel = Future(i), !.futures = Append(@, f)]),
             NEW x, jobs' = Bind(jobs, Job(t, i), x)
      PROVE  ModeInv'
  <2> DEFINE r == [run[t] EXCEPT !.at = "check", !.kernel = Future(i), !.futures = Append(@, f)]
  <2>1. /\ r.pc = run[t].pc /\ r.active = run[t].active /\ r.at = "check"
        /\ r.futures = Append(run[t].futures, f)
    BY <1>1 DEF RunFields
  <2>2. SetRun(t, r)
    BY <1>4
  <2> HIDE DEF r
  <2>3. \A j \in DOMAIN jobs : j # Job(t, i) /\ Failed(j) => Failed(j)'
    BY <1>4 DEF Bind, Failed
  <2>4. \A j \in DOMAIN jobs : j[1] # t /\ Failed(j) => Failed(j)'
    BY <2>3 DEF Job
  <2> PICK q : q = r
    OBVIOUS
  <2>5. FailedFuture(t, run[t]) => FailedFuture(t, q)'
    <3> SUFFICES ASSUME FailedFuture(t, run[t]) PROVE FailedFuture(t, q)'
      OBVIOUS
    <3>1. PICK k \in DOMAIN run[t].futures : Failed(Job(t, k))
      BY DEF FailedFuture
    <3>2. k # i
      BY <1>1, <1>4 DEF IsSeq
    <3>3. Job(t, k) # Job(t, i) /\ Job(t, k) \in DOMAIN jobs
      BY <3>1, <3>2 DEF Job, Failed
    <3>4. Failed(Job(t, k))'
      BY <2>3, <3>1, <3>3
    <3>5. k \in DOMAIN q.futures
      BY <1>1, <2>1, <3>1, AppendKeeps
    <3> QED
      BY <3>4, <3>5 DEF FailedFuture
  <2>6. Script(t)' = Script(t)
    BY DEF Script
  <2>7. /\ q.pc = run[t].pc /\ q.active = run[t].active /\ q.at = "check"
        /\ run[t].active /\ ~ InsideAt(Script(t), run[t].pc) =>
             FailedFuture(t, q)' /\ UserLast(Script(t), run[t].pc)
    BY <1>1, <2>1, <2>5 DEF ModeSound
  <2>8. ModeSound(t, q)'
    BY <1>1, <2>6, <2>7 DEF ModeSound, Running, AtPlain, InsideAt, UserLast, OpAt
  <2> QED
    BY <2>2, <2>4, <2>8, OneThreadModes
<1> QED
  BY <1>2, <1>3, <1>4 DEF Submit

LEMMA CompiledModes ==
  ASSUME ModeInv, CompleteInv', NEW t \in Threads, UNCHANGED setup, Compiled(t)
  PROVE  ModeInv'
<1>1. AtPlain(t) /\ DOMAIN run[t] = RunFields
  BY AtRunning, RunFacts DEF Compiled, At, Running
<1>2. jobs' = [j \in DOMAIN jobs \ {Job(t, 0)} |-> jobs[j]]
  BY DEF Compiled
<1>3. Job(t, 0)[1] = t /\ Job(t, 0)[2] = 0
  BY DEF Job
<1>4. /\ \A j \in DOMAIN jobs : j[2] # 0 /\ Failed(j) => Failed(j)'
      /\ \A j \in DOMAIN jobs : j[1] # t /\ Failed(j) => Failed(j)'
  BY <1>2, <1>3 DEF Failed
<1>5. CASE SetRun(t, Raise(t, run[t]))
  BY <1>1, <1>4, <1>5, GoingGoes, PlainStep
<1>6. ASSUME NEW k, SetRun(t, [run[t] EXCEPT !.at = "check", !.kernel = k])
      PROVE  ModeInv'
  <2>1. Stays(t, [run[t] EXCEPT !.at = "check", !.kernel = k])
    BY <1>1 DEF Stays, Running, RunFields
  <2> QED
    BY <1>1, <1>4, <1>6, <2>1, PlainStep
<1> QED
  BY <1>5, <1>6 DEF Compiled

LEMMA CheckModes ==
  ASSUME ModeInv, CompleteInv', NEW t \in Threads, UNCHANGED setup, Check(t)
  PROVE  ModeInv'
<1>1. AtPlain(t) /\ DOMAIN run[t] = RunFields /\ UNCHANGED jobs
  BY AtRunning, RunFacts DEF Check, At, Running, cacheVars
<1>2. CASE ~ GlobalsMatch(t)
  BY <1>1, <1>2, GoingGoes, QuietPlain DEF Check
<1>3. CASE GlobalsMatch(t) /\ Now(t).op = "warmup"
  <2> DEFINE r == [Next1(run[t]) EXCEPT !.got = Bind(@, CallOf(t), run[t].kernel)]
  <2>1. SetRun(t, r)
    BY <1>3 DEF Check
  <2>2. DOMAIN Next1(run[t]) = RunFields
    BY <1>1, NextSame DEF Same
  <2>3. Goes(t, r)
    BY <2>2, GoingGoes DEF Goes, RunFields
  <2> QED
    BY <1>1, <2>1, <2>3, QuietPlain
<1>4. CASE GlobalsMatch(t) /\ Now(t).op # "warmup"
  <2> DEFINE r == [run[t] EXCEPT !.at = IF IsFuture(run[t].kernel) THEN "await" ELSE "launch"]
  <2>1. SetRun(t, r)
    BY <1>4 DEF Check
  <2>2. Stays(t, r)
    BY <1>1 DEF Stays, Running, RunFields
  <2> QED
    BY <1>1, <2>1, <2>2, QuietPlain
<1> QED
  BY <1>2, <1>3, <1>4

LEMMA AwaitModes ==
  ASSUME ModeInv, CompleteInv', NEW t \in Threads, UNCHANGED setup, Await(t)
  PROVE  ModeInv'
<1>1. AtPlain(t) /\ DOMAIN run[t] = RunFields /\ UNCHANGED jobs
  BY AtRunning, RunFacts DEF Await, At, Running, cacheVars
<1>2. CASE SetRun(t, Raise(t, run[t]))
  BY <1>1, <1>2, GoingGoes, QuietPlain
<1>3. ASSUME NEW k, SetRun(t, [run[t] EXCEPT !.at = "launch", !.kernel = k])
      PROVE  ModeInv'
  <2>1. Stays(t, [run[t] EXCEPT !.at = "launch", !.kernel = k])
    BY <1>1 DEF Stays, Running, RunFields
  <2> QED
    BY <1>1, <1>3, <2>1, QuietPlain
<1> QED
  BY <1>2, <1>3 DEF Await

LEMMA ResultModes ==
  ASSUME ModeInv, CompleteInv', NEW t \in Threads, UNCHANGED setup, TakeResult(t)
  PROVE  ModeInv'
<1>1. AtPlain(t) /\ DOMAIN run[t] = RunFields /\ UNCHANGED jobs
  BY DoingPlain, RunFacts DEF TakeResult, cacheVars
<1>2. CASE SetRun(t, Next1(run[t])) \/ SetRun(t, Raise(t, run[t]))
  BY <1>1, <1>2, GoingGoes, QuietPlain
<1>3. ASSUME NEW c, SetRun(t, [Next1(run[t]) EXCEPT !.tuned = @ \cup {c}])
      PROVE  ModeInv'
  <2>1. DOMAIN Next1(run[t]) = RunFields
    BY <1>1, NextSame DEF Same
  <2>2. Goes(t, [Next1(run[t]) EXCEPT !.tuned = @ \cup {c}])
    BY <2>1, GoingGoes DEF Goes, RunFields
  <2> QED
    BY <1>1, <1>3, <2>2, QuietPlain
<1> QED
  BY <1>2, <1>3 DEF TakeResult

LEMMA GoingOnModes ==
  ASSUME ModeInv, CompleteInv', NEW t \in Threads, UNCHANGED setup,
         LaunchKernel(t) \/ SkipBench(t) \/ SetGlobal(t)
  PROVE  ModeInv'
<1>1. AtPlain(t)
  BY AtRunning, DoingPlain DEF LaunchKernel, SkipBench, SetGlobal, At, Running
<1>2. UNCHANGED jobs /\ SetRun(t, Next1(run[t]))
  BY DEF LaunchKernel, SkipBench, SetGlobal, cacheVars
<1> QED
  BY <1>1, <1>2, GoingGoes, QuietPlain

(* Workers and other processes.                                             *)
LEMMA FailedStays ==
  ASSUME NEW i, NEW p, i \in DOMAIN jobs, JobStep(i, p) \/ (jobs[i].at = "queued" /\ jobs' = To(i, "lookup"))
  PROVE  \A j \in DOMAIN jobs : Failed(j) => Failed(j)'
<1>1. jobs[i].at # "failed"
  BY DEF JobStep, Lookup, Stage, Put, Rename, PutGroup, Load
<1>2. DOMAIN jobs' = DOMAIN jobs /\ \A j \in DOMAIN jobs : j # i => jobs'[j] = jobs[j]
  BY DEF JobStep, Lookup, Stage, Put, Rename, PutGroup, Load, To
<1> QED
  BY <1>1, <1>2 DEF Failed

LEMMA RunsKept ==
  ASSUME ModeInv, CompleteInv', UNCHANGED <<setup, run>>,
         \A j \in DOMAIN jobs : Failed(j) => Failed(j)'
  PROVE  ModeInv'
<1>1. ASSUME NEW t \in Threads PROVE ModeSound(t, run[t])'
  <2> PICK q : q = run[t]
    OBVIOUS
  <2>1. ModeSound(t, q)
    BY DEF ModeInv
  <2>2. \A i \in DOMAIN q.futures : Failed(Job(t, i)) => Failed(Job(t, i))'
    BY DEF Failed
  <2>3. ModeSound(t, q)'
    BY <2>1, <2>2, ModeKept
  <2> QED
    BY <2>3 DEF ModeSound, FailedFuture
<1> QED
  BY <1>1 DEF ModeInv, Threads

LEMMA CompilingModes ==
  ASSUME ModeInv, CompleteInv', NEW i \in DOMAIN jobs, UNCHANGED setup, Compiling(i)
  PROVE  ModeInv'
BY FailedStays, RunsKept DEF Compiling

LEMMA TakeJobModes ==
  ASSUME ModeInv, CompleteInv', NEW t, NEW i, Job(t, i) \in DOMAIN jobs, UNCHANGED setup, TakeJob(t, i)
  PROVE  ModeInv'
BY FailedStays, RunsKept DEF TakeJob

LEMMA IdleModes == ASSUME NEW t PROVE ModeSound(t, Idle) /\ ModeSound(t, Idle)'
<1>1. Idle.pc = 1 /\ Idle.at = "ready" /\ Idle.active = FALSE
  BY DEF Idle
<1> QED
  BY <1>1 DEF ModeSound, Running

LEMMA CrashModes ==
  ASSUME ModeInv, CompleteInv', NEW p \in Processes, Crash(p)
  PROVE  ModeInv'
<1>1. /\ UNCHANGED setup
      /\ jobs' = [j \in {i \in DOMAIN jobs : Proc(i[1]) # p} |-> jobs[j]]
      /\ run' = [t \in Threads |-> IF Proc(t) = p THEN Idle ELSE run[t]]
  BY DEF Crash
<1>2. ASSUME NEW t \in Threads PROVE ModeSound(t, run[t])'
  <2>1. CASE Proc(t) = p
    <3>1. run'[t] = Idle
      BY <1>1, <2>1
    <3> QED
      BY <3>1, IdleModes DEF ModeSound, FailedFuture
  <2>2. CASE Proc(t) # p
    <3> PICK q : q = run[t]
      OBVIOUS
    <3>1. ModeSound(t, q) /\ run'[t] = q
      BY <1>1, <2>2 DEF ModeInv
    <3>2. \A i \in DOMAIN q.futures : Failed(Job(t, i)) => Failed(Job(t, i))'
      BY <1>1, <2>2 DEF Failed, Job
    <3>3. ModeSound(t, q)'
      BY <1>1, <3>1, <3>2, ModeKept
    <3> QED
      BY <3>1, <3>3 DEF ModeSound, FailedFuture
  <2> QED
    BY <2>1, <2>2
<1> QED
  BY <1>1, <1>2 DEF ModeInv, Threads

LEMMA ModeInit == Init => ModeInv
BY CompleteInit, IdleModes DEF Init, ModeInv

LEMMA ModeNext == ModeInv /\ [Next]_vars => ModeInv'
<1> SUFFICES ASSUME ModeInv, [Next]_vars PROVE ModeInv'
  OBVIOUS
<1>0. CompleteInv'
  BY CompleteNext DEF ModeInv
<1>1. ASSUME NEW t \in ThreadIds, ThreadStep(t) PROVE ModeInv'
  <2>1. t \in Threads /\ UNCHANGED setup
    BY <1>1 DEF ThreadStep
  <2>2. CASE EnterMode(t) \/ ExitOne(t) \/ ExitMode(t) \/ Shutdown(t)
    BY <1>0, <2>1, <2>2, EnterModes, ExitOneModes, ExitModes, ShutdownModes
  <2>3. CASE StartRun(t) \/ KeyFails(t) \/ CompileNow(t) \/ Submit(t) \/ Compiled(t)
    BY <1>0, <2>1, <2>3, StartModes, KeyFailsModes, CompileNowModes, SubmitModes, CompiledModes
  <2>4. CASE Check(t) \/ Await(t) \/ TakeResult(t) \/ LaunchKernel(t) \/ SkipBench(t) \/ SetGlobal(t)
    BY <1>0, <2>1, <2>4, CheckModes, AwaitModes, ResultModes, GoingOnModes
  <2>5. CASE Computing(t)
    BY <1>0, <2>1, <2>5, FailedSame, RunsKept DEF Computing, cacheVars
  <2>6. CASE Job(t, 0) \in DOMAIN jobs /\ Compiling(Job(t, 0))
    BY <1>0, <2>1, <2>6, CompilingModes
  <2> QED
    BY <1>1, <2>2, <2>3, <2>4, <2>5, <2>6 DEF ThreadStep
<1>2. ASSUME NEW t \in ThreadIds, NEW i \in 1 .. MaxFutures, WorkerStep(t, i) PROVE ModeInv'
  BY <1>0, <1>2, CompilingModes, TakeJobModes DEF WorkerStep
<1>3. ASSUME NEW p \in Processes, Crash(p) PROVE ModeInv'
  BY <1>0, <1>3, CrashModes
<1>4. CASE UNCHANGED vars
  BY <1>0, <1>4, FailedSame, RunsKept DEF vars, cacheVars
<1> QED
  BY <1>1, <1>2, <1>3, <1>4 DEF Next

LEMMA ModeSafe == ModeInv => ModeLeftOnlyAfterFailure
<1> SUFFICES ASSUME ModeInv, NEW t \in Threads, run[t].active, ~ Inside(t)
             PROVE  /\ \E i \in DOMAIN run[t].futures :
                         Job(t, i) \in DOMAIN jobs /\ jobs[Job(t, i)].at = "failed"
                    /\ \E i \in LastEntered(t) : ~ Script(t)[i].batch
  BY DEF ModeLeftOnlyAfterFailure
<1>1. FailedFuture(t, run[t]) /\ UserLast(Script(t), run[t].pc)
  BY InsideIs DEF ModeInv, ModeSound
<1> QED
  BY <1>1 DEF FailedFuture, Failed, UserLast, OpAt, LastEntered, IsAt

(* An asynchronous mode is active outside its block only if one of its      *)
(* kernels failed to compile, and the last block the thread came to was a   *)
(* user's: batches reset the mode, whatever fails in them, whatever was     *)
(* left before them, and whatever other threads and processes do.           *)
THEOREM ModesAreLeft == Spec => []ModeLeftOnlyAfterFailure
BY ModeInit, ModeNext, ModeSafe, PTL DEF Spec

-----------------------------------------------------------------------------
(* Programs in which the values of globals are what they were, and no       *)
(* function calls itself, directly or by others: the code generator knows   *)
(* no recursion.  A global that is set is another matter, see the run       *)
(* `globals`.                                                               *)

NothingSet == \A t \in Threads : \A i \in DOMAIN Script(t) : Script(t)[i].op # "set"
CallsOnward(f) == UNION {Reach(h) : h \in Named(f, "call")}
NoRecursion == \A f \in Functions : f \notin CallsOnward(f)
Fixed == NothingSet /\ NoRecursion

LEMMA NamedFunctions ==
  ASSUME setup \in Setups, NEW f \in Functions
  PROVE  Named(f, "call") \subseteq Functions
<1> SUFFICES ASSUME NEW i \in DOMAIN setup.refs[f], setup.refs[f][i].kind = "call"
             PROVE  setup.refs[f][i].name \in DOMAIN setup.refs
  BY DEF Named, Functions
<1> QED
  BY ReferenceAssumption DEF Functions

LEMMA ReachFacts ==
  ASSUME setup \in Setups, NEW f \in Functions
  PROVE  /\ f \in Reach(f)
         /\ Reach(f) \subseteq Functions
         /\ Closed(Reach(f))
         /\ \A S \in SUBSET Functions : f \in S /\ Closed(S) => Reach(f) \subseteq S
<1>1. Closed(Reach(f))
  <2> SUFFICES ASSUME NEW k \in Reach(f), NEW h \in Named(k, "call"), NEW S \in SUBSET Functions, f \in S, Closed(S)
               PROVE  h \in Functions /\ h \in S
    BY NamedFunctions DEF Reach, Closed
  <2> QED
    BY NamedFunctions DEF Reach, Closed
<1> QED
  BY <1>1 DEF Reach

LEMMA OnwardFacts ==
  ASSUME setup \in Setups, NEW f \in Functions
  PROVE  /\ Named(f, "call") \subseteq CallsOnward(f)
         /\ CallsOnward(f) \subseteq Functions
         /\ \A k \in CallsOnward(f) : Named(k, "call") \subseteq CallsOnward(f)
<1>1. \A h \in Named(f, "call") : h \in Functions
  BY NamedFunctions
<1>2. \A h \in Named(f, "call") : h \in Reach(h) /\ Reach(h) \subseteq Functions /\ Closed(Reach(h))
  BY <1>1, ReachFacts
<1> QED
  BY <1>2 DEF CallsOnward, Closed

-----------------------------------------------------------------------------
(* What a key says.  It is of process p when it names the source p has of   *)
(* the function, keys of p for all that it calls and the values its globals *)
(* have; W has the keys inside keys, down to the last.                      *)

Node(p, W, d) ==
  /\ d[1] = "key" /\ d[2] \in Functions
  /\ d[3] = setup.src[p][d[2]]
  /\ \A i \in DOMAIN d[4] : d[4][i] \in W
  /\ \A h \in Named(d[2], "call") : \E i \in DOMAIN d[4] : d[4][i][2] = h
  /\ \A g \in Named(d[2], "global") : g \in DOMAIN d[5] /\ d[5][g] = setup.globals[p][g]

Nodes(p, W) == \A d \in W : Node(p, W, d)
KeyOf(p, d) == \E W : d \in W /\ Nodes(p, W)

(* The Meaning of f in p with the globals as they were at the start.        *)
Made(p, f) ==
  <<"meaning", [h \in Reach(f) |-> setup.src[p][h]],
    [g \in UNION {Named(h, "global") : h \in Reach(f)} |-> setup.globals[p][g]]>>

LEMMA KeyParts ==
  ASSUME NEW p, NEW d, KeyOf(p, d)
  PROVE  /\ d[1] = "key" /\ d[2] \in Functions
         /\ d[3] = setup.src[p][d[2]]
         /\ \A i \in DOMAIN d[4] : KeyOf(p, d[4][i])
         /\ \A h \in Named(d[2], "call") : \E i \in DOMAIN d[4] : d[4][i][2] = h
         /\ \A g \in Named(d[2], "global") : g \in DOMAIN d[5] /\ d[5][g] = setup.globals[p][g]
<1>1. PICK W : d \in W /\ Nodes(p, W)
  BY DEF KeyOf
<1>2. Node(p, W, d)
  BY <1>1 DEF Nodes
<1> QED
  BY <1>1, <1>2 DEF KeyOf, Node

(* The same key, the same kernel: whoever computed it.                      *)
LEMMA SameKeySameKernel ==
  ASSUME setup \in Setups, NEW p, NEW q, NEW d, KeyOf(p, d), KeyOf(q, d)
  PROVE  Made(p, d[2]) = Made(q, d[2])
<1> DEFINE f == d[2]
           S == {h \in Functions : \E e : e[2] = h /\ KeyOf(p, e) /\ KeyOf(q, e)}
<1>1. f \in Functions /\ f \in S
  BY KeyParts
<1>2. Closed(S)
  <2> SUFFICES ASSUME NEW k \in S, NEW h \in Named(k, "call") PROVE h \in S
    BY DEF Closed
  <2>1. PICK e : e[2] = k /\ KeyOf(p, e) /\ KeyOf(q, e)
    OBVIOUS
  <2>2. PICK i \in DOMAIN e[4] : e[4][i][2] = h
    BY <2>1, KeyParts
  <2>3. KeyOf(p, e[4][i]) /\ KeyOf(q, e[4][i])
    BY <2>1, <2>2, KeyParts
  <2>4. h \in Functions
    BY <2>1, NamedFunctions
  <2> QED
    BY <2>2, <2>3, <2>4
<1>3. Reach(f) \subseteq S
  BY <1>1, <1>2, ReachFacts
<1>4. \A h \in Reach(f) : setup.src[p][h] = setup.src[q][h]
  <2> SUFFICES ASSUME NEW h \in S PROVE setup.src[p][h] = setup.src[q][h]
    BY <1>3
  <2>1. PICK e : e[2] = h /\ KeyOf(p, e) /\ KeyOf(q, e)
    OBVIOUS
  <2> QED
    BY <2>1, KeyParts
<1>5. \A h \in Reach(f) : \A g \in Named(h, "global") : setup.globals[p][g] = setup.globals[q][g]
  <2> SUFFICES ASSUME NEW h \in S, NEW g \in Named(h, "global")
               PROVE  setup.globals[p][g] = setup.globals[q][g]
    BY <1>3
  <2>1. PICK e : e[2] = h /\ KeyOf(p, e) /\ KeyOf(q, e)
    OBVIOUS
  <2>2. e[5][g] = setup.globals[p][g] /\ e[5][g] = setup.globals[q][g]
    BY <2>1, KeyParts
  <2> QED
    BY <2>2
<1> HIDE DEF f, S
<1> DEFINE G == UNION {Named(h, "global") : h \in Reach(f)}
<1>6. \A g \in G : setup.globals[p][g] = setup.globals[q][g]
  BY <1>5
<1>7. [g \in G |-> setup.globals[p][g]] = [g \in G |-> setup.globals[q][g]]
  BY <1>6
<1>8. [h \in Reach(f) |-> setup.src[p][h]] = [h \in Reach(f) |-> setup.src[q][h]]
  BY <1>4
<1>9. Made(p, f) = Made(q, f)
  BY <1>7, <1>8 DEF Made
<1> QED
  BY <1>9 DEF f

(* A key made of keys of the functions called.                              *)
LEMMA KeyFromParts ==
  ASSUME NEW p, NEW f \in Functions, NEW cs, NEW u,
         \A i \in DOMAIN cs : KeyOf(p, cs[i]),
         \A h \in Named(f, "call") : \E i \in DOMAIN cs : cs[i][2] = h,
         \A g \in Named(f, "global") : g \in DOMAIN u /\ u[g] = setup.globals[p][g]
  PROVE  KeyOf(p, <<"key", f, setup.src[p][f], cs, u>>)
<1> DEFINE d == <<"key", f, setup.src[p][f], cs, u>>
           Within(i) == CHOOSE W : cs[i] \in W /\ Nodes(p, W)
           U == UNION {Within(i) : i \in DOMAIN cs}
           V == U \cup {d}
<1>1. \A i \in DOMAIN cs : cs[i] \in Within(i) /\ Nodes(p, Within(i))
  <2> SUFFICES ASSUME NEW i \in DOMAIN cs PROVE cs[i] \in Within(i) /\ Nodes(p, Within(i))
    OBVIOUS
  <2>1. \E W : cs[i] \in W /\ Nodes(p, W)
    BY DEF KeyOf
  <2> QED
    BY <2>1
<1> HIDE DEF Within
<1>2. ASSUME NEW e \in U PROVE Node(p, V, e)
  <2>1. PICK i \in DOMAIN cs : e \in Within(i)
    OBVIOUS
  <2>2. Node(p, Within(i), e)
    BY <1>1, <2>1 DEF Nodes
  <2>3. Within(i) \subseteq V
    OBVIOUS
  <2> HIDE DEF V, U
  <2> QED
    BY <2>2, <2>3 DEF Node
<1>3. d[1] = "key" /\ d[2] = f /\ d[3] = setup.src[p][f] /\ d[4] = cs /\ d[5] = u
  OBVIOUS
<1>4. \A i \in DOMAIN cs : cs[i] \in V
  BY <1>1
<1> HIDE DEF d
<1>5. d \in V
  OBVIOUS
<1>6. Node(p, V, d)
  <2> HIDE DEF V
  <2> QED
    BY <1>3, <1>4 DEF Node
<1>7. Nodes(p, V)
  BY <1>2, <1>6 DEF Nodes
<1>8. KeyOf(p, d)
  BY <1>5, <1>7 DEF KeyOf
<1> QED
  BY <1>8 DEF d

LEMMA KeyStays ==
  ASSUME UNCHANGED setup
  PROVE  /\ \A p, d : KeyOf(p, d)' <=> KeyOf(p, d)
         /\ \A p, f : Made(p, f)' = Made(p, f)
         /\ Fixed' <=> Fixed
<1>1. \A p, d : KeyOf(p, d)' <=> KeyOf(p, d)
  BY DEF KeyOf, Nodes, Node, Functions, Named
<1>2. \A f : Reach(f)' = Reach(f)
  BY DEF Reach, Closed, Functions, Named
<1>3. \A p, f : Made(p, f)' = Made(p, f)
  BY <1>2 DEF Made, Named
<1>4. Fixed' <=> Fixed
  BY <1>2 DEF Fixed, NothingSet, NoRecursion, CallsOnward, Functions, Named, Threads, Script
<1> QED
  BY <1>1, <1>3, <1>4
-----------------------------------------------------------------------------
(* The computation of the keys.                                             *)

(* The globals recorded have the values they have.                          *)
Agrees(p, u) == \A g \in DOMAIN u : u[g] = setup.globals[p][g]

(* Some thread is computing the key of f, and holds the lock.               *)
Owned(p, f) ==
  \E t \in Threads : Proc(t) = p /\ lock[p][f] = t /\ \E i \in DOMAIN stack[t] : stack[t][i].fn = f

(* A placeholder is seen only while the key is computed.                    *)
HashSound(p, f) ==
  \/ hash[p][f] = NoHash
  \/ hash[p][f] = Recursion(f) /\ Owned(p, f)
  \/ hash[p][f][2] = f /\ KeyOf(p, hash[p][f])

(* The frame is at a call of h, ...                                         *)
AtCall(frame, h) ==
  /\ frame.at \in DOMAIN setup.refs[frame.fn]
  /\ setup.refs[frame.fn][frame.at].kind = "call" /\ setup.refs[frame.fn][frame.at].name = h

(* ... or has reference i behind it.                                        *)
Seen(frame, i) ==
  /\ setup.refs[frame.fn][i].kind = "call" =>
       \E k \in DOMAIN frame.callees : frame.callees[k][2] = setup.refs[frame.fn][i].name
  /\ setup.refs[frame.fn][i].kind = "global" => setup.refs[frame.fn][i].name \in DOMAIN frame.used

FrameSound(p, frame) ==
  /\ DOMAIN frame = {"fn", "at", "callees", "used"}
  /\ frame.fn \in Functions
  /\ frame.at \in Nat \ {0}
  /\ Agrees(p, frame.used)
  /\ IsSeq(frame.callees)
  /\ \A i \in DOMAIN frame.callees : KeyOf(p, frame.callees[i])
  /\ \A i \in DOMAIN setup.refs[frame.fn] : i < frame.at => Seen(frame, i)

(* Each function on the stack is called by the one before it.               *)
StackSound(p, s) ==
  /\ IsSeq(s)
  /\ \A i \in DOMAIN s : FrameSound(p, s[i])
  /\ \A i \in DOMAIN s : i + 1 \in DOMAIN s => AtCall(s[i], s[i + 1].fn)
  /\ \A i, j \in DOMAIN s : i < j => s[j].fn \in CallsOnward(s[i].fn)

AskSound(s, f) == f # NoFunction /\ s # << >> => AtCall(s[Len(s)], f)

(* What a thread is doing when it wants no key, and when it wants one.      *)
Resting(t) == key[t] = NoHash /\ stack[t] = << >> /\ asked[t] = NoFunction
Asking(t) ==
  \/ key[t] # NoHash /\ key[t][2] = CallOf(t).fn /\ KeyOf(Proc(t), key[t]) /\ stack[t] = << >> /\ asked[t] = NoFunction
  \/ key[t] = NoHash /\ stack[t] = << >> /\ asked[t] = CallOf(t).fn
  \/ key[t] = NoHash /\ stack[t] # << >> /\ stack[t][1].fn = CallOf(t).fn

KeyShapes ==
  /\ value = setup.globals
  /\ DOMAIN hash = Processes /\ DOMAIN used = Processes /\ DOMAIN lock = Processes
  /\ \A p \in Processes : DOMAIN hash[p] = Functions /\ DOMAIN used[p] = Functions /\ DOMAIN lock[p] = Functions
  /\ DOMAIN stack = Threads /\ DOMAIN asked = Threads /\ DOMAIN key = Threads

TableSound == \A p \in Processes : \A f \in Functions : Agrees(p, used[p][f]) /\ HashSound(p, f)

ThreadSound(t) ==
  /\ StackSound(Proc(t), stack[t])
  /\ AskSound(stack[t], asked[t])
  /\ IF At(t, "key") THEN Asking(t) ELSE Resting(t)

KeysInv ==
  /\ SetupInv
  /\ Fixed => /\ KeyShapes /\ TableSound
              /\ \A t \in Threads : ThreadSound(t)

(* A sequence with one element replaced, at its end or taken away.          *)
LEMMA SeqTop ==
  ASSUME NEW s, IsSeq(s), s # << >>, NEW x
  PROVE  /\ Len(s) \in Nat \ {0} /\ Len(s) \in DOMAIN s /\ DOMAIN s = 1 .. Len(s)
         /\ IsSeq([s EXCEPT ![Len(s)] = x])
         /\ DOMAIN [s EXCEPT ![Len(s)] = x] = DOMAIN s
         /\ Len([s EXCEPT ![Len(s)] = x]) = Len(s)
         /\ [s EXCEPT ![Len(s)] = x][Len(s)] = x
         /\ \A i \in DOMAIN s : i # Len(s) => [s EXCEPT ![Len(s)] = x][i] = s[i]
<1> DEFINE T == {s[i] : i \in DOMAIN s} \cup {x}
           q == [s EXCEPT ![Len(s)] = x]
<1>1. s \in Seq({s[i] : i \in DOMAIN s}) /\ s \in Seq(T)
  BY DEF IsSeq
<1>2. Len(s) \in Nat \ {0} /\ DOMAIN s = 1 .. Len(s)
  BY <1>1
<1>3. q \in [1 .. Len(s) -> T] /\ q \in Seq(T) /\ Len(q) = Len(s)
  BY <1>1, <1>2
<1>4. DOMAIN q = DOMAIN s
  OBVIOUS
<1>5. q[Len(s)] = x /\ \A i \in DOMAIN s : i # Len(s) => q[i] = s[i]
  BY <1>2
<1>6. IsSeq(q)
  <2>1. \A i \in DOMAIN q : q[i] \in {q[k] : k \in DOMAIN q}
    OBVIOUS
  <2>2. DOMAIN q = 1 .. Len(s)
    BY <1>2, <1>4
  <2> HIDE DEF q
  <2> DEFINE S == {q[k] : k \in DOMAIN q}
  <2>3. q \in [1 .. Len(s) -> S]
    BY <1>3, <2>1, <2>2
  <2>4. q \in Seq(S)
    <3> HIDE DEF S
    <3> QED
      BY <1>2, <2>3
  <2> QED
    BY <2>4 DEF IsSeq
<1> QED
  BY <1>2, <1>3, <1>4, <1>5, <1>6

LEMMA SeqPop ==
  ASSUME NEW s, IsSeq(s), s # << >>
  PROVE  /\ IsSeq(SubSeq(s, 1, Len(s) - 1))
         /\ DOMAIN SubSeq(s, 1, Len(s) - 1) = 1 .. Len(s) - 1
         /\ Len(SubSeq(s, 1, Len(s) - 1)) = Len(s) - 1
         /\ \A i \in 1 .. Len(s) - 1 : SubSeq(s, 1, Len(s) - 1)[i] = s[i]
<1> DEFINE T == {s[i] : i \in DOMAIN s}
           q == SubSeq(s, 1, Len(s) - 1)
<1>1. s \in Seq(T) /\ Len(s) \in Nat \ {0} /\ DOMAIN s = 1 .. Len(s)
  BY SeqTop DEF IsSeq
<1>2. q \in Seq(T) /\ Len(q) = Len(s) - 1
  BY <1>1
<1>3. DOMAIN q = 1 .. Len(s) - 1 /\ \A i \in 1 .. Len(s) - 1 : q[i] = s[i]
  BY <1>1
<1>4. IsSeq(q)
  <2>1. q \in [1 .. Len(s) - 1 -> {q[k] : k \in DOMAIN q}]
    <3> HIDE DEF q
    <3> QED
      BY <1>2, <1>3
  <2>2. Len(s) - 1 \in Nat
    BY <1>1
  <2> HIDE DEF q
  <2> QED
    BY <2>1, <2>2 DEF IsSeq
<1> QED
  BY <1>2, <1>3, <1>4

LEMMA StackTop ==
  ASSUME NEW p, NEW s, StackSound(p, s), s # << >>,
         NEW frame, FrameSound(p, frame), frame.fn = s[Len(s)].fn
  PROVE  /\ StackSound(p, [s EXCEPT ![Len(s)] = frame])
         /\ \A i \in DOMAIN s : [s EXCEPT ![Len(s)] = frame][i].fn = s[i].fn
<1> PICK q : q = [s EXCEPT ![Len(s)] = frame]
  OBVIOUS
<1>1. /\ Len(s) \in Nat \ {0} /\ DOMAIN s = 1 .. Len(s)
      /\ IsSeq(q) /\ DOMAIN q = DOMAIN s
      /\ q[Len(s)] = frame
      /\ \A i \in DOMAIN s : i # Len(s) => q[i] = s[i]
  BY SeqTop DEF StackSound
<1>2. \A i \in DOMAIN s : q[i].fn = s[i].fn
  BY <1>1
<1>3. \A i \in DOMAIN q : FrameSound(p, q[i])
  BY <1>1 DEF StackSound
<1>4. \A i \in DOMAIN q : i + 1 \in DOMAIN q => AtCall(q[i], q[i + 1].fn)
  BY <1>1, <1>2 DEF StackSound
<1>5. \A i, j \in DOMAIN q : i < j => q[j].fn \in CallsOnward(q[i].fn)
  BY <1>1, <1>2 DEF StackSound
<1> QED
  BY <1>1, <1>2, <1>3, <1>4, <1>5 DEF StackSound

LEMMA RefsAre ==
  ASSUME setup \in Setups, NEW f \in Functions
  PROVE  Len(setup.refs[f]) \in Nat /\ DOMAIN setup.refs[f] = 1 .. Len(setup.refs[f])
<1> PICK s \in Setups : s = setup
  OBVIOUS
<1>1. f \in DOMAIN s.refs
  BY DEF Functions
<1> QED
  BY <1>1, ReferenceAssumption

LEMMA FrameIsSound ==
  ASSUME setup \in Setups, NEW p, NEW f \in Functions
  PROVE  FrameSound(p, Frame(f)) /\ Frame(f).fn = f
<1>1. IsSeq(<< >>) /\ DOMAIN << >> = {}
  BY DEF IsSeq
<1>2. \A i \in DOMAIN setup.refs[f] : ~ (i < 1)
  BY RefsAre
<1>3. DOMAIN Frame(f) = {"fn", "at", "callees", "used"} /\ Frame(f).fn = f /\ Frame(f).at = 1
      /\ Frame(f).callees = << >> /\ Frame(f).used = << >>
  BY DEF Frame, NoGlobals
<1> QED
  BY <1>1, <1>2, <1>3 DEF FrameSound, Agrees

LEMMA NamedIs ==
  ASSUME NEW f \in Functions, NEW i \in DOMAIN setup.refs[f]
  PROVE  /\ setup.refs[f][i].kind = "call" => setup.refs[f][i].name \in Named(f, "call")
         /\ setup.refs[f][i].kind = "global" => setup.refs[f][i].name \in Named(f, "global")
BY DEF Named

LEMMA StackPush ==
  ASSUME setup \in Setups, NEW p, NEW s, StackSound(p, s), NEW f \in Functions, AskSound(s, f), f # NoFunction
  PROVE  /\ StackSound(p, Append(s, Frame(f)))
         /\ Append(s, Frame(f)) # << >>
         /\ DOMAIN s \subseteq DOMAIN Append(s, Frame(f))
         /\ Len(s) + 1 \in DOMAIN Append(s, Frame(f))
         /\ Append(s, Frame(f))[Len(s) + 1].fn = f
         /\ \A i \in DOMAIN s : Append(s, Frame(f))[i] = s[i]
         /\ Len(s) \in Nat /\ (s = << >> => Len(s) = 0)
<1> PICK q : q = Append(s, Frame(f))
  OBVIOUS
<1>1. /\ Len(s) \in Nat /\ DOMAIN s = 1 .. Len(s) /\ (s = << >> <=> Len(s) = 0)
      /\ Len(q) = Len(s) + 1 /\ DOMAIN q = 1 .. Len(s) + 1
      /\ q[Len(s) + 1] = Frame(f) /\ \A i \in DOMAIN s : q[i] = s[i]
      /\ IsSeq(q)
  <2> DEFINE T == {s[i] : i \in DOMAIN s} \cup {Frame(f)}
  <2>1. IsSeq(s) /\ s \in Seq({s[i] : i \in DOMAIN s}) /\ s \in Seq(T)
    BY DEF StackSound, IsSeq
  <2>2. Len(s) \in Nat /\ DOMAIN s = 1 .. Len(s) /\ (s = << >> <=> Len(s) = 0)
    BY <2>1
  <2>3. IsSeq(q)
    BY <2>1, AppendSeq
  <2>4. /\ Len(q) = Len(s) + 1 /\ DOMAIN q = 1 .. Len(s) + 1
        /\ q[Len(s) + 1] = Frame(f) /\ \A i \in DOMAIN s : q[i] = s[i]
    <3> HIDE DEF T
    <3>1. q \in Seq(T \cup {Frame(f)})
      BY <2>1
    <3> QED
      BY <2>1, <2>2, <3>1
  <2> QED
    BY <2>2, <2>3, <2>4
<1>2. \A i \in DOMAIN q : FrameSound(p, q[i])
  <2>1. \A i \in DOMAIN q : i \in DOMAIN s \/ i = Len(s) + 1
    BY <1>1
  <2> QED
    BY <1>1, <2>1, FrameIsSound DEF StackSound
<1>3. s # << >> => /\ Len(s) \in DOMAIN s /\ AtCall(s[Len(s)], f) /\ s[Len(s)].fn \in Functions
                   /\ f \in Named(s[Len(s)].fn, "call")
  <2> SUFFICES ASSUME s # << >> PROVE Len(s) \in DOMAIN s /\ AtCall(s[Len(s)], f) /\ s[Len(s)].fn \in Functions
                   /\ f \in Named(s[Len(s)].fn, "call")
    OBVIOUS
  <2>1. Len(s) \in DOMAIN s /\ AtCall(s[Len(s)], f)
    BY <1>1 DEF AskSound
  <2>2. s[Len(s)].fn \in Functions
    BY <2>1 DEF StackSound, FrameSound
  <2> QED
    BY <2>1, <2>2, NamedIs DEF AtCall
<1>4. \A i \in DOMAIN q : i + 1 \in DOMAIN q => AtCall(q[i], q[i + 1].fn)
  <2> SUFFICES ASSUME NEW i \in DOMAIN q, i + 1 \in DOMAIN q PROVE AtCall(q[i], q[i + 1].fn)
    OBVIOUS
  <2>1. CASE i + 1 \in DOMAIN s
    BY <1>1, <2>1 DEF StackSound
  <2>2. CASE i + 1 \notin DOMAIN s
    <3>1. i = Len(s) /\ q[i + 1] = Frame(f) /\ s # << >> /\ q[i] = s[i]
      BY <1>1, <2>2
    <3> QED
      BY <1>3, <3>1, FrameIsSound
  <2> QED
    BY <2>1, <2>2
<1>5. \A i, j \in DOMAIN q : i < j => q[j].fn \in CallsOnward(q[i].fn)
  <2> SUFFICES ASSUME NEW i \in DOMAIN q, NEW j \in DOMAIN q, i < j PROVE q[j].fn \in CallsOnward(q[i].fn)
    OBVIOUS
  <2>1. CASE j \in DOMAIN s
    BY <1>1, <2>1 DEF StackSound
  <2>2. CASE j \notin DOMAIN s
    <3>1. j = Len(s) + 1 /\ q[j].fn = f /\ i \in DOMAIN s /\ q[i] = s[i] /\ s # << >>
      BY <1>1, <2>2, FrameIsSound
    <3>2. s[i].fn \in Functions
      BY <3>1 DEF StackSound, FrameSound
    <3>3. CASE i = Len(s)
      BY <1>3, <3>1, <3>2, <3>3, OnwardFacts
    <3>4. CASE i # Len(s)
      <4>1. i < Len(s)
        BY <1>1, <3>1, <3>4
      <4>2. s[Len(s)].fn \in CallsOnward(s[i].fn)
        BY <1>3, <3>1, <4>1 DEF StackSound
      <4> QED
        BY <1>3, <3>1, <3>2, <4>2, OnwardFacts
    <3> QED
      BY <3>3, <3>4
  <2> QED
    BY <2>1, <2>2
<1>6. StackSound(p, q)
  BY <1>1, <1>2, <1>4, <1>5 DEF StackSound
<1>7. q # << >>
  BY <1>1
<1> QED
  BY <1>1, <1>6, <1>7, FrameIsSound

LEMMA StackPop ==
  ASSUME NEW p, NEW s, StackSound(p, s), s # << >>
  PROVE  StackSound(p, SubSeq(s, 1, Len(s) - 1))
<1> PICK q : q = SubSeq(s, 1, Len(s) - 1)
  OBVIOUS
<1>1. IsSeq(q) /\ DOMAIN q = 1 .. Len(s) - 1 /\ \A i \in DOMAIN q : q[i] = s[i]
  BY SeqPop DEF StackSound
<1>2. DOMAIN s = 1 .. Len(s) /\ Len(s) \in Nat
  BY SeqTop DEF StackSound
<1>3. \A i \in DOMAIN q : i \in DOMAIN s
  BY <1>1, <1>2
<1> QED
  BY <1>1, <1>3 DEF StackSound

(* The frames after a callee's key has come back.                           *)
LEMMA ReturnedSound ==
  ASSUME setup \in Setups, NEW p, NEW s, StackSound(p, s), NEW d, KeyOf(p, d), AskSound(s, d[2]), d[2] # NoFunction
  PROVE  /\ StackSound(p, Returned(s, d))
         /\ DOMAIN Returned(s, d) = DOMAIN s
         /\ Returned(s, d) = << >> <=> s = << >>
         /\ \A i \in DOMAIN s : Returned(s, d)[i].fn = s[i].fn
<1>1. CASE s = << >>
  BY <1>1 DEF Returned
<1>2. CASE s # << >>
  <2> DEFINE n == Len(s)
  <2>1. n \in DOMAIN s /\ FrameSound(p, s[n]) /\ AtCall(s[n], d[2])
    BY <1>2, SeqTop DEF StackSound, AskSound
  <2> PICK old : old = s[n]
    OBVIOUS
  <2> PICK cs : cs = Append(old.callees, d)
    OBVIOUS
  <2> PICK frame : frame = [old EXCEPT !.callees = cs, !.at = @ + 1]
    OBVIOUS
  <2>2. Returned(s, d) = [s EXCEPT ![n] = frame]
    BY <1>2 DEF Returned
  <2>3. /\ DOMAIN frame = {"fn", "at", "callees", "used"} /\ frame.fn = old.fn /\ frame.at = old.at + 1
        /\ frame.callees = cs /\ frame.used = old.used
    BY <2>1 DEF FrameSound
  <2>4. IsSeq(cs) /\ DOMAIN cs = DOMAIN old.callees \cup {Len(old.callees) + 1}
    BY <2>1, AppendSeq DEF FrameSound
  <2>5. \A i \in DOMAIN old.callees : cs[i] = old.callees[i]
    BY <2>1, AppendKeeps DEF FrameSound
  <2>6. cs[Len(old.callees) + 1] = d
    <3>1. IsSeq(old.callees)
      BY <2>1 DEF FrameSound
    <3> DEFINE T == {old.callees[i] : i \in DOMAIN old.callees}
    <3>2. old.callees \in Seq(T)
      BY <3>1 DEF IsSeq
    <3> HIDE DEF T
    <3> QED
      BY <3>2
  <2>7. \A i \in DOMAIN cs : KeyOf(p, cs[i])
    BY <2>1, <2>4, <2>5, <2>6 DEF FrameSound
  <2>8. ASSUME NEW i \in DOMAIN setup.refs[old.fn], i < old.at + 1 PROVE Seen(frame, i)
    <3>0. old.at \in Nat /\ i \in Nat
      BY <2>1, RefsAre DEF FrameSound
    <3>1. CASE i = old.at
      <4>1. setup.refs[old.fn][i].kind = "call" /\ setup.refs[old.fn][i].name = d[2]
        BY <2>1, <3>1 DEF AtCall
      <4>2. \E k \in DOMAIN cs : cs[k][2] = d[2]
        BY <2>4, <2>6
      <4> QED
        BY <2>3, <4>1, <4>2 DEF Seen
    <3>2. CASE i < old.at
      <4>1. Seen(old, i)
        BY <2>1, <3>2 DEF FrameSound
      <4> QED
        BY <2>3, <2>4, <2>5, <4>1 DEF Seen
    <3> QED
      BY <2>8, <3>0, <3>1, <3>2
  <2>9. FrameSound(p, frame)
    <3>1. old.at + 1 \in Nat \ {0}
      BY <2>1 DEF FrameSound
    <3> QED
      BY <2>1, <2>3, <2>4, <2>7, <2>8, <3>1 DEF FrameSound
  <2>10. DOMAIN [s EXCEPT ![n] = frame] = DOMAIN s
    OBVIOUS
  <2>11. StackSound(p, [s EXCEPT ![n] = frame]) /\ \A i \in DOMAIN s : [s EXCEPT ![n] = frame][i].fn = s[i].fn
    <3>1. frame.fn = s[Len(s)].fn
      BY <2>3
    <3> QED
      BY <1>2, <2>9, <3>1, StackTop
  <2>12. [s EXCEPT ![n] = frame] # << >>
    BY <2>1, <2>10
  <2> QED
    BY <1>2, <2>2, <2>10, <2>11, <2>12
<1> QED
  BY <1>1, <1>2

-----------------------------------------------------------------------------
(* The steps of the computation.                                            *)

LEMMA KeyDefsStay ==
  ASSUME UNCHANGED setup
  PROVE  /\ \A p, s : StackSound(p, s)' <=> StackSound(p, s)
         /\ \A s, f : AskSound(s, f)' <=> AskSound(s, f)
         /\ \A p, u : Agrees(p, u)' <=> Agrees(p, u)
         /\ Threads' = Threads /\ Processes' = Processes /\ Functions' = Functions
         /\ \A t : Proc(t)' = Proc(t) /\ Script(t)' = Script(t)
<1>1. \A f : CallsOnward(f)' = CallsOnward(f)
  BY DEF CallsOnward, Reach, Closed, Functions, Named
<1>2. \A x, h : AtCall(x, h)' <=> AtCall(x, h)
  BY DEF AtCall
<1>3. \A p, x : FrameSound(p, x)' <=> FrameSound(p, x)
  BY KeyStays DEF FrameSound, Seen, Agrees, Functions, IsSeq
<1>4. \A p, s : StackSound(p, s)' <=> StackSound(p, s)
  BY <1>1, <1>2, <1>3 DEF StackSound, IsSeq
<1> QED
  BY <1>2, <1>4 DEF AskSound, Agrees, Threads, Processes, Functions, Proc, Script

(* Asking, of other values.                                                 *)
Phase(t, k, s, a) ==
  \/ k # NoHash /\ k[2] = CallOf(t).fn /\ KeyOf(Proc(t), k) /\ s = << >> /\ a = NoFunction
  \/ k = NoHash /\ s = << >> /\ a = CallOf(t).fn
  \/ k = NoHash /\ s # << >> /\ s[1].fn = CallOf(t).fn

(* g is f, but for the value x of t.                                        *)
Only(t, f, g, x) == DOMAIN g = Threads /\ g[t] = x /\ \A u \in Threads : u # t => g[u] = f[u]

LEMMA OneThreadKeys ==
  ASSUME KeysInv, Fixed, NEW t \in Threads, At(t, "key"), UNCHANGED <<setup, run, value>>,
         NEW s, stack' = [stack EXCEPT ![t] = s], StackSound(Proc(t), s),
         NEW a, Only(t, asked, asked', a), AskSound(s, a),
         NEW k, Only(t, key, key', k), Phase(t, k, s, a),
         DOMAIN hash' = Processes, DOMAIN used' = Processes, DOMAIN lock' = Processes,
         \A p \in Processes : DOMAIN hash'[p] = Functions /\ DOMAIN used'[p] = Functions /\ DOMAIN lock'[p] = Functions,
         TableSound', DOMAIN kernels' = DOMAIN kernels
  PROVE  KeysInv'
<1>1. KeyShapes /\ \A u \in Threads : ThreadSound(u)
  BY DEF KeysInv
<1>2. SetupInv'
  BY DEF KeysInv, SetupInv, Threads, Processes
<1>3. KeyShapes'
  BY <1>1, KeyDefsStay DEF KeyShapes, Only
<1>4. ASSUME NEW u \in Threads, u # t PROVE ThreadSound(u)'
  <2>1. stack'[u] = stack[u] /\ asked'[u] = asked[u] /\ key'[u] = key[u]
    BY <1>4 DEF Only
  <2>2. StackSound(Proc(u), stack[u])' /\ AskSound(stack[u], asked[u])'
    BY <1>1, <2>1, KeyDefsStay DEF ThreadSound
  <2>3. Resting(u)' <=> Resting(u)
    BY <2>1 DEF Resting
  <2>4. Asking(u)' <=> Asking(u)
    BY <2>1, KeyStays, KeyDefsStay DEF Asking, CallOf, Now
  <2>5. At(u, "key")' <=> At(u, "key")
    BY DEF At, Ended, Script
  <2> QED
    BY <1>1, <2>2, <2>3, <2>4, <2>5 DEF ThreadSound
<1>5. ThreadSound(t)'
  <2>1. stack'[t] = s /\ asked'[t] = a /\ key'[t] = k
    BY <1>1 DEF KeyShapes, Only
  <2>2. StackSound(Proc(t), stack[t])' /\ AskSound(stack[t], asked[t])'
    BY <2>1, KeyDefsStay
  <2>3. Asking(t)'
    BY <2>1, KeyStays, KeyDefsStay DEF Asking, Phase, CallOf, Now
  <2>4. At(t, "key")'
    BY DEF At, Ended, Script
  <2> QED
    BY <2>2, <2>3, <2>4 DEF ThreadSound
<1>6. \A u \in Threads' : ThreadSound(u)'
  BY <1>4, <1>5, KeyDefsStay
<1> QED
  BY <1>2, <1>3, <1>6 DEF KeysInv

OnStack(u, f) == \E i \in DOMAIN stack[u] : stack[u][i].fn = f

LEMMA HashStays ==
  ASSUME UNCHANGED setup, NEW p, NEW f, HashSound(p, f), lock'[p][f] = lock[p][f], hash'[p][f] = hash[p][f],
         \A u \in Threads : Proc(u) = p /\ OnStack(u, f) => OnStack(u, f)'
  PROVE  HashSound(p, f)'
<1>1. Owned(p, f) => Owned(p, f)'
  BY DEF Owned, OnStack, Threads, Proc
<1> QED
  BY <1>1, KeyStays DEF HashSound

LEMMA OthersOnStack ==
  ASSUME NEW t \in Threads, NEW s, DOMAIN stack = Threads /\ stack' = [stack EXCEPT ![t] = s],
         NEW f, OnStack(t, f) => \E i \in DOMAIN s : s[i].fn = f
  PROVE  \A u \in Threads : OnStack(u, f) => OnStack(u, f)'
<1>1. stack'[t] = s /\ \A u \in Threads : u # t => stack'[u] = stack[u]
  OBVIOUS
<1> QED
  BY <1>1 DEF OnStack

(* The facts about a thread that is computing a key.                        *)
LEMMA Computes ==
  ASSUME KeysInv, Fixed, NEW t \in Threads, KeyStep(t)
  PROVE  /\ setup \in Setups /\ KeyShapes /\ TableSound
         /\ Proc(t) \in Processes
         /\ At(t, "key")
         /\ StackSound(Proc(t), stack[t]) /\ AskSound(stack[t], asked[t])
         /\ Phase(t, key[t], stack[t], asked[t]) /\ key[t] = NoHash
<1>1. ThreadSound(t) /\ setup \in Setups
  BY DEF KeysInv, SetupInv
<1>2. stack[t] # << >> \/ (asked[t] \in Functions /\ asked[t] # NoFunction)
  <2>1. NoFunction \notin Functions
    BY <1>1, ReferenceAssumption DEF NoFunction, Functions
  <2> QED
    BY <2>1 DEF KeyStep, KeyKnown, KeyBegin, VisitGlobal, VisitCall, VisitConflict, FinishKey, Visiting
<1>3. ~ Resting(t)
  BY <1>2 DEF Resting
<1>4. At(t, "key") /\ Asking(t)
  BY <1>1, <1>3 DEF ThreadSound
<1>5. key[t] = NoHash
  BY <1>2, <1>4 DEF Asking
<1> QED
  BY <1>1, <1>4, <1>5, ThreadHasProcess DEF ThreadSound, Asking, Phase, KeysInv

LEMMA NoFunctionNone == ASSUME setup \in Setups PROVE NoFunction \notin Functions
BY ReferenceAssumption DEF NoFunction, Functions

(* The placeholder of a function is seen only by one that called it.        *)
LEMMA KnownIsKey ==
  ASSUME KeysInv, Fixed, NEW t \in Threads, NEW f \in Functions, KeyKnown(t, f)
  PROVE  hash[Proc(t)][f][2] = f /\ KeyOf(Proc(t), hash[Proc(t)][f])
<1> PICK p : p = Proc(t)
  OBVIOUS
<1>1. KeyStep(t)
  BY DEF KeyStep
<1>2. /\ HashSound(p, f) /\ p \in Processes /\ setup \in Setups
      /\ StackSound(p, stack[t]) /\ AskSound(stack[t], f) /\ f # NoFunction
      /\ lock[p][f] \in {NoThread, t} /\ hash[p][f] # NoHash
  BY <1>1, Computes, NoFunctionNone DEF TableSound, KeyKnown
<1>3. ~ Owned(p, f)
  <2> SUFFICES ASSUME Owned(p, f) PROVE FALSE
    OBVIOUS
  <2>1. NoThread \notin Threads
    BY <1>2, ReferenceAssumption DEF NoThread, Threads
  <2>2. PICK i \in DOMAIN stack[t] : stack[t][i].fn = f
    BY <1>2, <2>1 DEF Owned
  <2> DEFINE n == Len(stack[t])
             top == stack[t][n]
  <2>3. stack[t] # << >> /\ n \in DOMAIN stack[t] /\ DOMAIN stack[t] = 1 .. n /\ n \in Nat
    <3>1. stack[t] # << >>
      BY <2>2
    <3> QED
      BY <1>2, <3>1, SeqTop DEF StackSound
  <2>4. top.fn \in Functions /\ f \in Named(top.fn, "call")
    <3>1. AtCall(top, f) /\ FrameSound(p, top)
      BY <1>2, <2>3 DEF AskSound, StackSound
    <3>2. top.fn \in Functions
      BY <3>1 DEF FrameSound
    <3> QED
      BY <3>1, <3>2, NamedIs DEF AtCall
  <2>5. f \in CallsOnward(f)
    <3>1. CASE i = n
      BY <1>2, <2>2, <2>4, <3>1, OnwardFacts
    <3>2. CASE i # n
      <4>1. i < n
        BY <2>3, <3>2
      <4>2. top.fn \in CallsOnward(f)
        BY <1>2, <2>2, <2>3, <4>1 DEF StackSound
      <4> QED
        BY <1>2, <2>4, <4>2, OnwardFacts
    <3> QED
      BY <3>1, <3>2
  <2> QED
    BY <2>5 DEF Fixed, NoRecursion
<1> QED
  BY <1>2, <1>3 DEF HashSound

(* What a thread has when d has come back to frames s.                      *)
KeyBack(s, d) == IF s = << >> THEN d ELSE NoHash

(* A key d comes back to a thread whose other frames are s.                 *)
LEMMA AnswerPhase ==
  ASSUME setup \in Setups, NEW t \in Threads, NEW s, NEW d, StackSound(Proc(t), s), KeyOf(Proc(t), d), AskSound(s, d[2]),
         (s = << >> => d[2] = CallOf(t).fn) /\ (s # << >> => s[1].fn = CallOf(t).fn)
  PROVE  /\ StackSound(Proc(t), Returned(s, d))
         /\ Phase(t, KeyBack(s, d), Returned(s, d), NoFunction)
         /\ DOMAIN Returned(s, d) = DOMAIN s
         /\ \A i \in DOMAIN s : Returned(s, d)[i].fn = s[i].fn
<1>1. d[2] \in Functions /\ d[1] = "key"
  BY KeyParts
<1>2. d[2] # NoFunction /\ d # NoHash
  BY <1>1, NoFunctionNone DEF NoHash
<1>3. /\ StackSound(Proc(t), Returned(s, d))
      /\ DOMAIN Returned(s, d) = DOMAIN s
      /\ Returned(s, d) = << >> <=> s = << >>
      /\ \A i \in DOMAIN s : Returned(s, d)[i].fn = s[i].fn
  BY <1>2, ReturnedSound
<1>4. CASE s = << >>
  <2>1. KeyBack(s, d) = d /\ Returned(s, d) = << >>
    BY <1>3, <1>4 DEF KeyBack
  <2>2. d # NoHash /\ d[2] = CallOf(t).fn /\ KeyOf(Proc(t), d)
    BY <1>2, <1>4
  <2>3. Phase(t, KeyBack(s, d), Returned(s, d), NoFunction)
    BY <2>1, <2>2 DEF Phase
  <2> QED
    BY <1>3, <2>3
<1>5. CASE s # << >>
  <2>1. 1 \in DOMAIN s
    <3>1. IsSeq(s)
      BY DEF StackSound
    <3>2. Len(s) \in Nat \ {0} /\ DOMAIN s = 1 .. Len(s)
      BY <1>5, <3>1, SeqTop
    <3> QED
      BY <3>2
  <2>2. Returned(s, d)[1].fn = CallOf(t).fn /\ Returned(s, d) # << >>
    BY <1>3, <1>5, <2>1
  <2>3. KeyBack(s, d) = NoHash
    BY <1>5 DEF KeyBack
  <2>4. Phase(t, KeyBack(s, d), Returned(s, d), NoFunction)
    BY <2>2, <2>3 DEF Phase
  <2> QED
    BY <1>3, <2>4
<1> QED
  BY <1>4, <1>5

LEMMA AnswerIs ==
  ASSUME NEW t \in Threads, NEW s, NEW d, Answer(t, s, d), KeyShapes, key[t] = NoHash
  PROVE  /\ stack' = [stack EXCEPT ![t] = Returned(s, d)]
         /\ Only(t, asked, asked', NoFunction)
         /\ Only(t, key, key', KeyBack(s, d))
<1>1. CASE s = << >>
  BY <1>1 DEF Answer, Only, KeyShapes, KeyBack
<1>2. CASE s # << >>
  BY <1>2 DEF Answer, Only, KeyShapes, KeyBack
<1> QED
  BY <1>1, <1>2

LEMMA KnownKeys ==
  ASSUME KeysInv, Fixed, NEW t \in Threads, NEW f \in Functions, KeyKnown(t, f),
         UNCHANGED <<setup, run, kernels>>
  PROVE  KeysInv'
<1> PICK p : p = Proc(t)
  OBVIOUS
<1> PICK s : s = stack[t]
  OBVIOUS
<1> PICK d : d = hash[p][f]
  OBVIOUS
<1>1. KeyStep(t)
  BY DEF KeyStep
<1>2. /\ setup \in Setups /\ KeyShapes /\ TableSound /\ At(t, "key") /\ StackSound(p, s) /\ AskSound(s, f)
      /\ Phase(t, NoHash, s, f) /\ key[t] = NoHash
  BY <1>1, Computes DEF KeyKnown
<1>3. d[2] = f /\ KeyOf(p, d)
  BY KnownIsKey
<1>4. (s = << >> => d[2] = CallOf(t).fn) /\ (s # << >> => s[1].fn = CallOf(t).fn)
  BY <1>2, <1>3 DEF Phase
<1>5. /\ StackSound(p, Returned(s, d))
      /\ Phase(t, KeyBack(s, d), Returned(s, d), NoFunction)
      /\ DOMAIN Returned(s, d) = DOMAIN s
      /\ \A i \in DOMAIN s : Returned(s, d)[i].fn = s[i].fn
  BY <1>2, <1>3, <1>4, AnswerPhase
<1>6. /\ stack' = [stack EXCEPT ![t] = Returned(s, d)]
      /\ Only(t, asked, asked', NoFunction)
      /\ Only(t, key, key', KeyBack(s, d))
      /\ UNCHANGED <<value, hash, used, lock>>
  BY <1>2, AnswerIs DEF KeyKnown
<1>7. TableSound'
  <2> SUFFICES ASSUME NEW q \in Processes, NEW g \in Functions PROVE Agrees(q, used'[q][g]) /\ HashSound(q, g)'
    BY KeyDefsStay DEF TableSound
  <2>1. HashSound(q, g) /\ Agrees(q, used[q][g])
    BY <1>2 DEF TableSound
  <2> PICK n : n = Returned(s, d)
    OBVIOUS
  <2>2. OnStack(t, g) => \E i \in DOMAIN n : n[i].fn = g
    BY <1>5 DEF OnStack
  <2>3. DOMAIN stack = Threads /\ stack' = [stack EXCEPT ![t] = n]
    BY <1>2, <1>6 DEF KeyShapes
  <2>4. lock'[q][g] = lock[q][g] /\ hash'[q][g] = hash[q][g]
    BY <1>6
  <2>5. \A u \in Threads : OnStack(u, g) => OnStack(u, g)'
    BY <2>2, <2>3, OthersOnStack
  <2> QED
    BY <1>6, <2>1, <2>4, <2>5, HashStays
<1>8. AskSound(Returned(s, d), NoFunction)
  BY DEF AskSound
<1>9. /\ DOMAIN hash' = Processes /\ DOMAIN used' = Processes /\ DOMAIN lock' = Processes
      /\ \A q \in Processes : DOMAIN hash'[q] = Functions /\ DOMAIN used'[q] = Functions /\ DOMAIN lock'[q] = Functions
  BY <1>2, <1>6 DEF KeyShapes
<1> QED
  BY <1>2, <1>5, <1>6, <1>7, <1>8, <1>9, OneThreadKeys

LEMMA BeginKeys ==
  ASSUME KeysInv, Fixed, NEW t \in Threads, NEW f \in Functions, KeyBegin(t, f),
         UNCHANGED <<setup, run, kernels>>
  PROVE  KeysInv'
<1> PICK p : p = Proc(t)
  OBVIOUS
<1> PICK s : s = stack[t]
  OBVIOUS
<1> PICK q : q = Append(s, Frame(f))
  OBVIOUS
<1>1. KeyStep(t)
  BY DEF KeyStep
<1>2. /\ setup \in Setups /\ KeyShapes /\ TableSound /\ At(t, "key") /\ StackSound(p, s) /\ AskSound(s, f)
      /\ Phase(t, NoHash, s, f) /\ key[t] = NoHash /\ f # NoFunction /\ p \in Processes
  BY <1>1, Computes, NoFunctionNone DEF KeyBegin
<1>3. /\ StackSound(p, q) /\ q # << >> /\ Len(s) + 1 \in DOMAIN q /\ q[Len(s) + 1].fn = f
      /\ DOMAIN s \subseteq DOMAIN q /\ \A i \in DOMAIN s : q[i] = s[i]
      /\ (s = << >> => Len(s) = 0)
  BY <1>2, StackPush
<1>4. Phase(t, NoHash, q, NoFunction)
  <2>1. CASE s = << >>
    BY <1>2, <1>3, <2>1 DEF Phase
  <2>2. CASE s # << >>
    <3>1. 1 \in DOMAIN s
      BY <1>2, <2>2, SeqTop DEF StackSound
    <3> QED
      BY <1>2, <1>3, <2>2, <3>1 DEF Phase
  <2> QED
    BY <2>1, <2>2
<1>5. /\ stack' = [stack EXCEPT ![t] = q]
      /\ Only(t, asked, asked', NoFunction)
      /\ Only(t, key, key', NoHash)
      /\ UNCHANGED <<value, used>>
      /\ hash' = [hash EXCEPT ![p][f] = Recursion(f)]
      /\ lock' = [lock EXCEPT ![p][f] = t]
  BY <1>2 DEF KeyBegin, Only, KeyShapes
<1>6. /\ DOMAIN hash' = Processes /\ DOMAIN lock' = Processes
      /\ \A r \in Processes : DOMAIN hash'[r] = Functions /\ DOMAIN lock'[r] = Functions
      /\ hash'[p][f] = Recursion(f) /\ lock'[p][f] = t
      /\ \A r \in Processes : \A g \in Functions :
           r # p \/ g # f => hash'[r][g] = hash[r][g] /\ lock'[r][g] = lock[r][g]
  BY <1>2, <1>5 DEF KeyShapes
<1>7. TableSound'
  <2> SUFFICES ASSUME NEW r \in Processes, NEW g \in Functions PROVE Agrees(r, used'[r][g]) /\ HashSound(r, g)'
    BY KeyDefsStay DEF TableSound
  <2>1. HashSound(r, g) /\ Agrees(r, used'[r][g])
    BY <1>2, <1>5 DEF TableSound
  <2>2. CASE r # p \/ g # f
    <3>1. OnStack(t, g) => \E i \in DOMAIN q : q[i].fn = g
      BY <1>3 DEF OnStack
    <3>2. hash'[r][g] = hash[r][g] /\ lock'[r][g] = lock[r][g]
      BY <1>6, <2>2
    <3>3. DOMAIN stack = Threads /\ stack' = [stack EXCEPT ![t] = q]
      BY <1>2, <1>5 DEF KeyShapes
    <3>4. \A u \in Threads : OnStack(u, g) => OnStack(u, g)'
      BY <3>1, <3>3, OthersOnStack
    <3> QED
      BY <2>1, <3>2, <3>4, HashStays
  <2>3. CASE r = p /\ g = f
    <3>1. stack'[t] = q
      BY <1>2, <1>5 DEF KeyShapes
    <3>2. Owned(r, g)'
      BY <1>3, <1>6, <2>3, <3>1 DEF Owned, Proc, Threads
    <3> QED
      BY <1>6, <2>1, <2>3, <3>2 DEF HashSound, Recursion
  <2> QED
    BY <2>2, <2>3
<1>8. AskSound(q, NoFunction)
  BY DEF AskSound
<1>9. /\ DOMAIN used' = Processes
      /\ \A r \in Processes : DOMAIN used'[r] = Functions
  BY <1>2, <1>5 DEF KeyShapes
<1> QED
  BY <1>2, <1>3, <1>4, <1>5, <1>6, <1>7, <1>8, <1>9, OneThreadKeys

(* The innermost frame of t is replaced by one that has seen more.          *)
LEMMA TopKeys ==
  ASSUME KeysInv, Fixed, NEW t \in Threads, KeyStep(t), Visiting(t),
         UNCHANGED <<setup, run, kernels, value, hash, used, lock, key>>,
         NEW frame, stack' = WithTop(t, frame), FrameSound(Proc(t), frame), frame.fn = Top(t).fn,
         NEW a, Only(t, asked, asked', a), a # NoFunction => AtCall(frame, a)
  PROVE  KeysInv'
<1> PICK p : p = Proc(t)
  OBVIOUS
<1> PICK s : s = stack[t]
  OBVIOUS
<1> PICK n : n = [s EXCEPT ![Len(s)] = frame]
  OBVIOUS
<1>1. /\ setup \in Setups /\ KeyShapes /\ TableSound /\ At(t, "key") /\ StackSound(p, s)
      /\ Phase(t, NoHash, s, asked[t]) /\ key[t] = NoHash /\ p \in Processes /\ s # << >>
  BY Computes DEF Visiting
<1>2. /\ StackSound(p, n) /\ IsSeq(s)
      /\ \A i \in DOMAIN s : n[i].fn = s[i].fn
  <2>1. frame.fn = s[Len(s)].fn
    BY DEF Top
  <2>2. IsSeq(s)
    BY <1>1 DEF StackSound
  <2> QED
    BY <1>1, <2>1, <2>2, StackTop
<1>3. /\ Len(s) \in Nat \ {0} /\ DOMAIN s = 1 .. Len(s) /\ DOMAIN n = DOMAIN s /\ Len(n) = Len(s) /\ n[Len(s)] = frame
  BY <1>1, <1>2, SeqTop
<1>4. n # << >> /\ 1 \in DOMAIN s
  BY <1>3
<1>5. stack' = [stack EXCEPT ![t] = n]
  BY <1>1 DEF WithTop, KeyShapes
<1>6. AskSound(n, a)
  BY <1>3 DEF AskSound
<1>7. Phase(t, NoHash, n, a)
  BY <1>1, <1>2, <1>4 DEF Phase
<1>8. Only(t, key, key', NoHash)
  BY <1>1 DEF Only, KeyShapes
<1>9. TableSound'
  <2> SUFFICES ASSUME NEW q \in Processes, NEW g \in Functions PROVE Agrees(q, used'[q][g]) /\ HashSound(q, g)'
    BY KeyDefsStay DEF TableSound
  <2>1. HashSound(q, g) /\ Agrees(q, used[q][g])
    BY <1>1 DEF TableSound
  <2>2. OnStack(t, g) => \E i \in DOMAIN n : n[i].fn = g
    BY <1>2, <1>3 DEF OnStack
  <2>3. DOMAIN stack = Threads /\ stack' = [stack EXCEPT ![t] = n]
    BY <1>1, <1>5 DEF KeyShapes
  <2>4. lock'[q][g] = lock[q][g] /\ hash'[q][g] = hash[q][g] /\ used'[q][g] = used[q][g]
    OBVIOUS
  <2>5. stack'[t] = n /\ \A u \in Threads : u # t => stack'[u] = stack[u]
    BY <2>3
  <2>6. \A u \in Threads : OnStack(u, g) => OnStack(u, g)'
    BY <2>2, <2>5 DEF OnStack
  <2> QED
    BY <2>1, <2>4, <2>6, HashStays
<1>10. /\ DOMAIN hash' = Processes /\ DOMAIN used' = Processes /\ DOMAIN lock' = Processes
       /\ \A q \in Processes : DOMAIN hash'[q] = Functions /\ DOMAIN used'[q] = Functions /\ DOMAIN lock'[q] = Functions
  BY <1>1 DEF KeyShapes
<1> QED
  BY <1>1, <1>2, <1>5, <1>6, <1>7, <1>8, <1>9, <1>10, OneThreadKeys

LEMMA VisitFacts ==
  ASSUME KeysInv, Fixed, NEW t \in Threads, KeyStep(t), Visiting(t)
  PROVE  /\ setup \in Setups /\ KeyShapes /\ TableSound /\ Proc(t) \in Processes
         /\ FrameSound(Proc(t), Top(t)) /\ Top(t).fn \in Functions /\ Top(t).at \in Nat
         /\ Top(t).at \in DOMAIN setup.refs[Top(t).fn]
<1>1. /\ setup \in Setups /\ KeyShapes /\ TableSound /\ StackSound(Proc(t), stack[t]) /\ stack[t] # << >>
      /\ Proc(t) \in Processes
  BY Computes DEF Visiting
<1>2. Len(stack[t]) \in DOMAIN stack[t]
  BY <1>1, SeqTop DEF StackSound
<1> QED
  BY <1>1, <1>2 DEF StackSound, FrameSound, Top, Visiting

LEMMA GlobalKeys ==
  ASSUME KeysInv, Fixed, NEW t \in Threads, VisitGlobal(t), UNCHANGED <<setup, run, kernels>>
  PROVE  KeysInv'
<1> PICK p : p = Proc(t)
  OBVIOUS
<1> PICK old : old = Top(t)
  OBVIOUS
<1> PICK g : g = Visited(t).name
  OBVIOUS
<1> PICK u : u = Bind(old.used, g, value[p][g])
  OBVIOUS
<1> PICK frame : frame = [old EXCEPT !.used = u, !.at = @ + 1]
  OBVIOUS
<1>1. KeyStep(t) /\ Visiting(t) /\ stack' = WithTop(t, frame)
  BY DEF KeyStep, VisitGlobal
<1>2. /\ setup \in Setups /\ KeyShapes /\ FrameSound(p, old) /\ old.fn \in Functions /\ old.at \in Nat
      /\ old.at \in DOMAIN setup.refs[old.fn]
  BY <1>1, VisitFacts, Zenon
<1>3. setup.refs[old.fn][old.at].kind = "global" /\ setup.refs[old.fn][old.at].name = g
  BY Zenon DEF VisitGlobal, Visited
<1>4. DOMAIN u = DOMAIN old.used \cup {g} /\ \A x \in DOMAIN u : u[x] = IF x = g THEN value[p][g] ELSE old.used[x]
  BY DEF Bind
<1>5. Agrees(p, u)
  BY <1>2, <1>4 DEF FrameSound, Agrees, KeyShapes
<1>6. /\ DOMAIN frame = {"fn", "at", "callees", "used"} /\ frame.fn = old.fn /\ frame.at = old.at + 1
      /\ frame.callees = old.callees /\ frame.used = u
  BY <1>2 DEF FrameSound
<1>7. ASSUME NEW i \in DOMAIN setup.refs[old.fn], i < old.at + 1 PROVE Seen(frame, i)
  <2>0. i \in Nat
    BY <1>2, RefsAre
  <2>1. CASE i = old.at
    BY <1>3, <1>4, <1>6, <2>1 DEF Seen
  <2>2. CASE i < old.at
    <3>1. Seen(old, i)
      BY <1>2, <2>2 DEF FrameSound
    <3> QED
      BY <1>4, <1>6, <3>1 DEF Seen
  <2> QED
    BY <1>2, <1>7, <2>0, <2>1, <2>2
<1>8. FrameSound(p, frame)
  <2>1. old.at + 1 \in Nat \ {0}
    BY <1>2
  <2> QED
    BY <1>2, <1>5, <1>6, <1>7, <2>1 DEF FrameSound
<1>9. Only(t, asked, asked', NoFunction)
  BY <1>2 DEF VisitGlobal, Visiting, Only, KeyShapes
<1> QED
  BY <1>1, <1>6, <1>8, <1>9, TopKeys DEF VisitGlobal

LEMMA CalleeAgrees ==
  ASSUME KeysInv, Fixed, NEW t \in Threads, KeyStep(t), Visiting(t), Visited(t).kind = "call"
  PROVE  /\ Visited(t).name \in Functions
         /\ Agrees(Proc(t), used[Proc(t)][Visited(t).name])
         /\ Agrees(Proc(t), Top(t).used)
<1>1. /\ setup \in Setups /\ TableSound /\ Proc(t) \in Processes /\ FrameSound(Proc(t), Top(t)) /\ Top(t).fn \in Functions
      /\ Top(t).at \in DOMAIN setup.refs[Top(t).fn]
  BY VisitFacts
<1>2. Visited(t).name \in Named(Top(t).fn, "call")
  BY <1>1, NamedIs DEF Visited
<1>3. Visited(t).name \in Functions
  BY <1>1, <1>2, NamedFunctions
<1> QED
  BY <1>1, <1>3 DEF TableSound, FrameSound

LEMMA CallKeys ==
  ASSUME KeysInv, Fixed, NEW t \in Threads, VisitCall(t), UNCHANGED <<setup, run, kernels>>
  PROVE  KeysInv'
<1> PICK p : p = Proc(t)
  OBVIOUS
<1> PICK old : old = Top(t)
  OBVIOUS
<1> PICK h : h = Visited(t).name
  OBVIOUS
<1> PICK u : u = Merged(used[p][h], old.used)
  OBVIOUS
<1> PICK frame : frame = [old EXCEPT !.used = u]
  OBVIOUS
<1>1. KeyStep(t) /\ Visiting(t) /\ stack' = WithTop(t, frame) /\ asked' = [asked EXCEPT ![t] = h]
  BY DEF KeyStep, VisitCall
<1>2. /\ setup \in Setups /\ KeyShapes /\ FrameSound(p, old) /\ old.fn \in Functions /\ old.at \in Nat
      /\ old.at \in DOMAIN setup.refs[old.fn]
  BY <1>1, VisitFacts, Zenon
<1>3. setup.refs[old.fn][old.at].kind = "call" /\ setup.refs[old.fn][old.at].name = h
  BY Zenon DEF VisitCall, Visited
<1>4. Agrees(p, used[p][h]) /\ Agrees(p, old.used)
  BY <1>1, CalleeAgrees DEF VisitCall
<1>5. /\ DOMAIN u = DOMAIN used[p][h] \cup DOMAIN old.used
      /\ \A x \in DOMAIN u : u[x] = IF x \in DOMAIN used[p][h] THEN used[p][h][x] ELSE old.used[x]
  BY DEF Merged
<1>6. Agrees(p, u)
  BY <1>4, <1>5 DEF Agrees
<1>7. /\ DOMAIN frame = {"fn", "at", "callees", "used"} /\ frame.fn = old.fn /\ frame.at = old.at
      /\ frame.callees = old.callees /\ frame.used = u
  BY <1>2 DEF FrameSound
<1>8. ASSUME NEW i \in DOMAIN setup.refs[old.fn], i < old.at PROVE Seen(frame, i)
  <2>1. Seen(old, i)
    BY <1>2, <1>8 DEF FrameSound
  <2> QED
    BY <1>5, <1>7, <2>1 DEF Seen
<1>9. FrameSound(p, frame)
  BY <1>2, <1>6, <1>7, <1>8 DEF FrameSound
<1>10. Only(t, asked, asked', h)
  BY <1>1, <1>2 DEF Only, KeyShapes
<1>11. AtCall(frame, h)
  BY <1>2, <1>3, <1>7 DEF AtCall
<1> QED
  BY <1>1, <1>7, <1>9, <1>10, <1>11, TopKeys DEF VisitCall

LEMMA NoConflict ==
  ASSUME KeysInv, Fixed, NEW t \in Threads
  PROVE  ~ VisitConflict(t)
<1> SUFFICES ASSUME VisitConflict(t) PROVE FALSE
  OBVIOUS
<1>1. KeyStep(t) /\ Visiting(t) /\ Visited(t).kind = "call"
  BY DEF KeyStep, VisitConflict
<1> QED
  BY <1>1, CalleeAgrees DEF VisitConflict, Conflict, Agrees

(* A frame that has seen all references makes a key.                        *)
LEMMA FrameMakesKey ==
  ASSUME setup \in Setups, NEW p, NEW frame, FrameSound(p, frame), frame.at > Len(setup.refs[frame.fn])
  PROVE  /\ KeyOf(p, Digest(p, frame))
         /\ Digest(p, frame)[2] = frame.fn
<1> PICK f : f = frame.fn
  OBVIOUS
<1>1. f \in Functions /\ frame.at \in Nat /\ DOMAIN setup.refs[f] = 1 .. Len(setup.refs[f]) /\ Len(setup.refs[f]) \in Nat
  BY RefsAre DEF FrameSound
<1>2. \A i \in DOMAIN setup.refs[f] : Seen(frame, i)
  <2>1. \A i \in DOMAIN setup.refs[f] : i < frame.at
    BY <1>1
  <2> QED
    BY <2>1 DEF FrameSound
<1>3. \A h \in Named(f, "call") : \E i \in DOMAIN frame.callees : frame.callees[i][2] = h
  BY <1>2 DEF Named, Seen
<1>4. \A g \in Named(f, "global") : g \in DOMAIN frame.used
  BY <1>2 DEF Named, Seen
<1>5. \A g \in Named(f, "global") : g \in DOMAIN frame.used /\ frame.used[g] = setup.globals[p][g]
  BY <1>4 DEF FrameSound, Agrees
<1>6. \A i \in DOMAIN frame.callees : KeyOf(p, frame.callees[i])
  BY DEF FrameSound
<1>7. KeyOf(p, <<"key", f, setup.src[p][f], frame.callees, frame.used>>)
  BY <1>1, <1>3, <1>5, <1>6, KeyFromParts
<1> QED
  BY <1>7 DEF Digest

LEMMA NoElements == ASSUME NEW s, IsSeq(s) PROVE s = << >> <=> Len(s) = 0
<1> DEFINE T == {s[i] : i \in DOMAIN s}
<1>1. s \in Seq(T)
  BY DEF IsSeq
<1> HIDE DEF T
<1> QED
  BY <1>1

(* The key d comes back to the frames o of t.                               *)
LEMMA AnswerKeys ==
  ASSUME KeysInv, Fixed, KeyShapes, NEW t \in Threads, At(t, "key"), key[t] = NoHash,
         UNCHANGED <<setup, run, kernels, value>>,
         NEW o, NEW d, StackSound(Proc(t), o), KeyOf(Proc(t), d), AskSound(o, d[2]),
         (o = << >> => d[2] = CallOf(t).fn) /\ (o # << >> => o[1].fn = CallOf(t).fn),
         Answer(t, o, d),
         DOMAIN hash' = Processes, DOMAIN used' = Processes, DOMAIN lock' = Processes,
         \A p \in Processes : DOMAIN hash'[p] = Functions /\ DOMAIN used'[p] = Functions /\ DOMAIN lock'[p] = Functions,
         (/\ DOMAIN stack'[t] = DOMAIN o /\ \A i \in DOMAIN o : stack'[t][i].fn = o[i].fn
          /\ \A u \in Threads : u # t => stack'[u] = stack[u]) => TableSound'
  PROVE  KeysInv'
<1>1. setup \in Setups
  BY DEF KeysInv, SetupInv
<1>2. /\ stack' = [stack EXCEPT ![t] = Returned(o, d)]
      /\ Only(t, asked, asked', NoFunction)
      /\ Only(t, key, key', KeyBack(o, d))
  BY AnswerIs
<1>3. /\ StackSound(Proc(t), Returned(o, d))
      /\ Phase(t, KeyBack(o, d), Returned(o, d), NoFunction)
      /\ DOMAIN Returned(o, d) = DOMAIN o
      /\ \A i \in DOMAIN o : Returned(o, d)[i].fn = o[i].fn
  BY <1>1, AnswerPhase
<1>4. TableSound'
  BY <1>2, <1>3 DEF KeyShapes
<1>5. AskSound(Returned(o, d), NoFunction)
  BY DEF AskSound
<1> QED
  BY <1>2, <1>3, <1>4, <1>5, OneThreadKeys

(* The frames without the innermost.                                        *)
Popped(s) == SubSeq(s, 1, Len(s) - 1)

LEMMA PopFacts ==
  ASSUME NEW p, NEW s, StackSound(p, s), s # << >>, NEW o, o = Popped(s)
  PROVE  /\ StackSound(p, o)
         /\ AskSound(o, s[Len(s)].fn)
         /\ (o = << >> => s[Len(s)].fn = s[1].fn) /\ (o # << >> => o[1].fn = s[1].fn)
         /\ FrameSound(p, s[Len(s)]) /\ s[Len(s)].fn \in Functions
         /\ \A i \in DOMAIN s : i # Len(s) => i \in DOMAIN o /\ o[i] = s[i]
<1>1. Len(s) \in Nat \ {0} /\ DOMAIN s = 1 .. Len(s) /\ IsSeq(s)
  BY SeqTop DEF StackSound
<1>2. StackSound(p, o)
  BY StackPop DEF Popped
<1>3. DOMAIN o = 1 .. Len(s) - 1 /\ Len(o) = Len(s) - 1 /\ IsSeq(o) /\ \A i \in 1 .. Len(s) - 1 : o[i] = s[i]
  BY <1>1, SeqPop DEF Popped
<1>4. o = << >> <=> Len(o) = 0
  BY <1>3, NoElements
<1>6. o = << >> <=> Len(s) = 1
  BY <1>1, <1>3, <1>4
<1>7. AskSound(o, s[Len(s)].fn)
  <2> SUFFICES ASSUME o # << >> PROVE AtCall(o[Len(o)], s[Len(s)].fn)
    BY DEF AskSound
  <2> PICK k : k = Len(o)
    OBVIOUS
  <2>1. k \in DOMAIN s /\ k + 1 = Len(s) /\ k + 1 \in DOMAIN s /\ k \in 1 .. Len(s) - 1
    BY <1>1, <1>3, <1>6
  <2>2. AtCall(s[k], s[k + 1].fn)
    BY <2>1 DEF StackSound
  <2> QED
    BY <1>3, <2>1, <2>2
<1>8. CASE o = << >>
  BY <1>1, <1>2, <1>3, <1>6, <1>7, <1>8 DEF StackSound, FrameSound
<1>9. CASE o # << >>
  <2>1. 1 \in 1 .. Len(s) - 1
    BY <1>1, <1>6, <1>9
  <2>2. o[1].fn = s[1].fn
    BY <1>3, <2>1
  <2>3. \A i \in DOMAIN s : i # Len(s) => i \in DOMAIN o /\ o[i] = s[i]
    BY <1>1, <1>3
  <2>4. FrameSound(p, s[Len(s)]) /\ s[Len(s)].fn \in Functions
    BY <1>1 DEF StackSound, FrameSound
  <2> QED
    BY <1>2, <1>7, <1>9, <2>2, <2>3, <2>4
<1> QED
  BY <1>8, <1>9

LEMMA FinishKeys ==
  ASSUME KeysInv, Fixed, NEW t \in Threads, FinishKey(t), UNCHANGED <<setup, run, kernels>>
  PROVE  KeysInv'
<1> DEFINE p == Proc(t)
           s == stack[t]
           top == s[Len(s)]
           f == top.fn
           d == Digest(p, top)
           o == SubSeq(s, 1, Len(s) - 1)
<1>1. KeyStep(t)
  BY DEF KeyStep
<1>2. /\ setup \in Setups /\ KeyShapes /\ TableSound /\ At(t, "key") /\ StackSound(p, s)
      /\ Phase(t, NoHash, s, NoFunction) /\ key[t] = NoHash /\ p \in Processes /\ s # << >>
  BY <1>1, Computes DEF FinishKey
<1>3. /\ StackSound(p, o)
      /\ AskSound(o, f)
      /\ (o = << >> => f = CallOf(t).fn) /\ (o # << >> => o[1].fn = CallOf(t).fn)
      /\ FrameSound(p, top) /\ f \in Functions
      /\ \A i \in DOMAIN s : i # Len(s) => i \in DOMAIN o /\ o[i] = s[i]
  <2>1. s[1].fn = CallOf(t).fn
    BY <1>2 DEF Phase
  <2>2. o = Popped(s)
    BY DEF Popped
  <2> PICK n : n = o
    OBVIOUS
  <2>3. /\ StackSound(p, n)
        /\ AskSound(n, f)
        /\ (n = << >> => f = s[1].fn) /\ (n # << >> => n[1].fn = s[1].fn)
        /\ FrameSound(p, top) /\ f \in Functions
        /\ \A i \in DOMAIN s : i # Len(s) => i \in DOMAIN n /\ n[i] = s[i]
    <3> HIDE DEF o
    <3> QED
      BY <1>2, <2>2, PopFacts
  <2> QED
    BY <2>1, <2>3
<1>4. /\ top.at > Len(setup.refs[f])
      /\ Answer(t, o, d)
      /\ hash' = [hash EXCEPT ![p][f] = d]
      /\ used' = [used EXCEPT ![p][f] = top.used]
      /\ lock' = [lock EXCEPT ![p][f] = NoThread]
      /\ UNCHANGED value
  BY DEF FinishKey, Top
<1> HIDE DEF p, o, top
<1>5. KeyOf(p, d) /\ d[2] = f
  BY <1>2, <1>3, <1>4, FrameMakesKey
<1> HIDE DEF f, d, s
<1>6. /\ DOMAIN hash' = Processes /\ DOMAIN used' = Processes /\ DOMAIN lock' = Processes
      /\ \A q \in Processes : DOMAIN hash'[q] = Functions /\ DOMAIN used'[q] = Functions /\ DOMAIN lock'[q] = Functions
      /\ hash'[p][f] = d /\ used'[p][f] = top.used
      /\ \A q \in Processes : \A g \in Functions :
           q # p \/ g # f => hash'[q][g] = hash[q][g] /\ lock'[q][g] = lock[q][g] /\ used'[q][g] = used[q][g]
  BY <1>2, <1>3, <1>4 DEF KeyShapes
<1>7. ASSUME DOMAIN stack'[t] = DOMAIN o, \A i \in DOMAIN o : stack'[t][i].fn = o[i].fn,
             \A u \in Threads : u # t => stack'[u] = stack[u]
      PROVE  TableSound'
  <2> SUFFICES ASSUME NEW q \in Processes, NEW g \in Functions PROVE Agrees(q, used'[q][g]) /\ HashSound(q, g)'
    BY KeyDefsStay DEF TableSound
  <2>1. HashSound(q, g) /\ Agrees(q, used[q][g])
    BY <1>2 DEF TableSound
  <2>2. CASE q = p /\ g = f
    <3>1. Agrees(q, used'[q][g])
      BY <1>3, <1>6, <2>2 DEF FrameSound
    <3>2. hash'[q][g][2] = g /\ KeyOf(q, hash[q][g])'
      BY <1>5, <1>6, <2>2, KeyStays
    <3> QED
      BY <3>1, <3>2 DEF HashSound
  <2>3. CASE q # p \/ g # f
    <3>1. hash'[q][g] = hash[q][g] /\ lock'[q][g] = lock[q][g] /\ used'[q][g] = used[q][g]
      BY <1>6, <2>3
    <3>2. q = p /\ OnStack(t, g) => \E i \in DOMAIN stack'[t] : stack'[t][i].fn = g
      <4> SUFFICES ASSUME q = p, NEW i \in DOMAIN s, s[i].fn = g PROVE \E k \in DOMAIN o : o[k].fn = g
        BY <1>7 DEF OnStack, s
      <4>1. i # Len(s)
        BY <2>3 DEF f, top
      <4> QED
        BY <1>3, <4>1
    <3>3. \A u \in Threads : Proc(u) = q /\ OnStack(u, g) => OnStack(u, g)'
      BY <1>7, <3>2 DEF OnStack, p
    <3> QED
      BY <2>1, <3>1, <3>3, HashStays
  <2> QED
    BY <2>2, <2>3
<1>8. (o = << >> => d[2] = CallOf(t).fn) /\ (o # << >> => o[1].fn = CallOf(t).fn)
  BY <1>3, <1>5
<1>9. AskSound(o, d[2])
  BY <1>3, <1>5
<1> QED
  BY <1>2, <1>3, <1>4, <1>5, <1>6, <1>7, <1>8, <1>9, AnswerKeys DEF p

LEMMA ComputingKeys ==
  ASSUME KeysInv, Fixed, NEW t \in Threads, UNCHANGED setup, Computing(t)
  PROVE  KeysInv'
<1>1. UNCHANGED <<setup, run, kernels>>
  BY DEF Computing
<1> QED
  BY <1>1, KnownKeys, BeginKeys, GlobalKeys, CallKeys, NoConflict, FinishKeys DEF Computing, KeyStep

-----------------------------------------------------------------------------
(* The other steps: none is in the middle of a key.                         *)

LEMMA OthersKeys ==
  ASSUME KeysInv, Fixed, SetupInv', UNCHANGED <<setup, value, hash, used, lock, stack>>,
         NEW t \in Threads, \A u \in Threads : u # t => run'[u] = run[u],
         NEW a, Only(t, asked, asked', a), NEW k, Only(t, key, key', k), ThreadSound(t)'
  PROVE  KeysInv'
<1>1. KeyShapes /\ TableSound /\ \A u \in Threads : ThreadSound(u)
  BY DEF KeysInv
<1>2. KeyShapes'
  BY <1>1, KeyDefsStay DEF KeyShapes, Only
<1>3. TableSound'
  <2> SUFFICES ASSUME NEW q \in Processes, NEW g \in Functions PROVE Agrees(q, used[q][g])' /\ HashSound(q, g)'
    BY KeyDefsStay DEF TableSound
  <2>1. HashSound(q, g) /\ Agrees(q, used[q][g])
    BY <1>1 DEF TableSound
  <2>2. \A u \in Threads : OnStack(u, g) => OnStack(u, g)'
    BY DEF OnStack
  <2> QED
    BY <2>1, <2>2, HashStays, KeyDefsStay
<1>4. ASSUME NEW u \in Threads, u # t PROVE ThreadSound(u)'
  <2>1. stack'[u] = stack[u] /\ asked'[u] = asked[u] /\ key'[u] = key[u] /\ run'[u] = run[u]
    BY <1>4 DEF Only
  <2>2. StackSound(Proc(u), stack[u])' /\ AskSound(stack[u], asked[u])'
    BY <1>1, <2>1, KeyDefsStay DEF ThreadSound
  <2>3. Resting(u)' <=> Resting(u)
    BY <2>1 DEF Resting
  <2>4. Asking(u)' <=> Asking(u)
    BY <2>1, KeyStays, KeyDefsStay DEF Asking, CallOf, Now
  <2>5. At(u, "key")' <=> At(u, "key")
    BY <2>1 DEF At, Ended, Script
  <2> QED
    BY <1>1, <2>2, <2>3, <2>4, <2>5 DEF ThreadSound
<1>5. \A u \in Threads' : ThreadSound(u)'
  BY <1>4, KeyDefsStay
<1> QED
  BY <1>2, <1>3, <1>5 DEF KeysInv

LEMMA RestingStep ==
  ASSUME KeysInv, Fixed, SetupInv', UNCHANGED <<setup, value, hash, used, lock, stack>>,
         NEW t \in Threads, \A u \in Threads : u # t => run'[u] = run[u], run'[t].at # "key",
         stack[t] = << >>, Only(t, asked, asked', NoFunction), Only(t, key, key', NoHash)
  PROVE  KeysInv'
<1>1. ThreadSound(t)
  BY DEF KeysInv
<1>2. stack'[t] = << >> /\ asked'[t] = NoFunction /\ key'[t] = NoHash
  BY DEF Only
<1>3. Resting(t)'
  BY <1>2 DEF Resting
<1>4. ~ At(t, "key")'
  BY DEF At
<1>5. StackSound(Proc(t), stack[t])'
  BY <1>1, KeyDefsStay DEF ThreadSound
<1>6. AskSound(stack[t], asked[t])'
  BY <1>2 DEF AskSound
<1>7. ThreadSound(t)'
  BY <1>3, <1>4, <1>5, <1>6 DEF ThreadSound
<1> QED
  BY <1>7, OthersKeys

LEMMA QuietKeys ==
  ASSUME KeysInv, Fixed, SetupInv', UNCHANGED <<setup, keyVars>>,
         NEW t \in Threads, \A u \in Threads : u # t => run'[u] = run[u], run[t].at # "key", run'[t].at # "key"
  PROVE  KeysInv'
<1>1. ThreadSound(t) /\ KeyShapes
  BY DEF KeysInv
<1>2. Resting(t)
  BY <1>1 DEF ThreadSound, At
<1>3. Only(t, asked, asked', NoFunction) /\ Only(t, key, key', NoHash)
  BY <1>1, <1>2 DEF Only, Resting, KeyShapes, keyVars
<1>4. UNCHANGED <<value, hash, used, lock, stack>> /\ stack[t] = << >>
  BY <1>2 DEF keyVars, Resting
<1> QED
  BY <1>3, <1>4, RestingStep

LEMMA NothingMoves ==
  ASSUME KeysInv, UNCHANGED <<setup, keyVars, run>>, DOMAIN kernels' = DOMAIN kernels
  PROVE  KeysInv'
<1>1. SetupInv'
  BY DEF KeysInv, SetupInv, Threads, Processes
<1> SUFFICES ASSUME Fixed PROVE KeysInv'
  BY <1>1, KeyStays DEF KeysInv
<1>2. KeyShapes /\ TableSound /\ \A u \in Threads : ThreadSound(u)
  BY DEF KeysInv
<1>3. KeyShapes'
  BY <1>2, KeyDefsStay DEF KeyShapes, keyVars
<1>4. TableSound'
  <2> SUFFICES ASSUME NEW q \in Processes, NEW g \in Functions PROVE Agrees(q, used[q][g])' /\ HashSound(q, g)'
    BY KeyDefsStay DEF TableSound
  <2>1. HashSound(q, g) /\ Agrees(q, used[q][g])
    BY <1>2 DEF TableSound
  <2>2. \A u \in Threads : OnStack(u, g) => OnStack(u, g)'
    BY DEF OnStack, keyVars
  <2> QED
    BY <2>1, <2>2, HashStays, KeyDefsStay DEF keyVars
<1>5. ASSUME NEW u \in Threads PROVE ThreadSound(u)'
  <2>1. stack'[u] = stack[u] /\ asked'[u] = asked[u] /\ key'[u] = key[u] /\ run'[u] = run[u]
    BY DEF keyVars
  <2>2. StackSound(Proc(u), stack[u])' /\ AskSound(stack[u], asked[u])'
    BY <1>2, <2>1, KeyDefsStay DEF ThreadSound
  <2>3. Resting(u)' <=> Resting(u)
    BY <2>1 DEF Resting
  <2>4. Asking(u)' <=> Asking(u)
    BY <2>1, KeyStays, KeyDefsStay DEF Asking, CallOf, Now
  <2>5. At(u, "key")' <=> At(u, "key")
    BY <2>1 DEF At, Ended, Script
  <2> QED
    BY <1>2, <2>2, <2>3, <2>4, <2>5 DEF ThreadSound
<1>6. \A u \in Threads' : ThreadSound(u)'
  BY <1>5, KeyDefsStay
<1> QED
  BY <1>1, <1>3, <1>4, <1>6 DEF KeysInv

LEMMA SetRunFacts ==
  ASSUME SetupInv, NEW t \in Threads, NEW r, SetRun(t, r)
  PROVE  run'[t] = r /\ \A u \in Threads : u # t => run'[u] = run[u]
BY DEF SetRun, SetupInv

(* Steps that neither begin a key nor take one.                             *)
Aside(t) ==
  \/ EnterMode(t) \/ ExitOne(t) \/ ExitMode(t) \/ Shutdown(t) \/ Compiled(t)
  \/ Check(t) \/ Await(t) \/ LaunchKernel(t) \/ TakeResult(t) \/ SkipBench(t)

LEMMA AsideRuns ==
  ASSUME CompleteInv, NEW t \in Threads, Aside(t)
  PROVE  /\ UNCHANGED keyVars /\ \A u \in Threads : u # t => run'[u] = run[u]
         /\ run[t].at # "key" /\ run'[t].at # "key"
<1>1. SetupInv /\ DOMAIN run[t] = RunFields
  BY DEF CompleteInv, RunInv, RunSound
<1>2. Next1(run[t]).at = "ready" /\ DOMAIN Next1(run[t]) = RunFields /\ Raise(t, run[t]).at = "ready"
  BY <1>1, NextSame, RaiseSame DEF Same
<1>3. UNCHANGED keyVars /\ run[t].at # "key"
  BY DEF Aside, EnterMode, ExitOne, ExitMode, Shutdown, Compiled, Check, Await, LaunchKernel, TakeResult, SkipBench,
         Doing, At
<1>4. \E r : SetRun(t, r) /\ r.at # "key"
  <2>1. CASE EnterMode(t)
    <3>1. run[t].at = "ready"
      BY <2>1 DEF EnterMode, Doing
    <3>2. [run[t] EXCEPT !.pc = ExitOf(t) + 1, !.active = ~ Now(t).batch].at = "ready"
      BY <1>1, <3>1 DEF RunFields
    <3>3. [run[t] EXCEPT !.pc = @ + 1, !.active = TRUE, !.open = TRUE,
                         !.futures = << >>, !.handled = {}, !.got = << >>, !.tuned = {}].at = "ready"
      BY <1>1, <3>1 DEF RunFields
    <3> QED
      BY <2>1, <3>2, <3>3 DEF EnterMode
  <2>2. CASE ExitOne(t)
    <3>1. run[t].at = "ready"
      BY <2>2 DEF ExitOne, Doing
    <3>2. [run[t] EXCEPT !.at = "shutdown", !.raised = TRUE].at = "shutdown"
      BY <1>1 DEF RunFields
    <3>3. PICK i : \/ SetRun(t, [run[t] EXCEPT !.at = "shutdown", !.raised = TRUE])
                   \/ SetRun(t, [run[t] EXCEPT !.handled = @ \cup {i}])
      BY <2>2 DEF ExitOne
    <3>4. [run[t] EXCEPT !.handled = @ \cup {i}].at = "ready"
      BY <1>1, <3>1 DEF RunFields
    <3> QED
      BY <3>2, <3>3, <3>4
  <2>3. CASE ExitMode(t)
    <3>1. [run[t] EXCEPT !.at = "shutdown", !.active = FALSE].at = "shutdown"
      BY <1>1 DEF RunFields
    <3> QED
      BY <2>3, <3>1 DEF ExitMode
  <2>4. CASE Shutdown(t)
    <3> DEFINE r == [Next1(run[t]) EXCEPT !.open = FALSE, !.raised = FALSE, !.active = LeftActive(t),
                                          !.futures = IF LeftActive(t) THEN @ ELSE << >>,
                                          !.handled = {}, !.got = << >>]
    <3>1. SetRun(t, r)
      BY <2>4 DEF Shutdown
    <3>2. r.at = "ready"
      BY <1>2 DEF RunFields
    <3> HIDE DEF r
    <3> QED
      BY <3>1, <3>2
  <2>5. CASE Compiled(t)
    <3> DEFINE q == [run[t] EXCEPT !.at = "check", !.kernel = jobs[Job(t, 0)].kernel]
    <3>1. SetRun(t, Raise(t, run[t])) \/ SetRun(t, q)
      BY <2>5 DEF Compiled
    <3>2. q.at = "check"
      BY <1>1 DEF RunFields
    <3> HIDE DEF q
    <3> QED
      BY <1>2, <3>1, <3>2
  <2>6. CASE Check(t)
    <3> DEFINE q == [Next1(run[t]) EXCEPT !.got = Bind(@, CallOf(t), run[t].kernel)]
               w == [run[t] EXCEPT !.at = IF IsFuture(run[t].kernel) THEN "await" ELSE "launch"]
    <3>1. SetRun(t, Raise(t, run[t])) \/ SetRun(t, q) \/ SetRun(t, w)
      BY <2>6 DEF Check
    <3>2. q.at = "ready"
      BY <1>2 DEF RunFields
    <3>3. w.at # "key"
      BY <1>1 DEF RunFields
    <3> HIDE DEF q, w
    <3> QED
      BY <1>2, <3>1, <3>2, <3>3
  <2>7. CASE Await(t)
    <3> DEFINE q == [run[t] EXCEPT !.at = "launch", !.kernel = jobs[Job(t, run[t].kernel[2])].kernel]
    <3>1. SetRun(t, Raise(t, run[t])) \/ SetRun(t, q)
      BY <2>7 DEF Await
    <3>2. q.at = "launch"
      BY <1>1 DEF RunFields
    <3> HIDE DEF q
    <3> QED
      BY <1>2, <3>1, <3>2
  <2>8. CASE LaunchKernel(t) \/ SkipBench(t)
    BY <1>2, <2>8 DEF LaunchKernel, SkipBench
  <2>9. CASE TakeResult(t)
    <3> DEFINE q == [Next1(run[t]) EXCEPT !.tuned = @ \cup {CallOf(t)}]
    <3>1. SetRun(t, Next1(run[t])) \/ SetRun(t, Raise(t, run[t])) \/ SetRun(t, q)
      BY <2>9 DEF TakeResult, CallOf
    <3>2. q.at = "ready"
      BY <1>2 DEF RunFields
    <3> HIDE DEF q
    <3> QED
      BY <1>2, <3>1, <3>2
  <2> QED
    BY <2>1, <2>2, <2>3, <2>4, <2>5, <2>6, <2>7, <2>8, <2>9 DEF Aside
<1> QED
  BY <1>1, <1>3, <1>4, SetRunFacts

LEMMA AsideKeys ==
  ASSUME KeysInv, Fixed, CompleteInv, SetupInv', UNCHANGED setup, NEW t \in Threads, Aside(t)
  PROVE  KeysInv'
BY AsideRuns, QuietKeys

(* The key a thread has asked for is there: it is a key, and not an error.  *)
LEMMA HasKeyFacts ==
  ASSUME KeysInv, Fixed, NEW t \in Threads, HasKey(t)
  PROVE  /\ KeyOf(Proc(t), key[t]) /\ key[t][2] = CallOf(t).fn /\ key[t] # KeyError
         /\ stack[t] = << >> /\ asked[t] = NoFunction /\ KeyShapes
<1>1. ThreadSound(t) /\ At(t, "key") /\ key[t] # NoHash /\ KeyShapes
  BY DEF KeysInv, HasKey
<1>2. KeyOf(Proc(t), key[t]) /\ key[t][2] = CallOf(t).fn /\ stack[t] = << >> /\ asked[t] = NoFunction
  BY <1>1 DEF ThreadSound, Asking
<1>3. key[t][1] = "key"
  BY <1>2, KeyParts
<1>4. key[t] # KeyError
  BY <1>3 DEF KeyError
<1> QED
  BY <1>1, <1>2, <1>4

LEMMA TookKey ==
  ASSUME KeysInv, Fixed, SetupInv', UNCHANGED <<setup, value, hash, used, lock, stack, asked>>,
         NEW t \in Threads, HasKey(t), key' = [key EXCEPT ![t] = NoHash],
         NEW r, SetRun(t, r), r.at # "key"
  PROVE  KeysInv'
<1>1. stack[t] = << >> /\ asked[t] = NoFunction /\ KeyShapes /\ SetupInv
  BY HasKeyFacts DEF KeysInv
<1>2. run'[t] = r /\ \A u \in Threads : u # t => run'[u] = run[u]
  BY <1>1, SetRunFacts
<1>3. Only(t, asked, asked', NoFunction) /\ Only(t, key, key', NoHash)
  BY <1>1 DEF Only, KeyShapes
<1> QED
  BY <1>1, <1>2, <1>3, RestingStep

LEMMA TakeKeys ==
  ASSUME KeysInv, Fixed, CompleteInv, SetupInv', UNCHANGED setup, NEW t \in Threads,
         KeyFails(t) \/ CompileNow(t) \/ Submit(t)
  PROVE  KeysInv'
<1>1. SetupInv /\ DOMAIN run[t] = RunFields
  BY DEF CompleteInv, RunInv, RunSound
<1>2. Raise(t, run[t]).at = "ready"
  BY <1>1, RaiseSame
<1>3. /\ HasKey(t) /\ key' = [key EXCEPT ![t] = NoHash]
      /\ UNCHANGED <<value, hash, used, lock, stack, asked>>
  BY DEF KeyFails, CompileNow, Submit
<1>4. \E r : SetRun(t, r) /\ r.at # "key"
  <2>1. CASE KeyFails(t)
    BY <1>2, <2>1 DEF KeyFails
  <2>2. CASE CompileNow(t)
    <3>1. [run[t] EXCEPT !.at = "compile"].at = "compile"
      BY <1>1 DEF RunFields
    <3> QED
      BY <2>2, <3>1 DEF CompileNow
  <2>3. CASE Submit(t)
    <3> DEFINE w(i) == [run[t] EXCEPT !.at = "check", !.kernel = Future(i),
                          !.futures = Append(@, [key |-> CompileKey(t), call |-> CallOf(t)])]
               q(i) == [run[t] EXCEPT !.at = "check", !.kernel = Future(i)]
    <3>1. SetRun(t, Raise(t, run[t])) \/ \E i : SetRun(t, w(i)) \/ SetRun(t, q(i))
      BY <2>3 DEF Submit
    <3>2. \A i : w(i).at = "check" /\ q(i).at = "check"
      BY <1>1 DEF RunFields
    <3> HIDE DEF q, w
    <3> QED
      BY <1>2, <3>1, <3>2
  <2> QED
    BY <2>1, <2>2, <2>3
<1> QED
  BY <1>3, <1>4, TookKey

LEMMA StartKeys ==
  ASSUME KeysInv, Fixed, CompleteInv, SetupInv', UNCHANGED setup, NEW t \in Threads, StartRun(t)
  PROVE  KeysInv'
<1>1. SetupInv /\ DOMAIN run[t] = RunFields /\ ThreadSound(t) /\ KeyShapes
  BY DEF CompleteInv, RunInv, RunSound, KeysInv
<1>2. run[t].at = "ready" /\ ~ Ended(t)
  BY DEF StartRun, Doing
<1>3. Resting(t)
  BY <1>1, <1>2 DEF ThreadSound, At
<1>4. UNCHANGED <<value, hash, used, lock, stack, key>>
  BY DEF StartRun
<1>5. Only(t, key, key', NoHash) /\ stack[t] = << >>
  BY <1>1, <1>3, <1>4 DEF Only, KeyShapes, Resting
<1>6. CASE CallOf(t) \in DOMAIN kernels[Proc(t)]
  <2> DEFINE r == [run[t] EXCEPT !.at = "check", !.kernel = kernels[Proc(t)][CallOf(t)]]
  <2>1. SetRun(t, r) /\ UNCHANGED asked
    BY <1>6 DEF StartRun
  <2>2. r.at = "check"
    BY <1>1 DEF RunFields
  <2> HIDE DEF r
  <2>3. run'[t] = r /\ \A u \in Threads : u # t => run'[u] = run[u]
    BY <1>1, <2>1, SetRunFacts
  <2>4. Only(t, asked, asked', NoFunction)
    BY <1>1, <1>3, <2>1 DEF Only, KeyShapes, Resting
  <2> QED
    BY <1>4, <1>5, <2>2, <2>3, <2>4, RestingStep
<1>7. CASE CallOf(t) \notin DOMAIN kernels[Proc(t)]
  <2> DEFINE r == [run[t] EXCEPT !.at = "key"]
  <2>1. SetRun(t, r) /\ asked' = [asked EXCEPT ![t] = CallOf(t).fn]
    BY <1>7 DEF StartRun
  <2>2. r.at = "key" /\ r.pc = run[t].pc
    BY <1>1 DEF RunFields
  <2> HIDE DEF r
  <2>3. run'[t] = r /\ \A u \in Threads : u # t => run'[u] = run[u]
    BY <1>1, <2>1, SetRunFacts
  <2>4. Only(t, asked, asked', CallOf(t).fn)
    BY <1>1, <2>1 DEF Only, KeyShapes
  <2>5. stack'[t] = << >> /\ asked'[t] = CallOf(t).fn /\ key'[t] = NoHash
    BY <1>4, <1>5, <2>4 DEF Only
  <2>6. CallOf(t)' = CallOf(t)
    BY <2>2, <2>3 DEF CallOf, Now, Script
  <2>7. At(t, "key")'
    BY <1>2, <2>2, <2>3 DEF At, Ended, Script
  <2>8. Asking(t)'
    BY <2>5, <2>6 DEF Asking
  <2>9. StackSound(Proc(t), stack[t])'
    BY <1>1, <1>4, KeyDefsStay DEF ThreadSound
  <2>10. AskSound(stack[t], asked[t])'
    BY <2>5 DEF AskSound
  <2>11. ThreadSound(t)'
    BY <2>7, <2>8, <2>9, <2>10 DEF ThreadSound
  <2> QED
    BY <1>4, <1>5, <2>3, <2>4, <2>11, OthersKeys
<1> QED
  BY <1>6, <1>7

LEMMA NothingIsSet ==
  ASSUME ModeInv, Fixed, NEW t \in Threads
  PROVE  ~ SetGlobal(t)
<1> SUFFICES ASSUME SetGlobal(t) PROVE FALSE
  OBVIOUS
<1>1. Doing(t, {"set"})
  BY DEF SetGlobal
<1>2. run[t].pc \in DOMAIN Script(t) /\ Script(t)[run[t].pc].op \in {"set"}
  BY <1>1, DoingAt
<1> QED
  BY <1>2 DEF Fixed, NothingSet

LEMMA CrashKeys ==
  ASSUME KeysInv, Fixed, SetupInv', NEW p \in Processes, Crash(p)
  PROVE  KeysInv'
<1>1. UNCHANGED setup /\ setup \in Setups /\ KeyShapes /\ TableSound
  BY DEF Crash, KeysInv, SetupInv
<1>2. value' = setup.globals
  <2>1. PICK s \in Setups : s = setup
    BY <1>1
  <2>2. s.globals = [x \in DOMAIN s.src |-> s.globals[x]]
    BY ReferenceAssumption
  <2>3. setup.globals = [x \in Processes |-> setup.globals[x]]
    BY <2>1, <2>2 DEF Processes
  <2>4. value = setup.globals /\ value' = [value EXCEPT ![p] = setup.globals[p]]
    BY <1>1 DEF Crash, KeyShapes
  <2> DEFINE g == setup.globals
  <2>5. [g EXCEPT ![p] = g[p]] = [x \in Processes |-> g[x]]
    <3>1. DOMAIN g = Processes
      BY <2>3
    <3> HIDE DEF g
    <3> QED
      BY <3>1
  <2> QED
    BY <2>3, <2>4, <2>5
<1>3. /\ hash' = [hash EXCEPT ![p] = [f \in Functions |-> NoHash]]
      /\ used' = [used EXCEPT ![p] = [f \in Functions |-> NoGlobals]]
      /\ lock' = [lock EXCEPT ![p] = [f \in Functions |-> NoThread]]
      /\ stack' = [t \in Threads |-> IF Proc(t) = p THEN << >> ELSE stack[t]]
      /\ asked' = [t \in Threads |-> IF Proc(t) = p THEN NoFunction ELSE asked[t]]
      /\ key' = [t \in Threads |-> IF Proc(t) = p THEN NoHash ELSE key[t]]
      /\ run' = [t \in Threads |-> IF Proc(t) = p THEN Idle ELSE run[t]]
  BY DEF Crash
<1>4. KeyShapes'
  <2>1. DOMAIN stack' = Threads /\ DOMAIN asked' = Threads /\ DOMAIN key' = Threads
    BY <1>3
  <2>2. /\ DOMAIN hash' = Processes /\ DOMAIN used' = Processes /\ DOMAIN lock' = Processes
        /\ \A q \in Processes : DOMAIN hash'[q] = Functions /\ DOMAIN used'[q] = Functions /\ DOMAIN lock'[q] = Functions
    BY <1>1, <1>3 DEF KeyShapes
  <2> QED
    BY <1>1, <1>2, <2>1, <2>2, KeyDefsStay DEF KeyShapes
<1>5. TableSound'
  <2> SUFFICES ASSUME NEW q \in Processes, NEW g \in Functions PROVE Agrees(q, used'[q][g]) /\ HashSound(q, g)'
    BY <1>1, KeyDefsStay DEF TableSound
  <2>1. HashSound(q, g) /\ Agrees(q, used[q][g])
    BY <1>1 DEF TableSound
  <2>2. CASE q = p
    <3>1. hash'[q][g] = NoHash /\ used'[q][g] = << >>
      BY <1>1, <1>3, <2>2 DEF KeyShapes, NoGlobals
    <3> QED
      BY <3>1 DEF HashSound, Agrees
  <2>3. CASE q # p
    <3>1. hash'[q] = hash[q] /\ used'[q] = used[q] /\ lock'[q] = lock[q]
      BY <1>1, <1>3, <2>3 DEF KeyShapes
    <3>2. \A u \in Threads : Proc(u) = q => stack'[u] = stack[u]
      BY <1>3, <2>3
    <3>3. \A u \in Threads : Proc(u) = q /\ OnStack(u, g) => OnStack(u, g)'
      BY <3>2 DEF OnStack
    <3>4. lock'[q][g] = lock[q][g] /\ hash'[q][g] = hash[q][g] /\ used'[q][g] = used[q][g]
      BY <3>1
    <3> QED
      BY <1>1, <2>1, <3>3, <3>4, HashStays
  <2> QED
    BY <2>2, <2>3
<1>6. ASSUME NEW u \in Threads PROVE ThreadSound(u)'
  <2>0. ThreadSound(u)
    BY DEF KeysInv
  <2>1. CASE Proc(u) = p
    <3>1. stack'[u] = << >> /\ asked'[u] = NoFunction /\ key'[u] = NoHash /\ run'[u] = Idle
      BY <1>3, <2>1
    <3>2. Resting(u)' /\ AskSound(stack[u], asked[u])'
      BY <3>1 DEF Resting, AskSound
    <3>3. ~ At(u, "key")'
      BY <3>1 DEF At, Idle
    <3>4. IsSeq(stack'[u]) /\ DOMAIN stack'[u] = {}
      BY <3>1 DEF IsSeq
    <3>5. StackSound(Proc(u), stack[u])'
      BY <3>4 DEF StackSound, IsSeq
    <3> QED
      BY <3>2, <3>3, <3>5 DEF ThreadSound
  <2>2. CASE Proc(u) # p
    <3>1. stack'[u] = stack[u] /\ asked'[u] = asked[u] /\ key'[u] = key[u] /\ run'[u] = run[u]
      BY <1>3, <2>2
    <3>2. StackSound(Proc(u), stack[u])' /\ AskSound(stack[u], asked[u])'
      BY <1>1, <2>0, <3>1, KeyDefsStay DEF ThreadSound
    <3>3. Resting(u)' <=> Resting(u)
      BY <3>1 DEF Resting
    <3>4. Asking(u)' <=> Asking(u)
      BY <1>1, <3>1, KeyStays, KeyDefsStay DEF Asking, CallOf, Now
    <3>5. At(u, "key")' <=> At(u, "key")
      BY <1>1, <3>1 DEF At, Ended, Script
    <3> QED
      BY <2>0, <3>2, <3>3, <3>4, <3>5 DEF ThreadSound
  <2> QED
    BY <2>1, <2>2
<1>7. \A u \in Threads' : ThreadSound(u)'
  BY <1>1, <1>6, KeyDefsStay
<1> QED
  BY <1>4, <1>5, <1>7 DEF KeysInv

LEMMA KeysInit == Init => KeysInv
<1> SUFFICES ASSUME Init PROVE KeysInv
  OBVIOUS
<1>1. SetupInv
  BY CompleteInit DEF CompleteInv
<1>2. KeyShapes
  BY DEF Init, InitKeys, KeyShapes
<1>3. TableSound
  BY DEF Init, InitKeys, TableSound, Agrees, HashSound, NoGlobals
<1>4. ASSUME NEW t \in Threads PROVE ThreadSound(t)
  <2>1. stack[t] = << >> /\ asked[t] = NoFunction /\ key[t] = NoHash /\ run[t] = Idle
    BY DEF Init, InitKeys
  <2>2. ~ At(t, "key")
    BY <2>1 DEF At, Idle
  <2>3. IsSeq(stack[t]) /\ DOMAIN stack[t] = {}
    BY <2>1 DEF IsSeq
  <2>4. StackSound(Proc(t), stack[t])
    BY <2>3 DEF StackSound
  <2> QED
    BY <2>1, <2>2, <2>4 DEF ThreadSound, Resting, AskSound
<1> QED
  BY <1>1, <1>2, <1>3, <1>4 DEF KeysInv

LEMMA KeysNext == ModeInv /\ KeysInv /\ [Next]_vars => KeysInv'
<1> SUFFICES ASSUME ModeInv, KeysInv, [Next]_vars PROVE KeysInv'
  OBVIOUS
<1>0. CompleteInv /\ SetupInv'
  BY CompleteNext DEF CompleteInv, ModeInv
<1>1. CASE UNCHANGED vars
  BY <1>1, NothingMoves DEF vars
<1>2. CASE Next
  <2>1. UNCHANGED setup
    BY <1>2 DEF Next, ThreadStep, WorkerStep, Crash
  <2> SUFFICES ASSUME Fixed PROVE KeysInv'
    BY <1>0, <2>1, KeyStays DEF KeysInv
  <2>2. ASSUME NEW j, Compiling(j) PROVE KeysInv'
    BY <2>1, <2>2, NothingMoves DEF Compiling
  <2>3. ASSUME NEW t \in ThreadIds, ThreadStep(t) PROVE KeysInv'
    <3>1. t \in Threads
      BY <2>3 DEF ThreadStep
    <3>2. CASE Aside(t)
      BY <1>0, <2>1, <3>1, <3>2, AsideKeys
    <3>3. CASE KeyFails(t) \/ CompileNow(t) \/ Submit(t)
      BY <1>0, <2>1, <3>1, <3>3, TakeKeys
    <3>4. CASE StartRun(t)
      BY <1>0, <2>1, <3>1, <3>4, StartKeys
    <3>5. CASE Computing(t)
      BY <2>1, <3>1, <3>5, ComputingKeys
    <3>6. CASE SetGlobal(t)
      BY <3>1, <3>6, NothingIsSet
    <3> QED
      BY <2>2, <2>3, <3>2, <3>3, <3>4, <3>5, <3>6 DEF ThreadStep, Aside
  <2>4. ASSUME NEW t \in ThreadIds, NEW i \in 1 .. MaxFutures, WorkerStep(t, i) PROVE KeysInv'
    <3>1. CASE TakeJob(t, i)
      BY <2>1, <3>1, NothingMoves DEF TakeJob
    <3> QED
      BY <2>2, <2>4, <3>1 DEF WorkerStep
  <2>5. ASSUME NEW p \in Processes, Crash(p) PROVE KeysInv'
    BY <1>0, <2>5, CrashKeys
  <2> QED
    BY <1>2, <2>3, <2>4, <2>5 DEF Next
<1> QED
  BY <1>1, <1>2

-----------------------------------------------------------------------------
(* What the jobs, the files, the kernel cache and the threads hold was made *)
(* as their process has it written.                                         *)

JobMeans(p, r) ==
  /\ r.key[1][2] = r.call.fn /\ KeyOf(p, r.key[1])
  /\ r.at \in {"put", "rename"} \/ (r.at = "stage" /\ r.n # 1) => r.meaning = Made(p, r.call.fn)
  /\ r.kernel = NoMeaning \/ r.kernel = Made(p, r.call.fn)

FilesMean(k, files) ==
  \A x \in DOMAIN files : \A p \in Processes : KeyOf(p, k[1]) => files[x] = Made(p, k[1][2])

FutureFor(r, k, f) == \E i \in DOMAIN r.futures : k = Future(i) /\ r.futures[i].call.fn = f

RunMeans(t, r) ==
  LET c == Script(t)[r.pc].call IN
  /\ \A i \in DOMAIN r.futures :
       r.futures[i].key[1][2] = r.futures[i].call.fn /\ jobs[Job(t, i)].call = r.futures[i].call
  /\ r.at = "compile" => jobs[Job(t, 0)].call = c
  /\ r.at = "check" => r.kernel = Made(Proc(t), c.fn) \/ FutureFor(r, r.kernel, c.fn)
  /\ r.at = "await" => FutureFor(r, r.kernel, c.fn)
  /\ r.at = "launch" => r.kernel = Made(Proc(t), c.fn)

JobsMean == \A j \in DOMAIN jobs : j[1] \in Threads /\ JobMeans(Proc(j[1]), jobs[j])
DirMeans == \A k \in DOMAIN dir : FilesMean(k, dir[k].files)
KernelsMean == \A p \in Processes : \A c \in DOMAIN kernels[p] : kernels[p][c] = Made(p, c.fn)
RunsMean == \A t \in Threads : RunMeans(t, run[t])

Means == JobsMean /\ DirMeans /\ KernelsMean /\ RunsMean
MeansInv == ModeInv /\ KeysInv /\ (Fixed => Means)

LEMMA MeansDefsStay ==
  ASSUME UNCHANGED setup
  PROVE  /\ \A p, r : JobMeans(p, r)' <=> JobMeans(p, r)
         /\ \A k, files : FilesMean(k, files)' <=> FilesMean(k, files)
<1>1. \A p, r : JobMeans(p, r)' <=> JobMeans(p, r)
  BY KeyStays DEF JobMeans
<1>2. \A k, files : FilesMean(k, files)' <=> FilesMean(k, files)
  BY KeyStays, KeyDefsStay DEF FilesMean
<1> QED
  BY <1>1, <1>2

LEMMA MadeComplete == ASSUME NEW p, NEW f PROVE Complete(Made(p, f)) /\ ~ IsFuture(Made(p, f)) /\ Made(p, f) # NoMeaning
<1>1. Complete(Made(p, f))
  BY DEF Complete, Made
<1> QED
  BY <1>1, CompleteOrNot DEF Complete, NoMeaning

LEMMA MeaningMade ==
  ASSUME KeysInv, Fixed, NEW p, NEW f
  PROVE  Meaning(p, f) = Made(p, f)
<1>1. value = setup.globals
  BY DEF KeysInv, KeyShapes
<1> QED
  BY <1>1 DEF Meaning, Made

(* What a job that ended well has made.                                     *)
LEMMA DoneMeans ==
  ASSUME ModeInv, JobsMean, NEW t, NEW i, Job(t, i) \in DOMAIN jobs, Finished(Job(t, i)), jobs[Job(t, i)].at # "failed"
  PROVE  jobs[Job(t, i)].kernel = Made(Proc(t), jobs[Job(t, i)].call.fn)
<1>1. Complete(jobs[Job(t, i)].kernel)
  BY DoneIsComplete DEF ModeInv, CompleteInv
<1>2. jobs[Job(t, i)].kernel # NoMeaning
  BY <1>1 DEF Complete, NoMeaning
<1>3. Job(t, i)[1] = t
  BY DEF Job
<1>4. JobMeans(Proc(Job(t, i)[1]), jobs[Job(t, i)])
  BY DEF JobsMean
<1> QED
  BY <1>2, <1>3, <1>4 DEF JobMeans

(*------------------------------- the jobs --------------------------------*)

LEMMA OneJobMeans ==
  ASSUME JobsMean, UNCHANGED setup, NEW j \in DOMAIN jobs,
         DOMAIN jobs' = DOMAIN jobs, \A i \in DOMAIN jobs : i # j => jobs'[i] = jobs[i],
         JobMeans(Proc(j[1]), jobs'[j])
  PROVE  JobsMean'
BY MeansDefsStay, KeyDefsStay DEF JobsMean

LEMMA DirMeansSame == ASSUME DirMeans, UNCHANGED <<setup, dir>> PROVE DirMeans'
BY MeansDefsStay DEF DirMeans

LEMMA DirectoryMeans == ASSUME DirMeans, NEW k PROVE FilesMean(k, Directory(k).files)
<1>1. CASE k \in DOMAIN dir
  BY <1>1 DEF DirMeans, Directory
<1>2. CASE k \notin DOMAIN dir
  <2>1. Directory(k).files = << >>
    BY <1>2 DEF Directory
  <2>2. DOMAIN Directory(k).files = {}
    BY <2>1
  <2> QED
    BY <2>2 DEF FilesMean
<1> QED
  BY <1>1, <1>2

LEMMA DirectorySet ==
  ASSUME DirMeans, UNCHANGED setup, NEW k, NEW d, dir' = SetDir(dir, k, d), FilesMean(k, d.files)
  PROVE  DirMeans'
<1>1. DOMAIN dir' = DOMAIN dir \cup {k} /\ dir'[k] = d /\ \A q \in DOMAIN dir : q # k => dir'[q] = dir[q]
  BY DEF SetDir, Bind
<1>2. \A q \in DOMAIN dir' : FilesMean(q, dir'[q].files)
  BY <1>1 DEF DirMeans
<1> QED
  BY <1>2, MeansDefsStay DEF DirMeans

LEMMA StepMeans ==
  ASSUME ModeInv, KeysInv, Fixed, JobsMean, DirMeans, UNCHANGED setup, NEW j \in DOMAIN jobs, JobStep(j, Proc(j[1]))
  PROVE  /\ JobsMean' /\ DirMeans'
         /\ DOMAIN jobs' = DOMAIN jobs /\ \A i \in DOMAIN jobs : jobs'[i].call = jobs[i].call
<1> PICK p : p = Proc(j[1])
  OBVIOUS
<1> PICK old : old = jobs[j]
  OBVIOUS
<1>1. /\ JobSound(old) /\ DOMAIN old = JobFields /\ JobMeans(p, old) /\ setup \in Setups /\ DirInv /\ JobInv
      /\ p \in Processes
  <2>1. SetupInv /\ j[1] \in Threads
    BY DEF ModeInv, CompleteInv, JobsMean
  <2>2. p \in Processes
    BY <2>1, ThreadHasProcess
  <2> QED
    BY <2>1, <2>2 DEF ModeInv, CompleteInv, JobInv, JobSound, SetupInv, JobsMean
<1> SUFFICES \E new : /\ jobs' = [jobs EXCEPT ![j] = new] /\ JobMeans(p, new) /\ DirMeans' /\ new.call = old.call
  BY OneJobMeans
<1>2. CASE Lookup(j)
  <2> DEFINE found == GetGroup(old.key)
             new == [old EXCEPT !.group = found, !.at = IF "json" \in found THEN "load" ELSE "stage"]
  <2>1. jobs' = [jobs EXCEPT ![j] = new] /\ UNCHANGED dir /\ old.at = "lookup"
    BY <1>2 DEF Lookup
  <2>2. /\ new.key = old.key /\ new.call = old.call /\ new.n = old.n /\ new.kernel = old.kernel /\ new.at \in {"load", "stage"}
    BY <1>1 DEF JobFields
  <2>3. old.n = 1
    BY <1>1, <2>1 DEF JobSound
  <2> HIDE DEF new
  <2>4. JobMeans(p, new)
    BY <1>1, <2>2, <2>3 DEF JobMeans
  <2> QED
    BY <2>1, <2>2, <2>4, DirMeansSame
<1>3. CASE Stage(j, p)
  <2>1. old.at = "stage" /\ UNCHANGED dir
    BY <1>3 DEF Stage
  <2>2. CASE jobs' = To(j, "failed")
    <3> DEFINE new == [old EXCEPT !.at = "failed"]
    <3>1. jobs' = [jobs EXCEPT ![j] = new]
      BY <2>2 DEF To
    <3>2. new.key = old.key /\ new.call = old.call /\ new.kernel = old.kernel /\ new.at = "failed"
      BY <1>1 DEF JobFields
    <3> HIDE DEF new
    <3>3. JobMeans(p, new)
      BY <1>1, <3>2 DEF JobMeans
    <3> QED
      BY <2>1, <3>1, <3>2, <3>3, DirMeansSame
  <2>3. CASE jobs' # To(j, "failed")
    <3> PICK m : m = IF old.n = 1 THEN Meaning(p, old.call.fn) ELSE old.meaning
      OBVIOUS
    <3> DEFINE new == [old EXCEPT !.meaning = m, !.at = "put"]
    <3>1. jobs' = [jobs EXCEPT ![j] = new]
      BY <1>3, <2>3 DEF Stage
    <3>2. new.key = old.key /\ new.call = old.call /\ new.kernel = old.kernel /\ new.at = "put" /\ new.meaning = m
      BY <1>1 DEF JobFields
    <3> HIDE DEF new
    <3>3. m = Made(p, old.call.fn)
      BY <1>1, <2>1, MeaningMade DEF JobMeans
    <3>4. JobMeans(p, new)
      BY <1>1, <3>2, <3>3 DEF JobMeans
    <3> QED
      BY <2>1, <3>1, <3>2, <3>4, DirMeansSame
  <2> QED
    BY <2>2, <2>3
<1>4. CASE Put(j)
  <2> DEFINE new == [old EXCEPT !.at = "rename"]
  <2>1. jobs' = [jobs EXCEPT ![j] = new] /\ UNCHANGED dir /\ old.at = "put"
    BY <1>4 DEF Put, To
  <2>2. /\ new.key = old.key /\ new.call = old.call /\ new.kernel = old.kernel /\ new.at = "rename"
        /\ new.meaning = old.meaning
    BY <1>1 DEF JobFields
  <2> HIDE DEF new
  <2>3. JobMeans(p, new)
    BY <1>1, <2>1, <2>2 DEF JobMeans
  <2> QED
    BY <2>1, <2>2, <2>3, DirMeansSame
<1>5. CASE Rename(j)
  <2> PICK k : k = old.key
    OBVIOUS
  <2> PICK file : file = Puts[old.n]
    OBVIOUS
  <2> DEFINE new == [old EXCEPT !.group = @ \cup {file}, !.n = @ + 1,
                                !.at = IF old.n = Len(Puts) THEN "group" ELSE "stage"]
             d == [Directory(k) EXCEPT !.files = Bind(@, file, old.meaning)]
  <2>1. jobs' = [jobs EXCEPT ![j] = new] /\ dir' = SetDir(dir, k, d) /\ old.at = "rename"
    BY <1>5 DEF Rename, SetFile
  <2>2. /\ new.key = old.key /\ new.call = old.call /\ new.kernel = old.kernel /\ new.at \in {"group", "stage"}
        /\ new.meaning = old.meaning
    BY <1>1 DEF JobFields
  <2>3. Sound(Directory(k))
    BY <1>1, DirectorySound
  <2>4. d.files = Bind(Directory(k).files, file, old.meaning)
    BY <2>3 DEF Sound
  <2> HIDE DEF new, d
  <2>5. old.meaning = Made(p, old.call.fn) /\ k[1][2] = old.call.fn /\ KeyOf(p, k[1])
    BY <1>1, <2>1 DEF JobMeans
  <2>6. JobMeans(p, new)
    BY <1>1, <2>2, <2>5 DEF JobMeans
  <2>7. FilesMean(k, d.files)
    <3> SUFFICES ASSUME NEW x \in DOMAIN d.files, NEW q \in Processes, KeyOf(q, k[1])
                 PROVE  d.files[x] = Made(q, k[1][2])
      BY DEF FilesMean
    <3>1. x \in DOMAIN Directory(k).files \cup {file} /\ d.files[x] = IF x = file THEN old.meaning ELSE Directory(k).files[x]
      BY <2>4 DEF Bind
    <3>2. Made(p, k[1][2]) = Made(q, k[1][2])
      BY <1>1, <2>5, SameKeySameKernel
    <3>3. x \in DOMAIN Directory(k).files => Directory(k).files[x] = Made(q, k[1][2])
      BY DirectoryMeans DEF FilesMean
    <3> QED
      BY <2>5, <3>1, <3>2, <3>3
  <2>8. DirMeans'
    BY <2>1, <2>7, DirectorySet
  <2> QED
    BY <2>1, <2>2, <2>6, <2>8
<1>6. CASE PutGroup(j)
  <2> PICK k : k = old.key
    OBVIOUS
  <2> DEFINE new == [old EXCEPT !.at = "load"]
             d == [Directory(k) EXCEPT !.group = old.group]
  <2>1. jobs' = [jobs EXCEPT ![j] = new] /\ dir' = SetDir(dir, k, d)
    BY <1>6 DEF PutGroup, To
  <2>2. new.key = old.key /\ new.call = old.call /\ new.kernel = old.kernel /\ new.at = "load"
    BY <1>1 DEF JobFields
  <2>3. Sound(Directory(k))
    BY <1>1, DirectorySound
  <2>4. d.files = Directory(k).files
    BY <2>3 DEF Sound
  <2> HIDE DEF new, d
  <2>5. JobMeans(p, new)
    BY <1>1, <2>2 DEF JobMeans
  <2>6. FilesMean(k, d.files)
    BY <2>4, DirectoryMeans
  <2>7. DirMeans'
    BY <2>1, <2>6, DirectorySet
  <2> QED
    BY <2>1, <2>2, <2>5, <2>7
<1>7. CASE Load(j)
  <2> PICK d : d = Directory(old.key)
    OBVIOUS
  <2> PICK m : m = Read(d, old.group)
    OBVIOUS
  <2> DEFINE new == [old EXCEPT !.kernel = m, !.at = "done"]
  <2>1. jobs' = [jobs EXCEPT ![j] = new] /\ UNCHANGED dir /\ old.at = "load"
    BY <1>7 DEF Load
  <2>2. new.key = old.key /\ new.call = old.call /\ new.kernel = m /\ new.at = "done"
    BY <1>1 DEF JobFields
  <2>3. old.group = Listed /\ Listed \subseteq DOMAIN d.files /\ \A f \in DOMAIN d.files : Complete(d.files[f])
    BY <1>1, <2>1, DirectorySound DEF JobSound, Making, Sound
  <2>4. m = d.files[Binary] /\ Binary \in DOMAIN d.files
    BY <2>3, OutputFacts, CompleteOrNot DEF Read
  <2>5. FilesMean(old.key, d.files)
    BY DirectoryMeans
  <2>6. m = Made(p, old.call.fn)
    BY <1>1, <2>4, <2>5 DEF FilesMean, JobMeans
  <2> HIDE DEF new
  <2>7. JobMeans(p, new)
    BY <1>1, <2>2, <2>6 DEF JobMeans
  <2> QED
    BY <2>1, <2>2, <2>7, DirMeansSame
<1> QED
  BY <1>2, <1>3, <1>4, <1>5, <1>6, <1>7 DEF JobStep

(*------------------------------ the threads ------------------------------*)

LEMMA ThreadMeans ==
  ASSUME ModeInv, RunsMean, UNCHANGED setup, NEW t \in Threads, NEW r, SetRun(t, r), RunMeans(t, r)',
         \A j \in DOMAIN jobs : j[1] # t => j \in DOMAIN jobs' /\ jobs'[j].call = jobs[j].call
  PROVE  RunsMean'
<1>1. run'[t] = r /\ \A u \in Threads : u # t => run'[u] = run[u]
  BY RunFacts, SetRunFacts
<1>2. ASSUME NEW u \in Threads, u # t PROVE RunMeans(u, run[u])'
  <2>1. RunMeans(u, run[u]) /\ RunSound(u, run[u])
    BY RunFacts DEF RunsMean
  <2>2. \A i : Job(u, i) \in DOMAIN jobs => jobs'[Job(u, i)].call = jobs[Job(u, i)].call
    BY <1>2 DEF Job
  <2> PICK x : x = run[u]
    OBVIOUS
  <2>3. \A i \in DOMAIN x.futures : jobs'[Job(u, i)].call = jobs[Job(u, i)].call
    BY <2>1, <2>2 DEF RunSound
  <2>4. x.at = "compile" => jobs'[Job(u, 0)].call = jobs[Job(u, 0)].call
    BY <2>1, <2>2 DEF RunSound
  <2>5. RunMeans(u, x)'
    BY <2>1, <2>3, <2>4, KeyStays, KeyDefsStay DEF RunMeans, FutureFor
  <2>6. run'[u] = x
    BY <1>1, <1>2
  <2> QED
    BY <2>5, <2>6 DEF RunMeans, FutureFor
<1>3. RunMeans(t, run[t])'
  BY <1>1 DEF RunMeans, FutureFor
<1> QED
  BY <1>2, <1>3, KeyDefsStay DEF RunsMean

LEMMA RunMeansStays ==
  ASSUME UNCHANGED <<setup, jobs>>, NEW t, NEW r, RunMeans(t, r)
  PROVE  RunMeans(t, r)'
BY KeyStays, KeyDefsStay DEF RunMeans, FutureFor

LEMMA KernelsMeanSame == ASSUME KernelsMean, UNCHANGED <<setup, kernels>> PROVE KernelsMean'
BY KeyStays, KeyDefsStay DEF KernelsMean

LEMMA JobsMeanSame == ASSUME JobsMean, UNCHANGED <<setup, jobs>> PROVE JobsMean'
BY MeansDefsStay, KeyDefsStay DEF JobsMean

LEMMA RememberMeans ==
  ASSUME SetupInv, KernelsMean, UNCHANGED setup,
         NEW t \in Threads, NEW c, NEW k, k = Made(Proc(t), c.fn), Remember(t, c, k)
  PROVE  KernelsMean'
<1>1. ASSUME NEW p \in Processes, NEW d \in DOMAIN kernels'[p] PROVE kernels'[p][d] = Made(p, d.fn)
  <2>1. CASE p = Proc(t)
    <3>1. kernels'[p] = Bind(kernels[p], c, k)
      BY <2>1 DEF Remember, SetupInv
    <3>2. d \in DOMAIN kernels[p] \cup {c} /\ kernels'[p][d] = IF d = c THEN k ELSE kernels[p][d]
      BY <1>1, <3>1 DEF Bind
    <3> QED
      BY <2>1, <3>2 DEF KernelsMean
  <2>2. CASE p # Proc(t)
    BY <1>1, <2>2 DEF Remember, SetupInv, KernelsMean
  <2> QED
    BY <2>1, <2>2
<1> QED
  BY <1>1, KeyStays, KeyDefsStay DEF KernelsMean

LEMMA QuietMeans ==
  ASSUME ModeInv, Means, UNCHANGED <<setup, jobs, dir>>, NEW t \in Threads, NEW r, SetRun(t, r), RunMeans(t, r),
         KernelsMean'
  PROVE  Means'
BY RunMeansStays, ThreadMeans, DirMeansSame, JobsMeanSame DEF Means

LEMMA OtherMeans ==
  ASSUME NEW t, NEW r, RunMeans(t, r), NEW q, q.futures = r.futures \/ q.futures = << >>,
         q.at \notin {"compile", "check", "await", "launch"}
  PROVE  RunMeans(t, q)
<1>1. CASE q.futures = r.futures
  BY <1>1 DEF RunMeans
<1>2. CASE q.futures = << >>
  <2>1. DOMAIN q.futures = {}
    BY <1>2
  <2> QED
    BY <2>1 DEF RunMeans
<1> QED
  BY <1>1, <1>2

(* The facts about a thread that holds jobs and kernels.                    *)
LEMMA HoldsFacts ==
  ASSUME ModeInv, Means, NEW t \in Threads
  PROVE  /\ RunMeans(t, run[t]) /\ RunSound(t, run[t]) /\ DOMAIN run[t] = RunFields
         /\ Next1(run[t]).at = "ready" /\ Raise(t, run[t]).at = "ready"
         /\ RunMeans(t, Next1(run[t])) /\ RunMeans(t, Raise(t, run[t]))
         /\ Same(run[t], Next1(run[t]))
         /\ SetupInv /\ JobsMean /\ KernelsMean
         /\ Proc(t) \in Processes
         /\ \A i \in DOMAIN run[t].futures : i # 0 /\ Job(t, i) \in DOMAIN jobs
<1>1. RunMeans(t, run[t]) /\ RunSound(t, run[t]) /\ DOMAIN run[t] = RunFields /\ SetupInv /\ JobsMean /\ KernelsMean
      /\ Proc(t) \in Processes
  BY RunFacts, ThreadHasProcess DEF Means, RunsMean
<1>2. /\ Same(run[t], Next1(run[t])) /\ Next1(run[t]).at = "ready"
      /\ Same(run[t], Raise(t, run[t])) /\ Raise(t, run[t]).at = "ready"
  BY <1>1, NextSame, RaiseSame
<1>3. RunMeans(t, Next1(run[t])) /\ RunMeans(t, Raise(t, run[t]))
  BY <1>1, <1>2, OtherMeans DEF Same
<1>4. \A i \in DOMAIN run[t].futures : i # 0 /\ Job(t, i) \in DOMAIN jobs
  BY <1>1, RunFacts DEF RunSound
<1> QED
  BY <1>1, <1>2, <1>3, <1>4

(* A future that has been compiled enters the kernel cache as what it is.   *)
LEMMA FinalizeMeans ==
  ASSUME ModeInv, Means, UNCHANGED setup, NEW t \in Threads, NEW i \in DOMAIN run[t].futures,
         Finished(Job(t, i)), jobs[Job(t, i)].at # "failed"
  PROVE  /\ jobs[Job(t, i)].kernel = Made(Proc(t), run[t].futures[i].call.fn)
         /\ Finalize(t, i) => KernelsMean'
<1>1. jobs[Job(t, i)].call = run[t].futures[i].call
  BY HoldsFacts DEF RunMeans
<1>2. jobs[Job(t, i)].kernel = Made(Proc(t), run[t].futures[i].call.fn)
  BY <1>1, HoldsFacts, DoneMeans
<1>3. Finalize(t, i) => KernelsMean'
  BY <1>2, HoldsFacts, RememberMeans DEF Finalize
<1> QED
  BY <1>2, <1>3

LEMMA EnterMeans ==
  ASSUME ModeInv, Means, UNCHANGED setup, NEW t \in Threads, EnterMode(t)
  PROVE  Means'
<1>1. DOMAIN run[t] = RunFields /\ RunMeans(t, run[t]) /\ run[t].at = "ready"
  BY HoldsFacts DEF EnterMode, Doing
<1>2. UNCHANGED <<setup, jobs, dir>> /\ KernelsMean'
  BY KernelsMeanSame DEF EnterMode, cacheVars, Means
<1>3. CASE run[t].active
  <2> DEFINE r == [run[t] EXCEPT !.pc = ExitOf(t) + 1, !.active = ~ Now(t).batch]
  <2>1. SetRun(t, r)
    BY <1>3 DEF EnterMode
  <2>2. r.futures = run[t].futures /\ r.at = "ready"
    BY <1>1 DEF RunFields
  <2> HIDE DEF r
  <2> QED
    BY <1>1, <1>2, <2>1, <2>2, OtherMeans, QuietMeans
<1>4. CASE ~ run[t].active
  <2> DEFINE r == [run[t] EXCEPT !.pc = @ + 1, !.active = TRUE, !.open = TRUE,
                                 !.futures = << >>, !.handled = {}, !.got = << >>, !.tuned = {}]
  <2>1. SetRun(t, r)
    BY <1>4 DEF EnterMode
  <2>2. r.futures = << >> /\ r.at = "ready"
    BY <1>1 DEF RunFields
  <2> HIDE DEF r
  <2> QED
    BY <1>1, <1>2, <2>1, <2>2, OtherMeans, QuietMeans
<1> QED
  BY <1>3, <1>4

LEMMA ExitOneMeans ==
  ASSUME ModeInv, Means, UNCHANGED setup, NEW t \in Threads, ExitOne(t)
  PROVE  Means'
<1>1. DOMAIN run[t] = RunFields /\ RunMeans(t, run[t]) /\ run[t].at = "ready" /\ UNCHANGED <<setup, jobs, dir>>
  BY HoldsFacts DEF ExitOne, Doing, cacheVars
<1>2. PICK i \in DOMAIN run[t].futures :
        /\ Finished(Job(t, i))
        /\ IF jobs[Job(t, i)].at = "failed"
             THEN /\ SetRun(t, [run[t] EXCEPT !.at = "shutdown", !.raised = TRUE])
                  /\ UNCHANGED kernels
             ELSE /\ SetRun(t, [run[t] EXCEPT !.handled = @ \cup {i}])
                  /\ Finalize(t, i)
  BY DEF ExitOne
<1>3. CASE jobs[Job(t, i)].at = "failed"
  <2> DEFINE r == [run[t] EXCEPT !.at = "shutdown", !.raised = TRUE]
  <2>1. SetRun(t, r) /\ UNCHANGED kernels
    BY <1>2, <1>3
  <2>2. r.futures = run[t].futures /\ r.at = "shutdown"
    BY <1>1 DEF RunFields
  <2> HIDE DEF r
  <2>3. KernelsMean'
    BY <2>1, KernelsMeanSame DEF Means
  <2> QED
    BY <1>1, <2>1, <2>2, <2>3, OtherMeans, QuietMeans
<1>4. CASE jobs[Job(t, i)].at # "failed"
  <2> DEFINE r == [run[t] EXCEPT !.handled = @ \cup {i}]
  <2>1. SetRun(t, r) /\ Finalize(t, i)
    BY <1>2, <1>4
  <2>2. r.futures = run[t].futures /\ r.at = "ready"
    BY <1>1 DEF RunFields
  <2> HIDE DEF r
  <2>3. KernelsMean'
    BY <1>2, <1>4, <2>1, FinalizeMeans
  <2> QED
    BY <1>1, <2>1, <2>2, <2>3, OtherMeans, QuietMeans
<1> QED
  BY <1>3, <1>4

LEMMA ExitModeMeans ==
  ASSUME ModeInv, Means, UNCHANGED setup, NEW t \in Threads, ExitMode(t)
  PROVE  Means'
<1> DEFINE r == [run[t] EXCEPT !.at = "shutdown", !.active = FALSE]
<1>1. DOMAIN run[t] = RunFields /\ RunMeans(t, run[t]) /\ UNCHANGED <<setup, jobs, dir>> /\ KernelsMean'
  BY HoldsFacts, KernelsMeanSame DEF ExitMode, cacheVars
<1>2. SetRun(t, r)
  BY DEF ExitMode
<1>3. r.futures = run[t].futures /\ r.at = "shutdown"
  BY <1>1 DEF RunFields
<1> HIDE DEF r
<1> QED
  BY <1>1, <1>2, <1>3, OtherMeans, QuietMeans

(* The jobs that are left are what they were.                               *)
LEMMA JobsRemovedMean ==
  ASSUME JobsMean, UNCHANGED setup, NEW S, S \subseteq DOMAIN jobs, jobs' = [j \in S |-> jobs[j]]
  PROVE  JobsMean'
BY MeansDefsStay, KeyDefsStay DEF JobsMean

LEMMA ShutdownMeans ==
  ASSUME ModeInv, Means, UNCHANGED setup, NEW t \in Threads, Shutdown(t)
  PROVE  Means'
<1>1. /\ Same(run[t], Next1(run[t])) /\ Next1(run[t]).at = "ready" /\ RunMeans(t, run[t])
      /\ \A i \in DOMAIN run[t].futures : i # 0 /\ Job(t, i) \in DOMAIN jobs
  BY HoldsFacts
<1>2. PICK r : /\ SetRun(t, r) /\ r.at = "ready"
               /\ r.futures = IF LeftActive(t) THEN run[t].futures ELSE << >>
  <2> DEFINE r == [Next1(run[t]) EXCEPT !.open = FALSE, !.raised = FALSE, !.active = LeftActive(t),
                                        !.futures = IF LeftActive(t) THEN @ ELSE << >>,
                                        !.handled = {}, !.got = << >>]
  <2>1. SetRun(t, r)
    BY DEF Shutdown
  <2>2. r.at = "ready" /\ r.futures = IF LeftActive(t) THEN run[t].futures ELSE << >>
    BY <1>1 DEF Same, RunFields
  <2> HIDE DEF r
  <2> QED
    BY <2>1, <2>2
<1>3. UNCHANGED dir /\ UNCHANGED kernels
  BY DEF Shutdown
<1>4. CASE LeftActive(t)
  <2>1. UNCHANGED jobs /\ r.futures = run[t].futures
    BY <1>2, <1>4 DEF Shutdown
  <2>2. KernelsMean'
    BY <1>3, KernelsMeanSame DEF Means
  <2> QED
    BY <1>1, <1>2, <1>3, <2>1, <2>2, OtherMeans, QuietMeans
<1>5. CASE ~ LeftActive(t)
  <2>1. jobs' = [j \in DOMAIN jobs \ JobsOf(t) |-> jobs[j]] /\ r.futures = << >>
    BY <1>2, <1>5 DEF Shutdown
  <2>2. JobsMean'
    BY <2>1, JobsRemovedMean DEF Means
  <2>3. \A j \in DOMAIN jobs : j[1] # t => j \in DOMAIN jobs' /\ jobs'[j].call = jobs[j].call
    BY <2>1 DEF JobsOf, Job
  <2>4. DOMAIN r.futures = {}
    BY <2>1
  <2>5. RunMeans(t, r)'
    BY <1>2, <2>4 DEF RunMeans
  <2>6. RunsMean'
    BY <1>2, <2>3, <2>5, ThreadMeans DEF Means
  <2> QED
    BY <1>3, <2>2, <2>6, DirMeansSame, KernelsMeanSame DEF Means
<1> QED
  BY <1>4, <1>5

LEMMA GoOnMeans ==
  ASSUME ModeInv, Means, UNCHANGED setup, NEW t \in Threads, LaunchKernel(t) \/ SkipBench(t)
  PROVE  Means'
<1>1. SetRun(t, Next1(run[t])) /\ UNCHANGED <<jobs, dir, kernels>>
  BY DEF LaunchKernel, SkipBench, cacheVars
<1>2. RunMeans(t, Next1(run[t])) /\ KernelsMean'
  BY <1>1, HoldsFacts, KernelsMeanSame
<1> QED
  BY <1>1, <1>2, QuietMeans

LEMMA StartMeans ==
  ASSUME ModeInv, Means, UNCHANGED setup, NEW t \in Threads, StartRun(t)
  PROVE  Means'
<1>1. /\ DOMAIN run[t] = RunFields /\ RunMeans(t, run[t]) /\ UNCHANGED <<setup, jobs, dir>> /\ KernelsMean'
      /\ KernelsMean /\ Proc(t) \in Processes
  BY HoldsFacts, KernelsMeanSame DEF StartRun, cacheVars
<1>2. CASE CallOf(t) \in DOMAIN kernels[Proc(t)]
  <2> PICK k : k = kernels[Proc(t)][CallOf(t)]
    OBVIOUS
  <2> DEFINE r == [run[t] EXCEPT !.at = "check", !.kernel = k]
  <2>1. SetRun(t, r)
    BY <1>2 DEF StartRun
  <2>2. r.at = "check" /\ r.kernel = k /\ r.pc = run[t].pc /\ r.futures = run[t].futures
    BY <1>1 DEF RunFields
  <2> HIDE DEF r
  <2>3. k = Made(Proc(t), Script(t)[run[t].pc].call.fn)
    BY <1>1, <1>2 DEF KernelsMean, CallOf, Now
  <2>4. RunMeans(t, r)
    BY <1>1, <2>2, <2>3 DEF RunMeans
  <2> QED
    BY <1>1, <2>1, <2>4, QuietMeans
<1>3. CASE CallOf(t) \notin DOMAIN kernels[Proc(t)]
  <2> DEFINE r == [run[t] EXCEPT !.at = "key"]
  <2>1. SetRun(t, r)
    BY <1>3 DEF StartRun
  <2>2. r.at = "key" /\ r.futures = run[t].futures
    BY <1>1 DEF RunFields
  <2> HIDE DEF r
  <2> QED
    BY <1>1, <2>1, <2>2, OtherMeans, QuietMeans
<1> QED
  BY <1>2, <1>3

(* A job that begins is to make what its thread asked for.                  *)
LEMMA NewJobMeans ==
  ASSUME KeysInv, Fixed, JobsMean, UNCHANGED setup, NEW t \in Threads, HasKey(t), NEW i,
         NEW new, new.call = CallOf(t), new.key = CompileKey(t), new.kernel = NoMeaning, new.n = 1,
         new.at \in {"queued", "lookup"}, jobs' = Bind(jobs, Job(t, i), new)
  PROVE  /\ JobsMean'
         /\ jobs'[Job(t, i)] = new /\ \A j \in DOMAIN jobs : j # Job(t, i) => j \in DOMAIN jobs' /\ jobs'[j] = jobs[j]
<1>1. KeyOf(Proc(t), key[t]) /\ key[t][2] = CallOf(t).fn
  BY HasKeyFacts
<1>3. new.key[1] = key[t]
  BY DEF CompileKey
<1>4. JobMeans(Proc(t), new)
  BY <1>1, <1>3 DEF JobMeans
<1>5. /\ DOMAIN jobs' = DOMAIN jobs \cup {Job(t, i)} /\ jobs'[Job(t, i)] = new
      /\ \A j \in DOMAIN jobs : j # Job(t, i) => jobs'[j] = jobs[j]
  BY DEF Bind
<1>6. Job(t, i)[1] = t
  BY DEF Job
<1>7. JobsMean'
  BY <1>4, <1>5, <1>6, MeansDefsStay, KeyDefsStay DEF JobsMean
<1> QED
  BY <1>5, <1>7

LEMMA CompileNowMeans ==
  ASSUME ModeInv, KeysInv, Fixed, Means, UNCHANGED setup, NEW t \in Threads, CompileNow(t)
  PROVE  Means'
<1> DEFINE q == [run[t] EXCEPT !.at = "compile"]
           new == [NewJob(CallOf(t), CompileKey(t)) EXCEPT !.at = "lookup"]
<1>1. /\ DOMAIN run[t] = RunFields /\ RunMeans(t, run[t]) /\ JobsMean
      /\ \A i \in DOMAIN run[t].futures : i # 0 /\ Job(t, i) \in DOMAIN jobs
  BY HoldsFacts
<1>2. SetRun(t, q) /\ jobs' = Bind(jobs, Job(t, 0), new) /\ HasKey(t) /\ UNCHANGED <<dir, kernels>>
  BY DEF CompileNow
<1>3. q.at = "compile" /\ q.pc = run[t].pc /\ q.futures = run[t].futures
  BY <1>1 DEF RunFields
<1>10. /\ new.call = CallOf(t) /\ new.key = CompileKey(t) /\ new.kernel = NoMeaning /\ new.n = 1
       /\ new.at = "lookup"
  BY DEF NewJob
<1> HIDE DEF q, new
<1>4. /\ JobsMean' /\ new.call = CallOf(t) /\ jobs'[Job(t, 0)] = new
      /\ \A j \in DOMAIN jobs : j # Job(t, 0) => j \in DOMAIN jobs' /\ jobs'[j] = jobs[j]
  BY <1>1, <1>2, <1>10, NewJobMeans
<1> PICK r : r = q
  OBVIOUS
<1>5. \A i \in DOMAIN r.futures : jobs'[Job(t, i)] = jobs[Job(t, i)]
  BY <1>1, <1>3, <1>4 DEF Job
<1>6. jobs'[Job(t, 0)].call = Script(t)[r.pc].call
  BY <1>3, <1>4 DEF CallOf, Now
<1>7. RunMeans(t, r)'
  BY <1>1, <1>3, <1>5, <1>6, KeyDefsStay DEF RunMeans
<1>8. \A j \in DOMAIN jobs : j[1] # t => j \in DOMAIN jobs' /\ jobs'[j].call = jobs[j].call
  BY <1>4 DEF Job
<1>9. RunsMean'
  BY <1>2, <1>7, <1>8, ThreadMeans DEF Means
<1> QED
  BY <1>2, <1>4, <1>9, DirMeansSame, KernelsMeanSame DEF Means

LEMMA AppendIs ==
  ASSUME NEW s, IsSeq(s), NEW x
  PROVE  /\ DOMAIN Append(s, x) = DOMAIN s \cup {Len(s) + 1} /\ Append(s, x)[Len(s) + 1] = x
         /\ \A i \in DOMAIN s : Append(s, x)[i] = s[i] /\ i # Len(s) + 1
<1> DEFINE T == {s[i] : i \in DOMAIN s} \cup {x}
<1>1. s \in Seq(T)
  BY DEF IsSeq
<1>2. Append(s, x)[Len(s) + 1] = x /\ \A i \in DOMAIN s : i # Len(s) + 1
  <2> HIDE DEF T
  <2>1. x \in T
    BY DEF T
  <2> QED
    BY <1>1, <2>1
<1> QED
  BY <1>2, AppendSeq, AppendKeeps

LEMMA SubmitMeans ==
  ASSUME ModeInv, KeysInv, Fixed, Means, UNCHANGED setup, NEW t \in Threads, Submit(t)
  PROVE  Means'
<1>1. /\ DOMAIN run[t] = RunFields /\ RunMeans(t, run[t]) /\ JobsMean /\ RunSound(t, run[t])
      /\ RunMeans(t, Raise(t, run[t]))
      /\ \A i \in DOMAIN run[t].futures : i # 0 /\ Job(t, i) \in DOMAIN jobs
  BY HoldsFacts
<1>2. HasKey(t) /\ UNCHANGED <<dir, kernels>>
  BY DEF Submit
<1>3. DirMeans' /\ KernelsMean'
  BY <1>2, DirMeansSame, KernelsMeanSame DEF Means
<1>4. key[t][2] = CallOf(t).fn /\ CompileKey(t)[1] = key[t]
  BY <1>2, HasKeyFacts DEF CompileKey
<1>5. CASE UNCHANGED jobs /\ \E i \in WithKey(t) : SetRun(t, [run[t] EXCEPT !.at = "check", !.kernel = Future(i)])
  <2>1. PICK i \in DOMAIN run[t].futures : /\ SetRun(t, [run[t] EXCEPT !.at = "check", !.kernel = Future(i)])
                                           /\ run[t].futures[i].key = CompileKey(t)
    BY <1>5 DEF WithKey
  <2> DEFINE r == [run[t] EXCEPT !.at = "check", !.kernel = Future(i)]
  <2>2. SetRun(t, r)
    BY <2>1
  <2>3. r.at = "check" /\ r.kernel = Future(i) /\ r.pc = run[t].pc /\ r.futures = run[t].futures
    BY <1>1 DEF RunFields
  <2> HIDE DEF r
  <2>4. run[t].futures[i].call.fn = Script(t)[run[t].pc].call.fn
    BY <1>1, <1>4, <2>1 DEF RunMeans, CallOf, Now
  <2>5. FutureFor(r, r.kernel, Script(t)[r.pc].call.fn)
    BY <2>3, <2>4 DEF FutureFor
  <2>6. RunMeans(t, r)
    BY <1>1, <2>3, <2>5 DEF RunMeans
  <2> QED
    BY <1>2, <1>3, <1>5, <2>2, <2>6, QuietMeans
<1>6. CASE UNCHANGED jobs /\ SetRun(t, Raise(t, run[t]))
  BY <1>1, <1>2, <1>3, <1>6, QuietMeans
<1>7. CASE \E i \in {Len(run[t].futures) + 1} :
             /\ SetRun(t, [run[t] EXCEPT !.at = "check", !.kernel = Future(i),
                  !.futures = Append(@, [key |-> CompileKey(t), call |-> CallOf(t)])])
             /\ jobs' = Bind(jobs, Job(t, i), NewJob(CallOf(t), CompileKey(t)))
  <2> PICK f : f = [key |-> CompileKey(t), call |-> CallOf(t)]
    OBVIOUS
  <2> DEFINE i == Len(run[t].futures) + 1
             more == Append(run[t].futures, f)
             q == [run[t] EXCEPT !.at = "check", !.kernel = Future(i), !.futures = more]
             new == NewJob(CallOf(t), CompileKey(t))
  <2>1. SetRun(t, q) /\ jobs' = Bind(jobs, Job(t, i), new)
    BY <1>7
  <2>2. /\ DOMAIN more = DOMAIN run[t].futures \cup {i} /\ more[i] = f
        /\ \A k \in DOMAIN run[t].futures : more[k] = run[t].futures[k] /\ k # i
    <3>1. IsSeq(run[t].futures)
      BY <1>1 DEF RunSound
    <3> QED
      BY <3>1, AppendIs
  <2>12. /\ new.call = CallOf(t) /\ new.key = CompileKey(t) /\ new.kernel = NoMeaning /\ new.n = 1
         /\ new.at = "queued"
    BY DEF NewJob
  <2>3. q.at = "check" /\ q.kernel = Future(i) /\ q.futures = more /\ q.pc = run[t].pc
    BY <1>1 DEF RunFields
  <2>4. /\ JobsMean' /\ new.call = CallOf(t) /\ jobs'[Job(t, i)] = new
        /\ \A j \in DOMAIN jobs : j # Job(t, i) => j \in DOMAIN jobs' /\ jobs'[j] = jobs[j]
    <3> HIDE DEF i, q, new
    <3> QED
      BY <1>1, <1>2, <2>1, <2>12, NewJobMeans
  <2> HIDE DEF q, more, i, new
  <2>5. f.key[1][2] = f.call.fn /\ f.call = CallOf(t)
    BY <1>4
  <2> PICK r : r = q
    OBVIOUS
  <2>6. \A k \in DOMAIN run[t].futures : jobs'[Job(t, k)] = jobs[Job(t, k)]
    BY <1>1, <2>2, <2>4 DEF Job
  <2>7. \A k \in DOMAIN r.futures :
          r.futures[k].key[1][2] = r.futures[k].call.fn /\ jobs'[Job(t, k)].call = r.futures[k].call
    BY <1>1, <2>2, <2>3, <2>4, <2>5, <2>6 DEF RunMeans
  <2>8. FutureFor(r, r.kernel, Script(t)[r.pc].call.fn)
    BY <2>2, <2>3, <2>5 DEF FutureFor, CallOf, Now
  <2>9. RunMeans(t, r)'
    BY <2>3, <2>7, <2>8, KeyDefsStay DEF RunMeans, FutureFor
  <2>10. \A j \in DOMAIN jobs : j[1] # t => j \in DOMAIN jobs' /\ jobs'[j].call = jobs[j].call
    BY <2>4 DEF Job
  <2>11. RunsMean'
    BY <2>1, <2>9, <2>10, ThreadMeans DEF Means
  <2> QED
    BY <1>3, <2>4, <2>11 DEF Means
<1> QED
  BY <1>5, <1>6, <1>7 DEF Submit

LEMMA CompiledMeans ==
  ASSUME ModeInv, Means, UNCHANGED setup, NEW t \in Threads, Compiled(t)
  PROVE  Means'
<1>1. /\ DOMAIN run[t] = RunFields /\ RunMeans(t, run[t]) /\ JobsMean /\ RunSound(t, run[t])
      /\ RunMeans(t, Raise(t, run[t])) /\ Raise(t, run[t]).at = "ready"
      /\ \A i \in DOMAIN run[t].futures : i # 0 /\ Job(t, i) \in DOMAIN jobs
      /\ SetupInv /\ KernelsMean
  BY HoldsFacts
<1>2. /\ jobs' = [j \in DOMAIN jobs \ {Job(t, 0)} |-> jobs[j]] /\ UNCHANGED dir
      /\ run[t].at = "compile" /\ Finished(Job(t, 0)) /\ Job(t, 0) \in DOMAIN jobs
  BY <1>1 DEF Compiled, At, RunSound
<1>3. JobsMean' /\ DirMeans'
  BY <1>2, JobsRemovedMean, DirMeansSame DEF Means
<1>4. \A j \in DOMAIN jobs : j[1] # t => j \in DOMAIN jobs' /\ jobs'[j].call = jobs[j].call
  BY <1>2 DEF Job
<1>5. \A i \in DOMAIN run[t].futures : jobs'[Job(t, i)] = jobs[Job(t, i)]
  BY <1>1, <1>2 DEF Job
<1>6. ASSUME NEW r, SetRun(t, r), r.futures = run[t].futures, r.at \notin {"compile", "await", "launch"},
             r.at = "check" => r.kernel = Made(Proc(t), Script(t)[r.pc].call.fn), KernelsMean'
      PROVE  Means'
  <2>1. RunMeans(t, r)'
    BY <1>1, <1>5, <1>6, KeyStays, KeyDefsStay DEF RunMeans
  <2>2. RunsMean'
    BY <1>4, <1>6, <2>1, ThreadMeans DEF Means
  <2> QED
    BY <1>3, <1>6, <2>2 DEF Means
<1>7. CASE jobs[Job(t, 0)].at = "failed"
  <2>1. SetRun(t, Raise(t, run[t])) /\ UNCHANGED kernels
    BY <1>7 DEF Compiled
  <2>2. Raise(t, run[t]).futures = run[t].futures
    BY <1>1, RaiseSame DEF Same
  <2> PICK r : r = Raise(t, run[t])
    OBVIOUS
  <2>3. SetRun(t, r) /\ r.futures = run[t].futures /\ r.at = "ready"
    BY <1>1, <2>1, <2>2
  <2>4. KernelsMean'
    BY <1>1, <2>1, KernelsMeanSame
  <2> QED
    BY <1>6, <2>3, <2>4
<1>8. CASE jobs[Job(t, 0)].at # "failed"
  <2> PICK k : k = jobs[Job(t, 0)].kernel
    OBVIOUS
  <2> DEFINE q == [run[t] EXCEPT !.at = "check", !.kernel = k]
  <2>1. SetRun(t, q) /\ Remember(t, CallOf(t), k)
    BY <1>8 DEF Compiled
  <2>2. q.at = "check" /\ q.kernel = k /\ q.pc = run[t].pc /\ q.futures = run[t].futures
    BY <1>1 DEF RunFields
  <2> HIDE DEF q
  <2>3. k = Made(Proc(t), CallOf(t).fn)
    BY <1>1, <1>2, <1>8, DoneMeans DEF RunMeans, CallOf, Now
  <2>4. KernelsMean'
    BY <1>1, <2>1, <2>3, RememberMeans
  <2> PICK r : r = q
    OBVIOUS
  <2>5. r.kernel = Made(Proc(t), Script(t)[r.pc].call.fn)
    BY <2>2, <2>3 DEF CallOf, Now
  <2> QED
    BY <1>6, <2>1, <2>2, <2>4, <2>5
<1> QED
  BY <1>7, <1>8

LEMMA CheckMeans ==
  ASSUME ModeInv, Means, UNCHANGED setup, NEW t \in Threads, Check(t)
  PROVE  Means'
<1>1. /\ DOMAIN run[t] = RunFields /\ RunMeans(t, run[t])
      /\ RunMeans(t, Raise(t, run[t])) /\ Same(run[t], Next1(run[t])) /\ Next1(run[t]).at = "ready"
  BY HoldsFacts
<1>2. UNCHANGED <<jobs, dir, kernels>> /\ KernelsMean' /\ run[t].at = "check"
  BY KernelsMeanSame DEF Check, cacheVars, Means, At
<1>3. CASE SetRun(t, Raise(t, run[t]))
  BY <1>1, <1>2, <1>3, QuietMeans
<1>4. CASE SetRun(t, [Next1(run[t]) EXCEPT !.got = Bind(@, CallOf(t), run[t].kernel)])
  <2> DEFINE r == [Next1(run[t]) EXCEPT !.got = Bind(@, CallOf(t), run[t].kernel)]
  <2>1. r.futures = run[t].futures /\ r.at = "ready"
    BY <1>1 DEF Same, RunFields
  <2>2. SetRun(t, r)
    BY <1>4
  <2> HIDE DEF r
  <2> QED
    BY <1>1, <1>2, <2>1, <2>2, OtherMeans, QuietMeans
<1>5. CASE SetRun(t, [run[t] EXCEPT !.at = IF IsFuture(run[t].kernel) THEN "await" ELSE "launch"])
  <2> PICK a : a = IF IsFuture(run[t].kernel) THEN "await" ELSE "launch"
    OBVIOUS
  <2> DEFINE r == [run[t] EXCEPT !.at = a]
  <2>1. r.futures = run[t].futures /\ r.at = a /\ r.pc = run[t].pc /\ r.kernel = run[t].kernel
    BY <1>1 DEF RunFields
  <2>2. SetRun(t, r)
    BY <1>5
  <2> HIDE DEF r
  <2> PICK f : f = Script(t)[run[t].pc].call.fn
    OBVIOUS
  <2>3. run[t].kernel = Made(Proc(t), f) \/ FutureFor(run[t], run[t].kernel, f)
    BY <1>1, <1>2 DEF RunMeans
  <2>4. CASE IsFuture(run[t].kernel)
    <3>1. FutureFor(run[t], run[t].kernel, f) /\ a = "await"
      BY <2>3, <2>4, MadeComplete
    <3>2. FutureFor(r, r.kernel, f)
      BY <2>1, <3>1 DEF FutureFor
    <3>3. RunMeans(t, r)
      BY <1>1, <2>1, <3>1, <3>2 DEF RunMeans
    <3> QED
      BY <1>2, <2>2, <3>3, QuietMeans
  <2>5. CASE ~ IsFuture(run[t].kernel)
    <3>1. run[t].kernel = Made(Proc(t), f) /\ a = "launch"
      BY <2>3, <2>5 DEF FutureFor, Future, IsFuture
    <3>2. RunMeans(t, r)
      BY <1>1, <2>1, <3>1 DEF RunMeans
    <3> QED
      BY <1>2, <2>2, <3>2, QuietMeans
  <2> QED
    BY <2>4, <2>5
<1> QED
  BY <1>3, <1>4, <1>5 DEF Check

LEMMA AwaitMeans ==
  ASSUME ModeInv, Means, UNCHANGED setup, NEW t \in Threads, Await(t)
  PROVE  Means'
<1> PICK f : f = Script(t)[run[t].pc].call.fn
  OBVIOUS
<1>1. /\ DOMAIN run[t] = RunFields /\ RunMeans(t, run[t]) /\ RunMeans(t, Raise(t, run[t])) /\ run[t].at = "await"
      /\ UNCHANGED <<jobs, dir>>
  BY HoldsFacts DEF Await, At, cacheVars
<1>2. PICK i \in DOMAIN run[t].futures : run[t].kernel = Future(i) /\ run[t].futures[i].call.fn = f
  BY <1>1 DEF RunMeans, FutureFor
<1>3. run[t].kernel[2] = i
  BY <1>2 DEF Future
<1>4. CASE jobs[Job(t, i)].at = "failed"
  <2>1. SetRun(t, Raise(t, run[t])) /\ UNCHANGED kernels
    BY <1>3, <1>4 DEF Await
  <2>2. KernelsMean'
    BY <2>1, KernelsMeanSame DEF Means
  <2> QED
    BY <1>1, <2>1, <2>2, QuietMeans
<1>5. CASE jobs[Job(t, i)].at # "failed"
  <2> PICK k : k = jobs[Job(t, i)].kernel
    OBVIOUS
  <2> DEFINE r == [run[t] EXCEPT !.at = "launch", !.kernel = k]
  <2>1. SetRun(t, r) /\ Finalize(t, i) /\ Finished(Job(t, i))
    BY <1>3, <1>5 DEF Await
  <2>2. r.futures = run[t].futures /\ r.at = "launch" /\ r.pc = run[t].pc /\ r.kernel = k
    BY <1>1 DEF RunFields
  <2> HIDE DEF r
  <2>3. k = Made(Proc(t), f) /\ KernelsMean'
    BY <1>2, <1>5, <2>1, FinalizeMeans
  <2>4. RunMeans(t, r)
    BY <1>1, <2>2, <2>3 DEF RunMeans
  <2> QED
    BY <1>1, <2>1, <2>3, <2>4, QuietMeans
<1> QED
  BY <1>4, <1>5

LEMMA ResultMeans ==
  ASSUME ModeInv, Means, UNCHANGED setup, NEW t \in Threads, TakeResult(t)
  PROVE  Means'
<1> DEFINE c == CallOf(t)
           k == run[t].got[c]
           r == [Next1(run[t]) EXCEPT !.tuned = @ \cup {c}]
<1>1. /\ DOMAIN run[t] = RunFields /\ RunMeans(t, run[t])
      /\ RunMeans(t, Next1(run[t])) /\ RunMeans(t, Raise(t, run[t]))
      /\ Same(run[t], Next1(run[t])) /\ Next1(run[t]).at = "ready" /\ RunSound(t, run[t])
      /\ UNCHANGED <<jobs, dir>> /\ c \in DOMAIN run[t].got
  BY HoldsFacts DEF TakeResult, cacheVars
<1>2. r.futures = run[t].futures /\ r.at = "ready"
  BY <1>1 DEF Same, RunFields
<1>3. RunMeans(t, r)
  <2> HIDE DEF r
  <2> QED
    BY <1>1, <1>2, OtherMeans
<1>4. CASE ~ IsFuture(k)
  <2>1. SetRun(t, r) /\ UNCHANGED kernels
    BY <1>4 DEF TakeResult, CallOf
  <2>2. KernelsMean'
    BY <2>1, KernelsMeanSame DEF Means
  <2> HIDE DEF r
  <2> QED
    BY <1>1, <1>3, <2>1, <2>2, QuietMeans
<1>5. CASE IsFuture(k)
  <2>1. Held(run[t], k)
    BY <1>1 DEF RunSound
  <2>2. PICK i \in DOMAIN run[t].futures : k = Future(i)
    BY <1>5, <2>1, CompleteOrNot DEF Held, FutureOf
  <2>3. k[2] = i
    BY <2>2 DEF Future
  <2>4. /\ Finished(Job(t, i))
        /\ IF jobs[Job(t, i)].at = "failed"
             THEN (SetRun(t, Next1(run[t])) \/ SetRun(t, Raise(t, run[t]))) /\ UNCHANGED kernels
             ELSE SetRun(t, r) /\ Finalize(t, i)
    BY <1>5, <2>3 DEF TakeResult, CallOf
  <2> HIDE DEF r, k
  <2>5. CASE jobs[Job(t, i)].at = "failed"
    <3>1. KernelsMean'
      BY <2>4, <2>5, KernelsMeanSame DEF Means
    <3> QED
      BY <1>1, <2>4, <2>5, <3>1, QuietMeans
  <2>6. CASE jobs[Job(t, i)].at # "failed"
    <3>1. KernelsMean'
      BY <2>4, <2>6, FinalizeMeans
    <3> QED
      BY <1>1, <1>3, <2>4, <2>6, <3>1, QuietMeans
  <2> QED
    BY <2>5, <2>6
<1> QED
  BY <1>4, <1>5

(*-------------------------------- the whole ------------------------------*)

LEMMA CompilingMeans ==
  ASSUME ModeInv, KeysInv, Fixed, Means, NEW j \in DOMAIN jobs, UNCHANGED setup, Compiling(j)
  PROVE  Means'
<1>1. /\ JobsMean' /\ DirMeans'
      /\ DOMAIN jobs' = DOMAIN jobs /\ \A i \in DOMAIN jobs : jobs'[i].call = jobs[i].call
  BY StepMeans DEF Compiling, Means
<1>2. UNCHANGED <<run, kernels>>
  BY DEF Compiling
<1>3. KernelsMean'
  BY <1>2, KernelsMeanSame DEF Means
<1>4. ASSUME NEW u \in Threads PROVE RunMeans(u, run[u])'
  <2> PICK x : x = run[u]
    OBVIOUS
  <2>1. RunMeans(u, x) /\ RunSound(u, x)
    BY HoldsFacts
  <2>2. RunMeans(u, x)'
    BY <1>1, <2>1, KeyStays, KeyDefsStay DEF RunMeans, FutureFor, RunSound
  <2> QED
    BY <1>2, <2>2 DEF RunMeans, FutureFor
<1>5. RunsMean'
  BY <1>4, KeyDefsStay DEF RunsMean
<1> QED
  BY <1>1, <1>3, <1>5 DEF Means

LEMMA TakeJobMeans ==
  ASSUME ModeInv, Means, NEW t, NEW i, Job(t, i) \in DOMAIN jobs, UNCHANGED setup, TakeJob(t, i)
  PROVE  Means'
<1> PICK j : j = Job(t, i)
  OBVIOUS
<1> PICK old : old = jobs[j]
  OBVIOUS
<1> DEFINE new == [old EXCEPT !.at = "lookup"]
<1>1. jobs' = [jobs EXCEPT ![j] = new] /\ UNCHANGED <<dir, kernels, run>> /\ j \in DOMAIN jobs
  BY DEF TakeJob, To
<1>2. JobMeans(Proc(j[1]), old) /\ DOMAIN old = JobFields
  BY <1>1 DEF Means, JobsMean, ModeInv, CompleteInv, JobInv, JobSound
<1>3. new.key = old.key /\ new.call = old.call /\ new.kernel = old.kernel /\ new.at = "lookup"
  BY <1>2 DEF JobFields
<1> HIDE DEF new
<1>4. JobMeans(Proc(j[1]), new)
  BY <1>2, <1>3 DEF JobMeans
<1>5. JobsMean' /\ DirMeans' /\ KernelsMean'
  BY <1>1, <1>4, OneJobMeans, DirMeansSame, KernelsMeanSame DEF Means
<1>6. \A k \in DOMAIN jobs : jobs'[k].call = jobs[k].call
  BY <1>1, <1>3
<1>7. ASSUME NEW u \in Threads PROVE RunMeans(u, run[u])'
  <2> PICK x : x = run[u]
    OBVIOUS
  <2>1. RunMeans(u, x) /\ RunSound(u, x)
    BY HoldsFacts
  <2>2. RunMeans(u, x)'
    BY <1>6, <2>1, KeyStays, KeyDefsStay DEF RunMeans, FutureFor, RunSound
  <2> QED
    BY <1>1, <2>2 DEF RunMeans, FutureFor
<1>8. RunsMean'
  BY <1>7, KeyDefsStay DEF RunsMean
<1> QED
  BY <1>5, <1>8 DEF Means

LEMMA IdleMeans == ASSUME NEW t PROVE RunMeans(t, Idle) /\ RunMeans(t, Idle)'
<1>1. Idle.at = "ready" /\ Idle.futures = << >>
  BY DEF Idle
<1>2. DOMAIN Idle.futures = {}
  BY <1>1
<1> QED
  BY <1>1, <1>2 DEF RunMeans

LEMMA CrashMeans ==
  ASSUME ModeInv, Means, NEW p \in Processes, Crash(p)
  PROVE  Means'
<1>1. /\ UNCHANGED <<setup, dir>>
      /\ jobs' = [j \in {i \in DOMAIN jobs : Proc(i[1]) # p} |-> jobs[j]]
      /\ kernels' = [kernels EXCEPT ![p] = << >>]
      /\ run' = [t \in Threads |-> IF Proc(t) = p THEN Idle ELSE run[t]]
  BY DEF Crash
<1> DEFINE S == {i \in DOMAIN jobs : Proc(i[1]) # p}
<1>2. S \subseteq DOMAIN jobs /\ jobs' = [j \in S |-> jobs[j]]
  BY <1>1
<1>3. JobsMean' /\ DirMeans'
  BY <1>1, <1>2, JobsRemovedMean, DirMeansSame DEF Means
<1>4. KernelsMean'
  <2>1. \A q \in Processes : \A c \in DOMAIN kernels'[q] : kernels'[q][c] = Made(q, c.fn)
    <3> SUFFICES ASSUME NEW q \in Processes, NEW c \in DOMAIN kernels'[q] PROVE kernels'[q][c] = Made(q, c.fn)
      OBVIOUS
    <3>1. DOMAIN kernels = Processes
      BY DEF ModeInv, CompleteInv, SetupInv
    <3>2. CASE q = p
      <4>1. kernels'[q] = << >>
        BY <1>1, <3>1, <3>2
      <4>2. DOMAIN kernels'[q] = {}
        BY <4>1
      <4> QED
        BY <4>2
    <3>3. CASE q # p
      <4>1. kernels'[q] = kernels[q]
        BY <1>1, <3>1, <3>3
      <4> QED
        BY <4>1 DEF Means, KernelsMean
    <3> QED
      BY <3>2, <3>3
  <2> QED
    BY <1>1, <2>1, KeyStays, KeyDefsStay DEF KernelsMean
<1>5. ASSUME NEW u \in Threads PROVE RunMeans(u, run[u])'
  <2>1. CASE Proc(u) = p
    <3>1. run'[u] = Idle
      BY <1>1, <2>1
    <3> QED
      BY <3>1, IdleMeans
  <2>2. CASE Proc(u) # p
    <3> PICK x : x = run[u]
      OBVIOUS
    <3>1. RunMeans(u, x) /\ RunSound(u, x)
      BY HoldsFacts
    <3>2. \A i : Job(u, i) \in DOMAIN jobs => jobs'[Job(u, i)] = jobs[Job(u, i)]
      BY <1>1, <2>2 DEF Job
    <3>3. RunMeans(u, x)'
      BY <1>1, <3>1, <3>2, KeyStays, KeyDefsStay DEF RunMeans, FutureFor, RunSound
    <3>4. run'[u] = x
      BY <1>1, <2>2
    <3> QED
      BY <3>3, <3>4 DEF RunMeans, FutureFor
  <2> QED
    BY <2>1, <2>2
<1>6. RunsMean'
  BY <1>1, <1>5, KeyDefsStay DEF RunsMean
<1> QED
  BY <1>3, <1>4, <1>6 DEF Means

LEMMA MeansInit == Init => MeansInv
<1> SUFFICES ASSUME Init PROVE Means
  BY ModeInit, KeysInit DEF MeansInv
<1>1. JobsMean /\ DirMeans
  BY DEF Init, InitCache, JobsMean, DirMeans
<1>2. KernelsMean
  BY DEF Init, KernelsMean
<1>3. RunsMean
  BY IdleMeans DEF Init, RunsMean
<1> QED
  BY <1>1, <1>2, <1>3 DEF Means

LEMMA MeansNext == MeansInv /\ [Next]_vars => MeansInv'
<1> SUFFICES ASSUME MeansInv, [Next]_vars PROVE MeansInv'
  OBVIOUS
<1>0. ModeInv /\ KeysInv /\ ModeInv' /\ KeysInv'
  BY ModeNext, KeysNext DEF MeansInv
<1>1. UNCHANGED setup
  BY DEF Next, ThreadStep, WorkerStep, Crash, vars
<1> SUFFICES ASSUME Fixed PROVE Means'
  BY <1>0, <1>1, KeyStays DEF MeansInv
<1>2. Means
  BY DEF MeansInv
<1>3. CASE UNCHANGED <<jobs, dir, kernels, run>>
  <2>1. JobsMean' /\ DirMeans' /\ KernelsMean'
    BY <1>1, <1>2, <1>3, JobsMeanSame, DirMeansSame, KernelsMeanSame DEF Means
  <2>2. ASSUME NEW u \in Threads PROVE RunMeans(u, run[u])'
    <3> PICK x : x = run[u]
      OBVIOUS
    <3>1. RunMeans(u, x)'
      BY <1>1, <1>2, <1>3, RunMeansStays DEF Means, RunsMean
    <3> QED
      BY <1>3, <3>1 DEF RunMeans, FutureFor
  <2>3. RunsMean'
    BY <1>1, <2>2, KeyDefsStay DEF RunsMean
  <2> QED
    BY <2>1, <2>3 DEF Means
<1>4. CASE UNCHANGED vars
  BY <1>3, <1>4 DEF vars, cacheVars
<1>5. ASSUME NEW t \in ThreadIds, ThreadStep(t) PROVE Means'
  <2>1. t \in Threads
    BY <1>5 DEF ThreadStep
  <2>2. CASE EnterMode(t) \/ ExitOne(t) \/ ExitMode(t) \/ Shutdown(t)
    BY <1>0, <1>1, <1>2, <2>1, <2>2, EnterMeans, ExitOneMeans, ExitModeMeans, ShutdownMeans
  <2>3. CASE StartRun(t) \/ CompileNow(t) \/ Submit(t) \/ Compiled(t)
    BY <1>0, <1>1, <1>2, <2>1, <2>3, StartMeans, CompileNowMeans, SubmitMeans, CompiledMeans
  <2>4. CASE Check(t) \/ Await(t) \/ LaunchKernel(t) \/ TakeResult(t) \/ SkipBench(t)
    BY <1>0, <1>1, <1>2, <2>1, <2>4, CheckMeans, AwaitMeans, ResultMeans, GoOnMeans
  <2>5. CASE Computing(t)
    BY <1>3, <2>5 DEF Computing, cacheVars
  <2>6. CASE Job(t, 0) \in DOMAIN jobs /\ Compiling(Job(t, 0))
    BY <1>0, <1>1, <1>2, <2>6, CompilingMeans
  <2>7. CASE KeyFails(t)
    BY <1>0, <2>1, <2>7, HasKeyFacts DEF KeyFails
  <2>8. CASE SetGlobal(t)
    BY <1>0, <2>1, <2>8, NothingIsSet
  <2> QED
    BY <1>5, <2>2, <2>3, <2>4, <2>5, <2>6, <2>7, <2>8 DEF ThreadStep
<1>6. ASSUME NEW t \in ThreadIds, NEW i \in 1 .. MaxFutures, WorkerStep(t, i) PROVE Means'
  BY <1>0, <1>1, <1>2, <1>6, CompilingMeans, TakeJobMeans DEF WorkerStep
<1>7. ASSUME NEW p \in Processes, Crash(p) PROVE Means'
  BY <1>0, <1>2, <1>7, CrashMeans
<1> QED
  BY <1>4, <1>5, <1>6, <1>7 DEF Next

LEMMA MeansSafe == MeansInv /\ Fixed => LaunchAsWritten
<1> SUFFICES ASSUME MeansInv, Fixed, NEW t \in Threads, At(t, "launch")
             PROVE  run[t].kernel = Meaning(Proc(t), CallOf(t).fn)
  BY DEF LaunchAsWritten
<1>1. run[t].at = "launch" /\ RunMeans(t, run[t]) /\ KeysInv
  BY DEF At, MeansInv, Means, RunsMean
<1>2. run[t].kernel = Made(Proc(t), CallOf(t).fn)
  BY <1>1 DEF RunMeans, CallOf, Now
<1> QED
  BY <1>1, <1>2, MeaningMade

(* Where no global is set and no function calls itself, a kernel that is    *)
(* launched was compiled from the sources its process has of the function   *)
(* and of all it calls, with the values their globals have: whoever         *)
(* computed the key, however many threads did at once, and whichever        *)
(* process with the same or another source compiled it, finished or         *)
(* crashed before.                                                          *)
THEOREM KernelsAreLaunchedAsWritten == Spec => [](Fixed => LaunchAsWritten)
<1>1. MeansInv => (Fixed => LaunchAsWritten)
  BY MeansSafe
<1> QED
  BY <1>1, MeansInit, MeansNext, PTL DEF Spec

-----------------------------------------------------------------------------
(* What a config that does not compile costs the others of its batch.       *)
(* That is a matter of the batch's own script, of what its futures stand    *)
(* for, and of the directories, where a kernel could hide a failure.        *)

(* The calls of the scripts, and those whose kernels have one compile key   *)
(* in every process that can have it.                                       *)
CallOps == {"warmup", "result", "launch", "bench"}
CallsOf(t) == {Script(t)[i].call : i \in {k \in DOMAIN Script(t) : Script(t)[k].op \in CallOps}}
Calls == UNION {CallsOf(t) : t \in Threads}
Alike(c, d) == c.fn = d.fn /\ c.spec = d.spec

(* What does not compile for one call does not for another alike, and ends  *)
(* with the same exception.                                                 *)
FailsByKey ==
  \A c \in Failing : \A d \in Calls : Alike(c, d) => d \in Failing /\ setup.fails[d] = setup.fails[c]

(* The batches are those of _batch_bench: calls of warmup, and results.     *)
BatchesOnlyCompile ==
  \A t \in Threads : \A i, j \in DOMAIN Script(t) :
    IsBlock(Script(t), i, j) /\ Script(t)[i].batch =>
      \A k \in i + 1 .. j - 1 : Script(t)[k].op \in {"warmup", "result"}

Tuning == Fixed /\ FailsByKey /\ BatchesOnlyCompile

JobFails(r) ==
  /\ r.call \in Calls /\ r.key[2] = r.call.spec
  /\ r.at = "stage" => \A i \in 1 .. r.n - 1 : ~ FailsAt(r.call, Puts[i])
  /\ r.at \in {"put", "rename"} => \A i \in 1 .. r.n : ~ FailsAt(r.call, Puts[i])
  /\ r.at \in {"group", "load", "done"} => r.call \notin Failing
  /\ r.at = "failed" => r.call \in Failing

FilesFail(k, files) ==
  Binary \in DOMAIN files => \A c \in Failing : ~ (k[1][2] = c.fn /\ k[2] = c.spec)

(* The kernel k, or future, is what was asked for by c.                     *)
HoldsFor(r, k, c) ==
  \/ ~ IsFuture(k) /\ c \notin Failing
  \/ \E i \in DOMAIN r.futures : k = Future(i) /\ Alike(r.futures[i].call, c)

BatchAt(s, n) ==
  \E i \in 1 .. n - 1 : OpAt(s, i, "enter") /\ s[i].batch /\ \A k \in i .. n - 1 : ~ OpAt(s, k, "exit")

(* Before statement n of script s: the results of the block, whether one of *)
(* them ends the batch, and what is tuned when those up to it are taken.    *)
ResultsAt(s, n) ==
  {k \in 1 .. n - 1 :
     /\ OpAt(s, k, "result")
     /\ \E i \in 1 .. n - 1 : OpAt(s, i, "enter") /\ i < k /\ \A m \in i .. n - 1 : ~ OpAt(s, m, "exit")}
Lost(s, n) == \E m \in ResultsAt(s, n) : EndsBatch(s[m].call)
ReachedAt(s, n) == {k \in ResultsAt(s, n) : \A m \in ResultsAt(s, n) : m < k => ~ EndsBatch(s[m].call)}
TunedAt(s, n) == {s[k].call : k \in ReachedAt(s, n)} \ Failing

BatchSound(t, r) ==
  /\ r.at \in {"ready", "key", "check", "shutdown"}
  /\ r.at # "shutdown" => r.active /\ r.open
  /\ \A c \in DOMAIN r.got : c \in Calls /\ HoldsFor(r, r.got[c], c)
  /\ r.tuned = TunedAt(Script(t), r.pc)
  /\ Lost(Script(t), r.pc) => r.raised

RunFails(t, r) ==
  /\ \A i \in DOMAIN r.futures : r.futures[i].key[2] = r.futures[i].call.spec /\ r.futures[i].call \in Calls
  /\ r.at \in Running => r.pc \in DOMAIN Script(t) /\ Script(t)[r.pc].op \in {"warmup", "launch", "bench"}
  /\ r.at = "check" => HoldsFor(r, r.kernel, Script(t)[r.pc].call)
  /\ r.raised => OpAt(Script(t), r.pc, "exit")
  /\ BatchAt(Script(t), r.pc) => BatchSound(t, r)

JobsFail == \A j \in DOMAIN jobs : JobFails(jobs[j])
DirFails == \A k \in DOMAIN dir : FilesFail(k, dir[k].files)
KernelsFail == \A p \in Processes : \A c \in DOMAIN kernels[p] : c \notin Failing
RunsFail == \A t \in Threads : RunFails(t, run[t])

Fails == JobsFail /\ DirFails /\ KernelsFail /\ RunsFail
FailInv == MeansInv /\ (Tuning => Fails)

LEMMA FailDefsStay ==
  ASSUME UNCHANGED setup
  PROVE  /\ Calls' = Calls /\ Failing' = Failing
         /\ Tuning' <=> Tuning
         /\ \A r : JobFails(r)' <=> JobFails(r)
         /\ \A k, files : FilesFail(k, files)' <=> FilesFail(k, files)
         /\ \A t, r : RunFails(t, r)' <=> RunFails(t, r)
<1>1. Calls' = Calls /\ Failing' = Failing /\ setup.fails' = setup.fails
  BY DEF Calls, CallsOf, Threads, Script, Failing
<1>2. Threads' = Threads /\ (\A t : Script(t)' = Script(t)) /\ (Fixed' <=> Fixed)
  BY KeyDefsStay, KeyStays
<1>3. Tuning' <=> Tuning
  BY <1>1, <1>2 DEF Tuning, FailsByKey, BatchesOnlyCompile, IsBlock, Alike
<1>4. \A r : JobFails(r)' <=> JobFails(r)
  BY <1>1 DEF JobFails, FailsAt
<1>5. \A s, n : TunedAt(s, n)' = TunedAt(s, n) /\ (Lost(s, n)' <=> Lost(s, n))
  BY <1>1 DEF TunedAt, ReachedAt, Lost, ResultsAt, EndsBatch, OpAt
<1>6. \A t, r : BatchSound(t, r)' <=> BatchSound(t, r)
  BY <1>1, <1>2, <1>5 DEF BatchSound, HoldsFor, Alike
<1>7. \A t, r : RunFails(t, r)' <=> RunFails(t, r)
  BY <1>1, <1>2, <1>6 DEF RunFails, HoldsFor, Alike, BatchAt, OpAt
<1> QED
  BY <1>1, <1>3, <1>4, <1>7 DEF FilesFail

(*------------------------------- the scripts -----------------------------*)

(* Behind a statement that begins no block there is no other batch, and     *)
(* behind the end of one there is none.                                     *)
LEMMA BatchBefore ==
  ASSUME NEW s, NEW n \in Nat \ {0}, BatchAt(s, n + 1), ~ OpAt(s, n, "enter")
  PROVE  BatchAt(s, n) /\ ~ OpAt(s, n, "exit")
<1>1. PICK i \in 1 .. (n + 1) - 1 :
        OpAt(s, i, "enter") /\ s[i].batch /\ \A k \in i .. (n + 1) - 1 : ~ OpAt(s, k, "exit")
  BY DEF BatchAt
<1>2. i # n
  BY <1>1
<1>3. i \in 1 .. n - 1 /\ n \in i .. (n + 1) - 1 /\ \A k \in i .. n - 1 : k \in i .. (n + 1) - 1
  BY <1>1, <1>2
<1> QED
  BY <1>1, <1>3 DEF BatchAt

(* A statement in a batch is the end of it, or what batches do.             *)
LEMMA BatchStatement ==
  ASSUME SetupInv, BatchesOnlyCompile, NEW t \in Threads, NEW s, s = Script(t), NEW n \in DOMAIN s, BatchAt(s, n)
  PROVE  s[n].op \in {"warmup", "result", "exit"}
<1>0. /\ Len(s) \in Nat /\ DOMAIN s = 1 .. Len(s)
      /\ \A i \in DOMAIN s : s[i].op = "enter" => \E j \in i + 1 .. Len(s) : IsBlock(s, i, j)
  BY ScriptFacts
<1>1. PICK i \in 1 .. n - 1 : OpAt(s, i, "enter") /\ s[i].batch /\ \A k \in i .. n - 1 : ~ OpAt(s, k, "exit")
  BY DEF BatchAt
<1>2. PICK j \in i + 1 .. Len(s) : IsBlock(s, i, j)
  BY <1>0, <1>1 DEF OpAt
<1>3. i \in DOMAIN s /\ j \in DOMAIN s /\ OpAt(s, j, "exit")
  BY <1>0, <1>1, <1>2 DEF IsBlock, OpAt
<1>4. j >= n
  BY <1>0, <1>1, <1>2, <1>3
<1>5. CASE j = n
  BY <1>3, <1>5 DEF OpAt
<1>6. CASE j # n
  <2>1. n \in i + 1 .. j - 1
    BY <1>0, <1>1, <1>2, <1>4, <1>6
  <2> QED
    BY <1>1, <1>2, <1>3, <2>1 DEF BatchesOnlyCompile
<1> QED
  BY <1>5, <1>6

(* A block begins without results, ...                                      *)
LEMMA FreshResults ==
  ASSUME SetupInv, NEW t \in Threads, NEW s, s = Script(t), NEW n \in Nat \ {0}, OpAt(s, n, "enter")
  PROVE  TunedAt(s, n + 1) = {} /\ ~ Lost(s, n + 1)
<1>0. /\ Len(s) \in Nat /\ DOMAIN s = 1 .. Len(s)
      /\ \A i \in DOMAIN s : s[i].op = "enter" => \E j \in i + 1 .. Len(s) : IsBlock(s, i, j)
  BY ScriptFacts
<1>1. ResultsAt(s, n + 1) = {}
  <2> SUFFICES ASSUME NEW k \in ResultsAt(s, n + 1) PROVE FALSE
    OBVIOUS
  <2>1. k \in 1 .. (n + 1) - 1 /\ OpAt(s, k, "result")
    BY DEF ResultsAt
  <2>2. PICK i \in 1 .. (n + 1) - 1 : OpAt(s, i, "enter") /\ i < k /\ \A m \in i .. (n + 1) - 1 : ~ OpAt(s, m, "exit")
    BY DEF ResultsAt
  <2>3. PICK j \in i + 1 .. Len(s) : IsBlock(s, i, j)
    BY <1>0, <2>2 DEF OpAt
  <2>4. j \in DOMAIN s /\ OpAt(s, j, "exit")
    BY <1>0, <2>3 DEF IsBlock, OpAt
  <2>5. j > n
    BY <1>0, <2>2, <2>3, <2>4
  <2>6. n \in i + 1 .. j - 1
    BY <1>0, <2>1, <2>2, <2>3, <2>5
  <2> QED
    BY <2>3, <2>6 DEF IsBlock, OpAt
<1> QED
  BY <1>1 DEF TunedAt, ReachedAt, Lost

(* ... and gets one with every statement that takes one.                    *)
LEMMA ResultsGrow ==
  ASSUME NEW s, NEW n \in Nat \ {0}, BatchAt(s, n), ~ OpAt(s, n, "enter"), ~ OpAt(s, n, "exit")
  PROVE  ResultsAt(s, n + 1) = ResultsAt(s, n) \cup (IF OpAt(s, n, "result") THEN {n} ELSE {})
<1>1. PICK b \in 1 .. n - 1 : OpAt(s, b, "enter") /\ \A m \in b .. n - 1 : ~ OpAt(s, m, "exit")
  BY DEF BatchAt
<1>2. ASSUME NEW k, k \in ResultsAt(s, n + 1) PROVE k \in ResultsAt(s, n) \/ (k = n /\ OpAt(s, n, "result"))
  <2>1. k \in 1 .. (n + 1) - 1 /\ OpAt(s, k, "result")
    BY <1>2 DEF ResultsAt
  <2>2. PICK i \in 1 .. (n + 1) - 1 : OpAt(s, i, "enter") /\ i < k /\ \A m \in i .. (n + 1) - 1 : ~ OpAt(s, m, "exit")
    BY <1>2 DEF ResultsAt
  <2>3. i # n
    BY <2>2
  <2>4. i \in 1 .. n - 1 /\ \A m \in i .. n - 1 : m \in i .. (n + 1) - 1
    BY <2>2, <2>3
  <2>5. CASE k = n
    BY <2>1, <2>5
  <2>6. CASE k # n
    <3>1. k \in 1 .. n - 1
      BY <2>1, <2>6
    <3> QED
      BY <2>1, <2>2, <2>4, <3>1 DEF ResultsAt
  <2> QED
    BY <2>5, <2>6
<1>3. ASSUME NEW k, k \in ResultsAt(s, n) PROVE k \in ResultsAt(s, n + 1)
  <2>1. k \in 1 .. n - 1 /\ OpAt(s, k, "result")
    BY <1>3 DEF ResultsAt
  <2>2. PICK i \in 1 .. n - 1 : OpAt(s, i, "enter") /\ i < k /\ \A m \in i .. n - 1 : ~ OpAt(s, m, "exit")
    BY <1>3 DEF ResultsAt
  <2>3. i \in 1 .. (n + 1) - 1 /\ k \in 1 .. (n + 1) - 1 /\ \A m \in i .. (n + 1) - 1 : m \in i .. n - 1 \/ m = n
    BY <2>1, <2>2
  <2> QED
    BY <2>1, <2>2, <2>3 DEF ResultsAt
<1>4. ASSUME OpAt(s, n, "result") PROVE n \in ResultsAt(s, n + 1)
  <2>1. b \in 1 .. (n + 1) - 1 /\ n \in 1 .. (n + 1) - 1 /\ b < n /\ \A m \in b .. (n + 1) - 1 : m \in b .. n - 1 \/ m = n
    BY <1>1
  <2> QED
    BY <1>1, <1>4, <2>1 DEF ResultsAt
<1> QED
  BY <1>2, <1>3, <1>4

LEMMA ResultsBefore == ASSUME NEW s, NEW n \in Nat, NEW k \in ResultsAt(s, n) PROVE k \in Nat /\ k < n
BY DEF ResultsAt

(* A statement of a batch that takes no result.                             *)
LEMMA OtherStatement ==
  ASSUME NEW s, NEW n \in Nat \ {0}, BatchAt(s, n), ~ OpAt(s, n, "enter"), ~ OpAt(s, n, "exit"), ~ OpAt(s, n, "result")
  PROVE  TunedAt(s, n + 1) = TunedAt(s, n) /\ (Lost(s, n + 1) <=> Lost(s, n))
<1>1. ResultsAt(s, n + 1) = ResultsAt(s, n)
  <2>1. ResultsAt(s, n + 1) = ResultsAt(s, n) \cup (IF OpAt(s, n, "result") THEN {n} ELSE {})
    BY ResultsGrow
  <2> QED
    BY <2>1, Zenon
<1> QED
  BY <1>1 DEF TunedAt, ReachedAt, Lost

(* One that takes the result of a config that compiles, or whose exception  *)
(* is caught.                                                               *)
LEMMA TakenStatement ==
  ASSUME NEW s, NEW n \in Nat \ {0}, BatchAt(s, n), OpAt(s, n, "result"), ~ Lost(s, n), ~ EndsBatch(s[n].call)
  PROVE  TunedAt(s, n + 1) = TunedAt(s, n) \cup ({s[n].call} \ Failing) /\ ~ Lost(s, n + 1)
<1>1. ResultsAt(s, n + 1) = ResultsAt(s, n) \cup {n}
  BY ResultsGrow DEF OpAt
<1>2. \A k \in ResultsAt(s, n + 1) : ~ EndsBatch(s[k].call)
  BY <1>1 DEF Lost
<1>3. ReachedAt(s, n + 1) = ResultsAt(s, n) \cup {n} /\ ReachedAt(s, n) = ResultsAt(s, n)
  BY <1>1, <1>2 DEF ReachedAt
<1> QED
  BY <1>2, <1>3 DEF TunedAt, Lost

(* One whose config ends the batch: what is behind it is not reached.       *)
LEMMA EndStatement ==
  ASSUME NEW s, NEW n \in Nat \ {0}, BatchAt(s, n), OpAt(s, n, "result"), ~ Lost(s, n), EndsBatch(s[n].call),
         NEW e \in Nat, e >= n + 1, \A k \in n .. e - 1 : ~ OpAt(s, k, "exit")
  PROVE  TunedAt(s, e) = TunedAt(s, n)
<1>1. PICK b \in 1 .. n - 1 : OpAt(s, b, "enter") /\ \A m \in b .. n - 1 : ~ OpAt(s, m, "exit")
  BY DEF BatchAt
<1>2. n \in ResultsAt(s, e)
  <2>1. b \in 1 .. e - 1 /\ n \in 1 .. e - 1 /\ b < n /\ \A m \in b .. e - 1 : m \in b .. n - 1 \/ m \in n .. e - 1
    BY <1>1
  <2> QED
    BY <1>1, <2>1 DEF ResultsAt
<1>3. ASSUME NEW k \in ResultsAt(s, n) PROVE k \in ResultsAt(s, e) /\ k < n
  <2>1. k \in 1 .. n - 1 /\ OpAt(s, k, "result")
    BY DEF ResultsAt
  <2>2. PICK i \in 1 .. n - 1 : OpAt(s, i, "enter") /\ i < k /\ \A m \in i .. n - 1 : ~ OpAt(s, m, "exit")
    BY DEF ResultsAt
  <2>3. i \in 1 .. e - 1 /\ k \in 1 .. e - 1 /\ \A m \in i .. e - 1 : m \in i .. n - 1 \/ m \in n .. e - 1
    BY <2>1, <2>2
  <2> QED
    BY <2>1, <2>2, <2>3 DEF ResultsAt
<1>4. ASSUME NEW k \in ResultsAt(s, e), k < n PROVE k \in ResultsAt(s, n)
  <2>1. k \in 1 .. e - 1 /\ OpAt(s, k, "result")
    BY DEF ResultsAt
  <2>2. PICK i \in 1 .. e - 1 : OpAt(s, i, "enter") /\ i < k /\ \A m \in i .. e - 1 : ~ OpAt(s, m, "exit")
    BY DEF ResultsAt
  <2>3. k \in 1 .. n - 1 /\ i \in 1 .. n - 1 /\ \A m \in i .. n - 1 : m \in i .. e - 1
    BY <1>4, <2>1, <2>2
  <2> QED
    BY <2>1, <2>2, <2>3 DEF ResultsAt
<1>5. s[n].call \in Failing
  BY DEF EndsBatch
<1>6. ASSUME NEW k \in ReachedAt(s, e), k # n PROVE k \in ReachedAt(s, n)
  <2>1. k \in ResultsAt(s, e) /\ k \in Nat /\ ~ (n < k)
    BY <1>2, ResultsBefore DEF ReachedAt
  <2>2. k < n
    BY <1>6, <2>1
  <2> QED
    BY <1>3, <1>4, <2>1, <2>2 DEF ReachedAt
<1>7. ASSUME NEW k \in ReachedAt(s, n) PROVE k \in ReachedAt(s, e)
  <2>1. k \in ResultsAt(s, e) /\ k \in Nat /\ k < n
    BY <1>3, ResultsBefore DEF ReachedAt
  <2>2. ASSUME NEW m \in ResultsAt(s, e), m < k PROVE ~ EndsBatch(s[m].call)
    <3>1. m \in Nat /\ m < n
      BY <2>1, <2>2, ResultsBefore
    <3> QED
      BY <1>4, <3>1 DEF Lost
  <2> QED
    BY <2>1, <2>2 DEF ReachedAt
<1> QED
  BY <1>5, <1>6, <1>7 DEF TunedAt

(* An exception outside of batches leads into none.                         *)
LEMMA NoBatchAhead ==
  ASSUME SetupInv, NEW t \in Threads, Inside(t), run[t].pc \in Nat \ {0}, ~ BatchAt(Script(t), run[t].pc)
  PROVE  ~ BatchAt(Script(t), ExitOf(t))
<1> DEFINE s == Script(t)
           n == run[t].pc
           e == ExitOf(t)
<1>0. /\ Len(s) \in Nat /\ DOMAIN s = 1 .. Len(s)
      /\ \A i \in DOMAIN s : s[i].op = "enter" => \E j \in i + 1 .. Len(s) : IsBlock(s, i, j)
  BY ScriptFacts
<1>1. PICK i \in 1 .. n - 1 : OpAt(s, i, "enter") /\ \A k \in i .. n - 1 : ~ OpAt(s, k, "exit")
  BY InsideIs DEF InsideAt
<1>2. e \in Nat \ {0} /\ OpAt(s, e, "exit")
  BY ExitAhead
<1> SUFFICES ASSUME BatchAt(s, e) PROVE FALSE
  OBVIOUS
<1> HIDE DEF s, n, e
<1>3. PICK b \in 1 .. e - 1 : OpAt(s, b, "enter") /\ s[b].batch /\ \A k \in b .. e - 1 : ~ OpAt(s, k, "exit")
  BY DEF BatchAt
<1>4. ~ BatchAt(s, n) /\ n \in Nat \ {0}
  BY DEF s, n
<1>5. PICK j \in i + 1 .. Len(s) : IsBlock(s, i, j)
  BY <1>0, <1>1 DEF OpAt
<1>6. PICK h \in b + 1 .. Len(s) : IsBlock(s, b, h)
  BY <1>0, <1>3 DEF OpAt
<1>7. OpAt(s, j, "exit") /\ j \in DOMAIN s /\ \A k \in i + 1 .. j - 1 : ~ OpAt(s, k, "enter") /\ ~ OpAt(s, k, "exit")
  BY <1>0, <1>1, <1>5 DEF IsBlock, OpAt
<1>8. j >= n
  BY <1>0, <1>1, <1>4, <1>5, <1>7
<1>9. e \in n .. Len(s) /\ \A k \in n .. e - 1 : ~ OpAt(s, k, "exit")
  <2>1. j \in n .. Len(s) /\ \A k \in n .. j - 1 : ~ OpAt(s, k, "exit")
    BY <1>0, <1>1, <1>4, <1>5, <1>7, <1>8
  <2>2. \E x \in n .. Len(s) : IsAt(t, x, "exit") /\ \A k \in n .. x - 1 : ~ IsAt(t, k, "exit")
    BY <1>7, <2>1 DEF IsAt, OpAt, s
  <2>3. /\ ExitOf(t) \in n .. Len(s)
        /\ \A k \in n .. ExitOf(t) - 1 : ~ IsAt(t, k, "exit")
    BY <2>2 DEF ExitOf, n, s
  <2> QED
    BY <2>3 DEF IsAt, OpAt, e, s
<1>10. e <= j
  BY <1>0, <1>4, <1>5, <1>7, <1>8, <1>9
<1>11. b <= i
  BY <1>2, <1>3, <1>5, <1>7, <1>10
<1>12. b \in 1 .. n - 1 /\ \A k \in b .. n - 1 : k \in b .. e - 1
  BY <1>1, <1>2, <1>3, <1>4, <1>9, <1>11
<1> QED
  BY <1>3, <1>4, <1>12 DEF BatchAt

(*------------------------------- the jobs --------------------------------*)

LEMMA BinaryIs ==
  /\ Len(Outputs) \in Nat \ {0} /\ Len(Puts) = Len(Outputs) + 1
  /\ \A i \in 1 .. Len(Puts) : Puts[i] = Binary => i = Len(Outputs)
<1>1. Outputs \in Seq(STRING) /\ Outputs # << >>
  BY OutputsAssumption
<1>2. /\ Len(Outputs) \in Nat \ {0} /\ Len(Puts) = Len(Outputs) + 1 /\ DOMAIN Outputs = 1 .. Len(Outputs)
      /\ \A i \in 1 .. Len(Outputs) : Puts[i] = Outputs[i]
      /\ Puts[Len(Outputs) + 1] = "json"
  BY <1>1 DEF Puts
<1>3. ASSUME NEW i \in 1 .. Len(Puts), Puts[i] = Binary PROVE i = Len(Outputs)
  <2>1. Len(Outputs) \in DOMAIN Outputs /\ Binary = Outputs[Len(Outputs)] /\ Binary # "json"
    BY <1>2, OutputsAssumption DEF Binary
  <2>2. i \in DOMAIN Outputs /\ Outputs[i] = Outputs[Len(Outputs)]
    BY <1>2, <1>3, <2>1
  <2> QED
    BY <2>1, <2>2, OutputsAssumption, Zenon
<1> QED
  BY <1>2, <1>3

(* A call that does not compile misses one of the files of the stages.      *)
LEMMA FailsSomewhere ==
  ASSUME setup \in Setups, NEW c \in Failing
  PROVE  \E i \in 1 .. Len(Outputs) : FailsAt(c, Puts[i])
<1>1. Outputs \in Seq(STRING) /\ Outputs # << >>
  BY OutputsAssumption
<1>2. Len(Outputs) \in Nat \ {0} /\ \A i \in 1 .. Len(Outputs) : Puts[i] = Outputs[i]
  BY <1>1 DEF Puts
<1>3. \/ setup.fails[c].output = Outputs[1]
      \/ setup.fails[c].output \in {Outputs[i] : i \in 2 .. Len(Outputs)}
  BY FailAssumption DEF Failing
<1>4. PICK i \in 1 .. Len(Outputs) : setup.fails[c].output = Outputs[i]
  BY <1>2, <1>3
<1> QED
  BY <1>2, <1>4 DEF FailsAt

LEMMA OneJobFails ==
  ASSUME JobsFail, UNCHANGED setup, NEW j \in DOMAIN jobs,
         DOMAIN jobs' = DOMAIN jobs, \A i \in DOMAIN jobs : i # j => jobs'[i] = jobs[i],
         JobFails(jobs'[j])
  PROVE  JobsFail'
BY FailDefsStay DEF JobsFail

LEMMA JobsRemovedFail ==
  ASSUME JobsFail, UNCHANGED setup, NEW S, S \subseteq DOMAIN jobs, jobs' = [j \in S |-> jobs[j]]
  PROVE  JobsFail'
BY FailDefsStay DEF JobsFail

LEMMA JobsFailSame == ASSUME JobsFail, UNCHANGED <<setup, jobs>> PROVE JobsFail'
BY FailDefsStay DEF JobsFail

LEMMA DirFailsSame == ASSUME DirFails, UNCHANGED <<setup, dir>> PROVE DirFails'
BY FailDefsStay DEF DirFails

LEMMA KernelsFailSame == ASSUME KernelsFail, UNCHANGED <<setup, kernels>> PROVE KernelsFail'
BY KeyDefsStay, FailDefsStay DEF KernelsFail

LEMMA DirectoryFails == ASSUME DirFails, NEW k PROVE FilesFail(k, Directory(k).files)
<1>1. CASE k \in DOMAIN dir
  BY <1>1 DEF DirFails, Directory
<1>2. CASE k \notin DOMAIN dir
  <2>1. Directory(k).files = << >>
    BY <1>2 DEF Directory
  <2>2. DOMAIN Directory(k).files = {}
    BY <2>1
  <2> QED
    BY <2>2 DEF FilesFail
<1> QED
  BY <1>1, <1>2

LEMMA DirectorySetFails ==
  ASSUME DirFails, UNCHANGED setup, NEW k, NEW d, dir' = SetDir(dir, k, d), FilesFail(k, d.files)
  PROVE  DirFails'
<1>1. DOMAIN dir' = DOMAIN dir \cup {k} /\ dir'[k] = d /\ \A q \in DOMAIN dir : q # k => dir'[q] = dir[q]
  BY DEF SetDir, Bind
<1>2. \A q \in DOMAIN dir' : FilesFail(q, dir'[q].files)
  BY <1>1 DEF DirFails
<1> QED
  BY <1>2, FailDefsStay DEF DirFails

(* Other configs' files say nothing of one that fails, and its own end      *)
(* before the binary.                                                       *)
LEMMA StepFails ==
  ASSUME MeansInv, Tuning, JobsFail, DirFails, UNCHANGED setup, NEW j \in DOMAIN jobs, JobStep(j, Proc(j[1]))
  PROVE  /\ JobsFail' /\ DirFails'
<1> PICK p : p = Proc(j[1])
  OBVIOUS
<1> PICK old : old = jobs[j]
  OBVIOUS
<1>1. /\ JobSound(old) /\ DOMAIN old = JobFields /\ JobMeans(p, old) /\ JobFails(old) /\ DirInv /\ setup \in Setups
  <2>1. ModeInv /\ Means
    BY DEF MeansInv, Tuning
  <2> QED
    BY <2>1 DEF ModeInv, CompleteInv, SetupInv, JobInv, JobSound, Means, JobsMean, JobsFail
<1>8. /\ \A c \in Failing : Alike(c, old.call) => old.call \in Failing
      /\ old.key[1][2] = old.call.fn /\ old.key[2] = old.call.spec
  BY <1>1 DEF Tuning, FailsByKey, JobFails, JobMeans
<1> SUFFICES \E new : jobs' = [jobs EXCEPT ![j] = new] /\ JobFails(new) /\ DirFails'
  BY OneJobFails
<1>2. CASE Lookup(j)
  <2> DEFINE found == GetGroup(old.key)
             new == [old EXCEPT !.group = found, !.at = IF "json" \in found THEN "load" ELSE "stage"]
  <2>1. jobs' = [jobs EXCEPT ![j] = new] /\ UNCHANGED dir /\ old.at = "lookup"
    BY <1>2 DEF Lookup
  <2>2. /\ new.key = old.key /\ new.call = old.call /\ new.n = old.n /\ new.at \in {"load", "stage"}
        /\ new.at = "load" => "json" \in found
    BY <1>1 DEF JobFields
  <2>3. old.n = 1
    BY <1>1, <2>1 DEF JobSound
  <2>4. ASSUME "json" \in found PROVE old.call \notin Failing
    <3>1. "json" \in Directory(old.key).group /\ Sound(Directory(old.key))
      BY <1>1, <2>4, DirectorySound DEF GetGroup
    <3>2. Binary \in DOMAIN Directory(old.key).files
      BY <3>1, OutputFacts DEF Sound
    <3>3. FilesFail(old.key, Directory(old.key).files)
      BY DirectoryFails
    <3> QED
      BY <1>8, <3>2, <3>3 DEF FilesFail
  <2> HIDE DEF new, found
  <2>5. JobFails(new)
    BY <1>1, <2>2, <2>3, <2>4 DEF JobFails
  <2> QED
    BY <2>1, <2>5, DirFailsSame
<1>3. CASE Stage(j, p)
  <2>1. old.at = "stage" /\ UNCHANGED dir
    BY <1>3 DEF Stage
  <2>2. CASE FailsAt(old.call, Puts[old.n])
    <3> DEFINE new == [old EXCEPT !.at = "failed"]
    <3>1. jobs' = [jobs EXCEPT ![j] = new]
      BY <1>3, <2>2 DEF Stage, To
    <3>2. new.key = old.key /\ new.call = old.call /\ new.n = old.n /\ new.at = "failed"
      BY <1>1 DEF JobFields
    <3> HIDE DEF new
    <3>3. JobFails(new)
      BY <1>1, <2>2, <3>2 DEF JobFails, FailsAt
    <3> QED
      BY <2>1, <3>1, <3>3, DirFailsSame
  <2>3. CASE ~ FailsAt(old.call, Puts[old.n])
    <3> PICK m : m = IF old.n = 1 THEN Meaning(p, old.call.fn) ELSE old.meaning
      OBVIOUS
    <3> DEFINE new == [old EXCEPT !.meaning = m, !.at = "put"]
    <3>1. jobs' = [jobs EXCEPT ![j] = new]
      BY <1>3, <2>3 DEF Stage
    <3>2. new.key = old.key /\ new.call = old.call /\ new.n = old.n /\ new.at = "put"
      BY <1>1 DEF JobFields
    <3> HIDE DEF new
    <3>3. old.n \in Nat
      BY <1>1, <2>1, OutputFacts DEF JobSound, Making
    <3>4. JobFails(new)
      <4>1. \A i \in 1 .. old.n : i \in 1 .. old.n - 1 \/ i = old.n
        BY <3>3
      <4>2. \A i \in 1 .. old.n : ~ FailsAt(old.call, Puts[i])
        BY <1>1, <2>1, <2>3, <4>1 DEF JobFails
      <4> QED
        BY <1>1, <3>2, <4>2 DEF JobFails
    <3> QED
      BY <2>1, <3>1, <3>4, DirFailsSame
  <2> QED
    BY <2>2, <2>3
<1>4. CASE Put(j)
  <2> DEFINE new == [old EXCEPT !.at = "rename"]
  <2>1. jobs' = [jobs EXCEPT ![j] = new] /\ UNCHANGED dir /\ old.at = "put"
    BY <1>4 DEF Put, To
  <2>2. new.key = old.key /\ new.call = old.call /\ new.n = old.n /\ new.at = "rename"
    BY <1>1 DEF JobFields
  <2> HIDE DEF new
  <2>3. JobFails(new)
    BY <1>1, <2>1, <2>2 DEF JobFails, Making
  <2> QED
    BY <2>1, <2>3, DirFailsSame
<1>5. CASE Rename(j)
  <2> PICK k : k = old.key
    OBVIOUS
  <2> PICK file : file = Puts[old.n]
    OBVIOUS
  <2> PICK at : at = IF old.n = Len(Puts) THEN "group" ELSE "stage"
    OBVIOUS
  <2> DEFINE new == [old EXCEPT !.group = @ \cup {file}, !.n = @ + 1, !.at = at]
             d == [Directory(k) EXCEPT !.files = Bind(@, file, old.meaning)]
  <2>1. jobs' = [jobs EXCEPT ![j] = new] /\ dir' = SetDir(dir, k, d) /\ old.at = "rename"
    BY <1>5 DEF Rename, SetFile
  <2>2. new.key = old.key /\ new.call = old.call /\ new.n = old.n + 1 /\ new.at = at
    BY <1>1 DEF JobFields
  <2>3. d.files = Bind(Directory(k).files, file, old.meaning)
    BY <1>1, DirectorySound DEF Sound
  <2> HIDE DEF new, d
  <2>4. old.n \in 1 .. Len(Puts) /\ Len(Puts) = Len(Outputs) + 1 /\ Len(Outputs) \in Nat
    BY <1>1, <2>1, OutputFacts, BinaryIs DEF JobSound, Making
  <2>5. \A i \in 1 .. old.n : ~ FailsAt(old.call, Puts[i])
    BY <1>1, <2>1 DEF JobFails
  <2>6. old.n >= Len(Outputs) => old.call \notin Failing
    <3> SUFFICES ASSUME old.n >= Len(Outputs), old.call \in Failing PROVE FALSE
      OBVIOUS
    <3>1. PICK i \in 1 .. Len(Outputs) : FailsAt(old.call, Puts[i])
      BY <1>1, FailsSomewhere
    <3>2. i \in 1 .. old.n
      BY <2>4, <3>1
    <3> QED
      BY <2>5, <3>1, <3>2
  <2>7. JobFails(new)
    <3>1. at = "group" => old.call \notin Failing
      BY <2>4, <2>6
    <3>2. at \in {"group", "stage"} /\ (old.n + 1) - 1 = old.n
      BY <2>4
    <3> QED
      BY <1>1, <2>2, <2>5, <3>1, <3>2 DEF JobFails
  <2>8. FilesFail(k, d.files)
    <3> SUFFICES ASSUME Binary \in DOMAIN d.files, NEW c \in Failing, k[1][2] = c.fn, k[2] = c.spec PROVE FALSE
      BY DEF FilesFail
    <3>1. old.call \in Failing
      BY <1>8 DEF Alike
    <3>2. file # Binary
      BY <2>4, <2>6, <3>1, BinaryIs
    <3>3. Binary \in DOMAIN Directory(k).files
      BY <2>3, <3>2 DEF Bind
    <3> QED
      BY <3>3, DirectoryFails DEF FilesFail
  <2> QED
    BY <2>1, <2>7, <2>8, DirectorySetFails
<1>6. CASE PutGroup(j)
  <2> PICK k : k = old.key
    OBVIOUS
  <2> DEFINE new == [old EXCEPT !.at = "load"]
             d == [Directory(k) EXCEPT !.group = old.group]
  <2>1. jobs' = [jobs EXCEPT ![j] = new] /\ dir' = SetDir(dir, k, d) /\ old.at = "group"
    BY <1>6 DEF PutGroup, To
  <2>2. new.key = old.key /\ new.call = old.call /\ new.n = old.n /\ new.at = "load"
    BY <1>1 DEF JobFields
  <2>3. d.files = Directory(k).files
    BY <1>1, DirectorySound DEF Sound
  <2> HIDE DEF new, d
  <2>4. JobFails(new)
    BY <1>1, <2>1, <2>2 DEF JobFails, Making
  <2>5. FilesFail(k, d.files)
    BY <2>3, DirectoryFails
  <2> QED
    BY <2>1, <2>4, <2>5, DirectorySetFails
<1>7. CASE Load(j)
  <2> PICK m : m = Read(Directory(old.key), old.group)
    OBVIOUS
  <2> DEFINE new == [old EXCEPT !.kernel = m, !.at = "done"]
  <2>1. jobs' = [jobs EXCEPT ![j] = new] /\ UNCHANGED dir /\ old.at = "load"
    BY <1>7 DEF Load
  <2>2. new.key = old.key /\ new.call = old.call /\ new.n = old.n /\ new.at = "done"
    BY <1>1 DEF JobFields
  <2> HIDE DEF new
  <2>3. JobFails(new)
    BY <1>1, <2>1, <2>2 DEF JobFails, Making
  <2> QED
    BY <2>1, <2>3, DirFailsSame
<1> QED
  BY <1>2, <1>3, <1>4, <1>5, <1>6, <1>7 DEF JobStep

(*------------------------------ the threads ------------------------------*)

LEMMA OneThreadFails ==
  ASSUME ModeInv, RunsFail, UNCHANGED setup, NEW t \in Threads, NEW r, SetRun(t, r), RunFails(t, r)
  PROVE  RunsFail'
<1>1. run'[t] = r /\ \A u \in Threads : u # t => run'[u] = run[u]
  BY RunFacts, SetRunFacts
<1>2. ASSUME NEW u \in Threads PROVE RunFails(u, run[u])'
  <2> PICK x : x = IF u = t THEN r ELSE run[u]
    OBVIOUS
  <2>1. RunFails(u, x)'
    BY FailDefsStay DEF RunsFail
  <2>2. run'[u] = x
    BY <1>1
  <2> QED
    BY <2>1, <2>2 DEF RunFails, BatchSound, HoldsFor
<1> QED
  BY <1>2, KeyDefsStay DEF RunsFail

(* The jobs and files are not touched.                                      *)
LEMMA QuietFails ==
  ASSUME ModeInv, Fails, UNCHANGED <<setup, jobs, dir>>, NEW t \in Threads, NEW r, SetRun(t, r), RunFails(t, r),
         KernelsFail'
  PROVE  Fails'
BY OneThreadFails, JobsFailSame, DirFailsSame DEF Fails

(* To a statement, or in one, outside of batches.                           *)
LEMMA OtherFails ==
  ASSUME NEW t, NEW r, RunFails(t, r), NEW q, q.futures = r.futures \/ q.futures = << >>,
         q.at # "check", q.at \in Running => r.at \in Running /\ q.pc = r.pc, ~ BatchAt(Script(t), q.pc),
         q.raised => OpAt(Script(t), q.pc, "exit")
  PROVE  RunFails(t, q)
<1>1. CASE q.futures = r.futures
  BY <1>1 DEF RunFails
<1>2. CASE q.futures = << >>
  <2>1. DOMAIN q.futures = {}
    BY <1>2
  <2> QED
    BY <2>1 DEF RunFails
<1> QED
  BY <1>1, <1>2

(* In the same statement, in a batch or not.                                *)
LEMMA SameFails ==
  ASSUME NEW t, NEW r, RunFails(t, r), NEW q,
         q.pc = r.pc, q.futures = r.futures, q.got = r.got, q.tuned = r.tuned,
         q.at \in {"ready", "key", "check", "shutdown"},
         q.at # "shutdown" => r.at # "shutdown" /\ q.active = r.active /\ q.open = r.open,
         q.at \in Running => r.pc \in DOMAIN Script(t) /\ Script(t)[r.pc].op \in {"warmup", "launch", "bench"},
         q.at = "check" => HoldsFor(r, q.kernel, Script(t)[r.pc].call),
         q.raised = r.raised \/ (q.raised /\ OpAt(Script(t), r.pc, "exit"))
  PROVE  RunFails(t, q)
<1>1. \A k, c : HoldsFor(r, k, c) => HoldsFor(q, k, c)
  BY DEF HoldsFor
<1>2. BatchAt(Script(t), q.pc) => BatchSound(t, q)
  BY <1>1 DEF RunFails, BatchSound
<1> QED
  BY <1>1, <1>2 DEF RunFails

(* The facts about a thread.                                                *)
LEMMA FailFacts ==
  ASSUME ModeInv, Fails, NEW t \in Threads
  PROVE  /\ RunFails(t, run[t]) /\ RunSound(t, run[t]) /\ ModeSound(t, run[t]) /\ DOMAIN run[t] = RunFields
         /\ Next1(run[t]).at = "ready" /\ Next1(run[t]).pc = run[t].pc + 1
         /\ Same(run[t], Next1(run[t])) /\ Next1(run[t]).tuned = run[t].tuned
         /\ Next1(run[t]).active = run[t].active /\ Next1(run[t]).open = run[t].open
         /\ SetupInv /\ JobsFail /\ KernelsFail /\ Proc(t) \in Processes
         /\ run[t].pc \in Nat \ {0}
         /\ Next1(run[t]).raised = run[t].raised /\ (AtPlain(t) => ~ run[t].raised)
<1>1. /\ RunFails(t, run[t]) /\ RunSound(t, run[t]) /\ ModeSound(t, run[t]) /\ DOMAIN run[t] = RunFields
      /\ SetupInv /\ JobsFail /\ KernelsFail /\ Proc(t) \in Processes /\ run[t].pc \in Nat \ {0}
  BY RunFacts, ThreadHasProcess DEF Fails, RunsFail
<1>2. Same(run[t], Next1(run[t])) /\ Next1(run[t]).at = "ready"
  BY <1>1, NextSame
<1>3. /\ Next1(run[t]).pc = run[t].pc + 1 /\ Next1(run[t]).tuned = run[t].tuned
      /\ Next1(run[t]).active = run[t].active /\ Next1(run[t]).open = run[t].open
      /\ Next1(run[t]).raised = run[t].raised
  BY <1>1 DEF Next1, RunFields
<1>4. AtPlain(t) => ~ run[t].raised
  BY <1>1 DEF RunFails, AtPlain, OpAt
<1> QED
  BY <1>1, <1>2, <1>3, <1>4

(* Behind a statement outside of batches that begins none.                  *)
LEMMA NoBatchBehind ==
  ASSUME ModeInv, NEW t \in Threads, AtPlain(t), ~ BatchAt(Script(t), run[t].pc)
  PROVE  ~ BatchAt(Script(t), run[t].pc + 1)
BY RunFacts, BatchBefore DEF AtPlain, OpAt

LEMMA NextFails ==
  ASSUME ModeInv, Fails, NEW t \in Threads, AtPlain(t), ~ BatchAt(Script(t), run[t].pc)
  PROVE  RunFails(t, Next1(run[t])) /\ RunFails(t, Raise(t, run[t]))
<1>1. RunFails(t, Next1(run[t]))
  <2>1. ~ BatchAt(Script(t), Next1(run[t]).pc)
    BY FailFacts, NoBatchBehind
  <2> QED
    BY <2>1, FailFacts, OtherFails DEF Same, Running
<1>2. CASE Inside(t)
  <2> DEFINE q == [run[t] EXCEPT !.pc = ExitOf(t), !.at = "ready", !.raised = TRUE, !.kernel = NoMeaning]
  <2>1. Raise(t, run[t]) = q
    BY <1>2 DEF Raise
  <2>2. q.pc = ExitOf(t) /\ q.at = "ready" /\ q.futures = run[t].futures
    BY FailFacts DEF RunFields
  <2> HIDE DEF q
  <2>3. ~ BatchAt(Script(t), ExitOf(t))
    BY <1>2, FailFacts, NoBatchAhead
  <2>4. ~ BatchAt(Script(t), q.pc)
    BY <2>2, <2>3
  <2>5. RunFails(t, run[t]) /\ OpAt(Script(t), q.pc, "exit")
    BY <1>2, <2>2, FailFacts, ExitAhead
  <2>6. RunFails(t, q)
    BY <2>2, <2>4, <2>5, OtherFails DEF Running
  <2> QED
    BY <1>1, <2>1, <2>6
<1>3. CASE ~ Inside(t)
  BY <1>1, <1>3 DEF Raise
<1> QED
  BY <1>1, <1>2, <1>3

LEMMA RememberFails ==
  ASSUME SetupInv, KernelsFail, UNCHANGED setup,
         NEW t \in Threads, NEW c, NEW k, c \notin Failing, Remember(t, c, k)
  PROVE  KernelsFail'
<1>1. ASSUME NEW p \in Processes, NEW d \in DOMAIN kernels'[p] PROVE d \notin Failing
  <2>1. CASE p = Proc(t)
    <3>1. kernels'[p] = Bind(kernels[p], c, k)
      BY <2>1 DEF Remember, SetupInv
    <3>2. d \in DOMAIN kernels[p] \cup {c}
      BY <1>1, <3>1 DEF Bind
    <3> QED
      BY <2>1, <3>2 DEF KernelsFail
  <2>2. CASE p # Proc(t)
    BY <1>1, <2>2 DEF Remember, SetupInv, KernelsFail
  <2> QED
    BY <2>1, <2>2
<1> QED
  BY <1>1, KeyDefsStay, FailDefsStay DEF KernelsFail

(* What a future comes to says whether its call compiles.                   *)
LEMMA FinalizeFails ==
  ASSUME MeansInv, Fixed, Fails, UNCHANGED setup, NEW t \in Threads, NEW i \in DOMAIN run[t].futures, Finished(Job(t, i))
  PROVE  /\ run[t].futures[i].call \in Calls
         /\ run[t].futures[i].call \in Failing <=> jobs[Job(t, i)].at = "failed"
         /\ jobs[Job(t, i)].call = run[t].futures[i].call
         /\ jobs[Job(t, i)].at # "failed" /\ Finalize(t, i) => KernelsFail'
<1>1. ModeInv /\ Means
  BY DEF MeansInv
<1>2. jobs[Job(t, i)].call = run[t].futures[i].call /\ Job(t, i) \in DOMAIN jobs
  BY <1>1, HoldsFacts DEF RunMeans
<1>3. JobFails(jobs[Job(t, i)]) /\ jobs[Job(t, i)].at \in {"done", "failed"}
  BY <1>2 DEF Fails, JobsFail, Finished
<1>4. /\ run[t].futures[i].call \in Calls
      /\ run[t].futures[i].call \in Failing <=> jobs[Job(t, i)].at = "failed"
  BY <1>2, <1>3 DEF JobFails
<1>5. jobs[Job(t, i)].at # "failed" /\ Finalize(t, i) => KernelsFail'
  BY <1>1, <1>4, FailFacts, RememberFails DEF Finalize
<1> QED
  BY <1>2, <1>4, <1>5

(*------------------------------- the steps -------------------------------*)

(* Where a block that is not entered ends.                                  *)
LEMMA BlockEnd ==
  ASSUME SetupInv, NEW t \in Threads, NEW s, s = Script(t), NEW n \in Nat \ {0}, n = run[t].pc, OpAt(s, n, "enter")
  PROVE  ExitOf(t) \in Nat \ {0} /\ OpAt(s, ExitOf(t), "exit")
<1>0. /\ Len(s) \in Nat /\ DOMAIN s = 1 .. Len(s)
      /\ \A i \in DOMAIN s : s[i].op = "enter" => \E j \in i + 1 .. Len(s) : IsBlock(s, i, j)
  BY ScriptFacts
<1>1. PICK j \in n + 1 .. Len(s) : IsBlock(s, n, j)
  BY <1>0 DEF OpAt
<1>2. j \in n .. Len(s) /\ IsAt(t, j, "exit")
  BY <1>0, <1>1 DEF IsBlock, IsAt
<1>3. \A k \in n .. j - 1 : ~ IsAt(t, k, "exit")
  <2> TAKE k \in n .. j - 1
  <2>1. k = n \/ k \in n + 1 .. j - 1
    BY <1>0, <1>1
  <2> QED
    BY <1>1, <2>1 DEF IsBlock, IsAt, OpAt
<1>4. ExitOf(t) \in n .. Len(s) /\ IsAt(t, ExitOf(t), "exit")
  BY <1>2, <1>3 DEF ExitOf
<1> QED
  BY <1>0, <1>4 DEF IsAt, OpAt

(* Behind the end of a block there is no batch.                             *)
LEMMA NoBatchAfter ==
  ASSUME NEW s, NEW n \in Nat \ {0}, OpAt(s, n, "exit")
  PROVE  ~ BatchAt(s, n + 1)
<1>1. ~ OpAt(s, n, "enter")
  BY DEF OpAt
<1> QED
  BY <1>1, BatchBefore

LEMMA EnterFails ==
  ASSUME ModeInv, Fails, UNCHANGED setup, NEW t \in Threads, EnterMode(t)
  PROVE  Fails'
<1>1. /\ DOMAIN run[t] = RunFields /\ RunFails(t, run[t]) /\ run[t].at = "ready" /\ run[t].pc \in Nat \ {0}
      /\ OpAt(Script(t), run[t].pc, "enter") /\ SetupInv
  BY FailFacts, DoingAt DEF EnterMode, OpAt
<1>5. ~ run[t].raised
  BY <1>1 DEF RunFails, OpAt
<1>2. UNCHANGED <<setup, jobs, dir>> /\ KernelsFail'
  BY KernelsFailSame DEF EnterMode, cacheVars, Fails
<1>3. CASE run[t].active
  <2> DEFINE r == [run[t] EXCEPT !.pc = ExitOf(t) + 1, !.active = ~ Now(t).batch]
  <2>1. SetRun(t, r)
    BY <1>3 DEF EnterMode
  <2>2. r.futures = run[t].futures /\ r.at = "ready" /\ r.pc = ExitOf(t) + 1 /\ r.raised = run[t].raised
    BY <1>1 DEF RunFields
  <2> HIDE DEF r
  <2>3. ExitOf(t) \in Nat \ {0} /\ OpAt(Script(t), ExitOf(t), "exit")
    BY <1>1, BlockEnd
  <2>4. ~ BatchAt(Script(t), r.pc)
    BY <2>2, <2>3, NoBatchAfter
  <2>5. RunFails(t, r)
    BY <1>1, <1>5, <2>2, <2>4, OtherFails DEF Running
  <2> QED
    BY <1>2, <2>1, <2>5, QuietFails
<1>4. CASE ~ run[t].active
  <2> DEFINE r == [run[t] EXCEPT !.pc = @ + 1, !.active = TRUE, !.open = TRUE,
                                 !.futures = << >>, !.handled = {}, !.got = << >>, !.tuned = {}]
  <2>1. SetRun(t, r)
    BY <1>4 DEF EnterMode
  <2>2. /\ r.futures = << >> /\ r.at = "ready" /\ r.active = TRUE /\ r.open = TRUE
        /\ r.got = << >> /\ r.tuned = {} /\ r.pc = run[t].pc + 1 /\ r.raised = run[t].raised
    BY <1>1 DEF RunFields
  <2> HIDE DEF r
  <2>3. DOMAIN r.futures = {} /\ DOMAIN r.got = {}
    BY <2>2
  <2>4. TunedAt(Script(t), r.pc) = {} /\ ~ Lost(Script(t), r.pc)
    BY <1>1, <2>2, FreshResults
  <2>6. BatchSound(t, r)
    BY <2>2, <2>3, <2>4 DEF BatchSound
  <2>5. RunFails(t, r)
    BY <1>5, <2>2, <2>3, <2>6 DEF RunFails, Running
  <2> QED
    BY <1>2, <2>1, <2>5, QuietFails
<1> QED
  BY <1>3, <1>4

LEMMA ExitOneFails ==
  ASSUME MeansInv, Fixed, Fails, UNCHANGED setup, NEW t \in Threads, ExitOne(t)
  PROVE  Fails'
<1>1. /\ DOMAIN run[t] = RunFields /\ RunFails(t, run[t]) /\ run[t].at = "ready" /\ ModeInv
      /\ UNCHANGED <<setup, jobs, dir>> /\ OpAt(Script(t), run[t].pc, "exit")
  BY FailFacts, DoingAt DEF ExitOne, Doing, cacheVars, MeansInv, OpAt
<1>2. PICK i \in DOMAIN run[t].futures :
        /\ Finished(Job(t, i))
        /\ IF jobs[Job(t, i)].at = "failed"
             THEN /\ SetRun(t, [run[t] EXCEPT !.at = "shutdown", !.raised = TRUE])
                  /\ UNCHANGED kernels
             ELSE /\ SetRun(t, [run[t] EXCEPT !.handled = @ \cup {i}])
                  /\ Finalize(t, i)
  BY DEF ExitOne
<1>3. CASE jobs[Job(t, i)].at = "failed"
  <2> DEFINE r == [run[t] EXCEPT !.at = "shutdown", !.raised = TRUE]
  <2>1. SetRun(t, r) /\ UNCHANGED kernels
    BY <1>2, <1>3
  <2>2. /\ r.futures = run[t].futures /\ r.at = "shutdown" /\ r.pc = run[t].pc /\ r.got = run[t].got
        /\ r.tuned = run[t].tuned /\ r.raised = TRUE
    BY <1>1 DEF RunFields
  <2> HIDE DEF r
  <2>3. RunFails(t, r)
    BY <1>1, <2>2, SameFails DEF Running
  <2> QED
    BY <1>1, <2>1, <2>3, KernelsFailSame, QuietFails DEF Fails
<1>4. CASE jobs[Job(t, i)].at # "failed"
  <2> DEFINE r == [run[t] EXCEPT !.handled = @ \cup {i}]
  <2>1. SetRun(t, r) /\ Finalize(t, i)
    BY <1>2, <1>4
  <2>2. /\ r.futures = run[t].futures /\ r.at = "ready" /\ r.pc = run[t].pc /\ r.got = run[t].got
        /\ r.tuned = run[t].tuned /\ r.active = run[t].active /\ r.open = run[t].open /\ r.raised = run[t].raised
    BY <1>1 DEF RunFields
  <2> HIDE DEF r
  <2>3. RunFails(t, r)
    BY <1>1, <2>2, SameFails DEF Running
  <2>4. KernelsFail'
    BY <1>2, <1>4, <2>1, FinalizeFails
  <2> QED
    BY <1>1, <2>1, <2>3, <2>4, QuietFails
<1> QED
  BY <1>3, <1>4

LEMMA ExitModeFails ==
  ASSUME ModeInv, Fails, UNCHANGED setup, NEW t \in Threads, ExitMode(t)
  PROVE  Fails'
<1> DEFINE r == [run[t] EXCEPT !.at = "shutdown", !.active = FALSE]
<1>1. DOMAIN run[t] = RunFields /\ RunFails(t, run[t]) /\ UNCHANGED <<setup, jobs, dir>> /\ KernelsFail'
  BY FailFacts, KernelsFailSame DEF ExitMode, cacheVars
<1>2. SetRun(t, r)
  BY DEF ExitMode
<1>3. /\ r.futures = run[t].futures /\ r.at = "shutdown" /\ r.pc = run[t].pc /\ r.got = run[t].got
      /\ r.tuned = run[t].tuned /\ r.raised = run[t].raised
  BY <1>1 DEF RunFields
<1> HIDE DEF r
<1>4. RunFails(t, r)
  BY <1>1, <1>3, SameFails DEF Running
<1> QED
  BY <1>1, <1>2, <1>4, QuietFails

LEMMA ShutdownFails ==
  ASSUME ModeInv, Fails, UNCHANGED setup, NEW t \in Threads, Shutdown(t)
  PROVE  Fails'
<1>1. /\ Same(run[t], Next1(run[t])) /\ Next1(run[t]).at = "ready" /\ Next1(run[t]).pc = run[t].pc + 1
      /\ RunFails(t, run[t]) /\ run[t].pc \in Nat \ {0} /\ OpAt(Script(t), run[t].pc, "exit")
  BY FailFacts DEF Shutdown, At, ModeSound
<1>2. PICK r : /\ SetRun(t, r) /\ r.at = "ready" /\ r.pc = run[t].pc + 1 /\ r.raised = FALSE
               /\ r.futures = run[t].futures \/ r.futures = << >>
  <2> DEFINE r == [Next1(run[t]) EXCEPT !.open = FALSE, !.raised = FALSE, !.active = LeftActive(t),
                                        !.futures = IF LeftActive(t) THEN @ ELSE << >>,
                                        !.handled = {}, !.got = << >>]
  <2>1. SetRun(t, r)
    BY DEF Shutdown
  <2>2. /\ r.at = "ready" /\ r.pc = run[t].pc + 1 /\ r.raised = FALSE
        /\ r.futures = IF LeftActive(t) THEN run[t].futures ELSE << >>
    BY <1>1 DEF Same, RunFields
  <2> HIDE DEF r
  <2> QED
    BY <2>1, <2>2
<1>3. UNCHANGED dir /\ UNCHANGED kernels
  BY DEF Shutdown
<1>4. RunFails(t, r)
  <2>1. ~ BatchAt(Script(t), r.pc)
    BY <1>1, <1>2, NoBatchAfter
  <2> QED
    BY <1>1, <1>2, <2>1, OtherFails DEF Running
<1>5. JobsFail'
  <2>1. CASE LeftActive(t)
    BY <2>1, JobsFailSame DEF Shutdown, Fails
  <2>2. CASE ~ LeftActive(t)
    <3>1. jobs' = [j \in DOMAIN jobs \ JobsOf(t) |-> jobs[j]]
      BY <2>2 DEF Shutdown
    <3> QED
      BY <3>1, JobsRemovedFail DEF Fails
  <2> QED
    BY <2>1, <2>2
<1> QED
  BY <1>2, <1>3, <1>4, <1>5, OneThreadFails, DirFailsSame, KernelsFailSame DEF Fails

(* What a batch does not do.                                                *)
LEMMA NotInBatch ==
  ASSUME ModeInv, Tuning, Fails, NEW t \in Threads, run[t].pc \in DOMAIN Script(t),
         \/ Script(t)[run[t].pc].op \notin {"warmup", "result", "exit"}
         \/ run[t].at \notin {"ready", "key", "check", "shutdown"}
         \/ run[t].at # "shutdown" /\ ~ (run[t].active /\ run[t].open)
  PROVE  ~ BatchAt(Script(t), run[t].pc)
<1> SUFFICES ASSUME BatchAt(Script(t), run[t].pc) PROVE FALSE
  OBVIOUS
<1>1. RunFails(t, run[t]) /\ SetupInv
  BY FailFacts
<1>2. BatchSound(t, run[t])
  BY <1>1 DEF RunFails
<1>3. Script(t)[run[t].pc].op \in {"warmup", "result", "exit"}
  BY <1>1, BatchStatement DEF Tuning
<1> QED
  BY <1>2, <1>3 DEF BatchSound

LEMMA GoOnFails ==
  ASSUME ModeInv, Tuning, Fails, UNCHANGED setup, NEW t \in Threads, LaunchKernel(t) \/ SkipBench(t)
  PROVE  Fails'
<1>1. SetRun(t, Next1(run[t])) /\ UNCHANGED <<jobs, dir, kernels>>
  BY DEF LaunchKernel, SkipBench, cacheVars
<1>2. AtPlain(t) /\ ~ BatchAt(Script(t), run[t].pc)
  <2>1. CASE LaunchKernel(t)
    <3>1. run[t].at = "launch" /\ AtPlain(t)
      BY <2>1, AtRunning DEF LaunchKernel, At, Running
    <3> QED
      BY <3>1, NotInBatch DEF AtPlain
  <2>2. CASE SkipBench(t)
    <3>1. AtPlain(t) /\ Script(t)[run[t].pc].op = "bench"
      BY <2>2, DoingAt, DoingPlain DEF SkipBench
    <3> QED
      BY <3>1, NotInBatch DEF AtPlain
  <2> QED
    BY <2>1, <2>2
<1>3. RunFails(t, Next1(run[t])) /\ KernelsFail'
  BY <1>1, <1>2, NextFails, KernelsFailSame DEF Fails
<1> QED
  BY <1>1, <1>3, QuietFails

(* What a statement calls is one of the calls.                              *)
LEMMA CallIs ==
  ASSUME NEW t \in Threads, run[t].pc \in DOMAIN Script(t), Script(t)[run[t].pc].op \in CallOps
  PROVE  CallOf(t) \in Calls /\ CallOf(t) = Script(t)[run[t].pc].call
BY DEF Calls, CallsOf, CallOf, Now

LEMMA StartFails ==
  ASSUME MeansInv, Fixed, Fails, UNCHANGED setup, NEW t \in Threads, StartRun(t)
  PROVE  Fails'
<1>1. /\ DOMAIN run[t] = RunFields /\ RunFails(t, run[t]) /\ UNCHANGED <<setup, jobs, dir>> /\ KernelsFail'
      /\ KernelsFail /\ KernelsMean /\ Proc(t) \in Processes /\ ModeInv
  BY FailFacts, KernelsFailSame DEF StartRun, cacheVars, MeansInv, Means
<1>2. /\ run[t].pc \in DOMAIN Script(t) /\ Script(t)[run[t].pc].op \in {"warmup", "launch", "bench"}
      /\ run[t].at = "ready"
  BY <1>1, DoingAt DEF StartRun
<1>3. CASE CallOf(t) \in DOMAIN kernels[Proc(t)]
  <2> PICK k : k = kernels[Proc(t)][CallOf(t)]
    OBVIOUS
  <2> DEFINE r == [run[t] EXCEPT !.at = "check", !.kernel = k]
  <2>1. SetRun(t, r)
    BY <1>3 DEF StartRun
  <2>2. /\ r.at = "check" /\ r.kernel = k /\ r.pc = run[t].pc /\ r.futures = run[t].futures
        /\ r.got = run[t].got /\ r.tuned = run[t].tuned /\ r.active = run[t].active /\ r.open = run[t].open /\ r.raised = run[t].raised
    BY <1>1 DEF RunFields
  <2> HIDE DEF r
  <2>3. k = Made(Proc(t), CallOf(t).fn) /\ CallOf(t) \notin Failing
    BY <1>1, <1>3 DEF KernelsMean, KernelsFail
  <2>4. ~ IsFuture(k)
    BY <2>3, MadeComplete
  <2>5. HoldsFor(run[t], k, Script(t)[run[t].pc].call)
    BY <2>3, <2>4 DEF HoldsFor, CallOf, Now
  <2>6. RunFails(t, r)
    BY <1>1, <1>2, <2>2, <2>5, SameFails
  <2> QED
    BY <1>1, <2>1, <2>6, QuietFails
<1>4. CASE CallOf(t) \notin DOMAIN kernels[Proc(t)]
  <2> DEFINE r == [run[t] EXCEPT !.at = "key"]
  <2>1. SetRun(t, r)
    BY <1>4 DEF StartRun
  <2>2. /\ r.at = "key" /\ r.pc = run[t].pc /\ r.futures = run[t].futures
        /\ r.got = run[t].got /\ r.tuned = run[t].tuned /\ r.active = run[t].active /\ r.open = run[t].open /\ r.raised = run[t].raised
    BY <1>1 DEF RunFields
  <2> HIDE DEF r
  <2>3. RunFails(t, r)
    BY <1>1, <1>2, <2>2, SameFails
  <2> QED
    BY <1>1, <2>1, <2>3, QuietFails
<1> QED
  BY <1>3, <1>4

(* A job that begins has failed at nothing yet.                             *)
LEMMA NewJobFails ==
  ASSUME JobsFail, UNCHANGED setup, NEW t \in Threads, CallOf(t) \in Calls, NEW i,
         NEW new, new.call = CallOf(t), new.key = CompileKey(t), new.n = 1, new.at \in {"queued", "lookup"},
         jobs' = Bind(jobs, Job(t, i), new)
  PROVE  JobsFail'
<1>1. JobFails(new)
  BY DEF JobFails, CompileKey, Making
<1>2. \A j \in DOMAIN jobs' : jobs'[j] = new \/ (j \in DOMAIN jobs /\ jobs'[j] = jobs[j])
  BY DEF Bind
<1> QED
  BY <1>1, <1>2, FailDefsStay DEF JobsFail

LEMMA CompileNowFails ==
  ASSUME ModeInv, Tuning, Fails, UNCHANGED setup, NEW t \in Threads, CompileNow(t)
  PROVE  Fails'
<1> DEFINE r == [run[t] EXCEPT !.at = "compile"]
           new == [NewJob(CallOf(t), CompileKey(t)) EXCEPT !.at = "lookup"]
<1>1. DOMAIN run[t] = RunFields /\ RunFails(t, run[t]) /\ run[t].at = "key" /\ ~ run[t].active
  BY FailFacts DEF CompileNow, HasKey, At
<1>2. SetRun(t, r) /\ jobs' = Bind(jobs, Job(t, 0), new) /\ UNCHANGED <<dir, kernels>>
  BY DEF CompileNow
<1>3. r.at = "compile" /\ r.pc = run[t].pc /\ r.futures = run[t].futures /\ r.raised = run[t].raised
  BY <1>1 DEF RunFields
<1>4. new.call = CallOf(t) /\ new.key = CompileKey(t) /\ new.n = 1 /\ new.at = "lookup"
  BY DEF NewJob
<1> HIDE DEF r, new
<1>5. run[t].pc \in DOMAIN Script(t) /\ Script(t)[run[t].pc].op \in {"warmup", "launch", "bench"}
  BY <1>1 DEF RunFails, Running
<1>6. ~ BatchAt(Script(t), r.pc)
  BY <1>1, <1>3, <1>5, NotInBatch
<1>7. RunFails(t, r)
  BY <1>1, <1>3, <1>6, OtherFails DEF RunFails, Running
<1>8. JobsFail'
  BY <1>2, <1>4, <1>5, NewJobFails, CallIs DEF CallOps, Fails
<1> QED
  BY <1>2, <1>7, <1>8, OneThreadFails, DirFailsSame, KernelsFailSame DEF Fails

LEMMA SubmitFails ==
  ASSUME MeansInv, Tuning, Fails, UNCHANGED setup, NEW t \in Threads, Submit(t)
  PROVE  Fails'
<1>1. /\ DOMAIN run[t] = RunFields /\ RunFails(t, run[t]) /\ RunSound(t, run[t]) /\ ModeInv /\ KeysInv /\ Fixed
      /\ RunMeans(t, run[t]) /\ run[t].at = "key" /\ HasKey(t) /\ UNCHANGED <<dir, kernels>>
  BY FailFacts DEF Submit, HasKey, At, MeansInv, Tuning, Means, RunsMean
<1>2. /\ run[t].pc \in DOMAIN Script(t) /\ Script(t)[run[t].pc].op \in {"warmup", "launch", "bench"}
      /\ AtPlain(t) /\ CallOf(t) \in Calls /\ CallOf(t) = Script(t)[run[t].pc].call
  BY <1>1, CallIs DEF RunFails, Running, CallOps, AtPlain
<1>3. DirFails' /\ KernelsFail'
  BY <1>1, DirFailsSame, KernelsFailSame DEF Fails
<1>4. key[t][2] = CallOf(t).fn /\ CompileKey(t)[1] = key[t] /\ CompileKey(t)[2] = CallOf(t).spec
  BY <1>1, HasKeyFacts DEF CompileKey
<1>5. CASE UNCHANGED jobs /\ \E i \in WithKey(t) : SetRun(t, [run[t] EXCEPT !.at = "check", !.kernel = Future(i)])
  <2>1. PICK i \in DOMAIN run[t].futures : /\ SetRun(t, [run[t] EXCEPT !.at = "check", !.kernel = Future(i)])
                                           /\ run[t].futures[i].key = CompileKey(t)
    BY <1>5 DEF WithKey
  <2> DEFINE r == [run[t] EXCEPT !.at = "check", !.kernel = Future(i)]
  <2>2. SetRun(t, r)
    BY <2>1
  <2>3. /\ r.at = "check" /\ r.kernel = Future(i) /\ r.pc = run[t].pc /\ r.futures = run[t].futures
        /\ r.got = run[t].got /\ r.tuned = run[t].tuned /\ r.active = run[t].active /\ r.open = run[t].open /\ r.raised = run[t].raised
    BY <1>1 DEF RunFields
  <2> HIDE DEF r
  <2>4. Alike(run[t].futures[i].call, CallOf(t))
    BY <1>1, <1>4, <2>1 DEF RunMeans, RunFails, Alike
  <2>5. HoldsFor(run[t], r.kernel, Script(t)[run[t].pc].call)
    BY <1>2, <2>3, <2>4 DEF HoldsFor
  <2>6. RunFails(t, r)
    BY <1>1, <1>2, <2>3, <2>5, SameFails
  <2> QED
    BY <1>1, <1>3, <1>5, <2>2, <2>6, QuietFails
<1>6. CASE UNCHANGED jobs /\ ~ run[t].open /\ SetRun(t, Raise(t, run[t]))
  <2>1. RunFails(t, Raise(t, run[t]))
    BY <1>1, <1>2, <1>6, NotInBatch, NextFails
  <2> QED
    BY <1>1, <1>3, <1>6, <2>1, QuietFails
<1>7. CASE \E i \in {Len(run[t].futures) + 1} :
             /\ SetRun(t, [run[t] EXCEPT !.at = "check", !.kernel = Future(i),
                  !.futures = Append(@, [key |-> CompileKey(t), call |-> CallOf(t)])])
             /\ jobs' = Bind(jobs, Job(t, i), NewJob(CallOf(t), CompileKey(t)))
  <2> PICK f : f = [key |-> CompileKey(t), call |-> CallOf(t)]
    OBVIOUS
  <2> DEFINE i == Len(run[t].futures) + 1
             more == Append(run[t].futures, f)
             r == [run[t] EXCEPT !.at = "check", !.kernel = Future(i), !.futures = more]
             new == NewJob(CallOf(t), CompileKey(t))
  <2>1. SetRun(t, r) /\ jobs' = Bind(jobs, Job(t, i), new)
    BY <1>7
  <2>2. /\ DOMAIN more = DOMAIN run[t].futures \cup {i} /\ more[i] = f
        /\ \A k \in DOMAIN run[t].futures : more[k] = run[t].futures[k] /\ k # i
    <3>1. IsSeq(run[t].futures)
      BY <1>1 DEF RunSound
    <3> QED
      BY <3>1, AppendIs
  <2>3. new.call = CallOf(t) /\ new.key = CompileKey(t) /\ new.n = 1 /\ new.at = "queued"
    BY DEF NewJob
  <2>4. /\ r.at = "check" /\ r.kernel = Future(i) /\ r.pc = run[t].pc /\ r.futures = more
        /\ r.got = run[t].got /\ r.tuned = run[t].tuned /\ r.active = run[t].active /\ r.open = run[t].open /\ r.raised = run[t].raised
    BY <1>1 DEF RunFields
  <2> HIDE DEF i, more, r, new
  <2>5. JobsFail'
    BY <1>2, <2>1, <2>3, NewJobFails DEF Fails
  <2>6. \A k, c : HoldsFor(run[t], k, c) => HoldsFor(r, k, c)
    BY <2>2, <2>4 DEF HoldsFor
  <2>7. HoldsFor(r, r.kernel, Script(t)[r.pc].call)
    BY <1>2, <2>2, <2>4 DEF HoldsFor, Alike
  <2>8. \A k \in DOMAIN r.futures : r.futures[k].key[2] = r.futures[k].call.spec /\ r.futures[k].call \in Calls
    BY <1>1, <1>2, <1>4, <2>2, <2>4 DEF RunFails
  <2>9. BatchAt(Script(t), r.pc) => BatchSound(t, r)
    BY <1>1, <2>4, <2>6 DEF RunFails, BatchSound
  <2>10. RunFails(t, r)
    BY <1>1, <1>2, <2>4, <2>7, <2>8, <2>9 DEF RunFails
  <2> QED
    BY <1>1, <1>3, <2>1, <2>5, <2>10, OneThreadFails DEF Fails
<1> QED
  BY <1>5, <1>6, <1>7 DEF Submit

LEMMA CompiledFails ==
  ASSUME MeansInv, Tuning, Fails, UNCHANGED setup, NEW t \in Threads, Compiled(t)
  PROVE  Fails'
<1>1. /\ DOMAIN run[t] = RunFields /\ RunFails(t, run[t]) /\ RunSound(t, run[t]) /\ ModeInv
      /\ SetupInv /\ KernelsFail /\ RunMeans(t, run[t]) /\ JobsMean /\ run[t].at = "compile" /\ Finished(Job(t, 0))
      /\ jobs' = [j \in DOMAIN jobs \ {Job(t, 0)} |-> jobs[j]] /\ UNCHANGED dir
  BY FailFacts DEF Compiled, At, MeansInv, Tuning, Means, RunsMean
<1>2. /\ run[t].pc \in DOMAIN Script(t) /\ Script(t)[run[t].pc].op \in {"warmup", "launch", "bench"}
      /\ AtPlain(t) /\ CallOf(t) = Script(t)[run[t].pc].call
  BY <1>1 DEF RunFails, Running, AtPlain, CallOf, Now
<1>3. ~ BatchAt(Script(t), run[t].pc)
  BY <1>1, <1>2, NotInBatch
<1>4. DirFails' /\ JobsFail'
  BY <1>1, DirFailsSame, JobsRemovedFail DEF Fails
<1>5. CASE jobs[Job(t, 0)].at = "failed"
  <2>1. SetRun(t, Raise(t, run[t])) /\ UNCHANGED kernels
    BY <1>5 DEF Compiled
  <2>2. RunFails(t, Raise(t, run[t]))
    BY <1>1, <1>2, <1>3, NextFails
  <2>3. KernelsFail'
    BY <1>1, <2>1, KernelsFailSame
  <2> QED
    BY <1>1, <1>4, <2>1, <2>2, <2>3, OneThreadFails DEF Fails
<1>6. CASE jobs[Job(t, 0)].at # "failed"
  <2> PICK k : k = jobs[Job(t, 0)].kernel
    OBVIOUS
  <2> DEFINE r == [run[t] EXCEPT !.at = "check", !.kernel = k]
  <2>1. SetRun(t, r) /\ Remember(t, CallOf(t), k)
    BY <1>6 DEF Compiled
  <2>2. r.at = "check" /\ r.kernel = k /\ r.pc = run[t].pc /\ r.futures = run[t].futures /\ r.raised = run[t].raised
    BY <1>1 DEF RunFields
  <2> HIDE DEF r
  <2>3. Job(t, 0) \in DOMAIN jobs /\ jobs[Job(t, 0)].call = CallOf(t)
    BY <1>1, <1>2 DEF RunSound, RunMeans
  <2>4. CallOf(t) \notin Failing
    BY <1>1, <1>6, <2>3 DEF Fails, JobsFail, JobFails, Finished
  <2>5. ~ IsFuture(k)
    BY <1>1, <1>6, <2>3, DoneMeans, MadeComplete
  <2>6. HoldsFor(r, r.kernel, Script(t)[r.pc].call)
    BY <1>2, <2>2, <2>4, <2>5 DEF HoldsFor
  <2>7. RunFails(t, r)
    BY <1>1, <1>2, <1>3, <2>2, <2>6 DEF RunFails
  <2>8. KernelsFail'
    BY <1>1, <2>1, <2>4, RememberFails
  <2> QED
    BY <1>1, <1>4, <2>1, <2>7, <2>8, OneThreadFails DEF Fails
<1> QED
  BY <1>5, <1>6

(* The globals a key was made with have the values they have.               *)
LEMMA GlobalsDoMatch ==
  ASSUME KeysInv, Fixed, NEW t \in Threads, run[t].pc \in DOMAIN Script(t),
         Script(t)[run[t].pc].op \in {"warmup", "launch", "bench"}
  PROVE  GlobalsMatch(t)
<1>1. setup \in Setups /\ value = setup.globals /\ Proc(t) \in Processes
  BY ThreadHasProcess DEF KeysInv, SetupInv, KeyShapes
<1>2. CallOf(t).fn \in Functions
  BY <1>1, CallAssumption DEF Threads, Script, CallOf, Now, Functions
<1>3. Agrees(Proc(t), used[Proc(t)][CallOf(t).fn])
  BY <1>1, <1>2 DEF KeysInv, TableSound
<1> QED
  BY <1>1, <1>3 DEF GlobalsMatch, Agrees

LEMMA CheckFails ==
  ASSUME MeansInv, Tuning, Fails, UNCHANGED setup, NEW t \in Threads, Check(t)
  PROVE  Fails'
<1>1. /\ DOMAIN run[t] = RunFields /\ RunFails(t, run[t]) /\ ModeInv /\ KeysInv /\ Fixed /\ SetupInv
      /\ run[t].at = "check" /\ run[t].pc \in Nat \ {0}
      /\ Same(run[t], Next1(run[t])) /\ Next1(run[t]).pc = run[t].pc + 1
      /\ Next1(run[t]).at = "ready" /\ Next1(run[t]).tuned = run[t].tuned
      /\ Next1(run[t]).active = run[t].active /\ Next1(run[t]).open = run[t].open
      /\ Next1(run[t]).raised = run[t].raised
      /\ UNCHANGED <<setup, jobs, dir, kernels>>
  BY FailFacts DEF Check, At, MeansInv, Tuning, cacheVars
<1>2. /\ run[t].pc \in DOMAIN Script(t) /\ Script(t)[run[t].pc].op \in {"warmup", "launch", "bench"}
      /\ AtPlain(t) /\ CallOf(t) \in Calls /\ CallOf(t) = Script(t)[run[t].pc].call
      /\ HoldsFor(run[t], run[t].kernel, CallOf(t))
  BY <1>1, CallIs DEF RunFails, Running, CallOps, AtPlain
<1>3. GlobalsMatch(t) /\ KernelsFail' /\ ~ run[t].raised
  BY <1>1, <1>2, GlobalsDoMatch, KernelsFailSame, FailFacts DEF Fails
<1>4. CASE Script(t)[run[t].pc].op = "warmup"
  <2> PICK c : c = CallOf(t)
    OBVIOUS
  <2> DEFINE r == [Next1(run[t]) EXCEPT !.got = Bind(@, c, run[t].kernel)]
  <2>1. SetRun(t, r)
    BY <1>3, <1>4 DEF Check, Now
  <2>2. /\ r.at = "ready" /\ r.pc = run[t].pc + 1 /\ r.futures = run[t].futures
        /\ r.got = Bind(run[t].got, c, run[t].kernel) /\ r.tuned = run[t].tuned
        /\ r.active = run[t].active /\ r.open = run[t].open /\ r.raised = run[t].raised
    BY <1>1 DEF Same, RunFields
  <2> HIDE DEF r
  <2>3. CASE ~ BatchAt(Script(t), run[t].pc)
    <3>1. ~ BatchAt(Script(t), r.pc)
      BY <1>1, <1>2, <2>2, <2>3, NoBatchBehind
    <3>2. RunFails(t, r)
      BY <1>1, <1>3, <2>2, <3>1, OtherFails DEF Running
    <3> QED
      BY <1>1, <1>3, <2>1, <3>2, QuietFails
  <2>4. CASE BatchAt(Script(t), run[t].pc)
    <3>1. BatchSound(t, run[t])
      BY <1>1, <2>4 DEF RunFails
    <3>2. TunedAt(Script(t), r.pc) = TunedAt(Script(t), run[t].pc) /\ (Lost(Script(t), r.pc) <=> Lost(Script(t), run[t].pc))
      BY <1>1, <1>4, <2>2, <2>4, OtherStatement DEF OpAt
    <3>3. /\ DOMAIN r.got = DOMAIN run[t].got \cup {c}
          /\ \A d \in DOMAIN r.got : r.got[d] = IF d = c THEN run[t].kernel ELSE run[t].got[d]
      BY <2>2 DEF Bind
    <3>4. \A k, d : HoldsFor(run[t], k, d) => HoldsFor(r, k, d)
      BY <2>2 DEF HoldsFor
    <3>5. \A d \in DOMAIN r.got : d \in Calls /\ HoldsFor(r, r.got[d], d)
      BY <1>2, <3>1, <3>3, <3>4 DEF BatchSound
    <3>6. BatchSound(t, r)
      BY <1>1, <2>2, <3>1, <3>2, <3>5 DEF BatchSound
    <3>7. RunFails(t, r)
      BY <1>1, <1>3, <2>2, <3>6 DEF RunFails, Running
    <3> QED
      BY <1>1, <1>3, <2>1, <3>7, QuietFails
  <2> QED
    BY <2>3, <2>4
<1>5. CASE Script(t)[run[t].pc].op # "warmup"
  <2> PICK a : a = IF IsFuture(run[t].kernel) THEN "await" ELSE "launch"
    OBVIOUS
  <2> DEFINE r == [run[t] EXCEPT !.at = a]
  <2>1. SetRun(t, r)
    BY <1>3, <1>5 DEF Check, Now
  <2>2. r.at \in {"await", "launch"} /\ r.pc = run[t].pc /\ r.futures = run[t].futures /\ r.raised = run[t].raised
    BY <1>1 DEF RunFields
  <2> HIDE DEF r
  <2>3. ~ BatchAt(Script(t), r.pc)
    BY <1>1, <1>2, <1>5, <2>2, NotInBatch
  <2>4. RunFails(t, r)
    BY <1>1, <1>3, <2>2, <2>3, OtherFails DEF Running
  <2> QED
    BY <1>1, <1>3, <2>1, <2>4, QuietFails
<1> QED
  BY <1>4, <1>5

LEMMA AwaitFails ==
  ASSUME MeansInv, Tuning, Fails, UNCHANGED setup, NEW t \in Threads, Await(t)
  PROVE  Fails'
<1>1. /\ DOMAIN run[t] = RunFields /\ RunFails(t, run[t]) /\ ModeInv /\ Fixed
      /\ RunMeans(t, run[t]) /\ run[t].at = "await" /\ UNCHANGED <<setup, jobs, dir>>
  BY FailFacts DEF Await, At, MeansInv, Tuning, Means, RunsMean, cacheVars
<1>2. /\ run[t].pc \in DOMAIN Script(t) /\ Script(t)[run[t].pc].op \in {"warmup", "launch", "bench"} /\ AtPlain(t)
  BY <1>1 DEF RunFails, Running, AtPlain
<1>3. ~ BatchAt(Script(t), run[t].pc)
  BY <1>1, <1>2, NotInBatch
<1>4. PICK i \in DOMAIN run[t].futures : run[t].kernel = Future(i)
  BY <1>1 DEF RunMeans, FutureFor
<1>5. run[t].kernel[2] = i
  BY <1>4 DEF Future
<1>6. CASE jobs[Job(t, i)].at = "failed"
  <2>1. SetRun(t, Raise(t, run[t])) /\ UNCHANGED kernels
    BY <1>5, <1>6 DEF Await
  <2>2. RunFails(t, Raise(t, run[t])) /\ KernelsFail'
    BY <1>1, <1>2, <1>3, <2>1, NextFails, KernelsFailSame DEF Fails
  <2> QED
    BY <1>1, <2>1, <2>2, QuietFails
<1>7. CASE jobs[Job(t, i)].at # "failed"
  <2> PICK k : k = jobs[Job(t, i)].kernel
    OBVIOUS
  <2> DEFINE r == [run[t] EXCEPT !.at = "launch", !.kernel = k]
  <2>1. SetRun(t, r) /\ Finalize(t, i) /\ Finished(Job(t, i))
    BY <1>5, <1>7 DEF Await
  <2>2. r.futures = run[t].futures /\ r.at = "launch" /\ r.pc = run[t].pc /\ r.raised = run[t].raised
    BY <1>1 DEF RunFields
  <2> HIDE DEF r
  <2>3. ~ BatchAt(Script(t), r.pc)
    BY <1>3, <2>2
  <2>4. RunFails(t, r)
    BY <1>1, <2>2, <2>3, OtherFails DEF RunFails, Running
  <2>5. KernelsFail'
    BY <1>1, <1>7, <2>1, FinalizeFails
  <2> QED
    BY <1>1, <2>1, <2>4, <2>5, QuietFails
<1> QED
  BY <1>6, <1>7

LEMMA ResultFails ==
  ASSUME MeansInv, Tuning, Fails, UNCHANGED setup, NEW t \in Threads, TakeResult(t)
  PROVE  Fails'
<1> DEFINE c == CallOf(t)
           k == run[t].got[c]
           r == [Next1(run[t]) EXCEPT !.tuned = @ \cup {c}]
<1>1. /\ DOMAIN run[t] = RunFields /\ RunFails(t, run[t]) /\ ModeInv /\ Fixed /\ SetupInv /\ RunSound(t, run[t])
      /\ run[t].pc \in Nat \ {0}
      /\ Same(run[t], Next1(run[t])) /\ Next1(run[t]).pc = run[t].pc + 1
      /\ Next1(run[t]).at = "ready" /\ Next1(run[t]).tuned = run[t].tuned
      /\ Next1(run[t]).active = run[t].active /\ Next1(run[t]).open = run[t].open
      /\ Next1(run[t]).raised = run[t].raised
      /\ UNCHANGED <<setup, jobs, dir>> /\ c \in DOMAIN run[t].got
  BY FailFacts DEF TakeResult, MeansInv, Tuning, cacheVars
<1>2. /\ run[t].pc \in DOMAIN Script(t) /\ Script(t)[run[t].pc].op = "result" /\ run[t].at = "ready"
      /\ AtPlain(t) /\ c = Script(t)[run[t].pc].call /\ OpAt(Script(t), run[t].pc, "result")
      /\ ~ OpAt(Script(t), run[t].pc, "exit")
  BY <1>1, DoingAt, DoingPlain DEF TakeResult, CallOf, Now, OpAt
<1>3. /\ r.pc = run[t].pc + 1 /\ r.at = "ready" /\ r.futures = run[t].futures /\ r.got = run[t].got
      /\ r.tuned = run[t].tuned \cup {c} /\ r.active = run[t].active /\ r.open = run[t].open
      /\ r.raised = run[t].raised /\ ~ run[t].raised
  BY <1>1, <1>2, FailFacts DEF Same, RunFields
<1> HIDE DEF r
<1>4. ASSUME BatchAt(Script(t), run[t].pc)
      PROVE  /\ BatchSound(t, run[t]) /\ HoldsFor(run[t], k, c) /\ c \in Calls
             /\ ~ Lost(Script(t), run[t].pc)
  BY <1>1, <1>3, <1>4 DEF RunFails, BatchSound
<1>5. BatchAt(Script(t), run[t].pc + 1) => BatchAt(Script(t), run[t].pc)
  BY <1>1, <1>2, NoBatchBehind
(* It compiles: it is to be tuned.                                          *)
<1>6. ASSUME BatchAt(Script(t), run[t].pc) => c \notin Failing PROVE RunFails(t, r)
  <2>1. CASE ~ BatchAt(Script(t), run[t].pc)
    BY <1>1, <1>3, <1>5, <2>1, OtherFails DEF Running
  <2>2. CASE BatchAt(Script(t), run[t].pc)
    <3>1. \A x, d : HoldsFor(run[t], x, d) => HoldsFor(r, x, d)
      BY <1>3 DEF HoldsFor
    <3>2. BatchSound(t, run[t]) /\ c \notin Failing /\ ~ EndsBatch(c)
      BY <1>4, <1>6, <2>2 DEF EndsBatch
    <3>3. \A d \in DOMAIN r.got : d \in Calls /\ HoldsFor(r, r.got[d], d)
      BY <1>3, <3>1, <3>2 DEF BatchSound
    <3>4. /\ TunedAt(Script(t), r.pc) = TunedAt(Script(t), run[t].pc) \cup ({c} \ Failing)
          /\ ~ Lost(Script(t), r.pc)
      BY <1>1, <1>2, <1>3, <1>4, <2>2, <3>2, TakenStatement
    <3>5. r.tuned = TunedAt(Script(t), r.pc)
      BY <1>3, <3>2, <3>4 DEF BatchSound
    <3>6. BatchSound(t, r)
      BY <1>2, <1>3, <3>2, <3>3, <3>4, <3>5 DEF BatchSound
    <3> QED
      BY <1>1, <1>3, <3>6 DEF RunFails, Running
  <2> QED
    BY <2>1, <2>2
(* Its exception is caught: it is left out.                                 *)
<1>7. ASSUME BatchAt(Script(t), run[t].pc) => c \in Failing /\ ~ EndsBatch(c) PROVE RunFails(t, Next1(run[t]))
  <2>1. CASE ~ BatchAt(Script(t), run[t].pc)
    BY <1>1, <1>2, <2>1, NextFails
  <2>2. CASE BatchAt(Script(t), run[t].pc)
    <3> PICK q : q = Next1(run[t])
      OBVIOUS
    <3>1. q.futures = run[t].futures /\ q.got = run[t].got /\ q.tuned = run[t].tuned /\ q.at = "ready"
          /\ q.pc = run[t].pc + 1 /\ q.active = run[t].active /\ q.open = run[t].open /\ ~ q.raised
      BY <1>1, <1>3 DEF Same
    <3>2. \A x, d : HoldsFor(run[t], x, d) => HoldsFor(q, x, d)
      BY <3>1 DEF HoldsFor
    <3>3. BatchSound(t, run[t]) /\ c \in Failing /\ ~ EndsBatch(c)
      BY <1>4, <1>7, <2>2
    <3>4. \A d \in DOMAIN q.got : d \in Calls /\ HoldsFor(q, q.got[d], d)
      BY <3>1, <3>2, <3>3 DEF BatchSound
    <3>5. TunedAt(Script(t), q.pc) = TunedAt(Script(t), run[t].pc) /\ ~ Lost(Script(t), q.pc)
      <4>1. /\ TunedAt(Script(t), q.pc) = TunedAt(Script(t), run[t].pc) \cup ({c} \ Failing)
            /\ ~ Lost(Script(t), q.pc)
        BY <1>1, <1>2, <1>4, <2>2, <3>1, <3>3, TakenStatement
      <4> QED
        BY <3>3, <4>1
    <3>6. BatchSound(t, q)
      BY <1>2, <3>1, <3>3, <3>4, <3>5 DEF BatchSound
    <3>7. RunFails(t, q)
      BY <1>1, <3>1, <3>6 DEF RunFails, Running
    <3> QED
      BY <3>7
  <2> QED
    BY <2>1, <2>2
(* It is not: the block is left, with what is tuned so far.                 *)
<1>10. ASSUME BatchAt(Script(t), run[t].pc) => EndsBatch(c) PROVE RunFails(t, Raise(t, run[t]))
  <2>1. CASE ~ BatchAt(Script(t), run[t].pc)
    BY <1>1, <1>2, <2>1, NextFails
  <2>2. CASE BatchAt(Script(t), run[t].pc)
    <3> PICK e : e = ExitOf(t)
      OBVIOUS
    <3> DEFINE q == [run[t] EXCEPT !.pc = e, !.at = "ready", !.raised = TRUE, !.kernel = NoMeaning]
    <3>1. Inside(t)
      BY <2>2, InsideIs DEF BatchAt, InsideAt
    <3>2. Raise(t, run[t]) = q
      BY <3>1 DEF Raise
    <3>3. q.futures = run[t].futures /\ q.got = run[t].got /\ q.tuned = run[t].tuned /\ q.at = "ready"
          /\ q.pc = e /\ q.active = run[t].active /\ q.open = run[t].open /\ q.raised = TRUE
      BY <1>1 DEF RunFields
    <3> HIDE DEF q
    <3>4. /\ e \in Nat /\ e >= run[t].pc /\ OpAt(Script(t), e, "exit")
          /\ \A m \in run[t].pc .. e - 1 : ~ OpAt(Script(t), m, "exit")
      BY <1>1, <3>1, ExitAhead
    <3>5. e # run[t].pc
      BY <1>2, <3>4
    <3>6. e >= run[t].pc + 1
      BY <1>1, <3>4, <3>5
    <3>7. TunedAt(Script(t), e) = TunedAt(Script(t), run[t].pc)
      BY <1>1, <1>2, <1>4, <1>10, <2>2, <3>4, <3>6, EndStatement
    <3>8. \A x, d : HoldsFor(run[t], x, d) => HoldsFor(q, x, d)
      BY <3>3 DEF HoldsFor
    <3>9. \A d \in DOMAIN q.got : d \in Calls /\ HoldsFor(q, q.got[d], d)
      BY <1>4, <2>2, <3>3, <3>8 DEF BatchSound
    <3>10. BatchSound(t, q)
      BY <1>2, <1>4, <2>2, <3>3, <3>7, <3>9 DEF BatchSound
    <3>11. RunFails(t, q)
      BY <1>1, <3>3, <3>4, <3>10 DEF RunFails, Running
    <3> QED
      BY <3>2, <3>11
  <2> QED
    BY <2>1, <2>2
<1>8. CASE ~ IsFuture(k)
  <2>1. SetRun(t, r) /\ UNCHANGED kernels
    BY <1>8 DEF TakeResult, CallOf, r
  <2>2. BatchAt(Script(t), run[t].pc) => c \notin Failing
    BY <1>4, <1>8 DEF HoldsFor, Future, IsFuture
  <2>3. KernelsFail'
    BY <1>1, <2>1, KernelsFailSame DEF Fails
  <2> QED
    BY <1>1, <1>6, <2>1, <2>2, <2>3, QuietFails
<1>9. CASE IsFuture(k)
  <2>1. Held(run[t], k)
    BY <1>1 DEF RunSound
  <2>2. PICK i \in DOMAIN run[t].futures : k = Future(i)
    BY <1>9, <2>1, CompleteOrNot DEF Held, FutureOf
  <2>3. k[2] = i /\ \A x : k = Future(x) => x = i
    BY <2>2 DEF Future
  <2> PICK error : error = ErrorOf(Job(t, i))
    OBVIOUS
  <2>4. /\ Finished(Job(t, i))
        /\ IF jobs[Job(t, i)].at = "failed"
             THEN /\ SetRun(t, IF error \in Caught THEN Next1(run[t]) ELSE Raise(t, run[t]))
                  /\ UNCHANGED kernels
             ELSE SetRun(t, r) /\ Finalize(t, i)
    BY <1>9, <2>3 DEF TakeResult, CallOf, r
  <2>5. BatchAt(Script(t), run[t].pc) => Alike(run[t].futures[i].call, c) /\ c \in Calls
    BY <1>4, <1>9, <2>3 DEF HoldsFor
  <2> HIDE DEF k, c
  <2>6. /\ run[t].futures[i].call \in Calls
        /\ run[t].futures[i].call \in Failing <=> jobs[Job(t, i)].at = "failed"
        /\ jobs[Job(t, i)].call = run[t].futures[i].call
        /\ jobs[Job(t, i)].at # "failed" /\ Finalize(t, i) => KernelsFail'
    BY <1>1, <2>4, FinalizeFails
  <2>7. ASSUME BatchAt(Script(t), run[t].pc)
        PROVE  /\ c \in Failing <=> jobs[Job(t, i)].at = "failed"
               /\ c \in Failing => (EndsBatch(c) <=> error \notin Caught)
    <3>1. Alike(run[t].futures[i].call, c) /\ Alike(c, run[t].futures[i].call) /\ c \in Calls
      BY <2>5, <2>7 DEF Alike
    <3>2. c \in Failing <=> run[t].futures[i].call \in Failing
      BY <2>6, <3>1 DEF Tuning, FailsByKey
    <3>3. c \in Failing => setup.fails[run[t].futures[i].call] = setup.fails[c]
      BY <2>6, <3>1 DEF Tuning, FailsByKey
    <3> QED
      BY <2>6, <3>2, <3>3 DEF EndsBatch, ErrorOf
  <2>8. CASE jobs[Job(t, i)].at = "failed"
    <3>1. KernelsFail'
      BY <1>1, <2>4, <2>8, KernelsFailSame DEF Fails
    <3>2. CASE error \in Caught
      BY <1>1, <1>7, <2>4, <2>7, <2>8, <3>1, <3>2, QuietFails
    <3>3. CASE error \notin Caught
      BY <1>1, <1>10, <2>4, <2>7, <2>8, <3>1, <3>3, QuietFails
    <3> QED
      BY <3>2, <3>3
  <2>9. CASE jobs[Job(t, i)].at # "failed"
    BY <1>1, <1>6, <2>4, <2>6, <2>7, <2>9, QuietFails
  <2> QED
    BY <2>8, <2>9
<1> QED
  BY <1>8, <1>9

(*-------------------------------- the whole ------------------------------*)

LEMMA RunsFailSame ==
  ASSUME RunsFail, UNCHANGED <<setup, run>>
  PROVE  RunsFail'
<1>1. ASSUME NEW u \in Threads PROVE RunFails(u, run[u])'
  <2> PICK x : x = run[u]
    OBVIOUS
  <2>1. RunFails(u, x)'
    BY FailDefsStay DEF RunsFail
  <2> QED
    BY <2>1 DEF RunFails, BatchSound, HoldsFor
<1> QED
  BY <1>1, KeyDefsStay DEF RunsFail

LEMMA CompilingFails ==
  ASSUME MeansInv, Tuning, Fails, NEW j \in DOMAIN jobs, UNCHANGED setup, Compiling(j)
  PROVE  Fails'
<1>1. JobsFail' /\ DirFails'
  BY StepFails DEF Compiling, Fails
<1>2. UNCHANGED <<run, kernels>>
  BY DEF Compiling
<1> QED
  BY <1>1, <1>2, RunsFailSame, KernelsFailSame DEF Fails

LEMMA TakeJobFails ==
  ASSUME ModeInv, Fails, NEW t, NEW i, Job(t, i) \in DOMAIN jobs, UNCHANGED setup, TakeJob(t, i)
  PROVE  Fails'
<1> PICK j : j = Job(t, i)
  OBVIOUS
<1> PICK old : old = jobs[j]
  OBVIOUS
<1> DEFINE new == [old EXCEPT !.at = "lookup"]
<1>1. jobs' = [jobs EXCEPT ![j] = new] /\ UNCHANGED <<dir, kernels, run>> /\ j \in DOMAIN jobs
  BY DEF TakeJob, To
<1>2. JobFails(old) /\ DOMAIN old = JobFields
  BY <1>1 DEF Fails, JobsFail, ModeInv, CompleteInv, JobInv, JobSound
<1>3. new.key = old.key /\ new.call = old.call /\ new.n = old.n /\ new.at = "lookup"
  BY <1>2 DEF JobFields
<1> HIDE DEF new
<1>4. JobFails(new)
  BY <1>2, <1>3 DEF JobFails, Making
<1>5. JobsFail'
  BY <1>1, <1>4, OneJobFails DEF Fails
<1> QED
  BY <1>1, <1>5, RunsFailSame, DirFailsSame, KernelsFailSame DEF Fails

LEMMA IdleFails == ASSUME NEW t PROVE RunFails(t, Idle) /\ RunFails(t, Idle)'
<1>1. Idle.at = "ready" /\ Idle.futures = << >> /\ Idle.pc = 1 /\ Idle.raised = FALSE
  BY DEF Idle
<1>2. DOMAIN Idle.futures = {}
  BY <1>1
<1>3. ~ BatchAt(Script(t), 1) /\ ~ BatchAt(Script(t), 1)'
  BY DEF BatchAt
<1> QED
  BY <1>1, <1>2, <1>3 DEF RunFails, Running

LEMMA CrashFails ==
  ASSUME ModeInv, Fails, NEW p \in Processes, Crash(p)
  PROVE  Fails'
<1>1. /\ UNCHANGED <<setup, dir>>
      /\ jobs' = [j \in {i \in DOMAIN jobs : Proc(i[1]) # p} |-> jobs[j]]
      /\ kernels' = [kernels EXCEPT ![p] = << >>]
      /\ run' = [t \in Threads |-> IF Proc(t) = p THEN Idle ELSE run[t]]
  BY DEF Crash
<1> DEFINE S == {i \in DOMAIN jobs : Proc(i[1]) # p}
<1>2. S \subseteq DOMAIN jobs /\ jobs' = [j \in S |-> jobs[j]]
  BY <1>1
<1>3. JobsFail' /\ DirFails'
  BY <1>1, <1>2, JobsRemovedFail, DirFailsSame DEF Fails
<1>4. KernelsFail'
  <2>1. \A q \in Processes : \A c \in DOMAIN kernels'[q] : c \notin Failing
    <3> SUFFICES ASSUME NEW q \in Processes, NEW c \in DOMAIN kernels'[q] PROVE c \notin Failing
      OBVIOUS
    <3>1. DOMAIN kernels = Processes
      BY DEF ModeInv, CompleteInv, SetupInv
    <3>2. CASE q = p
      <4>1. kernels'[q] = << >>
        BY <1>1, <3>1, <3>2
      <4>2. DOMAIN kernels'[q] = {}
        BY <4>1
      <4> QED
        BY <4>2
    <3>3. CASE q # p
      <4>1. kernels'[q] = kernels[q]
        BY <1>1, <3>1, <3>3
      <4> QED
        BY <4>1 DEF Fails, KernelsFail
    <3> QED
      BY <3>2, <3>3
  <2> QED
    BY <1>1, <2>1, KeyDefsStay, FailDefsStay DEF KernelsFail
<1>5. ASSUME NEW u \in Threads PROVE RunFails(u, run[u])'
  <2>1. CASE Proc(u) = p
    <3>1. run'[u] = Idle
      BY <1>1, <2>1
    <3> QED
      BY <3>1, IdleFails
  <2>2. CASE Proc(u) # p
    <3> PICK x : x = run[u]
      OBVIOUS
    <3>1. RunFails(u, x)'
      BY <1>1, FailDefsStay DEF Fails, RunsFail
    <3>2. run'[u] = x
      BY <1>1, <2>2
    <3> QED
      BY <3>1, <3>2 DEF RunFails, BatchSound, HoldsFor
  <2> QED
    BY <2>1, <2>2
<1>6. RunsFail'
  BY <1>1, <1>5, KeyDefsStay DEF RunsFail
<1> QED
  BY <1>3, <1>4, <1>6 DEF Fails

LEMMA FailInit == Init => FailInv
<1> SUFFICES ASSUME Init PROVE Fails
  BY MeansInit DEF FailInv
<1>1. JobsFail /\ DirFails
  BY DEF Init, InitCache, JobsFail, DirFails
<1>2. KernelsFail
  BY DEF Init, KernelsFail
<1>3. RunsFail
  BY IdleFails DEF Init, RunsFail
<1> QED
  BY <1>1, <1>2, <1>3 DEF Fails

LEMMA FailNext == FailInv /\ [Next]_vars => FailInv'
<1> SUFFICES ASSUME FailInv, [Next]_vars PROVE FailInv'
  OBVIOUS
<1>0. MeansInv /\ MeansInv' /\ ModeInv
  BY MeansNext DEF FailInv, MeansInv
<1>1. UNCHANGED setup
  BY DEF Next, ThreadStep, WorkerStep, Crash, vars
<1> SUFFICES ASSUME Tuning PROVE Fails'
  BY <1>0, <1>1, FailDefsStay DEF FailInv
<1>2. Fails /\ Fixed /\ KeysInv
  BY <1>0 DEF FailInv, Tuning, MeansInv
<1>3. CASE UNCHANGED <<jobs, dir, kernels, run>>
  BY <1>1, <1>2, <1>3, JobsFailSame, DirFailsSame, KernelsFailSame, RunsFailSame DEF Fails
<1>4. CASE UNCHANGED vars
  BY <1>3, <1>4 DEF vars, cacheVars
<1>5. ASSUME NEW t \in ThreadIds, ThreadStep(t) PROVE Fails'
  <2>1. t \in Threads
    BY <1>5 DEF ThreadStep
  <2>2. CASE EnterMode(t) \/ ExitOne(t) \/ ExitMode(t) \/ Shutdown(t)
    BY <1>0, <1>1, <1>2, <2>1, <2>2, EnterFails, ExitOneFails, ExitModeFails, ShutdownFails
  <2>3. CASE StartRun(t) \/ CompileNow(t) \/ Submit(t) \/ Compiled(t)
    BY <1>0, <1>1, <1>2, <2>1, <2>3, StartFails, CompileNowFails, SubmitFails, CompiledFails
  <2>4. CASE Check(t) \/ Await(t) \/ LaunchKernel(t) \/ TakeResult(t) \/ SkipBench(t)
    BY <1>0, <1>1, <1>2, <2>1, <2>4, CheckFails, AwaitFails, ResultFails, GoOnFails
  <2>5. CASE Computing(t)
    BY <1>3, <2>5 DEF Computing, cacheVars
  <2>6. CASE Job(t, 0) \in DOMAIN jobs /\ Compiling(Job(t, 0))
    BY <1>0, <1>1, <1>2, <2>6, CompilingFails
  <2>7. CASE KeyFails(t)
    BY <1>2, <2>1, <2>7, HasKeyFacts DEF KeyFails
  <2>8. CASE SetGlobal(t)
    BY <1>0, <1>2, <2>1, <2>8, NothingIsSet
  <2> QED
    BY <1>5, <2>2, <2>3, <2>4, <2>5, <2>6, <2>7, <2>8 DEF ThreadStep
<1>6. ASSUME NEW t \in ThreadIds, NEW i \in 1 .. MaxFutures, WorkerStep(t, i) PROVE Fails'
  BY <1>0, <1>1, <1>2, <1>6, CompilingFails, TakeJobFails DEF WorkerStep
<1>7. ASSUME NEW p \in Processes, Crash(p) PROVE Fails'
  BY <1>0, <1>2, <1>7, CrashFails
<1> QED
  BY <1>4, <1>5, <1>6, <1>7 DEF Next

LEMMA FailSafe == FailInv /\ Tuning => FailuresStayAlone
<1> SUFFICES ASSUME FailInv, Tuning, NEW t \in Threads, At(t, "shutdown"), InBatch(t)
             PROVE  run[t].tuned = {Script(t)[k].call : k \in ReachedBy(t)} \ Failing
  BY DEF FailuresStayAlone
<1>1. Fails /\ ModeInv
  BY DEF FailInv, MeansInv
<1>2. RunFails(t, run[t])
  BY <1>1, FailFacts
<1>3. BatchAt(Script(t), run[t].pc)
  BY DEF InBatch, EnterOf, IsAt, BatchAt, OpAt
<1>4. run[t].tuned = TunedAt(Script(t), run[t].pc)
  BY <1>2, <1>3 DEF RunFails, BatchSound
<1>5. ResultsOf(t) = ResultsAt(Script(t), run[t].pc)
  BY DEF ResultsOf, EnterOf, IsAt, ResultsAt, OpAt
<1>6. ReachedBy(t) = ReachedAt(Script(t), run[t].pc)
  BY <1>5 DEF ReachedBy, ReachedAt
<1> QED
  BY <1>4, <1>6 DEF TunedAt

(* Where no global is set and no function calls itself, calls that compile  *)
(* to one key fail alike, and batches do nothing but compile and take       *)
(* results, as the autotuner's do: when a batch ends, what it has to tune   *)
(* are the configs that compile, up to the first one whose exception its    *)
(* loop does not catch.  A failure it catches keeps none from being tuned,  *)
(* and neither does a kernel that was asked for twice or that comes from    *)
(* the files of another process.                                            *)
THEOREM FailingConfigsStayAlone == Spec => [](Tuning => FailuresStayAlone)
<1>1. FailInv => (Tuning => FailuresStayAlone)
  BY FailSafe
<1> QED
  BY <1>1, FailInit, FailNext, PTL DEF Spec
=============================================================================
