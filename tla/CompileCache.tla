---------------------------- MODULE CompileCache ----------------------------
(***************************************************************************)
(* compile() (compiler.py) and FileCacheManager (cache.py): kernels are     *)
(* compiled stage by stage, every stage puts a file into a directory named  *)
(* by the key, and a group file put last makes the kernel visible to other  *)
(* processes, which may be at work on the same key.  A process may stop     *)
(* between any two steps.                                                   *)
(*                                                                          *)
(* A job is one call of compile(), by the thread itself or by a worker of   *)
(* its executor.  The content of a file is the Meaning that was compiled.   *)
(***************************************************************************)
EXTENDS CacheKey

CONSTANT Outputs   \* extensions of the files of the stages, the binary last

(* One file of each extension, besides the metadata, which is put last.     *)
ASSUME OutputsAssumption ==
  /\ Outputs \in Seq(STRING) /\ Outputs # << >>
  /\ \A i \in DOMAIN Outputs :
       Outputs[i] # "json" /\ \A k \in DOMAIN Outputs : Outputs[i] = Outputs[k] => i = k

(* Calls that do not compile: the file that is not made, and the exception. *)
(* The first file is made by the front end, which raises exceptions of its  *)
(* own; what any later stage raises is wrapped.                             *)
ASSUME FailAssumption ==
  \A s \in Setups : \A c \in DOMAIN s.fails :
    \/ /\ s.fails[c].output = Outputs[1]
       /\ s.fails[c].error \in {"CompilationError", "CompileTimeAssertionFailure"}
    \/ /\ s.fails[c].output \in {Outputs[i] : i \in 2 .. Len(Outputs)}
       /\ s.fails[c].error = "MLIRCompilationError"

VARIABLES
  dir,    \* compile key -> its directory
  jobs    \* job -> its state

cacheVars == <<dir, jobs>>

Binary == Outputs[Len(Outputs)]
Puts == Append(Outputs, "json")
Listed == {Puts[i] : i \in DOMAIN Puts}

NoGroup == {}
Broken == <<"broken">>
Partial == <<"partial">>
NoMeaning == <<"nothing">>

NewJob(c, k) == [call |-> c, key |-> k, at |-> "queued", n |-> 1, group |-> {},
                 meaning |-> NoMeaning, kernel |-> NoMeaning]

Directory(k) == IF k \in DOMAIN dir THEN dir[k] ELSE [files |-> << >>, group |-> NoGroup]
SetDir(d, k, new) == Bind(d, k, new)
SetFile(d, k, file, content) ==
  SetDir(d, k, [Directory(k) EXCEPT !.files = Bind(@, file, content)])

(* get_group: the files of the group that exist                             *)
GetGroup(k) == {f \in Directory(k).group : f \in DOMAIN Directory(k).files}

To(j, at) == [jobs EXCEPT ![j].at = at]

Lookup(j) ==
  /\ jobs[j].at = "lookup"
  /\ \E found \in {GetGroup(jobs[j].key)} :
       jobs' = [jobs EXCEPT ![j].group = found,
                            ![j].at = IF "json" \in found THEN "load" ELSE "stage"]
  /\ UNCHANGED dir

Failing == DOMAIN setup.fails
FailsAt(c, file) == c \in Failing /\ setup.fails[c].output = file

(* A stage: the first (make_ir) reads the sources and globals; each may     *)
(* raise, and the job ends without its file.                                *)
Stage(j, p) ==
  /\ jobs[j].at = "stage"
  /\ jobs' = IF FailsAt(jobs[j].call, Puts[jobs[j].n]) THEN To(j, "failed")
             ELSE [jobs EXCEPT ![j].meaning = IF jobs[j].n = 1 THEN Meaning(p, jobs[j].call.fn) ELSE @,
                               ![j].at = "put"]
  /\ UNCHANGED dir

(* The file is written where others look for it.                            *)
PutInPlace(j) ==
  /\ jobs[j].at = "put"
  /\ jobs' = To(j, "rename")
  /\ dir' = SetFile(dir, jobs[j].key, Puts[jobs[j].n], Partial)

(* put: a temporary file of this call's own is written in full ...          *)
Put(j) ==
  /\ jobs[j].at = "put"
  /\ jobs' = To(j, "rename")
  /\ UNCHANGED dir

(* ... and moved to its place.                                              *)
Rename(j) ==
  /\ jobs[j].at = "rename"
  /\ LET file == Puts[jobs[j].n] IN
     /\ dir' = SetFile(dir, jobs[j].key, file, jobs[j].meaning)
     /\ jobs' = [jobs EXCEPT ![j].group = @ \cup {file},
                             ![j].n = @ + 1,
                             ![j].at = IF jobs[j].n = Len(Puts) THEN "group" ELSE "stage"]

PutGroup(j) ==
  /\ jobs[j].at = "group"
  /\ dir' = SetDir(dir, jobs[j].key, [Directory(jobs[j].key) EXCEPT !.group = jobs[j].group])
  /\ jobs' = To(j, "load")

(* CompiledKernel reads every file of the group.                            *)
Read(d, group) ==
  IF Listed \subseteq group /\ \A f \in Listed : d.files[f] # Partial
    THEN d.files[Binary] ELSE Broken

Load(j) ==
  /\ jobs[j].at = "load"
  /\ jobs' = [jobs EXCEPT ![j].kernel = Read(Directory(jobs[j].key), jobs[j].group),
                          ![j].at = "done"]
  /\ UNCHANGED dir

JobStep(j, p) == Lookup(j) \/ Stage(j, p) \/ Put(j) \/ Rename(j) \/ PutGroup(j) \/ Load(j)

Finished(j) == jobs[j].at \in {"done", "failed"}

InitCache == dir = << >> /\ jobs = << >>
=============================================================================
