---------------------------- MODULE HikeLoader ----------------------------
(***************************************************************************)
(* hikec -compile-fork: loadWithCompileFork of pkg/loader.  The caller's   *)
(* goroutine parses the entry package; an import starts a goroutine, the   *)
(* package's job, which parses its files and starts jobs for the imports   *)
(* it meets; the caller collects the jobs in the order they were started.  *)
(* Goroutines interleave at the loader's two mutexes.                      *)
(*                                                                         *)
(* A package is a directory, a file what it imports.  Imports that do not  *)
(* resolve are skipped by the code and left out here; go:replace           *)
(* directives (Go-Hike mode) are not modelled.                             *)
(***************************************************************************)
EXTENDS Integers, Sequences, SequencesExt

CONSTANTS
  Dirs,        \* the package directories
  Entry,       \* the directory of the entry package
  Root,        \* the goroutine that called Load
  FilesOf,     \* [Dirs -> the sequence of its source files]
  ImportsOf,   \* [Files -> the sequence of directories it imports]
  NativeDirs   \* the packages with native dependencies

ASSUME EntryAssumption == Entry \in Dirs
ASSUME RootAssumption == Root \notin Dirs
ASSUME NativeAssumption == NativeDirs \subseteq Dirs

Files == UNION {ToSet(FilesOf[d]) : d \in Dirs}
Routines == Dirs \cup {Root}

ASSUME FilesAssumption == FilesOf \in [Dirs -> Seq(Files)]
ASSUME ImportsAssumption == ImportsOf \in [Files -> Seq(Dirs)]

VARIABLES
  bad,       \* the files that do not parse and the directories that cannot be read
  visited,   \* visitedFiles
  jobs,      \* packageOrder, which lists the keys of packageJobs
  native,    \* nativeDeps
  pc,        \* [Routines -> where the goroutine is]
  todo,      \* [Routines -> the files it has still to parse]
  imports,   \* [Routines -> the imports of its current file it has still to start]
  files,     \* [Routines -> the files it has loaded]
  done,      \* the jobs whose done channel is closed
  failed,    \* the jobs whose err is set
  phase,     \* what Load is doing
  merged     \* the files appended so far, and how many jobs they come from
vars == <<bad, visited, jobs, native, pc, todo, imports, files, done, failed, phase, merged>>

Collected == merged.jobs

\* collectEntryFiles: the entry file first, then the others of its directory.
EntryFiles == FilesOf[Entry]

TypeOK ==
  /\ bad \subseteq Files \cup Dirs
  /\ visited \subseteq Files
  /\ jobs \in Seq(Dirs) /\ IsInjective(jobs)
  /\ native \in Seq(NativeDirs) /\ IsInjective(native)
  /\ pc \in [Routines -> {"unborn", "list", "visit", "parse", "resolve", "start", "ended"}]
  /\ \A d \in Dirs : pc[d] = "unborn" <=> d \notin ToSet(jobs)
  /\ todo \in [Routines -> Seq(Files)]
  /\ imports \in [Routines -> Seq(Dirs)]
  /\ files \in [Routines -> Seq(Files)]
  /\ failed \subseteq done /\ done \subseteq ToSet(jobs)
  /\ phase \in {"parse", "collect", "loaded", "failed"}
  /\ merged \in [files : Seq(Files), jobs : 0 .. Len(jobs)]

Init ==
  /\ bad \in SUBSET (Files \cup (Dirs \ {Entry}))
  /\ visited = {}
  /\ jobs = << >>
  /\ native = << >>
  /\ pc = [r \in Routines |-> IF r = Root THEN "visit" ELSE "unborn"]
  /\ todo = [r \in Routines |-> IF r = Root THEN EntryFiles ELSE << >>]
  /\ imports = [r \in Routines |-> << >>]
  /\ files = [r \in Routines |-> << >>]
  /\ done = {}
  /\ failed = {}
  /\ phase = "parse"
  /\ merged = [files |-> << >>, jobs |-> 0]

Goto(r, place) == pc' = [pc EXCEPT ![r] = place]

-----------------------------------------------------------------------------
(* A goroutine                                                             *)

\* Mutant: the error return leaves the done channel open.
ErrNotClosed(r) ==
  /\ Goto(r, "ended")
  /\ IF r = Root
       THEN phase' = "failed" /\ UNCHANGED failed
       ELSE failed' = failed /\ UNCHANGED phase
  /\ UNCHANGED done

\* An error ends a job, which closes done all the same, or Load itself.
Err(r) ==
  /\ Goto(r, "ended")
  /\ IF r = Root
       THEN phase' = "failed" /\ UNCHANGED <<done, failed>>
       ELSE done' = done \cup {r} /\ failed' = failed \cup {r} /\ UNCHANGED phase

\* findHikeFilesInDir
ListFiles(d) ==
  /\ pc[d] = "list"
  /\ IF d \in bad
       THEN Err(d) /\ UNCHANGED todo
       ELSE /\ Goto(d, "visit")
            /\ todo' = [todo EXCEPT ![d] = FilesOf[d]]
            /\ UNCHANGED <<done, failed, phase>>
  /\ UNCHANGED <<bad, visited, jobs, native, imports, files, merged>>

\* Mutant: the file is looked up but not entered.
VisitWithoutEntry(r) ==
  /\ pc[r] = "visit" /\ todo[r] # << >>
  /\ IF Head(todo[r]) \in visited
       THEN todo' = [todo EXCEPT ![r] = Tail(@)] /\ UNCHANGED pc
       ELSE Goto(r, "parse") /\ UNCHANGED todo
  /\ UNCHANGED <<bad, visited, jobs, native, imports, files, done, failed, phase, merged>>

\* parseFile under the mutex: a file another goroutine has entered counts as empty.
Visit(r) ==
  /\ pc[r] = "visit" /\ todo[r] # << >>
  /\ IF Head(todo[r]) \in visited
       THEN todo' = [todo EXCEPT ![r] = Tail(@)] /\ UNCHANGED <<visited, pc>>
       ELSE /\ visited' = visited \cup {Head(todo[r])}
            /\ Goto(r, "parse")
            /\ UNCHANGED todo
  /\ UNCHANGED <<bad, jobs, native, imports, files, done, failed, phase, merged>>

\* parseFile after it: read and parse.
Parse(r) ==
  /\ pc[r] = "parse"
  /\ IF Head(todo[r]) \in bad
       THEN Err(r) /\ UNCHANGED <<todo, imports, files>>
       ELSE /\ Goto(r, "resolve")
            /\ todo' = [todo EXCEPT ![r] = Tail(@)]
            /\ imports' = [imports EXCEPT ![r] = ImportsOf[Head(todo[r])]]
            /\ files' = [files EXCEPT ![r] = Append(@, Head(todo[r]))]
            /\ UNCHANGED <<done, failed, phase>>
  /\ UNCHANGED <<bad, visited, jobs, native, merged>>

\* Mutant: nativeDeps is not searched first.
RecordAgain(d) == IF d \in NativeDirs THEN Append(native, d) ELSE native

\* recordNativePackage under nativeMu.
RecordNative(d) == IF d \in NativeDirs \ ToSet(native) THEN Append(native, d) ELSE native

\* startImports: resolve the next import and record its native dependencies.
Resolve(r) ==
  /\ pc[r] = "resolve" /\ imports[r] # << >>
  /\ native' = RecordNative(Head(imports[r]))
  /\ Goto(r, "start")
  /\ UNCHANGED <<bad, visited, jobs, todo, imports, files, done, failed, phase, merged>>

\* startImports under the mutex: the first import of a package starts its job.
Start(r) ==
  /\ pc[r] = "start"
  /\ LET d == Head(imports[r]) IN
       IF d \in ToSet(jobs)
         THEN Goto(r, "resolve") /\ UNCHANGED jobs
         ELSE /\ jobs' = Append(jobs, d)
              /\ pc' = [pc EXCEPT ![r] = "resolve", ![d] = "list"]
  /\ imports' = [imports EXCEPT ![r] = Tail(@)]
  /\ UNCHANGED <<bad, visited, native, todo, files, done, failed, phase, merged>>

NextFile(r) ==
  /\ pc[r] = "resolve" /\ imports[r] = << >>
  /\ Goto(r, "visit")
  /\ UNCHANGED <<bad, visited, jobs, native, todo, imports, files, done, failed, phase, merged>>

\* The last file is parsed: the job's files are published by closing done;
\* Load appends the entry package's files and turns to the jobs.
End(r) ==
  /\ pc[r] = "visit" /\ todo[r] = << >>
  /\ Goto(r, "ended")
  /\ IF r = Root
       THEN /\ phase' = "collect"
            /\ merged' = [merged EXCEPT !.files = files[Root]]
            /\ UNCHANGED done
       ELSE done' = done \cup {r} /\ UNCHANGED <<phase, merged>>
  /\ UNCHANGED <<bad, visited, jobs, native, todo, imports, files, failed>>

-----------------------------------------------------------------------------
(* Load collects the jobs                                                  *)

\* Mutant: job.err is not looked at.
CollectAnyway ==
  /\ phase = "collect" /\ Collected < Len(jobs)
  /\ LET d == jobs[Collected + 1] IN
       /\ d \in done
       /\ merged' = [files |-> merged.files \o files[d], jobs |-> Collected + 1]
  /\ UNCHANGED <<bad, visited, jobs, native, pc, todo, imports, files, done, failed, phase>>

\* Mutant: done is not waited for.
CollectEarly ==
  /\ phase = "collect" /\ Collected < Len(jobs)
  /\ LET d == jobs[Collected + 1] IN
       IF d \in failed
         THEN phase' = "failed" /\ UNCHANGED merged
         ELSE /\ merged' = [files |-> merged.files \o files[d], jobs |-> Collected + 1]
              /\ UNCHANGED phase
  /\ UNCHANGED <<bad, visited, jobs, native, pc, todo, imports, files, done, failed>>

Collect ==
  /\ phase = "collect" /\ Collected < Len(jobs)
  /\ LET d == jobs[Collected + 1] IN
       /\ d \in done
       /\ IF d \in failed
            THEN phase' = "failed" /\ UNCHANGED merged
            ELSE /\ merged' = [files |-> merged.files \o files[d], jobs |-> Collected + 1]
                 /\ UNCHANGED phase
  /\ UNCHANGED <<bad, visited, jobs, native, pc, todo, imports, files, done, failed>>

\* No job is left in the list, which is read under the mutex.
Finish ==
  /\ phase = "collect" /\ Collected = Len(jobs)
  /\ phase' = "loaded"
  /\ UNCHANGED <<bad, visited, jobs, native, pc, todo, imports, files, done, failed, merged>>

-----------------------------------------------------------------------------
Work(r) == Visit(r) \/ Parse(r) \/ Resolve(r) \/ Start(r) \/ NextFile(r) \/ End(r)

Next ==
  \/ \E r \in Routines : Work(r)
  \/ \E d \in Dirs : ListFiles(d)
  \/ Collect
  \/ Finish

Spec == Init /\ [][Next]_vars

\* The Go scheduler runs every goroutine that is not blocked, and parsing ends.
Fairness ==
  /\ \A r \in Routines : WF_vars(Work(r))
  /\ \A d \in Dirs : WF_vars(ListFiles(d))
  /\ WF_vars(Collect \/ Finish)

FairSpec == Spec /\ Fairness

-----------------------------------------------------------------------------
(* Correctness                                                             *)

Returned == phase \in {"loaded", "failed"}

\* When Load returns a program no job is running any more, although the list
\* it walks grows until the last one ends, and nothing a job loaded is missing.
Quiescent ==
  phase = "loaded" =>
    /\ \A r \in Routines : pc[r] \in {"unborn", "ended"}
    /\ ToSet(merged.files) = visited

\* Load returns whatever fails, and also where packages import each other:
\* jobs never wait for jobs.
LoadReturns == <>Returned
=============================================================================
