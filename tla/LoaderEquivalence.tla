------------------------- MODULE LoaderEquivalence -------------------------
(***************************************************************************)
(* -compile-fork against the sequential loader, on every interleaving.     *)
(* Both load the same sources.  They share nothing, so that the sequential *)
(* one may as well be through before the forked one begins.                *)
(***************************************************************************)
EXTENDS HikeLoader

VARIABLES queue, fileImports, visitedFiles, visitedPkgs, loaded, seqPhase

Sequential ==
  INSTANCE SequentialLoad WITH imports <- fileImports, state <- seqPhase

seqState == <<queue, fileImports, visitedFiles, visitedPkgs, loaded, seqPhase>>

SequentialOver == seqPhase \in {"loaded", "failed"}

BothInit == Init /\ Sequential!SeqInit

SequentialStep ==
  /\ Sequential!SeqNext
  /\ UNCHANGED <<visited, jobs, native, pc, todo, imports, files, done, failed, phase, merged>>

BothNext ==
  \/ SequentialStep
  \/ SequentialOver /\ Next /\ UNCHANGED seqState

BothSpec == BothInit /\ [][BothNext]_<<vars, seqState>>

FairBothSpec == BothSpec /\ Fairness /\ WF_seqState(SequentialStep)

\* Load succeeds just when the sequential loader does: an error in any job is
\* reported, and no interleaving makes one up.
SameOutcome ==
  Returned /\ SequentialOver => (phase = "loaded" <=> seqPhase = "loaded")

\* A program that is returned holds the files the sequential loader finds, and
\* each of them once, although several goroutines come across the same file.
SameFiles ==
  phase = "loaded" =>
    /\ SequentialOver => ToSet(merged.files) = ToSet(loaded)
    /\ IsInjective(merged.files)

DirOf(f) == CHOOSE d \in Dirs : f \in ToSet(FilesOf[d])

\* The packages in the order of their first file, as both loaders list them.
PackageOrder(sources) ==
  FoldLeft(LAMBDA order, f : IF DirOf(f) \in ToSet(order) THEN order ELSE Append(order, DirOf(f)),
           << >>, sources)

\* The packages are merged in the order the sequential loader discovers them.
SameOrder == phase = "loaded" => PackageOrder(merged.files) = PackageOrder(loaded)
=============================================================================
