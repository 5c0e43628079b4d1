-------------------------- MODULE SequentialLoad --------------------------
(***************************************************************************)
(* loadSequential of pkg/loader: one queue of files, to which an import    *)
(* adds the files of a package not seen before.                            *)
(***************************************************************************)
EXTENDS Sequences, SequencesExt

CONSTANTS Entry, FilesOf, ImportsOf

VARIABLES
  bad,           \* the files and directories that cannot be read or parsed
  queue,         \* fileQueue
  imports,       \* the imports of the file at hand that are still to follow
  visitedFiles,
  visitedPkgs,
  loaded,        \* the files of the program, in the order they are merged
  state          \* "loading", "loaded" or "failed"

seqVars == <<bad, queue, imports, visitedFiles, visitedPkgs, loaded, state>>

SeqInit ==
  /\ queue = FilesOf[Entry]
  /\ imports = << >> /\ loaded = << >>
  /\ visitedFiles = {} /\ visitedPkgs = {}
  /\ state = "loading"

\* The next file of the queue, unless it has been visited before.
NextFile ==
  /\ state = "loading" /\ imports = << >> /\ queue # << >>
  /\ queue' = Tail(queue)
  /\ LET f == Head(queue) IN
       \/ f \in visitedFiles /\ UNCHANGED <<imports, visitedFiles, loaded, state>>
       \/ /\ f \notin visitedFiles
          /\ visitedFiles' = visitedFiles \cup {f}
          /\ IF f \in bad THEN state' = "failed" /\ UNCHANGED <<imports, loaded>>
             ELSE imports' = ImportsOf[f] /\ loaded' = Append(loaded, f) /\ UNCHANGED state
  /\ UNCHANGED <<bad, visitedPkgs>>

\* The next import: the files of a package not seen before join the queue.
FollowImport ==
  /\ state = "loading" /\ imports # << >>
  /\ imports' = Tail(imports)
  /\ LET d == Head(imports) IN
       /\ visitedPkgs' = visitedPkgs \cup {d}
       /\ IF d \in visitedPkgs THEN UNCHANGED <<queue, state>>
          ELSE IF d \in bad THEN state' = "failed" /\ UNCHANGED queue
          ELSE queue' = queue \o FilesOf[d] /\ UNCHANGED state
  /\ UNCHANGED <<bad, visitedFiles, loaded>>

Return ==
  /\ state = "loading" /\ imports = << >> /\ queue = << >>
  /\ state' = "loaded"
  /\ UNCHANGED <<bad, queue, imports, visitedFiles, visitedPkgs, loaded>>

SeqNext == NextFile \/ FollowImport \/ Return
=============================================================================
