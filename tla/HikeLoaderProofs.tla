-------------------------- MODULE HikeLoaderProofs --------------------------
(***************************************************************************)
(* Proofs about HikeLoader for every set of packages, whatever their files *)
(* are, whichever packages these import, and whichever of them are broken: *)
(* first by itself, then against SequentialLoad, which loads the same.     *)
(***************************************************************************)
EXTENDS LoaderEquivalence, TLAPS

USE RootAssumption, EntryAssumption DEF Routines

-----------------------------------------------------------------------------
(* The inductive invariant                                                 *)

\* What a goroutine has in hand where it is.
Placed ==
  \A r \in Routines :
    /\ pc[r] = "parse" => todo[r] # << >>
    /\ pc[r] = "start" => imports[r] # << >>
    /\ pc[r] = "unborn" => files[r] = << >>

\* A job has closed done just when it has ended, and Load has left the first
\* phase just when its own goroutine has parsed the entry package or failed.
Over ==
  /\ \A d \in Dirs : pc[d] = "ended" <=> d \in done
  /\ pc[Root] \notin {"unborn", "list"}
  /\ pc[Root] = "ended" <=> phase # "parse"

\* The goroutine r accounts for the file f.
Accounts(r, f) ==
  \/ f \in ToSet(files[r])
  \/ pc[r] = "parse" /\ f = Head(todo[r])
  \/ r \in failed

\* A file is entered before it is loaded, and one that has been entered is
\* loaded by somebody, unless its parser fails.
Entered ==
  /\ \A r \in Routines : /\ ToSet(files[r]) \subseteq visited
                         /\ pc[r] = "parse" => Head(todo[r]) \in visited
  /\ phase # "failed" => \A f \in visited : \E r \in Routines : Accounts(r, f)

Collects == phase \in {"collect", "loaded"}

\* What has been appended so far comes from jobs that have ended well, so that
\* nothing is added to it later.
Gathered ==
  /\ phase = "parse" => merged.jobs = 0
  /\ phase = "loaded" => merged.jobs = Len(jobs)
  /\ Collects => \A i \in 1 .. merged.jobs : jobs[i] \in done \ failed
  /\ Collects => \A f \in Files :
       f \in ToSet(merged.files) <=>
         f \in ToSet(files[Root]) \/ \E i \in 1 .. merged.jobs : f \in ToSet(files[jobs[i]])

IInv == TypeOK /\ Placed /\ Over /\ Entered /\ Gathered

-----------------------------------------------------------------------------
(* Sequences                                                               *)

LEMMA Elements ==
  ASSUME NEW S, NEW q \in Seq(S)
  PROVE  /\ Len(q) \in Nat /\ DOMAIN q = 1 .. Len(q)
         /\ \A i \in 1 .. Len(q) : q[i] \in S
         /\ ToSet(q) \subseteq S
         /\ \A x : x \in ToSet(q) <=> \E i \in 1 .. Len(q) : q[i] = x
  BY DEF ToSet

LEMMA FirstAndRest ==
  ASSUME NEW S, NEW q \in Seq(S), q # << >>
  PROVE  Head(q) \in S /\ Tail(q) \in Seq(S)
  OBVIOUS

LEMMA AppendElement ==
  ASSUME NEW S, NEW q \in Seq(S), NEW x \in S
  PROVE  /\ Append(q, x) \in Seq(S)
         /\ Len(Append(q, x)) = Len(q) + 1
         /\ \A i \in 1 .. Len(q) : Append(q, x)[i] = q[i]
         /\ Append(q, x)[Len(q) + 1] = x
         /\ ToSet(Append(q, x)) = ToSet(q) \cup {x}
         /\ IsInjective(q) /\ x \notin ToSet(q) => IsInjective(Append(q, x))
<1> DEFINE a == Append(q, x)
<1>1. /\ a \in Seq(S) /\ Len(q) \in Nat /\ Len(a) = Len(q) + 1
      /\ \A i \in 1 .. Len(q) : a[i] = q[i]
      /\ a[Len(q) + 1] = x
  OBVIOUS
<1> HIDE DEF a
<1>2. DOMAIN q = 1 .. Len(q) /\ DOMAIN a = 1 .. Len(q) + 1
  BY <1>1
<1>3. \A i \in 1 .. Len(q) + 1 : i = Len(q) + 1 \/ i \in 1 .. Len(q)
  BY <1>1
<1>4. ToSet(a) = ToSet(q) \cup {x}
  <2>1. \A i \in 1 .. Len(q) : i \in 1 .. Len(q) + 1
    BY <1>1
  <2>2. Len(q) + 1 \in 1 .. Len(q) + 1
    BY <1>1
  <2> QED BY <1>1, <1>2, <1>3, <2>1, <2>2 DEF ToSet
<1>5. ASSUME IsInjective(q), x \notin ToSet(q) PROVE IsInjective(a)
  BY <1>1, <1>2, <1>3, <1>5 DEF IsInjective, ToSet
<1> QED BY <1>1, <1>4, <1>5 DEF a

LEMMA Concatenate ==
  ASSUME NEW S, NEW p \in Seq(S), NEW q \in Seq(S)
  PROVE  p \o q \in Seq(S) /\ ToSet(p \o q) = ToSet(p) \cup ToSet(q)
<1> DEFINE c == p \o q
<1>1. /\ c \in Seq(S) /\ Len(p) \in Nat /\ Len(q) \in Nat
      /\ DOMAIN p = 1 .. Len(p) /\ DOMAIN q = 1 .. Len(q)
      /\ DOMAIN c = 1 .. Len(p) + Len(q)
  OBVIOUS
<1>2. \A i \in 1 .. Len(p) + Len(q) : c[i] = IF i <= Len(p) THEN p[i] ELSE q[i - Len(p)]
  OBVIOUS
<1> HIDE DEF c
<1>3. ASSUME NEW i \in DOMAIN c PROVE c[i] \in ToSet(p) \cup ToSet(q)
  <2>1. CASE i <= Len(p)
    <3>1. i \in 1 .. Len(p)
      BY <1>1, <2>1
    <3> QED BY <1>1, <1>2, <2>1, <3>1 DEF ToSet
  <2>2. CASE ~(i <= Len(p))
    <3>1. i - Len(p) \in 1 .. Len(q)
      BY <1>1, <2>2
    <3> QED BY <1>1, <1>2, <2>2, <3>1 DEF ToSet
  <2> QED BY <2>1, <2>2
<1>4. ASSUME NEW i \in DOMAIN p PROVE p[i] \in ToSet(c)
  <2>1. i \in DOMAIN c /\ c[i] = p[i]
    BY <1>1, <1>2
  <2> QED BY <2>1 DEF ToSet
<1>5. ASSUME NEW i \in DOMAIN q PROVE q[i] \in ToSet(c)
  <2>1. i + Len(p) \in DOMAIN c /\ ~(i + Len(p) <= Len(p)) /\ (i + Len(p)) - Len(p) = i
    BY <1>1
  <2>2. c[i + Len(p)] = q[i]
    BY <1>1, <1>2, <2>1
  <2> QED BY <2>1, <2>2 DEF ToSet
<1>6. ToSet(c) = ToSet(p) \cup ToSet(q)
  BY <1>3, <1>4, <1>5 DEF ToSet
<1> QED BY <1>1, <1>6 DEF c

LEMMA InitIInv == Init => IInv
<1> SUFFICES ASSUME Init PROVE IInv
  OBVIOUS
<1> USE DEF Init
<1>1. \A S : << >> \in Seq(S) /\ ToSet(<< >>) = {} /\ IsInjective(<< >>) /\ Len(<< >>) = 0
  BY DEF ToSet, IsInjective
<1>2. EntryFiles \in Seq(Files)
  BY FilesAssumption DEF EntryFiles
<1>3. TypeOK
  BY <1>1, <1>2 DEF TypeOK
<1>4. Placed /\ Over /\ Entered /\ Gathered
  BY <1>1 DEF Placed, Over, Entered, Gathered, Collects
<1> QED BY <1>3, <1>4 DEF IInv

-----------------------------------------------------------------------------
(* One lemma per kind of step                                              *)

\* What has been collected stays as it is while a goroutine goes on that has
\* not ended.
LEMMA GatheredStays ==
  ASSUME IInv, NEW r \in Routines, pc[r] # "ended",
         phase' = phase, merged' = merged, jobs' = jobs,
         \A d \in Dirs \ {r} : (d \in done' <=> d \in done) /\ (d \in failed' <=> d \in failed),
         \A o \in Routines \ {r} : files'[o] = files[o]
  PROVE  Gathered'
<1>1. merged.jobs \in Nat /\ merged.jobs <= Len(jobs)
      /\ \A i \in 1 .. merged.jobs : jobs[i] \in Dirs
  <2>1. Len(jobs) \in Nat /\ \A i \in 1 .. Len(jobs) : jobs[i] \in Dirs
    BY Elements DEF IInv, TypeOK
  <2>2. merged.jobs \in Nat /\ merged.jobs <= Len(jobs)
    BY <2>1 DEF IInv, TypeOK
  <2> QED BY <2>1, <2>2
<1>2. CASE Collects
  <2>1. \A i \in 1 .. merged.jobs : jobs[i] # r
    BY <1>1, <1>2 DEF IInv, Over, Gathered
  <2>2. r # Root
    BY <1>2 DEF IInv, Over, Collects
  <2> QED BY <1>1, <1>2, <2>1, <2>2 DEF IInv, Gathered, Collects
<1>3. CASE ~Collects
  BY <1>3 DEF IInv, Gathered, Collects
<1> QED BY <1>2, <1>3

\* A step that leaves everything but the goroutine's own place alone, its list
\* of files and nativeDeps.
LEMMA MoveIInv ==
  ASSUME IInv, NEW r \in Routines, NEW place \in {"visit", "resolve", "start"},
         NEW q \in Seq(Files),
         pc[r] \in {"list", "visit", "resolve"}, pc' = [pc EXCEPT ![r] = place],
         place = "start" => imports[r] # << >>,
         todo' = [todo EXCEPT ![r] = q],
         native' \in Seq(NativeDirs), IsInjective(native'),
         UNCHANGED <<bad, visited, jobs, imports, files, done, failed, phase, merged>>
  PROVE  IInv'
<1>1. TypeOK'
  BY DEF IInv, TypeOK
<1>2. Placed'
  BY DEF IInv, TypeOK, Placed
<1>3. Over'
  BY DEF IInv, TypeOK, Over
<1>4. Entered'
  <2>1. \A o \in Routines : pc'[o] = "parse" <=> pc[o] = "parse"
    BY DEF IInv, TypeOK
  <2>2. \A o \in Routines : pc[o] = "parse" => todo'[o] = todo[o]
    BY DEF IInv, TypeOK
  <2> QED BY <2>1, <2>2 DEF IInv, Entered, Accounts
<1>5. Gathered'
  BY GatheredStays
<1> QED BY <1>1, <1>2, <1>3, <1>4, <1>5 DEF IInv

LEMMA ErrIInv ==
  ASSUME IInv, NEW r \in Routines, pc[r] \in {"list", "parse"}, Err(r),
         UNCHANGED <<bad, visited, jobs, native, todo, imports, files, merged>>
  PROVE  IInv'
<1>1. /\ pc' = [pc EXCEPT ![r] = "ended"]
      /\ r = Root => phase' = "failed" /\ done' = done /\ failed' = failed
      /\ r # Root => phase' = phase /\ done' = done \cup {r} /\ failed' = failed \cup {r}
  BY DEF Err, Goto
<1>2. TypeOK'
  <2>1. r # Root => r \in ToSet(jobs)
    BY DEF IInv, TypeOK
  <2>2. failed' \subseteq done' /\ done' \subseteq ToSet(jobs)
    BY <1>1, <2>1 DEF IInv, TypeOK
  <2> QED BY <1>1, <2>2 DEF IInv, TypeOK
<1>3. Placed'
  BY <1>1 DEF IInv, TypeOK, Placed
<1>4. Over'
  BY <1>1 DEF IInv, TypeOK, Over
<1>5. Entered'
  <2>1. \A o \in Routines : pc'[o] = "parse" => pc[o] = "parse"
    BY <1>1 DEF IInv, TypeOK
  <2>2. ASSUME phase' # "failed", NEW f \in visited PROVE \E o \in Routines : Accounts(o, f)'
    <3>1. r # Root /\ phase # "failed"
      BY <1>1, <2>2
    <3>2. PICK o \in Routines : Accounts(o, f)
      BY <2>2, <3>1 DEF IInv, Entered
    <3>3. o = r \/ pc'[o] = pc[o]
      BY <1>1 DEF IInv, TypeOK
    <3> QED BY <1>1, <3>1, <3>2, <3>3 DEF Accounts
  <2> QED BY <2>1, <2>2 DEF IInv, Entered
<1>6. Gathered'
  <2>1. CASE r = Root
    BY <1>1, <2>1 DEF Gathered, Collects
  <2>2. CASE r # Root
    BY <1>1, <2>2, GatheredStays
  <2> QED BY <2>1, <2>2
<1> QED BY <1>2, <1>3, <1>4, <1>5, <1>6 DEF IInv

LEMMA ListFilesIInv ==
  ASSUME IInv, NEW d \in Dirs, ListFiles(d)
  PROVE  IInv'
<1> USE DEF ListFiles
<1>1. CASE d \in bad
  BY <1>1, ErrIInv
<1>2. CASE d \notin bad
  <2>1. FilesOf[d] \in Seq(Files)
    BY FilesAssumption
  <2> QED BY <1>2, <2>1, MoveIInv DEF Goto, IInv, TypeOK
<1> QED BY <1>1, <1>2

LEMMA VisitIInv ==
  ASSUME IInv, NEW r \in Routines, Visit(r)
  PROVE  IInv'
<1> DEFINE f == Head(todo[r])
<1>1. /\ pc[r] = "visit" /\ todo[r] # << >> /\ f \in Files /\ Tail(todo[r]) \in Seq(Files)
      /\ UNCHANGED <<bad, jobs, native, imports, files, done, failed, phase, merged>>
  <2>1. todo[r] \in Seq(Files)
    BY DEF IInv, TypeOK
  <2> QED BY <2>1, FirstAndRest DEF Visit
<1>2. CASE f \in visited
  <2>1. todo' = [todo EXCEPT ![r] = Tail(todo[r])] /\ visited' = visited
        /\ pc' = [pc EXCEPT ![r] = "visit"]
    BY <1>1, <1>2 DEF Visit, IInv, TypeOK
  <2> QED BY <1>1, <2>1, MoveIInv DEF IInv, TypeOK
<1>3. CASE f \notin visited
  <2>1. visited' = visited \cup {f} /\ pc' = [pc EXCEPT ![r] = "parse"] /\ todo' = todo
    BY <1>3 DEF Visit, Goto
  <2>2. TypeOK'
    BY <1>1, <2>1 DEF IInv, TypeOK
  <2>3. Placed'
    BY <1>1, <2>1 DEF IInv, TypeOK, Placed
  <2>4. Over'
    BY <1>1, <2>1 DEF IInv, TypeOK, Over
  <2>5. Entered'
    <3>1. pc'[r] = "parse" /\ \A o \in Routines \ {r} : pc'[o] = pc[o]
      BY <2>1 DEF IInv, TypeOK
    <3>2. \A g \in visited, o \in Routines : Accounts(o, g) => Accounts(o, g)'
      BY <1>1, <2>1, <3>1 DEF Accounts
    <3>3. Accounts(r, f)'
      BY <2>1, <3>1 DEF Accounts
    <3>4. phase' # "failed" => \A g \in visited' : \E o \in Routines : Accounts(o, g)'
      BY <1>1, <2>1, <3>2, <3>3 DEF IInv, Entered
    <3>5. \A o \in Routines : ToSet(files'[o]) \subseteq visited'
                             /\ (pc'[o] = "parse" => Head(todo'[o]) \in visited')
      BY <1>1, <2>1, <3>1 DEF IInv, Entered
    <3> QED BY <3>4, <3>5 DEF Entered
  <2>6. Gathered'
    BY <1>1, <2>1, GatheredStays
  <2> QED BY <2>2, <2>3, <2>4, <2>5, <2>6 DEF IInv
<1> QED BY <1>2, <1>3

LEMMA ParseIInv ==
  ASSUME IInv, NEW r \in Routines, Parse(r)
  PROVE  IInv'
<1> DEFINE f == Head(todo[r])
<1>1. /\ pc[r] = "parse" /\ todo[r] # << >> /\ f \in Files /\ Tail(todo[r]) \in Seq(Files)
      /\ UNCHANGED <<bad, visited, jobs, native, merged>>
  <2>1. todo[r] \in Seq(Files) /\ todo[r] # << >>
    BY DEF Parse, IInv, TypeOK, Placed
  <2> QED BY <2>1, FirstAndRest DEF Parse
<1>2. CASE f \in bad
  BY <1>1, <1>2, ErrIInv DEF Parse
<1>3. CASE f \notin bad
  <2>1. /\ pc' = [pc EXCEPT ![r] = "resolve"]
        /\ todo' = [todo EXCEPT ![r] = Tail(todo[r])]
        /\ imports' = [imports EXCEPT ![r] = ImportsOf[f]]
        /\ files' = [files EXCEPT ![r] = Append(files[r], f)]
        /\ UNCHANGED <<done, failed, phase>>
    BY <1>3 DEF Parse, Goto
  <2>2. /\ files[r] \in Seq(Files) /\ Append(files[r], f) \in Seq(Files)
        /\ ToSet(Append(files[r], f)) = ToSet(files[r]) \cup {f}
    <3>1. files[r] \in Seq(Files)
      BY DEF IInv, TypeOK
    <3> QED BY <1>1, <3>1, AppendElement
  <2>3. TypeOK'
    BY <1>1, <2>1, <2>2, ImportsAssumption DEF IInv, TypeOK
  <2>4. Placed'
    BY <1>1, <2>1 DEF IInv, TypeOK, Placed
  <2>5. Over'
    BY <1>1, <2>1 DEF IInv, TypeOK, Over
  <2>6. Entered'
    <3>1. /\ ToSet(files'[r]) = ToSet(files[r]) \cup {f} /\ pc'[r] = "resolve"
          /\ \A o \in Routines \ {r} :
               pc'[o] = pc[o] /\ files'[o] = files[o] /\ todo'[o] = todo[o]
      BY <2>1, <2>2 DEF IInv, TypeOK
    <3>2. \A g \in visited, o \in Routines : Accounts(o, g) => Accounts(o, g)'
      BY <1>1, <2>1, <3>1 DEF Accounts
    <3>3. phase' # "failed" => \A g \in visited' : \E o \in Routines : Accounts(o, g)'
      BY <1>1, <2>1, <3>2 DEF IInv, Entered
    <3>4. \A o \in Routines : ToSet(files'[o]) \subseteq visited'
                             /\ (pc'[o] = "parse" => Head(todo'[o]) \in visited')
      BY <1>1, <3>1 DEF IInv, Entered
    <3> QED BY <3>3, <3>4 DEF Entered
  <2>7. Gathered'
    <3>1. \A o \in Routines \ {r} : files'[o] = files[o]
      BY <2>1 DEF IInv, TypeOK
    <3> QED BY <1>1, <2>1, <3>1, GatheredStays
  <2> QED BY <2>3, <2>4, <2>5, <2>6, <2>7 DEF IInv
<1> QED BY <1>2, <1>3

LEMMA ResolveIInv ==
  ASSUME IInv, NEW r \in Routines, Resolve(r)
  PROVE  IInv'
<1>1. imports[r] # << >> /\ Head(imports[r]) \in Dirs
  <2>1. imports[r] \in Seq(Dirs) /\ imports[r] # << >>
    BY DEF Resolve, IInv, TypeOK
  <2> QED BY <2>1, FirstAndRest
<1>2. native' \in Seq(NativeDirs) /\ IsInjective(native')
  BY AppendElement DEF Resolve, RecordNative, IInv, TypeOK
<1>3. todo' = [todo EXCEPT ![r] = todo[r]] /\ todo[r] \in Seq(Files)
  BY DEF Resolve, IInv, TypeOK
<1> QED BY <1>1, <1>2, <1>3, MoveIInv DEF Resolve, Goto

LEMMA NextFileIInv ==
  ASSUME IInv, NEW r \in Routines, NextFile(r)
  PROVE  IInv'
<1>1. todo' = [todo EXCEPT ![r] = todo[r]] /\ todo[r] \in Seq(Files)
  BY DEF NextFile, IInv, TypeOK
<1> QED BY <1>1, MoveIInv DEF NextFile, Goto, IInv, TypeOK

LEMMA StartIInv ==
  ASSUME IInv, NEW r \in Routines, Start(r)
  PROVE  IInv'
<1> DEFINE d == Head(imports[r])
<1>1. /\ pc[r] = "start" /\ imports[r] # << >> /\ d \in Dirs /\ Tail(imports[r]) \in Seq(Dirs)
      /\ imports' = [imports EXCEPT ![r] = Tail(imports[r])]
      /\ UNCHANGED <<bad, visited, native, todo, files, done, failed, phase, merged>>
  <2>1. imports[r] \in Seq(Dirs) /\ imports[r] # << >>
    BY DEF Start, IInv, TypeOK, Placed
  <2> QED BY <2>1, FirstAndRest DEF Start
<1>2. \/ jobs' = jobs /\ pc' = [pc EXCEPT ![r] = "resolve"]
      \/ /\ d \notin ToSet(jobs) /\ jobs' = Append(jobs, d)
         /\ pc' = [pc EXCEPT ![r] = "resolve", ![d] = "list"]
  BY DEF Start, Goto
<1> HIDE DEF d
<1>3. CASE jobs' = jobs /\ pc' = [pc EXCEPT ![r] = "resolve"]
  <2>1. TypeOK'
    BY <1>1, <1>3 DEF IInv, TypeOK
  <2>2. Placed' /\ Over'
    BY <1>1, <1>3 DEF IInv, TypeOK, Placed, Over
  <2>3. Entered'
    <3>1. \A o \in Routines : pc'[o] = "parse" <=> pc[o] = "parse"
      BY <1>1, <1>3 DEF IInv, TypeOK
    <3> QED BY <1>1, <3>1 DEF IInv, Entered, Accounts
  <2>4. Gathered'
    BY <1>1, <1>3, GatheredStays
  <2> QED BY <2>1, <2>2, <2>3, <2>4 DEF IInv
<1>4. CASE /\ d \notin ToSet(jobs) /\ jobs' = Append(jobs, d)
           /\ pc' = [pc EXCEPT ![r] = "resolve", ![d] = "list"]
  <2>1. /\ jobs' \in Seq(Dirs) /\ IsInjective(jobs') /\ ToSet(jobs') = ToSet(jobs) \cup {d}
        /\ Len(jobs) \in Nat /\ Len(jobs') = Len(jobs) + 1
        /\ \A i \in 1 .. Len(jobs) : jobs'[i] = jobs[i]
    BY <1>1, <1>4, AppendElement, Elements DEF IInv, TypeOK
  <2>2. pc[d] = "unborn" /\ d # r
    BY <1>1, <1>4 DEF IInv, TypeOK
  <2>3. /\ pc'[r] = "resolve" /\ pc'[d] = "list"
        /\ \A o \in Routines \ {r, d} : pc'[o] = pc[o]
        /\ pc' \in [Routines -> {"unborn", "list", "visit", "parse", "resolve", "start", "ended"}]
    BY <1>1, <1>4, <2>2 DEF IInv, TypeOK
  <2>4. TypeOK'
    <3>1. \A o \in Dirs : pc'[o] = "unborn" <=> o \notin ToSet(jobs')
      <4>1. \A o \in Dirs : pc[o] = "unborn" <=> o \notin ToSet(jobs)
        BY DEF IInv, TypeOK
      <4> QED BY <1>1, <2>1, <2>2, <2>3, <4>1
    <3>2. merged' \in [files : Seq(Files), jobs : 0 .. Len(jobs')]
      <4>1. 0 .. Len(jobs) \subseteq 0 .. Len(jobs')
        BY <2>1
      <4> QED BY <1>1, <4>1 DEF IInv, TypeOK
    <3>3. imports' \in [Routines -> Seq(Dirs)]
      BY <1>1 DEF IInv, TypeOK
    <3> QED BY <1>1, <2>1, <2>3, <3>1, <3>2, <3>3 DEF IInv, TypeOK
  <2>5. Placed'
    BY <1>1, <2>3 DEF IInv, TypeOK, Placed
  <2>6. Over'
    BY <1>1, <2>2, <2>3 DEF IInv, TypeOK, Over
  <2>7. Entered'
    <3>1. \A o \in Routines : pc'[o] = "parse" <=> pc[o] = "parse"
      BY <1>1, <2>2, <2>3
    <3> QED BY <1>1, <3>1 DEF IInv, Entered, Accounts
  <2>8. Gathered'
    <3>1. phase # "loaded"
      <4>1. SUFFICES ASSUME phase = "loaded" PROVE FALSE
        OBVIOUS
      <4>2. r \in Dirs
        BY <1>1, <4>1 DEF IInv, Over
      <4>3. r \in ToSet(jobs)
        BY <1>1, <4>2 DEF IInv, TypeOK
      <4>4. PICK i \in 1 .. Len(jobs) : jobs[i] = r
        BY <4>3, Elements DEF IInv, TypeOK
      <4>5. r \in done
        BY <4>1, <4>4 DEF IInv, Gathered, Collects
      <4> QED BY <1>1, <4>2, <4>5 DEF IInv, Over
    <3>2. merged.jobs \in 0 .. Len(jobs)
      BY DEF IInv, TypeOK
    <3>3. \A i \in 1 .. merged.jobs : jobs'[i] = jobs[i]
      BY <2>1, <3>2
    <3> QED BY <1>1, <3>1, <3>3 DEF IInv, Gathered, Collects
  <2> QED BY <2>4, <2>5, <2>6, <2>7, <2>8 DEF IInv
<1> QED BY <1>2, <1>3, <1>4

LEMMA EndIInv ==
  ASSUME IInv, NEW r \in Routines, End(r)
  PROVE  IInv'
<1>1. /\ pc[r] = "visit" /\ pc' = [pc EXCEPT ![r] = "ended"]
      /\ r = Root => phase' = "collect" /\ merged' = [merged EXCEPT !.files = files[Root]]
                     /\ done' = done
      /\ r # Root => done' = done \cup {r} /\ phase' = phase /\ merged' = merged
      /\ UNCHANGED <<bad, visited, jobs, native, todo, imports, files, failed>>
  BY DEF End, Goto
<1>2. TypeOK'
  <2>1. r # Root => r \in ToSet(jobs)
    BY <1>1 DEF IInv, TypeOK
  <2>2. failed' \subseteq done' /\ done' \subseteq ToSet(jobs')
    BY <1>1, <2>1 DEF IInv, TypeOK
  <2>3. merged' \in [files : Seq(Files), jobs : 0 .. Len(jobs')]
    BY <1>1 DEF IInv, TypeOK
  <2> QED BY <1>1, <2>2, <2>3 DEF IInv, TypeOK
<1>3. Placed' /\ Over'
  BY <1>1 DEF IInv, TypeOK, Placed, Over
<1>4. Entered'
  <2>1. \A o \in Routines : pc'[o] = "parse" <=> pc[o] = "parse"
    BY <1>1 DEF IInv, TypeOK
  <2>2. r = Root => phase # "failed"
    BY <1>1 DEF IInv, Over
  <2> QED BY <1>1, <2>1, <2>2 DEF IInv, Entered, Accounts
<1>5. Gathered'
  <2>1. CASE r = Root
    <3>1. phase = "parse" /\ merged.jobs = 0
      BY <1>1, <2>1 DEF IInv, Over, Gathered
    <3>2. merged'.files = files[Root] /\ merged'.jobs = 0
      BY <1>1, <2>1, <3>1 DEF IInv, TypeOK
    <3> QED BY <1>1, <2>1, <3>2 DEF Gathered, Collects
  <2>2. CASE r # Root
    BY <1>1, <2>2, GatheredStays
  <2> QED BY <2>1, <2>2
<1> QED BY <1>2, <1>3, <1>4, <1>5 DEF IInv

LEMMA CollectIInv ==
  ASSUME IInv, Collect
  PROVE  IInv'
<1> DEFINE n == merged.jobs + 1
           d == jobs[n]
<1>1. /\ phase = "collect" /\ n \in 1 .. Len(jobs) /\ d \in Dirs /\ d \in done
      /\ Len(jobs) \in Nat /\ merged.jobs \in Nat
      /\ \A i \in 1 .. merged.jobs : jobs[i] \in Dirs
      /\ UNCHANGED <<bad, visited, jobs, native, pc, todo, imports, files, done, failed>>
  <2>1. Len(jobs) \in Nat /\ \A i \in 1 .. Len(jobs) : jobs[i] \in Dirs
    BY Elements DEF IInv, TypeOK
  <2>2. merged.jobs \in 0 .. Len(jobs)
    BY DEF IInv, TypeOK
  <2>3. n \in 1 .. Len(jobs)
    BY <2>1, <2>2 DEF Collect, Collected
  <2> QED BY <2>1, <2>2, <2>3 DEF Collect, Collected
<1>2. \/ d \in failed /\ phase' = "failed" /\ merged' = merged
      \/ /\ d \notin failed /\ phase' = phase
         /\ merged' = [files |-> merged.files \o files[d], jobs |-> n]
  BY DEF Collect, Collected
<1> HIDE DEF n, d
<1>3. /\ merged.files \o files[d] \in Seq(Files)
      /\ ToSet(merged.files \o files[d]) = ToSet(merged.files) \cup ToSet(files[d])
  <2>1. merged.files \in Seq(Files) /\ files[d] \in Seq(Files)
    BY <1>1 DEF IInv, TypeOK
  <2> QED BY <2>1, Concatenate
<1>4. TypeOK'
  <2>1. n \in 0 .. Len(jobs)
    BY <1>1
  <2>2. phase' \in {"parse", "collect", "loaded", "failed"}
    BY <1>1, <1>2
  <2>3. merged' \in [files : Seq(Files), jobs : 0 .. Len(jobs)]
    <3>1. CASE d \in failed
      BY <1>2, <3>1 DEF IInv, TypeOK
    <3>2. CASE d \notin failed
      <4>1. merged' = [files |-> merged.files \o files[d], jobs |-> n]
        BY <1>2, <3>2
      <4> QED BY <1>3, <2>1, <4>1
    <3> QED BY <3>1, <3>2
  <2> QED BY <1>1, <2>2, <2>3 DEF IInv, TypeOK
<1>5. Placed' /\ Over' /\ Entered'
  BY <1>1, <1>2 DEF IInv, Placed, Over, Entered, Accounts
<1>6. Gathered'
  <2>1. CASE d \in failed
    BY <1>1, <1>2, <2>1 DEF Gathered, Collects
  <2>2. CASE d \notin failed
    <3>1. /\ phase' = "collect" /\ merged'.jobs = n
          /\ merged'.files = merged.files \o files[d]
      <4>1. merged' = [files |-> merged.files \o files[d], jobs |-> n]
        BY <1>2, <2>2
      <4> QED BY <1>1, <1>2, <2>2, <4>1
    <3>2. \A i \in 1 .. n : i \in 1 .. merged.jobs \/ i = n
      BY <1>1 DEF n
    <3>3. n \in 1 .. n /\ \A i \in 1 .. merged.jobs : i \in 1 .. n
      BY <1>1 DEF n
    <3>4. \A i \in 1 .. n : jobs[i] \in done \ failed
      BY <1>1, <2>2, <3>2 DEF IInv, Gathered, Collects, d
    <3>5. \A f \in Files :
            f \in ToSet(merged.files \o files[d]) <=>
              f \in ToSet(files[Root]) \/ \E i \in 1 .. n : f \in ToSet(files[jobs[i]])
      BY <1>1, <1>3, <3>2, <3>3 DEF IInv, Gathered, Collects, d
    <3> QED BY <1>1, <3>1, <3>4, <3>5 DEF Gathered, Collects
  <2> QED BY <2>1, <2>2
<1> QED BY <1>4, <1>5, <1>6 DEF IInv

LEMMA FinishIInv ==
  ASSUME IInv, Finish
  PROVE  IInv'
<1> USE DEF Finish
<1>1. TypeOK' /\ Placed' /\ Over'
  BY DEF IInv, TypeOK, Placed, Over
<1>2. Entered' /\ Gathered'
  BY DEF IInv, Entered, Accounts, Gathered, Collects, Collected
<1> QED BY <1>1, <1>2 DEF IInv

LEMMA NextIInv == IInv /\ [Next]_vars => IInv'
<1> SUFFICES ASSUME IInv, [Next]_vars PROVE IInv'
  OBVIOUS
<1>1. ASSUME NEW r \in Routines, Work(r) PROVE IInv'
  BY <1>1, VisitIInv, ParseIInv, ResolveIInv, StartIInv, NextFileIInv, EndIInv DEF Work
<1>2. ASSUME NEW d \in Dirs, ListFiles(d) PROVE IInv'
  BY <1>2, ListFilesIInv
<1>3. CASE Collect \/ Finish
  BY <1>3, CollectIInv, FinishIInv
<1>4. CASE UNCHANGED vars
  BY <1>4 DEF vars, IInv, TypeOK, Placed, Over, Entered, Accounts, Gathered, Collects
<1> QED BY <1>1, <1>2, <1>3, <1>4 DEF Next

-----------------------------------------------------------------------------
(* What the invariant says                                                 *)

LEMMA IInvQuiescent == IInv => Quiescent
<1> SUFFICES ASSUME IInv, phase = "loaded"
             PROVE  /\ \A r \in Routines : pc[r] \in {"unborn", "ended"}
                    /\ ToSet(merged.files) = visited
  BY DEF Quiescent
<1>1. \A d \in Dirs : d \in ToSet(jobs) => \E i \in 1 .. merged.jobs : jobs[i] = d
  BY Elements DEF IInv, TypeOK, Gathered
<1>2. \A d \in ToSet(jobs) : d \in Dirs => d \in done \ failed
  BY <1>1 DEF IInv, Gathered, Collects
<1>3. ASSUME NEW r \in Routines
      PROVE  \/ r = Root /\ pc[r] = "ended"
             \/ r \in Dirs /\ pc[r] = "unborn" /\ files[r] = << >>
             \/ /\ r \in Dirs /\ pc[r] = "ended"
                /\ \E i \in 1 .. merged.jobs : jobs[i] = r
  BY <1>1, <1>2 DEF IInv, TypeOK, Placed, Over
<1>4. ToSet(merged.files) \subseteq Files /\ visited \subseteq Files
  BY Elements DEF IInv, TypeOK
<1>5. ASSUME NEW f \in Files, f \in ToSet(merged.files) PROVE f \in visited
  <2>1. CASE f \in ToSet(files[Root])
    BY <2>1 DEF IInv, Entered
  <2>2. ASSUME NEW i \in 1 .. merged.jobs, f \in ToSet(files[jobs[i]]) PROVE f \in visited
    <3>1. jobs[i] \in Routines
      BY Elements DEF IInv, TypeOK, Gathered
    <3> QED BY <2>2, <3>1 DEF IInv, Entered
  <2> QED BY <1>5, <2>1, <2>2 DEF IInv, Gathered, Collects
<1>6. ASSUME NEW f \in visited PROVE f \in ToSet(merged.files)
  <2>1. PICK r \in Routines : Accounts(r, f)
    BY DEF IInv, Entered
  <2>2. r \notin failed
    <3>1. failed \subseteq ToSet(jobs) /\ ToSet(jobs) \subseteq Dirs
      BY Elements DEF IInv, TypeOK
    <3> QED BY <1>2, <3>1
  <2>3. ToSet(<< >>) = {}
    BY DEF ToSet
  <2>4. f \in ToSet(files[r])
    BY <1>3, <2>1, <2>2 DEF Accounts
  <2>5. r = Root \/ \E i \in 1 .. merged.jobs : jobs[i] = r
    BY <1>3, <2>3, <2>4
  <2> QED BY <1>4, <2>4, <2>5 DEF IInv, Gathered, Collects
<1> QED BY <1>3, <1>4, <1>5, <1>6

\* No job is listed twice, a goroutine is born with its job, and only the jobs
\* listed have closed their channels (startImports under the mutex).
THEOREM LoaderTypes == Spec => []TypeOK
<1>1. IInv => TypeOK
  BY DEF IInv
<1> QED BY <1>1, InitIInv, NextIInv, PTL DEF Spec

\* When the forked loader returns a program no job runs any more, and exactly
\* the files that were entered have been loaded (loadWithCompileFork).
THEOREM LoaderQuiescent == Spec => []Quiescent
<1>1. IInv => Quiescent
  BY IInvQuiescent
<1> QED BY <1>1, InitIInv, NextIInv, PTL DEF Spec

-----------------------------------------------------------------------------
(* Closed sets of files                                                    *)

\* The packages that the files of C import.
Reached(C) == {d \in Dirs : \E f \in C : d \in ToSet(ImportsOf[f])}

Closed(C) ==
  /\ C \subseteq Files
  /\ ToSet(FilesOf[Entry]) \subseteq C
  /\ \A d \in Reached(C) : ToSet(FilesOf[d]) \subseteq C

\* Everything in C can be read and parsed.
Sound(C) == C \cap bad = {} /\ Reached(C) \cap bad = {}

-----------------------------------------------------------------------------
(* The invariant of the forked loader                                      *)

\* It looks at nothing outside C, so that its failure is one of C.
ForkedWithin(C) ==
  /\ visited \subseteq C
  /\ ToSet(jobs) \subseteq Reached(C)
  /\ \A r \in Routines : ToSet(todo[r]) \subseteq C /\ ToSet(imports[r]) \subseteq Reached(C)
  /\ phase = "failed" \/ failed # {} => ~Sound(C)

ForkedUpper == \A C \in SUBSET Files : Closed(C) => ForkedWithin(C)

Package(r) == IF r = Root THEN Entry ELSE r

\* The files of a package that was listed have been entered, or wait.
Listed ==
  \A r \in Routines : pc[r] \notin {"unborn", "list"} /\ r \notin failed =>
    /\ ToSet(FilesOf[Package(r)]) \subseteq visited \cup ToSet(todo[r])
    /\ r # Root => r \notin bad

\* The imports of a file that was loaded have been started, or wait.
Followed ==
  \A r \in Routines, f \in Files : f \in ToSet(files[r]) =>
    /\ f \notin bad
    /\ ToSet(ImportsOf[f]) \subseteq ToSet(jobs) \cup ToSet(imports[r])

\* Nothing waits where a goroutine is done with it.
Emptied ==
  \A r \in Routines :
    /\ imports[r] # << >> => pc[r] \in {"resolve", "start"}
    /\ pc[r] = "ended" /\ r \notin failed /\ phase # "failed" => todo[r] = << >>

\* What a goroutine has loaded or is parsing.
Held(r) == ToSet(files[r]) \cup {f \in Files : pc[r] = "parse" /\ f = Head(todo[r])}

\* No file is held twice.
Once ==
  /\ \A r \in Routines : IsInjective(files[r])
  /\ \A r \in Routines : pc[r] = "parse" => Head(todo[r]) \notin ToSet(files[r])
  /\ \A r \in Routines, o \in Routines : r # o => Held(r) \cap Held(o) = {}
  /\ Collects => IsInjective(merged.files)

-----------------------------------------------------------------------------
(* The invariant of the sequential loader                                  *)

SeqTypes ==
  /\ queue \in Seq(Files) /\ loaded \in Seq(Files) /\ fileImports \in Seq(Dirs)
  /\ visitedFiles \subseteq Files /\ visitedPkgs \subseteq Dirs
  /\ seqPhase \in {"loading", "loaded", "failed"}

SeqWithin(C) ==
  /\ visitedFiles \subseteq C /\ ToSet(queue) \subseteq C
  /\ ToSet(fileImports) \subseteq Reached(C)
  /\ seqPhase = "failed" => ~Sound(C)

SeqUpper == \A C \in SUBSET Files : Closed(C) => SeqWithin(C)

SeqFollows ==
  seqPhase # "failed" =>
    /\ ToSet(FilesOf[Entry]) \subseteq visitedFiles \cup ToSet(queue)
    /\ \A d \in visitedPkgs :
         d \notin bad /\ ToSet(FilesOf[d]) \subseteq visitedFiles \cup ToSet(queue)
    /\ \A f \in visitedFiles :
         f \notin bad /\ ToSet(ImportsOf[f]) \subseteq visitedPkgs \cup ToSet(fileImports)
    /\ ToSet(loaded) = visitedFiles
    /\ seqPhase = "loaded" => queue = << >> /\ fileImports = << >>

ForkedInv == IInv /\ ForkedUpper /\ Listed /\ Followed /\ Emptied /\ Once
SeqInv == SeqTypes /\ SeqUpper /\ SeqFollows

-----------------------------------------------------------------------------
(* Sequences                                                               *)

LEMMA EmptySequence == ToSet(<< >>) = {} /\ IsInjective(<< >>)
  BY DEF ToSet, IsInjective

LEMMA HeadOrTail ==
  ASSUME NEW S, NEW q \in Seq(S), q # << >>
  PROVE  /\ Head(q) \in S /\ Tail(q) \in Seq(S)
         /\ ToSet(q) = {Head(q)} \cup ToSet(Tail(q))
<1> DEFINE t == Tail(q)
<1>1. /\ Len(q) \in Nat /\ Len(q) > 0 /\ t \in Seq(S) /\ Len(t) = Len(q) - 1
      /\ \A i \in 1 .. Len(q) - 1 : t[i] = q[i + 1]
      /\ Head(q) = q[1] /\ Head(q) \in S
  OBVIOUS
<1> HIDE DEF t
<1>2. \A i \in 1 .. Len(q) : i = 1 \/ (i - 1 \in 1 .. Len(q) - 1 /\ (i - 1) + 1 = i)
  BY <1>1
<1>3. 1 \in 1 .. Len(q) /\ \A i \in 1 .. Len(q) - 1 : i + 1 \in 1 .. Len(q)
  BY <1>1
<1>4. \A x : x \in ToSet(q) <=> \E i \in 1 .. Len(q) : q[i] = x
  BY Elements
<1>5. \A x : x \in ToSet(t) <=> \E i \in 1 .. Len(q) - 1 : t[i] = x
  BY <1>1, Elements
<1>6. ASSUME NEW x \in ToSet(q) PROVE x = Head(q) \/ x \in ToSet(t)
  <2>1. PICK i \in 1 .. Len(q) : q[i] = x
    BY <1>4
  <2>2. CASE i = 1
    BY <1>1, <2>1, <2>2
  <2>3. CASE i - 1 \in 1 .. Len(q) - 1 /\ (i - 1) + 1 = i
    <3>1. t[i - 1] = x
      BY <1>1, <2>1, <2>3
    <3> QED BY <1>5, <2>3, <3>1
  <2> QED BY <1>2, <2>2, <2>3
<1>7. Head(q) \in ToSet(q) /\ ToSet(t) \subseteq ToSet(q)
  BY <1>1, <1>3, <1>4, <1>5
<1> QED BY <1>1, <1>6, <1>7 DEF t

LEMMA ConcatenateInjective ==
  ASSUME NEW S, NEW p \in Seq(S), NEW q \in Seq(S), IsInjective(p), IsInjective(q),
         ToSet(p) \cap ToSet(q) = {}
  PROVE  IsInjective(p \o q)
<1> DEFINE c == p \o q
<1>1. /\ c \in Seq(S) /\ Len(p) \in Nat /\ Len(q) \in Nat
      /\ DOMAIN p = 1 .. Len(p) /\ DOMAIN q = 1 .. Len(q)
      /\ DOMAIN c = 1 .. Len(p) + Len(q)
  OBVIOUS
<1>2. \A i \in 1 .. Len(p) + Len(q) : c[i] = IF i <= Len(p) THEN p[i] ELSE q[i - Len(p)]
  OBVIOUS
<1> HIDE DEF c
<1>3. \A i \in DOMAIN c : \/ i \in DOMAIN p /\ c[i] = p[i] /\ c[i] \in ToSet(p)
                          \/ /\ i > Len(p) /\ i - Len(p) \in DOMAIN q
                             /\ c[i] = q[i - Len(p)] /\ c[i] \in ToSet(q)
  <2> SUFFICES ASSUME NEW i \in DOMAIN c
               PROVE  \/ i \in DOMAIN p /\ c[i] = p[i] /\ c[i] \in ToSet(p)
                      \/ /\ i > Len(p) /\ i - Len(p) \in DOMAIN q
                         /\ c[i] = q[i - Len(p)] /\ c[i] \in ToSet(q)
    OBVIOUS
  <2>1. CASE i <= Len(p)
    <3>1. i \in DOMAIN p /\ c[i] = p[i]
      BY <1>1, <1>2, <2>1
    <3> QED BY <3>1 DEF ToSet
  <2>2. CASE ~(i <= Len(p))
    <3>1. i > Len(p) /\ i - Len(p) \in DOMAIN q /\ c[i] = q[i - Len(p)]
      BY <1>1, <1>2, <2>2
    <3> QED BY <3>1 DEF ToSet
  <2> QED BY <2>1, <2>2
<1>4. ASSUME NEW i \in DOMAIN c, NEW j \in DOMAIN c, c[i] = c[j] PROVE i = j
  <2>1. CASE i \in DOMAIN p /\ j \in DOMAIN p /\ c[i] = p[i] /\ c[j] = p[j]
    BY <1>4, <2>1 DEF IsInjective
  <2>2. CASE /\ i - Len(p) \in DOMAIN q /\ j - Len(p) \in DOMAIN q
             /\ c[i] = q[i - Len(p)] /\ c[j] = q[j - Len(p)]
    <3>1. i - Len(p) = j - Len(p)
      BY <1>4, <2>2 DEF IsInjective
    <3> QED BY <1>1, <3>1
  <2> QED BY <1>3, <1>4, <2>1, <2>2
<1> QED BY <1>4 DEF IsInjective, c

-----------------------------------------------------------------------------
(* The forked loader stays within every closed set                         *)

LEMMA ErrWithin ==
  ASSUME NEW C, ForkedWithin(C), ~Sound(C), NEW r \in Routines, Err(r),
         UNCHANGED <<bad, visited, jobs, todo, imports>>
  PROVE  ForkedWithin(C)'
  BY DEF ForkedWithin, Sound

LEMMA ListFilesWithin ==
  ASSUME IInv, NEW C, Closed(C), ForkedWithin(C), NEW d \in Dirs, ListFiles(d)
  PROVE  ForkedWithin(C)'
<1>1. d \in Reached(C)
  BY DEF ListFiles, IInv, TypeOK, ForkedWithin
<1>2. CASE d \in bad
  BY <1>1, <1>2, ErrWithin DEF ListFiles, Sound
<1>3. CASE d \notin bad
  <2>1. ToSet(FilesOf[d]) \subseteq C
    BY <1>1 DEF Closed
  <2>2. \A r \in Routines : todo'[r] = IF r = d THEN FilesOf[d] ELSE todo[r]
    BY <1>3 DEF ListFiles, IInv, TypeOK
  <2> QED BY <1>3, <2>1, <2>2 DEF ListFiles, ForkedWithin, Sound
<1> QED BY <1>2, <1>3

LEMMA VisitWithin ==
  ASSUME IInv, NEW C, ForkedWithin(C), NEW r \in Routines, Visit(r)
  PROVE  ForkedWithin(C)'
<1>1. todo[r] \in Seq(Files) /\ todo[r] # << >>
  BY DEF Visit, IInv, TypeOK
<1>2. Head(todo[r]) \in C /\ ToSet(Tail(todo[r])) \subseteq C
  BY <1>1, HeadOrTail DEF ForkedWithin
<1>3. \A o \in Routines : todo'[o] = todo[o] \/ (o = r /\ todo'[o] = Tail(todo[r]))
  BY DEF Visit, IInv, TypeOK
<1>4. visited' \subseteq C
  BY <1>2 DEF Visit, ForkedWithin
<1> QED BY <1>2, <1>3, <1>4 DEF Visit, ForkedWithin, Sound

LEMMA ParseWithin ==
  ASSUME IInv, NEW C, ForkedWithin(C), NEW r \in Routines, Parse(r)
  PROVE  ForkedWithin(C)'
<1>1. todo[r] \in Seq(Files) /\ todo[r] # << >>
  BY DEF Parse, IInv, TypeOK, Placed
<1>2. Head(todo[r]) \in C /\ Head(todo[r]) \in Files /\ ToSet(Tail(todo[r])) \subseteq C
  BY <1>1, HeadOrTail DEF ForkedWithin
<1>3. CASE Head(todo[r]) \in bad
  BY <1>2, <1>3, ErrWithin DEF Parse, Sound
<1>4. CASE Head(todo[r]) \notin bad
  <2>1. ImportsOf[Head(todo[r])] \in Seq(Dirs)
    BY <1>2, ImportsAssumption
  <2>2. ToSet(ImportsOf[Head(todo[r])]) \subseteq Reached(C)
    BY <1>2, <2>1, Elements DEF Reached
  <2>3. \A o \in Routines :
          /\ todo'[o] = IF o = r THEN Tail(todo[r]) ELSE todo[o]
          /\ imports'[o] = IF o = r THEN ImportsOf[Head(todo[r])] ELSE imports[o]
    BY <1>4 DEF Parse, IInv, TypeOK
  <2> QED BY <1>2, <1>4, <2>2, <2>3 DEF Parse, ForkedWithin, Sound
<1> QED BY <1>3, <1>4

LEMMA StartWithin ==
  ASSUME IInv, NEW C, ForkedWithin(C), NEW r \in Routines, Start(r)
  PROVE  ForkedWithin(C)'
<1>1. imports[r] \in Seq(Dirs) /\ imports[r] # << >> /\ jobs \in Seq(Dirs)
  BY DEF Start, IInv, TypeOK, Placed
<1>2. /\ Head(imports[r]) \in Reached(C) /\ Head(imports[r]) \in Dirs
      /\ ToSet(Tail(imports[r])) \subseteq Reached(C)
  BY <1>1, HeadOrTail DEF ForkedWithin
<1>3. jobs' = jobs \/ jobs' = Append(jobs, Head(imports[r]))
  BY DEF Start
<1>4. ToSet(jobs') \subseteq ToSet(jobs) \cup {Head(imports[r])}
  <2>1. ToSet(Append(jobs, Head(imports[r]))) = ToSet(jobs) \cup {Head(imports[r])}
    BY <1>1, <1>2, AppendElement
  <2> QED BY <1>3, <2>1
<1>5. \A o \in Routines : imports'[o] = IF o = r THEN Tail(imports[r]) ELSE imports[o]
  BY DEF Start, IInv, TypeOK
<1> QED BY <1>2, <1>4, <1>5 DEF Start, ForkedWithin, Sound

\* Load fails in Collect only after a job of its own has failed.
LEMMA NextWithin ==
  ASSUME IInv, NEW C, Closed(C), ForkedWithin(C), Next
  PROVE  ForkedWithin(C)'
<1>1. ASSUME NEW r \in Routines, Work(r) PROVE ForkedWithin(C)'
  <2>1. CASE Resolve(r) \/ NextFile(r) \/ End(r)
    BY <2>1 DEF Resolve, NextFile, End, ForkedWithin, Sound
  <2> QED BY <1>1, <2>1, VisitWithin, ParseWithin, StartWithin DEF Work
<1>2. CASE Collect
  BY <1>2 DEF Collect, ForkedWithin, Sound
<1>3. CASE Finish
  BY <1>3 DEF Finish, ForkedWithin, Sound
<1> QED BY <1>1, <1>2, <1>3, ListFilesWithin DEF Next

LEMMA InitUpper == Init => ForkedUpper
<1> SUFFICES ASSUME Init, NEW C \in SUBSET Files, Closed(C) PROVE ForkedWithin(C)
  BY DEF ForkedUpper
<1>1. \A r \in Routines : todo[r] = IF r = Root THEN FilesOf[Entry] ELSE << >>
  BY DEF Init, EntryFiles
<1> QED BY <1>1, EmptySequence DEF Init, ForkedWithin, Closed

LEMMA NextUpper == IInv /\ ForkedUpper /\ Next => ForkedUpper'
  BY NextWithin DEF ForkedUpper

-----------------------------------------------------------------------------
(* The forked loader forgets nothing                                       *)

LEMMA ErrFollows ==
  ASSUME IInv, Listed, Followed, Emptied, NEW r \in Routines, pc[r] \in {"list", "parse"}, Err(r),
         UNCHANGED <<bad, visited, jobs, todo, imports, files>>
  PROVE  Listed' /\ Followed' /\ Emptied'
<1>1. /\ \A o \in Routines : pc'[o] = IF o = r THEN "ended" ELSE pc[o]
      /\ r = Root => phase' = "failed" /\ failed' = failed
      /\ r # Root => phase' = phase /\ failed' = failed \cup {r}
  BY DEF Err, Goto, IInv, TypeOK
<1>2. Listed'
  BY <1>1, RootAssumption DEF Listed, Package, IInv, Over
<1>3. Followed' /\ Emptied'
  BY <1>1 DEF Followed, Emptied
<1> QED BY <1>2, <1>3

LEMMA ListFilesFollows ==
  ASSUME IInv, Listed, Followed, Emptied, NEW d \in Dirs, ListFiles(d)
  PROVE  Listed' /\ Followed' /\ Emptied'
<1>1. CASE d \in bad
  BY <1>1, ErrFollows DEF ListFiles
<1>2. CASE d \notin bad
  <2>1. \A o \in Routines : /\ pc'[o] = IF o = d THEN "visit" ELSE pc[o]
                           /\ todo'[o] = IF o = d THEN FilesOf[d] ELSE todo[o]
    BY <1>2 DEF ListFiles, Goto, IInv, TypeOK
  <2>2. /\ pc[d] = "list" /\ d # Root /\ Package(d) = d
        /\ UNCHANGED <<bad, visited, jobs, imports, files, failed, phase>>
    BY <1>2, RootAssumption DEF ListFiles, Package
  <2>3. Listed'
    BY <1>2, <2>1, <2>2 DEF Listed
  <2>4. Followed' /\ Emptied'
    BY <2>1, <2>2 DEF Followed, Emptied
  <2> QED BY <2>3, <2>4
<1> QED BY <1>1, <1>2

LEMMA VisitFollows ==
  ASSUME IInv, Listed, Followed, Emptied, NEW r \in Routines, Visit(r)
  PROVE  Listed' /\ Followed' /\ Emptied'
<1>1. /\ pc[r] = "visit"
      /\ ToSet(todo[r]) = {Head(todo[r])} \cup ToSet(Tail(todo[r]))
      /\ UNCHANGED <<bad, jobs, imports, files, failed, phase>>
  <2>1. todo[r] \in Seq(Files) /\ todo[r] # << >>
    BY DEF Visit, IInv, TypeOK
  <2> QED BY <2>1, HeadOrTail DEF Visit
<1>2. CASE Head(todo[r]) \in visited
  <2>1. \A o \in Routines : todo'[o] = IF o = r THEN Tail(todo[r]) ELSE todo[o]
    BY <1>2 DEF Visit, IInv, TypeOK
  <2>2. visited' = visited /\ pc' = pc
    BY <1>2 DEF Visit
  <2>3. Listed'
    BY <1>1, <1>2, <2>1, <2>2 DEF Listed
  <2> QED BY <1>1, <2>1, <2>2, <2>3 DEF Followed, Emptied
<1>3. CASE Head(todo[r]) \notin visited
  <2>1. \A o \in Routines : pc'[o] = IF o = r THEN "parse" ELSE pc[o]
    BY <1>3 DEF Visit, Goto, IInv, TypeOK
  <2>2. visited \subseteq visited' /\ todo' = todo
    BY <1>3 DEF Visit
  <2>3. Listed'
    BY <1>1, <2>1, <2>2 DEF Listed
  <2> QED BY <1>1, <2>1, <2>2, <2>3 DEF Followed, Emptied
<1> QED BY <1>2, <1>3

LEMMA ParseFollows ==
  ASSUME IInv, Listed, Followed, Emptied, NEW r \in Routines, Parse(r)
  PROVE  Listed' /\ Followed' /\ Emptied'
<1> DEFINE f == Head(todo[r])
<1>1. /\ pc[r] = "parse" /\ f \in Files /\ f \in visited
      /\ ToSet(todo[r]) = {f} \cup ToSet(Tail(todo[r]))
      /\ UNCHANGED <<bad, visited, jobs>>
  <2>1. todo[r] \in Seq(Files) /\ todo[r] # << >>
    BY DEF Parse, IInv, TypeOK, Placed
  <2> QED BY <2>1, HeadOrTail DEF Parse, IInv, Entered
<1>2. CASE f \in bad
  BY <1>1, <1>2, ErrFollows DEF Parse
<1>3. CASE f \notin bad
  <2>1. \A o \in Routines :
          /\ pc'[o] = IF o = r THEN "resolve" ELSE pc[o]
          /\ todo'[o] = IF o = r THEN Tail(todo[r]) ELSE todo[o]
          /\ imports'[o] = IF o = r THEN ImportsOf[f] ELSE imports[o]
          /\ files'[o] = IF o = r THEN Append(files[r], f) ELSE files[o]
    BY <1>3 DEF Parse, Goto, IInv, TypeOK
  <2>2. UNCHANGED <<failed, phase>>
    BY <1>3 DEF Parse
  <2>3. ToSet(Append(files[r], f)) = ToSet(files[r]) \cup {f}
    <3>1. files[r] \in Seq(Files)
      BY DEF IInv, TypeOK
    <3> QED BY <1>1, <3>1, AppendElement
  <2>4. Listed'
    BY <1>1, <2>1, <2>2 DEF Listed
  <2>5. imports[r] = << >>
    BY <1>1 DEF Emptied
  <2>6. Followed'
    BY <1>1, <1>3, <2>1, <2>3, <2>5, EmptySequence DEF Followed
  <2>7. Emptied'
    BY <1>1, <2>1, <2>2 DEF Emptied
  <2> QED BY <2>4, <2>6, <2>7
<1> QED BY <1>2, <1>3

LEMMA StartFollows ==
  ASSUME IInv, Listed, Followed, Emptied, NEW r \in Routines, Start(r)
  PROVE  Listed' /\ Followed' /\ Emptied'
<1> DEFINE d == Head(imports[r])
<1>1. /\ imports[r] \in Seq(Dirs) /\ imports[r] # << >> /\ d \in Dirs
      /\ ToSet(imports[r]) = {d} \cup ToSet(Tail(imports[r]))
      /\ pc[r] = "start" /\ UNCHANGED <<bad, visited, todo, files, failed, phase>>
  <2>1. imports[r] \in Seq(Dirs) /\ imports[r] # << >>
    BY DEF Start, IInv, TypeOK, Placed
  <2> QED BY <2>1, HeadOrTail DEF Start
<1>2. \A o \in Routines : imports'[o] = IF o = r THEN Tail(imports[r]) ELSE imports[o]
  BY DEF Start, IInv, TypeOK
<1>3. ToSet(jobs') = ToSet(jobs) \cup {d}
  <2>1. jobs \in Seq(Dirs)
    BY DEF IInv, TypeOK
  <2>2. ToSet(Append(jobs, d)) = ToSet(jobs) \cup {d}
    BY <1>1, <2>1, AppendElement
  <2> QED BY <2>2 DEF Start
<1>4. \/ \A o \in Routines : pc'[o] = IF o = r THEN "resolve" ELSE pc[o]
      \/ /\ pc[d] = "unborn"
         /\ \A o \in Routines : pc'[o] = IF o = d THEN "list" ELSE IF o = r THEN "resolve" ELSE pc[o]
  BY <1>1 DEF Start, Goto, IInv, TypeOK
<1>5. Listed'
  BY <1>1, <1>4 DEF Listed
<1>6. Followed'
  BY <1>1, <1>2, <1>3 DEF Followed
<1>7. Emptied'
  <2>1. \A o \in Routines : pc[o] = "unborn" => imports[o] = << >>
    BY DEF Emptied
  <2> QED BY <1>1, <1>2, <1>4, <2>1 DEF Emptied
<1> QED BY <1>5, <1>6, <1>7

LEMMA NextFollows ==
  ASSUME IInv, Listed, Followed, Emptied, Next
  PROVE  Listed' /\ Followed' /\ Emptied'
<1>1. ASSUME NEW r \in Routines, Resolve(r) \/ NextFile(r) \/ End(r)
      PROVE  Listed' /\ Followed' /\ Emptied'
  <2>1. /\ pc[r] \notin {"unborn", "list", "ended"}
        /\ \A o \in Routines : o # r => pc'[o] = pc[o]
        /\ pc'[r] \in {"visit", "start"} \/ (pc'[r] = "ended" /\ todo[r] = << >>)
        /\ imports[r] # << >> => pc'[r] \in {"resolve", "start"}
        /\ phase' # "failed" => phase # "failed"
        /\ UNCHANGED <<bad, visited, jobs, todo, imports, files, failed>>
    BY <1>1 DEF Resolve, NextFile, End, Goto, IInv, TypeOK, Over, Emptied
  <2>2. Listed' /\ Followed'
    BY <2>1 DEF Listed, Followed
  <2>3. Emptied'
    BY <2>1 DEF Emptied
  <2> QED BY <2>2, <2>3
<1>2. CASE Collect
  BY <1>2 DEF Collect, Listed, Followed, Emptied
<1>3. CASE Finish
  BY <1>3 DEF Finish, Listed, Followed, Emptied
<1> QED BY <1>1, <1>2, <1>3, ListFilesFollows, VisitFollows, ParseFollows, StartFollows DEF Next, Work

LEMMA InitFollows == Init => Listed /\ Followed /\ Emptied
<1> SUFFICES ASSUME Init PROVE Listed /\ Followed /\ Emptied
  OBVIOUS
<1>1. \A r \in Routines :
        /\ pc[r] = IF r = Root THEN "visit" ELSE "unborn"
        /\ imports[r] = << >> /\ files[r] = << >>
        /\ todo[r] = IF r = Root THEN FilesOf[Entry] ELSE << >>
  BY DEF Init, EntryFiles
<1>2. Listed
  BY <1>1 DEF Listed, Package
<1> QED BY <1>1, <1>2, EmptySequence DEF Followed, Emptied

-----------------------------------------------------------------------------
(* No file is loaded twice                                                 *)

\* A goroutine holds only files that have been entered.
LEMMA HeldEntered ==
  ASSUME IInv, NEW r \in Routines
  PROVE  Held(r) \subseteq visited
  BY DEF IInv, Entered, Held

\* A step in which nobody takes up or loads a file.
LEMMA HeldStays ==
  ASSUME Once, \A r \in Routines : pc'[r] = "parse" => pc[r] = "parse",
         \A r \in Routines : pc[r] = "parse" => todo'[r] = todo[r],
         files' = files, Collects' => IsInjective(merged'.files)
  PROVE  Once'
<1>1. \A r \in Routines : Held(r)' \subseteq Held(r)
  BY DEF Held
<1> QED BY <1>1 DEF Once

LEMMA VisitOnce ==
  ASSUME IInv, Once, NEW r \in Routines, Visit(r)
  PROVE  Once'
<1> DEFINE f == Head(todo[r])
<1>1. f \in Files /\ pc[r] = "visit" /\ UNCHANGED <<files, phase, merged>>
  <2>1. todo[r] \in Seq(Files) /\ todo[r] # << >>
    BY DEF Visit, IInv, TypeOK
  <2> QED BY <2>1, HeadOrTail DEF Visit
<1>2. CASE f \in visited
  <2>1. /\ \A o \in Routines : todo'[o] = IF o = r THEN Tail(todo[r]) ELSE todo[o]
        /\ pc' = pc
    BY <1>2 DEF Visit, IInv, TypeOK
  <2> QED BY <1>1, <2>1, HeldStays DEF Once, Collects
<1>3. CASE f \notin visited
  <2>1. /\ \A o \in Routines : pc'[o] = IF o = r THEN "parse" ELSE pc[o]
        /\ todo' = todo
    BY <1>3 DEF Visit, Goto, IInv, TypeOK
  <2>2. \A o \in Routines : Held(o)' = IF o = r THEN Held(r) \cup {f} ELSE Held(o)
    BY <1>1, <2>1 DEF Held
  <2>3. \A o \in Routines : f \notin Held(o)
    BY <1>3, HeldEntered
  <2>4. \A o \in Routines, u \in Routines : o # u => Held(o)' \cap Held(u)' = {}
    BY <2>2, <2>3 DEF Once
  <2>5. f \notin ToSet(files[r])
    BY <2>3 DEF Held
  <2> QED BY <1>1, <2>1, <2>4, <2>5 DEF Once, Collects
<1> QED BY <1>2, <1>3

LEMMA ParseOnce ==
  ASSUME IInv, Once, NEW r \in Routines, Parse(r)
  PROVE  Once'
<1> DEFINE f == Head(todo[r])
<1>1. f \in Files /\ pc[r] = "parse" /\ merged' = merged
  <2>1. todo[r] \in Seq(Files) /\ todo[r] # << >>
    BY DEF Parse, IInv, TypeOK, Placed
  <2> QED BY <2>1, HeadOrTail DEF Parse
<1>2. CASE f \in bad
  <2>1. /\ \A o \in Routines : pc'[o] = IF o = r THEN "ended" ELSE pc[o]
        /\ UNCHANGED <<todo, files>>
        /\ phase' = phase \/ phase' = "failed"
    BY <1>2 DEF Parse, Err, Goto, IInv, TypeOK
  <2> QED BY <1>1, <2>1, HeldStays DEF Once, Collects
<1>3. CASE f \notin bad
  <2>1. /\ \A o \in Routines :
             /\ pc'[o] = IF o = r THEN "resolve" ELSE pc[o]
             /\ todo'[o] = IF o = r THEN Tail(todo[r]) ELSE todo[o]
             /\ files'[o] = IF o = r THEN Append(files[r], f) ELSE files[o]
        /\ phase' = phase
    BY <1>3 DEF Parse, Goto, IInv, TypeOK
  <2>2. /\ ToSet(Append(files[r], f)) = ToSet(files[r]) \cup {f}
        /\ IsInjective(Append(files[r], f))
    <3>1. files[r] \in Seq(Files) /\ IsInjective(files[r]) /\ f \notin ToSet(files[r])
      BY <1>1 DEF IInv, TypeOK, Once
    <3> QED BY <1>1, <3>1, AppendElement
  <2>3. \A o \in Routines : Held(o)' = Held(o)
    BY <1>1, <2>1, <2>2 DEF Held
  <2>4. \A o \in Routines : IsInjective(files'[o])
    BY <2>1, <2>2 DEF Once
  <2>5. \A o \in Routines : pc'[o] = "parse" => Head(todo'[o]) \notin ToSet(files'[o])
    BY <2>1 DEF Once
  <2> QED BY <1>1, <2>1, <2>3, <2>4, <2>5 DEF Once, Collects
<1> QED BY <1>2, <1>3

\* The files of the next job are none of those that are merged already: they
\* come from Load's own goroutine or from another job.
LEMMA CollectOnce ==
  ASSUME IInv, Once, Collect
  PROVE  Once'
<1> DEFINE n == merged.jobs + 1
           d == jobs[n]
<1>1. /\ d \in Dirs /\ merged.jobs \in Nat /\ n \in 1 .. Len(jobs)
      /\ \A i \in 1 .. merged.jobs : jobs[i] \in Dirs /\ jobs[i] # d
  <2>1. jobs \in Seq(Dirs) /\ IsInjective(jobs) /\ merged.jobs \in 0 .. Len(jobs)
    BY DEF IInv, TypeOK
  <2>2. n \in 1 .. Len(jobs) /\ merged.jobs \in Nat
    BY <2>1 DEF Collect, Collected
  <2>3. \A i \in 1 .. merged.jobs : i \in 1 .. Len(jobs) /\ i # n
    BY <2>1, <2>2
  <2> QED BY <2>1, <2>2, <2>3, Elements DEF IsInjective
<1>2. UNCHANGED <<pc, todo, files>> /\ phase = "collect"
  BY DEF Collect
<1>3. CASE d \in failed
  BY <1>2, <1>3 DEF Collect, Collected, Once, Held, Collects
<1>4. CASE d \notin failed
  <2>1. merged'.files = merged.files \o files[d]
    <3>1. merged' = [files |-> merged.files \o files[d], jobs |-> n]
      BY <1>4 DEF Collect, Collected
    <3> QED BY <3>1
  <2>2. merged.files \in Seq(Files) /\ files[d] \in Seq(Files)
    BY <1>1 DEF IInv, TypeOK
  <2>3. IsInjective(merged.files) /\ IsInjective(files[d])
    BY <1>1, <1>2 DEF Once, Collects
  <2>4. ToSet(merged.files) \cap ToSet(files[d]) = {}
    <3>1. SUFFICES ASSUME NEW f \in ToSet(merged.files), f \in ToSet(files[d]) PROVE FALSE
      OBVIOUS
    <3>2. f \in Files
      BY <2>2, Elements
    <3>3. PICK o \in Routines : o # d /\ f \in ToSet(files[o])
      <4>1. f \in ToSet(files[Root]) \/ \E i \in 1 .. merged.jobs : f \in ToSet(files[jobs[i]])
        BY <1>2, <3>2 DEF IInv, Gathered, Collects
      <4> QED BY <1>1, <4>1
    <3>4. Held(o) \cap Held(d) = {}
      BY <1>1, <3>3 DEF Once
    <3> QED BY <3>1, <3>3, <3>4 DEF Held
  <2>5. IsInjective(merged'.files)
    BY <2>1, <2>2, <2>3, <2>4, ConcatenateInjective
  <2> QED BY <1>2, <2>5, HeldStays
<1> QED BY <1>3, <1>4

LEMMA NextOnce ==
  ASSUME IInv, Once, Next
  PROVE  Once'
<1>1. ASSUME NEW r \in Routines, Resolve(r) \/ Start(r) \/ NextFile(r) PROVE Once'
  <2>1. /\ \A o \in Routines : pc'[o] = "parse" => pc[o] = "parse"
        /\ UNCHANGED <<todo, files, phase, merged>>
    BY <1>1 DEF Resolve, Start, NextFile, Goto, IInv, TypeOK
  <2> QED BY <2>1, HeldStays DEF Once, Collects
<1>2. ASSUME NEW r \in Routines, End(r) PROVE Once'
  <2>1. /\ \A o \in Routines : pc'[o] = "parse" => pc[o] = "parse"
        /\ UNCHANGED <<todo, files>>
    BY <1>2 DEF End, Goto, IInv, TypeOK
  <2>2. merged'.files = files[Root] \/ (merged' = merged /\ phase' = phase)
    BY <1>2 DEF End, IInv, TypeOK
  <2> QED BY <2>1, <2>2, HeldStays DEF Once, Collects
<1>3. ASSUME NEW d \in Dirs, ListFiles(d) PROVE Once'
  <2>1. /\ \A o \in Routines : pc'[o] = "parse" => pc[o] = "parse"
        /\ \A o \in Routines : pc[o] = "parse" => todo'[o] = todo[o]
        /\ UNCHANGED <<files, merged>> /\ (phase' = phase \/ phase' = "failed")
    BY <1>3 DEF ListFiles, Err, Goto, IInv, TypeOK
  <2> QED BY <2>1, HeldStays DEF Once, Collects
<1>4. CASE Finish
  BY <1>4, HeldStays DEF Finish, Once, Collects
<1> QED BY <1>1, <1>2, <1>3, <1>4, VisitOnce, ParseOnce, CollectOnce DEF Next, Work

LEMMA InitOnce == Init => Once
<1> SUFFICES ASSUME Init PROVE Once
  OBVIOUS
<1>1. \A r \in Routines : pc[r] # "parse" /\ files[r] = << >>
  BY DEF Init
<1> QED BY <1>1, EmptySequence DEF Init, Once, Held, Collects

-----------------------------------------------------------------------------
(* The sequential loader                                                   *)

LEMMA InitSeqInv == Sequential!SeqInit => SeqInv
<1> SUFFICES ASSUME Sequential!SeqInit PROVE SeqInv
  OBVIOUS
<1> USE DEF Sequential!SeqInit
<1>1. FilesOf[Entry] \in Seq(Files)
  BY FilesAssumption
<1>2. SeqTypes
  BY <1>1 DEF SeqTypes
<1>3. SeqUpper /\ SeqFollows
  BY EmptySequence DEF SeqUpper, SeqWithin, Closed, SeqFollows
<1> QED BY <1>2, <1>3 DEF SeqInv

LEMMA SeqNextFileInv ==
  ASSUME SeqInv, Sequential!NextFile
  PROVE  SeqInv'
<1> DEFINE f == Head(queue)
<1> USE DEF SeqInv
<1>1. /\ seqPhase = "loading" /\ fileImports = << >> /\ queue' = Tail(queue)
      /\ f \in Files /\ Tail(queue) \in Seq(Files) /\ ToSet(queue) = {f} \cup ToSet(Tail(queue))
      /\ UNCHANGED <<bad, visitedPkgs>>
  <2>1. queue \in Seq(Files) /\ queue # << >>
    BY DEF Sequential!NextFile, SeqTypes
  <2> QED BY <2>1, HeadOrTail DEF Sequential!NextFile
<1>2. \/ f \in visitedFiles /\ UNCHANGED <<fileImports, visitedFiles, loaded, seqPhase>>
      \/ /\ f \notin visitedFiles /\ f \in bad /\ visitedFiles' = visitedFiles \cup {f}
         /\ seqPhase' = "failed" /\ UNCHANGED <<fileImports, loaded>>
      \/ /\ f \notin visitedFiles /\ f \notin bad /\ visitedFiles' = visitedFiles \cup {f}
         /\ fileImports' = ImportsOf[f] /\ loaded' = Append(loaded, f) /\ UNCHANGED seqPhase
  BY DEF Sequential!NextFile
<1>3. /\ ImportsOf[f] \in Seq(Dirs)
      /\ loaded \in Seq(Files) /\ Append(loaded, f) \in Seq(Files)
      /\ ToSet(Append(loaded, f)) = ToSet(loaded) \cup {f}
  BY <1>1, ImportsAssumption, AppendElement DEF SeqTypes
<1>4. SeqTypes'
  BY <1>1, <1>2, <1>3 DEF SeqTypes
<1>5. SeqUpper'
  <2> SUFFICES ASSUME NEW C \in SUBSET Files, Closed(C) PROVE SeqWithin(C)'
    BY DEF SeqUpper
  <2>1. SeqWithin(C)
    BY DEF SeqUpper
  <2>2. f \in C /\ ToSet(queue') \subseteq C /\ visitedFiles' \subseteq C
    BY <1>1, <1>2, <2>1 DEF SeqWithin
  <2>3. ToSet(ImportsOf[f]) \subseteq Reached(C)
    BY <1>3, <2>2, Elements DEF Reached
  <2>4. f \in bad => ~Sound(C)
    BY <2>2 DEF Sound
  <2> QED BY <1>1, <1>2, <2>1, <2>2, <2>3, <2>4 DEF SeqWithin, Sound
<1>6. SeqFollows'
  <2>1. \A S : S \subseteq visitedFiles \cup ToSet(queue) => S \subseteq visitedFiles' \cup ToSet(queue')
    BY <1>1, <1>2
  <2>2. CASE fileImports' = fileImports /\ visitedFiles' = visitedFiles /\ loaded' = loaded
             /\ seqPhase' = seqPhase
    BY <1>1, <2>1, <2>2 DEF SeqFollows
  <2>3. CASE /\ f \notin bad /\ visitedFiles' = visitedFiles \cup {f}
             /\ fileImports' = ImportsOf[f] /\ loaded' = Append(loaded, f) /\ UNCHANGED seqPhase
    <3>1. \A g \in visitedFiles : g \notin bad /\ ToSet(ImportsOf[g]) \subseteq visitedPkgs
      BY <1>1, EmptySequence DEF SeqFollows
    <3> QED BY <1>1, <1>3, <2>1, <2>3, <3>1 DEF SeqFollows
  <2>4. CASE seqPhase' = "failed"
    BY <2>4 DEF SeqFollows
  <2> QED BY <1>2, <2>2, <2>3, <2>4
<1> QED BY <1>4, <1>5, <1>6

LEMMA SeqFollowImportInv ==
  ASSUME SeqInv, Sequential!FollowImport
  PROVE  SeqInv'
<1> DEFINE d == Head(fileImports)
<1> USE DEF SeqInv
<1>1. /\ seqPhase = "loading" /\ fileImports' = Tail(fileImports)
      /\ d \in Dirs /\ Tail(fileImports) \in Seq(Dirs)
      /\ ToSet(fileImports) = {d} \cup ToSet(Tail(fileImports))
      /\ visitedPkgs' = visitedPkgs \cup {d}
      /\ UNCHANGED <<bad, visitedFiles, loaded>>
  <2>1. fileImports \in Seq(Dirs) /\ fileImports # << >>
    BY DEF Sequential!FollowImport, SeqTypes
  <2> QED BY <2>1, HeadOrTail DEF Sequential!FollowImport
<1>2. \/ d \in visitedPkgs /\ UNCHANGED <<queue, seqPhase>>
      \/ d \in bad /\ seqPhase' = "failed" /\ UNCHANGED queue
      \/ d \notin bad /\ queue' = queue \o FilesOf[d] /\ UNCHANGED seqPhase
  BY DEF Sequential!FollowImport
<1>3. /\ queue \o FilesOf[d] \in Seq(Files)
      /\ ToSet(queue \o FilesOf[d]) = ToSet(queue) \cup ToSet(FilesOf[d])
  <2>1. queue \in Seq(Files) /\ FilesOf[d] \in Seq(Files)
    BY <1>1, FilesAssumption DEF SeqTypes
  <2> QED BY <2>1, Concatenate
<1>4. SeqTypes'
  BY <1>1, <1>2, <1>3 DEF SeqTypes
<1>5. SeqUpper'
  <2> SUFFICES ASSUME NEW C \in SUBSET Files, Closed(C) PROVE SeqWithin(C)'
    BY DEF SeqUpper
  <2>1. SeqWithin(C)
    BY DEF SeqUpper
  <2>2. d \in Reached(C) /\ ToSet(Tail(fileImports)) \subseteq Reached(C)
    BY <1>1, <2>1 DEF SeqWithin
  <2>3. ToSet(queue') \subseteq C
    BY <1>2, <1>3, <2>1, <2>2 DEF SeqWithin, Closed
  <2>4. d \in bad => ~Sound(C)
    BY <2>2 DEF Sound
  <2> QED BY <1>1, <1>2, <2>1, <2>2, <2>3, <2>4 DEF SeqWithin, Sound
<1>6. SeqFollows'
  <2>1. CASE d \in visitedPkgs /\ UNCHANGED <<queue, seqPhase>>
    BY <1>1, <2>1 DEF SeqFollows
  <2>2. CASE d \notin bad /\ queue' = queue \o FilesOf[d] /\ UNCHANGED seqPhase
    BY <1>1, <1>3, <2>2 DEF SeqFollows
  <2>3. CASE seqPhase' = "failed"
    BY <2>3 DEF SeqFollows
  <2> QED BY <1>2, <2>1, <2>2, <2>3
<1> QED BY <1>4, <1>5, <1>6

LEMMA SeqNextInv ==
  ASSUME SeqInv, Sequential!SeqNext
  PROVE  SeqInv'
<1>1. CASE Sequential!Return
  <2> USE <1>1 DEF Sequential!Return, SeqInv
  <2>1. SeqTypes'
    BY DEF SeqTypes
  <2>2. SeqUpper'
    BY DEF SeqUpper, SeqWithin, Sound
  <2>3. SeqFollows'
    BY DEF SeqFollows
  <2> QED BY <2>1, <2>2, <2>3
<1> QED BY <1>1, SeqNextFileInv, SeqFollowImportInv DEF Sequential!SeqNext

-----------------------------------------------------------------------------
(* Both together                                                           *)

LEMMA NextForkedInv ==
  ASSUME ForkedInv, Next
  PROVE  ForkedInv'
  BY NextIInv, NextUpper, NextFollows, NextOnce DEF ForkedInv

LEMMA BothInitInv == BothInit => ForkedInv /\ SeqInv
  BY InitIInv, InitUpper, InitFollows, InitOnce, InitSeqInv DEF BothInit, ForkedInv

\* Neither loader touches the other's state; both see the same sources.
LEMMA BothNextInv ==
  ForkedInv /\ SeqInv /\ [BothNext]_<<vars, seqState>> => ForkedInv' /\ SeqInv'
<1> SUFFICES ASSUME ForkedInv, SeqInv, [BothNext]_<<vars, seqState>>
             PROVE  ForkedInv' /\ SeqInv'
  OBVIOUS
<1>1. ASSUME UNCHANGED vars PROVE ForkedInv'
  <2>1. IInv'
    BY <1>1, NextIInv DEF ForkedInv
  <2>2. ForkedUpper'
    BY <1>1 DEF vars, ForkedInv, ForkedUpper, ForkedWithin, Sound
  <2>3. Listed' /\ Followed' /\ Emptied'
    BY <1>1 DEF vars, ForkedInv, Listed, Followed, Emptied
  <2>4. Once'
    BY <1>1 DEF vars, ForkedInv, Once, Held, Collects
  <2> QED BY <2>1, <2>2, <2>3, <2>4 DEF ForkedInv
<1>2. ASSUME UNCHANGED <<bad, seqState>> PROVE SeqInv'
  BY <1>2 DEF seqState, SeqInv, SeqTypes, SeqUpper, SeqWithin, Sound, SeqFollows
<1>3. CASE SequentialStep
  <2>1. bad' = bad
    BY <1>3 DEF SequentialStep, Sequential!SeqNext, Sequential!NextFile, Sequential!FollowImport,
                Sequential!Return
  <2>2. UNCHANGED vars
    BY <1>3, <2>1 DEF SequentialStep, vars
  <2> QED BY <1>1, <1>3, <2>2, SeqNextInv DEF SequentialStep
<1>4. CASE Next /\ UNCHANGED seqState
  <2>1. bad' = bad
    BY <1>4 DEF Next, Work, ListFiles, Visit, Parse, Resolve, Start, NextFile, End, Collect, Finish
  <2> QED BY <1>2, <1>4, <2>1, NextForkedInv
<1>5. CASE UNCHANGED <<vars, seqState>>
  <2>1. UNCHANGED vars /\ UNCHANGED <<bad, seqState>>
    BY <1>5 DEF vars
  <2> QED BY <1>1, <1>2, <2>1
<1> QED BY <1>3, <1>4, <1>5 DEF BothNext

-----------------------------------------------------------------------------
(* What the invariants say                                                 *)

LEMMA ForkedClosed ==
  ASSUME ForkedInv, phase = "loaded"
  PROVE  Closed(visited) /\ Sound(visited)
<1> USE DEF ForkedInv
<1>1. /\ ToSet(merged.files) = visited /\ visited \subseteq Files
      /\ \A r \in Routines : pc[r] \in {"unborn", "ended"}
  BY IInvQuiescent DEF Quiescent, IInv, TypeOK
<1>2. \A d \in Dirs : d \in ToSet(jobs) => d \in done \ failed
  <2>1. \A d \in Dirs : d \in ToSet(jobs) => \E i \in 1 .. Len(jobs) : jobs[i] = d
    BY Elements DEF IInv, TypeOK
  <2> QED BY <2>1 DEF IInv, Gathered, Collects
<1>3. Root \notin failed /\ pc[Root] = "ended"
  <2>1. failed \subseteq ToSet(jobs) /\ ToSet(jobs) \subseteq Dirs
    BY Elements DEF IInv, TypeOK
  <2> QED BY <1>1, <2>1, RootAssumption DEF IInv, Over
<1>4. \A r \in Routines : pc[r] = "ended" /\ r \notin failed
        => ToSet(FilesOf[Package(r)]) \subseteq visited
  BY EmptySequence DEF Listed, Emptied
<1>5. \A f \in visited : \E r \in Routines : f \in ToSet(files[r])
  <2> SUFFICES ASSUME NEW f \in visited PROVE \E r \in Routines : f \in ToSet(files[r])
    OBVIOUS
  <2>1. f \in ToSet(files[Root]) \/ \E i \in 1 .. merged.jobs : f \in ToSet(files[jobs[i]])
    BY <1>1 DEF IInv, Gathered, Collects
  <2>2. \A i \in 1 .. merged.jobs : jobs[i] \in Dirs
    BY Elements DEF IInv, TypeOK, Gathered
  <2> QED BY <2>1, <2>2
<1>6. \A f \in visited : f \notin bad /\ ToSet(ImportsOf[f]) \subseteq ToSet(jobs)
  BY <1>1, <1>5, EmptySequence DEF Followed, Emptied
<1>7. \A d \in ToSet(jobs) : d \in Dirs =>
        d # Root /\ d \notin failed /\ pc[d] = "ended" /\ Package(d) = d
  BY <1>2, RootAssumption DEF IInv, Over, Package
<1>8. Reached(visited) \subseteq ToSet(jobs)
  BY <1>6 DEF Reached
<1>9. Package(Root) = Entry
  BY DEF Package
<1>10. Closed(visited)
  BY <1>1, <1>3, <1>4, <1>7, <1>8, <1>9 DEF Closed, Reached
<1>11. \A d \in Reached(visited) : d \notin bad
  BY <1>7, <1>8 DEF Listed, Reached
<1> QED BY <1>6, <1>10, <1>11 DEF Sound

LEMMA SequentialClosed ==
  ASSUME SeqInv, seqPhase = "loaded"
  PROVE  Closed(visitedFiles) /\ Sound(visitedFiles) /\ ToSet(loaded) = visitedFiles
<1> USE DEF SeqInv
<1>1. /\ ToSet(FilesOf[Entry]) \subseteq visitedFiles
      /\ \A d \in visitedPkgs : d \notin bad /\ ToSet(FilesOf[d]) \subseteq visitedFiles
      /\ \A f \in visitedFiles : f \notin bad /\ ToSet(ImportsOf[f]) \subseteq visitedPkgs
      /\ ToSet(loaded) = visitedFiles
  BY EmptySequence DEF SeqFollows
<1>2. Reached(visitedFiles) \subseteq visitedPkgs
  BY <1>1 DEF Reached
<1> QED BY <1>1, <1>2 DEF SeqTypes, Closed, Sound

LEMMA SameFilesInv == ForkedInv /\ SeqInv => SameFiles
<1> SUFFICES ASSUME ForkedInv, SeqInv, phase = "loaded"
             PROVE  /\ SequentialOver => ToSet(merged.files) = ToSet(loaded)
                    /\ IsInjective(merged.files)
  BY DEF SameFiles
<1>1. IsInjective(merged.files)
  BY DEF ForkedInv, Once, Collects
<1>2. Closed(visited) /\ Sound(visited) /\ visited \in SUBSET Files
  BY ForkedClosed DEF Closed
<1>3. ASSUME SequentialOver PROVE ToSet(merged.files) = ToSet(loaded)
  <2>1. seqPhase = "loaded" /\ visitedFiles \subseteq visited
    BY <1>2, <1>3 DEF SeqInv, SeqUpper, SeqWithin, SequentialOver
  <2>2. Closed(visitedFiles) /\ visitedFiles \in SUBSET Files /\ ToSet(loaded) = visitedFiles
    BY <2>1, SequentialClosed DEF Closed
  <2>3. visited \subseteq visitedFiles
    BY <2>2 DEF ForkedInv, ForkedUpper, ForkedWithin
  <2>4. ToSet(merged.files) = visited
    BY IInvQuiescent DEF ForkedInv, Quiescent
  <2> QED BY <2>1, <2>2, <2>3, <2>4
<1> QED BY <1>1, <1>3

LEMMA SameOutcomeInv == ForkedInv /\ SeqInv => SameOutcome
<1> SUFFICES ASSUME ForkedInv, SeqInv, Returned, SequentialOver
             PROVE  phase = "loaded" <=> seqPhase = "loaded"
  BY DEF SameOutcome
<1>1. CASE phase = "loaded"
  <2>1. Closed(visited) /\ Sound(visited) /\ visited \in SUBSET Files
    BY <1>1, ForkedClosed DEF Closed
  <2>2. seqPhase # "failed"
    BY <2>1 DEF SeqInv, SeqUpper, SeqWithin
  <2> QED BY <1>1, <2>2 DEF SequentialOver
<1>2. CASE phase = "failed"
  <2>1. SUFFICES ASSUME seqPhase = "loaded" PROVE FALSE
    BY <1>2
  <2>2. Closed(visitedFiles) /\ Sound(visitedFiles) /\ visitedFiles \in SUBSET Files
    BY <2>1, SequentialClosed DEF Closed
  <2> QED BY <1>2, <2>2 DEF ForkedInv, ForkedUpper, ForkedWithin
<1> QED BY <1>1, <1>2 DEF Returned

\* The forked loader fails just when the sequential one does, whichever files
\* and directories are broken and however its goroutines interleave
\* (loadWithCompileFork, loadSequential).
THEOREM ForkedSameOutcome == BothSpec => []SameOutcome
<1> QED BY BothInitInv, BothNextInv, SameOutcomeInv, PTL DEF BothSpec

\* A program that the forked loader returns holds the files the sequential
\* loader finds, each of them once (parseFile, loadWithCompileFork).
THEOREM ForkedSameFiles == BothSpec => []SameFiles
<1> QED BY BothInitInv, BothNextInv, SameFilesInv, PTL DEF BothSpec
=============================================================================
