--------------------------- MODULE HikeSyncProofs ---------------------------
(***************************************************************************)
(* Proofs about HikeSync for every finite set of workers.  That no update  *)
(* is lost needs every one of them to be in a lock block (Locked), which   *)
(* may be left by a return; Once and WaitGroup do not need it.             *)
(***************************************************************************)
EXTENDS HikeSync, FiniteSetTheorems, TLAPS

USE DEF Threads

Locked == "plain" \notin Updates

-----------------------------------------------------------------------------
(* The inductive invariant                                                 *)

\* TypeOK without the bounds of the three counters.
Types ==
  /\ lock \in {0, 1} /\ onceDone \in {0, 1}
  /\ fnRuns \in Nat /\ count \in Nat /\ completed \in Nat
  /\ stage \in [Threads -> {"unborn", "start", "added", "ready", "updated",
                            "returned", "finished"}]
  /\ op \in [Threads -> Ops]
  /\ pc \in [Threads -> {"program", "lock", "load", "store", "unlock", "fn"}]
  /\ reg \in [Threads -> 0 .. Most]
  /\ \A t \in Threads : op[t] = "none" <=> pc[t] = "program"

\* Which operations a thread may be in at each stage of its program.
Programs ==
  /\ \A w \in Workers :
       /\ stage[w] # "added"
       /\ stage[w] \in {"unborn", "finished"} => op[w] = "none"
       /\ stage[w] = "start" => op[w] \in {"none", "once"}
       /\ stage[w] = "ready" => op[w] \in {"none"} \cup UpdateOps
       /\ stage[w] \in {"updated", "returned"} => op[w] \in {"none", "done"}
       /\ pc[w] = "fn" => op[w] = "once"
  /\ stage[Main] \in {"start", "added", "finished"}
  /\ op[Main] \in IF stage[Main] = "start" THEN {"none", "add", "wait"} ELSE {"none"}
  /\ pc[Main] # "fn"
  /\ \A w \in Workers : op[w] = "plain" => ~Locked /\ pc[w] # "lock"

Holds(t) == pc[t] \in {"load", "store", "unlock"} /\ op[t] # "plain"

\* The lock word is set while a thread is inside, and for ever once a worker
\* has left by a return.
Mutex ==
  /\ \A t, u \in Threads : Holds(t) /\ Holds(u) => t = u
  /\ \A t \in Threads : Holds(t) => lock = 1
  /\ \A w \in Workers : stage[w] = "returned" =>
       lock = 1 /\ \A t \in Threads : ~Holds(t)

\* A worker has set done and is on its way to fn.
Starting == \E w \in Workers : op[w] = "once" /\ pc[w] = "unlock" /\ reg[w] = 0

OnceInv ==
  /\ fnRuns = IF onceDone = 1 /\ ~Starting THEN 1 ELSE 0
  /\ onceDone = 1 => Workers # {}
  /\ \A w \in Workers :
       /\ op[w] = "once" /\ pc[w] = "unlock" => onceDone = 1 /\ reg[w] \in {0, 1}
       /\ stage[w] \notin {"unborn", "start"} \/ pc[w] = "fn" => fnRuns = 1

\* The workers the group still waits for, and the one it already counts.
Counted == {w \in Workers : /\ stage[w] \notin {"unborn", "finished"}
                            /\ ~(op[w] = "done" /\ pc[w] = "unlock")}
Ahead == IF stage[Main] = "added" \/ (op[Main] = "add" /\ pc[Main] = "unlock") THEN 1 ELSE 0

AllFinished == \A w \in Workers : stage[w] = "finished"

Joined ==
  /\ count = Cardinality(Counted) + Ahead
  /\ stage[Main] = "added" \/ op[Main] = "add" => Unborn # {}
  /\ op[Main] = "wait" => Unborn = {}
  /\ op[Main] = "wait" /\ pc[Main] \in {"store", "unlock"} /\ reg[Main] = 0 => AllFinished
  /\ stage[Main] = "finished" => AllFinished

\* The workers whose update the variable shows.
Updated == {w \in Workers : \/ stage[w] \in {"updated", "finished"}
                            \/ op[w] \in UpdateOps /\ pc[w] = "unlock"}

\* No update is counted twice; and, with locks, none is lost.
Shows(n) == n <= Cardinality(Updated) /\ (Locked => n = Cardinality(Updated))

\* What a thread has loaded still holds when it stores, unless it is the
\* variable and somebody updates that without a lock.
Loaded ==
  \A t \in Threads : pc[t] = "store" =>
    IF op[t] \in UpdateOps THEN Shows(reg[t]) ELSE reg[t] = WordOf(op[t])

IInv == /\ Types /\ Programs /\ Mutex /\ Loaded /\ OnceInv /\ Joined
        /\ Shows(completed)

\* Subsets of the workers can be counted.
LEMMA Countable ==
  ASSUME NEW S \in SUBSET Workers
  PROVE  /\ IsFiniteSet(S) /\ Cardinality(S) \in 0 .. Most
         /\ Cardinality({}) = 0
         /\ Cardinality(S) = 0 <=> S = {}
         /\ Cardinality(S) = Most <=> S = Workers
         /\ \A w \in Workers \ S : Cardinality(S \cup {w}) = Cardinality(S) + 1
         /\ \A w \in S : Cardinality(S \ {w}) = Cardinality(S) - 1
<1>1. IsFiniteSet(S) /\ Cardinality(S) \in Nat /\ Most \in Nat
  BY WorkersAssumption, FS_Subset, FS_CardinalityType DEF Most
<1>2. /\ Cardinality(S) <= Most
      /\ Cardinality(S) = Most => S = Workers
  BY WorkersAssumption, FS_Subset DEF Most
<1>3. Cardinality(S) \in 0 .. Most
  BY <1>1, <1>2
<1>4. Cardinality({}) = 0 /\ (Cardinality(S) = 0 <=> S = {})
  BY <1>1, FS_EmptySet
<1>5. \A w \in Workers \ S : Cardinality(S \cup {w}) = Cardinality(S) + 1
  BY <1>1, FS_AddElement
<1>6. \A w \in S : Cardinality(S \ {w}) = Cardinality(S) - 1
  BY <1>1, FS_RemoveElement
<1> QED BY <1>1, <1>2, <1>3, <1>4, <1>5, <1>6 DEF Most

\* The bounds that Types leaves out.
LEMMA Bounded == IInv => TypeOK
<1> SUFFICES ASSUME IInv PROVE TypeOK
  OBVIOUS
<1>1. fnRuns \in 0 .. Most
  <2>1. Most \in Nat /\ (Workers # {} => Most # 0)
    BY Countable DEF Most
  <2> QED BY <2>1 DEF IInv, OnceInv, Types
<1>2. completed \in 0 .. Most
  <2>1. Updated \in SUBSET Workers
    BY DEF Updated
  <2>2. Cardinality(Updated) \in 0 .. Most
    BY <2>1, Countable
  <2>3. Most \in Nat
    BY WorkersAssumption, FS_CardinalityType DEF Most
  <2> QED BY <2>2, <2>3 DEF IInv, Types, Shows
<1>3. count \in 0 .. Most
  <2>1. Counted \in SUBSET Workers
    BY DEF Counted
  <2>2. CASE Ahead = 0
    BY <2>1, <2>2, Countable DEF IInv, Joined
  <2>3. CASE Ahead = 1
    <3>1. PICK w \in Workers : stage[w] = "unborn"
      BY <2>3 DEF IInv, Joined, Ahead, Unborn
    <3>2. w \notin Counted /\ Counted \cup {w} \in SUBSET Workers
      BY <3>1 DEF Counted
    <3>3. Cardinality(Counted \cup {w}) = Cardinality(Counted) + 1
      BY <2>1, <3>2, Countable
    <3>4. Cardinality(Counted \cup {w}) \in 0 .. Most
      BY <3>2, Countable
    <3> QED BY <2>1, <2>3, <3>3, <3>4, Countable DEF IInv, Joined
  <2> QED BY <2>2, <2>3 DEF Ahead
<1> QED BY <1>1, <1>2, <1>3 DEF IInv, Types, TypeOK

LEMMA InitIInv == Init => IInv
<1> SUFFICES ASSUME Init PROVE IInv
  OBVIOUS
<1> USE MainAssumption DEF Init
<1>1. Types
  BY Countable DEF Types, Ops
<1>2. Programs /\ Mutex /\ Loaded
  BY DEF Programs, Mutex, Holds, Loaded
<1>3. OnceInv
  BY DEF OnceInv, Starting
<1>4. Counted = {} /\ Updated = {} /\ Ahead = 0
  BY DEF Counted, Updated, Ahead, UpdateOps
<1>5. Joined /\ Shows(completed)
  BY <1>4, Countable DEF Joined, Shows
<1> QED BY <1>1, <1>2, <1>3, <1>5 DEF IInv

-----------------------------------------------------------------------------
(* One lemma per kind of step.                                             *)

\* The program begins an operation.
LEMMA BeginIInv ==
  ASSUME IInv,
         \/ Add \/ Wait
         \/ \E w \in Workers : Do(w) \/ Update(w) \/ Done(w)
  PROVE  IInv'
<1>1. PICK t \in Threads, o \in Ops \ {"none"} :
        /\ pc[t] = "program" /\ op[t] = "none"
        /\ pc' = [pc EXCEPT ![t] = IF o = "plain" THEN "load" ELSE "lock"]
        /\ op' = [op EXCEPT ![t] = o]
        /\ UNCHANGED <<lock, onceDone, fnRuns, count, completed, stage, reg>>
        /\ \/ t = Main /\ stage[t] = "start" /\ o = "add" /\ Unborn # {}
           \/ t = Main /\ stage[t] = "start" /\ o = "wait" /\ Unborn = {}
           \/ t \in Workers /\ stage[t] = "start" /\ o = "once"
           \/ t \in Workers /\ stage[t] = "ready" /\ o \in UpdateOps /\ (o = "plain" => ~Locked)
           \/ t \in Workers /\ stage[t] \in {"updated", "returned"} /\ o = "done"
  BY UpdatesAssumption
     DEF Locked, Add, Wait, Do, Update, Done, Begin, Goto, shared, Ops, UpdateOps, IInv, Types
<1> USE MainAssumption, <1>1
<1>2. Types'
  BY DEF IInv, Types
<1>3. Programs'
  BY DEF IInv, Types, Programs
<1>4. Mutex'
  BY DEF IInv, Types, Mutex, Holds
<1>5. OnceInv'
  <2>1. Starting' <=> Starting
    BY DEF IInv, Types, Starting
  <2> QED BY <2>1 DEF IInv, Types, OnceInv
<1>6. Counted' = Counted /\ Updated' = Updated /\ Ahead' = Ahead
  BY DEF IInv, Types, Counted, Updated, Ahead, UpdateOps
<1>7. Joined'
  BY <1>6 DEF IInv, Types, Joined, Unborn, AllFinished
<1>8. Loaded' /\ Shows(completed)'
  BY <1>6 DEF IInv, Types, Loaded, Shows, WordOf
<1> QED BY <1>2, <1>3, <1>4, <1>5, <1>7, <1>8 DEF IInv

LEMMA SpawnIInv ==
  ASSUME IInv, NEW w \in Workers, Spawn(w)
  PROVE  IInv'
<1> USE MainAssumption DEF Spawn, shared
<1>1. Types' /\ Programs'
  BY DEF IInv, Types, Programs
<1>2. Mutex'
  BY DEF IInv, Types, Mutex, Holds
<1>3. OnceInv'
  BY DEF IInv, Types, OnceInv, Starting
<1>4. Counted' = Counted \cup {w} /\ w \notin Counted /\ Updated' = Updated
  BY DEF IInv, Types, Programs, Counted, Updated
<1>5. Ahead = 1 /\ Ahead' = 0
  BY DEF IInv, Types, Ahead
<1>6. Cardinality(Counted') = Cardinality(Counted) + 1 /\ Cardinality(Counted) \in Nat
  <2>1. Counted \in SUBSET Workers
    BY DEF Counted
  <2> QED BY <1>4, <2>1, Countable
<1>7. Joined'
  BY <1>5, <1>6 DEF IInv, Types, Programs, Joined
<1>8. Loaded' /\ Shows(completed)'
  BY <1>4 DEF IInv, Types, Loaded, Shows, WordOf
<1> QED BY <1>1, <1>2, <1>3, <1>7, <1>8 DEF IInv

LEMMA AcquireIInv ==
  ASSUME IInv, NEW t \in Threads, Acquire(t)
  PROVE  IInv'
<1> USE MainAssumption DEF Acquire, Goto, shared
<1>1. Types' /\ Programs'
  BY DEF IInv, Types, Programs
<1>2. Mutex'
  BY DEF IInv, Types, Mutex, Holds
<1>3. OnceInv'
  <2>1. Starting' <=> Starting
    BY DEF IInv, Types, Starting
  <2> QED BY <2>1 DEF IInv, Types, OnceInv
<1>4. Counted' = Counted /\ Updated' = Updated /\ Ahead' = Ahead
  BY DEF IInv, Types, Counted, Updated, Ahead
<1>5. Joined'
  BY <1>4 DEF IInv, Types, Joined, Unborn, AllFinished
<1>6. Loaded' /\ Shows(completed)'
  BY <1>4 DEF IInv, Types, Loaded, Shows, WordOf
<1> QED BY <1>1, <1>2, <1>3, <1>5, <1>6 DEF IInv

LEMMA LoadIInv ==
  ASSUME IInv, NEW t \in Threads, Load(t)
  PROVE  IInv'
<1> USE MainAssumption DEF Load, Goto, shared
<1>1. Types' /\ Programs'
  <2>1. onceDone \in 0 .. Most
    <3>1. CASE Workers = {}
      BY <3>1, Countable DEF IInv, Types, OnceInv, Most
    <3>2. CASE Workers # {}
      <4>1. Most \in Nat /\ Most # 0
        BY <3>2, Countable DEF Most
      <4> QED BY <4>1 DEF IInv, Types
    <3> QED BY <3>1, <3>2
  <2>2. WordOf(op[t]) \in 0 .. Most
    BY <2>1, Bounded DEF WordOf, TypeOK
  <2> QED BY <2>2 DEF IInv, Types, Programs
<1>2. Mutex'
  BY DEF IInv, Types, Mutex, Holds
<1>3. OnceInv'
  <2>1. Starting' <=> Starting
    BY DEF IInv, Types, Starting
  <2> QED BY <2>1 DEF IInv, Types, OnceInv
<1>4. Counted' = Counted /\ Updated' = Updated /\ Ahead' = Ahead
  BY DEF IInv, Types, Counted, Updated, Ahead
<1>6. Loaded' /\ Shows(completed)'
  BY <1>4 DEF IInv, Types, Loaded, Shows, WordOf, UpdateOps
<1>5. Joined'
  <2>1. CASE t = Main /\ op[t] = "wait" /\ count = 0
    <3>1. Counted = {}
      <4>1. Counted \in SUBSET Workers
        BY DEF Counted
      <4>2. Cardinality(Counted) \in Nat
        BY <4>1, Countable
      <4>3. Cardinality(Counted) = 0
        BY <2>1, <4>2 DEF IInv, Joined, Ahead
      <4> QED BY <4>1, <4>3, Countable
    <3>2. \A w \in Workers : ~(pc[w] = "unlock" /\ op[w] # "plain")
      BY <2>1 DEF IInv, Mutex, Holds
    <3>3. AllFinished
      BY <2>1, <3>1, <3>2 DEF IInv, Joined, Unborn, Counted, AllFinished
    <3> QED BY <1>4, <3>3 DEF IInv, Types, Joined, Unborn, AllFinished
  <2>2. CASE ~(t = Main /\ op[t] = "wait" /\ count = 0)
    BY <1>4, <2>2 DEF IInv, Types, Joined, Unborn, AllFinished, WordOf
  <2> QED BY <2>1, <2>2
<1> QED BY <1>1, <1>2, <1>3, <1>5, <1>6 DEF IInv

\* An update without a lock stores what may be stale by now, but never more
\* than there were updates.
LEMMA PlainIInv ==
  ASSUME IInv, NEW t \in Threads, op[t] = "plain", Store(t) \/ Unlock(t)
  PROVE  IInv'
<1> USE MainAssumption DEF Store, Unlock, Leave, Goto
<1>1. t \in Workers /\ stage[t] = "ready" /\ ~Locked
  BY DEF IInv, Types, Programs
<1>2. UNCHANGED <<lock, onceDone, fnRuns, count, reg>>
  BY DEF DoneAfter, CountAfter, LockAfter, UpdateOps
<1>3. \/ /\ pc[t] = "store" /\ pc' = [pc EXCEPT ![t] = "unlock"]
         /\ completed' = reg[t] + 1 /\ UNCHANGED <<op, stage>>
      \/ /\ pc[t] = "unlock" /\ pc' = [pc EXCEPT ![t] = "program"]
         /\ op' = [op EXCEPT ![t] = "none"] /\ stage' = [stage EXCEPT ![t] = "updated"]
         /\ completed' = completed
  BY DEF UpdateOps
<1> HIDE DEF Store, Unlock, Leave, Goto
<1>4. Types'
  BY <1>1, <1>2, <1>3 DEF IInv, Types, Ops
<1>5. Programs' /\ Mutex'
  BY <1>1, <1>2, <1>3 DEF IInv, Types, Programs, Mutex, Holds
<1>6. OnceInv'
  <2>1. Starting' <=> Starting
    BY <1>2, <1>3 DEF IInv, Types, Starting
  <2> QED BY <1>1, <1>2, <1>3, <2>1 DEF IInv, Types, OnceInv
<1>7. Counted' = Counted /\ Ahead' = Ahead
  BY <1>1, <1>3 DEF IInv, Types, Counted, Ahead
<1>8. Joined'
  BY <1>1, <1>2, <1>3, <1>7 DEF IInv, Types, Joined, Unborn, AllFinished
<1>9. Loaded' /\ Shows(completed)'
  <2>1. Updated \in SUBSET Workers /\ Updated' \in SUBSET Workers
    BY DEF Updated
  <2>2. Cardinality(Updated) \in Nat
    BY <2>1, Countable
  <2>3. CASE pc[t] = "store"
    <3>1. t \notin Updated /\ Updated' = Updated \cup {t}
      BY <1>1, <1>3, <2>3 DEF IInv, Types, Updated, UpdateOps
    <3>2. Cardinality(Updated') = Cardinality(Updated) + 1
      BY <1>1, <2>1, <3>1, Countable
    <3>3. completed' = reg[t] + 1 /\ reg[t] <= Cardinality(Updated) /\ reg[t] \in Nat
      BY <1>3, <2>3 DEF IInv, Types, Loaded, Shows, UpdateOps
    <3>4. Shows(completed)'
      BY <1>1, <2>2, <3>2, <3>3 DEF Shows
    <3>5. Loaded'
      <4>1. \A u \in Threads : pc'[u] = "store" => pc[u] = "store" /\ op'[u] = op[u] /\ reg'[u] = reg[u]
        BY <1>2, <1>3, <2>3 DEF IInv, Types
      <4>2. \A u \in Threads : reg[u] \in Nat
        BY DEF IInv, Types
      <4>3. \A u \in Threads : pc'[u] = "store" /\ op[u] \notin UpdateOps => WordOf(op[u])' = WordOf(op[u])
        BY <1>2, <1>3, <2>3, <4>1 DEF IInv, Types, Ops, WordOf
      <4> QED BY <1>1, <2>2, <3>2, <4>1, <4>2, <4>3 DEF IInv, Loaded, Shows
    <3> QED BY <3>4, <3>5
  <2>4. CASE pc[t] = "unlock"
    <3>1. Updated' = Updated
      BY <1>1, <1>3, <2>4 DEF IInv, Types, Updated, UpdateOps
    <3> QED BY <1>2, <1>3, <2>4, <3>1 DEF IInv, Types, Loaded, Shows, WordOf
  <2> QED BY <1>3, <2>3, <2>4
<1> QED BY <1>4, <1>5, <1>6, <1>8, <1>9 DEF IInv

LEMMA StoreIInv ==
  ASSUME IInv, NEW t \in Threads, op[t] # "plain", Store(t)
  PROVE  IInv'
<1> USE MainAssumption DEF Store, Goto
<1>0. /\ pc[t] = "store" /\ (op[t] \notin UpdateOps => reg[t] = WordOf(op[t])) /\ reg[t] \in Nat
      /\ \A u \in Threads \ {t} : ~Holds(u)
      /\ \A w \in Workers : stage[w] # "returned"
  BY DEF IInv, Types, Mutex, Loaded, Holds
<1>1. Types'
  BY <1>0 DEF IInv, Types, DoneAfter, CountAfter
<1>2. Programs'
  BY DEF IInv, Types, Programs
<1>3. Mutex'
  BY <1>0 DEF IInv, Types, Mutex, Holds
<1>4. OnceInv'
  <2>1. CASE op[t] = "once"
    <3>1. t \in Workers
      BY <2>1 DEF IInv, Programs
    <3>2. ~Starting /\ reg[t] = onceDone
      BY <1>0, <2>1 DEF Starting, Holds, WordOf, UpdateOps
    <3>3. Starting' <=> reg[t] = 0
      BY <1>0, <2>1, <3>1 DEF IInv, Types, Starting, Holds
    <3> QED BY <2>1, <3>1, <3>2, <3>3 DEF IInv, Types, OnceInv, DoneAfter
  <2>2. CASE op[t] # "once"
    <3>1. Starting' <=> Starting
      BY <2>2 DEF IInv, Types, Starting
    <3> QED BY <2>2, <3>1 DEF IInv, Types, OnceInv, DoneAfter
  <2> QED BY <2>1, <2>2
<1>5. Joined'
  <2>1. CASE op[t] = "add"
    <3>1. t = Main
      BY <2>1 DEF IInv, Types, Programs, UpdateOps
    <3>2. Counted' = Counted /\ Ahead = 0 /\ Ahead' = 1
      BY <1>0, <2>1, <3>1 DEF IInv, Types, Programs, Counted, Ahead
    <3>3. count' = count + 1
      BY <1>0, <2>1 DEF CountAfter, WordOf, UpdateOps
    <3>4. Cardinality(Counted) \in Nat
      <4>1. Counted \in SUBSET Workers
        BY DEF Counted
      <4> QED BY <4>1, Countable
    <3> QED BY <1>0, <2>1, <3>1, <3>2, <3>3, <3>4
            DEF IInv, Types, Joined, Unborn, AllFinished
  <2>2. CASE op[t] = "done"
    <3>1. t \in Workers /\ t \in Counted
      BY <1>0, <2>2 DEF IInv, Types, Programs, Counted
    <3>2. Counted' = Counted \ {t} /\ Ahead' = Ahead
      BY <1>0, <2>2, <3>1 DEF IInv, Types, Counted, Ahead
    <3>3. /\ Cardinality(Counted) \in Nat /\ Cardinality(Counted) # 0
          /\ Cardinality(Counted') = Cardinality(Counted) - 1
      <4>1. Counted \in SUBSET Workers
        BY DEF Counted
      <4> QED BY <3>1, <3>2, <4>1, Countable
    <3>4. count' = count - 1
      BY <1>0, <2>2, <3>3 DEF CountAfter, WordOf, UpdateOps, IInv, Joined, Ahead
    <3> QED BY <1>0, <2>2, <3>1, <3>2, <3>3, <3>4
            DEF IInv, Types, Joined, Unborn, AllFinished, Ahead
  <2>3. CASE op[t] \notin {"add", "done"}
    <3>1. Counted' = Counted /\ Ahead' = Ahead
      BY <1>0, <2>3 DEF IInv, Types, Counted, Ahead
    <3> QED BY <1>0, <2>3, <3>1 DEF IInv, Types, Joined, Unborn, AllFinished, CountAfter
  <2> QED BY <2>1, <2>2, <2>3
<1>6. Loaded' /\ Shows(completed)'
  <2>1. Updated \in SUBSET Workers
    BY DEF Updated
  <2>2. Cardinality(Updated) \in Nat
    BY <2>1, Countable
  <2>3. \A u \in Threads : pc'[u] = "store" =>
          /\ u # t /\ pc[u] = "store" /\ op[u] \in {"none", "plain"} /\ op'[u] = op[u] /\ reg'[u] = reg[u]
          /\ reg[u] \in Nat
    BY <1>0 DEF IInv, Types, Holds
  <2>4. \A u \in Threads : pc'[u] = "store" => op[u] = "plain" /\ ~Locked
    BY <2>3, <1>0 DEF IInv, Types, Programs
  <2>5. CASE op[t] \in UpdateOps
    <3>1. t \in Workers /\ t \notin Updated
      BY <1>0, <2>5 DEF IInv, Types, Programs, Updated, UpdateOps
    <3>2. Updated' = Updated \cup {t}
      BY <1>0, <2>5, <3>1 DEF IInv, Types, Updated
    <3>3. Cardinality(Updated') = Cardinality(Updated) + 1
      BY <2>1, <3>1, <3>2, Countable
    <3>4. completed' = reg[t] + 1 /\ Shows(reg[t])
      BY <1>0, <2>5 DEF IInv, Loaded
    <3>5. Shows(completed)'
      BY <1>0, <2>2, <3>3, <3>4 DEF Shows
    <3>6. Loaded'
      BY <2>2, <2>3, <2>4, <3>3 DEF IInv, Loaded, Shows, UpdateOps
    <3> QED BY <3>5, <3>6
  <2>6. CASE op[t] \notin UpdateOps
    <3>1. Updated' = Updated
      BY <1>0, <2>6 DEF IInv, Types, Updated
    <3> QED BY <2>3, <2>4, <2>6, <3>1 DEF IInv, Loaded, Shows, UpdateOps
  <2> QED BY <2>5, <2>6
<1> QED BY <1>1, <1>2, <1>3, <1>4, <1>5, <1>6 DEF IInv

LEMMA ReturnFromBlockIInv ==
  ASSUME IInv, NEW t \in Threads, ReturnFromBlock(t)
  PROVE  IInv'
<1> USE MainAssumption DEF ReturnFromBlock, Leave, Goto, shared
<1>1. t \in Workers /\ stage[t] = "ready" /\ pc[t] = "store" /\ lock = 1
  BY DEF IInv, Types, Programs, Mutex, Holds
<1>2. Types' /\ Programs'
  BY <1>1 DEF IInv, Types, Programs, Ops
<1>3. Mutex'
  BY <1>1 DEF IInv, Types, Mutex, Holds
<1>4. OnceInv'
  <2>1. Starting' <=> Starting
    BY DEF IInv, Types, Starting
  <2> QED BY <1>1, <2>1 DEF IInv, Types, OnceInv
<1>5. Counted' = Counted /\ Updated' = Updated /\ Ahead' = Ahead
  BY <1>1 DEF IInv, Types, Counted, Updated, Ahead, UpdateOps
<1>6. Joined'
  BY <1>1, <1>5 DEF IInv, Types, Joined, Unborn, AllFinished
<1>7. Loaded' /\ Shows(completed)'
  BY <1>1, <1>5 DEF IInv, Types, Loaded, Shows, WordOf
<1> QED BY <1>2, <1>3, <1>4, <1>6, <1>7 DEF IInv

LEMMA ReturnFromFnIInv ==
  ASSUME IInv, NEW t \in Threads, ReturnFromFn(t)
  PROVE  IInv'
<1> USE MainAssumption DEF ReturnFromFn, Leave, Goto, shared
<1>1. t \in Workers /\ stage[t] = "start" /\ op[t] = "once" /\ pc[t] = "fn"
  BY DEF IInv, Types, Programs, UpdateOps
<1>2. Types' /\ Programs'
  BY <1>1 DEF IInv, Types, Programs, Ops
<1>3. Mutex'
  BY <1>1 DEF IInv, Types, Mutex, Holds
<1>4. OnceInv'
  <2>1. Starting' <=> Starting
    BY <1>1 DEF IInv, Types, Starting
  <2> QED BY <1>1, <2>1 DEF IInv, Types, OnceInv
<1>5. Counted' = Counted /\ Updated' = Updated /\ Ahead' = Ahead
  BY <1>1 DEF IInv, Types, Counted, Updated, Ahead, UpdateOps
<1>6. Joined'
  BY <1>1, <1>5 DEF IInv, Types, Joined, Unborn, AllFinished
<1>7. Loaded' /\ Shows(completed)'
  BY <1>1, <1>5 DEF IInv, Types, Loaded, Shows, WordOf
<1> QED BY <1>2, <1>3, <1>4, <1>6, <1>7 DEF IInv

LEMMA UnlockIInv ==
  ASSUME IInv, NEW t \in Threads, op[t] # "plain", Unlock(t)
  PROVE  IInv'
<1> USE MainAssumption DEF Unlock, Leave, Goto
<1>0. /\ pc[t] = "unlock" /\ lock = 1
      /\ \A u \in Threads \ {t} : ~Holds(u)
      /\ \A w \in Workers : stage[w] # "returned"
  BY DEF IInv, Types, Mutex, Holds
<1>1. \/ t = Main /\ op[t] \in {"add", "wait"} /\ stage[t] = "start"
      \/ t \in Workers /\ op[t] = "once" /\ stage[t] = "start"
      \/ t \in Workers /\ op[t] \in {"block", "return"} /\ stage[t] = "ready"
      \/ t \in Workers /\ op[t] = "done" /\ stage[t] = "updated"
  BY <1>0 DEF IInv, Types, Programs, UpdateOps
<1>2. lock' = 0 /\ UNCHANGED <<onceDone, count, completed, reg>>
  BY <1>1 DEF LockAfter
<1>3. \/ \E s \in {"added", "finished", "updated", "ready"} :
           /\ fnRuns' = fnRuns
           /\ pc' = [pc EXCEPT ![t] = "program"]
           /\ op' = [op EXCEPT ![t] = "none"]
           /\ stage' = [stage EXCEPT ![t] = s]
           /\ \/ s = "added" /\ op[t] = "add"
              \/ s = "finished" /\ op[t] = "done"
              \/ s = "updated" /\ op[t] \in {"block", "return"}
              \/ s = "ready" /\ op[t] = "once" /\ reg[t] = 1
              \/ s = "finished" /\ op[t] = "wait" /\ reg[t] = 0
      \/ /\ op[t] = "once" /\ reg[t] # 1 /\ fnRuns' = fnRuns + 1
         /\ pc' = [pc EXCEPT ![t] = "fn"] /\ UNCHANGED <<op, stage>>
      \/ /\ op[t] = "wait" /\ reg[t] # 0 /\ fnRuns' = fnRuns
         /\ pc' = [pc EXCEPT ![t] = "lock"] /\ UNCHANGED <<op, stage>>
  <2>1. CASE op[t] = "add"
    BY <2>1 DEF UpdateOps
  <2>2. CASE op[t] = "done"
    BY <2>2 DEF UpdateOps
  <2>3. CASE op[t] \in {"block", "return"}
    BY <2>3 DEF UpdateOps
  <2>4. CASE op[t] = "once"
    BY <2>4 DEF UpdateOps
  <2>5. CASE op[t] = "wait"
    BY <2>5 DEF UpdateOps, NoneRemains
  <2> QED BY <1>1, <2>1, <2>2, <2>3, <2>4, <2>5
<1> HIDE DEF Unlock, Leave, Goto
<1>4. Types'
  BY <1>2, <1>3 DEF IInv, Types, Ops
<1>5. Programs'
  BY <1>1, <1>3 DEF IInv, Types, Programs
<1>6. Mutex'
  <2>1. \A u \in Threads : ~Holds(u)'
    BY <1>0, <1>3 DEF IInv, Types, Holds
  <2>2. \A w \in Workers : stage'[w] # "returned"
    BY <1>0, <1>3 DEF IInv, Types
  <2> QED BY <2>1, <2>2 DEF Mutex
<1>7. OnceInv'
  <2>1. ~Starting'
    BY <1>0, <1>3 DEF IInv, Types, Starting, Holds
  <2>2. CASE op[t] = "once" /\ reg[t] # 1
    <3>1. Starting /\ onceDone = 1
      BY <1>0, <1>1, <2>2 DEF IInv, OnceInv, Starting
    <3>2. fnRuns' = 1
      BY <1>3, <2>2, <3>1 DEF IInv, OnceInv
    <3> QED BY <1>0, <1>2, <1>3, <2>1, <2>2, <3>1, <3>2 DEF IInv, Types, OnceInv, Holds
  <2>3. CASE ~(op[t] = "once" /\ reg[t] # 1)
    <3>1. fnRuns' = fnRuns /\ ~Starting
      BY <1>0, <1>3, <2>3 DEF Starting, Holds
    <3>2. op[t] = "once" => fnRuns = 1
      BY <1>0, <1>1, <3>1 DEF IInv, OnceInv
    <3>3. op[t] \in {"block", "return", "done"} => fnRuns = 1
      BY <1>1 DEF IInv, OnceInv
    <3> QED BY <1>0, <1>1, <1>2, <1>3, <2>1, <2>3, <3>1, <3>2, <3>3
            DEF IInv, Types, OnceInv, Holds
  <2> QED BY <2>2, <2>3
<1>8. Counted' = Counted /\ Ahead' = Ahead
  BY <1>0, <1>1, <1>3 DEF IInv, Types, Counted, Ahead
<1>9. Joined'
  BY <1>0, <1>1, <1>2, <1>3, <1>8 DEF IInv, Types, Joined, Unborn, AllFinished
<1>10. Loaded' /\ Shows(completed)'
  <2>1. Updated' = Updated
    BY <1>0, <1>1, <1>3 DEF IInv, Types, Updated, UpdateOps
  <2>2. \A u \in Threads : pc'[u] = "store" => pc[u] = "store" /\ op'[u] = op[u] /\ reg'[u] = reg[u]
    BY <1>2, <1>3 DEF IInv, Types
  <2> QED BY <1>2, <2>1, <2>2 DEF IInv, Loaded, Shows, WordOf
<1> QED BY <1>4, <1>5, <1>6, <1>7, <1>9, <1>10 DEF IInv

LEMMA NextIInv == IInv /\ [Next]_vars => IInv'
<1> SUFFICES ASSUME IInv, [Next]_vars PROVE IInv'
  OBVIOUS
<1>1. CASE Add \/ Wait \/ \E w \in Workers : Do(w) \/ Update(w) \/ Done(w)
  BY <1>1, BeginIInv
<1>2. ASSUME NEW w \in Workers, Spawn(w) PROVE IInv'
  BY <1>2, SpawnIInv
<1>3. ASSUME NEW t \in Threads, Acquire(t) PROVE IInv'
  BY <1>3, AcquireIInv
<1>4. ASSUME NEW t \in Threads, Continue(t) PROVE IInv'
  BY <1>4, LoadIInv, StoreIInv, ReturnFromBlockIInv, UnlockIInv, ReturnFromFnIInv, PlainIInv
     DEF Continue
<1>5. CASE UNCHANGED vars
  BY <1>5 DEF vars, IInv, Types, Programs, Mutex, Holds, Loaded, WordOf, OnceInv, Shows,
              Starting, Joined, Counted, Ahead, Unborn, AllFinished, Updated
<1> QED BY <1>1, <1>2, <1>3, <1>4, <1>5 DEF Next, Program

-----------------------------------------------------------------------------
(* What the invariant says                                                 *)

LEMMA IInvExclusion == ASSUME Locked PROVE IInv => Exclusion
<1> SUFFICES ASSUME IInv PROVE Exclusion
  OBVIOUS
<1>1. \A t \in Inside : t \in Threads /\ Holds(t)
  BY DEF Inside, Holds
<1>2. Cardinality(Inside) <= 1
  <2>1. CASE Inside = {}
    BY <2>1, FS_EmptySet
  <2>2. CASE Inside # {}
    <3>1. PICK t \in Inside : Inside = {t}
      BY <1>1, <2>2 DEF IInv, Mutex
    <3> QED BY <3>1, FS_Singleton
  <2> QED BY <2>1, <2>2
<1>3. Inside # {} => lock = 1
  BY <1>1 DEF IInv, Mutex
<1>4. \A t \in Inside : pc[t] = "store" => reg[t] = WordOf(op[t])
  BY <1>1, Locked DEF IInv, Loaded, Shows, WordOf, UpdateOps
<1> QED BY <1>2, <1>3, <1>4 DEF Exclusion

LEMMA IInvAllCounted == ASSUME Locked PROVE IInv => AllCounted
<1> SUFFICES ASSUME IInv, stage[Main] = "finished" PROVE completed = Most
  BY DEF AllCounted
<1>1. Updated = Workers
  BY DEF IInv, Joined, AllFinished, Updated
<1> QED BY <1>1, Locked DEF IInv, Shows, Most

\* The three counters stay within the number of workers, with locks or without:
\* Done never counts below zero, an unlocked update never invents a count.
THEOREM SyncTypes == Spec => []TypeOK
<1> QED BY Bounded, InitIInv, NextIInv, PTL DEF Spec

\* Lock blocks, Once and WaitGroup exclude each other, and what a thread has
\* loaded inside still holds when it stores, for any number of workers
\* (__hike_lock and __hike_unlock around each of them).
THEOREM LockSafe ==
  ASSUME Locked
  PROVE  Spec => []Exclusion
<1>1. IInv => Exclusion
  BY Locked, IInvExclusion
<1> QED BY <1>1, InitIInv, NextIInv, PTL DEF Spec

\* Once.Do runs fn once for all workers, and before any of them goes on,
\* whatever these do about the lock elsewhere (Do of sync.hike).
THEOREM OnceSafe == Spec => []FnOnce
<1>1. IInv => FnOnce
  BY DEF IInv, OnceInv, FnOnce
<1> QED BY <1>1, InitIInv, NextIInv, PTL DEF Spec

\* WaitGroup.Wait returns only after every worker has called Done, whatever
\* they do about the lock elsewhere (Add, Done and Wait of sync.hike).
THEOREM JoinSafe == Spec => []JoinComplete
<1>1. IInv => JoinComplete
  BY DEF IInv, Joined, AllFinished, JoinComplete
<1> QED BY <1>1, InitIInv, NextIInv, PTL DEF Spec

\* When Wait returns no update made in a lock block has been lost.
THEOREM UpdatesCounted ==
  ASSUME Locked
  PROVE  Spec => []AllCounted
<1>1. IInv => AllCounted
  BY Locked, IInvAllCounted
<1> QED BY <1>1, InitIInv, NextIInv, PTL DEF Spec
=============================================================================
