----------------------------- MODULE HikeSync -----------------------------
(***************************************************************************)
(* std/sync, lock blocks and concurrent variables.  They all come down to  *)
(* one spin lock for the whole process, __hike_lock_state, and to loads    *)
(* and stores of single words.                                             *)
(*                                                                         *)
(* The program forks and joins as TestThreadVariablesMultipleWorkerJoin    *)
(* does, with a WaitGroup: the main thread adds one to it and starts a     *)
(* worker, for each worker, and waits; a worker runs a Once, adds one to a *)
(* concurrent variable and calls Done.                                     *)
(***************************************************************************)
EXTENDS Integers, FiniteSets

CONSTANTS
  Workers,  \* the threads started with Async
  Main,     \* the thread that waits for them
  Updates   \* how a worker updates the variable: "block", in a lock block,
            \* "return", in one that an if statement may leave by a return,
            \* "plain", without a lock

ASSUME MainAssumption == Main \notin Workers
ASSUME WorkersAssumption == IsFiniteSet(Workers)
ASSUME UpdatesAssumption == Updates \subseteq {"block", "return", "plain"}

Threads == Workers \cup {Main}

VARIABLES
  lock,       \* __hike_lock_state
  onceDone,   \* Once.done
  fnRuns,     \* how often Do has run fn
  count,      \* WaitGroup.count
  completed,  \* the concurrent variable
  stage,      \* [Threads -> what the thread has come to in its program]
  op,         \* [Threads -> the operation it is in]
  pc,         \* [Threads -> where in it]
  reg         \* [Threads -> the word it has loaded]

shared == <<onceDone, fnRuns, count, completed>>
vars == <<lock, onceDone, fnRuns, count, completed, stage, op, pc, reg>>

UpdateOps == {"block", "return", "plain"}
Ops == {"none", "add", "wait", "once", "done"} \cup UpdateOps

Most == Cardinality(Workers)

TypeOK ==
  /\ lock \in {0, 1}
  /\ onceDone \in {0, 1}
  /\ fnRuns \in 0 .. Most
  /\ count \in 0 .. Most
  /\ completed \in 0 .. Most
  /\ stage \in [Threads -> {"unborn", "start", "added", "ready", "updated",
                         "returned", "finished"}]
  /\ op \in [Threads -> Ops]
  /\ pc \in [Threads -> {"program", "lock", "load", "store", "unlock", "fn"}]
  /\ reg \in [Threads -> 0 .. Most]
  /\ \A t \in Threads : op[t] = "none" <=> pc[t] = "program"

Init ==
  /\ lock = 0
  /\ onceDone = 0
  /\ fnRuns = 0
  /\ count = 0
  /\ completed = 0
  /\ stage = [t \in Threads |-> IF t = Main THEN "start" ELSE "unborn"]
  /\ op = [t \in Threads |-> "none"]
  /\ pc = [t \in Threads |-> "program"]
  /\ reg = [t \in Threads |-> 0]

Goto(t, place) == pc' = [pc EXCEPT ![t] = place]

\* The operation is over and the program goes on from stage s.
Leave(t, s) ==
  /\ Goto(t, "program")
  /\ op' = [op EXCEPT ![t] = "none"]
  /\ stage' = [stage EXCEPT ![t] = s]

-----------------------------------------------------------------------------
(* The program                                                             *)

Begin(t, s, o, place) ==
  /\ pc[t] = "program" /\ stage[t] = s
  /\ op' = [op EXCEPT ![t] = o]
  /\ Goto(t, place)
  /\ UNCHANGED <<lock, shared, stage, reg>>

Unborn == {w \in Workers : stage[w] = "unborn"}

Add == Unborn # {} /\ Begin(Main, "start", "add", "lock")

\* The first step of a worker comes after the Async that starts it.
Spawn(w) ==
  /\ pc[Main] = "program" /\ stage[Main] = "added"
  /\ stage[w] = "unborn"
  /\ stage' = [stage EXCEPT ![w] = "start", ![Main] = "start"]
  /\ UNCHANGED <<lock, shared, op, pc, reg>>

Wait == Unborn = {} /\ Begin(Main, "start", "wait", "lock")

Do(w) == Begin(w, "start", "once", "lock")

\* Mutant: the lock block is compiled to its statements only.
UpdateUnlocked(w) == \E u \in Updates : Begin(w, "ready", "plain", "load")

Update(w) ==
  \E u \in Updates : Begin(w, "ready", u, IF u = "plain" THEN "load" ELSE "lock")

Done(w) ==
  \/ Begin(w, "updated", "done", "lock")
  \/ Begin(w, "returned", "done", "lock")

-----------------------------------------------------------------------------
(* The operations                                                          *)

\* Mutant: the exchange always succeeds.
AcquireHeld(t) ==
  /\ pc[t] = "lock"
  /\ lock' = 1
  /\ Goto(t, "load")
  /\ UNCHANGED <<shared, stage, op, reg>>

\* __hike_lock: the exchange that reads 0 ends the spin.
Acquire(t) ==
  /\ pc[t] = "lock"
  /\ lock = 0
  /\ lock' = 1
  /\ Goto(t, "load")
  /\ UNCHANGED <<shared, stage, op, reg>>

WordOf(o) ==
  CASE o = "once" -> onceDone
    [] o \in {"add", "done", "wait"} -> count
    [] OTHER -> completed

Load(t) ==
  /\ pc[t] = "load"
  /\ reg' = [reg EXCEPT ![t] = WordOf(op[t])]
  /\ Goto(t, "store")
  /\ UNCHANGED <<lock, shared, stage, op>>

\* Mutant: Do leaves done unset.
DoneUnset(t) == onceDone
DoneAfter(t) == IF op[t] = "once" THEN 1 ELSE onceDone

\* Mutant: Done counts up.
CountUp(t) == IF op[t] \in {"add", "done"} THEN reg[t] + 1 ELSE count
CountAfter(t) ==
  CASE op[t] = "add" -> reg[t] + 1
    [] op[t] = "done" /\ reg[t] > 0 -> reg[t] - 1
    [] OTHER -> count

Store(t) ==
  /\ pc[t] = "store"
  /\ onceDone' = DoneAfter(t)
  /\ count' = CountAfter(t)
  /\ completed' = IF op[t] \in UpdateOps THEN reg[t] + 1 ELSE completed
  /\ Goto(t, "unlock")
  /\ UNCHANGED <<lock, fnRuns, stage, op, reg>>

\* The unlock follows the block's last statement: the path of a return under
\* an if does not come by it.
ReturnFromBlock(t) ==
  /\ pc[t] = "store" /\ op[t] = "return"
  /\ Leave(t, "returned")
  /\ UNCHANGED <<lock, shared, reg>>

\* Mutant: the early return of Do forgets the unlock.
LockAfterDone(t) == IF op[t] = "once" /\ reg[t] = 1 THEN 1 ELSE 0
\* __hike_unlock, where there is one.
LockAfter(t) == IF op[t] = "plain" THEN lock ELSE 0

\* Mutant: Wait is content with one worker still at work.
OneRemains(remaining) == remaining <= 1
NoneRemains(remaining) == remaining = 0

\* The first caller of Do runs fn; Wait goes round again until it has read 0.
Unlock(t) ==
  /\ pc[t] = "unlock"
  /\ lock' = LockAfter(t)
  /\ CASE op[t] = "add" -> Leave(t, "added") /\ UNCHANGED fnRuns
       [] op[t] = "done" -> Leave(t, "finished") /\ UNCHANGED fnRuns
       [] op[t] \in UpdateOps -> Leave(t, "updated") /\ UNCHANGED fnRuns
       [] op[t] = "once" ->
            IF reg[t] = 1
              THEN Leave(t, "ready") /\ UNCHANGED fnRuns
              ELSE Goto(t, "fn") /\ fnRuns' = fnRuns + 1 /\ UNCHANGED <<stage, op>>
       [] op[t] = "wait" ->
            IF NoneRemains(reg[t])
              THEN Leave(t, "finished") /\ UNCHANGED fnRuns
              ELSE Goto(t, "lock") /\ UNCHANGED <<fnRuns, stage, op>>
  /\ UNCHANGED <<onceDone, count, completed, reg>>

ReturnFromFn(t) ==
  /\ pc[t] = "fn"
  /\ Leave(t, "ready")
  /\ UNCHANGED <<lock, shared, reg>>

-----------------------------------------------------------------------------
Continue(t) ==
  \/ Load(t) \/ Store(t) \/ ReturnFromBlock(t) \/ Unlock(t) \/ ReturnFromFn(t)

Program(t) ==
  \/ t = Main /\ (Add \/ Wait \/ \E w \in Workers : Spawn(w))
  \/ t \in Workers /\ (Do(t) \/ Update(t) \/ Done(t))

Next == \E t \in Threads : Program(t) \/ Acquire(t) \/ Continue(t)

Spec == Init /\ [][Next]_vars

\* Threads keep running and fn returns.  The spin lock is unfair, but it is
\* free between any two critical sections: a thread whose exchange finds it
\* free again and again gets it.
Fairness ==
  \A t \in Threads : WF_vars(Program(t) \/ Continue(t)) /\ SF_vars(Acquire(t))

FairSpec == Spec /\ Fairness

-----------------------------------------------------------------------------
(* Correctness                                                             *)

\* Between __hike_lock and __hike_unlock.
Inside == {t \in Threads : pc[t] \in {"load", "store", "unlock"} /\ op[t] # "plain"}

\* A worker has left a lock block by a return.
Orphaned == \E w \in Workers : stage[w] = "returned"

\* Lock blocks, the Once and the WaitGroup exclude each other, and what a
\* thread inside has loaded still holds when it stores.
Exclusion ==
  /\ Cardinality(Inside) <= 1
  /\ Inside # {} => lock = 1
  /\ \A t \in Inside : pc[t] = "store" => reg[t] = WordOf(op[t])

\* fn runs once for all callers of Do, and has set out before any of them
\* returns.  (It need not have returned: a second caller does not wait for it.)
FnOnce ==
  /\ fnRuns <= 1
  /\ \A w \in Workers : stage[w] \notin {"unborn", "start"} => fnRuns = 1

\* When Wait returns every worker has called Done.
JoinComplete ==
  stage[Main] = "finished" => \A w \in Workers : stage[w] = "finished"

\* When Wait returns every update has been counted.
AllCounted == stage[Main] = "finished" => completed = Most

\* Wait returns, although it spins on the lock the workers need for Done,
\* unless a worker has left a lock block by a return.
WaitReturns == (op[Main] = "wait") ~> (stage[Main] = "finished" \/ Orphaned)
=============================================================================
