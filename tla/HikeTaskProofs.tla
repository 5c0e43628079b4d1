--------------------------- MODULE HikeTaskProofs ---------------------------
(***************************************************************************)
(* Proofs about HikeTask for every set of tasks, every number of awaits    *)
(* and, where the theorem says so, only for targets that keep the stores   *)
(* of a thread in order.                                                   *)
(***************************************************************************)
EXTENDS HikeTask, TLAPS

USE NoneAssumption DEF None

\* A thread awaits only what it started, so no two threads await one task.
OwnTask == \A t \in Threads : target[t] # None => creator[target[t]] = t

\* What the worker has done by the time it is somewhere.
Worked ==
  \A k \in Tasks :
    /\ result[k] # None => worker[k] \in {"done", "load", "signal", "exited"}
    /\ completed[k] = 1 => worker[k] \in {"load", "signal", "exited"}
    /\ worker[k] = "signal" => event[k] \in {"clear", "set"}
    /\ handle[k] = "event" => event[k] # None

\* The event is set by the worker's last step, and freed only after it; the
\* one thread that has freed it forgets it before it does anything else.
Signalled ==
  \A k \in Tasks :
    /\ event[k] = "set" => worker[k] = "exited" /\ result[k] = "visible"
    /\ event[k] = "freed" =>
         /\ worker[k] = "exited"
         /\ handle[k] = "null" \/ \E t \in Threads : target[t] = k /\ waiter[t] = "forget"

\* What a waiter may rely on.
Waits ==
  \A t \in Threads :
    /\ waiter[t] \in {"wait", "asleep", "woken"} => event[target[t]] \in {"clear", "set"}
    /\ waiter[t] = "destroy" => /\ event[target[t]] = "clear"
                                /\ worker[target[t]] = "exited"
                                /\ result[target[t]] = "visible"
    /\ waiter[t] = "forget" => event[target[t]] = "freed" /\ result[target[t]] = "visible"

IInv == TypeOK /\ OwnTask /\ Worked /\ Signalled /\ Waits

LEMMA InitIInv == Init => IInv
  BY AwaitsAssumption DEF Init, IInv, TypeOK, OwnTask, Worked, Signalled, Waits, Threads

\* What a step of a thread t on its task k = target[t] may use.
LEMMA Target ==
  ASSUME IInv, NEW t \in Threads, waiter[t] # "idle"
  PROVE  /\ target[t] \in Tasks /\ target[t] # None
         /\ creator[target[t]] = t
         /\ \A u \in Threads \ {t} : target[u] # target[t]
  BY DEF IInv, TypeOK, OwnTask, Threads

LEMMA AsyncIInv ==
  ASSUME IInv, NEW t \in Threads, NEW k \in Tasks, Async(t, k)
  PROVE  IInv'
<1> USE DEF Async, InBody
<1>1. worker[k] = None /\ result[k] = None /\ completed[k] = 0 /\ event[k] \notin {"set", "freed"}
  BY DEF IInv, TypeOK, Worked, Signalled
<1>2. \A u \in Threads : target[u] # k
  BY DEF IInv, TypeOK, OwnTask, Threads
<1>3. TypeOK'
  BY DEF IInv, TypeOK, Threads
<1>4. OwnTask'
  BY <1>2 DEF IInv, TypeOK, OwnTask
<1>5. Worked'
  BY <1>1 DEF IInv, TypeOK, Worked
<1>6. Signalled'
  BY <1>1 DEF IInv, TypeOK, Signalled
<1>7. Waits'
  BY <1>2 DEF IInv, TypeOK, Waits
<1> QED BY <1>3, <1>4, <1>5, <1>6, <1>7 DEF IInv

LEMMA AwaitIInv ==
  ASSUME IInv, NEW t \in Threads, NEW k \in Tasks, Await(t, k)
  PROVE  IInv'
<1> USE AwaitsAssumption DEF Await, InBody, WaiterMoves, taskVars
<1>1. TypeOK'
  BY DEF IInv, TypeOK, Threads
<1>2. OwnTask'
  BY DEF IInv, TypeOK, OwnTask
<1>3. Worked'
  BY DEF IInv, TypeOK, Worked
<1>4. Signalled'
  BY DEF IInv, TypeOK, Signalled
<1>5. Waits'
  BY DEF IInv, TypeOK, Waits
<1> QED BY <1>1, <1>2, <1>3, <1>4, <1>5 DEF IInv

\* The worker's steps up to its signal.
LEMMA WorkerIInv ==
  ASSUME IInv, NEW k \in Tasks,
         \/ Start(k) \/ Finish(k) \/ StoreResult(k) \/ StoreDone(k) \/ LoadEvent(k)
         \/ Propagate(k)
  PROVE  IInv'
<1> USE DEF Start, Finish, StoreResult, StoreDone, LoadEvent, Propagate, WorkerMoves
<1>1. TypeOK'
  BY DEF IInv, TypeOK
<1>2. OwnTask'
  BY DEF IInv, OwnTask
<1>3. Worked'
  <2>1. worker[k] = "load" /\ handle[k] = "event" => event[k] \in {"clear", "set"}
    BY DEF IInv, TypeOK, Worked, Signalled
  <2> QED BY <2>1 DEF IInv, TypeOK, Worked
<1>4. Signalled'
  BY DEF IInv, TypeOK, Signalled
<1>5. Waits'
  <2>1. \A t \in Threads : waiter[t] # "idle" => target[t] \in Tasks
    BY Target
  <2>2. UNCHANGED event /\ UNCHANGED waiter /\ UNCHANGED target
    OBVIOUS
  <2>3. \A t \in Threads : waiter[t] \in {"destroy", "forget"} => worker[target[t]] = "exited"
    BY <2>1 DEF IInv, TypeOK, Waits, Signalled
  <2>4. \A t \in Threads : waiter[t] \in {"destroy", "forget"} =>
                             /\ worker'[target[t]] = worker[target[t]]
                             /\ result'[target[t]] = result[target[t]]
    BY <2>1, <2>3 DEF IInv, TypeOK, Waits
  <2> QED BY <2>1, <2>2, <2>4 DEF IInv, TypeOK, Waits
<1> QED BY <1>1, <1>2, <1>3, <1>4, <1>5 DEF IInv

LEMMA SignalIInv ==
  ASSUME IInv, NEW k \in Tasks, Signal(k)
  PROVE  IInv'
<1> USE DEF Signal, WorkerMoves
<1> DEFINE Wakes(t) == waiter' = [waiter EXCEPT ![t] = "woken"]
<1>1. UNCHANGED waiter \/ \E t \in Sleepers(k) : Wakes(t)
  OBVIOUS
<1>2. \A t \in Sleepers(k) : t \in Threads /\ waiter[t] = "asleep" /\ target[t] = k
  BY DEF Sleepers
<1>3. worker[k] = "signal" /\ event[k] \in {"clear", "set"}
  BY DEF IInv, Worked
<1>4. TypeOK'
  BY <1>1, <1>2 DEF IInv, TypeOK
<1>5. OwnTask'
  BY DEF IInv, OwnTask
<1>6. Worked'
  BY <1>3 DEF IInv, TypeOK, Worked
<1>7. Signalled'
  BY <1>1, <1>2, <1>3 DEF IInv, TypeOK, Signalled
<1>8. Waits'
  <2>1. \A t \in Threads : waiter[t] \in {"destroy", "forget"} => target[t] # k
    BY <1>3 DEF IInv, TypeOK, Waits, Signalled, Threads
  <2> QED BY <1>1, <1>2, <1>3, <2>1 DEF IInv, TypeOK, Waits
<1> QED BY <1>4, <1>5, <1>6, <1>7, <1>8 DEF IInv

\* The waiter's steps that leave the task alone.
LEMMA WaiterIInv ==
  ASSUME IInv, NEW t \in Threads,
         CheckDone(t) \/ LoadHandle(t) \/ SpuriousWakeup(t) \/ Poll(t) \/ GetResult(t)
  PROVE  IInv'
<1> USE DEF CheckDone, LoadHandle, SpuriousWakeup, Poll, GetResult, WaiterMoves, taskVars
<1>0. waiter[t] # "idle" /\ waiter[t] # "forget"
  OBVIOUS
<1>1. TypeOK'
  BY <1>0, Target DEF IInv, TypeOK
<1>2. OwnTask'
  BY DEF IInv, TypeOK, OwnTask
<1>3. Worked'
  BY DEF IInv, Worked
<1>4. Signalled'
  <2>1. \A u \in Threads : waiter[u] = "forget" => waiter'[u] = "forget" /\ target'[u] = target[u]
    BY <1>0 DEF IInv, TypeOK
  <2> QED BY <2>1 DEF IInv, Signalled
<1>5. Waits'
  <2>1. waiter[t] = "load" /\ handle[target[t]] = "event" => event[target[t]] \in {"clear", "set"}
    BY <1>0, Target DEF IInv, TypeOK, Worked, Signalled
  <2> QED BY <1>0, <2>1, Target DEF IInv, TypeOK, Waits
<1> QED BY <1>1, <1>2, <1>3, <1>4, <1>5 DEF IInv

\* The waiter's steps on the event.
LEMMA EventIInv ==
  ASSUME IInv, NEW t \in Threads, TestEvent(t) \/ DestroyEvent(t) \/ ForgetEvent(t)
  PROVE  IInv'
<1> USE DEF TestEvent, DestroyEvent, ForgetEvent, WaiterMoves
<1> DEFINE k == target[t]
<1>0. waiter[t] # "idle"
  OBVIOUS
<1>1. k \in Tasks /\ k # None /\ creator[k] = t /\ \A u \in Threads \ {t} : target[u] # k
  BY <1>0, Target
<1>2. TypeOK'
  BY <1>0, <1>1 DEF IInv, TypeOK
<1>3. OwnTask'
  BY DEF IInv, OwnTask
<1>4. Worked'
  BY <1>1 DEF IInv, TypeOK, Worked, Waits
<1>5. Signalled'
  <2>1. \A j \in Tasks \ {k} : event'[j] = event[j] /\ handle'[j] = handle[j]
    BY <1>1 DEF IInv, TypeOK
  <2>2. \A u \in Threads : waiter[u] = "forget" /\ target[u] # k =>
                             waiter'[u] = "forget" /\ target'[u] = target[u]
    BY DEF IInv, TypeOK
  <2>3. event'[k] # "set" \/ event'[k] = event[k]
    BY <1>1 DEF IInv, TypeOK
  <2>4. event'[k] = "freed" => worker[k] = "exited"
    BY <1>1 DEF IInv, TypeOK, Waits, Signalled
  <2>5. event'[k] = "freed" => handle'[k] = "null" \/ waiter'[t] = "forget"
    BY <1>0, <1>1 DEF IInv, TypeOK, Waits, Signalled
  <2> QED BY <1>1, <2>1, <2>2, <2>3, <2>4, <2>5 DEF IInv, TypeOK, Signalled
<1>6. Waits'
  BY <1>0, <1>1 DEF IInv, TypeOK, Waits, Signalled
<1> QED BY <1>2, <1>3, <1>4, <1>5, <1>6 DEF IInv

LEMMA StutterIInv == IInv /\ UNCHANGED vars => IInv'
  BY DEF vars, IInv, TypeOK, OwnTask, Worked, Signalled, Waits

LEMMA NextIInv == IInv /\ [Next]_vars => IInv'
<1> SUFFICES ASSUME IInv, [Next]_vars PROVE IInv'
  OBVIOUS
<1>1. ASSUME NEW t \in Threads, NEW k \in Tasks, Async(t, k) \/ Await(t, k) PROVE IInv'
  BY <1>1, AsyncIInv, AwaitIInv
<1>2. ASSUME NEW k \in Tasks, WorkerStep(k) \/ Propagate(k) PROVE IInv'
  BY <1>2, WorkerIInv, SignalIInv DEF WorkerStep
<1>3. ASSUME NEW t \in Threads, WaiterStep(t) \/ SpuriousWakeup(t) PROVE IInv'
  BY <1>3, WaiterIInv, EventIInv DEF WaiterStep
<1>4. CASE UNCHANGED vars
  BY <1>4, StutterIInv
<1> QED BY <1>1, <1>2, <1>3, <1>4 DEF Next

\* The words of a task and its threads stay within their ranges; a task has a
\* worker just when it has a creator (__hike_async).
THEOREM TaskTypes == Spec => []TypeOK
<1>1. IInv => TypeOK
  BY DEF IInv
<1> QED BY <1>1, InitIInv, NextIInv, PTL DEF Spec

\* The event of a task is destroyed once, after the worker has signalled it
\* and while nobody waits for it, whatever the target does to the stores.
THEOREM EventSafe == Spec => []EventLifetime
<1>1. IInv => EventLifetime
  BY DEF IInv, Worked, Signalled, Waits, EventLifetime
<1> QED BY <1>1, InitIInv, NextIInv, PTL DEF Spec

-----------------------------------------------------------------------------
(* The result, where stores stay in order.                                 *)

Visible ==
  /\ \A k \in Tasks : completed[k] = 1 => result[k] = "visible"
  /\ AwaitedResult

LEMMA InitVisible == Init => Visible
  BY DEF Init, Visible, AwaitedResult

LEMMA NextVisible ==
  ASSUME OrderedStores, IInv, Visible, [Next]_vars
  PROVE  Visible'
<1> USE DEF Visible, AwaitedResult
<1>1. ASSUME NEW t \in Threads, NEW k \in Tasks, Async(t, k) \/ Await(t, k) PROVE Visible'
  BY <1>1 DEF Async, Await, WaiterMoves, taskVars, InBody, IInv, TypeOK
<1>2. ASSUME NEW k \in Tasks, WorkerStep(k) \/ Propagate(k) PROVE Visible'
  <2>1. CASE StoreResult(k)
    <3>1. completed[k] = 0 /\ result[k] = None
      BY <2>1 DEF StoreResult, WorkerMoves, IInv, TypeOK, Worked
    <3>2. \A t \in Threads : waiter[t] = "result" => target[t] # k
      BY <3>1 DEF Visible, AwaitedResult
    <3> QED BY <2>1, <3>1, <3>2 DEF StoreResult, IInv, TypeOK
  <2>2. CASE Signal(k)
    <3>1. \A t \in Threads : waiter'[t] = "result" => waiter[t] = "result"
      BY <2>2 DEF Signal, Sleepers, IInv, TypeOK
    <3>2. \A j \in Tasks : result[j] = "visible" => result'[j] = "visible"
      BY <2>2 DEF Signal, IInv, TypeOK
    <3>3. \A t \in Threads : waiter[t] = "result" => target[t] \in Tasks
      BY Target
    <3> QED BY <2>2, <3>1, <3>2, <3>3 DEF Signal
  <2>3. CASE Start(k) \/ Finish(k) \/ StoreDone(k) \/ LoadEvent(k) \/ Propagate(k)
    <3>1. \A t \in Threads : waiter[t] = "result" => target[t] \in Tasks
      BY Target
    <3> QED BY <2>3, <3>1 DEF Start, Finish, StoreDone, LoadEvent, Propagate, WorkerMoves,
                              IInv, TypeOK
  <2> QED BY <1>2, <2>1, <2>2, <2>3 DEF WorkerStep
<1>3. ASSUME NEW t \in Threads, WaiterStep(t) \/ SpuriousWakeup(t) PROVE Visible'
  <2>1. waiter[t] # "idle"
    BY <1>3 DEF WaiterStep, CheckDone, LoadHandle, TestEvent, DestroyEvent, ForgetEvent, Poll,
                GetResult, SpuriousWakeup, WaiterMoves
  <2>2. UNCHANGED <<completed, result>>
    BY <1>3 DEF WaiterStep, CheckDone, LoadHandle, TestEvent, DestroyEvent, ForgetEvent, Poll,
                GetResult, SpuriousWakeup, WaiterMoves, taskVars
  <2>3. \A u \in Threads \ {t} : waiter'[u] = waiter[u] /\ target'[u] = target[u]
    BY <1>3 DEF WaiterStep, CheckDone, LoadHandle, TestEvent, DestroyEvent, ForgetEvent, Poll,
                GetResult, SpuriousWakeup, WaiterMoves, IInv, TypeOK
  <2>4. waiter'[t] = "result" => target'[t] = target[t] /\ result[target[t]] = "visible"
    BY <1>3, <2>1, Target
       DEF WaiterStep, CheckDone, LoadHandle, TestEvent, DestroyEvent, ForgetEvent, Poll,
           GetResult, SpuriousWakeup, WaiterMoves, IInv, TypeOK, Waits
  <2> QED BY <2>2, <2>3, <2>4
<1>4. CASE UNCHANGED vars
  BY <1>4 DEF vars
<1> QED BY <1>1, <1>2, <1>3, <1>4 DEF Next

\* Where the target keeps the stores of a thread in order, <-task returns what
\* the task's function returned, by whichever path through __hike_task_wait.
THEOREM ResultSafe ==
  ASSUME OrderedStores
  PROVE  Spec => []AwaitedResult
<1>1. Init => IInv /\ Visible
  BY InitIInv, InitVisible
<1>2. IInv /\ Visible /\ [Next]_vars => (IInv /\ Visible)'
  BY NextIInv, NextVisible
<1>3. Visible => AwaitedResult
  BY DEF Visible
<1> QED BY <1>1, <1>2, <1>3, PTL DEF Spec
=============================================================================
