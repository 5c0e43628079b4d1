----------------------------- MODULE HikeTask -----------------------------
(***************************************************************************)
(* Async and <-task: __hike_async, __hike_task_worker_thunk and            *)
(* __hike_task_wait of runtime_common.ll, with the thunk the LLVM emitter  *)
(* wraps around the user's function.  A body is any sequence of Async and  *)
(* <-task: a thread awaits the tasks it started itself, one at a time, as  *)
(* the continuation pattern of concurrency.md nests them, and may await a  *)
(* task again.                                                             *)
(*                                                                         *)
(* The completed word and the result buffer are plain memory.  The result  *)
(* becomes visible to other threads some time after it is stored, with the *)
(* event's mutex at the latest.  A target that keeps stores in order       *)
(* (x86-64) shows the completed word only after it; linux-arm64 and        *)
(* linux-arm32 may show the two the other way round.                       *)
(***************************************************************************)
EXTENDS Integers

CONSTANTS
  Tasks,          \* the tasks the program may start
  Main,           \* the main thread
  OrderedStores,  \* the target keeps the stores of a thread in order
  MaxAwaits       \* bound: how often a task is awaited

ASSUME MainAssumption == Main \notin Tasks
ASSUME OrderAssumption == OrderedStores \in BOOLEAN
ASSUME AwaitsAssumption == MaxAwaits \in Nat

\* A worker thread goes by the name of the task it runs.
Threads == Tasks \cup {Main}

None == "none"

ASSUME NoneAssumption == None \notin Threads

VARIABLES
  creator,   \* [Tasks -> the thread that called Async, or None before]
  worker,    \* [Tasks -> where the worker is]
  result,    \* [Tasks -> the state of ret_buf]
  completed, \* [Tasks -> the completed word]
  handle,    \* [Tasks -> the event_handle field: "null" or "event"]
  event,     \* [Tasks -> the event's state word, or "freed"]
  waiter,    \* [Threads -> where in __hike_task_wait the thread is]
  target,    \* [Threads -> the task it awaits]
  awaits     \* [Tasks -> the number of awaits so far]

taskVars == <<creator, worker, result, completed, handle, event>>
vars == <<creator, worker, result, completed, handle, event, waiter, target, awaits>>

TypeOK ==
  /\ creator \in [Tasks -> Threads \cup {None}]
  /\ worker \in [Tasks -> {None, "queued", "body", "store", "done", "load", "signal", "exited"}]
  /\ result \in [Tasks -> {None, "stored", "visible"}]
  /\ completed \in [Tasks -> {0, 1}]
  /\ handle \in [Tasks -> {"null", "event"}]
  /\ event \in [Tasks -> {None, "clear", "set", "freed"}]
  /\ waiter \in [Threads -> {"idle", "enter", "load", "wait", "asleep", "woken", "destroy",
                             "forget", "poll", "result"}]
  /\ target \in [Threads -> Tasks \cup {None}]
  /\ awaits \in [Tasks -> 0 .. MaxAwaits]
  /\ \A t \in Threads : waiter[t] = "idle" <=> target[t] = None
  /\ \A k \in Tasks : worker[k] = None <=> creator[k] = None

Init ==
  /\ creator = [k \in Tasks |-> None]
  /\ worker = [k \in Tasks |-> None]
  /\ result = [k \in Tasks |-> None]
  /\ completed = [k \in Tasks |-> 0]
  /\ handle = [k \in Tasks |-> "null"]
  /\ event = [k \in Tasks |-> None]
  /\ waiter = [t \in Threads |-> "idle"]
  /\ target = [t \in Threads |-> None]
  /\ awaits = [k \in Tasks |-> 0]

\* The thread runs user code: the main thread, or a worker in its task's body.
InBody(t) ==
  /\ waiter[t] = "idle"
  /\ t = Main \/ (t \in Tasks /\ worker[t] = "body")

-----------------------------------------------------------------------------
(* Async and the worker                                                    *)

\* Mutant: without an event no thread is spawned.
AsyncWithEvent(t, k) ==
  /\ InBody(t)
  /\ creator[k] = None
  /\ creator' = [creator EXCEPT ![k] = t]
  /\ \/ /\ handle' = [handle EXCEPT ![k] = "event"]
        /\ event' = [event EXCEPT ![k] = "clear"]
        /\ worker' = [worker EXCEPT ![k] = "queued"]
     \/ UNCHANGED <<handle, event, worker>>
  /\ UNCHANGED <<result, completed, waiter, target, awaits>>

\* __hike_async: every field is set before the thread is spawned.  Where the
\* system has no event left (CreateEventA returns null) the task has none.
Async(t, k) ==
  /\ InBody(t)
  /\ creator[k] = None
  /\ creator' = [creator EXCEPT ![k] = t]
  /\ worker' = [worker EXCEPT ![k] = "queued"]
  /\ \/ /\ handle' = [handle EXCEPT ![k] = "event"]
        /\ event' = [event EXCEPT ![k] = "clear"]
     \/ UNCHANGED <<handle, event>>
  /\ UNCHANGED <<result, completed, waiter, target, awaits>>

WorkerMoves(k, from, to) ==
  /\ worker[k] = from
  /\ worker' = [worker EXCEPT ![k] = to]

Start(k) ==
  /\ WorkerMoves(k, "queued", "body")
  /\ UNCHANGED <<creator, result, completed, handle, event, waiter, target, awaits>>

\* The user's function returns.
Finish(k) ==
  /\ InBody(k)
  /\ WorkerMoves(k, "body", "store")
  /\ UNCHANGED <<creator, result, completed, handle, event, waiter, target, awaits>>

\* The thunk stores what the function returned and frees its environment.
StoreResult(k) ==
  /\ WorkerMoves(k, "store", "done")
  /\ result' = [result EXCEPT ![k] = "stored"]
  /\ UNCHANGED <<creator, completed, handle, event, waiter, target, awaits>>

\* The memory system lets the other threads see the stored result.
Propagate(k) ==
  /\ result[k] = "stored"
  /\ result' = [result EXCEPT ![k] = "visible"]
  /\ UNCHANGED <<creator, worker, completed, handle, event, waiter, target, awaits>>

\* Mutant: the store of the completed word overtakes that of the result.
StoreDoneEarly(k) ==
  /\ WorkerMoves(k, "done", "load")
  /\ completed' = [completed EXCEPT ![k] = 1]
  /\ UNCHANGED <<creator, result, handle, event, waiter, target, awaits>>

\* The step in which the store becomes visible.
StoreDone(k) ==
  /\ WorkerMoves(k, "done", "load")
  /\ OrderedStores => result[k] = "visible"
  /\ completed' = [completed EXCEPT ![k] = 1]
  /\ UNCHANGED <<creator, result, handle, event, waiter, target, awaits>>

\* Mutant: the worker never signals, as if the completed word were enough.
LoadNoEvent(k) ==
  /\ WorkerMoves(k, "load", "exited")
  /\ UNCHANGED <<creator, result, completed, handle, event, waiter, target, awaits>>

LoadEvent(k) ==
  /\ worker[k] = "load"
  /\ worker' = [worker EXCEPT ![k] = IF handle[k] = "null" THEN "exited" ELSE "signal"]
  /\ UNCHANGED <<creator, result, completed, handle, event, waiter, target, awaits>>

Sleepers(k) == {t \in Threads : target[t] = k /\ waiter[t] = "asleep"}

\* hike_event_signal, whose mutex makes every earlier store visible.
Signal(k) ==
  /\ WorkerMoves(k, "signal", "exited")
  /\ event' = [event EXCEPT ![k] = "set"]
  /\ result' = [result EXCEPT ![k] = "visible"]
  /\ IF Sleepers(k) = {}
       THEN UNCHANGED waiter
       ELSE \E t \in Sleepers(k) : waiter' = [waiter EXCEPT ![t] = "woken"]
  /\ UNCHANGED <<creator, completed, handle, target, awaits>>

-----------------------------------------------------------------------------
(* <-task                                                                  *)

WaiterMoves(t, from, to) ==
  /\ waiter[t] = from
  /\ waiter' = [waiter EXCEPT ![t] = to]

Await(t, k) ==
  /\ InBody(t)
  /\ creator[k] = t
  /\ awaits[k] < MaxAwaits
  /\ awaits' = [awaits EXCEPT ![k] = @ + 1]
  /\ WaiterMoves(t, "idle", "enter")
  /\ target' = [target EXCEPT ![t] = k]
  /\ UNCHANGED taskVars

\* check_done
CheckDone(t) ==
  /\ WaiterMoves(t, "enter", IF completed[target[t]] = 1 THEN "result" ELSE "load")
  /\ UNCHANGED <<taskVars, target, awaits>>

\* wait_ev
LoadHandle(t) ==
  /\ WaiterMoves(t, "load", IF handle[target[t]] = "event" THEN "wait" ELSE "poll")
  /\ UNCHANGED <<taskVars, target, awaits>>

\* hike_event_wait without a timeout, on entry and after a wakeup.
TestEvent(t) ==
  /\ waiter[t] \in {"wait", "woken"}
  /\ IF event[target[t]] = "set"
       THEN /\ event' = [event EXCEPT ![target[t]] = "clear"]
            /\ waiter' = [waiter EXCEPT ![t] = "destroy"]
       ELSE /\ waiter' = [waiter EXCEPT ![t] = "asleep"]
            /\ UNCHANGED event
  /\ UNCHANGED <<creator, worker, result, completed, handle, target, awaits>>

SpuriousWakeup(t) ==
  /\ WaiterMoves(t, "asleep", "woken")
  /\ UNCHANGED <<taskVars, target, awaits>>

DestroyEvent(t) ==
  /\ WaiterMoves(t, "destroy", "forget")
  /\ event' = [event EXCEPT ![target[t]] = "freed"]
  /\ UNCHANGED <<creator, worker, result, completed, handle, target, awaits>>

\* Mutant: the handle of the destroyed event stays in the task.
KeepHandle(t) ==
  /\ WaiterMoves(t, "forget", "result")
  /\ UNCHANGED <<taskVars, target, awaits>>

ForgetEvent(t) ==
  /\ WaiterMoves(t, "forget", "result")
  /\ handle' = [handle EXCEPT ![target[t]] = "null"]
  /\ UNCHANGED <<creator, worker, result, completed, event, target, awaits>>

\* poll_loop: one millisecond later the completed word is read again.
Poll(t) ==
  /\ WaiterMoves(t, "poll", "result")
  /\ completed[target[t]] = 1
  /\ UNCHANGED <<taskVars, target, awaits>>

\* get_res, and the loads that unpack the buffer.
GetResult(t) ==
  /\ WaiterMoves(t, "result", "idle")
  /\ target' = [target EXCEPT ![t] = None]
  /\ UNCHANGED <<taskVars, awaits>>

-----------------------------------------------------------------------------
WorkerStep(k) ==
  \/ Start(k) \/ Finish(k) \/ StoreResult(k) \/ StoreDone(k) \/ LoadEvent(k) \/ Signal(k)

WaiterStep(t) ==
  \/ CheckDone(t) \/ LoadHandle(t) \/ TestEvent(t) \/ DestroyEvent(t) \/ ForgetEvent(t)
  \/ Poll(t) \/ GetResult(t)

Next ==
  \/ \E t \in Threads, k \in Tasks : Async(t, k) \/ Await(t, k)
  \/ \E k \in Tasks : WorkerStep(k) \/ Propagate(k)
  \/ \E t \in Threads : WaiterStep(t) \/ SpuriousWakeup(t)

Spec == Init /\ [][Next]_vars

\* Every spawned thread gets to run, every body ends unless it awaits, and
\* every store becomes visible in the end.
Fairness ==
  /\ \A k \in Tasks : WF_vars(WorkerStep(k)) /\ WF_vars(Propagate(k))
  /\ \A t \in Threads : WF_vars(WaiterStep(t))

FairSpec == Spec /\ Fairness

-----------------------------------------------------------------------------
(* Correctness                                                             *)

\* <-task unpacks what the task's function returned, by whichever of the
\* three paths through __hike_task_wait it comes.
AwaitedResult ==
  \A t \in Threads : waiter[t] = "result" => result[target[t]] = "visible"

\* The event is destroyed while neither the worker nor a waiter still uses it,
\* and never twice: the worker loads the handle after it has set completed.
EventLifetime ==
  /\ \A t \in Threads :
       waiter[t] \in {"wait", "asleep", "woken", "destroy"} =>
         event[target[t]] \in {"clear", "set"}
  /\ \A k \in Tasks : worker[k] = "signal" => event[k] \in {"clear", "set"}
  /\ \A k \in Tasks :
       event[k] = "freed" =>
         handle[k] = "null" \/ \E t \in Threads : target[t] = k /\ waiter[t] = "forget"

\* Every await returns, although the worker signals once and may do so before,
\* between or after the steps of the waiter.
AwaitReturns == \A t \in Threads : (target[t] # None) ~> (target[t] = None)
=============================================================================
