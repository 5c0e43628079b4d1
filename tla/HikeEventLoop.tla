--------------------------- MODULE HikeEventLoop ---------------------------
(***************************************************************************)
(* std/eventloop: closures that workers hand to the main thread through a  *)
(* channel, and replies that come back through channels of capacity one.   *)
(*                                                                         *)
(* A channel operation is one step here, on the bounded queue FifoChannel  *)
(* describes: HikeChannelProofs shows that the runtime's channel takes     *)
(* each operation in one step between its call and its return.             *)
(*                                                                         *)
(* A closure that Run evaluates may call this package again and wait for   *)
(* replies; one that is evaluated by InvokeCh itself only computes.        *)
(***************************************************************************)
EXTENDS Integers, Sequences

CONSTANTS
  Workers,   \* the threads started with Async
  Main,      \* the thread that calls Init and Run
  InitCap,   \* the capacity Init is called with
  MaxCalls,  \* bound: the calls the program makes
  MaxRuns    \* bound: how often it calls Run

ASSUME MainAssumption == Main \notin Workers
ASSUME BoundsAssumption == InitCap \in Int /\ MaxCalls \in Nat /\ MaxRuns \in Nat

Threads == Workers \cup {Main}

\* Calls are numbered in the order they are made.
Calls == 1 .. MaxCalls
NoCall == 0

VARIABLES
  queue,    \* the closures in the event queue, by the call that made them
  running,  \* the package variable
  loop,     \* where in Run the main thread is
  current,  \* the call whose closure Run is evaluating
  runs,     \* the number of calls of Run
  pc,       \* [Threads -> where in Post or InvokeCh the thread is]
  cur,      \* [Threads -> the call it is in]
  made,     \* the number of calls made so far
  kind,     \* [Calls -> "post", "invoke", "stop"]
  caller,   \* [Calls -> the thread that made it]
  state,    \* [Calls -> what has become of its closure]
  resCh     \* [Calls -> what the reply channel holds: "empty", "value", "taken"]

callVars == <<made, kind, caller>>
vars == <<queue, running, loop, current, runs, pc, cur, made, kind, caller, state, resCh>>

None == "none"
Kinds == {"post", "invoke", "stop"}

\* Init
Capacity == IF InitCap <= 0 THEN 64 ELSE InitCap

TypeOK ==
  /\ queue \in Seq(Calls) /\ Len(queue) <= Capacity
  /\ running \in {0, 1}
  /\ loop \in {"outside", "test", "receive", "evaluate"}
  /\ current \in Calls \cup {NoCall}
  /\ current # NoCall <=> loop = "evaluate"
  /\ runs \in 0 .. MaxRuns
  /\ pc \in [Threads -> {"user", "test", "send", "evaluate", "await"}]
  /\ cur \in [Threads -> Calls \cup {NoCall}]
  /\ \A t \in Threads : cur[t] # NoCall <=> pc[t] # "user"
  /\ made \in 0 .. MaxCalls
  /\ kind \in [Calls -> Kinds \cup {None}]
  /\ caller \in [Calls -> Threads \cup {None}]
  /\ state \in [Calls -> {None, "made", "queued", "running", "done"}]
  /\ resCh \in [Calls -> {"empty", "value", "taken"}]

\* The program has called eventloop.Init and started its workers.
Init ==
  /\ queue = << >>
  /\ running = 0
  /\ loop = "outside"
  /\ current = NoCall
  /\ runs = 0
  /\ pc = [t \in Threads |-> "user"]
  /\ cur = [t \in Threads |-> NoCall]
  /\ made = 0
  /\ kind = [c \in Calls |-> None]
  /\ caller = [c \in Calls |-> None]
  /\ state = [c \in Calls |-> None]
  /\ resCh = [c \in Calls |-> "empty"]

-----------------------------------------------------------------------------
(* Calls, by the workers and by the main thread outside Run or in a closure *)

\* The thread runs code of the program that may call this package.
InUserCode(t) ==
  /\ pc[t] = "user"
  /\ t = Main => loop = "outside" \/ (loop = "evaluate" /\ kind[current] # "stop")

Goto(t, place) == pc' = [pc EXCEPT ![t] = place]
Becomes(c, s) == state' = [state EXCEPT ![c] = s]

Return(t) ==
  /\ Goto(t, "user")
  /\ cur' = [cur EXCEPT ![t] = NoCall]

MakeCall(t, k, place) ==
  /\ InUserCode(t)
  /\ made < MaxCalls
  /\ made' = made + 1
  /\ kind' = [kind EXCEPT ![made + 1] = k]
  /\ caller' = [caller EXCEPT ![made + 1] = t]
  /\ Becomes(made + 1, "made")
  /\ cur' = [cur EXCEPT ![t] = made + 1]
  /\ Goto(t, place)

Post(t) ==
  /\ MakeCall(t, "post", "send")
  /\ UNCHANGED <<queue, running, loop, current, runs, resCh>>

\* Mutant: running is cleared at once instead of by a closure in the queue.
StopAtOnce(t) ==
  /\ InUserCode(t)
  /\ made < MaxCalls
  /\ made' = made + 1
  /\ kind' = [kind EXCEPT ![made + 1] = "stop"]
  /\ caller' = [caller EXCEPT ![made + 1] = t]
  /\ Becomes(made + 1, "done")
  /\ running' = 0
  /\ UNCHANGED <<queue, loop, current, runs, pc, cur, resCh>>

Stop(t) ==
  /\ MakeCall(t, "stop", "send")
  /\ UNCHANGED <<queue, running, loop, current, runs, resCh>>

InvokeCh(t) ==
  /\ MakeCall(t, "invoke", "test")
  /\ UNCHANGED <<queue, running, loop, current, runs, resCh>>

\* The read of running, with no synchronization.
TestRunning(t) ==
  /\ pc[t] = "test"
  /\ IF running = 1
       THEN Goto(t, "evaluate") /\ Becomes(cur[t], "running")
       ELSE Goto(t, "send") /\ UNCHANGED state
  /\ UNCHANGED <<queue, running, loop, current, runs, cur, callVars, resCh>>

\* Mutant: without the else the closure is queued as well.
EvaluateAndQueue(t) ==
  /\ pc[t] = "evaluate"
  /\ resCh' = [resCh EXCEPT ![cur[t]] = "value"]
  /\ Becomes(cur[t], "done")
  /\ Goto(t, "send")
  /\ UNCHANGED <<queue, running, loop, current, runs, cur, callVars>>

\* resCh <- fn() on the thread of the caller.
EvaluateSelf(t) ==
  /\ pc[t] = "evaluate"
  /\ resCh' = [resCh EXCEPT ![cur[t]] = "value"]
  /\ Becomes(cur[t], "done")
  /\ Return(t)
  /\ UNCHANGED <<queue, running, loop, current, runs, callVars>>

\* Mutant: the send does not wait for room.
SendAtOnce(t) ==
  /\ pc[t] = "send"
  /\ queue' = Append(queue, cur[t])
  /\ Becomes(cur[t], "queued")
  /\ Return(t)
  /\ UNCHANGED <<running, loop, current, runs, callVars, resCh>>

\* queue <- closure, which waits for room.
Send(t) ==
  /\ pc[t] = "send"
  /\ Len(queue) < Capacity
  /\ queue' = Append(queue, cur[t])
  /\ Becomes(cur[t], "queued")
  /\ Return(t)
  /\ UNCHANGED <<running, loop, current, runs, callVars, resCh>>

\* <-resCh: at once in Invoke, later in a program that uses InvokeCh.
Await(t, c) ==
  /\ InUserCode(t)
  /\ kind[c] = "invoke" /\ caller[c] = t /\ resCh[c] # "taken"
  /\ cur' = [cur EXCEPT ![t] = c]
  /\ Goto(t, "await")
  /\ UNCHANGED <<queue, running, loop, current, runs, callVars, state, resCh>>

Reply(t) ==
  /\ pc[t] = "await"
  /\ resCh[cur[t]] = "value"
  /\ resCh' = [resCh EXCEPT ![cur[t]] = "taken"]
  /\ Return(t)
  /\ UNCHANGED <<queue, running, loop, current, runs, callVars, state>>

-----------------------------------------------------------------------------
(* Run                                                                     *)

StartRun ==
  /\ loop = "outside" /\ pc[Main] = "user"
  /\ runs < MaxRuns
  /\ runs' = runs + 1
  /\ running' = 1
  /\ loop' = "test"
  /\ UNCHANGED <<queue, current, pc, cur, callVars, state, resCh>>

\* Mutant: the loop condition is forgotten.
LoopForever ==
  /\ loop = "test"
  /\ loop' = "receive"
  /\ UNCHANGED <<queue, running, current, runs, pc, cur, callVars, state, resCh>>

LoopTest ==
  /\ loop = "test"
  /\ loop' = IF running = 1 THEN "receive" ELSE "outside"
  /\ UNCHANGED <<queue, running, current, runs, pc, cur, callVars, state, resCh>>

Receive ==
  /\ loop = "receive"
  /\ queue # << >>
  /\ current' = Head(queue)
  /\ queue' = Tail(queue)
  /\ Becomes(current', "running")
  /\ loop' = "evaluate"
  /\ UNCHANGED <<running, runs, pc, cur, callVars, resCh>>

\* Mutant: the wrapper closure of InvokeCh drops the result.
EvaluateUnanswered ==
  /\ loop = "evaluate" /\ pc[Main] = "user"
  /\ running' = IF kind[current] = "stop" THEN 0 ELSE running
  /\ Becomes(current, "done")
  /\ current' = NoCall
  /\ loop' = "test"
  /\ UNCHANGED <<queue, runs, pc, cur, callVars, resCh>>

\* The closure returns, having replied or cleared running if that is its job.
Evaluated ==
  /\ loop = "evaluate" /\ pc[Main] = "user"
  /\ resCh' = IF kind[current] = "invoke" THEN [resCh EXCEPT ![current] = "value"] ELSE resCh
  /\ running' = IF kind[current] = "stop" THEN 0 ELSE running
  /\ Becomes(current, "done")
  /\ current' = NoCall
  /\ loop' = "test"
  /\ UNCHANGED <<queue, runs, pc, cur, callVars>>

-----------------------------------------------------------------------------
Advance(t) == TestRunning(t) \/ EvaluateSelf(t) \/ Send(t) \/ Reply(t)

MainStep == LoopTest \/ Receive \/ Evaluated

Next ==
  \/ \E t \in Threads :
       \/ Post(t) \/ Stop(t) \/ InvokeCh(t)
       \/ \E c \in Calls : Await(t, c)
       \/ Advance(t)
  \/ StartRun
  \/ MainStep

Spec == Init /\ [][Next]_vars

(***************************************************************************)
(* The operating system runs every thread that is not waiting.  A send     *)
(* gets in if there is room from some time on, a receive likewise: no more *)
(* than that is shown of the channel (RoomReachesSender and                *)
(* DataReachesReceiver of HikeChannel), so no strong fairness here.        *)
(***************************************************************************)
Fairness == WF_vars(MainStep) /\ \A t \in Threads : WF_vars(Advance(t))

FairSpec == Spec /\ Fairness

-----------------------------------------------------------------------------
(* Correctness                                                             *)

\* A closure is evaluated at most once, by Run or by its caller but not by
\* both: what waits in the queue is there once and has not been evaluated,
\* so a reply channel of capacity one never blocks the main thread.
EvaluatedOnce ==
  /\ \A i, j \in DOMAIN queue : queue[i] = queue[j] => i = j
  /\ \A i \in DOMAIN queue : state[queue[i]] = "queued" /\ resCh[queue[i]] = "empty"
  /\ loop = "evaluate" => resCh[current] = "empty"

\* When Stop has taken effect, all that the same thread called before it has
\* been evaluated: the stop waits its turn behind the closures.
StopDrains ==
  \A s \in Calls : kind[s] = "stop" /\ state[s] = "done" =>
    \A c \in 1 .. s - 1 : caller[c] = caller[s] => state[c] = "done"

\* A closure that Run evaluates posts while the queue is full: nobody is left
\* to make room.
StuckSending == pc[Main] = "send" /\ Len(queue) = Capacity

\* It waits for a reply that only Run could give it, of a call that the main
\* thread queued before Run or of the one being evaluated.
StuckAwaiting ==
  loop = "evaluate" /\ pc[Main] = "await" /\ resCh[cur[Main]] = "empty"

MainStuck == StuckSending \/ StuckAwaiting

\* A queued stop ends Run, unless a closure that Run evaluates never ends
\* because it waits for the loop itself.
StopEndsRun ==
  \A s \in Calls :
    (kind[s] = "stop" /\ state[s] = "queued" /\ loop # "outside")
      ~> (loop = "outside" \/ MainStuck)

\* A worker that waits for a reply gets it, whichever value of running it saw,
\* unless the loop has been stopped or waits for itself.
ReplyArrives ==
  \A w \in Workers :
    (pc[w] = "await") ~> (pc[w] # "await" \/ running = 0 \/ MainStuck)

\* The calls of one thread are evaluated in the order it makes them.
CallOrder ==
  \A c, d \in Calls :
    c < d /\ caller[c] = caller[d] /\ caller[c] \in Workers /\ state[d] = "done"
      => state[c] = "done"
=============================================================================
