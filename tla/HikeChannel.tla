---------------------------- MODULE HikeChannel ----------------------------
(***************************************************************************)
(* The channel of the native runtime (runtime_common.ll, "Channel &        *)
(* Concurrency Queue Runtime") on the Linux auto-reset event               *)
(* (runtime_linux.ll.tmpl).  Threads call send, recv and close in any      *)
(* order.  A critical section takes one step per group of stores another   *)
(* thread could tell apart; an event operation is one step, for it runs    *)
(* under the event's own mutex, which it gives up only by going to sleep.  *)
(***************************************************************************)
EXTENDS Integers, FiniteSets

CONSTANTS
  Threads,   \* the workers that share the channel
  Program,   \* [Threads -> the operations the code a thread runs performs]
  Values,    \* the payloads
  Zero,      \* the all-zero payload
  Cap        \* the capacity the program asks for: make(chan T, Cap)

ASSUME ZeroAssumption == Zero \notin Values
ASSUME ProgramAssumption == Program \in [Threads -> SUBSET {"send", "recv", "close"}]
ASSUME CapAssumption == Cap \in Int

VARIABLES
  lock, closed, cnt, head, tail, buf,  \* the fields of struct.__hike_chan
  ev,     \* the state word of ev_recv and ev_send
  op,     \* [Threads -> the operation a thread is in]
  pc,     \* [Threads -> where in it the thread is]
  reg,    \* [Threads -> the count it loaded under the lock]
  val     \* [Threads -> the payload behind val_ptr]

chan == <<closed, cnt, head, tail, buf>>
vars == <<lock, closed, cnt, head, tail, buf, ev, op, pc, reg, val>>

\* A capacity of zero or less is replaced by one.
RealCap == IF Cap <= 0 THEN 1 ELSE Cap

Slots == 0 .. RealCap - 1
NextSlotUnwrapped(i) == i + 1
NextSlot(i) == (i + 1) % RealCap

Ops == {"none", "send", "recv", "close"}
Waits == {"wait", "asleep", "woken"}
Critical == {"check", "copy", "count", "signal", "signalBoth", "unlock", "quit", "park"}
Places == {"idle", "lock"} \cup Critical \cup Waits

TypeOK ==
  /\ lock \in {0, 1}
  /\ closed \in {0, 1}
  /\ cnt \in 0 .. RealCap
  /\ head \in Slots
  /\ tail \in Slots
  /\ buf \in [Slots -> Values \cup {Zero}]
  /\ ev \in [{"recv", "send"} -> {0, 1}]
  /\ op \in [Threads -> Ops]
  /\ pc \in [Threads -> Places]
  /\ reg \in [Threads -> 0 .. RealCap]
  /\ val \in [Threads -> Values \cup {Zero}]

\* __hike_chan_make.  The buffer is fresh memory nobody reads before a send.
Init ==
  /\ lock = 0
  /\ closed = 0
  /\ cnt = 0
  /\ head = 0
  /\ tail = 0
  /\ buf = [i \in Slots |-> Zero]
  /\ ev = [e \in {"recv", "send"} |-> 0]
  /\ op = [t \in Threads |-> "none"]
  /\ pc = [t \in Threads |-> "idle"]
  /\ reg = [t \in Threads |-> 0]
  /\ val = [t \in Threads |-> Zero]

Goto(t, place) == pc' = [pc EXCEPT ![t] = place]
At(t, operation, place) == op[t] = operation /\ pc[t] = place

-----------------------------------------------------------------------------
(* Calls and the channel's spin lock                                       *)

Call(t, operation, v) ==
  /\ pc[t] = "idle"
  /\ operation \in Program[t]
  /\ op' = [op EXCEPT ![t] = operation]
  /\ val' = [val EXCEPT ![t] = v]
  /\ Goto(t, "lock")
  /\ UNCHANGED <<lock, chan, ev, reg>>

CallSend(t) == \E v \in Values : Call(t, "send", v)

\* What the receiver's memory holds before the call is anything.
CallRecv(t) == \E v \in Values \cup {Zero} : Call(t, "recv", v)
CallClose(t) == Call(t, "close", Zero)

\* Mutant: the result of the exchange is ignored.
AcquireHeld(t) ==
  /\ pc[t] = "lock"
  /\ lock' = 1
  /\ Goto(t, "check")
  /\ UNCHANGED <<chan, ev, op, reg, val>>

\* __hike_chan_lock: the exchange that reads 0 ends the spin.
Acquire(t) ==
  /\ pc[t] = "lock"
  /\ lock = 0
  /\ lock' = 1
  /\ Goto(t, "check")
  /\ UNCHANGED <<chan, ev, op, reg, val>>

\* The unlock before the return of an operation that is decided.
UnlockReturn(t) ==
  /\ pc[t] \in {"unlock", "quit"}
  /\ lock' = 0
  /\ op' = [op EXCEPT ![t] = "none"]
  /\ reg' = [reg EXCEPT ![t] = 0]
  /\ val' = [val EXCEPT ![t] = Zero]
  /\ Goto(t, "idle")
  /\ UNCHANGED <<chan, ev>>

\* The unlock before the wait of an operation that found the channel full or empty.
UnlockPark(t) ==
  /\ pc[t] = "park"
  /\ lock' = 0
  /\ Goto(t, "wait")
  /\ UNCHANGED <<chan, ev, op, reg, val>>

-----------------------------------------------------------------------------
(* The auto-reset event                                                    *)

\* Threads asleep in pthread_cond_wait on the event operation e waits for.
Sleepers(e) == {w \in Threads : op[w] = e /\ pc[w] = "asleep"}

\* hike_event_signal by t: set the state word, wake one sleeper if there is one.
SignalEvent(t, e, next) ==
  /\ ev' = [ev EXCEPT ![e] = 1]
  /\ IF Sleepers(e) = {}
       THEN Goto(t, next)
       ELSE \E w \in Sleepers(e) : pc' = [pc EXCEPT ![t] = next, ![w] = "woken"]

\* The test of the state word, on entry to hike_event_wait or after a wakeup:
\* a set word is consumed and the wait returns, otherwise the thread sleeps.
TestEvent(t) ==
  /\ pc[t] \in {"wait", "woken"}
  /\ IF ev[op[t]] = 1
       THEN /\ ev' = [ev EXCEPT ![op[t]] = 0]
            /\ Goto(t, "lock")
       ELSE /\ Goto(t, "asleep")
            /\ UNCHANGED ev
  /\ UNCHANGED <<lock, chan, op, reg, val>>

\* Mutant: the wait has no timeout (-1).
TimeoutNever(t) == FALSE

\* pthread_cond_timedwait fails after 10 ms: return without testing the word.
Timeout(t) ==
  /\ pc[t] = "asleep"
  /\ Goto(t, "lock")
  /\ UNCHANGED <<lock, chan, ev, op, reg, val>>

\* A condition variable may also return for no reason.
SpuriousWakeup(t) ==
  /\ pc[t] = "asleep"
  /\ Goto(t, "woken")
  /\ UNCHANGED <<lock, chan, ev, op, reg, val>>

-----------------------------------------------------------------------------
(* __hike_chan_send                                                        *)

HasRoom == cnt < RealCap

SendOutcome == IF closed = 1 THEN "quit" ELSE IF HasRoom THEN "copy" ELSE "park"

SendCheck(t) ==
  /\ At(t, "send", "check")
  /\ reg' = [reg EXCEPT ![t] = cnt]
  /\ Goto(t, SendOutcome)
  /\ UNCHANGED <<lock, chan, ev, op, val>>

SendCopy(t) ==
  /\ At(t, "send", "copy")
  /\ buf' = [buf EXCEPT ![tail] = val[t]]
  /\ tail' = NextSlot(tail)
  /\ Goto(t, "count")
  /\ UNCHANGED <<lock, closed, cnt, head, ev, op, reg, val>>

SendCount(t) ==
  /\ At(t, "send", "count")
  /\ cnt' = reg[t] + 1
  /\ Goto(t, "signal")
  /\ UNCHANGED <<lock, closed, head, tail, buf, ev, op, reg, val>>

SendSignal(t) ==
  /\ At(t, "send", "signal")
  /\ SignalEvent(t, "recv", "unlock")
  /\ UNCHANGED <<lock, chan, op, reg, val>>

-----------------------------------------------------------------------------
(* __hike_chan_recv                                                        *)

\* Mutant: the last value counts as none.
HasDataButLast == cnt > 1
HasData == cnt > 0

\* Mutant: a closed channel yields zero values before it is drained.
RecvOutcomeClosedFirst ==
  IF closed = 1 THEN "quit" ELSE IF HasData THEN "copy" ELSE "park"
RecvOutcome == IF HasData THEN "copy" ELSE IF closed = 1 THEN "quit" ELSE "park"

RecvCheck(t) ==
  /\ At(t, "recv", "check")
  /\ reg' = [reg EXCEPT ![t] = cnt]
  /\ IF RecvOutcome = "quit"
       THEN val' = [val EXCEPT ![t] = Zero]
       ELSE UNCHANGED val
  /\ Goto(t, RecvOutcome)
  /\ UNCHANGED <<lock, chan, ev, op>>

RecvCopy(t) ==
  /\ At(t, "recv", "copy")
  /\ val' = [val EXCEPT ![t] = buf[head]]
  /\ head' = NextSlot(head)
  /\ Goto(t, "count")
  /\ UNCHANGED <<lock, closed, cnt, tail, buf, ev, op, reg>>

RecvCount(t) ==
  /\ At(t, "recv", "count")
  /\ cnt' = reg[t] - 1
  /\ Goto(t, "signal")
  /\ UNCHANGED <<lock, closed, head, tail, buf, ev, op, reg, val>>

RecvSignal(t) ==
  /\ At(t, "recv", "signal")
  /\ SignalEvent(t, "send", "unlock")
  /\ UNCHANGED <<lock, chan, op, reg, val>>

-----------------------------------------------------------------------------
(* __hike_chan_close                                                       *)

CloseSet(t) ==
  /\ At(t, "close", "check")
  /\ closed' = 1
  /\ Goto(t, "signalBoth")
  /\ UNCHANGED <<lock, cnt, head, tail, buf, ev, op, reg, val>>

CloseSignalRecv(t) ==
  /\ At(t, "close", "signalBoth")
  /\ SignalEvent(t, "recv", "signal")
  /\ UNCHANGED <<lock, chan, op, reg, val>>

CloseSignalSend(t) ==
  /\ At(t, "close", "signal")
  /\ SignalEvent(t, "send", "unlock")
  /\ UNCHANGED <<lock, chan, op, reg, val>>

-----------------------------------------------------------------------------
Continue(t) ==
  \/ UnlockReturn(t) \/ UnlockPark(t) \/ TestEvent(t) \/ Timeout(t)
  \/ SendCheck(t) \/ SendCopy(t) \/ SendCount(t) \/ SendSignal(t)
  \/ RecvCheck(t) \/ RecvCopy(t) \/ RecvCount(t) \/ RecvSignal(t)
  \/ CloseSet(t) \/ CloseSignalRecv(t) \/ CloseSignalSend(t)

Step(t) ==
  \/ CallSend(t) \/ CallRecv(t) \/ CallClose(t)
  \/ Acquire(t) \/ SpuriousWakeup(t)
  \/ Continue(t)

Next == \E t \in Threads : Step(t)

Spec == Init /\ [][Next]_vars

(***************************************************************************)
(* A thread that can run does run.  A wait computes its deadline once, as  *)
(* an absolute time: wakeups that find the word clear do not put it off,   *)
(* and a thread that goes back to sleep again and again times out.  The    *)
(* spin lock keeps no order among the threads that want it, but it is free *)
(* between any two critical sections and a waiter polls it again after a   *)
(* yield: a thread that finds it free again and again gets it.  (One       *)
(* strong fairness covers both, for no thread leaves the spin or times out *)
(* other than by these two actions.)  No thread has to call an operation.  *)
(***************************************************************************)
Fairness ==
  \A t \in Threads : WF_vars(Continue(t)) /\ SF_vars(Acquire(t) \/ Timeout(t))

FairSpec == Spec /\ Fairness

-----------------------------------------------------------------------------
(* Correctness                                                             *)

\* The threads between a chan_lock and the matching chan_unlock.
Inside == {t \in Threads : pc[t] \in Critical}

Wrap(i) == IF i < RealCap THEN i ELSE i - RealCap

MutualExclusion == \A t, u \in Inside : t = u

\* The lock word is set exactly while a thread is inside.
LockWord == lock = 1 <=> Inside # {}

\* Which operation leads to which place.
Placed ==
  \A t \in Threads :
    /\ op[t] = "none" <=> pc[t] = "idle"
    /\ pc[t] \in {"copy", "count", "quit", "park"} \cup Waits => op[t] \in {"send", "recv"}
    /\ pc[t] = "signalBoth" => op[t] = "close"

\* What a thread has loaded and tested still holds when it uses it.
Loaded ==
  \A t \in Threads : pc[t] \in {"copy", "count"} =>
    /\ reg[t] = cnt
    /\ op[t] = "send" => cnt < RealCap /\ closed = 0
    /\ op[t] = "recv" => cnt > 0

\* What an operation between its two stores will add to the count.
Uncounted ==
  IF \E t \in Threads : At(t, "send", "count") THEN 1
  ELSE IF \E t \in Threads : At(t, "recv", "count") THEN -1
  ELSE 0

\* The tail is count slots after the head, once what is still owed is counted.
Ring == tail = Wrap(head + cnt + Uncounted)

\* The slot of the oldest value: a receiver that has advanced head has not
\* yet taken the value away, for the count still includes it.
Oldest ==
  IF \E t \in Threads : At(t, "recv", "count")
    THEN Wrap(head + RealCap - 1)
    ELSE head

\* The payload an operation moves is in the slot it moves it to or from.
Carried ==
  \A t \in Threads :
    /\ At(t, "send", "count") => buf[Wrap(head + cnt)] = val[t]
    /\ At(t, "recv", "count") => buf[Oldest] = val[t]

\* At most one thread is between chan_lock and chan_unlock, and the ring is
\* consistent at every step inside it.
ChannelInv == MutualExclusion /\ LockWord /\ Placed /\ Loaded /\ Ring /\ Carried

-----------------------------------------------------------------------------
(* The abstract channel                                                    *)

Contents == [i \in 1 .. cnt |-> buf[Wrap(Oldest + i - 1)]]

Decided(t) == pc[t] \in {"signal", "signalBoth", "unlock", "quit"}

Progress(kind, v) == [kind |-> kind, val |-> v]

CallOf(t) ==
  CASE op[t] = "none" -> Progress("none", Zero)
    [] op[t] = "send" -> IF pc[t] = "quit" THEN Progress("dropped", Zero)
                         ELSE IF Decided(t) THEN Progress("sent", Zero)
                         ELSE Progress("send", val[t])
    [] op[t] = "recv" -> IF Decided(t) THEN Progress("got", val[t])
                         ELSE Progress("recv", Zero)
    [] op[t] = "close" -> IF Decided(t) THEN Progress("done", Zero)
                          ELSE Progress("close", Zero)

Fifo == INSTANCE FifoChannel
          WITH Capacity <- RealCap,
               queue <- Contents,
               isClosed <- (closed = 1),
               call <- [t \in Threads |-> CallOf(t)]

\* Every operation takes effect in one atomic step between its call and its
\* return, on a bounded first-in first-out queue: no value is lost, duplicated,
\* reordered or accepted after the close.
Linearizable == Fifo!AbsSpec

\* A close ends every operation, however many threads sleep: the event wakes
\* one of them and forgets, the 10 ms timeout finds the others.
CloseReleases ==
  \A t \in Threads : (closed = 1 /\ op[t] # "none") ~> (op[t] = "none")

\* Two sends may leave one pending signal and two sleeping receivers: a
\* receiver returns all the same unless the others drain the channel.
DataReachesReceiver ==
  \A t \in Threads : (cnt > 0 /\ op[t] = "recv") ~> (cnt = 0 \/ op[t] = "none")

\* The same for a sender and a channel with room.
RoomReachesSender ==
  \A t \in Threads :
    (cnt < RealCap /\ op[t] = "send") ~> (cnt = RealCap \/ op[t] = "none")

\* Nobody sleeps through what happens on the other side of the channel.
SleepersWake == DataReachesReceiver /\ RoomReachesSender
=============================================================================
