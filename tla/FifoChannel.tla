---------------------------- MODULE FifoChannel ----------------------------
(***************************************************************************)
(* What a Hike channel promises, independent of its implementation: a      *)
(* bounded first-in first-out queue that every operation changes in one    *)
(* atomic step taken between its call and its return (linearizability).    *)
(* concurrency.md ("Channels") describes the promise; the operations and   *)
(* their results are those of __hike_chan_send, _recv and _close.          *)
(***************************************************************************)
EXTENDS Integers, Sequences

CONSTANTS
  Threads,   \* the workers that share the channel
  Values,    \* the payloads
  Zero,      \* the all-zero payload a closed and drained channel yields
  Capacity   \* the number of slots

VARIABLES
  queue,     \* the accepted values not yet received, oldest first
  isClosed,  \* the channel has been closed
  call       \* [Threads -> the operation in progress and, once decided, its result]

absVars == <<queue, isClosed, call>>

Calls == [kind : {"none", "close", "recv", "sent", "dropped", "done"}, val : {Zero}]
           \cup [kind : {"send"}, val : Values]
           \cup [kind : {"got"}, val : Values \cup {Zero}]

Call(kind, val) == [kind |-> kind, val |-> val]

Idle == Call("none", Zero)

AbsTypeOK ==
  /\ queue \in Seq(Values)
  /\ Len(queue) <= Capacity
  /\ isClosed \in BOOLEAN
  /\ call \in [Threads -> Calls]

AbsInit ==
  /\ queue = << >>
  /\ isClosed = FALSE
  /\ call = [t \in Threads |-> Idle]

Becomes(t, c) == call' = [call EXCEPT ![t] = c]

Invoke(t) ==
  /\ call[t] = Idle
  /\ \/ \E v \in Values : Becomes(t, Call("send", v))
     \/ Becomes(t, Call("recv", Zero))
     \/ Becomes(t, Call("close", Zero))
  /\ UNCHANGED <<queue, isClosed>>

\* A send takes effect only while there is room and the channel is open.
Accept(t) ==
  /\ call[t].kind = "send"
  /\ ~isClosed
  /\ Len(queue) < Capacity
  /\ queue' = Append(queue, call[t].val)
  /\ Becomes(t, Call("sent", Zero))
  /\ UNCHANGED isClosed

\* A send on a closed channel returns without an effect.
Drop(t) ==
  /\ call[t].kind = "send"
  /\ isClosed
  /\ Becomes(t, Call("dropped", Zero))
  /\ UNCHANGED <<queue, isClosed>>

\* A receive takes the oldest value; closing does not lose what is queued.
Take(t) ==
  /\ call[t].kind = "recv"
  /\ queue # << >>
  /\ queue' = Tail(queue)
  /\ Becomes(t, Call("got", Head(queue)))
  /\ UNCHANGED isClosed

\* Only a closed and drained channel yields the zero value.
TakeZero(t) ==
  /\ call[t].kind = "recv"
  /\ queue = << >>
  /\ isClosed
  /\ Becomes(t, Call("got", Zero))
  /\ UNCHANGED <<queue, isClosed>>

Shut(t) ==
  /\ call[t].kind = "close"
  /\ isClosed' = TRUE
  /\ Becomes(t, Call("done", Zero))
  /\ UNCHANGED queue

Return(t) ==
  /\ call[t].kind \in {"sent", "dropped", "got", "done"}
  /\ Becomes(t, Idle)
  /\ UNCHANGED <<queue, isClosed>>

AbsNext ==
  \E t \in Threads :
    \/ Invoke(t)
    \/ Accept(t)
    \/ Drop(t)
    \/ Take(t)
    \/ TakeZero(t)
    \/ Shut(t)
    \/ Return(t)

AbsSpec == AbsInit /\ [][AbsNext]_absVars
=============================================================================
