-------------------------- MODULE MCHikeEventLoop --------------------------
(***************************************************************************)
(* Two workers and the main thread make three calls on a queue with room   *)
(* for two closures, before, in and after up to two runs of the loop.  The *)
(* main thread may make a fourth call if there is only one run: from a     *)
(* closure, while the queue is full.                                       *)
(***************************************************************************)
EXTENDS HikeEventLoop

CONSTANTS w1, w2

Both == {w1, w2}

CallsOf(w) == {c \in 1 .. made : caller[c] = w}

\* A history stands for the one in which the workers have changed places:
\* w1 makes the first call of the two.
W1First == \A d \in CallsOf(w2) : \E c \in CallsOf(w1) : c < d

\* Bounds the programs, not what becomes of the calls they have made.
Explored == W1First /\ (made = 4 => runs < 2 /\ caller[4] = Main)
=============================================================================
