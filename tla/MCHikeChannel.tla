--------------------------- MODULE MCHikeChannel ---------------------------
(***************************************************************************)
(* Three threads on a channel of two slots, with one payload and a fixed   *)
(* part for each thread: two may sleep as receivers, two as senders, and   *)
(* one of them closes.                                                     *)
(***************************************************************************)
EXTENDS HikeChannel, TLC

CONSTANTS t1, t2, t3, v1

Three == {t1, t2, t3}
One == {v1}

Parts == (t1 :> {"send", "close"}) @@ (t2 :> {"recv"}) @@ (t3 :> {"send", "recv"})
=============================================================================
