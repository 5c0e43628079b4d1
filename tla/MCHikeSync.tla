---------------------------- MODULE MCHikeSync ----------------------------
(* Three workers; the passing configuration updates in lock blocks, which  *)
(* some leave by a return, the other one without a lock.                   *)
EXTENDS HikeSync
=============================================================================
