---------------------------- MODULE MCHikeTask ----------------------------
(* Two tasks, started by the main thread or one by the other, each awaited *)
(* up to twice.                                                            *)
EXTENDS HikeTask
=============================================================================
