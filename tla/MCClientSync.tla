---------------------------- MODULE MCClientSync ----------------------------
(* The two tasks of one client that fetch, on a small instance.              *)
EXTENDS ClientSync

BothTasks == {"scheduler", "recovery"}
=============================================================================
