------------------------------ MODULE MCCondVar ------------------------------
(* The condition variable and its lock for TLC.  INT_MIN is so small that   *)
(* the lock refuses a third thread.                                         *)
EXTENDS CondVar

MCIntMin == -1
===============================================================================
