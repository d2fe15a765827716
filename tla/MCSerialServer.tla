---------------------------- MODULE MCSerialServer ----------------------------
(* The serial server for TLC. *)
EXTENDS SerialServer
===============================================================================
