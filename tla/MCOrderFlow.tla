---------------------------- MODULE MCOrderFlow ----------------------------
(* The quotes of one key on small instances; see the .cfg files.           *)
EXTENDS OrderFlow
=============================================================================
