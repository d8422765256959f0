---------------------------- MODULE MCLockOrder ----------------------------
(* The broker's locks with every task running; see the .cfg files.         *)
EXTENDS LockOrder

EveryTask == AllTasks
=============================================================================
