---------------------------- MODULE MCAppRollout ----------------------------
(***************************************************************************)
(* Small instances of AppRollout: two commands with a session and a fault; *)
(* three commands, which is what a rollback takes; and one command with a  *)
(* session and two faults, a lost acknowledgement and a restart.           *)
(***************************************************************************)
EXTENDS AppRollout, TLC

Allow(c, s, f) == [commands |-> c, starts |-> s, faults |-> f]

SmallBudgets == {Allow(2, 1, 1), Allow(3, 0, 0), Allow(1, 1, 2)}
=============================================================================
