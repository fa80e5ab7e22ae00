-------------------------- MODULE MCVisualConsole --------------------------
(***************************************************************************)
(* Small instances of VisualConsole.                                       *)
(***************************************************************************)
EXTENDS VisualConsole

Mix(starts, given, changes, mishaps) ==
    [sessions |-> starts, inputs |-> given, changes |-> changes, faults |-> mishaps]

SmallMixtures == {Mix(1, 2, 0, 1), Mix(2, 1, 0, 1), Mix(1, 1, 1, 1), Mix(2, 0, 1, 1)}

OneInput   == {Mix(1, 1, 0, 0)}
NewSession == {Mix(2, 1, 0, 0)}
=============================================================================
