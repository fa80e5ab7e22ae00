------------------------ MODULE MCReleasePublishing ------------------------
(***************************************************************************)
(* Small instances of ReleasePublishing.                                   *)
(***************************************************************************)
EXTENDS ReleasePublishing, TLC

Provisioned(n) == [sequence |-> n, testing |-> FALSE]
Fixture        == [sequence |-> 1, testing |-> TRUE]

SomeTrust == {Provisioned(1), Provisioned(2), Fixture}

Allow(n, e, c, f) == [prepares |-> n, edits |-> e, packages |-> c, faults |-> f]

SmallBudgets == {Allow(2, 0, 2, 0), Allow(2, 1, 1, 0), Allow(1, 0, 1, 1), Allow(0, 1, 2, 1), Allow(0, 0, 1, 2)}

Interchangeable == Permutations(Tree) \cup Permutations(Publisher) \cup Permutations(Output)
=============================================================================
