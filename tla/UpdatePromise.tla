--------------------------- MODULE UpdatePromise ---------------------------
(***************************************************************************)
(* What the platform promises the owner of a device about its updates: one *)
(* at a time, each request ends exactly once, and the recorded sequence    *)
(* only grows, in the very step that ends an update as installed, or while *)
(* no update is pending.                                                   *)
(***************************************************************************)
EXTENDS Naturals

CONSTANT Request

VARIABLES phase,     \* what became of each request
          installed  \* sequence of the recorded image, 0 before the first

vars == <<phase, installed>>

Pending == {q \in Request : phase[q] \in {"waiting", "claimed"}}

Init == /\ phase = [q \in Request |-> "none"]
        /\ installed = 0

\* A new request may displace a waiting one that has lapsed, never a claimed
\* one.
Ask(q) ==
    /\ phase[q] = "none"
    /\ \A p \in Pending : phase[p] = "waiting"
    /\ phase' = [p \in Request |-> IF p = q THEN "waiting"
                                   ELSE IF p \in Pending THEN "dropped"
                                   ELSE phase[p]]
    /\ UNCHANGED installed

Drop(q) == /\ phase[q] = "waiting"
           /\ phase' = [phase EXCEPT ![q] = "dropped"]
           /\ UNCHANGED installed

Claim(q) == /\ phase[q] = "waiting"
            /\ phase' = [phase EXCEPT ![q] = "claimed"]
            /\ UNCHANGED installed

\* The device gives up, before or after its claim.
Fail(q) == /\ phase[q] \in {"waiting", "claimed"}
           /\ phase' = [phase EXCEPT ![q] = "failed"]
           /\ UNCHANGED installed

Install(q) == /\ phase[q] = "claimed"
              /\ phase' = [phase EXCEPT ![q] = "installed"]
              /\ installed' \in {n \in Nat : n > installed}

\* First identification, or a reviewed local recovery.
Record == /\ Pending = {}
          /\ installed' \in {n \in Nat : n > installed}
          /\ UNCHANGED phase

Next == \/ \E q \in Request : Ask(q) \/ Drop(q) \/ Claim(q) \/ Fail(q) \/ Install(q)
        \/ Record

Spec == Init /\ [][Next]_vars
=============================================================================
