------------------------------ MODULE MCLease ------------------------------
(***************************************************************************)
(* Two managers of kuidapps (an old pod and its replacement) and a         *)
(* controller of another program, whose clock is ahead of one of theirs.   *)
(***************************************************************************)
EXTENDS Lease

CONSTANTS k1, k2, o1, kuidapps, other

MCProcesses == {k1, k2, o1}

MCIdentity == [p \in MCProcesses |-> IF p = o1 THEN other ELSE kuidapps]

MCSkew == [p \in MCProcesses |-> IF p = k1 THEN 0 ELSE 1]

=============================================================================
