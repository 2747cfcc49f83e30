---------------------------- MODULE MCNetconfigd ----------------------------
(* Netconfigd with leases that differ in address, router or mask. *)
EXTENDS Netconfigd

Lease(a, r, m) == [addr |-> a, router |-> r, mask |-> m]

\* The address changes with the router and the subnet, or within its subnet, or the
\* router alone; one lease comes without mask.
Some == {Lease("a", "r", TRUE), Lease("b", "q", TRUE), Lease("c", "r", TRUE),
         Lease("a", "q", TRUE), Lease("d", "r", FALSE)}

SubnetOf == [a |-> "x", b |-> "y", c |-> "x", d |-> "x"]
=============================================================================
