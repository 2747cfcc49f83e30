---------------------------- MODULE MCDhcp4Client ----------------------------
(* Dhcp4Client with a provider that changes once. *)
EXTENDS Dhcp4Client

\* One server, which is given another address to hand out.
Renumbered == {[id |-> "s", ip |-> "p"], [id |-> "s", ip |-> "q"]}
=============================================================================
