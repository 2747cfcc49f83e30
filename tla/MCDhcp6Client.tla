---------------------------- MODULE MCDhcp6Client ----------------------------
(* Dhcp6Client with two servers and leases with and without a pause. *)
EXTENDS Dhcp6Client

Prefix == [prefixes |-> {"p"}, pause |-> TRUE]
Empty == [prefixes |-> {}, pause |-> FALSE]

Two == {Prefix, Empty}
=============================================================================
