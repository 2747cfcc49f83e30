--------------------------- MODULE MCLeaseHandler ---------------------------
(* LeaseHandler with three clients on a pool of two addresses. *)
EXTENDS LeaseHandler, TLC

CONSTANTS a, b, c

MCNames == {"", "torn", "over"}
MCHostnames == [h \in HW |-> {""}]
MCOverrides == [h \in HW |-> {"", "torn"} \cup (IF h = c THEN {} ELSE {"over"})]

Client(n, h, name, e) == [num |-> n, hw |-> h, host |-> name, over |-> name, expiry |-> e]

\* b has a permanent lease; that of c ran out while the router was down.
MCPreloaded == {(0 :> Client(0, c, "", 1)) @@ (1 :> Client(1, b, "over", Permanent))}
=============================================================================
