--------------------------- MODULE LeaseAllocator ---------------------------
(***************************************************************************)
(* What the DHCPv4 server promises its clients about the addresses of its  *)
(* pool, whatever the goroutines of its implementation do: an address goes *)
(* to a client only while nobody else holds an unexpired lease on it, a    *)
(* client has at most one address, and a lease ends only by the clock or   *)
(* by an act of the client that holds it.  LeaseHandler implements this    *)
(* module.                                                                 *)
(***************************************************************************)
EXTENDS Integers

CONSTANTS HW,       \* the hardware addresses of the clients
          Nums,     \* the addresses of the pool, numbered
          Nobody    \* the owner of a free address, not a client

VARIABLES owner,    \* owner[n]: the client address n is leased to, or Nobody
          expiry,   \* expiry[n]: when that lease ends; 0 for a lease that never does
          now       \* the clock

vars == <<owner, expiry, now>>

Lapsed(n) == expiry[n] # 0 /\ expiry[n] < now

\* Client h may be given n: it is free, h's own, or its lease has lapsed.
MayHave(h, n) == owner[n] \in {Nobody, h} \/ Lapsed(n)

OneAddressEach(o) ==
    \A m, n \in Nums : o[m] = o[n] /\ o[m] # Nobody => m = n

Init ==
    /\ owner \in [Nums -> HW \cup {Nobody}]
    /\ OneAddressEach(owner)
    /\ expiry \in [Nums -> Nat]
    /\ now \in Nat

Tick ==
    /\ now' \in Nat
    /\ now' > now
    /\ UNCHANGED <<owner, expiry>>

\* The table is replaced before any client is served.
Load ==
    /\ \A n \in Nums : owner[n] = Nobody
    /\ owner' \in [Nums -> HW \cup {Nobody}]
    /\ OneAddressEach(owner')
    /\ expiry' \in [Nums -> Nat]
    /\ UNCHANGED now

\* Client h gives up the address it has, to take another or the same again.
Release(h) ==
    /\ owner' = [n \in Nums |-> IF owner[n] = h THEN Nobody ELSE owner[n]]
    /\ expiry' \in [Nums -> Nat]
    /\ \A n \in Nums : owner[n] # h => expiry'[n] = expiry[n]
    /\ UNCHANGED now

\* Client h gets address n for some time, and keeps no other.
Grant(h, n) ==
    /\ MayHave(h, n)
    /\ \A m \in Nums : owner[m] = h => m = n
    /\ owner' = [owner EXCEPT ![n] = h]
    /\ expiry' \in [Nums -> Nat]
    /\ \A m \in Nums \ {n} : expiry'[m] = expiry[m]
    /\ UNCHANGED now

\* Client h declines address n: its lease ends now.
Decline(h, n) ==
    /\ owner[n] = h
    /\ expiry' = [expiry EXCEPT ![n] = now]
    /\ UNCHANGED <<owner, now>>

Next ==
    \/ Tick
    \/ Load
    \/ \E h \in HW : Release(h)
    \/ \E h \in HW, n \in Nums : Grant(h, n)
    \/ \E h \in HW, n \in Nums : Decline(h, n)

Spec == Init /\ [][Next]_vars

-----------------------------------------------------------------------------
\* A client is the owner of at most one address of the pool.
AtMostOneAddress == OneAddressEach(owner)

=============================================================================
