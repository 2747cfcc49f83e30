---------------------------- MODULE Dhcp4Server ----------------------------
(***************************************************************************)
(* The process cmd/dhcp4d around the handler, its clients and the network  *)
(* between them.  Every insertion and every hostname is handed to the      *)
(* Leases callback (cmd/dhcp4d/dhcp4d.go), which writes leases.json and    *)
(* sets the gauge; a failed write goes to srv.run and ends the process,    *)
(* and the supervisor of the router starts it again, with an empty table:  *)
(* newSrv never calls SetLeases.                                           *)
(*                                                                         *)
(* A client counts its lease from the request it sent, keeps its address   *)
(* while it renews it, and has none when it asks for another, after a      *)
(* DHCPNAK and after a DHCPDECLINE.  Messages of one client are not        *)
(* reordered; a DHCPACK may be delayed or lost.                            *)
(***************************************************************************)
EXTENDS LeaseHandler

CONSTANT MaxRestarts    \* bound on the restarts of the process

ASSUME RestartsAssumption == MaxRestarts \in Nat

VARIABLES
    held,      \* held[h]: the address client h uses, until when, and from
               \* which run of the process it has it
    acks,      \* acks[h]: a DHCPACK on its way to h
    disk,      \* leases.json
    gauge,     \* non_expired_leases
    fatal,     \* an error has reached srv.run
    restarts   \* how often the process was started again

process == <<disk, gauge, fatal, restarts>>
clients == <<held, acks>>
serverVars == <<vars, process, clients>>

NoHold == [num |-> NoNum, until |-> 0, run |-> 0]

Holds(h, n) == held[h].num = n /\ now <= held[h].until

\* updateNonExpired of a table.
NonExpired(t) == Cardinality({n \in Nums : t[n] # NoLease /\ ~Expired(t[n])})

ServerInit ==
    /\ Init
    /\ held = [h \in HW |-> NoHold]
    /\ acks = [h \in HW |-> NoHold]
    /\ disk = [n \in Nums |-> NoLease]
    /\ gauge = 0
    /\ fatal = FALSE
    /\ restarts = 0

-----------------------------------------------------------------------------
(* The Leases callback, called with leasesMu held *)

\* Fault: the callback is called before the insertion.
WrittenEarly ==
    /\ disk' = leasesIP
    /\ gauge' = NonExpired(leasesIP)
    /\ UNCHANGED <<fatal, restarts>>

Written ==
    /\ disk' = leasesIP'
    /\ gauge' = NonExpired(leasesIP')
    /\ UNCHANGED <<fatal, restarts>>

\* The goroutine waits in errs <- err until run takes the error; the rest of
\* the callback and the reply race with log.Fatal.
WriteFailed ==
    /\ restarts < MaxRestarts
    /\ fatal' = TRUE
    /\ gauge' \in {gauge, NonExpired(leasesIP')}
    /\ UNCHANGED <<disk, restarts>>

-----------------------------------------------------------------------------
(* Packets *)

\* What h held, and an answer to an earlier message of h, are void.
Forget(h) ==
    /\ held' = [held EXCEPT ![h] = NoHold]
    /\ acks' = [acks EXCEPT ![h] = NoHold]

ServeDiscover(h, ip) == Discover(h, ip) /\ Forget(h) /\ UNCHANGED process

ServeRefused(h, ip) == RequestRefused(h, ip) /\ Forget(h) /\ UNCHANGED process

\* A renewal, or a request for an address that h does not have.
ServeRequest(h, ip) ==
    /\ RequestChecked(h, ip)
    /\ held' = IF held[h].num = ip THEN held ELSE [held EXCEPT ![h] = NoHold]
    /\ acks' = [acks EXCEPT ![h] = NoHold]
    /\ UNCHANGED process

ServeStep ==
    /\ RequestStep
    /\ pc # "insert"
    /\ UNCHANGED <<process, clients>>

Ack == [num |-> lease.num, until |-> lease.expiry, run |-> restarts]

ServeInsert ==
    /\ RequestInsert
    /\ \/ Written /\ acks' = [acks EXCEPT ![lease.hw] = Ack]
       \/ WriteFailed /\ acks' \in {acks, [acks EXCEPT ![lease.hw] = Ack]}
    /\ UNCHANGED held

ServeDecline(h) == Decline(h) /\ Forget(h) /\ UNCHANGED process

Receive(h) ==
    /\ acks[h] # NoHold
    /\ held' = [held EXCEPT ![h] = acks[h]]
    /\ acks' = [acks EXCEPT ![h] = NoHold]
    /\ UNCHANGED <<vars, process>>

LoseAck(h) ==
    /\ acks[h] # NoHold
    /\ acks' = [acks EXCEPT ![h] = NoHold]
    /\ UNCHANGED <<vars, process, held>>

-----------------------------------------------------------------------------
(* The web interface and the life of the process *)

SetHostname ==
    \/ \E h \in HW :
         /\ \/ SetHostnamePanics(h)
            \/ SetHostnameFails(h)
            \/ \E name \in Overrides[h] \ {NoName, Torn} : SetHostnameBegin(h, name)
         /\ UNCHANGED process
    \/ SetHostnameEnd /\ (Written \/ WriteFailed)

Start == Serve /\ UNCHANGED <<process, clients>>

Time == Tick /\ UNCHANGED <<process, clients>>

\* main has ended in log.Fatal, or the router lost power.
Restart ==
    /\ restarts < MaxRestarts
    /\ restarts' = restarts + 1
    /\ fatal' = FALSE
    /\ gauge' = 0
    /\ leasesHW' = [h \in HW |-> NoNum]
    /\ leasesIP' = [n \in Nums |-> NoLease]
    /\ pc' = "boot"
    /\ lease' = NoLease
    /\ old' = NoNum
    /\ editing' = NoEdit
    /\ out' = NoOut
    /\ UNCHANGED <<now, disk, clients>>

\* A step in which the handler acts, and the process with it.
HandlerStep ==
    \/ Start
    \/ Time
    \/ \E h \in HW, ip \in ReqIPs : ServeDiscover(h, ip)
    \/ \E h \in HW, ip \in ReqIPs : ServeRefused(h, ip)
    \/ \E h \in HW, ip \in ReqIPs : ServeRequest(h, ip)
    \/ ServeStep
    \/ ServeInsert
    \/ \E h \in HW : ServeDecline(h)
    \/ SetHostname /\ UNCHANGED clients

ServerNext ==
    \/ HandlerStep
    \/ \E h \in HW : Receive(h)
    \/ \E h \in HW : LoseAck(h)
    \/ Restart

ServerSpec == ServerInit /\ [][ServerNext]_serverVars

-----------------------------------------------------------------------------
(* Correctness *)

Hold == [num : Nums, until : Nat, run : Nat]

\* Every variable of the process and of the clients has its type.
ServerTypeOK ==
    /\ TypeOK
    /\ held \in [HW -> Hold \cup {NoHold}]
    /\ acks \in [HW -> Hold \cup {NoHold}]
    /\ disk \in [Nums -> Lease \cup {NoLease}]
    /\ gauge \in 0 .. LeaseRange
    /\ fatal \in BOOLEAN
    /\ restarts \in 0 .. MaxRestarts

\* Two clients never use one address by the word of one run of the process,
\* whatever is lost, delayed, renewed, declined or renamed meanwhile.
NoTwoHolders ==
    \A g, h \in HW : \A n \in Nums :
        Holds(g, n) /\ Holds(h, n) /\ held[g].run = held[h].run => g = h

\* An address in use is recorded for its user, for as long as it uses it, except
\* between the two critical sections of its own renewal (lines 352 to 361).
HolderRecorded ==
    \A h \in HW, n \in Nums :
        Holds(h, n) /\ held[h].run = restarts =>
            \/ /\ leasesIP[n] # NoLease /\ leasesIP[n].hw = h
               /\ leasesIP[n].expiry = Permanent \/ held[h].until <= leasesIP[n].expiry
            \/ pc = "insert" /\ lease.hw = h /\ lease.num = n /\ leasesIP[n] = NoLease

\* It is in leases.json too, unless the process is about to end or a hostname
\* was set in that same gap.
HolderOnDisk ==
    ~fatal => \A h \in HW, n \in Nums :
        Holds(h, n) /\ held[h].run = restarts =>
            \/ disk[n] # NoLease /\ disk[n].hw = h
            \/ pc = "insert" /\ lease.hw = h

\* The gauge, set by callbacks only, never shows fewer leases than have time
\* left: what happens without a callback (the clock, a DHCPDECLINE, the gap of
\* a renewal) can only make it too high.
GaugeNotLow ==
    ~fatal => gauge >= Cardinality({n \in Nums : leasesIP[n] # NoLease
                  /\ (leasesIP[n].expiry = Permanent \/ leasesIP[n].expiry > now)})
=============================================================================
