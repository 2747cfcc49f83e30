---------------------------- MODULE LeaseHandler ----------------------------
(***************************************************************************)
(* The Handler of package dhcp4d (dhcp/dhcp4d/dhcp4d.go): the lease table  *)
(* of the DHCPv4 server.  Two kinds of goroutines work on it: the one that *)
(* serves packets (serveDHCP), and the ones of the web interface that set  *)
(* a hostname (SetHostname).                                               *)
(*                                                                         *)
(* The grain is the critical section of Handler.leasesMu.  serveDHCP takes *)
(* the mutex several times for one DHCPREQUEST and touches the lease that  *)
(* leaseHW returns between two of them, so a request is a sequence of      *)
(* steps (pc) and `editing' tells which SetHostname is inside its critical *)
(* section.  A DHCPDISCOVER changes nothing and depends on nothing that    *)
(* SetHostname writes: one step.                                           *)
(*                                                                         *)
(* An address is its offset from Handler.start; NoNum stands for anything  *)
(* that is not in the pool (0.0.0.0, a malformed option, the router's own  *)
(* address).  An Expiry of Permanent is Go's zero time.                    *)
(***************************************************************************)
EXTENDS Integers, FiniteSets

CONSTANTS
    HW,              \* hardware addresses
    Names,           \* hostnames; NoName is the empty one
    NoName,
    Torn,            \* what reading a string while it is written may yield
    Hostnames,       \* Hostnames[h]: what client h may send as option 12
    Overrides,       \* Overrides[h]: what the administrator may call h
    LeaseRange,      \* number of addresses of the pool
    LeasePeriod,     \* length of a lease
    NintendoPeriod,  \* the same for the devices of quirks.go
    Nintendo,        \* those devices
    Preloaded,       \* the tables SetLeases may be given
    NoLease,         \* a free address
    MaxTime          \* bound on the clock

Nums == 0 .. LeaseRange - 1
NoNum == -1
Permanent == 0

Lease == [num : Nums, hw : HW, host : Names, over : Names, expiry : Nat]

\* A table SetLeases may be given: what callLeasesLocked once published.
WellFormed(t) ==
    /\ t \in [Nums -> Lease \cup {NoLease}]
    /\ \A n \in Nums : t[n] # NoLease =>
         /\ t[n].num = n
         /\ t[n].host \in Hostnames[t[n].hw] \cup Overrides[t[n].hw]
         /\ t[n].over \in Overrides[t[n].hw]
    /\ \A m, n \in Nums :
         t[m] # NoLease /\ t[n] # NoLease /\ t[m].hw = t[n].hw => m = n

ASSUME PoolAssumption ==
    /\ LeaseRange \in Nat \ {0}
    /\ LeasePeriod \in Nat \ {0}
    /\ NintendoPeriod \in Nat \ {0}
    /\ MaxTime \in Nat \ {0}

ASSUME NamesAssumption ==
    /\ NoName \in Names
    /\ Torn \in Names
    /\ Nintendo \subseteq HW
    /\ Hostnames \in [HW -> SUBSET Names]
    /\ Overrides \in [HW -> SUBSET Names]
    /\ \A h \in HW : NoName \in Overrides[h] /\ Torn \in Overrides[h]

ASSUME TableAssumption ==
    /\ NoLease \notin Lease \cup HW
    /\ \A t \in Preloaded : WellFormed(t)

VARIABLES
    leasesHW,   \* index: the number last inserted for a client
    leasesIP,   \* the table: the lease on each number
    now,        \* the clock
    pc,         \* the step the packet goroutine is at
    lease,      \* the lease a DHCPREQUEST is about to insert
    old,        \* the number of the lease that leaseHW found for its client
    editing,    \* the SetHostname that holds leasesMu
    out         \* what the last step sent or returned

vars == <<leasesHW, leasesIP, now, pc, lease, old, editing, out>>
table == <<leasesHW, leasesIP>>
request == <<pc, lease, old>>

NoEdit == [num |-> NoNum, name |-> NoName]
NoOut == [type |-> "none"]
OutTypes == {"offer", "exhausted", "nak", "ack", "declined",
             "hostnameSet", "hostnameError", "hostnamePanic"}
Out(type, h, n) == [type |-> type, hw |-> h, num |-> n]

-----------------------------------------------------------------------------
(* Reading the table *)

\* Fault: a lease ends an instant early.
ExpiredEarly(l) == l.expiry # Permanent /\ l.expiry <= now

Expired(l) == l.expiry # Permanent /\ l.expiry < now

\* An address that findLease may pick, whoever asks.
Free(n) == leasesIP[n] = NoLease \/ Expired(leasesIP[n])

Available(n, h) == Free(n) \/ leasesIP[n].hw = h

\* Fault: a lease on the address is overlooked.
CanLeaseUnchecked(ip, h) == IF ip \in Nums THEN ip ELSE NoNum

CanLease(ip, h) == IF ip \in Nums /\ Available(ip, h) THEN ip ELSE NoNum

\* len(h.leasesIP)
TableSize == Cardinality({n \in Nums : leasesIP[n] # NoLease})

\* Fault: the random number is not tested.
FindLeaseUntested == IF TableSize < LeaseRange THEN Nums ELSE {NoNum}

\* A random number is tried first, then the least one: any free one may come.
FindLease ==
    IF TableSize < LeaseRange /\ \E n \in Nums : Free(n)
    THEN {n \in Nums : Free(n)}
    ELSE {NoNum}

\* Fault: the lease found may be another client's.
LeaseHWStale(h) ==
    IF leasesHW[h] # NoNum /\ leasesIP[leasesHW[h]] # NoLease THEN leasesHW[h] ELSE NoNum

\* The index of a client may point to a number that another one has by now.
LeaseHW(h) ==
    IF /\ leasesHW[h] # NoNum
       /\ leasesIP[leasesHW[h]] # NoLease
       /\ leasesIP[leasesHW[h]].hw = h
    THEN leasesHW[h] ELSE NoNum

PeriodFor(h) == IF h \in Nintendo THEN NintendoPeriod ELSE LeasePeriod

\* A string field of the old lease read without leasesMu.
RacyRead(value) == {value} \cup (IF editing.num = old THEN {Torn} ELSE {})

-----------------------------------------------------------------------------
NewTable ==
    /\ leasesHW = [h \in HW |-> NoNum]
    /\ leasesIP = [n \in Nums |-> NoLease]

Init ==
    /\ NewTable
    /\ now = 1
    /\ pc = "boot"
    /\ lease = NoLease
    /\ old = NoNum
    /\ editing = NoEdit
    /\ out = NoOut

\* SetLeases, which must come before Serve.
SetLeases ==
    /\ pc = "boot"
    /\ leasesIP' \in Preloaded
    /\ leasesHW' = [h \in HW |->
         LET mine == {n \in Nums : leasesIP'[n] # NoLease /\ leasesIP'[n].hw = h}
         IN  IF mine = {} THEN NoNum ELSE CHOOSE n \in mine : TRUE]
    /\ pc' = "idle"
    /\ out' = NoOut
    /\ UNCHANGED <<now, lease, old, editing>>

Serve ==
    /\ pc = "boot"
    /\ pc' = "idle"
    /\ out' = NoOut
    /\ UNCHANGED <<table, now, lease, old, editing>>

Tick ==
    /\ now < MaxTime
    /\ now' = now + 1
    /\ out' = NoOut
    /\ UNCHANGED <<table, request, editing>>

-----------------------------------------------------------------------------
(* The packet goroutine *)

\* What a DHCPDISCOVER of h for address ip is offered.
Candidates(h, ip) ==
    LET mine == LeaseHW(h)
    IN  IF mine # NoNum /\ ~Expired(leasesIP[mine])
        THEN {leasesIP[mine].num}
        ELSE IF CanLease(ip, h) # NoNum THEN {CanLease(ip, h)} ELSE FindLease

Discover(h, ip) ==
    /\ pc = "idle"
    /\ editing = NoEdit
    /\ \E n \in Candidates(h, ip) :
         out' = Out(IF n = NoNum THEN "exhausted" ELSE "offer", h, n)
    /\ UNCHANGED <<table, now, request, editing>>

RequestRefused(h, ip) ==
    /\ pc = "idle"
    /\ editing = NoEdit
    /\ CanLease(ip, h) = NoNum
    /\ out' = Out("nak", h, NoNum)
    /\ UNCHANGED <<table, now, request, editing>>

\* canLease grants the address; the new lease is built, not inserted.
RequestChecked(h, ip) ==
    /\ pc = "idle"
    /\ editing = NoEdit
    /\ CanLease(ip, h) # NoNum
    /\ \E name \in Hostnames[h] :
         lease' = [num |-> CanLease(ip, h), hw |-> h, host |-> name,
                   over |-> NoName, expiry |-> now + PeriodFor(h)]
    /\ pc' = "lookup"
    /\ out' = NoOut
    /\ UNCHANGED <<table, now, old, editing>>

\* Fault: the index is trusted.
RequestLookupStale ==
    /\ pc = "lookup"
    /\ editing = NoEdit
    /\ old' = leasesHW[lease.hw]
    /\ pc' = IF old' = NoNum THEN "insert" ELSE "retain"
    /\ out' = NoOut
    /\ UNCHANGED <<table, now, lease, editing>>

RequestLookup ==
    /\ pc = "lookup"
    /\ editing = NoEdit
    /\ old' = LeaseHW(lease.hw)
    /\ pc' = IF old' = NoNum THEN "insert" ELSE "retain"
    /\ out' = NoOut
    /\ UNCHANGED <<table, now, lease, editing>>

\* From here to RequestRelease the old lease is read without leasesMu.
RequestRetain ==
    /\ pc = "retain"
    /\ IF leasesIP[old].expiry = Permanent
       THEN \E name \in RacyRead(leasesIP[old].host) :
              lease' = [lease EXCEPT !.expiry = Permanent, !.host = name]
       ELSE lease' = lease
    /\ pc' = "override"
    /\ out' = NoOut
    /\ UNCHANGED <<table, now, old, editing>>

\* The test reads the length only; each of the two copies reads the string.
TestOverride ==
    /\ pc = "override"
    /\ pc' = IF leasesIP[old].over = NoName THEN "release" ELSE "copyHost"
    /\ out' = NoOut
    /\ UNCHANGED <<table, now, lease, old, editing>>

CopyHost ==
    /\ pc = "copyHost"
    /\ \E name \in RacyRead(leasesIP[old].over) :
         lease' = [lease EXCEPT !.host = name]
    /\ pc' = "copyOverride"
    /\ out' = NoOut
    /\ UNCHANGED <<table, now, old, editing>>

CopyOverride ==
    /\ pc = "copyOverride"
    /\ \E name \in RacyRead(leasesIP[old].over) :
         lease' = [lease EXCEPT !.over = name]
    /\ pc' = "release"
    /\ out' = NoOut
    /\ UNCHANGED <<table, now, old, editing>>

\* Fault: the old lease is not deleted.
RequestReleaseForgets ==
    /\ pc = "release"
    /\ editing = NoEdit
    /\ pc' = "insert"
    /\ out' = NoOut
    /\ UNCHANGED <<table, now, lease, old, editing>>

RequestRelease ==
    /\ pc = "release"
    /\ editing = NoEdit
    /\ leasesIP' = [leasesIP EXCEPT ![leasesIP[old].num] = NoLease]
    /\ pc' = "insert"
    /\ out' = NoOut
    /\ UNCHANGED <<leasesHW, now, lease, old, editing>>

\* The table is updated and DHCPACK sent.
RequestInsert ==
    /\ pc = "insert"
    /\ editing = NoEdit
    /\ leasesIP' = [leasesIP EXCEPT ![lease.num] = lease]
    /\ leasesHW' = [leasesHW EXCEPT ![lease.hw] = lease.num]
    /\ out' = Out("ack", lease.hw, lease.num)
    /\ pc' = "idle"
    /\ lease' = NoLease
    /\ old' = NoNum
    /\ UNCHANGED <<now, editing>>

\* Fault: the lease expired may be another client's.
DeclineUnchecked(h) ==
    /\ pc = "idle"
    /\ editing = NoEdit
    /\ leasesHW[h] # NoNum /\ leasesIP[leasesHW[h]] # NoLease
    /\ leasesIP' = [leasesIP EXCEPT ![leasesHW[h]].expiry = now]
    /\ out' = Out("declined", h, leasesHW[h])
    /\ UNCHANGED <<leasesHW, now, request, editing>>

\* expireLease: nothing happens to a client without a lease.
Decline(h) ==
    /\ pc = "idle"
    /\ editing = NoEdit
    /\ LeaseHW(h) # NoNum
    /\ leasesIP' = [leasesIP EXCEPT ![leasesHW[h]].expiry = now]
    /\ out' = Out("declined", h, leasesHW[h])
    /\ UNCHANGED <<leasesHW, now, request, editing>>

-----------------------------------------------------------------------------
(* The goroutines of the web interface.  A client without an index entry   *)
(* reads number 0 of the map, and the lease read there may be nil.         *)

EditNum(h) == IF leasesHW[h] = NoNum THEN 0 ELSE leasesHW[h]

SetHostnamePanics(h) ==
    /\ editing = NoEdit
    /\ leasesIP[EditNum(h)] = NoLease
    /\ out' = Out("hostnamePanic", h, NoNum)
    /\ UNCHANGED <<table, now, request, editing>>

SetHostnameFails(h) ==
    /\ editing = NoEdit
    /\ leasesIP[EditNum(h)] # NoLease
    /\ leasesIP[EditNum(h)].hw # h \/ Expired(leasesIP[EditNum(h)])
    /\ out' = Out("hostnameError", h, NoNum)
    /\ UNCHANGED <<table, now, request, editing>>

\* The first of the two assignments, Hostname.
SetHostnameBegin(h, name) ==
    /\ editing = NoEdit
    /\ leasesIP[EditNum(h)] # NoLease
    /\ leasesIP[EditNum(h)].hw = h
    /\ ~Expired(leasesIP[EditNum(h)])
    /\ leasesIP' = [leasesIP EXCEPT ![EditNum(h)].host = name]
    /\ editing' = [num |-> EditNum(h), name |-> name]
    /\ out' = NoOut
    /\ UNCHANGED <<leasesHW, now, request>>

\* The second, HostnameOverride, and the call of Leases.
SetHostnameEnd ==
    /\ editing # NoEdit
    /\ leasesIP' = [leasesIP EXCEPT ![editing.num].over = editing.name]
    /\ editing' = NoEdit
    /\ out' = Out("hostnameSet", leasesIP[editing.num].hw, editing.num)
    /\ UNCHANGED <<leasesHW, now, request>>

-----------------------------------------------------------------------------
ReqIPs == NoNum .. LeaseRange

\* The steps of a request that was granted, up to its DHCPACK.
RequestStep ==
    \/ RequestLookup
    \/ RequestRetain
    \/ TestOverride
    \/ CopyHost
    \/ CopyOverride
    \/ RequestRelease
    \/ RequestInsert

Next ==
    \/ SetLeases
    \/ Serve
    \/ Tick
    \/ \E h \in HW, ip \in ReqIPs : Discover(h, ip)
    \/ \E h \in HW, ip \in ReqIPs : RequestRefused(h, ip)
    \/ \E h \in HW, ip \in ReqIPs : RequestChecked(h, ip)
    \/ RequestStep
    \/ \E h \in HW : Decline(h)
    \/ \E h \in HW : SetHostnamePanics(h)
    \/ \E h \in HW : SetHostnameFails(h)
    \/ \E h \in HW : \E name \in Overrides[h] \ {Torn} : SetHostnameBegin(h, name)
    \/ SetHostnameEnd

Spec == Init /\ [][Next]_vars

-----------------------------------------------------------------------------
(* Correctness *)

Pcs == {"boot", "idle", "lookup", "retain", "override", "copyHost",
        "copyOverride", "release", "insert"}

\* Every variable has its type; only a request under way has a new lease.
TypeOK ==
    /\ leasesHW \in [HW -> Nums \cup {NoNum}]
    /\ leasesIP \in [Nums -> Lease \cup {NoLease}]
    /\ now \in Nat \ {0}
    /\ pc \in Pcs
    /\ lease \in Lease \cup {NoLease}
    /\ lease = NoLease <=> pc \in {"boot", "idle"}
    /\ old \in Nums \cup {NoNum}
    /\ editing \in [num : Nums, name : Names] \cup {NoEdit}
    /\ out \in [type : OutTypes, hw : HW, num : Nums \cup {NoNum}] \cup {NoOut}

\* The two maps agree: a lease sits at its own number and the index of its
\* client points to it.  leasesHW keeps numbers that other clients were given
\* since, so this is what the check of HardwareAddr in leaseHW, SetHostname
\* and expireLease rests on, and what makes a client's address unique.
IndexConsistent ==
    \A n \in Nums : leasesIP[n] # NoLease =>
        /\ leasesIP[n].num = n
        /\ leasesHW[leasesIP[n].hw] = n

\* What canLease found is still true when the lease is inserted, several
\* critical sections later (lines 326 to 359 of dhcp4d.go).
CheckStillValid == lease # NoLease => Available(lease.num, lease.hw)

\* The lease that serveDHCP reads without leasesMu (lines 341 to 353) stays in
\* the table, its client's own, until it is deleted; from then to the insertion
\* its client has none.  The lease a SetHostname edits stays in the table too.
OldLeaseKept ==
    /\ pc \in {"retain", "override", "copyHost", "copyOverride", "release"} =>
         old \in Nums /\ leasesIP[old] # NoLease /\ leasesIP[old].hw = lease.hw
    /\ pc = "insert" =>
         \A n \in Nums : leasesIP[n] # NoLease => leasesIP[n].hw # lease.hw
    /\ editing # NoEdit =>
         /\ leasesIP[editing.num] # NoLease
         /\ editing.name \in Overrides[leasesIP[editing.num].hw]
    /\ pc = "boot" => NewTable /\ editing = NoEdit

\* DHCPOFFER never names an address on which another client's lease runs.
OfferSafe == out # NoOut /\ out.type = "offer" => Available(out.num, out.hw)

PermanentClients ==
    {h \in HW : \E t \in Preloaded : \E n \in Nums :
        t[n] # NoLease /\ t[n].hw = h /\ t[n].expiry = Permanent}

OwnProperties(l) ==
    /\ l.over \in Overrides[l.hw]
    /\ l.host \in Hostnames[l.hw] \cup Overrides[l.hw]
    /\ l.expiry = Permanent => l.hw \in PermanentClients

\* A name, an override or a permanent lease is never inherited from the client
\* that had the address before (lines 340 to 349 copy from an old lease).
NoInheritance ==
    /\ \A n \in Nums : leasesIP[n] # NoLease => OwnProperties(leasesIP[n])
    /\ lease # NoLease => OwnProperties(lease)

\* The part of a lease that a hostname is not.
Core(l) == <<l.num, l.hw, l.expiry>>

\* The running lease on n loses neither its client nor its time in this step,
\* unless its client asks for that: by the request of that client that is under
\* way, or by a DHCPDECLINE.
KeptInStep(n) ==
    \/ leasesIP'[n] # NoLease /\ Core(leasesIP'[n]) = Core(leasesIP[n])
    \/ lease # NoLease /\ lease.hw = leasesIP[n].hw
    \/ leasesIP'[n] # NoLease /\ out' = Out("declined", leasesIP[n].hw, n)

\* While it runs, a lease is changed or dropped by its own client only, never by
\* the DHCPREQUEST or DHCPDECLINE of another one whose stale index entry, or
\* whose check some sections ago, led to the same number.
LeaseNotTaken ==
    [][\A n \in Nums :
         pc # "boot" /\ leasesIP[n] # NoLease /\ ~Expired(leasesIP[n])
            => KeptInStep(n)]_vars

\* The handler keeps the promise of LeaseAllocator.
Owner == [n \in Nums |-> IF leasesIP[n] = NoLease THEN NoLease ELSE leasesIP[n].hw]
Expiry == [n \in Nums |-> IF leasesIP[n] = NoLease THEN Permanent ELSE leasesIP[n].expiry]

Alloc == INSTANCE LeaseAllocator
         WITH owner <- Owner, expiry <- Expiry, Nobody <- NoLease

ImplementsAllocator == Alloc!Spec

-----------------------------------------------------------------------------
(* What comments and tests say of the handler, and the code does not do *)

\* "no more leases available", "no free leases" (lines 311 and 312): a client
\* goes without an offer only if every address is under a lease that runs.
ExhaustedOnlyWhenFull ==
    out # NoOut /\ out.type = "exhausted" => \A n \in Nums : ~Free(n)
=============================================================================
