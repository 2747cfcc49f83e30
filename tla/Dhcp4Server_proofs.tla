------------------------ MODULE Dhcp4Server_proofs ------------------------
(***************************************************************************)
(* Proofs about the lease table, for every pool, set of clients and clock, *)
(* and about the process around it: that one run of the DHCPv4 server      *)
(* never lets two clients use an address at the same time, with any number *)
(* of clients, addresses, restarts, and lost or delayed DHCPACKs.          *)
(***************************************************************************)
EXTENDS Dhcp4Server, FiniteSetTheorems, TLAPS

-----------------------------------------------------------------------------
(* LeaseHandler: the table and the request under way *)

IInv ==
    /\ TypeOK
    /\ IndexConsistent
    /\ CheckStillValid
    /\ OldLeaseKept
    /\ NoInheritance

USE DEF Nums, NoNum, Permanent, NoEdit, NoOut, OutTypes, Out

LEMMA InitIInv == Init => IInv
  BY PoolAssumption, NamesAssumption, TableAssumption
  DEF Init, IInv, TypeOK, IndexConsistent, CheckStillValid, OldLeaseKept,
      NoInheritance, NewTable, Pcs

\* A field of a lease may be replaced by another value of its type.
LEMMA LeaseUpdate ==
  ASSUME NEW l \in Lease, NEW name \in Names, NEW e \in Nat
  PROVE  /\ [l EXCEPT !.host = name] \in Lease
         /\ [l EXCEPT !.over = name] \in Lease
         /\ [l EXCEPT !.expiry = e] \in Lease
         /\ [l EXCEPT !.expiry = e, !.host = name] \in Lease
  BY DEF Lease

\* The parts of a lease, and that a lease is not a free address.
LEMMA LeaseParts ==
  ASSUME NEW l \in Lease
  PROVE  /\ l # NoLease
         /\ l.num \in Nums /\ l.hw \in HW /\ l.host \in Names
         /\ l.over \in Names /\ l.expiry \in Nat
  BY TableAssumption DEF Lease

\* A replaced field leaves the others as they are.
LEMMA UpdatedParts ==
  ASSUME NEW l \in Lease, NEW x
  PROVE  /\ [l EXCEPT !.host = x].num = l.num /\ [l EXCEPT !.host = x].hw = l.hw
         /\ [l EXCEPT !.host = x].over = l.over /\ [l EXCEPT !.host = x].expiry = l.expiry
         /\ [l EXCEPT !.host = x].host = x
         /\ [l EXCEPT !.over = x].num = l.num /\ [l EXCEPT !.over = x].hw = l.hw
         /\ [l EXCEPT !.over = x].host = l.host /\ [l EXCEPT !.over = x].expiry = l.expiry
         /\ [l EXCEPT !.over = x].over = x
  BY DEF Lease

LEMMA StepTypeOK == IInv /\ [Next]_vars => TypeOK'
<1> SUFFICES ASSUME IInv, [Next]_vars PROVE TypeOK'
  OBVIOUS
<1> USE PoolAssumption, NamesAssumption, TableAssumption DEF IInv, TypeOK
<1>1. CASE SetLeases
  BY <1>1 DEF SetLeases, WellFormed, Pcs
<1>2. CASE Serve
  BY <1>2 DEF Serve, table, Pcs
<1>3. CASE Tick
  BY <1>3 DEF Tick, table, request
<1>4. ASSUME NEW h \in HW, NEW ip \in ReqIPs, Discover(h, ip) PROVE TypeOK'
  BY <1>4, LeaseParts DEF Discover, table, request, Candidates, FindLease, CanLease, LeaseHW
<1>5. ASSUME NEW h \in HW, NEW ip \in ReqIPs, RequestRefused(h, ip) PROVE TypeOK'
  BY <1>5 DEF RequestRefused, table, request
<1>6. ASSUME NEW h \in HW, NEW ip \in ReqIPs, RequestChecked(h, ip) PROVE TypeOK'
  <2>1. CanLease(ip, h) \in Nums /\ PeriodFor(h) \in Nat
    BY <1>6 DEF RequestChecked, CanLease, PeriodFor
  <2>2. lease' \in Lease
    BY <1>6, <2>1 DEF RequestChecked, Lease
  <2> QED
    BY <1>6, <2>2, LeaseParts DEF RequestChecked, table, Pcs
<1>7. CASE RequestStep
  <2>1. CASE RequestLookup
    BY <2>1, LeaseParts DEF RequestLookup, table, LeaseHW, Pcs
  <2>2. CASE RequestRetain
    <3>1. leasesIP[old] \in Lease /\ leasesIP[old] # NoLease /\ lease \in Lease
      BY <2>2 DEF RequestRetain, OldLeaseKept
    <3>2. RacyRead(leasesIP[old].host) \subseteq Names
      BY <3>1, LeaseParts DEF RacyRead
    <3>3. lease' \in Lease
      <4>1. CASE leasesIP[old].expiry = Permanent
        <5>1. PICK name \in RacyRead(leasesIP[old].host) :
                lease' = [lease EXCEPT !.expiry = Permanent, !.host = name]
          BY <2>2, <4>1 DEF RequestRetain
        <5> QED
          BY <3>1, <3>2, <5>1 DEF Lease
      <4>2. CASE leasesIP[old].expiry # Permanent
        BY <2>2, <3>1, <4>2 DEF RequestRetain
      <4> QED
        BY <4>1, <4>2
    <3> QED
      BY <2>2, <3>3, LeaseParts DEF RequestRetain, table, Pcs
  <2>3. CASE TestOverride
    BY <2>3 DEF TestOverride, table, Pcs
  <2>4. CASE CopyHost
    <3>1. leasesIP[old] \in Lease /\ leasesIP[old] # NoLease /\ lease \in Lease
      BY <2>4 DEF CopyHost, OldLeaseKept
    <3>2. RacyRead(leasesIP[old].over) \subseteq Names
      BY <3>1, LeaseParts DEF RacyRead
    <3>3. lease' \in Lease
      <4>1. PICK name \in RacyRead(leasesIP[old].over) : lease' = [lease EXCEPT !.host = name]
        BY <2>4 DEF CopyHost
      <4> QED
        BY <3>1, <3>2, <4>1, LeaseUpdate
    <3> QED
      BY <2>4, <3>3, LeaseParts DEF CopyHost, table, Pcs
  <2>5. CASE CopyOverride
    <3>1. leasesIP[old] \in Lease /\ leasesIP[old] # NoLease /\ lease \in Lease
      BY <2>5 DEF CopyOverride, OldLeaseKept
    <3>2. RacyRead(leasesIP[old].over) \subseteq Names
      BY <3>1, LeaseParts DEF RacyRead
    <3>3. lease' \in Lease
      <4>1. PICK name \in RacyRead(leasesIP[old].over) : lease' = [lease EXCEPT !.over = name]
        BY <2>5 DEF CopyOverride
      <4> QED
        BY <3>1, <3>2, <4>1, LeaseUpdate
    <3> QED
      BY <2>5, <3>3, LeaseParts DEF CopyOverride, table, Pcs
  <2>6. CASE RequestRelease
    BY <2>6 DEF RequestRelease, Pcs
  <2>7. CASE RequestInsert
    <3>1. lease \in Lease
      BY <2>7 DEF RequestInsert
    <3> QED
      BY <2>7, <3>1, LeaseParts DEF RequestInsert, Pcs
  <2> QED
    BY <1>7, <2>1, <2>2, <2>3, <2>4, <2>5, <2>6, <2>7 DEF RequestStep
<1>8. ASSUME NEW h \in HW, Decline(h) PROVE TypeOK'
  <2>1. leasesHW[h] \in Nums /\ leasesIP[leasesHW[h]] \in Lease
    BY <1>8 DEF Decline, LeaseHW
  <2>2. [leasesIP[leasesHW[h]] EXCEPT !.expiry = now] \in Lease
    BY <2>1 DEF Lease
  <2> QED
    BY <1>8, <2>1, <2>2 DEF Decline, request
<1>9. ASSUME NEW h \in HW, SetHostnamePanics(h) PROVE TypeOK'
  BY <1>9 DEF SetHostnamePanics, table, request
<1>10. ASSUME NEW h \in HW, SetHostnameFails(h) PROVE TypeOK'
  BY <1>10 DEF SetHostnameFails, table, request
<1>11. ASSUME NEW h \in HW, NEW name \in Overrides[h] \ {Torn}, SetHostnameBegin(h, name)
       PROVE TypeOK'
  <2>1. EditNum(h) \in Nums /\ name \in Names
    BY DEF EditNum
  <2>2. [leasesIP[EditNum(h)] EXCEPT !.host = name] \in Lease
    BY <1>11, <2>1, LeaseUpdate DEF SetHostnameBegin
  <2> QED
    BY <1>11, <2>1, <2>2 DEF SetHostnameBegin, request
<1>12. CASE SetHostnameEnd
  <2>1. editing.num \in Nums /\ editing.name \in Names /\ leasesIP[editing.num] \in Lease
    BY <1>12 DEF SetHostnameEnd, OldLeaseKept
  <2>2. [leasesIP[editing.num] EXCEPT !.over = editing.name] \in Lease
    BY <2>1, LeaseUpdate
  <2> QED
    BY <1>12, <2>1, <2>2, LeaseParts DEF SetHostnameEnd, request
<1>13. CASE UNCHANGED vars
  BY <1>13 DEF vars
<1> QED
  BY <1>1, <1>2, <1>3, <1>4, <1>5, <1>6, <1>7, <1>8, <1>9, <1>10, <1>11, <1>12, <1>13
  DEF Next
\* Steps that leave the table, the request and the editor alone keep the
\* invariants: no lease that had expired ever runs again.
LEMMA QuietStep ==
  ASSUME IInv, UNCHANGED <<table, request, editing>>,
         now' \in Nat, now' >= now
  PROVE  /\ IndexConsistent'
         /\ CheckStillValid'
         /\ OldLeaseKept'
         /\ NoInheritance'
<1> USE DEF table, request
<1>1. IndexConsistent'
  BY DEF IInv, IndexConsistent
<1>2. CheckStillValid'
  BY LeaseParts DEF IInv, TypeOK, CheckStillValid, Available, Free, Expired
<1>3. OldLeaseKept'
  BY DEF IInv, OldLeaseKept, NewTable
<1>4. NoInheritance'
  BY DEF IInv, NoInheritance, OwnProperties
<1> QED
  BY <1>1, <1>2, <1>3, <1>4

\* While the table does not change, a request that has passed its check keeps
\* the invariants if the lease it builds stays its client's.
LEMMA BuildStep ==
  ASSUME IInv, UNCHANGED <<table, now, editing>>, pc \notin {"boot", "idle"},
         lease' \in Lease, lease'.num = lease.num, lease'.hw = lease.hw
  PROVE  /\ IndexConsistent'
         /\ CheckStillValid'
         /\ (\A n \in Nums : leasesIP[n] # NoLease => OwnProperties(leasesIP[n]))'
         /\ editing' # NoEdit =>
              /\ leasesIP'[editing'.num] # NoLease
              /\ editing'.name \in Overrides[leasesIP'[editing'.num].hw]
<1> USE DEF table
<1>1. IndexConsistent'
  BY DEF IInv, IndexConsistent
<1>2. CheckStillValid'
  BY DEF IInv, TypeOK, CheckStillValid, Available, Free, Expired
<1> QED
  BY <1>1, <1>2 DEF IInv, NoInheritance, OwnProperties, OldLeaseKept

LEMMA StepOthers ==
  ASSUME IInv, [Next]_vars, TypeOK'
  PROVE  /\ IndexConsistent'
         /\ CheckStillValid'
         /\ OldLeaseKept'
         /\ NoInheritance'
<1> DEFINE Goal == /\ IndexConsistent'
                   /\ CheckStillValid'
                   /\ OldLeaseKept'
                   /\ NoInheritance'
<1> USE PoolAssumption, NamesAssumption, TableAssumption DEF IInv, TypeOK
<1>1. CASE SetLeases
  <2>1. PICK t \in Preloaded : leasesIP' = t
    BY <1>1 DEF SetLeases
  <2>2. WellFormed(t)
    BY <2>1
  <2>3. IndexConsistent'
    <3> SUFFICES ASSUME NEW n \in Nums, t[n] # NoLease
                 PROVE  t[n].num = n /\ leasesHW'[t[n].hw] = n
      BY <2>1 DEF IndexConsistent
    <3> DEFINE mine == {m \in Nums : t[m] # NoLease /\ t[m].hw = t[n].hw}
    <3>1. t[n] \in Lease
      BY <2>2 DEF WellFormed
    <3>2. mine = {n}
      BY <2>2 DEF WellFormed
    <3>3. leasesHW'[t[n].hw] = CHOOSE m \in mine : TRUE
      BY <1>1, <2>1, <3>1, <3>2, LeaseParts DEF SetLeases
    <3> QED
      BY <2>2, <3>2, <3>3 DEF WellFormed
  <2>4. lease' = NoLease /\ pc' = "idle" /\ editing' = NoEdit
    BY <1>1 DEF SetLeases, OldLeaseKept
  <2>5. \A n \in Nums : t[n] # NoLease => OwnProperties(t[n])
    <3> SUFFICES ASSUME NEW n \in Nums, t[n] # NoLease PROVE OwnProperties(t[n])
      OBVIOUS
    <3>1. t[n] \in Lease
      BY <2>2 DEF WellFormed
    <3> QED
      BY <2>2, <3>1, LeaseParts DEF WellFormed, OwnProperties, PermanentClients
  <2> QED
    BY <2>1, <2>3, <2>4, <2>5
    DEF CheckStillValid, OldLeaseKept, NoInheritance, OwnProperties
<1>2. CASE Serve
  BY <1>2 DEF Serve, table, NewTable, OldLeaseKept, IndexConsistent,
      CheckStillValid, NoInheritance
<1>3. CASE Tick
  BY <1>3, QuietStep DEF Tick
<1>4. ASSUME NEW h \in HW, NEW ip \in ReqIPs, Discover(h, ip) PROVE Goal
  BY <1>4, QuietStep DEF Discover
<1>5. ASSUME NEW h \in HW, NEW ip \in ReqIPs, RequestRefused(h, ip) PROVE Goal
  BY <1>5, QuietStep DEF RequestRefused
<1>6. ASSUME NEW h \in HW, NEW ip \in ReqIPs, RequestChecked(h, ip) PROVE Goal
  <2>1. CanLease(ip, h) \in Nums /\ Available(CanLease(ip, h), h) /\ PeriodFor(h) \in Nat \ {0}
    BY <1>6 DEF RequestChecked, CanLease, PeriodFor
  <2>2. PICK name \in Hostnames[h] :
          lease' = [num |-> CanLease(ip, h), hw |-> h, host |-> name,
                    over |-> NoName, expiry |-> now + PeriodFor(h)]
    BY <1>6 DEF RequestChecked
  <2>3. /\ lease'.num = CanLease(ip, h) /\ lease'.hw = h /\ lease'.host = name
        /\ lease'.over = NoName /\ lease'.expiry = now + PeriodFor(h)
    BY <2>2
  <2>4. OwnProperties(lease')
    BY <2>1, <2>3 DEF OwnProperties
  <2>5. UNCHANGED <<table, now, old, editing>> /\ pc' = "lookup"
    BY <1>6 DEF RequestChecked
  <2>6. CheckStillValid'
    BY <2>1, <2>3, <2>5 DEF CheckStillValid, Available, Free, Expired, table
  <2>7. NoInheritance'
    BY <2>4, <2>5 DEF NoInheritance, OwnProperties, table
  <2> QED
    BY <2>5, <2>6, <2>7 DEF IndexConsistent, OldLeaseKept, table
<1>7. CASE RequestStep
  <2>1. CASE RequestLookup
    <3>1. lease \in Lease /\ lease.hw \in HW
      BY <2>1, LeaseParts DEF RequestLookup
    <3>2. UNCHANGED <<table, now, lease, editing>> /\ editing = NoEdit
      BY <2>1 DEF RequestLookup
    <3>3. OldLeaseKept'
      <4>1. CASE LeaseHW(lease.hw) = NoNum
        <5>1. pc' = "insert"
          BY <2>1, <4>1 DEF RequestLookup
        <5>2. \A n \in Nums : leasesIP[n] # NoLease => leasesIP[n].hw # lease.hw
          BY <4>1 DEF LeaseHW, IndexConsistent
        <5> QED
          BY <3>2, <5>1, <5>2 DEF OldLeaseKept, table
      <4>2. CASE LeaseHW(lease.hw) # NoNum
        BY <2>1, <3>1, <3>2, <4>2 DEF RequestLookup, LeaseHW, OldLeaseKept, table
      <4> QED
        BY <4>1, <4>2
    <3>4. /\ IndexConsistent'
          /\ CheckStillValid'
          /\ (\A n \in Nums : leasesIP[n] # NoLease => OwnProperties(leasesIP[n]))'
      BY <2>1, <3>1, <3>2, BuildStep DEF RequestLookup
    <3> QED
      BY <3>2, <3>3, <3>4 DEF NoInheritance, OwnProperties
  <2>2. CASE RequestRetain
    <3>1. lease \in Lease /\ leasesIP[old] \in Lease /\ leasesIP[old].hw = lease.hw
      BY <2>2 DEF RequestRetain, OldLeaseKept
    <3>2. /\ UNCHANGED <<table, now, old, editing>>
          /\ pc = "retain" /\ pc' = "override" /\ lease' \in Lease
      BY <2>2 DEF RequestRetain, Pcs
    <3>3. lease'.num = lease.num /\ lease'.hw = lease.hw /\ OwnProperties(lease')
      <4>1. CASE leasesIP[old].expiry = Permanent
        <5>1. PICK name \in RacyRead(leasesIP[old].host) :
                lease' = [lease EXCEPT !.expiry = Permanent, !.host = name]
          BY <2>2, <4>1 DEF RequestRetain
        <5>2. lease'.num = lease.num /\ lease'.hw = lease.hw /\ lease'.over = lease.over
              /\ lease'.host = name
          BY <3>1, <5>1 DEF Lease
        <5>3. OwnProperties(leasesIP[old])
          BY <3>1, <3>2, LeaseParts DEF OldLeaseKept, NoInheritance
        <5>4. name \in Hostnames[lease.hw] \cup Overrides[lease.hw]
          BY <3>1, <5>3, LeaseParts DEF RacyRead, OwnProperties
        <5> QED
          BY <3>1, <4>1, <5>2, <5>3, <5>4, LeaseParts DEF OwnProperties, NoInheritance
      <4>2. CASE leasesIP[old].expiry # Permanent
        BY <2>2, <3>1, <4>2, LeaseParts DEF RequestRetain, NoInheritance, OwnProperties
      <4> QED
        BY <4>1, <4>2
    <3> QED
      BY <3>1, <3>2, <3>3, BuildStep DEF OldLeaseKept, NoInheritance, table
  <2>3. CASE TestOverride
    <3>1. /\ UNCHANGED <<table, now, lease, old, editing>> /\ pc = "override"
          /\ pc' \in {"release", "copyHost"} /\ lease \in Lease
      BY <2>3 DEF TestOverride
    <3>2. OwnProperties(lease')
      BY <3>1, LeaseParts DEF NoInheritance, OwnProperties
    <3> QED
      BY <3>1, <3>2, BuildStep DEF OldLeaseKept, NoInheritance, table
  <2>4. CASE CopyHost
    <3>1. lease \in Lease /\ leasesIP[old] \in Lease /\ leasesIP[old].hw = lease.hw
      BY <2>4 DEF CopyHost, OldLeaseKept
    <3>2. /\ UNCHANGED <<table, now, old, editing>>
          /\ pc = "copyHost" /\ pc' = "copyOverride" /\ lease' \in Lease
      BY <2>4 DEF CopyHost, Pcs
    <3>3. PICK name \in RacyRead(leasesIP[old].over) : lease' = [lease EXCEPT !.host = name]
      BY <2>4 DEF CopyHost
    <3>4. /\ lease'.num = lease.num /\ lease'.hw = lease.hw /\ lease'.over = lease.over
          /\ lease'.host = name /\ lease'.expiry = lease.expiry
      BY <3>1, <3>3 DEF Lease
    <3>5. name \in Overrides[lease.hw]
      BY <3>1, <3>2, <3>3, LeaseParts DEF RacyRead, OldLeaseKept, NoInheritance, OwnProperties
    <3>6. OwnProperties(lease')
      BY <3>1, <3>4, <3>5, LeaseParts DEF NoInheritance, OwnProperties
    <3> QED
      BY <3>1, <3>2, <3>4, <3>6, BuildStep DEF OldLeaseKept, NoInheritance, table
  <2>5. CASE CopyOverride
    <3>1. lease \in Lease /\ leasesIP[old] \in Lease /\ leasesIP[old].hw = lease.hw
      BY <2>5 DEF CopyOverride, OldLeaseKept
    <3>2. /\ UNCHANGED <<table, now, old, editing>>
          /\ pc = "copyOverride" /\ pc' = "release" /\ lease' \in Lease
      BY <2>5 DEF CopyOverride, Pcs
    <3>3. PICK name \in RacyRead(leasesIP[old].over) : lease' = [lease EXCEPT !.over = name]
      BY <2>5 DEF CopyOverride
    <3>4. /\ lease'.num = lease.num /\ lease'.hw = lease.hw /\ lease'.over = name
          /\ lease'.host = lease.host /\ lease'.expiry = lease.expiry
      BY <3>1, <3>3 DEF Lease
    <3>5. name \in Overrides[lease.hw]
      BY <3>1, <3>2, <3>3, LeaseParts DEF RacyRead, OldLeaseKept, NoInheritance, OwnProperties
    <3>6. OwnProperties(lease')
      BY <3>1, <3>4, <3>5, LeaseParts DEF NoInheritance, OwnProperties
    <3> QED
      BY <3>1, <3>2, <3>4, <3>6, BuildStep DEF OldLeaseKept, NoInheritance, table
  <2>6. CASE RequestRelease
    <3>1. /\ old \in Nums /\ leasesIP[old] # NoLease /\ leasesIP[old].num = old
          /\ leasesIP[old].hw = lease.hw /\ lease \in Lease
      BY <2>6 DEF RequestRelease, OldLeaseKept, IndexConsistent
    <3>2. /\ leasesIP' = [leasesIP EXCEPT ![old] = NoLease] /\ pc' = "insert"
          /\ UNCHANGED <<leasesHW, now, lease, old, editing>> /\ editing = NoEdit
      BY <2>6, <3>1 DEF RequestRelease
    <3>3. IndexConsistent'
      BY <3>1, <3>2 DEF IndexConsistent
    <3>4. CheckStillValid'
      BY <3>1, <3>2, LeaseParts DEF CheckStillValid, Available, Free, Expired
    <3>5. OldLeaseKept'
      <4>1. \A n \in Nums : leasesIP'[n] # NoLease => leasesIP'[n].hw # lease.hw
        BY <2>6, <3>1, <3>2 DEF IndexConsistent, RequestRelease
      <4> QED
        BY <3>2, <4>1 DEF OldLeaseKept
    <3>6. NoInheritance'
      BY <3>1, <3>2 DEF NoInheritance, OwnProperties
    <3> QED
      BY <3>3, <3>4, <3>5, <3>6
  <2>7. CASE RequestInsert
    <3>1. lease \in Lease /\ lease # NoLease
      BY <2>7, LeaseParts DEF RequestInsert
    <3>2. /\ leasesIP' = [leasesIP EXCEPT ![lease.num] = lease]
          /\ leasesHW' = [leasesHW EXCEPT ![lease.hw] = lease.num]
          /\ pc' = "idle" /\ lease' = NoLease /\ editing' = NoEdit /\ pc = "insert"
      BY <2>7 DEF RequestInsert
    <3>3. IndexConsistent'
      BY <3>1, <3>2, LeaseParts DEF IndexConsistent, OldLeaseKept
    <3>4. NoInheritance'
      BY <3>1, <3>2, LeaseParts DEF NoInheritance, OwnProperties
    <3> QED
      BY <3>2, <3>3, <3>4 DEF CheckStillValid, OldLeaseKept
  <2> QED
    BY <1>7, <2>1, <2>2, <2>3, <2>4, <2>5, <2>6, <2>7 DEF RequestStep
<1>8. ASSUME NEW h \in HW, Decline(h) PROVE Goal
  <2>1. leasesHW[h] \in Nums /\ leasesIP[leasesHW[h]] \in Lease
    BY <1>8 DEF Decline, LeaseHW
  <2>2. /\ leasesIP' = [leasesIP EXCEPT ![leasesHW[h]] =
                           [leasesIP[leasesHW[h]] EXCEPT !.expiry = now]]
        /\ UNCHANGED <<leasesHW, now, request, editing>>
        /\ pc = "idle" /\ lease = NoLease /\ editing = NoEdit
    BY <1>8 DEF Decline
  <2>3. \A n \in Nums : leasesIP'[n] # NoLease =>
          /\ leasesIP[n] # NoLease /\ leasesIP'[n].num = leasesIP[n].num
          /\ leasesIP'[n].hw = leasesIP[n].hw /\ leasesIP'[n].host = leasesIP[n].host
          /\ leasesIP'[n].over = leasesIP[n].over
          /\ leasesIP'[n].expiry = Permanent => leasesIP[n].expiry = Permanent
    BY <2>1, <2>2, LeaseParts DEF Lease
  <2>4. IndexConsistent'
    BY <2>2, <2>3 DEF IndexConsistent
  <2>5. NoInheritance'
    BY <2>2, <2>3, LeaseParts DEF NoInheritance, OwnProperties, request
  <2> QED
    BY <2>2, <2>4, <2>5 DEF CheckStillValid, OldLeaseKept, request
<1>9. ASSUME NEW h \in HW, SetHostnamePanics(h) PROVE Goal
  BY <1>9, QuietStep DEF SetHostnamePanics
<1>10. ASSUME NEW h \in HW, SetHostnameFails(h) PROVE Goal
  BY <1>10, QuietStep DEF SetHostnameFails
<1>11. ASSUME NEW h \in HW, NEW name \in Overrides[h] \ {Torn}, SetHostnameBegin(h, name)
       PROVE Goal
  <2> DEFINE m == EditNum(h)
  <2>0. m \in Nums
    BY DEF EditNum
  <2>1. leasesIP[m] \in Lease /\ leasesIP[m] # NoLease /\ leasesIP[m].hw = h /\ pc # "boot"
    BY <1>11, <2>0 DEF SetHostnameBegin, OldLeaseKept, NewTable
  <2>2. /\ leasesIP' = [leasesIP EXCEPT ![m] = [leasesIP[m] EXCEPT !.host = name]]
        /\ editing' = [num |-> m, name |-> name]
        /\ UNCHANGED <<leasesHW, now, request>>
    BY <1>11 DEF SetHostnameBegin
  <2> HIDE DEF m
  <2>3. \A n \in Nums :
          /\ leasesIP'[n] = NoLease <=> leasesIP[n] = NoLease
          /\ leasesIP[n] # NoLease =>
               /\ leasesIP'[n].num = leasesIP[n].num /\ leasesIP'[n].hw = leasesIP[n].hw
               /\ leasesIP'[n].expiry = leasesIP[n].expiry
               /\ leasesIP'[n].over = leasesIP[n].over
               /\ leasesIP'[n].host \in {leasesIP[n].host} \cup Overrides[leasesIP[n].hw]
    <3>1. leasesIP'[m] = [leasesIP[m] EXCEPT !.host = name] /\ leasesIP'[m] \in Lease
      BY <2>0, <2>1, <2>2, LeaseUpdate
    <3>2. \A n \in Nums : n # m => leasesIP'[n] = leasesIP[n]
      BY <2>2
    <3> TAKE n \in Nums
    <3>3. CASE n = m
      <4>1. leasesIP'[m] # NoLease
        BY <3>1, LeaseParts
      <4>2. leasesIP'[m].num = leasesIP[m].num /\ leasesIP'[m].hw = leasesIP[m].hw
        BY <2>1, <3>1, UpdatedParts
      <4>3. leasesIP'[m].expiry = leasesIP[m].expiry
        BY <2>1, <3>1, UpdatedParts
      <4>4. leasesIP'[m].over = leasesIP[m].over /\ leasesIP'[m].host = name
        BY <2>1, <3>1, UpdatedParts
      <4> QED
        BY <2>1, <3>3, <4>1, <4>2, <4>3, <4>4
    <3>4. CASE n # m
      BY <3>2, <3>4
    <3> QED
      BY <3>3, <3>4
  <2>4. IndexConsistent'
    BY <2>2, <2>3 DEF IndexConsistent
  <2>5. CheckStillValid'
    BY <2>2, <2>3, LeaseParts DEF CheckStillValid, Available, Free, Expired, request
  <2>6. OldLeaseKept'
    BY <2>0, <2>1, <2>2, <2>3, LeaseParts DEF OldLeaseKept, request
  <2>7. NoInheritance'
    BY <2>2, <2>3, LeaseParts DEF NoInheritance, OwnProperties, request
  <2> QED
    BY <2>4, <2>5, <2>6, <2>7
<1>12. CASE SetHostnameEnd
  <2> DEFINE m == editing.num
  <2>1. m \in Nums /\ leasesIP[m] \in Lease /\ editing.name \in Overrides[leasesIP[m].hw]
        /\ editing.name \in Names /\ pc # "boot"
    BY <1>12 DEF SetHostnameEnd, OldLeaseKept
  <2>2. /\ leasesIP' = [leasesIP EXCEPT ![m] = [leasesIP[m] EXCEPT !.over = editing.name]]
        /\ editing' = NoEdit
        /\ UNCHANGED <<leasesHW, now, request>>
    BY <1>12 DEF SetHostnameEnd
  <2> HIDE DEF m
  <2>3. \A n \in Nums :
          /\ leasesIP'[n] = NoLease <=> leasesIP[n] = NoLease
          /\ leasesIP[n] # NoLease =>
               /\ leasesIP'[n].num = leasesIP[n].num /\ leasesIP'[n].hw = leasesIP[n].hw
               /\ leasesIP'[n].expiry = leasesIP[n].expiry
               /\ leasesIP'[n].host = leasesIP[n].host
               /\ leasesIP'[n].over \in {leasesIP[n].over} \cup Overrides[leasesIP[n].hw]
    <3>1. leasesIP'[m] = [leasesIP[m] EXCEPT !.over = editing.name] /\ leasesIP'[m] \in Lease
      BY <2>1, <2>2, LeaseUpdate
    <3>2. \A n \in Nums : n # m => leasesIP'[n] = leasesIP[n]
      BY <2>2
    <3> TAKE n \in Nums
    <3>3. CASE n = m
      <4>1. leasesIP'[m] # NoLease
        BY <3>1, LeaseParts
      <4>2. leasesIP'[m].num = leasesIP[m].num /\ leasesIP'[m].hw = leasesIP[m].hw
        BY <2>1, <3>1, UpdatedParts
      <4>3. leasesIP'[m].expiry = leasesIP[m].expiry
        BY <2>1, <3>1, UpdatedParts
      <4>4. leasesIP'[m].host = leasesIP[m].host /\ leasesIP'[m].over = editing.name
        BY <2>1, <3>1, UpdatedParts
      <4> QED
        BY <2>1, <3>3, <4>1, <4>2, <4>3, <4>4
    <3>4. CASE n # m
      BY <3>2, <3>4
    <3> QED
      BY <3>3, <3>4
  <2>4. IndexConsistent'
    BY <2>2, <2>3 DEF IndexConsistent
  <2>5. CheckStillValid'
    BY <2>2, <2>3, LeaseParts DEF CheckStillValid, Available, Free, Expired, request
  <2>6. OldLeaseKept'
    BY <2>1, <2>2, <2>3, LeaseParts DEF OldLeaseKept, request
  <2>7. NoInheritance'
    BY <2>2, <2>3, LeaseParts DEF NoInheritance, OwnProperties, request
  <2> QED
    BY <2>4, <2>5, <2>6, <2>7
<1>13. CASE UNCHANGED vars
  BY <1>13, QuietStep DEF vars, table, request
<1> QED
  BY <1>1, <1>2, <1>3, <1>4, <1>5, <1>6, <1>7, <1>8, <1>9, <1>10, <1>11, <1>12, <1>13
  DEF Next

\* The inductive invariant holds: every part of it, for every pool and client.
THEOREM Invariance == Spec => []IInv
<1>1. Init => IInv
  BY InitIInv
<1>2. IInv /\ [Next]_vars => IInv'
  BY StepTypeOK, StepOthers DEF IInv
<1> QED
  BY <1>1, <1>2, PTL DEF Spec

\* Type correctness of the handler's table and of the request under way.
THEOREM TypeCorrect == Spec => []TypeOK
  BY Invariance, PTL DEF IInv

\* leasesHW and leasesIP agree after every critical section.
THEOREM TableConsistent == Spec => []IndexConsistent
  BY Invariance, PTL DEF IInv

\* What canLease decided holds until the lease is inserted.
THEOREM CheckHolds == Spec => []CheckStillValid
  BY Invariance, PTL DEF IInv

\* The lease that is read without leasesMu is in the table while it is read.
THEOREM OldLeaseSafe == Spec => []OldLeaseKept
  BY Invariance, PTL DEF IInv

\* Names, overrides and permanence stay with the client they were given to.
THEOREM NothingInherited == Spec => []NoInheritance
  BY Invariance, PTL DEF IInv
-----------------------------------------------------------------------------
LEMMA CandidatesAvailable ==
  ASSUME IInv, NEW h \in HW, NEW ip \in ReqIPs, NEW n \in Candidates(h, ip), n # NoNum
  PROVE  n \in Nums /\ Available(n, h)
<1> USE DEF IInv
<1>1. CASE LeaseHW(h) # NoNum /\ ~Expired(leasesIP[LeaseHW(h)])
  BY <1>1 DEF Candidates, LeaseHW, IndexConsistent, Available, TypeOK
<1>2. CASE /\ ~(LeaseHW(h) # NoNum /\ ~Expired(leasesIP[LeaseHW(h)]))
           /\ CanLease(ip, h) # NoNum
  BY <1>2 DEF Candidates, CanLease
<1>3. CASE /\ ~(LeaseHW(h) # NoNum /\ ~Expired(leasesIP[LeaseHW(h)]))
           /\ CanLease(ip, h) = NoNum
  BY <1>3 DEF Candidates, FindLease, Available
<1> QED
  BY <1>1, <1>2, <1>3

\* No DHCPOFFER names an address on which the lease of another client runs.
THEOREM OffersSafe == Spec => []OfferSafe
<1>1. Init => OfferSafe
  BY DEF Init, OfferSafe
<1>2. IInv /\ OfferSafe /\ [Next]_vars => OfferSafe'
  <2> SUFFICES ASSUME IInv, OfferSafe, [Next]_vars PROVE OfferSafe'
    OBVIOUS
  <2>1. ASSUME NEW h \in HW, NEW ip \in ReqIPs, Discover(h, ip) PROVE OfferSafe'
    <3>1. PICK n \in Candidates(h, ip) :
            out' = Out(IF n = NoNum THEN "exhausted" ELSE "offer", h, n)
      BY <2>1 DEF Discover
    <3>2. UNCHANGED <<leasesIP, now>>
      BY <2>1 DEF Discover, table
    <3> QED
      BY <3>1, <3>2, CandidatesAvailable DEF OfferSafe, Available, Free, Expired
  <2>2. ASSUME NEW h \in HW, \/ \E ip \in ReqIPs : RequestRefused(h, ip) \/ RequestChecked(h, ip)
                             \/ Decline(h) \/ SetHostnamePanics(h) \/ SetHostnameFails(h)
                             \/ \E name \in Overrides[h] \ {Torn} : SetHostnameBegin(h, name)
        PROVE  OfferSafe'
    BY <2>2 DEF OfferSafe, RequestRefused, RequestChecked, Decline, SetHostnamePanics,
                SetHostnameFails, SetHostnameBegin
  <2>3. CASE RequestStep
    <3>1. out' = NoOut \/ out' = Out("ack", lease.hw, lease.num)
      BY <2>3 DEF RequestStep, RequestLookup, RequestRetain, TestOverride, CopyHost,
                  CopyOverride, RequestRelease, RequestInsert
    <3> QED
      BY <3>1 DEF OfferSafe
  <2>4. CASE SetLeases \/ Serve \/ Tick \/ SetHostnameEnd
    BY <2>4 DEF OfferSafe, SetLeases, Serve, Tick, SetHostnameEnd
  <2>5. CASE UNCHANGED vars
    BY <2>5 DEF OfferSafe, vars, Available, Free, Expired
  <2> QED
    BY <2>1, <2>2, <2>3, <2>4, <2>5 DEF Next
<1> QED
  BY <1>1, <1>2, Invariance, PTL DEF Spec
-----------------------------------------------------------------------------
LEMMA StepKeepsLeases ==
  ASSUME IInv, [Next]_vars, pc # "boot",
         NEW n \in Nums, leasesIP[n] # NoLease, ~Expired(leasesIP[n])
  PROVE  leasesIP' = leasesIP \/ KeptInStep(n)
<1> USE DEF IInv, TypeOK
<1>0. leasesIP[n] \in Lease /\ leasesIP[n].num = n /\ leasesHW[leasesIP[n].hw] = n
  BY DEF IndexConsistent
<1>1. CASE RequestStep
  <2>1. CASE RequestRelease
    BY <1>0, <2>1 DEF RequestRelease, KeptInStep, Core, OldLeaseKept, IndexConsistent
  <2>2. CASE RequestInsert
    <3>1. lease \in Lease /\ lease # NoLease
      BY <2>2 DEF RequestInsert
    <3>2. n # lease.num \/ leasesIP[n].hw = lease.hw
      BY <3>1 DEF CheckStillValid, Available, Free
    <3> QED
      BY <1>0, <2>2, <3>1, <3>2, LeaseParts DEF RequestInsert, KeptInStep, Core
  <2> QED
    BY <1>1, <2>1, <2>2 DEF RequestStep, RequestLookup, RequestRetain, TestOverride,
                            CopyHost, CopyOverride, table
<1>2. ASSUME NEW h \in HW, Decline(h) PROVE KeptInStep(n)
  <2>1. /\ leasesHW[h] \in Nums /\ leasesIP[leasesHW[h]] \in Lease
        /\ leasesIP[leasesHW[h]].hw = h
    BY <1>2 DEF Decline, LeaseHW
  <2>2. /\ leasesIP' = [leasesIP EXCEPT ![leasesHW[h]] =
                           [leasesIP[leasesHW[h]] EXCEPT !.expiry = now]]
        /\ out' = Out("declined", h, leasesHW[h])
    BY <1>2 DEF Decline
  <2>3. CASE n = leasesHW[h]
    <3>1. [leasesIP[n] EXCEPT !.expiry = now] \in Lease
      BY <1>0 DEF Lease
    <3> QED
      BY <2>1, <2>2, <2>3, <3>1, LeaseParts DEF KeptInStep
  <2>4. CASE n # leasesHW[h]
    BY <2>2, <2>4 DEF KeptInStep
  <2> QED
    BY <2>3, <2>4
<1>3. ASSUME NEW h \in HW, NEW name \in Overrides[h] \ {Torn}, SetHostnameBegin(h, name)
      PROVE  KeptInStep(n)
  <2>1. [leasesIP[n] EXCEPT !.host = name] \in Lease
    BY <1>0, NamesAssumption, LeaseUpdate
  <2>2. Core([leasesIP[n] EXCEPT !.host = name]) = Core(leasesIP[n])
    BY <1>0 DEF Core, Lease
  <2> QED
    BY <1>3, <2>1, <2>2, LeaseParts DEF SetHostnameBegin, KeptInStep
<1>4. CASE SetHostnameEnd
  <2>1. editing.name \in Names
    BY <1>4 DEF SetHostnameEnd
  <2>2. [leasesIP[n] EXCEPT !.over = editing.name] \in Lease
    BY <1>0, <2>1, LeaseUpdate
  <2>3. Core([leasesIP[n] EXCEPT !.over = editing.name]) = Core(leasesIP[n])
    BY <1>0 DEF Core, Lease
  <2> QED
    BY <1>4, <2>2, <2>3, LeaseParts DEF SetHostnameEnd, KeptInStep
<1>5. CASE UNCHANGED table
  BY <1>5 DEF table
<1> QED
  BY <1>1, <1>2, <1>3, <1>4, <1>5 DEF Next, SetLeases, Serve, Tick, Discover,
     RequestRefused, RequestChecked, SetHostnamePanics, SetHostnameFails, vars, table

\* A lease that runs is ended by its own client only.
THEOREM LeasesNotTaken == Spec => LeaseNotTaken
<1>1. ASSUME IInv, [Next]_vars
      PROVE  [\A n \in Nums :
                pc # "boot" /\ leasesIP[n] # NoLease /\ ~Expired(leasesIP[n])
                  => KeptInStep(n)]_vars
  BY <1>1, StepKeepsLeases DEF KeptInStep, Core
<1> QED
  BY <1>1, Invariance, PTL DEF Spec, LeaseNotTaken
-----------------------------------------------------------------------------
(* The handler implements LeaseAllocator *)

LEMMA MappedState ==
  ASSUME IInv
  PROVE  /\ Owner \in [Nums -> HW \cup {NoLease}]
         /\ Expiry \in [Nums -> Nat]
         /\ Alloc!OneAddressEach(Owner)
  BY TableAssumption, LeaseParts
  DEF IInv, TypeOK, IndexConsistent, Owner, Expiry, Alloc!OneAddressEach

LEMMA StepRefines ==
  ASSUME IInv, IInv', [Next]_vars
  PROVE  [Alloc!Next]_(Alloc!vars)
<1> USE TableAssumption DEF IInv, TypeOK
<1>0. /\ Owner' \in [Nums -> HW \cup {NoLease}]
      /\ Expiry' \in [Nums -> Nat]
      /\ Alloc!OneAddressEach(Owner')
      /\ Owner \in [Nums -> HW \cup {NoLease}]
      /\ Expiry \in [Nums -> Nat]
  <2>1. /\ Owner' \in [Nums -> HW \cup {NoLease}]
        /\ Expiry' \in [Nums -> Nat]
        /\ Alloc!OneAddressEach(Owner')
    BY LeaseParts DEF IndexConsistent, Owner, Expiry, Alloc!OneAddressEach
  <2> QED
    BY <2>1, MappedState
<1>1. CASE SetLeases
  <2>1. \A n \in Nums : Owner[n] = NoLease
    BY <1>1 DEF SetLeases, OldLeaseKept, NewTable, Owner
  <2> QED
    BY <1>0, <1>1, <2>1 DEF SetLeases, Alloc!Next, Alloc!Load
<1>2. CASE Tick
  BY <1>2 DEF Tick, table, Alloc!Next, Alloc!Tick, Owner, Expiry
<1>3. CASE RequestRelease
  <2>1. /\ old \in Nums /\ leasesIP[old] # NoLease /\ leasesIP[old].num = old
        /\ leasesIP[old].hw = lease.hw /\ lease.hw \in HW
    BY <1>3, LeaseParts DEF RequestRelease, OldLeaseKept, IndexConsistent
  <2>2. leasesIP' = [leasesIP EXCEPT ![old] = NoLease] /\ now' = now
    BY <1>3, <2>1 DEF RequestRelease
  <2>3. \A n \in Nums : leasesIP[n] # NoLease /\ leasesIP[n].hw = lease.hw => n = old
    BY <2>1 DEF IndexConsistent
  <2>4. Owner' = [n \in Nums |-> IF Owner[n] = lease.hw THEN NoLease ELSE Owner[n]]
    BY <2>1, <2>2, <2>3 DEF Owner
  <2>5. \A n \in Nums : Owner[n] # lease.hw => Expiry'[n] = Expiry[n]
    BY <2>1, <2>2, <2>3 DEF Owner, Expiry
  <2>6. Alloc!Release(lease.hw)
    BY <1>0, <2>2, <2>4, <2>5 DEF Alloc!Release
  <2> QED
    BY <2>1, <2>6 DEF Alloc!Next
<1>4. CASE RequestInsert
  <2>1. lease \in Lease /\ lease.num \in Nums /\ lease.hw \in HW /\ lease # NoLease
    BY <1>4, LeaseParts DEF RequestInsert
  <2>2. leasesIP' = [leasesIP EXCEPT ![lease.num] = lease] /\ now' = now
    BY <1>4 DEF RequestInsert
  <2>3. Owner' = [Owner EXCEPT ![lease.num] = lease.hw]
    BY <2>1, <2>2 DEF Owner
  <2>4. \A n \in Nums \ {lease.num} : Expiry'[n] = Expiry[n]
    BY <2>1, <2>2 DEF Expiry
  <2>5. \A n \in Nums : Owner[n] # lease.hw
    BY <1>4, <2>1 DEF RequestInsert, OldLeaseKept, Owner
  <2>6. Alloc!MayHave(lease.hw, lease.num)
    BY <2>1, <2>5 DEF CheckStillValid, Available, Free, Expired, Owner, Expiry,
                      Alloc!MayHave, Alloc!Lapsed
  <2>7. Alloc!Grant(lease.hw, lease.num)
    BY <1>0, <2>2, <2>3, <2>4, <2>5, <2>6 DEF Alloc!Grant
  <2> QED
    BY <2>1, <2>7 DEF Alloc!Next
<1>5. ASSUME NEW h \in HW, Decline(h) PROVE Alloc!Next
  <2> DEFINE m == leasesHW[h]
  <2>1. m \in Nums /\ leasesIP[m] \in Lease /\ leasesIP[m].hw = h /\ leasesIP[m] # NoLease
    BY <1>5 DEF Decline, LeaseHW
  <2>2. leasesIP' = [leasesIP EXCEPT ![m] = [leasesIP[m] EXCEPT !.expiry = now]] /\ now' = now
    BY <1>5 DEF Decline
  <2> HIDE DEF m
  <2>3. /\ leasesIP'[m] # NoLease /\ leasesIP'[m].hw = h /\ leasesIP'[m].expiry = now
        /\ \A n \in Nums \ {m} : leasesIP'[n] = leasesIP[n]
    BY <2>1, <2>2, LeaseParts DEF Lease
  <2>4. Expiry' = [Expiry EXCEPT ![m] = now]
    BY <2>1, <2>3 DEF Expiry
  <2>5. Owner' = Owner /\ Owner[m] = h
    BY <2>1, <2>3 DEF Owner
  <2> QED
    BY <2>1, <2>2, <2>4, <2>5 DEF Alloc!Next, Alloc!Decline
<1>6. ASSUME NEW h \in HW, NEW name \in Overrides[h] \ {Torn}, SetHostnameBegin(h, name)
      PROVE  UNCHANGED Alloc!vars
  <2>1. /\ leasesIP' = [leasesIP EXCEPT ![EditNum(h)] =
                           [leasesIP[EditNum(h)] EXCEPT !.host = name]]
        /\ leasesIP[EditNum(h)] \in Lease /\ EditNum(h) \in Nums /\ now' = now
        /\ name \in Names
    BY <1>6, PoolAssumption, NamesAssumption DEF SetHostnameBegin, EditNum
  <2>2. \A n \in Nums :
          /\ leasesIP'[n] = NoLease <=> leasesIP[n] = NoLease
          /\ leasesIP[n] # NoLease => /\ leasesIP'[n].hw = leasesIP[n].hw
                                      /\ leasesIP'[n].expiry = leasesIP[n].expiry
    BY <2>1, LeaseParts, LeaseUpdate DEF Lease
  <2>3. now' = now
    BY <2>1
  <2> QED
    BY <2>2, <2>3 DEF Alloc!vars, Owner, Expiry
<1>7. CASE SetHostnameEnd
  <2>1. /\ leasesIP' = [leasesIP EXCEPT ![editing.num] =
                           [leasesIP[editing.num] EXCEPT !.over = editing.name]]
        /\ leasesIP[editing.num] \in Lease /\ editing.num \in Nums /\ now' = now
        /\ editing.name \in Names
    BY <1>7 DEF SetHostnameEnd, OldLeaseKept
  <2>2. \A n \in Nums :
          /\ leasesIP'[n] = NoLease <=> leasesIP[n] = NoLease
          /\ leasesIP[n] # NoLease => /\ leasesIP'[n].hw = leasesIP[n].hw
                                      /\ leasesIP'[n].expiry = leasesIP[n].expiry
    BY <2>1, LeaseParts, LeaseUpdate DEF Lease
  <2>3. now' = now
    BY <2>1
  <2> QED
    BY <2>2, <2>3 DEF Alloc!vars, Owner, Expiry
<1>8. CASE UNCHANGED <<table, now>>
  BY <1>8 DEF table, Alloc!vars, Owner, Expiry
<1> QED
  BY <1>1, <1>2, <1>3, <1>4, <1>5, <1>6, <1>7, <1>8 DEF Next, Serve, Discover, RequestStep,
     RequestRefused, RequestChecked, RequestLookup, RequestRetain, TestOverride, CopyHost,
     CopyOverride, SetHostnamePanics, SetHostnameFails, vars, table

\* The handler keeps every promise of LeaseAllocator.
THEOREM HandlerImplementsAllocator == Spec => ImplementsAllocator
<1>1. Init => Alloc!Init
  BY InitIInv, MappedState DEF Init, Alloc!Init
<1>2. IInv /\ IInv' /\ [Next]_vars => [Alloc!Next]_(Alloc!vars)
  BY StepRefines
<1> QED
  BY <1>1, <1>2, Invariance, PTL DEF Spec, ImplementsAllocator, Alloc!Spec

\* What keeps the promise of LeaseAllocator gives a client one address at most:
\* Grant is only for a client that has no other, and Load for an empty pool.
THEOREM OneAddressPromised == ImplementsAllocator => []Alloc!AtMostOneAddress
<1> USE DEF Alloc!AtMostOneAddress, Alloc!OneAddressEach
<1>1. Alloc!Init => Alloc!AtMostOneAddress
  BY DEF Alloc!Init
<1>2. Alloc!AtMostOneAddress /\ [Alloc!Next]_(Alloc!vars) => Alloc!AtMostOneAddress'
  <2> SUFFICES ASSUME Alloc!AtMostOneAddress, [Alloc!Next]_(Alloc!vars)
               PROVE  Alloc!AtMostOneAddress'
    OBVIOUS
  <2>1. Owner = [n \in Nums |-> Owner[n]]
    BY DEF Owner
  <2> HIDE DEF Nums
  <2>2. CASE Alloc!Tick \/ UNCHANGED Alloc!vars
    BY <2>2 DEF Alloc!Tick, Alloc!vars
  <2>3. CASE Alloc!Load
    BY <2>3 DEF Alloc!Load
  <2>4. ASSUME NEW h \in HW, Alloc!Release(h) PROVE Alloc!AtMostOneAddress'
    BY <2>1, <2>4 DEF Alloc!Release
  <2>5. ASSUME NEW h \in HW, NEW n \in Nums, Alloc!Grant(h, n) PROVE Alloc!AtMostOneAddress'
    BY <2>1, <2>5 DEF Alloc!Grant
  <2>6. ASSUME NEW h \in HW, NEW n \in Nums, Alloc!Decline(h, n) PROVE Alloc!AtMostOneAddress'
    BY <2>6 DEF Alloc!Decline
  <2> QED
    BY <2>2, <2>3, <2>4, <2>5, <2>6 DEF Alloc!Next
<1> QED
  BY <1>1, <1>2, PTL DEF ImplementsAllocator, Alloc!Spec

-----------------------------------------------------------------------------
(* Dhcp4Server: the process, its file and its clients *)

HIDE DEF NoEdit, NoOut, OutTypes, Out

Claims(h) == {held[h], acks[h]}

Active(c) == c.num \in Nums /\ now <= c.until

\* The entry that backs an address in use, or the gap of its renewal.
Backed(h, c) ==
    \/ /\ leasesIP[c.num] # NoLease /\ leasesIP[c.num].hw = h
       /\ leasesIP[c.num].expiry = Permanent \/ c.until <= leasesIP[c.num].expiry
    \/ /\ pc = "insert" /\ lease.hw = h /\ lease.num = c.num
       /\ leasesIP[c.num] = NoLease

ClientsTypeOK ==
    /\ held \in [HW -> Hold \cup {NoHold}]
    /\ acks \in [HW -> Hold \cup {NoHold}]
    /\ restarts \in Nat

AllBacked ==
    \A h \in HW : \A c \in Claims(h) :
        Active(c) /\ c.run = restarts => Backed(h, c)

Bounded ==
    \A h \in HW : \A c \in Claims(h) : c.run <= restarts /\ c.until <= now + PeriodFor(h)

\* The client of the request under way has nothing but the address it renews.
Renewing ==
    lease # NoLease =>
        /\ acks[lease.hw] = NoHold
        /\ held[lease.hw].num \in {NoNum, lease.num}
        /\ lease.expiry = Permanent \/ held[lease.hw].until <= lease.expiry
        /\ lease.expiry <= now + PeriodFor(lease.hw)

Disjoint ==
    \A g, h \in HW : \A c \in Claims(g), d \in Claims(h) :
        Active(c) /\ Active(d) /\ c.num = d.num /\ c.run = d.run => g = h

SInv ==
    /\ IInv
    /\ ClientsTypeOK
    /\ AllBacked
    /\ Bounded
    /\ Renewing
    /\ Disjoint

LEMMA PeriodType == \A h \in HW : PeriodFor(h) \in Nat \ {0}
  BY PoolAssumption DEF PeriodFor

LEMMA ClaimType ==
  ASSUME ClientsTypeOK, NEW h \in HW, NEW c \in Claims(h)
  PROVE  c.num \in Nums \cup {NoNum} /\ c.until \in Nat /\ c.run \in Nat
  BY DEF ClientsTypeOK, Claims, Hold, NoHold

LEMMA InitSInv == ServerInit => SInv
<1> SUFFICES ASSUME ServerInit PROVE SInv
  OBVIOUS
<1>1. IInv
  BY InitIInv DEF ServerInit
<1>2. \A h \in HW : Claims(h) = {NoHold}
  BY DEF ServerInit, Claims
<1>3. ClientsTypeOK
  BY DEF ServerInit, ClientsTypeOK
<1>4. AllBacked /\ Disjoint
  BY <1>2, PoolAssumption DEF AllBacked, Disjoint, Active, NoHold
<1>5. Bounded
  BY <1>2, PeriodType DEF Bounded, NoHold, ServerInit, Init
<1>6. Renewing
  BY DEF Renewing, ServerInit, Init
<1> QED
  BY <1>1, <1>3, <1>4, <1>5, <1>6 DEF SInv

\* The steps of the process are steps of the handler, or leave it alone.
LEMMA ServerStep ==
  ASSUME HandlerStep
  PROVE  [Next]_vars
<1>1. CASE \E h \in HW, ip \in ReqIPs :
             Discover(h, ip) \/ RequestRefused(h, ip) \/ RequestChecked(h, ip)
  BY <1>1 DEF Next
<1>2. CASE Serve \/ Tick \/ RequestStep \/ SetHostnameEnd \/ \E h \in HW : Decline(h)
  BY <1>2 DEF Next
<1>3. CASE \E h \in HW : \/ SetHostnamePanics(h)
                         \/ SetHostnameFails(h)
                         \/ \E name \in Overrides[h] \ {Torn} : SetHostnameBegin(h, name)
  BY <1>3 DEF Next
<1>4. ServeInsert => RequestStep
  BY DEF ServeInsert, RequestStep
<1> QED
  BY <1>1, <1>2, <1>3, <1>4 DEF HandlerStep, Start, Time, ServeDiscover, ServeRefused,
     ServeRequest, ServeStep, ServeDecline, SetHostname

LEMMA ServerKeepsIInv ==
  ASSUME IInv, [ServerNext]_serverVars
  PROVE  IInv'
<1>1. CASE HandlerStep
  BY <1>1, ServerStep, StepTypeOK, StepOthers DEF IInv
<1>2. CASE Restart
  BY <1>2, NamesAssumption, TableAssumption, PoolAssumption
  DEF Restart, IInv, TypeOK, IndexConsistent, CheckStillValid, OldLeaseKept,
      NoInheritance, NewTable, Pcs
<1>3. CASE UNCHANGED vars
  <2>1. [Next]_vars
    BY <1>3
  <2> QED
    BY <2>1, StepTypeOK, StepOthers DEF IInv
<1> QED
  BY <1>1, <1>2, <1>3 DEF ServerNext, Receive, LoseAck, serverVars
\* When claims only disappear or move from the network to their client, and the
\* clock and the number of restarts only grow, what concerns the claims alone
\* stays true.
LEMMA ClaimsShrink ==
  ASSUME SInv, ClientsTypeOK', now' \in Nat, now' >= now, restarts' >= restarts,
         \A h \in HW : Claims(h)' \subseteq Claims(h) \cup {NoHold}
  PROVE  Bounded' /\ Disjoint'
<1>1. Bounded'
  <2> SUFFICES ASSUME NEW h \in HW, NEW c \in Claims(h)'
               PROVE  c.run <= restarts' /\ c.until <= now' + PeriodFor(h)
    BY DEF Bounded, PeriodFor
  <2>1. CASE c = NoHold
    BY <2>1, PeriodType DEF NoHold, ClientsTypeOK, SInv
  <2>2. CASE c \in Claims(h)
    <3>1. /\ c.run <= restarts /\ c.until <= now + PeriodFor(h)
          /\ c.run \in Nat /\ c.until \in Nat
      BY <2>2, ClaimType DEF SInv, Bounded
    <3> QED
      BY <3>1, PeriodType DEF SInv, ClientsTypeOK, IInv, TypeOK
  <2> QED
    BY <2>1, <2>2
<1>2. Disjoint'
  <2> SUFFICES ASSUME NEW g \in HW, NEW h \in HW, NEW c \in Claims(g)', NEW d \in Claims(h)',
                      c.num \in Nums, now' <= c.until, now' <= d.until,
                      c.num = d.num, c.run = d.run
               PROVE  g = h
    BY DEF Disjoint, Active
  <2>1. c # NoHold /\ d # NoHold
    BY PoolAssumption DEF NoHold
  <2>2. c \in Claims(g) /\ d \in Claims(h)
    BY <2>1
  <2>3. Active(c) /\ Active(d)
    BY <2>2, ClaimType DEF Active, SInv, IInv, TypeOK
  <2> QED
    BY <2>2, <2>3 DEF SInv, Disjoint
<1> QED
  BY <1>1, <1>2

\* When, besides, no entry changes client or loses time, and a gap stays open,
\* every claim stays backed.
LEMMA EntriesStay ==
  ASSUME SInv, ClientsTypeOK', now' \in Nat, now' >= now, restarts' = restarts,
         \A h \in HW : Claims(h)' \subseteq Claims(h) \cup {NoHold},
         \A n \in Nums :
           /\ leasesIP[n] # NoLease =>
                /\ leasesIP'[n] # NoLease /\ leasesIP'[n].hw = leasesIP[n].hw
                /\ leasesIP'[n].expiry = leasesIP[n].expiry
           /\ leasesIP[n] = NoLease => leasesIP'[n] = NoLease,
         pc = "insert" => pc' = "insert" /\ lease' = lease
  PROVE  AllBacked'
<1> SUFFICES ASSUME NEW h \in HW, NEW c \in Claims(h)',
                    c.num \in Nums, now' <= c.until, c.run = restarts
             PROVE  Backed(h, c)'
  BY DEF AllBacked, Active
<1>1. c # NoHold
  BY PoolAssumption DEF NoHold
<1>2. c \in Claims(h)
  BY <1>1
<1>3. Active(c)
  BY <1>2, ClaimType DEF Active, SInv, IInv, TypeOK
<1>4. Backed(h, c)
  BY <1>2, <1>3 DEF SInv, AllBacked
<1> QED
  BY <1>4 DEF Backed
LEMMA StepClientsType ==
  ASSUME SInv, [ServerNext]_serverVars
  PROVE  ClientsTypeOK'
<1> USE DEF SInv, ClientsTypeOK, clients, process
<1>1. ASSUME NEW h \in HW, Forget(h), UNCHANGED restarts PROVE ClientsTypeOK'
  BY <1>1 DEF Forget
<1>2. ASSUME NEW h \in HW, NEW ip \in ReqIPs, ServeRequest(h, ip) PROVE ClientsTypeOK'
  BY <1>2 DEF ServeRequest
<1>3. CASE ServeInsert
  <2>1. lease \in Lease
    BY <1>3 DEF ServeInsert, RequestInsert, IInv, TypeOK
  <2>2. Ack \in Hold
    BY <2>1, LeaseParts DEF Ack, Hold
  <2>3. acks' \in {acks, [acks EXCEPT ![lease.hw] = Ack]} /\ UNCHANGED <<held, restarts>>
    BY <1>3 DEF ServeInsert, Written, WriteFailed
  <2> QED
    BY <2>2, <2>3
<1>4. ASSUME NEW h \in HW, Receive(h) \/ LoseAck(h) PROVE ClientsTypeOK'
  BY <1>4 DEF Receive, LoseAck
<1>5. CASE Restart
  BY <1>5 DEF Restart
<1>6. CASE UNCHANGED <<held, acks, restarts>>
  BY <1>6
<1> QED
  BY <1>1, <1>2, <1>3, <1>4, <1>5, <1>6 DEF ServerNext, HandlerStep, Start, Time,
     ServeDiscover, ServeRefused, ServeStep, ServeDecline, SetHostname, Written,
     WriteFailed, serverVars

\* A claim is forgotten, moved or lost.
LEMMA ForgetShrinks ==
  ASSUME SInv, NEW g \in HW, Forget(g)
  PROVE  /\ \A h \in HW : Claims(h)' \subseteq Claims(h) \cup {NoHold}
         /\ Claims(g)' = {NoHold}
  BY DEF Forget, Claims, SInv, ClientsTypeOK

\* The steps that only make a client forget what it had.
LEMMA ForgetStep ==
  ASSUME SInv, ClientsTypeOK', NEW g \in HW, Forget(g),
         UNCHANGED <<table, request, now, restarts>>
  PROVE  AllBacked' /\ Bounded' /\ Renewing' /\ Disjoint'
<1>1. now' \in Nat /\ now' >= now /\ restarts' >= restarts
  BY DEF SInv, IInv, TypeOK, ClientsTypeOK
<1>2. Bounded' /\ Disjoint'
  BY <1>1, ClaimsShrink, ForgetShrinks
<1>3. AllBacked'
  BY <1>1, EntriesStay, ForgetShrinks DEF table, request
<1>4. Renewing'
  BY DEF Renewing, Forget, SInv, request, ClientsTypeOK, NoHold, PeriodFor, IInv, TypeOK, Lease
<1> QED
  BY <1>2, <1>3, <1>4
LEMMA StepSInv ==
  ASSUME SInv, IInv', ClientsTypeOK', [ServerNext]_serverVars
  PROVE  AllBacked' /\ Bounded' /\ Renewing' /\ Disjoint'
<1> DEFINE Goal == AllBacked' /\ Bounded' /\ Renewing' /\ Disjoint'
<1>a. /\ leasesIP \in [Nums -> Lease \cup {NoLease}] /\ now \in Nat
      /\ lease \in Lease \cup {NoLease} /\ restarts \in Nat
  BY DEF SInv, IInv, TypeOK, ClientsTypeOK
<1>1. ASSUME NEW h \in HW, NEW ip \in ReqIPs,
             ServeDiscover(h, ip) \/ ServeRefused(h, ip)
      PROVE  Goal
  <2>1. Forget(h) /\ UNCHANGED <<table, request, now, restarts>>
    BY <1>1 DEF ServeDiscover, ServeRefused, Discover, RequestRefused, process
  <2> QED
    BY <2>1, ForgetStep
<1>2. ASSUME NEW h \in HW, ServeDecline(h) PROVE Goal
  <2>1. /\ Forget(h) /\ UNCHANGED <<request, now, restarts>> /\ pc = "idle" /\ lease = NoLease
    BY <1>2 DEF ServeDecline, Decline, process, SInv, IInv, TypeOK, request
  <2>2. Bounded' /\ Disjoint'
    BY <1>a, <2>1, ClaimsShrink, ForgetShrinks
  <2>3. leasesHW[h] \in Nums /\ leasesIP[leasesHW[h]] # NoLease /\ leasesIP[leasesHW[h]].hw = h
        /\ leasesIP' = [leasesIP EXCEPT ![leasesHW[h]] =
                           [leasesIP[leasesHW[h]] EXCEPT !.expiry = now]]
    BY <1>2 DEF ServeDecline, Decline, LeaseHW, SInv, IInv, TypeOK
  <2>4. AllBacked'
    <3> SUFFICES ASSUME NEW g \in HW, NEW c \in Claims(g)',
                        c.num \in Nums, now <= c.until, c.run = restarts
                 PROVE  Backed(g, c)'
      BY <2>1 DEF AllBacked, Active
    <3>1. c # NoHold /\ g # h
      BY <2>1, ForgetShrinks, PoolAssumption DEF NoHold
    <3>2. c \in Claims(g)
      BY <2>1, <3>1, ForgetShrinks
    <3>3. Backed(g, c)
      BY <3>2 DEF SInv, AllBacked, Active
    <3>4. leasesIP[c.num] # NoLease /\ leasesIP[c.num].hw = g /\ c.num # leasesHW[h]
      BY <2>1, <2>3, <3>1, <3>3 DEF Backed
    <3> QED
      BY <1>a, <2>3, <3>3, <3>4 DEF Backed
  <2>5. Renewing'
    BY <2>1 DEF Renewing, request
  <2> QED
    BY <2>2, <2>4, <2>5
<1>3. ASSUME NEW h \in HW, NEW ip \in ReqIPs, ServeRequest(h, ip) PROVE Goal
  <2>1. /\ held' = IF held[h].num = ip THEN held ELSE [held EXCEPT ![h] = NoHold]
        /\ acks' = [acks EXCEPT ![h] = NoHold]
        /\ UNCHANGED <<table, now, restarts>> /\ pc = "idle" /\ pc' = "lookup"
    BY <1>3 DEF ServeRequest, RequestChecked, process
  <2>2. lease'.num = ip /\ lease'.hw = h /\ lease'.expiry = now + PeriodFor(h)
    BY <1>3 DEF ServeRequest, RequestChecked, CanLease
  <2>3. \A g \in HW : Claims(g)' \subseteq Claims(g) \cup {NoHold}
    BY <2>1 DEF Claims, SInv, ClientsTypeOK
  <2>4. Bounded' /\ Disjoint'
    BY <1>a, <2>1, <2>3, ClaimsShrink
  <2>5. AllBacked'
    BY <1>a, <2>1, <2>3, EntriesStay DEF table
  <2>6. Renewing'
    <3>1. acks'[h] = NoHold /\ held'[h] \in {held[h], NoHold} /\ held'[h].num \in {NoNum, ip}
      BY <2>1 DEF SInv, ClientsTypeOK, NoHold
    <3>2. held[h].until <= now + PeriodFor(h)
      BY DEF SInv, Bounded, Claims
    <3> QED
      BY <1>a, <2>1, <2>2, <3>1, <3>2, PeriodType DEF Renewing, NoHold, PeriodFor
  <2> QED
    BY <2>4, <2>5, <2>6
<1>4. CASE ServeStep
  <2>1. UNCHANGED <<held, acks, now, restarts>> /\ lease # NoLease /\ lease' # NoLease
    BY <1>4, LeaseParts DEF ServeStep, RequestStep, RequestLookup, RequestRetain, TestOverride,
       CopyHost, CopyOverride, RequestRelease, RequestInsert, clients, process, SInv, IInv,
       TypeOK, Pcs
  <2>2. \A g \in HW : Claims(g)' = Claims(g)
    BY <2>1 DEF Claims
  <2>3. Bounded' /\ Disjoint'
    BY <1>a, <2>1, <2>2, ClaimsShrink
  <2>4. lease \in Lease /\ lease.hw \in HW /\ lease.num \in Nums
    BY <1>a, <2>1, LeaseParts
  <2>5. /\ lease'.num = lease.num /\ lease'.hw = lease.hw
        /\ lease'.expiry = lease.expiry \/ lease'.expiry = Permanent
    BY <1>4, <2>4 DEF ServeStep, RequestStep, RequestLookup, RequestRetain, TestOverride,
       CopyHost, CopyOverride, RequestRelease, RequestInsert, Lease
  <2>6. Renewing'
    BY <1>a, <2>1, <2>4, <2>5, PeriodType DEF SInv, Renewing, PeriodFor
  <2>7. CASE RequestRelease
    <3>1. /\ old \in Nums /\ leasesIP[old] # NoLease /\ leasesIP[old].num = old
          /\ leasesIP[old].hw = lease.hw
      BY <2>7 DEF RequestRelease, SInv, IInv, OldLeaseKept, IndexConsistent
    <3>2. leasesIP' = [leasesIP EXCEPT ![old] = NoLease] /\ pc' = "insert" /\ pc = "release"
      BY <2>7, <3>1 DEF RequestRelease
    <3>3. AllBacked'
      <4> SUFFICES ASSUME NEW g \in HW, NEW c \in Claims(g),
                          c.num \in Nums, now <= c.until, c.run = restarts
                   PROVE  Backed(g, c)'
        BY <2>1, <2>2 DEF AllBacked, Active
      <4>1. /\ leasesIP[c.num] # NoLease /\ leasesIP[c.num].hw = g
            /\ leasesIP[c.num].expiry = Permanent \/ c.until <= leasesIP[c.num].expiry
        BY <3>2 DEF SInv, AllBacked, Active, Backed
      <4>2. CASE c.num = old
        <5>1. c = held[lease.hw] /\ g = lease.hw
          BY <2>1, <3>1, <4>1, <4>2, PoolAssumption DEF SInv, Renewing, Claims, NoHold
        <5>2. lease.num = c.num
          BY <2>1, <5>1, PoolAssumption DEF SInv, Renewing
        <5> QED
          BY <1>a, <2>5, <3>1, <3>2, <4>2, <5>1, <5>2 DEF Backed
      <4>3. CASE c.num # old
        BY <1>a, <3>1, <3>2, <4>1, <4>3 DEF Backed
      <4> QED
        BY <4>2, <4>3
    <3> QED
      BY <2>3, <2>6, <3>3
  <2>8. CASE ~RequestRelease
    <3>1. leasesIP' = leasesIP /\ pc # "insert"
      BY <1>4, <2>8 DEF ServeStep, RequestStep, RequestLookup, RequestRetain, TestOverride,
         CopyHost, CopyOverride, RequestInsert, table
    <3>2. AllBacked'
      BY <1>a, <2>1, <2>2, <3>1, EntriesStay
    <3> QED
      BY <2>3, <2>6, <3>2
  <2> QED
    BY <2>7, <2>8
<1>5. CASE ServeInsert
  <2>1. /\ lease \in Lease /\ lease # NoLease /\ lease.hw \in HW /\ lease.num \in Nums
        /\ lease.expiry \in Nat
    BY <1>5, LeaseParts DEF ServeInsert, RequestInsert, SInv, IInv, TypeOK
  <2>2. /\ leasesIP' = [leasesIP EXCEPT ![lease.num] = lease] /\ pc = "insert"
        /\ pc' = "idle" /\ lease' = NoLease /\ UNCHANGED <<now, held, restarts>>
        /\ acks' \in {acks, [acks EXCEPT ![lease.hw] = Ack]}
    BY <1>5 DEF ServeInsert, RequestInsert, Written, WriteFailed
  <2>3. /\ Ack.num = lease.num /\ Ack.until = lease.expiry /\ Ack.run = restarts
    BY DEF Ack
  <2>4. \A g \in HW : \A c \in Claims(g)' : c \in Claims(g) \/ (g = lease.hw /\ c = Ack)
    BY <2>2 DEF Claims, SInv, ClientsTypeOK
  <2>5. AllBacked'
    <3> SUFFICES ASSUME NEW g \in HW, NEW c \in Claims(g)',
                        c.num \in Nums, now <= c.until, c.run = restarts
                 PROVE  Backed(g, c)'
      BY <2>2 DEF AllBacked, Active
    <3>1. CASE g = lease.hw /\ c = Ack
      BY <1>a, <2>1, <2>2, <2>3, <3>1 DEF Backed
    <3>2. CASE c \in Claims(g) /\ g = lease.hw
      <4>1. c = held[g] /\ c.num = lease.num
        BY <2>1, <3>2, PoolAssumption DEF SInv, Renewing, Claims, NoHold
      <4>2. lease.expiry = Permanent \/ c.until <= lease.expiry
        BY <2>1, <3>2, <4>1 DEF SInv, Renewing
      <4> QED
        BY <1>a, <2>1, <2>2, <3>2, <4>1, <4>2 DEF Backed
    <3>3. CASE c \in Claims(g) /\ g # lease.hw
      <4>1. /\ leasesIP[c.num] # NoLease /\ leasesIP[c.num].hw = g
            /\ leasesIP[c.num].expiry = Permanent \/ c.until <= leasesIP[c.num].expiry
        BY <3>3 DEF SInv, AllBacked, Active, Backed
      <4>2. c.num # lease.num
        <5> SUFFICES ASSUME c.num = lease.num PROVE FALSE
          OBVIOUS
        <5>1. Expired(leasesIP[c.num])
          BY <2>1, <3>3, <4>1 DEF SInv, IInv, CheckStillValid, Available, Free
        <5>2. c.until \in Nat /\ leasesIP[c.num].expiry \in Nat
          BY <1>a, <3>3, <4>1, ClaimType, LeaseParts DEF SInv
        <5> QED
          BY <1>a, <4>1, <5>1, <5>2 DEF Expired
      <4> QED
        BY <1>a, <2>1, <2>2, <4>1, <4>2 DEF Backed
    <3> QED
      BY <2>4, <3>1, <3>2, <3>3
  <2>6. Bounded'
    <3>1. Ack.run <= restarts /\ Ack.until <= now + PeriodFor(lease.hw)
      BY <1>a, <2>1, <2>3 DEF SInv, Renewing
    <3> QED
      BY <2>2, <2>4, <3>1 DEF Bounded, SInv, PeriodFor
  <2>7. Disjoint'
    <3> SUFFICES ASSUME NEW g \in HW, NEW h \in HW, NEW c \in Claims(g)', NEW d \in Claims(h)',
                        c.num \in Nums, now <= c.until, now <= d.until,
                        c.num = d.num, c.run = d.run
                 PROVE  g = h
      BY <2>2 DEF Disjoint, Active
    <3>1. CASE c \in Claims(g) /\ d \in Claims(h)
      BY <3>1 DEF SInv, Disjoint, Active
    <3>2. CASE c = Ack \/ d = Ack
      <4>1. Backed(g, c)' /\ Backed(h, d)'
        BY <2>2, <2>3, <2>5, <3>2 DEF AllBacked, Active
      <4> QED
        BY <2>2, <4>1 DEF Backed
    <3> QED
      BY <2>4, <3>1, <3>2
  <2>8. Renewing'
    BY <2>2 DEF Renewing
  <2> QED
    BY <2>5, <2>6, <2>7, <2>8
<1>6. ASSUME NEW h \in HW, Receive(h) \/ LoseAck(h) PROVE Goal
  <2>1. /\ acks[h] # NoHold /\ held' \in {held, [held EXCEPT ![h] = acks[h]]}
        /\ acks' = [acks EXCEPT ![h] = NoHold]
        /\ UNCHANGED <<table, request, now, restarts>>
    BY <1>6 DEF Receive, LoseAck, vars, process, table, request
  <2>2. \A g \in HW : Claims(g)' \subseteq Claims(g) \cup {NoHold}
    BY <2>1 DEF Claims, SInv, ClientsTypeOK
  <2>3. Bounded' /\ Disjoint'
    BY <1>a, <2>1, <2>2, ClaimsShrink
  <2>4. AllBacked'
    BY <1>a, <2>1, <2>2, EntriesStay DEF table, request
  <2>5. Renewing'
    <3> SUFFICES ASSUME lease # NoLease PROVE Renewing'
      BY <2>1 DEF Renewing, request
    <3>1. lease.hw \in HW /\ lease.hw # h
      BY <1>a, <2>1, LeaseParts DEF SInv, Renewing
    <3>2. held'[lease.hw] = held[lease.hw] /\ acks'[lease.hw] = acks[lease.hw]
      BY <2>1, <3>1 DEF SInv, ClientsTypeOK
    <3> QED
      BY <2>1, <3>2 DEF SInv, Renewing, request, PeriodFor
  <2> QED
    BY <2>3, <2>4, <2>5
<1>7. CASE SetHostname /\ UNCHANGED clients
  <2>1. UNCHANGED <<held, acks, request, now, restarts>>
    BY <1>7 DEF SetHostname, SetHostnamePanics, SetHostnameFails, SetHostnameBegin,
       SetHostnameEnd, Written, WriteFailed, clients, process
  <2>2. \A n \in Nums :
          /\ leasesIP[n] # NoLease =>
               /\ leasesIP'[n] # NoLease /\ leasesIP'[n].hw = leasesIP[n].hw
               /\ leasesIP'[n].expiry = leasesIP[n].expiry
          /\ leasesIP[n] = NoLease => leasesIP'[n] = NoLease
    <3>1. \A l \in Lease, name \in Names :
            /\ [l EXCEPT !.host = name] # NoLease /\ [l EXCEPT !.host = name].hw = l.hw
            /\ [l EXCEPT !.host = name].expiry = l.expiry
            /\ [l EXCEPT !.over = name] # NoLease /\ [l EXCEPT !.over = name].hw = l.hw
            /\ [l EXCEPT !.over = name].expiry = l.expiry
      BY LeaseUpdate, LeaseParts DEF Lease
    <3>2. CASE SetHostnameEnd
      <4>1. editing.name \in Names /\ leasesIP[editing.num] \in Lease
        BY <3>2 DEF SetHostnameEnd, SInv, IInv, TypeOK, OldLeaseKept
      <4>2. leasesIP' = [leasesIP EXCEPT ![editing.num] =
                           [leasesIP[editing.num] EXCEPT !.over = editing.name]]
        BY <3>2 DEF SetHostnameEnd
      <4> QED
        BY <1>a, <3>1, <4>1, <4>2, LeaseParts
    <3>3. ASSUME NEW h \in HW, NEW name \in Overrides[h] \ {Torn}, SetHostnameBegin(h, name)
          PROVE  <2>2
      <4>1. name \in Names /\ leasesIP[EditNum(h)] \in Lease
        BY <1>a, <3>3, NamesAssumption, PoolAssumption
        DEF SetHostnameBegin, EditNum, SInv, IInv, TypeOK
      <4>2. leasesIP' = [leasesIP EXCEPT ![EditNum(h)] =
                           [leasesIP[EditNum(h)] EXCEPT !.host = name]]
        BY <3>3 DEF SetHostnameBegin
      <4> QED
        BY <1>a, <3>1, <4>1, <4>2, LeaseParts
    <3>4. CASE leasesIP' = leasesIP
      BY <3>4
    <3> QED
      BY <1>7, <3>2, <3>3, <3>4 DEF SetHostname, SetHostnamePanics, SetHostnameFails, table
  <2>3. \A g \in HW : Claims(g)' = Claims(g)
    BY <2>1 DEF Claims
  <2>4. Bounded' /\ Disjoint'
    BY <1>a, <2>1, <2>3, ClaimsShrink
  <2>5. AllBacked'
    BY <1>a, <2>1, <2>2, <2>3, EntriesStay DEF request
  <2>6. Renewing'
    BY <2>1 DEF SInv, Renewing, request, PeriodFor
  <2> QED
    BY <2>4, <2>5, <2>6
<1>8. CASE Start \/ Time \/ UNCHANGED serverVars
  <2>1. /\ UNCHANGED <<held, acks, table, lease, restarts>> /\ now' \in Nat /\ now' >= now
        /\ pc = "insert" => pc' = "insert"
    BY <1>8, <1>a DEF Start, Time, Serve, Tick, clients, process, serverVars, vars, table, request
  <2>2. \A g \in HW : Claims(g)' = Claims(g)
    BY <2>1 DEF Claims
  <2>3. Bounded' /\ Disjoint'
    BY <1>a, <2>1, <2>2, ClaimsShrink
  <2>4. AllBacked'
    BY <1>a, <2>1, <2>2, EntriesStay DEF table
  <2>5. Renewing'
    <3>1. lease # NoLease => lease.hw \in HW /\ lease.expiry \in Nat
      BY <1>a, LeaseParts
    <3> QED
      BY <1>a, <2>1, <3>1, PeriodType DEF SInv, Renewing, PeriodFor
  <2> QED
    BY <2>3, <2>4, <2>5
<1>9. CASE Restart
  <2>1. UNCHANGED <<held, acks, now>> /\ restarts' = restarts + 1 /\ lease' = NoLease
    BY <1>9 DEF Restart, clients
  <2>2. \A g \in HW : Claims(g)' = Claims(g)
    BY <2>1 DEF Claims
  <2>3. Bounded' /\ Disjoint'
    BY <1>a, <2>1, <2>2, ClaimsShrink
  <2>4. \A g \in HW : \A c \in Claims(g)' : c.run # restarts'
    BY <1>a, <2>1, <2>2, ClaimType DEF SInv, Bounded
  <2> QED
    BY <2>1, <2>3, <2>4 DEF AllBacked, Renewing
<1> QED
  BY <1>1, <1>2, <1>3, <1>4, <1>5, <1>6, <1>7, <1>8, <1>9 DEF ServerNext, HandlerStep

\* The inductive invariant of the process, its clients and the network.
THEOREM ServerInvariance == ServerSpec => []SInv
<1>1. ServerInit => SInv
  BY InitSInv
<1>2. SInv /\ [ServerNext]_serverVars => SInv'
  <2> SUFFICES ASSUME SInv, [ServerNext]_serverVars PROVE SInv'
    OBVIOUS
  <2>1. IInv'
    BY ServerKeepsIInv DEF SInv
  <2>2. ClientsTypeOK'
    BY StepClientsType
  <2> QED
    BY <2>1, <2>2, StepSInv DEF SInv
<1> QED
  BY <1>1, <1>2, PTL DEF ServerSpec

\* Within a run of the process no address is used by two clients at a time.
THEOREM NoAddressShared == ServerSpec => []NoTwoHolders
<1>1. SInv => NoTwoHolders
  BY DEF SInv, Disjoint, Active, Claims, NoTwoHolders, Holds
<1> QED
  BY <1>1, ServerInvariance, PTL

\* An address in use is in the table under the name of its user.
THEOREM HoldersRecorded == ServerSpec => []HolderRecorded
<1>1. SInv => HolderRecorded
  BY DEF SInv, AllBacked, Backed, Active, Claims, HolderRecorded, Holds
<1> QED
  BY <1>1, ServerInvariance, PTL

-----------------------------------------------------------------------------
(* leases.json and the gauge *)

\* An address that a client has, or is being sent, is in the file.
OnDisk ==
    ~fatal => \A h \in HW : \A c \in Claims(h) :
        Active(c) /\ c.run = restarts =>
            \/ disk[c.num] # NoLease /\ disk[c.num].hw = h
            \/ pc = "insert" /\ lease.hw = h

\* The leases with time left.
Living == {n \in Nums : leasesIP[n] # NoLease
              /\ (leasesIP[n].expiry = Permanent \/ leasesIP[n].expiry > now)}

ProcessTypeOK ==
    /\ disk \in [Nums -> Lease \cup {NoLease}]
    /\ gauge \in 0 .. LeaseRange
    /\ fatal \in BOOLEAN
    /\ restarts <= MaxRestarts

PInv ==
    /\ SInv
    /\ ProcessTypeOK
    /\ OnDisk
    /\ GaugeNotLow

\* A gauge counts some of the numbers of the pool.
LEMMA NumsFinite ==
  ASSUME NEW S \in SUBSET Nums, NEW T \in SUBSET S
  PROVE  /\ Cardinality(S) \in 0 .. LeaseRange
         /\ Cardinality(T) \in 0 .. LeaseRange
         /\ Cardinality(T) <= Cardinality(S)
<1>1. LeaseRange \in Nat \ {0}
  BY PoolAssumption
<1>2. IsFiniteSet(Nums) /\ Cardinality(Nums) = LeaseRange
  BY <1>1, FS_Interval, Z3
<1>3. IsFiniteSet(S) /\ Cardinality(S) <= LeaseRange
  BY <1>2, FS_Subset
<1>4. IsFiniteSet(T) /\ Cardinality(T) <= Cardinality(S)
  BY <1>3, FS_Subset
<1>5. Cardinality(S) \in Nat /\ Cardinality(T) \in Nat
  BY <1>3, <1>4, FS_CardinalityType
<1> QED
  BY <1>1, <1>3, <1>4, <1>5

LEMMA InitPInv == ServerInit => PInv
<1> SUFFICES ASSUME ServerInit PROVE PInv
  OBVIOUS
<1>1. ProcessTypeOK
  <2>1. fatal \in BOOLEAN
    BY DEF ServerInit
  <2>2. gauge \in 0 .. LeaseRange /\ restarts <= MaxRestarts
    BY PoolAssumption, RestartsAssumption DEF ServerInit
  <2>3. disk \in [Nums -> Lease \cup {NoLease}]
    BY DEF ServerInit
  <2> QED
    BY <2>1, <2>2, <2>3 DEF ProcessTypeOK
<1>2. OnDisk
  BY PoolAssumption DEF ServerInit, OnDisk, Claims, Active, NoHold
<1>3. Living = {}
  BY DEF ServerInit, Init, NewTable, Living
<1>4. Cardinality(Living) = 0
  BY <1>3, FS_EmptySet
<1>5. GaugeNotLow
  BY <1>4 DEF GaugeNotLow, Living, ServerInit
<1> QED
  BY <1>1, <1>2, <1>5, InitSInv DEF PInv

\* The steps that are neither a callback nor a restart: the file and the gauge
\* stay, no client gains an address, no lease gains time.
Quiet ==
    /\ UNCHANGED process
    /\ now' >= now
    /\ \A h \in HW : Claims(h)' \subseteq Claims(h) \cup {NoHold}
    /\ pc = "insert" => pc' = "insert" /\ lease' = lease
    /\ Living' \subseteq Living

LEMMA StepKinds ==
  ASSUME SInv, [ServerNext]_serverVars
  PROVE  \/ Quiet
         \/ Written /\ now' = now
         \/ WriteFailed
         \/ Restart
<1> DEFINE Goal == Quiet \/ (Written /\ now' = now) \/ WriteFailed \/ Restart
<1>a. /\ leasesIP \in [Nums -> Lease \cup {NoLease}] /\ now \in Nat \ {0}
      /\ ClientsTypeOK
  BY DEF SInv, IInv, TypeOK
<1>b. ASSUME UNCHANGED <<leasesIP, now>> PROVE Living' = Living
  BY <1>b DEF Living
<1>1. ASSUME NEW h \in HW, Forget(h), UNCHANGED <<table, request, now, process>> PROVE Goal
  BY <1>a, <1>b, <1>1, ForgetShrinks DEF Quiet, table, request
<1>2. ASSUME NEW h \in HW, NEW ip \in ReqIPs, ServeDiscover(h, ip) \/ ServeRefused(h, ip)
      PROVE  Goal
  BY <1>1, <1>2 DEF ServeDiscover, ServeRefused, Discover, RequestRefused
<1>3. ASSUME NEW h \in HW, ServeDecline(h) PROVE Goal
  <2>1. Forget(h) /\ UNCHANGED <<request, now, process>>
    BY <1>3 DEF ServeDecline, Decline
  <2>2. /\ leasesHW[h] \in Nums /\ leasesIP[leasesHW[h]] \in Lease
        /\ leasesIP' = [leasesIP EXCEPT ![leasesHW[h]] =
                           [leasesIP[leasesHW[h]] EXCEPT !.expiry = now]]
    BY <1>3 DEF ServeDecline, Decline, LeaseHW, SInv, IInv, TypeOK
  <2>3. [leasesIP[leasesHW[h]] EXCEPT !.expiry = now].expiry = now
    BY <2>2 DEF Lease
  <2>4. ASSUME NEW n \in Living' PROVE n \in Living
    BY <1>a, <2>1, <2>2, <2>3, <2>4 DEF Living
  <2> QED
    BY <1>a, <2>1, <2>4, ForgetShrinks DEF Quiet, request
<1>4. ASSUME NEW h \in HW, NEW ip \in ReqIPs, ServeRequest(h, ip) PROVE Goal
  <2>1. /\ held' = IF held[h].num = ip THEN held ELSE [held EXCEPT ![h] = NoHold]
        /\ acks' = [acks EXCEPT ![h] = NoHold]
        /\ UNCHANGED <<leasesIP, now, process>> /\ pc = "idle"
    BY <1>4 DEF ServeRequest, RequestChecked, table
  <2>2. \A g \in HW : Claims(g)' \subseteq Claims(g) \cup {NoHold}
    BY <1>a, <2>1 DEF Claims, ClientsTypeOK
  <2> QED
    BY <1>a, <1>b, <2>1, <2>2 DEF Quiet
<1>5. CASE ServeStep
  <2>1. UNCHANGED <<held, acks, now, process>> /\ pc # "insert"
    BY <1>5 DEF ServeStep, RequestStep, RequestLookup, RequestRetain, TestOverride,
       CopyHost, CopyOverride, RequestRelease, RequestInsert, clients
  <2>2. \A g \in HW : Claims(g)' = Claims(g)
    BY <2>1 DEF Claims
  <2>3. leasesIP' = leasesIP \/ \E n \in Nums : leasesIP' = [leasesIP EXCEPT ![n] = NoLease]
    <3>1. CASE RequestRelease
      <4>1. old \in Nums /\ leasesIP[old].num = old
        BY <3>1 DEF RequestRelease, SInv, IInv, OldLeaseKept, IndexConsistent
      <4> QED
        BY <3>1, <4>1 DEF RequestRelease
    <3> QED
      BY <1>5, <2>1, <3>1 DEF ServeStep, RequestStep, RequestLookup, RequestRetain,
         TestOverride, CopyHost, CopyOverride, RequestInsert, table
  <2>4. Living' \subseteq Living
    BY <1>a, <2>1, <2>3 DEF Living
  <2> QED
    BY <1>a, <2>1, <2>2, <2>4 DEF Quiet
<1>6. CASE ServeInsert
  BY <1>6 DEF ServeInsert, RequestInsert
<1>7. ASSUME NEW h \in HW, Receive(h) \/ LoseAck(h) PROVE Goal
  <2>1. /\ held' \in {held, [held EXCEPT ![h] = acks[h]]}
        /\ acks' = [acks EXCEPT ![h] = NoHold]
        /\ UNCHANGED <<leasesIP, pc, lease, now, process>>
    BY <1>7 DEF Receive, LoseAck, vars
  <2>2. \A g \in HW : Claims(g)' \subseteq Claims(g) \cup {NoHold}
    BY <1>a, <2>1 DEF Claims, ClientsTypeOK
  <2> QED
    BY <1>a, <1>b, <2>1, <2>2 DEF Quiet
<1>8. CASE SetHostname /\ UNCHANGED clients
  <2>1. UNCHANGED <<held, acks, request, now>>
    BY <1>8 DEF SetHostname, SetHostnamePanics, SetHostnameFails, SetHostnameBegin,
       SetHostnameEnd, clients
  <2>2. \A g \in HW : Claims(g)' = Claims(g)
    BY <2>1 DEF Claims
  <2>3. ASSUME NEW h \in HW, NEW name \in Overrides[h] \ {Torn}, SetHostnameBegin(h, name)
        PROVE  Living' \subseteq Living
    <3>1. EditNum(h) \in Nums /\ name \in Names /\ leasesIP[EditNum(h)] \in Lease
      BY <1>a, <2>3, NamesAssumption, PoolAssumption
      DEF SetHostnameBegin, EditNum, SInv, IInv, TypeOK
    <3>2. leasesIP' = [leasesIP EXCEPT ![EditNum(h)] =
                         [leasesIP[EditNum(h)] EXCEPT !.host = name]]
      BY <2>3 DEF SetHostnameBegin
    <3>3. [leasesIP[EditNum(h)] EXCEPT !.host = name].expiry = leasesIP[EditNum(h)].expiry
      BY <3>1 DEF Lease
    <3>4. ASSUME NEW n \in Living' PROVE n \in Living
      BY <1>a, <2>1, <3>1, <3>2, <3>3, <3>4, LeaseParts DEF Living
    <3> QED
      BY <3>4
  <2>4. CASE SetHostnameEnd /\ (Written \/ WriteFailed)
    BY <2>1, <2>4
  <2>5. CASE (\E h \in HW : SetHostnamePanics(h) \/ SetHostnameFails(h)) /\ UNCHANGED process
    <3>1. Living' = Living
      BY <1>b, <2>5 DEF SetHostnamePanics, SetHostnameFails, table
    <3> QED
      BY <1>a, <2>1, <2>2, <2>5, <3>1 DEF Quiet, request
  <2>6. CASE /\ \E h \in HW : \E name \in Overrides[h] \ {NoName, Torn} : SetHostnameBegin(h, name)
             /\ UNCHANGED process
    <3>1. Living' \subseteq Living
      BY <2>3, <2>6
    <3> QED
      BY <1>a, <2>1, <2>2, <2>6, <3>1 DEF Quiet, request
  <2> QED
    BY <1>8, <2>4, <2>5, <2>6 DEF SetHostname
<1>9. CASE Start \/ Time \/ UNCHANGED serverVars
  <2>1. /\ UNCHANGED <<held, acks, leasesIP, lease, process>> /\ now' \in Nat /\ now' >= now
        /\ pc = "insert" => pc' = "insert"
    BY <1>9, <1>a DEF Start, Time, Serve, Tick, clients, process, serverVars, vars, table, request
  <2>2. \A g \in HW : Claims(g)' = Claims(g)
    BY <2>1 DEF Claims
  <2>3. ASSUME NEW n \in Living' PROVE n \in Living
    BY <1>a, <2>1, <2>3, LeaseParts DEF Living
  <2> QED
    BY <2>1, <2>2, <2>3 DEF Quiet
<1> QED
  BY <1>2, <1>3, <1>4, <1>5, <1>6, <1>7, <1>8, <1>9 DEF ServerNext, HandlerStep

LEMMA StepProcessType ==
  ASSUME SInv, SInv', ProcessTypeOK, [ServerNext]_serverVars
  PROVE  ProcessTypeOK'
<1>1. leasesIP' \in [Nums -> Lease \cup {NoLease}] /\ restarts \in Nat /\ MaxRestarts \in Nat
  BY RestartsAssumption DEF SInv, IInv, TypeOK, ClientsTypeOK
<1>2. NonExpired(leasesIP') \in 0 .. LeaseRange
  BY NumsFinite DEF NonExpired
<1>3. 0 \in 0 .. LeaseRange
  BY PoolAssumption
<1>4. disk' \in [Nums -> Lease \cup {NoLease}]
  BY <1>1, StepKinds DEF Quiet, Written, WriteFailed, Restart, process, ProcessTypeOK
<1>5. gauge' \in 0 .. LeaseRange
  BY <1>2, <1>3, StepKinds DEF Quiet, Written, WriteFailed, Restart, process, ProcessTypeOK
<1>6. fatal' = fatal \/ fatal' = TRUE \/ fatal' = FALSE
  BY StepKinds DEF Quiet, Written, WriteFailed, Restart, process
<1>7. fatal' \in BOOLEAN
  BY <1>6 DEF ProcessTypeOK
<1>8. restarts' <= MaxRestarts
  <2>1. restarts' = restarts \/ (restarts < MaxRestarts /\ restarts' = restarts + 1)
    BY StepKinds DEF Quiet, Written, WriteFailed, Restart, process
  <2>2. restarts <= MaxRestarts
    BY DEF ProcessTypeOK
  <2> QED
    BY <1>1, <2>1, <2>2
<1> QED
  BY <1>4, <1>5, <1>7, <1>8 DEF ProcessTypeOK

LEMMA StepOnDisk ==
  ASSUME SInv, SInv', OnDisk, [ServerNext]_serverVars
  PROVE  OnDisk'
<1>1. CASE Written /\ now' = now
  <2> SUFFICES ASSUME NEW h \in HW, NEW c \in Claims(h)', Active(c)', c.run = restarts'
               PROVE  \/ disk'[c.num] # NoLease /\ disk'[c.num].hw = h
                      \/ pc' = "insert" /\ lease'.hw = h
    BY DEF OnDisk
  <2>1. Backed(h, c)'
    BY DEF SInv, AllBacked
  <2> QED
    BY <1>1, <2>1 DEF Backed, Written
<1>2. CASE WriteFailed
  BY <1>2 DEF WriteFailed, OnDisk
<1>3. CASE Restart
  <2>1. UNCHANGED <<held, acks>> /\ restarts' = restarts + 1
    BY <1>3 DEF Restart, clients
  <2>2. \A g \in HW : Claims(g)' = Claims(g)
    BY <2>1 DEF Claims
  <2>3. restarts \in Nat
    BY DEF SInv, ClientsTypeOK
  <2>4. \A g \in HW : \A c \in Claims(g)' : c.run # restarts'
    BY <2>1, <2>2, <2>3, ClaimType DEF SInv, Bounded
  <2> QED
    BY <2>4 DEF OnDisk
<1>4. CASE Quiet
  <2> SUFFICES ASSUME ~fatal', NEW h \in HW, NEW c \in Claims(h)',
                      Active(c)', c.run = restarts'
               PROVE  \/ disk'[c.num] # NoLease /\ disk'[c.num].hw = h
                      \/ pc' = "insert" /\ lease'.hw = h
    BY DEF OnDisk
  <2>1. c # NoHold
    BY PoolAssumption DEF NoHold, Active
  <2>2. c \in Claims(h)
    BY <1>4, <2>1 DEF Quiet
  <2>3. c.until \in Nat /\ now \in Nat /\ now' \in Nat
    BY <2>2, ClaimType DEF SInv, IInv, TypeOK
  <2>4. Active(c)
    BY <1>4, <2>3 DEF Quiet, Active
  <2> QED
    BY <1>4, <2>2, <2>4 DEF Quiet, OnDisk, process
<1> QED
  BY <1>1, <1>2, <1>3, <1>4, StepKinds

LEMMA StepGauge ==
  ASSUME SInv, SInv', ProcessTypeOK, GaugeNotLow, [ServerNext]_serverVars
  PROVE  GaugeNotLow'
<1>1. Cardinality(Living) \in Nat /\ Cardinality(Living') \in Nat
  BY NumsFinite DEF Living
<1>2. CASE Written /\ now' = now
  <2> DEFINE Counted == {n \in Nums : leasesIP'[n] # NoLease /\ ~Expired(leasesIP'[n])}
  <2>1. ASSUME NEW n \in Living' PROVE n \in Counted
    <3>1. n \in Nums /\ leasesIP'[n] # NoLease
          /\ (leasesIP'[n].expiry = Permanent \/ leasesIP'[n].expiry > now)
      BY <1>2, <2>1 DEF Living
    <3>2. leasesIP'[n].expiry \in Nat /\ now \in Nat
      BY <3>1, LeaseParts DEF SInv, IInv, TypeOK
    <3> QED
      BY <3>1, <3>2 DEF Expired
  <2>2. Cardinality(Living') <= Cardinality(Counted)
    BY <2>1, NumsFinite
  <2>3. gauge' = Cardinality(Counted)
    BY <1>2 DEF Written, NonExpired
  <2>4. Cardinality(Counted) \in 0 .. LeaseRange
    BY NumsFinite
  <2> QED
    BY <1>1, <2>2, <2>3, <2>4 DEF GaugeNotLow, Living
<1>3. CASE WriteFailed
  BY <1>3 DEF WriteFailed, GaugeNotLow
<1>4. CASE Restart
  <2>1. Living' = {}
    BY <1>4 DEF Restart, Living
  <2>2. Cardinality(Living') = 0
    BY <2>1, FS_EmptySet
  <2> QED
    BY <1>4, <2>2 DEF Restart, GaugeNotLow, Living
<1>5. CASE Quiet
  <2>1. Cardinality(Living') <= Cardinality(Living)
    <3>1. Living \in SUBSET Nums /\ Living' \in SUBSET Living
      BY <1>5 DEF Quiet, Living
    <3> QED
      BY <3>1, NumsFinite
  <2>2. gauge' = gauge /\ fatal' = fatal /\ gauge \in Nat
    BY <1>5 DEF Quiet, process, ProcessTypeOK
  <2> QED
    BY <1>1, <2>1, <2>2 DEF GaugeNotLow, Living
<1> QED
  BY <1>2, <1>3, <1>4, <1>5, StepKinds

\* The inductive invariant of leases.json and the gauge.
THEOREM ProcessInvariance == ServerSpec => []PInv
<1>1. ServerInit => PInv
  BY InitPInv
<1>2. PInv /\ SInv' /\ [ServerNext]_serverVars => PInv'
  BY StepProcessType, StepOnDisk, StepGauge DEF PInv
<1> QED
  BY <1>1, <1>2, ServerInvariance, PTL DEF ServerSpec

\* Every variable of the server, of its clients and of the network has its type.
THEOREM ServerTypeCorrect == ServerSpec => []ServerTypeOK
<1>1. PInv => ServerTypeOK
  BY RestartsAssumption
  DEF PInv, SInv, IInv, ClientsTypeOK, ProcessTypeOK, ServerTypeOK
<1> QED
  BY <1>1, ProcessInvariance, PTL

\* While no write has failed, leases.json names the user of an address in use.
THEOREM HoldersOnDisk == ServerSpec => []HolderOnDisk
<1>1. PInv => HolderOnDisk
  BY DEF PInv, OnDisk, Active, Claims, HolderOnDisk, Holds
<1> QED
  BY <1>1, ProcessInvariance, PTL

\* The gauge never shows fewer leases than have time left.
THEOREM GaugeIsNotLow == ServerSpec => []GaugeNotLow
  BY ProcessInvariance, PTL DEF PInv
=============================================================================
