------------------------- MODULE Netconfigd_proofs -------------------------
(***************************************************************************)
(* Proofs about Netconfigd, for every set of leases and prefixes and any   *)
(* number of writes, failed calls and crashes.                             *)
(***************************************************************************)
EXTENDS Netconfigd, TLAPS

LEMMA Limits == MaxWrites \in Nat /\ MaxFailures \in Nat
  BY NetAssumption

LEMMA NoneApart ==
  /\ None \notin Leases /\ None \notin Prefixes
  /\ None # "" /\ None # "eth0" /\ None # "uplink0"
  BY NetAssumption

LEMMA Sequel ==
  /\ DOMAIN Then = {"dhcp6", "sysctl", "firewall", "wireguard"}
  /\ Then["dhcp6"] = "sysctl" /\ Then["sysctl"] = "firewall"
  /\ Then["firewall"] = "wireguard" /\ Then["wireguard"] = "return"
  BY DEF Then

\* TypeOK in parts.
NetTypeOK ==
    /\ pc \in {"start", "interfaces", "dhcp4", "replace", "delete", "default", "dhcp6",
               "sysctl", "firewall", "wireguard", "return", "wait", "exited", "crashed"}
    /\ got \in Leases \cup {None} /\ default \in Leases \cup {None}
    /\ hostRoutes \subseteq Leases
    /\ old \subseteq Addrs /\ addrs \subseteq Addrs /\ secondary \subseteq addrs
FlagsOK ==
    /\ subscribed \in BOOLEAN /\ ch \in BOOLEAN /\ failed \in BOOLEAN
    /\ signalled \in BOOLEAN /\ forwards \in BOOLEAN
ListenOK ==
    /\ lan \subseteq Prefixes \cup {Static}
    /\ seen \subseteq Prefixes \cup {Static} /\ listening \subseteq Prefixes \cup {Static}
UplinkOK ==
    /\ uplink \in {None, "eth0", "uplink0"}
    /\ ruleset \in {None, "", "eth0", "uplink0"}
FilesOK ==
    /\ file \in [Writers -> Leases \cup Prefixes \cup {None}]
    /\ file["dhcp4"] \in Leases \cup {None} /\ file["dhcp6"] \in Prefixes \cup {None}
    /\ writer \in [Writers -> {"obtain", "signal", "idle"}]
BoundsOK == writes \in 0 .. MaxWrites /\ failures \in 0 .. MaxFailures

LEMMA TypeParts ==
  TypeOK <=> NetTypeOK /\ FlagsOK /\ ListenOK /\ UplinkOK /\ FilesOK /\ BoundsOK
  BY DEF TypeOK, NetTypeOK, FlagsOK, ListenOK, UplinkOK, FilesOK, BoundsOK

\* The steps of Apply that work on the DHCPv4 lease it has read.
Applying4 == pc \in {"replace", "delete", "default"}

\* An address that is secondary has joined one that is not; routes leave from
\* addresses of the uplink, and the default route, which no deletion of another
\* address may take away, from one that is not secondary and has its router's
\* route; while a lease is applied, what is to be deleted is all but its address.
Routes ==
    /\ \A b \in secondary : \E a \in addrs \ secondary : Subnet[a] = Subnet[b]
    /\ \A l \in hostRoutes : l.addr \in addrs
    /\ default # None =>
         /\ default.addr \in addrs \ secondary
         /\ \E l \in hostRoutes : l.router = default.router /\ l.addr = default.addr
    /\ Applying4 => got \in Leases
    /\ pc = "delete" => got.addr \notin old /\ addrs \subseteq old \cup {got.addr}
    /\ pc = "default" => addrs = {got.addr} /\ got \in hostRoutes

\* The process has subscribed before it reads a file, and nothing that was
\* written is signalled before it is written.
Subscribed ==
    /\ pc \notin {"start", "exited", "crashed"} => subscribed
    /\ pc = "wait" => ~failed
    /\ \A w \in Writers : writer[w] # "obtain" => file[w] # None

AfterFirewall == {"wireguard", "return", "wait"}
AfterDhcp6 == {"sysctl", "firewall"} \cup AfterFirewall
AfterDhcp4 == {"dhcp6"} \cup AfterDhcp6

\* With no signal pending, what this Apply has read or applied is what the files
\* still say.
InForce4 ==
    ~failed /\ ~ch /\ writer["dhcp4"] = "idle" =>
        /\ Applying4 => got = file["dhcp4"] /\ uplink = "uplink0"
        /\ pc \in AfterDhcp4 =>
             /\ addrs = {file["dhcp4"].addr} /\ default = file["dhcp4"]
             /\ file["dhcp4"] \in hostRoutes /\ uplink = "uplink0"
        /\ pc \in AfterFirewall => ruleset = "uplink0"

InForce6 ==
    ~failed /\ ~ch /\ writer["dhcp6"] = "idle" =>
        (pc \in AfterDhcp6 => file["dhcp6"] \in lan)

\* The ruleset has rules for uplink0 only once the uplink has that name, which it keeps.
NamedUplink == ruleset = "uplink0" => uplink = "uplink0"

NInv ==
    /\ TypeOK
    /\ Routes
    /\ Subscribed
    /\ InForce4
    /\ InForce6
    /\ NamedUplink
    /\ ListenersNotified

LEMMA InitNInv == Init => NInv
<1> SUFFICES ASSUME Init PROVE NInv
  OBVIOUS
<1> USE DEF Init
<1>1. TypeOK
  <2>1. file \in [Writers -> Leases \cup Prefixes \cup {None}]
        /\ writer \in [Writers -> {"obtain", "signal", "idle"}]
    BY DEF Writers
  <2>2. file["dhcp4"] = None /\ file["dhcp6"] = None
    BY DEF Writers
  <2>3. uplink \in {None, "eth0", "uplink0"} /\ ruleset \in {None, "", "eth0", "uplink0"}
    OBVIOUS
  <2>4. subscribed \in BOOLEAN /\ ch \in BOOLEAN /\ failed \in BOOLEAN
        /\ signalled \in BOOLEAN /\ forwards \in BOOLEAN
    OBVIOUS
  <2>5. writes \in 0 .. MaxWrites /\ failures \in 0 .. MaxFailures
    BY Limits
  <2>6. pc = "start" /\ got = None /\ default = None
        /\ old = {} /\ addrs = {} /\ secondary = {} /\ lan = {} /\ seen = {}
        /\ listening = {} /\ hostRoutes = {}
    OBVIOUS
  <2> QED
    BY <2>1, <2>2, <2>3, <2>4, <2>5, <2>6 DEF TypeOK
<1>2. Routes /\ Subscribed /\ InForce4 /\ InForce6 /\ NamedUplink /\ ListenersNotified
  BY NoneApart DEF NamedUplink, Routes, Applying4, Subscribed, InForce4, InForce6, ListenersNotified, Writers
<1> QED
  BY <1>1, <1>2 DEF NInv

\* The addresses and routes of the uplink are changed by five steps of applyDhcp4.
LEMMA RouteSteps ==
  ASSUME [Next]_vars
  PROVE  \/ ReadLease4 \/ ReplaceAddr \/ DeleteAddr \/ RouteRouter \/ RouteDefault
         \/ /\ UNCHANGED uplinkNet
            /\ (UNCHANGED <<pc, got, old>>) \/ pc' \notin {"replace", "delete", "default"}
  BY Sequel DEF Next, Apply, Environment, Start, Wake, Return, ApplyInterfaces, ApplyInterfacesFails,
     SkipDhcp4, ReadLease4, ReplaceAddr, DeleteAddr, AddrMissing, RouteRouter, RouteDefault,
     ApplyDhcp4Fails, ApplyDhcp6, ApplyUnseen, StepFails, ApplyFirewall, Crash, Supervise, WriteLease,
     SignalNetconfigd, WriterCrash, Dhcp4dListens, EditForwards, LinkAppears, vars, process,
     local, uplinkNet, kernel, input, peer

LEMMA StepNetTypeOK ==
  ASSUME TypeOK, Routes, [Next]_vars
  PROVE  NetTypeOK'
<1>1. NetTypeOK /\ file["dhcp4"] \in Leases \cup {None} /\ (Applying4 => got \in Leases)
  BY TypeParts DEF FilesOK, Routes
<1>2. pc' \in {"start", "interfaces", "dhcp4", "replace", "delete", "default", "dhcp6",
              "sysctl", "firewall", "wireguard", "return", "wait", "exited", "crashed"}
  BY <1>1, Sequel
  DEF NetTypeOK, Next, Apply, Environment, Start, Wake, Return, ApplyInterfaces, ApplyInterfacesFails,
     SkipDhcp4, ReadLease4, ReplaceAddr, DeleteAddr, AddrMissing, RouteRouter, RouteDefault,
     ApplyDhcp4Fails, ApplyDhcp6, ApplyUnseen, StepFails, ApplyFirewall, Crash, Supervise, WriteLease,
     SignalNetconfigd, WriterCrash, Dhcp4dListens, EditForwards, LinkAppears, vars, process,
     local, uplinkNet, kernel, input, peer
<1>3. got' \in Leases \cup {None} /\ default' \in Leases \cup {None}
      /\ hostRoutes' \subseteq Leases
  BY <1>1, Sequel
  DEF NetTypeOK, Applying4, Next, Apply, Environment, Start, Wake, Return, ApplyInterfaces, ApplyInterfacesFails,
     SkipDhcp4, ReadLease4, ReplaceAddr, DeleteAddr, AddrMissing, RouteRouter, RouteDefault,
     ApplyDhcp4Fails, ApplyDhcp6, ApplyUnseen, StepFails, ApplyFirewall, Crash, Supervise, WriteLease,
     SignalNetconfigd, WriterCrash, Dhcp4dListens, EditForwards, LinkAppears, vars, process,
     local, uplinkNet, kernel, input, peer
<1>4. old' \subseteq Addrs /\ addrs' \subseteq Addrs
  BY <1>1, Sequel
  DEF NetTypeOK, Addrs, Applying4, Next, Apply, Environment, Start, Wake, Return, ApplyInterfaces, ApplyInterfacesFails,
     SkipDhcp4, ReadLease4, ReplaceAddr, DeleteAddr, AddrMissing, RouteRouter, RouteDefault,
     ApplyDhcp4Fails, ApplyDhcp6, ApplyUnseen, StepFails, ApplyFirewall, Crash, Supervise, WriteLease,
     SignalNetconfigd, WriterCrash, Dhcp4dListens, EditForwards, LinkAppears, vars, process,
     local, uplinkNet, kernel, input, peer
<1>5. secondary' \subseteq addrs'
  <2>1. CASE ReplaceAddr
    BY <1>1, <2>1 DEF NetTypeOK, ReplaceAddr, Secondaries
  <2>2. CASE DeleteAddr
    BY <1>1, <2>2 DEF NetTypeOK, DeleteAddr
  <2>3. CASE UNCHANGED <<addrs, secondary>>
    BY <1>1, <2>3 DEF NetTypeOK
  <2> QED
    BY <2>1, <2>2, <2>3, RouteSteps DEF ReadLease4, RouteRouter, RouteDefault, uplinkNet,
       kernel
<1> QED
  BY <1>2, <1>3, <1>4, <1>5 DEF NetTypeOK

LEMMA StepFlagsOK ==
  ASSUME TypeOK, Routes, [Next]_vars
  PROVE  FlagsOK'
  BY TypeParts, Sequel
  DEF FlagsOK, Next, Apply, Environment, Start, Wake, Return, ApplyInterfaces, ApplyInterfacesFails,
     SkipDhcp4, ReadLease4, ReplaceAddr, DeleteAddr, AddrMissing, RouteRouter, RouteDefault,
     ApplyDhcp4Fails, ApplyDhcp6, ApplyUnseen, StepFails, ApplyFirewall, Crash, Supervise, WriteLease,
     SignalNetconfigd, WriterCrash, Dhcp4dListens, EditForwards, LinkAppears, vars, process,
     local, uplinkNet, kernel, input, peer

LEMMA StepListenOK ==
  ASSUME TypeOK, Routes, [Next]_vars
  PROVE  ListenOK'
  BY TypeParts, Sequel
  DEF ListenOK, UpdateListeners, Private, FilesOK, Writers, Next, Apply, Environment, Start, Wake, Return, ApplyInterfaces, ApplyInterfacesFails,
     SkipDhcp4, ReadLease4, ReplaceAddr, DeleteAddr, AddrMissing, RouteRouter, RouteDefault,
     ApplyDhcp4Fails, ApplyDhcp6, ApplyUnseen, StepFails, ApplyFirewall, Crash, Supervise, WriteLease,
     SignalNetconfigd, WriterCrash, Dhcp4dListens, EditForwards, LinkAppears, vars, process,
     local, uplinkNet, kernel, input, peer

LEMMA StepUplinkOK ==
  ASSUME TypeOK, Routes, [Next]_vars
  PROVE  UplinkOK'
  BY TypeParts, Sequel
  DEF UplinkOK, Next, Apply, Environment, Start, Wake, Return, ApplyInterfaces, ApplyInterfacesFails,
     SkipDhcp4, ReadLease4, ReplaceAddr, DeleteAddr, AddrMissing, RouteRouter, RouteDefault,
     ApplyDhcp4Fails, ApplyDhcp6, ApplyUnseen, StepFails, ApplyFirewall, Crash, Supervise, WriteLease,
     SignalNetconfigd, WriterCrash, Dhcp4dListens, EditForwards, LinkAppears, vars, process,
     local, uplinkNet, kernel, input, peer

\* The files and their writers are changed by the writers only.
LEMMA FileSteps ==
  ASSUME [Next]_vars
  PROVE  \/ UNCHANGED <<file, writer>>
         \/ \E w \in Writers : WriteLease(w) \/ SignalNetconfigd(w) \/ WriterCrash(w)
  BY Sequel DEF Next, Apply, Environment, Start, Wake, Return, ApplyInterfaces, ApplyInterfacesFails,
     SkipDhcp4, ReadLease4, ReplaceAddr, DeleteAddr, AddrMissing, RouteRouter, RouteDefault,
     ApplyDhcp4Fails, ApplyDhcp6, ApplyUnseen, StepFails, ApplyFirewall, Crash, Supervise, WriteLease,
     SignalNetconfigd, WriterCrash, Dhcp4dListens, EditForwards, LinkAppears, vars, process,
     local, uplinkNet, kernel, input, peer

LEMMA StepFilesOK ==
  ASSUME TypeOK, Routes, [Next]_vars
  PROVE  FilesOK'
<1> USE TypeParts DEF FilesOK
<1>1. CASE UNCHANGED <<file, writer>>
  BY <1>1
<1>2. ASSUME NEW w \in Writers, WriteLease(w) PROVE FilesOK'
  <2>1. PICK l \in IF w = "dhcp4" THEN Leases ELSE Prefixes : file' = [file EXCEPT ![w] = l]
    BY <1>2 DEF WriteLease
  <2>2. file' \in [Writers -> Leases \cup Prefixes \cup {None}]
    BY <2>1
  <2>3. file'["dhcp4"] \in Leases \cup {None} /\ file'["dhcp6"] \in Prefixes \cup {None}
    BY <2>1 DEF Writers
  <2>4. writer' \in [Writers -> {"obtain", "signal", "idle"}]
    BY <1>2 DEF WriteLease
  <2> QED
    BY <2>2, <2>3, <2>4
<1>3. ASSUME NEW w \in Writers, SignalNetconfigd(w) \/ WriterCrash(w) PROVE FilesOK'
  BY <1>3 DEF SignalNetconfigd, WriterCrash
<1> QED
  BY <1>1, <1>2, <1>3, FileSteps

LEMMA StepBoundsOK ==
  ASSUME TypeOK, Routes, [Next]_vars
  PROVE  BoundsOK'
<1>1. failures' = failures \/ (failures < MaxFailures /\ failures' = failures + 1)
  BY Sequel DEF Next, Apply, Environment, Start, Wake, Return, ApplyInterfaces, ApplyInterfacesFails,
     SkipDhcp4, ReadLease4, ReplaceAddr, DeleteAddr, AddrMissing, RouteRouter, RouteDefault,
     ApplyDhcp4Fails, ApplyDhcp6, ApplyUnseen, StepFails, ApplyFirewall, Crash, Supervise, WriteLease,
     SignalNetconfigd, WriterCrash, Dhcp4dListens, EditForwards, LinkAppears, vars, process,
     local, uplinkNet, kernel, input, peer
<1>2. writes' = writes \/ (writes < MaxWrites /\ writes' = writes + 1)
  BY Sequel DEF Next, Apply, Environment, Start, Wake, Return, ApplyInterfaces, ApplyInterfacesFails,
     SkipDhcp4, ReadLease4, ReplaceAddr, DeleteAddr, AddrMissing, RouteRouter, RouteDefault,
     ApplyDhcp4Fails, ApplyDhcp6, ApplyUnseen, StepFails, ApplyFirewall, Crash, Supervise, WriteLease,
     SignalNetconfigd, WriterCrash, Dhcp4dListens, EditForwards, LinkAppears, vars, process,
     local, uplinkNet, kernel, input, peer
<1>3. writes \in 0 .. MaxWrites /\ failures \in 0 .. MaxFailures
  BY TypeParts DEF BoundsOK
<1>4. writes' \in 0 .. MaxWrites
  BY <1>2, <1>3, Limits
<1>5. failures' \in 0 .. MaxFailures
  BY <1>1, <1>3, Limits
<1> QED
  BY <1>4, <1>5 DEF BoundsOK

\* What deleting an address does to the uplink.
LEMMA DeletedAddr ==
  ASSUME TypeOK, Routes, DeleteAddr
  PROVE  /\ \E a \in old :
              /\ old' = old \ {a}
              /\ addrs' = addrs \ Gone(a) /\ secondary' = secondary \ Gone(a)
              /\ hostRoutes' = {l \in hostRoutes : l.addr \notin Gone(a)}
              /\ default' = IF default # None /\ default.addr \in Gone(a)
                            THEN None ELSE default
         /\ UNCHANGED <<pc, got>> /\ pc = "delete"
  BY DEF DeleteAddr

LEMMA StepRoutes ==
  ASSUME TypeOK, Routes, [Next]_vars
  PROVE  Routes'
<1> USE DEF Routes, Applying4
<1>a. hostRoutes \subseteq Leases /\ file["dhcp4"] \in Leases \cup {None}
      /\ secondary \subseteq addrs
  BY DEF TypeOK
<1>1. CASE ReadLease4
  BY <1>1, <1>a DEF ReadLease4, kernel, uplinkNet
<1>2. CASE ReplaceAddr
  <2>1. /\ addrs' = addrs \cup {got.addr} /\ secondary' = Secondaries
        /\ old' = addrs' \ {got.addr} /\ pc' = "delete"
        /\ UNCHANGED <<got, hostRoutes, default>> /\ got \in Leases
    BY <1>2 DEF ReplaceAddr
  <2>2. \A b \in secondary' : \E a \in addrs' \ secondary' : Subnet[a] = Subnet[b]
    <3>1. CASE secondary' = secondary \cup {got.addr} /\ got.addr \notin addrs
               /\ \E a \in addrs : Subnet[a] = Subnet[got.addr]
      <4>1. \E a \in addrs \ secondary : Subnet[a] = Subnet[got.addr]
        BY <3>1
      <4> QED
        BY <2>1, <3>1, <4>1
    <3>2. CASE secondary' = secondary
      BY <2>1, <3>2, <1>a
    <3> QED
      BY <2>1, <3>1, <3>2 DEF Secondaries
  <2>3. default # None => default.addr \notin secondary'
    BY <2>1 DEF Secondaries
  <2> QED
    BY <2>1, <2>2, <2>3
<1>3. CASE DeleteAddr
  <2>1. PICK a \in old :
          /\ old' = old \ {a}
          /\ addrs' = addrs \ Gone(a) /\ secondary' = secondary \ Gone(a)
          /\ hostRoutes' = {l \in hostRoutes : l.addr \notin Gone(a)}
          /\ default' = IF default # None /\ default.addr \in Gone(a) THEN None ELSE default
    BY <1>3, DeletedAddr
  <2>2. UNCHANGED <<pc, got>> /\ pc = "delete" /\ a \in Gone(a)
    BY <1>3, DeletedAddr DEF Gone
  <2>3. \A b \in secondary' : \E d \in addrs' \ secondary' : Subnet[d] = Subnet[b]
    <3> SUFFICES ASSUME NEW b \in secondary'
                 PROVE  \E d \in addrs' \ secondary' : Subnet[d] = Subnet[b]
      OBVIOUS
    <3>1. b \in secondary /\ b \notin Gone(a)
      BY <2>1
    <3>2. PICK d \in addrs \ secondary : Subnet[d] = Subnet[b]
      BY <3>1
    <3>3. d \notin Gone(a)
      BY <3>1, <3>2 DEF Gone
    <3> QED
      BY <2>1, <3>2, <3>3
  <2>4. default' # None => default' = default /\ default.addr \notin Gone(a)
    BY <2>1
  <2>5. default' # None =>
          /\ default'.addr \in addrs' \ secondary'
          /\ \E l \in hostRoutes' : l.router = default'.router /\ l.addr = default'.addr
    BY <2>1, <2>4
  <2>6. \A l \in hostRoutes' : l.addr \in addrs'
    BY <2>1
  <2>7. got'.addr \notin old' /\ addrs' \subseteq old' \cup {got'.addr} /\ got' \in Leases
    BY <2>1, <2>2
  <2> QED
    BY <2>2, <2>3, <2>5, <2>6, <2>7
<1>4. CASE RouteRouter
  <2>1. /\ addrs' = addrs /\ secondary' = secondary
        /\ default' = default /\ got' = got /\ pc' = "default"
        /\ hostRoutes' = {l \in hostRoutes : l.router # got.router} \cup {got}
        /\ addrs = {got.addr}
    BY <1>4 DEF RouteRouter, local
  <2>2. default # None => default.addr = got.addr
    BY <2>1
  <2> QED
    BY <1>4, <2>1, <2>2 DEF RouteRouter
<1>5. CASE RouteDefault
  BY <1>5, <1>a DEF RouteDefault, local
<1>6. CASE /\ UNCHANGED uplinkNet
           /\ (UNCHANGED <<pc, got, old>>) \/ pc' \notin {"replace", "delete", "default"}
  BY <1>6 DEF uplinkNet
<1> QED
  BY <1>1, <1>2, <1>3, <1>4, <1>5, <1>6, RouteSteps

LEMMA StepSubscribed ==
  ASSUME TypeOK, Subscribed, [Next]_vars
  PROVE  Subscribed'
<1>1. pc' \notin {"start", "exited", "crashed"} => subscribed'
  BY Sequel DEF Subscribed, Next, Apply, Environment, Start, Wake, Return, ApplyInterfaces, ApplyInterfacesFails,
     SkipDhcp4, ReadLease4, ReplaceAddr, DeleteAddr, AddrMissing, RouteRouter, RouteDefault,
     ApplyDhcp4Fails, ApplyDhcp6, ApplyUnseen, StepFails, ApplyFirewall, Crash, Supervise, WriteLease,
     SignalNetconfigd, WriterCrash, Dhcp4dListens, EditForwards, LinkAppears, vars, process,
     local, uplinkNet, kernel, input, peer
<1>2. pc' = "wait" => ~failed'
  BY Sequel DEF Subscribed, Next, Apply, Environment, Start, Wake, Return, ApplyInterfaces, ApplyInterfacesFails,
     SkipDhcp4, ReadLease4, ReplaceAddr, DeleteAddr, AddrMissing, RouteRouter, RouteDefault,
     ApplyDhcp4Fails, ApplyDhcp6, ApplyUnseen, StepFails, ApplyFirewall, Crash, Supervise, WriteLease,
     SignalNetconfigd, WriterCrash, Dhcp4dListens, EditForwards, LinkAppears, vars, process,
     local, uplinkNet, kernel, input, peer
<1>3. \A w \in Writers : writer'[w] # "obtain" => file'[w] # None
  <2>1. CASE UNCHANGED <<file, writer>>
    BY <2>1 DEF Subscribed
  <2>2. ASSUME NEW v \in Writers, WriteLease(v) PROVE <1>3
    <3>1. PICK l \in IF v = "dhcp4" THEN Leases ELSE Prefixes : file' = [file EXCEPT ![v] = l]
      BY <2>2 DEF WriteLease
    <3>2. l # None
      BY <3>1, NoneApart
    <3>3. writer' = [writer EXCEPT ![v] = "signal"]
      BY <2>2 DEF WriteLease
    <3> QED
      BY <3>1, <3>2, <3>3, TypeParts DEF Subscribed, FilesOK
  <2>3. ASSUME NEW v \in Writers, SignalNetconfigd(v) \/ WriterCrash(v) PROVE <1>3
    BY <2>3, TypeParts DEF SignalNetconfigd, WriterCrash, Subscribed, FilesOK
  <2> QED
    BY <2>1, <2>2, <2>3, FileSteps
<1> QED
  BY <1>1, <1>2, <1>3 DEF Subscribed

\* A writer that is idle after the step was so before, with the same file, or its
\* signal waits or came before the subscription.
LEMMA IdleSteps ==
  ASSUME TypeOK, [Next]_vars, NEW w \in Writers, writer'[w] = "idle"
  PROVE  \/ writer[w] = "idle" /\ file'[w] = file[w]
         \/ UNCHANGED <<pc, subscribed, failed>> /\ (subscribed => ch')
<1> USE TypeParts DEF FilesOK
<1>1. CASE UNCHANGED <<file, writer>>
  BY <1>1
<1>2. ASSUME NEW v \in Writers, WriteLease(v) PROVE writer[w] = "idle" /\ file'[w] = file[w]
  BY <1>2 DEF WriteLease
<1>3. ASSUME NEW v \in Writers, WriterCrash(v) PROVE writer[w] = "idle" /\ file'[w] = file[w]
  BY <1>3 DEF WriterCrash
<1>4. ASSUME NEW v \in Writers, SignalNetconfigd(v)
      PROVE  /\ file' = file
             /\ v # w => writer[w] = "idle"
             /\ UNCHANGED <<pc, subscribed, failed>> /\ (subscribed => ch')
  <2>1. ch' = (ch \/ subscribed)
    BY <1>4 DEF SignalNetconfigd
  <2>2. subscribed => ch'
    BY <2>1
  <2> QED
    BY <1>4, <2>2 DEF SignalNetconfigd, local
<1> QED
  BY <1>1, <1>2, <1>3, <1>4, FileSteps

\* A pending signal is consumed when an Apply begins, and an error is kept until
\* Apply returns.
LEMMA ClearSteps ==
  ASSUME [Next]_vars, FlagsOK
  PROVE  /\ ch /\ ~ch' => pc' \in {"interfaces", "start"}
         /\ failed /\ ~failed' => pc' \in {"wait", "exited", "start"}
  BY Sequel DEF FlagsOK, Next, Apply, Environment, Start, Wake, Return, ApplyInterfaces, ApplyInterfacesFails,
     SkipDhcp4, ReadLease4, ReplaceAddr, DeleteAddr, AddrMissing, RouteRouter, RouteDefault,
     ApplyDhcp4Fails, ApplyDhcp6, ApplyUnseen, StepFails, ApplyFirewall, Crash, Supervise, WriteLease,
     SignalNetconfigd, WriterCrash, Dhcp4dListens, EditForwards, LinkAppears, vars, process,
     local, uplinkNet, kernel, input, peer

\* What the steps do to the kernel's IPv4 configuration and what they have read.
LEMMA LocalSteps ==
  ASSUME [Next]_vars
  PROVE  \/ UNCHANGED <<pc, got, failed, addrs, default, hostRoutes, ruleset>>
            /\ (uplink' = uplink \/ uplink = None)
         \/ pc' \in {"interfaces", "dhcp4", "start", "exited", "crashed"}
         \/ pc' \notin {"start", "exited", "crashed", "wait"} /\ failed'
         \/ Return \/ SkipDhcp4 \/ ReadLease4 \/ ReplaceAddr \/ DeleteAddr \/ ApplyUnseen
         \/ RouteRouter \/ RouteDefault \/ ApplyDhcp6 \/ ApplyFirewall
  BY Sequel DEF Next, Apply, Environment, Start, Wake, Return, ApplyInterfaces, ApplyInterfacesFails,
     SkipDhcp4, ReadLease4, ReplaceAddr, DeleteAddr, AddrMissing, RouteRouter, RouteDefault,
     ApplyDhcp4Fails, ApplyDhcp6, ApplyUnseen, StepFails, ApplyFirewall, Crash, Supervise, WriteLease,
     SignalNetconfigd, WriterCrash, Dhcp4dListens, EditForwards, LinkAppears, vars, process,
     local, uplinkNet, kernel, input, peer

LEMMA StepInForce4 ==
  ASSUME TypeOK, Routes, Subscribed, InForce4, [Next]_vars
  PROVE  InForce4'
<1> USE DEF AfterDhcp4, AfterDhcp6, AfterFirewall
<1> SUFFICES ASSUME ~failed', ~ch', writer'["dhcp4"] = "idle",
                    pc' \in {"replace", "delete", "default"} \cup AfterDhcp4
             PROVE  /\ Applying4' => got' = file'["dhcp4"] /\ uplink' = "uplink0"
                    /\ pc' \in AfterDhcp4 =>
                         /\ addrs' = {file'["dhcp4"].addr} /\ default' = file'["dhcp4"]
                         /\ file'["dhcp4"] \in hostRoutes' /\ uplink' = "uplink0"
                    /\ pc' \in AfterFirewall => ruleset' = "uplink0"
  BY DEF InForce4, Applying4
<1> DEFINE Goal == /\ Applying4' => got' = file'["dhcp4"] /\ uplink' = "uplink0"
                   /\ pc' \in AfterDhcp4 =>
                        /\ addrs' = {file'["dhcp4"].addr} /\ default' = file'["dhcp4"]
                        /\ file'["dhcp4"] \in hostRoutes' /\ uplink' = "uplink0"
                   /\ pc' \in AfterFirewall => ruleset' = "uplink0"
<1>1. writer["dhcp4"] = "idle" /\ file'["dhcp4"] = file["dhcp4"]
  BY IdleSteps DEF Writers, Subscribed
<1>2. ~ch
  BY ClearSteps, TypeParts
<1>3. file["dhcp4"] \in Leases /\ file["dhcp4"] # None
  BY <1>1 DEF Subscribed, Writers, TypeOK
<1>4. CASE UNCHANGED <<pc, got, failed, addrs, default, hostRoutes, ruleset>>
           /\ (uplink' = uplink \/ uplink = None)
  BY <1>1, <1>2, <1>4, NoneApart DEF InForce4, Applying4
<1>5. CASE Return
  BY <1>1, <1>2, <1>5 DEF Return, InForce4, Applying4, kernel, uplinkNet
<1>6. CASE SkipDhcp4
  BY <1>3, <1>6 DEF SkipDhcp4
<1>7. CASE ReadLease4
  BY <1>1, <1>7 DEF ReadLease4, Applying4, kernel
<1>8. CASE ReplaceAddr \/ DeleteAddr \/ RouteRouter
  BY <1>1, <1>2, <1>8 DEF ReplaceAddr, DeleteAddr, RouteRouter, InForce4, Applying4, local
<1>9. CASE RouteDefault
  BY <1>1, <1>2, <1>9 DEF RouteDefault, InForce4, Applying4, local, Routes
<1>10. CASE ApplyDhcp6 \/ ApplyUnseen
  BY <1>1, <1>2, <1>10, Sequel
  DEF ApplyDhcp6, ApplyUnseen, InForce4, Applying4, local, kernel, uplinkNet
<1>11. CASE ApplyFirewall
  <2>1. ~failed /\ forwards /\ pc = "firewall" /\ pc' = "wireguard"
    BY <1>11, Sequel DEF ApplyFirewall
  <2>2. uplink = "uplink0" /\ UNCHANGED <<uplinkNet, uplink>>
    BY <1>1, <1>2, <1>11, <2>1 DEF ApplyFirewall, InForce4
  <2>3. ruleset' = "uplink0"
    BY <1>11, <2>1, <2>2, NoneApart DEF ApplyFirewall
  <2> QED
    BY <1>1, <1>2, <2>1, <2>2, <2>3 DEF InForce4, Applying4, uplinkNet
<1> QED
  BY <1>4, <1>5, <1>6, <1>7, <1>8, <1>9, <1>10, <1>11, LocalSteps

LEMMA StepInForce6 ==
  ASSUME TypeOK, Subscribed, InForce6, [Next]_vars
  PROVE  InForce6'
<1> USE DEF AfterDhcp4, AfterDhcp6, AfterFirewall
<1> SUFFICES ASSUME ~failed', ~ch', writer'["dhcp6"] = "idle",
                    pc' \in AfterDhcp6
             PROVE  file'["dhcp6"] \in lan'
  BY DEF InForce6
<1>1. writer["dhcp6"] = "idle" /\ file'["dhcp6"] = file["dhcp6"]
  BY IdleSteps DEF Writers, Subscribed
<1>2. ~ch /\ (failed => pc' = "wait")
  BY ClearSteps, TypeParts
<1>3. file["dhcp6"] # None
  BY <1>1 DEF Subscribed, Writers
<1>4. lan \subseteq lan' /\ (pc \in AfterDhcp6 \/ ApplyDhcp6)
  BY Sequel DEF Next, Apply, Environment, Start, Wake, Return, ApplyInterfaces, ApplyInterfacesFails,
     SkipDhcp4, ReadLease4, ReplaceAddr, DeleteAddr, AddrMissing, RouteRouter, RouteDefault,
     ApplyDhcp4Fails, ApplyDhcp6, ApplyUnseen, StepFails, ApplyFirewall, Crash, Supervise, WriteLease,
     SignalNetconfigd, WriterCrash, Dhcp4dListens, EditForwards, LinkAppears, vars, process,
     local, uplinkNet, kernel, input, peer
<1>5. pc' = "wait" => ~failed
  BY Sequel DEF Subscribed, Next, Apply, Environment, Start, Wake, Return, ApplyInterfaces, ApplyInterfacesFails,
     SkipDhcp4, ReadLease4, ReplaceAddr, DeleteAddr, AddrMissing, RouteRouter, RouteDefault,
     ApplyDhcp4Fails, ApplyDhcp6, ApplyUnseen, StepFails, ApplyFirewall, Crash, Supervise, WriteLease,
     SignalNetconfigd, WriterCrash, Dhcp4dListens, EditForwards, LinkAppears, vars, process,
     local, uplinkNet, kernel, input, peer
<1>6. CASE pc \in AfterDhcp6
  BY <1>1, <1>2, <1>4, <1>5, <1>6 DEF InForce6
<1>7. CASE ApplyDhcp6
  BY <1>1, <1>3, <1>7 DEF ApplyDhcp6
<1> QED
  BY <1>4, <1>6, <1>7

LEMMA StepListenersNotified ==
  ASSUME TypeOK, Routes, ListenersNotified, [Next]_vars
  PROVE  ListenersNotified'
  BY TypeParts, NoneApart, Sequel
  DEF ListenersNotified, Private, FlagsOK, Next, Apply, Environment, Start, Wake, Return, ApplyInterfaces, ApplyInterfacesFails,
     SkipDhcp4, ReadLease4, ReplaceAddr, DeleteAddr, AddrMissing, RouteRouter, RouteDefault,
     ApplyDhcp4Fails, ApplyDhcp6, ApplyUnseen, StepFails, ApplyFirewall, Crash, Supervise, WriteLease,
     SignalNetconfigd, WriterCrash, Dhcp4dListens, EditForwards, LinkAppears, vars, process,
     local, uplinkNet, kernel, input, peer

\* A ruleset is replaced by one for the uplink's present name only, and a link that
\* has its configured name keeps it.
LEMMA RulesetSteps ==
  ASSUME [Next]_vars
  PROVE  /\ ruleset' = ruleset \/ ruleset' = IF uplink = None THEN "" ELSE uplink
         /\ uplink = "uplink0" => uplink' = "uplink0"
<1>1. ruleset' = ruleset \/ ruleset' = IF uplink = None THEN "" ELSE uplink
  BY Sequel DEF Next, Apply, Environment, Start, Wake, Return, ApplyInterfaces, ApplyInterfacesFails,
     SkipDhcp4, ReadLease4, ReplaceAddr, DeleteAddr, AddrMissing, RouteRouter, RouteDefault,
     ApplyDhcp4Fails, ApplyDhcp6, ApplyUnseen, StepFails, ApplyFirewall, Crash, Supervise, WriteLease,
     SignalNetconfigd, WriterCrash, Dhcp4dListens, EditForwards, LinkAppears, vars, process,
     local, uplinkNet, kernel, input, peer
<1>2. uplink = "uplink0" => uplink' = "uplink0"
  BY NoneApart, Sequel DEF Next, Apply, Environment, Start, Wake, Return, ApplyInterfaces, ApplyInterfacesFails,
     SkipDhcp4, ReadLease4, ReplaceAddr, DeleteAddr, AddrMissing, RouteRouter, RouteDefault,
     ApplyDhcp4Fails, ApplyDhcp6, ApplyUnseen, StepFails, ApplyFirewall, Crash, Supervise, WriteLease,
     SignalNetconfigd, WriterCrash, Dhcp4dListens, EditForwards, LinkAppears, vars, process,
     local, uplinkNet, kernel, input, peer
<1> QED
  BY <1>1, <1>2

LEMMA StepNamedUplink ==
  ASSUME NamedUplink, [Next]_vars
  PROVE  NamedUplink'
  BY RulesetSteps, NoneApart DEF NamedUplink

\* The inductive invariant of netconfigd, the writers and the kernel.
THEOREM NetworkInvariance == Spec => []NInv
<1>1. Init => NInv
  BY InitNInv
<1>2. NInv /\ [Next]_vars => NInv'
  BY TypeParts, StepNetTypeOK, StepFlagsOK, StepListenOK, StepUplinkOK, StepFilesOK,
     StepBoundsOK, StepRoutes, StepSubscribed, StepInForce4, StepInForce6,
     StepNamedUplink, StepListenersNotified DEF NInv, TypeOK, NetTypeOK, FlagsOK, ListenOK, UplinkOK,
     FilesOK, BoundsOK
<1> QED
  BY <1>1, <1>2, PTL DEF Spec

\* Every variable of netconfigd, of the kernel and of the other processes has its
\* type.
THEOREM NetworkTypeCorrect == Spec => []TypeOK
  BY NetworkInvariance, PTL DEF NInv

\* When netconfigd waits, the kernel has what the leases say.
THEOREM LeasesInForce == Spec => []LeaseInForce
<1>1. NInv => LeaseInForce
  BY DEF NInv, Subscribed, InForce4, InForce6, LeaseInForce, AfterDhcp4,
     AfterDhcp6, AfterFirewall
<1> QED
  BY <1>1, NetworkInvariance, PTL

\* The default route can be used wherever Apply has stopped.
THEOREM DefaultRouteIsUsable == Spec => []DefaultRouteUsable
<1>1. NInv => DefaultRouteUsable
  BY DEF NInv, Routes, DefaultRouteUsable
<1> QED
  BY <1>1, NetworkInvariance, PTL

\* dhcp4d knows the addresses that Apply has left.
THEOREM ListenersAreNotified == Spec => []ListenersNotified
  BY NetworkInvariance, PTL DEF NInv

\* The address of the lease that is applied is not among those to delete.
LEMMA OldAreOthers ==
  ASSUME Routes, DeleteAddr, NEW a \in old
  PROVE  a # got.addr
  BY DEF Routes, DeleteAddr

\* Applying the lease in force again, Apply loses neither its address nor the default
\* route at any call; another lease's address it loses only with an old one of the
\* same subnet.
THEOREM UplinkIsKept == Spec => UplinkKept
<1> DEFINE Again == got # None /\ default = got => default' = got /\ got.addr \in addrs'
           Lost == got # None /\ got.addr \in addrs \ addrs' =>
                     \E a \in addrs \ {got.addr} : Subnet[a] = Subnet[got.addr]
<1>1. ASSUME NInv, [Next]_vars PROVE Again /\ Lost
  <2>1. CASE DeleteAddr
    <3>1. PICK a \in old \cap addrs :
            /\ addrs' = addrs \ Gone(a)
            /\ default' = IF default # None /\ default.addr \in Gone(a) THEN None ELSE default
      BY <2>1 DEF DeleteAddr
    <3>2. a # got.addr
      BY <1>1, <2>1, <3>1, OldAreOthers DEF NInv
    <3>3. Again
      <4> SUFFICES ASSUME got # None, default = got
                   PROVE  default' = got /\ got.addr \in addrs'
        OBVIOUS
      <4>1. default.addr \in addrs \ secondary
        BY <1>1 DEF NInv, Routes
      <4>2. default.addr \notin Gone(a)
        BY <3>2, <4>1 DEF Gone
      <4> QED
        BY <3>1, <4>1, <4>2
    <3>4. Lost
      BY <3>1, <3>2 DEF Gone
    <3> QED
      BY <3>3, <3>4
  <2>2. CASE ~DeleteAddr
    <3>1. addrs \subseteq addrs'
      BY <1>1, <2>2, Sequel DEF Next, Apply, Environment, Start, Wake, Return, ApplyInterfaces, ApplyInterfacesFails,
     SkipDhcp4, ReadLease4, ReplaceAddr, DeleteAddr, AddrMissing, RouteRouter, RouteDefault,
     ApplyDhcp4Fails, ApplyDhcp6, ApplyUnseen, StepFails, ApplyFirewall, Crash, Supervise, WriteLease,
     SignalNetconfigd, WriterCrash, Dhcp4dListens, EditForwards, LinkAppears, vars, process,
     local, uplinkNet, kernel, input, peer
    <3>2. default' = default \/ default' = got
      BY <1>1, <2>2, Sequel DEF Next, Apply, Environment, Start, Wake, Return, ApplyInterfaces, ApplyInterfacesFails,
     SkipDhcp4, ReadLease4, ReplaceAddr, DeleteAddr, AddrMissing, RouteRouter, RouteDefault,
     ApplyDhcp4Fails, ApplyDhcp6, ApplyUnseen, StepFails, ApplyFirewall, Crash, Supervise, WriteLease,
     SignalNetconfigd, WriterCrash, Dhcp4dListens, EditForwards, LinkAppears, vars, process,
     local, uplinkNet, kernel, input, peer
    <3>3. default # None => default.addr \in addrs
      BY <1>1 DEF NInv, Routes
    <3> QED
      BY <3>1, <3>2, <3>3
  <2> QED
    BY <2>1, <2>2
<1>2. ASSUME NInv, [Next]_vars
      PROVE  [ /\ got # None /\ default = got => default' = got /\ got.addr \in addrs'
               /\ got # None /\ got.addr \in addrs \ addrs' =>
                    \E a \in addrs \ {got.addr} : Subnet[a] = Subnet[got.addr] ]_vars
  BY <1>1, <1>2
<1> QED
  BY <1>2, NetworkInvariance, PTL DEF Spec, UplinkKept

\* No error, crash or restart takes the ruleset away, or leaves the one for uplink0
\* without its rules.
THEOREM RulesetIsKept == Spec => RulesetKept
<1>1. ASSUME NInv, [Next]_vars
      PROVE  [ /\ ruleset # None => ruleset' # None
               /\ ruleset = "uplink0" => ruleset' = "uplink0" ]_vars
  BY <1>1, RulesetSteps, NoneApart DEF NInv, NamedUplink
<1> QED
  BY <1>1, NetworkInvariance, PTL DEF Spec, RulesetKept
=============================================================================
