----------------------------- MODULE LinkConfig -----------------------------
(***************************************************************************)
(* The links of the router: applyBridges, applyInterfaces and              *)
(* applyWireGuard of package netconfig, which netconfigd runs at start and *)
(* on every signal.  They find links by address or by name and change      *)
(* both, so each run sees what the earlier ones left, finished or not.     *)
(*                                                                         *)
(* External: the kernel.  A link's index is its place in the order of      *)
(* appearance, which is the order of LinkList.  A name is of one link at a *)
(* time.  A bridge has the address of one of its members until it is given *)
(* one of its own.                                                         *)
(***************************************************************************)
EXTENDS Naturals, Sequences

CONSTANTS
    Configs,       \* contents of interfaces.json and wireguard.json
    Hardware,      \* addresses of the physical links
    KernelNames,   \* a sequence: the names the kernel gives to them, in order
    RandomMac,     \* the address of a bridge without members
    None,
    MaxFailures    \* bound on the failed calls and the crashes

\* An entry of "interfaces": a link's address, if it is known by it, an address
\* to give it, its name, and its IP address.
Details == [hw : Hardware \cup {None}, spoof : STRING \cup {None},
            name : STRING, addr : STRING \cup {None}]
Bridges == [name : STRING, members : SUBSET Hardware]
Config == [interfaces : Seq(Details), bridges : Seq(Bridges), tunnels : Seq(STRING)]

Named(names) == {names[k] : k \in DOMAIN names}
BridgeNames(c) == {c.bridges[b].name : b \in DOMAIN c.bridges}
Spoofs(c) == {c.interfaces[k].spoof : k \in DOMAIN c.interfaces} \ {None}

\* The names of the entries that are known by address are not the kernel's own.
Fresh(c) == \A k \in DOMAIN c.interfaces :
    c.interfaces[k].hw # None => c.interfaces[k].name \notin Named(KernelNames)

\* No two entries have one name, one hardware address, or give one to their links.
EntriesDistinct(c) == \A j, k \in DOMAIN c.interfaces :
    LET d == c.interfaces[j]
        e == c.interfaces[k]
    IN  (d.name = e.name \/ (d.hw = e.hw /\ d.hw # None) \/ (d.spoof = e.spoof /\ d.spoof # None))
          => j = k

\* Physical links, bridges and tunnels do not share names, and a link is a member
\* of one bridge.
KindsDistinct(c) ==
    /\ Named(KernelNames) \cap (BridgeNames(c) \cup Named(c.tunnels)) = {}
    /\ BridgeNames(c) \cap Named(c.tunnels) = {}
    /\ \A a, b \in DOMAIN c.bridges : c.bridges[a].members \cap c.bridges[b].members # {} => a = b

\* An entry with a hardware address is about a physical link that is not a member
\* of a bridge, which may have its address.  If the kernel may give its name to
\* a link of which no entry speaks, which would then be found by it, it has
\* no IP address.
ByAddress(c, d) ==
    /\ d.name \notin BridgeNames(c) \cup Named(c.tunnels)
    /\ \A b \in DOMAIN c.bridges : d.hw \notin c.bridges[b].members
    /\ d.name \in Named(KernelNames) => d.addr = None /\ d.spoof = None

ConfigAssumption ==
    /\ MaxFailures \in Nat
    /\ KernelNames \in Seq(STRING)
    /\ RandomMac \notin Hardware /\ None \notin Hardware
    /\ \A c \in Configs :
         /\ c \in Config
         /\ EntriesDistinct(c) /\ KindsDistinct(c)
         /\ \A k \in DOMAIN c.interfaces :
              c.interfaces[k].hw # None => ByAddress(c, c.interfaces[k])
         /\ Spoofs(c) \cap (Hardware \cup {RandomMac}) = {}

ASSUME ConfigAssumption

VARIABLES
    cfg,       \* the configuration
    links,     \* external: the links by index
    resolv,    \* the server resolv.conf names, or None
    pc,        \* where netconfigd is
    nth,       \* the bridge or tunnel it is at
    todo,      \* what LinkList returned and is still to be looked at
    failed,    \* this Apply will return an error
    logged,    \* applyBridges failed in this Apply (history)
    listed,    \* how many links this Apply has listed (history)
    settled,   \* "yes": an Apply without error has seen all links (history)
    failures

local == <<nth, todo, failed, logged, listed>>
vars == <<cfg, links, resolv, pc, local, settled, failures>>

Init ==
    /\ cfg \in Configs
    /\ links = <<>> /\ resolv = None
    /\ pc = "start"
    /\ nth = 1 /\ todo = <<>> /\ failed = FALSE
    /\ logged = FALSE /\ listed = 0 /\ settled = "no"
    /\ failures = 0

Fail == failures < MaxFailures /\ failures' = failures + 1

-----------------------------------------------------------------------------
(* External: the kernel's links *)

\* perm and born are the address and the name a link came with, fixed says that
\* its address was given to it, ready that a tunnel has its key and peers.
NewLink(kind, mac, name) ==
    [kind |-> kind, perm |-> mac, born |-> name, mac |-> mac, name |-> name,
     fixed |-> FALSE, up |-> FALSE, master |-> 0, addrs |-> {}, ready |-> FALSE]

NamesInUse == {links[i].name : i \in DOMAIN links}
ByName(n) == CHOOSE i \in DOMAIN links : links[i].name = n

\* The netlink calls.
LinkAdd(kind, mac, name) == Append(links, NewLink(kind, mac, name))
LinkSetUp(ls, i) == [ls EXCEPT ![i].up = TRUE]

LinkAppears(hw) ==
    /\ \A i \in DOMAIN links : links[i].perm # hw
    /\ LET free == {k \in DOMAIN KernelNames : KernelNames[k] \notin NamesInUse}
       IN  \E k \in free :
             /\ \A j \in free : k <= j
             /\ links' = LinkAdd("phys", hw, KernelNames[k])
    /\ settled' = "no"
    /\ UNCHANGED <<cfg, resolv, pc, local, failures>>

\* LinkSetMaster: the bridge takes the address of its first member, or that of a
\* later one, unless it was given one.
SetMaster(i, b) ==
    LET first == \A j \in DOMAIN links : links[j].master # b
        macs == IF links[b].fixed THEN {links[b].mac}
                ELSE IF first THEN {links[i].mac} ELSE {links[b].mac, links[i].mac}
    IN  {[links EXCEPT ![i].master = b, ![b].mac = m] :
             m \in IF links[i].master = b THEN {links[b].mac} ELSE macs}

-----------------------------------------------------------------------------
(* applyBridges *)

\* Apply begins, at start or when a signal ends the wait.
Begin ==
    /\ pc \in {"start", "wait"}
    /\ pc' = "bridge"
    /\ nth' = 1 /\ todo' = <<>> /\ failed' = FALSE /\ logged' = FALSE /\ listed' = 0
    /\ settled' = IF settled = "no" THEN "seeing" ELSE settled
    /\ UNCHANGED <<cfg, links, resolv, failures>>

Snapshot(ls) == [i \in DOMAIN ls |-> [index |-> i, name |-> ls[i].name, mac |-> ls[i].mac]]

\* Fault: the bridge, which has the address of a member, is taken for one.
IsMemberOrSelf(s, b) == s.mac # None /\ s.mac \in b.members

\* A link to put into the bridge: not the bridge, which has the address of one.
IsMember(s, b) == s.mac # None /\ s.mac \in b.members /\ s.name # b.name

\* Fault: a bridge that is there is added again.
MakeBridgeAgain ==
    /\ pc = "bridge"
    /\ nth <= Len(cfg.bridges)
    /\ LET b == cfg.bridges[nth]
       IN  /\ links' = LinkAdd("bridge", RandomMac, b.name)
           /\ todo' = Snapshot(links')
    /\ pc' = "enslave"
    /\ UNCHANGED <<cfg, resolv, nth, failed, logged, listed, settled, failures>>

\* LinkByName, LinkAdd if there is no such link, and LinkList.
MakeBridge ==
    /\ pc = "bridge"
    /\ nth <= Len(cfg.bridges)
    /\ LET b == cfg.bridges[nth]
       IN  /\ links' = IF b.name \in NamesInUse THEN links
                       ELSE LinkAdd("bridge", RandomMac, b.name)
           /\ todo' = Snapshot(links')
    /\ pc' = "enslave"
    /\ UNCHANGED <<cfg, resolv, nth, failed, logged, listed, settled, failures>>

SkipMember ==
    /\ pc = "enslave" /\ todo # <<>>
    /\ ~IsMember(Head(todo), cfg.bridges[nth])
    /\ todo' = Tail(todo)
    /\ UNCHANGED <<cfg, links, resolv, pc, nth, failed, logged, listed, settled, failures>>

\* LinkSetMaster and LinkSetUp of one link.  The kernel does not put a bridge
\* into itself.
Enslave ==
    /\ pc = "enslave" /\ todo # <<>>
    /\ IsMember(Head(todo), cfg.bridges[nth])
    /\ LET i == Head(todo).index
           b == ByName(cfg.bridges[nth].name)
       IN  /\ i # b
           /\ \E ls \in SetMaster(i, b) : links' = LinkSetUp(ls, i)
    /\ todo' = Tail(todo)
    /\ UNCHANGED <<cfg, resolv, pc, nth, failed, logged, listed, settled, failures>>

BridgeUp ==
    /\ pc = "enslave" /\ todo = <<>>
    /\ links' = LinkSetUp(links, ByName(cfg.bridges[nth].name))
    /\ nth' = nth + 1
    /\ pc' = "bridge"
    /\ UNCHANGED <<cfg, resolv, todo, failed, logged, listed, settled, failures>>

\* An error ends applyBridges and is logged; applyInterfaces goes on.
EndBridges == pc' = "list" /\ logged' = TRUE /\ todo' = <<>>

BridgesFail ==
    /\ Fail
    /\ pc \in {"bridge", "enslave"}
    /\ \/ UNCHANGED links
       \/ /\ pc = "enslave" /\ todo # <<>>
          /\ IsMember(Head(todo), cfg.bridges[nth])
          /\ links' \in SetMaster(Head(todo).index, ByName(cfg.bridges[nth].name))
    /\ EndBridges
    /\ UNCHANGED <<cfg, resolv, nth, failed, listed, settled>>

-----------------------------------------------------------------------------
(* applyInterfaces *)

ListLinks ==
    /\ pc = "list" \/ (pc = "bridge" /\ nth > Len(cfg.bridges))
    /\ todo' = Snapshot(links)
    /\ listed' = Len(links)
    /\ nth' = 1
    /\ pc' = "interfaces"
    /\ UNCHANGED <<cfg, links, resolv, failed, logged, settled, failures>>

Last(ks) == CHOOSE k \in ks : \A j \in ks : j <= k
WithName(n) == {k \in DOMAIN cfg.interfaces : cfg.interfaces[k].name = n}
WithMac(m) == {k \in DOMAIN cfg.interfaces : m \in {cfg.interfaces[k].hw, cfg.interfaces[k].spoof}}

\* Fault: an entry without address is found under the address of a tunnel.
EntriesUntested(s) == IF WithMac(s.mac) # {} THEN WithMac(s.mac) ELSE WithName(s.name)

\* The entries for a link: by its address, and if there are none, or the link has
\* no address, by its name.
Entries(s) == IF s.mac # None /\ WithMac(s.mac) # {} THEN WithMac(s.mac) ELSE WithName(s.name)

\* The maps keep the last of several.
EntryOf(s) == cfg.interfaces[Last(Entries(s))]

\* A link of which no entry speaks is left alone.
SkipLink ==
    /\ pc = "interfaces" /\ todo # <<>>
    /\ Entries(Head(todo)) = {}
    /\ todo' = Tail(todo)
    /\ UNCHANGED <<cfg, links, resolv, pc, nth, failed, logged, listed, settled, failures>>

\* A link after the first n of LinkSetName, LinkSetHardwareAddr, LinkSetUp and
\* AddrReplace.
After(l, d, n) ==
    [l EXCEPT !.name = IF n >= 1 THEN d.name ELSE @,
              !.mac = IF n >= 2 /\ d.spoof # None THEN d.spoof ELSE @,
              !.fixed = IF n >= 2 /\ d.spoof # None THEN TRUE ELSE @,
              !.up = IF n >= 3 THEN TRUE ELSE @,
              !.addrs = IF n >= 4 /\ d.addr # None THEN @ \cup {d.addr} ELSE @]

Give(i, d, n) == [links EXCEPT ![i] = After(@, d, n)]

NameTaken(i, d) == \E j \in DOMAIN links : j # i /\ links[j].name = d.name

\* Fault: the address is added, which the kernel refuses when it is there.
ConfigureLinkAnew ==
    /\ pc = "interfaces" /\ todo # <<>>
    /\ Entries(Head(todo)) # {}
    /\ LET i == Head(todo).index
           d == EntryOf(Head(todo))
       IN  /\ ~NameTaken(i, d)
           /\ links' = Give(i, d, 4)
           /\ resolv' = IF d.name = "lan0" /\ d.addr # None THEN d.addr ELSE resolv
           /\ failed' = (d.addr \in links[i].addrs)
    /\ todo' = IF failed' THEN <<>> ELSE Tail(todo)
    /\ pc' = IF failed' THEN "return" ELSE pc
    /\ UNCHANGED <<cfg, nth, logged, listed, settled, failures>>

ConfigureLink ==
    /\ pc = "interfaces" /\ todo # <<>>
    /\ Entries(Head(todo)) # {}
    /\ LET i == Head(todo).index
           d == EntryOf(Head(todo))
       IN  /\ ~NameTaken(i, d)
           /\ links' = Give(i, d, 4)
           /\ resolv' = IF d.name = "lan0" /\ d.addr # None THEN d.addr ELSE resolv
    /\ todo' = Tail(todo)
    /\ UNCHANGED <<cfg, pc, nth, failed, logged, listed, settled, failures>>

\* An error of the first call, or a later one, ends applyInterfaces and Apply;
\* resolv.conf may have been removed and not written.
EndInterfaces == pc' = "return" /\ failed' = TRUE /\ todo' = <<>>

\* Fault: the error is logged, and the other links are configured.
ConfigureLinkLogged ==
    /\ Fail
    /\ pc = "interfaces" /\ todo # <<>>
    /\ Entries(Head(todo)) # {}
    /\ todo' = Tail(todo)
    /\ UNCHANGED <<cfg, links, resolv, pc, nth, failed, logged, listed, settled>>

ConfigureLinkFails ==
    /\ Fail
    /\ pc = "interfaces" /\ todo # <<>>
    /\ Entries(Head(todo)) # {}
    /\ LET i == Head(todo).index
           d == EntryOf(Head(todo))
       IN  \/ UNCHANGED <<links, resolv>>
           \/ /\ ~NameTaken(i, d)
              /\ \E n \in 1 .. 4 :
                   /\ links' = Give(i, d, n)
                   /\ resolv' = IF n = 4 /\ d.name = "lan0" /\ d.addr # None THEN None ELSE resolv
    /\ EndInterfaces
    /\ UNCHANGED <<cfg, nth, logged, listed, settled>>

\* EEXIST: another link has the name.
NameConflict ==
    /\ pc = "interfaces" /\ todo # <<>>
    /\ Entries(Head(todo)) # {}
    /\ NameTaken(Head(todo).index, EntryOf(Head(todo)))
    /\ EndInterfaces
    /\ UNCHANGED <<cfg, links, resolv, nth, logged, listed, settled, failures>>

-----------------------------------------------------------------------------
(* applyWireGuard, and the end of Apply *)

\* LinkAdd, whose EEXIST is no error, and ConfigureDevice.
WithTunnel(n) == IF n \in NamesInUse THEN links ELSE LinkAdd("wireguard", None, n)
ConfigureDevice(ls, n) ==
    [i \in DOMAIN ls |-> IF ls[i].name = n THEN [ls[i] EXCEPT !.ready = TRUE] ELSE ls[i]]

MakeTunnel ==
    /\ pc = "interfaces" /\ todo = <<>>
    /\ nth <= Len(cfg.tunnels)
    /\ LET n == cfg.tunnels[nth]
       IN  /\ links' = ConfigureDevice(WithTunnel(n), n)
           /\ settled' = IF n \in NamesInUse THEN settled ELSE "no"
    /\ nth' = nth + 1
    /\ UNCHANGED <<cfg, resolv, pc, todo, failed, logged, listed, failures>>

MakeTunnelFails ==
    /\ Fail
    /\ pc = "interfaces" /\ todo = <<>>
    /\ nth <= Len(cfg.tunnels)
    /\ links' \in {links, WithTunnel(cfg.tunnels[nth])}
    /\ failed' = TRUE
    /\ settled' = IF links' = links THEN settled ELSE "no"
    /\ pc' = "return"
    /\ UNCHANGED <<cfg, resolv, nth, todo, logged, listed>>

Finish ==
    /\ pc = "interfaces" /\ todo = <<>>
    /\ nth > Len(cfg.tunnels)
    /\ pc' = "return"
    /\ UNCHANGED <<cfg, links, resolv, local, settled, failures>>

\* netconfigd waits for a signal, or ends on an error.
Return ==
    /\ pc = "return"
    /\ pc' = IF failed THEN "exited" ELSE "wait"
    /\ settled' = IF settled = "seeing" /\ ~failed /\ ~logged THEN "yes" ELSE settled
    /\ UNCHANGED <<cfg, links, resolv, local, failures>>

Crash ==
    /\ Fail
    /\ pc \notin {"wait", "exited"}
    /\ pc' = "exited"
    /\ resolv' \in {resolv, IF pc = "interfaces" THEN None ELSE resolv}
    /\ UNCHANGED <<cfg, links, local, settled>>

Supervise ==
    /\ pc = "exited"
    /\ pc' = "start"
    /\ UNCHANGED <<cfg, links, resolv, local, settled, failures>>

Netconfigd ==
    \/ Begin \/ MakeBridge \/ SkipMember \/ Enslave \/ BridgeUp \/ ListLinks \/ SkipLink
    \/ ConfigureLink \/ NameConflict \/ MakeTunnel \/ Finish \/ Return \/ Supervise

Failure == BridgesFail \/ ConfigureLinkFails \/ MakeTunnelFails \/ Crash

Next == Netconfigd \/ Failure \/ \E hw \in Hardware : LinkAppears(hw)

Spec == Init /\ [][Next]_vars

\* netconfigd runs, is supervised, and is signalled again and again (a renewed
\* lease does that); the drivers of the physical links come up.
FairSpec == Spec /\ WF_vars(Netconfigd) /\ \A hw \in Hardware : WF_vars(LinkAppears(hw))

-----------------------------------------------------------------------------
(* Correctness *)

Indices == DOMAIN links
Configured == {cfg.interfaces[k] : k \in DOMAIN cfg.interfaces}

\* The entry is about the link: it has the address the link came with or, if none
\* has, no address and the name the link came with.
Known(l) == {d \in Configured : d.hw # None /\ d.hw = l.perm}
Meant(l, d) == IF Known(l) # {} THEN d \in Known(l) ELSE d.hw = None /\ d.name = l.born

Macs == Hardware \cup Spoofs(cfg) \cup {RandomMac, None}
IPs == {d.addr : d \in Configured} \ {None}

\* No two links have one name, and no link is its own master.
TypeOK ==
    /\ cfg \in Configs
    /\ links \in Seq([kind : {"phys", "bridge", "wireguard"}, perm : Macs, born : STRING,
                      mac : Macs, name : STRING, fixed : BOOLEAN, up : BOOLEAN,
                      master : 0 .. Len(links), addrs : SUBSET IPs, ready : BOOLEAN])
    /\ \A i, j \in Indices : links[i].name = links[j].name => i = j
    /\ \A i \in Indices : links[i].master # i
    /\ resolv \in IPs \cup {None}
    /\ pc \in {"start", "bridge", "enslave", "list", "interfaces", "return", "wait", "exited"}
    /\ todo \in Seq([index : Indices, name : STRING, mac : Macs])
    /\ nth \in Nat /\ listed \in 0 .. Len(links)
    /\ failed \in BOOLEAN /\ logged \in BOOLEAN /\ settled \in {"no", "seeing", "yes"}
    /\ failures \in 0 .. MaxFailures

\* netconfigd gives no link a name or an IP address of another one: not after a
\* failure halfway, not by an address that a bridge shares with its member, not
\* when a later run finds a link that an earlier one has renamed or given another
\* address.
LinksAsMeant ==
    \A i \in Indices :
        /\ \A d \in Configured :
             links[i].name = d.name /\ d.name # links[i].born => Meant(links[i], d)
        /\ \A a \in links[i].addrs : \E d \in Configured : d.addr = a /\ Meant(links[i], d)

IsConfigured(l, d) ==
    /\ l.name = d.name /\ l.up
    /\ d.addr # None => d.addr \in l.addrs
    /\ d.spoof # None => l.mac = d.spoof

\* After an Apply without error every link it has listed is as its entry says,
\* whatever runs that failed before have left behind.
DoneMeansConfigured ==
    pc = "wait" => \A i \in 1 .. listed, d \in Configured :
        Meant(links[i], d) => IsConfigured(links[i], d)

\* "Apply twice to ensure the absence of errors when dealing with
\* already-configured interfaces" (netconfig_test.go): when an Apply has seen all
\* links, the next ones change none and meet no error of their own.
SettledStays ==
    [][settled = "yes" /\ settled' = "yes" =>
         /\ links' = links
         /\ failures' = failures => (failed' => failed) /\ (logged' => logged)]_vars

\* What the configuration says of links, bridges, tunnels and the name server is
\* so at last, in whatever order the links appear, once the failures are over.
AllConfigured ==
    /\ \A i \in Indices, d \in Configured : Meant(links[i], d) => IsConfigured(links[i], d)
    /\ \A b \in DOMAIN cfg.bridges : cfg.bridges[b].name \in NamesInUse
         /\ \A i \in Indices : links[i].perm \in cfg.bridges[b].members =>
              links[i].master = ByName(cfg.bridges[b].name)
    /\ \A t \in DOMAIN cfg.tunnels : cfg.tunnels[t] \in NamesInUse
         /\ links[ByName(cfg.tunnels[t])].ready
    /\ \A d \in Configured : (d.name = "lan0" /\ d.addr # None) => resolv = d.addr

ConfiguredAtLast == Fresh(cfg) => <>[]AllConfigured
=============================================================================
