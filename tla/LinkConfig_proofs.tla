------------------------- MODULE LinkConfig_proofs -------------------------
(***************************************************************************)
(* Proof that netconfigd gives every link its own entry of interfaces.json *)
(* and that an Apply that has seen all links is not undone by the next     *)
(* ones, for every configuration that the assumption allows, any number of *)
(* links, failures and crashes, and links that appear at any time.         *)
(***************************************************************************)
EXTENDS LinkConfig, SequenceTheorems, WellFoundedInduction, TLAPS

-----------------------------------------------------------------------------
(* The inductive invariant *)

\* What a link's record tells: where it comes from, who named it, where its
\* address is from, and whose its IP addresses are.
Origin(l) ==
    \/ l.perm \in Hardware /\ l.born \in Named(KernelNames)
    \/ l.perm = RandomMac /\ l.born \in BridgeNames(cfg)
    \/ l.perm = None /\ l.born \in Named(cfg.tunnels)

NameTold(l) == l.name = l.born \/ \E d \in Known(l) : l.name = d.name

MacTold(l) ==
    \/ l.mac = l.perm
    \/ \E d \in Configured : Meant(l, d) /\ d.spoof # None /\ l.mac = d.spoof
    \/ l.perm = RandomMac /\ \E b \in DOMAIN cfg.bridges : l.mac \in cfg.bridges[b].members

AddrsTold(l) == \A a \in l.addrs : \E d \in Configured : d.addr = a /\ Meant(l, d)

LinkTold(l) == Origin(l) /\ NameTold(l) /\ MacTold(l) /\ AddrsTold(l)

Told == \A i \in Indices : LinkTold(links[i])

\* The list that an Apply works on still shows the links that it has not come
\* to, but for the address of the bridge that it is filling.
Bridge == cfg.bridges[nth]

ListTrue ==
    /\ \A j, k \in DOMAIN todo : todo[j].index = todo[k].index => j = k
    /\ \A k \in DOMAIN todo : LET l == links[todo[k].index] IN
         /\ pc \in {"enslave", "interfaces"} => todo[k].name = l.name
         /\ pc = "interfaces" \/ (pc = "enslave" /\ l.name # Bridge.name) => todo[k].mac = l.mac
    /\ pc = "enslave" => nth \in DOMAIN cfg.bridges /\ Bridge.name \in NamesInUse
    /\ pc \in {"bridge", "interfaces"} => nth > 0

Pending == {todo[k].index : k \in DOMAIN todo}

\* The links that this Apply has come to are as their entries say.
DoneSoFar ==
    /\ pc \in {"interfaces", "return", "wait"} /\ ~failed =>
         \A i \in (1 .. listed) \ Pending, d \in Configured :
             Meant(links[i], d) => IsConfigured(links[i], d)
    /\ pc \in {"return", "wait"} /\ ~failed => todo = <<>>
    /\ pc = "wait" => ~failed

\* What another Apply would find done of a bridge, a link and a tunnel.
Joined(i, b) == links[i].up /\ \A j \in Indices : links[j].name = b.name => links[i].master = j

BridgeDone(b) ==
    /\ b.name \in NamesInUse
    /\ \A i \in Indices :
         /\ links[i].name = b.name => links[i].up
         /\ IsMember(links[i], b) => Joined(i, b)

LinkDone(i) == Entries(links[i]) # {} => After(links[i], EntryOf(links[i]), 4) = links[i]

TunnelDone(n) == \A i \in Indices : links[i].name = n => links[i].ready

Settling ==
    /\ pc = "list" => logged
    /\ pc = "interfaces" /\ todo # <<>> => nth = 1
    /\ settled = "seeing" /\ ~logged =>
         /\ pc \in {"bridge", "enslave"} =>
              \A b \in DOMAIN cfg.bridges : b < nth => BridgeDone(cfg.bridges[b])
         /\ pc = "enslave" =>
              \A i \in Indices \ Pending : IsMember(links[i], Bridge) => Joined(i, Bridge)
         /\ pc = "interfaces" \/ (pc = "return" /\ ~failed) =>
              /\ \A b \in DOMAIN cfg.bridges : BridgeDone(cfg.bridges[b])
              /\ \A i \in Indices \ Pending : LinkDone(i)
              /\ \A t \in DOMAIN cfg.tunnels :
                   pc = "return" \/ t < nth => TunnelDone(cfg.tunnels[t])

Settled ==
    settled = "yes" =>
        /\ \A b \in DOMAIN cfg.bridges : BridgeDone(cfg.bridges[b])
        /\ \A i \in Indices : LinkDone(i)
        /\ \A t \in DOMAIN cfg.tunnels : TunnelDone(cfg.tunnels[t])

LInv == TypeOK /\ Told /\ ListTrue /\ DoneSoFar /\ Settling /\ Settled

-----------------------------------------------------------------------------
(* The configuration *)

LEMMA Cfg ==
  ASSUME cfg \in Configs
  PROVE  /\ cfg \in Config
         /\ cfg.interfaces \in Seq(Details) /\ cfg.bridges \in Seq(Bridges)
         /\ cfg.tunnels \in Seq(STRING)
         /\ \A k \in DOMAIN cfg.interfaces : cfg.interfaces[k] \in Details
         /\ \A b \in DOMAIN cfg.bridges : cfg.bridges[b] \in Bridges
         /\ \A t \in DOMAIN cfg.tunnels : cfg.tunnels[t] \in STRING
         /\ EntriesDistinct(cfg) /\ KindsDistinct(cfg)
         /\ \A k \in DOMAIN cfg.interfaces :
              cfg.interfaces[k].hw # None => ByAddress(cfg, cfg.interfaces[k])
         /\ Spoofs(cfg) \cap (Hardware \cup {RandomMac}) = {}
<1>1. cfg \in Config
  BY ConfigAssumption DEF ConfigAssumption
<1>2. /\ cfg.interfaces \in Seq(Details) /\ cfg.bridges \in Seq(Bridges)
      /\ cfg.tunnels \in Seq(STRING)
  BY <1>1 DEF Config
<1>3. /\ \A k \in DOMAIN cfg.interfaces : cfg.interfaces[k] \in Details
      /\ \A b \in DOMAIN cfg.bridges : cfg.bridges[b] \in Bridges
      /\ \A t \in DOMAIN cfg.tunnels : cfg.tunnels[t] \in STRING
  BY <1>2, ElementOfSeq
<1> QED
  BY <1>1, <1>2, <1>3, ConfigAssumption DEF ConfigAssumption

\* A set of places in a sequence that is not empty has a last one.
LEMMA LastIn ==
  ASSUME NEW n \in Nat, NEW ks \in SUBSET (1 .. n), ks # {}
  PROVE  Last(ks) \in ks
<1> DEFINE back == {n - k : k \in ks}
<1>1. back \subseteq Nat /\ back # {}
  OBVIOUS
<1>2. PICK m \in back : \A y \in back : <<y, m>> \notin OpToRel(<, Nat)
  BY <1>1, WFMin, NatLessThanWellFounded
<1>3. \A y \in back : ~(y < m)
  BY <1>1, <1>2, Zenon DEF OpToRel
<1>4. n - m \in ks /\ \A j \in ks : j <= n - m
  BY <1>3
<1> QED
  BY <1>4 DEF Last

LEMMA EntryFound ==
  ASSUME cfg \in Configs, NEW s, Entries(s) # {}
  PROVE  \E k \in Entries(s) : k \in DOMAIN cfg.interfaces /\ EntryOf(s) = cfg.interfaces[k]
<1>1. DOMAIN cfg.interfaces = 1 .. Len(cfg.interfaces) /\ Len(cfg.interfaces) \in Nat
  BY Cfg
<1>2. Entries(s) \in SUBSET (1 .. Len(cfg.interfaces))
  BY <1>1 DEF Entries, WithMac, WithName
<1>3. Last(Entries(s)) \in Entries(s)
  BY <1>1, <1>2, LastIn
<1> QED
  BY <1>1, <1>2, <1>3 DEF EntryOf

-----------------------------------------------------------------------------
(* The entry of a link *)

Link == [kind : {"phys", "bridge", "wireguard"}, perm : Macs, born : STRING,
         mac : Macs, name : STRING, fixed : BOOLEAN, up : BOOLEAN,
         master : Nat, addrs : SUBSET IPs, ready : BOOLEAN]

LEMMA ConfiguredType ==
  ASSUME cfg \in Configs, NEW d \in Configured
  PROVE  /\ d \in Details
         /\ d.addr # None => d.addr \in IPs
         /\ d.spoof # None => d.spoof \in Spoofs(cfg) /\ d.spoof \notin Hardware \cup {RandomMac}
         /\ d.hw # None => d.hw \in Hardware /\ ByAddress(cfg, d)
  BY Cfg DEF Configured, Details, IPs, Spoofs

\* Two entries with a name, an address or an address to give in common are one.
LEMMA OneEntry ==
  ASSUME cfg \in Configs, NEW d \in Configured, NEW e \in Configured,
         d.name = e.name \/ (d.hw = e.hw /\ d.hw # None) \/ (d.spoof = e.spoof /\ d.spoof # None)
  PROVE  d = e
  BY Cfg DEF Configured, EntriesDistinct

\* The entry of a link has its name, or its address, which it may have been given.
LEMMA EntryIs ==
  ASSUME cfg \in Configs, NEW s, Entries(s) # {}
  PROVE  /\ EntryOf(s) \in Configured
         /\ \/ s.mac # None /\ s.mac \in {EntryOf(s).hw, EntryOf(s).spoof}
            \/ /\ EntryOf(s).name = s.name
               /\ s.mac # None => \A d \in Configured : s.mac \notin {d.hw, d.spoof}
  BY EntryFound DEF Entries, WithMac, WithName, Configured

\* The link of which an entry speaks is found by it.
LEMMA EntryThere ==
  ASSUME cfg \in Configs, NEW s, NEW d \in Configured,
         \/ s.mac # None /\ s.mac \in {d.hw, d.spoof}
         \/ s.name = d.name
  PROVE  Entries(s) # {}
  BY DEF Entries, WithMac, WithName, Configured

\* What a link is given belongs to it, or is nothing.
LEMMA EntryMeant ==
  ASSUME cfg \in Configs, NEW l \in Link, LinkTold(l), Entries(l) # {}
  PROVE  LET d == EntryOf(l) IN
         /\ d \in Configured
         /\ Meant(l, d) \/ (d.name = l.name /\ d.addr = None /\ d.spoof = None)
         /\ d.name = l.name \/ d \in Known(l)
<1> DEFINE d == EntryOf(l)
<1>0. d \in Configured /\ d \in Details
  BY EntryIs, ConfiguredType
<1>1. CASE l.mac # None /\ l.mac = d.hw
  <2>1. d.hw \in Hardware /\ ByAddress(cfg, d)
    BY <1>0, <1>1, ConfiguredType
  <2>2. l.mac = l.perm
    BY <1>1, <2>1, ConfiguredType DEF LinkTold, MacTold, ByAddress
  <2> QED
    BY <1>0, <1>1, <2>2 DEF Known, Meant
<1>2. CASE l.mac # None /\ l.mac = d.spoof
  <2>1. d.spoof \notin Hardware \cup {RandomMac}
    BY <1>0, <1>2, ConfiguredType
  <2>2. \A b \in DOMAIN cfg.bridges : cfg.bridges[b].members \subseteq Hardware
    BY Cfg DEF Bridges
  <2>3. PICK e \in Configured : Meant(l, e) /\ e.spoof # None /\ l.mac = e.spoof
    BY <1>2, <2>1, <2>2 DEF LinkTold, MacTold, Origin
  <2>4. e = d
    BY <1>0, <1>2, <2>3, OneEntry
  <2>5. Meant(l, d)
    BY <2>3, <2>4
  <2>6. CASE Known(l) # {}
    BY <1>0, <2>5, <2>6 DEF Meant
  <2>7. CASE Known(l) = {}
    BY <1>0, <2>5, <2>7 DEF Meant, LinkTold, NameTold
  <2> QED
    BY <1>0, <2>5, <2>6, <2>7
<1>3. CASE /\ d.name = l.name
           /\ l.mac # None => \A e \in Configured : l.mac \notin {e.hw, e.spoof}
  <2>1. CASE l.name # l.born
    <3>1. PICK e \in Known(l) : l.name = e.name
      BY <2>1 DEF LinkTold, NameTold
    <3>2. e = d
      BY <1>0, <1>3, <3>1, OneEntry DEF Known
    <3> QED
      BY <1>0, <1>3, <3>1, <3>2 DEF Meant
  <2>2. CASE l.name = l.born /\ d.hw # None
    <3>1. ByAddress(cfg, d)
      BY <1>0, <2>2, ConfiguredType
    <3>2. d.name \in Named(KernelNames)
      BY <1>3, <2>2, <3>1 DEF LinkTold, Origin, ByAddress
    <3> QED
      BY <1>0, <1>3, <3>1, <3>2 DEF ByAddress
  <2>3. CASE l.name = l.born /\ d.hw = None
    <3>1. Known(l) = {}
      <4> SUFFICES ASSUME NEW e \in Known(l) PROVE FALSE
        OBVIOUS
      <4>1. e \in Configured /\ e.hw # None /\ e.hw = l.perm /\ e.hw \in Hardware
        BY ConfiguredType DEF Known
      <4>2. l.perm # RandomMac /\ l.mac # l.perm
        BY <1>3, <4>1, ConfigAssumption DEF ConfigAssumption
      <4>3. PICK f \in Configured : f.spoof # None /\ l.mac = f.spoof
        BY <4>2 DEF LinkTold, MacTold
      <4> QED
        BY <1>3, <4>3
    <3> QED
      BY <1>0, <1>3, <2>3, <3>1 DEF Meant
  <2> QED
    BY <2>1, <2>2, <2>3
<1> QED
  BY <1>1, <1>2, <1>3, EntryIs

\* A link is found by the entry that is about it.
LEMMA MeantFound ==
  ASSUME cfg \in Configs, NEW l \in Link, LinkTold(l), NEW d \in Configured, Meant(l, d)
  PROVE  Entries(l) # {} /\ EntryOf(l) = d
<1>1. CASE d.hw # None /\ d.hw = l.perm
  <2>1. d.hw \in Hardware /\ ByAddress(cfg, d)
    BY <1>1, ConfiguredType
  <2>2. l.perm # RandomMac
    BY <1>1, <2>1, ConfigAssumption DEF ConfigAssumption
  <2>3. l.mac # None /\ l.mac \in {d.hw, d.spoof}
    <3>1. CASE l.mac = l.perm
      BY <1>1, <3>1
    <3>2. CASE \E e \in Configured : Meant(l, e) /\ e.spoof # None /\ l.mac = e.spoof
      <4>1. PICK e \in Configured : Meant(l, e) /\ e.spoof # None /\ l.mac = e.spoof
        BY <3>2
      <4>2. d \in Known(l)
        BY <1>1 DEF Known
      <4>3. e = d
        BY <4>1, <4>2, OneEntry DEF Meant, Known
      <4> QED
        BY <4>1, <4>3
    <3> QED
      BY <2>2, <3>1, <3>2 DEF LinkTold, MacTold
  <2>4. Entries(l) # {}
    BY <2>3, EntryThere
  <2>5. EntryOf(l) \in Configured /\ l.mac \in {EntryOf(l).hw, EntryOf(l).spoof}
    BY <2>3, <2>4, EntryIs
  <2>6. EntryOf(l) = d
    <3>1. CASE l.mac = d.hw /\ l.mac = EntryOf(l).hw
      BY <1>1, <2>5, <3>1, OneEntry
    <3>2. CASE l.mac = d.spoof /\ l.mac = EntryOf(l).spoof
      BY <2>3, <2>5, <3>2, OneEntry
    <3>3. CASE l.mac = d.hw /\ l.mac = EntryOf(l).spoof
      BY <2>1, <2>3, <2>5, <3>3, ConfiguredType
    <3>4. CASE l.mac = d.spoof /\ l.mac = EntryOf(l).hw
      BY <2>3, <2>5, <3>4, ConfiguredType
    <3> QED
      BY <2>3, <2>5, <3>1, <3>2, <3>3, <3>4
  <2> QED
    BY <2>4, <2>6
<1>2. CASE Known(l) = {} /\ d.hw = None /\ d.name = l.born
  <2>1. l.name = d.name
    BY <1>2 DEF LinkTold, NameTold
  <2>2. Entries(l) # {}
    BY <2>1, EntryThere
  <2>3. EntryOf(l) \in Configured
    BY <2>2, EntryIs
  <2>4. EntryOf(l).name = l.name
    BY <1>2, <2>2, EntryMeant DEF Known
  <2> QED
    BY <2>1, <2>2, <2>3, <2>4, OneEntry
<1> QED
  BY <1>1, <1>2 DEF Meant, Known

LEMMA SameEntry ==
  ASSUME NEW s, NEW l, s.name = l.name, s.mac = l.mac
  PROVE  Entries(s) = Entries(l) /\ EntryOf(s) = EntryOf(l)
  BY DEF Entries, EntryOf

\* The link of a bridge, which alone may have its name, keeps it.
LEMMA BridgeKept ==
  ASSUME cfg \in Configs, NEW l \in Link, LinkTold(l), l.name \in BridgeNames(cfg)
  PROVE  l.perm = RandomMac /\ (Entries(l) # {} => EntryOf(l).name = l.name)
<1>1. l.name = l.born
  BY ConfiguredType DEF LinkTold, NameTold, Known, ByAddress
<1>2. l.perm = RandomMac
  BY <1>1, Cfg DEF LinkTold, Origin, KindsDistinct
<1>3. Known(l) = {}
  BY <1>2, ConfiguredType, ConfigAssumption DEF Known, ConfigAssumption
<1> QED
  BY <1>2, <1>3, EntryMeant

\* A link that is configured, or halfway, is still told of truly.
LEMMA AfterTold ==
  ASSUME cfg \in Configs, NEW l \in Link, LinkTold(l), Entries(l) # {}, NEW n \in 1 .. 4
  PROVE  LET m == After(l, EntryOf(l), n) IN
         /\ m \in Link /\ LinkTold(m)
         /\ m.name = EntryOf(l).name /\ m.master = l.master /\ m.ready = l.ready
         /\ l.up => m.up
         /\ m.perm = l.perm /\ m.born = l.born
         /\ m.mac = l.mac \/ (m.mac = EntryOf(l).spoof /\ m.mac # None)
<1> DEFINE d == EntryOf(l)
           m == After(l, d, n)
<1>1. /\ d \in Configured /\ d \in Details
      /\ Meant(l, d) \/ (d.name = l.name /\ d.addr = None /\ d.spoof = None)
      /\ d.name = l.name \/ d \in Known(l)
  BY EntryMeant, ConfiguredType
<1>2. /\ m.perm = l.perm /\ m.born = l.born /\ m.kind = l.kind
      /\ m.master = l.master /\ m.ready = l.ready
      /\ m.name = d.name
      /\ m.mac = IF n >= 2 /\ d.spoof # None THEN d.spoof ELSE l.mac
      /\ m.up = IF n >= 3 THEN TRUE ELSE l.up
      /\ m.addrs = IF n >= 4 /\ d.addr # None THEN l.addrs \cup {d.addr} ELSE l.addrs
  BY DEF After, Link
<1>3. m \in Link
  <2>1. d.name \in STRING /\ (d.addr # None => d.addr \in IPs) /\ (d.spoof # None => d.spoof \in Macs)
    BY <1>1, ConfiguredType DEF Details, Macs
  <2> QED
    BY <2>1 DEF After, Link
<1>4. Known(m) = Known(l) /\ \A e : Meant(m, e) = Meant(l, e)
  BY <1>2 DEF Known, Meant
<1>5. Origin(m)
  BY <1>2 DEF LinkTold, Origin
<1>6. NameTold(m)
  BY <1>1, <1>2, <1>4 DEF LinkTold, NameTold
<1>7. MacTold(m)
  <2>1. CASE n >= 2 /\ d.spoof # None
    BY <1>1, <1>2, <1>4, <2>1 DEF MacTold
  <2>2. CASE ~(n >= 2 /\ d.spoof # None)
    BY <1>2, <1>4, <2>2 DEF MacTold, LinkTold
  <2> QED
    BY <2>1, <2>2
<1>8. AddrsTold(m)
  BY <1>1, <1>2, <1>4 DEF AddrsTold, LinkTold
<1> QED
  BY <1>2, <1>3, <1>5, <1>6, <1>7, <1>8 DEF LinkTold

LEMMA AfterIs ==
  ASSUME NEW l \in Link, NEW d
  PROVE  LET m == After(l, d, 4) IN
         /\ m.kind = l.kind /\ m.perm = l.perm /\ m.born = l.born
         /\ m.mac = IF d.spoof # None THEN d.spoof ELSE l.mac
         /\ m.name = d.name /\ m.fixed = IF d.spoof # None THEN TRUE ELSE l.fixed
         /\ m.up = TRUE /\ m.master = l.master
         /\ m.addrs = IF d.addr # None THEN l.addrs \cup {d.addr} ELSE l.addrs
         /\ m.ready = l.ready
  BY DEF After, Link

LEMMA SameLink ==
  ASSUME NEW l \in Link, NEW m \in Link,
         l.kind = m.kind, l.perm = m.perm, l.born = m.born, l.mac = m.mac, l.name = m.name,
         l.fixed = m.fixed, l.up = m.up, l.master = m.master, l.addrs = m.addrs, l.ready = m.ready
  PROVE  l = m
  BY DEF Link

\* It is found by the same entry again, which then has nothing to give.
LEMMA AfterDone ==
  ASSUME cfg \in Configs, NEW l \in Link, LinkTold(l), Entries(l) # {}
  PROVE  LET d == EntryOf(l)
             m == After(l, d, 4)
         IN  EntryOf(m) = d /\ After(m, d, 4) = m /\ IsConfigured(m, d)
<1> DEFINE d == EntryOf(l)
           m == After(l, d, 4)
<1>1. d \in Configured /\ d \in Details
  BY EntryMeant, ConfiguredType
<1>2. /\ m.name = d.name /\ m.up
      /\ m.mac = IF d.spoof # None THEN d.spoof ELSE l.mac
      /\ m.addrs = IF d.addr # None THEN l.addrs \cup {d.addr} ELSE l.addrs
  <2> HIDE DEF d
  <2> QED
    BY AfterIs
<1>3. IsConfigured(m, d)
  BY <1>2 DEF IsConfigured
<1>4. Entries(m) # {}
  BY <1>1, <1>2, EntryThere
<1>5. EntryOf(m) \in Configured
  BY <1>4, EntryIs
<1>6. EntryOf(m) = d
  <2>1. CASE d.spoof # None
    <3>1. m.mac \in {EntryOf(m).hw, EntryOf(m).spoof}
      BY <1>1, <1>2, <1>4, <2>1, EntryIs
    <3>2. EntryOf(m).hw # d.spoof
      BY <1>1, <1>5, <2>1, ConfiguredType
    <3> QED
      BY <1>1, <1>2, <1>5, <2>1, <3>1, <3>2, OneEntry
  <2>2. CASE d.spoof = None /\ l.mac # None /\ l.mac = d.hw
    <3>1. m.mac \in {EntryOf(m).hw, EntryOf(m).spoof}
      BY <1>1, <1>2, <1>4, <2>2, EntryIs
    <3>2. EntryOf(m).spoof # d.hw
      BY <1>1, <1>5, <2>2, ConfiguredType
    <3> QED
      BY <1>1, <1>2, <1>5, <2>2, <3>1, <3>2, OneEntry
  <2>3. CASE d.spoof = None /\ (l.mac # None => \A e \in Configured : l.mac \notin {e.hw, e.spoof})
    <3>1. EntryOf(m).name = m.name
      BY <1>2, <1>4, <1>5, <2>3, EntryIs
    <3> QED
      BY <1>1, <1>2, <1>5, <3>1, OneEntry
  <2> QED
    BY <2>1, <2>2, <2>3, EntryIs
<1>7. After(m, d, 4) = m
  <2>1. m \in Link /\ LinkTold(m)
    BY AfterTold
  <2>2. After(m, d, 4) \in Link
    BY <1>4, <1>6, <2>1, AfterTold
  <2>3. /\ m.mac = IF d.spoof # None THEN d.spoof ELSE l.mac
        /\ m.name = d.name /\ m.fixed = IF d.spoof # None THEN TRUE ELSE l.fixed
        /\ m.up = TRUE
        /\ m.addrs = IF d.addr # None THEN l.addrs \cup {d.addr} ELSE l.addrs
    BY AfterIs
  <2> HIDE DEF d, m
  <2> DEFINE p == After(m, d, 4)
  <2>4. /\ p.kind = m.kind /\ p.perm = m.perm /\ p.born = m.born
        /\ p.name = m.name /\ p.master = m.master /\ p.ready = m.ready
    BY <2>1, <2>3, AfterIs
  <2>7. p.mac = m.mac
    <3>1. p.mac = IF d.spoof # None THEN d.spoof ELSE m.mac
      BY <2>1, AfterIs
    <3> QED
      BY <2>3, <3>1
  <2>8. p.addrs = m.addrs
    <3>1. p.addrs = IF d.addr # None THEN m.addrs \cup {d.addr} ELSE m.addrs
      BY <2>1, AfterIs
    <3> QED
      BY <2>3, <3>1
  <2>5. After(m, d, 4).up = m.up
    BY <2>1, <2>3, AfterIs
  <2>6. After(m, d, 4).fixed = m.fixed
    <3>1. After(m, d, 4).fixed = IF d.spoof # None THEN TRUE ELSE m.fixed
      BY <2>1, AfterIs
    <3> QED
      BY <2>3, <3>1
  <2> QED
    BY <2>1, <2>2, <2>4, <2>5, <2>6, <2>7, <2>8, SameLink
<1> QED
  BY <1>3, <1>6, <1>7

-----------------------------------------------------------------------------
(* The links and the list *)

LEMMA LinksType ==
  ASSUME TypeOK
  PROVE  /\ links \in Seq(Link) /\ Len(links) \in Nat /\ Indices = 1 .. Len(links)
         /\ \A i \in Indices : links[i] \in Link /\ links[i].master \in 0 .. Len(links)
<1> DEFINE L == [kind : {"phys", "bridge", "wireguard"}, perm : Macs, born : STRING,
                 mac : Macs, name : STRING, fixed : BOOLEAN, up : BOOLEAN,
                 master : 0 .. Len(links), addrs : SUBSET IPs, ready : BOOLEAN]
<1>1. links \in Seq(L)
  BY DEF TypeOK
<1>2. Len(links) \in Nat /\ Indices = 1 .. Len(links)
  BY <1>1 DEF Indices
<1>3. L \subseteq Link
  BY <1>2 DEF Link
<1>4. \A i \in Indices : links[i] \in L
  <2> HIDE DEF L
  <2> QED
    BY <1>1, ElementOfSeq DEF Indices
<1> QED
  BY <1>1, <1>2, <1>3, <1>4, SeqMonotonic

LEMMA ListType ==
  ASSUME TypeOK
  PROVE  /\ Len(todo) \in Nat /\ DOMAIN todo = 1 .. Len(todo)
         /\ \A k \in DOMAIN todo : todo[k] \in [index : Indices, name : STRING, mac : Macs]
<1> DEFINE L == [index : Indices, name : STRING, mac : Macs]
<1>1. todo \in Seq(L)
  BY DEF TypeOK
<1> HIDE DEF L
<1>2. \A k \in DOMAIN todo : todo[k] \in L
  BY <1>1, ElementOfSeq
<1> QED
  BY <1>1, <1>2 DEF L

LEMMA HeadOfList ==
  ASSUME TypeOK, todo # <<>>
  PROVE  /\ Head(todo) = todo[1] /\ 1 \in DOMAIN todo
         /\ Head(todo) \in [index : Indices, name : STRING, mac : Macs]
         /\ Tail(todo) \in Seq([index : Indices, name : STRING, mac : Macs])
         /\ DOMAIN Tail(todo) = 1 .. Len(todo) - 1
         /\ \A k \in DOMAIN Tail(todo) : k + 1 \in DOMAIN todo /\ Tail(todo)[k] = todo[k + 1]
<1> DEFINE L == [index : Indices, name : STRING, mac : Macs]
<1>1. todo \in Seq(L)
  BY DEF TypeOK
<1> HIDE DEF L
<1>2. Len(todo) \in Nat /\ Len(todo) > 0 /\ DOMAIN todo = 1 .. Len(todo)
  BY <1>1, EmptySeq
<1>3. /\ Head(todo) = todo[1]
      /\ Tail(todo) \in Seq(L)
      /\ Len(Tail(todo)) = Len(todo) - 1
      /\ \A k \in 1 .. Len(Tail(todo)) : Tail(todo)[k] = todo[k + 1]
  BY <1>1, HeadTailProperties
<1> QED
  BY <1>1, <1>2, <1>3, ListType DEF L

\* The links of a longer list, each its own or new, with names of their own.
LEMMA LinksNext ==
  ASSUME TypeOK, cfg' = cfg, links' \in Seq(Link), Len(links') >= Len(links),
         \A i \in DOMAIN links' : links'[i].master \in 0 .. Len(links')
  PROVE  /\ (links \in Seq([kind : {"phys", "bridge", "wireguard"}, perm : Macs, born : STRING,
                      mac : Macs, name : STRING, fixed : BOOLEAN, up : BOOLEAN,
                      master : 0 .. Len(links), addrs : SUBSET IPs, ready : BOOLEAN]))'
         /\ Indices' = 1 .. Len(links') /\ Indices \subseteq Indices'
         /\ IPs' = IPs /\ Macs' = Macs
<1> DEFINE L == [kind : {"phys", "bridge", "wireguard"}, perm : Macs, born : STRING,
                 mac : Macs, name : STRING, fixed : BOOLEAN, up : BOOLEAN,
                 master : 0 .. Len(links'), addrs : SUBSET IPs, ready : BOOLEAN]
<1>1. IPs' = IPs /\ Macs' = Macs
  BY DEF IPs, Macs, Spoofs, Configured
<1>2. Len(links') \in Nat /\ DOMAIN links' = 1 .. Len(links') /\ Indices' = DOMAIN links'
  BY DEF Indices
<1>3. \A i \in 1 .. Len(links') : links'[i] \in Link
  BY <1>2, ElementOfSeq
<1>4. \A i \in 1 .. Len(links') : links'[i] \in L
  BY <1>2, <1>3 DEF Link
<1>5. links' \in [1 .. Len(links') -> L]
  <2>1. links' = [i \in 1 .. Len(links') |-> links'[i]]
    BY <1>2, LenProperties
  <2> HIDE DEF L
  <2> QED
    BY <1>4, <2>1
<1>6. links' \in Seq(L)
  <2> HIDE DEF L
  <2> QED
    BY <1>2, <1>5, SeqDef
<1> QED
  BY <1>1, <1>2, <1>6, LinksType

-----------------------------------------------------------------------------
(* What the steps do to the links *)

LEMMA Added ==
  ASSUME TypeOK, NEW kind \in {"phys", "bridge", "wireguard"}, NEW mac \in Macs,
         NEW name \in STRING
  PROVE  LET ls == LinkAdd(kind, mac, name) IN
         /\ ls \in Seq(Link) /\ Len(ls) = Len(links) + 1 /\ DOMAIN ls = 1 .. Len(links) + 1
         /\ \A i \in Indices : ls[i] = links[i]
         /\ ls[Len(links) + 1] = NewLink(kind, mac, name)
         /\ \A i \in DOMAIN ls : ls[i].master \in 0 .. Len(ls)
<1>1. NewLink(kind, mac, name) \in Link
  BY DEF NewLink, Link
<1>2. NewLink(kind, mac, name).master = 0
  BY DEF NewLink
<1> QED
  BY <1>1, <1>2, LinksType, AppendProperties DEF LinkAdd

\* Two records that differ in what a bridge does to a link.
Alike(l, m) ==
    /\ m \in Link /\ m.kind = l.kind /\ m.perm = l.perm /\ m.born = l.born /\ m.name = l.name
    /\ m.fixed = l.fixed /\ m.addrs = l.addrs /\ (l.ready => m.ready) /\ (l.up => m.up)

\* LinkSetMaster of link i.
LEMMA Mastered ==
  ASSUME TypeOK, NEW i \in Indices, NEW b \in Indices, i # b, NEW ls \in SetMaster(i, b)
  PROVE  /\ ls \in Seq(Link) /\ Len(ls) = Len(links) /\ DOMAIN ls = Indices
         /\ \A j \in Indices :
              /\ Alike(links[j], ls[j])
              /\ ls[j].master = IF j = i THEN b ELSE links[j].master
              /\ ls[j].mac = links[j].mac \/ (j = b /\ ls[j].mac = links[i].mac)
              /\ ls[j].up = links[j].up /\ ls[j].ready = links[j].ready
         /\ links[i].master = b => ls = links
<1>1. PICK m : /\ ls = [links EXCEPT ![i].master = b, ![b].mac = m]
               /\ m \in {links[b].mac, links[i].mac}
               /\ links[i].master = b => m = links[b].mac
  BY DEF SetMaster
<1> DEFINE li == [links[i] EXCEPT !.master = b]
           lb == [links[b] EXCEPT !.mac = m]
<1>2. li \in Link /\ lb \in Link /\ b \in Nat
  <2>1. b \in Nat /\ m \in Macs /\ links[i] \in Link /\ links[b] \in Link
    BY <1>1, LinksType DEF Link
  <2> QED
    BY <2>1 DEF Link
<1>3. ls = [j \in Indices |-> IF j = i THEN li ELSE IF j = b THEN lb ELSE links[j]]
  <2>1. ls = [[links EXCEPT ![i] = li] EXCEPT ![b] = lb]
    <3>1. [links EXCEPT ![i] = li][b] = links[b]
      BY LinksType
    <3> QED
      BY <1>1, <3>1
  <2> HIDE DEF li, lb
  <2> QED
    BY <2>1, LinksType DEF Indices
<1>4. /\ Alike(links[i], li) /\ li.master = b /\ li.mac = links[i].mac
      /\ li.up = links[i].up /\ li.ready = links[i].ready
  BY <1>2, LinksType DEF Alike, Link
<1>5. /\ Alike(links[b], lb) /\ lb.master = links[b].master /\ lb.mac = m
      /\ lb.up = links[b].up /\ lb.ready = links[b].ready
  BY <1>2, LinksType DEF Alike, Link
<1> HIDE DEF li, lb
<1>6. ls \in Seq(Link) /\ Len(ls) = Len(links) /\ DOMAIN ls = Indices
  <2>1. ls \in [1 .. Len(links) -> Link]
    BY <1>2, <1>3, LinksType
  <2>2. ls \in Seq(Link)
    BY <2>1, SeqDef, LinksType
  <2> QED
    BY <1>3, <2>1, <2>2, LinksType, LenProperties
<1>7. \A j \in Indices : Alike(links[j], links[j])
  BY LinksType DEF Alike
<1>8. links[i].master = b => ls = links
  <2> SUFFICES ASSUME links[i].master = b PROVE ls = links
    OBVIOUS
  <2>1. li = links[i] /\ lb = links[b]
    BY <1>1, LinksType, SameLink, <1>4, <1>5, <1>2 DEF Alike
  <2> QED
    BY <1>3, <2>1, LinksType, LenProperties
<1>9. ASSUME NEW j \in Indices
      PROVE  /\ Alike(links[j], ls[j])
             /\ ls[j].master = IF j = i THEN b ELSE links[j].master
             /\ ls[j].mac = links[j].mac \/ (j = b /\ ls[j].mac = links[i].mac)
             /\ ls[j].up = links[j].up /\ ls[j].ready = links[j].ready
  <2>1. CASE j = i
    BY <1>3, <1>4, <2>1
  <2>2. CASE j = b
    BY <1>1, <1>3, <1>5, <2>2
  <2>3. CASE j # i /\ j # b
    BY <1>3, <1>7, <2>3
  <2> QED
    BY <2>1, <2>2, <2>3
<1> QED
  BY <1>6, <1>8, <1>9

\* LinkSetUp of link i.
UppedIs(ms, i, ls) ==
    /\ ls \in Seq(Link) /\ Len(ls) = Len(links) /\ DOMAIN ls = Indices
    /\ \A j \in Indices :
         /\ Alike(ms[j], ls[j])
         /\ ls[j].master = ms[j].master /\ ls[j].mac = ms[j].mac
         /\ ls[j].ready = ms[j].ready
         /\ ls[j].up = (ms[j].up \/ j = i)
    /\ ms[i].up => ls = ms

LEMMA Upped ==
  ASSUME TypeOK, NEW i \in Indices, NEW ms \in Seq(Link), Len(ms) = Len(links)
  PROVE  UppedIs(ms, i, LinkSetUp(ms, i))
<1> DEFINE ls == LinkSetUp(ms, i)
<1>0. DOMAIN ms = Indices /\ \A j \in Indices : ms[j] \in Link
  BY LinksType, ElementOfSeq
<1> DEFINE li == [ms[i] EXCEPT !.up = TRUE]
<1>2. li \in Link
  BY <1>0 DEF Link
<1>3. ls = [j \in Indices |-> IF j = i THEN li ELSE ms[j]]
  BY <1>0, LenProperties DEF LinkSetUp
<1>4. Alike(ms[i], li) /\ li.master = ms[i].master /\ li.mac = ms[i].mac /\ li.up /\ li.ready = ms[i].ready
  BY <1>0, <1>2 DEF Alike, Link
<1>5. li.up \in BOOLEAN /\ \A j \in Indices : ms[j].up \in BOOLEAN
  BY <1>0, <1>2 DEF Link
<1> HIDE DEF li, ls
<1>6. ls \in Seq(Link) /\ Len(ls) = Len(links) /\ DOMAIN ls = Indices
  <2>1. ls \in [1 .. Len(links) -> Link]
    BY <1>0, <1>2, <1>3, LinksType
  <2>2. ls \in Seq(Link)
    BY <2>1, SeqDef, LinksType
  <2> QED
    BY <1>3, <2>1, <2>2, LinksType, LenProperties
<1>7. \A j \in Indices : Alike(ms[j], ms[j])
  BY <1>0 DEF Alike
<1>8. ms[i].up => ls = ms
  <2> SUFFICES ASSUME ms[i].up PROVE ls = ms
    OBVIOUS
  <2>1. li = ms[i]
    BY <1>0, <1>2, <1>4, <1>5, SameLink DEF Alike
  <2> QED
    BY <1>0, <1>3, <2>1, LenProperties
<1> QED
  BY <1>3, <1>4, <1>6, <1>7, <1>8, <1>5 DEF ls, UppedIs

\* The calls for one link, or the first n of them.
LEMMA Given ==
  ASSUME TypeOK, Told, NEW i \in Indices, Entries(links[i]) # {}, NEW n \in 1 .. 4
  PROVE  LET ls == Give(i, EntryOf(links[i]), n) IN
         /\ ls \in Seq(Link) /\ Len(ls) = Len(links) /\ DOMAIN ls = Indices
         /\ ls[i] = After(links[i], EntryOf(links[i]), n)
         /\ \A j \in Indices \ {i} : ls[j] = links[j]
         /\ LinkTold(ls[i]) /\ ls[i].name = EntryOf(links[i]).name
         /\ ls[i].perm = links[i].perm /\ ls[i].born = links[i].born
         /\ ls[i].master = links[i].master /\ ls[i].ready = links[i].ready
         /\ links[i].up => ls[i].up
         /\ ls[i].mac = links[i].mac
            \/ (ls[i].mac = EntryOf(links[i]).spoof /\ ls[i].mac # None)
<1> DEFINE l == links[i]
           m == After(l, EntryOf(l), n)
           ls == Give(i, EntryOf(links[i]), n)
<1>1. cfg \in Configs /\ l \in Link /\ LinkTold(l)
  BY LinksType DEF TypeOK, Told
<1>2. /\ m \in Link /\ LinkTold(m)
      /\ m.name = EntryOf(l).name /\ m.master = l.master /\ m.ready = l.ready
      /\ l.up => m.up
      /\ m.perm = l.perm /\ m.born = l.born
      /\ m.mac = l.mac \/ (m.mac = EntryOf(l).spoof /\ m.mac # None)
  BY <1>1, AfterTold
<1> HIDE DEF m
<1>3. ls = [links EXCEPT ![i] = m]
  BY DEF m, Give
<1> HIDE DEF ls
<1>4. /\ ls \in Seq(Link) /\ Len(ls) = Len(links)
      /\ \A j \in 1 .. Len(links) : ls[j] = IF j = i THEN m ELSE links[j]
  BY <1>2, <1>3, LinksType, ExceptSeq
<1>5. DOMAIN ls = Indices /\ ls[i] = m /\ \A j \in Indices \ {i} : ls[j] = links[j]
  BY <1>4, LinksType, LenProperties
<1> QED
  BY <1>2, <1>4, <1>5 DEF m, ls

\* ConfigureDevice of the tunnel n.
LEMMA Readied ==
  ASSUME NEW ms \in Seq(Link), NEW n
  PROVE  LET ls == ConfigureDevice(ms, n) IN
         /\ ls \in Seq(Link) /\ Len(ls) = Len(ms) /\ DOMAIN ls = DOMAIN ms
         /\ \A j \in DOMAIN ms :
              /\ Alike(ms[j], ls[j]) /\ (ls[j].up => ms[j].up)
              /\ ls[j].master = ms[j].master /\ ls[j].mac = ms[j].mac
              /\ ms[j].name = n => ls[j].ready
              /\ ms[j].name # n => ls[j] = ms[j]
         /\ (\A j \in DOMAIN ms : ms[j].name = n => ms[j].ready) => ls = ms
<1> DEFINE R(l) == [l EXCEPT !.ready = TRUE]
           ls == ConfigureDevice(ms, n)
<1>1. \A l \in Link : /\ R(l) \in Link /\ Alike(l, R(l)) /\ R(l).up = l.up
                      /\ R(l).master = l.master /\ R(l).mac = l.mac /\ R(l).ready
  BY DEF Alike, Link
<1>2. \A l \in Link : l.ready => R(l) = l
  <2> TAKE l \in Link
  <2> HAVE l.ready
  <2>1. l.ready = TRUE
    BY DEF Link
  <2> QED
    BY <2>1 DEF Link
<1>3. \A l \in Link : Alike(l, l)
  BY DEF Alike
<1>4. Len(ms) \in Nat /\ DOMAIN ms = 1 .. Len(ms) /\ \A j \in DOMAIN ms : ms[j] \in Link
  BY LenProperties, ElementOfSeq
<1>5. ls = [i \in 1 .. Len(ms) |-> IF ms[i].name = n THEN R(ms[i]) ELSE ms[i]]
  BY <1>4 DEF ConfigureDevice
<1> HIDE DEF R, ls
<1>6. ls \in [1 .. Len(ms) -> Link]
  BY <1>1, <1>4, <1>5
<1>7. ls \in Seq(Link) /\ Len(ls) = Len(ms) /\ DOMAIN ls = DOMAIN ms
  BY <1>4, <1>6, SeqDef, LenProperties
<1>8. ASSUME NEW j \in DOMAIN ms
      PROVE  /\ Alike(ms[j], ls[j]) /\ (ls[j].up => ms[j].up)
             /\ ls[j].master = ms[j].master /\ ls[j].mac = ms[j].mac
             /\ ms[j].name = n => ls[j].ready
             /\ ms[j].name # n => ls[j] = ms[j]
  BY <1>1, <1>3, <1>4, <1>5
<1>9. ASSUME \A j \in DOMAIN ms : ms[j].name = n => ms[j].ready PROVE ls = ms
  <2>1. \A j \in 1 .. Len(ms) : ls[j] = ms[j]
    BY <1>2, <1>4, <1>5, <1>9
  <2> QED
    BY <1>4, <1>7, <2>1, SeqEqual
<1> QED
  BY <1>7, <1>8, <1>9 DEF ls

-----------------------------------------------------------------------------
(* The links after a step *)

LinksOK(ls) ==
    /\ ls \in Seq(Link) /\ Len(ls) >= Len(links)
    /\ \A i \in DOMAIN ls :
         /\ ls[i].master \in 0 .. Len(ls) /\ ls[i].master # i
         /\ LinkTold(ls[i])
    /\ \A i, j \in DOMAIN ls : ls[i].name = ls[j].name => i = j

LEMMA NewTold ==
  ASSUME NEW kind, NEW mac, NEW name, Origin(NewLink(kind, mac, name))
  PROVE  LinkTold(NewLink(kind, mac, name))
  BY DEF NewLink, LinkTold, NameTold, MacTold, AddrsTold

LEMMA AlikeTold ==
  ASSUME NEW l \in Link, NEW m, Alike(l, m), LinkTold(l),
         \/ m.mac = l.mac
         \/ l.perm = RandomMac /\ \E b \in DOMAIN cfg.bridges : m.mac \in cfg.bridges[b].members
  PROVE  LinkTold(m)
<1>1. m.perm = l.perm /\ m.born = l.born /\ m.name = l.name /\ m.addrs = l.addrs
  BY DEF Alike
<1>2. Known(m) = Known(l) /\ \A e : Meant(m, e) = Meant(l, e)
  BY <1>1 DEF Known, Meant
<1>3. Origin(m) /\ NameTold(m) /\ AddrsTold(m)
  BY <1>1, <1>2 DEF LinkTold, Origin, NameTold, AddrsTold
<1>4. MacTold(m)
  BY <1>1, <1>2 DEF LinkTold, MacTold
<1> QED
  BY <1>3, <1>4 DEF LinkTold

LEMMA SameOK ==
  ASSUME TypeOK, Told
  PROVE  LinksOK(links)
  BY LinksType DEF TypeOK, Told, LinksOK

LEMMA AddedOK ==
  ASSUME TypeOK, Told, NEW kind \in {"phys", "bridge", "wireguard"}, NEW mac \in Macs,
         NEW name \in STRING, name \notin NamesInUse, Origin(NewLink(kind, mac, name))
  PROVE  LinksOK(LinkAdd(kind, mac, name))
<1> DEFINE ls == LinkAdd(kind, mac, name)
<1>1. /\ ls \in Seq(Link) /\ Len(ls) = Len(links) + 1 /\ DOMAIN ls = 1 .. Len(links) + 1
      /\ \A i \in Indices : ls[i] = links[i]
      /\ ls[Len(links) + 1] = NewLink(kind, mac, name)
      /\ \A i \in DOMAIN ls : ls[i].master \in 0 .. Len(ls)
  BY Added
<1> HIDE DEF ls
<1>2. NewLink(kind, mac, name).name = name /\ NewLink(kind, mac, name).master = 0
  BY DEF NewLink
<1>3. \A i \in DOMAIN ls : i \in Indices \/ i = Len(links) + 1
  BY <1>1, LinksType
<1>4. \A i \in DOMAIN ls : ls[i].master # i /\ LinkTold(ls[i])
  BY <1>1, <1>2, <1>3, NewTold, LinksType DEF TypeOK, Told
<1>5. \A i, j \in DOMAIN ls : ls[i].name = ls[j].name => i = j
  BY <1>1, <1>2, <1>3 DEF TypeOK, NamesInUse, Indices
<1> QED
  BY <1>1, <1>4, <1>5, LinksType DEF LinksOK, ls

LEMMA MasteredOK ==
  ASSUME TypeOK, Told, NEW i \in Indices, NEW b \in Indices, i # b,
         links[b].name \in BridgeNames(cfg),
         \E k \in DOMAIN cfg.bridges : links[i].mac \in cfg.bridges[k].members,
         NEW ls \in SetMaster(i, b)
  PROVE  LinksOK(ls) /\ Len(ls) = Len(links)
<1>1. /\ ls \in Seq(Link) /\ Len(ls) = Len(links) /\ DOMAIN ls = Indices
      /\ \A j \in Indices :
           /\ Alike(links[j], ls[j])
           /\ ls[j].master = IF j = i THEN b ELSE links[j].master
           /\ ls[j].mac = links[j].mac \/ (j = b /\ ls[j].mac = links[i].mac)
  BY Mastered
<1>2. links[b].perm = RandomMac
  BY BridgeKept, LinksType DEF TypeOK, Told
<1>3. \A j \in Indices : LinkTold(ls[j])
  BY <1>1, <1>2, AlikeTold, LinksType DEF Told
<1>4. \A j \in Indices : ls[j].name = links[j].name
  BY <1>1 DEF Alike
<1>5. \A j \in Indices : ls[j].master \in 0 .. Len(ls) /\ ls[j].master # j
  BY <1>1, LinksType DEF TypeOK
<1> QED
  BY <1>1, <1>3, <1>4, <1>5, LinksType DEF LinksOK, TypeOK

LEMMA UppedOK ==
  ASSUME TypeOK, NEW ms, LinksOK(ms), Len(ms) = Len(links), NEW i \in Indices
  PROVE  LinksOK(LinkSetUp(ms, i)) /\ Len(LinkSetUp(ms, i)) = Len(links)
<1> DEFINE ls == LinkSetUp(ms, i)
<1>1. ms \in Seq(Link) /\ DOMAIN ms = Indices /\ \A j \in Indices : ms[j] \in Link
  BY LinksType, ElementOfSeq DEF LinksOK
<1>2. /\ ls \in Seq(Link) /\ Len(ls) = Len(links) /\ DOMAIN ls = Indices
      /\ \A j \in Indices :
           /\ Alike(ms[j], ls[j])
           /\ ls[j].master = ms[j].master /\ ls[j].mac = ms[j].mac
  BY <1>1, Upped DEF UppedIs
<1> HIDE DEF ls
<1>3. \A j \in Indices : LinkTold(ls[j])
  BY <1>1, <1>2, AlikeTold DEF LinksOK
<1>4. \A j \in Indices : ls[j].name = ms[j].name
  BY <1>2 DEF Alike
<1> QED
  BY <1>1, <1>2, <1>3, <1>4, LinksType DEF LinksOK, ls

LEMMA GivenOK ==
  ASSUME TypeOK, Told, NEW i \in Indices, Entries(links[i]) # {}, NEW n \in 1 .. 4,
         ~NameTaken(i, EntryOf(links[i]))
  PROVE  LinksOK(Give(i, EntryOf(links[i]), n)) /\ Len(Give(i, EntryOf(links[i]), n)) = Len(links)
<1> DEFINE ls == Give(i, EntryOf(links[i]), n)
<1>1. /\ ls \in Seq(Link) /\ Len(ls) = Len(links) /\ DOMAIN ls = Indices
      /\ \A j \in Indices \ {i} : ls[j] = links[j]
      /\ LinkTold(ls[i]) /\ ls[i].name = EntryOf(links[i]).name
      /\ ls[i].master = links[i].master
  BY Given
<1> HIDE DEF ls
<1>2. \A j \in Indices \ {i} : links[j].name # EntryOf(links[i]).name
  BY DEF NameTaken, Indices
<1>3. \A j, k \in Indices : links[j].name = links[k].name => j = k
  BY DEF TypeOK
<1>4. \A j, k \in Indices : ls[j].name = ls[k].name => j = k
  BY <1>1, <1>2, <1>3
<1>5. \A j \in Indices : links[j].master \in 0 .. Len(links) /\ links[j].master # j
  BY LinksType DEF TypeOK
<1>6. \A j \in Indices : ls[j].master \in 0 .. Len(ls) /\ ls[j].master # j /\ LinkTold(ls[j])
  BY <1>1, <1>5 DEF Told
<1> QED
  BY <1>1, <1>4, <1>6, LinksType DEF LinksOK, ls

LEMMA ReadiedOK ==
  ASSUME NEW ms, LinksOK(ms), NEW n
  PROVE  LinksOK(ConfigureDevice(ms, n)) /\ Len(ConfigureDevice(ms, n)) = Len(ms)
<1> DEFINE ls == ConfigureDevice(ms, n)
<1>1. ms \in Seq(Link) /\ \A j \in DOMAIN ms : ms[j] \in Link
  BY LenProperties, ElementOfSeq DEF LinksOK
<1>2. /\ ls \in Seq(Link) /\ Len(ls) = Len(ms) /\ DOMAIN ls = DOMAIN ms
      /\ \A j \in DOMAIN ms :
           /\ Alike(ms[j], ls[j])
           /\ ls[j].master = ms[j].master /\ ls[j].mac = ms[j].mac
  BY <1>1, Readied
<1> HIDE DEF ls
<1>3. \A j \in DOMAIN ms : LinkTold(ls[j]) /\ ls[j].name = ms[j].name
  <2> TAKE j \in DOMAIN ms
  <2>1. LinkTold(ls[j])
    BY <1>1, <1>2, AlikeTold DEF LinksOK
  <2> QED
    BY <1>2, <2>1 DEF Alike
<1> QED
  BY <1>2, <1>3 DEF LinksOK, ls

LEMMA ByNameIs ==
  ASSUME TypeOK, NEW n \in NamesInUse
  PROVE  /\ ByName(n) \in Indices /\ links[ByName(n)].name = n
         /\ \A i \in Indices : links[i].name = n => i = ByName(n)
<1>1. \E i \in DOMAIN links : links[i].name = n
  BY DEF NamesInUse
<1>2. ByName(n) \in DOMAIN links /\ links[ByName(n)].name = n
  BY <1>1 DEF ByName
<1> QED
  BY <1>2 DEF TypeOK, Indices

\* The link that is to be put into the bridge.
LEMMA MemberAhead ==
  ASSUME TypeOK, ListTrue, pc = "enslave", todo # <<>>, IsMember(Head(todo), cfg.bridges[nth])
  PROVE  LET i == Head(todo).index
             b == ByName(cfg.bridges[nth].name)
         IN  /\ i \in Indices /\ b \in Indices /\ i # b
             /\ nth \in DOMAIN cfg.bridges
             /\ links[b].name = cfg.bridges[nth].name /\ links[b].name \in BridgeNames(cfg)
             /\ links[i].mac \in cfg.bridges[nth].members
             /\ links[i].name = Head(todo).name /\ links[i].mac = Head(todo).mac
<1> DEFINE i == Head(todo).index
           b == ByName(cfg.bridges[nth].name)
<1>1. Head(todo) = todo[1] /\ 1 \in DOMAIN todo /\ i \in Indices
  BY HeadOfList
<1>2. nth \in DOMAIN cfg.bridges /\ cfg.bridges[nth].name \in NamesInUse
  BY DEF ListTrue, Bridge
<1>3. b \in Indices /\ links[b].name = cfg.bridges[nth].name
  BY <1>2, ByNameIs
<1>4. links[i].name = Head(todo).name /\ links[i].name # cfg.bridges[nth].name
  BY <1>1 DEF ListTrue, IsMember
<1>5. links[i].mac = Head(todo).mac
  BY <1>1, <1>4 DEF ListTrue, Bridge
<1> QED
  BY <1>1, <1>2, <1>3, <1>4, <1>5 DEF IsMember, BridgeNames

\* The link that is to be configured, and its entry.
LEMMA LinkAhead ==
  ASSUME TypeOK, ListTrue, pc = "interfaces", todo # <<>>
  PROVE  LET l == links[Head(todo).index] IN
         /\ Head(todo).index \in Indices
         /\ Entries(Head(todo)) = Entries(l) /\ EntryOf(Head(todo)) = EntryOf(l)
<1>1. Head(todo) = todo[1] /\ 1 \in DOMAIN todo /\ Head(todo).index \in Indices
  BY HeadOfList
<1>2. /\ Head(todo).name = links[Head(todo).index].name
      /\ Head(todo).mac = links[Head(todo).index].mac
  BY <1>1 DEF ListTrue
<1> QED
  BY <1>1, <1>2, SameEntry

LEMMA LinksStep ==
  ASSUME TypeOK, Told, ListTrue, [Next]_vars
  PROVE  cfg' = cfg /\ LinksOK(links')
<1>0. LinksOK(links)
  BY SameOK
<1>1. CASE UNCHANGED links
  <2>1. cfg' = cfg
    BY DEF Next, Netconfigd, Failure, vars, Begin, MakeBridge, SkipMember, Enslave, BridgeUp,
           ListLinks, SkipLink, ConfigureLink, NameConflict, MakeTunnel, Finish, Return,
           Supervise, BridgesFail, ConfigureLinkFails, MakeTunnelFails, Crash, LinkAppears
  <2> QED
    BY <1>0, <1>1, <2>1
<1>2. ASSUME NEW hw \in Hardware, LinkAppears(hw) PROVE cfg' = cfg /\ LinksOK(links')
  <2>1. PICK k \in DOMAIN KernelNames : /\ KernelNames[k] \notin NamesInUse
                                        /\ links' = LinkAdd("phys", hw, KernelNames[k])
    BY <1>2 DEF LinkAppears
  <2>2. KernelNames[k] \in STRING /\ hw \in Macs
    BY ConfigAssumption, ElementOfSeq DEF ConfigAssumption, Macs
  <2>3. Origin(NewLink("phys", hw, KernelNames[k]))
    BY DEF Origin, NewLink, Named
  <2> QED
    BY <1>2, <2>1, <2>2, <2>3, AddedOK DEF LinkAppears
<1>3. CASE MakeBridge
  <2>1. nth \in DOMAIN cfg.bridges
    BY <1>3, Cfg, LenProperties DEF MakeBridge, TypeOK, ListTrue
  <2>2. /\ cfg' = cfg
        /\ UNCHANGED links \/ (/\ cfg.bridges[nth].name \notin NamesInUse
                               /\ links' = LinkAdd("bridge", RandomMac, cfg.bridges[nth].name))
    BY <1>3 DEF MakeBridge
  <2>3. /\ cfg.bridges[nth].name \in STRING /\ RandomMac \in Macs
        /\ Origin(NewLink("bridge", RandomMac, cfg.bridges[nth].name))
    BY <2>1, Cfg DEF TypeOK, Bridges, Macs, Origin, NewLink, BridgeNames
  <2> QED
    BY <1>0, <2>2, <2>3, AddedOK
<1>4. CASE Enslave
  <2> DEFINE i == Head(todo).index
             b == ByName(cfg.bridges[nth].name)
  <2>1. PICK ls \in SetMaster(i, b) : links' = LinkSetUp(ls, i)
    BY <1>4 DEF Enslave
  <2>2. LinksOK(ls) /\ Len(ls) = Len(links) /\ i \in Indices
    BY <1>4, MemberAhead, MasteredOK DEF Enslave
  <2> QED
    BY <1>4, <2>1, <2>2, UppedOK DEF Enslave
<1>5. CASE BridgeUp
  <2>1. ByName(cfg.bridges[nth].name) \in Indices
    BY <1>5, ByNameIs DEF BridgeUp, ListTrue, Bridge
  <2> QED
    BY <1>0, <1>5, <2>1, UppedOK DEF BridgeUp
<1>6. CASE BridgesFail
  <2> DEFINE i == Head(todo).index
             b == ByName(cfg.bridges[nth].name)
  <2>1. SUFFICES ASSUME pc = "enslave", todo # <<>>, IsMember(Head(todo), cfg.bridges[nth]),
                        links' \in SetMaster(i, b)
                 PROVE  LinksOK(links')
    BY <1>0, <1>6 DEF BridgesFail, EndBridges
  <2> QED
    BY <2>1, MemberAhead, MasteredOK
<1>7. CASE ConfigureLink
  <2>1. links' = Give(Head(todo).index, EntryOf(Head(todo)), 4)
        /\ ~NameTaken(Head(todo).index, EntryOf(Head(todo))) /\ cfg' = cfg
    BY <1>7 DEF ConfigureLink
  <2>2. 4 \in 1 .. 4
    OBVIOUS
  <2>3. /\ Head(todo).index \in Indices
        /\ Entries(links[Head(todo).index]) # {}
        /\ EntryOf(Head(todo)) = EntryOf(links[Head(todo).index])
    BY <1>7, LinkAhead DEF ConfigureLink
  <2> QED
    BY <2>1, <2>2, <2>3, GivenOK
<1>8. CASE ConfigureLinkFails
  <2>1. UNCHANGED links \/ \E n \in 1 .. 4 :
          links' = Give(Head(todo).index, EntryOf(Head(todo)), n)
          /\ ~NameTaken(Head(todo).index, EntryOf(Head(todo)))
    BY <1>8 DEF ConfigureLinkFails
  <2> QED
    BY <1>0, <1>8, <2>1, LinkAhead, GivenOK DEF ConfigureLinkFails, EndInterfaces
<1>9. ASSUME pc = "interfaces", nth <= Len(cfg.tunnels), MakeTunnel \/ MakeTunnelFails
      PROVE  LinksOK(links')
  <2> DEFINE n == cfg.tunnels[nth]
  <2>1. n \in STRING /\ n \in Named(cfg.tunnels)
    BY <1>9, Cfg, LenProperties DEF TypeOK, ListTrue, Named
  <2>2. None \in Macs /\ Origin(NewLink("wireguard", None, n))
    BY <2>1 DEF Macs, Origin, NewLink
  <2>3. LinksOK(WithTunnel(n))
    BY <1>0, <2>1, <2>2, AddedOK DEF WithTunnel
  <2>4. LinksOK(ConfigureDevice(WithTunnel(n), n))
    BY <2>3, ReadiedOK
  <2> QED
    BY <1>0, <1>9, <2>3, <2>4 DEF MakeTunnel, MakeTunnelFails
<1>10. CASE MakeTunnel
  BY <1>9, <1>10 DEF MakeTunnel
<1>11. CASE MakeTunnelFails
  BY <1>9, <1>11 DEF MakeTunnelFails
<1>12. CASE UNCHANGED vars
  BY <1>1, <1>12 DEF vars
<1>13. CASE Begin \/ SkipMember \/ ListLinks \/ SkipLink \/ NameConflict \/ Finish \/ Return
            \/ Supervise \/ Crash
  BY <1>1, <1>13 DEF Begin, SkipMember, ListLinks, SkipLink, NameConflict, Finish, Return,
                     Supervise, Crash
<1> QED
  BY <1>2, <1>3, <1>4, <1>5, <1>6, <1>7, <1>8, <1>10, <1>11, <1>12, <1>13
  DEF Next, Netconfigd, Failure

LEMMA ToldNext ==
  ASSUME cfg' = cfg, LinksOK(links')
  PROVE  Told'
  BY DEF Told, LinksOK, Indices, LinkTold, Origin, NameTold, MacTold, AddrsTold, Known, Meant,
         Configured, Named, BridgeNames

LEMMA SnapshotType ==
  ASSUME NEW ls \in Seq(Link)
  PROVE  /\ Snapshot(ls) \in Seq([index : DOMAIN ls, name : STRING, mac : Macs])
         /\ DOMAIN Snapshot(ls) = DOMAIN ls
         /\ \A i \in DOMAIN ls : /\ Snapshot(ls)[i].index = i
                                 /\ Snapshot(ls)[i].name = ls[i].name
                                 /\ Snapshot(ls)[i].mac = ls[i].mac
<1> DEFINE L == [index : DOMAIN ls, name : STRING, mac : Macs]
<1>1. Len(ls) \in Nat /\ DOMAIN ls = 1 .. Len(ls) /\ \A i \in DOMAIN ls : ls[i] \in Link
  BY LenProperties, ElementOfSeq
<1>2. \A i \in DOMAIN ls : [index |-> i, name |-> ls[i].name, mac |-> ls[i].mac] \in L
  BY <1>1 DEF Link
<1> HIDE DEF L
<1>3. Snapshot(ls) \in [1 .. Len(ls) -> L]
  BY <1>1, <1>2 DEF Snapshot
<1>4. Snapshot(ls) \in Seq(L)
  BY <1>1, <1>3, SeqDef
<1> QED
  BY <1>1, <1>4 DEF Snapshot, L

LEMMA TypeStep ==
  ASSUME TypeOK, Told, ListTrue, [Next]_vars
  PROVE  TypeOK' /\ Told'
<1>1. cfg' = cfg /\ LinksOK(links')
  BY LinksStep
<1> DEFINE ls == links'
<1>2. ls \in Seq(Link) /\ Len(ls) >= Len(links) /\ Len(ls) \in Nat /\ DOMAIN ls = 1 .. Len(ls)
  BY <1>1, LenProperties DEF LinksOK
<1>3. /\ (links \in Seq([kind : {"phys", "bridge", "wireguard"}, perm : Macs, born : STRING,
                   mac : Macs, name : STRING, fixed : BOOLEAN, up : BOOLEAN,
                   master : 0 .. Len(links), addrs : SUBSET IPs, ready : BOOLEAN]))'
      /\ Indices' = 1 .. Len(ls) /\ Indices \subseteq Indices'
      /\ IPs' = IPs /\ Macs' = Macs
  BY <1>1, <1>2, LinksNext DEF LinksOK
<1>4. /\ (\A i, j \in Indices : links[i].name = links[j].name => i = j)'
      /\ (\A i \in Indices : links[i].master # i)'
  BY <1>1, <1>2, <1>3 DEF LinksOK
<1> DEFINE L == [index : Indices, name : STRING, mac : Macs]
           M == [index : Indices', name : STRING, mac : Macs]
<1>5. todo' \in Seq(M)
  <2>1. todo \in Seq(L) /\ L \subseteq M
    BY <1>3 DEF TypeOK
  <2>2. todo # <<>> => Tail(todo) \in Seq(L)
    BY HeadOfList
  <2>3. Snapshot(ls) \in Seq([index : DOMAIN ls, name : STRING, mac : Macs])
    BY <1>2, SnapshotType
  <2>4. Snapshot(ls) \in Seq(M)
    BY <1>2, <1>3, <2>3
  <2>5. \/ todo' = todo \/ todo' = <<>>
        \/ todo # <<>> /\ todo' = Tail(todo)
        \/ todo' = Snapshot(ls)
    BY DEF Next, Netconfigd, Failure, vars, local, Begin, MakeBridge, SkipMember, Enslave, BridgeUp,
           ListLinks, SkipLink, ConfigureLink, NameConflict, MakeTunnel, Finish, Return,
           Supervise, BridgesFail, ConfigureLinkFails, MakeTunnelFails, Crash, LinkAppears,
           EndBridges, EndInterfaces
  <2> HIDE DEF L, M
  <2> QED
    BY <2>1, <2>2, <2>4, <2>5, SeqMonotonic, EmptySeq
<1>6. resolv' \in IPs \cup {None}
  <2>1. ASSUME pc = "interfaces", todo # <<>>, Entries(Head(todo)) # {}
        PROVE  EntryOf(Head(todo)).addr \in IPs \cup {None}
    BY <2>1, EntryIs, ConfiguredType DEF TypeOK
  <2>2. resolv \in IPs \cup {None}
    BY DEF TypeOK
  <2> QED
    BY <2>1, <2>2
       DEF Next, Netconfigd, Failure, vars, local, Begin, MakeBridge, SkipMember, Enslave, BridgeUp,
           ListLinks, SkipLink, ConfigureLink, NameConflict, MakeTunnel, Finish, Return,
           Supervise, BridgesFail, ConfigureLinkFails, MakeTunnelFails, Crash, LinkAppears
<1>7. listed' \in 0 .. Len(ls)
  <2>1. listed \in 0 .. Len(links) /\ Len(links) \in Nat
    BY LinksType DEF TypeOK
  <2>2. listed' = listed \/ listed' = 0 \/ listed' = Len(links)
    BY DEF Next, Netconfigd, Failure, vars, local, Begin, MakeBridge, SkipMember, Enslave, BridgeUp,
           ListLinks, SkipLink, ConfigureLink, NameConflict, MakeTunnel, Finish, Return,
           Supervise, BridgesFail, ConfigureLinkFails, MakeTunnelFails, Crash, LinkAppears
  <2> QED
    BY <1>2, <2>1, <2>2
<1>8. failures' \in 0 .. MaxFailures
  BY ConfigAssumption
     DEF ConfigAssumption, TypeOK, Fail, Next, Netconfigd, Failure, vars, local, Begin, MakeBridge,
         SkipMember, Enslave, BridgeUp, ListLinks, SkipLink, ConfigureLink, NameConflict, MakeTunnel,
         Finish, Return, Supervise, BridgesFail, ConfigureLinkFails, MakeTunnelFails, Crash,
         LinkAppears
<1>9. /\ pc' \in {"start", "bridge", "enslave", "list", "interfaces", "return", "wait", "exited"}
      /\ nth' \in Nat /\ failed' \in BOOLEAN /\ logged' \in BOOLEAN
      /\ settled' \in {"no", "seeing", "yes"}
  <2>1. pc' \in {"start", "bridge", "enslave", "list", "interfaces", "return", "wait", "exited"}
    BY DEF TypeOK, Next, Netconfigd, Failure, vars, local, Begin, MakeBridge, SkipMember, Enslave,
           BridgeUp, ListLinks, SkipLink, ConfigureLink, NameConflict, MakeTunnel, Finish, Return,
           Supervise, BridgesFail, ConfigureLinkFails, MakeTunnelFails, Crash, LinkAppears,
           EndBridges, EndInterfaces
  <2>2. nth' \in Nat
    BY DEF TypeOK, Next, Netconfigd, Failure, vars, local, Begin, MakeBridge, SkipMember, Enslave,
           BridgeUp, ListLinks, SkipLink, ConfigureLink, NameConflict, MakeTunnel, Finish, Return,
           Supervise, BridgesFail, ConfigureLinkFails, MakeTunnelFails, Crash, LinkAppears,
           EndBridges, EndInterfaces
  <2>3. failed' \in BOOLEAN
    BY DEF TypeOK, Next, Netconfigd, Failure, vars, local, Begin, MakeBridge, SkipMember, Enslave,
           BridgeUp, ListLinks, SkipLink, ConfigureLink, NameConflict, MakeTunnel, Finish, Return,
           Supervise, BridgesFail, ConfigureLinkFails, MakeTunnelFails, Crash, LinkAppears,
           EndBridges, EndInterfaces
  <2>4. logged' \in BOOLEAN
    BY DEF TypeOK, Next, Netconfigd, Failure, vars, local, Begin, MakeBridge, SkipMember, Enslave,
           BridgeUp, ListLinks, SkipLink, ConfigureLink, NameConflict, MakeTunnel, Finish, Return,
           Supervise, BridgesFail, ConfigureLinkFails, MakeTunnelFails, Crash, LinkAppears,
           EndBridges, EndInterfaces
  <2>5. settled' \in {"no", "seeing", "yes"}
    BY DEF TypeOK, Next, Netconfigd, Failure, vars, local, Begin, MakeBridge, SkipMember, Enslave,
           BridgeUp, ListLinks, SkipLink, ConfigureLink, NameConflict, MakeTunnel, Finish, Return,
           Supervise, BridgesFail, ConfigureLinkFails, MakeTunnelFails, Crash, LinkAppears,
           EndBridges, EndInterfaces
  <2> QED
    BY <2>1, <2>2, <2>3, <2>4, <2>5
<1>10. cfg' \in Configs
  BY <1>1 DEF TypeOK
<1>11. (todo \in Seq([index : Indices, name : STRING, mac : Macs]))'
  BY <1>3, <1>5
<1>12. TypeOK'
  <2>1. (resolv \in IPs \cup {None})' /\ (listed \in 0 .. Len(links))'
    BY <1>3, <1>6, <1>7
  <2> QED
    BY <1>3, <1>4, <1>8, <1>9, <1>10, <1>11, <2>1 DEF TypeOK
<1> QED
  BY <1>1, <1>12, ToldNext

-----------------------------------------------------------------------------
(* The list stays true *)

\* Enslave, in terms of the links.
LEMMA Enslaved ==
  ASSUME TypeOK, ListTrue, Enslave
  PROVE  LET i == Head(todo).index
             b == ByName(cfg.bridges[nth].name)
         IN  /\ i \in Indices /\ b \in Indices /\ i # b /\ links[i].mac \in cfg.bridges[nth].members
             /\ links[b].name = cfg.bridges[nth].name
             /\ Len(links') = Len(links) /\ DOMAIN links' = Indices
             /\ \A j \in Indices :
                  /\ Alike(links[j], links'[j])
                  /\ links'[j].master = IF j = i THEN b ELSE links[j].master
                  /\ links'[j].mac = links[j].mac \/ (j = b /\ links'[j].mac = links[i].mac)
                  /\ links'[j].up = (links[j].up \/ j = i)
             /\ links[i].master = b /\ links[i].up => links' = links
<1> DEFINE i == Head(todo).index
           b == ByName(cfg.bridges[nth].name)
<1>1. /\ i \in Indices /\ b \in Indices /\ i # b /\ links[i].mac \in cfg.bridges[nth].members
      /\ links[b].name = cfg.bridges[nth].name
  BY MemberAhead DEF Enslave
<1>2. PICK ls \in SetMaster(i, b) : links' = LinkSetUp(ls, i)
  BY DEF Enslave
<1> HIDE DEF i, b
<1>3. /\ ls \in Seq(Link) /\ Len(ls) = Len(links) /\ DOMAIN ls = Indices
      /\ \A j \in Indices :
           /\ Alike(links[j], ls[j])
           /\ ls[j].master = IF j = i THEN b ELSE links[j].master
           /\ ls[j].mac = links[j].mac \/ (j = b /\ ls[j].mac = links[i].mac)
           /\ ls[j].up = links[j].up
      /\ links[i].master = b => ls = links
  BY <1>1, Mastered
<1>4. /\ links' \in Seq(Link) /\ Len(links') = Len(links) /\ DOMAIN links' = Indices
      /\ \A j \in Indices :
           /\ Alike(ls[j], links'[j])
           /\ links'[j].master = ls[j].master /\ links'[j].mac = ls[j].mac
           /\ links'[j].up = (ls[j].up \/ j = i)
      /\ ls[i].up => links' = ls
  <2>1. UppedIs(ls, i, links')
    BY <1>1, <1>2, <1>3, Upped
  <2> QED
    BY <2>1 DEF UppedIs
<1>5. \A j \in Indices : Alike(links[j], links'[j])
  BY <1>3, <1>4 DEF Alike
<1> QED
  BY <1>1, <1>3, <1>4, <1>5 DEF i, b

LEMMA ListStep ==
  ASSUME TypeOK, Told, ListTrue, [Next]_vars
  PROVE  ListTrue'
<1>0. cfg' = cfg /\ TypeOK' /\ LinksOK(links')
  BY TypeStep, LinksStep
<1> DEFINE Shown(k, ls, p, n) ==
             LET l == ls[todo[k].index] IN
             /\ p \in {"enslave", "interfaces"} => todo[k].name = l.name
             /\ p = "interfaces" \/ (p = "enslave" /\ l.name # cfg.bridges[n].name)
                  => todo[k].mac = l.mac
<1>1. /\ \A j, k \in DOMAIN todo : todo[j].index = todo[k].index => j = k
      /\ \A k \in DOMAIN todo : Shown(k, links, pc, nth)
      /\ pc = "enslave" => nth \in DOMAIN cfg.bridges /\ cfg.bridges[nth].name \in NamesInUse
      /\ pc \in {"bridge", "interfaces"} => nth > 0
  BY DEF ListTrue, Bridge
<1>2. ASSUME NEW hw \in Hardware, LinkAppears(hw) PROVE ListTrue'
  <2>1. /\ \A i \in Indices : i \in DOMAIN links' /\ links'[i] = links[i]
        /\ UNCHANGED <<cfg, todo, pc, nth>>
    <3>1. PICK k \in DOMAIN KernelNames : links' = LinkAdd("phys", hw, KernelNames[k])
      BY <1>2 DEF LinkAppears
    <3>2. KernelNames[k] \in STRING /\ hw \in Macs
      BY ConfigAssumption, ElementOfSeq DEF ConfigAssumption, Macs
    <3>3. /\ DOMAIN links' = 1 .. Len(links) + 1
          /\ \A i \in Indices : links'[i] = links[i]
      BY <3>1, <3>2, Added
    <3> QED
      BY <1>2, <3>3, LinksType DEF LinkAppears, local
  <2>2. \A k \in DOMAIN todo : links'[todo[k].index] = links[todo[k].index]
    BY <2>1, ListType
  <2>3. pc = "enslave" => cfg.bridges[nth].name \in NamesInUse'
    BY <1>1, <2>1 DEF NamesInUse, Indices
  <2> QED
    BY <1>1, <2>1, <2>2, <2>3 DEF ListTrue, Bridge
<1>3. CASE MakeBridge
  <2>1. /\ todo' = Snapshot(links') /\ pc' = "enslave" /\ nth' = nth
        /\ cfg.bridges[nth].name \in NamesInUse \/
             links' = LinkAdd("bridge", RandomMac, cfg.bridges[nth].name)
        /\ cfg.bridges[nth].name \in NamesInUse => links' = links
    BY <1>3 DEF MakeBridge
  <2>2. links' \in Seq(Link)
    BY <1>0 DEF LinksOK
  <2>3. /\ DOMAIN todo' = DOMAIN links'
        /\ \A k \in DOMAIN todo' : /\ todo'[k].index = k /\ todo'[k].name = links'[k].name
                                   /\ todo'[k].mac = links'[k].mac
    BY <2>1, <2>2, SnapshotType
  <2>4. nth \in DOMAIN cfg.bridges
    BY <1>1, <1>3, Cfg, LenProperties DEF MakeBridge, TypeOK
  <2>5. cfg.bridges[nth].name \in NamesInUse'
    <3>1. CASE cfg.bridges[nth].name \in NamesInUse
      BY <2>1, <3>1 DEF NamesInUse
    <3>2. CASE links' = LinkAdd("bridge", RandomMac, cfg.bridges[nth].name)
      <4>1. cfg.bridges[nth].name \in STRING /\ RandomMac \in Macs
        BY <2>4, Cfg DEF TypeOK, Bridges, Macs
      <4>2. /\ DOMAIN links' = 1 .. Len(links) + 1
            /\ links'[Len(links) + 1] = NewLink("bridge", RandomMac, cfg.bridges[nth].name)
        <5> HIDE DEF Shown
        <5> DEFINE name == cfg.bridges[nth].name
        <5>1. name \in STRING /\ links' = LinkAdd("bridge", RandomMac, name)
          BY <3>2, <4>1
        <5> HIDE DEF name
        <5>2. /\ DOMAIN links' = 1 .. Len(links) + 1
              /\ links'[Len(links) + 1] = NewLink("bridge", RandomMac, name)
          BY <4>1, <5>1, Added
        <5> QED
          BY <5>2 DEF name
      <4>3. links'[Len(links) + 1].name = cfg.bridges[nth].name
        BY <4>2 DEF NewLink
      <4> QED
        BY <4>2, <4>3, LinksType DEF NamesInUse
    <3> QED
      BY <2>1, <3>1, <3>2
  <2> QED
    BY <1>0, <2>1, <2>3, <2>4, <2>5 DEF ListTrue, Bridge
<1>4. ASSUME todo # <<>>, todo' = Tail(todo)
      PROVE  /\ \A j, k \in DOMAIN todo' : todo'[j].index = todo'[k].index => j = k
             /\ \A k \in DOMAIN todo' : /\ k + 1 \in DOMAIN todo /\ todo'[k] = todo[k + 1]
                                        /\ todo'[k].index \in Indices
                                        /\ todo'[k].index # Head(todo).index
  BY <1>1, <1>4, HeadOfList, ListType
<1>5. CASE SkipMember
  <2>1. todo # <<>> /\ todo' = Tail(todo) /\ UNCHANGED <<cfg, links, pc, nth>>
    BY <1>5 DEF SkipMember
  <2>2. NamesInUse' = NamesInUse
    BY <2>1 DEF NamesInUse
  <2> QED
    BY <1>1, <1>4, <2>1, <2>2 DEF ListTrue, Bridge
<1>6. CASE Enslave
  <2> DEFINE i == Head(todo).index
             b == ByName(cfg.bridges[nth].name)
  <2>1. todo # <<>> /\ todo' = Tail(todo) /\ UNCHANGED <<cfg, pc, nth>> /\ pc = "enslave"
    BY <1>6 DEF Enslave
  <2>2. /\ b \in Indices /\ links[b].name = cfg.bridges[nth].name
        /\ DOMAIN links' = Indices
        /\ \A j \in Indices : links'[j].name = links[j].name
        /\ \A j \in Indices : links'[j].mac = links[j].mac \/ j = b
    BY <1>6, Enslaved DEF Alike
  <2>3. cfg.bridges[nth].name \in NamesInUse'
    BY <2>2 DEF NamesInUse
  <2>4. \A k \in DOMAIN todo' : LET l == links'[todo'[k].index] IN
          /\ todo'[k].name = l.name
          /\ l.name # cfg.bridges[nth].name => todo'[k].mac = l.mac
    BY <1>1, <1>4, <2>1, <2>2
  <2> QED
    BY <1>1, <1>4, <2>1, <2>3, <2>4 DEF ListTrue, Bridge
<1>7. CASE SkipLink
  <2>1. todo # <<>> /\ todo' = Tail(todo) /\ UNCHANGED <<cfg, links, pc, nth>> /\ pc = "interfaces"
    BY <1>7 DEF SkipLink
  <2> QED
    BY <1>1, <1>4, <2>1 DEF ListTrue, Bridge
<1>8. CASE ConfigureLink
  <2> DEFINE i == Head(todo).index
  <2>1. /\ todo # <<>> /\ todo' = Tail(todo) /\ UNCHANGED <<cfg, pc, nth>> /\ pc = "interfaces"
        /\ links' = Give(i, EntryOf(Head(todo)), 4) /\ Entries(Head(todo)) # {}
    BY <1>8 DEF ConfigureLink
  <2>2. \A j \in Indices \ {i} : links'[j] = links[j]
    <3>1. /\ i \in Indices /\ Entries(links[i]) # {}
          /\ links' = Give(i, EntryOf(links[i]), 4) /\ 4 \in 1 .. 4
      BY <2>1, LinkAhead
    <3> DEFINE ls == Give(i, EntryOf(links[i]), 4)
    <3>2. \A j \in Indices \ {i} : ls[j] = links[j]
      BY <3>1, Given
    <3> QED
      BY <3>1, <3>2
  <2> QED
    BY <1>1, <1>4, <2>1, <2>2 DEF ListTrue, Bridge
<1>9. CASE ListLinks
  <2>1. todo' = Snapshot(links) /\ pc' = "interfaces" /\ nth' = 1 /\ links' = links
    BY <1>9 DEF ListLinks
  <2>2. /\ DOMAIN todo' = DOMAIN links
        /\ \A k \in DOMAIN todo' : /\ todo'[k].index = k /\ todo'[k].name = links[k].name
                                   /\ todo'[k].mac = links[k].mac
    BY <2>1, SnapshotType, LinksType
  <2> QED
    BY <2>1, <2>2 DEF ListTrue
<1>10. CASE MakeTunnel
  <2>1. UNCHANGED <<cfg, pc, todo>> /\ nth' = nth + 1 /\ pc = "interfaces" /\ todo = <<>>
    BY <1>10 DEF MakeTunnel
  <2> QED
    BY <1>1, <2>1 DEF ListTrue, TypeOK
<1>11. CASE Begin \/ BridgeUp
  <2>1. pc' = "bridge" /\ todo' = <<>> /\ nth' > 0
    BY <1>1, <1>11, Cfg, LenProperties DEF Begin, BridgeUp, TypeOK
  <2> QED
    BY <2>1 DEF ListTrue
<1>12. CASE Return \/ Supervise \/ Crash \/ Finish \/ MakeTunnelFails
  <2>1. pc' \in {"wait", "exited", "start", "return"} /\ todo' = todo
    BY <1>12 DEF Return, Supervise, Crash, Finish, MakeTunnelFails, local
  <2> QED
    BY <1>1, <2>1 DEF ListTrue
<1>13. CASE BridgesFail \/ ConfigureLinkFails \/ NameConflict
  <2>1. pc' \in {"list", "return"} /\ todo' = <<>>
    BY <1>13 DEF BridgesFail, ConfigureLinkFails, NameConflict, EndBridges, EndInterfaces
  <2> QED
    BY <2>1 DEF ListTrue
<1>14. CASE UNCHANGED vars
  BY <1>1, <1>14 DEF vars, local, ListTrue, Bridge, NamesInUse
<1> QED
  BY <1>2, <1>3, <1>5, <1>6, <1>7, <1>8, <1>9, <1>10, <1>11, <1>12, <1>13, <1>14
  DEF Next, Netconfigd, Failure

-----------------------------------------------------------------------------
(* The links that an Apply has come to *)

LEMMA PendingTail ==
  ASSUME TypeOK, ListTrue, todo # <<>>, todo' = Tail(todo)
  PROVE  Pending' = Pending \ {Head(todo).index} /\ Head(todo).index \in Pending
<1>1. /\ Head(todo) = todo[1] /\ 1 \in DOMAIN todo
      /\ DOMAIN Tail(todo) = 1 .. Len(todo) - 1
      /\ \A k \in DOMAIN Tail(todo) : k + 1 \in DOMAIN todo /\ Tail(todo)[k] = todo[k + 1]
      /\ Len(todo) \in Nat /\ DOMAIN todo = 1 .. Len(todo)
  BY HeadOfList, ListType
<1>2. \A j, k \in DOMAIN todo : todo[j].index = todo[k].index => j = k
  BY DEF ListTrue
<1>3. ASSUME NEW i \in Pending, i # Head(todo).index PROVE i \in Pending'
  <2>1. PICK k \in DOMAIN todo : i = todo[k].index
    BY <1>3 DEF Pending
  <2>2. k - 1 \in 1 .. Len(todo) - 1 /\ Tail(todo)[k - 1] = todo[k]
    BY <1>1, <1>3, <2>1
  <2> QED
    BY <1>1, <2>1, <2>2 DEF Pending
<1>4. ASSUME NEW i \in Pending' PROVE i \in Pending /\ i # Head(todo).index
  <2>1. PICK k \in DOMAIN Tail(todo) : i = Tail(todo)[k].index
    BY DEF Pending
  <2>2. k + 1 \in DOMAIN todo /\ i = todo[k + 1].index /\ k + 1 # 1
    BY <1>1, <2>1
  <2> QED
    BY <1>1, <1>2, <2>2 DEF Pending
<1>5. Head(todo).index \in Pending
  BY <1>1 DEF Pending
<1> QED
  BY <1>3, <1>4, <1>5

\* What has been listed just now is all still to be looked at.
LEMMA PendingAll ==
  ASSUME NEW ls \in Seq(Link), todo' = Snapshot(ls)
  PROVE  Pending' = DOMAIN ls
<1>1. DOMAIN todo' = DOMAIN ls /\ \A i \in DOMAIN ls : todo'[i].index = i
  BY SnapshotType
<1>2. Pending' = {todo'[k].index : k \in DOMAIN todo'}
  BY DEF Pending
<1> QED
  BY <1>1, <1>2

LEMMA PendingNone ==
  ASSUME TypeOK, todo = <<>>
  PROVE  Pending = {}
  BY ListType DEF Pending

\* An entry has nothing to give to a link that is as it says, nor to one that
\* differs from it in what a bridge or a tunnel does.
LEMMA GivesNothing ==
  ASSUME NEW l \in Link, NEW d, After(l, d, 4) = l
  PROVE  /\ l.name = d.name /\ l.up
         /\ d.spoof # None => l.mac = d.spoof /\ l.fixed
         /\ d.addr # None => d.addr \in l.addrs
         /\ \A n \in 1 .. 4 : After(l, d, n) = l
<1>1. /\ l.name = d.name /\ l.up = TRUE
      /\ l.mac = IF d.spoof # None THEN d.spoof ELSE l.mac
      /\ l.fixed = IF d.spoof # None THEN TRUE ELSE l.fixed
      /\ l.addrs = IF d.addr # None THEN l.addrs \cup {d.addr} ELSE l.addrs
  <2> DEFINE m == After(l, d, 4)
  <2>1. /\ m.name = d.name /\ m.up = TRUE
        /\ m.mac = IF d.spoof # None THEN d.spoof ELSE l.mac
        /\ m.fixed = IF d.spoof # None THEN TRUE ELSE l.fixed
        /\ m.addrs = IF d.addr # None THEN l.addrs \cup {d.addr} ELSE l.addrs
    BY AfterIs
  <2>2. m = l
    OBVIOUS
  <2> HIDE DEF m
  <2> QED
    BY <2>1, <2>2
<1>2. ASSUME NEW n \in 1 .. 4 PROVE After(l, d, n) = l
  <2> DEFINE name == IF n >= 1 THEN d.name ELSE l.name
             mac == IF n >= 2 /\ d.spoof # None THEN d.spoof ELSE l.mac
             fixed == IF n >= 2 /\ d.spoof # None THEN TRUE ELSE l.fixed
             up == IF n >= 3 THEN TRUE ELSE l.up
             addrs == IF n >= 4 /\ d.addr # None THEN l.addrs \cup {d.addr} ELSE l.addrs
  <2>1. After(l, d, n) = [l EXCEPT !.name = name, !.mac = mac, !.fixed = fixed, !.up = up,
                                   !.addrs = addrs]
    BY DEF After, Link
  <2>2. name = l.name /\ addrs = l.addrs /\ mac = l.mac
    BY <1>1
  <2>3. up = l.up
    BY <1>1
  <2>4. fixed = l.fixed
    BY <1>1
  <2> HIDE DEF name, mac, fixed, up, addrs
  <2> QED
    BY <2>1, <2>2, <2>3, <2>4 DEF Link
<1> QED
  BY <1>1, <1>2

LEMMA AlikeGivesNothing ==
  ASSUME NEW l \in Link, NEW m, NEW d, Alike(l, m), m.mac = l.mac, After(l, d, 4) = l
  PROVE  After(m, d, 4) = m
<1>1. /\ m \in Link /\ m.name = l.name /\ m.fixed = l.fixed /\ m.addrs = l.addrs
      /\ l.up => m.up
  BY DEF Alike
<1>2. /\ l.name = d.name /\ l.up
      /\ d.spoof # None => l.mac = d.spoof /\ l.fixed
      /\ d.addr # None => d.addr \in l.addrs
  BY GivesNothing
<1> DEFINE fixed == IF d.spoof # None THEN TRUE ELSE m.fixed
           mac == IF d.spoof # None THEN d.spoof ELSE m.mac
           addrs == IF d.addr # None THEN m.addrs \cup {d.addr} ELSE m.addrs
           up == TRUE
<1>3. After(m, d, 4) = [m EXCEPT !.name = d.name, !.mac = mac, !.fixed = fixed, !.up = up,
                                 !.addrs = addrs]
  BY <1>1 DEF After, Link
<1>4. mac = m.mac /\ addrs = m.addrs
  BY <1>1, <1>2
<1>5. up = m.up /\ m.fixed \in BOOLEAN
  BY <1>1, <1>2 DEF Link
<1>6. fixed = m.fixed
  BY <1>1, <1>2, <1>5
<1>7. m.name = d.name
  BY <1>1, <1>2
<1> HIDE DEF mac, fixed, addrs, up
<1>8. m = [m EXCEPT !.name = m.name, !.mac = m.mac, !.fixed = m.fixed, !.up = m.up,
                    !.addrs = m.addrs]
  BY <1>1 DEF Link
<1> QED
  BY ONLY <1>3, <1>4, <1>5, <1>6, <1>7, <1>8

\* ConfigureLink, in terms of the links.
LEMMA Readdressed ==
  ASSUME TypeOK, Told, ListTrue, ConfigureLink
  PROVE  LET i == Head(todo).index
             l == links[i]
             d == EntryOf(l)
         IN  /\ i \in Indices /\ Entries(l) # {} /\ ~NameTaken(i, d)
             /\ DOMAIN links' = Indices
             /\ links'[i] = After(l, d, 4) /\ links'[i].name = d.name
             /\ links'[i].perm = l.perm /\ links'[i].born = l.born
             /\ links'[i].master = l.master /\ links'[i].ready = l.ready
             /\ l.up => links'[i].up
             /\ links'[i].mac = l.mac \/ (links'[i].mac = d.spoof /\ links'[i].mac # None)
             /\ \A j \in Indices \ {i} : links'[j] = links[j]
<1> DEFINE i == Head(todo).index
           ls == Give(i, EntryOf(links[i]), 4)
<1>1. /\ i \in Indices /\ Entries(links[i]) # {} /\ ~NameTaken(i, EntryOf(links[i]))
      /\ links' = ls /\ 4 \in 1 .. 4
  BY LinkAhead DEF ConfigureLink
<1>2. /\ DOMAIN ls = Indices
      /\ ls[i] = After(links[i], EntryOf(links[i]), 4)
      /\ \A j \in Indices \ {i} : ls[j] = links[j]
      /\ ls[i].name = EntryOf(links[i]).name
      /\ ls[i].perm = links[i].perm /\ ls[i].born = links[i].born
      /\ ls[i].master = links[i].master /\ ls[i].ready = links[i].ready
      /\ links[i].up => ls[i].up
      /\ ls[i].mac = links[i].mac
         \/ (ls[i].mac = EntryOf(links[i]).spoof /\ ls[i].mac # None)
  BY <1>1, Given
<1> HIDE DEF ls
<1> QED
  BY <1>1, <1>2

\* MakeTunnel, in terms of the links.
LEMMA Tunnelled ==
  ASSUME TypeOK, Told, ListTrue, MakeTunnel
  PROVE  LET n == cfg.tunnels[nth] IN
         /\ Indices \subseteq DOMAIN links'
         /\ \A j \in Indices :
              /\ Alike(links[j], links'[j])
              /\ links'[j].master = links[j].master /\ links'[j].mac = links[j].mac
         /\ n \in NamesInUse =>
              /\ DOMAIN links' = Indices
              /\ \A j \in Indices : links[j].name = n => links'[j].ready
              /\ (\A j \in Indices : links[j].name = n => links[j].ready) => links' = links
<1> DEFINE n == cfg.tunnels[nth]
           ms == WithTunnel(n)
<1>1. n \in STRING
  BY Cfg, LenProperties DEF TypeOK, ListTrue, MakeTunnel
<1>2. /\ ms \in Seq(Link) /\ Indices \subseteq DOMAIN ms
      /\ \A j \in Indices : ms[j] = links[j]
      /\ n \in NamesInUse => ms = links
  <2>1. CASE n \in NamesInUse
    BY <2>1, LinksType DEF WithTunnel, Indices
  <2>2. CASE n \notin NamesInUse
    <3>1. ms = LinkAdd("wireguard", None, n) /\ None \in Macs
      BY <2>2 DEF WithTunnel, Macs
    <3> HIDE DEF ms, n
    <3>2. /\ ms \in Seq(Link) /\ DOMAIN ms = 1 .. Len(links) + 1
          /\ \A i \in Indices : ms[i] = links[i]
      BY <1>1, <3>1, Added
    <3> QED
      BY <2>2, <3>2, LinksType
  <2> QED
    BY <2>1, <2>2
<1>3. links' = ConfigureDevice(ms, n)
  BY DEF MakeTunnel
<1> HIDE DEF ms, n
<1> DEFINE ls == ConfigureDevice(ms, n)
<1>4. /\ DOMAIN ls = DOMAIN ms
      /\ \A j \in DOMAIN ms :
           /\ Alike(ms[j], ls[j])
           /\ ls[j].master = ms[j].master /\ ls[j].mac = ms[j].mac
           /\ ms[j].name = n => ls[j].ready
      /\ (\A j \in DOMAIN ms : ms[j].name = n => ms[j].ready) => ls = ms
  BY <1>2, Readied
<1> HIDE DEF ls
<1> QED
  BY <1>2, <1>3, <1>4 DEF Indices, ls, n

\* A link that this Apply has come to is left as its entry says.
LEMMA DoneStep ==
  ASSUME TypeOK, Told, ListTrue, DoneSoFar, [Next]_vars
  PROVE  DoneSoFar'
<1> DEFINE Right(l) == \A d \in Configured : Meant(l, d) => IsConfigured(l, d)
<1>0. cfg' = cfg /\ LinksOK(links') /\ Indices = 1 .. Len(links) /\ listed \in 0 .. Len(links)
  BY LinksStep, LinksType DEF TypeOK
<1>1. /\ pc \in {"interfaces", "return", "wait"} /\ ~failed =>
           \A i \in (1 .. listed) \ Pending : Right(links[i])
      /\ pc \in {"return", "wait"} /\ ~failed => todo = <<>>
      /\ pc = "wait" => ~failed
  BY DEF DoneSoFar
<1>2. Configured' = Configured /\ \A l, d : Meant(l, d)' = Meant(l, d)
  BY <1>0 DEF Configured, Meant, Known
<1>3. CASE /\ pc' \in {"interfaces", "return", "wait"} => pc' = pc
           /\ UNCHANGED <<todo, failed, listed>>
           /\ \A i \in Indices : links'[i] = links[i]
  <2>1. Pending' = Pending
    BY <1>3 DEF Pending
  <2> QED
    BY <1>0, <1>1, <1>2, <1>3, <2>1 DEF DoneSoFar
<1>4. ASSUME NEW hw \in Hardware, LinkAppears(hw) PROVE DoneSoFar'
  <2>1. PICK k \in DOMAIN KernelNames : links' = LinkAdd("phys", hw, KernelNames[k])
    BY <1>4 DEF LinkAppears
  <2>2. KernelNames[k] \in STRING /\ hw \in Macs
    BY ConfigAssumption, ElementOfSeq DEF ConfigAssumption, Macs
  <2>3. \A i \in Indices : links'[i] = links[i]
    BY <2>1, <2>2, Added
  <2> QED
    BY <1>3, <1>4, <2>3 DEF LinkAppears, local
<1>5. CASE ListLinks
  <2>1. Pending' = Indices /\ listed' = Len(links) /\ pc' = "interfaces"
    BY <1>5, PendingAll, LinksType DEF ListLinks, Indices
  <2> QED
    BY <1>0, <2>1 DEF DoneSoFar
<1>6. CASE SkipLink
  <2>1. /\ pc = "interfaces" /\ todo # <<>> /\ UNCHANGED <<links, pc, failed, listed>>
        /\ todo' = Tail(todo) /\ Entries(Head(todo)) = {}
    BY <1>6 DEF SkipLink
  <2>2. Pending' = Pending \ {Head(todo).index}
    BY <2>1, PendingTail
  <2>3. Right(links[Head(todo).index])
    BY <2>1, LinkAhead, MeantFound, LinksType DEF TypeOK, Told
  <2> QED
    BY <1>1, <1>2, <2>1, <2>2, <2>3 DEF DoneSoFar
<1>7. CASE ConfigureLink
  <2> DEFINE i == Head(todo).index
             l == links[i]
             m == links'[i]
  <2>1. /\ pc = "interfaces" /\ todo # <<>> /\ UNCHANGED <<pc, failed, listed>>
        /\ todo' = Tail(todo)
    BY <1>7 DEF ConfigureLink
  <2>2. Pending' = Pending \ {i}
    BY <2>1, PendingTail
  <2>3. /\ i \in Indices /\ Entries(l) # {}
        /\ m = After(l, EntryOf(l), 4) /\ m.perm = l.perm /\ m.born = l.born
        /\ \A j \in Indices \ {i} : links'[j] = links[j]
    BY <1>7, Readdressed
  <2>4. l \in Link /\ LinkTold(l) /\ cfg \in Configs
    BY <2>3, LinksType DEF TypeOK, Told
  <2> HIDE DEF l, m
  <2>5. Right(m)
    <3> SUFFICES ASSUME NEW d \in Configured, Meant(m, d) PROVE IsConfigured(m, d)
      OBVIOUS
    <3>1. Meant(l, d)
      BY <2>3 DEF Meant, Known
    <3>2. EntryOf(l) = d
      BY <2>4, <3>1, MeantFound
    <3> QED
      BY <2>3, <2>4, <3>2, AfterDone
  <2> QED
    BY <1>0, <1>1, <1>2, <2>1, <2>2, <2>3, <2>5 DEF DoneSoFar, m
<1>8. CASE MakeTunnel
  <2>1. /\ pc = "interfaces" /\ UNCHANGED <<pc, todo, failed, listed>>
    BY <1>8 DEF MakeTunnel
  <2>2. Pending' = Pending
    BY <2>1 DEF Pending
  <2>3. ASSUME NEW j \in Indices, Right(links[j]) PROVE Right(links'[j])
    <3>1. Alike(links[j], links'[j]) /\ links'[j].mac = links[j].mac
      BY <1>8, Tunnelled
    <3> QED
      BY <2>3, <3>1 DEF Alike, Meant, Known, IsConfigured
  <2> QED
    BY <1>0, <1>1, <1>2, <2>1, <2>2, <2>3 DEF DoneSoFar
<1>9. CASE Finish
  <2>1. /\ pc = "interfaces" /\ todo = <<>> /\ UNCHANGED <<links, todo, failed, listed>>
        /\ pc' = "return"
    BY <1>9 DEF Finish, local
  <2>2. Pending' = Pending
    BY <2>1 DEF Pending
  <2> QED
    BY <1>1, <1>2, <2>1, <2>2 DEF DoneSoFar
<1>10. CASE Return
  <2>1. /\ pc = "return" /\ UNCHANGED <<links, todo, failed, listed>>
        /\ pc' = IF failed THEN "exited" ELSE "wait"
    BY <1>10 DEF Return, local
  <2>2. Pending' = Pending
    BY <2>1 DEF Pending
  <2> QED
    BY <1>1, <1>2, <2>1, <2>2 DEF DoneSoFar
<1>11. CASE ConfigureLinkFails \/ NameConflict \/ MakeTunnelFails
  BY <1>11 DEF ConfigureLinkFails, NameConflict, MakeTunnelFails, EndInterfaces, DoneSoFar
<1>12. CASE \/ Begin \/ MakeBridge \/ SkipMember \/ Enslave \/ BridgeUp \/ BridgesFail
            \/ Crash \/ Supervise
  <2>1. pc' \notin {"interfaces", "return", "wait"}
    BY <1>12 DEF Begin, MakeBridge, SkipMember, Enslave, BridgeUp, BridgesFail, Crash, Supervise,
                 EndBridges
  <2> QED
    BY <2>1 DEF DoneSoFar
<1>13. CASE UNCHANGED vars
  BY <1>3, <1>13 DEF vars, local
<1> QED
  BY <1>4, <1>5, <1>6, <1>7, <1>8, <1>9, <1>10, <1>11, <1>12, <1>13
  DEF Next, Netconfigd, Failure

-----------------------------------------------------------------------------
(* What an Apply finds done *)

\* A bridge is still done when its link keeps its name alone, no link goes down,
\* and no other link becomes a member or changes its master.
LEMMA BridgeStays ==
  ASSUME cfg' = cfg, NEW k \in DOMAIN cfg.bridges, BridgeDone(cfg.bridges[k]),
         DOMAIN links' = Indices,
         \A j \in Indices : links'[j].name = cfg.bridges[k].name <=> links[j].name = cfg.bridges[k].name,
         \A j \in Indices : links[j].up => links'[j].up,
         \A j \in Indices : IsMember(links'[j], cfg.bridges[k]) =>
             IsMember(links[j], cfg.bridges[k]) /\ links'[j].master = links[j].master
  PROVE  BridgeDone(cfg.bridges[k])'
<1> DEFINE b == cfg.bridges[k]
<1>1. PICK p \in Indices : links[p].name = b.name
  BY DEF BridgeDone, NamesInUse, Indices
<1>2. b.name \in NamesInUse'
  BY <1>1 DEF NamesInUse
<1>3. ASSUME NEW i \in Indices PROVE links'[i].name = b.name => links'[i].up
  BY <1>3 DEF BridgeDone
<1>4. ASSUME NEW i \in Indices, IsMember(links'[i], b)
      PROVE  links'[i].up /\ \A j \in Indices : links'[j].name = b.name => links'[i].master = j
  BY <1>4 DEF BridgeDone, Joined
<1> QED
  BY <1>2, <1>3, <1>4 DEF BridgeDone, Joined, Indices, IsMember

LEMMA BridgeSame ==
  ASSUME cfg' = cfg, links' = links, NEW k \in DOMAIN cfg.bridges, BridgeDone(cfg.bridges[k])
  PROVE  BridgeDone(cfg.bridges[k])'
  BY DEF BridgeDone, Joined, Indices, IsMember, NamesInUse

LEMMA LinkSame ==
  ASSUME cfg' = cfg, NEW i, links'[i] = links[i], LinkDone(i)
  PROVE  LinkDone(i)'
  BY DEF LinkDone, Entries, EntryOf, WithMac, WithName

\* A member of a bridge is of no other one.
LEMMA OneBridge ==
  ASSUME cfg \in Configs, NEW a \in DOMAIN cfg.bridges, NEW b \in DOMAIN cfg.bridges, NEW m,
         m \in cfg.bridges[a].members, m \in cfg.bridges[b].members
  PROVE  a = b
  BY Cfg DEF KindsDistinct

LEMMA BridgeAfterMake ==
  ASSUME TypeOK, Told, ListTrue, MakeBridge, NEW k \in DOMAIN cfg.bridges,
         BridgeDone(cfg.bridges[k])
  PROVE  BridgeDone(cfg.bridges[k])'
<1> DEFINE b == cfg.bridges[k]
           n == cfg.bridges[nth].name
<1>0. cfg' = cfg
  BY DEF MakeBridge
<1>1. CASE n \in NamesInUse
  BY <1>0, <1>1, BridgeSame DEF MakeBridge
<1>2. CASE n \notin NamesInUse
  <2>1. links' = LinkAdd("bridge", RandomMac, n)
    BY <1>2 DEF MakeBridge
  <2>2. n \in STRING /\ RandomMac \in Macs
    BY Cfg, LenProperties DEF TypeOK, ListTrue, MakeBridge, Bridges, Macs
  <2> HIDE DEF n
  <2>3. /\ DOMAIN links' = 1 .. Len(links) + 1
        /\ \A i \in Indices : links'[i] = links[i]
        /\ links'[Len(links) + 1] = NewLink("bridge", RandomMac, n)
    BY <2>1, <2>2, Added
  <2>4. \A i \in DOMAIN links' : i \in Indices \/ i = Len(links) + 1
    BY <2>3, LinksType
  <2>5. b.name \in NamesInUse /\ n # b.name
    BY <1>2 DEF BridgeDone
  <2>6. links'[Len(links) + 1].name = n /\ links'[Len(links) + 1].mac = RandomMac
    BY <2>3 DEF NewLink
  <2>7. RandomMac \notin b.members
    BY Cfg, ConfigAssumption DEF TypeOK, Bridges, ConfigAssumption
  <2>8. b.name \in NamesInUse'
    BY <2>3, <2>5, LinksType DEF NamesInUse, Indices
  <2>9. \A i \in DOMAIN links' : links'[i].name = b.name => i \in Indices /\ links'[i].up
    BY <2>3, <2>4, <2>5, <2>6 DEF BridgeDone
  <2>10. ASSUME NEW i \in DOMAIN links', IsMember(links'[i], b)
         PROVE  links'[i].up /\ \A j \in DOMAIN links' : links'[j].name = b.name => links'[i].master = j
    <3>1. i \in Indices /\ links'[i] = links[i]
      BY <2>3, <2>4, <2>6, <2>7, <2>10 DEF IsMember
    <3> QED
      BY <2>3, <2>9, <2>10, <3>1 DEF BridgeDone, Joined
  <2> QED
    BY <1>0, <2>8, <2>9, <2>10 DEF BridgeDone, Joined, Indices, IsMember
<1> QED
  BY <1>1, <1>2

LEMMA BridgeAfterEnslave ==
  ASSUME TypeOK, Told, ListTrue, Enslave, NEW k \in DOMAIN cfg.bridges, k # nth,
         BridgeDone(cfg.bridges[k])
  PROVE  BridgeDone(cfg.bridges[k])'
<1> DEFINE i == Head(todo).index
           b == ByName(cfg.bridges[nth].name)
<1>1. /\ i \in Indices /\ b \in Indices /\ links[i].mac \in cfg.bridges[nth].members
      /\ DOMAIN links' = Indices
      /\ \A j \in Indices :
           /\ Alike(links[j], links'[j])
           /\ links'[j].master = IF j = i THEN b ELSE links[j].master
           /\ links'[j].mac = links[j].mac \/ (j = b /\ links'[j].mac = links[i].mac)
  BY Enslaved
<1>2. nth \in DOMAIN cfg.bridges /\ cfg \in Configs /\ cfg' = cfg
  BY DEF Enslave, ListTrue, TypeOK
<1>3. links[i].mac \notin cfg.bridges[k].members
  BY <1>1, <1>2, OneBridge
<1> HIDE DEF i, b
<1>4. \A j \in Indices : links'[j].name = links[j].name /\ (links[j].up => links'[j].up)
  BY <1>1 DEF Alike
<1>5. \A j \in Indices : IsMember(links'[j], cfg.bridges[k]) =>
        IsMember(links[j], cfg.bridges[k]) /\ links'[j].master = links[j].master
  BY <1>1, <1>3, <1>4 DEF IsMember
<1> QED
  BY <1>1, <1>2, <1>4, <1>5, BridgeStays

LEMMA BridgeAfterUp ==
  ASSUME TypeOK, Told, ListTrue, BridgeUp, NEW k \in DOMAIN cfg.bridges
  PROVE  /\ cfg' = cfg /\ DOMAIN links' = Indices
         /\ \A j \in Indices : links'[j].name = links[j].name /\ links'[j].mac = links[j].mac
                               /\ links'[j].master = links[j].master /\ (links[j].up => links'[j].up)
         /\ links'[ByName(cfg.bridges[nth].name)].up
         /\ links[ByName(cfg.bridges[nth].name)].up => links' = links
         /\ BridgeDone(cfg.bridges[k]) => BridgeDone(cfg.bridges[k])'
<1> DEFINE b == ByName(cfg.bridges[nth].name)
<1>1. b \in Indices /\ cfg' = cfg /\ links' = LinkSetUp(links, b)
  BY ByNameIs DEF BridgeUp, ListTrue, Bridge
<1> HIDE DEF b
<1>2. UppedIs(links, b, links')
  BY <1>1, Upped, LinksType
<1>3. /\ DOMAIN links' = Indices /\ (links[b].up => links' = links)
      /\ \A j \in Indices :
           /\ Alike(links[j], links'[j])
           /\ links'[j].master = links[j].master /\ links'[j].mac = links[j].mac
  BY <1>2 DEF UppedIs
<1>4. \A j \in Indices : links'[j].name = links[j].name /\ (links[j].up => links'[j].up)
  BY <1>3 DEF Alike
<1>5. links'[b].up
  <2>1. links'[b].up = (links[b].up \/ b = b)
    BY <1>1, <1>2 DEF UppedIs
  <2> QED
    BY <2>1
<1>6. BridgeDone(cfg.bridges[k]) => BridgeDone(cfg.bridges[k])'
  BY <1>1, <1>3, <1>4, BridgeStays DEF IsMember
<1> QED
  BY <1>1, <1>3, <1>4, <1>5, <1>6 DEF b

LEMMA BridgeAfterLink ==
  ASSUME TypeOK, Told, ListTrue, ConfigureLink, NEW k \in DOMAIN cfg.bridges,
         BridgeDone(cfg.bridges[k])
  PROVE  BridgeDone(cfg.bridges[k])'
<1> DEFINE i == Head(todo).index
           l == links[i]
           m == links'[i]
           d == EntryOf(l)
           b == cfg.bridges[k]
<1>1. /\ i \in Indices /\ Entries(l) # {} /\ ~NameTaken(i, d)
      /\ DOMAIN links' = Indices
      /\ m.name = d.name /\ m.master = l.master /\ (l.up => m.up)
      /\ m.mac = l.mac \/ (m.mac = d.spoof /\ m.mac # None)
      /\ \A j \in Indices \ {i} : links'[j] = links[j]
  BY Readdressed
<1>2. cfg' = cfg /\ cfg \in Configs /\ l \in Link /\ LinkTold(l)
  BY <1>1, LinksType DEF ConfigureLink, TypeOK, Told
<1>3. d \in Configured
  BY <1>1, <1>2, EntryIs
<1>4. b.name \in BridgeNames(cfg) /\ b.members \subseteq Hardware
  BY <1>2, Cfg DEF BridgeNames, Bridges
<1>5. l.name = b.name => m.name = b.name
  BY <1>1, <1>2, <1>4, BridgeKept
<1>6. m.name = b.name => l.name = b.name
  <2>1. PICK j \in Indices : links[j].name = b.name
    BY DEF BridgeDone, NamesInUse, Indices
  <2> QED
    BY <1>1, <2>1 DEF NameTaken, Indices
<1>7. m.mac \in b.members => m.mac = l.mac
  BY <1>1, <1>2, <1>3, <1>4, ConfiguredType
<1> HIDE DEF i, d
<1>8. IsMember(m, b) => IsMember(l, b)
  BY <1>5, <1>7 DEF IsMember
<1> QED
  BY <1>1, <1>2, <1>5, <1>6, <1>8, BridgeStays

LEMMA BridgeAfterTunnel ==
  ASSUME TypeOK, Told, ListTrue, MakeTunnel, cfg.tunnels[nth] \in NamesInUse,
         NEW k \in DOMAIN cfg.bridges, BridgeDone(cfg.bridges[k])
  PROVE  BridgeDone(cfg.bridges[k])'
<1>1. /\ DOMAIN links' = Indices
      /\ \A j \in Indices :
           /\ Alike(links[j], links'[j])
           /\ links'[j].master = links[j].master /\ links'[j].mac = links[j].mac
  BY Tunnelled
<1>2. \A j \in Indices : links'[j].name = links[j].name /\ (links[j].up => links'[j].up)
  BY <1>1 DEF Alike
<1> QED
  BY <1>1, <1>2, BridgeStays DEF IsMember, MakeTunnel

BridgesDone == \A b \in DOMAIN cfg.bridges : BridgeDone(cfg.bridges[b])

\* What an Apply that may see all links has done so far, it will find done.
LEMMA SettlingStep ==
  ASSUME TypeOK, Told, ListTrue, Settling, [Next]_vars
  PROVE  Settling'
<1>0. /\ cfg' = cfg /\ cfg \in Configs /\ Indices = 1 .. Len(links)
      /\ nth \in Nat /\ DOMAIN cfg.bridges \subseteq Nat \ {0}
  <2>1. cfg' = cfg /\ cfg \in Configs /\ Indices = 1 .. Len(links) /\ nth \in Nat
    BY LinksStep, LinksType DEF TypeOK
  <2> QED
    BY <2>1, Cfg, LenProperties
<1> DEFINE Upto(n) == \A b \in DOMAIN cfg.bridges : b < n => BridgeDone(cfg.bridges[b])
           Filled == \A i \in Indices \ Pending : IsMember(links[i], Bridge) => Joined(i, Bridge)
           Tunnels(n) == \A t \in DOMAIN cfg.tunnels : t < n => TunnelDone(cfg.tunnels[t])
           Found == /\ BridgesDone
                    /\ \A i \in Indices \ Pending : LinkDone(i)
                    /\ \A t \in DOMAIN cfg.tunnels :
                         pc = "return" \/ t < nth => TunnelDone(cfg.tunnels[t])
<1>1. /\ pc = "list" => logged
      /\ pc = "interfaces" /\ todo # <<>> => nth = 1
      /\ settled = "seeing" /\ ~logged =>
           /\ pc \in {"bridge", "enslave"} => Upto(nth)
           /\ pc = "enslave" => Filled
           /\ pc = "interfaces" \/ (pc = "return" /\ ~failed) => Found
  BY DEF Settling, BridgesDone
<1>2. ASSUME \/ pc' \in {"start", "wait", "exited"}
             \/ settled' # "seeing" /\ pc' = pc /\ UNCHANGED <<todo, nth, logged>>
             \/ pc' = "list" /\ logged'
             \/ pc' = "return" /\ failed'
      PROVE  Settling'
  <2>1. CASE pc' \in {"start", "wait", "exited"}
    BY <2>1 DEF Settling
  <2>2. CASE settled' # "seeing" /\ pc' = pc /\ UNCHANGED <<todo, nth, logged>>
    BY <1>1, <2>2 DEF Settling
  <2>3. CASE (pc' = "list" /\ logged') \/ (pc' = "return" /\ failed')
    BY <2>3 DEF Settling
  <2> QED
    BY <1>2, <2>1, <2>2, <2>3
<1>3. ASSUME NEW hw \in Hardware, LinkAppears(hw) PROVE Settling'
  BY <1>2, <1>3 DEF LinkAppears, local
<1>4. CASE BridgesFail \/ ConfigureLinkFails \/ NameConflict \/ MakeTunnelFails \/ Crash \/ Supervise
           \/ Return
  BY <1>2, <1>4 DEF BridgesFail, ConfigureLinkFails, NameConflict, MakeTunnelFails, Crash, Supervise,
                    Return, EndBridges, EndInterfaces
<1>5. CASE Begin
  <2>1. pc' = "bridge" /\ nth' = 1
    BY <1>5 DEF Begin
  <2>2. \A b \in DOMAIN cfg.bridges : ~(b < 1)
    BY <1>0, Cfg, LenProperties
  <2> QED
    BY <1>0, <2>1, <2>2 DEF Settling
<1>6. CASE MakeBridge
  <2>1. pc = "bridge" /\ pc' = "enslave" /\ UNCHANGED <<nth, logged, settled>>
        /\ todo' = Snapshot(links')
    BY <1>6 DEF MakeBridge
  <2>2. Pending' = DOMAIN links'
    BY <2>1, LinksStep, PendingAll DEF LinksOK
  <2>3. \A b \in DOMAIN cfg.bridges : BridgeDone(cfg.bridges[b]) => BridgeDone(cfg.bridges[b])'
    BY <1>6, BridgeAfterMake
  <2> QED
    BY <1>0, <1>1, <2>1, <2>2, <2>3 DEF Settling, Indices
<1>7. CASE SkipMember
  <2>1. /\ pc = "enslave" /\ todo # <<>> /\ ~IsMember(Head(todo), Bridge)
        /\ todo' = Tail(todo) /\ UNCHANGED <<cfg, links, pc, nth, logged, settled>>
    BY <1>7 DEF SkipMember, Bridge
  <2>2. Pending' = Pending \ {Head(todo).index}
    BY <2>1, PendingTail
  <2>3. ~IsMember(links[Head(todo).index], Bridge)
    BY <2>1, HeadOfList DEF ListTrue, IsMember
  <2>4. \A b \in DOMAIN cfg.bridges : BridgeDone(cfg.bridges[b]) => BridgeDone(cfg.bridges[b])'
    BY <2>1, BridgeSame
  <2>5. Bridge' = Bridge /\ \A i, b : Joined(i, b)' = Joined(i, b)
    BY <2>1 DEF Bridge, Joined, Indices
  <2> QED
    BY <1>0, <1>1, <2>1, <2>2, <2>3, <2>4, <2>5 DEF Settling, Indices
<1>8. CASE Enslave
  <2> DEFINE i == Head(todo).index
             b == ByName(cfg.bridges[nth].name)
  <2>1. /\ pc = "enslave" /\ todo # <<>> /\ todo' = Tail(todo)
        /\ UNCHANGED <<pc, nth, logged, settled>>
    BY <1>8 DEF Enslave
  <2>2. Pending' = Pending \ {i}
    BY <2>1, PendingTail
  <2>3. \A k \in DOMAIN cfg.bridges : k < nth =>
          (BridgeDone(cfg.bridges[k]) => BridgeDone(cfg.bridges[k])')
    <3> TAKE k \in DOMAIN cfg.bridges
    <3> HAVE k < nth
    <3> HAVE BridgeDone(cfg.bridges[k])
    <3>1. k # nth
      BY <1>0
    <3> QED
      BY <1>8, <3>1, BridgeAfterEnslave
  <2>4. /\ i \in Indices /\ b \in Indices /\ links[b].name = Bridge.name
        /\ DOMAIN links' = Indices
        /\ \A j \in Indices :
             /\ Alike(links[j], links'[j])
             /\ links'[j].master = IF j = i THEN b ELSE links[j].master
             /\ links'[j].mac = links[j].mac \/ j = b
             /\ links'[j].up = (links[j].up \/ j = i)
    BY <1>8, Enslaved DEF Bridge
  <2>5. \A j \in Indices : links'[j].name = links[j].name /\ (links[j].up => links'[j].up)
    BY <2>4 DEF Alike
  <2>6. Bridge' = Bridge
    BY <1>0, <2>1 DEF Bridge
  <2> HIDE DEF i, b
  <2>7. ASSUME Filled, NEW j \in Indices \ (Pending \ {i}), IsMember(links'[j], Bridge)
        PROVE  /\ links'[j].up
               /\ \A m \in Indices : links'[m].name = Bridge.name => links'[j].master = m
    <3>1. \A m \in Indices : links'[m].name = Bridge.name => m = b
      BY <2>4, <2>5 DEF TypeOK
    <3>2. CASE j = i
      <4>1. links'[j].up = (links[j].up \/ j = i)
        BY <2>4
      <4> QED
        BY <2>4, <3>1, <3>2, <4>1
    <3>3. CASE j # i
      <4>1. j # b /\ IsMember(links[j], Bridge)
        BY <2>4, <2>5, <2>7 DEF IsMember
      <4> QED
        BY <2>4, <2>5, <2>7, <3>3, <4>1 DEF Joined
    <3> QED
      BY <3>2, <3>3
  <2>8. Filled => Filled'
    BY <2>2, <2>4, <2>6, <2>7 DEF Joined, Indices, IsMember
  <2> QED
    BY <1>0, <1>1, <2>1, <2>3, <2>8 DEF Settling
<1>9. CASE BridgeUp
  <2> DEFINE b == ByName(cfg.bridges[nth].name)
  <2>1. /\ pc = "enslave" /\ todo = <<>> /\ nth' = nth + 1 /\ pc' = "bridge"
        /\ UNCHANGED <<logged, settled>>
    BY <1>9 DEF BridgeUp
  <2>2. /\ nth \in DOMAIN cfg.bridges /\ Bridge.name \in NamesInUse /\ Pending = {}
    BY <2>1, PendingNone DEF ListTrue
  <2>3. /\ DOMAIN links' = Indices
        /\ \A j \in Indices : links'[j].name = links[j].name /\ links'[j].mac = links[j].mac
                              /\ links'[j].master = links[j].master /\ (links[j].up => links'[j].up)
        /\ links'[b].up
        /\ \A k \in DOMAIN cfg.bridges : BridgeDone(cfg.bridges[k]) => BridgeDone(cfg.bridges[k])'
    BY <1>9, <2>2, BridgeAfterUp
  <2>4. /\ b \in Indices /\ links[b].name = cfg.bridges[nth].name
        /\ \A j \in Indices : links[j].name = cfg.bridges[nth].name => j = b
    BY <2>2, ByNameIs DEF Bridge
  <2> HIDE DEF b
  <2>5. ASSUME Filled, NEW k \in DOMAIN cfg.bridges, k = nth PROVE BridgeDone(cfg.bridges[k])'
    <3>1. cfg.bridges[k].name \in NamesInUse'
      BY <2>3, <2>4, <2>5 DEF NamesInUse
    <3>2. \A j \in Indices : links'[j].name = cfg.bridges[k].name => j = b
      BY <2>3, <2>4, <2>5
    <3>3. ASSUME NEW j \in Indices, IsMember(links'[j], cfg.bridges[k])
          PROVE  links'[j].up /\ links'[j].master = b
      <4>1. IsMember(links[j], Bridge)
        BY <2>3, <2>5, <3>3 DEF IsMember, Bridge
      <4>2. Joined(j, Bridge)
        BY <2>2, <2>5, <4>1
      <4> QED
        BY <2>3, <2>4, <4>2 DEF Joined, Bridge
    <3> QED
      BY <1>0, <2>3, <3>1, <3>2, <3>3 DEF BridgeDone, Joined, Indices, IsMember
  <2>6. \A k \in DOMAIN cfg.bridges : k < nth + 1 => k < nth \/ k = nth
    BY <1>0
  <2> QED
    BY <1>0, <1>1, <2>1, <2>3, <2>5, <2>6 DEF Settling
<1>10. CASE ListLinks
  <2>1. /\ pc = "list" \/ (pc = "bridge" /\ nth > Len(cfg.bridges))
        /\ pc' = "interfaces" /\ nth' = 1 /\ UNCHANGED <<cfg, links, logged, settled>>
        /\ todo' = Snapshot(links)
    BY <1>10 DEF ListLinks
  <2>2. Pending' = Indices
    BY <2>1, LinksType, PendingAll DEF Indices
  <2>3. pc = "bridge" => \A b \in DOMAIN cfg.bridges : b < nth
    BY <1>0, <2>1, Cfg, LenProperties
  <2>4. \A b \in DOMAIN cfg.bridges : BridgeDone(cfg.bridges[b]) => BridgeDone(cfg.bridges[b])'
    BY <2>1, BridgeSame
  <2>5. \A t \in DOMAIN cfg.tunnels : ~(t < 1)
    BY <1>0, Cfg, LenProperties
  <2>6. Indices' = Indices
    BY <2>1 DEF Indices
  <2> QED
    BY <1>0, <1>1, <2>1, <2>2, <2>3, <2>4, <2>5, <2>6 DEF Settling
<1>11. \A t \in DOMAIN cfg.tunnels : ~(t < 1)
  BY <1>0, Cfg, LenProperties
<1>12. CASE SkipLink
  <2>1. /\ pc = "interfaces" /\ todo # <<>> /\ Entries(Head(todo)) = {}
        /\ todo' = Tail(todo) /\ UNCHANGED <<cfg, links, pc, nth, logged, settled>>
    BY <1>12 DEF SkipLink
  <2>2. Pending' = Pending \ {Head(todo).index}
    BY <2>1, PendingTail
  <2>3. LinkDone(Head(todo).index)
    BY <2>1, LinkAhead DEF LinkDone
  <2>4. \A b \in DOMAIN cfg.bridges : BridgeDone(cfg.bridges[b]) => BridgeDone(cfg.bridges[b])'
    BY <2>1, BridgeSame
  <2>5. \A i \in Indices : LinkDone(i) => LinkDone(i)'
    BY <2>1, LinkSame
  <2>6. Indices' = Indices
    BY <2>1 DEF Indices
  <2> QED
    BY <1>0, <1>1, <1>11, <2>1, <2>2, <2>3, <2>4, <2>5, <2>6 DEF Settling, BridgesDone
<1>13. CASE ConfigureLink
  <2> DEFINE i == Head(todo).index
  <2>1. /\ pc = "interfaces" /\ todo # <<>>
        /\ todo' = Tail(todo) /\ UNCHANGED <<cfg, pc, nth, logged, settled>>
    BY <1>13 DEF ConfigureLink
  <2>2. Pending' = Pending \ {i}
    BY <2>1, PendingTail
  <2>3. /\ i \in Indices /\ Entries(links[i]) # {}
        /\ DOMAIN links' = Indices
        /\ links'[i] = After(links[i], EntryOf(links[i]), 4)
        /\ \A j \in Indices \ {i} : links'[j] = links[j]
    BY <1>13, Readdressed
  <2>4. links[i] \in Link /\ LinkTold(links[i])
    BY <2>3, LinksType DEF Told
  <2> HIDE DEF i
  <2>5. ASSUME NEW k \in Indices, k = i PROVE LinkDone(k)'
    <3> DEFINE l == links[k]
               m == After(l, EntryOf(l), 4)
    <3>1. l \in Link /\ LinkTold(l) /\ Entries(l) # {} /\ links'[k] = m
      BY <2>3, <2>4, <2>5
    <3> HIDE DEF l
    <3>2. EntryOf(m) = EntryOf(l) /\ After(m, EntryOf(l), 4) = m
      BY <1>0, <3>1, AfterDone
    <3>3. After(links'[k], EntryOf(links'[k]), 4) = links'[k]
      BY <3>1, <3>2
    <3> HIDE DEF m
    <3> QED
      BY <2>1, <3>3 DEF LinkDone, EntryOf, Entries, WithMac, WithName
  <2>6. \A j \in Indices \ {i} : LinkDone(j) => LinkDone(j)'
    BY <2>1, <2>3, LinkSame
  <2>7. \A b \in DOMAIN cfg.bridges : BridgeDone(cfg.bridges[b]) => BridgeDone(cfg.bridges[b])'
    BY <1>13, BridgeAfterLink
  <2>8. Indices' = Indices
    BY <2>3 DEF Indices
  <2> QED
    BY <1>0, <1>1, <1>11, <2>1, <2>2, <2>5, <2>6, <2>7, <2>8 DEF Settling, BridgesDone
<1>14. CASE MakeTunnel
  <2> DEFINE n == cfg.tunnels[nth]
  <2>1. /\ pc = "interfaces" /\ todo = <<>> /\ UNCHANGED <<cfg, pc, todo, logged>> /\ nth' = nth + 1
        /\ settled' = IF n \in NamesInUse THEN settled ELSE "no"
    BY <1>14 DEF MakeTunnel
  <2>2. CASE n \notin NamesInUse
    BY <2>1, <2>2 DEF Settling
  <2>3. CASE n \in NamesInUse
    <3>1. /\ DOMAIN links' = Indices
          /\ \A j \in Indices :
               /\ Alike(links[j], links'[j]) /\ links'[j].mac = links[j].mac
               /\ links[j].name = n => links'[j].ready
      BY <1>14, <2>3, Tunnelled
    <3>2. \A b \in DOMAIN cfg.bridges : BridgeDone(cfg.bridges[b]) => BridgeDone(cfg.bridges[b])'
      BY <1>14, <2>3, BridgeAfterTunnel
    <3>3. \A j \in Indices : links'[j].name = links[j].name /\ (links[j].ready => links'[j].ready)
      BY <3>1 DEF Alike
    <3>4. ASSUME NEW j \in Indices, LinkDone(j) PROVE LinkDone(j)'
      <4> DEFINE l == links[j]
                 m == links'[j]
                 d == EntryOf(l)
      <4>1. /\ l \in Link /\ Alike(l, m) /\ m.mac = l.mac /\ m.name = l.name
            /\ Entries(l) # {} => After(l, d, 4) = l
        BY <3>1, <3>3, <3>4, LinksType DEF LinkDone
      <4>2. Entries(m) = Entries(l) /\ EntryOf(m) = d
        BY <4>1, SameEntry
      <4> HIDE DEF l, m, d
      <4>3. Entries(m) # {} => After(m, EntryOf(m), 4) = m
        BY <4>1, <4>2, AlikeGivesNothing
      <4> QED
        BY <2>1, <4>3 DEF LinkDone, EntryOf, Entries, WithMac, WithName, m
    <3>5. \A t \in DOMAIN cfg.tunnels : TunnelDone(cfg.tunnels[t]) \/ t = nth => TunnelDone(cfg.tunnels[t])'
      BY <2>1, <3>1, <3>3 DEF TunnelDone, Indices
    <3>6. Pending' = Pending /\ Indices' = Indices
      BY <2>1, <3>1 DEF Pending, Indices
    <3>7. \A t \in DOMAIN cfg.tunnels : t < nth + 1 => t < nth \/ t = nth
      BY <1>0, Cfg, LenProperties
    <3> QED
      BY <1>1, <2>1, <2>3, <3>2, <3>4, <3>5, <3>6, <3>7 DEF Settling, BridgesDone
  <2> QED
    BY <2>2, <2>3
<1>15. CASE Finish
  <2>1. /\ pc = "interfaces" /\ todo = <<>> /\ pc' = "return"
        /\ UNCHANGED <<cfg, links, todo, failed, logged, settled>>
        /\ nth > Len(cfg.tunnels)
    BY <1>15 DEF Finish, local
  <2>2. \A t \in DOMAIN cfg.tunnels : t < nth
    BY <1>0, <2>1, Cfg, LenProperties
  <2>3. \A b \in DOMAIN cfg.bridges : BridgeDone(cfg.bridges[b]) => BridgeDone(cfg.bridges[b])'
    BY <2>1, BridgeSame
  <2>4. \A i \in Indices : LinkDone(i) => LinkDone(i)'
    BY <2>1, LinkSame
  <2>5. \A n : TunnelDone(n) => \A i \in Indices : links'[i].name = n => links'[i].ready
    BY <2>1 DEF TunnelDone
  <2>6. Pending' = Pending /\ Indices' = Indices
    BY <2>1 DEF Pending, Indices
  <2> QED
    BY <1>1, <2>1, <2>2, <2>3, <2>4, <2>5, <2>6 DEF Settling, BridgesDone, TunnelDone
<1>16. CASE UNCHANGED vars
  <2>1. UNCHANGED <<cfg, links, pc, nth, todo, failed, logged, settled>>
    BY <1>16 DEF vars, local
  <2>2. \A b \in DOMAIN cfg.bridges : BridgeDone(cfg.bridges[b]) => BridgeDone(cfg.bridges[b])'
    BY <2>1, BridgeSame
  <2>3. \A i \in Indices : LinkDone(i) => LinkDone(i)'
    BY <2>1, LinkSame
  <2>4. Pending' = Pending /\ Indices' = Indices /\ (Filled => Filled')
    BY <2>1 DEF Pending, Indices, Joined, Bridge
  <2>5. \A t \in DOMAIN cfg.tunnels : TunnelDone(cfg.tunnels[t]) => TunnelDone(cfg.tunnels[t])'
    BY <2>1 DEF TunnelDone, Indices
  <2> QED
    BY <1>1, <2>1, <2>2, <2>3, <2>4, <2>5 DEF Settling, BridgesDone
<1> QED
  BY <1>3, <1>4, <1>5, <1>6, <1>7, <1>8, <1>9, <1>10, <1>12, <1>13, <1>14, <1>15, <1>16
  DEF Next, Netconfigd, Failure

\* What is given to a link that has it changes nothing.
LEMMA GivenSame ==
  ASSUME TypeOK, NEW i \in Indices, Entries(links[i]) # {}, LinkDone(i), NEW n \in 1 .. 4
  PROVE  Give(i, EntryOf(links[i]), n) = links
<1> DEFINE m == After(links[i], EntryOf(links[i]), n)
<1>1. After(links[i], EntryOf(links[i]), 4) = links[i]
  BY DEF LinkDone
<1>2. m = links[i]
  BY <1>1, LinksType, GivesNothing
<1>3. Give(i, EntryOf(links[i]), n) = [links EXCEPT ![i] = m]
  BY DEF Give
<1> HIDE DEF m
<1>4. [links EXCEPT ![i] = links[i]] = links
  BY LinksType
<1> QED
  BY <1>2, <1>3, <1>4

\* While the links are settled no step changes one, and only a failure is logged
\* or returned.
LEMMA SettledLinks ==
  ASSUME TypeOK, Told, ListTrue, Settled, [Next]_vars, settled = "yes", settled' = "yes"
  PROVE  /\ links' = links
         /\ failures' = failures => (failed' => failed) /\ (logged' => logged)
<1>1. /\ \A b \in DOMAIN cfg.bridges : BridgeDone(cfg.bridges[b])
      /\ \A i \in Indices : LinkDone(i)
      /\ \A t \in DOMAIN cfg.tunnels : TunnelDone(cfg.tunnels[t])
  BY DEF Settled
<1>2. ASSUME pc = "enslave", todo # <<>>, IsMember(Head(todo), cfg.bridges[nth])
      PROVE  LET i == Head(todo).index
                 b == ByName(cfg.bridges[nth].name)
             IN  i \in Indices /\ b \in Indices /\ i # b /\ links[i].master = b /\ links[i].up
  <2> DEFINE i == Head(todo).index
             b == ByName(cfg.bridges[nth].name)
  <2>1. /\ i \in Indices /\ b \in Indices /\ i # b /\ nth \in DOMAIN cfg.bridges
        /\ links[b].name = cfg.bridges[nth].name
        /\ links[i].name = Head(todo).name /\ links[i].mac = Head(todo).mac
    BY <1>2, MemberAhead
  <2>2. IsMember(links[i], cfg.bridges[nth])
    BY <1>2, <2>1 DEF IsMember
  <2> QED
    BY <1>1, <2>1, <2>2 DEF BridgeDone, Joined
<1>3. ASSUME pc = "interfaces", todo # <<>>, Entries(Head(todo)) # {}
      PROVE  LET i == Head(todo).index IN
             /\ ~NameTaken(i, EntryOf(Head(todo)))
             /\ \A n \in 1 .. 4 : Give(i, EntryOf(Head(todo)), n) = links
  <2> DEFINE i == Head(todo).index
  <2>1. i \in Indices /\ Entries(links[i]) # {} /\ EntryOf(Head(todo)) = EntryOf(links[i])
    BY <1>3, LinkAhead
  <2>2. links[i].name = EntryOf(links[i]).name
    <3>1. After(links[i], EntryOf(links[i]), 4) = links[i]
      BY <1>1, <2>1 DEF LinkDone
    <3> QED
      BY <2>1, <3>1, LinksType, GivesNothing
  <2>3. ~NameTaken(i, EntryOf(links[i]))
    BY <2>1, <2>2 DEF NameTaken, TypeOK, Indices
  <2> QED
    BY <1>1, <2>1, <2>3, GivenSame
<1>4. ASSUME NEW hw \in Hardware, LinkAppears(hw) PROVE FALSE
  BY <1>4 DEF LinkAppears
<1>5. CASE MakeBridge
  <2>1. nth \in DOMAIN cfg.bridges
    BY <1>5, Cfg, LenProperties DEF MakeBridge, TypeOK, ListTrue
  <2> QED
    BY <1>1, <1>5, <2>1 DEF MakeBridge, BridgeDone
<1>6. CASE Enslave
  <2>1. links' = links
    BY <1>2, <1>6, Enslaved DEF Enslave
  <2> QED
    BY <1>6, <2>1 DEF Enslave
<1>7. CASE BridgeUp
  <2>1. nth \in DOMAIN cfg.bridges /\ cfg.bridges[nth].name \in NamesInUse
    BY <1>7 DEF BridgeUp, ListTrue, Bridge
  <2>2. links[ByName(cfg.bridges[nth].name)].up
    BY <1>1, <2>1, ByNameIs DEF BridgeDone
  <2>3. links' = links
    BY <1>7, <2>1, <2>2, BridgeAfterUp
  <2> QED
    BY <1>7, <2>3 DEF BridgeUp
<1>8. CASE BridgesFail
  <2>1. SUFFICES ASSUME pc = "enslave", todo # <<>>, IsMember(Head(todo), cfg.bridges[nth]),
                        links' \in SetMaster(Head(todo).index, ByName(cfg.bridges[nth].name))
                 PROVE  links' = links
    BY <1>8 DEF BridgesFail, Fail, TypeOK
  <2> QED
    BY <1>2, <2>1, Mastered
<1>9. CASE ConfigureLink
  BY <1>3, <1>9 DEF ConfigureLink
<1>10. CASE ConfigureLinkFails
  BY <1>3, <1>10 DEF ConfigureLinkFails, Fail, TypeOK
<1>11. CASE NameConflict
  BY <1>3, <1>11 DEF NameConflict
<1>12. CASE MakeTunnel
  <2>1. cfg.tunnels[nth] \in NamesInUse /\ nth \in DOMAIN cfg.tunnels
    BY <1>12, Cfg, LenProperties DEF MakeTunnel, TypeOK, ListTrue
  <2>2. \A j \in Indices : links[j].name = cfg.tunnels[nth] => links[j].ready
    BY <1>1, <2>1 DEF TunnelDone
  <2>3. links' = links
    BY <1>12, <2>1, <2>2, Tunnelled
  <2> QED
    BY <1>12, <2>3 DEF MakeTunnel
<1>13. CASE MakeTunnelFails
  BY <1>13 DEF MakeTunnelFails, Fail, TypeOK
<1>14. CASE Begin \/ SkipMember \/ ListLinks \/ SkipLink \/ Finish \/ Return \/ Supervise \/ Crash
  BY <1>14 DEF Begin, SkipMember, ListLinks, SkipLink, Finish, Return, Supervise, Crash, local
<1>15. CASE UNCHANGED vars
  BY <1>15 DEF vars, local
<1> QED
  BY <1>4, <1>5, <1>6, <1>7, <1>8, <1>9, <1>10, <1>11, <1>12, <1>13, <1>14, <1>15
  DEF Next, Netconfigd, Failure

LEMMA SettledStep ==
  ASSUME TypeOK, Told, ListTrue, DoneSoFar, Settling, Settled, [Next]_vars
  PROVE  Settled'
<1> SUFFICES ASSUME settled' = "yes" PROVE Settled'
  BY DEF Settled
<1>0. cfg' = cfg
  BY LinksStep
<1>1. /\ \A b \in DOMAIN cfg.bridges : BridgeDone(cfg.bridges[b])
      /\ \A i \in Indices : LinkDone(i)
      /\ \A t \in DOMAIN cfg.tunnels : TunnelDone(cfg.tunnels[t])
      /\ links' = links
  <2>1. CASE settled = "yes"
    BY <2>1, SettledLinks DEF Settled
  <2>2. CASE settled # "yes"
    <3>1. Return /\ settled = "seeing" /\ ~failed /\ ~logged
      BY <2>2 DEF TypeOK, Next, Netconfigd, Failure, vars, local, Begin, MakeBridge, SkipMember,
             Enslave, BridgeUp, ListLinks, SkipLink, ConfigureLink, NameConflict, MakeTunnel,
             Finish, Return, Supervise, BridgesFail, ConfigureLinkFails, MakeTunnelFails, Crash,
             LinkAppears
    <3>2. pc = "return" /\ links' = links
      BY <3>1 DEF Return
    <3>3. Pending = {}
      BY <3>1, <3>2, PendingNone DEF DoneSoFar
    <3> QED
      BY <3>1, <3>2, <3>3 DEF Settling
  <2> QED
    BY <2>1, <2>2
<1>2. \A b \in DOMAIN cfg.bridges : BridgeDone(cfg.bridges[b])'
  BY <1>0, <1>1, BridgeSame
<1>3. \A i \in Indices : LinkDone(i)'
  BY <1>0, <1>1, LinkSame
<1>4. \A t \in DOMAIN cfg.tunnels : TunnelDone(cfg.tunnels[t])'
  BY <1>0, <1>1 DEF TunnelDone, Indices
<1>5. Indices' = Indices
  BY <1>1 DEF Indices
<1> QED
  BY <1>0, <1>2, <1>3, <1>4, <1>5 DEF Settled

-----------------------------------------------------------------------------
(* The theorems *)

\* The kernel has no links yet.
LEMMA LInit == Init => LInv
<1> SUFFICES ASSUME Init PROVE LInv
  OBVIOUS
<1>1. cfg \in Configs /\ links = <<>> /\ todo = <<>> /\ Len(links) = 0
  BY DEF Init
<1>2. DOMAIN links = {} /\ DOMAIN todo = {} /\ Indices = {}
  BY <1>1 DEF Indices
<1>3. TypeOK
  <2>1. \A S : links \in Seq(S) /\ todo \in Seq(S)
    BY <1>1, EmptySeq
  <2>2. failures \in 0 .. MaxFailures /\ listed \in 0 .. Len(links) /\ nth \in Nat
    BY <1>1, ConfigAssumption DEF Init, ConfigAssumption
  <2> QED
    BY <1>1, <1>2, <2>1, <2>2 DEF Init, TypeOK
<1>4. Told /\ ListTrue /\ DoneSoFar /\ Settling /\ Settled
  BY <1>1, <1>2 DEF Init, Told, ListTrue, DoneSoFar, Settling, Settled
<1> QED
  BY <1>3, <1>4 DEF LInv

LEMMA LStep == LInv /\ [Next]_vars => LInv'
  BY TypeStep, ListStep, DoneStep, SettlingStep, SettledStep DEF LInv

\* The invariant holds from an empty kernel on, whatever netconfigd does or fails
\* to do, and whenever a link appears.
THEOREM LInvariant == Spec => []LInv
  BY LInit, LStep, PTL DEF Spec

\* Every variable has its type; no two links have one name, and no bridge is put
\* into itself, whatever applyBridges and applyInterfaces rename and enslave.
THEOREM LTypeCorrect == Spec => []TypeOK
  BY LInvariant, PTL DEF LInv

\* applyInterfaces gives no link a name or an IP address that is meant for another
\* one: not after a failure halfway, not by an address that a bridge shares with
\* its member, not when a later run finds a link that an earlier one has changed.
THEOREM LinksMeant == Spec => []LinksAsMeant
<1>1. LInv => LinksAsMeant
  <2> SUFFICES ASSUME LInv, NEW i \in Indices
               PROVE  /\ \A d \in Configured : links[i].name = d.name /\ d.name # links[i].born
                           => Meant(links[i], d)
                      /\ AddrsTold(links[i])
    BY DEF LinksAsMeant, AddrsTold
  <2>1. NameTold(links[i]) /\ AddrsTold(links[i]) /\ cfg \in Configs
    BY DEF LInv, Told, LinkTold, TypeOK
  <2>2. ASSUME NEW d \in Configured, links[i].name = d.name, d.name # links[i].born
        PROVE  Meant(links[i], d)
    <3>1. PICK e \in Known(links[i]) : links[i].name = e.name
      BY <2>1, <2>2 DEF NameTold
    <3>2. e = d
      BY <2>1, <2>2, <3>1, OneEntry DEF Known
    <3> QED
      BY <3>1, <3>2 DEF Meant
  <2> QED
    BY <2>1, <2>2
<1> QED
  BY <1>1, LInvariant, PTL

\* When an Apply has ended without error every link that it listed is as its entry
\* says, whatever the Applies that failed before it have left behind.
THEOREM LinksDone == Spec => []DoneMeansConfigured
<1>1. LInv => DoneMeansConfigured
  <2> SUFFICES ASSUME LInv, pc = "wait", NEW i \in 1 .. listed, NEW d \in Configured,
                      Meant(links[i], d)
               PROVE  IsConfigured(links[i], d)
    BY DEF DoneMeansConfigured
  <2>1. ~failed /\ todo = <<>> /\ TypeOK
    BY DEF LInv, DoneSoFar
  <2>2. Pending = {}
    BY <2>1, PendingNone
  <2> QED
    BY <2>1, <2>2 DEF LInv, DoneSoFar
<1> QED
  BY <1>1, LInvariant, PTL

\* After an Apply without error that has seen all links, the next ones change none
\* of them, and their errors are those of calls that failed.
THEOREM LinksSettled == Spec => SettledStays
<1>1. LInv /\ [Next]_vars =>
        [settled = "yes" /\ settled' = "yes" =>
           /\ links' = links
           /\ failures' = failures => (failed' => failed) /\ (logged' => logged)]_vars
  BY SettledLinks DEF LInv
<1> QED
  BY <1>1, LInvariant, PTL DEF Spec, SettledStays

=============================================================================
