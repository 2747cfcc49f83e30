----------------------------- MODULE Netconfigd -----------------------------
(***************************************************************************)
(* netconfigd: the loop of cmd/netconfigd and Apply of package netconfig,  *)
(* which brings the kernel's addresses, routes and packet filter in line   *)
(* with the files other processes write, one system call after another,    *)
(* any of which may fail; with the two writers of those files, the         *)
(* signals between the processes, crashes and restarts by the supervisor.  *)
(*                                                                         *)
(* External: the kernel's tables, of which the uplink's IPv4 addresses,    *)
(* its two routes, the LAN's addresses and the ruleset are kept, dhcp4 and *)
(* dhcp6 as far as they write a lease and then signal, and dhcp4d, which   *)
(* reads the addresses when it is signalled.  A signal is delivered when   *)
(* its receiver has subscribed, and two of them may be seen as one.        *)
(***************************************************************************)
EXTENDS Naturals, FiniteSets

CONSTANTS
    Leases,        \* DHCPv4 leases: records [addr, router, mask]
    Subnet,        \* the subnet, mask included, of each of their addresses
    Prefixes,      \* what dhcp6 may be delegated: prefixes other than Static
    Static,        \* the address interfaces.json gives lan0
    None,
    MaxWrites,     \* bound on the leases written
    MaxFailures    \* bound on the failed calls and the crashes

ASSUME NetAssumption ==
    /\ \A l \in Leases : DOMAIN l = {"addr", "router", "mask"} /\ l.mask \in BOOLEAN
    /\ Static \notin Prefixes
    /\ None \notin Leases \cup Prefixes
    /\ None \notin {"", "eth0", "uplink0"}
    /\ MaxWrites \in Nat /\ MaxFailures \in Nat

Writers == {"dhcp4", "dhcp6"}

VARIABLES
    pc,          \* where netconfigd is
    subscribed,  \* Notify has been called
    ch,          \* a signal waits in the channel
    got,         \* the DHCPv4 lease this Apply has read
    old,         \* addresses AddrList returned and the loop has still to delete
    failed,      \* this Apply will return an error
    listening,   \* the addresses netconfigd's own listeners were updated to
    addrs,       \* external: IPv4 addresses of uplink0
    secondary,   \* external: those that joined another one in its subnet
    hostRoutes,  \* external: leases whose route to the router is in place
    default,     \* external: the lease the default route is from, or None
    lan,         \* external: addresses of lan0
    uplink,      \* external: what the uplink's link is called; None: not there
    ruleset,     \* external: the uplink's name in the ruleset, None: no ruleset
    forwards,    \* whether portforwardings.json can be parsed
    file,        \* the persisted leases
    writer,      \* external: where dhcp4 and dhcp6 are
    seen,        \* external: the addresses dhcp4d has read last
    signalled,   \* external: a signal waits in dhcp4d's channel
    writes, failures

process == <<subscribed, ch, listening>>
local == <<got, old, failed>>
uplinkNet == <<addrs, secondary, hostRoutes, default>>
kernel == <<uplinkNet, lan, uplink, ruleset>>
input == <<forwards, file, writer, writes>>
peer == <<seen, signalled>>
vars == <<pc, process, local, kernel, input, peer, failures>>

Init ==
    /\ pc = "start" /\ subscribed = FALSE /\ ch = FALSE
    /\ got = None /\ old = {} /\ failed = FALSE
    /\ listening = {}
    /\ addrs = {} /\ secondary = {} /\ hostRoutes = {} /\ default = None
    /\ lan = {} /\ uplink \in {None, "eth0"} /\ ruleset = None
    /\ forwards \in BOOLEAN
    /\ file = [w \in Writers |-> None]
    /\ writer = [w \in Writers |-> "obtain"]
    /\ seen = {} /\ signalled = FALSE
    /\ writes = 0 /\ failures = 0

\* What netconfigd and dhcp4d listen on.
Private == lan

-----------------------------------------------------------------------------
(* The loop of cmd/netconfigd *)

UpdateListeners == listening' = Private

\* Fault: the subscription is forgotten.
StartUnsubscribed ==
    /\ pc = "start"
    /\ UpdateListeners
    /\ pc' = "interfaces"
    /\ UNCHANGED <<subscribed, ch, local, kernel, input, peer, failures>>

\* logic: listeners first, then the subscription, then the first Apply.
Start ==
    /\ pc = "start"
    /\ UpdateListeners
    /\ subscribed' = TRUE
    /\ pc' = "interfaces"
    /\ UNCHANGED <<ch, local, kernel, input, peer, failures>>

\* A signal ends the wait.
Wake ==
    /\ pc = "wait"
    /\ ch
    /\ ch' = FALSE
    /\ UpdateListeners
    /\ pc' = "interfaces"
    /\ UNCHANGED <<subscribed, local, kernel, input, peer, failures>>

\* Fault: an error ends the process before dhcp4d is notified.
ReturnBeforeNotify ==
    /\ pc = "return"
    /\ signalled' = (signalled \/ ~failed)
    /\ pc' = IF failed THEN "exited" ELSE "wait"
    /\ failed' = FALSE /\ got' = None
    /\ UNCHANGED <<process, old, kernel, input, seen, failures>>

\* Fault: an error does not end the process.
ReturnIgnoresError ==
    /\ pc = "return"
    /\ signalled' = TRUE
    /\ pc' = "wait"
    /\ failed' = FALSE /\ got' = None
    /\ UNCHANGED <<process, old, kernel, input, seen, failures>>

\* Apply has returned: dhcp4d is notified in any case, and the process ends
\* when there was an error.
Return ==
    /\ pc = "return"
    /\ signalled' = TRUE
    /\ pc' = IF failed THEN "exited" ELSE "wait"
    /\ failed' = FALSE /\ got' = None
    /\ UNCHANGED <<process, old, kernel, input, seen, failures>>

-----------------------------------------------------------------------------
(* Apply *)

\* An error of interfaces.json's part ends Apply, maybe halfway.  Otherwise the
\* uplink has its configured name and lan0 its address.
ApplyInterfaces ==
    /\ pc = "interfaces"
    /\ uplink' = IF uplink = None THEN None ELSE "uplink0"
    /\ lan' = lan \cup {Static}
    /\ pc' = "dhcp4"
    /\ UNCHANGED <<process, local, uplinkNet, ruleset, input, peer, failures>>

ApplyInterfacesFails ==
    /\ failures < MaxFailures /\ failures' = failures + 1
    /\ pc = "interfaces"
    /\ uplink' \in {uplink, IF uplink = None THEN None ELSE "uplink0"}
    /\ lan' \in {lan, lan \cup {Static}}
    /\ failed' = TRUE
    /\ pc' = "return"
    /\ UNCHANGED <<process, got, old, uplinkNet, ruleset, input, peer>>

\* applyDhcp4 returns before it has changed anything: no lease yet, no link
\* uplink0, or a lease without subnet mask.
SkipDhcp4 ==
    /\ pc = "dhcp4"
    /\ \/ file["dhcp4"] = None /\ UNCHANGED failed
       \/ /\ file["dhcp4"] # None
          /\ uplink # "uplink0" \/ ~file["dhcp4"].mask
          /\ failed' = TRUE
    /\ pc' = "dhcp6"
    /\ UNCHANGED <<process, got, old, kernel, input, peer, failures>>

ReadLease4 ==
    /\ pc = "dhcp4"
    /\ file["dhcp4"] # None /\ uplink = "uplink0" /\ file["dhcp4"].mask
    /\ got' = file["dhcp4"]
    /\ pc' = "replace"
    /\ UNCHANGED <<process, old, failed, kernel, input, peer, failures>>

\* External: an address that is new in the subnet of another one is its secondary.
Secondaries ==
    IF got.addr \notin addrs /\ \E a \in addrs : Subnet[a] = Subnet[got.addr]
    THEN secondary \cup {got.addr} ELSE secondary

\* Fault: the new address is not told from the old ones.
ReplaceAddrSparesNone ==
    /\ pc = "replace"
    /\ addrs' = addrs \cup {got.addr}
    /\ secondary' = Secondaries
    /\ old' = addrs'
    /\ pc' = "delete"
    /\ UNCHANGED <<process, got, failed, hostRoutes, default, lan, uplink, ruleset,
                   input, peer, failures>>

\* AddrReplace, and AddrList.
ReplaceAddr ==
    /\ pc = "replace"
    /\ addrs' = addrs \cup {got.addr}
    /\ secondary' = Secondaries
    /\ old' = addrs' \ {got.addr}
    /\ pc' = "delete"
    /\ UNCHANGED <<process, got, failed, hostRoutes, default, lan, uplink, ruleset,
                   input, peer, failures>>

\* External: what the kernel deletes with an address, its secondaries, as long as
\* nobody sets promote_secondaries.
Gone(a) ==
    {a} \cup {b \in secondary : a \notin secondary /\ Subnet[b] = Subnet[a]}

\* AddrList returns the secondary addresses last.
OnlySecondaries == old \cap addrs \subseteq secondary

\* AddrDel of one address; the kernel drops the routes that have a source no more.
DeleteAddr ==
    /\ pc = "delete"
    /\ \E a \in old \cap addrs :
         /\ a \notin secondary \/ OnlySecondaries
         /\ addrs' = addrs \ Gone(a)
         /\ secondary' = secondary \ Gone(a)
         /\ old' = old \ {a}
         /\ hostRoutes' = {l \in hostRoutes : l.addr \notin Gone(a)}
         /\ default' = IF default # None /\ default.addr \in Gone(a) THEN None ELSE default
    /\ UNCHANGED <<pc, process, got, failed, lan, uplink, ruleset, input, peer, failures>>

\* An address to delete, or the one that is the source of the routes to come, has
\* gone with an address deleted before: the next call fails.
AddrMissing ==
    /\ pc = "delete"
    /\ OnlySecondaries
    /\ old \ addrs # {} \/ (old = {} /\ got.addr \notin addrs)
    /\ failed' = TRUE
    /\ old' = {}
    /\ pc' = "dhcp6"
    /\ UNCHANGED <<process, got, kernel, input, peer, failures>>

\* Fault: a route from the same address is taken for the one wanted.
RouteRouterOnce ==
    /\ pc = "delete"
    /\ old = {} /\ got.addr \in addrs
    /\ hostRoutes' = IF \E l \in hostRoutes : l.addr = got.addr THEN hostRoutes ELSE {got}
    /\ pc' = "default"
    /\ UNCHANGED <<process, local, addrs, secondary, default, lan, uplink, ruleset,
                   input, peer, failures>>

\* RouteReplace(router): of the routes to one router the last remains.
RouteRouter ==
    /\ pc = "delete"
    /\ old = {} /\ got.addr \in addrs
    /\ hostRoutes' = {l \in hostRoutes : l.router # got.router} \cup {got}
    /\ pc' = "default"
    /\ UNCHANGED <<process, local, addrs, secondary, default, lan, uplink, ruleset,
                   input, peer, failures>>

RouteDefault ==
    /\ pc = "default"
    /\ default' = got
    /\ pc' = "dhcp6"
    /\ UNCHANGED <<process, local, addrs, secondary, hostRoutes, lan, uplink, ruleset,
                   input, peer, failures>>

\* A call of applyDhcp4 fails: the error is kept, and Apply goes on.
ApplyDhcp4Fails ==
    /\ failures < MaxFailures /\ failures' = failures + 1
    /\ pc \in {"dhcp4", "replace", "delete", "default"}
    /\ failed' = TRUE
    /\ old' = {}
    /\ pc' = "dhcp6"
    /\ UNCHANGED <<process, got, kernel, input, peer>>

\* What follows each of the steps after applyDhcp4, whether it fails or not.
Then == [dhcp6 |-> "sysctl", sysctl |-> "firewall", firewall |-> "wireguard",
         wireguard |-> "return"]

\* An error of one of them is kept, and Apply goes on.
StepFails ==
    /\ failures < MaxFailures /\ failures' = failures + 1
    /\ pc \in DOMAIN Then
    /\ failed' = TRUE
    /\ pc' = Then[pc]
    /\ UNCHANGED <<process, got, old, kernel, input, peer>>

\* The prefix read from the file is added to lan0; none is ever removed.
ApplyDhcp6 ==
    /\ pc = "dhcp6"
    /\ lan' = lan \cup ({file["dhcp6"]} \ {None})
    /\ pc' = Then[pc]
    /\ UNCHANGED <<process, local, uplinkNet, uplink, ruleset, input, peer, failures>>

\* applySysctl and applyWireGuard, whose effects are not kept.
ApplyUnseen ==
    /\ pc \in {"sysctl", "wireguard"}
    /\ pc' = Then[pc]
    /\ UNCHANGED <<process, local, kernel, input, peer, failures>>

\* Fault: the old rules are flushed first.
ApplyFirewallFlushes ==
    /\ pc = "firewall"
    /\ ruleset' = IF ~forwards THEN None ELSE IF uplink = None THEN "" ELSE uplink
    /\ failed' = (failed \/ ~forwards)
    /\ pc' = Then[pc]
    /\ UNCHANGED <<process, got, old, uplinkNet, lan, uplink, input, peer, failures>>

\* applyFirewall replaces the ruleset in one transaction, with rules for the
\* interface uplinkInterface finds; a mistake in portforwardings.json ends it
\* before anything is sent.
ApplyFirewall ==
    /\ pc = "firewall"
    /\ ruleset' = IF ~forwards THEN ruleset ELSE IF uplink = None THEN "" ELSE uplink
    /\ failed' = (failed \/ ~forwards)
    /\ pc' = Then[pc]
    /\ UNCHANGED <<process, got, old, uplinkNet, lan, uplink, input, peer, failures>>

-----------------------------------------------------------------------------
(* Crashes and the supervisor *)

Crash ==
    /\ failures < MaxFailures /\ failures' = failures + 1
    /\ pc \notin {"exited", "crashed"}
    /\ pc' = "crashed"
    /\ UNCHANGED <<process, local, kernel, input, peer>>

Supervise ==
    /\ pc \in {"exited", "crashed"}
    /\ pc' = "start"
    /\ subscribed' = FALSE /\ ch' = FALSE /\ listening' = {}
    /\ got' = None /\ old' = {} /\ failed' = FALSE
    /\ UNCHANGED <<kernel, input, peer, failures>>

-----------------------------------------------------------------------------
(* External: the writers of the leases, dhcp4d, the operator, the hardware *)

WriteLease(w) ==
    /\ writes < MaxWrites /\ writes' = writes + 1
    /\ writer[w] \in {"obtain", "idle"}
    /\ \E l \in IF w = "dhcp4" THEN Leases ELSE Prefixes : file' = [file EXCEPT ![w] = l]
    /\ writer' = [writer EXCEPT ![w] = "signal"]
    /\ UNCHANGED <<pc, process, local, kernel, forwards, peer, failures>>

\* The signal: it is lost on a process that has not subscribed.
SignalNetconfigd(w) ==
    /\ writer[w] = "signal"
    /\ ch' = (ch \/ subscribed)
    /\ writer' = [writer EXCEPT ![w] = "idle"]
    /\ UNCHANGED <<pc, subscribed, listening, local, kernel, forwards, file, writes,
                   peer, failures>>

\* The writer crashes before it has signalled, and obtains a lease again.
WriterCrash(w) ==
    /\ failures < MaxFailures /\ failures' = failures + 1
    /\ writer[w] = "signal"
    /\ writer' = [writer EXCEPT ![w] = "obtain"]
    /\ UNCHANGED <<pc, process, local, kernel, forwards, file, writes, peer>>

Dhcp4dListens ==
    /\ signalled
    /\ signalled' = FALSE
    /\ seen' = Private
    /\ UNCHANGED <<pc, process, local, kernel, input, failures>>

\* The operator corrects or breaks portforwardings.json.
EditForwards ==
    /\ failures < MaxFailures /\ failures' = failures + 1
    /\ forwards' = ~forwards
    /\ UNCHANGED <<pc, process, local, kernel, file, writer, writes, peer>>

LinkAppears ==
    /\ uplink = None
    /\ uplink' = "eth0"
    /\ UNCHANGED <<pc, process, local, uplinkNet, lan, ruleset, input, peer, failures>>

Apply ==
    \/ ApplyInterfaces \/ ApplyInterfacesFails
    \/ SkipDhcp4 \/ ReadLease4 \/ ReplaceAddr \/ DeleteAddr \/ AddrMissing
    \/ RouteRouter \/ RouteDefault \/ ApplyDhcp4Fails
    \/ ApplyDhcp6 \/ ApplyUnseen \/ ApplyFirewall \/ StepFails

Environment ==
    \/ \E w \in Writers : WriteLease(w) \/ SignalNetconfigd(w) \/ WriterCrash(w)
    \/ Dhcp4dListens \/ EditForwards \/ LinkAppears

Next == Start \/ Wake \/ Return \/ Apply \/ Crash \/ Supervise \/ Environment

Spec == Init /\ [][Next]_vars

\* The process runs and is supervised, its system calls return, and the signals
\* and the link's driver arrive.
Fairness ==
    /\ WF_vars(Start \/ Wake \/ Return \/ Apply \/ Supervise)
    /\ \A w \in Writers : WF_vars(SignalNetconfigd(w))
    /\ WF_vars(Dhcp4dListens) /\ WF_vars(LinkAppears)

FairSpec == Spec /\ Fairness

-----------------------------------------------------------------------------
(* Correctness *)

Addrs == {l.addr : l \in Leases}

TypeOK ==
    /\ pc \in {"start", "interfaces", "dhcp4", "replace", "delete", "default", "dhcp6",
               "sysctl", "firewall", "wireguard", "return", "wait", "exited", "crashed"}
    /\ subscribed \in BOOLEAN /\ ch \in BOOLEAN /\ failed \in BOOLEAN
    /\ signalled \in BOOLEAN /\ forwards \in BOOLEAN
    /\ got \in Leases \cup {None} /\ default \in Leases \cup {None}
    /\ hostRoutes \subseteq Leases
    /\ old \subseteq Addrs /\ addrs \subseteq Addrs /\ secondary \subseteq addrs
    /\ lan \subseteq Prefixes \cup {Static}
    /\ seen \subseteq Prefixes \cup {Static} /\ listening \subseteq Prefixes \cup {Static}
    /\ uplink \in {None, "eth0", "uplink0"}
    /\ ruleset \in {None, "", "eth0", "uplink0"}
    /\ file \in [Writers -> Leases \cup Prefixes \cup {None}]
    /\ file["dhcp4"] \in Leases \cup {None} /\ file["dhcp6"] \in Prefixes \cup {None}
    /\ writer \in [Writers -> {"obtain", "signal", "idle"}]
    /\ writes \in 0 .. MaxWrites /\ failures \in 0 .. MaxFailures

\* No lease is overlooked.  When netconfigd waits with no signal pending, and the
\* writer of a lease has signalled, the kernel has what its file says: the uplink
\* the one address, the default route and a ruleset for it; lan0 the prefix.
LeaseInForce ==
    (pc = "wait" /\ ~ch) =>
        /\ writer["dhcp4"] = "idle" =>
             LET l == file["dhcp4"]
             IN  /\ addrs = {l.addr} /\ default = l /\ l \in hostRoutes
                 /\ ruleset = "uplink0"
        /\ writer["dhcp6"] = "idle" => file["dhcp6"] \in lan

\* The default route always leaves from an address of the uplink through a
\* router there is a route to, at whatever call the last Apply ended.
DefaultRouteUsable ==
    default # None =>
        /\ default.addr \in addrs
        /\ \E l \in hostRoutes : l.router = default.router

\* When netconfigd waits or has ended on an error, dhcp4d has read the addresses
\* it left behind or will: Apply may have changed them before it failed.
ListenersNotified == pc \in {"wait", "exited"} => signalled \/ seen = Private

\* Apply does not interrupt the uplink when it applies the lease in force again: at
\* no call does that lose its address or the default route.  Of another lease the
\* address is lost only when an old one of the same subnet is deleted after it.
UplinkKept ==
    [][ /\ got # None /\ default = got => default' = got /\ got.addr \in addrs'
        /\ got # None /\ got.addr \in addrs \ addrs' =>
             \E a \in addrs \ {got.addr} : Subnet[a] = Subnet[got.addr] ]_vars

\* No error and no restart takes the ruleset away, or replaces one that has rules
\* for uplink0 by one that has not, although each Apply looks for the uplink anew.
RulesetKept ==
    [][ /\ ruleset # None => ruleset' # None
        /\ ruleset = "uplink0" => ruleset' = "uplink0" ]_vars

\* A lease that is not replaced, and of which its writer has signalled, is in
\* force from some time on, through failed calls, crashes and lost signals.
LeaseApplied ==
    \A l \in {m \in Leases : m.mask} :
        <>[](file["dhcp4"] = l /\ writer["dhcp4"] = "idle") => <>[](addrs = {l.addr} /\ default = l)
=============================================================================
