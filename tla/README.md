# A verification project for rout5

rout5 is a router assembled from small supervised processes. This directory
holds TLA+ modules of its stateful parts, TLC configurations that check them on
small instances, and TLAPS proofs of all safety properties that the passing runs
check, for every value of the constants. Line numbers refer to the files under `src/` of
this commit.

## The system

The router's processes are started and, when they end, started again by gokrazy.
They talk through files under `/perm` and through signals, which the package
`ipc` is meant to carry.

| Component | State | Operations | Hard parts |
| --- | --- | --- | --- |
| `dhcp/dhcp4d` Handler | `leasesHW`, `leasesIP`, under `leasesMu` | DISCOVER, REQUEST, DECLINE, `SetHostname`, `SetLeases` | a REQUEST is several critical sections with unlocked reads in between; the index is never cleaned |
| `cmd/dhcp4d` | published leases, `leases.json`, gauge, `errs` | Leases callback, web pages, restart | failed writes, restarts, what clients still use |
| `multilisten` Pool | map of listeners | `ListenAndServe`, ends of listeners | late goroutines of dead listeners; captured's listener cannot be closed before it listens |
| `dhcp/dhcp4`, `cmd/dhcp4` | `Ack`, health counter, two files of which it reads none | obtain, renew, release | lost, late and duplicated replies, starts without the lease the provider still knows of, the provider changes |
| `dhcp/dhcp6`, `cmd/dhcp6` | `advertise`, `cfg`, one file | solicit, request, release | several servers, late and duplicated replies, leases without prefixes |
| `cmd/netconfigd`, `netconfig` | none but the kernel's | `Apply`: addresses, routes, sysctls, ruleset | partial failure, what the kernel deletes along with an address, signals that arrive meanwhile, restarts |
| links and bridges (`netconfig`) | names, hardware and IP addresses of links, in the kernel | `applyBridges`, `applyInterfaces`, `applyWireGuard` | links are found by what earlier runs, finished or not, have changed |
| nftables counters (same processes) | metric, kernel counter | scrape, replacement of the ruleset | scrapes that overlap each other and a replacement |
| `cmd/captured` | ring buffer, sessions | capture, replay, stream | sessions that join while packets flow |
| `util/oui` | map, `loaded`, `err`, a file | `update`, `WaitUntilLoaded` | bad files, restarts, wake-ups |
| `diag`, `cmd/diagd` | none | evaluate a tree of probes | none beyond I/O |
| `ipc`, `networking`, `config`, `db`, `logging` | – | wrappers, queries, stubs | – |

How they interact: `dhcp4` and `dhcp6` write a lease and signal `netconfigd`,
which applies the files and signals `dhcp4d`, `diagd` and `captured`; those update their
listeners. The web interface of `dhcp4d` calls `SetHostname` in goroutines of
its own, while one goroutine serves packets. `dhcp4` asks `diagd` for the
router's health.

What makes each correct: no address has two users and nobody loses a lease but
by time or by its own act (server); the lease taken over is the one asked for,
and it is given up when and only when it must be (clients); the kernel ends up
as the files say, and is usable at every call before (netconfigd); no link gets
what is meant for another, and a second run changes nothing (links); packets are
counted once (counters), sent once and in order (captured); a wanted address
is listened on (pool); waiting callers return and lookups are up to date (oui).

`PROJECT.json` lists the hazards line by line, with the properties aimed at each.

## Modules

| Module | Models | Composes |
| --- | --- | --- |
| `LeaseAllocator` | what the server promises about its addresses (abstract) | |
| `LeaseHandler` | `dhcp/dhcp4d` | refines `LeaseAllocator` |
| `Dhcp4Server` | `cmd/dhcp4d`, its clients, the LAN, restarts | extends `LeaseHandler` |
| `ListenerPool` | `multilisten`, the listeners of `cmd/captured` | |
| `Dhcp4Client` | `dhcp/dhcp4`, `cmd/dhcp4`, the provider | |
| `Dhcp6Client` | `dhcp/dhcp6`, `cmd/dhcp6`, the servers | |
| `Netconfigd` | `cmd/netconfigd`, `netconfig.Apply`, the writers of leases, `dhcp4d` as a listener | |
| `LinkConfig` | `applyBridges`, `applyInterfaces`, `applyWireGuard` | |
| `FwCounters` | `updateCounter`, `getCounterObj`, `Flush` | |
| `Captured` | `cmd/captured` | |
| `OuiDB` | `util/oui` | |
| `M_proofs`, for `M` among `Dhcp4Client`, `Dhcp6Client`, `Netconfigd`, `LinkConfig`, `FwCounters`, `OuiDB` | proofs | extends `M` |
| `Dhcp4Server_proofs` | proofs about `LeaseHandler`, then about `Dhcp4Server` | extends `Dhcp4Server` |
| `Captured_proofs` | proofs about `Captured`, and about `ListenerPool` | extends both |

`MCx` gives `x` its constants. An operator named after a definition with a
suffix, preceded by a comment `Fault:`, is a plausible mistake in that
definition; no specification uses it. It is there to put in the definition's
place, and show that a property notices.

### LeaseHandler

The grain is the critical section of `Handler.leasesMu`. A DHCPREQUEST is a
sequence of steps, tracked by `pc`:

| Step | Code (`dhcp4d.go`) | Lock |
| --- | --- | --- |
| `RequestRefused`, `RequestChecked` | 322–338, `canLease` | held in `canLease` |
| `RequestLookup` | 340, `leaseHW` | held in `leaseHW` |
| `RequestRetain` | 341–345 | none |
| `TestOverride`, `CopyHost`, `CopyOverride` | 346, 347, 348 | none |
| `RequestRelease` | 352–354 | held |
| `RequestInsert` | 357–368 | held |

`SetHostname` writes two fields; it is two steps with `editing` set in between,
so that the unlocked reads of the other goroutine may see one written and the
other not, and `RacyRead` lets a string that is being written be read as
`Torn`. Steps that take the mutex require `editing = NoEdit`.
A DISCOVER reads the table twice and changes nothing; all it depends on is
written by its own goroutine, so it is one step. A DHCPREQUEST for
another server changes nothing and is a stutter. An expiry is a number on a
clock with `Permanent` for Go's zero time; `Expired` is strict, as `After` is.
A DECLINE sets the expiry to the present, whatever it was.

`findLease` draws a random number first and searches from 0 otherwise: any free
number may come, and `FindLease` is the set of them.

`LeaseAllocator` has an owner and an expiry per address, and the actions Load,
Release, Grant, Decline and Tick. `Owner` and `Expiry` are the refinement
mapping; hostnames, the index and the steps of a request disappear. The lookups
and copies are stutters, `RequestRelease` is Release, `RequestInsert` is Grant,
and `Grant` requires what the code checked several steps before.

### Dhcp4Server

The Leases callback writes `leases.json` and sets the gauge with `leasesMu`
held (`Written`), or fails and sends on `errs` (`WriteFailed`): the process will end, and
meanwhile the DHCPACK may go out or not. `Restart` starts it again from an
empty table, because `newSrv` never calls `SetLeases` (the action `SetLeases`
of `LeaseHandler` is the library's, and takes no part here).
A client counts its lease from the moment of its request: `held[h].until` is at
most the server's expiry. It loses its address when it asks for another one,
is refused or declines, and keeps it while it renews. DHCPACKs are delayed and
lost; messages of one client are not reordered. The hostname of a request of
the web interface is not empty (`http.go`, 85–89).

### ListenerPool

The names of its specification have the prefix `Pool`, so that one module can extend it
and another component. `ListenAndServe` holds the pool's mutex throughout and is one action; the end
of a listener (`Return`) and the deletion of its entry by host (`Reap`) are two,
and others come in between. An address can be bound when no
running listener has it. In captured (`ssh`) `Close` dereferences the `net.Listener` that
its goroutine sets, without synchronisation, once it listens
(`cmd/captured/ssh.go`, 160–164, 190): closing a listener that has not listened yet
or never could takes the process with it (`ClosePanics`), and the supervisor starts it
anew with the addresses of the moment; as the field is read in a data race, a
listener that does run may look the same.

### Dhcp4Client

`pc` follows `ObtainOrRenew` and the two nested loops of `cmd/dhcp4`. Deadlines,
waits and RenewAfter are not clocked: they may end at any time. Replies stay in a
set, `toClient`, and may be read any number of times (duplicates), in any order,
or never. A new transaction id is one that is not on its way; the renewal uses
the one of the DHCPACK, as `last.Xid` does. A panic and a failed system call end the
process (`Stop`), the supervisor starts it again, and exit status 125 ends supervision.

Every process starts without a DHCPACK (`Start`). The one it looks for (lines 111–120) is
in the key-value store, under a key that nobody writes. The file at `ackFn` is written after each exchange (159) and
removed with the lease (196), and no code reads it: it is here as `ackFile`, whether there is one, because writing
and removing it can fail, which ends the process. Nothing else depends on it.

### Dhcp6Client

`pc` follows `solicit`, `request` and `sendReceive` inside `ObtainOrRenew`, and the loop of
`cmd/dhcp6`. Unlike in the DHCPv4 client every renewal starts from a SOLICIT, every
message has a transaction id of its own, and any of the servers may
answer a SOLICIT. `sendReceive` skips what has another id or type (`Acceptable`); of a
RELEASE's answer only the id counts. Of a lease the model keeps its prefixes and whether
RenewAfter lies ahead (`pause`): a reply without IA_PD leaves it at the zero time
(`dhcp6.go`, 282), and then `time.After` fires at once. `grantor` and `waited` are
history. A refused ADVERTISE is a permanent error, and the process ends; so it does
when a RELEASE is not answered, and its successor obtains a lease again.
After a RELEASE that is answered `lease.json` stays as it is.

### Netconfigd

Every system call of `applyDhcp4` is an action, and each may fail
(`ApplyDhcp4Fails`), as may the other steps of `Apply`, which come one after the other
whether they fail or not (`Then`, `StepFails`).

External: the kernel
drops the routes that have a deleted address as source, and keeps one route per
destination. An address that is added to a subnet in which the link has one already is a
secondary (`secondary`, over the constant `Subnet`), and deleting the other one deletes it too (`Gone`),
because `promote_secondaries` is 0 by default and neither `applySysctl` nor other code sets it.
The new lease's address is added (line 99) before the old ones are deleted (113), so a lease with
another address of the same subnet loses its address in the middle of `applyDhcp4`: the route to the router, whose source
it is, cannot be set (`AddrMissing`), `Apply` returns an error, netconfigd ends, and the next one adds the address
to a link that has none. `UplinkKept` says that this is the only way to lose an address and that
the lease in force never does; `LeaseApplied` that it ends well. `AddrList` returns secondaries last
(`OnlySecondaries`).

A signal reaches a subscriber only, and a pending one absorbs
another: `signal.Notify` with a channel of capacity one, which is what the
callers of the stub `ipc.Notify` allocate and must be able to rely on.
`ApplyInterfaces` keeps the outcome only, which is `LinkConfig`'s subject: lan0 has
its address and the uplink its name, some of both when it fails. `applySysctl` and
WireGuard have no effect here and can fail (`ApplyUnseen`). `dhcp4d` is taken as always subscribed: the window at its start
between its own `updateListeners` and its `Notify` (`cmd/dhcp4d/dhcp4d.go`, 212–217), in which
a signal would be lost on it, is not modelled.

### LinkConfig

One action per link that `applyBridges` or `applyInterfaces` comes to, over the snapshot
that `LinkList` returned (`todo`); a failed call is the same action cut off after any
of its calls (`After`), an error of `applyBridges` is only logged and one of
`applyInterfaces` ends `Apply` and netconfigd. External: the kernel gives a new
link the first free of its names, refuses a name that is taken, and gives a bridge
the address of a member. `listed`, `settled` and `logged` are history.

Which configurations the code serves is `ConfigAssumption`: no two entries have one
name, one hardware address, or give one address to their links; physical links, bridges and tunnels
do not share names, and a link is a member of one bridge; what the links are spoofed as is no
link's own address; a member of a bridge has
no entry by address, because the bridge has that address too and would be renamed (lines 273
and 344); and an entry by address whose name the kernel may give to another link
has no IP address, because a link that no entry speaks of is looked up
by name (346) and would get it. Such an entry (`Clash` in `MCLinkConfig`) can make
every `Apply` fail, since the name is taken (355): `ConfiguredAtLast` is about
configurations without one (`Fresh`). A tunnel is there only at the end of the
first `Apply` and gets its address in the second.

### FwCounters, Captured, OuiDB

`FwCounters` has two scrapers (the functions for packets and bytes share the
mutex and each resets the counter), the two halves of a replacement, `GetCounterObj`
and `Flush`, and restarts. Between the halves scrapes reset the counter and packets arrive: `taken` and `missed` are
history, and a `Flush` makes of them what is counted twice and what is dropped (`doubled`, `lost`).
`CountedOnce` is the balance. `Captured` has a queue per open handle; opening the
handles of a session and copying the buffer happen under its mutex. `container/ring` is a function on
`Slots` with the place `r` points to, and `Collected` is the loop of `packetsLocked` over it. `OuiDB`
distinguishes files that load, files for which `load` returns an error, and
files for which it panics, and a file's time (`mtime`) from its version: they differ when
the answer has no Last-Modified that can be parsed or `Chtimes` fails, which is only logged (lines 134–138). The next
request asks for what is newer than that time, so `UpToDate` promises the answered version for
files that have their version's time, and otherwise that lookups are answered from the file.

## Runs

| Run | Expect | Shows |
| --- | --- | --- |
| `MCLeaseHandler` | pass | the safety of the lease table and the refinement, 3 clients on 2 addresses |
| `MCLeaseHandler_exhausted` | violation | see Findings |
| `MCDhcp4Server` | pass | no shared address in one run of the process; memory, disk and gauge follow the clients |
| `MCListenerPool` | pass | no dead entry; wanted hosts are listened on again |
| `MCDhcp4Client` | pass | the DHCPACK taken over answers the request; a process does not forget its lease without reason; bound again and again |
| `MCDhcp6Client` | pass | a RELEASE finds the lease's server; the file has the last lease; SOLICITs are paced; bound again and again |
| `MCNetconfigd` | pass | no lease is overlooked; the lease in force is kept at every call, and so is the ruleset; a lease that stays is applied in the end |
| `MCLinkConfig` | pass | no link gets what is another's; an `Apply` without error leaves its links as configured and the next one changes nothing; configured at last |
| `MCFwCounters` | pass | counted once, up to what a replacement and a scrape or a packet do to each other; the metric never decreases |
| `MCOuiDB` | pass | lookups are up to date; waiters return |
| `MCOuiDB_corrupted` | violation | see Findings |
| `MCCaptured` | pass | latest packets, each once, in order, and delivered |

The type invariants of `LinkConfig` and `Captured`, which say more than types, are checked by their
runs too; those of the other modules are proved, and their runs leave them out.

Bounds, and why they are enough:

* Pool: two addresses and three clients are the least with a client that has
  none and another whose index entry leads to a number taken by somebody
  else; periods of 1 and 2 (`quirks.go`) on a clock of 3 let leases expire, be
  renewed in time and too late, and be given away. The preloaded table has a permanent
  and an expired lease. `Torn` is a name of its own, so a torn read is told
  apart from both values.
* Server: two clients, two addresses, one restart, a clock of 4 and a hostname that
  one of the clients may be given: a lease is renewed, moved to the other
  address, named in the gap of its renewal, left to expire and given away. The
  `VIEW` identifies states with the same future; what it leaves out, and
  why, is said in `MCDhcp4Server`. The proofs cover all sizes.
* Pool of listeners: two hosts, three listeners: the dead one of a host, its
  successor, and one of another host.
* DHCPv4 client: one change of the provider and one crash or failed call.
  `UnhealthyLimit` is 2 in place of 20. One reply to an earlier message is on its way besides the current one (`MaxLate`), and one that
  was not read yet is read late or twice, in later exchanges too; four transaction ids are the least that
  leave a new one. The proofs are for any of these.
* DHCPv6 client: two servers, so that a lease may come from the other one than before, one
  late message besides the current one, leases with prefixes and without, one
  refusal, failed write or crash.
* Links: two physical links, a bridge with both, with one, or none, one tunnel, two
  failed calls or crashes, so that a run starts from what two others left halfway. The
  configurations are those of `integration/netconfig/netconfig_test.go` cut down to
  these links, and two in which an address or a name may be mistaken.
* Netconfigd: five leases (same address, another one of the same subnet, or of another; same or other router; no
  mask) and three writes, so that a lease is replaced while it is applied and
  signals merge; one failure or crash, anywhere.
* Counters: 4 packets, 3 replacements, 2 failures, 2 scrapers. Captured: a
  ring of 2 that wraps, 4 packets, one session, which meets the capture at the
  mutex; two sessions share nothing else. OuiDB: 2 versions, 3 failures,
  so that a bad file survives a restart.

Deadlock is checked except where the system may rest: netconfigd waits for
signals that nobody sends once the bounds are used up; dhcp4 and dhcp6 end supervision
with status 125; a capture whose packets have all arrived; an update of the
registry that is over. Symmetry is used for `MCFwCounters`, a run without liveness whose
scrapers are interchangeable.

## Fairness

* The mutex of captured: `sync.Mutex` hands itself to a waiter that
  starves (1 ms), so steps that take it are strongly fair, as are the sends on a
  channel. Unlocked steps are weakly fair: the goroutine runs.
* Pool: an old listener that was closed returns, its goroutine goes on, the addresses
  are announced again and again (SIGUSR1), and an address that is there can be bound at last.
  Nothing is assumed about listeners that die.
* DHCPv4 client: timers fire and the process runs and is supervised. The network may
  lose any message, but of what is sent again and again in a state of the
  exchange it carries one, with its answer, in time: strong fairness of the
  answer to each kind of wait, and of accepting it. Nothing forces the provider
  to change or the process to crash.
* DHCPv6 client: likewise; some server answers, not always the same one.
* Links: netconfigd runs, is supervised and is signalled again and again (every renewed
  lease does that), and the drivers of the physical links come up.
* Netconfigd: its calls return (with a result or an error), the supervisor
  restarts it, pending signals arrive, the uplink's driver comes up.
* OuiDB: the request ends, with an answer or an error.

## Proofs

The first part of `Dhcp4Server_proofs` proves about `LeaseHandler`, for every number of clients and addresses, all
periods, names and preloaded tables that satisfy the named assumptions:

* `Invariance`: `IInv`, the conjunction of `TypeOK`, `IndexConsistent`,
  `CheckStillValid`, `OldLeaseKept` and `NoInheritance`, is inductive. None is
  inductive alone: that the index of a lease's client points to it
  (`IndexConsistent`) survives an insertion only because the client's old lease
  is gone by then (`OldLeaseKept`, second part) and because the number was free
  or the client's own (`CheckStillValid`); the latter survives the sections in
  between because only the packet goroutine changes who has what, and only
  for the client of the request.
  From it follow the theorems of those names' properties.
* `OffersSafe`, `LeasesNotTaken`: what a step may offer and what it may
  change, from the same invariant.
* `HandlerImplementsAllocator`: the initial state maps to one of the allocator,
  and every step to one of its steps or to a stutter. The guard of `Grant` is
  `CheckStillValid`; "keeps no other" is `OldLeaseKept`.
  `OneAddressPromised`: what implements the allocator gives a client one address at most.

Its second part proves `NoAddressShared` and `HoldersRecorded` with the
inductive invariant `SInv`: `IInv`; every address in use or on its way to its user (`Claims`) is
backed by an entry that lasts as long, or by the gap of its renewal (`AllBacked`);
claims reach at most a period ahead and come from no later run (`Bounded`); the
client of the request under way has no claim but to what it renews
(`Renewing`); and claims of one run on one number are of one client
(`Disjoint`), which `AllBacked` alone cannot give for earlier runs.

`ProcessInvariance` adds the process: `PInv` is `SInv`, the types of disk and gauge, and
two facts of which neither needs the other. `OnDisk`: what is claimed is in
`leases.json` under the same client. `GaugeNotLow`: the gauge is not below the number of leases
that run, which a step without a callback can only lower. Lemma `StepKinds` sorts the steps by what they do
to the table: write it through the callback, fail to, restart, or let nothing new run.
`ServerTypeCorrect`, `HoldersOnDisk` and `GaugeIsNotLow` follow.

The other proof modules are each about one component, for every value of its constants:

* `LinkConfig_proofs`: `LInv`, for any configurations, names, links, failures and crashes.
  - `Told` says what a link's record tells of the entry that is about it (`Meant`): its name is the one it was
    born with or that of the entry which has its address; its address is its own, one it was given, or, of a bridge,
    a member's; its IP addresses are given by its entry. It is kept only because a link is found by its
    own entry in whatever state an earlier run has left it (lemma `MeantFound`).
    `LinksAsMeant` follows.
  - `ListTrue`: the snapshot that `Apply` works on still shows the links that it has
    not come to, but for the address of the bridge that it is filling.
  - `DoneSoFar`: the links that this `Apply` has come to are as their entries say, so
    all are when it ends without error: `DoneMeansConfigured`.
  - `Settling` and `Settled`: what the next `Apply` would find done. An `Apply` that sees all links and logs nothing
    leaves every member in its bridge and up (`BridgeDone`), every link such that its entry changes nothing
    (`LinkDone`), and every tunnel there (`TunnelDone`); and none of the calls of a later run
    changes a link of which that is so. `SettledStays` is a property of steps from it.
* `Captured_proofs`, first part: another `CInv`, for any number of slots, interfaces, sessions and packets.
  - `RingTrue`: the slots from where `r` points to hold the latest packets, the oldest first.
    `WritePacket` overwrites the first and steps over it, which makes it the last (`WritePacketRing`).
    That the loop of `packetsLocked` then returns them (`CollectedIs`) is shown by
    a least slot at which it would not; no induction theorem is needed. `BufferIsLatest` follows.
  - `RingOrder` and `SessionOrder`: the packets of an interface are in order along each of two
    chains: the ring, what `logic` holds and the queues on its handles; and what a session was sent, what it
    replays and the queues on its own. They meet in `Copy`, where the second gets a part of the first: `LockTrue` says
    that while a session holds the lock, what is in the ring came before what is on its handles. It does because the
    lock is taken before the first handle is opened and nothing is written until the copy.
    `SentInOrder` follows.
* `Captured_proofs`, second part: `EntriesLive` is inductive with the type invariant. It says that
  an entry's listener was made for the entry's host, so a goroutine
  that deletes by host before its listener is used again leaves no
  entry for that listener.
* `Dhcp4Client_proofs`: `KInv`. The heart is `OneStory`: every DHCPREQUEST and DHCPACK under one
  transaction id, sent, on its way or kept, speaks of one
  address of one server. A renewal reuses the id and asks for the same; a DISCOVER takes a new
  id, and there is one because few messages are late (`Few`). `AckAnswersRequest`
  follows with where the exchange is (`Asking`, `Writing`); `ForgottenForAReason`
  is a property of steps from it.
* `Dhcp6Client_proofs`: `DInv`. A REPLY under the id being answered is a lease of the server
  that was asked (`Answers`), ids being new (`Few`, `Asking`); so the lease
  and the ADVERTISE that is kept are of one server.
* `Netconfigd_proofs`: `NInv`. `Routes`: every route leaves from an address of the uplink, the default route from
  one that is no secondary, so that no deletion but its own takes it away, and, while a
  lease is applied, what is still to be deleted is all but its address; `InForce4` and `InForce6`: at
  every call of `Apply`, what it has done so far is in force for the lease on file, unless
  a signal is pending or still to be sent or this `Apply` has failed; `NamedUplink`: rules for uplink0
  are in the ruleset only once the link has that name, which it keeps; `Subscribed` and `ListenersNotified`.
  From it come `LeaseInForce`, `DefaultRouteUsable`, `UplinkKept`, `RulesetKept`.
* `FwCounters_proofs`: `CInv`. What `applyFirewall` will write back, with what it has missed, is what is in the
  kernel, with what scrapes have taken since (`WindowTrue`): this is how far a `Flush` shifts the balance;
  a scraper exports at most the metric (`ReportedKnown`).
* `OuiDB_proofs`: `OInv`. The header is sent with the map it tells the age of (`HeaderLoaded`), what is
  stored is the answer (`AnswerStored`), no file has a version ahead of the server's (`NotAhead`), no error and `loaded` mean a map (`LoadedHasMap`).

The assumptions are those that the modules name: in `LeaseHandler` the pool is not empty and periods are
positive (`PoolAssumption`), names and overrides are typed (`NamesAssumption`), preloaded
tables are such as `callLeasesLocked` published (`TableAssumption`); `ConfigAssumption`, above, says which
configurations `LinkConfig` is about; the ring of `Captured` has a slot (`CapturedAssumption`); bounds are natural numbers,
`None` and, in `ListenerPool`, `Nothing` (`ListenersAssumption`) are no other value, and there are more transaction ids than can be in
use at a time (`ClientAssumption`, `Dhcp6Assumption`): a 32-bit (24-bit in DHCPv6) random number,
for which a collision with a late message is left out.

Only model-checked: the liveness properties (`ListensAgain`, `LeaseAgain`, `BoundAgain`,
`LeaseApplied`, `ConfiguredAtLast`, `WaitReturns`, `Delivered`), since liveness under fairness
and `ENABLED` are beyond the prover. The two findings are counterexamples of TLC.

## Findings

Runs that expect a violation check a sentence of the code's comments or messages,
which `PROJECT.json` quotes.

| Run | What the code does |
| --- | --- |
| `MCLeaseHandler_exhausted` | `findLease` counts expired leases as used: a full table refuses newcomers for ever |
| `MCOuiDB_corrupted` | a file without records makes every start panic |

The models follow the code in the following too, and the properties are stated so
that they hold in spite of it:

* Leases are written to `leases.json` and never loaded (`newSrv`, `SetLeases`):
  `NoTwoHolders` speaks of one run of the process.
* A declined address is only expired, and may be offered to the same client
  again (`dhcp4d.go:398`; the test at `dhcp4d_test.go:552` passes by the random
  number).
* `SetHostname` dereferences nil for a client without lease (`SetHostnamePanics`),
  and a hostname set during a renewal is lost or torn (`RacyRead`).
* The gauge keeps leases that have expired: `GaugeNotLow` is one-sided.
* A reset of the counter between `getCounterObj` and `Flush` is undone, so its
  packets are counted twice, and packets forwarded in between are dropped: `CountedOnce` says how many.
* The comment at `cmd/dhcp4/dhcp4.go:194` has `dhcp4` start from scratch "by deleting the DHCPACK file"; as nothing reads that file, it
  starts from scratch after every end, with lease.json as it was and the provider still taking the address for leased:
  `ForgottenForAReason` is about a running process, and `LeaseAgain` holds for one that starts without a lease.
* A lease with another address of the same subnet makes `Apply` delete the address it has just added, fail, and
  netconfigd restart (`AddrMissing`): the uplink is without an address meanwhile.
* A stored registry whose time is that of its download stays, by a 304, until a version newer than that is published (`Store`).
* With a DHCPACK at hand, `dhcp4` requests from that server for ever; a server that
  is replaced by one with another identifier never hears from it, so `LeaseAgain` is
  checked for a server that gives out another address (`Renumbered`).
* At the limit of unhealthy cycles `dhcp4` drops the lease and waits on until
  RenewAfter; the limit is 20 where the messages say 5; a SIGUSR2 then makes it
  panic (`ReleasePanics`), and instead of staying away it starts again.
* The goroutine of a dead listener deletes an entry by host (`multilisten.go:66`), which may be
  its successor's; that one is then not closed when its host vanishes, although line 71
  logs it as gone. `EntriesLive` is about entries, and `ListensAgain` about hosts that stay.
* captured may end with its listeners when one of them is closed (`ClosePanics`);
  `ListensAgain` holds because it is started again.
* A packet that is on its way to the ring when a session takes the lock, or arrives before the session's
  handle is open, is neither replayed nor streamed to it: `SentInOrder` is about what is sent, and
  `Delivered` about what is on a handle of the session.
* A DHCPv6 reply without IA_PD empties `lease.json` and is renewed without pause
  (`Paced` names it); a released lease stays in `lease.json`.
* `applyBridges`' error is only logged: a bridge may be without members until the next signal,
  and `SettledStays` and `ConfiguredAtLast` say what holds then. Two entries that contest
  a name with the kernel can make every `Apply` fail (`Fresh`).
* Three commands do not compile at this commit: `cmd/dhcp4` uses `leasePath` and `ackFn`, which nothing
  declares; `cmd/dhcp6` calls `notify.Process` (line 79), which it does not import; and `cmd/dhcp4d/http.go:90`
  uses `handler`, which is local to `newSrv`. They are modelled as they read: two files, a signal, and the handler
  of `newSrv`.
* netconfigd updates its own listeners before `Apply` changes the addresses:
  `ListenersNotified` is about `dhcp4d`.

## Not modelled

* Packet formats, DHCP options that nothing depends on, HTML, logging.
* The web pages of `dhcp4d` that only read (`handleHome`, `/lease/`), and the process's
  `leasesMu` that they hold while they write to a browser (`http.go:37`): no server has a
  write timeout, so a browser that does not read holds up the Leases callback, and with it
  every DHCP client. The model's callback always returns.
* The values of DHCP options: that `dhcp4` keeps the mask, router or DNS of an earlier lease
  when a DHCPACK has none (`dhcp4.go:144`) is not seen in `Dhcp4Client`; `Netconfigd` takes
  any lease the file may hold.
* The expressions of the ruleset, the values of sysctls, keys and peers of WireGuard:
  outcome only.
* `diag` and `cmd/diagd`: the probes are I/O, and their tree is evaluated sequentially
  without state that lasts. `ipc`: stubs that do not compile at this commit
  (`NotifyAll` returns nothing); what the callers rely on is in `Netconfigd`.
  `networking`: queries of the kernel, inputs of the models. `db`: a key-value store of which only `DHCPMessages` is
  used, by `cmd/dhcp4`, and which nothing in `src/` writes to; `Dhcp4Client` starts as it does with the empty store.
  `config`, `logging`, `cmd/rout5` and the test support have no behaviour of their own.
* The ssh server of captured and a capture goroutine that ends on a read error.

## Plan

What could be added, in this order:

1. `Dhcp4Web`: the web pages with the process's `leasesMu`, nested in the handler's, and a
   browser that does not read.
2. `Uplink`: `Dhcp4Client`, `Dhcp6Client` and `Netconfigd` composed, with the fields of `cfg` that
   a lease leaves stale.
3. The read errors of captured's handles.
