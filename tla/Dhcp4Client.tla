----------------------------- MODULE Dhcp4Client -----------------------------
(***************************************************************************)
(* The uplink's DHCPv4 client: Client of package dhcp4 (ObtainOrRenew,     *)
(* dhcpRequest, Release) and the loop of cmd/dhcp4 around it, with the two *)
(* files it keeps, SIGUSR2, crashes and restarts by the supervisor.        *)
(*                                                                         *)
(* External: the provider's DHCP server, which may be replaced or given    *)
(* another address to hand out, and the network, which loses, delays,      *)
(* reorders and duplicates replies.  The client reads no clock that        *)
(* matters here: deadlines, waits and RenewAfter may end at any time.      *)
(***************************************************************************)
EXTENDS Naturals, FiniteSets

CONSTANTS
    Upstreams,        \* what the provider may run: records [id, ip]
    Xids,             \* transaction ids; more than can be in use at a time
    None,
    UnhealthyLimit,   \* the 20 of line 180
    MaxLate,          \* bound on the late replies that are still on their way
    MaxChanges,       \* bound on the changes of the provider's server
    MaxFailures       \* bound on the crashes and the failed system calls

IPs == {u.ip : u \in Upstreams}
Ids == {u.id : u \in Upstreams}

\* A message of the four-way exchange, as far as the client looks at it.
Msg == [type : {"discover", "request", "offer", "ack", "nak"},
        xid : Xids, ip : IPs \cup {None}, id : Ids \cup {None}]

ASSUME ClientAssumption ==
    /\ UnhealthyLimit \in Nat \ {0}
    /\ Cardinality(Xids) > MaxLate + 2
    /\ MaxLate \in Nat /\ MaxChanges \in Nat /\ MaxFailures \in Nat
    /\ \A u \in Upstreams : {"id", "ip"} = DOMAIN u
    /\ None \notin Msg

VARIABLES
    pc,          \* where the loop is
    ack,         \* Client.Ack
    asked,       \* the DHCPDISCOVER or DHCPREQUEST being answered
    unhealthy,   \* unhealthyCycles
    usr2,        \* a SIGUSR2 waits in the channel
    leaseFile,   \* the persisted lease, which netconfigd configures
    ackFile,     \* the DHCPACK is persisted, in a file that no process reads
    server,      \* external: the provider's server
    toServer,    \* the client's last message on its way, or None
    toClient,    \* replies on their way
    changes, failures

memory == <<ack, asked, unhealthy>>
files == <<leaseFile, ackFile>>
net == <<server, toServer, toClient, changes>>
vars == <<pc, memory, usr2, files, net, failures>>

Init ==
    /\ pc = "start"
    /\ ack = None /\ asked = None /\ unhealthy = 0
    /\ usr2 = FALSE
    /\ leaseFile = None /\ ackFile = FALSE
    /\ server \in Upstreams
    /\ toServer = None /\ toClient = {}
    /\ changes = 0 /\ failures = 0

-----------------------------------------------------------------------------
(* dhcpRequest and ObtainOrRenew *)

\* logic: every process starts without a DHCPACK.  It looks for one in the
\* database, where nobody stores one, and not in the file.
Start ==
    /\ pc = "start"
    /\ ack' = None
    /\ pc' = "obtain"
    /\ UNCHANGED <<asked, unhealthy, usr2, files, net, failures>>

Send(m) ==
    /\ toServer' = m
    /\ asked' = m
    /\ UNCHANGED <<server, toClient, changes>>

Request(a) == [type |-> "request", xid |-> a.xid, ip |-> a.ip, id |-> a.id]

\* With a DHCPACK at hand the client renews, under the xid of that DHCPACK.
SendRequest ==
    /\ pc = "obtain"
    /\ ack # None
    /\ Send(Request(ack))
    /\ pc' = "ackWait"
    /\ UNCHANGED <<ack, unhealthy, usr2, files, failures>>

\* A new id differs from those on their way; which of the others it is makes no
\* difference.
InUse == {m.xid : m \in toClient \cup ({toServer} \ {None})}
NewXid == CHOOSE x \in Xids : x \notin InUse

SendDiscover ==
    /\ pc = "obtain"
    /\ ack = None
    /\ Send([type |-> "discover", xid |-> NewXid, ip |-> None, id |-> None])
    /\ pc' = "offerWait"
    /\ UNCHANGED <<ack, unhealthy, usr2, files, failures>>

\* A reply is read; a copy of it may still be on its way.
Read(m) ==
    /\ m \in toClient
    /\ toClient' \in {toClient, toClient \ {m}}

AcceptOffer(m) ==
    /\ pc = "offerWait"
    /\ Read(m)
    /\ m.type = "offer" /\ m.xid = asked.xid
    /\ toServer' = Request(m)
    /\ asked' = Request(m)
    /\ pc' = "ackWait"
    /\ UNCHANGED <<ack, unhealthy, usr2, files, server, changes, failures>>

\* Fault: a reply to another transaction is taken.
AcceptAnyAck(m) ==
    /\ pc = "ackWait"
    /\ Read(m)
    /\ m.type = "ack"
    /\ ack' = m
    /\ pc' = "persist"
    /\ UNCHANGED <<asked, unhealthy, usr2, files, server, toServer, changes, failures>>

AcceptAck(m) ==
    /\ pc = "ackWait"
    /\ Read(m)
    /\ m.type = "ack" /\ m.xid = asked.xid
    /\ ack' = m
    /\ pc' = "persist"
    /\ UNCHANGED <<asked, unhealthy, usr2, files, server, toServer, changes, failures>>

\* Fault: the lease is kept.
AcceptNakKeepsLease(m) ==
    /\ pc = "ackWait"
    /\ Read(m)
    /\ m.type = "nak" /\ m.xid = asked.xid
    /\ asked' = None
    /\ pc' = "backoff"
    /\ UNCHANGED <<ack, unhealthy, usr2, files, server, toServer, changes, failures>>

AcceptNak(m) ==
    /\ pc = "ackWait"
    /\ Read(m)
    /\ m.type = "nak" /\ m.xid = asked.xid
    /\ ack' = None /\ asked' = None
    /\ pc' = "backoff"
    /\ UNCHANGED <<unhealthy, usr2, files, server, toServer, changes, failures>>

\* A reply to another transaction, or of another type, is read and dropped.
Skip(m) ==
    /\ pc \in {"offerWait", "ackWait"}
    /\ m \in toClient
    /\ \/ m.xid # asked.xid
       \/ m.type \notin (IF pc = "offerWait" THEN {"offer"} ELSE {"ack", "nak"})
    /\ toClient' = toClient \ {m}
    /\ UNCHANGED <<pc, memory, usr2, files, server, toServer, changes, failures>>

\* Fault: the lease is dropped.
TimeoutDropsLease ==
    /\ pc \in {"offerWait", "ackWait"}
    /\ pc' = "backoff"
    /\ ack' = None /\ asked' = None
    /\ UNCHANGED <<unhealthy, usr2, files, net, failures>>

\* The read deadline, or an error of the socket: a temporary error, and Ack
\* stays what it was.
Timeout ==
    /\ pc \in {"offerWait", "ackWait"}
    /\ pc' = "backoff"
    /\ asked' = None
    /\ UNCHANGED <<ack, unhealthy, usr2, files, net, failures>>

Backoff ==
    /\ pc = "backoff"
    /\ pc' = "obtain"
    /\ UNCHANGED <<memory, usr2, files, net, failures>>

-----------------------------------------------------------------------------
(* The loop of cmd/dhcp4 *)

PersistLease ==
    /\ pc = "persist"
    /\ leaseFile' = ack.ip
    /\ pc' = "persistAck"
    /\ asked' = None
    /\ UNCHANGED <<ack, unhealthy, usr2, ackFile, net, failures>>

\* Also the signal to netconfigd, and the entry of the inner loop.
PersistAck ==
    /\ pc = "persistAck"
    /\ ackFile' = TRUE
    /\ unhealthy' = 0
    /\ pc' = "bound"
    /\ UNCHANGED <<ack, asked, usr2, leaseFile, net, failures>>

\* RenewAfter has passed.
Renew ==
    /\ pc = "bound"
    /\ pc' = "obtain"
    /\ UNCHANGED <<memory, usr2, files, net, failures>>

Healthy ==
    /\ pc = "bound"
    /\ unhealthy' = 0
    /\ UNCHANGED <<pc, ack, asked, usr2, files, net, failures>>

\* The lease is dropped at the limit, and the inner loop goes on.  The count
\* beyond the limit is not told apart from the limit.
Unhealthy ==
    /\ pc = "bound"
    /\ unhealthy' = IF unhealthy < UnhealthyLimit THEN unhealthy + 1 ELSE unhealthy
    /\ ack' = IF unhealthy' < UnhealthyLimit THEN ack ELSE None
    /\ UNCHANGED <<pc, asked, usr2, files, net, failures>>

TakeUsr2 == pc = "bound" /\ usr2

\* Release, removal of the file, and an exit status that ends supervision.
Release ==
    /\ TakeUsr2
    /\ ack # None
    /\ ack' = None
    /\ ackFile' = FALSE
    /\ usr2' = FALSE
    /\ pc' = "exited"
    /\ UNCHANGED <<asked, unhealthy, leaseFile, net, failures>>

\* The process ends, and what is not in a file is gone.
Stop ==
    /\ pc' = "dead"
    /\ ack' = None /\ asked' = None /\ unhealthy' = 0 /\ usr2' = FALSE
    /\ UNCHANGED <<files, net>>

\* Release without a DHCPACK: serverID dereferences nil.
ReleasePanics ==
    /\ TakeUsr2
    /\ ack = None
    /\ Stop
    /\ UNCHANGED failures

\* The DHCPRELEASE cannot be sent, or the file cannot be removed.
ReleaseFails ==
    /\ failures < MaxFailures /\ failures' = failures + 1
    /\ TakeUsr2
    /\ ack # None
    /\ Stop

\* A failed write, a crash or a power failure at any point.
Die ==
    /\ failures < MaxFailures /\ failures' = failures + 1
    /\ pc \notin {"exited", "dead"}
    /\ Stop

Supervise ==
    /\ pc = "dead"
    /\ pc' = "start"
    /\ UNCHANGED <<memory, usr2, files, net, failures>>

-----------------------------------------------------------------------------
(* External: signals, the provider's server and the network *)

Usr2 ==
    /\ ~usr2 /\ pc # "exited"
    /\ usr2' = TRUE
    /\ UNCHANGED <<pc, memory, files, net, failures>>

\* Of the earlier replies at most MaxLate are still on their way.
Reply(type, ip) ==
    \E late \in SUBSET toClient :
        /\ Cardinality(late) <= MaxLate
        /\ toClient' = late \cup
               {[type |-> type, xid |-> toServer.xid, ip |-> ip, id |-> server.id]}

\* A server answers what is meant for it.
Answer ==
    /\ toServer # None
    /\ \/ toServer.type = "discover" /\ Reply("offer", server.ip)
       \/ toServer.type = "request" /\ toServer.id = server.id /\ toServer.ip = server.ip
          /\ Reply("ack", server.ip)
       \/ toServer.type = "request" /\ toServer.id = server.id /\ toServer.ip # server.ip
          /\ Reply("nak", None)
    /\ toServer' = None
    /\ UNCHANGED <<pc, memory, usr2, files, server, changes, failures>>

LoseMessage ==
    /\ \/ toServer # None /\ toServer' = None /\ UNCHANGED toClient
       \/ \E m \in toClient : toClient' = toClient \ {m} /\ UNCHANGED toServer
    /\ UNCHANGED <<pc, memory, usr2, files, server, changes, failures>>

ChangeServer ==
    /\ changes < MaxChanges
    /\ changes' = changes + 1
    /\ server' \in Upstreams \ {server}
    /\ UNCHANGED <<pc, memory, usr2, files, toServer, toClient, failures>>

ClientNext ==
    \/ Start \/ SendRequest \/ SendDiscover \/ Timeout \/ Backoff
    \/ \E m \in toClient : AcceptOffer(m) \/ AcceptAck(m) \/ AcceptNak(m) \/ Skip(m)
    \/ PersistLease \/ PersistAck
    \/ Renew \/ Healthy \/ Unhealthy
    \/ Release \/ ReleasePanics \/ ReleaseFails \/ Die \/ Supervise

Next == ClientNext \/ Usr2 \/ Answer \/ LoseMessage \/ ChangeServer

Spec == Init /\ [][Next]_vars

\* The process runs and timers fire.  Of what the client sends again and again,
\* the network carries an instance, and its answer, within the read deadline.
Fairness ==
    /\ WF_vars(Start) /\ WF_vars(SendRequest) /\ WF_vars(SendDiscover)
    /\ WF_vars(Timeout) /\ WF_vars(Backoff) /\ WF_vars(PersistLease) /\ WF_vars(PersistAck)
    /\ WF_vars(Supervise) /\ WF_vars(Renew)
    /\ SF_vars(pc = "offerWait" /\ Answer)
    /\ SF_vars(pc = "ackWait" /\ Answer)
    /\ SF_vars(\E m \in toClient : AcceptOffer(m))
    /\ SF_vars(\E m \in toClient : AcceptAck(m))
    /\ SF_vars(\E m \in toClient : AcceptNak(m))

FairSpec == Spec /\ Fairness

-----------------------------------------------------------------------------
(* Correctness *)

TypeOK ==
    /\ pc \in {"start", "obtain", "offerWait", "ackWait", "backoff", "persist",
               "persistAck", "bound", "exited", "dead"}
    /\ ack \in Msg \cup {None} /\ ackFile \in BOOLEAN
    /\ asked \in Msg \cup {None}
    /\ leaseFile \in IPs \cup {None}
    /\ unhealthy \in 0 .. UnhealthyLimit
    /\ usr2 \in BOOLEAN
    /\ server \in Upstreams
    /\ toServer \in Msg \cup {None}
    /\ toClient \subseteq Msg
    /\ changes \in 0 .. MaxChanges /\ failures \in 0 .. MaxFailures

\* The DHCPACK the client takes over answers the address and the server of its
\* last DHCPREQUEST, although a renewal reuses the xid of the lease and replies
\* to earlier messages are still on their way.
AckAnswersRequest ==
    pc = "persist" => ack.ip = asked.ip /\ ack.id = asked.id

\* The last DHCPACK is forgotten on a DHCPNAK, at the limit of unhealthy cycles and
\* with the process only: temporary errors and late replies keep it.
ForgottenForAReason ==
    [][ack # None /\ ack' = None =>
         \/ \E m \in toClient : m.type = "nak" /\ m.xid = ack.xid
         \/ pc' \in {"exited", "dead"}
         \/ unhealthy' = UnhealthyLimit]_vars

\* An uplink whose provider answers has the address it hands out on file again and
\* again, through lost, late and duplicated messages, a change of that address, and
\* crashes after each of which it starts without its DHCPACK.
LeaseAgain == []<>(pc = "bound" /\ leaseFile = server.ip) \/ <>(pc = "exited")
=============================================================================
