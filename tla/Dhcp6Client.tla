----------------------------- MODULE Dhcp6Client -----------------------------
(***************************************************************************)
(* The uplink's DHCPv6 client: Client of package dhcp6 (solicit, request,  *)
(* sendReceive, ObtainOrRenew, Release) and the loop of cmd/dhcp6 around   *)
(* it, with lease.json, SIGUSR2, crashes and restarts.  Every renewal is a *)
(* whole exchange that begins with a SOLICIT to all servers.               *)
(*                                                                         *)
(* External: the servers, any of which may answer, each time as it likes,  *)
(* and the network, which loses, delays, reorders and duplicates.          *)
(* Deadlines, waits and RenewAfter may end at any time.                    *)
(***************************************************************************)
EXTENDS Naturals, FiniteSets

CONSTANTS
    Servers,
    Leases,       \* what a reply delegates: records [prefixes, pause]
    Xids,         \* transaction ids; more than can be in use at a time
    None,
    MaxLate,      \* bound on the late messages that are still on their way
    MaxFailures   \* bound on the refusals, the failed calls and the crashes

\* A message as far as the client looks at it; ok: no status of an IA_PD is an error.
Msg == [type : {"solicit", "advertise", "request", "reply", "release"},
        xid : Xids, id : Servers \cup {None}, lease : Leases \cup {None}, ok : BOOLEAN]

\* A lease has a pause when RenewAfter lies ahead: a reply without IA_PD leaves it
\* at the zero time, and one whose least T1 is zero sets it to the present.
ASSUME Dhcp6Assumption ==
    /\ Cardinality(Xids) > MaxLate + 3
    /\ MaxLate \in Nat /\ MaxFailures \in Nat
    /\ \A l \in Leases : DOMAIN l = {"prefixes", "pause"} /\ l.pause \in BOOLEAN
    /\ None \notin Servers /\ None \notin Leases /\ None \notin Msg

VARIABLES
    pc,          \* where the loop is
    cfg, grantor,\* Client.cfg, and the server it is from (history)
    advertise,   \* the server of Client.advertise, or None
    err,         \* Client.err is set
    asked,       \* the message sendReceive has sent, or None
    usr2,        \* a SIGUSR2 waits in the channel
    leaseFile,   \* the persisted lease
    toServer,    \* the client's last message, still on its way or answered, or None
    toClient,    \* messages on their way
    waited,      \* since the last SOLICIT there was a wait (history)
    failures

memory == <<cfg, grantor, advertise, err>>
net == <<toServer, toClient>>
vars == <<pc, memory, asked, usr2, leaseFile, net, waited, failures>>

Init ==
    /\ pc = "start"
    /\ cfg = None /\ grantor = None /\ advertise = None /\ err = FALSE /\ asked = None
    /\ usr2 = FALSE
    /\ leaseFile = None
    /\ toServer = None /\ toClient = {}
    /\ waited = TRUE
    /\ failures = 0

Fail == failures < MaxFailures /\ failures' = failures + 1

-----------------------------------------------------------------------------
(* sendReceive *)

\* Every message gets an id of its own; which one makes no difference.
InUse == {m.xid : m \in toClient \cup ({toServer, asked} \ {None})}
NewXid == CHOOSE x \in Xids : x \notin InUse

Send(type, id) ==
    /\ asked' = [type |-> type, xid |-> NewXid, id |-> id, lease |-> None, ok |-> TRUE]
    /\ toServer' = asked'
    /\ UNCHANGED toClient

\* The type expected: of a reply to a RELEASE any is taken.
Expected(m) ==
    CASE asked.type = "solicit" -> m.type = "advertise"
      [] asked.type = "request" -> m.type = "reply"
      [] OTHER -> TRUE

\* Fault: the transaction id is not compared.
AcceptableByType(m) == Expected(m)

Acceptable(m) == m.xid = asked.xid /\ Expected(m)

\* A message is read; a copy of it may still be on its way.
Receive(m) ==
    /\ asked # None
    /\ m \in toClient
    /\ Acceptable(m)
    /\ toClient' \in {toClient, toClient \ {m}}
    /\ UNCHANGED toServer

\* Another one is read and dropped.
Skip(m) ==
    /\ asked # None
    /\ m \in toClient
    /\ ~Acceptable(m)
    /\ toClient' = toClient \ {m}
    /\ UNCHANGED <<pc, memory, asked, usr2, leaseFile, toServer, waited, failures>>

-----------------------------------------------------------------------------
(* ObtainOrRenew *)

Start ==
    /\ pc = "start"
    /\ pc' = "obtain"
    /\ UNCHANGED <<memory, asked, usr2, leaseFile, net, waited, failures>>

Solicit ==
    /\ pc = "obtain"
    /\ err' = FALSE
    /\ Send("solicit", None)
    /\ waited' = FALSE
    /\ pc' = "advertiseWait"
    /\ UNCHANGED <<cfg, grantor, advertise, usr2, leaseFile, failures>>

\* An ADVERTISE is kept, and requested.
Request(m) ==
    /\ pc = "advertiseWait"
    /\ m.ok
    /\ advertise' = m.id
    /\ Acceptable(m)
    /\ toClient' \in {toClient, toClient \ {m}}
    /\ asked' = [type |-> "request", xid |-> NewXid, id |-> m.id, lease |-> None, ok |-> TRUE]
    /\ toServer' = asked'
    /\ pc' = "replyWait"
    /\ UNCHANGED <<cfg, grantor, err, usr2, leaseFile, waited, failures>>

\* The process ends, and what is not in a file is gone.
Stop ==
    /\ pc' = "dead"
    /\ cfg' = None /\ grantor' = None /\ advertise' = None /\ err' = FALSE
    /\ asked' = None /\ usr2' = FALSE
    /\ UNCHANGED leaseFile

\* The IA_PD of the ADVERTISE has an error: a permanent error, which ends the process.
Refused(m) ==
    /\ pc = "advertiseWait"
    /\ Receive(m)
    /\ ~m.ok
    /\ Stop
    /\ UNCHANGED <<waited, failures>>

\* The REPLY is taken over, and the loop looks at the error.
TakeReply(m) ==
    /\ pc = "replyWait"
    /\ Receive(m)
    /\ cfg' = m.lease
    /\ grantor' = m.id
    /\ asked' = None
    /\ pc' = IF err THEN "backoff" ELSE "persist"
    /\ UNCHANGED <<advertise, err, usr2, leaseFile, waited, failures>>

\* Fault: the next attempt follows at once.
TimeoutRetries ==
    /\ pc \in {"advertiseWait", "replyWait"}
    /\ err' = TRUE
    /\ asked' = None
    /\ pc' = "obtain"
    /\ UNCHANGED <<cfg, grantor, advertise, usr2, leaseFile, net, waited, failures>>

\* Fault: there is no read deadline, only errors of the socket.
TimeoutOnError ==
    /\ Fail
    /\ pc \in {"advertiseWait", "replyWait"}
    /\ err' = TRUE
    /\ asked' = None
    /\ pc' = "backoff"
    /\ UNCHANGED <<cfg, grantor, advertise, usr2, leaseFile, net, waited>>

\* The read deadline, or an error of the socket: a temporary error.
Timeout ==
    /\ pc \in {"advertiseWait", "replyWait"}
    /\ err' = TRUE
    /\ asked' = None
    /\ pc' = "backoff"
    /\ UNCHANGED <<cfg, grantor, advertise, usr2, leaseFile, net, waited, failures>>

-----------------------------------------------------------------------------
(* The loop of cmd/dhcp6 *)

Backoff ==
    /\ pc = "backoff"
    /\ waited' = TRUE
    /\ pc' = "obtain"
    /\ UNCHANGED <<memory, asked, usr2, leaseFile, net, failures>>

\* Fault: a lease without prefixes is not written.
PersistPrefixes ==
    /\ pc = "persist"
    /\ leaseFile' = IF cfg.prefixes = {} THEN leaseFile ELSE cfg
    /\ pc' = "bound"
    /\ UNCHANGED <<memory, asked, usr2, net, waited, failures>>

\* lease.json, and the signals to netconfigd and radvd.
Persist ==
    /\ pc = "persist"
    /\ leaseFile' = cfg
    /\ pc' = "bound"
    /\ UNCHANGED <<memory, asked, usr2, net, waited, failures>>

\* RenewAfter has passed, at once if it is not ahead.
Renew ==
    /\ pc = "bound"
    /\ waited' = (waited \/ cfg.pause)
    /\ pc' = "obtain"
    /\ UNCHANGED <<memory, asked, usr2, leaseFile, net, failures>>

Release ==
    /\ pc = "bound" /\ usr2
    /\ usr2' = FALSE
    /\ Send("release", advertise)
    /\ pc' = "releaseWait"
    /\ UNCHANGED <<memory, leaseFile, waited, failures>>

\* An answer: exit status 125 ends supervision.  lease.json stays.
Released(m) ==
    /\ pc = "releaseWait"
    /\ Receive(m)
    /\ asked' = None
    /\ pc' = "exited"
    /\ UNCHANGED <<memory, usr2, leaseFile, waited, failures>>

\* No answer to the RELEASE: the process ends and is started again.
ReleaseFails ==
    /\ pc = "releaseWait"
    /\ Stop
    /\ UNCHANGED <<net, waited, failures>>

\* A failed write, a crash or a power failure at any point.
Die ==
    /\ Fail
    /\ pc \notin {"exited", "dead"}
    /\ Stop
    /\ UNCHANGED <<net, waited>>

Supervise ==
    /\ pc = "dead"
    /\ waited' = TRUE
    /\ pc' = "start"
    /\ UNCHANGED <<memory, asked, usr2, leaseFile, net, failures>>

-----------------------------------------------------------------------------
(* External: signals, the servers and the network *)

Usr2 ==
    /\ ~usr2 /\ pc \notin {"exited", "dead", "start"}
    /\ usr2' = TRUE
    /\ UNCHANGED <<pc, memory, asked, leaseFile, net, waited, failures>>

\* Of the earlier messages at most MaxLate are still on their way.
Arrive(m) ==
    \E late \in SUBSET toClient :
        /\ Cardinality(late) <= MaxLate
        /\ toClient' = late \cup {m}

Reply(s, type, lease, ok) ==
    /\ toServer # None
    /\ Arrive([type |-> type, xid |-> toServer.xid, id |-> s, lease |-> lease, ok |-> ok])
    /\ UNCHANGED <<pc, memory, asked, usr2, leaseFile, toServer, waited>>

Advertise(s) ==
    /\ toServer # None /\ toServer.type = "solicit"
    /\ Reply(s, "advertise", None, TRUE)
    /\ UNCHANGED failures

Refuse(s) ==
    /\ Fail
    /\ toServer # None /\ toServer.type = "solicit"
    /\ Reply(s, "advertise", None, FALSE)

\* A server answers what is sent to it.
Grant(s) ==
    /\ toServer # None /\ toServer.type = "request" /\ toServer.id = s
    /\ \E l \in Leases : Reply(s, "reply", l, TRUE)
    /\ UNCHANGED failures

ConfirmRelease(s) ==
    /\ toServer # None /\ toServer.type = "release" /\ toServer.id = s
    /\ Reply(s, "reply", None, TRUE)
    /\ UNCHANGED failures

LoseMessage ==
    /\ \/ toServer # None /\ toServer' = None /\ UNCHANGED toClient
       \/ \E m \in toClient : toClient' = toClient \ {m} /\ UNCHANGED toServer
    /\ UNCHANGED <<pc, memory, asked, usr2, leaseFile, waited, failures>>

Client ==
    \/ Start \/ Solicit \/ Timeout \/ Backoff \/ Persist \/ Renew
    \/ \E m \in toClient : Request(m) \/ Refused(m) \/ TakeReply(m) \/ Released(m) \/ Skip(m)
    \/ Release \/ ReleaseFails \/ Die \/ Supervise

Environment ==
    \/ Usr2 \/ LoseMessage
    \/ \E s \in Servers : Advertise(s) \/ Refuse(s) \/ Grant(s) \/ ConfirmRelease(s)

Next == Client \/ Environment

Spec == Init /\ [][Next]_vars

\* The process runs and timers fire.  Of the messages sent again and again in a
\* state of the exchange, one and its answer are carried in time.
Fairness ==
    /\ WF_vars(Start) /\ WF_vars(Solicit) /\ WF_vars(Timeout) /\ WF_vars(Backoff)
    /\ WF_vars(Persist) /\ WF_vars(Renew) /\ WF_vars(Supervise) /\ WF_vars(ReleaseFails)
    /\ SF_vars(pc = "advertiseWait" /\ \E s \in Servers : Advertise(s))
    /\ SF_vars(pc = "replyWait" /\ \E s \in Servers : Grant(s))
    /\ SF_vars(\E m \in toClient : Request(m))
    /\ SF_vars(\E m \in toClient : TakeReply(m))

FairSpec == Spec /\ Fairness

-----------------------------------------------------------------------------
(* Correctness *)

TypeOK ==
    /\ pc \in {"start", "obtain", "advertiseWait", "replyWait", "backoff", "persist",
               "bound", "releaseWait", "exited", "dead"}
    /\ cfg \in Leases \cup {None} /\ leaseFile \in Leases \cup {None}
    /\ grantor \in Servers \cup {None} /\ advertise \in Servers \cup {None}
    /\ asked \in Msg \cup {None}
    /\ asked # None <=> pc \in {"advertiseWait", "replyWait", "releaseWait"}
    /\ err \in BOOLEAN /\ usr2 \in BOOLEAN /\ waited \in BOOLEAN
    /\ toServer \in Msg \cup {None} /\ toClient \subseteq Msg
    /\ failures \in 0 .. MaxFailures

\* The lease taken over was granted by the server whose ADVERTISE is kept, however
\* many servers answer and however late: a RELEASE, which is made from that
\* ADVERTISE, goes to the server of the lease on disk.
ReleaseFindsServer ==
    pc \in {"persist", "bound", "releaseWait"} => advertise # None /\ grantor = advertise

\* While the client is bound lease.json has the lease of the last exchange, also
\* when that has no prefixes.
FileIsLease == pc \in {"bound", "releaseWait"} => leaseFile = cfg /\ cfg # None

\* The servers are not flooded: between two SOLICITs there is a wait, unless the
\* last lease has no time to wait for.
Paced == pc = "obtain" => waited \/ (cfg # None /\ ~cfg.pause)

\* A client whose servers answer is bound again and again, through lost, late and
\* duplicated messages, refusals and crashes.
BoundAgain == []<>(pc = "bound") \/ <>(pc = "exited")
=============================================================================
