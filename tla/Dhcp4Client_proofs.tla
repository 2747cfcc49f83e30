------------------------- MODULE Dhcp4Client_proofs -------------------------
(***************************************************************************)
(* Proofs about Dhcp4Client, for any provider that changes any number of   *)
(* times, and a network that delays, reorders, duplicates and loses.       *)
(***************************************************************************)
EXTENDS Dhcp4Client, FiniteSetTheorems, TLAPS

\* There is always an id that is not in use.
Few == IsFiniteSet(toClient) /\ Cardinality(toClient) <= MaxLate + 1

\* Everything that speaks of an address under an id: DHCPREQUESTs and DHCPACKs,
\* sent and kept.
Grants ==
    {m \in toClient : m.type = "ack"}
    \cup {m \in {toServer, asked} \ {None} : m.type = "request"}
    \cup ({ack} \ {None})

\* Under one id it is one address of one server.
OneStory ==
    \A m, n \in Grants : m.xid = n.xid => m.ip = n.ip /\ m.id = n.id

\* What is being answered.  The id of a DHCPDISCOVER is new, and that of a renewal
\* is the id of the lease.
Asking ==
    /\ pc \in {"start", "dead"} => ack = None
    /\ asked # None <=> pc \in {"offerWait", "ackWait", "persist"}
    /\ pc = "offerWait" =>
         /\ ack = None
         /\ asked.type = "discover"
         /\ toServer \in {asked, None}
         /\ \A m \in Grants : m.xid # asked.xid
    /\ pc = "ackWait" => asked.type = "request" /\ (ack # None => asked.xid = ack.xid)

\* There is a lease to write.
Writing == pc \in {"persist", "persistAck"} => ack # None

KInv ==
    /\ TypeOK
    /\ Few
    /\ OneStory
    /\ Asking
    /\ Writing
    /\ AckAnswersRequest
   

LEMMA Bounds == MaxLate \in Nat /\ MaxFailures \in Nat /\ MaxChanges \in Nat
                /\ UnhealthyLimit \in Nat \ {0} /\ None \notin Msg
  BY ClientAssumption

LEMMA InitKInv == Init => KInv
<1> SUFFICES ASSUME Init PROVE KInv
  OBVIOUS
<1>1. failures \in 0 .. MaxFailures /\ changes \in 0 .. MaxChanges
      /\ unhealthy \in 0 .. UnhealthyLimit
  BY Bounds DEF Init
<1>2. TypeOK
  BY <1>1 DEF Init, TypeOK
<1>3. Few
  BY FS_EmptySet, Bounds DEF Init, Few
<1>4. Grants = {}
  BY DEF Init, Grants
<1> QED
  BY <1>2, <1>3, <1>4
  DEF Init, KInv, OneStory, Asking, Writing, AckAnswersRequest

-----------------------------------------------------------------------------
(* Messages and their ids *)

LEMMA ImageFinite ==
  ASSUME NEW S, IsFiniteSet(S)
  PROVE  /\ IsFiniteSet({m.xid : m \in S})
         /\ Cardinality({m.xid : m \in S}) <= Cardinality(S)
<1> DEFINE T == {m.xid : m \in S}
<1> DEFINE f == [m \in S |-> m.xid]
<1>1. f \in Surjection(S, T)
  BY DEF Surjection
<1> QED
  BY <1>1, FS_Surjection

LEMMA FreshXid ==
  ASSUME TypeOK, Few
  PROVE  NewXid \in Xids /\ NewXid \notin InUse
<1> DEFINE S == toClient \cup {toServer}
<1> DEFINE U == toClient \cup ({toServer} \ {None})
<1>1. Cardinality(toClient) \in Nat /\ MaxLate \in Nat
  BY FS_CardinalityType, Bounds DEF Few
<1>2. IsFiniteSet(S) /\ Cardinality(S) <= Cardinality(toClient) + 1 /\ Cardinality(S) \in Nat
  BY <1>1, FS_AddElement, FS_CardinalityType DEF Few
<1>4. IsFiniteSet(U) /\ Cardinality(U) <= Cardinality(S)
  <2>1. U \in SUBSET S
    OBVIOUS
  <2> QED
    BY <1>2, <2>1, FS_Subset
<1>5. IsFiniteSet(InUse) /\ Cardinality(InUse) <= Cardinality(U)
  BY <1>4, ImageFinite DEF InUse
<1>6. Cardinality(InUse) <= MaxLate + 2
  <2>1. Cardinality(U) \in Nat /\ Cardinality(InUse) \in Nat
    BY <1>4, <1>5, FS_CardinalityType
  <2> HIDE DEF S, U
  <2> QED
    BY <1>1, <1>2, <1>4, <1>5, <2>1 DEF Few
<1>7. \E x \in Xids : x \notin InUse
  <2> SUFFICES ASSUME Xids \subseteq InUse PROVE FALSE
    OBVIOUS
  <2>1. IsFiniteSet(Xids) /\ Cardinality(Xids) <= Cardinality(InUse)
    BY <1>5, FS_Subset
  <2>2. Cardinality(Xids) \in Nat /\ Cardinality(InUse) \in Nat
    BY <2>1, <1>5, FS_CardinalityType
  <2> QED
    BY <1>1, <1>6, <2>1, <2>2, ClientAssumption
<1> QED
  BY <1>7 DEF NewXid

\* Fewer messages are on their way.
LEMMA FewerFew ==
  ASSUME Few, toClient' \in SUBSET toClient
  PROVE  Few'
<1>1. Cardinality(toClient) \in Nat /\ MaxLate \in Nat
  BY FS_CardinalityType, Bounds DEF Few
<1>2. IsFiniteSet(toClient') /\ Cardinality(toClient') <= Cardinality(toClient)
  BY FS_Subset DEF Few
<1>3. Cardinality(toClient') \in Nat
  BY <1>2, FS_CardinalityType
<1> QED
  BY <1>1, <1>2, <1>3 DEF Few

\* One is added.
LEMMA ReplyFew ==
  ASSUME TypeOK, Few, NEW type \in {"offer", "ack", "nak"}, NEW ip \in IPs \cup {None},
         toServer # None, Reply(type, ip)
  PROVE  LET m == [type |-> type, xid |-> toServer.xid, ip |-> ip, id |-> server.id]
         IN  Few' /\ m \in Msg /\ toClient' \subseteq toClient \cup {m}
<1> DEFINE m == [type |-> type, xid |-> toServer.xid, ip |-> ip, id |-> server.id]
<1>1. PICK late \in SUBSET toClient : Cardinality(late) <= MaxLate /\ toClient' = late \cup {m}
  BY DEF Reply
<1>2. IsFiniteSet(late) /\ Cardinality(late) \in Nat /\ MaxLate \in Nat
  BY FS_Subset, FS_CardinalityType, Bounds DEF Few
<1>3. /\ IsFiniteSet(late \cup {m})
      /\ Cardinality(late \cup {m}) <= Cardinality(late) + 1
      /\ Cardinality(late \cup {m}) \in Nat
  <2> HIDE DEF m
  <2> QED
    BY <1>2, FS_AddElement, FS_CardinalityType
<1>4. m \in Msg
  <2>1. server.id \in Ids
    BY DEF TypeOK, Ids
  <2>2. toServer.xid \in Xids
    BY DEF TypeOK, Msg
  <2> QED
    BY <2>1, <2>2 DEF Msg
<1> QED
  BY <1>1, <1>2, <1>3, <1>4 DEF Few

LEMMA RequestType ==
  ASSUME NEW m \in Msg
  PROVE  /\ Request(m) \in Msg /\ Request(m) # None
         /\ Request(m).type = "request"
         /\ Request(m).xid = m.xid /\ Request(m).ip = m.ip /\ Request(m).id = m.id
<1>1. Request(m) \in Msg
  BY DEF Request, Msg
<1> QED
  BY <1>1, Bounds DEF Request

LEMMA FailTypes ==
  ASSUME TypeOK, failures < MaxFailures, failures' = failures + 1
  PROVE  failures' \in 0 .. MaxFailures
  BY Bounds DEF TypeOK

\* A step that adds nothing to what speaks of addresses.
LEMMA FewerGrants ==
  ASSUME OneStory, Grants' \subseteq Grants
  PROVE  OneStory'
  BY DEF OneStory

\* A process that ends remembers what is in the files.
LEMMA StopKInv ==
  ASSUME KInv, Stop, failures' \in 0 .. MaxFailures
  PROVE  KInv'
<1>1. Few'
  BY FewerFew DEF KInv, Stop, net
<1>2. Grants' \subseteq Grants
  BY DEF Stop, net, files, Grants
<1>3. OneStory'
  BY <1>2, FewerGrants DEF KInv
<1>4. TypeOK'
  <2>1. unhealthy' \in 0 .. UnhealthyLimit
    BY Bounds DEF Stop
  <2> QED
    BY <2>1 DEF KInv, TypeOK, Stop, net, files
<1>5. pc' = "dead" /\ asked' = None /\ ack' = None
  BY DEF Stop
<1>6. Asking' /\ Writing'
  BY <1>5 DEF Asking, Writing
<1>7. AckAnswersRequest'
  BY <1>5 DEF AckAnswersRequest
<1> QED
  BY <1>1, <1>3, <1>4, <1>6, <1>7 DEF KInv

-----------------------------------------------------------------------------
(* The steps *)

\* A step that sends nothing and learns nothing, as most of the loop's are.
LEMMA QuietKInv ==
  ASSUME KInv, TypeOK', toClient' \in SUBSET toClient, toServer' \in {toServer, None},
         ack' \in {ack, None}, asked' \in {asked, None}
  PROVE  Few' /\ Grants' \subseteq Grants /\ OneStory'
<1>1. Few'
  BY FewerFew DEF KInv
<1>2. Grants' \subseteq Grants
  BY DEF Grants
<1> QED
  BY <1>1, <1>2, FewerGrants DEF KInv

LEMMA StepSend ==
  ASSUME KInv, SendRequest \/ SendDiscover
  PROVE  KInv'
<1> USE DEF KInv
<1>1. UNCHANGED <<unhealthy, usr2, files, failures, ack, server, toClient, changes>>
      /\ toServer' = asked'
  BY DEF SendRequest, SendDiscover, Send
<1>2. Few'
  BY <1>1, FewerFew
<1>3. CASE SendRequest
  <2>1. /\ pc = "obtain" /\ ack # None /\ pc' = "ackWait" /\ asked' = Request(ack)
        /\ ack \in Msg
    BY <1>3 DEF SendRequest, Send, TypeOK
  <2>2. /\ asked' \in Msg /\ asked' # None /\ asked'.type = "request" /\ asked'.xid = ack.xid
        /\ asked'.ip = ack.ip /\ asked'.id = ack.id
    BY <2>1, RequestType
  <2>3. TypeOK'
    BY <1>1, <2>1, <2>2 DEF TypeOK, files
  <2>4. OneStory'
    <3>1. ack \in Grants /\ Grants' \subseteq Grants \cup {asked'}
      BY <1>1, <2>1 DEF Grants, files
    <3>2. ASSUME NEW m \in Grants', NEW n \in Grants', m.xid = n.xid
          PROVE  m.ip = n.ip /\ m.id = n.id
      <4>1. m \in Grants \/ (m.xid = ack.xid /\ m.ip = ack.ip /\ m.id = ack.id)
        BY <2>2, <3>1, <3>2
      <4>2. n \in Grants \/ (n.xid = ack.xid /\ n.ip = ack.ip /\ n.id = ack.id)
        BY <2>2, <3>1, <3>2
      <4> QED
        BY <3>1, <3>2, <4>1, <4>2 DEF OneStory
    <3> QED
      BY <3>2 DEF OneStory
  <2>5. Asking' /\ Writing' /\ AckAnswersRequest'
    BY <1>1, <2>1, <2>2 DEF Asking, Writing, AckAnswersRequest
  <2> QED
    BY <1>2, <2>3, <2>4, <2>5
<1>4. CASE SendDiscover
  <2>1. /\ pc = "obtain" /\ ack = None /\ pc' = "offerWait"
        /\ asked' = [type |-> "discover", xid |-> NewXid, ip |-> None, id |-> None]
    BY <1>4 DEF SendDiscover, Send
  <2>2. asked' \in Msg /\ asked'.type = "discover" /\ asked'.xid = NewXid
    BY <2>1, FreshXid DEF Msg
  <2>3. asked' # None
    BY <2>2, Bounds
  <2>4. TypeOK'
    BY <1>1, <2>1, <2>2 DEF TypeOK, files
  <2>5. Grants' \subseteq Grants /\ \A m \in Grants' : m.xid \in InUse
    BY <1>1, <2>1, <2>2 DEF Grants, InUse, files
  <2>6. OneStory'
    BY <2>5, FewerGrants
  <2>7. \A m \in Grants' : m.xid # asked'.xid
    BY <2>2, <2>5, FreshXid
  <2>8. Asking' /\ Writing' /\ AckAnswersRequest'
    BY <1>1, <2>1, <2>2, <2>3, <2>7 DEF Asking, Writing, AckAnswersRequest
  <2> QED
    BY <1>2, <2>4, <2>6, <2>8
<1> QED
  BY <1>3, <1>4

LEMMA StepOffer ==
  ASSUME KInv, NEW m \in toClient, AcceptOffer(m)
  PROVE  KInv'
<1> USE DEF KInv
<1>1. /\ toServer' = Request(m) /\ asked' = Request(m) /\ pc = "offerWait" /\ pc' = "ackWait"
      /\ toClient' \in SUBSET toClient /\ m.xid = asked.xid
      /\ UNCHANGED <<ack, unhealthy, usr2, files, server, changes, failures>>
  BY DEF AcceptOffer, Read
<1>2. Request(m) \in Msg /\ Request(m) # None /\ Request(m).type = "request"
      /\ Request(m).xid = m.xid
  BY RequestType DEF TypeOK
<1>3. Few'
  BY <1>1, FewerFew
<1>4. TypeOK'
  BY <1>1, <1>2 DEF TypeOK, files
<1>5. ack = None /\ \A n \in Grants : n.xid # Request(m).xid
  BY <1>1, <1>2 DEF Asking
<1>6. Grants' \subseteq Grants \cup {Request(m)}
  BY <1>1 DEF Grants, files
<1>7. OneStory'
  BY <1>5, <1>6 DEF OneStory
<1>8. Asking' /\ Writing' /\ AckAnswersRequest'
  BY <1>1, <1>2, <1>5 DEF Asking, Writing, AckAnswersRequest
<1> QED
  BY <1>3, <1>4, <1>7, <1>8

LEMMA StepAck ==
  ASSUME KInv, NEW m \in toClient, AcceptAck(m)
  PROVE  KInv'
<1> USE DEF KInv
<1>1. /\ pc = "ackWait" /\ pc' = "persist" /\ ack' = m /\ toClient' \in SUBSET toClient
      /\ m.type = "ack" /\ m.xid = asked.xid
      /\ UNCHANGED <<asked, unhealthy, usr2, files, server, toServer, changes, failures>>
  BY DEF AcceptAck, Read
<1>2. m \in Msg /\ m # None /\ asked # None /\ asked.type = "request"
  BY <1>1, Bounds DEF TypeOK, Asking
<1>3. m \in Grants /\ asked \in Grants
  BY <1>1, <1>2 DEF Grants
<1>4. m.ip = asked.ip /\ m.id = asked.id
  BY <1>1, <1>3 DEF OneStory
<1>5. Few'
  BY <1>1, FewerFew
<1>6. TypeOK'
  BY <1>1, <1>2 DEF TypeOK, files
<1>7. Grants' \subseteq Grants
  BY <1>1, <1>3 DEF Grants, files
<1>8. OneStory'
  BY <1>7, FewerGrants
<1>9. Asking' /\ Writing' /\ AckAnswersRequest'
  BY <1>1, <1>2, <1>4 DEF Asking, Writing, AckAnswersRequest
<1> QED
  BY <1>5, <1>6, <1>8, <1>9

LEMMA StepAnswer ==
  ASSUME KInv, Answer
  PROVE  KInv'
<1> USE DEF KInv
<1>1. toServer # None /\ toServer \in Msg /\ toServer' = None
      /\ UNCHANGED <<pc, memory, usr2, files, server, changes, failures>>
  BY DEF Answer, TypeOK
<1>2. PICK type \in {"offer", "ack", "nak"}, ip \in IPs \cup {None} :
        /\ Reply(type, ip)
        /\ type = "ack" => toServer.type = "request" /\ toServer.id = server.id
                           /\ toServer.ip = ip
        /\ type \in {"ack", "nak"} => toServer.type = "request"
  <2>1. server.ip \in IPs
    BY DEF TypeOK, IPs
  <2> QED
    BY <2>1 DEF Answer
<1> DEFINE m == [type |-> type, xid |-> toServer.xid, ip |-> ip, id |-> server.id]
<1>3. Few' /\ m \in Msg /\ toClient' \subseteq toClient \cup {m}
  BY <1>1, <1>2, ReplyFew
<1>4. m.type = type /\ m.xid = toServer.xid /\ m.ip = ip /\ m.id = server.id
  OBVIOUS
<1> HIDE DEF m
<1>5. TypeOK'
  BY <1>1, <1>3 DEF TypeOK, memory, files
<1>6. CASE type = "ack"
  <2>1. toServer \in Grants /\ m.xid = toServer.xid /\ m.ip = toServer.ip /\ m.id = toServer.id
    BY <1>1, <1>2, <1>4, <1>6 DEF Grants
  <2>2. Grants' \subseteq Grants \cup {m}
    BY <1>1, <1>3 DEF Grants, memory, files
  <2>3. OneStory'
    <3>1. ASSUME NEW a \in Grants', NEW b \in Grants', a.xid = b.xid
          PROVE  a.ip = b.ip /\ a.id = b.id
      <4>1. a \in Grants \/ (a.xid = toServer.xid /\ a.ip = toServer.ip /\ a.id = toServer.id)
        BY <2>1, <2>2
      <4>2. b \in Grants \/ (b.xid = toServer.xid /\ b.ip = toServer.ip /\ b.id = toServer.id)
        BY <2>1, <2>2
      <4> QED
        BY <2>1, <3>1, <4>1, <4>2 DEF OneStory
    <3> QED
      BY <3>1 DEF OneStory
  <2>4. pc # "offerWait"
    BY <1>1, <1>2, <1>6 DEF Asking
  <2>5. Asking' /\ Writing' /\ AckAnswersRequest'
    BY <1>1, <2>4 DEF memory, files, Asking, Writing, AckAnswersRequest
  <2> QED
    BY <1>3, <1>5, <2>3, <2>5
<1>7. CASE type # "ack"
  <2>1. Grants' \subseteq Grants
    BY <1>1, <1>3, <1>4, <1>7 DEF Grants, memory, files
  <2>2. OneStory'
    BY <2>1, FewerGrants
  <2>3. Asking' /\ Writing' /\ AckAnswersRequest'
    BY <1>1, <2>1 DEF memory, files, Asking, Writing, AckAnswersRequest
  <2> QED
    BY <1>3, <1>5, <2>2, <2>3
<1> QED
  BY <1>6, <1>7

LEMMA StepKInv == KInv /\ [Next]_vars => KInv'
<1> SUFFICES ASSUME KInv, [Next]_vars PROVE KInv'
  OBVIOUS
<1> USE DEF KInv, memory, files, net
<1> DEFINE Rest == Asking /\ Writing /\ AckAnswersRequest
<1>1. CASE Start
  <2>1. TypeOK'
    BY <1>1 DEF Start, TypeOK
  <2>2. Few' /\ OneStory' /\ Grants' \subseteq Grants
    BY <1>1, <2>1, QuietKInv DEF Start
  <2>3. Rest'
    BY <1>1, <2>2 DEF Start, Asking, Writing, AckAnswersRequest
  <2> QED
    BY <2>1, <2>2, <2>3
<1>2. CASE Timeout
  <2>1. TypeOK'
    BY <1>2 DEF Timeout, TypeOK
  <2>2. Few' /\ OneStory' /\ Grants' \subseteq Grants
    BY <1>2, <2>1, QuietKInv DEF Timeout
  <2>3. Rest'
    BY <1>2, <2>2 DEF Timeout, Asking, Writing, AckAnswersRequest
  <2> QED
    BY <2>1, <2>2, <2>3
<1>3. CASE Backoff
  <2>1. TypeOK'
    BY <1>3 DEF Backoff, TypeOK
  <2>2. Few' /\ OneStory' /\ Grants' \subseteq Grants
    BY <1>3, <2>1, QuietKInv DEF Backoff
  <2>3. Rest'
    BY <1>3, <2>2 DEF Backoff, Asking, Writing, AckAnswersRequest
  <2> QED
    BY <2>1, <2>2, <2>3
<1>4. CASE PersistLease
  <2>1. TypeOK'
    <3>1. ack \in Msg
      BY <1>4 DEF PersistLease, Writing, TypeOK
    <3>2. ack.ip \in IPs \cup {None}
      BY <3>1 DEF Msg
    <3> QED
      BY <1>4, <3>2 DEF PersistLease, TypeOK
  <2>2. Few' /\ OneStory' /\ Grants' \subseteq Grants
    BY <1>4, <2>1, QuietKInv DEF PersistLease
  <2>3. Rest'
    BY <1>4, <2>2 DEF PersistLease, Asking, Writing, AckAnswersRequest
  <2> QED
    BY <2>1, <2>2, <2>3
<1>5. CASE PersistAck
  <2>1. TypeOK'
    BY <1>5, Bounds DEF PersistAck, TypeOK
  <2>2. Few' /\ OneStory' /\ Grants' \subseteq Grants
    BY <1>5, <2>1, QuietKInv DEF PersistAck
  <2>3. Rest'
    BY <1>5, <2>2 DEF PersistAck, Asking, Writing, AckAnswersRequest
  <2> QED
    BY <2>1, <2>2, <2>3
<1>6. CASE Renew
  <2>1. TypeOK'
    BY <1>6 DEF Renew, TypeOK
  <2>2. Few' /\ OneStory' /\ Grants' \subseteq Grants
    BY <1>6, <2>1, QuietKInv DEF Renew
  <2>3. Rest'
    BY <1>6, <2>2 DEF Renew, Asking, Writing, AckAnswersRequest
  <2> QED
    BY <2>1, <2>2, <2>3
<1>7. CASE Healthy
  <2>1. TypeOK'
    BY <1>7, Bounds DEF Healthy, TypeOK
  <2>2. Few' /\ OneStory' /\ Grants' \subseteq Grants
    BY <1>7, <2>1, QuietKInv DEF Healthy
  <2>3. Rest'
    BY <1>7, <2>2 DEF Healthy, Asking, Writing, AckAnswersRequest
  <2> QED
    BY <2>1, <2>2, <2>3
<1>8. CASE Unhealthy
  <2>1. TypeOK'
    BY <1>8, Bounds DEF Unhealthy, TypeOK
  <2>2. Few' /\ OneStory' /\ Grants' \subseteq Grants
    BY <1>8, <2>1, QuietKInv DEF Unhealthy
  <2>3. Rest'
    BY <1>8, <2>2 DEF Unhealthy, Asking, Writing, AckAnswersRequest
  <2> QED
    BY <2>1, <2>2, <2>3
<1>9. CASE Release
  <2>1. TypeOK'
    BY <1>9 DEF Release, TypeOK
  <2>2. Few' /\ OneStory' /\ Grants' \subseteq Grants
    BY <1>9, <2>1, QuietKInv DEF Release
  <2>3. Rest'
    <3>1. pc = "bound" /\ pc' = "exited" /\ asked' = asked /\ asked = None
      BY <1>9 DEF Release, TakeUsr2, Asking
    <3> QED
      BY <3>1 DEF Asking, Writing, AckAnswersRequest
  <2> QED
    BY <2>1, <2>2, <2>3
<1>10. CASE Supervise
  <2>1. TypeOK'
    BY <1>10 DEF Supervise, TypeOK
  <2>2. Few' /\ OneStory' /\ Grants' \subseteq Grants
    BY <1>10, <2>1, QuietKInv DEF Supervise
  <2>3. Rest'
    BY <1>10, <2>2 DEF Supervise, Asking, Writing, AckAnswersRequest
  <2> QED
    BY <2>1, <2>2, <2>3
<1>11. ASSUME NEW m \in toClient, AcceptNak(m) PROVE KInv'
  <2>1. TypeOK'
    BY <1>11 DEF AcceptNak, Read, TypeOK
  <2>2. Few' /\ OneStory' /\ Grants' \subseteq Grants
    BY <1>11, <2>1, QuietKInv DEF AcceptNak, Read
  <2>3. Rest'
    BY <1>11, <2>2 DEF AcceptNak, Read, Asking, Writing, AckAnswersRequest
  <2> QED
    BY <2>1, <2>2, <2>3
<1>12. ASSUME NEW m \in toClient, Skip(m) PROVE KInv'
  <2>1. TypeOK'
    BY <1>12 DEF Skip, TypeOK
  <2>2. Few' /\ OneStory' /\ Grants' \subseteq Grants
    BY <1>12, <2>1, QuietKInv DEF Skip
  <2>3. Rest'
    BY <1>12, <2>2 DEF Skip, Asking, Writing, AckAnswersRequest
  <2> QED
    BY <2>1, <2>2, <2>3
<1>13. CASE Usr2
  <2>1. TypeOK'
    BY <1>13 DEF Usr2, TypeOK
  <2>2. Few' /\ OneStory' /\ Grants' \subseteq Grants
    BY <1>13, <2>1, QuietKInv DEF Usr2
  <2>3. Rest'
    BY <1>13, <2>2 DEF Usr2, Asking, Writing, AckAnswersRequest
  <2> QED
    BY <2>1, <2>2, <2>3
<1>14. CASE LoseMessage
  <2>1. TypeOK'
    BY <1>14 DEF LoseMessage, TypeOK
  <2>2. Few' /\ OneStory' /\ Grants' \subseteq Grants
    BY <1>14, <2>1, QuietKInv DEF LoseMessage
  <2>3. Rest'
    BY <1>14, <2>2 DEF LoseMessage, Asking, Writing, AckAnswersRequest
  <2> QED
    BY <2>1, <2>2, <2>3
<1>15. CASE ChangeServer
  <2>1. TypeOK'
    BY <1>15, Bounds DEF ChangeServer, TypeOK
  <2>2. Few' /\ OneStory' /\ Grants' \subseteq Grants
    BY <1>15, <2>1, QuietKInv DEF ChangeServer
  <2>3. Rest'
    BY <1>15, <2>2 DEF ChangeServer, Asking, Writing, AckAnswersRequest
  <2> QED
    BY <2>1, <2>2, <2>3
<1>16. CASE SendRequest \/ SendDiscover
  BY <1>16, StepSend
<1>17. ASSUME NEW m \in toClient, AcceptOffer(m) PROVE KInv'
  BY <1>17, StepOffer
<1>18. ASSUME NEW m \in toClient, AcceptAck(m) PROVE KInv'
  BY <1>18, StepAck
<1>19. CASE Answer
  BY <1>19, StepAnswer
<1>20. CASE ReleasePanics
  BY <1>20, StopKInv DEF ReleasePanics, TypeOK
<1>21. CASE ReleaseFails \/ Die
  BY <1>21, StopKInv, FailTypes DEF ReleaseFails, Die
<1>22. CASE UNCHANGED vars
  <2>1. TypeOK'
    BY <1>22 DEF vars, TypeOK
  <2>2. Few' /\ OneStory' /\ Grants' \subseteq Grants
    BY <1>22, <2>1, QuietKInv DEF vars
  <2>3. Rest'
    BY <1>22, <2>2 DEF vars, Asking, Writing, AckAnswersRequest
  <2> QED
    BY <2>1, <2>2, <2>3
<1> QED
  BY <1>1, <1>2, <1>3, <1>4, <1>5, <1>6, <1>7, <1>8, <1>9, <1>10, <1>11, <1>12, <1>13, <1>14, <1>15, <1>16, <1>17, <1>18, <1>19, <1>20, <1>21, <1>22
  DEF Next, ClientNext

LEMMA Invariance == Spec => []KInv
  BY InitKInv, StepKInv, PTL DEF Spec

-----------------------------------------------------------------------------
(* The theorems *)

\* The state has its types; the count of unhealthy cycles stays within its limit.
THEOREM Dhcp4TypeCorrect == Spec => []TypeOK
  BY Invariance, PTL DEF KInv

\* The DHCPACK that is taken over answers the last DHCPREQUEST, with any number of
\* late messages and of changes of the provider, although a renewal has the id of
\* the exchange that led to the lease.
THEOREM AckIsAnswer == Spec => []AckAnswersRequest
  BY Invariance, PTL DEF KInv

\* Timeouts, errors and late messages do not make the client forget its lease.
THEOREM LeaseNotForgotten == Spec => ForgottenForAReason
<1> DEFINE Reason == ack # None /\ ack' = None =>
                       \/ \E m \in toClient : m.type = "nak" /\ m.xid = ack.xid
                       \/ pc' \in {"exited", "dead"}
                       \/ unhealthy' = UnhealthyLimit
<1>1. KInv /\ [Next]_vars => [Reason]_vars
  <2> SUFFICES ASSUME KInv, Next, ack # None, ack' = None
               PROVE  \/ \E m \in toClient : m.type = "nak" /\ m.xid = ack.xid
                      \/ pc' \in {"exited", "dead"}
                      \/ unhealthy' = UnhealthyLimit
    OBVIOUS
  <2>1. ASSUME NEW m \in toClient, AcceptNak(m)
        PROVE  m.type = "nak" /\ m.xid = ack.xid
    BY <2>1 DEF AcceptNak, KInv, Asking
  <2>2. CASE Unhealthy
    BY <2>2, Bounds DEF Unhealthy, KInv, TypeOK
  <2>3. CASE Release \/ ReleasePanics \/ ReleaseFails \/ Die
    BY <2>3 DEF Release, ReleasePanics, ReleaseFails, Die, Stop
  <2>4. ASSUME NEW m \in toClient, AcceptAck(m) PROVE FALSE
    BY <2>4, Bounds DEF AcceptAck, KInv, TypeOK
  <2>5. CASE Start
    BY <2>5 DEF Start, KInv, Asking
  <2>6. ack' = ack \/ Start \/ Unhealthy \/ Release \/ ReleasePanics \/ ReleaseFails \/ Die
        \/ \E m \in toClient : AcceptNak(m) \/ AcceptAck(m)
    BY DEF Next, ClientNext, SendRequest, SendDiscover, Timeout, Backoff, AcceptOffer, Skip,
           PersistLease, PersistAck, Renew, Healthy, Supervise, Usr2, Answer, LoseMessage,
           ChangeServer, memory, files
  <2> QED
    BY <2>1, <2>2, <2>3, <2>4, <2>5, <2>6
<1> QED
  BY <1>1, Invariance, PTL DEF Spec, ForgottenForAReason
=============================================================================
