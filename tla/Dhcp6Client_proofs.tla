------------------------- MODULE Dhcp6Client_proofs -------------------------
(***************************************************************************)
(* Proofs about Dhcp6Client, for any number of servers, any leases and a   *)
(* network that delays, reorders, duplicates and loses messages.           *)
(***************************************************************************)
EXTENDS Dhcp6Client, FiniteSetTheorems, TLAPS

\* There is always an id that is not in use.
Few == IsFiniteSet(toClient) /\ Cardinality(toClient) <= MaxLate + 1

\* What is being answered, and that the servers answer nothing else.
Asking ==
    /\ pc = "advertiseWait" => asked.type = "solicit"
    /\ pc = "replyWait" => asked.type = "request" /\ asked.id = advertise /\ advertise # None
    /\ pc = "releaseWait" => asked.type = "release"
    /\ asked # None => toServer \in {asked, None}

\* Every message names its server, and a REPLY under the id of the REQUEST that is
\* being answered is a lease of the server the REQUEST was for.
Answers ==
    /\ \A m \in toClient : m.id # None
    /\ pc = "replyWait" =>
         \A m \in toClient : (m.xid = asked.xid /\ m.type = "reply")
                                => m.id = advertise /\ m.lease # None

\* A bound client has a lease, and a process starts after a wait.
Leased == pc \in {"persist", "bound", "releaseWait"} => cfg # None
Rested == pc = "start" => waited

DInv ==
    /\ TypeOK
    /\ Few
    /\ Asking
    /\ Answers
    /\ Leased
    /\ Rested
    /\ ReleaseFindsServer
    /\ FileIsLease
    /\ Paced

LEMMA Bounds == MaxLate \in Nat /\ MaxFailures \in Nat
  BY Dhcp6Assumption

LEMMA InitDInv == Init => DInv
<1> SUFFICES ASSUME Init PROVE DInv
  OBVIOUS
<1>1. TypeOK
  <2>1. failures \in 0 .. MaxFailures
    BY Bounds DEF Init
  <2> QED
    BY <2>1 DEF Init, TypeOK
<1>2. Few
  BY FS_EmptySet, Bounds DEF Init, Few
<1> QED
  BY <1>1, <1>2
  DEF Init, DInv, Asking, Answers, Leased, Rested, ReleaseFindsServer, FileIsLease, Paced

-----------------------------------------------------------------------------
(* Messages and their ids *)

LEMMA ImageFinite ==
  ASSUME NEW S, IsFiniteSet(S)
  PROVE  /\ IsFiniteSet({m.xid : m \in S})
         /\ Cardinality({m.xid : m \in S}) <= Cardinality(S)
<1> DEFINE T == {m.xid : m \in S}
<1> DEFINE f == [m \in S |-> m.xid]
<1>1. f \in Surjection(S, T)
  BY DEF Surjection
<1> QED
  BY <1>1, FS_Surjection

LEMMA FreshXid ==
  ASSUME TypeOK, Few
  PROVE  NewXid \in Xids /\ NewXid \notin InUse
<1> DEFINE S == (toClient \cup {toServer}) \cup {asked}
<1> DEFINE U == toClient \cup ({toServer, asked} \ {None})
<1>1. Cardinality(toClient) \in Nat /\ MaxLate \in Nat
  BY FS_CardinalityType, Bounds DEF Few
<1>2. /\ IsFiniteSet(toClient \cup {toServer})
      /\ Cardinality(toClient \cup {toServer}) <= Cardinality(toClient) + 1
      /\ Cardinality(toClient \cup {toServer}) \in Nat
  BY <1>1, FS_AddElement, FS_CardinalityType DEF Few
<1>3. IsFiniteSet(S) /\ Cardinality(S) <= Cardinality(toClient) + 2 /\ Cardinality(S) \in Nat
  <2> HIDE <1>1
  <2>1. IsFiniteSet(S) /\ Cardinality(S) <= Cardinality(toClient \cup {toServer}) + 1
    BY <1>2, FS_AddElement
  <2>2. Cardinality(S) \in Nat
    BY <2>1, FS_CardinalityType
  <2> HIDE DEF S
  <2> QED
    BY <1>1, <1>2, <2>1, <2>2
<1>4. IsFiniteSet(U) /\ Cardinality(U) <= Cardinality(S)
  <2>1. U \in SUBSET S
    OBVIOUS
  <2> QED
    BY <1>3, <2>1, FS_Subset
<1>5. IsFiniteSet(InUse) /\ Cardinality(InUse) <= Cardinality(U)
  BY <1>4, ImageFinite DEF InUse
<1>6. Cardinality(InUse) <= MaxLate + 3
  <2>1. Cardinality(U) \in Nat /\ Cardinality(InUse) \in Nat
    BY <1>4, <1>5, FS_CardinalityType
  <2> HIDE DEF S, U
  <2> QED
    BY <1>1, <1>3, <1>4, <1>5, <2>1 DEF Few
<1>7. \E x \in Xids : x \notin InUse
  <2> SUFFICES ASSUME Xids \subseteq InUse PROVE FALSE
    OBVIOUS
  <2>1. IsFiniteSet(Xids) /\ Cardinality(Xids) <= Cardinality(InUse)
    BY <1>5, FS_Subset
  <2>2. Cardinality(Xids) \in Nat /\ Cardinality(InUse) \in Nat
    BY <2>1, <1>5, FS_CardinalityType
  <2> QED
    BY <1>1, <1>6, <2>1, <2>2, Dhcp6Assumption
<1> QED
  BY <1>7 DEF NewXid

\* Fewer messages are on their way.
LEMMA FewerFew ==
  ASSUME Few, toClient' \in SUBSET toClient
  PROVE  Few'
<1>1. Cardinality(toClient) \in Nat /\ MaxLate \in Nat
  BY FS_CardinalityType, Bounds DEF Few
<1>2. IsFiniteSet(toClient') /\ Cardinality(toClient') <= Cardinality(toClient)
  BY FS_Subset DEF Few
<1>3. Cardinality(toClient') \in Nat
  BY <1>2, FS_CardinalityType
<1> QED
  BY <1>1, <1>2, <1>3 DEF Few

\* One is added.
LEMMA ArriveFew ==
  ASSUME Few, NEW m, Arrive(m)
  PROVE  Few' /\ toClient' \subseteq toClient \cup {m}
<1>1. PICK late \in SUBSET toClient : Cardinality(late) <= MaxLate /\ toClient' = late \cup {m}
  BY DEF Arrive
<1>2. IsFiniteSet(late) /\ Cardinality(late) \in Nat /\ MaxLate \in Nat
  BY FS_Subset, FS_CardinalityType, Bounds DEF Few
<1>3. /\ IsFiniteSet(late \cup {m})
      /\ Cardinality(late \cup {m}) <= Cardinality(late) + 1
      /\ Cardinality(late \cup {m}) \in Nat
  BY <1>2, FS_AddElement, FS_CardinalityType
<1> QED
  BY <1>1, <1>2, <1>3 DEF Few

LEMMA SentType ==
  ASSUME TypeOK, Few, NEW type \in {"solicit", "request", "release"},
         NEW id \in Servers \cup {None}
  PROVE  /\ [type |-> type, xid |-> NewXid, id |-> id, lease |-> None, ok |-> TRUE] \in Msg
         /\ [type |-> type, xid |-> NewXid, id |-> id, lease |-> None, ok |-> TRUE] # None
<1>1. None \notin Msg
  BY Dhcp6Assumption
<1>2. [type |-> type, xid |-> NewXid, id |-> id, lease |-> None, ok |-> TRUE] \in Msg
  BY FreshXid DEF Msg
<1> QED
  BY <1>1, <1>2

LEMMA FailTypes == ASSUME TypeOK, Fail PROVE failures' \in 0 .. MaxFailures
  BY Bounds DEF TypeOK, Fail

\* A process that ends remembers nothing.
LEMMA StopDInv ==
  ASSUME DInv, Stop, failures' \in 0 .. MaxFailures, waited' = waited,
         toServer' = toServer, toClient' \in SUBSET toClient
  PROVE  DInv'
<1>1. Few'
  BY FewerFew DEF DInv
<1> QED
  BY <1>1 DEF DInv, Stop, TypeOK, Asking, Answers, Leased, Rested, ReleaseFindsServer,
              FileIsLease, Paced

-----------------------------------------------------------------------------
(* The steps *)

LEMMA StepClient ==
  ASSUME DInv, Client
  PROVE  DInv'
<1> USE DEF DInv, memory, net
<1> DEFINE Rest == /\ Asking /\ Answers /\ Leased /\ Rested
                   /\ ReleaseFindsServer /\ FileIsLease /\ Paced
<1> USE DEF Asking, Answers, Leased, Rested, ReleaseFindsServer, FileIsLease, Paced
<1>1. CASE Start
  <2>1. Few'
    BY <1>1, FewerFew DEF Start
  <2> QED
    BY <1>1, <2>1 DEF Start, TypeOK
<1>2. CASE Solicit
  <2>1. asked' \in Msg /\ asked' # None /\ asked'.type = "solicit" /\ toServer' = asked'
    BY <1>2, SentType DEF Solicit, Send
  <2>2. Few' /\ toClient' = toClient
    BY <1>2, FewerFew DEF Solicit, Send
  <2>3. TypeOK'
    BY <1>2, <2>1, <2>2 DEF Solicit, TypeOK
  <2> QED
    BY <1>2, <2>1, <2>2, <2>3 DEF Solicit
<1>3. CASE Timeout
  <2>1. Few'
    BY <1>3, FewerFew DEF Timeout
  <2> QED
    BY <1>3, <2>1 DEF Timeout, TypeOK
<1>4. CASE Backoff
  <2>1. Few'
    BY <1>4, FewerFew DEF Backoff
  <2> QED
    BY <1>4, <2>1 DEF Backoff, TypeOK
<1>5. CASE Persist
  <2>1. Few'
    BY <1>5, FewerFew DEF Persist
  <2> QED
    BY <1>5, <2>1 DEF Persist, TypeOK
<1>6. CASE Renew
  <2>1. Few'
    BY <1>6, FewerFew DEF Renew
  <2>2. cfg \in Leases /\ cfg.pause \in BOOLEAN
    BY <1>6, Dhcp6Assumption DEF Renew, TypeOK
  <2>3. waited' \in BOOLEAN /\ (waited' \/ ~cfg.pause)
    BY <1>6, <2>2 DEF Renew, TypeOK
  <2>4. TypeOK'
    BY <1>6, <2>3 DEF Renew, TypeOK
  <2>5. Paced'
    BY <1>6, <2>2, <2>3 DEF Renew
  <2> QED
    BY <1>6, <2>1, <2>4, <2>5 DEF Renew
<1>7. ASSUME NEW m \in toClient, Request(m) PROVE DInv'
  <2>1. m \in Msg /\ m.id \in Servers /\ m.id # None
    BY DEF TypeOK, Msg
  <2>2. /\ asked' \in Msg /\ asked' # None /\ asked'.type = "request" /\ asked'.id = m.id
        /\ toServer' = asked' /\ asked'.xid = NewXid
    BY <1>7, <2>1, SentType DEF Request
  <2>3. Few' /\ toClient' \in SUBSET toClient
    BY <1>7, FewerFew DEF Request
  <2>4. \A n \in toClient' : n.xid # asked'.xid
    BY <2>2, <2>3, FreshXid DEF InUse
  <2>5. TypeOK'
    BY <1>7, <2>1, <2>2, <2>3 DEF Request, TypeOK
  <2>6. Asking' /\ Answers'
    BY <1>7, <2>1, <2>2, <2>3, <2>4 DEF Request
  <2> QED
    BY <1>7, <2>3, <2>5, <2>6 DEF Request
<1>8. ASSUME NEW m \in toClient, Refused(m) PROVE DInv'
  BY <1>8, StopDInv DEF Refused, Receive, TypeOK
<1>9. ASSUME NEW m \in toClient, TakeReply(m) PROVE DInv'
  <2>1. toClient' \in SUBSET toClient /\ toServer' = toServer
    BY <1>9 DEF TakeReply, Receive
  <2>2. Few'
    BY <2>1, FewerFew
  <2>3. m.id = advertise /\ advertise # None /\ m.lease # None /\ m \in Msg
    BY <1>9 DEF TakeReply, Receive, Acceptable, Expected, TypeOK
  <2>4. m.lease \in Leases /\ m.id \in Servers
    BY <2>3 DEF Msg
  <2>5. cfg' = m.lease /\ grantor' = m.id /\ asked' = None /\ pc' \in {"backoff", "persist"}
    BY <1>9 DEF TakeReply
  <2>6. TypeOK'
    BY <1>9, <2>1, <2>4, <2>5 DEF TakeReply, TypeOK
  <2>7. Rest'
    BY <1>9, <2>1, <2>3, <2>4, <2>5 DEF TakeReply
  <2> QED
    BY <2>2, <2>6, <2>7
<1>10. ASSUME NEW m \in toClient, Released(m) PROVE DInv'
  <2>1. toClient' \in SUBSET toClient /\ toServer' = toServer
    BY <1>10 DEF Released, Receive
  <2>2. Few'
    BY <2>1, FewerFew
  <2> QED
    BY <1>10, <2>1, <2>2 DEF Released, TypeOK
<1>11. ASSUME NEW m \in toClient, Skip(m) PROVE DInv'
  <2>1. Few'
    BY <1>11, FewerFew DEF Skip
  <2> QED
    BY <1>11, <2>1 DEF Skip, TypeOK
<1>12. CASE Release
  <2>1. advertise \in Servers \cup {None}
    BY DEF TypeOK
  <2>2. asked' \in Msg /\ asked' # None /\ asked'.type = "release" /\ toServer' = asked'
    BY <1>12, <2>1, SentType DEF Release, Send
  <2>3. Few' /\ toClient' = toClient
    BY <1>12, FewerFew DEF Release, Send
  <2>4. TypeOK'
    BY <1>12, <2>2, <2>3 DEF Release, TypeOK
  <2> QED
    BY <1>12, <2>2, <2>3, <2>4 DEF Release
<1>13. CASE ReleaseFails
  BY <1>13, StopDInv DEF ReleaseFails, TypeOK
<1>14. CASE Die
  BY <1>14, StopDInv, FailTypes DEF Die
<1>15. CASE Supervise
  <2>1. Few'
    BY <1>15, FewerFew DEF Supervise
  <2> QED
    BY <1>15, <2>1 DEF Supervise, TypeOK
<1> QED
  BY <1>1, <1>2, <1>3, <1>4, <1>5, <1>6, <1>7, <1>8, <1>9, <1>10, <1>11, <1>12, <1>13,
     <1>14, <1>15 DEF Client

\* A message of a server to the one being answered, and with it an id that is new or
\* that of the message.
LEMMA ReplyDInv ==
  ASSUME DInv, NEW s \in Servers, NEW type \in {"advertise", "reply"},
         NEW lease \in Leases \cup {None}, NEW ok \in BOOLEAN,
         Reply(s, type, lease, ok), failures' \in 0 .. MaxFailures,
         (toServer.type = "request" /\ type = "reply") => toServer.id = s /\ lease # None
  PROVE  DInv'
<1> DEFINE n == [type |-> type, xid |-> toServer.xid, id |-> s, lease |-> lease, ok |-> ok]
<1>1. toServer # None /\ Arrive(n)
      /\ UNCHANGED <<pc, memory, asked, usr2, leaseFile, toServer, waited>>
  BY DEF Reply
<1>2. toServer \in Msg /\ n \in Msg
  BY <1>1 DEF DInv, TypeOK, Msg
<1>3. Few' /\ toClient' \subseteq toClient \cup {n}
  BY <1>1, ArriveFew DEF DInv
<1>4. TypeOK'
  BY <1>1, <1>2, <1>3 DEF DInv, TypeOK, memory
<1>5. s # None
  BY Dhcp6Assumption
<1>6. Answers'
  <2>1. \A m \in toClient' : m.id # None
    BY <1>3, <1>5 DEF DInv, Answers
  <2>2. ASSUME pc = "replyWait", NEW m \in toClient', m.xid = asked.xid, m.type = "reply"
        PROVE  m.id = advertise /\ m.lease # None
    <3>1. CASE m \in toClient
      BY <2>2, <3>1 DEF DInv, Answers
    <3>2. CASE m = n
      <4>1. toServer = asked /\ asked.type = "request" /\ asked.id = advertise
        BY <1>1, <2>2 DEF DInv, Asking, TypeOK
      <4> QED
        BY <2>2, <3>2, <4>1
    <3> QED
      BY <1>3, <3>1, <3>2
  <2> QED
    BY <1>1, <2>1, <2>2 DEF Answers, memory
<1> QED
  BY <1>1, <1>3, <1>4, <1>6
  DEF DInv, memory, Asking, Leased, Rested, ReleaseFindsServer, FileIsLease, Paced

LEMMA StepDInv == DInv /\ [Next]_vars => DInv'
<1> SUFFICES ASSUME DInv, [Next]_vars PROVE DInv'
  OBVIOUS
<1> DEFINE Rest == /\ Asking /\ Answers /\ Leased /\ Rested
                   /\ ReleaseFindsServer /\ FileIsLease /\ Paced
<1>1. CASE Client
  BY <1>1, StepClient
<1>2. CASE Usr2
  <2>1. Few'
    BY <1>2, FewerFew DEF Usr2, net, DInv
  <2>2. TypeOK'
    BY <1>2 DEF Usr2, net, memory, DInv, TypeOK
  <2> QED
    BY <1>2, <2>1, <2>2 DEF Usr2, net, memory, DInv, Asking, Answers, Leased, Rested,
                            ReleaseFindsServer, FileIsLease, Paced
<1>3. CASE LoseMessage
  <2>1. toServer' \in {toServer, None} /\ toClient' \in SUBSET toClient
    BY <1>3 DEF LoseMessage
  <2>2. Few'
    BY <2>1, FewerFew DEF DInv
  <2>3. UNCHANGED <<pc, memory, asked, usr2, leaseFile, waited, failures>>
    BY <1>3 DEF LoseMessage
  <2> HIDE <1>3
  <2>4. TypeOK'
    BY <2>1, <2>3 DEF memory, DInv, TypeOK
  <2> QED
    BY <2>1, <2>2, <2>3, <2>4 DEF memory, DInv, Asking, Answers, Leased, Rested,
                                  ReleaseFindsServer, FileIsLease, Paced
<1>4. ASSUME NEW s \in Servers, Advertise(s) PROVE DInv'
  BY <1>4, ReplyDInv DEF Advertise, DInv, TypeOK
<1>5. ASSUME NEW s \in Servers, Refuse(s) PROVE DInv'
  BY <1>5, ReplyDInv, FailTypes DEF Refuse, DInv
<1>6. ASSUME NEW s \in Servers, Grant(s) PROVE DInv'
  <2>1. PICK l \in Leases : Reply(s, "reply", l, TRUE)
    BY <1>6 DEF Grant
  <2>2. toServer.id = s /\ failures' \in 0 .. MaxFailures /\ l # None
    BY <1>6, Dhcp6Assumption DEF Grant, DInv, TypeOK
  <2> QED
    BY <2>1, <2>2, ReplyDInv
<1>7. ASSUME NEW s \in Servers, ConfirmRelease(s) PROVE DInv'
  BY <1>7, ReplyDInv DEF ConfirmRelease, DInv, TypeOK
<1>8. CASE UNCHANGED vars
  <2>1. Few'
    BY <1>8, FewerFew DEF vars, net, DInv
  <2>2. TypeOK'
    BY <1>8 DEF vars, net, memory, DInv, TypeOK
  <2> QED
    BY <1>8, <2>1, <2>2 DEF vars, net, memory, DInv, Asking, Answers, Leased, Rested,
                            ReleaseFindsServer, FileIsLease, Paced
<1> QED
  BY <1>1, <1>2, <1>3, <1>4, <1>5, <1>6, <1>7, <1>8 DEF Next, Environment

LEMMA Invariance == Spec => []DInv
  BY InitDInv, StepDInv, PTL DEF Spec

-----------------------------------------------------------------------------
(* The theorems *)

\* The state has its types, and a message is being answered in the waits only.
THEOREM Dhcp6TypeCorrect == Spec => []TypeOK
  BY Invariance, PTL DEF DInv

\* A RELEASE goes to the server that granted the lease on disk, whichever of any
\* number of servers answers first and whatever arrives late.
THEOREM ReleaseReachesServer == Spec => []ReleaseFindsServer
  BY Invariance, PTL DEF DInv

\* While the client is bound the file has the lease of the last exchange.
THEOREM LeaseOnDisk == Spec => []FileIsLease
  BY Invariance, PTL DEF DInv

\* Between two SOLICITs there is a wait, unless a lease has no time to wait for.
THEOREM SolicitsPaced == Spec => []Paced
  BY Invariance, PTL DEF DInv
=============================================================================
