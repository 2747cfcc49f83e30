------------------------------ MODULE Captured ------------------------------
(***************************************************************************)
(* captured: the packets of two interfaces are kept in a ring buffer, and  *)
(* an ssh session is sent what the buffer holds and then what arrives.     *)
(*                                                                         *)
(* External: the kernel, which queues a packet on every open handle of its *)
(* interface, and the ssh clients.  A packet is the number of its arrival. *)
(***************************************************************************)
EXTENDS Naturals, Sequences, FiniteSets, SequencesExt

CONSTANTS
    Interfaces,    \* uplink0 and lan0
    Sessions,      \* "exec" requests of ssh clients
    None,
    Size,          \* the 50000 of newPacketRingBuffer
    MaxPackets,    \* bound on the packets that arrive
    MaxFailures    \* bound on handles that cannot be opened and on clients that leave

Main == "main"
Captures == Sessions \cup {Main}   \* calls of capturePackets
Packets == 1 .. MaxPackets

ASSUME CapturedAssumption ==
    /\ Size \in Nat \ {0}
    /\ MaxPackets \in Nat /\ MaxFailures \in Nat
    /\ Main \notin Sessions /\ None \notin Sessions \cup Packets

VARIABLES
    from,       \* the interface of each packet that has arrived
    open,       \* the handles of each capture
    queue,      \* packets on each handle, or on their way from it to the channel
    hold,       \* a packet that logic has received and not yet written, or None
    ring, next, \* the ring's slots, and the slot r points to
    mu,         \* the session that holds the buffer's lock
    pc,         \* where each session is
    buffered,   \* what packetsLocked returned to it and is not yet sent
    out,        \* what it has been sent
    written,    \* the packets written into the ring (history)
    failures

buffer == <<ring, next, written>>
session == <<pc, buffered, out>>
vars == <<from, open, queue, hold, buffer, mu, session, failures>>

Slots == 0 .. Size - 1

\* The end of the ring is joined to its beginning.
Slot(k) == IF k < Size THEN k ELSE k - Size

Init ==
    /\ from = <<>>
    /\ open = [c \in Captures |-> IF c = Main THEN Interfaces ELSE {}]
    /\ queue = [c \in Captures |-> [i \in Interfaces |-> <<>>]]
    /\ hold = None
    /\ ring = [k \in Slots |-> None] /\ next = 0
    /\ mu = None
    /\ pc = [s \in Sessions |-> "idle"]
    /\ buffered = [s \in Sessions |-> <<>>]
    /\ out = [s \in Sessions |-> <<>>]
    /\ written = <<>>
    /\ failures = 0

Arrive(i) ==
    /\ Len(from) < MaxPackets
    /\ from' = Append(from, i)
    /\ queue' = [c \in Captures |->
           IF i \in open[c] THEN [queue[c] EXCEPT ![i] = Append(@, Len(from'))] ELSE queue[c]]
    /\ UNCHANGED <<open, hold, buffer, mu, session, failures>>

Take(c, i) ==
    /\ queue[c][i] # <<>>
    /\ queue' = [queue EXCEPT ![c][i] = Tail(@)]

-----------------------------------------------------------------------------
(* logic: the channel into the ring *)

Receive(i) ==
    /\ hold = None
    /\ Take(Main, i)
    /\ hold' = Head(queue[Main][i])
    /\ UNCHANGED <<from, open, buffer, mu, session, failures>>

\* Fault: the slots end.
WritePacketStraight ==
    /\ hold # None
    /\ mu = None
    /\ ring' = [ring EXCEPT ![next] = hold]
    /\ next' = next + 1
    /\ written' = Append(written, hold)
    /\ hold' = None
    /\ UNCHANGED <<from, open, queue, mu, session, failures>>

WritePacket ==
    /\ hold # None
    /\ mu = None
    /\ ring' = [ring EXCEPT ![next] = hold]
    /\ next' = Slot(next + 1)
    /\ written' = Append(written, hold)
    /\ hold' = None
    /\ UNCHANGED <<from, open, queue, mu, session, failures>>

\* Fault: it starts from the first slot.
AroundFromFirst == [k \in 1 .. Size |-> ring[k - 1]]

\* packetsLocked: once around the ring from where r points to, past the slots
\* that are still empty.
Around == [k \in 1 .. Size |-> ring[Slot(next + k - 1)]]
Collected[k \in 0 .. Size] ==
    IF k = 0 THEN <<>>
    ELSE IF Around[k] = None THEN Collected[k - 1] ELSE Append(Collected[k - 1], Around[k])
PacketsLocked == Collected[Size]

-----------------------------------------------------------------------------
(* request: the session of an ssh client *)

\* Fault: the mutex is not taken.
LockNothing(s) ==
    /\ pc[s] = "idle"
    /\ pc' = [pc EXCEPT ![s] = "open"]
    /\ UNCHANGED <<from, open, queue, hold, buffer, mu, buffered, out, failures>>

Lock(s) ==
    /\ pc[s] = "idle"
    /\ mu = None
    /\ mu' = s
    /\ pc' = [pc EXCEPT ![s] = "open"]
    /\ UNCHANGED <<from, open, queue, hold, buffer, buffered, out, failures>>

\* capturePackets opens one handle after the other.
OpenHandle(s) ==
    /\ pc[s] = "open"
    /\ \E i \in Interfaces \ open[s] : open' = [open EXCEPT ![s] = @ \cup {i}]
    /\ UNCHANGED <<from, queue, hold, buffer, mu, session, failures>>

Copy(s) ==
    /\ pc[s] = "open"
    /\ open[s] = Interfaces
    /\ buffered' = [buffered EXCEPT ![s] = PacketsLocked]
    /\ mu' = None
    /\ pc' = [pc EXCEPT ![s] = "replay"]
    /\ UNCHANGED <<from, open, queue, hold, buffer, out, failures>>

\* The lock is released before the error is returned, and the context ends the
\* captures that were started.
Close(s) ==
    /\ open' = [open EXCEPT ![s] = {}]
    /\ queue' = [queue EXCEPT ![s] = [i \in Interfaces |-> <<>>]]
    /\ pc' = [pc EXCEPT ![s] = "closed"]

OpenFails(s) ==
    /\ failures < MaxFailures /\ failures' = failures + 1
    /\ pc[s] = "open"
    /\ open[s] # Interfaces
    /\ mu' = None
    /\ Close(s)
    /\ UNCHANGED <<from, hold, buffer, buffered, out>>

Replay(s) ==
    /\ pc[s] = "replay"
    /\ buffered[s] # <<>>
    /\ out' = [out EXCEPT ![s] = Append(@, Head(buffered[s]))]
    /\ buffered' = [buffered EXCEPT ![s] = Tail(@)]
    /\ UNCHANGED <<from, open, queue, hold, buffer, mu, pc, failures>>

\* Fault: every interface is waited for.
StreamAll(s, i) ==
    /\ pc[s] = "replay"
    /\ buffered[s] = <<>>
    /\ \A j \in Interfaces : queue[s][j] # <<>>
    /\ Take(s, i)
    /\ out' = [out EXCEPT ![s] = Append(@, Head(queue[s][i]))]
    /\ UNCHANGED <<from, open, hold, buffer, mu, pc, buffered, failures>>

Stream(s, i) ==
    /\ pc[s] = "replay"
    /\ buffered[s] = <<>>
    /\ Take(s, i)
    /\ out' = [out EXCEPT ![s] = Append(@, Head(queue[s][i]))]
    /\ UNCHANGED <<from, open, hold, buffer, mu, pc, buffered, failures>>

\* The client has left: a write fails.
Leave(s) ==
    /\ failures < MaxFailures /\ failures' = failures + 1
    /\ pc[s] = "replay"
    /\ Close(s)
    /\ buffered' = [buffered EXCEPT ![s] = <<>>]
    /\ UNCHANGED <<from, hold, buffer, mu, out>>

Next ==
    \/ \E i \in Interfaces : Arrive(i) \/ Receive(i)
    \/ WritePacket
    \/ \E s \in Sessions :
         \/ Lock(s) \/ OpenHandle(s) \/ Copy(s) \/ OpenFails(s) \/ Replay(s) \/ Leave(s)
         \/ \E i \in Interfaces : Stream(s, i)

Spec == Init /\ [][Next]_vars

\* Every goroutine runs; the mutex is handed to whom waits for it; a channel
\* that is ready again and again delivers from each of its senders.
FairSpec ==
    /\ Spec
    /\ SF_vars(WritePacket)
    /\ \A i \in Interfaces : SF_vars(Receive(i))
    /\ \A s \in Sessions :
         /\ SF_vars(Lock(s))
         /\ WF_vars(OpenHandle(s)) /\ WF_vars(Copy(s)) /\ WF_vars(Replay(s))
         /\ \A i \in Interfaces : SF_vars(Stream(s, i))

-----------------------------------------------------------------------------
(* Correctness *)

TypeOK ==
    /\ from \in Seq(Interfaces) /\ Len(from) <= MaxPackets
    /\ open \in [Captures -> SUBSET Interfaces]
    /\ queue \in [Captures -> [Interfaces -> Seq(Packets)]]
    /\ hold \in Packets \cup {None}
    /\ ring \in [Slots -> Packets \cup {None}] /\ next \in Slots
    /\ mu \in Sessions \cup {None}
    /\ pc \in [Sessions -> {"idle", "open", "replay", "closed"}]
    /\ buffered \in [Sessions -> Seq(Packets)] /\ out \in [Sessions -> Seq(Packets)]
    /\ written \in Seq(Packets)
    /\ failures \in 0 .. MaxFailures

\* The buffer returns the latest packets written, oldest first: all of them
\* until it is full, and Size of them from then on.
BufferIsLatest ==
    PacketsLocked =
        SubSeq(written, IF Len(written) > Size THEN Len(written) - Size + 1 ELSE 1, Len(written))

\* No packet is sent to a session twice, and the packets of an interface are sent
\* in the order of their arrival: what is replayed was in the buffer before the
\* session's handles were opened, and what is streamed came after.
SentInOrder ==
    \A s \in Sessions : \A j, k \in DOMAIN out[s] :
        (j < k /\ from[out[s][j]] = from[out[s][k]]) => out[s][j] < out[s][k]

\* What is on a session's handle, whether it arrived before or after the replay
\* began, is sent, unless the client leaves.
Delivered ==
    \A s \in Sessions, p \in Packets :
        (\E i \in Interfaces : p \in ToSet(queue[s][i]))
            ~> (p \in ToSet(out[s]) \/ pc[s] = "closed")
=============================================================================
