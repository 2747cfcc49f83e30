-------------------------- MODULE Captured_proofs --------------------------
(***************************************************************************)
(* Proofs about captured, for any interfaces, sessions, ring size, packets *)
(* and failures: the ring holds the latest packets, and a session is sent  *)
(* the packets of an interface once and in order.  And the proof about the *)
(* pool of its ssh listeners, which the web servers of the other processes *)
(* have too: its map leads to live listeners only, for any number of hosts *)
(* and listeners.                                                          *)
(***************************************************************************)
EXTENDS Captured, ListenerPool, SequenceTheorems, WellFoundedInduction, TLAPS

-----------------------------------------------------------------------------
(* The ring *)

\* The slots from where r points to hold the latest packets, the latest in the last.
RingTrue ==
    \A k \in 1 .. Size :
        Around[k] = LET j == Len(written) - Size + k IN IF j > 0 THEN written[j] ELSE None

Oldest == IF Len(written) > Size THEN Len(written) - Size + 1 ELSE 1
Latest(k) == SubSeq(written, Oldest, Len(written) - Size + k)

LEMMA SubSeqNext ==
  ASSUME NEW S, NEW s \in Seq(S), NEW m \in 1 .. Len(s), NEW n \in m .. Len(s)
  PROVE  SubSeq(s, m, n) = Append(SubSeq(s, m, n - 1), s[n])
<1>1. Len(s) \in Nat /\ m \in Int /\ n \in Int /\ n - 1 \in Int /\ n \in 1 .. Len(s)
  BY LenProperties
<1>2. SubSeq(s, m, n) = SubSeq(s, m, n - 1) \o <<s[n]>>
  BY SubSeqRecursiveSecond
<1>3. \A i \in m .. n - 1 : s[i] \in S
  BY <1>1, ElementOfSeq
<1>4. SubSeq(s, m, n - 1) \in Seq(S)
  BY <1>1, <1>3, SubSeqProperties
<1>5. s[n] \in S
  BY <1>1, ElementOfSeq
<1> QED
  BY <1>2, <1>4, <1>5, AppendIsConcat

\* One slot more, or one packet more.
LEMMA LatestNext ==
  ASSUME TypeOK, NEW k \in 1 .. Size
  PROVE  LET j == Len(written) - Size + k IN
         /\ j > 0 => Latest(k) = Append(Latest(k - 1), written[j]) /\ written[j] \in Packets
         /\ j <= 0 => Latest(k) = Latest(k - 1)
<1> DEFINE j == Len(written) - Size + k
<1>1. Size \in Nat /\ Size > 0 /\ written \in Seq(Packets) /\ Len(written) \in Nat
  BY CapturedAssumption, LenProperties DEF CapturedAssumption, TypeOK
<1>2. Oldest \in 1 .. Len(written) + 1 /\ j \in Int /\ (j > 0 => Oldest <= j /\ j \in 1 .. Len(written))
  BY <1>1 DEF Oldest
<1> DEFINE i == Len(written) - Size + (k - 1)
<1>3. i = j - 1
  BY <1>1
<1> HIDE DEF i, j
<1>4. Latest(k) = SubSeq(written, Oldest, j) /\ Latest(k - 1) = SubSeq(written, Oldest, j - 1)
  BY <1>3 DEF Latest, i, j
<1> SUFFICES /\ j > 0 => Latest(k) = Append(Latest(k - 1), written[j]) /\ written[j] \in Packets
             /\ j <= 0 => Latest(k) = Latest(k - 1)
  BY DEF j
<1>5. CASE j > 0
  <2>1. written[j] \in Packets
    BY <1>1, <1>2, <1>5, ElementOfSeq
  <2>2. Oldest \in 1 .. Len(written) /\ j \in Oldest .. Len(written)
    BY <1>1, <1>2, <1>5
  <2>3. SubSeq(written, Oldest, j) = Append(SubSeq(written, Oldest, j - 1), written[j])
    BY <1>1, <2>2, SubSeqNext
  <2> QED
    BY <1>2, <1>4, <1>5, <2>1, <2>3
<1>6. CASE j <= 0
  <2>1. Oldest \in Int /\ j \in Int /\ j - 1 \in Int /\ j < Oldest /\ j - 1 < Oldest
    BY <1>1, <1>2, <1>6
  <2>2. SubSeq(written, Oldest, j) = <<>> /\ SubSeq(written, Oldest, j - 1) = <<>>
    BY <2>1, SubSeqEmpty
  <2> QED
    BY <1>2, <1>4, <1>6, <2>2
<1> QED
  BY <1>2, <1>5, <1>6

LEMMA CollectedIs ==
  ASSUME TypeOK, RingTrue
  PROVE  PacketsLocked = Latest(Size)
<1>1. Size \in Nat /\ Size > 0 /\ written \in Seq(Packets) /\ Len(written) \in Nat
  BY CapturedAssumption, LenProperties DEF CapturedAssumption, TypeOK
<1> DEFINE Loop(f) == [k \in 0 .. Size |->
                         IF k = 0 THEN <<>>
                         ELSE IF Around[k] = None THEN f[k - 1] ELSE Append(f[k - 1], Around[k])]
           g == [k \in 0 .. Size |-> Latest(k)]
<1>2. g = Loop(g)
  <2>1. Latest(0) = <<>>
    <3>1. Oldest \in Int /\ Len(written) - Size + 0 \in Int /\ Len(written) - Size + 0 < Oldest
      BY <1>1 DEF Oldest
    <3> QED
      BY <3>1, SubSeqEmpty DEF Latest
  <2>2. ASSUME NEW k \in 1 .. Size
        PROVE  Latest(k) = IF Around[k] = None THEN g[k - 1] ELSE Append(g[k - 1], Around[k])
    <3>1. g[k - 1] = Latest(k - 1)
      BY <1>1
    <3> DEFINE j == Len(written) - Size + k
    <3>2. /\ j > 0 => Latest(k) = Append(Latest(k - 1), written[j]) /\ written[j] \in Packets
          /\ j <= 0 => Latest(k) = Latest(k - 1)
      BY LatestNext
    <3>3. Around[k] = IF j > 0 THEN written[j] ELSE None
      BY DEF RingTrue
    <3>4. None \notin Packets /\ (j > 0 \/ j <= 0)
      BY <1>1, CapturedAssumption DEF CapturedAssumption
    <3> HIDE DEF j, g
    <3> QED
      BY <3>1, <3>2, <3>3, <3>4
  <2> QED
    BY <1>1, <2>1, <2>2
<1>3. Collected = Loop(Collected)
  BY <1>2 DEF Collected
<1>4. ASSUME NEW f, f = Loop(f) PROVE \A k \in 0 .. Size : f[k] = g[k]
  <2> SUFFICES ASSUME NEW n \in 0 .. Size, f[n] # g[n] PROVE FALSE
    OBVIOUS
  <2> DEFINE bad == {k \in 0 .. Size : f[k] # g[k]}
  <2>1. bad \subseteq Nat /\ bad # {}
    OBVIOUS
  <2>2. PICK m \in bad : \A y \in bad : <<y, m>> \notin OpToRel(<, Nat)
    BY <2>1, WFMin, NatLessThanWellFounded
  <2>3. \A y \in bad : ~(y < m)
    BY <2>1, <2>2, Zenon DEF OpToRel
  <2>4. m \in 0 .. Size /\ f[m] # g[m]
    OBVIOUS
  <2>5. m # 0
    BY <1>1, <1>2, <1>4, <2>4
  <2>6. m - 1 \in 0 .. Size /\ m - 1 < m
    BY <1>1, <2>4, <2>5
  <2>7. f[m - 1] = g[m - 1]
    BY <2>3, <2>6
  <2> HIDE DEF g, bad
  <2>8. /\ f[m] = IF Around[m] = None THEN f[m - 1] ELSE Append(f[m - 1], Around[m])
        /\ g[m] = IF Around[m] = None THEN g[m - 1] ELSE Append(g[m - 1], Around[m])
    BY <1>2, <1>4, <2>4, <2>5
  <2> QED
    BY <2>4, <2>7, <2>8
<1>5. \A k \in 0 .. Size : Collected[k] = g[k]
  <2> HIDE DEF Loop, g
  <2> QED
    BY <1>3, <1>4
<1>6. Size \in 0 .. Size /\ g[Size] = Latest(Size)
  BY <1>1
<1> HIDE DEF g
<1> QED
  BY <1>5, <1>6 DEF PacketsLocked

-----------------------------------------------------------------------------
(* The order of the packets *)

\* By f, the interface of a packet: those of an interface follow each other in s;
\* those of an interface in s are earlier than those of that interface in t.
Ordered(f, s) == \A j, k \in DOMAIN s : (j < k /\ f[s[j]] = f[s[k]]) => s[j] < s[k]
Before(f, s, t) == \A j \in DOMAIN s, k \in DOMAIN t : f[s[j]] = f[t[k]] => s[j] < t[k]

\* The packets of s have arrived.
Arrived(s) == \A k \in DOMAIN s : s[k] <= Len(from)

Held == IF hold = None THEN <<>> ELSE <<hold>>

AllArrived ==
    /\ Arrived(written) /\ Arrived(Held)
    /\ \A c \in Captures, i \in Interfaces : Arrived(queue[c][i])
    /\ \A s \in Sessions : Arrived(buffered[s]) /\ Arrived(out[s])

\* A handle has the packets of its interface, as they arrived.
QueueTrue ==
    \A c \in Captures, i \in Interfaces :
        /\ \A k \in DOMAIN queue[c][i] : from[queue[c][i][k]] = i
        /\ Ordered(from, queue[c][i])

\* What is in the ring, then what logic holds, then what is on its way to it.
RingOrder ==
    /\ Ordered(from, written)
    /\ Before(from, written, Held)
    /\ \A i \in Interfaces :
         Before(from, written, queue[Main][i]) /\ Before(from, Held, queue[Main][i])

\* What a session was sent, then what it replays, then what is on its handles.
SessionOrder ==
    \A s \in Sessions :
        /\ Ordered(from, out[s]) /\ Ordered(from, buffered[s])
        /\ Before(from, out[s], buffered[s])
        /\ \A i \in Interfaces :
             Before(from, out[s], queue[s][i]) /\ Before(from, buffered[s], queue[s][i])

\* The lock is held from before the handles are opened until the buffer is copied:
\* all that is in the ring came before all that is on the handles.
LockTrue ==
    \A s \in Sessions :
        /\ pc[s] = "open" <=> mu = s
        /\ pc[s] = "idle" => open[s] = {} /\ \A i \in Interfaces : queue[s][i] = <<>>
        /\ pc[s] \in {"idle", "open"} =>
             /\ buffered[s] = <<>> /\ out[s] = <<>>
             /\ \A i \in Interfaces : Before(from, written, queue[s][i])

CInv ==
    /\ TypeOK /\ RingTrue
    /\ AllArrived /\ QueueTrue /\ RingOrder /\ SessionOrder /\ LockTrue

-----------------------------------------------------------------------------
(* Sequences of packets *)

LEMMA SeqDomain ==
  ASSUME NEW s \in Seq(Packets)
  PROVE  /\ Len(s) \in Nat /\ DOMAIN s = 1 .. Len(s)
         /\ \A k \in DOMAIN s : s[k] \in Packets /\ s[k] \in Nat
<1>1. Len(s) \in Nat /\ DOMAIN s = 1 .. Len(s)
  BY LenProperties
<1>2. \A k \in 1 .. Len(s) : s[k] \in Packets
  BY ElementOfSeq
<1> QED
  BY <1>1, <1>2, CapturedAssumption DEF Packets, CapturedAssumption

LEMMA Appended ==
  ASSUME NEW s \in Seq(Packets), NEW p \in Packets
  PROVE  /\ Append(s, p) \in Seq(Packets)
         /\ Len(s) \in Nat
         /\ DOMAIN s = 1 .. Len(s) /\ DOMAIN Append(s, p) = 1 .. Len(s) + 1
         /\ \A k \in 1 .. Len(s) : Append(s, p)[k] = s[k]
         /\ Append(s, p)[Len(s) + 1] = p
  BY AppendProperties, LenProperties

LEMMA Single ==
  ASSUME NEW p \in Packets
  PROVE  <<p>> \in Seq(Packets) /\ DOMAIN <<p>> = {1} /\ <<p>>[1] = p
  OBVIOUS

LEMMA Taken ==
  ASSUME NEW s \in Seq(Packets), s # <<>>
  PROVE  /\ Head(s) \in Packets /\ Tail(s) \in Seq(Packets)
         /\ Len(s) \in Nat /\ Len(s) >= 1
         /\ DOMAIN s = 1 .. Len(s) /\ DOMAIN Tail(s) = 1 .. Len(s) - 1
         /\ Head(s) = s[1]
         /\ \A k \in 1 .. Len(s) - 1 : Tail(s)[k] = s[k + 1]
<1>1. /\ Head(s) \in Packets /\ Tail(s) \in Seq(Packets)
      /\ Len(Tail(s)) = Len(s) - 1
      /\ \A k \in 1 .. Len(Tail(s)) : Tail(s)[k] = s[k + 1]
  BY HeadTailProperties
<1>2. Len(s) \in Nat /\ Len(s) # 0 /\ DOMAIN s = 1 .. Len(s) /\ DOMAIN Tail(s) = 1 .. Len(Tail(s))
  BY <1>1, LenProperties, EmptySeq
<1>3. Head(s) = s[1]
  BY <1>2
<1> QED
  BY <1>1, <1>2, <1>3

\* A packet more.
LEMMA OrderedAppend ==
  ASSUME NEW f, NEW s \in Seq(Packets), NEW p \in Packets, Ordered(f, s), Before(f, s, <<p>>)
  PROVE  Ordered(f, Append(s, p))
<1> SUFFICES ASSUME NEW j \in DOMAIN Append(s, p), NEW k \in DOMAIN Append(s, p), j < k,
                    f[Append(s, p)[j]] = f[Append(s, p)[k]]
             PROVE  Append(s, p)[j] < Append(s, p)[k]
  BY DEF Ordered
<1> DEFINE t == Append(s, p)
<1>1. /\ Len(s) \in Nat /\ DOMAIN s = 1 .. Len(s) /\ DOMAIN t = 1 .. Len(s) + 1
      /\ \A l \in 1 .. Len(s) : t[l] = s[l]
      /\ t[Len(s) + 1] = p
  BY Appended
<1> HIDE DEF t
<1>2. j \in DOMAIN s /\ t[j] = s[j]
  BY <1>1 DEF t
<1>3. CASE k \in DOMAIN s
  BY <1>1, <1>2, <1>3 DEF Ordered, t
<1>4. CASE k = Len(s) + 1
  <2>1. t[k] = p /\ f[s[j]] = f[p]
    BY <1>1, <1>2, <1>4 DEF t
  <2>2. s[j] < <<p>>[1]
    BY <1>2, <2>1, Single DEF Before
  <2> QED
    BY <1>2, <2>1, <2>2 DEF t
<1> QED
  BY <1>1, <1>3, <1>4 DEF t

LEMMA BeforeAppendLeft ==
  ASSUME NEW f, NEW s \in Seq(Packets), NEW t, NEW p \in Packets,
         Before(f, s, t), Before(f, <<p>>, t)
  PROVE  Before(f, Append(s, p), t)
<1> SUFFICES ASSUME NEW j \in DOMAIN Append(s, p), NEW k \in DOMAIN t, f[Append(s, p)[j]] = f[t[k]]
             PROVE  Append(s, p)[j] < t[k]
  BY DEF Before
<1>1. CASE j \in DOMAIN s
  <2>1. Append(s, p)[j] = s[j]
    BY <1>1, Appended
  <2> QED
    BY <1>1, <2>1 DEF Before
<1>2. CASE j \notin DOMAIN s
  <2>1. Append(s, p)[j] = p
    BY <1>2, Appended
  <2>2. 1 \in DOMAIN <<p>> /\ <<p>>[1] = p
    BY Single
  <2> QED
    BY <2>1, <2>2 DEF Before
<1> QED
  BY <1>1, <1>2

LEMMA BeforeAppendRight ==
  ASSUME NEW f, NEW s, NEW t \in Seq(Packets), NEW p \in Packets,
         Before(f, s, t), Before(f, s, <<p>>)
  PROVE  Before(f, s, Append(t, p))
<1> SUFFICES ASSUME NEW j \in DOMAIN s, NEW k \in DOMAIN Append(t, p), f[s[j]] = f[Append(t, p)[k]]
             PROVE  s[j] < Append(t, p)[k]
  BY DEF Before
<1>1. CASE k \in DOMAIN t
  <2>1. Append(t, p)[k] = t[k]
    BY <1>1, Appended
  <2> QED
    BY <1>1, <2>1 DEF Before
<1>2. CASE k \notin DOMAIN t
  <2>1. Append(t, p)[k] = p
    BY <1>2, Appended
  <2>2. 1 \in DOMAIN <<p>> /\ <<p>>[1] = p
    BY Single
  <2> QED
    BY <2>1, <2>2 DEF Before
<1> QED
  BY <1>1, <1>2

\* The first of a sequence, and the rest of it.
LEMMA TakenBefore ==
  ASSUME NEW f, NEW t \in Seq(Packets), t # <<>>
  PROVE  /\ \A s : Before(f, s, t) => Before(f, s, <<Head(t)>>) /\ Before(f, s, Tail(t))
         /\ \A s : Before(f, t, s) => Before(f, <<Head(t)>>, s) /\ Before(f, Tail(t), s)
         /\ Ordered(f, t) => Ordered(f, Tail(t)) /\ Before(f, <<Head(t)>>, Tail(t))
<1> DEFINE h == Head(t)
           r == Tail(t)
<1>1. /\ h \in Packets /\ Len(t) \in Nat /\ Len(t) >= 1
      /\ DOMAIN t = 1 .. Len(t) /\ DOMAIN r = 1 .. Len(t) - 1
      /\ h = t[1]
      /\ \A k \in 1 .. Len(t) - 1 : r[k] = t[k + 1]
  BY Taken
<1>2. DOMAIN <<h>> = {1} /\ <<h>>[1] = h
  BY <1>1, Single
<1>3. 1 \in DOMAIN t /\ \A k \in DOMAIN r : k + 1 \in DOMAIN t /\ r[k] = t[k + 1] /\ 1 < k + 1
  BY <1>1
<1> HIDE DEF h, r
<1>4. ASSUME NEW s, Before(f, s, t) PROVE Before(f, s, <<h>>) /\ Before(f, s, r)
  <2>1. Before(f, s, <<h>>)
    BY <1>1, <1>2, <1>3, <1>4 DEF Before
  <2>2. Before(f, s, r)
    BY <1>3, <1>4 DEF Before
  <2> QED
    BY <2>1, <2>2
<1>5. ASSUME NEW s, Before(f, t, s) PROVE Before(f, <<h>>, s) /\ Before(f, r, s)
  <2>1. Before(f, <<h>>, s)
    BY <1>1, <1>2, <1>3, <1>5 DEF Before
  <2>2. Before(f, r, s)
    BY <1>3, <1>5 DEF Before
  <2> QED
    BY <2>1, <2>2
<1>6. ASSUME Ordered(f, t) PROVE Ordered(f, r) /\ Before(f, <<h>>, r)
  <2>1. Before(f, <<h>>, r)
    BY <1>1, <1>2, <1>3, <1>6 DEF Before, Ordered
  <2>2. ASSUME NEW j \in DOMAIN r, NEW k \in DOMAIN r, j < k, f[r[j]] = f[r[k]]
        PROVE  r[j] < r[k]
    <3>1. j + 1 < k + 1
      BY <1>1, <2>2
    <3> QED
      BY <1>3, <1>6, <2>2, <3>1 DEF Ordered
  <2> QED
    BY <2>1, <2>2 DEF Ordered
<1> QED
  BY <1>4, <1>5, <1>6 DEF h, r

LEMMA EmptyOrder ==
  ASSUME NEW f
  PROVE  Ordered(f, <<>>) /\ \A s : Before(f, s, <<>>) /\ Before(f, <<>>, s)
  BY DEF Ordered, Before

\* Packets of other interfaces.
LEMMA OthersBefore ==
  ASSUME NEW f, NEW s, NEW t, \A j \in DOMAIN s, k \in DOMAIN t : f[s[j]] # f[t[k]]
  PROVE  Before(f, s, t)
  BY DEF Before

\* Another packet's interface does not matter.
LEMMA OrderAgrees ==
  ASSUME NEW f, NEW g, NEW n, \A p \in 1 .. n : g[p] = f[p],
         NEW s \in Seq(Packets), \A k \in DOMAIN s : s[k] <= n, n \in Nat
  PROVE  /\ Ordered(f, s) => Ordered(g, s)
         /\ \A t \in Seq(Packets) :
              (\A k \in DOMAIN t : t[k] <= n) /\ Before(f, s, t) => Before(g, s, t)
<1>1. \A k \in DOMAIN s : s[k] \in 1 .. n
  BY SeqDomain DEF Packets
<1>2. \A k \in DOMAIN s : g[s[k]] = f[s[k]]
  BY <1>1
<1>3. ASSUME NEW t \in Seq(Packets), \A k \in DOMAIN t : t[k] <= n, Before(f, s, t)
      PROVE  Before(g, s, t)
  <2>1. \A k \in DOMAIN t : t[k] \in 1 .. n
    BY <1>3, SeqDomain DEF Packets
  <2>2. \A k \in DOMAIN t : g[t[k]] = f[t[k]]
    BY <2>1
  <2> QED
    BY <1>2, <1>3, <2>2 DEF Before
<1> QED
  BY <1>2, <1>3 DEF Ordered

\* A packet that arrives is later than all that have.
LEMMA NewestLast ==
  ASSUME NEW f, NEW n \in Nat, n + 1 \in Packets,
         NEW s \in Seq(Packets), \A k \in DOMAIN s : s[k] <= n
  PROVE  Before(f, s, <<n + 1>>)
  BY SeqDomain, Single DEF Before

\* A part of a sequence.
LEMMA PartOrder ==
  ASSUME NEW f, NEW s \in Seq(Packets), NEW m \in Nat \ {0}, NEW n \in Nat, n <= Len(s)
  PROVE  /\ SubSeq(s, m, n) \in Seq(Packets)
         /\ \A k \in DOMAIN SubSeq(s, m, n) : \E l \in DOMAIN s : SubSeq(s, m, n)[k] = s[l]
         /\ Ordered(f, s) => Ordered(f, SubSeq(s, m, n))
         /\ \A t : Before(f, s, t) => Before(f, SubSeq(s, m, n), t)
<1> DEFINE r == SubSeq(s, m, n)
<1>1. Len(s) \in Nat /\ DOMAIN s = 1 .. Len(s) /\ \A k \in 1 .. Len(s) : s[k] \in Packets
  BY SeqDomain
<1>2. \A l \in m .. n : s[l] \in Packets
  BY <1>1
<1>3. /\ r \in Seq(Packets)
      /\ Len(r) = IF m <= n THEN n - m + 1 ELSE 0
      /\ \A k \in 1 .. n - m + 1 : r[k] = s[m + k - 1]
  BY <1>2, SubSeqProperties
<1>4. DOMAIN r = 1 .. Len(r)
  BY <1>3, LenProperties
<1> HIDE DEF r
<1>5. \A k \in DOMAIN r : k \in Int /\ m + k - 1 \in DOMAIN s /\ r[k] = s[m + k - 1]
  BY <1>1, <1>3, <1>4
<1>6. ASSUME Ordered(f, s), NEW j \in DOMAIN r, NEW k \in DOMAIN r, j < k, f[r[j]] = f[r[k]]
      PROVE  r[j] < r[k]
  <2>1. m + j - 1 < m + k - 1
    BY <1>5, <1>6
  <2> QED
    BY <1>5, <1>6, <2>1 DEF Ordered
<1>7. ASSUME NEW t, Before(f, s, t) PROVE Before(f, r, t)
  BY <1>5, <1>7 DEF Before
<1> QED
  BY <1>3, <1>5, <1>6, <1>7 DEF Ordered, r

-----------------------------------------------------------------------------
(* The steps *)

LEMMA InitCInv == Init => CInv
<1> SUFFICES ASSUME Init PROVE CInv
  OBVIOUS
<1>1. Size \in Nat /\ Size > 0 /\ Main \in Captures
  BY CapturedAssumption DEF CapturedAssumption, Captures
<1>2. TypeOK
  <2>1. <<>> \in Seq(Packets) /\ <<>> \in Seq(Interfaces) /\ Len(<<>>) = 0
    OBVIOUS
  <2>2. queue \in [Captures -> [Interfaces -> Seq(Packets)]]
    BY <2>1 DEF Init
  <2>3. open \in [Captures -> SUBSET Interfaces]
    BY DEF Init
  <2>4. ring \in [Slots -> Packets \cup {None}] /\ next \in Slots
    BY <1>1 DEF Init, Slots
  <2>5. /\ pc \in [Sessions -> {"idle", "open", "replay", "closed"}]
        /\ buffered \in [Sessions -> Seq(Packets)] /\ out \in [Sessions -> Seq(Packets)]
        /\ written \in Seq(Packets)
    BY <2>1 DEF Init
  <2>6. from \in Seq(Interfaces) /\ Len(from) <= MaxPackets /\ failures \in 0 .. MaxFailures
    BY <2>1, CapturedAssumption DEF Init, CapturedAssumption
  <2> QED
    BY <2>2, <2>3, <2>4, <2>5, <2>6 DEF Init, TypeOK
<1>3. RingTrue
  <2> SUFFICES ASSUME NEW k \in 1 .. Size
               PROVE  Around[k] = LET j == Len(written) - Size + k IN IF j > 0 THEN written[j] ELSE None
    BY DEF RingTrue
  <2>1. Around[k] = None
    BY <1>1 DEF Init, Around, Slot, Slots
  <2>2. Len(written) = 0
    BY DEF Init
  <2> QED
    BY <1>1, <2>1, <2>2
<1>4. /\ written = <<>> /\ Held = <<>>
      /\ \A c \in Captures, i \in Interfaces : queue[c][i] = <<>>
      /\ \A s \in Sessions : buffered[s] = <<>> /\ out[s] = <<>> /\ pc[s] = "idle" /\ open[s] = {} /\ mu # s
  BY <1>1, CapturedAssumption DEF Init, Held, Captures, CapturedAssumption
<1>5. AllArrived
  BY <1>4 DEF AllArrived, Arrived
<1>6. QueueTrue
  BY <1>4, EmptyOrder DEF QueueTrue
<1>7. RingOrder
  BY <1>1, <1>4, EmptyOrder DEF RingOrder
<1>8. SessionOrder
  BY <1>4, EmptyOrder DEF SessionOrder, Captures
<1>9. LockTrue
  BY <1>4, EmptyOrder DEF LockTrue, Captures
<1> QED
  BY <1>2, <1>3, <1>5, <1>6, <1>7, <1>8, <1>9 DEF CInv

\* What the type invariant says of the parts.
LEMMA Typed ==
  ASSUME TypeOK
  PROVE  /\ Main \in Captures /\ \A s \in Sessions : s \in Captures /\ s # Main
         /\ \A c \in Captures, i \in Interfaces : queue[c][i] \in Seq(Packets)
         /\ \A s \in Sessions : buffered[s] \in Seq(Packets) /\ out[s] \in Seq(Packets)
         /\ written \in Seq(Packets) /\ Held \in Seq(Packets)
         /\ from \in Seq(Interfaces) /\ Len(from) \in Nat
         /\ hold # None => hold \in Packets /\ Held = <<hold>>
         /\ \A s \in Sessions : s # None
  BY CapturedAssumption, LenProperties, Single DEF TypeOK, Captures, Held, CapturedAssumption

LEMMA TakeIs ==
  ASSUME TypeOK, NEW c \in Captures, NEW i \in Interfaces, Take(c, i)
  PROVE  /\ queue[c][i] \in Seq(Packets) /\ queue[c][i] # <<>>
         /\ queue' \in [Captures -> [Interfaces -> Seq(Packets)]]
         /\ queue'[c][i] = Tail(queue[c][i])
         /\ \A d \in Captures, j \in Interfaces : d # c \/ j # i => queue'[d][j] = queue[d][j]
<1>1. queue[c][i] \in Seq(Packets) /\ queue[c][i] # <<>>
  BY DEF Take, TypeOK
<1>2. Tail(queue[c][i]) \in Seq(Packets)
  BY <1>1, Taken
<1> QED
  BY <1>1, <1>2 DEF Take, TypeOK

\* What is left on the handles is as it was.
LEMMA TakeKeeps ==
  ASSUME TypeOK, AllArrived, QueueTrue, UNCHANGED from,
         NEW c \in Captures, NEW i \in Interfaces, Take(c, i)
  PROVE  /\ QueueTrue'
         /\ \A d \in Captures, j \in Interfaces : Arrived(queue[d][j])'
<1>1. PICK q \in Seq(Packets) : q = queue[c][i] /\ q # <<>>
  BY TakeIs
<1>2. /\ queue'[c][i] = Tail(q)
      /\ \A d \in Captures, j \in Interfaces : d # c \/ j # i => queue'[d][j] = queue[d][j]
  BY <1>1, TakeIs
<1>3. Arrived(q) /\ Ordered(from, q) /\ \A k \in DOMAIN q : from[q[k]] = i
  BY <1>1 DEF AllArrived, QueueTrue
<1>4. \A k \in DOMAIN Tail(q) : k + 1 \in DOMAIN q /\ Tail(q)[k] = q[k + 1]
  BY <1>1, Taken
<1>5. /\ Ordered(from, Tail(q))
      /\ \A k \in DOMAIN Tail(q) : Tail(q)[k] <= Len(from) /\ from[Tail(q)[k]] = i
  BY <1>1, <1>3, <1>4, TakenBefore DEF Arrived
<1>6. ASSUME NEW d \in Captures, NEW j \in Interfaces
      PROVE  /\ Ordered(from, queue'[d][j])
             /\ \A k \in DOMAIN queue'[d][j] :
                  queue'[d][j][k] <= Len(from) /\ from[queue'[d][j][k]] = j
  <2>1. CASE d = c /\ j = i
    BY <1>2, <1>5, <2>1
  <2>2. CASE d # c \/ j # i
    BY <1>2, <2>2 DEF AllArrived, QueueTrue, Arrived
  <2> QED
    BY <2>1, <2>2
<1> QED
  BY <1>6 DEF QueueTrue, Arrived

LEMMA ArriveStep ==
  ASSUME CInv, NEW i \in Interfaces, Arrive(i)
  PROVE  CInv'
<1> DEFINE n == Len(from)
           p == Len(from')
<1> USE DEF CInv
<1>1. /\ n \in Nat /\ n < MaxPackets /\ p = n + 1 /\ p \in Packets /\ p \in Nat /\ from' \in Seq(Interfaces)
      /\ \A k \in 1 .. n : from'[k] = from[k]
      /\ from'[p] = i
  <2>1. n \in Nat /\ n < MaxPackets /\ from' = Append(from, i)
    BY Typed DEF Arrive
  <2>2. /\ from' \in Seq(Interfaces) /\ p = n + 1
        /\ \A k \in 1 .. n : from'[k] = from[k]
        /\ from'[n + 1] = i
    BY <2>1, AppendProperties DEF TypeOK
  <2>3. p \in Packets /\ p \in Nat
    BY <2>1, <2>2, CapturedAssumption DEF Packets, CapturedAssumption
  <2> QED
    BY <2>1, <2>2, <2>3
<1>2. UNCHANGED <<open, hold, ring, next, written, mu, pc, buffered, out, failures, Held>>
  BY DEF Arrive, buffer, session, Held
<1>3. /\ \A c \in Captures, j \in Interfaces :
           queue'[c][j] = IF j = i /\ i \in open[c] THEN Append(queue[c][j], p) ELSE queue[c][j]
      /\ queue' \in [Captures -> [Interfaces -> Seq(Packets)]]
  <2>1. queue' = [c \in Captures |->
           IF i \in open[c] THEN [queue[c] EXCEPT ![i] = Append(@, p)] ELSE queue[c]]
    BY DEF Arrive
  <2>2. \A c \in Captures : queue[c] \in [Interfaces -> Seq(Packets)] /\ Append(queue[c][i], p) \in Seq(Packets)
    BY <1>1, Appended DEF TypeOK
  <2> HIDE DEF p
  <2> QED
    BY <2>1, <2>2
<1> HIDE DEF p, n
<1>4. ASSUME NEW s \in Seq(Packets), Arrived(s)
      PROVE  /\ \A k \in DOMAIN s : s[k] <= p
             /\ Before(from', s, <<p>>)
             /\ Ordered(from, s) => Ordered(from', s)
             /\ \A t \in Seq(Packets) : Arrived(t) /\ Before(from, s, t) => Before(from', s, t)
  <2>1. \A k \in DOMAIN s : s[k] <= n /\ s[k] \in Nat
    BY <1>4, SeqDomain DEF Arrived, n
  <2>2. \A k \in DOMAIN s : s[k] <= p
    BY <1>1, <2>1
  <2>4. Before(from', s, <<p>>)
    BY <1>1, <2>1, NewestLast
  <2>5. /\ Ordered(from, s) => Ordered(from', s)
        /\ \A t \in Seq(Packets) :
             (\A k \in DOMAIN t : t[k] <= n) /\ Before(from, s, t) => Before(from', s, t)
    BY <1>1, <2>1, OrderAgrees
  <2> QED
    BY <2>2, <2>4, <2>5 DEF Arrived, n
<1>5. ASSUME NEW c \in Captures, NEW j \in Interfaces
      PROVE  /\ \A s \in Seq(Packets) :
                  Arrived(s) /\ Before(from, s, queue[c][j]) => Before(from', s, queue'[c][j])
             /\ \A k \in DOMAIN queue'[c][j] : queue'[c][j][k] <= p
             /\ \A k \in DOMAIN queue'[c][j] : from'[queue'[c][j][k]] = j
             /\ Ordered(from', queue'[c][j])
  <2> DEFINE q == queue[c][j]
  <2>1. /\ q \in Seq(Packets) /\ Arrived(q) /\ Ordered(from, q)
        /\ \A k \in DOMAIN q : from[q[k]] = j
    BY Typed DEF AllArrived, QueueTrue
  <2>2. \A k \in DOMAIN q : from'[q[k]] = j
    <3>1. \A k \in DOMAIN q : q[k] \in 1 .. n
      BY <1>1, <2>1, SeqDomain DEF Arrived, n, Packets
    <3> QED
      BY <1>1, <2>1, <3>1
  <2>3. /\ Before(from', q, <<p>>) /\ Ordered(from', q)
        /\ \A k \in DOMAIN q : q[k] <= p
        /\ \A s \in Seq(Packets) : Arrived(s) /\ Before(from, s, q) => Before(from', s, q)
    BY <1>4, <2>1
  <2> HIDE DEF q
  <2>4. CASE j = i /\ i \in open[c]
    <3>1. queue'[c][j] = Append(q, p)
      BY <1>3, <2>4 DEF q
    <3>2. Ordered(from', Append(q, p))
      BY <1>1, <2>1, <2>3, OrderedAppend
    <3>3. \A s \in Seq(Packets) : Arrived(s) /\ Before(from, s, q) => Before(from', s, Append(q, p))
      BY <1>1, <1>4, <2>1, <2>3, BeforeAppendRight
    <3>4. \A k \in DOMAIN Append(q, p) : (k \in DOMAIN q /\ Append(q, p)[k] = q[k]) \/ Append(q, p)[k] = p
      BY <1>1, <2>1, Appended
    <3>5. \A k \in DOMAIN Append(q, p) : from'[Append(q, p)[k]] = j /\ Append(q, p)[k] <= p
      BY <1>1, <2>2, <2>3, <2>4, <3>4
    <3> QED
      BY <3>1, <3>2, <3>3, <3>5 DEF q
  <2>5. CASE ~(j = i /\ i \in open[c])
    <3>1. queue'[c][j] = q
      BY <1>3, <2>5 DEF q
    <3> QED
      BY <2>2, <2>3, <3>1 DEF q
  <2> QED
    BY <2>4, <2>5
<1>6. TypeOK'
  <2>1. p <= MaxPackets
    BY <1>1, CapturedAssumption DEF CapturedAssumption
  <2> QED
    BY <1>1, <1>2, <1>3, <2>1 DEF TypeOK, p
<1>7. RingTrue'
  BY <1>2 DEF RingTrue, Around
<1>8. AllArrived'
  <2>1. Arrived(written)' /\ Arrived(Held)'
    BY <1>2, <1>4, Typed DEF AllArrived, Arrived, p
  <2>2. ASSUME NEW s \in Sessions PROVE Arrived(buffered[s])' /\ Arrived(out[s])'
    <3>1. Arrived(buffered[s]) /\ Arrived(out[s]) /\ buffered[s] \in Seq(Packets) /\ out[s] \in Seq(Packets)
      BY Typed DEF AllArrived
    <3> QED
      BY <1>2, <1>4, <3>1 DEF Arrived, p
  <2> QED
    BY <1>5, <2>1, <2>2 DEF AllArrived, Arrived, p
<1>9. QueueTrue'
  BY <1>5 DEF QueueTrue
<1>10. RingOrder'
  <2>1. Ordered(from', written') /\ Before(from', written', Held')
    BY <1>2, <1>4, Typed DEF AllArrived, RingOrder
  <2>2. ASSUME NEW j \in Interfaces
        PROVE  Before(from', written', queue'[Main][j]) /\ Before(from', Held', queue'[Main][j])
    BY <1>2, <1>5, Typed DEF AllArrived, RingOrder
  <2> QED
    BY <2>1, <2>2 DEF RingOrder
<1>11. SessionOrder'
  <2> SUFFICES ASSUME NEW s \in Sessions
               PROVE  /\ Ordered(from', out'[s]) /\ Ordered(from', buffered'[s])
                      /\ Before(from', out'[s], buffered'[s])
                      /\ \A j \in Interfaces :
                           /\ Before(from', out'[s], queue'[s][j])
                           /\ Before(from', buffered'[s], queue'[s][j])
    BY DEF SessionOrder
  <2>1. /\ out[s] \in Seq(Packets) /\ Arrived(out[s])
        /\ buffered[s] \in Seq(Packets) /\ Arrived(buffered[s]) /\ s \in Captures
    BY Typed DEF AllArrived
  <2>2. /\ Ordered(from', out'[s]) /\ Ordered(from', buffered'[s])
        /\ Before(from', out'[s], buffered'[s])
    BY <1>2, <1>4, <2>1 DEF SessionOrder
  <2>3. ASSUME NEW j \in Interfaces
        PROVE  Before(from', out'[s], queue'[s][j]) /\ Before(from', buffered'[s], queue'[s][j])
    BY <1>2, <1>5, <2>1 DEF SessionOrder
  <2> QED
    BY <2>2, <2>3
<1>12. LockTrue'
  <2> SUFFICES ASSUME NEW s \in Sessions
               PROVE  /\ pc'[s] = "open" <=> mu' = s
                      /\ pc'[s] = "idle" => open'[s] = {} /\ \A j \in Interfaces : queue'[s][j] = <<>>
                      /\ pc'[s] \in {"idle", "open"} =>
                           /\ buffered'[s] = <<>> /\ out'[s] = <<>>
                           /\ \A j \in Interfaces : Before(from', written', queue'[s][j])
    BY DEF LockTrue
  <2>1. s \in Captures /\ written \in Seq(Packets) /\ Arrived(written)
    BY Typed DEF AllArrived
  <2>2. pc[s] = "idle" => \A j \in Interfaces : queue'[s][j] = <<>>
    BY <1>3, <2>1 DEF LockTrue
  <2>3. pc[s] \in {"idle", "open"} => \A j \in Interfaces : Before(from', written', queue'[s][j])
    BY <1>2, <1>5, <2>1 DEF LockTrue
  <2> QED
    BY <1>2, <2>2, <2>3 DEF LockTrue
<1> QED
  BY <1>6, <1>7, <1>8, <1>9, <1>10, <1>11, <1>12

LEMMA ReceiveStep ==
  ASSUME CInv, NEW i \in Interfaces, Receive(i)
  PROVE  CInv'
<1> USE DEF CInv
<1> DEFINE q == queue[Main][i]
           h == Head(q)
<1>1. /\ q \in Seq(Packets) /\ q # <<>>
      /\ queue' \in [Captures -> [Interfaces -> Seq(Packets)]]
      /\ queue'[Main][i] = Tail(q)
      /\ \A d \in Captures, j \in Interfaces : d # Main \/ j # i => queue'[d][j] = queue[d][j]
  <2>1. Take(Main, i)
    BY DEF Receive
  <2> QED
    BY <2>1, Typed, TakeIs
<1>2. hold = None /\ hold' = h /\ UNCHANGED <<from, open, ring, next, written, mu, pc, buffered, out, failures>>
  BY DEF Receive, buffer, session
<1>3. h \in Packets /\ h = q[1] /\ 1 \in DOMAIN q /\ DOMAIN <<h>> = {1} /\ <<h>>[1] = h
  BY <1>1, Taken, Single
<1>4. Held' = <<h>>
  BY <1>2, <1>3, CapturedAssumption DEF Held, CapturedAssumption
<1>5. /\ Arrived(q) /\ Ordered(from, q) /\ \A k \in DOMAIN q : from[q[k]] = i
  BY <1>1, Typed DEF AllArrived, QueueTrue
<1>7. /\ \A s : Before(from, s, q) => Before(from, s, <<h>>) /\ Before(from, s, Tail(q))
      /\ Ordered(from, Tail(q)) /\ Before(from, <<h>>, Tail(q))
  BY <1>1, <1>5, TakenBefore
<1>8. TypeOK'
  BY <1>1, <1>2, <1>3 DEF TypeOK
<1>9. RingTrue'
  BY <1>2 DEF RingTrue, Around
<1>10. AllArrived'
  <2>1. \A k \in DOMAIN <<h>> : <<h>>[k] <= Len(from)
    BY <1>3, <1>5 DEF Arrived
  <2>2. \A c \in Captures, j \in Interfaces : Arrived(queue[c][j])'
    BY <1>2, Typed, TakeKeeps DEF Receive
  <2> HIDE DEF h
  <2> QED
    BY <1>2, <1>4, <2>1, <2>2 DEF AllArrived, Arrived
<1>11. QueueTrue'
  BY <1>2, Typed, TakeKeeps DEF Receive
<1>12. RingOrder'
  <2>1. Ordered(from, written) /\ Before(from, written, <<h>>)
    BY <1>7, Typed DEF RingOrder
  <2>2. ASSUME NEW j \in Interfaces
        PROVE  Before(from, written, queue'[Main][j]) /\ Before(from, <<h>>, queue'[Main][j])
    <3>1. CASE j = i
      BY <1>1, <1>7, <3>1 DEF RingOrder
    <3>2. CASE j # i
      <4>1. queue'[Main][j] = queue[Main][j]
        BY <1>1, <3>2, Typed
      <4>2. \A k \in DOMAIN queue[Main][j] : from[queue[Main][j][k]] = j
        BY Typed DEF QueueTrue
      <4>3. \A k \in DOMAIN <<h>> : from[<<h>>[k]] = i
        BY <1>3, <1>5
      <4>4. Before(from, <<h>>, queue[Main][j])
        BY <3>2, <4>2, <4>3, OthersBefore
      <4> QED
        BY <4>1, <4>4 DEF RingOrder
    <3> QED
      BY <3>1, <3>2
  <2> QED
    BY <1>2, <1>4, <2>1, <2>2 DEF RingOrder
<1>13. \A s \in Sessions, j \in Interfaces : queue'[s][j] = queue[s][j]
  BY <1>1, Typed
<1>14. SessionOrder'
  BY <1>2, <1>13 DEF SessionOrder
<1>15. LockTrue'
  BY <1>2, <1>13 DEF LockTrue
<1> QED
  BY <1>8, <1>9, <1>10, <1>11, <1>12, <1>14, <1>15

\* What was in the second slot from where r points is now in the first, and so on;
\* the packet is in the last.
LEMMA WritePacketRing ==
  ASSUME TypeOK, RingTrue, WritePacket
  PROVE  RingTrue'
<1>1. /\ Size \in Nat /\ Size > 0 /\ written \in Seq(Packets) /\ Len(written) \in Nat
      /\ next \in 0 .. Size - 1 /\ ring \in [Slots -> Packets \cup {None}]
  BY CapturedAssumption, LenProperties DEF CapturedAssumption, TypeOK, Slots
<1>2. /\ hold \in Packets
      /\ ring' = [ring EXCEPT ![next] = hold]
      /\ next' = Slot(next + 1)
      /\ written' = Append(written, hold)
  BY DEF WritePacket, TypeOK
<1>3. /\ Len(written') = Len(written) + 1
      /\ \A j \in 1 .. Len(written) : written'[j] = written[j]
      /\ written'[Len(written) + 1] = hold
  BY <1>1, <1>2, AppendProperties
<1> SUFFICES ASSUME NEW k \in 1 .. Size
             PROVE  Around'[k] = LET j == Len(written') - Size + k IN IF j > 0 THEN written'[j] ELSE None
  BY DEF RingTrue
<1>4. Around'[k] = ring'[Slot(next' + k - 1)]
  BY DEF Around
<1>5. CASE k = Size
  <2>1. Slot(next' + k - 1) = next
    BY <1>1, <1>2, <1>5 DEF Slot
  <2>2. ring'[next] = hold
    BY <1>1, <1>2 DEF Slots
  <2>3. Len(written') - Size + k = Len(written) + 1
    BY <1>1, <1>3, <1>5
  <2> HIDE DEF Slot
  <2> QED
    BY <1>1, <1>3, <1>4, <2>1, <2>2, <2>3
<1>6. CASE k < Size
  <2>1. Slot(next' + k - 1) = Slot(next + (k + 1) - 1) /\ Slot(next' + k - 1) # next
    BY <1>1, <1>2, <1>6 DEF Slot
  <2>2. k + 1 \in 1 .. Size /\ Slot(next' + k - 1) \in Slots
    BY <1>1, <1>2, <1>6 DEF Slot, Slots
  <2>3. Around[k + 1] = ring[Slot(next + (k + 1) - 1)]
    BY <2>2 DEF Around
  <2>4. Around'[k] = Around[k + 1]
    BY <1>1, <1>2, <1>4, <2>1, <2>2, <2>3
  <2> DEFINE j == Len(written) - Size + (k + 1)
  <2>5. Around[k + 1] = IF j > 0 THEN written[j] ELSE None
    BY <2>2 DEF RingTrue
  <2>6. Len(written') - Size + k = j /\ j \in Int /\ j <= Len(written)
    BY <1>1, <1>3, <1>6
  <2>7. j > 0 => written'[j] = written[j]
    BY <1>1, <1>3, <2>6
  <2> HIDE DEF j
  <2> QED
    BY <2>4, <2>5, <2>6, <2>7
<1> QED
  BY <1>1, <1>5, <1>6

LEMMA WritePacketStep ==
  ASSUME CInv, WritePacket
  PROVE  CInv'
<1> USE DEF CInv
<1>1. /\ hold \in Packets /\ Held = <<hold>> /\ mu = None /\ hold' = None
      /\ written' = Append(written, hold)
      /\ UNCHANGED <<from, open, queue, mu, pc, buffered, out, failures>>
  BY Typed DEF WritePacket, session
<1>2. Held' = <<>>
  BY <1>1 DEF Held
<1>3. /\ written \in Seq(Packets) /\ written' \in Seq(Packets)
      /\ \A k \in DOMAIN written' : written'[k] = hold \/ (k \in DOMAIN written /\ written'[k] = written[k])
  BY <1>1, Typed, Appended
<1>4. TypeOK'
  <2>1. Size \in Nat /\ Size > 0 /\ next \in 0 .. Size - 1
    BY CapturedAssumption DEF CapturedAssumption, TypeOK, Slots
  <2>2. next' \in Slots
    BY <2>1 DEF WritePacket, Slot, Slots
  <2>3. ring' \in [Slots -> Packets \cup {None}]
    BY <1>1 DEF WritePacket, TypeOK
  <2> QED
    BY <1>1, <1>3, <2>2, <2>3 DEF TypeOK
<1>5. RingTrue'
  BY WritePacketRing
<1>6. AllArrived'
  <2>1. hold <= Len(from)
    BY <1>1, Single DEF AllArrived, Arrived
  <2>2. \A k \in DOMAIN written' : written'[k] <= Len(from)
    BY <1>3, <2>1 DEF AllArrived, Arrived
  <2> QED
    BY <1>1, <1>2, <2>2 DEF AllArrived, Arrived
<1>7. QueueTrue'
  BY <1>1 DEF QueueTrue
<1>8. RingOrder'
  <2>1. Ordered(from, written')
    BY <1>1, <1>3, OrderedAppend DEF RingOrder
  <2>2. \A j \in Interfaces : Before(from, written', queue[Main][j])
    BY <1>1, <1>3, BeforeAppendLeft DEF RingOrder
  <2> QED
    BY <1>1, <1>2, <2>1, <2>2, EmptyOrder DEF RingOrder
<1>9. SessionOrder'
  BY <1>1 DEF SessionOrder
<1>10. LockTrue'
  <2>1. \A s \in Sessions : pc[s] # "open"
    BY <1>1, Typed DEF LockTrue
  <2> QED
    BY <1>1, <2>1, EmptyOrder DEF LockTrue
<1> QED
  BY <1>4, <1>5, <1>6, <1>7, <1>8, <1>9, <1>10

LEMMA LockStep ==
  ASSUME CInv, NEW s \in Sessions, Lock(s)
  PROVE  CInv'
<1> USE DEF CInv
<1>1. /\ pc[s] = "idle" /\ mu = None /\ mu' = s /\ pc' = [pc EXCEPT ![s] = "open"]
      /\ UNCHANGED <<from, open, queue, hold, ring, next, written, buffered, out, failures, Held>>
  BY DEF Lock, buffer, Held
<1>2. TypeOK'
  BY <1>1 DEF TypeOK
<1>3. RingTrue' /\ AllArrived' /\ QueueTrue' /\ RingOrder' /\ SessionOrder'
  BY <1>1 DEF RingTrue, Around, AllArrived, Arrived, QueueTrue, RingOrder, SessionOrder
<1>4. LockTrue'
  <2>1. /\ pc'[s] = "open"
        /\ \A r \in Sessions : pc[r] # "open" /\ (r # s => pc'[r] = pc[r])
    BY <1>1, Typed DEF LockTrue, TypeOK
  <2> QED
    BY <1>1, <2>1 DEF LockTrue
<1> QED
  BY <1>2, <1>3, <1>4

LEMMA OpenHandleStep ==
  ASSUME CInv, NEW s \in Sessions, OpenHandle(s)
  PROVE  CInv'
<1> USE DEF CInv
<1>1. PICK i \in Interfaces : open' = [open EXCEPT ![s] = @ \cup {i}]
  BY DEF OpenHandle
<1>2. /\ pc[s] = "open"
      /\ UNCHANGED <<from, queue, hold, ring, next, written, mu, pc, buffered, out, failures, Held>>
  BY DEF OpenHandle, buffer, session, Held
<1>3. TypeOK'
  <2>1. open' \in [Captures -> SUBSET Interfaces]
    BY <1>1, Typed DEF TypeOK
  <2> QED
    BY <1>2, <2>1 DEF TypeOK
<1>4. RingTrue' /\ AllArrived' /\ QueueTrue' /\ RingOrder' /\ SessionOrder'
  BY <1>2 DEF RingTrue, Around, AllArrived, Arrived, QueueTrue, RingOrder, SessionOrder
<1>5. LockTrue'
  <2>1. \A r \in Sessions : r # s => open'[r] = open[r]
    BY <1>1, Typed DEF TypeOK
  <2> QED
    BY <1>2, <2>1 DEF LockTrue
<1> QED
  BY <1>3, <1>4, <1>5

\* What packetsLocked returns is a part of what was written.
LEMMA PacketsAreWritten ==
  ASSUME TypeOK, RingTrue
  PROVE  /\ PacketsLocked \in Seq(Packets)
         /\ \A k \in DOMAIN PacketsLocked : \E l \in DOMAIN written : PacketsLocked[k] = written[l]
         /\ \A f : Ordered(f, written) => Ordered(f, PacketsLocked)
         /\ \A f, t : Before(f, written, t) => Before(f, PacketsLocked, t)
<1>1. Size \in Nat /\ written \in Seq(Packets) /\ Len(written) \in Nat
  BY CapturedAssumption, LenProperties DEF CapturedAssumption, TypeOK
<1> DEFINE m == Oldest
           n == Len(written)
<1>2. m \in Nat \ {0} /\ n \in Nat /\ n <= Len(written) /\ n = Len(written) - Size + Size
  BY <1>1 DEF Oldest
<1> HIDE DEF m, n
<1>3. PacketsLocked = SubSeq(written, m, n)
  BY <1>2, CollectedIs DEF Latest, m
<1>4. ASSUME NEW f
      PROVE  /\ SubSeq(written, m, n) \in Seq(Packets)
             /\ \A k \in DOMAIN SubSeq(written, m, n) : \E l \in DOMAIN written : SubSeq(written, m, n)[k] = written[l]
             /\ Ordered(f, written) => Ordered(f, SubSeq(written, m, n))
             /\ \A t : Before(f, written, t) => Before(f, SubSeq(written, m, n), t)
  BY <1>1, <1>2, PartOrder
<1>5. /\ PacketsLocked \in Seq(Packets)
      /\ \A k \in DOMAIN PacketsLocked : \E l \in DOMAIN written : PacketsLocked[k] = written[l]
  BY <1>3, <1>4
<1>6. ASSUME NEW f
      PROVE  /\ Ordered(f, written) => Ordered(f, PacketsLocked)
             /\ \A t : Before(f, written, t) => Before(f, PacketsLocked, t)
  BY <1>3, <1>4
<1> QED
  BY <1>5, <1>6

LEMMA CopyStep ==
  ASSUME CInv, NEW s \in Sessions, Copy(s)
  PROVE  CInv'
<1> USE DEF CInv
<1>1. PICK b \in Seq(Packets) :
        /\ b = PacketsLocked
        /\ \A k \in DOMAIN b : \E l \in DOMAIN written : b[k] = written[l]
        /\ \A f : Ordered(f, written) => Ordered(f, b)
        /\ \A f, t : Before(f, written, t) => Before(f, b, t)
  BY PacketsAreWritten
<1>2. /\ pc[s] = "open" /\ mu' = None
      /\ buffered' = [buffered EXCEPT ![s] = b]
      /\ pc' = [pc EXCEPT ![s] = "replay"]
      /\ UNCHANGED <<from, open, queue, hold, ring, next, written, out, failures, Held>>
  BY <1>1 DEF Copy, buffer, Held
<1>3. /\ buffered'[s] = b /\ pc'[s] = "replay"
      /\ \A r \in Sessions : r # s => buffered'[r] = buffered[r] /\ pc'[r] = pc[r]
  BY <1>2 DEF TypeOK
<1>4. TypeOK'
  BY <1>2 DEF TypeOK
<1>5. RingTrue' /\ QueueTrue' /\ RingOrder'
  BY <1>2 DEF RingTrue, Around, QueueTrue, RingOrder
<1>6. AllArrived'
  <2>1. \A k \in DOMAIN b : b[k] <= Len(from)
    BY <1>1 DEF AllArrived, Arrived
  <2>2. \A r \in Sessions : \A k \in DOMAIN buffered'[r] : buffered'[r][k] <= Len(from)
    BY <1>3, <2>1 DEF AllArrived, Arrived
  <2> QED
    BY <1>2, <2>2 DEF AllArrived, Arrived
<1>7. SessionOrder'
  <2>1. out[s] = <<>>
    BY <1>2 DEF LockTrue
  <2>2. \A i \in Interfaces : Before(from, written, queue[s][i])
    BY <1>2 DEF LockTrue
  <2>3. Ordered(from, b) /\ \A i \in Interfaces : Before(from, b, queue[s][i])
    BY <1>1, <2>2 DEF RingOrder
  <2> QED
    BY <1>2, <1>3, <2>1, <2>3, EmptyOrder DEF SessionOrder
<1>8. LockTrue'
  <2>1. mu = s /\ \A r \in Sessions : r # s => pc[r] # "open"
    BY <1>2 DEF LockTrue
  <2> QED
    BY <1>2, <1>3, <2>1, Typed DEF LockTrue
<1> QED
  BY <1>4, <1>5, <1>6, <1>7, <1>8

\* A session whose handles are closed.
LEMMA CloseIs ==
  ASSUME TypeOK, NEW s \in Sessions, Close(s)
  PROVE  /\ open' \in [Captures -> SUBSET Interfaces]
         /\ queue' \in [Captures -> [Interfaces -> Seq(Packets)]]
         /\ pc' \in [Sessions -> {"idle", "open", "replay", "closed"}]
         /\ pc'[s] = "closed" /\ \A i \in Interfaces : queue'[s][i] = <<>>
         /\ \A c \in Captures : c # s => open'[c] = open[c] /\ queue'[c] = queue[c]
         /\ \A r \in Sessions : r # s => pc'[r] = pc[r] /\ open'[r] = open[r] /\ queue'[r] = queue[r]
<1>1. s \in Captures /\ Sessions \subseteq Captures
  BY DEF Captures
<1>2. [i \in Interfaces |-> <<>>] \in [Interfaces -> Seq(Packets)]
  OBVIOUS
<1> QED
  BY <1>1, <1>2 DEF Close, TypeOK

LEMMA CloseOrder ==
  ASSUME CInv, NEW s \in Sessions, Close(s), UNCHANGED <<from, hold, ring, next, written, out>>
  PROVE  /\ RingTrue' /\ QueueTrue' /\ RingOrder'
         /\ \A c \in Captures, i \in Interfaces : Arrived(queue[c][i])'
<1> USE DEF CInv
<1>1. \A c \in Captures, i \in Interfaces : queue'[c][i] = IF c = s THEN <<>> ELSE queue[c][i]
  BY CloseIs
<1>2. RingTrue'
  BY DEF RingTrue, Around
<1>3. QueueTrue'
  BY <1>1, EmptyOrder DEF QueueTrue
<1>4. RingOrder'
  <2>1. \A i \in Interfaces : queue'[Main][i] = queue[Main][i]
    BY <1>1, Typed
  <2> QED
    BY <2>1 DEF RingOrder, Held
<1>5. \A c \in Captures, i \in Interfaces : Arrived(queue[c][i])'
  BY <1>1 DEF AllArrived, Arrived
<1> QED
  BY <1>2, <1>3, <1>4, <1>5

LEMMA OpenFailsStep ==
  ASSUME CInv, NEW s \in Sessions, OpenFails(s)
  PROVE  CInv'
<1> USE DEF CInv
<1>1. /\ pc[s] = "open" /\ mu' = None /\ Close(s)
      /\ failures < MaxFailures /\ failures' = failures + 1
      /\ UNCHANGED <<from, hold, ring, next, written, buffered, out>>
  BY DEF OpenFails, buffer
<1>2. /\ pc'[s] = "closed" /\ \A i \in Interfaces : queue'[s][i] = <<>>
      /\ \A r \in Sessions : r # s => pc'[r] = pc[r] /\ open'[r] = open[r] /\ queue'[r] = queue[r]
  BY <1>1, CloseIs
<1>3. TypeOK'
  <2>1. failures' \in 0 .. MaxFailures
    BY <1>1, CapturedAssumption DEF CapturedAssumption, TypeOK
  <2> QED
    BY <1>1, <2>1, CloseIs DEF TypeOK
<1>4. RingTrue' /\ QueueTrue' /\ RingOrder' /\ \A c \in Captures, i \in Interfaces : Arrived(queue[c][i])'
  BY <1>1, CloseOrder
<1>5. AllArrived'
  BY <1>1, <1>4 DEF AllArrived, Arrived, Held
<1>6. SessionOrder'
  <2>1. ASSUME NEW r \in Sessions, NEW i \in Interfaces
        PROVE  Before(from, out[r], queue'[r][i]) /\ Before(from, buffered[r], queue'[r][i])
    BY <1>2, EmptyOrder DEF SessionOrder
  <2> QED
    BY <1>1, <2>1 DEF SessionOrder
<1>7. LockTrue'
  <2>1. mu = s /\ \A r \in Sessions : r # s => pc[r] # "open"
    BY <1>1 DEF LockTrue
  <2> QED
    BY <1>1, <1>2, <2>1, Typed DEF LockTrue
<1> QED
  BY <1>3, <1>4, <1>5, <1>6, <1>7

LEMMA LeaveStep ==
  ASSUME CInv, NEW s \in Sessions, Leave(s)
  PROVE  CInv'
<1> USE DEF CInv
<1>1. /\ pc[s] = "replay" /\ Close(s)
      /\ failures < MaxFailures /\ failures' = failures + 1
      /\ buffered' = [buffered EXCEPT ![s] = <<>>]
      /\ UNCHANGED <<from, hold, ring, next, written, mu, out>>
  BY DEF Leave, buffer
<1>2. /\ pc'[s] = "closed" /\ \A i \in Interfaces : queue'[s][i] = <<>>
      /\ \A r \in Sessions : r # s => pc'[r] = pc[r] /\ open'[r] = open[r] /\ queue'[r] = queue[r]
  BY <1>1, CloseIs
<1>3. /\ buffered'[s] = <<>> /\ \A r \in Sessions : r # s => buffered'[r] = buffered[r]
      /\ buffered' \in [Sessions -> Seq(Packets)]
  <2>1. <<>> \in Seq(Packets)
    OBVIOUS
  <2> QED
    BY <1>1, <2>1 DEF TypeOK
<1>4. TypeOK'
  <2>1. failures' \in 0 .. MaxFailures
    BY <1>1, CapturedAssumption DEF CapturedAssumption, TypeOK
  <2> QED
    BY <1>1, <1>3, <2>1, CloseIs DEF TypeOK
<1>5. RingTrue' /\ QueueTrue' /\ RingOrder' /\ \A c \in Captures, i \in Interfaces : Arrived(queue[c][i])'
  BY <1>1, CloseOrder
<1>6. AllArrived'
  <2>1. \A r \in Sessions : Arrived(buffered[r])'
    BY <1>1, <1>3 DEF AllArrived, Arrived
  <2> QED
    BY <1>1, <1>5, <2>1 DEF AllArrived, Arrived, Held
<1>7. SessionOrder'
  <2> SUFFICES ASSUME NEW r \in Sessions
               PROVE  /\ Ordered(from, out[r]) /\ Ordered(from, buffered'[r])
                      /\ Before(from, out[r], buffered'[r])
                      /\ \A i \in Interfaces :
                           /\ Before(from, out[r], queue'[r][i])
                           /\ Before(from, buffered'[r], queue'[r][i])
    BY <1>1 DEF SessionOrder
  <2>1. CASE r = s
    BY <1>2, <1>3, <2>1, EmptyOrder DEF SessionOrder
  <2>2. CASE r # s
    BY <1>2, <1>3, <2>2 DEF SessionOrder
  <2> QED
    BY <2>1, <2>2
<1>8. LockTrue'
  BY <1>1, <1>2, <1>3 DEF LockTrue
<1> QED
  BY <1>4, <1>5, <1>6, <1>7, <1>8

LEMMA ReplayStep ==
  ASSUME CInv, NEW s \in Sessions, Replay(s)
  PROVE  CInv'
<1> USE DEF CInv
<1>1. PICK b \in Seq(Packets) : b = buffered[s] /\ b # <<>>
  BY DEF Replay, TypeOK
<1>2. PICK h \in Packets, o \in Seq(Packets) : h = Head(b) /\ o = out[s]
  BY <1>1, Taken, Typed
<1>3. /\ pc[s] = "replay"
      /\ out' = [out EXCEPT ![s] = Append(o, h)] /\ buffered' = [buffered EXCEPT ![s] = Tail(b)]
      /\ UNCHANGED <<from, open, queue, hold, ring, next, written, mu, pc, failures, Held>>
  BY <1>1, <1>2 DEF Replay, buffer, Held
<1>4. /\ out'[s] = Append(o, h) /\ buffered'[s] = Tail(b)
      /\ \A r \in Sessions : r # s => out'[r] = out[r] /\ buffered'[r] = buffered[r]
  BY <1>3 DEF TypeOK
<1>5. /\ Append(o, h) \in Seq(Packets) /\ Tail(b) \in Seq(Packets)
      /\ \A k \in DOMAIN Append(o, h) :
           Append(o, h)[k] = b[1] \/ (k \in DOMAIN o /\ Append(o, h)[k] = o[k])
      /\ 1 \in DOMAIN b
      /\ \A k \in DOMAIN Tail(b) : k + 1 \in DOMAIN b /\ Tail(b)[k] = b[k + 1]
  <2>1. /\ Tail(b) \in Seq(Packets) /\ h = b[1] /\ 1 \in DOMAIN b
        /\ \A k \in DOMAIN Tail(b) : k + 1 \in DOMAIN b /\ Tail(b)[k] = b[k + 1]
    BY <1>1, <1>2, Taken
  <2>2. /\ Append(o, h) \in Seq(Packets)
        /\ \A k \in DOMAIN Append(o, h) : Append(o, h)[k] = h \/ (k \in DOMAIN o /\ Append(o, h)[k] = o[k])
    BY <1>2, Appended
  <2> QED
    BY <2>1, <2>2
<1>6. TypeOK'
  BY <1>3, <1>5 DEF TypeOK
<1>7. RingTrue' /\ QueueTrue' /\ RingOrder'
  BY <1>3 DEF RingTrue, Around, QueueTrue, RingOrder
<1>8. AllArrived'
  <2>1. Arrived(o) /\ Arrived(b)
    BY <1>1, <1>2 DEF AllArrived
  <2>2. /\ \A k \in DOMAIN Append(o, h) : Append(o, h)[k] <= Len(from)
        /\ \A k \in DOMAIN Tail(b) : Tail(b)[k] <= Len(from)
    BY <1>5, <2>1 DEF Arrived
  <2>3. ASSUME NEW r \in Sessions
        PROVE  /\ \A k \in DOMAIN out'[r] : out'[r][k] <= Len(from)
               /\ \A k \in DOMAIN buffered'[r] : buffered'[r][k] <= Len(from)
    <3>1. CASE r = s
      BY <1>4, <2>2, <3>1
    <3>2. CASE r # s
      BY <1>4, <3>2 DEF AllArrived, Arrived
    <3> QED
      BY <3>1, <3>2
  <2> QED
    BY <1>3, <2>3 DEF AllArrived, Arrived
<1>9. SessionOrder'
  <2>1. /\ Ordered(from, o) /\ Ordered(from, b) /\ Before(from, o, b)
        /\ \A i \in Interfaces : Before(from, o, queue[s][i]) /\ Before(from, b, queue[s][i])
    BY <1>1, <1>2 DEF SessionOrder
  <2>2. /\ \A t : Before(from, t, b) => Before(from, t, <<h>>) /\ Before(from, t, Tail(b))
        /\ \A t : Before(from, b, t) => Before(from, <<h>>, t) /\ Before(from, Tail(b), t)
        /\ Ordered(from, Tail(b)) /\ Before(from, <<h>>, Tail(b))
    BY <1>1, <1>2, <2>1, TakenBefore
  <2>3. Before(from, o, <<h>>) /\ Before(from, o, Tail(b))
    BY <2>1, <2>2
  <2>4. Ordered(from, Append(o, h)) /\ Before(from, Append(o, h), Tail(b))
    BY <2>1, <2>2, <2>3, OrderedAppend, BeforeAppendLeft
  <2>5. ASSUME NEW i \in Interfaces
        PROVE  Before(from, Append(o, h), queue[s][i]) /\ Before(from, Tail(b), queue[s][i])
    <3>1. Before(from, <<h>>, queue[s][i]) /\ Before(from, Tail(b), queue[s][i])
      BY <2>1, <2>2
    <3> QED
      BY <2>1, <3>1, BeforeAppendLeft
  <2>6. ASSUME NEW r \in Sessions
        PROVE  /\ Ordered(from', out'[r]) /\ Ordered(from', buffered'[r])
               /\ Before(from', out'[r], buffered'[r])
               /\ \A i \in Interfaces :
                    /\ Before(from', out'[r], queue'[r][i])
                    /\ Before(from', buffered'[r], queue'[r][i])
    <3>1. CASE r = s
      BY <1>3, <1>4, <2>2, <2>4, <2>5, <3>1
    <3>2. CASE r # s
      BY <1>3, <1>4, <3>2 DEF SessionOrder
    <3> QED
      BY <3>1, <3>2
  <2> QED
    BY <2>6 DEF SessionOrder
<1>10. LockTrue'
  BY <1>3, <1>4 DEF LockTrue
<1> QED
  BY <1>6, <1>7, <1>8, <1>9, <1>10

LEMMA StreamStep ==
  ASSUME CInv, NEW s \in Sessions, NEW i \in Interfaces, Stream(s, i)
  PROVE  CInv'
<1> USE DEF CInv
<1>1. s \in Captures /\ s # Main /\ Take(s, i)
  BY Typed DEF Stream
<1>2. PICK q \in Seq(Packets) : q = queue[s][i] /\ q # <<>>
  BY <1>1, TakeIs
<1>3. PICK h \in Packets, o \in Seq(Packets) : h = Head(q) /\ o = out[s]
  BY <1>2, Taken, Typed
<1>4. /\ pc[s] = "replay" /\ buffered[s] = <<>>
      /\ out' = [out EXCEPT ![s] = Append(o, h)]
      /\ UNCHANGED <<from, open, hold, ring, next, written, mu, pc, buffered, failures, Held>>
  BY <1>2, <1>3 DEF Stream, buffer, Held
<1>5. /\ queue' \in [Captures -> [Interfaces -> Seq(Packets)]]
      /\ queue'[s][i] = Tail(q)
      /\ \A d \in Captures, j \in Interfaces : d # s \/ j # i => queue'[d][j] = queue[d][j]
  BY <1>1, <1>2, TakeIs
<1>6. out'[s] = Append(o, h) /\ \A r \in Sessions : r # s => out'[r] = out[r]
  BY <1>4 DEF TypeOK
<1>7. /\ Append(o, h) \in Seq(Packets)
      /\ \A k \in DOMAIN Append(o, h) : Append(o, h)[k] = h \/ (k \in DOMAIN o /\ Append(o, h)[k] = o[k])
  BY <1>3, Appended
<1>8. /\ Arrived(q) /\ Ordered(from, q) /\ \A k \in DOMAIN q : from[q[k]] = i
      /\ h = q[1] /\ 1 \in DOMAIN q
  BY <1>1, <1>2, <1>3, Taken DEF AllArrived, QueueTrue
<1>9. TypeOK'
  BY <1>4, <1>5, <1>7 DEF TypeOK
<1>10. RingTrue'
  BY <1>4 DEF RingTrue, Around
<1>11. QueueTrue' /\ \A d \in Captures, j \in Interfaces : Arrived(queue[d][j])'
  BY <1>1, <1>4, TakeKeeps
<1>12. RingOrder'
  <2>1. \A j \in Interfaces : queue'[Main][j] = queue[Main][j]
    BY <1>1, <1>5, Typed
  <2> QED
    BY <1>4, <2>1 DEF RingOrder
<1>13. AllArrived'
  <2>1. \A k \in DOMAIN Append(o, h) : Append(o, h)[k] <= Len(from)
    BY <1>3, <1>7, <1>8 DEF AllArrived, Arrived
  <2>2. ASSUME NEW r \in Sessions
        PROVE  \A k \in DOMAIN out'[r] : out'[r][k] <= Len(from)
    BY <1>6, <2>1 DEF AllArrived, Arrived
  <2> QED
    BY <1>4, <1>11, <2>2 DEF AllArrived, Arrived
<1>14. SessionOrder'
  <2>1. Ordered(from, o) /\ \A j \in Interfaces : Before(from, o, queue[s][j])
    BY <1>3 DEF SessionOrder
  <2>2. /\ Before(from, o, <<h>>) /\ Before(from, o, Tail(q))
        /\ Before(from, <<h>>, Tail(q))
    BY <1>2, <1>3, <1>8, <2>1, TakenBefore
  <2>3. Ordered(from, Append(o, h))
    BY <2>1, <2>2, OrderedAppend
  <2>4. ASSUME NEW j \in Interfaces
        PROVE  Before(from, Append(o, h), queue'[s][j])
    <3>1. CASE j = i
      BY <1>5, <2>2, <3>1, BeforeAppendLeft
    <3>2. CASE j # i
      <4>1. queue'[s][j] = queue[s][j]
        BY <1>1, <1>5, <3>2
      <4>2. \A k \in DOMAIN queue[s][j] : from[queue[s][j][k]] = j
        BY <1>1 DEF QueueTrue
      <4>3. \A k \in DOMAIN <<h>> : from[<<h>>[k]] = i
        BY <1>8, Single
      <4>4. Before(from, <<h>>, queue[s][j])
        BY <3>2, <4>2, <4>3, OthersBefore
      <4> QED
        BY <2>1, <4>1, <4>4, BeforeAppendLeft
    <3> QED
      BY <3>1, <3>2
  <2>5. \A r \in Sessions : r # s => \A j \in Interfaces : queue'[r][j] = queue[r][j]
    BY <1>5, Typed
  <2>6. ASSUME NEW r \in Sessions
        PROVE  /\ Ordered(from', out'[r]) /\ Ordered(from', buffered'[r])
               /\ Before(from', out'[r], buffered'[r])
               /\ \A j \in Interfaces :
                    /\ Before(from', out'[r], queue'[r][j])
                    /\ Before(from', buffered'[r], queue'[r][j])
    <3>1. CASE r = s
      BY <1>4, <1>6, <2>3, <2>4, <3>1, EmptyOrder
    <3>2. CASE r # s
      BY <1>4, <1>6, <2>5, <3>2 DEF SessionOrder
    <3> QED
      BY <3>1, <3>2
  <2> QED
    BY <2>6 DEF SessionOrder
<1>15. LockTrue'
  <2>1. \A r \in Sessions : r # s => \A j \in Interfaces : queue'[r][j] = queue[r][j]
    BY <1>5, Typed
  <2> QED
    BY <1>4, <1>6, <2>1 DEF LockTrue
<1> QED
  BY <1>9, <1>10, <1>11, <1>12, <1>13, <1>14, <1>15

\* The ring holds what was written last and every sequence of packets is in order,
\* after each step of logic, of request, of the kernel and of a client.
THEOREM CapturedInvariant == Spec => []CInv
<1>1. CInv /\ [Next]_vars => CInv'
  <2> SUFFICES ASSUME CInv, [Next]_vars PROVE CInv'
    OBVIOUS
  <2>1. CASE UNCHANGED vars
    <3>1. UNCHANGED <<from, open, queue, hold, ring, next, written, mu, pc, buffered, out, failures, Held>>
      BY <2>1 DEF vars, buffer, session, Held
    <3> QED
      BY <3>1 DEF CInv, TypeOK, RingTrue, Around, AllArrived, Arrived, QueueTrue, RingOrder,
                  SessionOrder, LockTrue
  <2>2. ASSUME NEW i \in Interfaces, Arrive(i) \/ Receive(i) PROVE CInv'
    BY <2>2, ArriveStep, ReceiveStep
  <2>3. CASE WritePacket
    BY <2>3, WritePacketStep
  <2>4. ASSUME NEW s \in Sessions,
               Lock(s) \/ OpenHandle(s) \/ Copy(s) \/ OpenFails(s) \/ Replay(s) \/ Leave(s)
        PROVE  CInv'
    BY <2>4, LockStep, OpenHandleStep, CopyStep, OpenFailsStep, ReplayStep, LeaveStep
  <2>5. ASSUME NEW s \in Sessions, NEW i \in Interfaces, Stream(s, i) PROVE CInv'
    BY <2>5, StreamStep
  <2> QED
    BY <2>1, <2>2, <2>3, <2>4, <2>5 DEF Next
<1> QED
  BY InitCInv, <1>1, PTL DEF Spec

\* Type correctness: a packet on a handle, in the ring or on its way to a session
\* has arrived, and r points into the ring.
THEOREM CapturedTypeCorrect == Spec => []TypeOK
<1>1. CInv => TypeOK
  BY DEF CInv
<1> QED
  BY CapturedInvariant, <1>1, PTL

\* packetsLocked, once around the ring from where r points to, returns the latest
\* packets written, oldest first: all of them until the ring is full, and as many
\* as it has slots from then on, for any number of slots.
THEOREM BufferLatest == Spec => []BufferIsLatest
<1>1. CInv => BufferIsLatest
  <2> SUFFICES ASSUME CInv PROVE BufferIsLatest
    OBVIOUS
  <2>1. PacketsLocked = Latest(Size)
    BY CollectedIs DEF CInv
  <2>2. Len(written) - Size + Size = Len(written)
    BY CapturedAssumption, Typed DEF CInv, TypeOK, CapturedAssumption
  <2> QED
    BY <2>1, <2>2 DEF Latest, Oldest, BufferIsLatest
<1> QED
  BY CapturedInvariant, <1>1, PTL

\* A session is sent the packets of an interface in the order of their arrival and
\* none twice, whatever arrives between the lock, the handles and the copy.
THEOREM SessionsInOrder == Spec => []SentInOrder
<1>1. CInv => SentInOrder
  BY DEF CInv, SessionOrder, Ordered, SentInOrder
<1> QED
  BY CapturedInvariant, <1>1, PTL

-----------------------------------------------------------------------------
(* The pool of ssh listeners, and of the web servers *)

\* A goroutine that has ended has no entry, so a listener that is used again
\* takes none over.
PInv == PoolTypeOK /\ EntriesLive

LEMMA InitPInv == PoolInit => PInv
  BY ListenersAssumption DEF PoolInit, PInv, PoolTypeOK, EntriesLive, States

\* What a call of ListenAndServe does to the map, to an old and to a new entry.
LEMMA CallPInv ==
  ASSUME PInv, NEW hosts \in SUBSET Hosts, ListenAndServe(hosts)
  PROVE  PInv'
<1> USE ListenersAssumption DEF PInv
<1> DEFINE new == {h \in hosts : listeners[h] = Nothing}
<1> DEFINE vanished == Vanished(hosts)
<1>1. PICK made \in [new -> Unused] :
        /\ \A g, h \in new : made[g] = made[h] => g = h
        /\ listeners' = [h \in Hosts |-> IF h \in new THEN made[h]
                                         ELSE IF h \in vanished THEN Nothing
                                         ELSE listeners[h]]
        /\ host' = [l \in Listeners |->
                      IF \E h \in new : made[h] = l
                      THEN CHOOSE h \in new : made[h] = l ELSE host[l]]
        /\ state' = [l \in Listeners |->
                       IF \E h \in new : made[h] = l THEN "starting"
                       ELSE IF /\ \E h \in vanished : listeners[h] = l
                               /\ state[l] \in {"starting", "running"}
                            THEN "closed" ELSE state[l]]
  BY DEF ListenAndServe
<1>2. wanted' = hosts /\ UNCHANGED ssh
  BY DEF ListenAndServe
<1>3. new \subseteq Hosts /\ \A h \in new : made[h] \in Listeners /\ state[made[h]] = "unused"
  BY DEF Unused
<1>4. PoolTypeOK'
  <2>1. listeners' \in [Hosts -> Listeners \cup {Nothing}]
    BY <1>1, <1>3 DEF PoolTypeOK
  <2>2. host' \in [Listeners -> Hosts \cup {Nothing}]
    BY <1>1, <1>3 DEF PoolTypeOK
  <2>3. state' \in [Listeners -> States]
    BY <1>1 DEF PoolTypeOK, States
  <2> QED
    BY <1>2, <2>1, <2>2, <2>3 DEF PoolTypeOK
<1>5. EntriesLive'
  <2> SUFFICES ASSUME NEW h \in Hosts, listeners'[h] # Nothing
               PROVE  /\ state'[listeners'[h]] \in {"starting", "running", "returned", "failed"}
                      /\ host'[listeners'[h]] = h
                      /\ h \in wanted'
    BY DEF EntriesLive
  <2>1. CASE h \in new
    <3>1. listeners'[h] = made[h] /\ made[h] \in Listeners
      BY <1>1, <1>3, <2>1
    <3>2. state'[made[h]] = "starting" /\ host'[made[h]] = h
      BY <1>1, <2>1, <3>1
    <3> QED
      BY <1>2, <2>1, <3>1, <3>2
  <2>2. CASE h \notin new
    <3>1. /\ h \notin vanished
          /\ listeners'[h] = listeners[h] /\ listeners[h] # Nothing
      BY <1>1, <2>2
    <3>2. h \in hosts
      BY <3>1 DEF Vanished
    <3>3. /\ listeners[h] \in Listeners
          /\ state[listeners[h]] \in {"starting", "running", "returned", "failed"}
          /\ host[listeners[h]] = h
      BY <3>1 DEF EntriesLive, PoolTypeOK
    <3>4. ~ \E g \in new : made[g] = listeners[h]
      BY <1>3, <3>3
    <3>5. ~ \E g \in vanished : listeners[g] = listeners[h]
      BY <3>1, <3>3 DEF EntriesLive, Vanished
    <3>6. state'[listeners[h]] = state[listeners[h]] /\ host'[listeners[h]] = host[listeners[h]]
      BY <1>1, <3>3, <3>4, <3>5
    <3> QED
      BY <1>2, <3>1, <3>2, <3>3, <3>6
  <2> QED
    BY <2>1, <2>2
<1> QED
  BY <1>4, <1>5

LEMMA StepPInv == PInv /\ [PoolNext]_poolVars => PInv'
<1> SUFFICES ASSUME PInv, [PoolNext]_poolVars PROVE PInv'
  OBVIOUS
<1> USE ListenersAssumption DEF PInv, PoolTypeOK, States, EntriesLive
<1>1. ASSUME NEW hosts \in SUBSET Hosts, ListenAndServe(hosts) PROVE PInv'
  BY <1>1, CallPInv
<1>2. ASSUME NEW hosts \in SUBSET Hosts, ClosePanics(hosts) PROVE PInv'
  BY <1>2 DEF ClosePanics
<1>3. ASSUME NEW l \in Listeners, Bind(l) PROVE PInv'
  BY <1>3 DEF Bind
<1>4. ASSUME NEW l \in Listeners, Return(l) PROVE PInv'
  BY <1>4 DEF Return
<1>5. ASSUME NEW l \in Listeners, Reap(l) PROVE PInv'
  BY <1>5 DEF Reap
<1>6. CASE UNCHANGED poolVars
  BY <1>6 DEF poolVars
<1> QED
  BY <1>1, <1>2, <1>3, <1>4, <1>5, <1>6 DEF PoolNext

\* The state of a pool has its types, with any hosts and listeners.
THEOREM PoolTypeCorrect == PoolSpec => []PoolTypeOK
<1>1. PoolSpec => []PInv
  BY InitPInv, StepPInv, PTL DEF PoolSpec
<1> QED
  BY <1>1, PTL DEF PInv

\* No entry outlives its listener: a host whose listener has ended is listened
\* on again at the next call, in every process, also in captured, which a Close
\* too early may end.
THEOREM EntriesAreLive == PoolSpec => []EntriesLive
<1>1. PoolSpec => []PInv
  BY InitPInv, StepPInv, PTL DEF PoolSpec
<1> QED
  BY <1>1, PTL DEF PInv

=============================================================================
