------------------------- MODULE FwCounters_proofs -------------------------
(***************************************************************************)
(* Proofs that every packet is counted once, but for what a replacement of *)
(* the ruleset and a scrape do to each other, and that the exported value  *)
(* only grows, for any number of scrapers, packets, rulesets and failures. *)
(***************************************************************************)
EXTENDS FwCounters, TLAPS

\* Only what is between GetObjReset and Add has been read.
ReadOnce == \A s \in Scrapers : pc[s] # "add" => read[s] = 0

\* What applyFirewall will write, with what it has missed, is what is there or was
\* taken by a scrape since.
WindowTrue == apply # None => apply + missed = InKernel + taken

\* A scraper exports the metric as it is, so the metric is ahead of what is out.
ReportedKnown == reported <= packets

CInv == TypeOK /\ ReadOnce /\ WindowTrue /\ ReportedKnown /\ CountedOnce

LEMMA InitCInv == Init => CInv
<1> SUFFICES ASSUME Init PROVE CInv
  OBVIOUS
<1>1. TypeOK
  <2>1. \A s \in Scrapers : pc[s] \in {"reset", "add"} <=> mu = s
    BY CountersAssumption DEF Init
  <2>2. pc \in [Scrapers -> {"idle", "reset", "add", "return"}] /\ read \in [Scrapers -> Nat]
    BY DEF Init
  <2>3. /\ {traffic, packets, previous, reported, applies, failures} \subseteq Nat
        /\ {taken, missed, doubled, lost} \subseteq Nat
    BY DEF Init
  <2> QED
    BY <2>1, <2>2, <2>3 DEF Init, TypeOK
<1>2. Moving = 0 /\ InKernel = 0
  BY DEF Init, Moving, InKernel
<1> QED
  BY <1>1, <1>2
  DEF Init, CInv, ReadOnce, WindowTrue, ReportedKnown, CountedOnce, Counted

\* The types of the counters, one by one.
LEMMA CounterTypes ==
  ASSUME TypeOK
  PROVE  /\ traffic \in Nat /\ packets \in Nat /\ previous \in Nat /\ reported \in Nat
         /\ applies \in Nat /\ failures \in Nat
         /\ taken \in Nat /\ missed \in Nat /\ doubled \in Nat /\ lost \in Nat
         /\ Moving \in Nat /\ InKernel \in Nat
  BY DEF TypeOK, Moving, InKernel

LEMMA StepTypeOK == TypeOK /\ [Next]_vars => TypeOK'
<1> SUFFICES ASSUME TypeOK, [Next]_vars PROVE TypeOK'
  OBVIOUS
<1> USE CountersAssumption, CounterTypes
<1>1. CASE Forward
  BY <1>1 DEF Forward, TypeOK, scrape, window, errors
<1>2. CASE GetCounterObj
  BY <1>2 DEF GetCounterObj, Begin, TypeOK, scrape, window, errors
<1>3. CASE GetCounterObjFails
  BY <1>3 DEF GetCounterObjFails, Begin, TypeOK, scrape, window, errors
<1>4. CASE Flush
  BY <1>4 DEF Flush, TypeOK, scrape, window, errors
<1>5. CASE FlushFails
  BY <1>5 DEF FlushFails, TypeOK, scrape, window, errors
<1>6. ASSUME NEW s \in Scrapers, Lock(s) PROVE TypeOK'
  BY <1>6 DEF Lock, TypeOK, window, errors
<1>7. ASSUME NEW s \in Scrapers, GetObjReset(s) PROVE TypeOK'
  BY <1>7 DEF GetObjReset, TypeOK, window, errors
<1>8. ASSUME NEW s \in Scrapers, GetObjResetFails(s) PROVE TypeOK'
  BY <1>8 DEF GetObjResetFails, TypeOK, window, errors
<1>9. ASSUME NEW s \in Scrapers, Add(s) PROVE TypeOK'
  BY <1>9 DEF Add, TypeOK, window, errors
<1>10. ASSUME NEW s \in Scrapers, Report(s) PROVE TypeOK'
  BY <1>10 DEF Report, TypeOK, window, errors
<1>11. CASE Restart
  BY <1>11 DEF Restart, TypeOK, window, errors
<1>12. CASE UNCHANGED vars
  BY <1>12 DEF vars, scrape, window, errors, TypeOK
<1> QED
  BY <1>1, <1>2, <1>3, <1>4, <1>5, <1>6, <1>7, <1>8, <1>9, <1>10, <1>11, <1>12 DEF Next

LEMMA StepCInv == CInv /\ [Next]_vars => CInv'
<1> SUFFICES ASSUME CInv, [Next]_vars PROVE CInv'
  OBVIOUS
<1>1. TypeOK /\ TypeOK'
  BY StepTypeOK DEF CInv
<1>2. /\ traffic \in Nat /\ packets \in Nat /\ previous \in Nat /\ reported \in Nat
      /\ taken \in Nat /\ missed \in Nat /\ doubled \in Nat /\ lost \in Nat
      /\ Moving \in Nat /\ InKernel \in Nat
  BY <1>1, CounterTypes
<1> DEFINE Rest == ReadOnce /\ WindowTrue /\ ReportedKnown /\ CountedOnce
<1> SUFFICES Rest'
  BY <1>1 DEF CInv
<1> USE CountersAssumption, <1>1, <1>2
    DEF CInv, ReadOnce, WindowTrue, ReportedKnown, CountedOnce, Counted, window, errors
<1>3. CASE Forward
  BY <1>3 DEF Forward, scrape, Moving, InKernel, TypeOK
<1>4. CASE GetCounterObj
  BY <1>4 DEF GetCounterObj, scrape, Moving, InKernel, TypeOK
<1>5. CASE GetCounterObjFails
  BY <1>5 DEF GetCounterObjFails, scrape, Moving, InKernel, TypeOK
<1>6. CASE Flush
  <2>1. apply \in Nat /\ InKernel' = apply /\ Moving' = Moving
    BY <1>6 DEF Flush, scrape, Moving, InKernel, TypeOK
  <2>2. apply + missed = InKernel + taken
    BY <1>6 DEF Flush
  <2>3. CountedOnce'
    BY <1>6, <2>1, <2>2 DEF Flush
  <2> QED
    BY <1>6, <2>3 DEF Flush, scrape
<1>7. CASE FlushFails
  BY <1>7 DEF FlushFails, scrape, Moving, InKernel, TypeOK
<1>8. ASSUME NEW s \in Scrapers, Lock(s) PROVE Rest'
  <2>1. pc[s] = "idle" /\ read[s] = 0 /\ Moving = 0 /\ Moving' = 0
    BY <1>8 DEF Lock, Moving, TypeOK
  <2> QED
    BY <1>8, <2>1 DEF Lock, InKernel, TypeOK
<1>9. ASSUME NEW s \in Scrapers, GetObjReset(s) PROVE Rest'
  <2>1. mu = s /\ mu' = s /\ read[s] = 0 /\ Moving = 0
    BY <1>9 DEF GetObjReset, TypeOK, Moving
  <2>2. Moving' = kernel /\ InKernel = kernel /\ InKernel' = 0
    BY <1>9, <2>1 DEF GetObjReset, TypeOK, Moving, InKernel
  <2>3. CountedOnce'
    <3>1. kernel \in Nat
      BY <1>9 DEF GetObjReset, TypeOK
    <3>2. Counted' = Counted
      BY <1>9, <2>1, <2>2, <3>1 DEF GetObjReset
    <3> QED
      BY <1>9, <3>1, <3>2 DEF GetObjReset
  <2>4. WindowTrue'
    BY <1>9, <2>2 DEF GetObjReset, TypeOK
  <2>5. ReadOnce' /\ ReportedKnown'
    BY <1>9 DEF GetObjReset, TypeOK
  <2> QED
    BY <2>3, <2>4, <2>5
<1>10. ASSUME NEW s \in Scrapers, GetObjResetFails(s) PROVE Rest'
  <2>1. mu = s /\ Moving = 0 /\ Moving' = 0
    BY <1>10 DEF GetObjResetFails, TypeOK, Moving
  <2> QED
    BY <1>10, <2>1 DEF GetObjResetFails, InKernel, TypeOK
<1>11. ASSUME NEW s \in Scrapers, Add(s) PROVE Rest'
  <2>1. mu = s /\ Moving = read[s] /\ Moving' = 0 /\ read[s] \in Nat
    BY <1>11 DEF Add, TypeOK, Moving
  <2> QED
    BY <1>11, <2>1 DEF Add, InKernel, TypeOK
<1>12. ASSUME NEW s \in Scrapers, Report(s) PROVE Rest'
  BY <1>12 DEF Report, Moving, InKernel, TypeOK
<1>13. CASE Restart
  <2>1. Moving' = 0 /\ InKernel' = InKernel
    BY <1>13 DEF Restart, Moving, InKernel
  <2> QED
    BY <1>13, <2>1 DEF Restart
<1>14. CASE UNCHANGED vars
  BY <1>14 DEF vars, scrape, Moving, InKernel
<1> QED
  BY <1>3, <1>4, <1>5, <1>6, <1>7, <1>8, <1>9, <1>10, <1>11, <1>12, <1>13, <1>14 DEF Next

LEMMA Invariance == Spec => []CInv
  BY InitCInv, StepCInv, PTL DEF Spec

\* The state has its types, and updateCounter's mutex excludes: one scraper at a
\* time is between the reset of the kernel's counter and the addition.
THEOREM CountersTypeCorrect == Spec => []TypeOK
  BY Invariance, PTL DEF CInv

\* Every packet is counted once, however scrapes, new rulesets, failures and restarts
\* interleave, but for those moved, or forwarded, between the two halves of
\* applyFirewall, and those a crash or an unreadable counter drops.
THEOREM PacketsCountedOnce == Spec => []CountedOnce
  BY Invariance, PTL DEF CInv

\* The exported value never decreases during a process, although the functions of
\* a counter read it without the mutex.
THEOREM ReportedOnlyGrows == Spec => ReportedGrows
<1>1. CInv /\ [Next]_vars => [reported' >= reported \/ (reported' = 0 /\ packets' = 0)]_vars
  <2> SUFFICES ASSUME CInv, Next
               PROVE  reported' >= reported \/ (reported' = 0 /\ packets' = 0)
    OBVIOUS
  <2>1. reported \in Nat /\ packets \in Nat /\ reported <= packets
    BY CounterTypes DEF CInv, ReportedKnown
  <2>2. reported' \in {reported, packets} \/ (reported' = 0 /\ packets' = 0)
    BY DEF Next, Forward, GetCounterObj, GetCounterObjFails, Flush, FlushFails, Lock,
           GetObjReset, GetObjResetFails, Add, Report, Restart
  <2> QED
    BY <2>1, <2>2
<1> QED
  BY <1>1, Invariance, PTL DEF Spec, ReportedGrows
=============================================================================
