------------------------------ MODULE FwCounters ------------------------------
(***************************************************************************)
(* The counter of forwarded packets: netconfigd exports it as a metric,    *)
(* which every scrape moves out of the kernel (GetObjReset), and           *)
(* applyFirewall carries it over a replacement of the ruleset (GetObj,     *)
(* then Flush).  The two families have a counter each, and one is modelled;*)
(* packets and bytes of it behave alike.                                   *)
(*                                                                         *)
(* External: the kernel's counter and the traffic; each netlink request    *)
(* and each transaction is atomic.                                         *)
(***************************************************************************)
EXTENDS Naturals

CONSTANTS
    Scrapers,     \* the functions that may be collecting at a time
    None,
    MaxTraffic,   \* bound on the packets
    MaxApplies,   \* bound on the runs of applyFirewall
    MaxFailures   \* bound on the failed requests and the crashes

ASSUME CountersAssumption ==
    /\ MaxTraffic \in Nat /\ MaxApplies \in Nat /\ MaxFailures \in Nat
    /\ None \notin Nat \cup Scrapers

VARIABLES
    kernel,     \* external: the counter's value; None: there is no ruleset
    traffic,    \* packets forwarded while there was a counter (history)
    apply,      \* what applyFirewall has read and will write; None: it is not running
    mu,         \* the scraper that holds the mutex
    pc,         \* where each scraper is
    read,       \* what GetObjReset returned to it
    packets,    \* the metric's value
    previous,   \* the metric at the end of each earlier process, added up (history)
    reported,   \* the last value this process has exported
    taken,      \* moved out of the kernel since applyFirewall has read the counter (history)
    missed,     \* in the kernel since, or before when the read failed, and not read (history)
    doubled,    \* packets a Flush has put back although they were moved (history)
    lost,       \* packets a Flush or a crash has dropped (history)
    applies, failures

scrape == <<mu, pc, read>>
window == <<taken, missed>>
errors == <<doubled, lost>>
vars == <<kernel, traffic, apply, scrape, packets, previous, reported, window, errors,
          applies, failures>>

Init ==
    /\ kernel = None /\ traffic = 0
    /\ apply = None
    /\ mu = None /\ pc = [s \in Scrapers |-> "idle"] /\ read = [s \in Scrapers |-> 0]
    /\ packets = 0 /\ previous = 0 /\ reported = 0
    /\ taken = 0 /\ missed = 0 /\ doubled = 0 /\ lost = 0
    /\ applies = 0 /\ failures = 0

Forward ==
    /\ kernel # None
    /\ traffic < MaxTraffic
    /\ traffic' = traffic + 1
    /\ kernel' = kernel + 1
    /\ missed' = IF apply = None THEN missed ELSE missed + 1
    /\ UNCHANGED <<apply, scrape, packets, previous, reported, taken, errors, applies, failures>>

-----------------------------------------------------------------------------
(* applyFirewall *)

Begin == apply = None /\ applies < MaxApplies /\ applies' = applies + 1

InKernel == IF kernel = None THEN 0 ELSE kernel

\* getCounterObj: without an object the counter starts at zero.
GetCounterObj ==
    /\ Begin
    /\ apply' = InKernel
    /\ taken' = 0 /\ missed' = 0
    /\ UNCHANGED <<kernel, traffic, scrape, packets, previous, reported, errors, failures>>

GetCounterObjFails ==
    /\ failures < MaxFailures /\ failures' = failures + 1
    /\ Begin
    /\ apply' = 0
    /\ taken' = 0 /\ missed' = InKernel
    /\ UNCHANGED <<kernel, traffic, scrape, packets, previous, reported, errors>>

Flush ==
    /\ apply # None
    /\ kernel' = apply
    /\ apply' = None
    /\ doubled' = doubled + taken /\ lost' = lost + missed
    /\ UNCHANGED <<traffic, scrape, packets, previous, reported, window, applies, failures>>

\* The transaction is refused, and the ruleset stays.
FlushFails ==
    /\ failures < MaxFailures /\ failures' = failures + 1
    /\ apply # None
    /\ apply' = None
    /\ UNCHANGED <<kernel, traffic, scrape, packets, previous, reported, window, errors,
                   applies>>

-----------------------------------------------------------------------------
(* A scrape: updateCounter under the mutex, then the value without it *)

Lock(s) ==
    /\ pc[s] = "idle"
    /\ mu = None
    /\ mu' = s
    /\ pc' = [pc EXCEPT ![s] = "reset"]
    /\ UNCHANGED <<kernel, traffic, apply, read, packets, previous, reported, window, errors,
                   applies, failures>>

\* Fault: the counter is read and not reset.
GetObjOnly(s) ==
    /\ pc[s] = "reset"
    /\ kernel # None
    /\ read' = [read EXCEPT ![s] = kernel]
    /\ taken' = IF apply = None THEN taken ELSE taken + kernel
    /\ pc' = [pc EXCEPT ![s] = "add"]
    /\ UNCHANGED <<kernel, traffic, apply, mu, packets, previous, reported, missed, errors,
                   applies, failures>>

GetObjReset(s) ==
    /\ pc[s] = "reset"
    /\ kernel # None
    /\ read' = [read EXCEPT ![s] = kernel]
    /\ kernel' = 0
    /\ taken' = IF apply = None THEN taken ELSE taken + kernel
    /\ pc' = [pc EXCEPT ![s] = "add"]
    /\ UNCHANGED <<traffic, apply, mu, packets, previous, reported, missed, errors, applies,
                   failures>>

\* No object, or a failed request: nothing is added.
GetObjResetFails(s) ==
    /\ pc[s] = "reset"
    /\ \/ kernel = None /\ UNCHANGED failures
       \/ failures < MaxFailures /\ failures' = failures + 1
    /\ mu' = None
    /\ pc' = [pc EXCEPT ![s] = "return"]
    /\ UNCHANGED <<kernel, traffic, apply, read, packets, previous, reported, window, errors,
                   applies>>

\* Fault: the value replaces the metric.
AddReplaces(s) ==
    /\ pc[s] = "add"
    /\ packets' = read[s]
    /\ read' = [read EXCEPT ![s] = 0]
    /\ mu' = None
    /\ pc' = [pc EXCEPT ![s] = "return"]
    /\ UNCHANGED <<kernel, traffic, apply, previous, reported, window, errors, applies,
                   failures>>

Add(s) ==
    /\ pc[s] = "add"
    /\ packets' = packets + read[s]
    /\ read' = [read EXCEPT ![s] = 0]
    /\ mu' = None
    /\ pc' = [pc EXCEPT ![s] = "return"]
    /\ UNCHANGED <<kernel, traffic, apply, previous, reported, window, errors, applies,
                   failures>>

Report(s) ==
    /\ pc[s] = "return"
    /\ reported' = packets
    /\ pc' = [pc EXCEPT ![s] = "idle"]
    /\ UNCHANGED <<kernel, traffic, apply, mu, read, packets, previous, window, errors, applies,
                   failures>>

\* On its way from the kernel to the metric.
Moving == IF mu = None THEN 0 ELSE read[mu]

\* The process ends and starts again with a metric of zero; the kernel's
\* counter is not affected.
Restart ==
    /\ failures < MaxFailures /\ failures' = failures + 1
    /\ apply' = None
    /\ mu' = None /\ pc' = [s \in Scrapers |-> "idle"] /\ read' = [s \in Scrapers |-> 0]
    /\ previous' = previous + packets
    /\ packets' = 0 /\ reported' = 0
    /\ lost' = lost + Moving
    /\ UNCHANGED <<kernel, traffic, window, doubled, applies>>

Next ==
    \/ Forward \/ GetCounterObj \/ GetCounterObjFails \/ Flush \/ FlushFails
    \/ \E s \in Scrapers :
         Lock(s) \/ GetObjReset(s) \/ GetObjResetFails(s) \/ Add(s) \/ Report(s)
    \/ Restart

Spec == Init /\ [][Next]_vars

-----------------------------------------------------------------------------
(* Correctness *)

Counted == previous + packets + Moving + InKernel

\* Type correctness, and the mutex: one scraper is between Lock and its end.
TypeOK ==
    /\ kernel \in Nat \cup {None} /\ apply \in Nat \cup {None}
    /\ mu \in Scrapers \cup {None}
    /\ pc \in [Scrapers -> {"idle", "reset", "add", "return"}]
    /\ \A s \in Scrapers : pc[s] \in {"reset", "add"} <=> mu = s
    /\ read \in [Scrapers -> Nat]
    /\ {traffic, packets, previous, reported, applies, failures} \subseteq Nat
    /\ {taken, missed, doubled, lost} \subseteq Nat

\* Every packet is counted once, whether it is carried over new rulesets or moved to the
\* metric, and over restarts, but for what a replacement and a scrape or a packet
\* do to each other: what is moved between the read and the Flush of applyFirewall counts
\* twice, what comes then or could not be read not at all, like what a crash cuts off.
CountedOnce == Counted + lost = traffic + doubled

\* What a process exports never decreases, however its scrapes overlap.
ReportedGrows == [][reported' >= reported \/ (reported' = 0 /\ packets' = 0)]_vars
=============================================================================
