---------------------------- MODULE ListenerPool ----------------------------
(***************************************************************************)
(* multilisten.Pool: the web servers of a process, one per private         *)
(* address.  ListenAndServe is called at start and on every SIGUSR1 with   *)
(* the addresses of the moment, and runs each listener in a goroutine of   *)
(* its own, which removes the entry of its host when the listener returns. *)
(*                                                                         *)
(* A listener binds its address some time after it was started and returns *)
(* when it is closed, cannot bind, or dies.  It is an http.Server, except  *)
(* in captured, whose serverListener has a Close of its own.  Listeners    *)
(* are taken from a finite set and reused after the end of their goroutine.*)
(***************************************************************************)
EXTENDS FiniteSets, Naturals

CONSTANTS Hosts,
          Listeners,    \* bound on the listeners that exist at a time
          Nothing

ASSUME ListenersAssumption == Nothing \notin Listeners

VARIABLES listeners,    \* the map of the pool: the listener of a host, or Nothing
          host,         \* the host a listener was made for, or Nothing
          state,        \* where the goroutine of a listener is
          wanted,       \* the hosts of the last call
          ssh           \* the process is captured

poolVars == <<listeners, host, state, wanted, ssh>>

\* "failed" is the end of a listener that never bound its address.
States == {"unused", "starting", "running", "closed", "returned", "failed"}

PoolInit ==
    /\ listeners = [h \in Hosts |-> Nothing]
    /\ host = [l \in Listeners |-> Nothing]
    /\ state = [l \in Listeners |-> "unused"]
    /\ wanted = {}
    /\ ssh \in BOOLEAN

Unused == {l \in Listeners : state[l] = "unused"}

Vanished(hosts) == {h \in Hosts \ hosts : listeners[h] # Nothing}

\* Listeners for the new hosts are put in the map and started, then those of
\* the vanished hosts are closed.  Close of a serverListener needs the ln that
\* its goroutine has set.
ListenAndServe(hosts) ==
    LET new == {h \in hosts : listeners[h] = Nothing}
        vanished == Vanished(hosts)
    IN  /\ ssh => \A h \in vanished : state[listeners[h]] \in {"running", "returned"}
        /\ Cardinality(new) <= Cardinality(Unused)
        /\ \E made \in [new -> Unused] :
             /\ \A g, h \in new : made[g] = made[h] => g = h
             /\ listeners' = [h \in Hosts |-> IF h \in new THEN made[h]
                                              ELSE IF h \in vanished THEN Nothing
                                              ELSE listeners[h]]
             /\ host' = [l \in Listeners |->
                           IF \E h \in new : made[h] = l
                           THEN CHOOSE h \in new : made[h] = l ELSE host[l]]
             /\ state' = [l \in Listeners |->
                            IF \E h \in new : made[h] = l THEN "starting"
                            ELSE IF /\ \E h \in vanished : listeners[h] = l
                                    /\ state[l] \in {"starting", "running"}
                                 THEN "closed" ELSE state[l]]
        /\ wanted' = hosts
        /\ UNCHANGED ssh

\* Close of a serverListener dereferences a nil ln: it is not set yet, will never
\* be, or was set without synchronisation.  The process ends, and the supervisor
\* starts it again.
ClosePanics(hosts) ==
    /\ ssh
    /\ Vanished(hosts) # {}
    /\ listeners' = [h \in Hosts |-> Nothing]
    /\ state' = [l \in Listeners |-> "unused"]
    /\ wanted' = hosts
    /\ UNCHANGED <<host, ssh>>

Busy(h) == \E l \in Listeners : state[l] = "running" /\ host[l] = h

Bind(l) ==
    /\ state[l] = "starting"
    /\ ~Busy(host[l])
    /\ state' = [state EXCEPT ![l] = "running"]
    /\ UNCHANGED <<listeners, host, wanted, ssh>>

\* Closed, died, or not able to bind its address.
Return(l) ==
    /\ state[l] \in {"starting", "running", "closed"}
    /\ state' = [state EXCEPT ![l] = IF state[l] = "starting" THEN "failed" ELSE "returned"]
    /\ UNCHANGED <<listeners, host, wanted, ssh>>

\* Fault: the entry stays.
ReapKeepsEntry(l) ==
    /\ state[l] \in {"returned", "failed"}
    /\ state' = [state EXCEPT ![l] = "unused"]
    /\ UNCHANGED <<listeners, host, wanted, ssh>>

\* The goroutine deletes the entry of its host, by name, and ends.
Reap(l) ==
    /\ state[l] \in {"returned", "failed"}
    /\ listeners' = [listeners EXCEPT ![host[l]] = Nothing]
    /\ state' = [state EXCEPT ![l] = "unused"]
    /\ UNCHANGED <<host, wanted, ssh>>

PoolNext ==
    \/ \E hosts \in SUBSET Hosts : ListenAndServe(hosts) \/ ClosePanics(hosts)
    \/ \E l \in Listeners : Bind(l)
    \/ \E l \in Listeners : Return(l)
    \/ \E l \in Listeners : Reap(l)

\* Goroutines run; the process is told of its addresses again and again; an
\* address that is there can be bound at last.
PoolFairness ==
    /\ \A l \in Listeners :
         WF_poolVars(Return(l) /\ state[l] = "closed") /\ WF_poolVars(Reap(l))
    /\ \A h \in Hosts : SF_poolVars(\E l \in Listeners : host[l] = h /\ Bind(l))
    /\ \A hosts \in SUBSET Hosts : SF_poolVars(ListenAndServe(hosts) /\ hosts = wanted)

PoolSpec == PoolInit /\ [][PoolNext]_poolVars
PoolFairSpec == PoolSpec /\ PoolFairness

-----------------------------------------------------------------------------
PoolTypeOK ==
    /\ listeners \in [Hosts -> Listeners \cup {Nothing}]
    /\ host \in [Listeners -> Hosts \cup {Nothing}]
    /\ state \in [Listeners -> States]
    /\ wanted \subseteq Hosts
    /\ ssh \in BOOLEAN

\* An entry of the map never stands for a listener that has ended: a later call
\* would take its host for served and not listen there again (line 53).  Only
\* wanted hosts have an entry, under the listener made for them.
EntriesLive ==
    \A h \in Hosts : listeners[h] # Nothing =>
        /\ state[listeners[h]] \in {"starting", "running", "returned", "failed"}
        /\ host[listeners[h]] = h
        /\ h \in wanted

\* A host that stays among the addresses is listened on again and again,
\* whatever dies, however late the goroutines of old listeners end, and although
\* the hosts around it vanish, which may take all of captured with them.
ListensAgain ==
    \A h \in Hosts : <>[](h \in wanted) => []<>Busy(h)
=============================================================================
