--------------------------- MODULE MCDhcp4Server ---------------------------
(* Dhcp4Server with two clients on two addresses, one of which may be given *)
(* a hostname by the administrator.                                         *)
EXTENDS Dhcp4Server

CONSTANTS a, b

MCHostnames == [h \in HW |-> {NoName}]
MCOverrides == [h \in HW |-> IF h = a THEN {NoName, Torn, "over"} ELSE {NoName, Torn}]

\* States that differ in the following only need not be told apart: what was sent
\* last; what a client holds no more; the gauge and the file when an error has
\* reached srv.run, as no step reads them and the properties then wait for a new
\* run; and the file before a client has a lease of this run, which comes with a
\* new file.
Alive == [h \in HW |-> IF now <= held[h].until THEN held[h] ELSE NoHold]
Claimed == \E h \in HW : \E c \in {held[h], acks[h]} : c # NoHold /\ c.run = restarts
View == <<table, now, request, editing, fatal, restarts, Alive, acks,
          IF fatal \/ ~Claimed THEN {} ELSE disk, IF fatal THEN 0 ELSE gauge>>
=============================================================================
