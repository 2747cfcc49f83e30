---------------------------- MODULE OuiDB_proofs ----------------------------
(***************************************************************************)
(* Proofs that an update leaves the version it was answered with, and that *)
(* WaitUntilLoaded returns without error only when there is a map, for any *)
(* number of callers, versions, failures and crashes.                      *)
(***************************************************************************)
EXTENDS OuiDB, TLAPS

\* The header is sent with the map of the file it tells the age of.
HeaderLoaded ==
    pc = "request" /\ since # None => file # None /\ orgs = file.version /\ since = file.mtime

\* The server has published what a file is a copy of.
NotAhead ==
    /\ body # None => body.version <= published
    /\ file # None => file.version <= published

\* What is stored and loaded is what the server has answered with.
AnswerStored ==
    /\ pc = "store" => body \in File /\ body.version = answered
    /\ pc = "reload" => file \in File /\ file.version = answered

\* An error ends the update, and without one a loaded database has a map.
LoadedHasMap ==
    /\ err => pc = "done"
    /\ loaded /\ ~err => orgs # None

OInv ==
    /\ TypeOK /\ HeaderLoaded /\ NotAhead /\ AnswerStored /\ LoadedHasMap
    /\ UpToDate /\ WaitEnsuresLookup

LEMMA InitOInv == Init => OInv
<1> SUFFICES ASSUME Init PROVE OInv
  OBVIOUS
<1>1. published \in Versions /\ failures \in 0 .. MaxFailures
  BY OuiAssumption DEF Init, Versions
<1>2. waiter \in [Waiters -> {"idle", "check", "asleep", "returned", "failed"}]
      /\ \A w \in Waiters : waiter[w] # "returned"
  BY DEF Init
<1> QED
  BY <1>1, <1>2
  DEF Init, OInv, TypeOK, HeaderLoaded, NotAhead, AnswerStored, LoadedHasMap, UpToDate, WaitEnsuresLookup

\* The parts of a file.
LEMMA FileParts ==
  ASSUME NEW f \in File
  PROVE  /\ f # None
         /\ f.kind \in {"good", "bad", "poison"} /\ f.mtime \in Versions /\ f.mtime # None
         /\ f.version \in Versions /\ f.version # None
  BY OuiAssumption DEF File, Versions

\* Broadcast neither adds a caller that has returned nor takes one away.
LEMMA BroadcastKeeps ==
  ASSUME TypeOK, Broadcast
  PROVE  /\ waiter' \in [Waiters -> {"idle", "check", "asleep", "returned", "failed"}]
         /\ \A w \in Waiters : waiter'[w] = "returned" <=> waiter[w] = "returned"
  BY DEF TypeOK, Broadcast

LEMMA FailTypes == ASSUME TypeOK, Fail PROVE failures' \in 0 .. MaxFailures
  BY OuiAssumption DEF TypeOK, Fail

\* A dead process remembers nothing.
LEMMA DieOInv ==
  ASSUME OInv, Die, failures' \in 0 .. MaxFailures, UNCHANGED <<file, external>>
  PROVE  OInv'
<1>1. waiter' \in [Waiters -> {"idle", "check", "asleep", "returned", "failed"}]
      /\ \A w \in Waiters : waiter'[w] # "returned"
  BY DEF Die
<1> QED
  BY <1>1 DEF Die, external, OInv, TypeOK, HeaderLoaded, NotAhead, AnswerStored, LoadedHasMap, UpToDate,
              WaitEnsuresLookup

LEMMA StepOInv == OInv /\ [Next]_vars => OInv'
<1> SUFFICES ASSUME OInv, [Next]_vars PROVE OInv'
  OBVIOUS
<1> USE OuiAssumption DEF OInv
<1> USE DEF HeaderLoaded, NotAhead, AnswerStored, LoadedHasMap, UpToDate, WaitEnsuresLookup, external, fields
<1>1. CASE NoFile
  <2>1. failures' \in 0 .. MaxFailures
    BY <1>1, FailTypes DEF NoFile, TypeOK
  <2> QED
    BY <1>1, <2>1 DEF NoFile, TypeOK
<1>2. CASE LoadOld
  <2>1. file \in File /\ file.version \in Versions /\ file.version # None /\ file.mtime \in Versions
    BY <1>2, FileParts DEF LoadOld, TypeOK
  <2>2. failures' \in 0 .. MaxFailures
    BY <1>2, FailTypes DEF LoadOld, TypeOK
  <2>3. since' \in {file.mtime, None}
    BY <1>2 DEF LoadOld
  <2> QED
    BY <1>2, <2>1, <2>2, <2>3, BroadcastKeeps DEF LoadOld, Load, TypeOK
<1>3. CASE LoadOldFails
  BY <1>3 DEF LoadOldFails, TypeOK
<1>4. CASE LoadOldPanics
  BY <1>4, DieOInv DEF LoadOldPanics, TypeOK
<1>5. CASE NotModified
  <2>1. file # None /\ orgs = file.version /\ file.mtime >= published /\ published \in Versions
    BY <1>5 DEF NotModified, NothingNewer, TypeOK
  <2>2. file.version \in Versions /\ file.mtime \in Versions /\ file.version <= published
      /\ orgs # None
    BY <2>1, FileParts DEF TypeOK
  <2>3. file.mtime = file.version => file.version = published
    BY <2>1, <2>2 DEF Versions
  <2> QED
    BY <1>5, <2>1, <2>2, <2>3, BroadcastKeeps DEF NotModified, SetErr, TypeOK
<1>6. CASE Download
  <2>1. body' \in File /\ body'.version = published
    BY <1>6 DEF Download, Answer, File, TypeOK
  <2> QED
    BY <1>6, <2>1 DEF Download, TypeOK, Versions
<1>7. CASE DownloadBad
  <2>1. PICK k \in {"bad", "poison"} : body' = Answer(k)
    BY <1>7 DEF DownloadBad
  <2>2. body' \in File /\ body'.version = published
    BY <2>1 DEF Answer, File, TypeOK
  <2> QED
    BY <1>7, <2>2, FailTypes DEF DownloadBad, TypeOK, Versions
<1>8. CASE UpdateFails
  BY <1>8, FailTypes, BroadcastKeeps DEF UpdateFails, SetErr, TypeOK
<1>9. CASE Store
  <2>1. body \in File /\ body.version = answered /\ body.version <= published
    BY <1>9, FileParts DEF Store, TypeOK
  <2>2. file' \in File /\ file'.version = body.version
    BY <1>9, <2>1 DEF Store, File
  <2>3. failures' \in 0 .. MaxFailures
    BY <1>9, FailTypes DEF Store, TypeOK
  <2> QED
    BY <1>9, <2>1, <2>2, <2>3, FileParts DEF Store, TypeOK
<1>10. CASE Reload
  <2>1. file \in File /\ file.version = answered /\ file.version \in Versions /\ file.version # None
    BY <1>10, FileParts DEF Reload
  <2>2. file # None
    BY <2>1, FileParts
  <2> QED
    BY <1>10, <2>1, <2>2, BroadcastKeeps DEF Reload, TypeOK
<1>11. CASE ReloadFails
  BY <1>11, BroadcastKeeps DEF ReloadFails, SetErr, TypeOK
<1>12. CASE ReloadPanics
  BY <1>12, DieOInv DEF ReloadPanics, TypeOK
<1>13. CASE Publish
  <2>1. published \in Nat /\ published' = published + 1 /\ published' \in Versions
    BY <1>13 DEF Publish, TypeOK, Versions
  <2>2. body # None => body.version \in Nat
    BY FileParts DEF TypeOK, Versions
  <2>3. file # None => file.version \in Nat
    BY FileParts DEF TypeOK, Versions
  <2> QED
    BY <1>13, <2>1, <2>2, <2>3 DEF Publish, TypeOK
<1>14. CASE Crash
  BY <1>14, DieOInv, FailTypes DEF Crash
<1>15. CASE Supervise
  BY <1>15 DEF Supervise, TypeOK
<1>16. ASSUME NEW w \in Waiters, Call(w) PROVE OInv'
  BY <1>16 DEF Call, TypeOK
<1>17. ASSUME NEW w \in Waiters, Check(w) PROVE OInv'
  BY <1>17 DEF Check, TypeOK
<1>18. CASE UNCHANGED vars
  BY <1>18 DEF vars, TypeOK
<1> QED
  BY <1>1, <1>2, <1>3, <1>4, <1>5, <1>6, <1>7, <1>8, <1>9, <1>10, <1>11, <1>12, <1>13,
     <1>14, <1>15, <1>16, <1>17, <1>18 DEF Next, Update

LEMMA Invariance == Spec => []OInv
  BY InitOInv, StepOInv, PTL DEF Spec

\* The state has its types, and a download does not outlive its request.
THEOREM OuiTypeCorrect == Spec => []TypeOK
  BY Invariance, PTL DEF OInv

\* An update without error ends with the version the server answered with or
\* confirmed, whatever an earlier process left and wherever it crashed.
THEOREM UpdateIsCurrent == Spec => []UpToDate
  BY Invariance, PTL DEF OInv

\* A caller of WaitUntilLoaded who is told that there is no error finds a map.
THEOREM LookupAfterWait == Spec => []WaitEnsuresLookup
  BY Invariance, PTL DEF OInv
=============================================================================
