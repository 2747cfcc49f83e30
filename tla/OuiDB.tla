------------------------------- MODULE OuiDB -------------------------------
(***************************************************************************)
(* DB of package oui: the organizations of hardware addresses, loaded from *)
(* a file an earlier process left, updated over HTTP once per process, and *)
(* waited for by WaitUntilLoaded.                                          *)
(*                                                                         *)
(* A content is the registry ("good"), "bad" (load returns an error) or    *)
(* "poison": load indexes beyond what is there and panics, which is so for *)
(* a file of no records and for one with short records.                    *)
(*                                                                         *)
(* External: the server, and the supervisor, which restarts the process.   *)
(***************************************************************************)
EXTENDS Naturals, FiniteSets

CONSTANTS
    Waiters,       \* callers of WaitUntilLoaded
    None,
    MaxVersion,    \* bound on the versions published
    MaxFailures    \* bound on failures, crashes and bad contents

Versions == 1 .. MaxVersion
\* A file, the version it is a copy of, and its modification time, which is told
\* by the last version published until then.
File == [kind : {"good", "bad", "poison"}, version : Versions, mtime : Versions]

ASSUME OuiAssumption ==
    MaxVersion \in Nat \ {0} /\ MaxFailures \in Nat /\ None \notin Nat \cup File

VARIABLES
    pc,          \* where update is
    file,        \* oui.csv: a File, or None
    since,       \* the If-Modified-Since header of the request, or None
    body,        \* what is downloaded: a File, or None
    loaded, err, \* fields of DB; err tells an error from none
    orgs,        \* the version the map is from, or None
    waiter,      \* where each caller is
    published,   \* external: the server's version
    answered,    \* the version of the last answer that was a success (history)
    failures

fields == <<loaded, err, orgs>>
external == <<published, answered>>
vars == <<pc, file, since, body, fields, waiter, external, failures>>

Init ==
    /\ pc = "open"
    /\ file = None /\ since = None /\ body = None
    /\ loaded = FALSE /\ err = FALSE /\ orgs = None
    /\ waiter = [w \in Waiters |-> "idle"]
    /\ published = 1 /\ answered = None
    /\ failures = 0

Fail == failures < MaxFailures /\ failures' = failures + 1

\* cond.Broadcast.
Broadcast == waiter' = [w \in Waiters |-> IF waiter[w] = "asleep" THEN "check" ELSE waiter[w]]

\* Fault: nobody is woken.
SetErrSilently(e) == loaded' = TRUE /\ err' = e /\ UNCHANGED <<waiter, orgs>>

SetErr(e) == loaded' = TRUE /\ err' = e /\ Broadcast /\ UNCHANGED orgs

\* load, with a file for which it does not fail.
Load(f) == orgs' = f.version /\ loaded' = TRUE /\ UNCHANGED err /\ Broadcast

-----------------------------------------------------------------------------
(* update *)

\* There is none, or it cannot be opened.
NoFile ==
    /\ pc = "open"
    /\ \/ file = None /\ UNCHANGED failures
       \/ file # None /\ Fail
    /\ since' = None
    /\ pc' = "request"
    /\ UNCHANGED <<file, body, fields, waiter, external>>

\* Without Stat there is no header.
LoadOld ==
    /\ pc = "open"
    /\ file # None /\ file.kind = "good"
    /\ Load(file)
    /\ \/ since' = file.mtime /\ UNCHANGED failures
       \/ since' = None /\ Fail
    /\ pc' = "request"
    /\ UNCHANGED <<file, body, external>>

\* Fault: the header stays.
LoadOldFailsKeepsHeader ==
    /\ pc = "open"
    /\ file # None /\ file.kind = "bad"
    /\ since' = file.mtime
    /\ pc' = "request"
    /\ UNCHANGED <<file, body, fields, waiter, external, failures>>

\* "Force a re-download": the request goes out without the header.
LoadOldFails ==
    /\ pc = "open"
    /\ file # None /\ file.kind = "bad"
    /\ since' = None
    /\ pc' = "request"
    /\ UNCHANGED <<file, body, fields, waiter, external, failures>>

\* The panic ends the process.
Die ==
    /\ pc' = "dead"
    /\ since' = None /\ body' = None
    /\ loaded' = FALSE /\ err' = FALSE /\ orgs' = None
    /\ waiter' = [w \in Waiters |-> "idle"]

LoadOldPanics ==
    /\ pc = "open"
    /\ file # None /\ file.kind = "poison"
    /\ Die
    /\ UNCHANGED <<file, external, failures>>

\* The server has nothing newer than the header says.
NothingNewer == since # None /\ since >= published

\* 304.
NotModified ==
    /\ pc = "request"
    /\ NothingNewer
    /\ answered' = published
    /\ SetErr(FALSE)
    /\ pc' = "done"
    /\ UNCHANGED <<file, since, body, published, failures>>

\* 200, with the registry or something else in its place, and its Last-Modified.
Answer(k) == [kind |-> k, version |-> published, mtime |-> published]

Download ==
    /\ pc = "request"
    /\ ~NothingNewer
    /\ body' = Answer("good")
    /\ answered' = published
    /\ pc' = "store"
    /\ UNCHANGED <<file, since, fields, waiter, published, failures>>

DownloadBad ==
    /\ Fail
    /\ pc = "request"
    /\ \E k \in {"bad", "poison"} : body' = Answer(k)
    /\ answered' = published
    /\ pc' = "store"
    /\ UNCHANGED <<file, since, fields, waiter, published>>

\* No answer, another status, a broken transfer, a failed file operation: what
\* was copied stays in a temporary file, which is removed.  When the new file is
\* in place and cannot be opened, it stays.
UpdateFails ==
    /\ Fail
    /\ pc \in {"request", "store", "reload"}
    /\ SetErr(TRUE)
    /\ body' = None
    /\ pc' = "done"
    /\ UNCHANGED <<file, since, external>>

\* Chtimes and CloseAtomicallyReplace.  Without a Last-Modified that can be parsed,
\* or when Chtimes fails, the file keeps the time of a clock that may be wrong.
Store ==
    /\ pc = "store"
    /\ \/ file' = body /\ UNCHANGED failures
       \/ \E t \in Versions : file' = [body EXCEPT !.mtime = t] /\ Fail
    /\ body' = None
    /\ pc' = "reload"
    /\ UNCHANGED <<since, fields, waiter, external>>

\* setErr(d.load(f)): load broadcasts, and setErr after it; one step, as nothing
\* a caller may see differs between the two when err was not set before.
Reload ==
    /\ pc = "reload"
    /\ file.kind = "good"
    /\ orgs' = file.version /\ loaded' = TRUE /\ err' = FALSE /\ Broadcast
    /\ pc' = "done"
    /\ UNCHANGED <<file, since, body, external, failures>>

ReloadFails ==
    /\ pc = "reload"
    /\ file.kind = "bad"
    /\ SetErr(TRUE)
    /\ pc' = "done"
    /\ UNCHANGED <<file, since, body, external, failures>>

ReloadPanics ==
    /\ pc = "reload"
    /\ file.kind = "poison"
    /\ Die
    /\ UNCHANGED <<file, external, failures>>

-----------------------------------------------------------------------------
(* WaitUntilLoaded *)

Call(w) ==
    /\ waiter[w] = "idle"
    /\ pc # "dead"
    /\ waiter' = [waiter EXCEPT ![w] = "check"]
    /\ UNCHANGED <<pc, file, since, body, fields, external, failures>>

\* Fault: the caller does not wait.
CheckOnce(w) ==
    /\ waiter[w] = "check"
    /\ waiter' = [waiter EXCEPT ![w] = IF err THEN "failed" ELSE "returned"]
    /\ UNCHANGED <<pc, file, since, body, fields, external, failures>>

Check(w) ==
    /\ waiter[w] = "check"
    /\ waiter' = [waiter EXCEPT ![w] =
           IF ~loaded THEN "asleep" ELSE IF err THEN "failed" ELSE "returned"]
    /\ UNCHANGED <<pc, file, since, body, fields, external, failures>>

-----------------------------------------------------------------------------
(* External *)

Publish ==
    /\ published < MaxVersion
    /\ published' = published + 1
    /\ UNCHANGED <<pc, file, since, body, fields, waiter, answered, failures>>

Crash ==
    /\ Fail
    /\ pc # "dead"
    /\ Die
    /\ UNCHANGED <<file, external>>

Supervise ==
    /\ pc = "dead"
    /\ pc' = "open"
    /\ UNCHANGED <<file, since, body, fields, waiter, external, failures>>

Update ==
    \/ NoFile \/ LoadOld \/ LoadOldFails \/ LoadOldPanics
    \/ NotModified \/ Download \/ DownloadBad \/ UpdateFails
    \/ Store \/ Reload \/ ReloadFails \/ ReloadPanics

Next ==
    \/ Update \/ Publish \/ Crash \/ Supervise
    \/ \E w \in Waiters : Call(w) \/ Check(w)

Spec == Init /\ [][Next]_vars

\* The goroutines run, the server answers, and the process is supervised.
FairSpec ==
    /\ Spec
    /\ WF_vars(Update) /\ WF_vars(Supervise)
    /\ \A w \in Waiters : WF_vars(Check(w))

-----------------------------------------------------------------------------
(* Correctness *)

\* Type correctness; a download is around only until it is stored or given up.
TypeOK ==
    /\ pc \in {"open", "request", "store", "reload", "done", "dead"}
    /\ {file, body} \subseteq File \cup {None}
    /\ body # None => pc = "store"
    /\ since \in Versions \cup {None}
    /\ loaded \in BOOLEAN /\ err \in BOOLEAN
    /\ orgs \in Versions \cup {None}
    /\ waiter \in [Waiters -> {"idle", "check", "asleep", "returned", "failed"}]
    /\ published \in Versions /\ answered \in Versions \cup {None}
    /\ failures \in 0 .. MaxFailures

\* After an update without error lookups are answered from the file, which is the
\* version the server answered with or confirmed, whatever file an earlier process
\* left; only a file that carries another time than its Last-Modified may be
\* confirmed wrongly.
UpToDate ==
    pc = "done" /\ ~err =>
        /\ file # None /\ orgs = file.version
        /\ file.mtime = file.version => orgs = answered

\* "Use WaitUntilLoaded() to ensure Lookup() will work": who was told there is no
\* error finds a map.
WaitEnsuresLookup == \A w \in Waiters : waiter[w] = "returned" => orgs # None

\* No caller sleeps through the end of the update.
WaitReturns ==
    \A w \in Waiters : waiter[w] \in {"check", "asleep"} ~> waiter[w] \notin {"check", "asleep"}

\* "Force a re-download in case our file is corrupted" (util/oui/oui.go:100): a
\* process that finds a corrupted file sends a request, or a later one does.
CorruptedRequested ==
    (pc = "open" /\ file # None /\ file.kind # "good") ~> pc = "request"
=============================================================================
