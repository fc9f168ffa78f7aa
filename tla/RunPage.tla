------------------------------ MODULE RunPage ------------------------------
(***************************************************************************)
(* The "Run Test" page (run-test.component.ts) with the requests it sends, *)
(* the event stream it reads, and the ways both can go wrong.  A click on  *)
(* Start is a request of its own: number w creates worker w.               *)
(***************************************************************************)
EXTENDS RunStream

CONSTANTS
  MaxUpsets,    \* bound: how often one of the next happens
  Disturbances  \* subset of {"cancel", "drop", "restart", "refuse", "collide", "sync"}

ASSUME RunPageAssumption ==
  /\ MaxUpsets \in Nat
  /\ Disturbances \subseteq {"cancel", "drop", "restart", "refuse", "collide", "sync"}

VARIABLES
  click,     \* the calls of startRun, by number
  running, indicator,
  log,       \* logLines: the lines of the server in it
  shown,     \* result: the worker whose result the panel shows
  current,   \* _currentRunId
  sse,       \* _sse: the id it streams and its state; _sseDone
  asks,      \* getRunResult requests that are out
  cancels,   \* cancel requests that are out, with the start they were meant for
  upsets,
  calm       \* history: no connection broke, no start overlapped an earlier one or the
             \* request for its result, none came within a second of another

pageVars == <<click, running, indicator, log, shown, current, sse, asks, cancels, upsets, calm>>
vars == <<streamVars, pageVars>>

NoSource == [id |-> Missing, state |-> "closed", done |-> FALSE]

ClickState == {"none", "waiting", "sent", "created", "refused", "over"}
Shown == {"idle", "running", "pass", "fail"}

PageTypeOK ==
  /\ click \in [Workers -> ClickState]
  /\ running \in BOOLEAN /\ indicator \in Shown
  /\ log \in Seq(Lines)
  /\ shown \in Workers \cup {Missing}
  /\ current \in Ids \cup {Missing}
  /\ sse \in [id : Ids \cup {Missing}, state : {"closed", "connecting", "open"}, done : BOOLEAN]
  /\ asks \subseteq Ids /\ cancels \subseteq Ids \X Workers
  /\ upsets \in 0..MaxUpsets
  /\ calm \in BOOLEAN

TypeOK == StreamTypeOK /\ PageTypeOK

Init ==
  /\ StreamInit
  /\ click = [w \in Workers |-> "none"]
  /\ running = FALSE /\ indicator = "idle" /\ log = <<>>
  /\ shown = Missing /\ current = Missing /\ sse = NoSource
  /\ asks = {} /\ cancels = {} /\ upsets = 0
  /\ calm = TRUE

MayHappen(upset) == upset \in Disturbances /\ upsets < MaxUpsets

-----------------------------------------------------------------------------
(***************************************************************************)
(* Starting a run                                                          *)
(***************************************************************************)

Clicked == {w \in Workers : click[w] # "none"}
Pending == {w \in Workers : click[w] \in {"waiting", "sent", "created", "refused"}}

\* What is set before the request goes out, and the request.
Send(w) ==
  /\ click' = [click EXCEPT ![w] = "sent"]
  /\ running' = TRUE /\ indicator' = "running" /\ log' = <<>> /\ shown' = Missing

\* missing vCenter auth
Decline(w) ==
  /\ click' = [click EXCEPT ![w] = "over"]
  /\ indicator' = "idle"
  /\ UNCHANGED <<running, log, shown>>

\* A click on the button, which running disables and waiting for a session does not.
\* Whether there is authority, or in the vSphere Client may still come, is the business
\* of ClientAuth; a run without vCenter needs none.
ClickStart ==
  /\ ~running
  /\ Clicked # Workers
  /\ LET w == Cardinality(Clicked) + 1
     IN \/ /\ click' = [click EXCEPT ![w] = "waiting"]
           /\ UNCHANGED <<running, indicator, log, shown>>
        \/ Decline(w)
        \/ Send(w)
  /\ calm' = (calm /\ Pending = {} /\ asks = {})
  /\ UNCHANGED <<current, sse, asks, cancels, upsets, streamVars>>

\* startRun goes on after the await.
Resume(w) ==
  /\ click[w] = "waiting"
  /\ Send(w) \/ Decline(w)
  /\ UNCHANGED <<current, sse, asks, cancels, upsets, calm, streamVars>>

\* The server handles request w.
HandleStart(w) ==
  /\ click[w] = "sent"
  /\ \E refused \in BOOLEAN, id \in IdChoices(w) :
       /\ refused => MayHappen("refuse")
       /\ id # w => MayHappen("collide")
       /\ upsets' = upsets + (IF refused THEN 1 ELSE 0) + (IF id # w THEN 1 ELSE 0)
       /\ upsets' <= MaxUpsets
       /\ StartWorker(w, id, refused)
       /\ click' = [click EXCEPT ![w] = IF refused THEN "refused" ELSE "created"]
       /\ calm' = (calm /\ id = w)
  /\ UNCHANGED <<running, indicator, log, shown, current, sse, asks, cancels>>

\* The answer: stream(run_id) closes the stream before and opens one.
StartAnswered(w) ==
  /\ click[w] = "created"
  /\ click' = [click EXCEPT ![w] = "over"]
  /\ current' = worker[w].id
  /\ sse' = [id |-> worker[w].id, state |-> "connecting", done |-> FALSE]
  /\ ghosts' = LeaveReader
  /\ reader' = Missing
  /\ UNCHANGED <<running, indicator, log, shown, asks, cancels, upsets, calm, 
                 worker, runs, rcode, queue, stored, latest>>

\* An error answer.
StartRefused(w) ==
  /\ click[w] = "refused"
  /\ click' = [click EXCEPT ![w] = "over"]
  /\ running' = FALSE /\ indicator' = "idle"
  /\ UNCHANGED <<log, shown, current, sse, asks, cancels, upsets, calm, streamVars>>

-----------------------------------------------------------------------------
(***************************************************************************)
(* Following it                                                            *)
(***************************************************************************)

\* onerror of the EventSource; unless it is done for good it connects again.
ConnectionError ==
  IF sse.done THEN UNCHANGED <<running, indicator>>
  ELSE running' = FALSE /\ indicator' = "idle"

\* The connection is accepted, or the run is not known and the browser gives up.
Connect ==
  /\ sse.state = "connecting"
  /\ IF runs[sse.id] # Missing
     THEN /\ sse' = [sse EXCEPT !.state = "open"]
          /\ reader' = runs[sse.id]
          /\ UNCHANGED <<running, indicator>>
     ELSE /\ sse' = [sse EXCEPT !.state = "closed"]
          /\ ConnectionError
          /\ UNCHANGED reader
  /\ UNCHANGED <<click, log, shown, current, asks, cancels, upsets, calm, 
                 worker, runs, rcode, queue, stored, ghosts, latest>>

\* Faulty: a cancelled run has an indicator of its own, which no template knows.
VerdictWithCancelled(rc) == CASE rc = 0 -> "pass" [] rc = 5 -> "cancelled" [] OTHER -> "fail"

Verdict(rc) == CASE rc = 0 -> "pass" [] rc = 5 -> "idle" [] OTHER -> "fail"

\* The reader passes one item on, and onmessage takes it: a line, or __DONE__ with the
\* return code of the record.
Receive ==
  /\ sse.state = "open"
  /\ \E item \in NextItems(reader) :
       IF item = Sentinel
       THEN /\ sse' = [sse EXCEPT !.state = "closed", !.done = TRUE]
            /\ running' = FALSE /\ indicator' = Verdict(rcode[reader])
            /\ asks' = asks \cup {sse.id}
            /\ reader' = Missing
            /\ UNCHANGED log
       ELSE log' = Append(log, item) /\ UNCHANGED <<sse, running, indicator, asks, reader>>
  /\ queue' = Taken(reader)
  /\ UNCHANGED <<click, shown, current, cancels, upsets, calm, 
                 worker, runs, rcode, stored, ghosts, latest>>

\* The connection breaks; what was on its way is lost.
Drop ==
  /\ MayHappen("drop")
  /\ sse.state = "open"
  /\ upsets' = upsets + 1
  /\ sse' = [sse EXCEPT !.state = "connecting"]
  /\ ConnectionError
  /\ ghosts' = LeaveReader
  /\ reader' = Missing
  /\ calm' = FALSE
  /\ UNCHANGED <<click, log, shown, current, asks, cancels, 
                 worker, runs, rcode, queue, stored, latest>>

\* getRunResult is answered, with a result or with 404.
ResultAnswered(id) ==
  /\ id \in asks
  /\ asks' = asks \ {id}
  /\ shown' = IF stored[id] # Missing THEN stored[id] ELSE shown
  /\ UNCHANGED <<click, running, indicator, log, current, sse, cancels, upsets, calm,
                 streamVars>>

-----------------------------------------------------------------------------
(***************************************************************************)
(* Cancelling it, and a restart of the server                              *)
(***************************************************************************)

\* The start the user saw go out last.
Outgone == {w \in Workers : click[w] \notin {"none", "waiting"}}
LastSent == CHOOSE w \in Outgone : \A v \in Outgone : v <= w

\* The button is there while running; the id is that of the last run answered.
ClickCancel ==
  /\ running
  /\ MayHappen("cancel") /\ upsets' = upsets + 1
  /\ cancels' = IF current = Missing THEN cancels ELSE cancels \cup {<<current, LastSent>>}
  /\ UNCHANGED <<click, running, indicator, log, shown, current, sse, asks, calm,
                 streamVars>>

CancelArrives(id, start) ==
  /\ <<id, start>> \in cancels
  /\ cancels' = cancels \ {<<id, start>>}
  /\ CancelAtServer(id, start)
  /\ UNCHANGED <<click, running, indicator, log, shown, current, sse, asks, upsets, calm>>

\* The inventory is asked for, from another page or by another user.
InventoryAsked ==
  /\ MayHappen("sync") /\ upsets' = upsets + 1
  /\ LogAtServer
  /\ UNCHANGED <<click, running, indicator, log, shown, current, sse, asks, cancels, calm>>

\* Requests fail and the stream breaks.
Restart ==
  /\ MayHappen("restart")
  /\ upsets' = upsets + 1
  /\ LoseServer
  /\ click' = [w \in Workers |-> IF click[w] \in {"sent", "created"} THEN "refused" ELSE click[w]]
  /\ IF sse.state = "open"
     THEN sse' = [sse EXCEPT !.state = "connecting"] /\ ConnectionError
     ELSE UNCHANGED <<sse, running, indicator>>
  /\ asks' = {} /\ cancels' = {}
  /\ calm' = FALSE
  /\ UNCHANGED <<log, shown, current>>

-----------------------------------------------------------------------------
WorkerMoves(w) == WorkerStep(w) /\ UNCHANGED <<pageVars>>
GhostMoves(w)  == GhostTakes(w) /\ UNCHANGED <<pageVars>>

\* Steps that need no user: threads, requests, answers and events.
ClickMoves(w) == Resume(w) \/ HandleStart(w) \/ StartAnswered(w) \/ StartRefused(w)
SourceMoves   == Connect \/ Receive

Next ==
  \/ ClickStart
  \/ \E w \in Workers : ClickMoves(w) \/ WorkerMoves(w) \/ GhostMoves(w)
  \/ SourceMoves \/ Drop
  \/ \E id \in Ids : ResultAnswered(id) \/ \E start \in Workers : CancelArrives(id, start)
  \/ ClickCancel \/ InventoryAsked \/ Restart

\* Threads and requests go on, timers fire, the browser connects again.  Nothing is
\* assumed of users.
Fairness ==
  /\ \A w \in Workers : WF_vars(ClickMoves(w)) /\ WF_vars(WorkerMoves(w))
                        /\ WF_vars(GhostMoves(w))
  /\ WF_vars(SourceMoves)

Spec == Init /\ [][Next]_vars
FairSpec == Spec /\ Fairness
-----------------------------------------------------------------------------
(***************************************************************************)
(* Properties.  "Undisturbed" means: no connection broke, and no two       *)
(* starts overlapped or came within one second.                            *)
(***************************************************************************)

\* Undisturbed, a page that does not show a running run has none at the server:
\* neither an error, nor the end of the stream, nor a refusal is shown too early.
NothingRunsUnseen == calm /\ ~running => Active = {}

\* Undisturbed, the verdict shown is the return code of the run started last, and the result
\* below it is that run's once nothing is out.
VerdictIsTheRuns ==
  calm /\ indicator \in {"pass", "fail"}
    => /\ indicator = "pass" <=> rcode[LastSent] = 0
       /\ asks = {} => shown = LastSent

\* Undisturbed, the log of a run that is shown as ended has all that the run wrote, each
\* line once and in order, and no line of another run; between them may be what the server
\* logged for other requests meanwhile, a cancel among them.
LogIsComplete ==
  calm /\ indicator \in {"pass", "fail"}
    => /\ \A n \in 1..worker[LastSent].lines : \E i \in DOMAIN log : log[i] = Line(LastSent, n)
       /\ \A i \in DOMAIN log : log[i] = Notice \/ log[i].from = LastSent
       /\ \A i, j \in DOMAIN log :
            i < j /\ Notice \notin {log[i], log[j]} => log[i].n < log[j].n

\* Undisturbed, Cancel never stops a run other than the one it was pressed for, though
\* between a start and its answer the page still holds the id of the run before.
CancelHitsShownRun == calm => \A w \in Workers : worker[w].cancel \in {w, Missing}

\* Two requests have come within one second.  If the second is refused, the record under
\* their id belongs to no thread.
Collided == \E w \in Workers : worker[w].id \notin {w, Missing}

\* A stream that the page has opened ends, though connections break and the readers left
\* behind take items, the sentinel among them, from the same queue.
StreamsEnd == sse.state = "open" ~> sse.state = "closed" \/ Collided
=============================================================================
