--------------------------- MODULE DebugController ---------------------------
(***************************************************************************)
(* The GUI's controller, irida-ui/gui/src/session/debug_controller.cpp:    *)
(* the UI thread runs its slots one at a time, a worker thread runs        *)
(* irida_analyze on the session runAnalysis captured, and the worker's     *)
(* finished signal is queued to the UI thread.  Every panel reloads on     *)
(* stateChanged.                                                           *)
(*                                                                         *)
(* A session that is freed or raced under a worker is undefined behaviour: *)
(* the step either goes through or ends the process ("crashed").           *)
(*                                                                         *)
(* Abstracted: what the panels draw; navigateTo only emits a signal.       *)
(***************************************************************************)
EXTENDS Session

CONSTANT MaxAnalyses    \* bound on the workers a run starts

ASSUME ControllerAssumption == MaxAnalyses \in Nat

VARIABLES
  session,       \* session_
  session_kind,  \* session_kind_
  analyzing,     \* analyzing_
  workers,       \* the threads runAnalysis created: [id, s, pc]
  started,       \* how many there were
  view,          \* what the panels loaded last
  ended          \* "no", "closed" once the controller is destroyed, or "crashed"

control == <<session, session_kind, analyzing>>
vars == <<sessionVars, control, workers, started, view, ended>>

NotLoaded == [s |-> NoSession, epoch |-> 0, bps |-> "absent", built |-> FALSE]

\* main opens a file, a test hands over a mock session.
Init ==
  \E s \in Session, k \in {"Static", "Mock"} :
    /\ SessionInit(s, k)
    /\ session = s /\ session_kind = k /\ analyzing = FALSE
    /\ workers = {} /\ started = 0
    /\ view = NotLoaded
    /\ ended = "no"

-----------------------------------------------------------------------------
(* The worker thread                                                        *)

Freed(s) == freed[s] # << >>

\* A worker touches what the UI thread may be reading: the cached result while
\* it is replaced, and a live target's memory cache all along.
Races(s) == \E w \in workers : /\ w.s = s
                               /\ \/ w.pc = "storing"
                                  \/ w.pc = "tracing" /\ made[s] = "Native"

Advance(w, pc) == workers' = (workers \ {w}) \cup {[w EXCEPT !.pc = pc]}

\* The analysis of the captured session, up to the assignment of its result.
WorkerTraces(w) ==
  /\ w.pc = "tracing"
  /\ Advance(w, "storing")
  /\ UNCHANGED sessionVars

\* The assignment; then irida_analyze returns and finished is queued.  A freed
\* session has nothing left to keep the result.
WorkerStores(w) ==
  /\ w.pc = "storing"
  /\ Advance(w, "queued")
  /\ IF Freed(w.s) THEN UNCHANGED sessionVars ELSE Stored(w.s)

WorkerCrashes(w) ==
  /\ w.pc # "queued"
  /\ Freed(w.s)
  /\ ended' = "crashed"
  /\ UNCHANGED <<sessionVars, control, workers, started, view>>

Worker ==
  /\ ended # "crashed"
  /\ \E w \in workers :
       \/ /\ WorkerTraces(w) \/ WorkerStores(w)
          /\ UNCHANGED <<control, started, view, ended>>
       \/ WorkerCrashes(w)

-----------------------------------------------------------------------------
(* The UI thread                                                            *)

\* stateChanged: every panel reloads from the current session, the functions,
\* graph and xrefs panels included.  Evaluated after the slot's assignments.
StateChanged ==
  /\ view' = [s |-> session', epoch |-> epoch'[session'],
              bps |-> bps'[session'], built |-> built'[session']]
  /\ ended' \in {"no"} \cup (IF Races(session') THEN {"crashed"} ELSE {})

NoSignal == UNCHANGED <<view, ended>>

refreshViews ==
  /\ UNCHANGED <<sessionVars, control, workers, started>>
  /\ StateChanged

\* destroySession: the destructor is chosen by session_kind_.
Destroyed == IF session = NoSession THEN freed
             ELSE [freed EXCEPT ![session] = Append(@, session_kind)]

\* Mutant of setSession: the new kind is assigned before the old session is
\* destroyed.
SetSessionKindFirst(s) ==
  /\ Created(s)
  /\ freed' = [freed EXCEPT ![session] = Append(@, "Native")]
  /\ session' = s
  /\ session_kind' = "Native"
  /\ UNCHANGED <<analyzing, workers, started>>
  /\ StateChanged

\* MainWindow::attachToProcess creates the new session first and returns when
\* that fails; then setSession destroys the old one, worker or not, and leaves
\* analyzing_ alone.
setSession(s) ==
  /\ Created(s)
  /\ freed' = Destroyed
  /\ session' = s
  /\ session_kind' = "Native"
  /\ UNCHANGED <<analyzing, workers, started>>
  /\ StateChanged

\* Mutant of runAnalysis: a second analysis may start while one runs.
RunAnalysisUnguarded ==
  /\ session # NoSession
  /\ started < MaxAnalyses
  /\ analyzing' = TRUE
  /\ started' = started + 1
  /\ workers' = workers \cup {[id |-> started', s |-> session, pc |-> "tracing"]}
  /\ UNCHANGED <<sessionVars, session, session_kind>>
  /\ NoSignal

\* Refused while a worker is out or without a session.
runAnalysis ==
  /\ ~analyzing
  /\ session # NoSession
  /\ started < MaxAnalyses
  /\ analyzing' = TRUE
  /\ started' = started + 1
  /\ workers' = workers \cup {[id |-> started', s |-> session, pc |-> "tracing"]}
  /\ UNCHANGED <<sessionVars, session, session_kind>>
  /\ NoSignal

\* The lambda connected to QThread::finished.
finished(w) ==
  /\ w.pc = "queued"
  /\ analyzing' = FALSE
  /\ workers' = workers \ {w}
  /\ UNCHANGED <<sessionVars, session, session_kind, started>>
  /\ StateChanged

\* The views reload when the operation moved the epoch.
afterOp(before) == IF epoch'[session] # before THEN StateChanged ELSE NoSignal

\* stepInto ... stop
flowOp ==
  /\ \E op \in FlowOps : Flow(session, op)
  /\ UNCHANGED <<control, workers, started>>
  /\ afterOp(epoch[session])

\* Mutant of toggleBreakpoint: it tells the views only when the epoch moved.
ToggleAfterOp ==
  /\ BpToggle(session)
  /\ UNCHANGED <<control, workers, started>>
  /\ afterOp(epoch[session])

toggleBreakpoint ==
  /\ BpToggle(session)
  /\ UNCHANGED <<control, workers, started>>
  /\ StateChanged

setBreakpointEnabled ==
  /\ \E on \in BOOLEAN : BpSetEnabled(session, on)
  /\ UNCHANGED <<control, workers, started>>
  /\ StateChanged

\* Mutant of close: the session is destroyed but its handle is kept.
CloseKeepsHandle ==
  /\ freed' = Destroyed
  /\ ended' = "closed"
  /\ UNCHANGED <<made, epoch, bps, built, control, workers, started, view>>

\* ~DebugController: the connection to a running worker goes with it.
close ==
  /\ freed' = Destroyed
  /\ session' = NoSession
  /\ ended' = "closed"
  /\ UNCHANGED <<made, epoch, bps, built, session_kind, analyzing, workers, started, view>>

UI ==
  /\ ended = "no"
  /\ \/ refreshViews \/ runAnalysis \/ flowOp \/ toggleBreakpoint \/ setBreakpointEnabled
     \/ \E s \in Session : setSession(s)
     \/ \E w \in workers : finished(w)
     \/ close

Finished == ended = "no" /\ \E w \in workers : finished(w)

Next == Worker \/ UI

Spec == Init /\ [][Next]_vars

\* The operating system runs the worker and Qt delivers its queued signal.
FairSpec == Spec /\ WF_vars(Worker) /\ WF_vars(Finished)
-----------------------------------------------------------------------------
(* Properties                                                                *)

\* The handle is null only once the controller is gone; a worker holds a handle
\* that was created.
TypeOK ==
  /\ SessionTypeOK
  /\ session \in Session \cup {NoSession}
  /\ session_kind \in Kinds
  /\ analyzing \in BOOLEAN
  /\ workers \subseteq [id : 1 .. MaxAnalyses, s : Session, pc : {"tracing", "storing", "queued"}]
  /\ started \in 0 .. MaxAnalyses
  /\ view \in [s : Session \cup {NoSession}, epoch : 0 .. MaxEpoch, bps : BpStates, built : BOOLEAN]
  /\ ended \in {"no", "closed", "crashed"}
  /\ ended = "no" => session # NoSession
  /\ ended = "closed" => session = NoSession

\* Over any sequence of attaches and the final close, every session that was
\* created and is not the current one has been destroyed, exactly once and with
\* the destructor irida.h demands for its creator; the current one has not.
FreedOnceByMaker ==
  \A s \in Session :
    freed[s] = IF made[s] = "none" \/ s = session THEN << >> ELSE <<made[s]>>

\* Between two events the panels show the current session, at its present epoch
\* and with its present breakpoints (afterOp compares epochs, the breakpoint
\* slots always emit); and once no worker is out, its analysis is on them too.
ViewsCurrent ==
  ended = "no" /\ view # NotLoaded =>
    /\ view.s = session
    /\ view.epoch = epoch[session]
    /\ view.bps = bps[session]
    /\ ~analyzing /\ built[session] => view.built

\* analyzing_ is exact: it is set while a worker is out, and there is never a
\* second one, although setSession does not touch either.
OneAnalysis ==
  /\ Cardinality(workers) <= 1
  /\ ended = "no" => (analyzing <=> workers # {})

\* The comment in runAnalysis says that analysisFinished lets the views "read
\* the freshly built cache": the session they read then has one.
FinishedMeansBuilt == [][analyzing /\ ~analyzing' => built'[session']]_vars
=============================================================================
