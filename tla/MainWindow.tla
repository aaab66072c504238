------------------------------ MODULE MainWindow ------------------------------
(***************************************************************************)
(* The main window over the controller,                                    *)
(* irida-ui/gui/src/app/main_window.cpp: docks that follow the kind of the *)
(* session, the status bar's progress, and a layout that outlives the      *)
(* process in QSettings.  Closing saves it; a crash leaves what the last   *)
(* close saved; the next start restores it on the screens that are there   *)
(* then.                                                                   *)
(*                                                                         *)
(* Abstracted: where docks sit, the geometry within a screen, the texts.   *)
(* A dock, a screen and a layout version are values.                       *)
(***************************************************************************)
EXTENDS DebugController

CONSTANTS
  debugDocks_, OtherDocks,   \* the docks of a live process, and the others
  Screens, Primary,          \* the screens that may be plugged in
  MaxStarts                  \* bound on the processes a run starts

ASSUME WindowAssumption == Primary \in Screens /\ debugDocks_ \cap OtherDocks = {} /\ MaxStarts \in Nat

VARIABLES
  shown,       \* the docks that are visible
  chosen,      \* the debug docks the user toggled since the rule was last applied
  progress,    \* statusProgress_ is visible
  screen,      \* where the window is
  screens,     \* the screens plugged in when the process started
  saved,       \* QSettings: [screen, shown, version], or NoLayout
  starts       \* processes so far

window == <<shown, chosen, progress, screen, screens, starts>>
windowVars == <<vars, window, saved>>

docks_ == debugDocks_ \cup OtherDocks
isLive(kind) == kind = "Native"

NoLayout == [version |-> "none"]
kLayoutStateVersion == "current"
Layouts == [screen : Screens, shown : SUBSET docks_, version : {"older", "current"}]

\* Hidden or shown by the kind of the session; the other docks stay.
applyDebugDockVisibility(docks, kind) ==
  IF isLive(kind) THEN docks \cup debugDocks_ ELSE docks \ debugDocks_

\* restoreState: a state of another version is ignored.
RestoredDocks(layout) == IF layout.version = kLayoutStateVersion THEN layout.shown ELSE docks_

\* The screen of restoreLayout: the geometry of any version is restored, and the
\* window is brought back when that is on no screen.
restoreLayout(layout, present) ==
  IF layout # NoLayout /\ layout.screen \in present THEN layout.screen ELSE Primary

-----------------------------------------------------------------------------

\* The docks once the constructor is done: every dock is built visible, the
\* layout is restored over that, then the rule is applied: no process is live yet.
ConstructedDocks == applyDebugDockVisibility(RestoredDocks(saved), "Static")

\* Handles are opaque: the first one of a process may be any.
FirstHandle == CHOOSE s \in Session : TRUE

Plugged == {S \in SUBSET Screens : Primary \in S}

\* main opens a file, a test hands over the mock; the settings are what an older build left, or nothing.
WindowInit ==
  /\ Init /\ session = FirstHandle
  /\ screens \in Plugged
  /\ saved \in {NoLayout} \cup {l \in Layouts : l.version = "older" /\ l.shown = docks_}
  /\ shown = ConstructedDocks /\ chosen = {} /\ progress = FALSE
  /\ screen = restoreLayout(saved, screens)
  /\ starts = 1

\* Between events of the window the worker runs.
WorkerRuns == Worker /\ UNCHANGED <<window, saved>>

Slot ==
  /\ ended = "no"
  /\ refreshViews \/ flowOp \/ toggleBreakpoint \/ setBreakpointEnabled
  /\ UNCHANGED <<window, saved>>

\* analysisStarted shows the progress bar, analysisFinished hides it.
analysisStarted ==
  /\ ended = "no"
  /\ runAnalysis
  /\ progress' = TRUE
  /\ UNCHANGED <<shown, chosen, screen, screens, starts, saved>>

\* Mutant of analysisFinished: only the current session's analysis is reported.
AnalysisFinishedForCurrent(w) ==
  /\ ended = "no"
  /\ finished(w)
  /\ progress' = (progress /\ w.s # session)
  /\ UNCHANGED <<shown, chosen, screen, screens, starts, saved>>

analysisFinished(w) ==
  /\ ended = "no"
  /\ finished(w)
  /\ progress' = FALSE
  /\ UNCHANGED <<shown, chosen, screen, screens, starts, saved>>

\* attachToProcess, when a process was chosen and the attach succeeded; without
\* one, or when it fails, nothing changes.  sessionKindChanged is emitted only
\* when the kind differs.
attachToProcess(s) ==
  /\ ended = "no"
  /\ setSession(s)
  /\ IF session_kind' # session_kind
     THEN shown' = applyDebugDockVisibility(shown, session_kind') /\ chosen' = {}
     ELSE UNCHANGED <<shown, chosen>>
  /\ UNCHANGED <<progress, screen, screens, starts, saved>>

\* The View menu and the docks' close buttons.
toggleDock(d) ==
  /\ ended = "no"
  /\ shown' = IF d \in shown THEN shown \ {d} ELSE shown \cup {d}
  /\ chosen' = chosen \cup ({d} \cap debugDocks_)
  /\ UNCHANGED <<vars, progress, screen, screens, starts, saved>>

\* Mutant of resetLayout: the snapshot, taken with every dock, stands.
ResetLayoutUnruled ==
  /\ ended = "no"
  /\ shown' = docks_
  /\ chosen' = {}
  /\ UNCHANGED <<vars, progress, screen, screens, starts, saved>>

resetLayout ==
  /\ ended = "no"
  /\ shown' = applyDebugDockVisibility(docks_, session_kind)
  /\ chosen' = {}
  /\ UNCHANGED <<vars, progress, screen, screens, starts, saved>>

\* The user drags the window to a screen.
dragTo(s) ==
  /\ ended = "no"
  /\ s \in screens
  /\ screen' = s
  /\ UNCHANGED <<vars, shown, chosen, progress, screens, starts, saved>>

\* closeEvent saves, then the window goes with its controller.
closeEvent ==
  /\ ended = "no"
  /\ close
  /\ saved' = [screen |-> screen, shown |-> shown, version |-> kLayoutStateVersion]
  /\ UNCHANGED window

\* The program is started again, on the screens that are plugged in now.
Restart ==
  /\ ended # "no"
  /\ starts < MaxStarts
  /\ starts' = starts + 1
  /\ made' = [s \in Session |-> IF s = FirstHandle THEN "Static" ELSE "none"]
  /\ session' = FirstHandle
  /\ freed' = [s \in Session |-> << >>] /\ epoch' = [s \in Session |-> 1]
  /\ bps' = [s \in Session |-> "absent"] /\ built' = [s \in Session |-> FALSE]
  /\ session_kind' = "Static" /\ analyzing' = FALSE
  /\ workers' = {} /\ started' = 0 /\ view' = NotLoaded /\ ended' = "no"
  /\ screens' \in Plugged
  /\ shown' = ConstructedDocks /\ chosen' = {} /\ progress' = FALSE
  /\ screen' = restoreLayout(saved, screens')
  /\ UNCHANGED saved

WindowNext ==
  \/ WorkerRuns \/ Slot \/ analysisStarted
  \/ \E w \in workers : analysisFinished(w)
  \/ \E s \in Session : attachToProcess(s)
  \/ \E d \in docks_ : toggleDock(d)
  \/ resetLayout
  \/ \E s \in Screens : dragTo(s)
  \/ closeEvent
  \/ Restart

Delivered == \E w \in workers : analysisFinished(w)

\* The operating system runs the worker and Qt delivers its queued signal.
WindowSpec ==
  WindowInit /\ [][WindowNext]_windowVars /\ WF_windowVars(WorkerRuns) /\ WF_windowVars(Delivered)
-----------------------------------------------------------------------------
(* Properties                                                                *)

\* Whatever was restored, reset or attached, and in whatever order, a debug dock
\* that the user has not toggled since is visible exactly when a live process
\* backs the session.
DebugDocksFollowKind ==
  ended = "no" => \A d \in debugDocks_ \ chosen : d \in shown <=> isLive(session_kind)

\* The progress bar goes away again, also when the session under the analysis is
\* replaced, unless the window is closed or the process dies first.
ProgressEnds == progress ~> (~progress \/ ended # "no")
=============================================================================
