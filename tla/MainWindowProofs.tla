--------------------------- MODULE MainWindowProofs ---------------------------
(***************************************************************************)
(* Theorems about the main window, for any docks, screens, sessions and    *)
(* number of starts.  The controller's invariant is reused: every step of  *)
(* the window is a step of its controller, leaves the controller alone, or *)
(* starts a new process.                                                   *)
(***************************************************************************)
EXTENDS MainWindow, DebugControllerProofs

\* The inductive invariant: a process has had a session to start with, the
\* controller is sound, and the docks follow the kind of its session.
WindowInv == Session # {} /\ ControllerInv /\ DebugDocksFollowKind

-----------------------------------------------------------------------------
\* The rule leaves the debug docks as the kind of the session asks.
LEMMA RuleApplied ==
  ASSUME NEW docks, NEW kind
  PROVE  \A d \in debugDocks_ : d \in applyDebugDockVisibility(docks, kind) <=> isLive(kind)
  BY DEF applyDebugDockVisibility

\* A process starts with the debug docks hidden, whatever layout it restored.
LEMMA WindowInitInv == WindowInit => WindowInv
  <1> SUFFICES ASSUME WindowInit PROVE WindowInv
    OBVIOUS
  <1>1. Session # {} /\ ControllerInv
    BY InitInv DEF WindowInit, Init
  <1>2. session_kind \in {"Static", "Mock"}
    BY DEF WindowInit, Init
  <1>3. DebugDocksFollowKind
    <2>1. \A d \in debugDocks_ : ~(d \in shown)
      BY RuleApplied DEF WindowInit, ConstructedDocks, isLive
    <2> QED
      BY <1>2, <2>1 DEF DebugDocksFollowKind, isLive
  <1> QED
    BY <1>1, <1>3 DEF WindowInv

\* A step that leaves the docks and the kind of a running process alone.
LEMMA DocksStay ==
  ASSUME DebugDocksFollowKind, UNCHANGED <<shown, chosen>>,
         ended' = "no" => ended = "no" /\ session_kind' = session_kind
  PROVE  DebugDocksFollowKind'
  BY DEF DebugDocksFollowKind

\* A new process has one session, opened from a file, and no worker.
LEMMA RestartInv ==
  ASSUME Session # {}, ended # "no", Restart
  PROVE  WindowInv'
  <1> USE SessionAssumption, ControllerAssumption
  <1>1. FirstHandle \in Session
    BY DEF FirstHandle
  <1>2. /\ made' = [s \in Session |-> IF s = FirstHandle THEN "Static" ELSE "none"]
        /\ freed' = [s \in Session |-> << >>] /\ epoch' = [s \in Session |-> 1]
        /\ bps' = [s \in Session |-> "absent"] /\ built' = [s \in Session |-> FALSE]
        /\ session' = FirstHandle /\ session_kind' = "Static" /\ analyzing' = FALSE
        /\ workers' = {} /\ started' = 0 /\ view' = NotLoaded /\ ended' = "no"
    BY DEF Restart
  <1>3. SessionTypeOK'
    <2>1. << >> \in Seq(Kinds)
      OBVIOUS
    <2> QED
      BY <1>2, <2>1 DEF SessionTypeOK, Kinds, BpStates
  <1>4. TypeOK'
    <2>1. view' \in [s : Session \cup {NoSession}, epoch : 0 .. MaxEpoch,
                     bps : BpStates, built : BOOLEAN]
      BY <1>2 DEF NotLoaded, BpStates
    <2>2. session' \in Session /\ session' # NoSession /\ session_kind' \in Kinds
      BY <1>1, <1>2 DEF Kinds
    <2>3. analyzing' \in BOOLEAN /\ ended' = "no"
      BY <1>2
    <2>4. started' \in 0 .. MaxAnalyses
      BY <1>2
    <2>5. workers' \subseteq [id : 1 .. MaxAnalyses, s : Session,
                              pc : {"tracing", "storing", "queued"}]
      BY <1>2
    <2> QED
      BY <1>3, <2>1, <2>2, <2>3, <2>4, <2>5, Zenon DEF TypeOK
  <1>5. KindMatches'
    BY <1>1, <1>2 DEF KindMatches
  <1>6. FreedOnceByMaker'
    BY <1>2 DEF FreedOnceByMaker
  <1>7. SingleWorker'
    BY <1>2 DEF SingleWorker
  <1>8. DebugDocksFollowKind'
    <2>1. \A d \in debugDocks_ : ~(d \in shown')
      BY RuleApplied DEF Restart, ConstructedDocks, isLive
    <2> QED
      BY <1>2, <2>1 DEF DebugDocksFollowKind, isLive
  <1> QED
    BY <1>4, <1>5, <1>6, <1>7, <1>8 DEF WindowInv, ControllerInv

-----------------------------------------------------------------------------
\* One step per event of the window.
LEMMA WindowNextInv == WindowInv /\ [WindowNext]_windowVars => WindowInv'
  <1> SUFFICES ASSUME WindowInv, [WindowNext]_windowVars PROVE WindowInv'
    OBVIOUS
  <1>0. Session # {} /\ ControllerInv /\ DebugDocksFollowKind
    BY DEF WindowInv
  <1>1. CASE WorkerRuns
    <2>1. ControllerInv'
      BY <1>0, <1>1, NextInv DEF WorkerRuns, Next
    <2>2. DebugDocksFollowKind'
      BY <1>0, <1>1, DocksStay DEF WorkerRuns, window, Worker, WorkerCrashes, control
    <2> QED
      BY <1>0, <2>1, <2>2 DEF WindowInv
  <1>2. CASE Slot
    <2>1. ControllerInv'
      BY <1>0, <1>2, NextInv DEF Slot, Next, UI
    <2>2. session_kind' = session_kind
      BY <1>2 DEF Slot, refreshViews, flowOp, toggleBreakpoint, setBreakpointEnabled, control
    <2>3. DebugDocksFollowKind'
      BY <1>0, <1>2, <2>2, DocksStay DEF Slot, window
    <2> QED
      BY <1>0, <2>1, <2>3 DEF WindowInv
  <1>3. CASE analysisStarted
    <2>1. ControllerInv'
      BY <1>0, <1>3, NextInv DEF analysisStarted, Next, UI
    <2>2. DebugDocksFollowKind'
      BY <1>0, <1>3, DocksStay DEF analysisStarted, runAnalysis
    <2> QED
      BY <1>0, <2>1, <2>2 DEF WindowInv
  <1>4. CASE \E w \in workers : analysisFinished(w)
    <2>1. ControllerInv'
      BY <1>0, <1>4, NextInv DEF analysisFinished, Next, UI
    <2>2. DebugDocksFollowKind'
      BY <1>0, <1>4, DocksStay DEF analysisFinished, finished
    <2> QED
      BY <1>0, <2>1, <2>2 DEF WindowInv
  <1>5. CASE \E s \in Session : attachToProcess(s)
    <2>0. PICK s \in Session : attachToProcess(s)
      BY <1>5
    <2>1. ControllerInv'
      BY <1>0, <2>0, NextInv DEF attachToProcess, Next, UI
    <2>2. CASE session_kind' # session_kind
      <3>1. shown' = applyDebugDockVisibility(shown, session_kind')
        BY <2>0, <2>2 DEF attachToProcess
      <3>2. DebugDocksFollowKind'
        BY <3>1, RuleApplied DEF DebugDocksFollowKind
      <3> QED
        BY <1>0, <2>1, <3>2 DEF WindowInv
    <2>3. CASE session_kind' = session_kind
      <3>1. DebugDocksFollowKind'
        BY <1>0, <2>0, <2>3, DocksStay DEF attachToProcess
      <3> QED
        BY <1>0, <2>1, <3>1 DEF WindowInv
    <2> QED
      BY <2>2, <2>3
  <1>6. CASE \E d \in docks_ : toggleDock(d)
    <2>0. PICK d \in docks_ : toggleDock(d)
      BY <1>6
    <2>1. ControllerInv'
      BY <1>0, <2>0, NextInv DEF toggleDock
    <2>2. DebugDocksFollowKind'
      <3>1. session_kind' = session_kind /\ ended = "no"
        BY <2>0 DEF toggleDock, vars, control
      <3>2. \A e \in debugDocks_ \ chosen' : e \in debugDocks_ \ chosen /\ (e \in shown' <=> e \in shown)
        BY <2>0 DEF toggleDock
      <3> QED
        BY <1>0, <3>1, <3>2 DEF DebugDocksFollowKind, isLive
    <2> QED
      BY <1>0, <2>1, <2>2 DEF WindowInv
  <1>7. CASE resetLayout
    <2>1. ControllerInv'
      BY <1>0, <1>7, NextInv DEF resetLayout
    <2>2. session_kind' = session_kind /\ shown' = applyDebugDockVisibility(docks_, session_kind)
      BY <1>7 DEF resetLayout, vars, control
    <2>3. DebugDocksFollowKind'
      BY <2>2, RuleApplied DEF DebugDocksFollowKind
    <2> QED
      BY <1>0, <2>1, <2>3 DEF WindowInv
  <1>8. CASE \E s \in Screens : dragTo(s)
    <2>1. ControllerInv'
      BY <1>0, <1>8, NextInv DEF dragTo
    <2>2. DebugDocksFollowKind'
      BY <1>0, <1>8, DocksStay DEF dragTo, vars, control
    <2> QED
      BY <1>0, <2>1, <2>2 DEF WindowInv
  <1>9. CASE closeEvent
    <2>1. ControllerInv'
      BY <1>0, <1>9, NextInv DEF closeEvent, Next, UI
    <2>2. DebugDocksFollowKind'
      BY <1>9 DEF closeEvent, close, DebugDocksFollowKind
    <2> QED
      BY <1>0, <2>1, <2>2 DEF WindowInv
  <1>10. CASE Restart
    BY <1>0, <1>10, RestartInv DEF Restart
  <1>11. CASE UNCHANGED windowVars
    <2>1. ControllerInv'
      BY <1>0, <1>11, NextInv DEF windowVars
    <2>2. DebugDocksFollowKind'
      BY <1>0, <1>11, DocksStay DEF windowVars, window, vars, control
    <2> QED
      BY <1>0, <2>1, <2>2 DEF WindowInv
  <1> QED
    BY <1>1, <1>2, <1>3, <1>4, <1>5, <1>6, <1>7, <1>8, <1>9, <1>10, <1>11 DEF WindowNext

\* Over any number of starts, attaches, resets and restored layouts the window's
\* state satisfies the invariant.
THEOREM WindowInvariant == WindowSpec => []WindowInv
  BY WindowInitInv, WindowNextInv, PTL DEF WindowSpec

\* A debug dock that the user has not toggled since the rule was last applied is
\* visible exactly when the session is live (restoreLayout, resetLayout,
\* attachToProcess, applyDebugDockVisibility).
THEOREM DocksFollowKind == WindowSpec => []DebugDocksFollowKind
  <1>1. WindowInv => DebugDocksFollowKind
    BY DEF WindowInv
  <1> QED
    BY <1>1, WindowInvariant, PTL

\* The sessions of every process are destroyed once and by their maker, however
\* the window's processes follow each other (attachToProcess, closeEvent).
THEOREM WindowFreesOnce == WindowSpec => []FreedOnceByMaker
  <1>1. WindowInv => FreedOnceByMaker
    BY DEF WindowInv, ControllerInv
  <1> QED
    BY <1>1, WindowInvariant, PTL

-----------------------------------------------------------------------------
\* Every event of the window is a step of its controller, leaves it alone, or
\* starts a new process.
LEMMA WindowStepsController == [WindowNext]_windowVars => [Next]_vars \/ Restart
  <1> SUFFICES ASSUME [WindowNext]_windowVars PROVE [Next]_vars \/ Restart
    OBVIOUS
  <1>1. CASE WorkerRuns
    BY <1>1 DEF WorkerRuns, Next
  <1>2. CASE Slot \/ analysisStarted \/ closeEvent
    BY <1>2 DEF Slot, analysisStarted, closeEvent, Next, UI
  <1>3. CASE \E w \in workers : analysisFinished(w)
    BY <1>3 DEF analysisFinished, Next, UI
  <1>4. CASE \E s \in Session : attachToProcess(s)
    BY <1>4 DEF attachToProcess, Next, UI
  <1>5. CASE (\E d \in docks_ : toggleDock(d)) \/ resetLayout \/ (\E s \in Screens : dragTo(s))
    BY <1>5 DEF toggleDock, resetLayout, dragTo
  <1>6. CASE UNCHANGED windowVars
    BY <1>6 DEF windowVars
  <1> QED
    BY <1>1, <1>2, <1>3, <1>4, <1>5, <1>6 DEF WindowNext

\* The panels are current in every process of the window, also after a restart
\* in place of one that crashed (stateChanged, afterOp, runAnalysis).
THEOREM WindowPanelsCurrent == WindowSpec => []ViewsCurrent
  <1>1. WindowInit => ViewsCurrent
    BY ViewsInit DEF WindowInit
  <1>2. WindowInv /\ ViewsCurrent /\ [WindowNext]_windowVars => ViewsCurrent'
    <2> SUFFICES ASSUME WindowInv, ViewsCurrent, [WindowNext]_windowVars
                 PROVE  ViewsCurrent'
      OBVIOUS
    <2>1. CASE [Next]_vars
      BY <2>1, ViewsStep DEF WindowInv
    <2>2. CASE Restart
      BY <2>2 DEF Restart, ViewsCurrent
    <2> QED
      BY <2>1, <2>2, WindowStepsController
  <1> QED
    BY <1>1, <1>2, WindowInvariant, PTL DEF WindowSpec
=============================================================================
