------------------------ MODULE DebugControllerProofs ------------------------
(***************************************************************************)
(* For any set of handles and any number of analyses: the controller's     *)
(* types, the life of its sessions, the single worker, and panels that are *)
(* never stale.                                                            *)
(*                                                                         *)
(* FreedOnceByMaker is not inductive: setSession destroys by               *)
(* session_kind_, so the invariant adds that session_kind_ is the kind the *)
(* current session was created with.  OneAnalysis is proved from           *)
(* SingleWorker, which says it without counting.                           *)
(***************************************************************************)
EXTENDS DebugController, FiniteSetTheorems, TLAPS

\* session_kind_ describes the current session.
KindMatches == session # NoSession => made[session] = session_kind

\* There is no worker or one, and analyzing_ says which.
SingleWorker ==
  /\ workers = {} \/ \E w : workers = {w}
  /\ ended = "no" => (analyzing <=> workers # {})

\* The inductive invariant.
ControllerInv == TypeOK /\ KindMatches /\ FreedOnceByMaker /\ SingleWorker

-----------------------------------------------------------------------------
\* A controller starts with one session of its kind and no worker.
LEMMA InitInv == Init => ControllerInv
  <1> SUFFICES ASSUME Init PROVE ControllerInv
    OBVIOUS
  <1> USE SessionAssumption, ControllerAssumption
  <1>1. PICK s \in Session, k \in {"Static", "Mock"} :
          /\ SessionInit(s, k)
          /\ session = s /\ session_kind = k /\ analyzing = FALSE
          /\ workers = {} /\ started = 0
          /\ view = NotLoaded
          /\ ended = "no"
    BY DEF Init
  <1>2. SessionTypeOK
    BY <1>1 DEF SessionInit, SessionTypeOK, Kinds, BpStates
  <1>3. TypeOK
    <2>1. NotLoaded \in [s : Session \cup {NoSession}, epoch : 0 .. MaxEpoch,
                         bps : BpStates, built : BOOLEAN]
      BY DEF NotLoaded, BpStates
    <2>2. session \in Session /\ session # NoSession /\ session_kind \in Kinds
      BY <1>1 DEF Kinds
    <2>3. analyzing \in BOOLEAN /\ ended = "no" /\ view = NotLoaded
      BY <1>1
    <2>4. started \in 0 .. MaxAnalyses
      BY <1>1
    <2>5. workers \subseteq [id : 1 .. MaxAnalyses, s : Session,
                             pc : {"tracing", "storing", "queued"}]
      BY <1>1
    <2> QED
      BY <1>2, <2>1, <2>2, <2>3, <2>4, <2>5, Zenon DEF TypeOK
  <1>4. KindMatches /\ FreedOnceByMaker /\ SingleWorker
    BY <1>1 DEF SessionInit, KindMatches, FreedOnceByMaker, SingleWorker
  <1> QED
    BY <1>3, <1>4 DEF ControllerInv

\* A reload of the panels keeps the view typed and the process open or crashed.
LEMMA ReloadTyped ==
  ASSUME SessionTypeOK', session' \in Session, StateChanged
  PROVE  /\ view' \in [s : Session \cup {NoSession}, epoch : 0 .. MaxEpoch,
                       bps : BpStates, built : BOOLEAN]
         /\ ended' \in {"no", "crashed"}
  BY SessionAssumption DEF SessionTypeOK, StateChanged

\* What a slot that leaves handles and workers alone preserves.
LEMMA QuietSlot ==
  ASSUME ControllerInv, ended = "no", SessionTypeOK',
         UNCHANGED <<made, freed, control, workers, started>>,
         StateChanged \/ NoSignal
  PROVE  ControllerInv'
  <1>1. session' \in Session
    BY DEF ControllerInv, TypeOK, control
  <1>2. /\ view' \in [s : Session \cup {NoSession}, epoch : 0 .. MaxEpoch,
                      bps : BpStates, built : BOOLEAN]
        /\ ended' \in {"no", "crashed"}
    BY <1>1, ReloadTyped DEF ControllerInv, TypeOK, NoSignal
  <1>3. TypeOK'
    BY <1>1, <1>2, SessionAssumption DEF ControllerInv, TypeOK, control
  <1>4. (KindMatches /\ FreedOnceByMaker /\ SingleWorker)'
    BY <1>2 DEF ControllerInv, KindMatches, FreedOnceByMaker, SingleWorker, control
  <1> QED
    BY <1>3, <1>4 DEF ControllerInv

-----------------------------------------------------------------------------
\* The worker thread, once per step it can take.
LEMMA WorkerInv == ControllerInv /\ Worker => ControllerInv'
  <1> SUFFICES ASSUME ControllerInv, Worker PROVE ControllerInv'
    OBVIOUS
  <1> USE DEF ControllerInv
  <1>1. PICK w \in workers :
          \/ /\ WorkerTraces(w) \/ WorkerStores(w)
             /\ UNCHANGED <<control, started, view, ended>>
          \/ WorkerCrashes(w)
    BY DEF Worker
  <1>2. workers = {w}
    BY <1>1 DEF SingleWorker
  <1>3. w \in [id : 1 .. MaxAnalyses, s : Session, pc : {"tracing", "storing", "queued"}]
    BY <1>1 DEF TypeOK
  <1>4. CASE WorkerTraces(w) /\ UNCHANGED <<control, started, view, ended>>
    <2>1. workers' = {[w EXCEPT !.pc = "storing"]}
      BY <1>2, <1>4 DEF WorkerTraces, Advance
    <2>2. TypeOK'
      <3>1. SessionTypeOK'
        BY <1>4, Zenon DEF TypeOK, SessionTypeOK, WorkerTraces, sessionVars
      <3> QED
        BY <1>3, <1>4, <2>1, <3>1 DEF TypeOK, control
    <2>3. (KindMatches /\ FreedOnceByMaker /\ SingleWorker)'
      BY <1>2, <1>4, <2>1
      DEF KindMatches, FreedOnceByMaker, SingleWorker, WorkerTraces, control, sessionVars
    <2> QED
      BY <2>2, <2>3
  <1>5. CASE WorkerStores(w) /\ UNCHANGED <<control, started, view, ended>>
    <2>1. workers' = {[w EXCEPT !.pc = "queued"]}
      BY <1>2, <1>5 DEF WorkerStores, Advance
    <2>2. UNCHANGED <<made, freed, epoch, bps>> /\ built' \in [Session -> BOOLEAN]
      <3>1. built \in [Session -> BOOLEAN]
        BY Zenon DEF TypeOK, SessionTypeOK
      <3> QED
        BY <1>3, <1>5, <3>1 DEF WorkerStores, Stored, sessionVars
    <2>3. TypeOK'
      BY <1>3, <1>5, <2>1, <2>2 DEF TypeOK, SessionTypeOK, control
    <2>4. (KindMatches /\ FreedOnceByMaker /\ SingleWorker)'
      BY <1>2, <1>5, <2>1, <2>2 DEF KindMatches, FreedOnceByMaker, SingleWorker, control
    <2> QED
      BY <2>3, <2>4
  <1>6. CASE WorkerCrashes(w)
    BY <1>6 DEF TypeOK, SessionTypeOK, KindMatches, FreedOnceByMaker, SingleWorker,
                WorkerCrashes, control, sessionVars
  <1> QED
    BY <1>1, <1>4, <1>5, <1>6

-----------------------------------------------------------------------------
\* The slots that touch neither the handle nor a worker.
LEMMA SlotInv ==
  ASSUME ControllerInv, ended = "no",
         refreshViews \/ flowOp \/ toggleBreakpoint \/ setBreakpointEnabled
  PROVE  ControllerInv'
  <1>0. session \in Session /\ SessionTypeOK
    BY DEF ControllerInv, TypeOK
  <1>1. CASE refreshViews
    <2>1. SessionTypeOK'
      BY <1>0, <1>1 DEF SessionTypeOK, refreshViews, sessionVars
    <2> QED
      BY <1>1, <2>1, QuietSlot DEF refreshViews, sessionVars
  <1>2. CASE flowOp
    <2>1. PICK op \in FlowOps : Flow(session, op)
      BY <1>2 DEF flowOp
    <2>2. PICK moved \in Advances(session, op) :
            /\ moved => epoch[session] < MaxEpoch
            /\ epoch' = IF moved THEN [epoch EXCEPT ![session] = @ + 1] ELSE epoch
            /\ UNCHANGED <<made, freed, bps, built>>
      BY <2>1 DEF Flow
    <2>3. epoch' \in [Session -> 1 .. MaxEpoch]
      BY <1>0, <2>2, SessionAssumption DEF SessionTypeOK
    <2>4. SessionTypeOK'
      BY <1>0, <2>2, <2>3 DEF SessionTypeOK
    <2> QED
      BY <1>2, <2>2, <2>4, QuietSlot DEF flowOp, afterOp
  <1>3. CASE toggleBreakpoint
    <2>1. bps' \in [Session -> BpStates] /\ UNCHANGED <<made, freed, epoch, built>>
      BY <1>0, <1>3 DEF toggleBreakpoint, BpToggle, SessionTypeOK, BpStates
    <2>2. SessionTypeOK'
      BY <1>0, <2>1 DEF SessionTypeOK
    <2> QED
      BY <1>3, <2>1, <2>2, QuietSlot DEF toggleBreakpoint
  <1>4. CASE setBreakpointEnabled
    <2>1. PICK on \in BOOLEAN : BpSetEnabled(session, on)
      BY <1>4 DEF setBreakpointEnabled
    <2>2. bps' \in [Session -> BpStates] /\ UNCHANGED <<made, freed, epoch, built>>
      BY <1>0, <2>1 DEF BpSetEnabled, SessionTypeOK, BpStates
    <2>3. SessionTypeOK'
      BY <1>0, <2>2 DEF SessionTypeOK
    <2> QED
      BY <1>4, <2>2, <2>3, QuietSlot DEF setBreakpointEnabled
  <1> QED
    BY <1>1, <1>2, <1>3, <1>4

\* An attach: the new handle is fresh, the old one gets its only destructor.
LEMMA SetSessionInv ==
  ASSUME ControllerInv, ended = "no", NEW s \in Session, setSession(s)
  PROVE  ControllerInv'
  <1> USE DEF ControllerInv
  <1>1. /\ session \in Session /\ SessionTypeOK
        /\ made[session] = session_kind /\ session_kind \in Kinds
    BY DEF TypeOK, KindMatches
  <1>2. /\ made[s] = "none" /\ s # session
        /\ freed[session] = << >> /\ freed[s] = << >>
    BY <1>1 DEF setSession, Created, FreedOnceByMaker, Kinds
  <1>3. /\ made' = [made EXCEPT ![s] = "Native"]
        /\ freed' = [freed EXCEPT ![session] = <<session_kind>>]
        /\ session' = s /\ session_kind' = "Native"
        /\ UNCHANGED <<epoch, bps, built, analyzing, workers, started>>
        /\ StateChanged
    <2>1. session # NoSession
      BY <1>1, SessionAssumption
    <2>2. Append(freed[session], session_kind) = <<session_kind>>
      BY <1>1, <1>2
    <2> QED
      BY <2>1, <2>2 DEF setSession, Created, Destroyed
  <1>4. FreedOnceByMaker'
    <2> SUFFICES ASSUME NEW t \in Session
                 PROVE  freed'[t] = IF made'[t] = "none" \/ t = session' THEN << >>
                                    ELSE <<made'[t]>>
      BY <1>3 DEF FreedOnceByMaker
    <2>1. CASE t = s
      BY <1>1, <1>2, <1>3, <2>1 DEF SessionTypeOK
    <2>2. CASE t = session
      BY <1>1, <1>2, <1>3, <2>2 DEF SessionTypeOK, Kinds
    <2>3. CASE t # s /\ t # session
      BY <1>1, <1>3, <2>3 DEF SessionTypeOK, FreedOnceByMaker
    <2> QED
      BY <2>1, <2>2, <2>3
  <1>5. SessionTypeOK'
    <2>1. made' \in [Session -> Kinds \cup {"none"}]
      BY <1>1, <1>3 DEF SessionTypeOK, Kinds
    <2>2. freed' \in [Session -> Seq(Kinds)]
      BY <1>1, <1>3 DEF SessionTypeOK
    <2> QED
      BY <1>1, <1>3, <2>1, <2>2 DEF SessionTypeOK
  <1>6. /\ view' \in [s : Session \cup {NoSession}, epoch : 0 .. MaxEpoch,
                      bps : BpStates, built : BOOLEAN]
        /\ ended' \in {"no", "crashed"}
    BY <1>3, <1>5, ReloadTyped
  <1>7. TypeOK'
    BY <1>3, <1>5, <1>6, SessionAssumption DEF TypeOK, Kinds
  <1>8. (KindMatches /\ SingleWorker)'
    BY <1>1, <1>3, <1>6 DEF KindMatches, SingleWorker, SessionTypeOK
  <1> QED
    BY <1>4, <1>7, <1>8

\* The start of a worker: the guard on analyzing_ leaves room for one.
LEMMA RunAnalysisInv ==
  ASSUME ControllerInv, ended = "no", runAnalysis
  PROVE  ControllerInv'
  <1> USE DEF ControllerInv
  <1>1. workers = {}
    BY DEF SingleWorker, runAnalysis
  <1>2. started' \in 1 .. MaxAnalyses /\ session \in Session
    BY ControllerAssumption DEF TypeOK, runAnalysis
  <1>3. workers' = {[id |-> started', s |-> session, pc |-> "tracing"]}
    BY <1>1 DEF runAnalysis
  <1>4. SessionTypeOK'
    BY Zenon DEF TypeOK, SessionTypeOK, runAnalysis, sessionVars
  <1>5. TypeOK'
    BY <1>2, <1>3, <1>4 DEF TypeOK, runAnalysis, NoSignal
  <1>6. (KindMatches /\ FreedOnceByMaker /\ SingleWorker)'
    BY <1>3 DEF KindMatches, FreedOnceByMaker, SingleWorker, runAnalysis, NoSignal, sessionVars
  <1> QED
    BY <1>5, <1>6

\* The finished signal takes the only worker away.
LEMMA FinishedInv ==
  ASSUME ControllerInv, ended = "no", NEW w \in workers, finished(w)
  PROVE  ControllerInv'
  <1> USE DEF ControllerInv
  <1>1. workers' = {}
    BY DEF SingleWorker, finished
  <1>2. SessionTypeOK' /\ session' \in Session
    BY Zenon DEF TypeOK, SessionTypeOK, finished, sessionVars
  <1>3. /\ view' \in [s : Session \cup {NoSession}, epoch : 0 .. MaxEpoch,
                      bps : BpStates, built : BOOLEAN]
        /\ ended' \in {"no", "crashed"}
    BY <1>2, ReloadTyped DEF finished
  <1>4. TypeOK'
    BY <1>1, <1>2, <1>3, SessionAssumption DEF TypeOK, finished
  <1>5. (KindMatches /\ FreedOnceByMaker /\ SingleWorker)'
    BY <1>1 DEF KindMatches, FreedOnceByMaker, SingleWorker, finished, sessionVars
  <1> QED
    BY <1>4, <1>5

\* The controller's destructor, with a worker running or not.
LEMMA CloseInv ==
  ASSUME ControllerInv, ended = "no", close
  PROVE  ControllerInv'
  <1> USE DEF ControllerInv
  <1>1. /\ session \in Session /\ SessionTypeOK
        /\ made[session] = session_kind /\ session_kind \in Kinds
        /\ freed[session] = << >>
    BY DEF TypeOK, KindMatches, FreedOnceByMaker
  <1>2. freed' = [freed EXCEPT ![session] = <<session_kind>>]
    <2>1. session # NoSession
      BY <1>1, SessionAssumption
    <2>2. Append(freed[session], session_kind) = <<session_kind>>
      BY <1>1
    <2> QED
      BY <2>1, <2>2 DEF close, Destroyed
  <1>3. FreedOnceByMaker'
    <2> SUFFICES ASSUME NEW t \in Session
                 PROVE  freed'[t] = IF made[t] = "none" THEN << >> ELSE <<made[t]>>
      BY SessionAssumption DEF FreedOnceByMaker, close
    <2>1. CASE t = session
      BY <1>1, <1>2, <2>1 DEF SessionTypeOK, Kinds
    <2>2. CASE t # session
      BY <1>1, <1>2, <2>2 DEF SessionTypeOK, FreedOnceByMaker
    <2> QED
      BY <2>1, <2>2
  <1>4. SessionTypeOK'
    <2>1. freed' \in [Session -> Seq(Kinds)]
      BY <1>1, <1>2 DEF SessionTypeOK
    <2> QED
      BY <1>1, <2>1, Zenon DEF SessionTypeOK, close
  <1>5. TypeOK'
    BY <1>4 DEF TypeOK, close
  <1>6. (KindMatches /\ SingleWorker)'
    BY DEF KindMatches, SingleWorker, close
  <1> QED
    BY <1>3, <1>5, <1>6

\* Every step, the stuttering one included, keeps the inductive invariant.
LEMMA NextInv == ControllerInv /\ [Next]_vars => ControllerInv'
  <1> SUFFICES ASSUME ControllerInv, [Next]_vars PROVE ControllerInv'
    OBVIOUS
  <1>1. CASE Worker
    BY <1>1, WorkerInv
  <1>2. CASE UI
    BY <1>2, SlotInv, SetSessionInv, RunAnalysisInv, FinishedInv, CloseInv DEF UI
  <1>3. CASE UNCHANGED vars
    <2>1. TypeOK'
      BY <1>3, Zenon DEF ControllerInv, TypeOK, SessionTypeOK, vars, control, sessionVars
    <2>2. (KindMatches /\ FreedOnceByMaker /\ SingleWorker)'
      BY <1>3 DEF ControllerInv, KindMatches, FreedOnceByMaker, SingleWorker,
                  vars, control, sessionVars
    <2> QED
      BY <2>1, <2>2 DEF ControllerInv
  <1> QED
    BY <1>1, <1>2, <1>3 DEF Next

\* The inductive invariant holds throughout.
THEOREM ControllerInvariant == Spec => []ControllerInv
  BY InitInv, NextInv, PTL DEF Spec

-----------------------------------------------------------------------------
\* The controller's state stays typed, and its handle is null exactly after the
\* destructor has run.
THEOREM ControllerTyped == Spec => []TypeOK
  <1>1. ControllerInv => TypeOK
    BY DEF ControllerInv
  <1> QED
    BY <1>1, ControllerInvariant, PTL

\* However many processes are attached to in turn, every session created is
\* destroyed once, by its creator's destructor, when it is replaced or when the
\* controller goes, and not before (destroySession, setSession, the destructor).
THEOREM SessionsFreedOnce == Spec => []FreedOnceByMaker
  <1>1. ControllerInv => FreedOnceByMaker
    BY DEF ControllerInv
  <1> QED
    BY <1>1, ControllerInvariant, PTL

\* analyzing_ admits one worker at a time over any number of analyses and
\* session changes, and tells whether it is out (runAnalysis, its lambda).
THEOREM OneAnalysisAtATime == Spec => []OneAnalysis
  <1>1. ControllerInv => OneAnalysis
    <2> SUFFICES ASSUME SingleWorker PROVE OneAnalysis
      BY DEF ControllerInv
    <2>1. CASE workers = {}
      <3>1. Cardinality(workers) = 0
        BY <2>1, FS_EmptySet
      <3> QED
        BY <3>1 DEF SingleWorker, OneAnalysis
    <2>2. CASE \E w : workers = {w}
      <3>1. PICK w : workers = {w}
        BY <2>2
      <3>2. Cardinality(workers) = 1
        BY <3>1, FS_Singleton
      <3> QED
        BY <3>2 DEF SingleWorker, OneAnalysis
    <2> QED
      BY <2>1, <2>2 DEF SingleWorker
  <1> QED
    BY <1>1, ControllerInvariant, PTL
-----------------------------------------------------------------------------
\* No panel has loaded anything when a process starts.
LEMMA ViewsInit == Init => ViewsCurrent
  BY DEF Init, ViewsCurrent

\* A reload shows the session as the slot leaves it.
LEMMA ReloadIsCurrent == StateChanged => ViewsCurrent'
  BY DEF StateChanged, ViewsCurrent

(***************************************************************************)
(* A slot that signals nothing keeps the panels current when it changes    *)
(* nothing they show: the worker's result may change unseen, since         *)
(* analyzing_ is set until the finished signal reloads them.               *)
(***************************************************************************)
LEMMA UnsignalledKeepsCurrent ==
  ASSUME ViewsCurrent, NoSignal, UNCHANGED session,
         epoch'[session] = epoch[session], bps'[session] = bps[session],
         analyzing' \/ (analyzing' = analyzing /\ built' = built)
  PROVE  ViewsCurrent'
  BY DEF ViewsCurrent, NoSignal

\* Every step keeps the panels current: a slot reloads them, the worker touches no
\* session they show unbuilt.
LEMMA ViewsStep == ControllerInv /\ ViewsCurrent /\ [Next]_vars => ViewsCurrent'
  <1> SUFFICES ASSUME ControllerInv, ViewsCurrent, [Next]_vars PROVE ViewsCurrent'
    OBVIOUS
  <1>1. CASE Worker
    <2>1. PICK w \in workers :
            \/ /\ WorkerTraces(w) \/ WorkerStores(w)
               /\ UNCHANGED <<control, started, view, ended>>
            \/ WorkerCrashes(w)
      BY <1>1 DEF Worker
    <2>2. CASE WorkerTraces(w) /\ UNCHANGED <<control, started, view, ended>>
      BY <2>2, UnsignalledKeepsCurrent DEF WorkerTraces, sessionVars, control, NoSignal
    <2>3. CASE WorkerStores(w) /\ UNCHANGED <<control, started, view, ended>>
      <3>1. UNCHANGED <<epoch, bps, control, view, ended>>
        BY <2>3 DEF WorkerStores, Stored, sessionVars
      <3>2. CASE ended = "no"
        <4>1. analyzing /\ analyzing'
          BY <2>1, <3>1, <3>2 DEF ControllerInv, SingleWorker, control
        <4> QED
          BY <3>1, <4>1, UnsignalledKeepsCurrent DEF control, NoSignal
      <3>3. CASE ended # "no"
        BY <3>1, <3>3 DEF ViewsCurrent
      <3> QED
        BY <3>2, <3>3
    <2>4. CASE WorkerCrashes(w)
      BY <2>4 DEF WorkerCrashes, ViewsCurrent
    <2> QED
      BY <2>1, <2>2, <2>3, <2>4
  <1>2. CASE UI
    <2>1. CASE refreshViews \/ toggleBreakpoint \/ setBreakpointEnabled
      BY <2>1, ReloadIsCurrent DEF refreshViews, toggleBreakpoint, setBreakpointEnabled
    <2>2. CASE runAnalysis
      BY <2>2, UnsignalledKeepsCurrent DEF runAnalysis, sessionVars
    <2>3. CASE flowOp
      <3>1. UNCHANGED <<bps, built, session, analyzing>>
        BY <2>3 DEF flowOp, Flow, control
      <3>2. CASE epoch'[session] # epoch[session]
        BY <2>3, <3>2, ReloadIsCurrent DEF flowOp, afterOp
      <3>3. CASE epoch'[session] = epoch[session]
        BY <2>3, <3>1, <3>3, UnsignalledKeepsCurrent DEF flowOp, afterOp
      <3> QED
        BY <3>2, <3>3
    <2>4. CASE \E s \in Session : setSession(s)
      BY <2>4, ReloadIsCurrent DEF setSession
    <2>5. CASE \E w \in workers : finished(w)
      BY <2>5, ReloadIsCurrent DEF finished
    <2>6. CASE close
      BY <2>6 DEF close, ViewsCurrent
    <2> QED
      BY <1>2, <2>1, <2>2, <2>3, <2>4, <2>5, <2>6 DEF UI
  <1>3. CASE UNCHANGED vars
    BY <1>3 DEF vars, control, sessionVars, ViewsCurrent
  <1> QED
    BY <1>1, <1>2, <1>3 DEF Next

\* Between two events the panels show the current session at its epoch and with
\* its breakpoints, and its analysis once no worker is out, although the worker
\* stores its result without telling them (stateChanged, afterOp, runAnalysis).
THEOREM PanelsCurrent == Spec => []ViewsCurrent
  BY InitInv, NextInv, ViewsInit, ViewsStep, PTL DEF Spec
=============================================================================
