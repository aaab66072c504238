------------------------- MODULE NativeBackendProofs -------------------------
(***************************************************************************)
(* Theorems about the native backend, for any program, any threads, any    *)
(* set of failing OS calls and any number of calls.                        *)
(***************************************************************************)
EXTENDS NativeBackend, TLAPS

Replies ==
  [res : {"none", "ok", "err"}]
    \cup [res : {"stop"},
          kind : {"Breakpoint", "SingleStep", "Signal", "Exited", "Unknown"}, event : Event]

Calls == [op : {"none", "drain", "stopping", "cont", "step"}]
           \cup [op : {"over"}, event : Event]

History == [dropped : SUBSET Thread, broken : SUBSET Code, over : BOOLEAN, calls : Nat]

Slots == 0 .. HwSlots - 1

ProcessTyped ==
  /\ mem \in [Code -> Byte]
  /\ rip \in [Thread -> Code]
  /\ tf \in [Thr -> BOOLEAN]
  /\ raised \in [Thr -> Event \cup {NoEvent}]
  /\ brk \in {"gone", "created", "broke", "exiting"}
  /\ dr \in [Thr -> [Slots -> Where]]
  /\ alive \in BOOLEAN
  /\ traced \in BOOLEAN

BackendTyped ==
  /\ attached \in BOOLEAN
  /\ pending \in Event \cup {NoEvent}
  /\ primary \in Thr
  /\ DOMAIN sw \subseteq Code /\ sw \in [DOMAIN sw -> Byte]
  /\ DOMAIN hw \subseteq Code /\ hw \in [DOMAIN hw -> Slots]
  /\ next_hw_slot \in 0 .. HwSlots
  /\ call \in Calls
  /\ reply \in Replies

\* No caller writes an int3 of its own over the program.
HistoryTyped ==
  /\ text \in [Code -> {"op", "new"}]
  /\ due \in [Thread -> Code]
  /\ hist \in History

TypeOK == ProcessTyped /\ BackendTyped /\ HistoryTyped

\* An event is its thread's own; the break-in thread hits nothing in the program.
EventsOwned ==
  \A t \in Thr : raised[t] # NoEvent =>
    raised[t].tid = t /\ (t = BreakIn => raised[t].at = NoAddr)

\* A step-over is one of a thread of the program, at a breakpoint in the table.
OverAtBreakpoint ==
  call.op = "over" => call.event.at \in DOMAIN sw /\ call.event.tid \in Thread

-----------------------------------------------------------------------------
(* Types                                                                     *)

\* The ring has a next instruction everywhere, and it is another one.
LEMMA AfterIsCode == \A a \in Code : After(a) \in Code /\ After(a) # a
  BY NAddrAssumption DEF Code, After

\* What the bookkeeping of a counted call leaves.
LEMMA CountedTyped ==
  ASSUME hist \in History, NEW d \in SUBSET Thread, NEW b \in SUBSET Code, Counted(d, b)
  PROVE  /\ hist' \in History
         /\ hist'.dropped = d /\ hist'.broken = hist.broken \cup b /\ hist'.over = hist.over
  <1>1. hist' = [hist EXCEPT !.calls = hist.calls + 1, !.dropped = d, !.broken = hist.broken \cup b]
    BY DEF Counted
  <1>2. hist.calls + 1 \in Nat /\ hist.broken \cup b \in SUBSET Code
    BY DEF History
  <1>3. ASSUME NEW c \in Nat, NEW x \in SUBSET Code,
               hist' = [hist EXCEPT !.calls = c, !.dropped = d, !.broken = x]
        PROVE  hist' \in History /\ hist'.dropped = d /\ hist'.broken = x /\ hist'.over = hist.over
    BY <1>3 DEF History
  <1> QED
    BY <1>1, <1>2, <1>3

\* The event a wait returns, and what is left.
LEMMA WaitTyped ==
  ASSUME ProcessTyped, EventsOwned, NEW t \in Thr, NEW held \in BOOLEAN, wait_event(t, held)
  PROVE  /\ raised[t] \in Event /\ raised[t] # NoEvent /\ raised[t].tid = t
         /\ raised[t].kind \in Kind
         /\ t = BreakIn => raised[t].at = NoAddr
         /\ raised' = [raised EXCEPT ![t] = NoEvent]
         /\ raised' \in [Thr -> Event \cup {NoEvent}]
         /\ pending' = IF held THEN raised[t] ELSE NoEvent
         /\ pending' \in Event \cup {NoEvent}
         /\ primary' = t
  BY DEF ProcessTyped, EventsOwned, wait_event, Event

\* A hit of a planted breakpoint is one of a thread of the program.
LEMMA PlantedTyped ==
  ASSUME ProcessTyped, BackendTyped, EventsOwned, NEW t \in Thr,
         raised[t] # NoEvent, Planted(raised[t])
  PROVE  /\ t \in Thread /\ raised[t].at \in DOMAIN sw
         /\ raised[t].at \in Code /\ raised[t].kind = "Breakpoint" /\ raised[t].tid = t
  BY NoAddrAssumption, ThreadAssumption
     DEF ProcessTyped, BackendTyped, EventsOwned, Planted, Thr, Code

\* Threads that join the dropped ones are threads of the program.
LEMMA DropHitTyped ==
  ASSUME hist \in History, NEW e
  PROVE  /\ DropHit(e) \in SUBSET Thread
         /\ hist.dropped \subseteq DropHit(e)
         /\ e.kind = "Breakpoint" /\ e.tid \in Thread => e.tid \in DropHit(e)
  BY DEF DropHit, History

\* The state at start-up is typed, and no event is pending or stepped over.
LEMMA InitTyped == Init => TypeOK /\ EventsOwned /\ OverAtBreakpoint
  <1> SUFFICES ASSUME Init PROVE TypeOK /\ EventsOwned /\ OverAtBreakpoint
    OBVIOUS
  <1>1. 0 \in Code
    BY NAddrAssumption DEF Code
  <1>2. ProcessTyped
    BY <1>1 DEF Init, ProcessTyped, Byte, NoDr, Where, Slots
  <1>3. BackendTyped
    <2>1. DOMAIN Empty = {} /\ Empty \in [DOMAIN Empty -> Byte] /\ Empty \in [DOMAIN Empty -> Slots]
      BY DEF Empty
    <2>2. NoCall \in Calls /\ [res |-> "none"] \in Replies
      BY DEF Calls, NoCall, Replies
    <2>3. 0 \in 0 .. HwSlots /\ BreakIn \in Thr
      BY HwSlotsAssumption DEF Thr
    <2> QED
      BY <2>1, <2>2, <2>3 DEF Init, BackendTyped
  <1>4. HistoryTyped
    BY <1>1 DEF Init, HistoryTyped, History
  <1>5. EventsOwned /\ OverAtBreakpoint
    BY DEF Init, EventsOwned, OverAtBreakpoint, NoCall
  <1> QED
    BY <1>2, <1>3, <1>4, <1>5 DEF TypeOK

\* The threads, with or without a debugger.
LEMMA ThreadsTyped ==
  ASSUME TypeOK, EventsOwned,
         (\E t \in Thread : Process(t) \/ Exits(t)) \/ BreakInRuns
  PROVE  TypeOK' /\ EventsOwned'
  <1> USE DEF Event, Kind, Thr
  <1>t. ProcessTyped /\ BackendTyped /\ HistoryTyped
    BY DEF TypeOK
  <1>1. ASSUME NEW t \in Thread, Traps(t) PROVE TypeOK' /\ EventsOwned'
    <2>1. UNCHANGED <<mem, brk, dr, traced, backend, text, due, hist>>
      BY <1>1 DEF Traps
    <2>2. rip[t] \in Code /\ After(rip[t]) \in Code
      BY <1>t, AfterIsCode DEF ProcessTyped
    <2>3. CASE traced
      <3>1. PICK b \in {tf[t], FALSE} : tf' = [tf EXCEPT ![t] = b]
        BY <1>1, <2>3 DEF Traps
      <3>2. /\ raised' = [raised EXCEPT ![t] = ev("Breakpoint", t, rip[t])]
            /\ rip' = [rip EXCEPT ![t] = After(@)] /\ UNCHANGED alive
        BY <1>1, <2>3 DEF Traps
      <3>3. ev("Breakpoint", t, rip[t]) \in Event
        BY <2>2 DEF ev, Where
      <3>4. ProcessTyped'
        BY <1>t, <2>1, <2>2, <3>1, <3>2, <3>3 DEF ProcessTyped
      <3>5. EventsOwned'
        BY <1>t, <3>2, ThreadAssumption DEF ProcessTyped, EventsOwned, ev
      <3> QED
        BY <1>t, <2>1, <3>4, <3>5 DEF TypeOK, BackendTyped, HistoryTyped, backend
    <2>4. CASE ~traced
      BY <1>1, <1>t, <2>1, <2>4 DEF Traps, TypeOK, ProcessTyped, BackendTyped, HistoryTyped,
                                    EventsOwned, backend
    <2> QED
      BY <2>3, <2>4
  <1>2. ASSUME NEW t \in Thread, Executes(t) PROVE TypeOK' /\ EventsOwned'
    <2>1. UNCHANGED <<mem, brk, dr, alive, traced, backend, text>>
      BY <1>2 DEF Executes
    <2>2. rip[t] \in Code /\ After(rip[t]) \in Code
      BY <1>t, AfterIsCode DEF ProcessTyped
    <2>3. /\ rip' = [rip EXCEPT ![t] = After(@)]
          /\ due' = [due EXCEPT ![t] = After(rip[t])]
          /\ hist' = [hist EXCEPT !.dropped = @ \ {t}]
      BY <1>2 DEF Executes
    <2>4. PICK e \in Event \cup {NoEvent} :
            /\ raised' = [raised EXCEPT ![t] = e]
            /\ e # NoEvent => e.tid = t
      <3>1. ev("SingleStep", t, After(rip[t])) \in Event
        BY <2>2 DEF ev, Where
      <3>2. \A k \in Incidents : ev(k, t, After(rip[t])) \in Event
        BY <2>2, IncidentsAssumption DEF ev, Where
      <3> QED
        BY <1>2, <3>1, <3>2 DEF Executes, ev
    <2>5. tf' \in [Thr -> BOOLEAN]
      <3>1. tf' = [tf EXCEPT ![t] = FALSE] \/ tf' = tf
        BY <1>2 DEF Executes
      <3> QED
        BY <1>t, <3>1 DEF ProcessTyped
    <2>6. ProcessTyped'
      BY <1>t, <2>1, <2>2, <2>3, <2>4, <2>5 DEF ProcessTyped
    <2>7. EventsOwned'
      BY <1>t, <2>4, ThreadAssumption DEF ProcessTyped, EventsOwned
    <2>8. HistoryTyped'
      BY <1>t, <2>1, <2>2, <2>3 DEF HistoryTyped, History
    <2> QED
      BY <1>t, <2>1, <2>6, <2>7, <2>8 DEF TypeOK, BackendTyped, backend
  <1>3. ASSUME NEW t \in Thread, Exits(t) PROVE TypeOK' /\ EventsOwned'
    <2>1. ev("ExitProcess", t, NoAddr) \in Event
      BY DEF ev, Where
    <2>2. ProcessTyped'
      BY <1>3, <1>t, <2>1 DEF Exits, ProcessTyped
    <2>3. EventsOwned'
      BY <1>3, <1>t, ThreadAssumption DEF Exits, EventsOwned, ev
    <2> QED
      BY <1>3, <1>t, <2>2, <2>3 DEF Exits, TypeOK, BackendTyped, HistoryTyped, backend
  <1>4. CASE BreakInRuns
    <2>1. /\ UNCHANGED <<mem, rip, alive, traced, backend, text, due, hist>>
          /\ tf' = [tf EXCEPT ![BreakIn] = FALSE]
          /\ dr' = dr \/ dr' = [dr EXCEPT ![BreakIn] = NoDr]
          /\ brk' \in {brk, "gone", "broke", "exiting"}
      BY <1>4 DEF BreakInRuns
    <2>2. \/ raised' = raised
          \/ \E k \in {"SingleStep", "Breakpoint", "Other"} :
               raised' = [raised EXCEPT ![BreakIn] = ev(k, BreakIn, NoAddr)]
      BY <1>4 DEF BreakInRuns
    <2>3. \A k \in {"SingleStep", "Breakpoint", "Other"} : ev(k, BreakIn, NoAddr) \in Event
      BY DEF ev, Where
    <2>4. NoDr \in [Slots -> Where]
      BY DEF NoDr, Slots, Where
    <2>5. ProcessTyped'
      BY <1>t, <2>1, <2>2, <2>3, <2>4 DEF ProcessTyped
    <2>6. EventsOwned'
      BY <1>t, <2>2 DEF EventsOwned, ProcessTyped, ev
    <2> QED
      BY <1>t, <2>1, <2>5, <2>6 DEF TypeOK, BackendTyped, HistoryTyped, backend
  <1> QED
    BY <1>1, <1>2, <1>3, <1>4 DEF Process

-----------------------------------------------------------------------------
\* The part of the invariant about types.
Typed == TypeOK /\ EventsOwned /\ OverAtBreakpoint

\* The replies and calls the actions form.
LEMMA ReplyTypes ==
  /\ Err \in Replies
  /\ [res |-> "ok"] \in Replies /\ [res |-> "err"] \in Replies /\ [res |-> "none"] \in Replies
  /\ \A k, e : e \in Event => Stop(translate_kind(k), e) \in Replies
  /\ \A e : e \in Event => Stop("Breakpoint", e) \in Replies /\ Stop("SingleStep", e) \in Replies
  BY DEF Err, Replies, Stop, translate_kind

\* The calls the backend may be inside are records of Calls.
LEMMA CallTypes ==
  /\ NoCall \in Calls /\ NoCall.op # "over"
  /\ \A op \in {"none", "drain", "stopping", "cont", "step"} : [op |-> op] \in Calls
  /\ \A e \in Event : [op |-> "over", event |-> e] \in Calls
  BY DEF NoCall, Calls

\* A write of a byte leaves code bytes, whatever becomes of it.
LEMMA WrittenTyped ==
  ASSUME NEW S, NEW m \in [Code -> S], NEW a \in Code, NEW b \in S, NEW o
  PROVE  Written(m, a, b, o) \in [Code -> S]
  BY DEF Written

\* A step in which wait_event returns an event.
LEMMA WaitStepTyped ==
  ASSUME Typed, NEW t \in Thr, NEW held \in BOOLEAN, wait_event(t, held),
         mem' \in [Code -> Byte], rip' \in [Thread -> Code], tf' \in [Thr -> BOOLEAN],
         UNCHANGED <<brk, dr, alive, traced, attached, sw, hw, next_hw_slot, text, due>>,
         call' \in Calls, reply' \in Replies, hist' \in History,
         call'.op = "over" => call'.event.at \in DOMAIN sw /\ call'.event.tid \in Thread
  PROVE  Typed'
  <1>t. ProcessTyped /\ BackendTyped /\ HistoryTyped /\ EventsOwned
    BY DEF Typed, TypeOK
  <1>1. /\ raised' = [raised EXCEPT ![t] = NoEvent]
        /\ raised' \in [Thr -> Event \cup {NoEvent}]
        /\ pending' \in Event \cup {NoEvent} /\ primary' = t
    BY <1>t, WaitTyped
  <1>2. ProcessTyped'
    BY <1>t, <1>1 DEF ProcessTyped
  <1>3. BackendTyped'
    BY <1>t, <1>1 DEF BackendTyped
  <1>4. HistoryTyped'
    BY <1>t DEF HistoryTyped
  <1>5. EventsOwned'
    BY <1>t, <1>1 DEF EventsOwned, ProcessTyped
  <1> QED
    BY <1>2, <1>3, <1>4, <1>5 DEF Typed, TypeOK, OverAtBreakpoint

\* A wait ends its call and leaves the code as it is.
LEMMA WaitReturnTyped ==
  ASSUME Typed, NEW t \in Thr, NEW held \in BOOLEAN, wait_event(t, held),
         UNCHANGED <<mem, rip, tf, brk, dr, alive, traced, attached, sw, hw, next_hw_slot,
                     text, due>>,
         call' = NoCall, reply' \in Replies,
         hist' = [hist EXCEPT !.dropped = DropHit(raised[t])]
  PROVE  Typed'
  <1>t. ProcessTyped /\ HistoryTyped
    BY DEF Typed, TypeOK
  <1>1. hist' \in History
    BY <1>t, DropHitTyped DEF HistoryTyped, History
  <1>2. mem' \in [Code -> Byte] /\ rip' \in [Thread -> Code] /\ tf' \in [Thr -> BOOLEAN]
    BY <1>t DEF ProcessTyped
  <1> QED
    BY <1>1, <1>2, CallTypes, WaitStepTyped

\* What translate_stop_and_rearm has done when it waits, or when a call failed.
LEMMA RearmTyped ==
  ASSUME Typed, NEW t \in Thr, rearm_begins(t) \/ rearm_fails(t)
  PROVE  Typed'
  <1>t. ProcessTyped /\ BackendTyped /\ HistoryTyped /\ EventsOwned
    BY DEF Typed, TypeOK
  <1> DEFINE e == raised[t]
  <1>1. PICK held \in BOOLEAN : wait_event(t, held)
    BY DEF rearm_begins, rearm_fails
  <1>2. e \in Event /\ e # NoEvent
    BY <1>t, <1>1, WaitTyped
  <1>3. /\ t \in Thread /\ e.at \in DOMAIN sw /\ e.at \in Code /\ e.tid = t
        /\ sw[e.at] \in Byte
    BY <1>t, <1>2, PlantedTyped DEF rearm_begins, rearm_fails, BackendTyped
  <1> HIDE DEF e
  <1>4. mem' \in [Code -> Byte] /\ rip' \in [Thread -> Code] /\ tf' \in [Thr -> BOOLEAN]
    <2>1. mem' = mem \/ mem' = [mem EXCEPT ![e.at] = sw[e.at]]
      BY DEF rearm_begins, rearm_fails, e
    <2>2. rip' = rip \/ rip' = [rip EXCEPT ![t] = e.at]
      BY DEF rearm_begins, rearm_fails, e
    <2>3. tf' = tf \/ tf' = [tf EXCEPT ![t] = TRUE] \/ tf' = [tf EXCEPT ![t] = tf[t]]
      BY DEF rearm_begins, rearm_fails, e
    <2> QED
      BY <1>t, <1>3, <2>1, <2>2, <2>3 DEF ProcessTyped
  <1>5. hist' \in History
    <2>1. \/ hist' = hist
          \/ \E bs \in {{}, {e.at}}, ts \in {{}, {t}} :
               hist' = [hist EXCEPT !.broken = @ \cup bs, !.dropped = @ \cup ts]
      BY DEF rearm_begins, rearm_fails, e
    <2>2. ASSUME NEW bs \in SUBSET Code, NEW ts \in SUBSET Thread
          PROVE  [hist EXCEPT !.broken = @ \cup bs, !.dropped = @ \cup ts] \in History
      BY <1>t DEF HistoryTyped, History
    <2>3. CASE hist' = hist
      BY <1>t, <2>3 DEF HistoryTyped
    <2>4. CASE hist' # hist
      <3>1. PICK bs \in {{}, {e.at}}, ts \in {{}, {t}} :
              hist' = [hist EXCEPT !.broken = @ \cup bs, !.dropped = @ \cup ts]
        BY <2>1, <2>4
      <3>2. bs \in SUBSET Code /\ ts \in SUBSET Thread
        BY <1>3
      <3> QED
        BY <2>2, <3>1, <3>2
    <2> QED
      BY <2>3, <2>4
  <1>6. CASE rearm_begins(t)
    <2>1. call' = [op |-> "over", event |-> e]
      BY <1>6 DEF rearm_begins, e
    <2>2. call' \in Calls /\ reply' \in Replies
      BY <1>t, <1>2, <1>6, <2>1, CallTypes DEF rearm_begins, BackendTyped
    <2>3. UNCHANGED <<brk, dr, alive, traced, attached, sw, hw, next_hw_slot, text, due>>
      BY <1>6 DEF rearm_begins
    <2> QED
      BY <1>1, <1>3, <1>4, <1>5, <2>1, <2>2, <2>3, WaitStepTyped
  <1>7. CASE rearm_fails(t)
    <2>1. call' = NoCall /\ reply' = Err
      BY <1>7 DEF rearm_fails, Return
    <2>2. UNCHANGED <<brk, dr, alive, traced, attached, sw, hw, next_hw_slot, text, due>>
      BY <1>7 DEF rearm_fails
    <2> QED
      BY <1>1, <1>4, <1>5, <2>1, <2>2, CallTypes, ReplyTypes, WaitStepTyped
  <1> QED
    BY <1>6, <1>7

\* The end of a step-over.
LEMMA RearmEndsTyped ==
  ASSUME Typed, NEW t \in Thr, rearm_ends(t)
  PROVE  Typed'
  <1>t. ProcessTyped /\ BackendTyped /\ HistoryTyped /\ EventsOwned
    BY DEF Typed, TypeOK
  <1> DEFINE a == call.event.at
  <1>1. wait_event(t, TRUE)
    BY DEF rearm_ends
  <1>2. a \in Code /\ call.event \in Event
    BY <1>t DEF rearm_ends, Typed, OverAtBreakpoint, BackendTyped, Calls
  <1>3. PICK o \in WriteOutcome :
          /\ mem' = Written(mem, a, "cc", o)
          /\ Return(IF o = "ok" THEN Stop("Breakpoint", call.event) ELSE Err)
          /\ hist' = [dropped |-> DropHit(raised[t]),
                      broken |-> hist.broken \cup (IF o = "failed" THEN {a} ELSE {}),
                      over |-> t = call.event.tid /\ raised[t].kind # "Breakpoint",
                      calls |-> hist.calls]
    BY DEF rearm_ends
  <1>4. mem' \in [Code -> Byte]
    BY <1>t, <1>2, <1>3, WrittenTyped DEF ProcessTyped, Byte
  <1>5. hist' \in History
    <2>1. DropHit(raised[t]) \in SUBSET Thread /\ hist.calls \in Nat /\ hist.broken \in SUBSET Code
      BY <1>t, DropHitTyped DEF HistoryTyped, History
    <2>2. hist.broken \cup (IF o = "failed" THEN {a} ELSE {}) \in SUBSET Code
      BY <1>2, <2>1
    <2>3. (t = call.event.tid /\ raised[t].kind # "Breakpoint") \in BOOLEAN
      OBVIOUS
    <2> QED
      BY <1>3, <2>1, <2>2, <2>3, Zenon DEF History
  <1>6. call' = NoCall /\ reply' \in Replies
    BY <1>2, <1>3, ReplyTypes DEF Return
  <1>7. /\ UNCHANGED <<brk, dr, alive, traced, attached, sw, hw, next_hw_slot, text, due>>
        /\ rip' \in [Thread -> Code] /\ tf' \in [Thr -> BOOLEAN]
    BY <1>t DEF rearm_ends, ProcessTyped
  <1> QED
    BY <1>1, <1>4, <1>5, <1>6, <1>7, CallTypes, WaitStepTyped

\* Every step of Waits.
LEMMA WaitsTyped == Typed /\ (Waits \/ wait_fails) => Typed'
  <1> SUFFICES ASSUME Typed, Waits \/ wait_fails PROVE Typed'
    OBVIOUS
  <1>t. ProcessTyped /\ BackendTyped /\ HistoryTyped /\ EventsOwned
    BY DEF Typed, TypeOK
  <1>1. ASSUME NEW t \in Thr, attach_drain(t) PROVE Typed'
    <2>1. PICK o \in Outcome("resume") :
            /\ wait_event(t, o # "ok")
            /\ IF o = "ok" THEN UNCHANGED <<call, reply>> ELSE Return(Err)
      BY <1>1 DEF attach_drain
    <2>2. hist' \in History
      BY <1>1, <1>t, DropHitTyped DEF attach_drain, HistoryTyped, History
    <2>3. call' \in Calls /\ reply' \in Replies /\ call'.op # "over"
      BY <1>1, <1>t, <2>1, ReplyTypes, CallTypes DEF attach_drain, BackendTyped, Return
    <2>4. /\ UNCHANGED <<brk, dr, alive, traced, attached, sw, hw, next_hw_slot, text, due>>
          /\ mem' \in [Code -> Byte] /\ rip' \in [Thread -> Code] /\ tf' \in [Thr -> BOOLEAN]
      BY <1>1, <1>t DEF attach_drain, ProcessTyped
    <2> DEFINE held == o # "ok"
    <2>5. held \in BOOLEAN /\ wait_event(t, held)
      BY <2>1
    <2> HIDE DEF held
    <2> QED
      BY <2>2, <2>3, <2>4, <2>5, WaitStepTyped
  <1>2. ASSUME attach_settle PROVE Typed'
    <2>1. UNCHANGED <<mem, rip, tf, dr, alive, traced, attached, pending, primary, sw, hw,
                      next_hw_slot, text, due, hist>>
      BY <1>2 DEF attach_settle
    <2>2. /\ brk' \in {brk, "created"}
          /\ raised' = raised \/ raised' = [raised EXCEPT ![BreakIn] = ev("Other", BreakIn, NoAddr)]
      BY <1>2 DEF attach_settle, DebugBreakProcess
    <2>3. call' \in Calls /\ reply' \in Replies /\ call'.op # "over"
      BY <1>2, <1>t, ReplyTypes, CallTypes DEF attach_settle, Return, BackendTyped
    <2>4. ev("Other", BreakIn, NoAddr) \in Event
      BY DEF ev, Where, Event, Kind, Thr
    <2>5. ProcessTyped' /\ EventsOwned'
      BY <1>t, <2>1, <2>2, <2>4 DEF ProcessTyped, EventsOwned, ev, Thr
    <2>6. BackendTyped' /\ HistoryTyped' /\ OverAtBreakpoint'
      BY <1>t, <2>1, <2>3 DEF BackendTyped, HistoryTyped, OverAtBreakpoint
    <2> QED
      BY <2>5, <2>6 DEF Typed, TypeOK
  <1>3. ASSUME NEW t \in Thr, attach_stops(t) PROVE Typed'
    BY <1>3, ReplyTypes, WaitReturnTyped DEF attach_stops, Return
  <1>4. ASSUME NEW t \in Thr, cont_stops(t) PROVE Typed'
    <2>1. wait_event(t, TRUE)
      BY <1>4 DEF cont_stops
    <2>2. raised[t] \in Event
      BY <1>t, <2>1, WaitTyped
    <2> QED
      BY <1>4, <2>1, <2>2, ReplyTypes, WaitReturnTyped DEF cont_stops, Return
  <1>5. ASSUME NEW t \in Thr, translate_stop_and_rearm(t) PROVE Typed'
    BY <1>5, RearmTyped, RearmEndsTyped DEF translate_stop_and_rearm
  <1>6. ASSUME NEW t \in Thr, step_stops(t) PROVE Typed'
    <2>1. wait_event(t, TRUE)
      BY <1>6 DEF step_stops
    <2>2. raised[t] \in Event
      BY <1>t, <2>1, WaitTyped
    <2> QED
      BY <1>6, <2>1, <2>2, ReplyTypes, WaitReturnTyped DEF step_stops, Return
  <1>7. ASSUME wait_fails PROVE Typed'
    <2>1. /\ UNCHANGED <<process, attached, pending, primary, sw, hw, next_hw_slot, text, due>>
          /\ call' = NoCall /\ reply' = Err
      BY <1>7 DEF wait_fails, Return
    <2>2. hist' \in History
      <3>1. CASE call.op = "over"
        <4>1. call.event.at \in Code
          BY <1>t, <3>1 DEF Typed, OverAtBreakpoint, BackendTyped
        <4>2. hist' = [hist EXCEPT !.broken = @ \cup {call.event.at}, !.over = FALSE]
          BY <1>7, <3>1 DEF wait_fails
        <4>3. ASSUME NEW x \in SUBSET Code
              PROVE  [hist EXCEPT !.broken = @ \cup x, !.over = FALSE] \in History
          BY <1>t DEF HistoryTyped, History
        <4> QED
          BY <4>1, <4>2, <4>3
      <3>2. CASE call.op # "over"
        BY <1>7, <1>t, <3>2 DEF wait_fails, HistoryTyped
      <3> QED
        BY <3>1, <3>2
    <2>3. ProcessTyped' /\ EventsOwned'
      BY <1>t, <2>1 DEF ProcessTyped, EventsOwned, process
    <2>4. BackendTyped'
      BY <1>t, <2>1, CallTypes, ReplyTypes DEF BackendTyped
    <2> QED
      BY <1>t, <2>1, <2>2, <2>3, <2>4, CallTypes
         DEF Typed, TypeOK, HistoryTyped, OverAtBreakpoint
  <1> QED
    BY <1>1, <1>2, <1>3, <1>4, <1>5, <1>6, <1>7 DEF Waits

-----------------------------------------------------------------------------
\* The calls of run control.
LEMMA RunControlTyped ==
  ASSUME Typed, attach \/ detach \/ cont \/ step \/ request_stop \/ refused
  PROVE  Typed'
  <1>t. ProcessTyped /\ BackendTyped /\ HistoryTyped /\ EventsOwned
    BY DEF Typed, TypeOK
  <1>1. CASE attach
    <2>1. ProcessTyped' /\ EventsOwned' /\ HistoryTyped'
      BY <1>1, <1>t DEF attach, ProcessTyped, EventsOwned, HistoryTyped
    <2>2. BackendTyped'
      BY <1>1, <1>t, CallTypes DEF attach, BackendTyped, Thr
    <2> QED
      BY <1>1, <2>1, <2>2 DEF attach, Typed, TypeOK, OverAtBreakpoint
  <1>2. CASE detach
    <2>1. PICK d \in SUBSET Thread : Counted(d, {})
      <3>1. { t \in Thread : raised[t] # NoEvent /\ raised[t].kind = "Breakpoint" } \in SUBSET Thread
        OBVIOUS
      <3>2. hist.dropped \in SUBSET Thread
        BY <1>t DEF HistoryTyped, History
      <3> QED
        BY <1>2, <3>1, <3>2 DEF detach
    <2>2. hist' \in History
      BY <1>t, <2>1, CountedTyped DEF HistoryTyped
    <2>3. /\ UNCHANGED <<mem, rip, tf, dr, primary, sw, hw, next_hw_slot, call, text, due>>
          /\ raised' = raised \/ raised' = [t \in Thr |-> NoEvent]
          /\ brk' \in {brk, "gone"} /\ alive' \in {alive, FALSE} /\ traced' \in {traced, FALSE}
          /\ pending' \in {pending, NoEvent} /\ attached' = FALSE
          /\ reply' \in {[res |-> "ok"], [res |-> "err"]}
      BY <1>2 DEF detach
    <2>4. ProcessTyped'
      BY <1>t, <2>3 DEF ProcessTyped
    <2>5. EventsOwned'
      BY <1>t, <2>3 DEF EventsOwned
    <2>6. BackendTyped'
      BY <1>t, <2>3, ReplyTypes DEF BackendTyped
    <2> QED
      BY <1>t, <2>2, <2>3, <2>4, <2>5, <2>6 DEF Typed, TypeOK, HistoryTyped, OverAtBreakpoint
  <1>3. CASE cont \/ step
    <2>1. /\ UNCHANGED <<mem, rip, raised, brk, dr, alive, traced, attached, primary, sw, hw,
                         next_hw_slot, text, due>>
          /\ pending' \in {pending, NoEvent}
          /\ call' \in {NoCall, [op |-> "cont"], [op |-> "step"]}
          /\ reply' \in {Err, [res |-> "none"]}
          /\ hist' = [hist EXCEPT !.over = FALSE]
      BY <1>3 DEF cont, step, process, Return
    <2>2. tf' \in [Thr -> BOOLEAN]
      <3>1. tf' = tf \/ (\E b \in {tf[pending.tid], TRUE} : tf' = [tf EXCEPT ![pending.tid] = b])
        BY <1>3 DEF cont, step, process
      <3>2. CASE tf' = tf
        BY <1>t, <3>2 DEF ProcessTyped
      <3>3. CASE tf' # tf
        <4>1. PICK b \in {tf[pending.tid], TRUE} : tf' = [tf EXCEPT ![pending.tid] = b]
          BY <3>1, <3>3
        <4>2. b = TRUE
          BY <1>t, <3>3, <4>1 DEF ProcessTyped
        <4> QED
          BY <1>t, <4>1, <4>2 DEF ProcessTyped
      <3> QED
        BY <3>2, <3>3
    <2>3. hist' \in History
      BY <1>t, <2>1 DEF HistoryTyped, History
    <2>4. ProcessTyped' /\ EventsOwned'
      BY <1>t, <2>1, <2>2 DEF ProcessTyped, EventsOwned
    <2>5. BackendTyped' /\ OverAtBreakpoint'
      BY <1>t, <2>1, CallTypes, ReplyTypes DEF BackendTyped, OverAtBreakpoint
    <2> QED
      BY <1>t, <2>1, <2>3, <2>4, <2>5 DEF Typed, TypeOK, HistoryTyped
  <1>4. CASE request_stop
    <2>1. hist' \in History
      <3>1. hist.dropped \in SUBSET Thread
        BY <1>t DEF HistoryTyped, History
      <3> QED
        BY <1>4, <1>t, <3>1, CountedTyped DEF request_stop, HistoryTyped
    <2>2. /\ brk' \in {brk, "created"}
          /\ raised' = raised \/ raised' = [raised EXCEPT ![BreakIn] = ev("Other", BreakIn, NoAddr)]
          /\ UNCHANGED <<mem, rip, tf, dr, alive, traced, backend, text, due>>
      BY <1>4 DEF request_stop, DebugBreakProcess
    <2>3. ev("Other", BreakIn, NoAddr) \in Event
      BY DEF ev, Where, Event, Kind, Thr
    <2>4. ProcessTyped' /\ EventsOwned'
      BY <1>t, <2>2, <2>3 DEF ProcessTyped, EventsOwned, ev, Thr
    <2>5. BackendTyped' /\ OverAtBreakpoint'
      BY <1>t, <2>2 DEF Typed, BackendTyped, OverAtBreakpoint, backend
    <2> QED
      BY <1>t, <2>1, <2>2, <2>4, <2>5 DEF Typed, TypeOK, HistoryTyped
  <1>5. CASE refused
    <2>1. BackendTyped'
      BY <1>5, <1>t, ReplyTypes DEF refused, BackendTyped
    <2> QED
      BY <1>5, <1>t, <2>1 DEF refused, Typed, TypeOK, ProcessTyped, HistoryTyped, EventsOwned,
                              OverAtBreakpoint, process
  <1> QED
    BY <1>1, <1>2, <1>3, <1>4, <1>5

\* Setting or clearing a debug register.
LEMMA RegisterWritten ==
  ASSUME NEW d \in [Thr -> [Slots -> Where]], NEW t \in Thr, NEW s \in Slots, NEW a \in Where
  PROVE  [d EXCEPT ![t][s] = a] \in [Thr -> [Slots -> Where]]
  <1>1. [d[t] EXCEPT ![s] = a] \in [Slots -> Where]
    OBVIOUS
  <1> QED
    BY <1>1

\* The breakpoint calls, and the writes a caller makes.
LEMMA CallsTyped ==
  ASSUME Typed, NEW a \in Code,
         \/ set_breakpoint_sw(a) \/ remove_breakpoint_sw(a)
         \/ set_breakpoint_hw(a) \/ remove_breakpoint_hw(a)
         \/ write_memory(a, "new") \/ write_registers(a)
  PROVE  Typed'
  <1>t. ProcessTyped /\ BackendTyped /\ HistoryTyped /\ EventsOwned
    BY DEF Typed, TypeOK
  <1>i. ASSUME Ready, UNCHANGED call PROVE OverAtBreakpoint'
    BY <1>i DEF Ready, Idle, NoCall, OverAtBreakpoint
  <1>h. hist.dropped \in SUBSET Thread /\ hist.dropped \ {primary} \in SUBSET Thread
    BY <1>t DEF HistoryTyped, History
  <1>c. ASSUME NEW d \in SUBSET Thread, NEW b \in SUBSET {a}, Counted(d, b)
        PROVE  hist' \in History
    BY <1>t, <1>c, CountedTyped DEF HistoryTyped
  <1>1. CASE set_breakpoint_sw(a) \/ remove_breakpoint_sw(a)
    <2>1. /\ UNCHANGED <<others, hw, next_hw_slot, text>>
          /\ reply' \in {[res |-> "ok"], [res |-> "err"]}
      BY <1>1 DEF set_breakpoint_sw, remove_breakpoint_sw
    <2>2. PICK b \in SUBSET {a} : Counted(hist.dropped, b)
      BY <1>1 DEF set_breakpoint_sw, remove_breakpoint_sw
    <2>3. hist' \in History
      BY <1>h, <1>c, <2>2
    <2>4. /\ \E o \in WriteOutcome, c \in Byte : mem' = Written(mem, a, c, o)
          /\ DOMAIN sw' \subseteq Code /\ sw' \in [DOMAIN sw' -> Byte]
      <3>1. CASE set_breakpoint_sw(a)
        BY <1>t, <3>1 DEF set_breakpoint_sw, ProcessTyped, BackendTyped, Byte
      <3>2. CASE remove_breakpoint_sw(a)
        BY <1>t, <3>2 DEF remove_breakpoint_sw, BackendTyped
      <3> QED
        BY <1>1, <3>1, <3>2
    <2>5. mem' \in [Code -> Byte]
      <3>1. PICK o \in WriteOutcome, c \in Byte : mem' = Written(mem, a, c, o)
        BY <2>4
      <3> QED
        BY <1>t, <3>1, WrittenTyped DEF ProcessTyped
    <2>6. ProcessTyped' /\ EventsOwned'
      BY <1>t, <2>1, <2>5 DEF ProcessTyped, EventsOwned, others
    <2>7. BackendTyped'
      BY <1>t, <2>1, <2>4, ReplyTypes DEF BackendTyped, others
    <2> QED
      BY <1>t, <1>i, <1>1, <2>1, <2>3, <2>6, <2>7
         DEF Typed, TypeOK, HistoryTyped, others, set_breakpoint_sw, remove_breakpoint_sw
  <1>2. CASE set_breakpoint_hw(a) \/ remove_breakpoint_hw(a)
    <2>1. /\ UNCHANGED <<mem, rip, tf, raised, brk, alive, traced, attached, pending, primary,
                         sw, call, text, due>>
          /\ Counted(hist.dropped, {}) /\ Ready
          /\ reply' \in {[res |-> "ok"], Err}
      BY <1>2 DEF set_breakpoint_hw, remove_breakpoint_hw
    <2>2. hist' \in History
      BY <1>h, <1>c, <2>1
    <2>3. /\ dr' \in [Thr -> [Slots -> Where]] /\ next_hw_slot' \in 0 .. HwSlots
          /\ DOMAIN hw' \subseteq Code /\ hw' \in [DOMAIN hw' -> Slots]
      <3>1. CASE set_breakpoint_hw(a)
        <4>1. next_hw_slot \in Slots /\ next_hw_slot' \in 0 .. HwSlots
          BY <1>t, <3>1, HwSlotsAssumption DEF set_breakpoint_hw, BackendTyped, Slots
        <4>2. dr' = dr \/ dr' = [dr EXCEPT ![primary][next_hw_slot] = a]
          BY <3>1 DEF set_breakpoint_hw
        <4>3. dr \in [Thr -> [Slots -> Where]] /\ primary \in Thr /\ a \in Where /\ NoAddr \in Where
          BY <1>t DEF ProcessTyped, BackendTyped, Where
        <4>4. [dr EXCEPT ![primary][next_hw_slot] = a] \in [Thr -> [Slots -> Where]]
          BY <4>1, <4>3, RegisterWritten
        <4>5. dr' \in [Thr -> [Slots -> Where]]
          BY <4>2, <4>3, <4>4
        <4> QED
          BY <1>t, <3>1, <4>1, <4>5 DEF set_breakpoint_hw, BackendTyped
      <3>2. CASE remove_breakpoint_hw(a)
        <4>1. hw[a] \in Slots /\ next_hw_slot' = next_hw_slot
          BY <1>t, <3>2 DEF remove_breakpoint_hw, BackendTyped
        <4>2. dr' = dr \/ dr' = [dr EXCEPT ![primary][hw[a]] = NoAddr]
          BY <3>2 DEF remove_breakpoint_hw
        <4>3. dr \in [Thr -> [Slots -> Where]] /\ primary \in Thr /\ a \in Where /\ NoAddr \in Where
          BY <1>t DEF ProcessTyped, BackendTyped, Where
        <4>4. [dr EXCEPT ![primary][hw[a]] = NoAddr] \in [Thr -> [Slots -> Where]]
          BY <4>1, <4>3, RegisterWritten
        <4>5. dr' \in [Thr -> [Slots -> Where]]
          BY <4>2, <4>3, <4>4
        <4> QED
          BY <1>t, <3>2, <4>1, <4>5 DEF remove_breakpoint_hw, BackendTyped
      <3> QED
        BY <1>2, <3>1, <3>2
    <2>4. ProcessTyped' /\ EventsOwned'
      BY <1>t, <2>1, <2>3 DEF ProcessTyped, EventsOwned
    <2>5. BackendTyped'
      BY <1>t, <2>1, <2>3, ReplyTypes DEF BackendTyped
    <2> QED
      BY <1>t, <1>i, <2>1, <2>2, <2>4, <2>5 DEF Typed, TypeOK, HistoryTyped
  <1>3. CASE write_memory(a, "new")
    <2>1. PICK o \in WriteOutcome :
            /\ mem' = Written(mem, a, "new", o)
            /\ text' = Written(text, a, "new", o)
            /\ reply' = [res |-> IF o = "ok" THEN "ok" ELSE "err"]
            /\ Counted(hist.dropped, IF o # "failed" /\ a \in DOMAIN sw THEN {a} ELSE {})
      BY <1>3 DEF write_memory
    <2>2. (IF o # "failed" /\ a \in DOMAIN sw THEN {a} ELSE {}) \in SUBSET {a}
      OBVIOUS
    <2>3. hist' \in History
      BY <1>h, <1>c, <2>1, <2>2
    <2>4. mem' \in [Code -> Byte] /\ text' \in [Code -> {"op", "new"}]
      BY <1>t, <2>1, WrittenTyped DEF ProcessTyped, HistoryTyped, Byte
    <2>5. UNCHANGED <<others, sw, hw, next_hw_slot>> /\ Ready
      BY <1>3 DEF write_memory
    <2>6. reply' \in Replies
      BY <2>1, ReplyTypes
    <2>7. ProcessTyped' /\ EventsOwned' /\ BackendTyped'
      BY <1>t, <2>4, <2>5, <2>6 DEF ProcessTyped, EventsOwned, BackendTyped, others
    <2> QED
      BY <1>t, <1>i, <2>3, <2>4, <2>5, <2>7 DEF Typed, TypeOK, HistoryTyped, others
  <1>4. CASE write_registers(a)
    <2>1. /\ rip' = [rip EXCEPT ![primary] = a] /\ due' = [due EXCEPT ![primary] = a]
          /\ reply' = [res |-> "ok"] /\ Counted(hist.dropped \ {primary}, {}) /\ Ready
          /\ UNCHANGED <<mem, tf, raised, brk, dr, alive, traced, attached, pending, primary,
                         sw, hw, next_hw_slot, call, text>>
      BY <1>4 DEF write_registers
    <2>2. hist' \in History
      BY <1>h, <1>c, <2>1
    <2>3. ProcessTyped' /\ EventsOwned'
      BY <1>t, <2>1 DEF ProcessTyped, EventsOwned
    <2>4. BackendTyped'
      BY <1>t, <2>1, ReplyTypes DEF BackendTyped
    <2>5. HistoryTyped'
      BY <1>t, <2>1, <2>2 DEF HistoryTyped
    <2> QED
      BY <1>i, <2>1, <2>3, <2>4, <2>5 DEF Typed, TypeOK
  <1> QED
    BY <1>1, <1>2, <1>3, <1>4

\* Every step keeps the types, the owners of the events and the place of the step-over.
LEMMA NextTyped == Typed /\ [Next]_vars => Typed'
  <1> SUFFICES ASSUME Typed, [Next]_vars PROVE Typed'
    OBVIOUS
  <1>1. CASE (\E t \in Thread : Process(t) \/ Exits(t)) \/ BreakInRuns
    <2>1. TypeOK' /\ EventsOwned'
      BY <1>1, ThreadsTyped DEF Typed
    <2>2. UNCHANGED <<call, sw>>
      BY <1>1 DEF Process, Traps, Executes, Exits, BreakInRuns, backend
    <2> QED
      BY <2>1, <2>2 DEF Typed, OverAtBreakpoint
  <1>2. CASE Waits \/ wait_fails
    BY <1>2, WaitsTyped
  <1>3. CASE attach \/ detach \/ cont \/ step \/ request_stop \/ refused
    BY <1>3, RunControlTyped
  <1>4. ASSUME NEW a \in Code,
               \/ set_breakpoint_sw(a) \/ remove_breakpoint_sw(a)
               \/ set_breakpoint_hw(a) \/ remove_breakpoint_hw(a)
               \/ write_memory(a, "new") \/ write_registers(a)
        PROVE  Typed'
    BY <1>4, CallsTyped
  <1>5. CASE UNCHANGED vars
    BY <1>5 DEF Typed, TypeOK, ProcessTyped, BackendTyped, HistoryTyped, EventsOwned,
                OverAtBreakpoint, vars, process, backend
  <1> QED
    BY <1>1, <1>2, <1>3, <1>4, <1>5 DEF Next

(***************************************************************************)
(* The backend's state, its maps and the call in progress have their types *)
(* at all times, whichever OS calls fail.                                  *)
(***************************************************************************)
THEOREM NativeTyped == Spec => []TypeOK
  <1>1. Init => Typed
    BY InitTyped DEF Typed
  <1>2. Typed => TypeOK
    BY DEF Typed
  <1> QED
    BY <1>1, <1>2, NextTyped, PTL DEF Spec

-----------------------------------------------------------------------------
(***************************************************************************)
(* Software breakpoints.  While a step-over has the int3 lifted the        *)
(* program's own byte is there: that is what makes Armed and CleanText     *)
(* inductive, since the step-over exempts its address from Armed.          *)
(***************************************************************************)
LiftedByte ==
  call.op = "over" /\ call.event.at \notin hist.broken =>
    mem[call.event.at] = sw[call.event.at]

BreakpointInv == BreakpointsSound /\ LiftedByte

\* A step that touches neither the code nor the table, and abandons a step-over
\* only by counting its address as broken.
LEMMA CodeUntouched ==
  ASSUME BreakpointInv, UNCHANGED <<mem, sw, text>>, hist.broken \subseteq hist'.broken,
         call'.op = "over" => call' = call,
         call.op = "over" /\ call'.op # "over" => call.event.at \in hist'.broken
  PROVE  BreakpointInv'
  BY DEF BreakpointInv, BreakpointsSound, Armed, CleanText, LiftedByte, Over

\* The steps of the threads and the waits that CodeUntouched covers.
LEMMA BrokenKept ==
  ASSUME Typed
  PROVE  /\ \A t \in Thread : Process(t) \/ Exits(t) => hist'.broken = hist.broken
         /\ BreakInRuns => hist'.broken = hist.broken
         /\ \A t \in Thr : attach_drain(t) \/ attach_stops(t) \/ cont_stops(t) \/ step_stops(t)
                             => hist'.broken = hist.broken
         /\ attach_settle \/ attach \/ cont \/ step \/ request_stop \/ refused \/ detach
              => hist'.broken = hist.broken
         /\ \A a \in Code : set_breakpoint_hw(a) \/ remove_breakpoint_hw(a) \/ write_registers(a)
                              => hist'.broken = hist.broken
  <1>t. hist \in History
    BY DEF Typed, TypeOK, HistoryTyped
  <1>c. \A d : Counted(d, {}) => hist'.broken = hist.broken
    BY <1>t DEF Counted, History
  <1>1. \A t \in Thread : Process(t) \/ Exits(t) => hist'.broken = hist.broken
    BY <1>t DEF Process, Traps, Executes, Exits, History
  <1>2. BreakInRuns => hist'.broken = hist.broken
    BY DEF BreakInRuns
  <1>3. \A t \in Thr : attach_drain(t) \/ attach_stops(t) \/ cont_stops(t) \/ step_stops(t)
                         => hist'.broken = hist.broken
    BY <1>t DEF attach_drain, attach_stops, cont_stops, step_stops, History
  <1>4. attach_settle \/ attach \/ cont \/ step \/ request_stop \/ refused \/ detach
          => hist'.broken = hist.broken
    BY <1>t, <1>c DEF attach_settle, attach, cont, step, request_stop, refused, detach, History
  <1>5. \A a \in Code : set_breakpoint_hw(a) \/ remove_breakpoint_hw(a) \/ write_registers(a)
                          => hist'.broken = hist.broken
    BY <1>c DEF set_breakpoint_hw, remove_breakpoint_hw, write_registers
  <1> QED
    BY <1>1, <1>2, <1>3, <1>4, <1>5

\* Every step keeps the breakpoints armed and the text clean, partial failures included.
LEMMA BreakpointStep == Typed /\ BreakpointInv /\ [Next]_vars => BreakpointInv'
  <1> SUFFICES ASSUME Typed, BreakpointInv, [Next]_vars PROVE BreakpointInv'
    OBVIOUS
  <1>t. ProcessTyped /\ BackendTyped /\ HistoryTyped /\ hist \in History
    BY DEF Typed, TypeOK, HistoryTyped
  <1>1. CASE (\E t \in Thread : Process(t) \/ Exits(t)) \/ BreakInRuns
    <2>1. UNCHANGED <<mem, sw, text, call>>
      BY <1>1 DEF Process, Traps, Executes, Exits, BreakInRuns, backend
    <2>2. hist'.broken = hist.broken
      BY <1>1, BrokenKept
    <2> QED
      BY <2>1, <2>2, CodeUntouched
  <1>2. ASSUME NEW t \in Thr,
               attach_drain(t) \/ attach_stops(t) \/ cont_stops(t) \/ step_stops(t)
        PROVE  BreakpointInv'
    <2>1. UNCHANGED <<mem, sw, text>> /\ call.op # "over" /\ (call' = call \/ call' = NoCall)
      BY <1>2 DEF attach_drain, attach_stops, cont_stops, step_stops, Return
    <2>2. hist'.broken = hist.broken
      BY <1>2, BrokenKept
    <2> QED
      BY <2>1, <2>2, CodeUntouched, CallTypes
  <1>3. CASE attach_settle \/ attach \/ cont \/ step \/ request_stop \/ refused \/ detach
    <2>1. UNCHANGED <<mem, sw, text>>
      BY <1>3 DEF attach_settle, attach, cont, step, request_stop, refused, detach, process, backend
    <2>2. call' = call \/ (call.op # "over" /\ call'.op # "over")
      <3>1. CASE attach_settle
        BY <3>1 DEF attach_settle, Return, NoCall
      <3>2. CASE attach
        BY <3>2 DEF attach, Idle, NoCall
      <3>3. CASE cont \/ step
        BY <3>3 DEF cont, step, Stopped, Idle, Return, NoCall
      <3>4. CASE request_stop \/ refused \/ detach
        BY <3>4 DEF request_stop, refused, detach, backend
      <3> QED
        BY <1>3, <3>1, <3>2, <3>3, <3>4
    <2>3. hist'.broken = hist.broken
      BY <1>3, BrokenKept
    <2> QED
      BY <2>1, <2>2, <2>3, CodeUntouched
  <1>4. CASE wait_fails
    <2>1. UNCHANGED <<mem, sw, text>> /\ call' = NoCall
      BY <1>4 DEF wait_fails, process, Return
    <2>2. /\ hist.broken \subseteq hist'.broken
          /\ call.op = "over" => call.event.at \in hist'.broken
      BY <1>4, <1>t DEF wait_fails, History
    <2> QED
      BY <2>1, <2>2, CodeUntouched, CallTypes
  <1>5. ASSUME NEW t \in Thr, call.op = "cont", rearm_begins(t) PROVE BreakpointInv'
    <2> DEFINE e == raised[t]
    <2>1. raised[t] # NoEvent /\ Planted(e)
      BY <1>5 DEF rearm_begins, wait_event
    <2>2. e.at \in DOMAIN sw /\ e.at \in Code
      BY <1>t, <2>1, PlantedTyped DEF Typed
    <2> HIDE DEF e
    <2>3. /\ mem' = [mem EXCEPT ![e.at] = sw[e.at]]
          /\ call' = [op |-> "over", event |-> e]
          /\ UNCHANGED <<sw, text, hist>>
      BY <1>5 DEF rearm_begins, e
    <2>4. mem'[e.at] = sw[e.at] /\ \A a \in Code : a # e.at => mem'[a] = mem[a]
      BY <1>t, <2>2, <2>3 DEF ProcessTyped
    <2>5. call'.op = "over" /\ call'.event.at = e.at
      BY <2>3
    <2>6. \A a \in DOMAIN sw \ hist.broken : a # e.at => mem[a] = "cc"
      BY <1>5 DEF BreakpointInv, BreakpointsSound, Armed, Over
    <2>7. Armed'
      BY <1>t, <2>3, <2>4, <2>5, <2>6 DEF Armed, Over, BackendTyped
    <2>8. CleanText'
      BY <2>2, <2>3, <2>4 DEF BreakpointInv, BreakpointsSound, CleanText
    <2>9. LiftedByte'
      BY <2>3, <2>4, <2>5 DEF LiftedByte
    <2> QED
      BY <2>7, <2>8, <2>9 DEF BreakpointInv, BreakpointsSound
  <1>6. ASSUME NEW t \in Thr, call.op = "cont", rearm_fails(t) PROVE BreakpointInv'
    <2> DEFINE e == raised[t]
    <2>1. raised[t] # NoEvent /\ Planted(e)
      BY <1>6 DEF rearm_fails, wait_event
    <2>2. e.at \in DOMAIN sw /\ e.at \in Code
      BY <1>t, <2>1, PlantedTyped DEF Typed
    <2> HIDE DEF e
    <2>3. UNCHANGED <<sw, text>> /\ call' = NoCall
      BY <1>6 DEF rearm_fails, Return
    <2>4. /\ hist.broken \subseteq hist'.broken
          /\ mem' = mem \/ (mem' = [mem EXCEPT ![e.at] = sw[e.at]] /\ e.at \in hist'.broken)
      <3>1. \/ /\ mem' = mem
               /\ \E ts : hist' = [hist EXCEPT !.broken = @ \cup {}, !.dropped = @ \cup ts]
            \/ /\ mem' = [mem EXCEPT ![e.at] = sw[e.at]]
               /\ \E ts : hist' = [hist EXCEPT !.broken = @ \cup {e.at}, !.dropped = @ \cup ts]
        BY <1>6 DEF rearm_fails, e
      <3>2. \A bs, ts : hist' = [hist EXCEPT !.broken = @ \cup bs, !.dropped = @ \cup ts]
                          => hist'.broken = hist.broken \cup bs
        BY <1>t DEF History
      <3>3. CASE mem' = mem /\ \E ts : hist' = [hist EXCEPT !.broken = @ \cup {}, !.dropped = @ \cup ts]
        BY <3>2, <3>3
      <3>4. CASE /\ mem' = [mem EXCEPT ![e.at] = sw[e.at]]
                 /\ \E ts : hist' = [hist EXCEPT !.broken = @ \cup {e.at}, !.dropped = @ \cup ts]
        <4>1. hist'.broken = hist.broken \cup {e.at}
          BY <3>2, <3>4
        <4> QED
          BY <3>4, <4>1
      <3> QED
        BY <3>1, <3>3, <3>4
    <2>5. \A a \in Code \ hist'.broken : mem'[a] = mem[a] /\ a \notin hist.broken
      BY <1>t, <2>2, <2>4 DEF ProcessTyped
    <2>6. \A a \in DOMAIN sw \ hist.broken : mem[a] = "cc"
      BY <1>6 DEF BreakpointInv, BreakpointsSound, Armed, Over
    <2>7. Armed'
      BY <1>t, <2>3, <2>5, <2>6 DEF Armed, BackendTyped
    <2>8. CleanText'
      BY <2>3, <2>5 DEF BreakpointInv, BreakpointsSound, CleanText
    <2>9. LiftedByte'
      BY <2>3, CallTypes DEF LiftedByte
    <2> QED
      BY <2>7, <2>8, <2>9 DEF BreakpointInv, BreakpointsSound
  <1>7. ASSUME NEW t \in Thr, rearm_ends(t) PROVE BreakpointInv'
    <2> DEFINE b == call.event.at
    <2>1. b \in DOMAIN sw /\ b \in Code
      BY <1>7, <1>t DEF rearm_ends, Typed, OverAtBreakpoint, BackendTyped
    <2>2. PICK o \in WriteOutcome :
            /\ mem' = Written(mem, b, "cc", o)
            /\ hist' = [dropped |-> DropHit(raised[t]),
                        broken |-> hist.broken \cup (IF o = "failed" THEN {b} ELSE {}),
                        over |-> t = call.event.tid /\ raised[t].kind # "Breakpoint",
                        calls |-> hist.calls]
      BY <1>7 DEF rearm_ends
    <2>3. hist'.broken = hist.broken \cup (IF o = "failed" THEN {b} ELSE {})
      BY <2>2
    <2>4. UNCHANGED <<sw, text>> /\ call' = NoCall
      BY <1>7 DEF rearm_ends, Return
    <2>5. \A a \in DOMAIN sw \ hist.broken : a # b => mem[a] = "cc"
      BY <1>7 DEF BreakpointInv, BreakpointsSound, Armed, Over
    <2> HIDE DEF b
    <2>6. /\ \A a \in Code : a # b => mem'[a] = mem[a]
          /\ b \notin hist'.broken => mem'[b] = "cc"
      BY <1>t, <2>1, <2>2, <2>3 DEF Written, ProcessTyped
    <2>7. Armed'
      BY <1>t, <2>3, <2>4, <2>5, <2>6 DEF Armed, BackendTyped
    <2>8. CleanText'
      BY <2>1, <2>3, <2>4, <2>6 DEF BreakpointInv, BreakpointsSound, CleanText
    <2>9. LiftedByte'
      BY <2>4, CallTypes DEF LiftedByte
    <2> QED
      BY <2>7, <2>8, <2>9 DEF BreakpointInv, BreakpointsSound
  <1>i. ASSUME Ready, UNCHANGED call
        PROVE  /\ LiftedByte' /\ \A a : ~Over(a)'
               /\ \A a \in DOMAIN sw \ hist.broken : mem[a] = "cc"
    BY <1>i, CallTypes DEF Ready, Idle, LiftedByte, Over, BreakpointInv, BreakpointsSound, Armed
  <1>8. ASSUME NEW a \in Code, set_breakpoint_sw(a) PROVE BreakpointInv'
    <2>1. PICK o \in WriteOutcome :
            /\ sw' = [x \in DOMAIN sw \cup {a} |-> IF x = a THEN mem[a] ELSE sw[x]]
            /\ mem' = Written(mem, a, "cc", o)
            /\ Counted(hist.dropped, IF o = "failed" \/ mem[a] = "cc" THEN {a} ELSE {})
      BY <1>8 DEF set_breakpoint_sw
    <2>2. Ready /\ UNCHANGED <<call, text>>
      BY <1>8 DEF set_breakpoint_sw, others
    <2>3. hist'.broken = hist.broken \cup (IF o = "failed" \/ mem[a] = "cc" THEN {a} ELSE {})
      BY <2>1, <1>t DEF Counted, History
    <2>4. /\ \A x \in Code : x # a => mem'[x] = mem[x]
          /\ a \notin hist'.broken => mem'[a] = "cc" /\ mem[a] # "cc"
      BY <1>t, <2>1, <2>3 DEF Written, ProcessTyped
    <2>5. /\ DOMAIN sw' = DOMAIN sw \cup {a} /\ sw'[a] = mem[a]
          /\ \A x \in DOMAIN sw : x # a => sw'[x] = sw[x]
      BY <2>1
    <2>6. Armed'
      BY <1>t, <1>i, <2>2, <2>3, <2>4, <2>5 DEF Armed, BackendTyped
    <2>7. a \notin hist'.broken => a \notin DOMAIN sw /\ mem[a] = text[a]
      BY <1>i, <2>2, <2>3, <2>4 DEF BreakpointInv, BreakpointsSound, CleanText
    <2>8. CleanText'
      BY <2>2, <2>3, <2>4, <2>5, <2>7 DEF BreakpointInv, BreakpointsSound, CleanText
    <2> QED
      BY <1>i, <2>2, <2>6, <2>8 DEF BreakpointInv, BreakpointsSound
  <1>9. ASSUME NEW a \in Code, remove_breakpoint_sw(a) PROVE BreakpointInv'
    <2>1. PICK o \in WriteOutcome :
            /\ mem' = Written(mem, a, sw[a], o)
            /\ sw' = IF o = "ok" THEN [x \in DOMAIN sw \ {a} |-> sw[x]] ELSE sw
            /\ Counted(hist.dropped, IF o = "unflushed" THEN {a} ELSE {})
      BY <1>9 DEF remove_breakpoint_sw
    <2>2. Ready /\ UNCHANGED <<call, text>> /\ a \in DOMAIN sw
      BY <1>9 DEF remove_breakpoint_sw, others
    <2>3. hist'.broken = hist.broken \cup (IF o = "unflushed" THEN {a} ELSE {})
      BY <2>1, <1>t DEF Counted, History
    <2>4. /\ \A x \in Code : x # a => mem'[x] = mem[x]
          /\ a \notin hist'.broken => mem'[a] = IF o = "ok" THEN sw[a] ELSE mem[a]
      <3>1. o \in {"ok", "failed", "unflushed"}
        BY DEF WriteOutcome
      <3> QED
        BY <1>t, <2>1, <2>3, <3>1 DEF Written, ProcessTyped
    <2>5. /\ DOMAIN sw' = IF o = "ok" THEN DOMAIN sw \ {a} ELSE DOMAIN sw
          /\ \A x \in DOMAIN sw' : sw'[x] = sw[x]
      BY <2>1
    <2>6. Armed'
      BY <1>t, <1>i, <2>2, <2>3, <2>4, <2>5 DEF Armed, BackendTyped
    <2>7. CleanText'
      BY <2>2, <2>3, <2>4, <2>5 DEF BreakpointInv, BreakpointsSound, CleanText
    <2> QED
      BY <1>i, <2>2, <2>6, <2>7 DEF BreakpointInv, BreakpointsSound
  <1>10. ASSUME NEW a \in Code, write_memory(a, "new") PROVE BreakpointInv'
    <2>1. PICK o \in WriteOutcome :
            /\ mem' = Written(mem, a, "new", o)
            /\ text' = Written(text, a, "new", o)
            /\ Counted(hist.dropped, IF o # "failed" /\ a \in DOMAIN sw THEN {a} ELSE {})
      BY <1>10 DEF write_memory
    <2>2. Ready /\ UNCHANGED <<call, sw>>
      BY <1>10 DEF write_memory, others
    <2>3. hist'.broken = hist.broken \cup (IF o # "failed" /\ a \in DOMAIN sw THEN {a} ELSE {})
      BY <2>1, <1>t DEF Counted, History
    <2>4. \A x \in Code : (x # a \/ o = "failed") => mem'[x] = mem[x] /\ text'[x] = text[x]
      BY <1>t, <2>1 DEF Written, ProcessTyped, HistoryTyped
    <2>5. o # "failed" => mem'[a] = text'[a]
      BY <1>t, <2>1 DEF Written, ProcessTyped, HistoryTyped
    <2>6. Armed'
      BY <1>t, <1>i, <2>2, <2>3, <2>4 DEF Armed, BackendTyped
    <2>7. CleanText'
      BY <2>2, <2>3, <2>4, <2>5 DEF BreakpointInv, BreakpointsSound, CleanText
    <2> QED
      BY <1>i, <2>2, <2>6, <2>7 DEF BreakpointInv, BreakpointsSound
  <1>11. ASSUME NEW a \in Code,
                set_breakpoint_hw(a) \/ remove_breakpoint_hw(a) \/ write_registers(a)
         PROVE  BreakpointInv'
    <2>1. UNCHANGED <<mem, sw, text, call>>
      BY <1>11 DEF set_breakpoint_hw, remove_breakpoint_hw, write_registers
    <2>2. hist'.broken = hist.broken
      BY <1>11, BrokenKept
    <2> QED
      BY <2>1, <2>2, CodeUntouched
  <1>12. CASE UNCHANGED vars
    BY <1>12, CodeUntouched DEF vars, process, backend
  <1> QED
    BY <1>1, <1>2, <1>3, <1>4, <1>5, <1>6, <1>7, <1>8, <1>9, <1>10, <1>11, <1>12
       DEF Next, Waits, translate_stop_and_rearm

(***************************************************************************)
(* A planted breakpoint is live, what the table remembers is the program's *)
(* byte, and an address without a breakpoint holds the program's byte,     *)
(* except where the backend is known to have lost track: whichever OS      *)
(* calls fail and however the threads, hits, plants and removals mix.      *)
(* (set_breakpoint, translate_stop_and_rearm, remove_breakpoint)           *)
(***************************************************************************)
THEOREM NativeBreakpointsSound == Spec => []BreakpointsSound
  <1>1. Init => Typed
    BY InitTyped DEF Typed
  <1>2. Init => BreakpointInv
    BY CallTypes DEF Init, Empty, BreakpointInv, BreakpointsSound, Armed, CleanText, LiftedByte
  <1>3. BreakpointInv => BreakpointsSound
    BY DEF BreakpointInv
  <1> QED
    BY <1>1, <1>2, <1>3, NextTyped, BreakpointStep, PTL DEF Spec

-----------------------------------------------------------------------------
(***************************************************************************)
(* No instruction is skipped.  A thread is rewound to the address of its   *)
(* event, so that address must be the instruction it is due to execute as  *)
(* long as a wait can still return the event.  After a failed wait no wait *)
(* follows until the process was let go, and write_registers may move a    *)
(* thread away from an undelivered hit then.                               *)
(***************************************************************************)
Hit(t) == raised[t] # NoEvent /\ raised[t].kind = "Breakpoint"

CallsAttached ==
  /\ ~Idle => attached /\ pending = NoEvent
  /\ attached => traced

PendingDelivered ==
  pending # NoEvent =>
    primary = pending.tid /\ (primary \in Thread => raised[primary] = NoEvent)

UntracedNoHits == ~traced => \A t \in Thread : ~Hit(t)

HitIsDue ==
  (pending # NoEvent \/ ~Idle) =>
    \A t \in Thread \ hist.dropped : Hit(t) => raised[t].at = due[t]

SkipInv == CallsAttached /\ PendingDelivered /\ UntracedNoHits /\ HitIsDue /\ NoSilentSkip

\* A wait that returns an event and leaves its thread where it stands.
LEMMA WaitSkipsNothing ==
  ASSUME Typed, SkipInv, NEW t \in Thr, NEW held \in BOOLEAN, wait_event(t, held), ~Idle,
         UNCHANGED <<rip, due, alive, traced, attached>>,
         hist.dropped \subseteq hist'.dropped,
         Hit(t) /\ t \in Thread => t \in hist'.dropped,
         Idle' \/ ~held
  PROVE  SkipInv'
  <1>1. /\ raised[t] # NoEvent /\ raised[t].tid = t
        /\ raised' = [raised EXCEPT ![t] = NoEvent]
        /\ pending' = IF held THEN raised[t] ELSE NoEvent
        /\ primary' = t
    BY WaitTyped DEF Typed, TypeOK
  <1>2. raised'[t] = NoEvent /\ \A u \in Thread : u # t => raised'[u] = raised[u]
    BY <1>1 DEF Typed, TypeOK, ProcessTyped, Thr
  <1>3. CallsAttached' /\ PendingDelivered'
    BY <1>1, <1>2 DEF SkipInv, CallsAttached, PendingDelivered
  <1>4. UntracedNoHits' /\ HitIsDue'
    BY <1>2 DEF SkipInv, UntracedNoHits, HitIsDue, Hit
  <1>5. NoSilentSkip'
    BY <1>2 DEF SkipInv, NoSilentSkip, Hit
  <1> QED
    BY <1>3, <1>4, <1>5 DEF SkipInv

\* A wait whose event is a planted hit, and whose thread is rewound.
LEMMA RewindSkipsNothing ==
  ASSUME Typed, SkipInv, NEW t \in Thr, NEW held \in BOOLEAN, wait_event(t, held), ~Idle,
         Planted(raised[t]), rip' = [rip EXCEPT ![t] = raised[t].at],
         UNCHANGED <<due, alive, traced, attached>>,
         hist.dropped \subseteq hist'.dropped,
         Idle' \/ ~held
  PROVE  SkipInv'
  <1>1. /\ raised[t] # NoEvent /\ raised[t].tid = t
        /\ raised' = [raised EXCEPT ![t] = NoEvent]
        /\ pending' = IF held THEN raised[t] ELSE NoEvent
        /\ primary' = t
    BY WaitTyped DEF Typed, TypeOK
  <1>2. raised'[t] = NoEvent /\ \A u \in Thread : u # t => raised'[u] = raised[u]
    BY <1>1 DEF Typed, TypeOK, ProcessTyped, Thr
  <1>3. t \in Thread /\ Hit(t)
    BY <1>1, PlantedTyped DEF Typed, TypeOK, Hit
  <1>4. t \notin hist.dropped => raised[t].at = due[t]
    BY <1>3 DEF SkipInv, HitIsDue
  <1>5. rip'[t] = raised[t].at /\ \A u \in Thread : u # t => rip'[u] = rip[u]
    BY <1>3 DEF Typed, TypeOK, ProcessTyped
  <1>6. CallsAttached' /\ PendingDelivered'
    BY <1>1, <1>2 DEF SkipInv, CallsAttached, PendingDelivered
  <1>7. UntracedNoHits' /\ HitIsDue'
    BY <1>2 DEF SkipInv, UntracedNoHits, HitIsDue, Hit
  <1>8. NoSilentSkip'
    BY <1>2, <1>4, <1>5 DEF SkipInv, NoSilentSkip, Hit
  <1> QED
    BY <1>6, <1>7, <1>8 DEF SkipInv

\* Every step of Waits.
LEMMA WaitsSkipNothing == Typed /\ SkipInv /\ (Waits \/ wait_fails) => SkipInv'
  <1> SUFFICES ASSUME Typed, SkipInv, Waits \/ wait_fails PROVE SkipInv'
    OBVIOUS
  <1>t. hist \in History
    BY DEF Typed, TypeOK, HistoryTyped
  <1>d. ASSUME NEW t \in Thr, NEW held \in BOOLEAN, wait_event(t, held)
        PROVE  /\ hist.dropped \subseteq DropHit(raised[t])
               /\ Hit(t) /\ t \in Thread => t \in DropHit(raised[t])
    <2>1. raised[t].tid = t
      BY <1>d, WaitTyped DEF Typed, TypeOK
    <2> QED
      BY <1>t, <2>1, DropHitTyped DEF Hit
  <1>h. \A x : hist' = [hist EXCEPT !.dropped = x] => hist'.dropped = x
    BY <1>t DEF History
  <1>1. ASSUME NEW t \in Thr, attach_drain(t) PROVE SkipInv'
    <2>1. PICK held \in BOOLEAN : wait_event(t, held) /\ (call' = NoCall \/ ~held)
      BY <1>1 DEF attach_drain, Return
    <2>2. hist'.dropped = DropHit(raised[t]) /\ ~Idle
      BY <1>1, <1>t DEF attach_drain, History, Idle, NoCall
    <2>3. UNCHANGED <<rip, due, alive, traced, attached>>
      BY <1>1 DEF attach_drain
    <2> QED
      BY <1>d, <2>1, <2>2, <2>3, WaitSkipsNothing DEF Idle
  <1>2. CASE attach_settle
    <2>1. /\ UNCHANGED <<rip, due, alive, traced, attached, pending, primary, hist>>
          /\ ~Idle
          /\ raised' = raised \/ raised' = [raised EXCEPT ![BreakIn] = ev("Other", BreakIn, NoAddr)]
      BY <1>2 DEF attach_settle, DebugBreakProcess, Idle, NoCall
    <2>2. \A u \in Thread : raised'[u] = raised[u]
      BY <2>1, ThreadAssumption DEF Typed, TypeOK, ProcessTyped, Thr
    <2> QED
      BY <2>1, <2>2 DEF SkipInv, CallsAttached, PendingDelivered, UntracedNoHits, HitIsDue, Hit,
                        NoSilentSkip
  <1>3. ASSUME NEW t \in Thr, attach_stops(t) \/ cont_stops(t) \/ step_stops(t) PROVE SkipInv'
    <2>1. wait_event(t, TRUE) /\ call' = NoCall
      BY <1>3 DEF attach_stops, cont_stops, step_stops, Return
    <2>2. hist'.dropped = DropHit(raised[t])
      BY <1>3, <1>h DEF attach_stops, cont_stops, step_stops
    <2>4. ~Idle
      <3>1. call.op \in {"stopping", "cont", "step"}
        BY <1>3 DEF attach_stops, cont_stops, step_stops
      <3> QED
        BY <3>1 DEF Idle, NoCall
    <2>3. UNCHANGED <<rip, due, alive, traced, attached>>
      BY <1>3 DEF attach_stops, cont_stops, step_stops
    <2> QED
      BY <1>d, <2>1, <2>2, <2>3, <2>4, WaitSkipsNothing DEF Idle
  <1>4. ASSUME NEW t \in Thr, call.op = "cont", rearm_begins(t) PROVE SkipInv'
    <2>1. ~Idle
      BY <1>4 DEF Idle, NoCall
    <2>2. /\ wait_event(t, FALSE) /\ Planted(raised[t])
          /\ rip' = [rip EXCEPT ![t] = raised[t].at]
      BY <1>4 DEF rearm_begins
    <2>3. UNCHANGED <<due, alive, traced, attached, hist>>
      BY <1>4 DEF rearm_begins
    <2> QED
      BY <2>1, <2>2, <2>3, RewindSkipsNothing
  <1>5. ASSUME NEW t \in Thr, call.op = "cont", rearm_fails(t) PROVE SkipInv'
    <2>0. ~Idle
      BY <1>5 DEF Idle, NoCall
    <2>1. /\ wait_event(t, TRUE) /\ Planted(raised[t]) /\ call' = NoCall
          /\ UNCHANGED <<due, alive, traced, attached>>
      BY <1>5 DEF rearm_fails, Return
    <2>2. \A bs, ts : hist' = [hist EXCEPT !.broken = @ \cup bs, !.dropped = @ \cup ts]
                        => hist'.dropped = hist.dropped \cup ts
      BY <1>t DEF History
    <2>3. hist.dropped \subseteq hist'.dropped
      BY <1>5, <2>2 DEF rearm_fails
    <2>4. CASE rip' = [rip EXCEPT ![t] = raised[t].at]
      BY <2>0, <2>1, <2>3, <2>4, RewindSkipsNothing DEF Idle
    <2>5. CASE rip' = rip /\ hist' = [hist EXCEPT !.broken = @ \cup {}, !.dropped = @ \cup {t}]
      <3>1. t \in hist'.dropped
        BY <2>2, <2>5
      <3> QED
        BY <2>0, <2>1, <2>3, <2>5, <3>1, WaitSkipsNothing DEF Idle
    <2> QED
      BY <1>5, <2>4, <2>5 DEF rearm_fails
  <1>6. ASSUME NEW t \in Thr, rearm_ends(t) PROVE SkipInv'
    <2>1. wait_event(t, TRUE) /\ call' = NoCall
      BY <1>6 DEF rearm_ends, Return
    <2>2. hist'.dropped = DropHit(raised[t]) /\ ~Idle
      BY <1>6 DEF rearm_ends, Idle, NoCall
    <2>3. UNCHANGED <<rip, due, alive, traced, attached>>
      BY <1>6 DEF rearm_ends
    <2> QED
      BY <1>d, <2>1, <2>2, <2>3, WaitSkipsNothing DEF Idle
  <1>7. CASE wait_fails
    <2>1. UNCHANGED <<process, attached, pending, primary, due>> /\ call' = NoCall /\ ~Idle
      BY <1>7 DEF wait_fails, Return, Idle, NoCall
    <2>2. hist'.dropped = hist.dropped
      BY <1>7, <1>t DEF wait_fails, History
    <2> QED
      BY <2>1, <2>2 DEF SkipInv, CallsAttached, PendingDelivered, UntracedNoHits, HitIsDue, Hit,
                        NoSilentSkip, Idle, process
  <1> QED
    BY <1>1, <1>2, <1>3, <1>4, <1>5, <1>6, <1>7 DEF Waits, translate_stop_and_rearm

\* The threads: a trap is at the instruction its thread stands at.
LEMMA ThreadsSkipNothing ==
  ASSUME Typed, SkipInv, (\E t \in Thread : Process(t) \/ Exits(t)) \/ BreakInRuns
  PROVE  SkipInv'
  <1>t. ProcessTyped /\ HistoryTyped /\ hist \in History
    BY DEF Typed, TypeOK, HistoryTyped
  <1>b. UNCHANGED <<attached, pending, primary, call, traced>> /\ pending = NoEvent
    BY DEF Process, Traps, Executes, Exits, BreakInRuns, backend, CanRun, Running
  <1>c. CallsAttached' /\ PendingDelivered'
    BY <1>b DEF SkipInv, CallsAttached, PendingDelivered, Idle
  <1>1. ASSUME NEW t \in Thread, Traps(t) PROVE SkipInv'
    <2>1. UNCHANGED <<due, hist>> /\ alive /\ raised[t] = NoEvent
      BY <1>1 DEF Traps, CanRun, Running
    <2>2. CASE traced
      <3>1. /\ raised' = [raised EXCEPT ![t] = ev("Breakpoint", t, rip[t])]
            /\ rip' = [rip EXCEPT ![t] = After(@)] /\ alive'
        BY <1>1, <2>1, <2>2 DEF Traps
      <3>2. /\ raised'[t] = ev("Breakpoint", t, rip[t])
            /\ \A u \in Thread : u # t => raised'[u] = raised[u] /\ rip'[u] = rip[u]
        BY <1>t, <3>1 DEF ProcessTyped, Thr
      <3>3. ev("Breakpoint", t, rip[t]) # NoEvent
        <4>1. ev("Breakpoint", t, rip[t]) \in Event
          BY <1>t DEF ProcessTyped, ev, Event, Kind, Thr, Where
        <4> QED
          BY <4>1, NoEventAssumption
      <3>4. rip[t] # due[t] => t \in hist.dropped
        BY <2>1 DEF SkipInv, NoSilentSkip
      <3>5. UntracedNoHits'
        BY <1>b, <2>2 DEF UntracedNoHits
      <3>6. HitIsDue'
        BY <1>b, <2>1, <3>2, <3>4 DEF SkipInv, HitIsDue, Hit, ev, Idle
      <3>7. NoSilentSkip'
        BY <2>1, <3>2, <3>3 DEF SkipInv, NoSilentSkip, ev
      <3> QED
        BY <1>c, <3>5, <3>6, <3>7 DEF SkipInv
    <2>3. CASE ~traced
      BY <1>1, <1>b, <1>c, <2>1, <2>3
         DEF Traps, SkipInv, UntracedNoHits, HitIsDue, Hit, NoSilentSkip, Idle
    <2> QED
      BY <2>2, <2>3
  <1>2. ASSUME NEW t \in Thread, Executes(t) PROVE SkipInv'
    <2>1. /\ rip' = [rip EXCEPT ![t] = After(@)] /\ due' = [due EXCEPT ![t] = After(rip[t])]
          /\ hist' = [hist EXCEPT !.dropped = @ \ {t}] /\ UNCHANGED alive
      BY <1>2 DEF Executes
    <2>2. \E e : /\ raised' = [raised EXCEPT ![t] = e]
                 /\ e # NoEvent => e.kind # "Breakpoint"
      BY <1>2, IncidentsAssumption DEF Executes, ev
    <2>3. /\ raised'[t] # NoEvent => raised'[t].kind # "Breakpoint"
          /\ \A u \in Thread : u # t => /\ raised'[u] = raised[u] /\ rip'[u] = rip[u]
                                        /\ due'[u] = due[u]
          /\ rip'[t] = due'[t]
      BY <1>t, <2>1, <2>2 DEF ProcessTyped, HistoryTyped, Thr
    <2>4. hist'.dropped = hist.dropped \ {t}
      BY <1>t, <2>1 DEF History
    <2>5. UntracedNoHits' /\ HitIsDue'
      BY <1>b, <2>3, <2>4 DEF SkipInv, UntracedNoHits, HitIsDue, Hit, Idle
    <2>6. NoSilentSkip'
      BY <2>1, <2>3, <2>4 DEF SkipInv, NoSilentSkip
    <2> QED
      BY <1>c, <2>5, <2>6 DEF SkipInv
  <1>3. ASSUME NEW t \in Thread, Exits(t) PROVE SkipInv'
    <2>1. \A u \in Thread : raised'[u] # NoEvent => raised'[u].kind # "Breakpoint"
      BY <1>3 DEF Exits, ev, Thr
    <2>2. alive' = FALSE
      BY <1>3 DEF Exits
    <2> QED
      BY <1>c, <2>1, <2>2 DEF SkipInv, UntracedNoHits, HitIsDue, Hit, NoSilentSkip
  <1>4. CASE BreakInRuns
    <2>1. \A u \in Thread : raised'[u] = raised[u]
      BY <1>4, <1>t, ThreadAssumption DEF BreakInRuns, ProcessTyped, Thr
    <2>2. UNCHANGED <<rip, due, hist, alive>>
      BY <1>4 DEF BreakInRuns
    <2> QED
      BY <1>b, <1>c, <2>1, <2>2 DEF SkipInv, UntracedNoHits, HitIsDue, Hit, NoSilentSkip, Idle
  <1> QED
    BY <1>1, <1>2, <1>3, <1>4 DEF Process

\* The calls: run control, and what a caller may do to a process that runs.
LEMMA CallsSkipNothing ==
  ASSUME Typed, SkipInv,
         \/ attach \/ detach \/ cont \/ step \/ request_stop \/ refused
         \/ \E a \in Code : set_breakpoint_sw(a) \/ remove_breakpoint_sw(a)
         \/ \E a \in Code : set_breakpoint_hw(a) \/ remove_breakpoint_hw(a)
         \/ \E a \in Code : write_memory(a, "new") \/ write_registers(a)
  PROVE  SkipInv'
  <1>t. ProcessTyped /\ HistoryTyped /\ hist \in History
    BY DEF Typed, TypeOK, HistoryTyped
  <1>c. \A d, b : Counted(d, b) => hist'.dropped = d
    BY <1>t DEF Counted, History
  <1>0. ASSUME UNCHANGED <<rip, due, raised, alive, traced, attached, pending, primary, call>>,
               hist'.dropped = hist.dropped
        PROVE  SkipInv'
    BY <1>0 DEF SkipInv, CallsAttached, PendingDelivered, UntracedNoHits, HitIsDue, Hit,
                NoSilentSkip, Idle
  <1>1. CASE attach
    <2>1. /\ attached' /\ traced' /\ pending' = NoEvent /\ ~traced
          /\ UNCHANGED <<rip, due, raised, alive, hist>>
      BY <1>1 DEF attach
    <2>2. \A t \in Thread : ~Hit(t)
      BY <2>1 DEF SkipInv, UntracedNoHits
    <2> QED
      BY <2>1, <2>2 DEF SkipInv, CallsAttached, PendingDelivered, UntracedNoHits, HitIsDue, Hit,
                        NoSilentSkip
  <1>2. CASE detach
    <2> DEFINE hits == { t \in Thread : raised[t] # NoEvent /\ raised[t].kind = "Breakpoint" }
    <2>1. /\ Idle /\ UNCHANGED <<rip, due, primary, call>> /\ attached' = FALSE
          /\ alive' => alive
      BY <1>2, <1>t DEF detach, ProcessTyped
    <2>2. \/ /\ pending' = NoEvent /\ raised' = [t \in Thr |-> NoEvent]
             /\ hist'.dropped = hist.dropped \cup hits
          \/ /\ UNCHANGED <<traced, pending, raised>> /\ hist'.dropped = hist.dropped
      BY <1>2, <1>c DEF detach
    <2>3. CASE /\ pending' = NoEvent /\ raised' = [t \in Thr |-> NoEvent]
               /\ hist'.dropped = hist.dropped \cup hits
      <3>1. \A t \in Thread : raised'[t] = NoEvent
        BY <2>3 DEF Thr
      <3> QED
        BY <2>1, <2>3, <3>1 DEF SkipInv, CallsAttached, PendingDelivered, UntracedNoHits, HitIsDue,
                                Hit, NoSilentSkip, Idle
    <2>4. CASE UNCHANGED <<traced, pending, raised>> /\ hist'.dropped = hist.dropped
      BY <2>1, <2>4 DEF SkipInv, CallsAttached, PendingDelivered, UntracedNoHits, HitIsDue,
                        Hit, NoSilentSkip, Idle
    <2> QED
      BY <2>2, <2>3, <2>4
  <1>3. CASE cont \/ step
    <2>1. /\ UNCHANGED <<rip, due, raised, alive, traced, attached, primary>>
          /\ attached /\ pending # NoEvent /\ Idle
          /\ pending' = NoEvent \/ (pending' = pending /\ call' = NoCall)
      BY <1>3 DEF cont, step, Stopped, process, Return
    <2>2. hist'.dropped = hist.dropped
      BY <1>3, <1>t DEF cont, step, History
    <2> QED
      BY <2>1, <2>2 DEF SkipInv, CallsAttached, PendingDelivered, UntracedNoHits, HitIsDue,
                        Hit, NoSilentSkip, Idle
  <1>4. CASE request_stop
    <2>1. /\ UNCHANGED <<rip, due, alive, traced, attached, pending, primary, call>>
          /\ raised' = raised \/ raised' = [raised EXCEPT ![BreakIn] = ev("Other", BreakIn, NoAddr)]
          /\ hist'.dropped = hist.dropped
      BY <1>4, <1>c DEF request_stop, DebugBreakProcess, backend
    <2>2. \A u \in Thread : raised'[u] = raised[u]
      BY <1>t, <2>1, ThreadAssumption DEF ProcessTyped, Thr
    <2> QED
      BY <2>1, <2>2 DEF SkipInv, CallsAttached, PendingDelivered, UntracedNoHits, HitIsDue,
                        Hit, NoSilentSkip, Idle
  <1>5. CASE refused
    BY <1>0, <1>5 DEF refused, process
  <1>6. ASSUME NEW a \in Code, set_breakpoint_sw(a) \/ remove_breakpoint_sw(a) PROVE SkipInv'
    BY <1>0, <1>6, <1>c DEF set_breakpoint_sw, remove_breakpoint_sw, others
  <1>7. ASSUME NEW a \in Code, set_breakpoint_hw(a) \/ remove_breakpoint_hw(a) PROVE SkipInv'
    BY <1>0, <1>7, <1>c DEF set_breakpoint_hw, remove_breakpoint_hw
  <1>8. ASSUME NEW a \in Code, write_memory(a, "new") PROVE SkipInv'
    BY <1>0, <1>8, <1>c DEF write_memory, others
  <1>9. ASSUME NEW a \in Code, write_registers(a) PROVE SkipInv'
    <2>1. /\ rip' = [rip EXCEPT ![primary] = a] /\ due' = [due EXCEPT ![primary] = a]
          /\ hist'.dropped = hist.dropped \ {primary}
          /\ UNCHANGED <<raised, alive, traced, attached, pending, primary, call>>
          /\ Idle /\ primary \in Thread
      BY <1>9, <1>c DEF write_registers, Ready
    <2>2. /\ rip'[primary] = due'[primary]
          /\ \A u \in Thread : u # primary => rip'[u] = rip[u] /\ due'[u] = due[u]
      BY <1>t, <2>1 DEF ProcessTyped, HistoryTyped
    <2>3. CallsAttached' /\ PendingDelivered' /\ UntracedNoHits'
      BY <2>1 DEF SkipInv, CallsAttached, PendingDelivered, UntracedNoHits, Hit, Idle
    <2>4. HitIsDue'
      BY <2>1, <2>2 DEF SkipInv, PendingDelivered, HitIsDue, Hit, Idle
    <2>5. NoSilentSkip'
      BY <2>1, <2>2 DEF SkipInv, NoSilentSkip
    <2> QED
      BY <2>3, <2>4, <2>5 DEF SkipInv
  <1> QED
    BY <1>1, <1>2, <1>3, <1>4, <1>5, <1>6, <1>7, <1>8, <1>9

\* Every step keeps each thread at its next instruction or accounts for the difference.
LEMMA SkipStep == Typed /\ SkipInv /\ [Next]_vars => SkipInv'
  <1> SUFFICES ASSUME Typed, SkipInv, [Next]_vars PROVE SkipInv'
    OBVIOUS
  <1>1. CASE UNCHANGED vars
    BY <1>1 DEF vars, process, backend, SkipInv, CallsAttached, PendingDelivered, UntracedNoHits,
                HitIsDue, Hit, NoSilentSkip, Idle
  <1> QED
    BY <1>1, ThreadsSkipNothing, WaitsSkipNothing, CallsSkipNothing DEF Next

(***************************************************************************)
(* A thread that can run stands at the instruction it is due to execute,   *)
(* unless a hit of it is undelivered or was delivered without a rewind,    *)
(* for any number of threads that hit, step and are moved in any order.    *)
(* (translate_stop_and_rearm, write_registers, detach)                     *)
(***************************************************************************)
THEOREM NativeNoSilentSkip == Spec => []NoSilentSkip
  <1>1. Init => Typed
    BY InitTyped DEF Typed
  <1>2. Init => SkipInv
    BY DEF Init, SkipInv, CallsAttached, PendingDelivered, UntracedNoHits, HitIsDue, Hit,
           NoSilentSkip, Idle, Thr
  <1>3. SkipInv => NoSilentSkip
    BY DEF SkipInv
  <1> QED
    BY <1>1, <1>2, <1>3, NextTyped, SkipStep, PTL DEF Spec

-----------------------------------------------------------------------------
(***************************************************************************)
(* A reported hit was stepped over.  While the step-over waits, the thread *)
(* either stands at the lifted instruction with its trap flag set, or has  *)
(* raised the event that the wait will return, and executed it by then.    *)
(***************************************************************************)
OverInv ==
  (call.op = "over" /\ call.event.at \notin hist.broken) =>
    LET a == call.event.at
        t == call.event.tid
    IN  /\ raised[t] = NoEvent => (alive => rip[t] = a /\ tf[t])
        /\ raised[t] # NoEvent => /\ raised[t].kind # "Breakpoint"
                                  /\ raised[t].kind # "ExitProcess" => due[t] # a

OverTyped == Typed /\ BreakpointInv /\ SkipInv
StepOverInv == OverInv /\ SteppedOver

\* A call that replies with no stop, or leaves nothing pending.
LEMMA NoStopReported ==
  ASSUME reply'.res # "stop" \/ pending' = NoEvent
  PROVE  SteppedOver'
  BY DEF SteppedOver, HitReply

\* What the over-step's thread stands on is an instruction of the program.
LEMMA LiftedIsCode ==
  ASSUME OverTyped, call.op = "over", call.event.at \notin hist.broken
  PROVE  /\ call.event.tid \in Thread /\ call.event.at \in Code
         /\ mem[call.event.at] # "cc" /\ traced
  <1>t. ProcessTyped /\ BackendTyped /\ HistoryTyped
    BY DEF OverTyped, Typed, TypeOK
  <1>1. call.event.at \in DOMAIN sw /\ call.event.tid \in Thread /\ call.event.at \in Code
    BY <1>t DEF OverTyped, Typed, OverAtBreakpoint, BackendTyped
  <1>2. mem[call.event.at] = sw[call.event.at]
    BY DEF OverTyped, BreakpointInv, LiftedByte
  <1>3. sw[call.event.at] = text[call.event.at]
    BY <1>1 DEF OverTyped, BreakpointInv, BreakpointsSound, CleanText
  <1>4. text[call.event.at] \in {"op", "new"}
    BY <1>t, <1>1 DEF HistoryTyped
  <1>5. traced
    BY DEF OverTyped, SkipInv, CallsAttached, Idle, NoCall
  <1> QED
    BY <1>1, <1>2, <1>3, <1>4, <1>5

\* The threads: only the over-stepped one can end its step, by executing.
LEMMA ThreadsStepOver ==
  ASSUME OverTyped, StepOverInv, (\E t \in Thread : Process(t) \/ Exits(t)) \/ BreakInRuns
  PROVE  StepOverInv'
  <1>t. ProcessTyped /\ HistoryTyped /\ hist \in History /\ Typed'
    BY NextTyped DEF OverTyped, Typed, TypeOK, HistoryTyped, Next
  <1>n. ProcessTyped'
    BY <1>t DEF Typed, TypeOK
  <1>b. UNCHANGED <<pending, call>> /\ pending = NoEvent /\ alive
    BY DEF Process, Traps, Executes, Exits, BreakInRuns, backend, CanRun, Running
  <1>1. SteppedOver'
    BY <1>b, NoStopReported
  <1>2. hist'.broken = hist.broken
    BY BrokenKept DEF OverTyped
  <1> SUFFICES ASSUME call.op = "over", call.event.at \notin hist.broken
               PROVE  OverInv'
    BY <1>1, <1>2, <1>b DEF StepOverInv, OverInv
  <1> DEFINE a == call.event.at
             o == call.event.tid
  <1>3. o \in Thread /\ a \in Code /\ mem[a] # "cc" /\ traced
    BY LiftedIsCode
  <1>4. /\ raised[o] = NoEvent => rip[o] = a /\ tf[o]
        /\ raised[o] # NoEvent => /\ raised[o].kind # "Breakpoint"
                                  /\ raised[o].kind # "ExitProcess" => due[o] # a
    BY <1>b DEF StepOverInv, OverInv
  <1>5. ASSUME /\ raised'[o] = NoEvent => (alive' => rip'[o] = a /\ tf'[o])
               /\ raised'[o] # NoEvent => /\ raised'[o].kind # "Breakpoint"
                                          /\ raised'[o].kind # "ExitProcess" => due'[o] # a
        PROVE  OverInv'
    BY <1>5, <1>b DEF OverInv
  <1> HIDE DEF a, o
  <1>6. ASSUME NEW t \in Thread, Traps(t) PROVE OverInv'
    <2>1. t # o
      BY <1>3, <1>4, <1>6 DEF Traps, CanRun
    <2>2. /\ \E e : raised' = [raised EXCEPT ![t] = e]
          /\ \E b : tf' = [tf EXCEPT ![t] = b]
          /\ rip' = [rip EXCEPT ![t] = After(@)] /\ UNCHANGED <<alive, due>>
      BY <1>3, <1>6 DEF Traps
    <2>3. raised'[o] = raised[o] /\ tf'[o] = tf[o] /\ rip'[o] = rip[o] /\ due'[o] = due[o]
      BY <1>t, <1>3, <2>1, <2>2 DEF ProcessTyped, Thr
    <2> QED
      BY <1>4, <1>5, <2>3
  <1>7. ASSUME NEW t \in Thread, Executes(t) PROVE OverInv'
    <2>1. CASE t = o
      <3>1. raised[o] = NoEvent /\ rip[o] = a /\ tf[o]
        BY <1>4, <1>7, <2>1 DEF Executes, CanRun
      <3>2. due' = [due EXCEPT ![o] = After(a)]
        BY <1>7, <2>1, <3>1 DEF Executes
      <3>3. due'[o] # a
        BY <1>t, <1>3, <3>2, AfterIsCode DEF HistoryTyped
      <3>4. \E k \in {"SingleStep"} \cup Incidents :
              raised' = [raised EXCEPT ![o] = ev(k, o, After(a))]
        BY <1>7, <2>1, <3>1 DEF Executes
      <3>5. PICK k \in {"SingleStep"} \cup Incidents : raised'[o] = ev(k, o, After(a))
        BY <1>t, <1>3, <3>4 DEF ProcessTyped, Thr
      <3>6. k \in Kind /\ k # "Breakpoint"
        BY IncidentsAssumption DEF Kind
      <3>7. ev(k, o, After(a)) \in Event
        BY <1>3, <3>6, AfterIsCode DEF ev, Event, Thr, Where
      <3>8. raised'[o] # NoEvent /\ raised'[o].kind # "Breakpoint"
        BY <3>5, <3>6, <3>7, NoEventAssumption DEF ev
      <3> QED
        BY <1>5, <3>3, <3>8
    <2>2. CASE t # o
      <3>1. /\ rip' = [rip EXCEPT ![t] = After(@)] /\ due' = [due EXCEPT ![t] = After(rip[t])]
            /\ tf' = [tf EXCEPT ![t] = FALSE] \/ tf' = tf
            /\ UNCHANGED alive
        BY <1>7 DEF Executes
      <3>2. \E e : raised' = [raised EXCEPT ![t] = e]
        BY <1>7 DEF Executes
      <3>3. raised'[o] = raised[o] /\ tf'[o] = tf[o] /\ rip'[o] = rip[o] /\ due'[o] = due[o]
        BY <1>t, <1>3, <2>2, <3>1, <3>2 DEF ProcessTyped, HistoryTyped, Thr
      <3> QED
        BY <1>4, <1>5, <3>3
    <2> QED
      BY <2>1, <2>2
  <1>8. ASSUME NEW t \in Thread, Exits(t) PROVE OverInv'
    <2>1. raised'[o] # NoEvent => raised'[o].kind = "ExitProcess"
      BY <1>3, <1>8 DEF Exits, ev, Thr
    <2>2. alive' = FALSE
      BY <1>8 DEF Exits
    <2> QED
      BY <1>5, <2>1, <2>2
  <1>9. CASE BreakInRuns
    <2>1. /\ \/ raised' = raised
             \/ \E e : raised' = [raised EXCEPT ![BreakIn] = e]
          /\ tf' = [tf EXCEPT ![BreakIn] = FALSE]
          /\ UNCHANGED <<rip, alive, due>>
      BY <1>9 DEF BreakInRuns
    <2>2. raised'[o] = raised[o] /\ tf'[o] = tf[o]
      BY <1>t, <1>3, <2>1, ThreadAssumption DEF ProcessTyped, Thr
    <2> QED
      BY <1>4, <1>5, <2>1, <2>2
  <1> QED
    BY <1>6, <1>7, <1>8, <1>9 DEF Process

\* The waits: the end of the step-over is the event of the thread that made it.
LEMMA WaitsStepOver ==
  ASSUME OverTyped, StepOverInv, Waits \/ wait_fails
  PROVE  StepOverInv'
  <1>t. ProcessTyped /\ BackendTyped /\ HistoryTyped /\ EventsOwned /\ hist \in History /\ Typed
    BY DEF OverTyped, Typed, TypeOK, HistoryTyped
  <1>0. ASSUME call'.op # "over", reply'.res # "stop" \/ pending' = NoEvent
        PROVE  StepOverInv'
    BY <1>0, NoStopReported DEF StepOverInv, OverInv
  <1>1. ASSUME NEW t \in Thr, attach_drain(t) PROVE StepOverInv'
    <2>1. PICK o \in Outcome("resume") :
            /\ wait_event(t, o # "ok")
            /\ IF o = "ok" THEN UNCHANGED <<call, reply>> ELSE Return(Err)
      BY <1>1 DEF attach_drain
    <2>2. call'.op # "over"
      BY <1>1, <2>1 DEF attach_drain, Return, NoCall
    <2>3. pending' = NoEvent \/ reply' = Err
      BY <2>1 DEF wait_event, Return
    <2> QED
      BY <1>0, <2>2, <2>3 DEF Err
  <1>2. CASE attach_settle
    <2>1. call'.op # "over" /\ UNCHANGED pending
      BY <1>2 DEF attach_settle, Return, NoCall
    <2>2. pending = NoEvent
      BY <1>2 DEF attach_settle, OverTyped, SkipInv, CallsAttached, Idle, NoCall
    <2> QED
      BY <1>0, <2>1, <2>2
  <1>3. ASSUME NEW t \in Thr, attach_stops(t) \/ step_stops(t) \/ cont_stops(t)
        PROVE  StepOverInv'
    <2>0. call' = NoCall
      BY <1>3 DEF attach_stops, step_stops, cont_stops, Return
    <2>1. call'.op # "over"
      BY <2>0, CallTypes
    <2>2. CASE attach_stops(t)
      BY <1>0, <2>1, <2>2 DEF attach_stops, Return
    <2>3. CASE step_stops(t)
      <3>1. reply'.kind = "SingleStep"
        BY <2>3 DEF step_stops, Return, Stop
      <3> QED
        BY <2>1, <3>1 DEF StepOverInv, OverInv, SteppedOver, HitReply
    <2>4. CASE cont_stops(t)
      <3>1. /\ reply'.kind = translate_kind(raised[t].kind) /\ reply'.event = raised[t]
            /\ ~Planted(raised[t]) /\ UNCHANGED sw
        BY <2>4 DEF cont_stops, Return, Stop
      <3>2. reply'.kind = "Breakpoint" => reply'.event.at \notin DOMAIN sw
        BY <3>1 DEF translate_kind, Planted
      <3> QED
        BY <2>1, <3>1, <3>2 DEF StepOverInv, OverInv, SteppedOver, HitReply
    <2> QED
      BY <1>3, <2>2, <2>3, <2>4
  <1>4. ASSUME NEW t \in Thr, call.op = "cont", rearm_begins(t) PROVE StepOverInv'
    <2>1. /\ wait_event(t, FALSE) /\ Planted(raised[t])
          /\ rip' = [rip EXCEPT ![t] = raised[t].at] /\ tf' = [tf EXCEPT ![t] = TRUE]
          /\ call' = [op |-> "over", event |-> raised[t]]
      BY <1>4 DEF rearm_begins
    <2>2. /\ raised' = [raised EXCEPT ![t] = NoEvent] /\ pending' = NoEvent
          /\ raised[t].tid = t /\ t \in Thread
      BY <1>t, <2>1, WaitTyped, PlantedTyped
    <2>3. SteppedOver'
      BY <2>2, NoStopReported
    <2>4. rip'[t] = raised[t].at /\ tf'[t] /\ raised'[t] = NoEvent
      BY <1>t, <2>1, <2>2 DEF ProcessTyped, Thr
    <2>5. call'.event.at = raised[t].at /\ call'.event.tid = t
      BY <2>1, <2>2
    <2>6. OverInv'
      BY <2>4, <2>5 DEF OverInv
    <2> QED
      BY <2>3, <2>6 DEF StepOverInv
  <1>5. ASSUME NEW t \in Thr, call.op = "cont", rearm_fails(t) PROVE StepOverInv'
    <2>1. call' = NoCall /\ reply' = Err
      BY <1>5 DEF rearm_fails, Return
    <2> QED
      BY <1>0, <2>1 DEF NoCall, Err
  <1>6. ASSUME NEW t \in Thr, rearm_ends(t) PROVE StepOverInv'
    <2> DEFINE a == call.event.at
    <2>1. PICK o \in WriteOutcome :
            /\ mem' = Written(mem, a, "cc", o)
            /\ Return(IF o = "ok" THEN Stop("Breakpoint", call.event) ELSE Err)
            /\ hist' = [dropped |-> DropHit(raised[t]),
                        broken |-> hist.broken \cup (IF o = "failed" THEN {a} ELSE {}),
                        over |-> t = call.event.tid /\ raised[t].kind # "Breakpoint",
                        calls |-> hist.calls]
      BY <1>6 DEF rearm_ends
    <2>2. call' = NoCall /\ call.op = "over" /\ wait_event(t, TRUE) /\ UNCHANGED <<sw, due>>
      BY <1>6, <2>1 DEF rearm_ends, Return
    <2>3. call'.op # "over"
      BY <2>2, CallTypes
    <2>4. CASE o # "ok"
      <3>1. reply' = Err
        BY <2>1, <2>4 DEF Return
      <3> QED
        BY <1>0, <2>3, <3>1 DEF Err
    <2>5. CASE o = "ok"
      <3>1. reply' = Stop("Breakpoint", call.event)
        BY <2>1, <2>5 DEF Return
      <3>2. reply'.event = call.event
        BY <3>1 DEF Stop
      <3>3. hist'.over => t = call.event.tid
        BY <2>1
      <3>4. hist'.broken = hist.broken
        BY <2>1, <2>5
      <3>5. a \in Code
        BY <1>t, <2>2 DEF Typed, OverAtBreakpoint, BackendTyped
      <3>6. mem'[a] = "cc"
        BY <1>t, <2>1, <2>5, <3>5 DEF Written, ProcessTyped
      <3>7. pending' = raised[t] /\ raised[t] # NoEvent /\ raised[t].tid = t
        BY <1>t, <2>2, WaitTyped
      <3>8. ASSUME a \notin hist.broken, t = call.event.tid, raised[t].kind # "ExitProcess"
            PROVE  due[t] # a
        BY <2>2, <3>7, <3>8 DEF StepOverInv, OverInv
      <3> HIDE DEF a
      <3>9. SteppedOver'
        <4>1. SUFFICES ASSUME HitReply(reply)', hist'.over, reply'.event.at \notin hist'.broken
                       PROVE  /\ mem'[reply'.event.at] = "cc"
                              /\ pending'.tid = reply'.event.tid
                              /\ pending'.kind # "ExitProcess" => due'[pending'.tid] # reply'.event.at
          BY DEF SteppedOver, HitReply
        <4>2. reply'.event.at = a /\ reply'.event.tid = t
          BY <3>2, <3>3, <4>1 DEF a
        <4> QED
          BY <2>2, <3>2, <3>3, <3>4, <3>6, <3>7, <3>8, <4>1, <4>2
      <3> QED
        BY <2>3, <3>9 DEF StepOverInv, OverInv
    <2> QED
      BY <2>4, <2>5
  <1>7. CASE wait_fails
    <2>1. call' = NoCall /\ reply' = Err
      BY <1>7 DEF wait_fails, Return
    <2> QED
      BY <1>0, <2>1 DEF NoCall, Err
  <1> QED
    BY <1>1, <1>2, <1>3, <1>4, <1>5, <1>6, <1>7 DEF Waits, translate_stop_and_rearm

\* The calls: none but request_stop can be made while a step-over waits.
LEMMA CallsStepOver ==
  ASSUME OverTyped, StepOverInv,
         \/ attach \/ detach \/ cont \/ step \/ request_stop \/ refused
         \/ \E a \in Code : set_breakpoint_sw(a) \/ remove_breakpoint_sw(a)
         \/ \E a \in Code : set_breakpoint_hw(a) \/ remove_breakpoint_hw(a)
         \/ \E a \in Code : write_memory(a, "new") \/ write_registers(a)
  PROVE  StepOverInv'
  <1>t. ProcessTyped /\ hist \in History
    BY DEF OverTyped, Typed, TypeOK, HistoryTyped
  <1>0. ASSUME call'.op # "over", reply'.res # "stop" \/ pending' = NoEvent
        PROVE  StepOverInv'
    BY <1>0, NoStopReported DEF StepOverInv, OverInv
  <1>i. ASSUME Idle, UNCHANGED call PROVE call'.op # "over"
    BY <1>i DEF Idle, NoCall
  <1>1. CASE attach
    BY <1>0, <1>1 DEF attach
  <1>2. CASE detach
    BY <1>0, <1>i, <1>2 DEF detach
  <1>3. CASE cont \/ step
    <2>1. call'.op # "over"
      BY <1>3 DEF cont, step, Return, NoCall
    <2>2. reply'.res # "stop"
      BY <1>3 DEF cont, step, Return, Err
    <2> QED
      BY <1>0, <2>1, <2>2
  <1>4. CASE request_stop
    <2>1. /\ UNCHANGED <<mem, rip, tf, alive, call, reply, pending, sw, due>>
          /\ raised' = raised \/ raised' = [raised EXCEPT ![BreakIn] = ev("Other", BreakIn, NoAddr)]
          /\ Counted(hist.dropped, {})
      BY <1>4 DEF request_stop, DebugBreakProcess, backend
    <2>2. hist'.broken = hist.broken /\ hist'.over = hist.over
      <3>1. \A d : Counted(d, {}) => hist'.broken = hist.broken /\ hist'.over = hist.over
        BY <1>t DEF Counted, History
      <3> QED
        BY <2>1, <3>1
    <2>3. \A u \in Thread : raised'[u] = raised[u]
      BY <1>t, <2>1, ThreadAssumption DEF ProcessTyped, Thr
    <2>4. call.op = "over" => call.event.tid \in Thread
      BY DEF OverTyped, Typed, OverAtBreakpoint
    <2> QED
      BY <2>1, <2>2, <2>3, <2>4 DEF StepOverInv, OverInv, SteppedOver, HitReply
  <1>5. CASE refused
    BY <1>0, <1>i, <1>5 DEF refused, Err
  <1>6. ASSUME NEW a \in Code, set_breakpoint_sw(a) \/ remove_breakpoint_sw(a) PROVE StepOverInv'
    BY <1>0, <1>i, <1>6 DEF set_breakpoint_sw, remove_breakpoint_sw, Ready, others
  <1>7. ASSUME NEW a \in Code, set_breakpoint_hw(a) \/ remove_breakpoint_hw(a) PROVE StepOverInv'
    BY <1>0, <1>i, <1>7 DEF set_breakpoint_hw, remove_breakpoint_hw, Ready, Err
  <1>8. ASSUME NEW a \in Code, write_memory(a, "new") \/ write_registers(a) PROVE StepOverInv'
    BY <1>0, <1>i, <1>8 DEF write_memory, write_registers, Ready, others
  <1> QED
    BY <1>1, <1>2, <1>3, <1>4, <1>5, <1>6, <1>7, <1>8

\* Every step.
LEMMA StepOverStep == OverTyped /\ StepOverInv /\ [Next]_vars => StepOverInv'
  <1> SUFFICES ASSUME OverTyped, StepOverInv, [Next]_vars PROVE StepOverInv'
    OBVIOUS
  <1>1. CASE UNCHANGED vars
    BY <1>1 DEF vars, process, backend, StepOverInv, OverInv, SteppedOver, HitReply
  <1> QED
    BY <1>1, ThreadsStepOver, WaitsStepOver, CallsStepOver DEF Next

(***************************************************************************)
(* A hit that cont() reports was executed with the breakpoint live again,  *)
(* for any number of threads: the int3 is lifted for the one instruction   *)
(* and its thread traps behind it. (translate_stop_and_rearm)              *)
(***************************************************************************)
THEOREM NativeSteppedOver == Spec => []SteppedOver
  <1>1. Init => OverTyped
    BY InitTyped DEF OverTyped, Typed, Init, BreakpointInv, BreakpointsSound, Armed, CleanText,
       LiftedByte, Over, NoCall, Empty, SkipInv, CallsAttached, PendingDelivered, UntracedNoHits,
       HitIsDue, Hit, NoSilentSkip, Idle, Thr
  <1>2. Init => StepOverInv
    BY DEF Init, StepOverInv, OverInv, NoCall, SteppedOver, HitReply
  <1>3. OverTyped /\ [Next]_vars => OverTyped'
    BY NextTyped, BreakpointStep, SkipStep DEF OverTyped
  <1>4. StepOverInv => SteppedOver
    BY DEF StepOverInv
  <1> QED
    BY <1>1, <1>2, <1>3, <1>4, StepOverStep, PTL DEF Spec
=============================================================================
