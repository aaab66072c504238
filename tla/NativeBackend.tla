---------------------------- MODULE NativeBackend ----------------------------
(***************************************************************************)
(* NativeBackend (native_backend.cpp) over NativeDebuggee                  *)
(* (native_debuggee.cpp): attach, run control and breakpoints for a        *)
(* process debugged through the Win32 debug API.                           *)
(*                                                                         *)
(* The program is a ring of one-byte instructions.  A software breakpoint  *)
(* is the byte "cc" over an instruction; a thread that executes it raises  *)
(* a Breakpoint event with rip already past the byte, and the backend must *)
(* put the instruction back and rewind for it to be executed.  An event    *)
(* freezes every thread from the moment WaitForDebugEvent returns it until *)
(* ContinueDebugEvent, but several threads may have raised one before.     *)
(***************************************************************************)
EXTENDS Integers, FiniteSets

CONSTANTS
  NAddr,      \* number of code addresses
  Thread,     \* the program's threads
  BreakIn,    \* the thread DebugBreakProcess injects
  NoAddr,     \* an address outside the program
  NoEvent,    \* no debug event
  Incidents,  \* other event kinds a program thread may raise
  HwSlots,    \* debug registers (4)
  Faults,     \* the OS calls that may fail
  MaxCalls    \* bound: calls other than attach(), cont() and step()

ASSUME NAddrAssumption   == NAddr \in Nat \ {0, 1}
ASSUME ThreadAssumption  == BreakIn \notin Thread
ASSUME NoAddrAssumption  == NoAddr \notin 0 .. NAddr - 1
ASSUME HwSlotsAssumption == HwSlots \in Nat
ASSUME MaxCallsAssumption == MaxCalls \in Nat
ASSUME FaultsAssumption  ==
  Faults \subseteq {"attach", "detach", "read", "write", "regs", "resume", "wait"}

Code == 0 .. NAddr - 1
Where == Code \cup {NoAddr}
Thr == Thread \cup {BreakIn}
After(a) == (a + 1) % NAddr

\* A code byte: the program's, one a caller wrote over it, or int3.
Byte == {"op", "new", "cc"}

Kind == {"Breakpoint", "SingleStep", "Exception", "ExitProcess", "LoadModule", "Other"}
ASSUME IncidentsAssumption == Incidents \subseteq Kind \ {"Breakpoint", "SingleStep", "ExitProcess"}

Event == [kind : Kind, tid : Thr, at : Where]
ASSUME NoEventAssumption == NoEvent \notin Event

VARIABLES
  \* The process and the kernel's view of it.
  mem,        \* the code bytes
  rip, tf,    \* per thread: instruction pointer, trap flag
  raised,     \* per thread: the event it waits to have delivered
  brk,        \* progress of the break-in thread
  dr,         \* per thread: the address each debug register holds
  alive,      \* the process exists
  traced,     \* the process has a debugger
  \* NativeDebuggee::Impl and NativeBackend.
  attached,   \* dbg_ has a value
  pending,    \* the delivered event that was not yet continued (has_pending)
  primary,    \* primary_tid
  sw,         \* sw_bp_orig_
  hw,         \* hw_bp_slot_
  next_hw_slot,
  call,       \* the call in progress, blocked in wait_event
  reply,      \* the result of the last call
  \* History.
  text,       \* the byte the program should have at each address
  due,        \* per thread: the instruction it is to execute next
  hist        \* see below

process == <<mem, rip, tf, raised, brk, dr, alive, traced>>
backend == <<attached, pending, primary, sw, hw, next_hw_slot, call, reply>>
vars == <<process, backend, text, due, hist>>

(***************************************************************************)
(* hist.dropped  threads whose last hit was delivered and not rewound: they *)
(*               stand past an instruction they did not execute            *)
(* hist.broken   addresses whose byte the backend lost track of: an OS     *)
(*               write failed, a step-over was abandoned, a caller wrote   *)
(*               over a breakpoint or planted it twice                     *)
(* hist.over     the last cont() stepped its own hit over                  *)
(* hist.calls    how many calls MaxCalls bounds were made                  *)
(***************************************************************************)
NoCall == [op |-> "none"]

Empty == [a \in {} |-> a]
NoDr == [s \in 0 .. HwSlots - 1 |-> NoAddr]

Init ==
  /\ mem = [a \in Code |-> "op"]
  /\ rip = [t \in Thread |-> 0]
  /\ tf = [t \in Thr |-> FALSE]
  /\ raised = [t \in Thr |-> NoEvent]
  /\ brk = "gone"
  /\ dr = [t \in Thr |-> NoDr]
  /\ alive = TRUE /\ traced = FALSE
  /\ attached = FALSE /\ pending = NoEvent /\ primary = BreakIn
  /\ sw = Empty /\ hw = Empty /\ next_hw_slot = 0
  /\ call = NoCall /\ reply = [res |-> "none"]
  /\ text = mem
  /\ due = rip
  /\ hist = [dropped |-> {}, broken |-> {}, over |-> FALSE, calls |-> 0]

----------------------------------------------------------------------------
(***************************************************************************)
(* The process (external).  Threads execute unless an event is pending.    *)
(***************************************************************************)
Running == alive /\ pending = NoEvent

CanRun(t) == Running /\ raised[t] = NoEvent

ev(kind, t, at) == [kind |-> kind, tid |-> t, at |-> at]

\* int3: the event carries the byte's address, rip is past it.  Whether the
\* saved flags keep the trap flag is left open.  Undebugged, it is fatal.
Traps(t) ==
  /\ CanRun(t)
  /\ mem[rip[t]] = "cc"
  /\ IF traced
     THEN /\ raised' = [raised EXCEPT ![t] = ev("Breakpoint", t, rip[t])]
          /\ \E b \in {tf[t], FALSE} : tf' = [tf EXCEPT ![t] = b]
          /\ rip' = [rip EXCEPT ![t] = After(@)]
          /\ UNCHANGED alive
     ELSE alive' = FALSE /\ UNCHANGED <<raised, tf, rip>>
  /\ UNCHANGED <<mem, brk, dr, traced, backend, text, due, hist>>

\* An ordinary instruction; with the trap flag set it raises SingleStep, and
\* it may raise an incident (an exception, a DLL load) of its own.
Executes(t) ==
  /\ CanRun(t)
  /\ mem[rip[t]] # "cc"
  /\ rip' = [rip EXCEPT ![t] = After(@)]
  /\ due' = [due EXCEPT ![t] = After(rip[t])]
  /\ \/ /\ raised' = [raised EXCEPT ![t] =
                        IF tf[t] THEN ev("SingleStep", t, After(rip[t])) ELSE NoEvent]
        /\ tf' = [tf EXCEPT ![t] = FALSE]
     \/ /\ traced
        /\ \E k \in Incidents :
             raised' = [raised EXCEPT ![t] = ev(k, t, After(rip[t]))]
        /\ UNCHANGED tf
  /\ hist' = [hist EXCEPT !.dropped = @ \ {t}]
  /\ UNCHANGED <<mem, brk, dr, alive, traced, backend, text>>

\* The break-in thread: its creation, its breakpoint and its exit are events.
\* Its exit takes its debug registers with it.
BreakInRuns ==
  /\ CanRun(BreakIn)
  /\ brk # "gone"
  /\ IF brk = "exiting"
     THEN /\ brk' = "gone"
          /\ dr' = [dr EXCEPT ![BreakIn] = NoDr]
          /\ tf' = [tf EXCEPT ![BreakIn] = FALSE]
          /\ UNCHANGED raised
     ELSE /\ tf' = [tf EXCEPT ![BreakIn] = FALSE]
          /\ UNCHANGED dr
          /\ IF tf[BreakIn]
             THEN /\ raised' = [raised EXCEPT ![BreakIn] = ev("SingleStep", BreakIn, NoAddr)]
                  /\ UNCHANGED brk
             ELSE IF brk = "created"
             THEN /\ raised' = [raised EXCEPT ![BreakIn] = ev("Breakpoint", BreakIn, NoAddr)]
                  /\ brk' = "broke"
             ELSE /\ raised' = [raised EXCEPT ![BreakIn] = ev("Other", BreakIn, NoAddr)]
                  /\ brk' = "exiting"
  /\ UNCHANGED <<mem, rip, alive, traced, backend, text, due, hist>>

\* A thread ends the process; the debugger is told.
Exits(t) ==
  /\ CanRun(t)
  /\ alive' = FALSE
  /\ raised' = [u \in Thr |-> IF u = t /\ traced THEN ev("ExitProcess", t, NoAddr) ELSE NoEvent]
  /\ brk' = "gone"
  /\ UNCHANGED <<mem, rip, tf, dr, traced, backend, text, due, hist>>

\* DebugBreakProcess.  Bound: one break-in thread at a time.
DebugBreakProcess ==
  /\ alive
  /\ IF brk = "gone"
     THEN /\ brk' = "created"
          /\ raised' = [raised EXCEPT ![BreakIn] = ev("Other", BreakIn, NoAddr)]
     ELSE UNCHANGED <<brk, raised>>

\* The outcomes of an OS call; a code write may also be done and then fail
\* (the cache flush that follows it).
Outcome(os) == IF os \in Faults THEN {"ok", "failed"} ELSE {"ok"}
WriteOutcome == IF "write" \in Faults THEN {"ok", "failed", "unflushed"} ELSE {"ok"}

Written(m, a, b, o) == IF o = "failed" THEN m ELSE [m EXCEPT ![a] = b]

----------------------------------------------------------------------------
(***************************************************************************)
(* Waiting.  wait_event takes the event of any thread that raised one.     *)
(***************************************************************************)
Idle == call = NoCall

\* One more call; dropped threads and broken addresses join or leave.
Counted(dropped, broken) ==
  /\ hist.calls < MaxCalls
  /\ hist' = [hist EXCEPT !.calls = @ + 1, !.dropped = dropped, !.broken = @ \cup broken]

\* The hit of a breakpoint this backend planted.
Planted(e) == e.kind = "Breakpoint" /\ e.at \in DOMAIN sw

translate_kind(k) ==
  CASE k = "Breakpoint"  -> "Breakpoint"
    [] k = "SingleStep"  -> "SingleStep"
    [] k = "Exception"   -> "Signal"
    [] k = "ExitProcess" -> "Exited"
    [] OTHER             -> "Unknown"

Stop(kind, e) == [res |-> "stop", kind |-> kind, event |-> e]

\* wait_event returned t's event; it is pending afterwards iff held.
wait_event(t, held) ==
  /\ raised[t] # NoEvent
  /\ raised' = [raised EXCEPT ![t] = NoEvent]
  /\ pending' = IF held THEN raised[t] ELSE NoEvent
  /\ primary' = t

\* A hit that is delivered and not rewound leaves its thread past the byte.
DropHit(e) == hist.dropped \cup (IF e.kind = "Breakpoint" THEN {e.tid} \cap Thread ELSE {})

\* The call ends with this result.
Return(r) == call' = NoCall /\ reply' = r

Err == [res |-> "err"]

\* WaitForDebugEvent fails: the call ends, with the process running or gone.
wait_fails ==
  /\ call.op \in {"stopping", "cont", "step", "over"}
  /\ Return(Err)
  /\ hist' = IF call.op = "over"
             THEN [hist EXCEPT !.broken = @ \cup {call.event.at}, !.over = FALSE] ELSE hist
  /\ UNCHANGED <<process, attached, pending, primary, sw, hw, next_hw_slot, text, due>>
----------------------------------------------------------------------------
(***************************************************************************)
(* attach and detach                                                       *)
(***************************************************************************)
\* DebugActiveProcess and OpenProcess succeeded; the drain loop begins.
attach ==
  /\ Idle
  /\ ~attached /\ alive /\ ~traced
  /\ attached' = TRUE /\ traced' = TRUE
  /\ pending' = NoEvent /\ primary' = BreakIn
  /\ call' = [op |-> "drain"]
  /\ UNCHANGED <<mem, rip, tf, raised, brk, dr, alive, sw, hw, next_hw_slot, reply,
                 text, due, hist>>

\* One turn of the drain loop: an event arrived and is continued unexamined.
attach_drain(t) ==
  /\ call.op = "drain"
  /\ \E o \in Outcome("resume") :
       /\ wait_event(t, o # "ok")
       /\ IF o = "ok" THEN UNCHANGED <<call, reply>> ELSE Return(Err)
  /\ hist' = [hist EXCEPT !.dropped = DropHit(raised[t])]
  /\ UNCHANGED <<mem, rip, tf, brk, dr, alive, traced, attached, sw, hw, next_hw_slot, text, due>>

\* No event within the drain timeout (or the wait failed): force a stop.
attach_settle ==
  /\ call.op = "drain"
  /\ \/ "wait" \in Faults
     \/ \A t \in Thr : raised[t] = NoEvent
  /\ \/ DebugBreakProcess /\ call' = [op |-> "stopping"] /\ UNCHANGED reply
     \/ /\ ~alive \/ "attach" \in Faults
        /\ Return(Err)
        /\ UNCHANGED <<brk, raised>>
  /\ UNCHANGED <<mem, rip, tf, dr, alive, traced, attached, pending, primary, sw, hw,
                 next_hw_slot, text, due, hist>>

\* The first event after the request ends attach, whatever it is.
attach_stops(t) ==
  /\ call.op = "stopping"
  /\ wait_event(t, TRUE)
  /\ Return([res |-> "ok"])
  /\ hist' = [hist EXCEPT !.dropped = DropHit(raised[t])]
  /\ UNCHANGED <<mem, rip, tf, brk, dr, alive, traced, attached, sw, hw, next_hw_slot, text, due>>

(***************************************************************************)
(* detach: DebugActiveProcessStop, and once more from ~NativeDebuggee when *)
(* it failed.  The maps are kept and planted bytes stay in the process.    *)
(* The kernel continues the pending event; hits not yet delivered go to    *)
(* the program, which may die of them.                                     *)
(***************************************************************************)
detach ==
  LET hits == { t \in Thread : raised[t] # NoEvent /\ raised[t].kind = "Breakpoint" }
  IN  /\ Idle /\ attached
      /\ attached' = FALSE
      /\ \E first, second \in Outcome("detach") :
           /\ reply' = [res |-> IF first = "ok" THEN "ok" ELSE "err"]
           /\ IF "ok" \in {first, second}
              THEN /\ traced' = FALSE
                   /\ pending' = NoEvent
                   /\ raised' = [t \in Thr |-> NoEvent]
                   /\ alive' \in {alive} \cup (IF hits = {} THEN {} ELSE {FALSE})
                   /\ brk' = "gone"
                   /\ Counted(hist.dropped \cup hits, {})
              ELSE /\ Counted(hist.dropped, {})
                   /\ UNCHANGED <<traced, pending, raised, alive, brk>>
      /\ UNCHANGED <<mem, rip, tf, dr, primary, sw, hw, next_hw_slot, call, text, due>>

----------------------------------------------------------------------------
(***************************************************************************)
(* Run control                                                             *)
(***************************************************************************)
Stopped == Idle /\ attached /\ pending # NoEvent

\* cont: resume(), then wait_event.
cont ==
  /\ Stopped
  /\ \E o \in Outcome("resume") :
       IF o = "ok"
       THEN pending' = NoEvent /\ call' = [op |-> "cont"] /\ reply' = [res |-> "none"]
       ELSE Return(Err) /\ UNCHANGED pending
  /\ hist' = [hist EXCEPT !.over = FALSE]
  /\ UNCHANGED <<process, attached, primary, sw, hw, next_hw_slot, text, due>>

\* cont's event is no hit of a planted breakpoint: it is the reply.
cont_stops(t) ==
  /\ call.op = "cont"
  /\ wait_event(t, TRUE)
  /\ ~Planted(raised[t])
  /\ Return(Stop(translate_kind(raised[t].kind), raised[t]))
  /\ hist' = [hist EXCEPT !.dropped = DropHit(raised[t])]
  /\ UNCHANGED <<mem, rip, tf, brk, dr, alive, traced, attached, sw, hw, next_hw_slot, text, due>>

\* Mutant: rip is not rewound.
RearmWithoutRewind(t) ==
  LET e == raised[t]
  IN  /\ wait_event(t, FALSE)
      /\ Planted(e)
      /\ mem' = [mem EXCEPT ![e.at] = sw[e.at]]
      /\ tf' = [tf EXCEPT ![t] = TRUE]
      /\ call' = [op |-> "over", event |-> e]
      /\ UNCHANGED <<rip, brk, dr, alive, traced, attached, sw, hw, next_hw_slot, reply,
                     text, due, hist>>

\* Mutant: resume() where the step-over needs resume_single_step().
RearmWithoutTrap(t) ==
  LET e == raised[t]
  IN  /\ wait_event(t, FALSE)
      /\ Planted(e)
      /\ rip' = [rip EXCEPT ![t] = e.at]
      /\ mem' = [mem EXCEPT ![e.at] = sw[e.at]]
      /\ call' = [op |-> "over", event |-> e]
      /\ UNCHANGED <<tf, brk, dr, alive, traced, attached, sw, hw, next_hw_slot, reply,
                     text, due, hist>>

\* translate_stop_and_rearm up to its wait: rewind, restore, resume_single_step.
rearm_begins(t) ==
  LET e == raised[t]
  IN  /\ wait_event(t, FALSE)
      /\ Planted(e)
      /\ rip' = [rip EXCEPT ![t] = e.at]
      /\ mem' = [mem EXCEPT ![e.at] = sw[e.at]]
      /\ tf' = [tf EXCEPT ![t] = TRUE]
      /\ call' = [op |-> "over", event |-> e]
      /\ UNCHANGED <<brk, dr, alive, traced, attached, sw, hw, next_hw_slot, reply,
                     text, due, hist>>

\* The same with an OS call failing: what was done before it stays done.
rearm_fails(t) ==
  LET e == raised[t]
      rewound == rip' = [rip EXCEPT ![t] = e.at]
      restored == mem' = [mem EXCEPT ![e.at] = sw[e.at]]
      lost(bs, ts) == hist' = [hist EXCEPT !.broken = @ \cup bs, !.dropped = @ \cup ts]
  IN  /\ wait_event(t, TRUE)
      /\ Planted(e)
      /\ Return(Err)
      /\ \/ "regs" \in Faults /\ UNCHANGED <<rip, mem, tf>> /\ lost({}, {t})
         \/ "write" \in Faults /\ rewound /\ UNCHANGED <<mem, tf>> /\ lost({}, {})
         \/ "write" \in Faults /\ rewound /\ restored /\ UNCHANGED tf /\ lost({e.at}, {})
         \/ /\ "resume" \in Faults /\ rewound /\ restored /\ lost({e.at}, {})
            /\ \E b \in {tf[t], TRUE} : tf' = [tf EXCEPT ![t] = b]
      /\ UNCHANGED <<brk, dr, alive, traced, attached, sw, hw, next_hw_slot, text, due>>

\* Mutant: the breakpoint is not written back.
RearmForgotten(t) ==
  /\ call.op = "over"
  /\ wait_event(t, TRUE)
  /\ Return(Stop("Breakpoint", call.event))
  /\ hist' = [hist EXCEPT !.dropped = DropHit(raised[t]),
                          !.over = t = call.event.tid /\ raised[t].kind # "Breakpoint"]
  /\ UNCHANGED <<mem, rip, tf, brk, dr, alive, traced, attached, sw, hw, next_hw_slot, text, due>>

\* The step-over's wait returned an event, which is looked at no further:
\* the 0xCC is written back and the reply is the original hit.
rearm_ends(t) ==
  LET a == call.event.at
  IN  /\ call.op = "over"
      /\ wait_event(t, TRUE)
      /\ \E o \in WriteOutcome :
           /\ mem' = Written(mem, a, "cc", o)
           /\ Return(IF o = "ok" THEN Stop("Breakpoint", call.event) ELSE Err)
           /\ hist' = [dropped |-> DropHit(raised[t]),
                       broken |-> hist.broken \cup (IF o = "failed" THEN {a} ELSE {}),
                       over |-> t = call.event.tid /\ raised[t].kind # "Breakpoint",
                       calls |-> hist.calls]
      /\ UNCHANGED <<rip, tf, brk, dr, alive, traced, attached, sw, hw, next_hw_slot, text, due>>

translate_stop_and_rearm(t) ==
  \/ call.op = "cont" /\ (rearm_begins(t) \/ rearm_fails(t))
  \/ rearm_ends(t)

\* step: resume_single_step sets the trap flag of the pending thread.
step ==
  /\ Stopped
  /\ \E o \in Outcome("resume"), b \in {tf[pending.tid], TRUE} :
       /\ o = "ok" => b
       /\ tf' = [tf EXCEPT ![pending.tid] = b]
       /\ IF o = "ok"
          THEN pending' = NoEvent /\ call' = [op |-> "step"] /\ reply' = [res |-> "none"]
          ELSE Return(Err) /\ UNCHANGED pending
  /\ hist' = [hist EXCEPT !.over = FALSE]
  /\ UNCHANGED <<mem, rip, raised, brk, dr, alive, traced, attached, primary, sw, hw,
                 next_hw_slot, text, due>>

\* Whatever event comes first is reported as SingleStep.
step_stops(t) ==
  /\ call.op = "step"
  /\ wait_event(t, TRUE)
  /\ Return(Stop("SingleStep", raised[t]))
  /\ hist' = [hist EXCEPT !.dropped = DropHit(raised[t])]
  /\ UNCHANGED <<mem, rip, tf, brk, dr, alive, traced, attached, sw, hw, next_hw_slot, text, due>>

\* request_stop, possibly while another thread of the debugger is in cont().
request_stop ==
  /\ attached
  /\ DebugBreakProcess
  /\ Counted(hist.dropped, {})
  /\ UNCHANGED <<mem, rip, tf, dr, alive, traced, backend, text, due>>

----------------------------------------------------------------------------
(***************************************************************************)
(* Breakpoints and the other calls.  They need dbg_, not a stopped process.*)
(***************************************************************************)
Ready == Idle /\ attached

others == <<rip, tf, raised, brk, dr, alive, traced, attached, pending, primary, call, due>>

\* set_breakpoint(SoftwareExec): whatever byte is there is the original.
set_breakpoint_sw(a) ==
  /\ Ready
  /\ \E o \in WriteOutcome :
       /\ sw' = [x \in DOMAIN sw \cup {a} |-> IF x = a THEN mem[a] ELSE sw[x]]
       /\ mem' = Written(mem, a, "cc", o)
       /\ reply' = [res |-> IF o = "ok" THEN "ok" ELSE "err"]
       /\ Counted(hist.dropped, IF o = "failed" \/ mem[a] = "cc" THEN {a} ELSE {})
  /\ UNCHANGED <<others, hw, next_hw_slot, text>>

\* Mutant: the entry goes, the int3 stays.
RemoveWithoutRestore(a) ==
  /\ Ready
  /\ a \in DOMAIN sw
  /\ sw' = [x \in DOMAIN sw \ {a} |-> sw[x]]
  /\ reply' = [res |-> "ok"]
  /\ Counted(hist.dropped, {})
  /\ UNCHANGED <<others, mem, hw, next_hw_slot, text>>

\* remove_breakpoint(SoftwareExec): the entry goes once the byte is back.
remove_breakpoint_sw(a) ==
  /\ Ready
  /\ a \in DOMAIN sw
  /\ \E o \in WriteOutcome :
       /\ mem' = Written(mem, a, sw[a], o)
       /\ sw' = IF o = "ok" THEN [x \in DOMAIN sw \ {a} |-> sw[x]] ELSE sw
       /\ reply' = [res |-> IF o = "ok" THEN "ok" ELSE "err"]
       /\ Counted(hist.dropped, IF o = "unflushed" THEN {a} ELSE {})
  /\ UNCHANGED <<others, hw, next_hw_slot, text>>

\* The thread a debug register is written in: it must still exist.
PrimaryExists == alive /\ (primary = BreakIn => brk # "gone")

\* set_breakpoint(HardwareExec): the slot is taken before the registers of
\* the primary thread are written, and never given back.
set_breakpoint_hw(a) ==
  /\ Ready
  /\ next_hw_slot < HwSlots
  /\ next_hw_slot' = next_hw_slot + 1
  /\ \/ /\ PrimaryExists
        /\ dr' = [dr EXCEPT ![primary][next_hw_slot] = a]
        /\ hw' = [x \in DOMAIN hw \cup {a} |-> IF x = a THEN next_hw_slot ELSE hw[x]]
        /\ reply' = [res |-> "ok"]
     \/ /\ ~PrimaryExists \/ "regs" \in Faults
        /\ reply' = Err
        /\ UNCHANGED <<dr, hw>>
  /\ Counted(hist.dropped, {})
  /\ UNCHANGED <<mem, rip, tf, raised, brk, alive, traced, attached, pending, primary, sw,
                 call, text, due>>

\* remove_breakpoint(HardwareExec): the slot is cleared in the thread that is
\* primary now.
remove_breakpoint_hw(a) ==
  /\ Ready
  /\ a \in DOMAIN hw
  /\ \/ /\ PrimaryExists
        /\ dr' = [dr EXCEPT ![primary][hw[a]] = NoAddr]
        /\ hw' = [x \in DOMAIN hw \ {a} |-> hw[x]]
        /\ reply' = [res |-> "ok"]
     \/ /\ ~PrimaryExists \/ "regs" \in Faults
        /\ reply' = Err
        /\ UNCHANGED <<dr, hw>>
  /\ Counted(hist.dropped, {})
  /\ UNCHANGED <<mem, rip, tf, raised, brk, alive, traced, attached, pending, primary, sw,
                 next_hw_slot, call, text, due>>

\* write_memory, on one code byte: planted breakpoints are not looked at.
write_memory(a, b) ==
  /\ Ready
  /\ \E o \in WriteOutcome :
       /\ mem' = Written(mem, a, b, o)
       /\ text' = Written(text, a, b, o)
       /\ reply' = [res |-> IF o = "ok" THEN "ok" ELSE "err"]
       /\ Counted(hist.dropped, IF o # "failed" /\ a \in DOMAIN sw THEN {a} ELSE {})
  /\ UNCHANGED <<others, sw, hw, next_hw_slot>>

\* write_registers, as far as it moves the primary thread.
write_registers(a) ==
  /\ Ready
  /\ primary \in Thread
  /\ rip' = [rip EXCEPT ![primary] = a]
  /\ due' = [due EXCEPT ![primary] = a]
  /\ Counted(hist.dropped \ {primary}, {})
  /\ reply' = [res |-> "ok"]
  /\ UNCHANGED <<mem, tf, raised, brk, dr, alive, traced, attached, pending, primary, sw, hw,
                 next_hw_slot, call, text>>

\* The calls that fail and change nothing: without a debuggee, without a
\* pending event, for a breakpoint that is not there or not supported, or
\* because the OS refused.
refused ==
  /\ Idle
  /\ reply' = Err
  /\ UNCHANGED <<process, attached, pending, primary, sw, hw, next_hw_slot, call, text, due, hist>>

----------------------------------------------------------------------------
\* No event will ever come from a process that is gone.
NothingToWaitFor == ~alive /\ \A t \in Thr : raised[t] = NoEvent

Waits ==
  \/ \E t \in Thr : attach_drain(t)
  \/ attach_settle
  \/ \E t \in Thr : attach_stops(t)
  \/ \E t \in Thr : cont_stops(t)
  \/ \E t \in Thr : translate_stop_and_rearm(t)
  \/ \E t \in Thr : step_stops(t)
  \/ NothingToWaitFor /\ wait_fails

Process(t) == Traps(t) \/ Executes(t)

Next ==
  \/ \E t \in Thread : Process(t) \/ Exits(t)
  \/ BreakInRuns
  \/ Waits
  \/ "wait" \in Faults /\ wait_fails
  \/ attach \/ detach \/ cont \/ step \/ request_stop \/ refused
  \/ \E a \in Code : set_breakpoint_sw(a) \/ remove_breakpoint_sw(a)
  \/ \E a \in Code : set_breakpoint_hw(a) \/ remove_breakpoint_hw(a)
  \/ \E a \in Code : write_memory(a, "new") \/ write_registers(a)

(***************************************************************************)
(* The kernel runs every thread that can run, and returns from             *)
(* WaitForDebugEvent when there is an event, when the drain timeout has    *)
(* passed and when the process is gone.  Nothing forces a caller to call,  *)
(* an OS call to fail or a thread to exit.                                 *)
(***************************************************************************)
Fairness ==
  /\ \A t \in Thread : WF_vars(Process(t))
  /\ WF_vars(BreakInRuns)
  /\ WF_vars(Waits)

Spec == Init /\ [][Next]_vars
FairSpec == Spec /\ Fairness

----------------------------------------------------------------------------
(***************************************************************************)
(* Properties                                                              *)
(***************************************************************************)
\* The step-over in progress at a, if any.
Over(a) == call.op = "over" /\ call.event.at = a

\* The int3 of a planted breakpoint is in the process, unless a step-over has it
\* lifted, an OS write failed or a caller wrote over it.
Armed ==
  \A a \in DOMAIN sw \ hist.broken : ~Over(a) => mem[a] = "cc"

\* The remembered original is the program's own byte, and an address without a
\* breakpoint holds the program's own byte.
CleanText ==
  \A a \in Code \ hist.broken :
    IF a \in DOMAIN sw THEN sw[a] = text[a] ELSE mem[a] = text[a]

(***************************************************************************)
(* A planted breakpoint is live and the program gets its bytes back, over  *)
(* any sequence of plants, hits, step-overs, removals and failed calls.    *)
(* (set_breakpoint, translate_stop_and_rearm, remove_breakpoint)           *)
(***************************************************************************)
BreakpointsSound == Armed /\ CleanText

(***************************************************************************)
(* No instruction is skipped behind the caller's back: a thread that can   *)
(* execute next stands at the instruction it is to execute, unless a hit   *)
(* of it was delivered without being rewound.                              *)
(***************************************************************************)
NoSilentSkip ==
  alive => \A t \in Thread : rip[t] # due[t] =>
    \/ t \in hist.dropped
    \/ raised[t] # NoEvent /\ raised[t].kind = "Breakpoint"

\* A stop at a planted breakpoint, as cont() reports it.
HitReply(r) ==
  r.res = "stop" /\ r.kind = "Breakpoint" /\ r.event.at \in DOMAIN sw \ hist.broken

(***************************************************************************)
(* A hit is reported after its instruction was executed exactly once and   *)
(* with the breakpoint live again, as long as the event that ended the     *)
(* step-over was the stepping thread's own.                                *)
(***************************************************************************)
SteppedOver ==
  (HitReply(reply) /\ hist.over /\ pending # NoEvent) =>
    /\ mem[reply.event.at] = "cc"
    /\ pending.tid = reply.event.tid
    /\ pending.kind # "ExitProcess" => due[pending.tid] # reply.event.at

(***************************************************************************)
(* A step-over always ends: the thread being stepped raises an event, or   *)
(* another thread does first.  (translate_stop_and_rearm waits forever)    *)
(***************************************************************************)
StepOverEnds == call.op = "over" ~> call.op # "over"

(***************************************************************************)
(* native_backend.cpp:130-132: a hit is rewound, restored, "single-step    *)
(* over the real instruction, then re-arm": when cont() reports it, the    *)
(* thread that hit it has executed the instruction.                        *)
(***************************************************************************)
HitSteppedOver ==
  (HitReply(reply) /\ pending # NoEvent) =>
    LET t == reply.event.tid
    IN  due[t] # reply.event.at \/ raised[t] # NoEvent
============================================================================
