------------------------------- MODULE Session -------------------------------
(***************************************************************************)
(* The sessions behind the C ABI (irida-api/src), as the controller sees   *)
(* them: an opaque handle made by one of three creators, destroyed by the  *)
(* matching destructor, with a stop-epoch, a breakpoint table and a cached *)
(* analysis.  Each dispatcher of capi.cpp calls the entry of the session's *)
(* vtable: the live one (capi_target.cpp), the one of a static file        *)
(* (capi_static.cpp) or the mock's.                                        *)
(*                                                                         *)
(* Abstracted: the listings' rows; the breakpoint table is one address.    *)
(***************************************************************************)
EXTENDS Integers, Sequences, FiniteSets

CONSTANTS
  Session,      \* the handles a run may create
  NoSession,    \* the null handle
  MaxEpoch      \* bound on the stop-epoch of a session

Kinds == {"Mock", "Static", "Native"}
FlowOps == {"step_into", "step_over", "step_out", "continue", "break", "restart", "stop"}
BpStates == {"absent", "enabled", "disabled"}

ASSUME SessionAssumption == NoSession \notin Session /\ MaxEpoch \in Nat \ {0}

VARIABLES
  made,     \* how each handle was created, or "none"
  freed,    \* the destructors called on each handle, in order
  epoch,    \* irida_state_epoch
  bps,      \* the breakpoint table's entry for the one address
  built     \* the ctx holds the result of an analysis

sessionVars == <<made, freed, epoch, bps, built>>

\* A process with one session, opened by irida_session_create_file or
\* irida_mock_create: the epoch starts at one, the breakpoint table is empty, and
\* only the mock's constant analysis tables are there from the start.
SessionInit(first, kind) ==
  /\ made = [s \in Session |-> IF s = first THEN kind ELSE "none"]
  /\ freed = [s \in Session |-> << >>]
  /\ epoch = [s \in Session |-> 1]
  /\ bps = [s \in Session |-> "absent"]
  /\ built = [s \in Session |-> s = first /\ kind = "Mock"]

\* irida_session_create_native, when the attach succeeds.
Created(s) ==
  /\ made[s] = "none"
  /\ made' = [made EXCEPT ![s] = "Native"]
  /\ UNCHANGED <<epoch, bps, built>>

\* Whether the flow operation op may and may not advance the epoch.  The mock
\* always does.  A live session steps for all three step operations, ignores
\* the others but continue, and keeps its epoch when the target's flow fails.  A
\* static session has no flow.
Advances(s, op) ==
  CASE made[s] = "Mock" -> {TRUE}
    [] made[s] = "Native" /\ op \in {"step_into", "step_over", "step_out", "continue"} -> BOOLEAN
    [] OTHER -> {FALSE}

\* The dispatchers irida_step_into ... irida_stop.
Flow(s, op) ==
  \E moved \in Advances(s, op) :
    /\ moved => epoch[s] < MaxEpoch
    /\ epoch' = IF moved THEN [epoch EXCEPT ![s] = @ + 1] ELSE epoch
    /\ UNCHANGED <<made, freed, bps, built>>

\* irida_bp_toggle: only the mock keeps a table.  The epoch does not move.
BpToggle(s) ==
  /\ bps' = [bps EXCEPT ![s] = IF made[s] # "Mock" THEN @
                               ELSE IF @ = "absent" THEN "enabled" ELSE "absent"]
  /\ UNCHANGED <<made, freed, epoch, built>>

\* irida_bp_set_enabled: an address without a breakpoint stays without one.
BpSetEnabled(s, on) ==
  /\ bps' = [bps EXCEPT ![s] = IF made[s] # "Mock" \/ @ = "absent" THEN @
                               ELSE IF on THEN "enabled" ELSE "disabled"]
  /\ UNCHANGED <<made, freed, epoch, built>>

\* The last statement of run_analysis and IridaStaticCtx::analyze: the result
\* replaces the cached one.  The mock's stays what it is.
Stored(s) ==
  /\ built' = [built EXCEPT ![s] = TRUE]
  /\ UNCHANGED <<made, freed, epoch, bps>>

SessionTypeOK ==
  /\ made \in [Session -> Kinds \cup {"none"}]
  /\ freed \in [Session -> Seq(Kinds)]
  /\ epoch \in [Session -> 1 .. MaxEpoch]
  /\ bps \in [Session -> BpStates]
  /\ built \in [Session -> BOOLEAN]
=============================================================================
