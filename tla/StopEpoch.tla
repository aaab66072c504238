----------------------------- MODULE StopEpoch -----------------------------
(***************************************************************************)
(* What a Target promises its callers, with no cache and no backend.       *)
(* While the view is valid the guest stands still, and registers and       *)
(* memory are answered as the guest has them at this very stop.  A flow    *)
(* call that fails may leave the view invalid: the guest may have moved,   *)
(* and until the next successful halt an answer may be anything.           *)
(***************************************************************************)
EXTENDS Integers

CONSTANTS Addr, Size, Byte, RegVal, Ranges

VARIABLES
  mem, regs,   \* the guest
  epoch,       \* number of the current view; 0 before attach
  valid,       \* the view is the guest's current stop
  registers,   \* the registers shown
  reply        \* the answer to the last call

vars == <<mem, regs, epoch, valid, registers, reply>>

Init ==
  /\ mem \in [Addr -> Byte]
  /\ regs \in RegVal
  /\ epoch = 0
  /\ valid = FALSE
  /\ reply.op = "none"

Guest == mem' \in [Addr -> Byte] /\ regs' \in RegVal

\* Attach, or a flow call that ends in a halt: a new view of the guest.
View ==
  /\ Guest
  /\ epoch' = epoch + 1
  /\ valid' = TRUE
  /\ registers' = regs'
  /\ reply'.op \in {"none", "stop"}

\* A call that reports an error. The guest may have moved, which ends the view.
Fail ==
  /\ epoch > 0
  /\ \/ UNCHANGED <<mem, regs, valid>>
     \/ Guest /\ valid' = FALSE
  /\ reply'.op = "err"
  /\ UNCHANGED <<epoch, registers>>

\* Outside a valid view the guest may move at any time.
Drift ==
  /\ ~valid
  /\ Guest
  /\ UNCHANGED <<epoch, valid, registers, reply>>

\* Memory as the guest has it; bytes the transport did not deliver are 0.
Read(addr, len) ==
  /\ epoch > 0
  /\ reply'.op = "read"
  /\ reply'.addr = addr
  /\ DOMAIN reply'.bytes = 0 .. len - 1
  /\ valid => \A i \in 0 .. len - 1 :
                reply'.bytes[i] \in {mem[(addr + i) % Size], 0}
  /\ UNCHANGED <<mem, regs, epoch, valid, registers>>

\* A verdict on what changed changes nothing itself.
Compare ==
  /\ epoch > 0
  /\ reply'.op = "changed"
  /\ UNCHANGED <<mem, regs, epoch, valid, registers>>

Next ==
  \/ View
  \/ Fail
  \/ Drift
  \/ \E r \in Ranges : Read(r[1], r[2])
  \/ Compare

Spec == Init /\ [][Next]_vars
============================================================================
