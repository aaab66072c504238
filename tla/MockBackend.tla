----------------------------- MODULE MockBackend -----------------------------
(***************************************************************************)
(* The backend without a process that the GUI and its tests run on,        *)
(* irida-ui/mock/src/mock_backend.cpp: a constant stream of instructions,  *)
(* a program counter that walks it, two registers that move, a breakpoint  *)
(* list.  The state is one record, an entry of the vtable maps it to the   *)
(* next one.                                                               *)
(*                                                                         *)
(* Abstracted: the instructions' text, the registers that never move, the  *)
(* memory blob.  rax and rcx are kept as their distance from reset_regs's  *)
(* values, rax in units of 0x10.                                           *)
(***************************************************************************)
EXTENDS Integers, Sequences, FiniteSetsExt, SequencesExt

CONSTANTS
  kStream,       \* the addresses of the instructions, ascending
  Calls,         \* the indices of those that are calls
  MaxEpoch       \* bound on the stop-epoch

ASSUME StreamAssumption ==
  /\ kStream \in Seq(Nat \ {0}) /\ Len(kStream) > 1
  /\ \A i, j \in DOMAIN kStream : i < j => kStream[i] < kStream[j]
  /\ Calls \subseteq 1 .. Len(kStream)
  /\ MaxEpoch \in Nat

\* irida_mock_create: the static state starts over; ip_index keeps its value,
\* and is looked up again before it is used.
mock_create == [pc |-> kStream[1], epoch |-> 1, ip_index |-> 1, rax |-> 0, rcx |-> 0,
                bps |-> << >>]

\* Where an instruction is in code, and the code from there on: nothing when the
\* address is not that of an instruction.
IndexIn(code, addr) == CHOOSE i \in DOMAIN code : code[i] = addr
CodeFrom(code, addr) ==
  IF addr \in ToSet(code) THEN SubSeq(code, IndexIn(code, addr), Len(code)) ELSE << >>

\* The index of pc in the stream, or the last one that was found.
find_index(m) ==
  IF m.pc \in ToSet(kStream) THEN [m EXCEPT !.ip_index = IndexIn(kStream, m.pc)] ELSE m

\* The instruction after ip_index, or pc at the end of the stream.
Following(m) == IF m.ip_index < Len(kStream) THEN kStream[m.ip_index + 1] ELSE m.pc

advance_one(m) ==
  LET f == find_index(m)
  IN  [f EXCEPT !.rax = @ + 1, !.rcx = @ + 1, !.pc = Following(f), !.epoch = @ + 1]

mock_step_into(m) == advance_one(m)

\* Over a call only rax moves.
mock_step_over(m) ==
  LET f == find_index(m)
  IN  IF f.ip_index \in Calls /\ f.ip_index < Len(kStream)
      THEN [f EXCEPT !.pc = Following(f), !.rax = @ + 1, !.epoch = @ + 1]
      ELSE advance_one(f)

mock_step_out(m) == [m EXCEPT !.pc = Last(kStream), !.epoch = @ + 1]

\* To the lowest enabled breakpoint above pc, else to the last instruction.
mock_cont(m) ==
  LET above == {b.address : b \in {c \in ToSet(m.bps) : c.enabled /\ c.address > m.pc}}
  IN  [m EXCEPT !.pc = IF above = {} THEN Last(kStream) ELSE Min(above), !.epoch = @ + 1]

mock_brk(m) == [m EXCEPT !.epoch = @ + 1]

mock_restart(m) == [m EXCEPT !.pc = kStream[1], !.rax = 0, !.rcx = 0, !.epoch = @ + 1]

mock_stop(m) == [m EXCEPT !.pc = kStream[1], !.rax = 0, !.rcx = 0, !.epoch = @ + 1]

\* The first breakpoint at the address is erased, or a new one added.
mock_bp_toggle(m, addr) ==
  IF \E b \in ToSet(m.bps) : b.address = addr
  THEN [m EXCEPT !.bps = RemoveAt(@, SelectInSeq(@, LAMBDA b : b.address = addr))]
  ELSE [m EXCEPT !.bps = Append(@, [address |-> addr, enabled |-> TRUE])]

mock_bp_set_enabled(m, addr, on) ==
  [m EXCEPT !.bps = [i \in DOMAIN @ |-> IF @[i].address = addr THEN [@[i] EXCEPT !.enabled = on]
                                        ELSE @[i]]]

mock_disasm(addr) == CodeFrom(kStream, addr)

\* The registers that move, in the order of the register file.
mock_registers(m) == <<m.rax, m.rcx>>

\* pc, the last instruction but one, and a caller in another module.
mock_backtrace(m, caller) == <<m.pc, kStream[Len(kStream) - 1], caller>>
=============================================================================
