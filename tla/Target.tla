------------------------------- MODULE Target -------------------------------
(***************************************************************************)
(* Target (target.cpp): the orchestrator that owns a Backend, numbers the  *)
(* guest's halts with the stop-epoch and serves registers and memory as    *)
(* the snapshot of one epoch.  Calls are synchronous: the guest runs only  *)
(* inside cont()/step(), or after a backend lost track of a resumed guest. *)
(***************************************************************************)
EXTENDS MemoryCache

CONSTANTS
  RegVal,    \* decoded register sets, told apart only by identity
  InitMem,   \* the memories a guest may have at attach
  NoRegs,    \* what registers() would be before attach
  ReadLens,  \* how many bytes of a page a backend may return
  Ranges,    \* the <<addr, len>> callers ask for
  MaxMoves   \* bound: how often the guest moves

ASSUME InitMemAssumption  == InitMem \subseteq [Addr -> Byte]
ASSUME ReadLensAssumption == ReadLens \subseteq 0 .. PageSize
ASSUME RangesAssumption   == Ranges \subseteq Addr \X Nat
ASSUME MaxMovesAssumption == MaxMoves \in Nat

VARIABLES
  mem,      \* the guest's memory (environment)
  regs,     \* the guest's registers (environment)
  running,  \* the guest runs though the Target believes it is stopped
  epoch,    \* epoch_
  state,    \* *state_: the GuestState, its epoch and its registers
  reply,    \* result of the last call
  hist      \* history: see TypeOK

guest == <<mem, regs, running>>
vars == <<cur, prev, mem, regs, running, epoch, state, reply, hist>>

Memory == [Addr -> Byte]
StopKind == {"Breakpoint", "SingleStep", "Signal", "Exited", "Error", "Unknown"}
WireKind == {"Signal", "Exited", "Unknown"}
Verdict == {"changed", "same", "hang"}

ReadReplies(r) == [op : {"read"}, addr : {r[1]}, bytes : [0 .. r[2] - 1 -> Byte \cup {0}]]
ScanReplies(r) == [op : {"changed"}, addr : {r[1]}, len : {r[2]}, verdict : Verdict]

Replies ==
       [op : {"none", "err"}]
  \cup [op : {"stop"}, kind : WireKind]
  \cup (UNION { ReadReplies(r) : r \in Ranges })
  \cup (UNION { ScanReplies(r) : r \in Ranges })

(***************************************************************************)
(* hist.moves  how often the guest has moved                               *)
(* hist.clean  no flow call has failed since state was built               *)
(* hist.snap   guest memory when state was built                           *)
(* hist.was    the same one epoch earlier, and hist.wasClean: that epoch   *)
(*             ended clean                                                 *)
(***************************************************************************)
History == [moves : Nat, clean : BOOLEAN,
            snap : Memory, was : Memory, wasClean : BOOLEAN]

TypeOK ==
  /\ IsGeneration(cur)
  /\ IsGeneration(prev)
  /\ mem \in Memory
  /\ regs \in RegVal
  /\ running \in BOOLEAN
  /\ epoch \in Nat
  /\ state \in [epoch : Nat, registers : RegVal \cup {NoRegs}]
  /\ reply \in Replies
  /\ hist \in History

attached == epoch > 0

\* A caller can act: there is a Target and its thread is not caught in a scan.
Idle == attached /\ ~(reply.op = "changed" /\ reply.verdict = "hang")

Init ==
  /\ cur = NoPages
  /\ prev = NoPages
  /\ mem \in InitMem
  /\ regs \in RegVal
  /\ running = FALSE
  /\ epoch = 0
  /\ state = [epoch |-> 0, registers |-> NoRegs]
  /\ reply = [op |-> "none"]
  /\ hist = [moves |-> 0, clean |-> FALSE,
             snap |-> mem, was |-> mem, wasClean |-> FALSE]

----------------------------------------------------------------------------
(***************************************************************************)
(* The backend seen from Target (external: any class behind Backend).      *)
(***************************************************************************)
\* What read_memory may return for each of these pages: an error, or a prefix
\* of the page.
Delivered(D) ==
  { [p \in D |-> [o \in 1 .. n[p] |-> mem[p * PageSize + o - 1]]]
    : n \in [D -> ReadLens] }

Fetches(pages) == UNION { Delivered(D) : D \in SUBSET pages }

\* The guest executes: it writes at most one byte and changes its registers.
Executes ==
  /\ hist.moves < MaxMoves
  /\ \E a \in Addr, b \in Byte : mem' = [mem EXCEPT ![a] = b]
  /\ regs' \in RegVal

----------------------------------------------------------------------------
\* refresh_state, the registers having been read: the epoch advances, the
\* cache rotates, the GuestState is replaced.  moves is history.
refresh_state(moves) ==
  /\ epoch' = epoch + 1
  /\ set_epoch
  /\ state' = [epoch |-> epoch', registers |-> regs']
  /\ hist' = [moves |-> moves, clean |-> TRUE,
              snap |-> mem', was |-> hist.snap, wasClean |-> hist.clean]

\* Target::attach: without a register read there is no Target.
attach ==
  /\ epoch = 0
  /\ UNCHANGED guest
  /\ refresh_state(hist.moves)
  /\ reply' = [op |-> "none"]

to_proto_stop_reply(kind) ==
  CASE kind \in {"Breakpoint", "SingleStep", "Signal"} -> "Signal"
    [] kind = "Exited" -> "Exited"
    [] OTHER -> "Unknown"

(***************************************************************************)
(* cont() and step() differ only in the backend call they make.            *)
(***************************************************************************)
\* The backend ran the guest to a halt and the registers were read.
FlowHalts ==
  /\ Idle
  /\ Executes
  /\ running' = FALSE
  /\ refresh_state(hist.moves + 1)
  /\ \E kind \in StopKind :
       reply' = [op |-> "stop", kind |-> to_proto_stop_reply(kind)]

\* Mutant: a failed register read still advances the epoch.
FlowUnreadableBumps ==
  /\ Idle
  /\ Executes
  /\ running' = FALSE
  /\ epoch' = epoch + 1
  /\ reply' = [op |-> "err"]
  /\ hist' = [hist EXCEPT !.moves = @ + 1, !.clean = FALSE]
  /\ UNCHANGED <<cur, prev, state>>

\* The guest halted, but read_registers failed: an error, and nothing kept.
FlowUnreadable ==
  /\ Idle
  /\ Executes
  /\ running' = FALSE
  /\ reply' = [op |-> "err"]
  /\ hist' = [hist EXCEPT !.moves = @ + 1, !.clean = FALSE]
  /\ UNCHANGED <<cur, prev, epoch, state>>

\* The backend resumed the guest and then failed (a timeout, a lost event).
FlowLost ==
  /\ Idle
  /\ ~running
  /\ Executes
  /\ running' = TRUE
  /\ reply' = [op |-> "err"]
  /\ hist' = [hist EXCEPT !.moves = @ + 1, !.clean = FALSE]
  /\ UNCHANGED <<cur, prev, epoch, state>>

\* The backend failed without resuming the guest.
FlowRefused ==
  /\ Idle
  /\ reply' = [op |-> "err"]
  /\ UNCHANGED <<cur, prev, guest, epoch, state, hist>>

cont_step == FlowHalts \/ FlowUnreadable \/ FlowLost \/ FlowRefused

\* read_memory: GuestState::read, MemoryCache::read.
read_memory(addr, len) ==
  /\ Idle
  /\ \E fetched \in Fetches(Missing(addr, ReadIndices(addr, len))) :
       LET got == read_page(fetched)
       IN  /\ cur' = Keep(addr, ReadReached(addr, len, got), got)
           /\ reply' = IF ReadOk(addr, len, got)
                       THEN [op |-> "read", addr |-> addr,
                             bytes |-> ReadBytes(addr, len, got)]
                       ELSE [op |-> "err"]
  /\ UNCHANGED <<prev, guest, epoch, state, hist>>

\* memory_changed: MemoryCache::changed_since_last_epoch.
memory_changed(addr, len) ==
  /\ Idle
  /\ \/ /\ len = 0
        /\ reply' = [op |-> "changed", addr |-> addr, len |-> len, verdict |-> "same"]
        /\ UNCHANGED cur
     \/ /\ len > 0
        /\ \E fetched \in Fetches(Missing(addr, ScanIndices(addr, len))) :
             LET got == read_page(fetched)
             IN  /\ reply' = [op |-> "changed", addr |-> addr, len |-> len,
                              verdict |-> ScanVerdict(addr, len, got)]
                 /\ cur' = Keep(addr, ScanReached(addr, len, got), got)
  /\ UNCHANGED <<prev, guest, epoch, state, hist>>

----------------------------------------------------------------------------
\* Environment: a guest the backend lost keeps executing, and halts unseen.
LostGuestRuns ==
  /\ running
  /\ Executes
  /\ hist' = [hist EXCEPT !.moves = @ + 1]
  /\ UNCHANGED <<cur, prev, running, epoch, state, reply>>

LostGuestHalts ==
  /\ running
  /\ running' = FALSE
  /\ UNCHANGED <<cur, prev, mem, regs, epoch, state, reply, hist>>

\* A scan caught in an endless loop: every page is cached, nothing changes.
Spin ==
  /\ attached /\ ~Idle
  /\ UNCHANGED vars

Next ==
  \/ attach
  \/ cont_step
  \/ \E r \in Ranges : read_memory(r[1], r[2])
  \/ \E r \in Ranges : memory_changed(r[1], r[2])
  \/ LostGuestRuns
  \/ LostGuestHalts
  \/ Spin

Spec == Init /\ [][Next]_vars

----------------------------------------------------------------------------
(***************************************************************************)
(* Properties                                                              *)
(***************************************************************************)
\* The bytes of page p in memory m.
PageBytes(m, p) == [o \in 1 .. PageSize |-> m[p * PageSize + o - 1]]

\* bytes is what a backend may have returned for page p of memory m.
PartOf(bytes, m, p) ==
  /\ Len(bytes) <= PageSize
  /\ \A o \in 1 .. Len(bytes) : bytes[o] = m[p * PageSize + o - 1]

(***************************************************************************)
(* As long as no flow call has failed since the last refresh_state, what   *)
(* the Target holds is the guest as it stands: the registers are the       *)
(* guest's and every cached page holds the guest's bytes, whenever in the  *)
(* epoch it was read.  (cont/step, refresh_state, set_epoch, read_page)    *)
(***************************************************************************)
LiveSnapshot ==
  hist.clean => /\ ~running
                /\ state.registers = regs
                /\ \A p \in DOMAIN cur : PartOf(cur[p], mem, p)

(***************************************************************************)
(* prev_ describes the epoch just before this one and no older one: each   *)
(* of its pages holds the bytes the guest had there during that epoch.     *)
(* (set_epoch drops the older generation; a failed refresh rotates nothing)*)
(***************************************************************************)
PreviousGeneration ==
  hist.wasClean => \A p \in DOMAIN prev : PartOf(prev[p], hist.was, p)

ScannedPages == { PageAfter(reply.addr, i) : i \in ScanIndices(reply.addr, reply.len) }

Comparable == reply.op = "changed" /\ reply.len > 0 /\ hist.clean /\ hist.wasClean

\* The addresses asked about, as a range that does not wrap, and its pages.
Asked == reply.addr .. reply.addr + reply.len - 1
AskedPages == { PageOf(a) : a \in Asked }
InOnePiece == Asked \subseteq Addr

\* Every page of the range could be read in this epoch.
AllReadable == AskedPages \subseteq DOMAIN cur

(***************************************************************************)
(* memory_changed never invents a change: when it answers true, a page it  *)
(* scans differs from the previous epoch in the guest itself, or one of    *)
(* the two reads of the page came back short.  The page need not differ    *)
(* within the range: see DiffAccurate.                                     *)
(***************************************************************************)
ChangeIsReal ==
  (Comparable /\ reply.verdict = "changed") =>
    \E p \in ScannedPages \cap DOMAIN cur \cap DOMAIN prev :
      \/ PageBytes(mem, p) # PageBytes(hist.was, p)
      \/ Len(cur[p]) # Len(prev[p])

(***************************************************************************)
(* memory_changed misses no page it has the data of: when it answers false *)
(* (or never answers) for a readable range that does not wrap, a page of   *)
(* it that was read in full in both epochs did not change, whatever pages  *)
(* without old data the scan met before it.  Pages without old data are    *)
(* the matter of DiffAccurate.                                             *)
(***************************************************************************)
NoChangeMissed ==
  (Comparable /\ reply.verdict # "changed" /\ InOnePiece /\ AllReadable) =>
    \A p \in AskedPages \cap DOMAIN prev :
      (Len(cur[p]) = PageSize /\ Len(prev[p]) = PageSize) =>
        PageBytes(mem, p) = PageBytes(hist.was, p)

(***************************************************************************)
(* What memory_cache.hpp:27-30 promises of a readable range: the answer is *)
(* "True if any byte in [addr, addr+len) differs", and "If a page wasn't   *)
(* read (cached) in one of the two epochs, it's fetched on demand so the   *)
(* diff is accurate".  The code skips a page without old data, compares    *)
(* whole pages, and does not leave the last page of the address space.     *)
(***************************************************************************)
DiffAccurate ==
  (Comparable /\ InOnePiece /\ AllReadable) =>
    reply.verdict = IF \E a \in Asked : mem[a] # hist.was[a] THEN "changed" ELSE "same"

(***************************************************************************)
(* The lazily filled cache is invisible: a Target is a StopEpoch, whose    *)
(* view is the live guest until a flow call fails.                         *)
(***************************************************************************)
Abstract == INSTANCE StopEpoch WITH
              valid <- hist.clean, registers <- state.registers

ImplementsStopEpoch == Abstract!Spec
============================================================================
