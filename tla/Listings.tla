------------------------------ MODULE Listings ------------------------------
(***************************************************************************)
(* One session behind the C ABI in depth: what each dispatcher of          *)
(* irida-api/src/capi.cpp answers for a live session (IridaCoreCtx,        *)
(* capi_target.cpp), for a file (IridaStaticCtx, capi_static.cpp) and for  *)
(* a null handle, in any order of calls.                                   *)
(*                                                                         *)
(* A live session parses the file of its first module when a listing first *)
(* needs it; the module list and the parse may fail at that moment.  The   *)
(* Target under it is modelled in Target.tla: here its memory is the       *)
(* loaded module, its registers change with a step, and its module list    *)
(* may fail at any call.                                                   *)
(*                                                                         *)
(* Abstracted: text columns; the functions below the analysis's roots,     *)
(* which are Analyzer.tla's subject.                                       *)
(***************************************************************************)
EXTENDS BinaryImage

CONSTANTS
  Files,               \* what may be on disk
  Bases,               \* where the loader may put the module
  Stops,               \* where a step may lead, relative to the module
  Stacks,              \* stack memory: address -> [saved_rbp, ret_addr], where readable
  FramePointers,       \* values of rbp
  Lengths,             \* byte counts of a memory read
  ScanData,            \* buffers handed to scan_strings directly
  Counts,              \* instruction counts of a disassembly
  MaxBacktraceFrames,  \* kMaxBacktraceFrames
  StringsScanCap       \* kStringsScanCap

ASSUME ListingsAssumption ==
  /\ \A f \in Files : IsFile(f)
  /\ \A stack \in Stacks : stack \in [DOMAIN stack -> [saved_rbp : Nat, ret_addr : Nat]]
  /\ Bases \subseteq Nat /\ Stops \subseteq Nat /\ FramePointers \subseteq Nat
  /\ Lengths \subseteq Nat /\ Counts \subseteq Nat /\ ScanData \subseteq Seq(Nat)
  /\ MaxBacktraceFrames \in Nat /\ StringsScanCap \in Nat \ {0}

VARIABLES
  kind,          \* "none" before creation, then "Static", "Native" or "null"
  disk,          \* the file
  base,          \* where the live module is loaded
  rip, rbp,      \* the live registers
  main_bin,      \* main_bin (live) or bin (static)
  binary_parsed, \* the parse was attempted
  symbol_map,    \* runtime address -> display name
  analysis,      \* the functions of the last analysis: address -> name
  told,          \* what the binary listings said so far: {}, or "some" and "none"
  answer         \* the last call: its operation, argument and rows

ctx == <<main_bin, binary_parsed, symbol_map, analysis>>
live == <<disk, base, rip, rbp>>
vars == <<kind, live, ctx, told, answer>>

NoNames == << >>
NoAnalysis == [functions |-> << >>, xrefs |-> {}]
NoAnswer == [op |-> "none", arg |-> 0, rows |-> << >>]
Replied(op, arg, rows) == answer' = [op |-> op, arg |-> arg, rows |-> rows]

Init ==
  /\ kind = "none"
  /\ disk \in Files /\ base \in Bases
  /\ rip = 0 /\ rbp = 0
  /\ main_bin = NoBinary /\ binary_parsed = FALSE /\ symbol_map = NoNames /\ analysis = NoAnalysis
  /\ told = {} /\ answer = NoAnswer

-----------------------------------------------------------------------------
(* Creation                                                                  *)

\* irida_session_create_file: the file must open, have bytes and parse.  The
\* symbol map is built here, the analysis is not.
create_file ==
  /\ kind = "none"
  /\ IF disk.readable /\ disk.bytes # << >> /\ disk.parses
     THEN /\ kind' = "Static"
          /\ main_bin' = parse_file(disk)
          /\ binary_parsed' = TRUE
          /\ symbol_map' = static_symbol_map(main_bin')
     ELSE kind' = "null" /\ UNCHANGED <<main_bin, binary_parsed, symbol_map>>
  /\ UNCHANGED <<live, analysis, told, answer>>

\* irida_session_create_native, when the attach succeeds: nothing is parsed yet.
create_native ==
  /\ kind = "none"
  /\ disk.parses /\ Loadable(disk)      \* the process was loaded from it
  /\ kind' = "Native"
  /\ rip' = base + disk.entrypoint - disk.imagebase
  /\ rbp' \in FramePointers
  /\ UNCHANGED <<disk, base, ctx, told, answer>>

\* Either destructor: ctx and session go, and with them every row.
destroy ==
  /\ kind \in {"Static", "Native", "null"}
  /\ kind' = "none"
  /\ rip' = 0 /\ rbp' = 0
  /\ main_bin' = NoBinary /\ binary_parsed' = FALSE
  /\ symbol_map' = NoNames /\ analysis' = NoAnalysis
  /\ told' = {} /\ answer' = NoAnswer
  /\ UNCHANGED <<disk, base>>

-----------------------------------------------------------------------------
(* The live target                                                          *)

Module == [name |-> disk.path, base |-> base, size |-> ImageSize(disk)]

\* target.modules(): it fails, or is empty while the process starts, or has the
\* main module first.
ModuleLists == {[ok |-> FALSE, list |-> << >>], [ok |-> TRUE, list |-> << >>],
                [ok |-> TRUE, list |-> <<Module>>]}

\* target.read_memory: all of the range, or an error (no bytes).
LiveBytes(addr, n) ==
  IF base <= addr /\ addr + n <= base + ImageSize(disk)
  THEN [i \in 1 .. n |-> LoadedByte(disk, addr + i - 1 - base)]
  ELSE << >>

\* Mutant of ensure_binary_parsed: only a parse that succeeded is remembered.
EnsureRetries(modules) ==
  IF binary_parsed \/ modules.list = << >> \/ ~disk.readable
  THEN UNCHANGED <<main_bin, binary_parsed, symbol_map>>
  ELSE /\ binary_parsed' = TRUE
       /\ main_bin' = parse_file(disk)
       /\ symbol_map' = build_symbol_map(main_bin', modules.list[1].base, main_bin'.image_base)

\* IridaCoreCtx::ensure_binary_parsed, with the module list it gets.  The file
\* may have become unreadable since it was loaded.
ensure_binary_parsed(modules) ==
  IF binary_parsed THEN UNCHANGED <<main_bin, binary_parsed, symbol_map>>
  ELSE /\ binary_parsed' = TRUE
       /\ IF modules.list = << >> \/ ~disk.readable
          THEN UNCHANGED <<main_bin, symbol_map>>
          ELSE /\ main_bin' = parse_file(disk)
               /\ symbol_map' = build_symbol_map(main_bin', modules.list[1].base, main_bin'.image_base)

\* Steps and continue: the target re-reads its registers.
core_flow ==
  /\ kind = "Native"
  /\ rip' \in {base + r : r \in Stops}
  /\ rbp' \in FramePointers
  /\ UNCHANGED <<kind, disk, base, ctx, told, answer>>

core_registers ==
  /\ kind = "Native"
  /\ Replied("registers", 0, <<[name |-> "rip", value |-> rip], [name |-> "rbp", value |-> rbp]>>)
  /\ UNCHANGED <<kind, live, ctx, told>>

\* core_modules, core_maps and core_threads copy what the target lists; a
\* failed call leaves the rows of the last one alone and returns none.
core_listing ==
  /\ kind = "Native"
  /\ \/ \E m \in ModuleLists : Replied("modules", 0, m.list)
     \/ \E ok \in BOOLEAN :
          \/ Replied("maps", 0, IF ok THEN <<[start |-> base, end |-> base + ImageSize(disk)]>> ELSE << >>)
          \/ Replied("threads", 0, IF ok THEN <<[tid |-> 1, pc |-> rip]>> ELSE << >>)
  /\ UNCHANGED <<kind, live, ctx, told>>

\* Mutant of Saved: a frame that points to itself is followed.
SavedOrSelf(stack, fp) ==
  IF fp \notin DOMAIN stack \/ stack[fp].saved_rbp < fp \/ stack[fp].ret_addr = 0 THEN << >>
  ELSE <<[pc |-> stack[fp].ret_addr, frame_ptr |-> stack[fp].saved_rbp]>>

\* The frame saved at fp: none when it cannot be read, does not ascend or has no
\* return address.
Saved(stack, fp) ==
  IF fp \notin DOMAIN stack \/ stack[fp].saved_rbp <= fp \/ stack[fp].ret_addr = 0 THEN << >>
  ELSE <<[pc |-> stack[fp].ret_addr, frame_ptr |-> stack[fp].saved_rbp]>>

\* The frames of core_backtrace after n turns of its loop: the current one, then
\* the saved ones up to the first that is missing.
FramesOf(stack) ==
  LET rows[n \in 0 .. MaxBacktraceFrames] ==
        IF n = 0 THEN <<[pc |-> rip, frame_ptr |-> rbp]>>
        ELSE rows[n - 1] \o Saved(stack, Last(rows[n - 1]).frame_ptr)
  IN  rows[MaxBacktraceFrames]

core_backtrace ==
  /\ kind = "Native"
  /\ \E stack \in Stacks : Replied("backtrace", stack, FramesOf(stack))
  /\ UNCHANGED <<kind, live, ctx, told>>

-----------------------------------------------------------------------------
(* Listings both kinds serve                                                 *)

\* Where the session's addresses begin.
Start == IF kind = "Native" THEN base ELSE disk.imagebase

\* The instruction the loaded image has at relative address r.
InsnAt(r) ==
  decode_one([i \in 1 .. MaxInsnBytes |-> LoadedByte(disk, r + i - 1)], Start + r)

\* What the caller asks about: addresses in and just outside the image.
Addresses == Start - 1 .. Start + ImageSize(disk)

Read(addr, n) ==
  IF kind = "Native" THEN LiveBytes(addr, n) ELSE read_at(main_bin, disk.bytes, addr, n)

\* irida_read_memory
read_memory ==
  /\ kind \in {"Native", "Static"}
  /\ \E addr \in Addresses, n \in Lengths :
       Replied("read", <<addr, n>>, Read(addr, n))
  /\ UNCHANGED <<kind, live, ctx, told>>

\* The capacity of a std::vector after n push_backs, when `reserved` were reserved:
\* it doubles when they are used up, and the elements move.
Capacity(reserved, n) ==
  LET room[k \in 0 .. n] ==
        IF k = 0 THEN reserved
        ELSE IF k <= room[k - 1] THEN room[k - 1] ELSE Max({1, 2 * room[k - 1]})
  IN  room[n]

\* core_disasm and static_disasm: a row's annotation points into insn_annot, to
\* where the name was when the row was built.
RowsOf(insns, names) ==
  LET named(i) == operand_target(insns[i]) \in DOMAIN names
      upto(i) == Cardinality({k \in 1 .. i : named(k)})
  IN  [i \in DOMAIN insns |->
         [address |-> insns[i].address,
          length |-> insns[i].length,
          annotation |-> IF named(i) THEN names[operand_target(insns[i])] ELSE << >>,
          alive |-> named(i) => Capacity(Len(insns), upto(i)) = Capacity(Len(insns), upto(Len(insns)))]]

\* core_disasm: the symbols are parsed only when an operand has a target.
core_disasm ==
  /\ kind = "Native"
  /\ \E addr \in Addresses, count \in Counts, modules \in ModuleLists :
       LET bytes == LiveBytes(addr, count * MaxInsnBytes)
           insns == IF count = 0 \/ bytes = << >> THEN << >> ELSE decode_linear(bytes, addr, count)
       IN  /\ IF \E insn \in Range(insns) : operand_target(insn) # NoTarget
              THEN ensure_binary_parsed(modules)
              ELSE UNCHANGED <<main_bin, binary_parsed, symbol_map>>
           /\ Replied("disasm", <<addr, count>>, RowsOf(insns, symbol_map'))
  /\ UNCHANGED <<kind, live, analysis, told>>

static_disasm ==
  /\ kind = "Static"
  /\ \E addr \in Addresses, count \in Counts :
       LET bytes == read_at(main_bin, disk.bytes, addr, count * MaxInsnBytes)
           insns == IF count = 0 \/ bytes = << >> THEN << >> ELSE decode_linear(bytes, addr, count)
       IN  Replied("disasm", <<addr, count>>, RowsOf(insns, symbol_map))
  /\ UNCHANGED <<kind, live, ctx, told>>

SectionRows(bin) ==
  [i \in DOMAIN bin.sections |->
     [name |-> bin.sections[i].name, vaddr |-> bin.sections[i].vaddr,
      vsize |-> bin.sections[i].vsize, perms |-> bin.sections[i].perms]]

ImportRows(bin) ==
  [i \in DOMAIN bin.imports |->
     [name |-> bin.imports[i].name, library |-> bin.imports[i].library,
      addr |-> bin.imports[i].iat_addr]]

ExportRows(bin) == bin.exports

SymbolRows(bin) == bin.symbols

BinaryRows(bin) == [sections |-> SectionRows(bin), imports |-> ImportRows(bin),
                    exports |-> ExportRows(bin), symbols |-> SymbolRows(bin)]

\* The listings of the binary.  `told` collects whether the session ever served
\* the file's rows, and whether it ever served none of them.
Told(op, rows) ==
  IF BinaryRows(parse_file(disk))[op] = << >> THEN told
  ELSE told \cup {IF rows = << >> THEN "none" ELSE "some"}

core_binary ==
  /\ kind = "Native"
  /\ \E modules \in ModuleLists, op \in {"sections", "imports", "exports", "symbols"} :
       /\ ensure_binary_parsed(modules)
       /\ Replied(op, 0, BinaryRows(main_bin')[op])
       /\ told' = Told(op, answer'.rows)
  /\ UNCHANGED <<kind, live, analysis>>

static_binary ==
  /\ kind = "Static"
  /\ \E op \in {"sections", "imports", "exports", "symbols"} :
       /\ Replied(op, 0, BinaryRows(main_bin)[op])
       /\ told' = Told(op, answer'.rows)
  /\ UNCHANGED <<kind, live, ctx>>

\* One synthetic module: the file at its image base.
static_modules ==
  /\ kind = "Static"
  /\ Replied("modules", 0, <<[name |-> main_bin.path, base |-> main_bin.image_base,
                              size |-> module_size(main_bin)]>>)
  /\ UNCHANGED <<kind, live, ctx, told>>

\* The live session scans the memory of its first module, up to the cap.
Scanned == LiveBytes(base, Min({ImageSize(disk), StringsScanCap}))

core_strings ==
  /\ kind = "Native"
  /\ \E modules \in ModuleLists :
       Replied("strings", <<"bytes", base>>,
               IF modules.list = << >> \/ ImageSize(disk) = 0 THEN << >>
               ELSE scan_strings(Scanned, base))
  /\ UNCHANGED <<kind, live, ctx, told>>

\* A file is scanned as it lies on disk: offsets, not virtual addresses, are
\* added to the image base.
static_strings ==
  /\ kind = "Static"
  /\ Replied("strings", <<"bytes", main_bin.image_base>>, scan_strings(disk.bytes, main_bin.image_base))
  /\ UNCHANGED <<kind, live, ctx, told>>

\* core/binfmt's scan on a buffer of the caller's.
scan_buffer ==
  /\ kind = "none"
  /\ \E data \in ScanData : Replied("scan", data, scan_strings(data, Start))
  /\ UNCHANGED <<kind, live, ctx, told>>

-----------------------------------------------------------------------------
(* Analysis                                                                  *)

\* The result of an analysis from these roots: a function for each, named by
\* the symbol map or after its address, and the references of the branches
\* found.
ResultOf(roots, names) ==
  [functions |-> [a \in roots |-> IF a \in DOMAIN names THEN names[a] ELSE <<"fcn.", a>>],
   xrefs |-> {[from |-> a, to |-> InsnAt(a - Start).branch_target] : a \in
                {r \in roots : InsnAt(r - Start) # NoInsn /\ InsnAt(r - Start).branch_target # NoTarget}}]

\* run_analysis: rooted at the program counter and every symbol.
core_analyze ==
  /\ kind = "Native"
  /\ \E modules \in ModuleLists :
       /\ ensure_binary_parsed(modules)
       /\ analysis' = ResultOf({rip} \cup DOMAIN symbol_map', symbol_map')
  /\ Replied("analyze", 0, << >>)
  /\ UNCHANGED <<kind, live, told>>

static_analyze ==
  /\ kind = "Static"
  /\ analysis' = ResultOf(({main_bin.entry_point} \ {0}) \cup DOMAIN symbol_map, symbol_map)
  /\ Replied("analyze", 0, << >>)
  /\ UNCHANGED <<kind, live, main_bin, binary_parsed, symbol_map, told>>

\* irida_functions: a row for each function of the cached result.
functions ==
  /\ kind \in {"Native", "Static"}
  /\ Replied("functions", 0, [a \in DOMAIN analysis.functions |->
                               [addr |-> a, name |-> analysis.functions[a]]])
  /\ UNCHANGED <<kind, live, ctx, told>>

\* irida_function_blocks: none for an address that is not a function.
function_blocks ==
  /\ kind \in {"Native", "Static"}
  /\ \E fn \in {Start + r : r \in Stops} :
       Replied("function_blocks", fn,
               IF fn \in DOMAIN analysis.functions THEN <<[addr |-> fn]>> ELSE << >>)
  /\ UNCHANGED <<kind, live, ctx, told>>

\* irida_xrefs_to: the cached references that target the address.
xrefs_to ==
  /\ kind \in {"Native", "Static"}
  /\ \E addr \in Addresses :
       Replied("xrefs_to", addr, SetToSeq({x \in analysis.xrefs : x.to = addr}))
  /\ UNCHANGED <<kind, live, ctx, told>>

\* core_breakpoints, core_bp_toggle, core_bp_set_enabled: the list stays empty.
core_breakpoints ==
  /\ kind = "Native"
  /\ Replied("breakpoints", 0, << >>)
  /\ UNCHANGED <<kind, live, ctx, told>>

\* What a static session has no rows for; its flow and breakpoint calls do nothing.
inert ==
  /\ kind = "Static"
  /\ \E op \in {"registers", "maps", "threads", "breakpoints", "backtrace"} : Replied(op, 0, << >>)
  /\ UNCHANGED <<kind, live, ctx, told>>

\* Every dispatcher answers a null handle with nothing: no rows, no bytes.
null_handle ==
  /\ kind = "null"
  /\ Replied("null", 0, << >>)
  /\ UNCHANGED <<kind, live, ctx, told>>

\* The caller has copied the rows it was lent.
used ==
  /\ answer # NoAnswer
  /\ answer' = NoAnswer
  /\ UNCHANGED <<kind, live, ctx, told>>

Call ==
  \/ create_file \/ create_native \/ destroy \/ scan_buffer
  \/ core_flow \/ core_registers \/ core_listing \/ core_backtrace \/ core_disasm
  \/ core_breakpoints
  \/ core_binary \/ core_strings \/ core_analyze
  \/ static_disasm \/ static_binary \/ static_modules \/ static_strings \/ static_analyze
  \/ read_memory \/ functions \/ function_blocks \/ xrefs_to \/ inert \/ null_handle

Next == (answer = NoAnswer /\ Call) \/ used

Spec == Init /\ [][Next]_vars
-----------------------------------------------------------------------------
(* The reference: the image as the loader lays it out, and the names in it.  *)

\* Relative address r is backed by the file.
Backed(r) ==
  \E s \in Range(disk.sections) :
    /\ s.virtual_address <= r
    /\ r < s.virtual_address + Min({s.virtual_size, s.sizeof_raw_data})
    /\ s.pointerto_raw_data + r - s.virtual_address < Len(disk.bytes)

\* A read of n bytes at relative address r stays within the last page of every
\* section it begins in.
InPages(r, n) ==
  \A s \in Range(disk.sections) :
    s.virtual_address <= r /\ r < s.virtual_address + s.virtual_size => r + n <= PagesEnd(s)

\* The display names for r: an import's, else an export's, else a symbol's.
NamesFor(r) ==
  LET imports == {<<"sym.imp.", e.name>> :
                    e \in {x \in UNION {Range(t.entries) : t \in Range(disk.imports)} : x.iat_address = r}}
      exports == {<<"sym.", e.name>> : e \in {x \in Range(disk.exports) : disk.has_exports /\ x.address = r}}
      symbols == {<<"", e.name>> : e \in {x \in Range(disk.symbols) : x.value = r}}
  IN  IF imports # {} THEN imports ELSE IF exports # {} THEN exports ELSE symbols

\* Maximal runs of printable units, `step` bytes apart, in data.
Runs(data, step) ==
  LET unit(i) == /\ i >= 1 /\ i + step - 1 <= Len(data)
                 /\ is_printable(data[i]) /\ (step = 2 => data[i + 1] = 0)
  IN  {r \in [from : 1 .. Len(data), len : MinLen .. Len(data)] :
         /\ \A k \in 0 .. r.len - 1 : unit(r.from + step * k)
         /\ ~unit(r.from - step) /\ ~unit(r.from + step * r.len)}

-----------------------------------------------------------------------------
(* Properties                                                                *)

\* Where an instruction's first rip-relative operand points: the address of the
\* next instruction and the displacement.
RipPlaces(insn) ==
  LET rips == {k \in DOMAIN insn.operands :
                 insn.operands[k].kind = "Memory" /\ insn.operands[k].rip_relative}
  IN  IF rips = {} THEN {} ELSE {insn.address + insn.length + insn.operands[Min(rips)].disp}

\* No operand carries a value of its own.
NoValue(insn) ==
  \A k \in DOMAIN insn.operands :
    insn.operands[k].kind \in {"Immediate", "Pointer"} => insn.operands[k].imm = 0

\* The rows of a disassembly walk the code: each one is the instruction the
\* loaded image has there, the next starts where it ends, and they stop short of
\* `count` only where the image has no instruction or, for a file, the bytes it
\* backs end before one: a process's bytes are enough once they could be read at
\* all.  A row's annotation is still alive when the rows are returned (insn_annot
\* must not move while rows are built), and the place a rip-relative operand
\* points to gives the row the name the file has for it, wherever the module was
\* loaded, when no immediate beside it is taken instead (see TargetsAnnotated).  For
\* a file this holds as far as it could be loaded and the bytes read end with the
\* section's last page.
DisassemblyExact ==
  answer.op = "disasm" =>
    LET rows == answer.rows
        addr == answer.arg[1]
        count == answer.arg[2]
        end(i) == IF i = 0 THEN addr ELSE rows[i].address + rows[i].length
        insn(i) == InsnAt(rows[i].address - Start)
        next == InsnAt(end(Len(rows)) - Start)
        got == Len(Read(addr, count * MaxInsnBytes))
    IN  Loadable(disk) /\ (kind = "Static" => InPages(addr - Start, got)) =>
          /\ Len(rows) <= count
          /\ \A i \in DOMAIN rows :
               /\ rows[i].address = end(i - 1)
               /\ rows[i].length = insn(i).length
               /\ rows[i].alive
               /\ main_bin # NoBinary /\ NoValue(insn(i)) =>
                    \A a \in RipPlaces(insn(i)) :
                      IF NamesFor(a - Start) = {} THEN rows[i].annotation = << >>
                      ELSE rows[i].annotation \in NamesFor(a - Start)
          /\ Len(rows) < count =>
               \/ next = NoInsn
               \/ /\ kind = "Static" \/ rows = << >>
                  /\ end(Len(rows)) + next.length > addr + got

\* The session speaks of one binary for its whole life: a listing that shows the
\* file's rows never follows, or is followed by, one that shows none of them,
\* whenever the module list failed and whichever call came first; and once the
\* functions are analysed, each name of the binary is listed where it was loaded.
OneBinary ==
  /\ told # {"some", "none"}
  /\ answer.op = "functions" /\ answer.rows # << >> /\ main_bin # NoBinary =>
       \A r \in 0 .. ImageSize(disk) :
         NamesFor(r) # {} => \E row \in Range(answer.rows) : row.addr = Start + r /\ row.name \in NamesFor(r)

\* A byte read from a session is the one the loaded image has at that address,
\* for a file that could be loaded as for a process, up to the last page of the
\* section the read began in; and an address backed by the file is readable.  So
\* a read takes nothing from beyond the raw data of its section on disk.
ReadsAreMapped ==
  answer.op = "read" /\ Loadable(disk) =>
    LET r == answer.arg[1] - Start
    IN  /\ Len(answer.rows) <= answer.arg[2]
        /\ \A i \in DOMAIN answer.rows :
             kind = "Native" \/ InPages(r, i) => answer.rows[i] = LoadedByte(disk, r + i - 1)
        /\ kind = "Static" /\ Backed(r) /\ answer.arg[2] > 0 => answer.rows # << >>

\* The strings listed are the maximal runs of at least MinLen characters in
\* either encoding, each once, at their place in the scanned bytes.
StringsExact ==
  answer.op \in {"strings", "scan"} =>
    LET data == IF answer.op = "scan" THEN answer.arg
                ELSE IF kind = "Native" THEN Scanned ELSE disk.bytes
        found(utf16) == {[from |-> s.addr - Start + 1, len |-> Len(s.text)] :
                           s \in {x \in Range(answer.rows) : x.utf16 = utf16}}
    IN  answer.rows # << >> \/ kind # "Native" =>
          /\ found(FALSE) = Runs(data, 1)
          /\ found(TRUE) = Runs(data, 2)
          /\ IsInjective(answer.rows)

\* Whatever the stack holds, a backtrace starts at the registers, follows saved
\* frames to strictly higher addresses, so no frame is listed twice, and stops
\* before the cap only where the chain breaks.
BacktraceAscends ==
  answer.op = "backtrace" /\ kind = "Native" =>
    LET rows == answer.rows
        stack == answer.arg
        fp(i) == rows[i].frame_ptr
    IN  /\ 1 <= Len(rows) /\ Len(rows) <= MaxBacktraceFrames + 1
        /\ \A i \in 2 .. Len(rows) :
             fp(i - 1) < fp(i) /\ stack[fp(i - 1)] = [saved_rbp |-> fp(i), ret_addr |-> rows[i].pc]
        /\ LET last == fp(Len(rows))
           IN  Len(rows) <= MaxBacktraceFrames /\ last \in DOMAIN stack =>
                 stack[last].saved_rbp <= last \/ stack[last].ret_addr = 0

\* operand_target "Returns the address an instruction refers to": its comment says
\* an immediate operand already carries "the resolved absolute target", and "a
\* rip-relative memory operand's target is address-of-next-instruction + disp".  So
\* the row of a direct branch to a named address, and of an instruction with a
\* rip-relative operand to one, is annotated with that name.
TargetsAnnotated ==
  answer.op = "disasm" /\ main_bin # NoBinary =>
    \A i \in DOMAIN answer.rows :
      LET insn == InsnAt(answer.rows[i].address - Start)
      IN  \A a \in RipPlaces(insn) \cup ({insn.branch_target} \ {NoTarget}) :
            NamesFor(a - Start) # {} => answer.rows[i].annotation \in NamesFor(a - Start)
=============================================================================
