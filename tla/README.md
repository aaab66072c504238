# Irida in TLA+

TLA+ models of the Irida debugger: the stateful core of the program, model-checked
with TLC on small instances, with theorems proved by TLAPS for every value of the
constants. Source paths below are relative to the repository root.

## The system

Irida is a layered debugger: frontends (`irida-ui`) call a C ABI (`irida-api`), which
drives a core (`irida-core/core`) built on small libraries (`irida-core/libs`).

| Part | State it keeps | Operations | What makes it correct |
|---|---|---|---|
| **Target** (`core/target`) | stop-epoch, register snapshot, page cache of this and the last epoch | attach, cont, step, read_memory, memory_changed | within one epoch everything served is the halted guest; the change query compares the two generations of every page it has both of |
| **Native backend** (`core/backend`, `libs/host/native_debuggee`) | planted bytes, debug-register slots, the pending debug event | attach, cont, step, set/remove breakpoint, read/write, request_stop, detach | a listed breakpoint is armed, the program gets its bytes back, no instruction is skipped or run twice |
| **GDB client** (`core/transport`, `core/backend/gdb_backend`, `libs/protocol`, `libs/host/tcp`) | socket, decoder buffer | connect, transact for each request, disconnect | the answer returned is the answer to the request, whatever the stream does |
| **Analyzer** (`core/analysis`, `core/disasm`) | two work lists, leaders, blocks, references | analyze | the result is exactly the reachable code, partitioned into blocks with true edges |
| **Sessions** (`irida-api/src`) | handle, context, epoch, cached analysis, parsed binary, borrowed rows | create/destroy per kind, flow, breakpoints, listings, analyze | each handle is destroyed once by the right destructor; a session speaks of one binary; listings, reads and frames are what the loaded image and the stack hold |
| **Binary formats, disassembler** (`core/binfmt`, `core/disasm`) | none | parse_file, scan_strings, decode_one, decode_linear | names, sections and strings are where the file says, once it is loaded |
| **Debug controller** (`irida-ui/gui/src/session`) | current session and kind, `analyzing_`, a worker thread | slots for flow and breakpoints, setSession, runAnalysis | panels show the current state; one analysis at a time |
| **Main window** (`irida-ui/gui/src/app`) | docks, progress bar, place on the screens, the saved layout | attachToProcess, resetLayout, closeEvent, a restart | debug docks follow the kind of session; a started progress bar ends |
| **Mock backend** (`irida-ui/mock`) | pc and index in a synthetic stream, breakpoints, epoch | flow, breakpoints, listings | it stops at instructions of its stream only |
| **Views** (`irida-ui/gui/src/panels`, `widgets`, `layouts`) | table rows and marks, previous register values, graph scene, scroll position, strip range | reload, click, double click, scroll, drag, page switch, resize | what is marked, drawn and clicked is the session's state |
| Hex coding, stub backend, dialogs, theme, CLI, logging | none | | conversions, input and output |

How they interact: calls are synchronous down to the backend. The target owns its
backend and its cache; a session owns a target (or a file image); the controller owns a
session; the window owns the controller, whose `stateChanged` and `navigationRequested`
signals reload and move the views. Four places are concurrent: the debuggee's threads against the backend, the
stub and the network against the client, the analysis worker against the UI thread, and
the guest against a target whose flow call failed.

What is hard: another thread's event arriving inside a breakpoint step-over; one OS call
of several failing; late, split and corrupted replies on a stream without request
numbers; a register read failing after the guest ran; a session replaced while a worker
uses it; branch targets that land inside blocks already traced; marks kept by row number
while the rows are replaced; a layout that outlives the screens it was made for.
`PROJECT.json` lists each
hazard at its line.

## The modules

| Module | Models | Notes |
|---|---|---|
| `MemoryCache` | `memory_cache.cpp` | the operators of the cache: `set_epoch`, `read_page`, the byte-wise read with zero padding, the page scan of `changed_since_last_epoch`, including the scan that never ends on the top page |
| `Target` | `target.cpp`, `guest_state.cpp` | one action per call and outcome: `FlowHalts`, `FlowUnreadable` (the register read fails), `FlowLost` (the guest keeps running), `FlowRefused`, reads, change queries. The guest is environment |
| `StopEpoch` | the promise of `target.hpp` | abstract: a number of the stop and a view that is the live guest until a flow call fails. `Target` implements it (`ImplementsStopEpoch`, an `INSTANCE` with `cur`/`prev` hidden) |
| `NativeBackend` | `native_backend.cpp`, `native_debuggee.cpp` | threads on a ring of one-byte instructions, events raised by several threads at once, every wait a state of its own, every OS call in `Faults` able to fail |
| `GdbClient` | `gdb_client.cpp`, `gdb_backend.cpp`, `frame.cpp`, `packets.cpp`, `tcp.cpp` | the stream is a sequence of tokens (ack, head, tail); a recv returns any prefix of what is under way |
| `Analyzer` | `analysis.cpp`, the seeding in `capi_target.cpp` and `capi_static.cpp` | one action per loop iteration; the image is chosen in `Init` from all images over a set of instructions, so overlapping code is included |
| `Session` | the sessions of `irida-api/src` and of the mock | the operators the controller calls |
| `BinaryImage` | `lief_parser.cpp`, `strings.cpp`, `zydis_disassembler.cpp`, `build_symbol_map`, `read_at` | operators over a file: what the parser keeps, how the loader maps it, every visible operand of an instruction and what they refer to |
| `Listings` | `capi.cpp`, `capi_target.cpp`, `capi_static.cpp` | extends `BinaryImage`; one live, static or null session and every dispatcher in any order; the module list and the parse may fail at any moment |
| `DebugController` | `debug_controller.cpp` | extends `Session`; UI slots are atomic, the worker is a thread of its own, a use of a freed or raced session either goes through or crashes |
| `MainWindow` | `main_window.cpp`, `main.cpp` | extends `DebugController`: each of its actions is the window's reaction joined with the controller's; processes follow each other over one `saved` layout, after a close or a crash |
| `MockBackend` | `mock_backend.cpp` | its operations as operators on a record |
| `GraphLayout` | `graph_view.cpp` | the breadth-first layering, layout and edges as operators |
| `ByteViews` | `byte_overview_panel.cpp`, `byte_map_strip.cpp` | geometry, scrolling, hit testing and what the strip paints of a read that comes back short, as operators |
| `Views` | the panels, `irida_table_view.cpp`, `disassembly_view.cpp`, `byte_map_view.cpp` | composes `MockBackend` or a static session with the views: each action is a user's event, with the signals it causes delivered in it. The byte grid has the size of a child never shown (`HiddenSize`) until its page is; the strip's reads end where a static session's do |
| `TargetProofs`, `NativeBackendProofs`, `GdbClientProofs`, `AnalyzerProofs`, `ListingsProofs`, `DebugControllerProofs`, `MainWindowProofs`, `ViewsProofs` | | theorems and proofs; each extends the module it is about |
| `MC*` | | constants for TLC |

Definitions carry the names of the code where TLA+ allows it, and `PROJECT.json` maps
each to its lines. Definitions called "Mutant of ..." are not part of a specification:
each is a plausible error in the definition that follows it, used to confirm that a
property can fail.

History variables (`hist`, `text`, `due`, an answer's `id`, `told`, `before`, `seen`, `chosen`) record what the code does not
keep and the properties need: how the guest moved, which byte the program should have,
which request an answer belongs to. No action's guard reads them except to count against
a bound.

## What the runs check

| Run | Instance | Shows |
|---|---|---|
| `target` | 2 pages of 2 bytes, 2 byte values, 2 moves, short and failing page reads | `LiveSnapshot`: what the target serves is the halted guest. `PreviousGeneration`: the old generation is the last epoch's. `ChangeIsReal`, `NoChangeMissed`: the change query, page by page. `ImplementsStopEpoch` |
| `target_diff` (violated) | the same, full reads, ranges on one page | `DiffAccurate`: a page that was not read in the last epoch is rewritten, and the query says that nothing differs |
| `native` | 2 threads, 2 addresses, no faults, 2 further calls | `BreakpointsSound` (a listed breakpoint is planted, an unlisted address has the program's byte), `NoSilentSkip`, `SteppedOver`, and `StepOverEnds` under fairness |
| `native_faults` | 1 thread, 1 debug register, six OS calls may fail, 3 further calls | `BreakpointsSound` under partial failure |
| `native_stepover` (violated) | 2 threads | `HitSteppedOver`: another thread's event ends the step-over |
| `gdb` | 3 request kinds, 4 requests, 3 receives per transact, one output packet, corruption | `AnswersInOrder`, `LagIsExact`, and `TransactEnds` under fairness |
| `analyzer` | all images of 4 bytes over 7 instructions, 6 seed lists | the result against its definition by reachability: `Coverage`, `CfgSound` (edges, single entry and exit, partition), `ReferencesSound` (call graph and references, each once); `LeadersTraced`; `AnalysisEnds` |
| `session` | 30 small files, 2 load addresses, stacks with loops, 1093 buffers of up to 6 bytes | `DisassemblyExact`, `OneBinary`, `ReadsAreMapped`, `StringsExact`, `BacktraceAscends` |
| `session_targets` (violated) | the same | `TargetsAnnotated`: a direct call to a named address is listed without its name, since the raw immediate is looked up; so is a constant beside a rip-relative operand |
| `window` | a file or mock session, two attaches, two analyses, two starts, two screens | `FreedOnceByMaker`, `ViewsCurrent`, `OneAnalysis`, `DebugDocksFollowKind`, and `ProgressEnds` under fairness |
| `controller_finished` (violated) | the controller alone | `FinishedMeansBuilt`: after an attach during an analysis, "finished" is announced for a session nobody analysed |
| `views` | the mock with 3 instructions and 3 epochs; a static file with every control flow over 3 blocks, a diamond and unreachable blocks; sections with padding, a gap and too much data; 2 window sizes and a third of the page never shown | `MarksExact`, `ListedStops`, `RedIsReal`, `LayoutSound`, `NavigationVisible`, `ClickedIsPainted`, `StripExact` |

The violated runs are findings; `PROJECT.json` quotes the line each contradicts.

Some behaviours of the code limit what the passing properties can say; they are kept in
the models, and the properties name them as exceptions:

- `Target`: a halt whose registers cannot be read does not get an epoch of its own;
  `LiveSnapshot` speaks of epochs no failed flow call has ended. The change query
  compares pages, and only those read in both epochs, and may not return for a range on
  the last page; `ChangeIsReal` and `NoChangeMissed` say what that is worth, and
  `DiffAccurate`, violated in `target_diff`, what `memory_cache.hpp:27` promises.
- `NativeBackend`: a breakpoint set twice remembers 0xCC as the program's byte; a failed
  write leaves an entry without its byte; a step-over that fails half way leaves the byte
  out; a caller may write over a planted byte. `BreakpointsSound` excuses the addresses
  one of these happened to (`hist.broken`) and no others. A hit taken by another
  thread's wait, or delivered after its breakpoint was removed, is excused in
  `NoSilentSkip` (`hist.dropped`) and is what `native_stepover` shows. Hardware
  slots are handed out upwards and never returned, not even by a failed set, so the
  refusal "no free hardware breakpoint slot" (`native_backend.cpp:325`) may come with no
  such breakpoint listed.
- `GdbClient`: every failed transact puts the client one answer behind for good, the
  handshake's included, whose failure `connect` ignores as not required
  (`gdb_client.cpp:15`), and so does console output, which is returned as a stop although
  `capi_target.cpp:407` has cont and step return only at a halt. `LagIsExact` counts these.
  A transact may also give up with a good frame in its buffer: one its last receive
  brought, or one behind a frame with a wrong checksum.
- `Views`: a reload without a stop (a breakpoint toggle) clears the red of registers that
  the last step changed. `RedIsReal` says that no red is false, not that none is missing.
  A place navigated to while the byte grid is hidden is kept in rows of the hidden size
  and lost when the page is first shown at another; `NavigationVisible` speaks of one size.
  A byte of the strip is painted only if the one read of its pixel row reaches it;
  `StripExact` says that nothing else leaves one out. A row of pixels that starts in a gap
  between sections, or crosses a section's end, so shows less than "the whole image" of
  `byte_map_strip.hpp:9`; and a click below the image stands for its last byte, where
  `byte_map_strip.hpp:29` says 0.
- `Listings`: only a file the Windows loader accepts (`Loadable`) has a loaded image to
  compare with; others are opened and listed too, and the properties about the image do
  not speak of them. Beyond the last page of the section it begins in, a static read
  returns what happens to be in the file there, and so does a disassembly, although
  `capi_static.cpp:5` has both map each address through the section table. `DisassemblyExact`
  speaks of a row's annotation only when no immediate operand is looked up instead:
  `TargetsAnnotated`, violated in `session_targets`, has the rest.

### Bounds, and why they are enough

- Two pages of two bytes hold every relation a range can have to pages: inside one,
  across two, wrapping round the top, empty. Two moves give an epoch, a previous one and
  one that must have been forgotten.
- Two program threads and the break-in thread are what a step-over can be disturbed by;
  a second disturbing thread adds no new event to the one wait. Two addresses give a
  breakpoint and somewhere else. `MaxCalls` bounds only breakpoint, memory and detach
  calls: cont and step are unbounded. The fault run has one thread because the failures
  are those of sequential calls.
- Four requests give a handshake, a halt reason, a failed request and one that gets the
  late answer. `MaxAttempts` (64 in the code) is 3: enough to run out.
- Four bytes hold a two-byte instruction, a branch into its middle, a loop back into a
  traced block, a run cut by the end of the image, and a call. The instruction set has
  every flow class. `Sequential` with length one and two gives overlap that meets again.
- Three handles give two replacements, the second of a session that replaced another.
  Two starts give a layout saved by one process and restored by another; two screens, one
  that may be gone by then.
- The files have a section larger on disk than in memory, by less and by more than the
  page, one smaller, one of virtual size 0, one cut off by the end of the file, two that
  overlap in it and two that overlap in memory, and one address with an import, an export
  and a symbol. Instructions are up to 3 bytes long, with none, one or two of a register,
  an immediate, a memory and a rip-relative operand, the last two together included. The
  load addresses are the preferred one and another. Buffers of six bytes
  hold two strings of the minimum length (2 for the code's 4) in either encoding, touching
  each other or the end.
- `MaxBacktraceFrames` (64) is 2, `StringsScanCap` 18 and smaller than the largest module,
  so both limits are met.
- In `views` the three-block graphs are all of them; cells, spacing and columns are a few
  pixels wide, so that margins, partial rows, a strip row of several bytes per cell and an
  image smaller than the strip all occur. A hidden page has fewer columns than a shown one,
  so that its rows are of another width. The sizes of text stand for the fonts' metrics.

### Fairness

Safety runs assume none. `native` assumes that each program thread, the break-in thread
and the delivery of a raised event proceed (the kernel schedules them); a thread can
still be frozen by a pending event. `gdb` assumes only that the client's own loop runs: a
recv returns within its timeout, nothing is assumed of the stub. `analyzer` is one
sequential computation. `window` assumes that the worker thread runs and that Qt
delivers its queued signal; nothing is assumed of the user. `session` and `views` check
safety only.

Deadlock is not checked where the system may stop: after the analysis has returned, and
after the last process has been closed or has died; and in `views`, where the user may
stop.

## What is proved

Each theorem holds for every value of the constants, from the assumptions their modules
name: sets of numbers where the code has numbers, positive sizes, `NoEvent` and `NoAddr`
outside what they stand apart from, a `kStream` whose addresses ascend, and, in
`AnalyzerAssumption`, that an instruction has a positive length and a symbol map is finite;
in `ListingsAssumption`, that a file is what LIEF can report (a process runs one the
Windows loader accepts, which is a guard of `create_native`); in `SessionsAssumption`, that
the blocks of a function have addresses of their own (what `BlocksAreCfg` shows of the
analyzer) and a text width, and that a file's code is one run of instructions within a
section's data; in `HiddenAssumption`, that a widget never shown has a positive size. All but `NativeTyped` and
`GdbInvariant` state a property some run checks: the run shows it on one instance, the
theorem for all.

- **`TargetProofs`**. `TargetTypeOK`, `TargetLiveSnapshot`, `TargetPreviousGeneration`,
  `TargetImplementsStopEpoch`: `IInv` adds that the register snapshot was taken in this
  epoch and that the guest stands still before attach. That a read serves guest bytes
  needs that every cached page was read in this epoch, which needs that each bump
  empties the cache; lemmas on address arithmetic show that the i-th byte of a read lies
  on the page its loop visits, wrapping included. `TargetChangeIsReal`,
  `TargetNoChangeMissed`: the scan compares exactly the pages of the range that both
  generations have
  (`ScanVerdict`), and `AnswersHold` carries an answer over the steps that leave it the
  last one.
- **`NativeBackendProofs`**. `NativeBreakpointsSound` is inductive with `LiftedByte`: while
  a step-over has the int3 out, its address holds the program's byte.
  `NativeNoSilentSkip` needs `SkipInv`: an
  event that nobody has waited for stands at the instruction its thread is to execute, a
  call is under way only while attached, and the pending event's thread has raised
  nothing else. `NativeSteppedOver` needs `OverInv`: during the step-over the thread
  stands at the lifted instruction with its trap flag set, or has raised the event the
  wait will return. All are for any threads, addresses, slots and set of failing calls.
- **`GdbClientProofs`**. `StreamInv` says that what is on the way and in the decoder is
  whole frames (`Framed`) with ascending request numbers (`InOrder`) beyond those taken,
  whatever was cut, delayed or lost; `GdbAnswersInOrder` and `GdbLagIsExact`
  follow with `ReplyInv`, which counts the failed requests before an
  answer. For any number of requests, attempts and cuts.
- **`AnalyzerProofs`**. `LeadersBeginBlocks`: for every image, when `finalize` starts each
  leader has a block of its own, so the tails `split_block` builds are never stored.
  `FunctionsAreCode`, `BlocksAreCfg` and `ResultIsCallGraph` state `Coverage`, `CfgSound`
  and `ReferencesSound` for every image, instruction set and seeds, overlapping
  decodings included. The recursive definitions are first tied to what they mean:
  `Closure` is the least closed set (`ClosureIsReach`, `CallGraphIsReach`: its
  `LastAddr + 1` rounds are enough because each but the last adds an address that
  decodes), `Run` is a straight run that stops where it must (`RunFacts`), `XrefsOf` joins
  the references of its instructions (`XrefsFacts`), and the size of a function is the
  number of bytes of its blocks when these are apart (`SumOfSizes`, `BlocksApart`). The
  inductive invariant `ResultInv` then has a part for each level: the queue of blocks
  (`AnalyzerInv`), the builder's blocks, each straight and with edges to leaders
  (`BuilderOK`), the calls and references of the code traced so far (`CallsOK`,
  `XrefsOK`), the functions kept (`OuterOK`), and the queue of entries, which lies between
  the seeds and the call graph below them and loses nobody (`GraphOK`). A cut keeps the
  blocks proper because its leader already begins a block (`CutBlock`). Two choices are
  left open as in the code or the library: the order in which `std::sort` puts equal keys,
  and the order of the symbols among the seeds.
- **`ListingsProofs`**. `ListingsBacktraceAscends`: the frame walk is the run of a loop
  whose state stays a correct partial backtrace (`Walked`). `ListingsReadsAreMapped`: a
  file's session has the parsed file (`StaticBin`), and as loadable sections lie apart,
  only one of them can hold an address, so the first section `read_at` finds is the one
  the loader put there, as far as its last page. `ListingsOneBinary`: `BinaryOK` says that the session knows the
  binary (`Parsed`) or knows and told nothing (`Unparsed`), and that an analysis was made
  after the parse and names each symbol (`Covered`); `NamesKept` shows that the symbol map
  built from the flattened import tables, the exports and the symbols, where later
  insertions win, names each place as the file does. `ListingsStringsExact`: a turn of a
  pass ends one unit further or behind a run; after any turn the strings found are the runs
  that end before the place reached (`Runs` is stated without a loop), so at the end each
  maximal run was found once, and a run is told from another by its first place. The
  UTF-16 pass is the same argument over pairs at even distance. `ListingsDisassemblyExact`:
  after n turns `decode_linear` has n instructions, each behind the one before, or the next
  does not decode (`Turned`); the bytes read are those of the image (`ReadsAreMapped`'s
  lemmas), so what decodes from them is what the image has there, and what it has there is
  cut off only where a file's bytes end. The operands are those of the image's bytes in
  order (`SameOperands`), and `operand_target` reaches the first rip-relative one when no
  immediate is in its way (`RipTarget`). The annotation is the name of `NamesKept`, both
  ways: a name of the map is one the file gives, and a place the file names has one. That
  no row's text is moved away rests on the capacity reserved: no more names are stored
  than instructions were decoded.
- **`DebugControllerProofs`**. `SessionsFreedOnce`, `OneAnalysisAtATime`, `ControllerTyped`:
  `FreedOnceByMaker` is not inductive, since a session is destroyed by `session_kind_`;
  `ControllerInv` adds that this is the kind the current session was made with
  (`KindMatches`), and `SingleWorker`, which says without counting that there is at most
  one worker and `analyzing_` tells. `PanelsCurrent`: with it `ViewsCurrent` is inductive,
  because a slot that changes the session emits `stateChanged` before it returns.
- **`MainWindowProofs`**. `DocksFollowKind`, `WindowFreesOnce`,
  `WindowPanelsCurrent`, for any docks, screens, layouts and number of processes.
  `WindowInv` adds the dock rule to `ControllerInv`: every event of the window is a step
  of the controller, leaves it alone, or starts a process afresh. What a restart restores
  is unconstrained, so the proof rests on the order in the constructor: the rule is
  applied after the layout.
- **`ViewsProofs`**. `ViewsMarksExact` and `ViewsListedStops` from `TableInv`: the rows are
  those of the last listing, the marked rows are exactly those whose addresses are the pc
  and the breakpoints, and the mock stands on its stream with distinct breakpoints.
  `ViewsRedIsReal` from `Loaded`: the previous values are those of the last load.
  `ViewsNavigationVisible`, `ViewsClickedIsPainted` and `ViewsStripExact` from `WidgetInv`:
  the grid's scroll value is within its range, a range that was read is the image's, and
  the address last navigated to lies between the first and the last full row. The
  geometry is integer division, as in the code, for any cell, page and strip size. What the
  strip lays out holds each byte of the image once (`StripOnce`); a cell has the bytes its
  row's read got to (`HaveIs`), which cuts the last cell it reached in two (`CutAt`), so a
  byte is painted once or, beyond the read, not at all (`StripPainted`).
  `ViewsLayoutSound`, for any graph of blocks at distinct addresses: `Searching` is the
  invariant of the breadth-first search. The layers along the queue do not fall, nothing
  queued is more than one layer below what is still to be visited (`Spread`), each block
  found is one layer below a block that leads to it (`Entered`), and the successors of the
  blocks visited have a layer at most one further (`Settled`). The queue holds no block
  twice, so the search's loop reaches its end and every block found was visited
  (`BfsShortest`); then the layers up to k are exactly the blocks at most k edges away
  (`ReachedWithin`). Rows are apart because each starts below the tallest block of the row
  above (`RowsApart`), columns because the blocks left of a block are among those left of
  its right neighbour (`ExtentGrows`). The sizes of text are any numbers.

Loops are recursive functions here, and what they compute is proved without the library's
induction theorems: `LeastNatural` (the least-number principle, from the well-foundedness
of Nat) gives `Counting`, induction for a set, and from that `LoopStates`, that a loop has
a state after each turn; an invariant of the states is then shown by `Counting` again.

Only model-checked is what needs fairness: `StepOverEnds`, `TransactEnds`, `AnalysisEnds`,
`ProgressEnds`. Every safety property of a passing run is a theorem.

## Not modelled

The text of listings, colours and drawing beyond geometry; the decoding of opcodes
(Zydis) and of file formats (LIEF); hex and register layouts, which are pure conversions;
partial sends and the Winsock set-up; listings of modules, maps and threads inside the
native backend, which copy what Windows reports; the stub for other platforms; dialogs
(attach, load options, welcome), the menus' construction and the dock arrangement; panels
that only reload a list; the command line demo; logging; addresses that wrap in the
analyzer. `PROJECT.json` gives the reason for each.
In the GUI `runAnalysis` is called only once, at start-up; the model lets a client call
it at any time, as the class allows. The counterexample of `controller_finished` needs
only the start-up call.

## Plan

1. *Done*: target and cache with their abstract specification; native backend; GDB
   client; analyzer; sessions, binary formats and listings; controller and main window;
   mock backend and views; the theorems above.
2. *Model, open*: a second attach after a native detach, which leaves planted bytes and
   maps behind; the client's order properties across a reconnect with the old connection's
   bytes still in the decoder.
