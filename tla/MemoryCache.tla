---------------------------- MODULE MemoryCache ----------------------------
(***************************************************************************)
(* The page cache a Target reads guest memory through (memory_cache.cpp).  *)
(* It keeps two generations of pages: cur_, filled lazily during the       *)
(* current stop-epoch, and prev_, what cur_ held when the epoch advanced.  *)
(* A page is whatever the backend returned for it, possibly fewer bytes    *)
(* than a page; a read pads the missing tail with zero.                    *)
(*                                                                         *)
(* The address space is a ring of NPages * PageSize bytes, as the 64-bit   *)
(* address arithmetic of the code makes it (2^52 pages of 4096 there).     *)
(***************************************************************************)
EXTENDS Integers, Sequences

CONSTANTS
  NPages,    \* number of pages in the address space
  PageSize,  \* kPageSize
  Byte       \* the values a guest byte can have; 0 is the padding

ASSUME NPagesAssumption   == NPages \in Nat \ {0}
ASSUME PageSizeAssumption == PageSize \in Nat \ {0}
ASSUME ByteAssumption     == Byte \subseteq Nat

Page == 0 .. NPages - 1
Size == NPages * PageSize
Addr == 0 .. Size - 1

VARIABLES
  cur,   \* cur_ : pages read in this epoch
  prev   \* prev_: pages read in the epoch before

\* One std::map<page address, bytes>: a function on the pages present.
IsGeneration(g) == DOMAIN g \subseteq Page /\ g \in [DOMAIN g -> Seq(Byte)]

NoPages == [p \in {} |-> p]

PageOf(a) == a \div PageSize

\* The i-th page a loop that starts at address a and advances by pages visits.
PageAfter(a, i) == (PageOf(a) + i) % NPages

(***************************************************************************)
(* read_page for every page at once. fetched is the backend's answer to    *)
(* read_memory(page, kPageSize): a page outside its domain is an error.    *)
(* A page already in cur_ is never fetched again.                          *)
(***************************************************************************)
read_page(fetched) ==
  [p \in DOMAIN cur \cup DOMAIN fetched |->
     IF p \in DOMAIN cur THEN cur[p] ELSE fetched[p]]

\* The pages visited by a loop over the indices in I, kept in cur_.
Keep(a, I, got) ==
  LET added == { PageAfter(a, i) : i \in I } \cap DOMAIN got
  IN  [p \in DOMAIN cur \cup added |-> got[p]]

\* The pages a loop over the indices in I may have to fetch.
Missing(a, I) == { PageAfter(a, i) : i \in I } \ DOMAIN cur

----------------------------------------------------------------------------
\* Mutant: the pages of the old epoch stay current.
SetEpochKeepsCurrent ==
  /\ prev' = cur
  /\ UNCHANGED cur

\* Mutant: prev_ accumulates instead of being replaced.
SetEpochAccumulates ==
  /\ prev' = [p \in DOMAIN cur \cup DOMAIN prev |->
                IF p \in DOMAIN cur THEN cur[p] ELSE prev[p]]
  /\ cur' = NoPages

\* set_epoch: cur_ becomes prev_ and the new epoch starts with no page.
set_epoch ==
  /\ prev' = cur
  /\ cur' = NoPages

----------------------------------------------------------------------------
(***************************************************************************)
(* read(addr, len). The loop walks the pages of the range in address       *)
(* order, wrapping at the top of the address space, and stops at the first *)
(* page that cannot be read; the pages before it stay cached.              *)
(***************************************************************************)
ReadIndices(addr, len) ==
  IF len = 0 THEN {} ELSE 0 .. PageOf((addr % PageSize) + len + PageSize - 1) - 1

\* The loop indices reached with every page so far readable.
ReadReached(addr, len, got) ==
  { i \in ReadIndices(addr, len) :
      \A j \in 0 .. i : PageAfter(addr, j) \in DOMAIN got }

ReadOk(addr, len, got) ==
  \A i \in ReadIndices(addr, len) : PageAfter(addr, i) \in DOMAIN got

\* One byte of the reply: the page's, or 0 past the end of a short page.
PaddedByte(page, off) ==
  IF off < Len(page) THEN page[off + 1] ELSE 0

\* Mutant: the copy loop runs once too often.
ReadBytesOneMore(addr, len, got) ==
  [i \in 0 .. len |->
     LET a == (addr + i) % Size
     IN  PaddedByte(IF PageOf(a) \in DOMAIN got THEN got[PageOf(a)] ELSE << >>, a % PageSize)]

ReadBytes(addr, len, got) ==
  [i \in 0 .. len - 1 |->
     LET a == (addr + i) % Size
     IN  PaddedByte(got[PageOf(a)], a % PageSize)]

----------------------------------------------------------------------------
(***************************************************************************)
(* changed_since_last_epoch(addr, len), len > 0. The loop runs from the    *)
(* first to the last page of the range while page_addr <= last_page: a     *)
(* range that wraps is not scanned at all, and when the last page is the   *)
(* top page the condition never fails, so the scan goes round the whole    *)
(* address space until a page stops it.                                    *)
(***************************************************************************)
LastPage(addr, len) == PageOf((addr + len - 1) % Size)

Endless(addr, len) == LastPage(addr, len) = NPages - 1

ScanIndices(addr, len) ==
  IF Endless(addr, len) THEN Page ELSE 0 .. LastPage(addr, len) - PageOf(addr)

\* A page ends the scan when it is unreadable or differs from its old bytes.
Differs(p, got) ==
  p \in DOMAIN prev /\ got[p] # prev[p]

Ends(p, got) == p \notin DOMAIN got \/ Differs(p, got)

ScanReached(addr, len, got) ==
  { i \in ScanIndices(addr, len) :
      \A j \in 0 .. i - 1 : ~Ends(PageAfter(addr, j), got) }

\* Mutant: the comparison also fires for a page with no previous bytes.
ScanVerdictNoPrev(addr, len, got) ==
  IF \E i \in ScanReached(addr, len, got) :
       LET p == PageAfter(addr, i)
       IN  p \in DOMAIN got /\ (p \in DOMAIN prev => Differs(p, got))
  THEN "changed" ELSE "same"

\* Mutant: only the first page of the range is compared.
ScanVerdictFirstPage(addr, len, got) ==
  IF PageOf(addr) \in DOMAIN got /\ Differs(PageOf(addr), got)
  THEN "changed" ELSE "same"

\* "changed" / "same", or "hang" when the loop never ends.
ScanVerdict(addr, len, got) ==
  LET reached == ScanReached(addr, len, got)
  IN  CASE \E i \in reached : PageAfter(addr, i) \in DOMAIN got
                              /\ Differs(PageAfter(addr, i), got) -> "changed"
        [] \E i \in reached : PageAfter(addr, i) \notin DOMAIN got -> "same"
        [] OTHER -> IF Endless(addr, len) THEN "hang" ELSE "same"
============================================================================
