------------------------------ MODULE MCTarget ------------------------------
(***************************************************************************)
(* Target on an address space of two pages of two bytes.                   *)
(***************************************************************************)
EXTENDS Target

MCByte == {1, 2}
MCReadLens == {1, 2}
MCFullReads == {2}
\* Nothing; inside page 0; across both pages; the top page; round the top.
MCRanges == { <<1, 0>>, <<1, 1>>, <<1, 2>>, <<2, 1>>, <<3, 2>> }
\* Ranges of page 0.
MCLowRanges == { <<0, 2>>, <<1, 1>> }
MCInitMem == { [a \in Addr |-> 1] }
============================================================================
