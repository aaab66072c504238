----------------------------- MODULE MCAnalyzer -----------------------------
(* Every image of four bytes over seven instructions: among them are a jump   *)
(* back into a traced block, one into the middle of a two-byte instruction,   *)
(* code cut off by the end of the image, a call, and a symbol that names an   *)
(* unmapped address.                                                          *)
EXTENDS Analyzer

I(f, l, t) == [flow |-> f, len |-> l, target |-> t]

MCInsns == {I("Invalid", 1, 0), I("Sequential", 1, 0), I("Sequential", 2, 0), I("Return", 1, 0),
            I("Jump", 1, 2), I("CondJump", 1, 3), I("Call", 1, 4)}
MCPcs == {0, 1}
MCSymbolSets == {{1, 5}}
=============================================================================
