---------------------------- MODULE MCGdbClient ----------------------------
(***************************************************************************)
(* GdbClient with a memory read, a breakpoint and a run request.           *)
(***************************************************************************)
EXTENDS GdbClient

MCOps == {"m", "Z", "c"}
MCStops == {"Tbreak"}
============================================================================
