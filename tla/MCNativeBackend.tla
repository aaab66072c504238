--------------------------- MODULE MCNativeBackend ---------------------------
(***************************************************************************)
(* NativeBackend on a program of two instructions.                         *)
(***************************************************************************)
EXTENDS NativeBackend

MCFaults == {"attach", "detach", "write", "regs", "resume", "wait"}
MCIncidents == {"Exception"}
MCNone == {}
=============================================================================
