-------------------------- MODULE MCDebugController --------------------------
(* Three handles: the first session and two attaches.                         *)
EXTENDS DebugController

CONSTANTS s1, s2, s3
MCSession == {s1, s2, s3}
=============================================================================
