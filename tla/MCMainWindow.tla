---------------------------- MODULE MCMainWindow ----------------------------
(* The file's session and two attaches, on one or two screens, over two starts. *)
EXTENDS MainWindow

CONSTANTS s1, s2, s3, main, second, modules, console
MCSession == {s1, s2, s3}
MCScreens == {main, second}
MCDebugDocks == {modules}
MCOtherDocks == {console}
=============================================================================
