---------------------------- MODULE MCTmpWindow ----------------------------
(* A window of six pages, one of which is the window's own table.          *)
EXTENDS TmpWindow
=============================================================================
