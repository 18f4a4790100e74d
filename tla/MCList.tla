------------------------------- MODULE MCList -------------------------------
(* Lists of list.c with two heads and a few elements.                      *)
EXTENDS List
=============================================================================
