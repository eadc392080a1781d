------------------------------- MODULE MCMemory -------------------------------
(* One memory with a few stores, requests and rows. *)
EXTENDS Memory, TLC

CONSTANTS c1, c2, w1, w2
===============================================================================
