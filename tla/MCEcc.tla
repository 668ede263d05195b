------------------------------- MODULE MCEcc -------------------------------
(***************************************************************************)
(* Constants for the two programs with ECIES: frames up to the longest for *)
(* which each of them keeps pace.                                          *)
(***************************************************************************)
EXTENDS EccInv

MCMaxLen == [hardware |-> 4200, software |-> 34000]

=============================================================================
