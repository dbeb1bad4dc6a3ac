--------------------------- MODULE MCRuntimeClient ---------------------------
(***************************************************************************)
(* RuntimeClient for TLC.  Requests are model values; Execute calls are    *)
(* interchangeable (Sym) where the configuration treats them alike.        *)
(***************************************************************************)
EXTENDS RuntimeClient, TLC

Sym == Permutations(ExecuteCalls)
=============================================================================
