------------------------------- MODULE MCPops -------------------------------
(* Definitions of the runs of module Pops.                                 *)
EXTENDS Pops, TLC

\* No definition tells one connection from another.
MCSymmetry == Permutations(Conns)
=============================================================================
