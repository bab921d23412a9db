-------------------------- MODULE MCCodeGraphStore --------------------------
(***************************************************************************)
(* A name that one file defines and another calls; all contents have the   *)
(* same size.                                                              *)
(***************************************************************************)
EXTENDS CodeGraphStore

CONSTANTS a, b, m, k

MCContents == { [defs |-> {m}, calls |-> {}],
                [defs |-> {}, calls |-> {m}],
                [defs |-> {k}, calls |-> {}] }
=============================================================================
