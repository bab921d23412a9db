--------------------------- MODULE MCRosettaImport ---------------------------
(***************************************************************************)
(* Pages without code, with the same code in two languages, and with code  *)
(* that holds a line separator.                                            *)
(***************************************************************************)
EXTENDS RosettaImport

CONSTANTS ada, bash, c1, c2

MCTexts == { <<>>,
             << [language |-> ada, code |-> c1], [language |-> bash, code |-> c1] >>,
             << [language |-> ada, code |-> c2] >> }
=============================================================================
