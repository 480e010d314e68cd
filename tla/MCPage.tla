------------------------------- MODULE MCPage -------------------------------
(***************************************************************************)
(* Small instances of Page.                                                *)
(***************************************************************************)
EXTENDS Page

CONSTANTS s1, s2, alice, bob

FiveSlots == 1..5
FirstIsOpen == [s \in Sessions |-> IF s = s1 THEN alice ELSE None]
=============================================================================
