----------------------------- MODULE MCCampaign -----------------------------
(***************************************************************************)
(* Campaign for TLC: recipient 1 comes from a tag, recipient 2 from the    *)
(* upload.  Processes are interchangeable.                                 *)
(***************************************************************************)
EXTENDS Campaign, TLC

SecondOnly == <<2>>

Symmetry == Permutations(Workers)
=============================================================================
