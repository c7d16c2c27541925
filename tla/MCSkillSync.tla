----------------------------- MODULE MCSkillSync -----------------------------
(***************************************************************************)
(* Instances of SkillSync for TLC; the configurations give the constants   *)
(* their values.                                                           *)
(***************************************************************************)
EXTENDS SkillSync

CONSTANTS s1, pA, pB
=============================================================================
