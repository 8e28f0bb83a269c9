----------------------------- MODULE MCSkillIngest ---------------------------
(* Instances of SkillIngest for TLC. *)
EXTENDS SkillIngest

CONSTANTS cli, page
==============================================================================
