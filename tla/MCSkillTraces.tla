----------------------------- MODULE MCSkillTraces -----------------------------
(* Small instances of SkillTraces: stages outside the required pipeline.      *)
EXTENDS SkillTraces

\* Another phase of a required skill, and a skill outside the route.
SideStages == { <<"implement", "completed">>, <<"diagnose", "started">> }

=============================================================================
