-------------------------- MODULE MCJsonCommands --------------------------
\* Instances of JsonCommands.
EXTENDS JsonCommands

\* M100 or M6; M102; both M6 and M100, or M6 and M102
MCLines == {<<FALSE>>, <<TRUE>>, <<FALSE, FALSE>>, <<FALSE, TRUE>>}
=============================================================================
