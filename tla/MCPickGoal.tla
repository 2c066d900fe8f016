----------------------------- MODULE MCPickGoal -----------------------------
\* Five goals are two calls that use up their tries and a third that does not.
EXTENDS PickGoal
=============================================================================
