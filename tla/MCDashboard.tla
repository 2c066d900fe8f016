---------------------------- MODULE MCDashboard ----------------------------
\* Two pages and three runs: the one that is taken over, the one another page
\* starts meanwhile, and one after them.
EXTENDS Dashboard
=============================================================================
