----------------------------- MODULE MCMission -----------------------------
\* A stack of four nodes as nav2_real.launch.py starts it; the planner is
\* managed but does not move the base.
EXTENDS Mission

MCNodes       == {"controller_server", "planner_server", "behavior_server", "bt_navigator"}
MCMotionNodes == {"controller_server", "behavior_server", "bt_navigator"}
MCClients     == {"run", "button"}
=============================================================================
