---------------------------- MODULE MCAgentLoop ----------------------------
(* Levels of force_compact, scaled down with protect_recent from 3 to 1:   *)
(* {10, 5, 3} become {2, 1}, the last two, {0, 0}, stay.                   *)
EXTENDS AgentLoop
AllLevels == <<[hard |-> 2, keep |-> 0], [hard |-> 1, keep |-> 2],
               [hard |-> 0, keep |-> 0], [hard |-> 0, keep |-> 1]>>
=============================================================================
