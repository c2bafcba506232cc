------------------------- MODULE MCAgentMonitoring -------------------------
(* One agent (a check handles its sessions one after the other, and what   *)
(* another session can do to it, to make the check throw, Abort does), in  *)
(* two halves: in "mail" it works, dies or hits a rate limit, and there    *)
(* are messages, queued ticks, an aborted check and a restart; in          *)
(* "terminals" its screen shows the rest of what Screens allows.           *)
EXTENDS AgentMonitoring, TLC

CONSTANTS m1, m2
VARIABLE half

MCTo == m1 :> 1 @@ m2 :> 1
MCScreens == 1 :> {"working", "idle", "permission", "interrupted", "limited"}
Quiet == \A m \in Message : message[m].status = "unsent"
Verdicts == {"verdict", "verdict on stuck"}

MCInit == Init /\ pane[1] = "working" /\ half \in {"mail", "terminals"}

MCNext ==
    /\ Next
    /\ half' = half
    /\ half = "mail" => /\ pane'[1] \in {"working", "limited", "gone"} /\ pc' \notin Verdicts
                        /\ story'[1] \in {"in_progress", "none"} \/ Quiet'
    /\ half = "terminals" => /\ pane'[1] # "limited" /\ message' = message /\ story'[1] # "merged"
                             /\ ~checkQueued' /\ aborts' = 0 /\ restarts' = 0

MCSpec == MCInit /\ [][MCNext]_<<vars, half>> /\ Fairness

=============================================================================
