------------------------ MODULE MCRequirementPipeline ------------------------
(* Two stories of a requirement that may have to be signed off twice. *)
EXTENDS RequirementPipeline, TLC

\* gh works, sessions live, and test agents do what their prompt says, no more
AllGoesWell ==
    /\ check'.at # "error" /\ techLead' = "running"
    /\ \A t \in Tester : tester'[t].result = "none"

GoodSpec ==
    /\ Init /\ [][Next /\ AllGoesWell]_vars
    /\ WF_vars(CheckStep /\ AllGoesWell) /\ WF_vars(TimePasses)
    /\ \A t \in Tester : WF_vars(FinishTests(t))
=============================================================================
