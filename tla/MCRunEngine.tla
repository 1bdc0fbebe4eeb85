---------------------------- MODULE MCRunEngine ----------------------------
(* TLC instances of RunEngine: the shape of playbook.investigate, with one  *)
(* step for each kind the engine tells apart.                               *)
EXTENDS RunEngine

\* plan_approval -> hypotheses (adds test) -> insights -> publish_request -> publish -> finalize
MCDynamic == {"test"}
MCKeys == {"plan_approval", "hypotheses", "test", "insights", "publish_request", "publish", "finalize"}
\* The same without the last step, for the run whose liveness properties need the room.
MCLoopKeys == MCKeys \ {"finalize"}
MCDeps ==
    [k \in Keys |-> CASE k = "hypotheses" -> {"plan_approval"}
                      [] k = "test" -> {"hypotheses"}
                      [] k = "insights" -> {"hypotheses"}
                      [] k = "publish_request" -> {"insights"}
                      [] k = "publish" -> {"publish_request"}
                      [] k = "finalize" -> {"insights", "publish"}
                      [] OTHER -> {}]
MCAwaits == [k \in Keys |-> IF k = "insights" THEN {"test"} ELSE {}]
MCExpands == [k \in Keys |-> IF k = "hypotheses" THEN {"test"} ELSE {}]
MCOptional == {"publish", "test"}
MCRequests == [k \in Keys |-> IF k = "publish_request" THEN {"publish"} ELSE {}]
MCResetFull == {"hypotheses", "insights", "publish_request", "publish", "finalize"}
MCRank ==
    [k \in Keys |-> CASE k = "plan_approval" -> 0 [] k = "hypotheses" -> 1 [] k = "test" -> 2
                      [] k = "insights" -> 3 [] k = "publish_request" -> 4 [] k = "publish" -> 5 [] OTHER -> 6]
MCResetPartial == {"publish_request", "publish", "finalize"}

\* The playbook has the order the proofs ask for, and its insights see every expander.
ASSUME MCOrdered == Ordered(MCRank) /\ \A k \in Keys : SeesExpanders(k)

=============================================================================
