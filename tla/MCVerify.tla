------------------------------ MODULE MCVerify ------------------------------
(* Two merge bases, one finding, metrics that are 0, 1 or null, and three    *)
(* policies: one looks at stages and at the score, one looks at the rest and *)
(* lets incomplete evidence pass, one is strict about everything.            *)
EXTENDS Verify, TLC

Staged == [incomplete |-> "review", minCoverage |-> Null, minScore |-> 1,
           blockOn |-> {}, reviewOn |-> {"f"}, blockDeleted |-> FALSE,
           blockGenerated |-> FALSE, blockRegressions |-> TRUE,
           requireStages |-> {"requirements", "behavior"}]
Lenient == [incomplete |-> "pass", minCoverage |-> 0, minScore |-> Null,
            blockOn |-> {"f"}, reviewOn |-> {}, blockDeleted |-> TRUE,
            blockGenerated |-> TRUE, blockRegressions |-> FALSE,
            requireStages |-> {"provenance"}]
Strict == [Lenient EXCEPT !.incomplete = "block", !.minScore = 1,
                          !.blockRegressions = TRUE, !.requireStages = {"policy", "provenance"}]
MCPolicies == {Staged, Lenient, Strict}

Symmetry == Permutations(MergeBases)
=============================================================================
