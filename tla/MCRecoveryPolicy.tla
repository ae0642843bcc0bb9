--------------------------- MODULE MCRecoveryPolicy ---------------------------
(***************************************************************************)
(* A frontend and a backend item side by side, then the framework's        *)
(* validation, the review and the tests, in the order of                   *)
(* generate_work_dag; the last two are optional.                           *)
(***************************************************************************)
EXTENDS RecoveryPolicyProps

MCGraph == <<"CODE_FRONTEND", "GENERATE_ROUTE", "FRAMEWORK_VALIDATE", "REVIEW_DIFF", "RUN_TESTS">>
MCGraphEdges == {<<1, 3>>, <<2, 3>>, <<3, 4>>, <<4, 5>>}
MCOptional == {"WRITE_TESTS", "RUN_TESTS", "PREVIEW_VALIDATE", "REVIEW_DIFF", "REVIEW_INTEGRATION"}
MCTexts == {{"layout"}, {"foundation"}, {"network"}, {"no_such_module"}, {"budget_result"}}
=============================================================================
