--------------------------- MODULE MCAssessments ---------------------------
(* One application: model calls and what is missing beside them, its        *)
(* guardrails, evaluations and agents, SDK health with and without a name.  *)
EXTENDS Assessments, TLC

CONSTANTS f1, f2

MCFold == {f1, f2}
Folds == Permutations(MCFold)

Blank == [type |-> "model.call", trace |-> 1, named |-> TRUE, complete |-> TRUE,
          error |-> FALSE, provider |-> FALSE, agentic |-> FALSE, undurable |-> FALSE,
          day |-> 1]

Call == [Blank EXCEPT !.provider = TRUE]
LateCall == [Call EXCEPT !.trace = 2, !.day = 2, !.complete = FALSE]
Guardrail == [Blank EXCEPT !.type = "guardrail.decision"]
Eval == [Blank EXCEPT !.type = "eval.result", !.error = TRUE]
Tool == [Blank EXCEPT !.type = "tool.call", !.error = TRUE]
Health == [Blank EXCEPT !.type = "sdk.health", !.undurable = TRUE, !.trace = 2]

MCWorkload == {
    {Tool, Call},
    {Eval, LateCall},
    {Eval, Tool},
    {Guardrail, LateCall},
    {Call, [Call EXCEPT !.day = 2]},
    {Health, Call},
    {[Health EXCEPT !.named = FALSE], Call},
    {[Blank EXCEPT !.type = "agent.run"], [Call EXCEPT !.agentic = TRUE]}}

MCRequests == {
    <<"own", [signal |-> "missing_guardrail", mode |-> "observe"]>>,
    <<"own", [signal |-> "missing_guardrail", mode |-> "enforce"]>>,
    <<"missing_eval", [signal |-> "failed_eval", mode |-> "enforce"]>>}

MCDefinitions == {
    <<"data", [types |-> {"model.call"}, required |-> FALSE, basis |-> None]>>}
=============================================================================
