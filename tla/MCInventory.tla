---------------------------- MODULE MCInventory ----------------------------
(* One application: its model calls with an agent and its tool, the reports *)
(* of an incident, prompts and evaluations, guardrails.                     *)
EXTENDS Inventory, TLC

CONSTANTS f1, f2

MCFold == {f1, f2}
Folds == Permutations(MCFold)

Blank == [type |-> "sdk.health", trace |-> 1, named |-> TRUE, flow |-> None,
          provider |-> None, error |-> FALSE, tokens |-> 0, sensitive |-> FALSE,
          failed |-> FALSE, label |-> None, steps |-> {}]

Call == [Blank EXCEPT !.type = "model.call", !.provider = "acme", !.tokens = 2]
Run == [Blank EXCEPT !.type = "agent.run", !.label = "agent", !.flow = "claims"]
Tool == [Blank EXCEPT !.type = "tool.call", !.label = "wire"]
Guardrail == [Blank EXCEPT !.type = "guardrail.decision", !.label = "pii", !.failed = TRUE]
Eval == [Blank EXCEPT !.type = "eval.result", !.label = "accuracy", !.failed = TRUE]
Prompt == [Blank EXCEPT !.type = "prompt.event", !.label = "v1", !.flow = "claims"]
Report == [Blank EXCEPT !.type = "incident.event", !.label = "open", !.flow = "claims"]

MCWorkload == {
    {Run, Tool},
    {Report, [Report EXCEPT !.label = "closed", !.trace = 2], [Report EXCEPT !.trace = 3]},
    {Call, [Call EXCEPT !.trace = 2, !.error = TRUE], [Call EXCEPT !.named = FALSE, !.provider = None]},
    {Guardrail, [Guardrail EXCEPT !.named = FALSE, !.trace = 2]},
    {Prompt, [Prompt EXCEPT !.label = "v2"]},
    {Eval, [Call EXCEPT !.sensitive = TRUE]},
    {Blank, [Blank EXCEPT !.type = "trace.completed", !.flow = "claims"]}}

Bounded == [active |-> TRUE, tools |-> {"wire"}, trifecta |-> FALSE, level |-> 2,
            checkpoint |-> TRUE]
Unbounded == [active |-> TRUE, tools |-> {}, trifecta |-> TRUE, level |-> 4,
              checkpoint |-> FALSE]
MCRegistration == {Bounded, Unbounded}

MCUseCases == {[autonomy |-> 1, status |-> "approved"], [autonomy |-> 2, status |-> "retired"]}
=============================================================================
