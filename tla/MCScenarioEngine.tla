-------------------------- MODULE MCScenarioEngine --------------------------
EXTENDS ScenarioEngine

CONSTANTS sqlmap, dump

MCPlan == <<[case |-> sqlmap, at |-> 1], [case |-> dump, at |-> 3]>>
=============================================================================
