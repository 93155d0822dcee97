--------------------------- MODULE MCWorkflowRun ---------------------------
(***************************************************************************)
(* Model-checking instance of WorkflowRun: an approval beside a branch     *)
(* that leads through another approval into a join.                        *)
(***************************************************************************)
EXTENDS WorkflowRun

CONSTANTS start, long, ask1, ask2, join

MCEdges == {<<start, join>>, <<start, long>>, <<start, ask1>>, <<long, ask2>>, <<ask2, join>>}
=============================================================================
