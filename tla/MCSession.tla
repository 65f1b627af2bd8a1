----------------------------- MODULE MCSession -----------------------------
(* A session on Python 3.12 whose socket may block, and one on 3.11 whose socket keeps up. *)
EXTENDS Session

MCDeployments == {[slow |-> TRUE, py311 |-> FALSE], [slow |-> FALSE, py311 |-> TRUE]}

MCFast == {[slow |-> FALSE, py311 |-> FALSE]}
MCSlow == {[slow |-> TRUE, py311 |-> FALSE]}

============================================================================
