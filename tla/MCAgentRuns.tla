---------------------------- MODULE MCAgentRuns ----------------------------
(***************************************************************************)
(* Small instances of AgentRuns for TLC: one or two posts, the conditions  *)
(* of one or two waits on a reply, and an approval.                        *)
(***************************************************************************)
EXTENDS AgentRuns

CONSTANTS e1, e2, reply, other, approval

OnePostAnswers == {<<reply, e1>>}
\* Two waits of one run, both answered by the second post.
BothWaitsAnswered == {<<reply, e1>>, <<reply, e2>>, <<other, e2>>}
=============================================================================
