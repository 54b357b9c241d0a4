---------------------------- MODULE AgentLoopMC ----------------------------
(***************************************************************************)
(* AgentLoop for TLC: three deployments of the substrate.                  *)
(***************************************************************************)
EXTENDS AgentLoopRefinement

\* The bare SDK, a product with policy but no reviewer, and everything.
MCDeployments ==
  { {},
    {"policyHook", "permissionMode"},
    Collaborator }
=============================================================================
