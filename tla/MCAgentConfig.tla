----------------------------- MODULE MCAgentConfig -----------------------------
(***************************************************************************)
(* One agent with a required field (model) and an optional one             *)
(* (responsibilities), which the YAML has too.                             *)
(***************************************************************************)
EXTENDS AgentConfig, TLC

MCFields == {"model", "responsibilities"}
MCRequired == {"model"}
MCYaml == [r \in Releases |-> [a \in Agents |-> [f \in MCFields |-> r]]]
MCSymmetry == Permutations(Calls) \cup Permutations(Handlers)
=============================================================================
