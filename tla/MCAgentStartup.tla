--------------------------- MODULE MCAgentStartup ---------------------------
(* Instances of AgentStartup for TLC. *)
EXTENDS AgentStartup

Choice(tok, agent, local, e) ==
    [token |-> tok, agentID |-> agent, packs |-> local, entitlement |-> e,
     databases |-> TRUE]

\* A configured token, and none; with and without local packs; an air-gapped
\* agent with an entitlement for its name, or a broken one.
MCConfigurations ==
    {Choice(0, None, FALSE, None), Choice(0, 0, TRUE, None),
     Choice(None, None, TRUE, None),
     Choice(None, None, TRUE, [agent |-> Name, until |-> 0]),
     [Choice(None, None, FALSE, Broken) EXCEPT !.databases = FALSE]}
=============================================================================
