----------------------------- MODULE MCAgentTurn ----------------------------
EXTENDS AgentTurn
=============================================================================
