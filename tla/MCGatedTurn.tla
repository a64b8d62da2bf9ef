---------------------------- MODULE MCGatedTurn ----------------------------
(* A tool of an MCP server, asked about by the mode, one the agent wrote, and the code step. *)
EXTENDS GatedTurn
CONSTANTS mcp, own, step
MCPolicies == {[t \in Tools |-> IF t = step THEN "allow" ELSE "ask"],
               [t \in Tools |-> IF t = mcp THEN "gone" ELSE "ask"],
               [t \in Tools |-> IF t = own THEN "deny" ELSE "always"]}
=============================================================================
