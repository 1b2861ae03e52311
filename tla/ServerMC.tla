------------------------------ MODULE ServerMC ------------------------------
(* A small instance of Server: two requests of six kinds and three           *)
(* deployments.                                                             *)
EXTENDS Server

ask(side, route, token, owner, effect, keyed, gated) ==
  [side |-> side, route |-> route, token |-> token, owner |-> owner,
   effect |-> effect, keyed |-> keyed, gated |-> gated]

\* An agent's change over REST, a payment the owner approves over MCP, an
\* onboarding call, a status page of the serverless twin, and an agent's payment
\* and its private jobs on the web.
MCRequests ==
  { ask("node", "rest", "api", FALSE, "change", TRUE, FALSE),
    ask("node", "mcp", "oauth", TRUE, "change", TRUE, TRUE),
    ask("node", "onboarding", "none", TRUE, "change", TRUE, FALSE),
    ask("vercel", "public", "none", FALSE, "read", FALSE, FALSE),
    ask("web", "command", "api", FALSE, "change", TRUE, TRUE),
    ask("web", "rest", "api", FALSE, "read", FALSE, FALSE) }

\* Finance, trading and autonomy commands only.
MCCommands == {r \in MCRequests : r.route = "command"}

environment(production, devFlag, ready) ==
  [production |-> production, complete |-> TRUE, devFlag |-> devFlag,
   oauth |-> production, ownerAuth |-> production, ready |-> ready]

\* Production, a production misconfigured for development, and development.
MCEnvironments == { environment(TRUE, FALSE, TRUE), environment(TRUE, TRUE, TRUE),
                    environment(FALSE, TRUE, FALSE) }
==============================================================================
