------------------------------ MODULE MCAgents ------------------------------
(* A small instance of module Agents for TLC. *)
EXTENDS Agents, TLC

CONSTANTS c1, c2

Setup(provider, mode, shape, calls, kinds, ends) ==
    [provider |-> provider, mode |-> mode, shape |-> shape, calls |-> calls,
     kind |-> (c1 :> kinds[1]) @@ (c2 :> kinds[2]), ends |-> ends]

\* The providers differ in what they make of an answer, and Claude remembers a
\* session; their children are handled alike.  One call has all that can happen
\* to it; of two calls with children the contexts do not end.
MCSetups ==
    {Setup("claude", "cli", "result", {c1}, <<kind, kind>>, {c1}) : kind \in {"execute", "stream"}}
    \cup {Setup("gemini", "cli", "not JSON", {c1, c2}, <<"execute", "execute">>, {}),
          Setup("openai", "cli", "choices", {c1}, <<"execute", "execute">>, {c1})}
    \cup {Setup(provider, "cli", "none", {c1}, <<"stream", "stream">>, {}) :
             provider \in {"gemini", "openai"}}
    \cup {Setup(provider, "api", shape, {c1, c2}, <<"execute", "stream">>, {c1, c2}) :
             provider \in {"claude", "gemini", "openai", "ollama"}, shape \in Shapes}

=============================================================================
