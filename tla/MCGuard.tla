------------------------------- MODULE MCGuard -------------------------------
(* Small instances of module Guard for TLC. *)
EXTENDS Guard, TLC

CONSTANTS claude, ollama, gemini, c1, c2, c3, c4

\* Two calls race on one provider; the others share only the budget with them.
MCProviderOf == (c1 :> claude) @@ (c2 :> claude) @@ (c3 :> ollama) @@ (c4 :> gemini)

MCPrice == (claude :> 2) @@ (ollama :> 1) @@ (gemini :> 1)

\* Nothing ever passes a limiter with a burst of 0.
MCBurst == (claude :> 1) @@ (ollama :> 0) @@ (gemini :> 0)

=============================================================================
