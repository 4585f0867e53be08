----------------------------- MODULE MCNegotiator -----------------------------
(* Small instances of module Negotiator for TLC. *)
EXTENDS Negotiator, TLC

CONSTANTS alice, bob, leader, n1, n2, q1

\* A notice for both agents, one for alice alone, and a question for bob.
MCFromOf == (n1 :> leader) @@ (n2 :> bob) @@ (q1 :> alice)

MCToOf == (n1 :> {All}) @@ (n2 :> {All}) @@ (q1 :> {bob})

\* Each agent is registered at most once.
MCInboxes == (alice :> 1) @@ (bob :> 1)

=============================================================================
