------------------------------- MODULE MCBot -------------------------------
(* A person and the bot, with one coin and two. *)
EXTENDS Bot, TLC

CONSTANTS alice, bot, a1, b1, b2

MCWallet == (alice :> {a1}) @@ (bot :> {b1, b2})

MCRotation == <<b1, b2>>

\* A person's, which the round just reaches, and the one that the bot passes.
MCFloor == (alice :> 2) @@ (bot :> 1)

=============================================================================
