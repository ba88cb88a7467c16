-------------------------- MODULE MCProviderCache --------------------------
(* The provider's cache for TLC: each prompt has a key of its own.         *)
EXTENDS ProviderCache

MCKeyOf == [p \in Prompts |-> p]
=============================================================================
