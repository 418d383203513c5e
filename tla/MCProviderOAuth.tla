-------------------------- MODULE MCProviderOAuth --------------------------
(* ProviderOAuth with two clients.                                          *)
EXTENDS ProviderOAuth, TLC

Clients == Permutations(Callers)
=============================================================================
