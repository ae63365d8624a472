-------------------------- MODULE MCProviderCalls --------------------------
(* Up to two retries, batches of two texts, vectors of two dimensions.     *)
EXTENDS ProviderCalls
=============================================================================
