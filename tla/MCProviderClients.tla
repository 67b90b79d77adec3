-------------------------- MODULE MCProviderClients --------------------------
(* Instances of ProviderClients for TLC. *)
EXTENDS ProviderClients, TLC

\* Handlers and runtimes are only told apart by who they are.
Symmetric == Permutations(Requests) \cup Permutations(Runtimes)
============================================================================
