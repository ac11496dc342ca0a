---------------------------- MODULE RegistryMC ----------------------------
(* Model-checking instance of Registry: threads, names and network names *)
(* are model values.                                                      *)
EXTENDS Registry

CONSTANTS c1, c2, h1, h2

=============================================================================
