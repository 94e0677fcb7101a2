----------------------------- MODULE MCGasLift -----------------------------
(* GasLift on a small instance: one process with one loop serves one        *)
(* client; two operations share a sender and nonce, the second paying       *)
(* enough to replace the first.                                             *)
EXTENDS GasLift, TLC

CONSTANTS p1, l1, c1, h1, h2, k1

MCServedBy == (c1 :> p1)
MCOwner == (l1 :> p1)
MCKeyOf == (h1 :> k1) @@ (h2 :> k1)
MCPriority == (h1 :> 10) @@ (h2 :> 11)
MCMaxFee == (h1 :> 20) @@ (h2 :> 20)

\* Every operation asks for the same gas.
MCGas == [h \in Hashes |-> 1]

\* Bundles are only compared.
BundleSymmetry == Permutations(Bundles)

=============================================================================
