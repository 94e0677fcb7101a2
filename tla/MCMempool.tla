----------------------------- MODULE MCMempool -----------------------------
(* JsonRpc, and MempoolService in it, on small instances: two operations   *)
(* of one sender and nonce, the second paying enough to replace the first,  *)
(* and one with the nonce 0.                                                *)
EXTENDS JsonRpc, TLC

CONSTANTS h1, h2, h3, k1, k2

MCKeyOf == (h1 :> k1) @@ (h2 :> k1) @@ (h3 :> k2)
MCZeroNonce == {k2}
MCPriority == (h1 :> 10) @@ (h2 :> 11) @@ (h3 :> 10)
MCMaxFee == (h1 :> 20) @@ (h2 :> 20) @@ (h3 :> 20)

\* Requests are only compared.
ClientSymmetry == Permutations(Clients)

=============================================================================
