----------------------------- MODULE MCBundler -----------------------------
(* BundlerService on small instances: which process runs which loop.        *)
EXTENDS BundlerService, TLC

CONSTANTS p1, p2, l1, l2, h1, h2, k1, k2

\* One loop in each of two processes.
MCOwner == (l1 :> p1) @@ (l2 :> p2)

\* Two loops of one process: a tick that comes while an earlier loop waits.
MCOneOwner == (l1 :> p1) @@ (l2 :> p1)

\* Every operation has a nonce of its own.
MCKeyOf == (h1 :> k1) @@ (h2 :> k2)

\* Every operation asks for the same gas.
MCGas == [h \in Hashes |-> 1]

\* Bundles are only compared: they may be permuted in safety runs.
BundleSymmetry == Permutations(Bundles)

=============================================================================
