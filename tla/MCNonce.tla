------------------------------- MODULE MCNonce -------------------------------
(* The Nonce program on four addresses: two nonce accounts, a wallet, cold key.*)
EXTENDS Nonce

CONSTANTS n1, n2, wallet, cold, c1, c2

MCAddress == {n1, n2, wallet, cold}
MCNonceAddress == {n1, n2}
MCCommitment == {c1}
MCMinBalance == [size \in {"exact", "odd"} |-> IF size = "exact" THEN 2 ELSE 1]
MCSupply == [a \in MCAddress |-> IF a = wallet THEN 4 ELSE 0]
MCCold == {cold}

\* No instruction needs more than one signature, or refuses one more.
MCTransactionSigners == {{n1}, {n2}, {wallet}, {n1, n2, wallet}}
==============================================================================
