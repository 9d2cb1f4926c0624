------------------------------ MODULE MCExecutor ------------------------------
(* The executor with an authority a that owns two nonce accounts, a relayer r   *)
(* and a recipient b.                                                          *)
EXTENDS Executor

CONSTANTS n1, n2, a, b, r, np

MCAddress == {n1, n2, a, b, r, np}
MCMinBalance == [size \in {"exact", "odd"} |-> IF size = "exact" THEN 2 ELSE 1]
MCCommitment == 0..MaxMessages

LiveAccount(n) ==
    [size     |-> "exact",
     lamports |-> 2,
     state    |-> [nonce           |-> [account |-> n, seed |-> 1, steps |-> <<>>],
                   authority       |-> a,
                   initialize_slot |-> 1]]

MCInitLedger ==
    [x \in MCAddress |-> IF x \in {n1, n2} THEN LiveAccount(x)
                         ELSE SystemCell(IF x = a THEN 2 ELSE IF x = r THEN 1 ELSE 0)]

Ix(op, accounts, lamports) == [op |-> op, accounts |-> accounts, lamports |-> lamports]

NewBody(keys, signing, writing, instructions) ==
    [keys |-> keys, signers |-> signing, writable |-> writing,
     instructions |-> instructions, wellFormed |-> TRUE]

\* One payment; the same payment twice in one message; a payment out of an account
\* that the message does not list as a signer; a message that fails sanitization.
Pay == NewBody(<<a, b>>, {1}, {1, 2}, <<Ix("transfer", <<1, 2>>, 1)>>)
PayTwice == NewBody(<<a, b>>, {1}, {1, 2},
                    <<Ix("transfer", <<1, 2>>, 1), Ix("transfer", <<1, 2>>, 1)>>)
Borrow == NewBody(<<a, r, b>>, {1}, {1, 2, 3}, <<Ix("transfer", <<2, 3>>, 1)>>)
Malformed == [Pay EXCEPT !.wellFormed = FALSE]

\* Run a message on n2, then pay.
Nest == NewBody(<<a, n2, np, b>>, {1}, {1, 2, 4},
                <<Ix("execute", <<1, 2, 3, 1, 4>>, 0), Ix("transfer", <<1, 4>>, 1)>>)

\* Use up the message's own nonce a second time.
Reuse == NewBody(<<a, b, n1>>, {1}, {1, 2, 3},
                 <<Ix("transfer", <<1, 2>>, 1), Ix("advance", <<1, 3>>, 0)>>)

\* Close n1, create it again and initialize it.
Recycle == NewBody(<<a, n1>>, {1, 2}, {1, 2},
                   <<Ix("withdraw", <<1, 2, 1>>, 2), Ix("transfer", <<1, 2>>, 2),
                     Ix("assign", <<2>>, 0), Ix("initialize", <<2, 1>>, 0)>>)

Direct(op, accounts, lamports) ==
    [op |-> op, accounts |-> accounts, lamports |-> lamports, signers |-> {},
     writable |-> MCAddress, nonce |-> LiveAccount(n1).state.nonce, commitment |-> 0]

MCBody == {Pay, PayTwice, Borrow, Malformed, Nest, Reuse, Recycle}
MCDirectCall == {Direct("withdraw", <<a, n1, a>>, 2), Direct("transfer", <<a, n1>>, 2),
                 Direct("assign", <<n1>>, 0), Direct("initialize", <<n1, a>>, 0)}

Nothing == NewBody(<<a>>, {1}, {1}, <<>>)

MCChainBody == {Pay, Nothing}
MCChainDirectCall == {Direct("advance", <<a, n1>>, 0)}
MCKeyHolder == {a, r, n1}
MCChainKeyHolder == {a}
MCNonceAddress == {n1, n2}
MCOneNonceAddress == {n1}
==============================================================================
