------------------------------- MODULE MCSigner -------------------------------
(* Two authorities: a keeps its key cold, h also signs relay transactions.  Their *)
(* programmatic signers pa and ph hold lamports, and pa is the authority of the   *)
(* nonce account n1.                                                              *)
EXTENDS Signer

CONSTANTS a, h, pa, ph, b, n1, n2, np, ex

MCAddress == {a, h, pa, ph, b, n1, n2, np, ex}
MCAuthority == {a, h}
MCPda == [k \in MCAuthority |-> IF k = a THEN pa ELSE ph]
MCMinBalance == [size \in {"exact", "odd"} |-> IF size = "exact" THEN 2 ELSE 1]
MCCommitment == 0..MaxMessages

LiveAccount(account) ==
    [size     |-> "exact",
     lamports |-> 2,
     state    |-> [nonce           |-> [account |-> account, seed |-> 1, steps |-> <<>>],
                   authority       |-> pa,
                   initialize_slot |-> 1]]

MCInitLedger ==
    [x \in MCAddress |-> IF x \in {n1, n2} THEN LiveAccount(x)
                         ELSE SystemCell(IF x = pa THEN 2 ELSE IF x \in {h, ph} THEN 1 ELSE 0)]

Ix(op, accounts, lamports) == [op |-> op, accounts |-> accounts, lamports |-> lamports]

NewBody(keys, signing, writing, instructions) ==
    [keys |-> keys, signers |-> signing, writable |-> writing,
     instructions |-> instructions, wellFormed |-> TRUE]

\* pa pays; pa and ph both pay; pa pays and the co-signer h pays; pa runs a message
\* on n2 and closes n2.
Pay == NewBody(<<pa, b>>, {1}, {1, 2}, <<Ix("transfer", <<1, 2>>, 1)>>)
PayBoth == NewBody(<<pa, ph, b>>, {1, 2}, {1, 2, 3},
                   <<Ix("transfer", <<1, 3>>, 1), Ix("transfer", <<2, 3>>, 1)>>)
PayWith == NewBody(<<pa, h, b>>, {1, 2}, {1, 2, 3},
                   <<Ix("transfer", <<1, 3>>, 1), Ix("transfer", <<2, 3>>, 1)>>)
Nest == NewBody(<<pa, n2, np, b>>, {1}, {1, 2, 4},
                <<Ix("execute", <<1, 2, 3, 1, 4>>, 0), Ix("withdraw", <<1, 2, 4>>, 2)>>)

\* The envelope of a message: its signing keys, then the nonce account, the nonce
\* program, and the message's own keys.
Shape(keys, required, writing, accounts) ==
    [keys |-> keys, required |-> required, writable |-> writing, accounts |-> accounts,
     program |-> ex, isExecute |-> TRUE, wellFormed |-> TRUE]

ForPay == Shape(<<a, pa, b, n1, np>>, 1, {2, 3, 4}, <<2, 4, 5, 2, 3>>)
ForPayBoth == Shape(<<a, h, pa, ph, b, n1, np>>, 2, {3, 4, 5, 6}, <<3, 6, 7, 3, 4, 5>>)
ForPayWith == Shape(<<a, h, pa, b, n1, np>>, 2, {2, 3, 4, 5}, <<3, 5, 6, 3, 2, 4>>)
ForNest == Shape(<<a, pa, b, n1, n2, np>>, 1, {2, 3, 4, 5}, <<2, 4, 6, 2, 5, 6, 3>>)
WrongProgram == [ForPay EXCEPT !.program = np]
WrongInstruction == [ForPay EXCEPT !.isExecute = FALSE]

MCBody == {Pay, PayBoth, PayWith, Nest}
MCShape == {ForPay, ForPayBoth, ForPayWith, ForNest, WrongProgram, WrongInstruction}
MCDirectCall == {}
MCKeyHolder == {h}
MCNonceAddress == {n1, n2}
MCSomeWritable == {MCAddress, {h, pa, ph, b, n1}}
==============================================================================
