---------------------------- MODULE MCNonceCommands ----------------------------
(* An account n that may be a nonce account of the hot key h, or of the           *)
(* programmatic signer pa of the cold key a, or has yet to become one, and a      *)
(* recipient b.                                                                 *)
EXTENDS NonceCommands

CONSTANTS r1, r2, w, h, a, ph, pa, pn, b, n, stranger

MCAddress == {w, h, a, ph, pa, pn, b, n, stranger}
MCPda == [k \in {h, a, n} |-> CASE k = h -> ph [] k = a -> pa [] k = n -> pn]
MCMinBalance == [size \in {"exact", "odd"} |-> IF size = "exact" THEN 2 ELSE 1]
MCCommitment == [salt: {1}] \cup [to: {b}, lamports: 1..8]

Live(authority) ==
    [size     |-> "exact",
     lamports |-> 4,
     state    |-> [nonce           |-> [account |-> n, seed |-> 1, steps |-> <<>>],
                   authority       |-> authority,
                   initialize_slot |-> 1]]

Uninitialized == [size |-> "exact", lamports |-> 2, state |-> Zeroed]

Ledger(atN, funds) ==
    [x \in MCAddress |-> IF x = n THEN atN ELSE SystemCell(IF x = w THEN funds ELSE 0)]

DoAdvance(key, canSign, salt) ==
    [op |-> "advance", account |-> n, key |-> key, canSign |-> canSign, salt |-> salt]
DoWithdraw(key, canSign, amount) ==
    [op |-> "withdraw", account |-> n, key |-> key, canSign |-> canSign,
     to |-> b, amount |-> amount]
DoCreate(authority, derive) ==
    [op |-> "create", account |-> n, authority |-> authority, derive |-> derive]

\* One user keeps advancing n; the other does everything else.
MCLedgers == {Ledger(Live(pa), 2), Ledger(SystemCell(0), 2), Ledger(Uninitialized, 0)}
MCAsks ==
    [r \in {r1, r2} |->
        IF r = r1 THEN {DoAdvance(a, TRUE, 1)}
        ELSE {DoWithdraw(a, FALSE, 2), DoWithdraw(a, TRUE, 2),
              DoWithdraw(n, TRUE, All), DoCreate(a, TRUE)}]

\* The owner of the hot key withdraws a part, and again when that times out.
MCRetryAsks == [r \in {r1, r2} |-> IF r = r1 THEN {DoWithdraw(h, TRUE, 2)} ELSE {}]

\* The hot key withdraws and advances, twice at the same time, while others deposit.
MCHotLedgers == {Ledger(Live(h), 2)}
MCHotAsks ==
    [r \in {r1, r2} |-> {DoWithdraw(h, TRUE, 2), DoWithdraw(h, TRUE, All),
                         DoAdvance(h, TRUE, 1)}]
MCDeposits == {2}
==============================================================================
