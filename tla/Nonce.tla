-------------------------------- MODULE Nonce --------------------------------
(* The SPL Nonce program on a chain: accounts are created, initialized,        *)
(* advanced, drained, closed and created again, by anyone, in any order, and   *)
(* slots pass.  A step is one instruction, run with the signer privileges of   *)
(* its transaction; many steps may happen in one slot.                         *)
EXTENDS NonceAccounts, FiniteSetsExt

CONSTANTS
    NonceAddress,        \* the addresses where nonce accounts are created
    Cold,                \* addresses whose keys sign no transaction
    TransactionSigners,  \* the sets of addresses that sign a transaction together
    Supply,              \* lamports each address starts with
    MaxSlot,             \* bound: the last slot explored
    MaxSteps             \* bound: advances of an account between two initializations

ASSUME NonceAssumption ==
    /\ NonceAddress \subseteq Address
    /\ Cold \subseteq Address
    /\ TransactionSigners \subseteq SUBSET (Address \ Cold)
    /\ Supply \in [Address -> Nat]
    /\ MaxSlot \in Nat
    /\ MaxSteps \in Nat

\* What all addresses hold together, when each holds what `balance` gives it.
Held(balance) == MapThenSumSet(LAMBDA a : balance[a], Address)

\* The lamports of a cluster fit in a u64, and a nonce account is never all there is.
ASSUME SupplyAssumption ==
    /\ IsFiniteSet(Address)
    /\ Held(Supply) <= U64Max
    /\ \A n \in NonceAddress : Address # {n}

VARIABLES
    ledger,     \* the accounts
    slot,       \* the Clock sysvar's slot
    retired     \* history: every nonce an account stored once and no longer does

vars == <<ledger, slot, retired>>

NoNonce == Zeroed

StoredNonce(n) == IF Initialized(ledger[n]) THEN ledger[n].state.nonce ELSE NoNonce

\* The nonce values a caller can have learned from the chain.
KnownNonces == retired \cup ({StoredNonce(n) : n \in NonceAddress} \ {NoNonce})

Init == /\ ledger = [a \in Address |-> SystemCell(Supply[a])]
        /\ slot = 1
        /\ retired = {}

Assign(signers, n, size) ==
    /\ AssignOk(ledger, signers, n)
    /\ ledger' = AssignEffect(ledger, n, size)
    /\ UNCHANGED <<slot, retired>>

Transfer(signers, from, to, lamports) ==
    /\ TransferOk(ledger, signers, from, to, lamports)
    /\ ledger' = TransferEffect(ledger, from, to, lamports)
    /\ UNCHANGED <<slot, retired>>

Initialize(n, authority) ==
    /\ InitializeOk(ledger, n)
    /\ ledger' = InitializeEffect(ledger, n, authority, slot)
    /\ UNCHANGED <<slot, retired>>

Advance(signers, authority, n, current, commitment) ==
    /\ AdvanceOk(ledger, signers, authority, n, current)
    /\ Len(ledger[n].state.nonce.steps) < MaxSteps
    /\ ledger' = AdvanceEffect(ledger, n, commitment)
    /\ retired' = retired \cup {ledger[n].state.nonce}
    /\ UNCHANGED slot

Withdraw(signers, authority, n, to, lamports) ==
    /\ WithdrawOk(ledger, signers, slot, authority, n, to, lamports)
    /\ ledger' = WithdrawEffect(ledger, n, to, lamports)
    /\ retired' = IF Initialized(ledger[n]) /\ lamports = ledger[n].lamports
                  THEN retired \cup {ledger[n].state.nonce}
                  ELSE retired
    /\ UNCHANGED slot

NextSlot == /\ slot < MaxSlot
            /\ slot' = slot + 1
            /\ UNCHANGED <<ledger, retired>>

Next ==
    \/ \E signers \in TransactionSigners :
        \/ \E n \in NonceAddress, size \in {"exact", "odd"} : Assign(signers, n, size)
        \/ \E from \in Address, to \in Address, lamports \in 1..U64Max :
                Transfer(signers, from, to, lamports)
        \/ \E a \in Address, n \in NonceAddress, current \in KnownNonces, c \in Commitment :
                Advance(signers, a, n, current, c)
        \/ \E a \in Address, n \in NonceAddress, to \in Address, lamports \in 0..U64Max :
                Withdraw(signers, a, n, to, lamports)
    \/ \E n \in NonceAddress, a \in Address : Initialize(n, a)
    \/ NextSlot

Spec == Init /\ [][Next]_vars

------------------------------------------------------------------------------
(* Properties.                                                                *)

\* Balances are natural numbers (no withdrawal underflows a u64), account data is
\* zeroed or a well-formed Nonce, the clock is a slot.
TypeOK ==
    /\ ledger \in [Address -> Cell]
    /\ slot \in Nat
    /\ retired \subseteq NonceValue

\* A nonce value that was consumed, or given up by closing its account, is never
\* stored again, by that account or another, through any sequence of advances,
\* closings and re-creations: what makes a message single-use (withdraw.rs's
\* same-slot rule, the slot hash in derive_initial_nonce).
RetiredStaysRetired ==
    \A n \in NonceAddress : StoredNonce(n) \notin retired

\* Every initialized nonce account stays rent-exempt, whatever is withdrawn from
\* it: the runtime never purges a live nonce behind its authority's back.
StaysRentExempt ==
    \A n \in NonceAddress :
        Initialized(ledger[n]) => ledger[n].lamports >= MinBalance["exact"]

\* Once initialized, an account whose authority signs nothing keeps its nonce, its
\* authority and its slot and never loses a lamport, whatever the others do, the
\* holder of the account's own key included.
ColdAuthorityUntouched ==
    [][\A n \in NonceAddress :
        Initialized(ledger[n]) /\ ledger[n].state.authority \in Cold =>
            /\ ledger'[n].size = "exact"
            /\ ledger'[n].state = ledger[n].state
            /\ ledger'[n].lamports >= ledger[n].lamports]_vars

\* Nothing the program owns is stranded: whoever controls an account (its stored
\* authority, or its own key while it holds no nonce, whatever its length) can
\* close it and recover every lamport, once the slot of its initialization is over.
Controller(n) == IF Initialized(ledger[n]) THEN ledger[n].state.authority ELSE n

NeverStranded ==
    \A n \in NonceAddress :
        /\ OwnedByProgram(ledger[n])
        /\ Initialized(ledger[n]) => slot > ledger[n].state.initialize_slot
        => \E to \in Address :
              WithdrawOk(ledger, {Controller(n)}, slot, Controller(n), n, to,
                         ledger[n].lamports)

\* No instruction creates or destroys lamports: a withdrawal moves exactly what it
\* takes, even when the destination is named twice or is a nonce account itself.
Conserved == Held([a \in Address |-> ledger[a].lamports]) = Held(Supply)

\* The accounts implement single-use values.
OneTime == INSTANCE SingleUse WITH
    Holder  <- NonceAddress,
    NoValue <- NoNonce,
    current <- [n \in NonceAddress |-> StoredNonce(n)],
    spent   <- retired

ImplementsSingleUse == OneTime!Spec
==============================================================================
