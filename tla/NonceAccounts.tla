---------------------------- MODULE NonceAccounts ----------------------------
(* The account data of the SPL Nonce program and its three instruction       *)
(* handlers (nonce/program/src, nonce/interface/src/state.rs), as operators   *)
(* on a ledger: a function from addresses to account cells.  A handler is a    *)
(* guard, XxxOk, the conjunction of its early returns, and an effect, the      *)
(* ledger it leaves behind when every check passed.  A handler that fails      *)
(* changes nothing, because the runtime discards the transaction.              *)
(* The state machines Nonce and Executor are built from these operators.       *)
EXTENDS Integers, Sequences

CONSTANTS
    Address,        \* account addresses
    Commitment,     \* transition commitments, 32-byte hashes of the caller's choice
    MinBalance,     \* rent-exempt minimum for each class of data length
    U64Max,         \* the largest lamport balance
    Zeroed          \* account data that is all zero bytes

(* A nonce is a SHA-256 hash, modelled by the inputs it commits to: the nonce  *)
(* account, the slot whose recent slot hash seeded it, and the commitments of  *)
(* the advances since.  Equal terms stand for equal hashes, and (collision     *)
(* resistance) different terms for different ones.                             *)
NonceValue == [account: Address, seed: Nat, steps: Seq(Commitment)]

NonceState == [nonce: NonceValue, authority: Address, initialize_slot: Nat]

(* "none": owned by the System program, no data.  "exact" and "odd": owned by  *)
(* the Nonce program with Nonce::LEN bytes, and with any other length.         *)
DataLength == {"none", "exact", "odd"}

Cell == [size: DataLength, state: NonceState \cup {Zeroed}, lamports: Nat]

ASSUME LedgerAssumption ==
    /\ MinBalance \in [{"exact", "odd"} -> Nat \ {0}]
    /\ U64Max \in Nat
    /\ Zeroed \notin NonceState \cup NonceValue

------------------------------------------------------------------------------
(* Helpers of the interface crate.                                            *)

OwnedByProgram(cell) == cell.size # "none"

\* Nonce::view succeeds
Initialized(cell) == cell.size = "exact" /\ cell.state # Zeroed

\* The newest SlotHashes entry is the hash of the bank's parent.  Every bank has
\* one of its own, so the hash is named by the slot that reads it.
RecentSlotHash(slot) == slot

\* Mutant: the initial value depends on the address alone.
InitialNonceWithoutSlotHash(n, hash) == [account |-> n, seed |-> 0, steps |-> <<>>]

InitialNonce(n, hash) == [account |-> n, seed |-> hash, steps |-> <<>>]

NextNonce(nonce, commitment) == [nonce EXCEPT !.steps = Append(@, commitment)]

SystemCell(lamports) == [size |-> "none", state |-> Zeroed, lamports |-> lamports]

------------------------------------------------------------------------------
(* Initialize: the authority need not sign, and anyone may call it.           *)

\* Mutant: no rent check.
InitializeOkWithoutRent(ledger, n) ==
    /\ OwnedByProgram(ledger[n])
    /\ ledger[n].size = "exact"
    /\ ledger[n].state = Zeroed

InitializeOk(ledger, n) ==
    /\ OwnedByProgram(ledger[n])
    /\ ledger[n].size = "exact"
    /\ ledger[n].state = Zeroed
    /\ ledger[n].lamports >= MinBalance["exact"]

InitializeEffect(ledger, n, authority, slot) ==
    [ledger EXCEPT ![n].state =
        [nonce           |-> InitialNonce(n, RecentSlotHash(slot)),
         authority       |-> authority,
         initialize_slot |-> slot]]

------------------------------------------------------------------------------
(* Advance: only the stored authority, and only from the stored nonce.        *)

AdvanceOk(ledger, signers, authority, n, current) ==
    /\ OwnedByProgram(ledger[n])
    /\ Initialized(ledger[n])
    /\ authority = ledger[n].state.authority
    /\ authority \in signers
    /\ current = ledger[n].state.nonce

AdvanceEffect(ledger, n, commitment) ==
    [ledger EXCEPT ![n].state.nonce = NextNonce(@, commitment)]

------------------------------------------------------------------------------
(* Withdraw: an initialized account answers to its stored authority, any other *)
(* program-owned account to its own key.  The full balance closes the account. *)

\* Mutants: an account that holds no nonce answers to nobody; the account's own key
\* is accepted whether or not it holds one.
MayWithdrawInitializedOnly(ledger, authority, n) ==
    Initialized(ledger[n]) /\ authority = ledger[n].state.authority

MayWithdrawOwnKey(ledger, authority, n) ==
    \/ authority = n
    \/ Initialized(ledger[n]) /\ authority = ledger[n].state.authority

MayWithdraw(ledger, authority, n) ==
    IF Initialized(ledger[n])
    THEN authority = ledger[n].state.authority
    ELSE authority = n

\* Mutant: closing is allowed in the slot of the initialization.
CloseAllowedSameSlot(cell, slot) == Initialized(cell) => slot >= cell.state.initialize_slot

CloseAllowed(cell, slot) == Initialized(cell) => slot > cell.state.initialize_slot

\* Mutants: a wrapping subtraction; the account itself as the destination.
WithdrawOkWrapping(ledger, signers, slot, authority, n, to, lamports) ==
    /\ OwnedByProgram(ledger[n])
    /\ to # n
    /\ MayWithdraw(ledger, authority, n)
    /\ authority \in signers
    /\ IF lamports = ledger[n].lamports
       THEN CloseAllowed(ledger[n], slot)
       ELSE (ledger[n].lamports - lamports) % (U64Max + 1) >= MinBalance[ledger[n].size]
    /\ ledger[to].lamports + lamports <= U64Max

WithdrawOkToItself(ledger, signers, slot, authority, n, to, lamports) ==
    /\ OwnedByProgram(ledger[n])
    /\ MayWithdraw(ledger, authority, n)
    /\ authority \in signers
    /\ lamports <= ledger[n].lamports
    /\ IF lamports = ledger[n].lamports
       THEN CloseAllowed(ledger[n], slot)
       ELSE ledger[n].lamports - lamports >= MinBalance[ledger[n].size]
    /\ ledger[to].lamports + lamports <= U64Max

WithdrawOk(ledger, signers, slot, authority, n, to, lamports) ==
    /\ OwnedByProgram(ledger[n])
    /\ to # n
    /\ MayWithdraw(ledger, authority, n)
    /\ authority \in signers
    /\ lamports <= ledger[n].lamports
    /\ IF lamports = ledger[n].lamports
       THEN CloseAllowed(ledger[n], slot)
       ELSE ledger[n].lamports - lamports >= MinBalance[ledger[n].size]
    /\ ledger[to].lamports + lamports <= U64Max

\* The destination is credited first, then the account is closed or debited.
WithdrawEffect(ledger, n, to, lamports) ==
    LET remaining == ledger[n].lamports - lamports
        credited  == [ledger EXCEPT ![to].lamports = @ + lamports]
    IN  IF remaining = 0
        THEN [credited EXCEPT ![n] = SystemCell(0)]
        ELSE [credited EXCEPT ![n].lamports = remaining]

------------------------------------------------------------------------------
(* The System program, as the clients use it to fund and create accounts.     *)

TransferOk(ledger, signers, from, to, lamports) ==
    /\ from \in signers
    /\ ~OwnedByProgram(ledger[from])
    /\ from # to
    /\ lamports <= ledger[from].lamports
    /\ ledger[to].lamports + lamports <= U64Max

TransferEffect(ledger, from, to, lamports) ==
    [ledger EXCEPT ![from].lamports = @ - lamports, ![to].lamports = @ + lamports]

\* allocate and assign: fresh zeroed data of either length class
AssignOk(ledger, signers, n) == n \in signers /\ ~OwnedByProgram(ledger[n])

AssignEffect(ledger, n, size) == [ledger EXCEPT ![n].size = size]
==============================================================================
