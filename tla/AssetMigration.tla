---------------------------- MODULE AssetMigration ----------------------------
(* `migrate sol` and `migrate token`: moving SOL or tokens to a programmatic signer.  *)
(* A SOL command has the owner, the key of the new authority and the amount.  A token *)
(* command has the mint, an owner or a source account, the key of the new authority,  *)
(* maybe a destination, the amount, a funder, whether to leave the source open and a  *)
(* recipient of its rent.  Default stands for what is not given.                    *)
EXTENDS Migration

Given(argument, default) == IF argument = Default THEN default ELSE argument

\* A cause to refuse that both commands have: the owner is the new authority.
OwnerRefused(key, owner) ==
    \/ NewAuthorityRefused(key, owner)
    \/ Pda[NewAuthority(key, owner)] = owner

------------------------------------------------------------------------------
(* migrate/sol.rs                                                             *)

NewWallet(c) == Pda[NewAuthority(c.key, c.owner)]

SolAmount(c, seen) == Given(c.amount, seen[c.owner].lamports)

\* A part leaves its owner rent exempt; the new wallet ends up rent exempt.
SolRefused(c, seen) ==
    \/ OwnerRefused(c.key, c.owner)
    \/ ~SystemAccount(seen[c.owner])
    \/ LET amount == SolAmount(c, seen)
           balance == seen[c.owner].lamports
       IN  \/ amount = 0
           \/ amount # balance /\ amount + Rent > balance
           \/ seen[NewWallet(c)].lamports + amount < Rent

SolReport(c, seen) ==
    LET key    == NewAuthority(c.key, c.owner)
        amount == SolAmount(c, seen)
    IN  Report(key, <<Transfer(c.owner, Pda[key], amount), Memo(Pda[key])>>,
               [lamports |-> amount, closes |-> amount = seen[c.owner].lamports])

SolReads(c, seen) ==
    IF c.owner \notin DOMAIN seen THEN {c.owner}
    ELSE IF OwnerRefused(c.key, c.owner) THEN {} ELSE {NewWallet(c)}

------------------------------------------------------------------------------
(* migrate/token.rs                                                           *)

Program(c, seen) == seen[c.mint].program

Source(c, seen) == Given(c.source, Ata(c.owner, c.mint, Program(c, seen)))

\* Whose tokens move, once the source is known.
Owner(c, seen) == IF c.source = Default THEN c.owner ELSE seen[Source(c, seen)].owner

Key(c, seen) == NewAuthority(c.key, Owner(c, seen))

Amount(c, seen) == Given(c.amount, seen[Source(c, seen)].amount)

Closes(c, seen) == Amount(c, seen) = seen[Source(c, seen)].amount /\ ~c.noClose

Destination(c, seen) ==
    Given(c.destination, Ata(Pda[Key(c, seen)], c.mint, Program(c, seen)))

RentRecipient(c, seen) == Given(c.rentRecipient, Key(c, seen))

\* An account of the mint's own token program.
HoldsMint(c, seen, account) ==
    /\ account.program = Program(c, seen) /\ account.type = "account" /\ account.mint = c.mint

\* The CPI guard would block a transfer; only an open source may be left with nothing moved.
SourceRefused(c, seen) ==
    LET account == seen[Source(c, seen)]
    IN  \/ ~HoldsMint(c, seen, account)
        \/ Owner(c, seen) # account.owner
        \/ OwnerRefused(c.key, account.owner)
        \/ account.guard
        \/ c.amount # Default /\ (c.amount = 0 \/ c.amount > account.amount)
        \/ c.amount = Default /\ account.amount = 0 /\ c.noClose
        \/ Source(c, seen) = Destination(c, seen)

\* A destination that is given must exist; the associated account is used by a transfer.
ReadsDestination(c, seen) == c.destination # Default \/ Amount(c, seen) > 0

HasDestination(c, seen) ==
    /\ ReadsDestination(c, seen)
    /\ c.destination = Default => seen[Destination(c, seen)].program = Program(c, seen)

\* Mutant: whoever owns the destination.
DestinationRefusedUnowned(c, seen) ==
    LET account == seen[Destination(c, seen)]
    IN  /\ HasDestination(c, seen)
        /\ ~HoldsMint(c, seen, account) \/ (Amount(c, seen) > 0 /\ account.frozen)

\* An associated account may have been given to another owner.
DestinationRefused(c, seen) ==
    LET account == seen[Destination(c, seen)]
    IN  /\ HasDestination(c, seen)
        /\ \/ ~HoldsMint(c, seen, account)
           \/ account.owner # Pda[Key(c, seen)]
           \/ Amount(c, seen) > 0 /\ account.frozen

\* The mint's rules do not matter when an empty account is closed.
TransferRefused(c, seen) ==
    /\ Amount(c, seen) > 0
    /\ \/ seen[Source(c, seen)].frozen
       \/ seen[c.mint].rule \in {"non-transferable", "hook"}
       \/ ~HasDestination(c, seen) /\ seen[c.mint].rule = "frozen"

CloseRefused(c, seen) ==
    /\ Closes(c, seen)
    /\ RentRecipient(c, seen) = Source(c, seen) \/ seen[Source(c, seen)].confidential

TokenRefused(c, seen) ==
    \/ ~MintAccount(seen[c.mint])
    \/ SourceRefused(c, seen)
    \/ DestinationRefused(c, seen)
    \/ TransferRefused(c, seen)
    \/ CloseRefused(c, seen)

\* The associated account is created if need be; it may exist by the time this runs.
MoveTokens(c, seen) ==
    (IF HasDestination(c, seen) THEN <<>>
     ELSE <<CreateAta(Given(c.funder, Owner(c, seen)), Pda[Key(c, seen)], c.mint,
                      Program(c, seen))>>)
    \o <<TransferChecked(Source(c, seen), c.mint, Destination(c, seen), Owner(c, seen),
                         Amount(c, seen))>>

\* Mutant: the owner closes the account, close authority or not.
CloseSourceAsOwner(c, seen) ==
    (IF seen[Source(c, seen)].withheld > 0 THEN <<Harvest(Source(c, seen))>> ELSE <<>>)
    \o <<Close(Source(c, seen), RentRecipient(c, seen), Owner(c, seen))>>

\* Withheld fees are harvested first; once set, only the close authority closes.
CloseSource(c, seen) ==
    LET account == seen[Source(c, seen)]
    IN  (IF account.withheld > 0 THEN <<Harvest(Source(c, seen))>> ELSE <<>>)
        \o <<Close(Source(c, seen), RentRecipient(c, seen),
                   IF account.closeAuthority = Nobody THEN Owner(c, seen)
                                                      ELSE account.closeAuthority)>>

TokenReport(c, seen) ==
    LET key    == Key(c, seen)
        amount == Amount(c, seen)
    IN  Report(key,
               (IF amount > 0 THEN MoveTokens(c, seen) ELSE <<>>)
                   \o (IF Closes(c, seen) THEN CloseSource(c, seen) ELSE <<>>)
                   \o <<Memo(Pda[key])>>,
               [amount |-> amount, from |-> Source(c, seen), to |-> Destination(c, seen),
                funder |-> IF amount > 0 /\ ~HasDestination(c, seen)
                           THEN Given(c.funder, Owner(c, seen)) ELSE Nobody,
                fee |-> amount > 0 /\ seen[c.mint].fee > 0,
                rentRecipient |-> IF Closes(c, seen) THEN RentRecipient(c, seen) ELSE Nobody])

TokenReads(c, seen) ==
    IF c.mint \notin DOMAIN seen THEN {c.mint}
    ELSE IF ~MintAccount(seen[c.mint]) THEN {}
    ELSE IF Source(c, seen) \notin DOMAIN seen THEN {Source(c, seen)}
    ELSE IF SourceRefused(c, seen) \/ ~ReadsDestination(c, seen) THEN {}
    ELSE {Destination(c, seen)}
==============================================================================
