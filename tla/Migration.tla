------------------------------- MODULE Migration -------------------------------
(* What the `migrate` commands share: the accounts they read, the new authority,   *)
(* the execution message they build and what its instructions do.                  *)
(* The other programs' instructions are modelled from how the commands use them.    *)
EXTENDS Integers, Sequences, FiniteSets, SequencesExt

CONSTANTS
    Address,
    OnCurve,        \* addresses that are keys
    Pda,            \* the programmatic signer of a key
    Ata(_, _, _),   \* associated token account of an owner, a mint and a token program
    Clock,          \* address of the clock sysvar
    Nobody,         \* no authority
    Default,        \* an argument that is not given
    Rent,           \* rent-exempt minimum of an account without data
    TokenRent       \* that of a token account

ASSUME MigrationAssumption ==
    /\ OnCurve \subseteq Address /\ DOMAIN Pda = OnCurve
    /\ \A k, l \in OnCurve :
          Pda[k] \in Address \ OnCurve /\ (Pda[k] = Pda[l] => k = l)
    /\ Rent \in Nat \ {0} /\ TokenRent \in Nat /\ TokenRent >= Rent

ASSUME NamesAssumption ==
    /\ Nobody \notin Address
    /\ Default \notin Address \cup {"mint", "freeze", "staker", "withdrawer"}

Missing == [program |-> "none", lamports |-> 0]
System(lamports) == [program |-> "system", data |-> FALSE, lamports |-> lamports]

------------------------------------------------------------------------------
(* What an address may hold.  Accounts of programs are rent exempt.               *)

Exempt == {n \in Nat : n >= Rent}

Wallets == [program : {"system"}, data : BOOLEAN, lamports : Nat]
TokenAccounts ==
    [program : {"token", "token2022"}, type : {"account"}, mint : Address, owner : Address,
     amount : Nat, frozen : BOOLEAN, guard : BOOLEAN, closeAuthority : Address \cup {Nobody},
     withheld : Nat, confidential : BOOLEAN, lamports : Exempt]
Mints ==
    {m \in [program : {"token", "token2022"}, type : {"mint"},
            authority : [{"mint", "freeze"} -> Address \cup {Nobody}],
            rule : {"none", "frozen", "non-transferable", "hook"}, fee : Nat,
            extended : BOOLEAN, lamports : Exempt] :
        m.extended => m.program = "token2022"}
Stakes ==
    [program : {"stake"}, authority : [{"staker", "withdrawer"} -> Address],
     lockup : [until : Nat, custodian : Address], lamports : Exempt]
Votes ==
    [program : {"vote"}, authority : [{"withdrawer"} -> Address], lamports : Exempt]
Programs == [program : {"loader"}, type : {"program"}, data : Address, lamports : Exempt]
ProgramDatas ==
    [program : {"loader"}, type : {"program data"},
     authority : [{"upgrade"} -> Address \cup {Nobody}], lamports : Exempt]

\* Without roles: a stake or vote account that is not initialized, and any other.
Uninitialized == [program : {"stake", "vote", "other"}, authority : {<<>>}, lamports : Exempt]
Sysvars == [program : {"sysvar"}, time : Nat, lamports : Exempt]

\* An address may hold any of these, one after the other; all other accounts stay what
\* they are while a command runs.
Movable == {Missing} \cup Wallets \cup TokenAccounts

Accounts ==
    Movable \cup Mints \cup Stakes \cup Votes \cup Programs \cup ProgramDatas
    \cup Uninitialized \cup Sysvars

------------------------------------------------------------------------------
(* client.rs: fetching accounts.  `seen` maps addresses to accounts as read.     *)

StakeAccount(account) == account.program = "stake"
VoteAccount(account) == account.program = "vote"
LoaderAccount(account) == account.program = "loader"
TokenProgramAccount(account) == account.program \in {"token", "token2022"}
MintAccount(account) == TokenProgramAccount(account) /\ account.type = "mint"
SystemAccount(account) == account.program = "system" /\ ~account.data

------------------------------------------------------------------------------
(* migrate/mod.rs                                                             *)

\* new_owner_programmatic_signer and default_new_authority
NewAuthorityRefused(key, current) ==
    (IF key = Default THEN current ELSE key) \notin OnCurve

NewAuthority(key, current) == IF key = Default THEN current ELSE key

\* execution_message: the new owner signs first.
Message(newOwner, instructions) ==
    [instructions |-> instructions,
     signers |-> {newOwner} \cup UNION {ix.signers : ix \in ToSet(instructions)}]

\* RequiredSigners::new
Forwarded(message) == message.signers \cap OnCurve
Authorizations(message, known) ==
    {[signer |-> s, key |-> IF Pda[known] = s THEN known ELSE Nobody] :
        s \in message.signers \ OnCurve}

\* A command's output.
Report(key, instructions, moved) ==
    LET message == Message(Pda[key], instructions)
    IN  [key |-> key, newOwner |-> Pda[key], message |-> message, moved |-> moved,
         forwarded |-> Forwarded(message), authorizations |-> Authorizations(message, key)]

------------------------------------------------------------------------------
(* Instructions.  A world maps every address to its account.                     *)

\* SetAuthority of a mint or of a program's data, Authorize of a vote or stake account.
SetRole(account, role, current, new, others) ==
    [op |-> "set role", account |-> account, role |-> role, current |-> current,
     new |-> new, signers |-> {current} \cup others]
Memo(signer) == [op |-> "memo", signers |-> {signer}]
Transfer(from, to, lamports) ==
    [op |-> "transfer", from |-> from, to |-> to, lamports |-> lamports, signers |-> {from}]
CreateAta(payer, owner, mint, program) ==
    [op |-> "create", payer |-> payer, owner |-> owner, mint |-> mint,
     account |-> Ata(owner, mint, program), signers |-> {payer}]
TransferChecked(from, mint, to, owner, amount) ==
    [op |-> "transfer tokens", from |-> from, mint |-> mint, to |-> to, owner |-> owner,
     amount |-> amount, signers |-> {owner}]
Harvest(account) == [op |-> "harvest", account |-> account, signers |-> {}]
Close(account, to, authority) ==
    [op |-> "close", account |-> account, to |-> to, authority |-> authority,
     signers |-> {authority}]

InForce(account, clock) == account.lockup.until > clock.time

\* Who may give a role of an account away, and who else must sign.
MaySetRole(w, ix) ==
    LET account == w[ix.account]
        holders == {account.authority[r] : r \in IF ix.role = "staker" THEN DOMAIN account.authority
                                                                      ELSE {ix.role}}
    IN  /\ account # Missing /\ ix.role \in DOMAIN account.authority
        /\ IF StakeAccount(account) \/ VoteAccount(account)
           THEN holders \cap ix.signers # {}
           ELSE ix.current = account.authority[ix.role]
        /\ StakeAccount(account) /\ ix.role = "withdrawer" /\ InForce(account, w[Clock])
                => account.lockup.custodian \in ix.signers

IsTokenAccount(account, mint) ==
    TokenProgramAccount(account) /\ account.type = "account" /\ account.mint = mint

MayTransferTokens(w, ix) ==
    /\ IsTokenAccount(w[ix.from], ix.mint) /\ IsTokenAccount(w[ix.to], ix.mint)
    /\ w[ix.from].owner = ix.owner /\ w[ix.from].amount >= ix.amount
    /\ ~w[ix.from].frozen /\ ~w[ix.to].frozen /\ ~w[ix.from].guard
    /\ w[ix.mint].rule \notin {"hook", "non-transferable"}

MayClose(w, ix) ==
    LET account == w[ix.account]
    IN  /\ TokenProgramAccount(account) /\ ix.to # ix.account
        /\ account.amount = 0 /\ account.withheld = 0 /\ ~account.confidential
        /\ ix.authority = IF account.closeAuthority = Nobody THEN account.owner
                                                             ELSE account.closeAuthority

\* An account that receives lamports, and a system account that pays them.
Credited(account, lamports) ==
    IF account = Missing THEN System(lamports) ELSE [account EXCEPT !.lamports = @ + lamports]
Debited(account, lamports) ==
    IF account.lamports = lamports THEN Missing ELSE [account EXCEPT !.lamports = @ - lamports]

Credit(w, a, lamports) == [w EXCEPT ![a] = Credited(w[a], lamports)]
Debit(w, a, lamports) == [w EXCEPT ![a] = Debited(w[a], lamports)]

NewTokenAccount(w, ix) ==
    [program |-> w[ix.mint].program, type |-> "account", mint |-> ix.mint, owner |-> ix.owner,
     amount |-> 0, frozen |-> w[ix.mint].rule = "frozen", guard |-> FALSE,
     closeAuthority |-> Nobody, withheld |-> 0, confidential |-> FALSE, lamports |-> TokenRent]

\* What a transfer leaves with the mint.
Fee(mint, amount) == IF mint.fee < amount THEN mint.fee ELSE amount

\* Whether an instruction succeeds, and what it does.
May(w, ix) ==
    CASE ix.op = "set role"        -> MaySetRole(w, ix)
      [] ix.op = "transfer"        -> SystemAccount(w[ix.from]) /\ w[ix.from].lamports >= ix.lamports
      [] ix.op = "create"          ->
            IF w[ix.account] = Missing
            THEN SystemAccount(w[ix.payer]) /\ w[ix.payer].lamports >= TokenRent
            ELSE IsTokenAccount(w[ix.account], ix.mint) /\ w[ix.account].owner = ix.owner
      [] ix.op = "transfer tokens" -> MayTransferTokens(w, ix)
      [] ix.op = "harvest"         -> TokenProgramAccount(w[ix.account])
      [] ix.op = "close"           -> MayClose(w, ix)
      [] OTHER                     -> TRUE

Do(w, ix) ==
    CASE ix.op = "set role"        -> [w EXCEPT ![ix.account].authority[ix.role] = ix.new]
      [] ix.op = "transfer"        -> Credit(Debit(w, ix.from, ix.lamports), ix.to, ix.lamports)
      [] ix.op = "create"          ->
            IF w[ix.account] = Missing
            THEN [Debit(w, ix.payer, TokenRent) EXCEPT ![ix.account] = NewTokenAccount(w, ix)]
            ELSE w
      [] ix.op = "transfer tokens" ->
            [w EXCEPT ![ix.from].amount = @ - ix.amount,
                      ![ix.to].amount = @ + ix.amount - Fee(w[ix.mint], ix.amount),
                      ![ix.to].withheld = @ + Fee(w[ix.mint], ix.amount)]
      [] ix.op = "harvest"         -> [w EXCEPT ![ix.account].withheld = 0]
      [] ix.op = "close"           ->
            [Credit(w, ix.to, w[ix.account].lamports) EXCEPT ![ix.account] = Missing]
      [] OTHER                     -> w

RentExempt(account) == account = Missing \/ account.lamports >= Rent

\* The worlds after each of a sequence of instructions, the first one before them all.
After(w, instructions) ==
    LET after[n \in 0..Len(instructions)] ==
            IF n = 0 THEN w ELSE Do(after[n - 1], instructions[n])
    IN  after

Executed(w, message) == After(w, message.instructions)[Len(message.instructions)]

\* The message runs whole or not at all; an account it changes stays rent exempt.
Succeeds(w, message) ==
    /\ \A n \in 1..Len(message.instructions) :
          LET ix == message.instructions[n]
          IN  /\ ix.signers \subseteq message.signers
              /\ May(After(w, message.instructions)[n - 1], ix)
    /\ \A a \in DOMAIN w :
          Executed(w, message)[a] = w[a] \/ RentExempt(Executed(w, message)[a])
==============================================================================
