------------------------------- MODULE Migrations -------------------------------
(* A migration from its first read to its execution, and a scan, while the accounts   *)
(* it is about change.  Each account is read when its turn comes; the message that is  *)
(* built from what was read is signed and runs whenever all who must sign have signed. *)
EXTENDS Scan

CONSTANTS
    Cases,          \* accounts, and the commands to try on them
    Strangers,      \* who else may come to control something
    Nothing,        \* no report yet
    Refusal,        \* the command failed
    MaxChanges      \* bound: accounts that others change

VARIABLES
    world,          \* account at every address
    command,
    seen,           \* the accounts read
    found,          \* answers to the queries of each category
    report,         \* what the command printed
    approvals,      \* keys that signed the message
    landed,         \* whether the message ran
    touched,        \* accounts that others changed since the command started
    past            \* what each account held before each such change; only properties read it

vars == <<world, command, seen, found, report, approvals, landed, touched, past>>

ArgumentOf(S) == S \cup {Default}
Commands ==
    [op : {"scan"}, owner : Address, key : ArgumentOf(Address)]
    \cup [op : {"mint"}, account : Address, key : ArgumentOf(Address),
          role : ArgumentOf({"mint", "freeze"})]
    \cup [op : {"stake"}, account : Address, key : ArgumentOf(Address),
          role : ArgumentOf({"staker", "withdrawer"})]
    \cup [op : {"vote", "program"}, account : Address, key : ArgumentOf(Address)]
    \cup [op : {"sol"}, owner : Address, key : ArgumentOf(Address), amount : ArgumentOf(Nat)]
    \cup [op : {"token"}, mint : Address, owner : ArgumentOf(Address),
          source : ArgumentOf(Address), key : ArgumentOf(Address),
          destination : ArgumentOf(Address), amount : ArgumentOf(Nat),
          funder : ArgumentOf(Address), noClose : BOOLEAN,
          rentRecipient : ArgumentOf(Address)]

\* Accounts of the programs fit together.  An associated address holds nothing but its
\* token account; an address that was sent lamports before is left out.
Consistent(w) ==
    /\ IsFiniteSet(DOMAIN w) /\ DOMAIN w \subseteq Address
    /\ \A a \in DOMAIN w : w[a] \in Accounts
    /\ Clock \in DOMAIN w => w[Clock] \in Sysvars
    /\ \A a \in DOMAIN w : w[a] \in Programs =>
          w[a].data \in DOMAIN w /\ w[w[a].data] \in ProgramDatas \cup Movable
    /\ \A a \in DOMAIN w : w[a] \in TokenAccounts =>
          /\ w[a].mint \in DOMAIN w /\ w[w[a].mint] \in Mints
          /\ w[w[a].mint].program = w[a].program

UsedByTokensOnly(w) ==
    \A o, m \in Address, p \in {"token", "token2022"} :
        Ata(o, m, p) \in DOMAIN w /\ w[Ata(o, m, p)] # Missing =>
            LET account == w[Ata(o, m, p)]
            IN  account \in TokenAccounts /\ account.mint = m /\ account.program = p

ASSUME AtaAssumption ==
    \A o, m \in Address, p \in {"token", "token2022"} : Ata(o, m, p) \in Address

ASSUME CasesAssumption ==
    /\ Strangers \subseteq Address
    /\ \A case \in Cases :
          /\ Consistent(case.world) /\ UsedByTokensOnly(case.world)
          /\ case.commands \subseteq Commands

Init ==
    /\ \E case \in Cases : world = case.world /\ command \in case.commands
    /\ seen = <<>> /\ found = [k \in Categories |-> <<>>]
    /\ report = Nothing /\ approvals = {} /\ landed = FALSE /\ touched = {}
    /\ past = [a \in DOMAIN world |-> {}]

Scanning == command.op = "scan"

------------------------------------------------------------------------------
(* The command.                                                               *)

NextReads ==
    CASE command.op = "token" -> TokenReads(command, seen)
      [] command.op = "sol" -> SolReads(command, seen)
      [] OTHER -> AuthorityReads(command, seen)

Refused(c, s) ==
    CASE c.op = "mint" -> MintRefused(c, s) [] c.op = "stake" -> StakeRefused(c, s)
      [] c.op = "vote" -> VoteRefused(c, s) [] c.op = "program" -> ProgramRefused(c, s)
      [] c.op = "sol" -> SolRefused(c, s) [] c.op = "token" -> TokenRefused(c, s)

Output(c, s) ==
    CASE c.op = "mint" -> MintReport(c, s) [] c.op = "stake" -> StakeReport(c, s)
      [] c.op = "vote" -> VoteReport(c, s) [] c.op = "program" -> ProgramReport(c, s)
      [] c.op = "sol" -> SolReport(c, s) [] c.op = "token" -> TokenReport(c, s)

Running == report = Nothing /\ ~Scanning

Read ==
    /\ Running
    /\ \E a \in (NextReads \cap DOMAIN world) \ DOMAIN seen :
            seen' = [b \in DOMAIN seen \cup {a} |-> IF b = a THEN world[a] ELSE seen[b]]
    /\ UNCHANGED <<world, command, found, report, approvals, landed, touched, past>>

Build ==
    /\ Running /\ NextReads \subseteq DOMAIN seen
    /\ report' = IF Refused(command, seen) THEN Refusal ELSE Output(command, seen)
    /\ UNCHANGED <<world, command, seen, found, approvals, landed, touched, past>>

\* The categories are scanned side by side.
Query(category) ==
    /\ Scanning /\ ~ScanRefused(command) /\ ~Scanned(category, found[category])
    /\ found' = [found EXCEPT
                    ![category] = Append(@, Answer(world, category, @, command.owner))]
    /\ UNCHANGED <<world, command, seen, report, approvals, landed, touched, past>>

\* An error stops its category only.
QueryFails(category) ==
    /\ Scanning /\ ~ScanRefused(command) /\ ~Scanned(category, found[category])
    /\ found' = [found EXCEPT ![category] = NotScanned]
    /\ UNCHANGED <<world, command, seen, report, approvals, landed, touched, past>>

------------------------------------------------------------------------------
(* Signing and running the message (see Relay and Executor for how).              *)

Built == report \notin {Nothing, Refusal}

Signs(k, s) == k = s \/ Pda[k] = s

Approve(k) ==
    /\ Built /\ ~landed /\ k \notin approvals
    /\ \E s \in report.message.signers : Signs(k, s)
    /\ approvals' = approvals \cup {k}
    /\ UNCHANGED <<world, command, seen, found, report, landed, touched, past>>

Execute ==
    /\ Built /\ ~landed
    /\ \A s \in report.message.signers : \E k \in approvals : Signs(k, s)
    /\ Succeeds(world, report.message)
    /\ world' = Executed(world, report.message)
    /\ landed' = TRUE
    /\ UNCHANGED <<command, seen, found, report, approvals, touched, past>>

------------------------------------------------------------------------------
(* What others do.                                                            *)

\* A role that nobody has can never be given again.
RoleChanges(account, holders) ==
    {[account EXCEPT !.authority[r] = k] :
        r \in {x \in DOMAIN account.authority : account.authority[x] # Nobody}, k \in holders}

StakeChanges(account) ==
    RoleChanges(account, Strangers) \cup
    {[account EXCEPT !.lockup = [until |-> 1, custodian |-> k]] :
        k \in {x \in Strangers : DOMAIN account.authority # {}}}

SystemChanges(account) ==
    {[account EXCEPT !.lamports = @ + 1], Missing}
    \cup IF account.lamports > Rent THEN {[account EXCEPT !.lamports = @ - 1]} ELSE {}

TokenChanges(account) ==
    {[account EXCEPT !.amount = @ + 1], [account EXCEPT !.withheld = @ + 1],
     [account EXCEPT !.frozen = ~@], [account EXCEPT !.guard = ~@]}
    \cup (IF account.amount > 0 /\ ~account.frozen THEN {[account EXCEPT !.amount = @ - 1]}
          ELSE IF account.amount = 0 THEN {Missing} ELSE {})
    \cup {[account EXCEPT !.owner = k] : k \in Strangers}
    \cup {[account EXCEPT !.closeAuthority = k] : k \in Strangers}

Changes(account) ==
    CASE account = Missing             -> {System(Rent)}
      [] SystemAccount(account)        -> SystemChanges(account)
      [] StakeAccount(account)         -> StakeChanges(account)
      [] VoteAccount(account)          -> RoleChanges(account, Strangers)
      [] IsProgramData(account)        -> RoleChanges(account, Strangers \cup {Nobody})
      [] MintAccount(account)          -> RoleChanges(account, Strangers \cup {Nobody})
      [] TokenProgramAccount(account) /\ ~MintAccount(account) -> TokenChanges(account)
      [] account.program = "sysvar"    -> {[account EXCEPT !.time = @ + 1]}
      [] OTHER                         -> {}

\* Somebody creates the associated account of a new authority ahead of the migration.
Creations(a) ==
    {NewTokenAccount(world, [mint |-> command.mint, owner |-> Pda[k]]) :
        k \in {j \in OnCurve :
                    /\ command.op = "token" /\ command.mint \in DOMAIN world
                    /\ MintAccount(world[command.mint])
                    /\ a = Ata(Pda[j], command.mint, world[command.mint].program)}}

\* There is still something to do that a change could meet.
Unfinished ==
    IF Scanning THEN \E category \in Categories : ~Scanned(category, found[category])
                ELSE ~landed /\ report # Refusal

Change(a) ==
    /\ Cardinality(touched) < MaxChanges /\ Unfinished
    /\ \E after \in Changes(world[a]) \cup (IF world[a] = Missing THEN Creations(a) ELSE {}) :
            world' = [world EXCEPT ![a] = after]
    /\ touched' = touched \cup {a}
    /\ past' = [past EXCEPT ![a] = @ \cup {world[a]}]
    /\ UNCHANGED <<command, seen, found, report, approvals, landed>>

Next ==
    \/ Read \/ Build \/ Execute
    \/ \E category \in Categories : Query(category) \/ QueryFails(category)
    \/ \E k \in OnCurve : Approve(k)
    \/ \E a \in DOMAIN world : Change(a)

Spec == Init /\ [][Next]_vars

------------------------------------------------------------------------------
(* Properties.                                                                *)

Kept(others) == \A a \in DOMAIN world \ others : world'[a] = world[a]

RolesMoved ==
    LET moved == IF command.op = "program" THEN seen[command.account].data
                                           ELSE command.account
    IN  /\ Kept({moved})
        /\ world'[moved] = [world[moved] EXCEPT !.authority =
                [r \in DOMAIN @ |-> IF r \in report.moved THEN report.newOwner ELSE @[r]]]

SolMoved ==
    LET from == command.owner
        to   == report.newOwner
    IN  /\ Kept({from, to})
        /\ world'[to].lamports - world[to].lamports = report.moved.lamports
        /\ world[from].lamports - world'[from].lamports = report.moved.lamports
        /\ from \in touched \/ (report.moved.closes <=> world'[from] = Missing)

Balance(account) == IF account = Missing THEN 0 ELSE account.amount

TokensMoved ==
    LET m == report.moved
    IN  /\ Kept({m.from, m.to, m.funder, m.rentRecipient})
        /\ IF m.amount = 0 THEN Kept({m.from, m.rentRecipient})
           ELSE /\ world'[m.to].owner = report.newOwner \/ m.to \in touched
                /\ Balance(world'[m.to]) = Balance(world[m.to]) + m.amount
                        - (IF m.fee THEN Fee(world[command.mint], m.amount) ELSE 0)
                /\ m.funder = Nobody => Kept({m.from, m.to, m.rentRecipient})
        /\ IF m.rentRecipient = Nobody
           THEN world'[m.from].amount = world[m.from].amount - m.amount
           ELSE world'[m.from] = Missing /\ world[m.from].amount = m.amount

\* However much later its message runs, and whatever changed in between, a migration
\* moves exactly what its command reported to the new authority that was reported, which
\* agreed, and nothing else; a balance that was to be closed is left only if it changed.
MovesWhatItReports ==
    [][~landed /\ landed' =>
        /\ report.key \in approvals
        /\ CASE command.op = "sol" -> SolMoved
             [] command.op = "token" -> TokensMoved
             [] OTHER -> RolesMoved]_vars

\* Whoever is to pay for a token account can.
FunderPays ==
    command.op = "token" /\ report.moved.funder # Nobody =>
        LET funder == world[report.moved.funder]
        IN  /\ report.moved.funder \in DOMAIN world /\ SystemAccount(funder)
            /\ funder.lamports = TokenRent \/ funder.lamports >= TokenRent + Rent

\* A message that a command builds runs as soon as the signers listed have signed, if
\* nothing was changed since the command began: no rule of the other programs that the
\* command knows, no lockup, close authority, withheld fee or rent minimum is in its way.
RunsIfUnchanged ==
    Built /\ ~landed /\ touched = {} /\ FunderPays =>
        Succeeds(world, report.message)

ScanDone(category) ==
    Scanning /\ ~ScanRefused(command) /\ found[category] # NotScanned
    /\ Scanned(category, found[category])

ItemsOf(category) == Items(command, category, found[category])

\* The account that holds an account's roles.
RoleAccount(a) == IF IsProgram(world[a]) THEN world[a].data ELSE a
Untouched == {a \in DOMAIN world : {a, RoleAccount(a)} \cap touched = {}}

CategoryOf(account) ==
    CASE StakeAccount(account) -> "stake" [] VoteAccount(account) -> "vote"
      [] IsProgram(account) -> "program" [] MintAccount(account) -> "mint"
      [] OTHER -> "none"

\* The owner's roles of an account that holds some.
Controlled(account) ==
    IF StakeAccount(account) \/ VoteAccount(account) \/ IsProgramData(account)
       \/ MintAccount(account)
    THEN {r \in DOMAIN account.authority : account.authority[r] = command.owner}
    ELSE {}

\* All that an address held since the command started.
Contents(a) == past[a] \cup {world[a]}

\* Each role listed was the owner's at some moment; each that stayed the owner's is listed.
RolesAreListed(category) ==
    /\ \A item \in ItemsOf(category) :
          /\ item.account \in DOMAIN world /\ CategoryOf(world[item.account]) = category
          /\ item.roles # {}
          /\ item.roles \subseteq
                UNION {Controlled(x) : x \in Contents(RoleAccount(item.account))}
    /\ \A a \in {b \in DOMAIN world : CategoryOf(world[b]) = category} :
          \A r \in Controlled(world[RoleAccount(a)]) :
             (\A x \in Contents(RoleAccount(a)) : r \in Controlled(x)) =>
                \E item \in ItemsOf(category) : item.account = a /\ r \in item.roles

HoldsTokens(account) ==
    TokenProgramAccount(account) /\ ~MintAccount(account) /\ account.owner = command.owner

\* What no arguments of `migrate token` get past (SourceRefused, TransferRefused, CloseRefused).
Stuck(account) ==
    \/ account.guard
    \/ IF account.amount = 0 THEN account.confidential
       ELSE account.frozen \/ world[account.mint].rule \in {"non-transferable", "hook"}

\* A token account is listed with the balance of some moment; one that stayed the owner's,
\* in a state that can be moved, is listed.
TokensAreListed ==
    /\ \A item \in ItemsOf("token") : \E x \in Contents(item.account) :
          HoldsTokens(x) /\ item.amount = x.amount /\ item.command.mint = x.mint
    /\ \A a \in DOMAIN world :
          (\A x \in Contents(a) : HoldsTokens(x) /\ ~Stuck(x)) =>
             \E item \in ItemsOf("token") : item.account = a

\* The lamports that the owner had at some moment, with a command if they could be moved.
SolIsListed ==
    \E x \in Contents(command.owner) :
        /\ ItemsOf("sol") # {}
        /\ \A item \in ItemsOf("sol") :
              /\ item.account = command.owner /\ item.amount = x.lamports
              /\ item.command # NoCommand <=> SystemAccount(x) /\ x.lamports > 0

\* A scan lists the roles, tokens and SOL of its owner, although its queries are answered
\* one after the other while accounts change: nothing that the owner had at no moment of it,
\* and everything that was the owner's and could be moved throughout.
ListsWhatIsControlled ==
    /\ \A category \in {"stake", "vote", "program", "mint"} :
          ScanDone(category) => RolesAreListed(category)
    /\ ScanDone("token") => TokensAreListed
    /\ ScanDone("sol") /\ command.owner \in DOMAIN world => SolIsListed

\* The tokens of account a can go to a key's programmatic signer, at its associated account,
\* and the rent to the key.
CanReceive(k, a) ==
    LET account == world[a]
        to      == Ata(Pda[k], account.mint, account.program)
    IN  /\ a \notin {k, to} /\ to \in DOMAIN world
        /\ account.amount > 0 =>
              IF TokenProgramAccount(world[to])
              THEN /\ IsTokenAccount(world[to], account.mint)
                   /\ world[to].owner = Pda[k] /\ ~world[to].frozen
              ELSE world[account.mint].rule # "frozen"

\* The commands that a scan suggests for roles are accepted while nothing changes, move
\* just what was listed, and need nobody's signature but the owner's, the new authority's
\* and a custodian's.  The command for tokens takes them from the account listed, as its
\* owner, and is accepted if they can be moved and received and the account can be closed.
SuggestionsStand ==
    command.op = "scan" /\ (command.key # Default \/ command.owner \in OnCurve) =>
    /\ \A category \in {"stake", "vote", "program", "mint"} : ScanDone(category) =>
        \A item \in {i \in ItemsOf(category) : i.account \in Untouched} :
            /\ ~Refused(item.command, world)
            /\ LET output == Output(item.command, world)
               IN  /\ output.moved = item.roles
                   /\ output.message.signers \subseteq
                        {command.owner, output.newOwner}
                        \cup (IF category = "stake" THEN {world[item.account].lockup.custodian}
                                                     ELSE {})
    /\ ScanDone("token") =>
        \A item \in {i \in ItemsOf("token") : i.account \in Untouched} :
            /\ Source(item.command, world) = item.account
            /\ Owner(item.command, world) = command.owner
            /\ ~Stuck(world[item.account]) /\ ~world[item.account].confidential
               /\ CanReceive(NewAuthority(command.key, command.owner), item.account)
                    => ~Refused(item.command, world)
==============================================================================
