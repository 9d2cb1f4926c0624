---------------------------------- MODULE Scan ----------------------------------
(* `migrate scan`: what an address controls, and the command that moves each of it.  *)
(* Each category asks its own queries, one after the other, while the others ask     *)
(* theirs.  `found` has the answers of a category so far: the matching accounts.      *)
EXTENDS AuthorityMigration, AssetMigration

Categories == {"stake", "vote", "program", "mint", "token", "sol"}

\* The category could not be scanned.
NotScanned == <<[error |-> TRUE]>>

\* A scan has an owner and maybe the key of the new authority.
ScanRefused(c) == c.key # Default /\ (c.key \notin OnCurve \/ Pda[c.key] = c.owner)

HoldsRole(account, role, owner) ==
    role \in DOMAIN account.authority /\ account.authority[role] = owner

\* Mutant: mints with extensions are not asked for.
MintLayoutsBase == <<<<"token", FALSE>>, <<"token2022", FALSE>>>>

\* Mints with extensions have a layout of their own.
MintLayouts == <<<<"token", FALSE>>, <<"token2022", FALSE>>, <<"token2022", TRUE>>>>
MintQueries ==
    [n \in 1..(2 * Len(MintLayouts)) |->
        [layout |-> MintLayouts[(n + 1) \div 2], role |-> IF n % 2 = 1 THEN "mint" ELSE "freeze"]]
MintMatches(account, query, owner) ==
    /\ MintAccount(account)
    /\ <<account.program, account.extended>> = query.layout
    /\ HoldsRole(account, query.role, owner)

StakeMatches(account, role, owner) == StakeAccount(account) /\ HoldsRole(account, role, owner)
VoteMatches(account, owner) == VoteAccount(account) /\ HoldsRole(account, "withdrawer", owner)
TokenMatches(account, program, owner) ==
    account.program = program /\ account.type = "account" /\ account.owner = owner

\* First the program data that the owner may upgrade, then the programs of each.
ProgramMatches(account, answers, owner) ==
    IF answers = <<>>
    THEN IsProgramData(account) /\ HoldsRole(account, "upgrade", owner)
    ELSE IsProgram(account) /\ account.data = SetToSeq(DOMAIN answers[1])[Len(answers)]

Queries(category, answers) ==
    CASE category = "stake" -> 2 [] category = "mint" -> Len(MintQueries) [] category = "token" -> 2
      [] category = "program" -> IF answers = <<>> THEN 1 ELSE 1 + Cardinality(DOMAIN answers[1])
      [] OTHER -> 1

Scanned(category, answers) ==
    answers = NotScanned \/ Len(answers) = Queries(category, answers)

\* The answer to the next query of a category.
Answer(w, category, answers, owner) ==
    LET n == Len(answers) + 1
        Matches(a) ==
            CASE category = "stake"   -> StakeMatches(w[a], <<"staker", "withdrawer">>[n], owner)
              [] category = "vote"    -> VoteMatches(w[a], owner)
              [] category = "program" -> ProgramMatches(w[a], answers, owner)
              [] category = "mint"    -> MintMatches(w[a], MintQueries[n], owner)
              [] category = "token"   -> TokenMatches(w[a], <<"token", "token2022">>[n], owner)
              [] category = "sol"     -> a = owner /\ w[a] # Missing
        matching == {a \in DOMAIN w : Matches(a)}
    IN  [a \in matching |-> w[a]]

------------------------------------------------------------------------------
(* The items, each with the command suggested.  (For an owner that is not a key the   *)
(* command has a placeholder that the user fills in; that is left out.)             *)

\* The roles of an account that were found; `roleOf` has the role that each query is for.
RolesFound(answers, roleOf, a) ==
    {roleOf[n] : n \in {m \in 1..Len(answers) : a \in DOMAIN answers[m]}}

\* Mutant: the command moves every role.
SuggestAllRoles(op, a, roles, key) == [op |-> op, account |-> a, key |-> key, role |-> Default]

\* A role is named if it is the only one.
SuggestRoles(op, a, roles, key) ==
    [op |-> op, account |-> a, key |-> key,
     role |-> IF Cardinality(roles) = 1 THEN CHOOSE r \in roles : TRUE ELSE Default]

RoleItems(op, answers, roleOf, key) ==
    {LET roles == RolesFound(answers, roleOf, a)
     IN  [account |-> a, roles |-> roles, command |-> SuggestRoles(op, a, roles, key)] :
        a \in UNION {DOMAIN answers[n] : n \in 1..Len(answers)}}

StakeItems(c, answers) == RoleItems("stake", answers, <<"staker", "withdrawer">>, c.key)

MintItems(c, answers) ==
    RoleItems("mint", answers, [n \in DOMAIN MintQueries |-> MintQueries[n].role], c.key)

VoteItems(c, answers) ==
    {[account |-> a, roles |-> {"withdrawer"},
      command |-> [op |-> "vote", account |-> a, key |-> c.key]] : a \in DOMAIN answers[1]}

ProgramItems(c, answers) ==
    {[account |-> a, roles |-> {"upgrade"},
      command |-> [op |-> "program", account |-> a, key |-> c.key]] :
        a \in UNION {DOMAIN answers[n] : n \in 2..Len(answers)}}

\* A token account that is not associated is given as the source.
TokenItems(c, answers) ==
    UNION {{LET account    == answers[n][a]
                associated == Ata(c.owner, account.mint, account.program) = a
            IN  [account |-> a, amount |-> account.amount,
                 command |-> [op |-> "token", mint |-> account.mint, key |-> c.key,
                              owner |-> IF associated THEN c.owner ELSE Default,
                              source |-> IF associated THEN Default ELSE a,
                              destination |-> Default, amount |-> Default, funder |-> Default,
                              noClose |-> FALSE, rentRecipient |-> Default]] :
                a \in DOMAIN answers[n]} : n \in 1..Len(answers)}

\* The owner's lamports are listed whatever its account is; only a system account without
\* data can be moved.
NoCommand == [op |-> "none"]
SolItems(c, answers) ==
    LET account == IF c.owner \in DOMAIN answers[1] THEN answers[1][c.owner] ELSE Missing
    IN  {[account |-> c.owner, amount |-> account.lamports,
          command |-> IF SystemAccount(account) /\ account.lamports > 0
                      THEN [op |-> "sol", owner |-> c.owner, key |-> c.key, amount |-> Default]
                      ELSE NoCommand]}

Items(c, category, answers) ==
    CASE category = "stake" -> StakeItems(c, answers) [] category = "vote" -> VoteItems(c, answers)
      [] category = "program" -> ProgramItems(c, answers)
      [] category = "mint" -> MintItems(c, answers) [] category = "token" -> TokenItems(c, answers)
      [] category = "sol" -> SolItems(c, answers)
==============================================================================
