-------------------------- MODULE AuthorityMigration --------------------------
(* `migrate mint`, `stake`, `vote` and `program`: giving the roles of an account to a  *)
(* programmatic signer.  A command has the account, the key of the new authority     *)
(* or Default, and, for a mint or a stake account, one role or Default.              *)
EXTENDS Migration

\* The current holder of each role that moves.
Holders(account, roles) == [i \in 1..Len(roles) |-> account.authority[roles[i]]]

\* Every role that moves has a holder, who is not the new authority already; without a key
\* for the new authority the holders are one and the same.
RolesRefused(key, holders) ==
    \/ holders = <<>> \/ Nobody \in ToSet(holders)
    \/ key = Default /\ Cardinality(ToSet(holders)) > 1
    \/ NewAuthorityRefused(key, holders[1])
    \/ Pda[NewAuthority(key, holders[1])] \in ToSet(holders)

------------------------------------------------------------------------------
(* migrate/mint.rs                                                            *)

\* Without a role given, those that are set.
MintRoles(account, c) ==
    IF c.role # Default THEN <<c.role>>
    ELSE LET IfSet(r) == IF account.authority[r] = Nobody THEN <<>> ELSE <<r>>
         IN  IfSet("mint") \o IfSet("freeze")

MintRefused(c, seen) ==
    LET account == seen[c.account]
    IN  \/ ~MintAccount(account)
        \/ RolesRefused(c.key, Holders(account, MintRoles(account, c)))

\* SetAuthority does not need the new authority's signature, but the memo does.
MintReport(c, seen) ==
    LET account == seen[c.account]
        roles   == MintRoles(account, c)
        holders == Holders(account, roles)
        key     == NewAuthority(c.key, holders[1])
    IN  Report(key,
               [i \in 1..Len(roles) |-> SetRole(c.account, roles[i], holders[i], Pda[key], {})]
                    \o <<Memo(Pda[key])>>,
               ToSet(roles))

------------------------------------------------------------------------------
(* migrate/stake.rs                                                           *)

StakeRoles(c) == IF c.role = Default THEN <<"staker", "withdrawer">> ELSE <<c.role>>

\* An account that is not initialized has no roles.
StakeRefused(c, seen) ==
    LET account == seen[c.account]
    IN  \/ ~StakeAccount(account)
        \/ DOMAIN account.authority = {}
        \/ RolesRefused(c.key, Holders(account, StakeRoles(c)))

\* The custodian signs for the withdrawer while a lockup is in force.
Custodian(c, seen) ==
    IF Contains(StakeRoles(c), "withdrawer") /\ InForce(seen[c.account], seen[Clock])
    THEN {seen[c.account].lockup.custodian} ELSE {}

StakeReport(c, seen) ==
    LET roles   == StakeRoles(c)
        holders == Holders(seen[c.account], roles)
        key     == NewAuthority(c.key, holders[1])
        Others(role) == {Pda[key]} \cup IF role = "withdrawer" THEN Custodian(c, seen) ELSE {}
    IN  Report(key,
               [i \in 1..Len(roles) |->
                    SetRole(c.account, roles[i], holders[i], Pda[key], Others(roles[i]))],
               ToSet(roles))

------------------------------------------------------------------------------
(* migrate/vote.rs and migrate/program.rs                                      *)

\* One role, which the new authority signs for.
RoleReport(key, account, role, holder) ==
    Report(key, <<SetRole(account, role, holder, Pda[key], {Pda[key]})>>, {role})

VoteRefused(c, seen) ==
    LET account == seen[c.account]
    IN  \/ ~VoteAccount(account)
        \/ DOMAIN account.authority = {}
        \/ RolesRefused(c.key, Holders(account, <<"withdrawer">>))

VoteReport(c, seen) ==
    LET holder == seen[c.account].authority["withdrawer"]
    IN  RoleReport(NewAuthority(c.key, holder), c.account, "withdrawer", holder)

IsProgram(account) == LoaderAccount(account) /\ account.type = "program"
IsProgramData(account) == LoaderAccount(account) /\ account.type = "program data"

\* An immutable program has no upgrade authority.
ProgramRefused(c, seen) ==
    \/ ~IsProgram(seen[c.account])
    \/ LET upgradeable == seen[seen[c.account].data]
       IN  \/ ~IsProgramData(upgradeable)
           \/ RolesRefused(c.key, Holders(upgradeable, <<"upgrade">>))

ProgramReport(c, seen) ==
    LET account == seen[c.account].data
        holder  == seen[account].authority["upgrade"]
    IN  RoleReport(NewAuthority(c.key, holder), account, "upgrade", holder)

------------------------------------------------------------------------------

\* The accounts that a command reads after those it has seen.
AuthorityReads(c, seen) ==
    IF c.account \notin DOMAIN seen THEN {c.account}
    ELSE CASE c.op = "stake"   -> IF Contains(StakeRoles(c), "withdrawer") THEN {Clock} ELSE {}
           [] c.op = "program" -> IF IsProgram(seen[c.account]) THEN {seen[c.account].data} ELSE {}
           [] OTHER            -> {}
==============================================================================
