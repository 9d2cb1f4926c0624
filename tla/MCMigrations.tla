------------------------------ MODULE MCMigrations ------------------------------
(* a holds what is migrated, b is another key, v a programmatic signer of nobody    *)
(* here.  Each case has the few accounts that its commands meet.                   *)
EXTENDS Migrations

CONSTANTS a, b, v, pa, pb, clock, stake, vote, mint, program, data, ata, pata, patb, other,
          nowhere

MCPda == (a :> pa) @@ (b :> pb)
MCAddress == {a, b, v, pa, pb, clock, stake, vote, mint, program, data, ata, pata, patb, other,
              nowhere}
MCAta(o, m, p) ==
    IF m # mint \/ p # "token2022" THEN nowhere
    ELSE CASE o = a -> ata [] o = pa -> pata [] o = pb -> patb [] OTHER -> nowhere

Wallet(k, lamports) == k :> System(lamports)
Clocks == clock :> [program |-> "sysvar", time |-> 0, lamports |-> Rent]
Empty(addresses) == [k \in addresses |-> Missing]

Stake(staker, withdrawer, until) ==
    stake :> [program |-> "stake", authority |-> [staker |-> staker, withdrawer |-> withdrawer],
              lockup |-> [until |-> until, custodian |-> b], lamports |-> Rent]
Vote(withdrawer) ==
    vote :> [program |-> "vote", authority |-> [withdrawer |-> withdrawer], lamports |-> Rent]
Unset(account, owner) == account :> [program |-> owner, authority |-> <<>>, lamports |-> Rent]
Upgradeable(authority) ==
    (program :> [program |-> "loader", type |-> "program", data |-> data, lamports |-> Rent])
    @@ (data :> [program |-> "loader", type |-> "program data",
                 authority |-> [upgrade |-> authority], lamports |-> Rent])
Closed ==
    (program :> [program |-> "loader", type |-> "program", data |-> data, lamports |-> Rent])
    @@ Empty({data})
Mint(owner, minter, freezer, rule, fee, extended) ==
    mint :> [program |-> owner, type |-> "mint", authority |-> [mint |-> minter, freeze |-> freezer],
             rule |-> rule, fee |-> fee, extended |-> extended, lamports |-> Rent]
Tokens(k, owner, amount) ==
    [program |-> "token2022", type |-> "account", mint |-> mint, owner |-> owner,
     amount |-> amount, frozen |-> FALSE, guard |-> FALSE, closeAuthority |-> Nobody,
     withheld |-> 0, confidential |-> FALSE, lamports |-> TokenRent]

Keys == {Default, a, b, v}

RoleCommands(op, account, roles) ==
    [op : {op}, account : {account}, key : Keys, role : {Default} \cup roles]
AccountCommands(op, account) == [op : {op}, account : {account}, key : Keys]

SolCommands == [op : {"sol"}, owner : {a}, key : Keys, amount : {Default, 1, 2, 3, 4}]
TokenCommand(owner, source, key, destination, amount, noClose, rentRecipient) ==
    [op |-> "token", mint |-> mint, owner |-> owner, source |-> source, key |-> key,
     destination |-> destination, amount |-> amount, funder |-> Default, noClose |-> noClose,
     rentRecipient |-> rentRecipient]
TokenCommands ==
    {TokenCommand(from[1], from[2], key, Default, amount, noClose, Default) :
        from \in {<<a, Default>>, <<Default, other>>}, key \in {Default, b},
        amount \in {Default, 1, 2}, noClose \in BOOLEAN}
    \cup {TokenCommand(a, Default, b, destination, Default, FALSE, recipient) :
            destination \in {ata, other, patb}, recipient \in {Default, ata}}

\* Token accounts that differ from an ordinary one in one respect.
Odd(account) ==
    {account, [account EXCEPT !.frozen = TRUE], [account EXCEPT !.guard = TRUE],
     [account EXCEPT !.closeAuthority = b], [account EXCEPT !.withheld = 1],
     [account EXCEPT !.confidential = TRUE], [account EXCEPT !.owner = b]}

TokenWorld(m, source, destination, second) ==
    m @@ (ata :> source) @@ (patb :> destination) @@ (other :> second)
      @@ Wallet(a, 4) @@ Empty({b, pata})

PlainMint == Mint("token2022", a, a, "none", 0, TRUE)
TokenWorlds ==
    {TokenWorld(PlainMint, x, Missing, Tokens(other, a, 1)) :
        x \in Odd(Tokens(ata, a, 1)) \cup Odd(Tokens(ata, a, 0))}
    \cup {TokenWorld(PlainMint, Tokens(ata, a, 2), x, Tokens(other, pb, 1)) :
            x \in Odd(Tokens(patb, pb, 0))}
    \cup {TokenWorld(Mint("token2022", a, a, rule, fee, TRUE), Tokens(ata, a, n), Missing,
                     Tokens(other, b, 1)) :
            rule \in {"none", "frozen", "non-transferable", "hook"}, fee \in {0, 1}, n \in {0, 1}}

Scans(keys, owner) == [op : {"scan"}, owner : {owner}, key : keys]

ScanWorlds ==
    {Stake(x, y, 1) @@ Clocks @@ Empty({a}) : x \in {a, b}, y \in {a, b}}
    \cup {Vote(x) @@ Unset(stake, "stake") @@ Empty({a}) : x \in {a, b}}
    \cup {Upgradeable(x) @@ Wallet(a, 2) : x \in {a, b, Nobody}} \cup {Closed @@ Wallet(a, 2)}
    \cup {Mint(p[1], x, y, "none", 0, p[2]) @@ Empty({a}) :
            p \in {<<"token", FALSE>>, <<"token2022", FALSE>>, <<"token2022", TRUE>>},
            x \in {a, b}, y \in {a, Nobody}}
    \cup {PlainMint @@ (ata :> Tokens(ata, a, 1)) @@ (other :> Tokens(other, x, 2)) @@ Wallet(a, 1) :
            x \in {a, b}}

\* Token accounts that can and cannot be moved, to where they can and cannot be received.
ReceivingWorlds ==
    {PlainMint @@ (ata :> x) @@ (patb :> y) @@ Wallet(a, 1) :
        x \in {Tokens(ata, a, 1), [Tokens(ata, a, 1) EXCEPT !.frozen = TRUE],
               [Tokens(ata, a, 1) EXCEPT !.confidential = TRUE],
               [Tokens(ata, a, 0) EXCEPT !.guard = TRUE]},
        y \in {Missing, Tokens(patb, pb, 0), Tokens(patb, a, 0)}}
    \cup {Mint("token2022", a, a, "frozen", 0, TRUE) @@ (ata :> Tokens(ata, a, 1))
            @@ (patb :> Missing) @@ Wallet(a, 1)}

\* Owners whose lamports cannot be moved.
OwnerWorlds ==
    {Stake(b, b, 1) @@ Clocks, a :> [System(2) EXCEPT !.data = TRUE], Empty({a}), Wallet(a, 3)}
Owners == Scans({b}, stake) \cup Scans({Default}, a)

Case(worlds, commands) == [world : worlds, commands : {commands}]

MCCases ==
    Case({Stake(x, y, z) @@ Clocks : x \in {a, b, pb}, y \in {a, b, v}, z \in {0, 1}}
            \cup {Unset(stake, "stake") @@ Clocks, Unset(stake, "other") @@ Clocks},
         RoleCommands("stake", stake, {"staker", "withdrawer"}))
    \cup Case({Vote(a), Vote(pb), Vote(v), Unset(vote, "vote")}, AccountCommands("vote", vote))
    \cup Case({Upgradeable(a), Upgradeable(Nobody), Closed},
              AccountCommands("program", program) \cup AccountCommands("program", data))
    \cup Case({Mint("token", x, y, "none", 0, FALSE) : x \in {a, b, Nobody}, y \in {a, Nobody}},
              RoleCommands("mint", mint, {"mint", "freeze"}))
    \cup Case({Wallet(a, x) @@ y @@ Empty({b, pa}) : x \in {1, 2, 3, 4}, y \in {Empty({pb}), Wallet(pb, 2)}},
              SolCommands)
    \cup Case(TokenWorlds, TokenCommands)
    \cup Case(ScanWorlds, Scans({Default, b, v}, a) \cup Scans({Default}, b) \cup Scans({a}, pa))
    \cup Case(ReceivingWorlds, Scans({b}, a))
    \cup Case(OwnerWorlds, Owners)
=============================================================================
