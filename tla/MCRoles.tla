-------------------------------- MODULE MCRoles --------------------------------
(* Three wallets: 2 and 6 are authorities, 6 may also sign itself, 4 pays or       *)
(* approves.  Their programmatic signers are 5, 1 and 3.  Numbers decide the order  *)
(* in which addresses are sorted.                                                *)
EXTENDS Roles

MCPda == [k \in 1..13 |-> CASE k = 2 -> 5 [] k = 6 -> 1 [] k = 4 -> 3 [] OTHER -> 100 + k]
MCKeyHolder == {2, 4, 6}
Destination == 7
NonceAccount == 8
MCDurables == {NoDurable, [account |-> 13, authority |-> 4]}

Message(keys, required, readonlySigned, readonlyUnsigned) ==
    [keys |-> keys, required |-> required, readonlySigned |-> readonlySigned,
     readonlyUnsigned |-> readonlyUnsigned, config |-> FALSE, lifetime |-> 0]

\* Every header over programmatic signers, wallets and other accounts; the executor,
\* or the nonce account, may be among a message's accounts.
Messages ==
    {Message(keys, required, rs, ru) :
        keys \in {<<5, 7>>, <<5, 1, 7>>, <<1, 6, 7>>, <<6, 2, 5>>, <<5, 8, 7>>,
                  <<5, 3, 10>>, <<4, 5, 1, 7>>, <<6, 5, 4, 2>>},
        required \in 1..3, rs \in 0..1, ru \in 0..2}

MCRequests ==
    {[message |-> m, strip |-> strip, nonceAccount |-> NonceAccount, nonceAuthority |-> n,
      nonceHash |-> 1, authorities |-> a, relaySigners |-> r] :
        m \in {x \in Messages \cup {[y EXCEPT !.config = TRUE] : y \in {Message(<<5, 7>>, 1, 0, 0)}} :
                  x.required <= Len(x.keys) /\ x.readonlyUnsigned <= Len(x.keys)},
        strip \in {TRUE}, n \in {1, 4, 5, 6},
        a \in {<<2>>, <<6>>, <<2, 6>>, <<6, 2, 4>>}, r \in {<<>>, <<4>>, <<4, 6>>}}

Twice(s) == s \o s

MCListings(r) ==
    {[r EXCEPT !.authorities = a, !.relaySigners = s] :
        a \in {r.authorities, Reverse(r.authorities), Twice(r.authorities)},
        s \in {r.relaySigners, Twice(Reverse(r.relaySigners))}}
==============================================================================
