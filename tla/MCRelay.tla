-------------------------------- MODULE MCRelay --------------------------------
(* 2 is the cold authority of 5; 4 pays for the relay transactions and must        *)
(* approve the first message; 6 co-signs the second.                             *)
EXTENDS Relay

MCPda == [k \in 1..13 |-> IF k = 2 THEN 5 ELSE 100 + k]
MCDurable == [account |-> 13, authority |-> 4]

Message(keys, required, config) ==
    [keys |-> keys, required |-> required, readonlySigned |-> 0,
     readonlyUnsigned |-> 0, config |-> config, lifetime |-> <<>>]

Request(message, nonceHash, relaySigners) ==
    [message |-> message, strip |-> TRUE, nonceAccount |-> 8, nonceAuthority |-> 5,
     nonceHash |-> nonceHash, authorities |-> <<2>>, relaySigners |-> relaySigners]

First == Request(Message(<<5, 7>>, 1, TRUE), <<>>, <<4>>)
Second == Request(Message(<<5, 6, 7>>, 2, FALSE), NextNonce(<<>>, First), <<>>)
MCChain == <<First, Second>>
==============================================================================
