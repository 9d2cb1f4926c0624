------------------------------- MODULE Envelope -------------------------------
(* The instruction builders of the client crates and the builder of the          *)
(* authorization message (signer/client/src/message.rs), which lays out the keys  *)
(* of an Execute instruction and counts them in a v1 message header.  Addresses   *)
(* are numbers because participants sort them.                                   *)
EXTENDS Integers, Sequences, FiniteSets, SequencesExt

CONSTANTS
    Address,          \* numbers that stand for addresses
    Pda,              \* the programmatic signer derived from each address
    NonceProgram,
    ExecutorProgram,
    MaxSignatures,    \* v1 limit: signatures of a message
    MaxAddresses      \* v1 limit: keys of a message

ASSUME EnvelopeAssumption ==
    /\ Address \subseteq Nat
    /\ Pda \in [Address -> Nat]
    /\ \A j, k \in Address : Pda[j] = Pda[k] /\ Pda[j] \in Address => j = k
    /\ {NonceProgram, ExecutorProgram} \subseteq Address
    /\ MaxSignatures \in Nat \ {0} /\ MaxAddresses \in Nat \ {0}

------------------------------------------------------------------------------
(* v1 messages: keys and a header of counts.                                   *)

IsSigner(m, i) == i <= m.required

IsWritable(m, i) ==
    IF IsSigner(m, i) THEN i <= m.required - m.readonlySigned
                      ELSE i <= Len(m.keys) - m.readonlyUnsigned

SigningKeys(m) == {m.keys[i] : i \in 1..m.required}

\* v1::Message::validate, as far as keys and counts go.
ValidMessage(m) ==
    /\ m.required \in 1..MaxSignatures
    /\ m.readonlySigned < m.required
    /\ m.required + m.readonlyUnsigned <= Len(m.keys)
    /\ Len(m.keys) <= MaxAddresses
    /\ \A i, j \in 1..Len(m.keys) : m.keys[i] = m.keys[j] => i = j

Meta(key, signer, writable) == [key |-> key, signer |-> signer, writable |-> writable]

------------------------------------------------------------------------------
(* Instruction builders.                                                      *)

\* execute: the nonce's accounts, then the message's, with the flags of its header.
ExecuteAccounts(nonceAccount, nonceAuthority, message) ==
    <<Meta(nonceAuthority, TRUE, FALSE), Meta(nonceAccount, FALSE, TRUE),
      Meta(NonceProgram, FALSE, FALSE)>>
    \o [i \in 1..Len(message.keys) |->
            Meta(message.keys[i], IsSigner(message, i), IsWritable(message, i))]

\* submit: the accounts mirror the authorization message; nobody is marked a signer.
SubmitAccounts(envelope) ==
    [i \in 1..Len(envelope.keys) |-> Meta(envelope.keys[i], FALSE, IsWritable(envelope, i))]

------------------------------------------------------------------------------
(* authorization_message.                                                     *)

\* A finite set of numbers in ascending order: each stands where its rank puts it.  With
\* At, it takes the place of the library's sorting and selecting operators, of which the
\* prover knows no definition.
Ascending(S) ==
    [n \in 1..Cardinality(S) |-> CHOOSE x \in S : Cardinality({y \in S : y <= x}) = n]

\* The elements at the indices in I, in their order.
At(s, I) == [n \in 1..Cardinality(I) |-> s[Ascending(I)[n]]]

\* The same, each element once, where it comes first.
Distinct(s, I) == At(s, {i \in I : \A j \in I : s[j] = s[i] => i <= j})

Keys(metas) == [i \in 1..Len(metas) |-> metas[i].key]

AtLeast(n, low) == IF n < low THEN low ELSE n
SaturatingSub(n, k) == IF n < k THEN 0 ELSE n - k

Written(metas) == {metas[i].key : i \in {j \in 1..Len(metas) : metas[j].writable}}

WrittenAt(metas, authorities) ==
    {i \in 1..Len(authorities) : authorities[i] \in Written(metas)}

\* Authorities that the executor writes to first, then the others; among the rest of the
\* keys, each once, a writable occurrence wins.
Layout(metas, authorities) ==
    LET written  == WrittenAt(metas, authorities)
        unsigned == {i \in 1..Len(metas) :
                        metas[i].key \notin ToSet(authorities) \cup {ExecutorProgram}}
        writable == {i \in unsigned : metas[i].writable}
        readonly == {i \in unsigned \ writable : \A j \in writable : metas[j].key # metas[i].key}
    IN  [signing  |-> At(authorities, written)
                          \o At(authorities, (1..Len(authorities)) \ written),
         writable |-> Distinct(Keys(metas), writable),
         readonly |-> Distinct(Keys(metas), readonly)]

\* Mutant: the program is not counted with the readonly keys.
HeaderWithoutProgram(metas, authorities, layout) ==
    LET written == Cardinality(WrittenAt(metas, authorities))
    IN  [required         |-> Len(authorities),
         readonlySigned   |-> SaturatingSub(Len(authorities), AtLeast(written, 1)),
         readonlyUnsigned |-> Len(layout.readonly)]

\* A message needs a writable signer: when the executor writes to no authority, the
\* first one gets the flag.  The program comes ahead of the readonly keys.
Header(metas, authorities, layout) ==
    LET written == Cardinality(WrittenAt(metas, authorities))
    IN  [required         |-> Len(authorities),
         readonlySigned   |-> SaturatingSub(Len(authorities), AtLeast(written, 1)),
         readonlyUnsigned |-> Len(layout.readonly) + 1]

\* `carried` is the execution message in the instruction's data.
AuthorizationMessage(metas, authorities, carried) ==
    LET layout == Layout(metas, authorities)
        header == Header(metas, authorities, layout)
        keys   == layout.signing \o layout.writable \o <<ExecutorProgram>> \o layout.readonly
    IN  [keys             |-> keys,
         required         |-> header.required,
         readonlySigned   |-> header.readonlySigned,
         readonlyUnsigned |-> header.readonlyUnsigned,
         program          |-> SelectInSeq(keys, LAMBDA k : k = ExecutorProgram),
         accounts         |-> [i \in 1..Len(metas) |->
                                  SelectInSeq(keys, LAMBDA k : k = metas[i].key)],
         carried          |-> carried]

\* Errors: too many authorities, too many keys, or a rule of v1 messages.
Buildable(metas, authorities, carried) ==
    /\ Len(authorities) <= MaxSignatures
    /\ ValidMessage(AuthorizationMessage(metas, authorities, carried))

\* The executor instruction as Submit reads it back from the message.
ExecutorAccount(envelope, i) == envelope.keys[envelope.accounts[i]]

\* sign_and_submit: every signer signs the message, and all signatures are passed.
SignAndSubmit(metas, signers, carried) ==
    LET envelope == AuthorizationMessage(metas, signers, carried)
    IN  [envelope   |-> envelope,
         signatures |-> [i \in 1..envelope.required |-> <<envelope.keys[i], envelope>>],
         accounts   |-> SubmitAccounts(envelope)]
==============================================================================
