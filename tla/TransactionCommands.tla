-------------------------- MODULE TransactionCommands --------------------------
(* What the CLI's transaction commands compute (clients/cli/src/commands/        *)
(* transaction): `sign` turns a request into an authorization message, `submit`   *)
(* wraps one into a relay transaction, `simulate` tries an execution message out. *)
(* Last, what the signer program makes of a relay transaction.                   *)
EXTENDS Envelope

CONSTANTS
    SignerProgram,
    DurableKeys,      \* what advancing a durable nonce adds: System program and sysvar
    MaxUnits,         \* size limit of a transaction, in addresses
    NoDurable,        \* no durable nonce is used
    NoHash            \* no blockhash was given

ASSUME TransactionAssumption ==
    /\ {SignerProgram} \cup DurableKeys \subseteq Address
    /\ MaxUnits \in Nat

NoSignature == <<>>

------------------------------------------------------------------------------
(* Relay transactions.                                                        *)

\* Mutant: the Submit accounts are not marked as signers.
RelayTransactionUnmarked(envelope, signatures, submitSigners, feePayer, durable, blockhash) ==
    [envelope   |-> envelope,
     signatures |-> signatures,
     signing    |-> {feePayer} \cup (IF durable = NoDurable THEN {} ELSE {durable.authority}),
     feePayer   |-> feePayer,
     durable    |-> durable,
     blockhash  |-> blockhash]

\* relay_transaction: the durable nonce's advance, if any, and Submit, whose accounts
\* are signers when they sign the relay transaction.
RelayTransaction(envelope, signatures, submitSigners, feePayer, durable, blockhash) ==
    [envelope   |-> envelope,
     signatures |-> signatures,
     signing    |-> {feePayer} \cup (submitSigners \cap ToSet(envelope.keys))
                        \cup (IF durable = NoDurable THEN {} ELSE {durable.authority}),
     feePayer   |-> feePayer,
     durable    |-> durable,
     blockhash  |-> blockhash]

RelayWritable(tx) ==
    {tx.feePayer} \cup Written(SubmitAccounts(tx.envelope))
        \cup (IF tx.durable = NoDurable THEN {} ELSE {tx.durable.account})

RelayKeys(tx) ==
    tx.signing \cup RelayWritable(tx) \cup ToSet(tx.envelope.keys) \cup {SignerProgram}
        \cup (IF tx.durable = NoDurable THEN {} ELSE DurableKeys)

Given(signatures) == {i \in 1..Len(signatures) : signatures[i] # NoSignature}

\* In units of an address; a signature takes two.  What all transactions have is left out.
Size(tx) ==
    2 * (Cardinality(tx.signing) + Cardinality(Given(tx.signatures)))
        + Cardinality(RelayKeys(tx)) + Len(tx.envelope.keys) + Len(tx.envelope.carried.keys)

\* compile_message and ensure_transaction_size
Fits(tx) ==
    /\ Cardinality(tx.signing) <= MaxSignatures
    /\ Cardinality(RelayKeys(tx)) <= MaxAddresses
    /\ Size(tx) <= MaxUnits

------------------------------------------------------------------------------
(* transaction sign.  A request has the execution message and whether to strip    *)
(* its config fields, the nonce account, its authority and the nonce expected,    *)
(* the listed authorities and the listed required relay signers.                  *)

\* decode.rs: a v1 message that is valid, without config fields once they are stripped.
Readable(message, strip) == ValidMessage(message) /\ (message.config => strip)

\* The lifetime is the expected nonce.
ExecutionMessage(request) ==
    [request.message EXCEPT !.config = FALSE, !.lifetime = request.nonceHash]

\* Mutant: the commitment is to the message as it was given.
NextNonceAsGiven(nonce, request) == Append(nonce, request.message)

\* summary.rs next_nonce: a nonce is the sequence of the messages it commits to.
NextNonce(nonce, request) == Append(nonce, ExecutionMessage(request))

UsedAsSigner(message, nonceAuthority) == SigningKeys(message) \cup {nonceAuthority}
Uses(request) == UsedAsSigner(request.message, request.nonceAuthority)

Authorities(request) == ToSet(request.authorities)
RelaySigners(request) == ToSet(request.relaySigners)
Promotable(keys) == {Pda[k] : k \in keys}

\* Mutant: the nonce authority is not among the signers used directly.
ForwardedWithoutAuthority(request) ==
    SigningKeys(request.message) \ Promotable(Authorities(request))

\* Signers that the executor uses and no listed authority promotes.
Forwarded(request) == Uses(request) \ Promotable(Authorities(request))

\* Mutant: the signers are taken as they are listed.
AuthorizationSignersAsListed(request) ==
    LET listed == request.authorities \o Ascending(Forwarded(request)) \o request.relaySigners
    IN  Distinct(listed, DOMAIN listed)

AuthorizationSigners(request) ==
    Ascending(Authorities(request) \cup Forwarded(request) \cup RelaySigners(request))

ExecuteMetas(request) ==
    ExecuteAccounts(request.nonceAccount, request.nonceAuthority, ExecutionMessage(request))

EnvelopeOf(request) ==
    AuthorizationMessage(ExecuteMetas(request), AuthorizationSigners(request),
                         ExecutionMessage(request))

\* ensure_relay_transaction_fits: authorities and required relay signers give their
\* signature in the data, forwarded signers sign the transaction and one of them pays.
SmallestRelay(request, envelope) ==
    LET forwarded == Forwarded(request)
        InData(k) == k \in Authorities(request) \/ k \notin forwarded
    IN  RelayTransaction(
            envelope,
            [i \in 1..envelope.required |->
                IF InData(envelope.keys[i]) THEN <<envelope.keys[i], envelope>> ELSE NoSignature],
            forwarded,
            IF forwarded = {} THEN envelope.keys[1] ELSE Min(forwarded),
            NoDurable, NoHash)

\* Mutant: a required relay signer may turn out to promote its programmatic signer.
SignRefusedUnchecked(request) ==
    \/ ~Readable(request.message, request.strip)
    \/ \E k \in Authorities(request) : Pda[k] \notin Uses(request)
    \/ \E k \in RelaySigners(request) : k \in Authorities(request) \cup Uses(request)
    \/ ~Buildable(ExecuteMetas(request), AuthorizationSigners(request), ExecutionMessage(request))

\* Every authority must promote something, and a required relay signer must have no
\* other part in the execution.
SignRefused(request) ==
    \/ ~Readable(request.message, request.strip)
    \/ \E k \in Authorities(request) : Pda[k] \notin Uses(request)
    \/ \E k \in RelaySigners(request) :
            k \in Authorities(request) \cup Uses(request) \/ Pda[k] \in Uses(request)
    \/ ~Buildable(ExecuteMetas(request), AuthorizationSigners(request), ExecutionMessage(request))

Submittable(request) == Fits(SmallestRelay(request, EnvelopeOf(request)))

\* The signatures of the local keys, each a listed authority, over the message.
SignatureRefused(request, keys) == ~(keys \subseteq Authorities(request))

Approvals(keys, envelope) == {<<k, envelope>> : k \in keys}

------------------------------------------------------------------------------
(* transaction submit.  A command has the envelope, the `approvals` given with    *)
(* --signer, the local keys given with --relay-signer, the relay signatures       *)
(* `collected` elsewhere, the fee payer and the durable nonce, each with whether   *)
(* its key is local, and the blockhash.                                          *)

Required(envelope) == SigningKeys(envelope)

\* ExecuteAccounts::try_new
NonceAuthorityOf(envelope) == ExecutorAccount(envelope, 1)
NonceAccountOf(envelope) == ExecutorAccount(envelope, 2)

WellFormed(envelope) ==
    /\ ValidMessage(envelope)
    /\ envelope.keys[envelope.program] = ExecutorProgram
    /\ ValidMessage(envelope.carried)
    /\ Len(envelope.accounts) >= 3

IsExecutorSigner(envelope, k) ==
    k \in UsedAsSigner(envelope.carried, NonceAuthorityOf(envelope))

IsPdaAuthority(envelope, k) == IsExecutorSigner(envelope, Pda[k])

IsRequiredRelaySigner(envelope, k) ==
    ~IsPdaAuthority(envelope, k) /\ ~IsExecutorSigner(envelope, k)

Approved(c) == {s[1] : s \in c.approvals}
Collected(c) == {s[1] : s \in c.collected}

DurableAuthority(c) == IF c.durable = NoDurable THEN {} ELSE {c.durable.authority}

LocalKeys(c) ==
    c.relaySigners
        \cup (IF c.feePayerLocal THEN {c.feePayer} ELSE {})
        \cup (IF c.durable # NoDurable /\ c.durableLocal THEN DurableAuthority(c) ELSE {})

\* verify_authority_signatures
ApprovalRefused(c, s) ==
    \/ s[1] \notin Required(c.envelope)
    \/ ~IsPdaAuthority(c.envelope, s[1]) /\ ~IsRequiredRelaySigner(c.envelope, s[1])
    \/ s[2] # c.envelope

RelaySignerRefused(c, k) ==
    \/ k \notin Required(c.envelope)
    \/ ~IsExecutorSigner(c.envelope, k) /\ ~IsRequiredRelaySigner(c.envelope, k)

\* Only the address of the fee payer or of the durable nonce authority is given.
AddressRefused(c) ==
    /\ ~c.signOnly /\ ~c.dryRun
    /\ ~(({c.feePayer} \cup DurableAuthority(c)) \subseteq LocalKeys(c) \cup Collected(c))

SignsRelay(c, k) == k \in LocalKeys(c) \cup Collected(c) \/ c.signOnly \/ c.dryRun

\* Mutant: an authority may sign the relay transaction instead.
SignerMissingLenient(c, k) ==
    k \notin Approved(c) /\ ~SignsRelay(c, k)

SignerMissing(c, k) ==
    \/ IsRequiredRelaySigner(c.envelope, k) /\ k \notin Approved(c) /\ ~SignsRelay(c, k)
    \/ IsPdaAuthority(c.envelope, k) /\ k \notin Approved(c)
    \/ IsExecutorSigner(c.envelope, k) /\ ~SignsRelay(c, k)

SubmitRefused(c) ==
    \/ ~WellFormed(c.envelope)
    \/ c.collected # {} /\ c.blockhash = NoHash
    \/ \E s \in c.approvals : ApprovalRefused(c, s)
    \/ AddressRefused(c)
    \/ \E k \in c.relaySigners : RelaySignerRefused(c, k)
    \/ LocalKeys(c) \cap Collected(c) # {}
    \/ \E k \in Required(c.envelope) : SignerMissing(c, k)

\* Mutant: only the signers at hand are marked.
SubmitSignersAtHand(c) ==
    {k \in Required(c.envelope) :
        /\ k \in LocalKeys(c) \cup Collected(c)
        /\ \/ IsExecutorSigner(c.envelope, k)
           \/ IsRequiredRelaySigner(c.envelope, k) /\ k \notin Approved(c)}

\* Required signers that sign the relay transaction: those the executor uses, and the
\* required relay signers that gave no signature over the envelope.
SubmitSigners(c) ==
    {k \in Required(c.envelope) :
        \/ IsExecutorSigner(c.envelope, k)
        \/ IsRequiredRelaySigner(c.envelope, k) /\ k \notin Approved(c)}

Planned(c, blockhash) ==
    RelayTransaction(
        c.envelope,
        [i \in 1..c.envelope.required |->
            IF c.envelope.keys[i] \in Approved(c) THEN <<c.envelope.keys[i], c.envelope>>
                                                 ELSE NoSignature],
        SubmitSigners(c), c.feePayer, c.durable, blockhash)

\* Relay signatures must be by signers of this very transaction.
PlannedRefused(c, tx) ==
    \/ ~Fits(tx)
    \/ \E s \in c.collected : s[1] \notin tx.signing \/ s[2] # tx

\* Mutant: nobody is asked unless the executor uses a signer directly.
AsksForForwarded(c) ==
    \E k \in Required(c.envelope) : IsExecutorSigner(c.envelope, k)

\* confirm_signing: the user is asked when somebody signs for the envelope.
Asks(c) == SubmitSigners(c) # {} /\ LocalKeys(c) \cap Required(c.envelope) # {}

\* try_partial_sign fails for a key without a slot; then every slot must be filled.
SigningFails(c, tx) == ~(LocalKeys(c) \subseteq tx.signing)
Complete(c, tx) == tx.signing \subseteq LocalKeys(c) \cup Collected(c)

------------------------------------------------------------------------------
(* transaction simulate: every signer the executor needs, a programmatic signer   *)
(* too, stands in as a relay signer, since signatures are not verified.            *)

SimulatedSigners(request) ==
    LET metas == ExecuteMetas(request)
    IN  Ascending({metas[i].key : i \in {j \in 1..Len(metas) : metas[j].signer}})

Simulated(request, feePayer) ==
    LET signers  == SimulatedSigners(request)
        envelope == AuthorizationMessage(ExecuteMetas(request), signers, ExecutionMessage(request))
    IN  RelayTransaction(envelope, [i \in 1..Len(signers) |-> NoSignature],
                         ToSet(signers), feePayer, NoDurable, NoHash)

\* `nonce` and `authority` are those of the nonce account as it was read.
SimulateRefused(request, feePayer, nonce, authority) ==
    \/ ~Readable(request.message, request.strip)
    \/ request.nonceHash # nonce \/ request.nonceAuthority # authority
    \/ ~Buildable(ExecuteMetas(request), SimulatedSigners(request), ExecutionMessage(request))
    \/ ~Fits(Simulated(request, feePayer))

------------------------------------------------------------------------------
(* The signer program (signer/program/src/submit.rs) and the runtime.           *)

ExecutorKeys(envelope) == {ExecutorAccount(envelope, i) : i \in 1..Len(envelope.accounts)}

VerifiedKeys(tx) == {tx.envelope.keys[i] : i \in Given(tx.signatures)}

\* The accounts the executor receives as signers: forwarded ones and promoted PDAs.
Granted(tx) ==
    ExecutorKeys(tx.envelope) \cap
        ((SigningKeys(tx.envelope) \cap tx.signing) \cup Promotable(VerifiedKeys(tx)))

\* The accounts it receives as writable.
GrantedWrites(tx) ==
    ExecutorKeys(tx.envelope) \cap Written(SubmitAccounts(tx.envelope))

SignaturesOk(tx) ==
    /\ Len(tx.signatures) = tx.envelope.required
    /\ \A i \in 1..Len(tx.signatures) :
            IF tx.signatures[i] = NoSignature
            THEN tx.envelope.keys[i] \in tx.signing
            ELSE tx.signatures[i] = <<tx.envelope.keys[i], tx.envelope>>

\* What the execution needs: its signers, its nonce account and its written keys (a
\* message may list the executor program as writable, but nothing writes to it).
Needs(envelope) == UsedAsSigner(envelope.carried, NonceAuthorityOf(envelope))
Writes(envelope) ==
    LET carried == envelope.carried
        written == {carried.keys[i] : i \in {j \in 1..Len(carried.keys) : IsWritable(carried, j)}}
    IN  ({NonceAccountOf(envelope)} \cup written) \ {ExecutorProgram}

ProgramAccepts(tx) ==
    /\ WellFormed(tx.envelope)
    /\ SignaturesOk(tx)
    /\ GrantedWrites(tx) \subseteq RelayWritable(tx)
    /\ Needs(tx.envelope) \subseteq Granted(tx)
    /\ Writes(tx.envelope) \subseteq GrantedWrites(tx)
==============================================================================
