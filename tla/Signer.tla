-------------------------------- MODULE Signer --------------------------------
(* The ed25519 signer program (signer/program/src) in front of the executor.    *)
(* Authorities sign authorization messages (envelopes) off chain, once and for  *)
(* good; anyone may put an envelope, with any signatures in circulation, into   *)
(* any transaction, as often as they like.  Submit verifies the signatures and  *)
(* invokes the executor, signing for the programmatic signers (PDAs) of the     *)
(* authorities whose Ed25519 signature it verified.                             *)
EXTENDS Executor

CONSTANTS
    Authority,         \* keys that have a programmatic signer
    Pda,               \* the programmatic signer of each authority
    ExecutorProgram,   \* the executor's program address
    EnvelopeShape,     \* what an authorization message can look like
    RelayWritable,     \* the account sets a relay transaction may mark writable
    MaxApprovals,      \* bound: signatures made
    NoEnvelope         \* no Submit is in progress

(* A shape has the envelope's keys, the number of leading keys that must sign,   *)
(* the key indices marked writable, and its only instruction: the program, the   *)
(* discriminator, and account indices.  The instruction's data is the execution  *)
(* message.                                                                     *)
Envelope == [shape: EnvelopeShape, message: MessageId]

NoSignature == <<>>

ASSUME SignerAssumption ==
    /\ Authority \subseteq Address
    /\ Pda \in [Authority -> Address]
    /\ \A j, k \in Authority : Pda[j] = Pda[k] => j = k
    /\ \A k \in Authority : Pda[k] \notin KeyHolder \cup Authority   \* off the curve
    /\ ExecutorProgram \in Address
    /\ \A s \in EnvelopeShape : /\ s.keys \in Seq(Address)
                                /\ s.required \in 1..Len(s.keys)
                                /\ s.accounts \in Seq(1..Len(s.keys))
    /\ RelayWritable \subseteq SUBSET Address
    /\ NoEnvelope \notin [envelope: Envelope, relayWritable: RelayWritable]

VARIABLES
    approved,    \* Ed25519 signatures in circulation, as <<key, envelope>>
    submission   \* the Submit in progress: its envelope and the relay's flags

signerVars == <<approved, submission>>
allVars == <<vars, signerVars>>

SignerInit == Init /\ approved = {} /\ submission = NoEnvelope

RequiredSigners(shape) == {shape.keys[i] : i \in 1..shape.required}

\* A key signs an envelope, off chain.
Approve(key, envelope) ==
    /\ phase = Idle
    /\ envelope.message \in Ids
    /\ Cardinality(approved) < MaxApprovals
    /\ approved' = approved \cup {<<key, envelope>>}
    /\ UNCHANGED <<vars, submission>>

------------------------------------------------------------------------------
(* process_submit.                                                            *)

\* A valid V1 message without config fields, holding exactly one instruction.
ValidEnvelope(shape) == shape.wellFormed

\* CheckedExecutorInstruction::try_new: as many relay accounts as keys, the same
\* ones in the same order, and an allow-listed executor entrypoint.
MirrorsEnvelope(relay, shape) == relay = shape.keys

AllowedExecutor(shape) == shape.program = ExecutorProgram /\ shape.isExecute

\* verify_authority_signatures: a signature for each required signer; one may be
\* left out when its relay account signs.
\* Mutant: any signature of the key will do.
VerifiesAnyEnvelope(key, signature, envelope) == signature[1] = key

Verifies(key, signature, envelope) == signature = <<key, envelope>>

SignatureOk(i, relay, signatures, envelope) ==
    IF signatures[i] = NoSignature
    THEN relay[i] \in signers
    ELSE Verifies(envelope.shape.keys[i], signatures[i], envelope)

\* Mutant: signers without a signature are not looked at.
SignaturesOkUncounted(relay, signatures, envelope) ==
    \A i \in 1..Len(signatures) : SignatureOk(i, relay, signatures, envelope)

SignaturesOk(relay, signatures, envelope) ==
    /\ Len(signatures) = envelope.shape.required
    /\ \A i \in 1..Len(signatures) : SignatureOk(i, relay, signatures, envelope)

\* Mutant: a signer of the relay transaction counts as verified.
VerifiedOrPresent(signatures, envelope) ==
    {envelope.shape.keys[i] : i \in 1..Len(signatures)}

VerifiedKeys(signatures, envelope) ==
    {envelope.shape.keys[i] : i \in {j \in 1..Len(signatures) : signatures[j] # NoSignature}}

\* collect_authorized_signers
Promoted(signatures, envelope) ==
    {Pda[k] : k \in VerifiedKeys(signatures, envelope) \cap Authority}

\* Mutant: the writable flags are the relay's.
ExecutorCallRelayFlags(relay, signatures, envelope) ==
    LET shape     == envelope.shape
        indices   == Range(shape.accounts)
        forwarded == {relay[i] : i \in {j \in indices : j <= shape.required}} \cap signers
    IN  [op       |-> "execute",
         message  |-> envelope.message,
         accounts |-> [k \in 1..Len(shape.accounts) |-> relay[shape.accounts[k]]],
         signers  |-> forwarded \cup
                          ({relay[i] : i \in indices} \cap Promoted(signatures, envelope)),
         writable |-> {relay[i] : i \in indices}]

\* invoke_executor_instruction: signer and writable flags come from the envelope;
\* a required signer is forwarded only if it signs the relay transaction.
ExecutorCall(relay, signatures, envelope) ==
    LET shape     == envelope.shape
        indices   == Range(shape.accounts)
        forwarded == {relay[i] : i \in {j \in indices : j <= shape.required}} \cap signers
    IN  [op       |-> "execute",
         message  |-> envelope.message,
         accounts |-> [k \in 1..Len(shape.accounts) |-> relay[shape.accounts[k]]],
         signers  |-> forwarded \cup
                          ({relay[i] : i \in indices} \cap Promoted(signatures, envelope)),
         writable |-> {relay[i] : i \in indices \cap shape.writable}]

SubmitOk(relay, signatures, envelope, relayWritable) ==
    LET call == ExecutorCall(relay, signatures, envelope)
    IN  /\ ValidEnvelope(envelope.shape)
        /\ MirrorsEnvelope(relay, envelope.shape)
        /\ AllowedExecutor(envelope.shape)
        /\ SignaturesOk(relay, signatures, envelope)
        /\ call.writable \subseteq relayWritable        \* the runtime's privilege check
        /\ ExecuteOk(call)

Submit(relay, signatures, envelope, relayWritable) ==
    LET call == ExecutorCall(relay, signatures, envelope)
    IN  /\ MayIssue
        /\ SubmitOk(relay, signatures, envelope, relayWritable)
        /\ Execute(call)
        /\ issued' = issued + 1
        /\ stack' = <<Frame(call)>>
        /\ submission' = [envelope |-> envelope, relayWritable |-> relayWritable]
        /\ UNCHANGED <<slot, book, phase, signers, finished, skipped, saved, approved>>

------------------------------------------------------------------------------
(* The relayer hands Submit the envelope's accounts in order, or others, and     *)
(* any signatures it knows, in any place, or too few of them.                   *)

RelayAccounts(envelope) == {envelope.shape.keys, Reverse(envelope.shape.keys)}

SignatureLists(envelope) ==
    UNION {[1..len -> {NoSignature} \cup approved] :
              len \in {envelope.shape.required - 1, envelope.shape.required}}

\* The Submit in progress ends when its frame returns or the transaction fails.
Composed(action) ==
    /\ action
    /\ submission' = IF stack' = <<>> THEN NoEnvelope ELSE submission
    /\ UNCHANGED approved

SignerNext ==
    \/ \E envelope \in Envelope : \E key \in RequiredSigners(envelope.shape) :
            Approve(key, envelope)
    \/ \E envelope \in Envelope :
        /\ envelope.message \in Ids
        /\ \E relay \in RelayAccounts(envelope), signatures \in SignatureLists(envelope),
              relayWritable \in RelayWritable :
                Submit(relay, signatures, envelope, relayWritable)
    \/ Composed(Next)

SignerSpec == SignerInit /\ [][SignerNext]_allVars

------------------------------------------------------------------------------
(* Properties.                                                                *)

\* A programmatic signer acts only for its authority: lamports leave it, and a nonce
\* account it controls changes, only while a message runs that its authority signed
\* for with Ed25519.  That an authority signs relay transactions, or that a program
\* it called passes its signer privilege on, is not enough.
PdaActsForAuthority ==
    [][\A k \in Authority, x \in Address :
        phase' = "running" /\ TakesFrom(x) /\ Controller(x) = Pda[k] =>
            /\ submission' # NoEnvelope
            /\ <<k, submission'.envelope>> \in approved
            /\ stack'[1].message = submission'.envelope.message]_allVars

\* While the instructions of an envelope run, each of its required signers approved
\* that very envelope or signed the transaction that carries it.
EverySignerApproved ==
    submission # NoEnvelope =>
        \A k \in RequiredSigners(submission.envelope.shape) :
            <<k, submission.envelope>> \in approved \/ k \in signers

\* The executor holds, for the message of an envelope, no privilege that the envelope
\* does not list: signer only for its signing keys and their programmatic signers,
\* writable only for keys it marks writable, whatever the relayer adds.
NoPrivilegeBeyondEnvelope ==
    submission # NoEnvelope =>
        LET shape == submission.envelope.shape
        IN  /\ stack[1].writable \subseteq {shape.keys[i] : i \in shape.writable}
            /\ stack[1].signers \subseteq
                  RequiredSigners(shape) \cup {Pda[k] : k \in RequiredSigners(shape) \cap Authority}

\* Submit's documentation: at every index the relay account's writable flag matches
\* the authorization message.
WritableFlagsMatch ==
    submission # NoEnvelope =>
        LET shape == submission.envelope.shape
        IN  \A i \in 1..Len(shape.keys) :
                shape.keys[i] \in submission.relayWritable <=> i \in shape.writable

\* The keys that must sign for a message's j-th instruction, and the authorities whose
\* programmatic signers are among them for some instruction.  A signer of the header
\* that no instruction names is never asked for.
InstructionSigners(body, j) ==
    {body.keys[i] : i \in Range(body.instructions[j].accounts) \cap body.signers}

Needs(body) ==
    {k \in Authority :
        \E j \in 1..Len(body.instructions) : Pda[k] \in InstructionSigners(body, j)}

\* Signing an envelope approves its message, the message that one carries, and so on:
\* the least set of messages with m that holds what its members carry.
HoldsCarried(S) == \A i \in S : book[i].inner \in S \cup {NoMessage}

Carried(m) == {k \in Ids : \A S \in SUBSET Ids : m \in S /\ HoldsCarried(S) => k \in S}

Offered == [m \in Ids |-> [ticket |-> book[m].lifetime, needs |-> Needs(book[m].body)]]
ApprovedMessages == UNION {{s[1]} \X Carried(s[2].message) : s \in approved}
Performed == {m \in Ids : saved.started[m] > 0}

Once == INSTANCE AuthorizedOnce WITH
    offered <- Offered, approved <- ApprovedMessages, performed <- Performed

ImplementsAuthorizedOnce == Once!Spec
==============================================================================
