--------------------------------- MODULE Roles ---------------------------------
(* One request, the participants who each run `transaction sign` on it with the   *)
(* addresses listed in an order of their own, and one relayer who submits what     *)
(* they made.  The roles of an envelope's signers are worked out three times from   *)
(* different inputs: by sign from the request, by submit from the envelope, and    *)
(* by the signer program from the relay transaction.                             *)
EXTENDS TransactionCommands

CONSTANTS
    Participant,
    Requests,
    Listings(_),     \* the ways to list the addresses of a request
    KeyHolder,       \* addresses whose key somebody has
    FeePayers,
    Durables,        \* durable nonces, NoDurable among them
    NotYet           \* no envelope or no transaction yet

ASSUME RolesAssumption ==
    /\ KeyHolder \cup FeePayers \subseteq Address
    /\ NoDurable \in Durables

\* A programmatic signer has no key: nobody signs with it and it pays for nothing.
ASSUME KeyAssumption ==
    \A k \in Address :
        Pda[k] \notin KeyHolder \cup FeePayers \cup {d.authority : d \in Durables \ {NoDurable}}

ASSUME RequestsAssumption ==
    \A r \in Requests :
        /\ r.message = [keys |-> r.message.keys, required |-> r.message.required,
                         readonlySigned |-> r.message.readonlySigned,
                         readonlyUnsigned |-> r.message.readonlyUnsigned,
                         config |-> r.message.config, lifetime |-> r.message.lifetime]
        /\ {r.message.required, r.message.readonlySigned, r.message.readonlyUnsigned} \subseteq Nat
        /\ {r.message.keys, r.authorities, r.relaySigners} \subseteq Seq(Address)
        /\ {r.nonceAccount, r.nonceAuthority} \subseteq Address

\* A listing names the same authorities and relay signers, in some order and any of them
\* more than once, and is otherwise the request.
ASSUME ListingsAssumption ==
    \A r \in Requests : \A l \in Listings(r) :
        /\ Authorities(l) = Authorities(r) /\ RelaySigners(l) = RelaySigners(r)
        /\ l.message = r.message /\ l.strip = r.strip /\ l.nonceHash = r.nonceHash
        /\ l.nonceAccount = r.nonceAccount /\ l.nonceAuthority = r.nonceAuthority

VARIABLES
    request,
    envelopes,    \* what each participant's run of sign printed
    sent          \* the transaction submitted, fully signed

vars == <<request, envelopes, sent>>

Init ==
    /\ request \in Requests
    /\ envelopes = [p \in Participant |-> NotYet]
    /\ sent = NotYet

Sign(p, listed) ==
    /\ envelopes[p] = NotYet
    /\ ~SignRefused(listed) /\ Submittable(listed)
    /\ envelopes' = [envelopes EXCEPT ![p] = EnvelopeOf(listed)]
    /\ UNCHANGED <<request, sent>>

\* Only `signing` is used of an online run without relay signatures from other runs.
Command(envelope, approvals, relaySigners, feePayer, durable) ==
    [envelope |-> envelope, approvals |-> approvals, relaySigners |-> relaySigners,
     collected |-> {}, feePayer |-> feePayer, feePayerLocal |-> TRUE,
     durable |-> durable, durableLocal |-> TRUE, blockhash |-> NoHash,
     signOnly |-> FALSE, dryRun |-> FALSE]

Submit(p, approvals, relaySigners, feePayer, durable) ==
    LET c  == Command(envelopes[p], approvals, relaySigners, feePayer, durable)
        tx == Planned(c, NoHash)
    IN  /\ ~SubmitRefused(c)
        /\ ~PlannedRefused(c, tx)
        /\ ~SigningFails(c, tx)
        /\ Complete(c, tx)
        /\ sent' = tx
        /\ UNCHANGED <<request, envelopes>>

Holders(envelope) == Required(envelope) \cap KeyHolder

Next ==
    \/ \E p \in Participant : \E listed \in Listings(request) : Sign(p, listed)
    \/ /\ sent = NotYet
       /\ \E p \in Participant :
            /\ envelopes[p] # NotYet
            /\ \E keys, relaySigners \in SUBSET Holders(envelopes[p]),
                  feePayer \in FeePayers, durable \in Durables :
                    Submit(p, Approvals(keys, envelopes[p]), relaySigners, feePayer, durable)

Spec == Init /\ [][Next]_vars

------------------------------------------------------------------------------
(* Properties.                                                                *)

Envelopes == {envelopes[p] : p \in Participant} \ {NotYet}

\* However the participants list the addresses, they make the same envelope, so that
\* their signatures can be put together.
OneEnvelope == Cardinality(Envelopes) <= 1

\* The header of an envelope gives every account exactly what the request says: it
\* signs if it approves, it is writable if the executor writes to it, only the stand-in
\* for a fee payer, a signer, may be writable for nothing, and the executor program
\* itself never is.  The instruction names the executor and its accounts in their order.
HeaderIsExact ==
    \A e \in Envelopes :
        LET metas   == ExecuteMetas(request)
            signing == Authorities(request) \cup Forwarded(request) \cup RelaySigners(request)
            standIn == IF signing \cap Written(metas) = {} THEN {e.keys[1]} ELSE {}
        IN  /\ \A i \in 1..Len(e.keys) :
                    /\ IsSigner(e, i) <=> e.keys[i] \in signing
                    /\ IsWritable(e, i) <=> e.keys[i] \in (Written(metas) \cup standIn) \ {ExecutorProgram}
            /\ e.keys[e.program] = ExecutorProgram
            /\ [i \in 1..Len(metas) |-> ExecutorAccount(e, i)] = Keys(metas)

\* submit sees each signer of an envelope in the role in which sign listed it.
RolesAgree ==
    \A e \in Envelopes : \A k \in Required(e) \cap KeyHolder :
        /\ k \in RelaySigners(request) <=> IsRequiredRelaySigner(e, k)
        /\ k \in Forwarded(request) <=> IsExecutorSigner(e, k)
        /\ k \in Authorities(request) => IsPdaAuthority(e, k)

\* What submit sends, the signer program accepts, and the programmatic signers that
\* sign in it are those of the listed authorities.
SubmittedIsAccepted ==
    sent # NotYet =>
        /\ ProgramAccepts(sent)
        /\ Promotable(VerifiedKeys(sent)) \cap Needs(sent.envelope)
               = Promotable(Authorities(request))

\* Once sign has accepted a request whose signers all have their keys, submit accepts
\* the envelope with all their signatures.
Completable ==
    \A e \in Envelopes :
        Required(e) \subseteq KeyHolder =>
            LET executor == {k \in Required(e) : IsExecutorSigner(e, k)}
                c == Command(e, Approvals({k \in Required(e) : ~IsExecutorSigner(e, k)
                                                              \/ IsPdaAuthority(e, k)}, e),
                             executor,
                             IF executor = {} THEN e.keys[1] ELSE Min(executor),
                             NoDurable)
                tx == Planned(c, NoHash)
            IN  /\ ~SubmitRefused(c) /\ ~PlannedRefused(c, tx)
                /\ ~SigningFails(c, tx) /\ Complete(c, tx)

\* A simulation that passes runs the executor with the accounts, the signers and the
\* writable flags that a submission then gives it.
SimulationPredicts ==
    sent # NotYet =>
        \A feePayer \in FeePayers :
            LET tx == Simulated(request, feePayer)
            IN  ~SimulateRefused(request, feePayer, request.nonceHash, request.nonceAuthority) =>
                    /\ ProgramAccepts(tx)
                    /\ Granted(tx) \cap Needs(sent.envelope)
                           = Granted(sent) \cap Needs(sent.envelope)
                    /\ Writes(tx.envelope) = Writes(sent.envelope)

\* sign.rs: what is checked is the smallest relay transaction that submit could build.
RefusedIsUnsubmittable ==
    \A listed \in Listings(request) :
        ~SignRefused(listed) /\ ~Submittable(listed) =>
            LET e == EnvelopeOf(listed)
            IN  \A keys, relaySigners \in SUBSET Holders(e), feePayer \in FeePayers :
                    LET c == Command(e, Approvals(keys, e), relaySigners, feePayer, NoDurable)
                    IN  SubmitRefused(c) \/ PlannedRefused(c, Planned(c, NoHash))
==============================================================================
