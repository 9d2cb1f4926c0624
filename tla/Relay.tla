--------------------------------- MODULE Relay ---------------------------------
(* Collecting approvals and relaying envelopes on a chain that moves on           *)
(* (`transaction sign`, `transaction submit --sign-only` and `transaction submit`).  *)
(* The requests form a chain, each signed ahead for the nonce that the one before   *)
(* leaves.  Authorities sign envelopes; signers of relay transactions sign in        *)
(* offline runs that know only their arguments; online runs read the nonce, then the *)
(* durable nonce or a blockhash, then ask their user, then send; what an earlier run  *)
(* sent may still be on its way when the next one starts.                         *)
EXTENDS TransactionCommands

CONSTANTS
    Chain,          \* the requests, in the order they are to run
    KeyHolder,
    RelayKeyHolder, \* those who sign relay transactions in other runs
    FeePayer,       \* the wallet that pays for relay transactions
    Durable,        \* the durable nonce that may be used
    Nothing,        \* no command or transaction yet
    Salt,           \* what somebody else's advance commits to
    MaxRecent,      \* bound: newest blockhashes
    MaxDurable,     \* bound: values of the durable nonce
    MaxCollected,   \* bound: relay signatures made offline
    MaxInFlight     \* bound: transactions in flight when another run sends one

ASSUME RelayAssumption ==
    /\ FeePayer \in KeyHolder /\ KeyHolder \cup RelayKeyHolder \subseteq Address
    /\ Durable.authority \in KeyHolder
    /\ MaxRecent \in Nat /\ MaxDurable \in Nat

\* The requests are for different messages (each for a nonce of its own), none of which
\* the nonce commits to when the first is signed, nor anybody else's advance.
ASSUME ChainAssumption ==
    /\ Chain[1].nonceHash \in Seq(ToSet(Chain[1].nonceHash))
    /\ \A i, j \in 1..Len(Chain) :
          ExecutionMessage(Chain[i]) = ExecutionMessage(Chain[j]) => i = j
    /\ \A i \in 1..Len(Chain) :
          ExecutionMessage(Chain[i]) \notin {Salt} \cup ToSet(Chain[1].nonceHash)

VARIABLES
    nonce,        \* the value of the SPL nonce account
    durable,      \* the value of the durable nonce account
    recent,       \* the newest blockhash
    approvals,    \* signatures over envelopes in circulation
    collected,    \* relay signatures made offline, with the arguments of their run
    consents,     \* who was asked, for which envelope, and agreed
    phase, command, transaction,     \* of the online run
    inFlight      \* transactions sent that have neither landed nor expired

run == <<phase, command, transaction>>
chain == <<nonce, durable, recent>>
vars == <<chain, approvals, collected, consents, run, inFlight>>

Envelope == [i \in 1..Len(Chain) |-> EnvelopeOf(Chain[i])]
Envelopes == {Envelope[i] : i \in 1..Len(Chain)}

Init ==
    /\ nonce = Chain[1].nonceHash
    /\ durable = 0 /\ recent = 0
    /\ approvals = {} /\ collected = {} /\ consents = {}
    /\ phase = "idle" /\ command = Nothing /\ transaction = Nothing
    /\ inFlight = {}

------------------------------------------------------------------------------
(* Offline.                                                                   *)

\* transaction sign, by an authority.  A required relay signer who approves the envelope
\* rather than the relay transaction is left to Roles.
Approve(k, e) ==
    /\ k \in KeyHolder /\ IsPdaAuthority(e, k)
    /\ <<k, e>> \notin approvals
    /\ approvals' = approvals \cup {<<k, e>>}
    /\ consents' = consents \cup {<<k, e>>}
    /\ UNCHANGED <<chain, collected, run, inFlight>>

\* A run's arguments, apart from which signers are local.
Arguments(c, blockhash) ==
    [envelope |-> c.envelope, approvals |-> c.approvals, feePayer |-> c.feePayer,
     durable |-> c.durable, blockhash |-> blockhash]

\* Relay signatures are over a transaction with its blockhash.
RelaySignatures(c, tx) ==
    {[key |-> k, tx |-> tx, arguments |-> Arguments(c, tx.blockhash)] : k \in LocalKeys(c)}

\* The user agrees for the local signers of the envelope, if asked at all.
Consent(c) ==
    consents' = IF Asks(c)
                THEN consents \cup {<<k, c.envelope>> : k \in LocalKeys(c) \cap Required(c.envelope)}
                ELSE consents

\* submit --sign-only
SignOnly(c) ==
    LET tx == Planned(c, c.blockhash)
    IN  /\ c.signOnly /\ LocalKeys(c) # {}
        /\ ~SubmitRefused(c) /\ ~PlannedRefused(c, tx) /\ ~SigningFails(c, tx)
        /\ collected' = collected \cup RelaySignatures(c, tx)
        /\ Cardinality(collected') <= MaxCollected
        /\ Consent(c)
        /\ UNCHANGED <<chain, approvals, run, inFlight>>

------------------------------------------------------------------------------
(* Online runs.                                                               *)

Live(e) == nonce = e.carried.lifetime

Idle ==
    phase' = "idle" /\ command' = Nothing /\ transaction' = Nothing

\* What can be checked offline, check_execution_nonce, then check_durable_nonce or
\* latest_blockhash.  A move of the nonce between the reads is like one after them.
Start(c) ==
    /\ phase \in {"idle", "done"}
    /\ ~c.signOnly /\ Live(c.envelope) /\ ~SubmitRefused(c)
    /\ c.durable # NoDurable => c.blockhash \in {NoHash, durable}
    /\ \E tx \in {Planned(c, IF c.durable # NoDurable THEN durable
                             ELSE IF c.blockhash = NoHash THEN recent ELSE c.blockhash)} :
        /\ ~PlannedRefused(c, tx)
        /\ phase' = "asking" /\ command' = c /\ transaction' = tx
    /\ UNCHANGED <<chain, approvals, collected, consents, inFlight>>

\* A signature is missing, or a local key has no slot.
Unsendable == SigningFails(command, transaction) \/ ~Complete(command, transaction)

\* The user agrees, however late; the local keys sign and the transaction is sent.
Send ==
    /\ phase = "asking"
    /\ Consent(command)
    /\ IF Unsendable THEN Idle /\ UNCHANGED inFlight
       ELSE /\ phase' = "sent"
            /\ inFlight' = inFlight \cup {transaction}
            /\ UNCHANGED <<command, transaction>>
    /\ UNCHANGED <<chain, approvals, collected>>

Decline ==
    /\ phase = "asking" /\ Asks(command)
    /\ Idle
    /\ UNCHANGED <<chain, approvals, collected, consents, inFlight>>

\* Mutant: a transaction that is not in flight any more counts as confirmed.
ConfirmGone ==
    /\ phase \in {"sent", "succeeded"} /\ transaction \notin inFlight
    /\ phase' = "done"
    /\ UNCHANGED <<chain, approvals, collected, consents, command, transaction, inFlight>>

Confirm ==
    /\ phase = "succeeded"
    /\ phase' = "done"
    /\ UNCHANGED <<chain, approvals, collected, consents, command, transaction, inFlight>>

\* The transaction failed, or there is no answer in time, whatever became of it.
Fail ==
    /\ phase \in {"sent", "succeeded"}
    /\ Idle
    /\ UNCHANGED <<chain, approvals, collected, consents, inFlight>>

------------------------------------------------------------------------------
(* What people ask for.                                                       *)

\* Local keys sign wherever they can.
Ask(e, given, local, from, durableNonce, blockhash, offline) ==
    [envelope |-> e, approvals |-> given,
     relaySigners |-> {k \in local \cap Required(e) :
                          IsExecutorSigner(e, k) \/ IsRequiredRelaySigner(e, k)},
     collected |-> {<<s.key, s.tx>> : s \in from},
     feePayer |-> FeePayer, feePayerLocal |-> FeePayer \in local,
     durable |-> durableNonce, durableLocal |-> Durable.authority \in local,
     blockhash |-> blockhash, signOnly |-> offline, dryRun |-> FALSE]

\* The approvals of an envelope that there are.
ApprovalsOf(e) == {s \in approvals : s[2] = e}

\* Offline runs, at different times, with some of the keys: they use the durable nonce
\* (a signature over a recent blockhash soon has no use).
OfflineAsks(e) ==
    {Ask(e, ApprovalsOf(e), local, {}, Durable, durable, TRUE) :
        local \in SUBSET RelayKeyHolder \ {{}}}

\* An online run has keys, or signatures that were collected, or some of each.
Blockhashes(from) == IF from = {} THEN {NoHash} ELSE {s.tx.blockhash : s \in from}
OnlineAsk(e, local, from, d, b) == Ask(e, ApprovalsOf(e), local, from, d, b, FALSE)
OnlineAsksWith(e, from) ==
    {OnlineAsk(e, local, from, d, b) :
        local \in SUBSET RelayKeyHolder, d \in {NoDurable, Durable}, b \in Blockhashes(from)}
OnlineAsks(e) ==
    UNION {OnlineAsksWith(e, from) : from \in SUBSET {s \in collected : s.tx.envelope = e}}

\* Every key at hand, a new blockhash each time.
PersistentAsk(e) ==
    Ask(e, {<<k, e>> : k \in {j \in Required(e) : IsPdaAuthority(e, j)}},
        KeyHolder, {}, NoDurable, NoHash, FALSE)

\* The authorities are waited for.
StartPersistent(e) ==
    /\ Live(e)
    /\ \E c \in {PersistentAsk(e)} : c.approvals \subseteq approvals /\ Start(c)

\* Other runs are made while little is in flight.
Startable(e) == phase \in {"idle", "done"} /\ Live(e) /\ Cardinality(inFlight) < MaxInFlight
StartOther(c) == Startable(c.envelope) /\ Start(c)

------------------------------------------------------------------------------
(* The chain.                                                                 *)

Valid(tx) == tx.blockhash = IF tx.durable = NoDurable THEN recent ELSE durable

Executes(tx) == ProgramAccepts(tx) /\ Live(tx.envelope)

\* A transaction that fails changes nothing but its durable nonce; one without a durable
\* nonce may as well be dropped.
Land(tx) ==
    /\ tx \in inFlight /\ Valid(tx)
    /\ Executes(tx) \/ tx.durable # NoDurable
    /\ nonce' = IF Executes(tx) THEN Append(nonce, tx.envelope.carried) ELSE nonce
    /\ durable' = IF tx.durable = NoDurable THEN durable ELSE durable + 1
    /\ durable' <= MaxDurable
    /\ inFlight' = inFlight \ {tx}
    /\ phase' = IF phase = "sent" /\ transaction = tx /\ Executes(tx)
                THEN "succeeded" ELSE phase
    /\ UNCHANGED <<recent, approvals, collected, consents, command, transaction>>

Drop(tx) ==
    /\ tx \in inFlight
    /\ inFlight' = inFlight \ {tx}
    /\ UNCHANGED <<chain, approvals, collected, consents, run>>

NextBlockhash ==
    /\ recent < MaxRecent
    /\ recent' = recent + 1
    /\ UNCHANGED <<nonce, durable, approvals, collected, consents, run, inFlight>>

\* `nonce advance`, or any other message of the nonce authority.
AdvanceElsewhere ==
    /\ Len(nonce) < Len(Chain) /\ ~Contains(nonce, Salt)
    /\ nonce' = Append(nonce, Salt)
    /\ UNCHANGED <<durable, recent, approvals, collected, consents, run, inFlight>>

UseDurableElsewhere ==
    /\ durable < MaxDurable
    /\ durable' = durable + 1
    /\ UNCHANGED <<nonce, recent, approvals, collected, consents, run, inFlight>>

Next ==
    \/ \E e \in Envelopes : \/ \E k \in KeyHolder : Approve(k, e)
                            \/ /\ Cardinality(collected) < MaxCollected
                               /\ \E c \in OfflineAsks(e) : SignOnly(c)
                            \/ StartPersistent(e)
                            \/ /\ Startable(e)
                               /\ \E c \in OnlineAsks(e) : StartOther(c)
    \/ Send \/ Decline \/ Confirm \/ Fail
    \/ \E tx \in inFlight : Land(tx) \/ Drop(tx)
    \/ NextBlockhash \/ AdvanceElsewhere \/ UseDurableElsewhere

Spec == Init /\ [][Next]_vars

\* The authorities sign in the end; somebody with the other keys tries again and again
\* and agrees when asked; the client does not hang; a transaction that is sent again and
\* again while it could land lands in the end.
Fairness ==
    /\ \A e \in Envelopes :
        /\ \A k \in KeyHolder : WF_vars(Approve(k, e))
        /\ SF_vars(StartPersistent(e))
        /\ SF_vars(Send /\ command = PersistentAsk(e))
        /\ SF_vars(\E tx \in inFlight : tx.envelope = e /\ Land(tx))
    /\ WF_vars(Send \/ Decline)
    /\ WF_vars(Confirm \/ Fail)

FairSpec == Spec /\ Fairness

------------------------------------------------------------------------------
(* Properties.                                                                *)

\* Offline runs with the same arguments, whichever signers each has at hand, sign the
\* same transaction: their signatures can be put together.
OneRelayTransaction ==
    \A s, t \in collected : s.arguments = t.arguments => s.tx = t.tx

\* Nobody who must approve an envelope has signed a relay transaction for it, and no
\* envelope ran, without having been asked about that envelope and having agreed, be it
\* the cold authority, a forwarded signer or a required relay signer who also pays.
EveryoneConsented ==
    /\ \A s \in collected :
            s.key \in Required(s.tx.envelope) => <<s.key, s.tx.envelope>> \in consents
    /\ \A e \in Envelopes :
            Contains(nonce, e.carried) => \A k \in Required(e) : <<k, e>> \in consents

\* submit reports success only if its envelope ran, although the nonce was checked long
\* before, maybe before a prompt, and others relay the same envelope meanwhile.
ReportIsTrue == phase = "done" => Contains(nonce, command.envelope.carried)

\* Envelopes signed ahead of time run one after the other: unless somebody else moves
\* the nonce, the turn of each comes and it runs.
SignedAheadRuns ==
    \A i \in 1..Len(Chain) :
        Len(nonce) = i - 1 /\ ~Contains(nonce, Salt) ~> Len(nonce) >= i
==============================================================================
