------------------------------ MODULE RelayProofs ------------------------------
(* Proofs about module Relay, for every chain of requests, every set of keys and    *)
(* every bound.  The invariant follows consent from where it is given, a prompt or a  *)
(* signature over the envelope, to where it counts, a transaction that can run: it    *)
(* covers the run in progress, the signatures lying around and what is in flight.    *)
EXTENDS Relay, TLAPS

(* Everything that commits the nonce to something.                                  *)
NonceStep == ToSet(Chain[1].nonceHash) \cup {Salt} \cup {e.carried : e \in Envelopes}

(* k agreed to e if e needs k's agreement.                                          *)
Agreed(k, e) == k \in Required(e) => <<k, e>> \in consents

(* Whoever signs a transaction, or gave a signature that it carries, agreed.         *)
Endorsed(tx) ==
    \A i \in 1..tx.envelope.required :
        tx.envelope.keys[i] \in tx.signing \/ tx.signatures[i] # NoSignature =>
            <<tx.envelope.keys[i], tx.envelope>> \in consents

(* The transaction a run makes is a function of its arguments alone.                 *)
CollectedPlanned ==
    \A s \in collected :
        /\ s.tx = Planned(s.arguments, s.arguments.blockhash)
        /\ Agreed(s.key, s.tx.envelope)

(* The signatures a run was given are from people who agreed.                        *)
GivenAgreed(c) ==
    /\ \A s \in c.approvals : <<s[1], s[2]>> \in consents
    /\ \A s \in c.collected : Agreed(s[1], c.envelope)

Running ==
    phase # "idle" =>
        /\ command.envelope \in Envelopes
        /\ transaction = Planned(command, transaction.blockhash)

Asking == phase = "asking" => ~SubmitRefused(command) /\ GivenAgreed(command)

Reported == phase \in {"succeeded", "done"} => Contains(nonce, command.envelope.carried)

InFlightEndorsed == \A tx \in inFlight : tx.envelope \in Envelopes /\ Endorsed(tx)

RanWithConsent ==
    \A e \in Envelopes :
        Contains(nonce, e.carried) => \A k \in Required(e) : <<k, e>> \in consents

RelayInv ==
    /\ nonce \in Seq(NonceStep)
    /\ \A s \in approvals : <<s[1], s[2]>> \in consents
    /\ CollectedPlanned
    /\ Running
    /\ Asking
    /\ Reported
    /\ InFlightEndorsed
    /\ RanWithConsent

------------------------------------------------------------------------------
(* Facts about commands and transactions.                                        *)

(* Planned keeps the envelope, the blockhash and what was approved.                  *)
LEMMA PlannedFacts ==
    ASSUME NEW c, NEW blockhash
    PROVE  LET tx == Planned(c, blockhash)
           IN  /\ tx.envelope = c.envelope /\ tx.blockhash = blockhash
               /\ \A i \in 1..c.envelope.required :
                     tx.signatures[i] # NoSignature => c.envelope.keys[i] \in Approved(c)
BY DEF Planned, RelayTransaction

(* What a run plans depends on nothing but its arguments.                            *)
LEMMA ArgumentsDecide ==
    ASSUME NEW c, NEW blockhash
    PROVE  /\ Planned(c, blockhash) = Planned(Arguments(c, blockhash), blockhash)
           /\ Arguments(c, blockhash).blockhash = blockhash
<1> DEFINE d == Arguments(c, blockhash)
<1>1. /\ d.envelope = c.envelope /\ d.approvals = c.approvals /\ d.feePayer = c.feePayer
      /\ d.durable = c.durable /\ d.blockhash = blockhash
  BY DEF Arguments
<1> HIDE DEF d
<1>2. Approved(d) = Approved(c)
  BY <1>1 DEF Approved
<1>3. SubmitSigners(d) = SubmitSigners(c)
  BY <1>1, <1>2 DEF SubmitSigners
<1>4. Planned(d, blockhash) = Planned(c, blockhash)
  BY <1>1, <1>2, <1>3 DEF Planned
<1> QED
  BY <1>1, <1>4 DEF d

(* A required signer either approved the envelope or is one of the signers of the    *)
(* relay transaction that the user is asked about.                                  *)
LEMMA EverySignerCounts ==
    ASSUME NEW c, ~SubmitRefused(c), NEW k \in Required(c.envelope)
    PROVE  k \in Approved(c) \/ k \in SubmitSigners(c)
BY DEF SubmitRefused, SignerMissing, SubmitSigners, IsRequiredRelaySigner

(* When a run signs, its local keys and those who approved have agreed, although      *)
(* the user is not asked when nobody signs the relay transaction for the envelope.    *)
LEMMA SigningIsAgreed ==
    ASSUME NEW c, ~SubmitRefused(c), GivenAgreed(c), Consent(c)
    PROVE  /\ consents \subseteq consents'
           /\ \A k \in Required(c.envelope) :
                 k \in LocalKeys(c) \cup Approved(c) => <<k, c.envelope>> \in consents'
<1>1. consents \subseteq consents'
  BY DEF Consent
<1>2. ASSUME NEW k \in Required(c.envelope), k \in Approved(c)
      PROVE  <<k, c.envelope>> \in consents'
  <2>1. PICK s \in c.approvals : s[1] = k
    BY <1>2 DEF Approved
  <2>2. s[2] = c.envelope
    BY DEF SubmitRefused, ApprovalRefused
  <2> QED
    BY <1>1, <2>1, <2>2 DEF GivenAgreed
<1>3. ASSUME NEW k \in Required(c.envelope), k \in LocalKeys(c), k \notin Approved(c)
      PROVE  <<k, c.envelope>> \in consents'
  <2>1. Asks(c)
    BY <1>3, EverySignerCounts DEF Asks
  <2> QED
    BY <1>3, <2>1 DEF Consent
<1> QED
  BY <1>1, <1>2, <1>3

(* A complete transaction is endorsed once it is signed.                             *)
LEMMA CompleteIsEndorsed ==
    ASSUME NEW c, ~SubmitRefused(c), GivenAgreed(c), Consent(c),
           NEW tx, tx = Planned(c, tx.blockhash), Complete(c, tx)
    PROVE  Endorsed(tx)'
<1>1. /\ tx.envelope = c.envelope
      /\ \A i \in 1..c.envelope.required :
            tx.signatures[i] # NoSignature => c.envelope.keys[i] \in Approved(c)
  BY PlannedFacts
<1>2. /\ consents \subseteq consents'
      /\ \A k \in Required(c.envelope) :
            k \in LocalKeys(c) \cup Approved(c) => <<k, c.envelope>> \in consents'
  BY SigningIsAgreed
<1> SUFFICES ASSUME NEW i \in 1..c.envelope.required,
                    c.envelope.keys[i] \in tx.signing \/ tx.signatures[i] # NoSignature
             PROVE  <<c.envelope.keys[i], c.envelope>> \in consents'
  BY <1>1 DEF Endorsed
<1> DEFINE k == c.envelope.keys[i]
<1>3. k \in Required(c.envelope)
  BY DEF Required, SigningKeys
<1>4. k \in LocalKeys(c) \cup Approved(c) \cup Collected(c)
  BY <1>1 DEF Complete
<1>5. ASSUME k \in Collected(c) PROVE <<k, c.envelope>> \in consents
  BY <1>3, <1>5 DEF GivenAgreed, Agreed, Collected
<1> QED
  BY <1>2, <1>3, <1>4, <1>5

(* An endorsed transaction that the signer program accepts has everyone's consent.    *)
LEMMA ExecutedIsAgreed ==
    ASSUME NEW tx, Endorsed(tx), ProgramAccepts(tx)
    PROVE  \A k \in Required(tx.envelope) : <<k, tx.envelope>> \in consents
<1>1. \A i \in 1..tx.envelope.required :
         tx.signatures[i] = NoSignature => tx.envelope.keys[i] \in tx.signing
  BY DEF ProgramAccepts, SignaturesOk
<1> QED
  BY <1>1 DEF Endorsed, Required, SigningKeys

(* Different envelopes carry different messages.                                     *)
LEMMA EnvelopeFacts ==
    /\ \A e, f \in Envelopes : e.carried = f.carried => e = f
    /\ \A e \in Envelopes : e.carried \notin {Salt} \cup ToSet(Chain[1].nonceHash)
    /\ \A e \in Envelopes : e.carried \in NonceStep
<1>1. \A i \in 1..Len(Chain) :
         /\ Envelope[i] = EnvelopeOf(Chain[i])
         /\ Envelope[i].carried = ExecutionMessage(Chain[i])
  BY DEF Envelope, EnvelopeOf, AuthorizationMessage
<1> QED
  BY <1>1, ChainAssumption DEF Envelopes, NonceStep

(* Everything in a nonce stays there as it moves on.                                 *)
LEMMA AppendedStep ==
    ASSUME NEW S, NEW s \in Seq(S), NEW x \in S
    PROVE  /\ Append(s, x) \in Seq(S)
           /\ \A y : Contains(Append(s, x), y) <=> Contains(s, y) \/ y = x
<1>1. /\ Append(s, x) \in Seq(S) /\ Len(s) \in Nat /\ Len(Append(s, x)) = Len(s) + 1
      /\ \A i \in 1..Len(s) : Append(s, x)[i] = s[i]
      /\ Append(s, x)[Len(s) + 1] = x
  OBVIOUS
<1>2. \A i \in 1..(Len(s) + 1) : i \in 1..Len(s) \/ i = Len(s) + 1
  BY <1>1
<1>3. \A i \in 1..Len(s) : i \in 1..(Len(s) + 1)
  BY <1>1
<1>4. Len(s) + 1 \in 1..(Len(s) + 1)
  BY <1>1
<1> QED
  BY <1>1, <1>2, <1>3, <1>4 DEF Contains

------------------------------------------------------------------------------
(* The invariant holds at the start, and every step keeps it.                     *)

LEMMA InitEstablishes == Init => RelayInv
<1> SUFFICES ASSUME Init PROVE RelayInv
  OBVIOUS
<1>1. nonce \in Seq(NonceStep)
  BY ChainAssumption DEF Init, NonceStep
<1>2. RanWithConsent
  <2>1. \A e \in Envelopes : ~Contains(nonce, e.carried)
    <3>1. nonce = Chain[1].nonceHash /\ nonce \in Seq(ToSet(Chain[1].nonceHash))
      BY ChainAssumption DEF Init
    <3>2. \A i \in 1..Len(nonce) : nonce[i] \in ToSet(Chain[1].nonceHash)
      BY <3>1
    <3> QED
      BY <3>2, EnvelopeFacts DEF Contains
  <2> QED
    BY <2>1 DEF RanWithConsent
<1> QED
  BY <1>1, <1>2 DEF Init, RelayInv, CollectedPlanned, Running, Asking, Reported, InFlightEndorsed

(* Consent is only ever added.                                                       *)
LEMMA ConsentStays ==
    ASSUME consents \subseteq consents'
    PROVE  /\ \A tx : Endorsed(tx) => Endorsed(tx)'
           /\ \A k, e : Agreed(k, e) => Agreed(k, e)'
           /\ \A c : GivenAgreed(c) => GivenAgreed(c)'
BY DEF Endorsed, Agreed, GivenAgreed

(* Steps that are neither the run's nor the nonce's: somebody approves, something is  *)
(* lost, a blockhash or the durable nonce moves on.                                  *)
LEMMA QuietKeeps ==
    ASSUME RelayInv, UNCHANGED <<nonce, collected, run>>, inFlight' \subseteq inFlight,
           consents \subseteq consents', \A s \in approvals' : <<s[1], s[2]>> \in consents'
    PROVE  RelayInv'
<1>1. /\ nonce' = nonce /\ collected' = collected
      /\ phase' = phase /\ command' = command /\ transaction' = transaction
  BY DEF run
<1>2. nonce' \in Seq(NonceStep)
  BY <1>1 DEF RelayInv
<1>3. CollectedPlanned'
  BY <1>1, ConsentStays DEF RelayInv, CollectedPlanned
<1>4. Running' /\ Reported'
  BY <1>1 DEF RelayInv, Running, Reported
<1>5. Asking'
  BY <1>1 DEF RelayInv, Asking, GivenAgreed, Agreed
<1>6. InFlightEndorsed'
  BY ConsentStays DEF RelayInv, InFlightEndorsed
<1>7. RanWithConsent'
  BY <1>1 DEF RelayInv, RanWithConsent
<1> QED
  BY <1>2, <1>3, <1>4, <1>5, <1>6, <1>7 DEF RelayInv

\* An authority who signs an envelope agrees to it.
LEMMA ApproveKeeps ==
    ASSUME RelayInv, NEW k, NEW e, Approve(k, e)
    PROVE  RelayInv'
<1>1. /\ approvals' = approvals \cup {<<k, e>>} /\ consents' = consents \cup {<<k, e>>}
      /\ UNCHANGED <<nonce, collected, run, inFlight>>
  BY DEF Approve, chain
<1>2. ASSUME NEW s \in approvals' PROVE <<s[1], s[2]>> \in consents'
  <2>1. CASE s \in approvals
    BY <1>1, <2>1 DEF RelayInv
  <2>2. CASE s = <<k, e>>
    <3>1. s[1] = k /\ s[2] = e
      BY <2>2
    <3> QED
      BY <1>1, <3>1
  <2> QED
    BY <1>1, <1>2, <2>1, <2>2
<1> QED
  BY <1>1, <1>2, QuietKeeps

(* The approvals and the relay signatures that a run is given exist.                 *)
LEMMA AskFacts ==
    ASSUME RelayInv, NEW e, NEW given, given \subseteq approvals,
           NEW from, from \subseteq {s \in collected : s.tx.envelope = e},
           NEW local, NEW durableNonce, NEW blockhash, NEW offline
    PROVE  LET c == Ask(e, given, local, from, durableNonce, blockhash, offline)
           IN  c.envelope = e /\ GivenAgreed(c)
<1> DEFINE c == Ask(e, given, local, from, durableNonce, blockhash, offline)
<1>1. /\ c.envelope = e /\ c.approvals = given
      /\ c.collected = {<<s.key, s.tx>> : s \in from}
  BY DEF Ask
<1> HIDE DEF c
<1>2. \A s \in c.approvals : <<s[1], s[2]>> \in consents
  BY <1>1 DEF RelayInv
<1>3. \A s \in from : Agreed(s.key, e)
  BY DEF RelayInv, CollectedPlanned
<1>4. \A s \in c.collected : Agreed(s[1], c.envelope)
  BY <1>1, <1>3
<1> QED
  BY <1>1, <1>2, <1>4 DEF GivenAgreed, c

\* An offline run adds signatures over the one transaction its arguments make.
LEMMA SignOnlyKeeps ==
    ASSUME RelayInv, NEW c, GivenAgreed(c), SignOnly(c)
    PROVE  RelayInv'
<1> DEFINE tx == Planned(c, c.blockhash)
<1>1. /\ ~SubmitRefused(c) /\ Consent(c)
      /\ collected' = collected \cup RelaySignatures(c, tx)
      /\ UNCHANGED <<nonce, approvals, phase, command, transaction, inFlight>>
  BY DEF SignOnly, chain, run
<1>2. /\ consents \subseteq consents'
      /\ \A k \in Required(c.envelope) :
            k \in LocalKeys(c) \cup Approved(c) => <<k, c.envelope>> \in consents'
  BY <1>1, SigningIsAgreed
<1>3. tx.envelope = c.envelope /\ tx.blockhash = c.blockhash
  BY PlannedFacts
<1> HIDE DEF tx
<1>4. ASSUME NEW s \in RelaySignatures(c, tx)
      PROVE  s.tx = Planned(s.arguments, s.arguments.blockhash) /\ Agreed(s.key, s.tx.envelope)'
  <2>1. PICK k \in LocalKeys(c) :
           s = [key |-> k, tx |-> tx, arguments |-> Arguments(c, tx.blockhash)]
    BY <1>4 DEF RelaySignatures
  <2>2. s.key = k /\ s.tx = tx /\ s.arguments = Arguments(c, c.blockhash)
    BY <1>3, <2>1
  <2>3. s.tx = Planned(s.arguments, s.arguments.blockhash)
    BY <2>2, ArgumentsDecide DEF tx
  <2>4. Agreed(k, c.envelope)'
    BY <1>2 DEF Agreed
  <2>5. s.key = k /\ s.tx.envelope = c.envelope
    BY <1>3, <2>2
  <2> QED
    BY <2>3, <2>4, <2>5
<1>5. CollectedPlanned'
  BY <1>1, <1>2, <1>4, ConsentStays DEF RelayInv, CollectedPlanned
<1>6. nonce' \in Seq(NonceStep) /\ Running' /\ Reported' /\ RanWithConsent'
  BY <1>1, <1>2 DEF RelayInv, Running, Reported, RanWithConsent
<1>7. Asking'
  BY <1>1, <1>2 DEF RelayInv, Asking, GivenAgreed, Agreed
<1>8. InFlightEndorsed'
  BY <1>1, <1>2, ConsentStays DEF RelayInv, InFlightEndorsed
<1>9. \A s \in approvals' : <<s[1], s[2]>> \in consents'
  BY <1>1, <1>2 DEF RelayInv
<1> QED
  BY <1>5, <1>6, <1>7, <1>8, <1>9 DEF RelayInv

\* A run of submit starts from approvals in circulation.
LEMMA StartKeeps ==
    ASSUME RelayInv, NEW c, c.envelope \in Envelopes, GivenAgreed(c), Start(c)
    PROVE  RelayInv'
<1>1. /\ phase' = "asking" /\ command' = c /\ ~SubmitRefused(c)
      /\ \E blockhash : transaction' = Planned(c, blockhash)
      /\ UNCHANGED <<nonce, approvals, collected, consents, inFlight>>
  BY DEF Start, chain
<1>2. PICK blockhash : transaction' = Planned(c, blockhash)
  BY <1>1
<1>3. transaction'.blockhash = blockhash
  BY <1>2, PlannedFacts
<1>4. Running'
  BY <1>1, <1>2, <1>3 DEF Running
<1>5. Asking' /\ Reported'
  BY <1>1 DEF Asking, Reported, GivenAgreed, Agreed
<1>6. CollectedPlanned' /\ InFlightEndorsed'
  BY <1>1, ConsentStays DEF RelayInv, CollectedPlanned, InFlightEndorsed
<1> QED
  BY <1>1, <1>4, <1>5, <1>6 DEF RelayInv, RanWithConsent

\* A run that sends has been told to by everyone whose key signs for it.
LEMMA SendKeeps ==
    ASSUME RelayInv, Send
    PROVE  RelayInv'
<1>1. /\ phase = "asking" /\ Consent(command)
      /\ UNCHANGED <<nonce, approvals, collected>>
  BY DEF Send, chain
<1>2. /\ ~SubmitRefused(command) /\ GivenAgreed(command)
      /\ command.envelope \in Envelopes
      /\ transaction = Planned(command, transaction.blockhash)
  BY <1>1 DEF RelayInv, Asking, Running
<1>3. consents \subseteq consents'
  BY <1>1 DEF Consent
<1>4. /\ nonce' \in Seq(NonceStep) /\ CollectedPlanned' /\ RanWithConsent'
      /\ \A s \in approvals' : <<s[1], s[2]>> \in consents'
  BY <1>1, <1>3, ConsentStays DEF RelayInv, CollectedPlanned, RanWithConsent
<1>5. CASE Unsendable
  <2>1. phase' = "idle" /\ inFlight' = inFlight
    BY <1>5 DEF Send, Idle
  <2>2. Running' /\ Asking' /\ Reported'
    BY <2>1 DEF Running, Asking, Reported
  <2>3. InFlightEndorsed'
    BY <1>3, <2>1, ConsentStays DEF RelayInv, InFlightEndorsed
  <2> QED
    BY <1>4, <2>2, <2>3 DEF RelayInv
<1>6. CASE ~Unsendable
  <2>1. /\ phase' = "sent" /\ inFlight' = inFlight \cup {transaction}
        /\ UNCHANGED <<command, transaction>>
    BY <1>6 DEF Send
  <2>2. Running' /\ Asking' /\ Reported'
    BY <1>2, <2>1 DEF Running, Asking, Reported
  <2>3. PICK c, tx : c = command /\ tx = transaction
    OBVIOUS
  <2>4. Endorsed(tx)'
    BY <1>1, <1>2, <1>6, <2>3, CompleteIsEndorsed DEF Unsendable
  <2>5. tx.envelope \in Envelopes
    BY <1>2, <2>3, PlannedFacts
  <2>6. InFlightEndorsed'
    BY <1>3, <2>1, <2>3, <2>4, <2>5, ConsentStays DEF RelayInv, InFlightEndorsed
  <2> QED
    BY <1>4, <2>2, <2>6 DEF RelayInv
<1> QED
  BY <1>5, <1>6

\* A run ends with success only after its transaction landed.
LEMMA RunEndsKeeps ==
    ASSUME RelayInv, Decline \/ Confirm \/ Fail
    PROVE  RelayInv'
<1>1. UNCHANGED <<nonce, approvals, collected, consents, inFlight>>
  BY DEF Decline, Confirm, Fail, chain
<1>2. \/ phase' = "idle"
      \/ phase = "succeeded" /\ phase' = "done" /\ UNCHANGED <<command, transaction>>
  BY DEF Decline, Confirm, Fail, Idle
<1>3. Running' /\ Asking' /\ Reported'
  BY <1>1, <1>2 DEF RelayInv, Running, Asking, Reported
<1>4. CollectedPlanned' /\ InFlightEndorsed'
  BY <1>1, ConsentStays DEF RelayInv, CollectedPlanned, InFlightEndorsed
<1> QED
  BY <1>1, <1>3, <1>4 DEF RelayInv, RanWithConsent

(* The nonce only ever moves on: what it commits to stays committed.                 *)
LEMMA NonceMoves ==
    ASSUME RelayInv, NEW x \in NonceStep,
           nonce' = Append(nonce, x),
           \A e \in Envelopes : e.carried = x => \A k \in Required(e) : <<k, e>> \in consents,
           UNCHANGED <<approvals, collected, consents, command, transaction>>,
           inFlight' \subseteq inFlight,
           \/ phase' = phase
           \/ phase = "sent" /\ phase' = "succeeded" /\ x = command.envelope.carried
    PROVE  RelayInv'
<1>1. nonce \in Seq(NonceStep)
  BY DEF RelayInv
<1>2. nonce' \in Seq(NonceStep)
      /\ \A y : Contains(nonce', y) <=> Contains(nonce, y) \/ y = x
  BY <1>1, AppendedStep
<1>3. RanWithConsent'
  BY <1>2 DEF RelayInv, RanWithConsent
<1>4. Reported' /\ Running'
  BY <1>2 DEF RelayInv, Reported, Running
<1>5. Asking'
  BY DEF RelayInv, Asking, GivenAgreed, Agreed
<1>6. CollectedPlanned' /\ InFlightEndorsed'
  BY ConsentStays DEF RelayInv, CollectedPlanned, InFlightEndorsed
<1> QED
  BY <1>2, <1>3, <1>4, <1>5, <1>6 DEF RelayInv

\* A transaction that lands moves the nonce by the message that it runs.
LEMMA LandKeeps ==
    ASSUME RelayInv, NEW tx, Land(tx)
    PROVE  RelayInv'
<1>1. /\ tx \in inFlight /\ inFlight' = inFlight \ {tx}
      /\ UNCHANGED <<approvals, collected, consents, command, transaction>>
  BY DEF Land
<1>2. tx.envelope \in Envelopes /\ Endorsed(tx)
  BY <1>1 DEF RelayInv, InFlightEndorsed
<1>3. CASE Executes(tx)
  <2>1. /\ nonce' = Append(nonce, tx.envelope.carried)
        /\ phase' = IF phase = "sent" /\ transaction = tx THEN "succeeded" ELSE phase
    BY <1>3 DEF Land
  <2>2. \A k \in Required(tx.envelope) : <<k, tx.envelope>> \in consents
    BY <1>2, <1>3, ExecutedIsAgreed DEF Executes
  <2>3. \A e \in Envelopes : e.carried = tx.envelope.carried =>
            \A k \in Required(e) : <<k, e>> \in consents
    BY <1>2, <2>2, EnvelopeFacts
  <2>4. phase = "sent" /\ transaction = tx => tx.envelope = command.envelope
    <3>1. phase = "sent" => transaction.envelope = command.envelope
      BY PlannedFacts DEF RelayInv, Running
    <3> QED
      BY <3>1
  <2>5. tx.envelope.carried \in NonceStep
    BY <1>2, EnvelopeFacts
  <2> QED
    BY <1>1, <2>1, <2>3, <2>4, <2>5, NonceMoves
<1>4. CASE ~Executes(tx)
  <2>1. nonce' = nonce /\ phase' = phase
    BY <1>4 DEF Land
  <2>2. \A s \in approvals' : <<s[1], s[2]>> \in consents'
    BY <1>1 DEF RelayInv
  <2> QED
    BY <1>1, <2>1, <2>2, QuietKeeps DEF run
<1> QED
  BY <1>3, <1>4

\* A nonce advanced elsewhere is none that an envelope ran for.
LEMMA AdvanceElsewhereKeeps ==
    ASSUME RelayInv, AdvanceElsewhere
    PROVE  RelayInv'
<1>1. /\ nonce' = Append(nonce, Salt) /\ phase' = phase
      /\ UNCHANGED <<approvals, collected, consents, command, transaction, inFlight>>
  BY DEF AdvanceElsewhere, run
<1>2. Salt \in NonceStep /\ \A e \in Envelopes : e.carried # Salt
  BY EnvelopeFacts DEF NonceStep
<1> QED
  BY <1>1, <1>2, NonceMoves

\* Every step keeps the invariant.
LEMMA StepKeeps ==
    ASSUME RelayInv, [Next]_vars
    PROVE  RelayInv'
<1>1. \A e : ApprovalsOf(e) \subseteq approvals
  BY DEF ApprovalsOf
<1>2. ASSUME NEW e \in Envelopes, NEW c \in OfflineAsks(e) PROVE GivenAgreed(c)
  <2>1. PICK local \in SUBSET RelayKeyHolder \ {{}} :
           c = Ask(e, ApprovalsOf(e), local, {}, Durable, durable, TRUE)
    BY <1>2 DEF OfflineAsks
  <2> QED
    BY <1>1, <2>1, AskFacts
<1>3. ASSUME NEW e \in Envelopes, NEW c \in OnlineAsks(e)
      PROVE  GivenAgreed(c) /\ c.envelope = e
  <2>1. PICK from \in SUBSET {s \in collected : s.tx.envelope = e} : c \in OnlineAsksWith(e, from)
    BY <1>3 DEF OnlineAsks
  <2>2. PICK online : online = FALSE
    OBVIOUS
  <2>3. PICK local, d, b : c = OnlineAsk(e, local, from, d, b)
    BY <2>1 DEF OnlineAsksWith
  <2>4. c = Ask(e, ApprovalsOf(e), local, from, d, b, online)
    BY <2>2, <2>3 DEF OnlineAsk
  <2>5. ApprovalsOf(e) \subseteq approvals
    BY <1>1
  <2> QED
    BY <2>1, <2>4, <2>5, AskFacts
<1>4. ASSUME NEW e \in Envelopes, PersistentAsk(e).approvals \subseteq approvals
      PROVE  GivenAgreed(PersistentAsk(e)) /\ PersistentAsk(e).envelope = e
  <2> DEFINE given == {<<k, e>> : k \in {j \in Required(e) : IsPdaAuthority(e, j)}}
  <2>1. PersistentAsk(e).approvals = given
    BY DEF PersistentAsk, Ask
  <2>2. PersistentAsk(e) = Ask(e, given, KeyHolder, {}, NoDurable, NoHash, FALSE)
    BY DEF PersistentAsk
  <2> HIDE DEF given
  <2>3. given \subseteq approvals
    BY <1>4, <2>1
  <2>4. {} \subseteq {s \in collected : s.tx.envelope = e}
    OBVIOUS
  <2>5. PICK online : online = FALSE
    OBVIOUS
  <2>6. PICK d : d = PersistentAsk(e)
    OBVIOUS
  <2>7. d = Ask(e, given, KeyHolder, {}, NoDurable, NoHash, online)
    BY <2>2, <2>5, <2>6
  <2>8. d.envelope = e /\ GivenAgreed(d)
    BY <2>3, <2>4, <2>7, AskFacts
  <2> QED
    BY <2>6, <2>8
<1>5. ASSUME NEW e \in Envelopes, StartPersistent(e) PROVE RelayInv'
  BY <1>4, <1>5, StartKeeps DEF StartPersistent
<1>6. ASSUME NEW e \in Envelopes, NEW c \in OnlineAsks(e), StartOther(c) PROVE RelayInv'
  BY <1>3, <1>6, StartKeeps DEF StartOther
<1>7. ASSUME NEW e \in Envelopes, NEW c \in OfflineAsks(e), SignOnly(c) PROVE RelayInv'
  BY <1>2, <1>7, SignOnlyKeeps
<1>8. CASE \/ \E tx \in inFlight : Drop(tx)
           \/ NextBlockhash \/ UseDurableElsewhere \/ UNCHANGED vars
  <2>1. /\ UNCHANGED <<nonce, approvals, collected, consents, run>>
        /\ inFlight' \subseteq inFlight
    BY <1>8 DEF Drop, NextBlockhash, UseDurableElsewhere, vars, chain
  <2>2. \A s \in approvals' : <<s[1], s[2]>> \in consents'
    BY <2>1 DEF RelayInv
  <2> QED
    BY <2>1, <2>2, QuietKeeps
<1> QED
  BY <1>5, <1>6, <1>7, <1>8, ApproveKeeps, SendKeeps, RunEndsKeeps, LandKeeps,
     AdvanceElsewhereKeeps DEF Next

\* The inductive invariant of runs of submit: see RelayInv.
THEOREM RelayInvariance == Spec => []RelayInv
<1>1. RelayInv /\ [Next]_vars => RelayInv'
  BY StepKeeps
<1> QED
  BY InitEstablishes, <1>1, PTL DEF Spec

(* Offline runs with the same arguments sign the same transaction.                   *)
THEOREM SameArgumentsSameTransaction == Spec => []OneRelayTransaction
<1>1. RelayInv => OneRelayTransaction
  BY DEF RelayInv, CollectedPlanned, OneRelayTransaction
<1> QED
  BY <1>1, RelayInvariance, PTL

(* Nothing is signed or run for people who were not asked.                           *)
THEOREM NothingWithoutConsent == Spec => []EveryoneConsented
<1>1. RelayInv => EveryoneConsented
  BY DEF RelayInv, CollectedPlanned, Agreed, RanWithConsent, EveryoneConsented
<1> QED
  BY <1>1, RelayInvariance, PTL

(* A run that reports success tells the truth.                                       *)
THEOREM SuccessIsTrue == Spec => []ReportIsTrue
<1>1. RelayInv => ReportIsTrue
  BY DEF RelayInv, Reported, ReportIsTrue
<1> QED
  BY <1>1, RelayInvariance, PTL
==============================================================================
