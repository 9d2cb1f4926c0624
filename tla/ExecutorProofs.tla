---------------------------- MODULE ExecutorProofs ----------------------------
(* Proofs about module Executor, for any accounts, messages, instructions and   *)
(* bounds.  IInv is inductive: its first part says what a ledger, together with *)
(* a record of what was started and skipped, owes to the messages composed, and *)
(* holds of the running transaction's state and of the state a failure restores;*)
(* its second part describes the Execute invocations in progress.               *)
EXTENDS Executor, LedgerProofs, SequenceTheorems

SuccessorIn(messages, m) == NextNonce(messages[m].lifetime, CommitmentOf(m))

(* Messages are numbered in the order they are composed: one that another        *)
(* carries, or that a lifetime commits to, is older.                            *)
GoodBook(messages) ==
    /\ messages \in Seq(Message)
    /\ Len(messages) <= MaxMessages
    /\ \A m \in 1..Len(messages) :
          /\ messages[m].inner \in 0..(m - 1)
          /\ Embeds(messages[m].body) <=> messages[m].inner # NoMessage
          /\ messages[m].lifetime.steps \in Seq(0..Len(messages))

(* A message that was started has used up its nonce.                            *)
UsedUp(messages, now, l, begun) ==
    \A m \in MessageId : begun[m] > 0 =>
        m \in 1..Len(messages) /\ Consumed(messages[m].lifetime, l, now)

(* OneExecutionPerNonce, of any record of what was started.                     *)
RunsOnce(messages, begun) ==
    \A m \in 1..Len(messages) :
        /\ begun[m] <= 1
        /\ \A k \in (1..Len(messages)) \ {m} :
              messages[k].lifetime = messages[m].lifetime => begun[k] + begun[m] <= 1

(* No account commits to a message that is not composed yet.                    *)
KnownSteps(messages, l) ==
    \A n \in Address : l[n].state # Zeroed => l[n].state.nonce.steps \in Seq(0..Len(messages))

(* An account reaches a message's successor only by that message.               *)
Justified(messages, l, begun, passed) ==
    \A n \in Address, m \in 1..Len(messages) :
        l[n].state # Zeroed /\ l[n].state.nonce = SuccessorIn(messages, m) =>
            begun[m] > 0 \/ m \in passed

(* ChainInOrder, of any record of what was started and skipped.                 *)
Ordered(messages, begun, passed) ==
    \A m, k \in 1..Len(messages) :
        messages[k].lifetime = SuccessorIn(messages, m) /\ begun[k] > 0 =>
            begun[m] > 0 \/ m \in passed

Good(messages, now, l, begun, passed) ==
    /\ l \in Ledger
    /\ HoldsOwnNonces(l, now)
    /\ begun \in [MessageId -> Nat]
    /\ UsedUp(messages, now, l, begun)
    /\ RunsOnce(messages, begun)
    /\ KnownSteps(messages, l)
    /\ Justified(messages, l, begun, passed)
    /\ Ordered(messages, begun, passed)

------------------------------------------------------------------------------
(* What a book of messages provides.                                          *)

\* A composed message has a number, a body and a lifetime that is a nonce.
LEMMA BookFacts ==
    ASSUME NEW messages, GoodBook(messages), NEW m \in 1..Len(messages)
    PROVE  /\ Len(messages) \in Nat
           /\ m \in MessageId /\ m \in Nat /\ m # OtherCommitment /\ m \in Commitment
           /\ m <= Len(messages) /\ Len(messages) <= MaxMessages
           /\ messages[m] \in Message
           /\ messages[m].body \in Body
           /\ messages[m].lifetime \in NonceValue
           /\ messages[m].lifetime.account \in Address
<1>1. MessageId = 1..MaxMessages /\ MaxMessages \in Nat /\ MessageId \subseteq Commitment
  BY ExecutorAssumption DEF ExecutorAssumption, MessageId
<1>2. Len(messages) \in Nat /\ Len(messages) <= MaxMessages /\ messages[m] \in Message
  BY DEF GoodBook
<1>3. m \in Nat /\ m # OtherCommitment /\ m <= Len(messages) /\ m \in 1..MaxMessages
  BY <1>1, <1>2 DEF OtherCommitment
<1>4. messages[m].body \in Body /\ messages[m].lifetime \in NonceValue
  BY <1>2 DEF Message
<1>5. messages[m].lifetime.account \in Address
  BY <1>4 DEF NonceValue
<1>6. QED
  BY <1>1, <1>2, <1>3, <1>4, <1>5

\* A successor names its message: it extends the message's lifetime by that message's
\* commitment, and no other nonce extended by another commitment equals it.
LEMMA SuccessorFacts ==
    ASSUME NEW messages, GoodBook(messages), NEW m \in 1..Len(messages)
    PROVE  /\ SuccessorIn(messages, m) \in NonceValue
           /\ SuccessorIn(messages, m).steps = Append(messages[m].lifetime.steps, m)
           /\ SuccessorIn(messages, m).steps # <<>>
           /\ SuccessorIn(messages, m).steps \in Seq(0..Len(messages))
           /\ \A v \in NonceValue, c \in Commitment :
                 NextNonce(v, c) = SuccessorIn(messages, m) =>
                     v = messages[m].lifetime /\ c = m
<1> DEFINE life == messages[m].lifetime
<1> HIDE DEF life
<1>1. m \in Commitment /\ life \in NonceValue /\ m \in 0..Len(messages)
  BY BookFacts DEF life
<1>2. SuccessorIn(messages, m) = NextNonce(life, m)
  BY DEF SuccessorIn, CommitmentOf, life
<1>3. /\ NextNonce(life, m) \in NonceValue
      /\ NextNonce(life, m).steps = Append(life.steps, m)
      /\ NextNonce(life, m).account = life.account
      /\ NextNonce(life, m).seed = life.seed
  BY <1>1, DerivedNonce
<1>4. life.steps \in Seq(0..Len(messages))
  BY DEF GoodBook, life
<1>5. Append(life.steps, m) # <<>> /\ Append(life.steps, m) \in Seq(0..Len(messages))
  BY <1>1, <1>4, AppendProperties
<1>6. ASSUME NEW v \in NonceValue, NEW c \in Commitment,
             NextNonce(v, c) = NextNonce(life, m)
      PROVE  v = life /\ c = m
  <2>1. /\ NextNonce(v, c).steps = Append(v.steps, c)
        /\ NextNonce(v, c).account = v.account
        /\ NextNonce(v, c).seed = v.seed
    BY DerivedNonce
  <2>2. v.steps \in Seq(Commitment) /\ life.steps \in Seq(Commitment)
    BY <1>1 DEF NonceValue
  <2>3. Append(v.steps, c) = Append(life.steps, m)
    BY <1>3, <1>6, <2>1
  <2>4. v.steps = life.steps /\ c = m
    <3>1. \A s, t \in Seq(Commitment) : Append(s, c) = Append(t, m) => s = t /\ c = m
      BY <1>1, AppendInjective
    <3>2. QED
      BY <2>2, <2>3, <3>1
  <2>5. v.account = life.account /\ v.seed = life.seed
    BY <1>3, <1>6, <2>1
  <2>6. QED
    BY <1>1, <2>4, <2>5 DEF NonceValue
<1>7. QED
  BY <1>2, <1>3, <1>5, <1>6 DEF life

------------------------------------------------------------------------------
(* How the handlers keep what is owed to the messages.                        *)

\* It gives the types the handlers' lemmas ask for.
LEMMA GoodTypes ==
    ASSUME NEW messages, GoodBook(messages), NEW now, NEW l, NEW begun, NEW passed,
           Good(messages, now, l, begun, passed)
    PROVE  /\ l \in Ledger /\ HoldsOwnNonces(l, now)
           /\ \A m \in 1..Len(messages) : begun[m] \in Nat
           /\ \A n \in Address : l[n].state # Zeroed => l[n].state.nonce \in NonceValue
BY BookFacts, StoredNonceType DEF Good

\* Every handler but Advance keeps it: no account comes to store a successor.
LEMMA LeafGood ==
    ASSUME NEW messages, GoodBook(messages), NEW now, NEW l, NEW k, NEW begun, NEW passed,
           Good(messages, now, l, begun, passed),
           Evolves(l, k, now), KeepsNonces(l, k)
    PROVE  Good(messages, now, k, begun, passed)
<1>1. k \in Ledger /\ HoldsOwnNonces(k, now)
  BY DEF Evolves
<1>2. UsedUp(messages, now, k, begun)
  BY BookFacts DEF Good, UsedUp, Evolves
<1>3. KnownSteps(messages, k)
  <2>1. <<>> \in Seq(0..Len(messages))
    OBVIOUS
  <2>2. QED
    BY <2>1 DEF Good, KnownSteps, KeepsNonces
<1>4. Justified(messages, k, begun, passed)
  <2> SUFFICES ASSUME NEW n \in Address, NEW m \in 1..Len(messages), k[n].state # Zeroed,
                      k[n].state.nonce = SuccessorIn(messages, m)
               PROVE  begun[m] > 0 \/ m \in passed
    BY DEF Justified
  <2>1. k[n].state.nonce.steps # <<>>
    BY SuccessorFacts
  <2>2. l[n].state # Zeroed /\ l[n].state.nonce = SuccessorIn(messages, m)
    BY <2>1 DEF KeepsNonces
  <2>3. QED
    BY <2>2 DEF Good, Justified
<1>5. QED
  BY <1>1, <1>2, <1>3, <1>4 DEF Good

\* An Advance keeps it when the records of what was started and skipped account for
\* the message it commits to, if that message's lifetime is the nonce it consumes.
LEMMA AdvanceGood ==
    ASSUME NEW messages, GoodBook(messages), NEW now, NEW l, NEW begun, NEW passed,
           Good(messages, now, l, begun, passed),
           NEW n \in Address, l[n].state # Zeroed,
           NEW c \in Commitment, c \in 0..Len(messages),
           NEW begun2 \in [MessageId -> Nat], NEW passed2,
           \A m \in 1..Len(messages) :
              /\ begun[m] > 0 => begun2[m] > 0
              /\ m \in passed => m \in passed2
              /\ messages[m].lifetime = l[n].state.nonce /\ m = c =>
                    begun2[m] > 0 \/ m \in passed2,
           UsedUp(messages, now, AdvanceEffect(l, n, c), begun2),
           RunsOnce(messages, begun2),
           Ordered(messages, begun2, passed2)
    PROVE  Good(messages, now, AdvanceEffect(l, n, c), begun2, passed2)
<1> DEFINE k == AdvanceEffect(l, n, c)
           old == l[n].state.nonce
<1> HIDE DEF k
<1>1. /\ l \in Ledger /\ HoldsOwnNonces(l, now)
      /\ old \in NonceValue
  BY GoodTypes
<1>2. /\ Evolves(l, k, now)
      /\ k[n].state # Zeroed /\ k[n].state.nonce = NextNonce(old, c)
      /\ \A x \in Address \ {n} : k[x] = l[x]
  BY <1>1, AdvanceEvolves, AdvanceChanges DEF k
<1>3. NextNonce(old, c).steps = Append(old.steps, c)
  BY <1>1, DerivedNonce
<1>4. k[n].state.nonce.steps \in Seq(0..Len(messages))
  <2>1. old.steps \in Seq(0..Len(messages))
    BY DEF Good, KnownSteps
  <2>2. QED
    BY <1>2, <1>3, <2>1, AppendProperties
<1>5. KnownSteps(messages, k)
  BY <1>2, <1>4 DEF Good, KnownSteps
<1>6. Justified(messages, k, begun2, passed2)
  <2> SUFFICES ASSUME NEW x \in Address, NEW m \in 1..Len(messages), k[x].state # Zeroed,
                      k[x].state.nonce = SuccessorIn(messages, m)
               PROVE  begun2[m] > 0 \/ m \in passed2
    BY DEF Justified
  <2>1. CASE x = n
    <3>1. NextNonce(old, c) = SuccessorIn(messages, m)
      BY <1>2, <2>1
    <3>2. old = messages[m].lifetime /\ c = m
      BY <1>1, <3>1, SuccessorFacts
    <3>3. QED
      BY <3>2
  <2>2. CASE x # n
    <3>1. l[x].state # Zeroed /\ l[x].state.nonce = SuccessorIn(messages, m)
      BY <1>2, <2>2
    <3>2. begun[m] > 0 \/ m \in passed
      BY <3>1 DEF Good, Justified
    <3>3. QED
      BY <3>2
  <2>3. QED
    BY <2>1, <2>2
<1>7. QED
  BY <1>2, <1>5, <1>6 DEF Good, Evolves, k

\* A direct Advance: the messages it stands in for are recorded as skipped.
LEMMA DirectAdvanceGood ==
    ASSUME NEW messages, GoodBook(messages), NEW now, NEW l, NEW begun, NEW passed,
           Good(messages, now, l, begun, passed),
           NEW n \in Address, l[n].state # Zeroed,
           NEW c \in Commitment, c \in 0..Len(messages)
    PROVE  LET passed2 == passed \cup {m \in 1..Len(messages) :
                                          /\ messages[m].lifetime = l[n].state.nonce
                                          /\ m = c}
           IN  Good(messages, now, AdvanceEffect(l, n, c), begun, passed2)
<1> DEFINE k == AdvanceEffect(l, n, c)
           passed2 == passed \cup {m \in 1..Len(messages) :
                                     messages[m].lifetime = l[n].state.nonce /\ m = c}
<1>1. l \in Ledger /\ HoldsOwnNonces(l, now)
  BY GoodTypes
<1>2. Evolves(l, k, now)
  BY <1>1, AdvanceEvolves
<1>3. UsedUp(messages, now, k, begun)
  BY <1>2, BookFacts DEF Good, UsedUp, Evolves
<1>4. begun \in [MessageId -> Nat] /\ RunsOnce(messages, begun)
  BY DEF Good
<1>5. Ordered(messages, begun, passed2)
  BY DEF Good, Ordered
<1>6. \A m \in 1..Len(messages) :
         /\ m \in passed => m \in passed2
         /\ messages[m].lifetime = l[n].state.nonce /\ m = c => m \in passed2
  OBVIOUS
<1> HIDE DEF k, passed2
<1>7. Good(messages, now, k, begun, passed2)
  BY <1>3, <1>4, <1>5, <1>6, AdvanceGood DEF k
<1>8. QED
  BY <1>7 DEF k, passed2

\* Execute starts a message that was not started, nor was any other message for the
\* same nonce: had one been, the nonce would be consumed and not stored.
LEMMA ExecuteGood ==
    ASSUME NEW messages, GoodBook(messages), NEW now, NEW l, NEW begun, NEW passed,
           Good(messages, now, l, begun, passed),
           NEW n \in Address, l[n].state # Zeroed,
           NEW m \in 1..Len(messages), messages[m].lifetime = l[n].state.nonce
    PROVE  /\ begun[m] = 0
           /\ Good(messages, now, AdvanceEffect(l, n, m), [begun EXCEPT ![m] = @ + 1], passed)
<1> DEFINE k == AdvanceEffect(l, n, m)
           begun2 == [begun EXCEPT ![m] = @ + 1]
<1> HIDE DEF k, begun2
<1>1. /\ l \in Ledger /\ HoldsOwnNonces(l, now)
      /\ begun \in [MessageId -> Nat] /\ m \in MessageId /\ m \in Commitment
      /\ m \in 0..Len(messages)
  BY GoodTypes, BookFacts DEF Good
<1>2. ~Consumed(messages[m].lifetime, l, now)
  BY <1>1, StoredIsNotConsumed
<1>3. \A j \in 1..Len(messages) : messages[j].lifetime = messages[m].lifetime => begun[j] = 0
  BY <1>2, GoodTypes, BookFacts DEF Good, UsedUp
<1>4. /\ begun2 \in [MessageId -> Nat] /\ begun2[m] = begun[m] + 1
      /\ \A j \in MessageId \ {m} : begun2[j] = begun[j]
  BY <1>1 DEF begun2
<1>5. begun[m] = 0 /\ begun2[m] = 1
  BY <1>3, <1>4
<1>6. Evolves(l, k, now) /\ Consumed(messages[m].lifetime, k, now)
  BY <1>1, AdvanceEvolves DEF k
<1>7. UsedUp(messages, now, k, begun2)
  BY <1>4, <1>6, BookFacts DEF Good, UsedUp, Evolves
<1>8. RunsOnce(messages, begun2)
  <2> SUFFICES ASSUME NEW i \in 1..Len(messages)
               PROVE  /\ begun2[i] <= 1
                      /\ \A j \in (1..Len(messages)) \ {i} :
                            messages[j].lifetime = messages[i].lifetime =>
                                begun2[j] + begun2[i] <= 1
    BY DEF RunsOnce
  <2>1. begun[i] <= 1 /\ begun[i] \in Nat /\ i \in MessageId
    BY GoodTypes, BookFacts DEF Good, RunsOnce
  <2>2. begun2[i] <= 1
    BY <1>4, <1>5, <2>1
  <2>3. ASSUME NEW j \in (1..Len(messages)) \ {i},
               messages[j].lifetime = messages[i].lifetime
        PROVE  begun2[j] + begun2[i] <= 1
    <3>1. begun[j] + begun[i] <= 1 /\ begun[j] \in Nat /\ j \in MessageId
      BY <2>3, GoodTypes, BookFacts DEF Good, RunsOnce
    <3>2. CASE i = m
      BY <1>3, <1>4, <1>5, <2>3, <3>1, <3>2
    <3>3. CASE j = m
      BY <1>3, <1>4, <1>5, <2>1, <2>3, <3>1, <3>3
    <3>4. CASE i # m /\ j # m
      BY <1>4, <2>1, <3>1, <3>4
    <3>5. QED
      BY <3>2, <3>3, <3>4
  <2>4. QED
    BY <2>2, <2>3
<1>9. Ordered(messages, begun2, passed)
  <2> SUFFICES ASSUME NEW i \in 1..Len(messages), NEW j \in 1..Len(messages),
                      messages[j].lifetime = SuccessorIn(messages, i), begun2[j] > 0
               PROVE  begun2[i] > 0 \/ i \in passed
    BY DEF Ordered
  <2>1. begun[i] > 0 \/ i \in passed
    <3>1. CASE j = m
      BY <3>1 DEF Good, Justified
    <3>2. CASE j # m
      BY <1>4, <3>2, BookFacts DEF Good, Ordered
    <3>3. QED
      BY <3>1, <3>2
  <2>2. QED
    BY <1>4, <1>5, <2>1, BookFacts
<1>10. \A j \in 1..Len(messages) : begun[j] > 0 => begun2[j] > 0
  BY <1>4, <1>5, BookFacts
<1>11. Good(messages, now, k, begun2, passed)
  BY <1>1, <1>4, <1>5, <1>7, <1>8, <1>9, <1>10, AdvanceGood DEF k
<1>12. QED
  BY <1>5, <1>11 DEF k, begun2

\* A nonce that commits to known messages only is not the successor of a new one.
LEMMA NewSuccessor ==
    ASSUME NEW len \in Nat, NEW p, p \notin 0..len, NEW steps, NEW v \in Seq(steps), p \in steps,
           0..len \subseteq steps
    PROVE  Append(v, p) \notin Seq(0..len)
<1> SUFFICES ASSUME Append(v, p) \in Seq(0..len) PROVE FALSE
  OBVIOUS
<1>1. Len(Append(v, p)) = Len(v) + 1 /\ Append(v, p)[Len(v) + 1] = p /\ Len(v) \in Nat
  BY AppendProperties, LenProperties
<1>2. Append(v, p)[Len(v) + 1] \in 0..len
  BY <1>1, ElementOfSeq
<1>3. QED
  BY <1>1, <1>2

\* Composing a message owes nothing: no account and no older message commits to it.
LEMMA ComposeGood ==
    ASSUME NEW messages, GoodBook(messages), NEW message \in Message,
           Len(messages) < MaxMessages,
           message.inner \in 0..Len(messages),
           Embeds(message.body) <=> message.inner # NoMessage,
           message.lifetime.steps \in Seq(0..Len(messages))
    PROVE  /\ GoodBook(Append(messages, message))
           /\ \A now, l, begun, passed :
                 Good(messages, now, l, begun, passed) =>
                     Good(Append(messages, message), now, l, begun, passed)
<1> DEFINE len == Len(messages)
           new == Append(messages, message)
           p == len + 1
<1>1. /\ messages \in Seq(Message) /\ len \in Nat /\ MaxMessages \in Nat
      /\ MessageId = 1..MaxMessages
      /\ Commitment = {0} \cup MessageId
  BY ExecutorAssumption DEF ExecutorAssumption, GoodBook, OtherCommitment, MessageId
<1>2. /\ new \in Seq(Message) /\ Len(new) = p /\ new[p] = message
      /\ \A m \in 1..len : new[m] = messages[m]
  BY <1>1, AppendProperties
<1> HIDE DEF new
<1>3. 0..len \subseteq 0..p /\ Seq(0..len) \subseteq Seq(0..p)
      /\ 1..p = (1..len) \cup {p} /\ p \notin 0..len /\ p \in MessageId /\ 0..len \subseteq Commitment
  BY <1>1, SeqMonotonic
<1>4. GoodBook(new)
  <2>1. ASSUME NEW m \in 1..p
        PROVE  /\ new[m].inner \in 0..(m - 1)
               /\ Embeds(new[m].body) <=> new[m].inner # NoMessage
               /\ new[m].lifetime.steps \in Seq(0..p)
    <3>1. CASE m = p
      BY <1>1, <1>2, <1>3, <3>1
    <3>2. CASE m \in 1..len
      BY <1>2, <1>3, <3>2 DEF GoodBook
    <3>3. QED
      BY <1>3, <3>1, <3>2
  <2>2. QED
    BY <1>1, <1>2, <2>1 DEF GoodBook
<1>5. /\ \A m \in 1..len : SuccessorIn(new, m) = SuccessorIn(messages, m)
      /\ \A m \in 1..len : messages[m].lifetime # SuccessorIn(new, p)
      /\ SuccessorIn(new, p).steps \notin Seq(0..len)
  <2>1. \A m \in 1..len : messages[m].lifetime.steps \in Seq(0..len)
    BY DEF GoodBook
  <2>2. SuccessorIn(new, p).steps = Append(message.lifetime.steps, p)
    <3>1. p \in 1..Len(new)
      BY <1>1, <1>2
    <3>2. SuccessorIn(new, p).steps = Append(new[p].lifetime.steps, p)
      BY <1>4, <3>1, SuccessorFacts
    <3>3. QED
      BY <1>2, <3>2
  <2>3. Append(message.lifetime.steps, p) \notin Seq(0..len)
    <3>1. message.lifetime.steps \in Seq(Commitment) /\ p \in Commitment
      BY <1>1, <1>3, SeqMonotonic
    <3>2. QED
      BY <1>1, <1>3, <3>1, NewSuccessor
  <2>4. QED
    BY <1>2, <2>1, <2>2, <2>3 DEF SuccessorIn
<1>6. ASSUME NEW now, NEW l, NEW begun, NEW passed, Good(messages, now, l, begun, passed)
      PROVE  Good(new, now, l, begun, passed)
  <2>1. l \in Ledger /\ HoldsOwnNonces(l, now) /\ begun \in [MessageId -> Nat]
    BY <1>6 DEF Good
  <2>2. begun[p] = 0
    BY <1>3, <1>6, <2>1 DEF Good, UsedUp
  <2>3. UsedUp(new, now, l, begun)
    BY <1>2, <1>3, <1>6 DEF Good, UsedUp
  <2>4. RunsOnce(new, begun)
    <3>1. \A m \in 1..len : begun[m] \in Nat /\ begun[m] <= 1
      BY <1>1, <1>6, <2>1 DEF Good, RunsOnce
    <3>2. ASSUME NEW m \in 1..p
          PROVE  /\ begun[m] <= 1
                 /\ \A k \in (1..p) \ {m} :
                       new[k].lifetime = new[m].lifetime => begun[k] + begun[m] <= 1
      <4>1. CASE m = p
        BY <1>3, <2>2, <3>1, <4>1
      <4>2. CASE m \in 1..len
        <5>1. \A k \in (1..len) \ {m} :
                 new[k].lifetime = new[m].lifetime => begun[k] + begun[m] <= 1
          BY <1>2, <1>6, <4>2 DEF Good, RunsOnce
        <5>2. QED
          BY <1>3, <2>2, <3>1, <4>2, <5>1
      <4>3. QED
        BY <1>3, <4>1, <4>2
    <3>3. QED
      BY <1>2, <3>2 DEF RunsOnce
  <2>5. KnownSteps(new, l)
    BY <1>2, <1>3, <1>6 DEF Good, KnownSteps
  <2>6. Justified(new, l, begun, passed)
    <3> SUFFICES ASSUME NEW n \in Address, NEW m \in 1..p, l[n].state # Zeroed,
                        l[n].state.nonce = SuccessorIn(new, m)
                 PROVE  begun[m] > 0 \/ m \in passed
      BY <1>2 DEF Justified
    <3>1. CASE m \in 1..len
      BY <1>5, <1>6, <3>1 DEF Good, Justified
    <3>2. CASE m = p
      <4>1. SuccessorIn(new, p).steps \in Seq(0..len)
        BY <1>6, <3>2 DEF Good, KnownSteps
      <4>2. QED
        BY <1>5, <4>1
    <3>3. QED
      BY <1>3, <3>1, <3>2
  <2>7. Ordered(new, begun, passed)
    BY <1>2, <1>3, <1>5, <1>6, <2>2 DEF Good, Ordered
  <2>8. QED
    BY <2>1, <2>3, <2>4, <2>5, <2>6, <2>7 DEF Good
<1>7. QED
  BY <1>4, <1>6 DEF new

\* The passing of slots takes nothing back.
LEMMA SlotGood ==
    ASSUME NEW messages, GoodBook(messages), NEW now \in Nat, NEW next \in Nat, now <= next,
           NEW l, NEW begun, NEW passed, Good(messages, now, l, begun, passed)
    PROVE  Good(messages, next, l, begun, passed)
<1>1. l \in Ledger
  BY DEF Good
<1>2. HoldsOwnNonces(l, next)
  BY <1>1, SlotEvolves DEF Good
<1>3. UsedUp(messages, next, l, begun)
  BY <1>1, SlotEvolves, BookFacts DEF Good, UsedUp
<1>4. QED
  BY <1>2, <1>3 DEF Good

------------------------------------------------------------------------------
(* Calls.                                                                     *)

WellFormed(call) ==
    /\ call.accounts \in Seq(Address)
    /\ call.writable \subseteq Address
    /\ call.lamports \in Nat
    /\ call.commitment \in Commitment

(* What a call of the Nonce or the System program makes of the ledger.          *)
Kept(call, k) ==
    /\ Evolves(ledger, k, slot)
    /\ call.op # "advance" => KeepsNonces(ledger, k)
    /\ call.op = "advance" =>
          \E n \in Address : /\ ledger[n].state # Zeroed
                             /\ call.nonce = ledger[n].state.nonce
                             /\ k = AdvanceEffect(ledger, n, call.commitment)

\* Each call has the effect of its handler.
LEMMA LeafEffectIs ==
    ASSUME NEW call
    PROVE  /\ call.op = "transfer" => LeafEffect(call) =
                 TransferEffect(ledger, call.accounts[1], call.accounts[2], call.lamports)
           /\ call.op = "assign" => LeafEffect(call) =
                 AssignEffect(ledger, call.accounts[1], "exact")
           /\ call.op = "initialize" => LeafEffect(call) =
                 InitializeEffect(ledger, call.accounts[1], call.accounts[2], slot)
           /\ call.op = "advance" => LeafEffect(call) =
                 AdvanceEffect(ledger, call.accounts[2], call.commitment)
           /\ call.op = "withdraw" => LeafEffect(call) =
                 WithdrawEffect(ledger, call.accounts[2], call.accounts[3], call.lamports)
BY DEF LeafEffect

\* A call of the Nonce or the System program brings no consumed nonce back, writes
\* only writable accounts, and takes something from an account only with the
\* signature of its controller.
LEMMA LeafFacts ==
    ASSUME ledger \in Ledger, slot \in Nat, HoldsOwnNonces(ledger, slot),
           NEW call, WellFormed(call), LeafOk(call)
    PROVE  /\ Kept(call, LeafEffect(call))
           /\ StaysWithin(ledger, LeafEffect(call), call.writable, call.signers)
<1> DEFINE acc == call.accounts
           lamports == call.lamports
           signed == call.signers
<1>1. /\ lamports \in Nat /\ call.commitment \in Commitment
      /\ call.writable \subseteq Address
      /\ \A i \in 1..Len(acc) : acc[i] \in Address
      /\ Len(acc) \in Nat
  BY ElementOfSeq, LenProperties DEF WellFormed
<1>2. CASE /\ call.op = "transfer" /\ Len(acc) >= 2
           /\ {acc[1], acc[2]} \subseteq call.writable
           /\ TransferOk(ledger, signed, acc[1], acc[2], lamports)
  <2> DEFINE k == TransferEffect(ledger, acc[1], acc[2], lamports)
  <2> HIDE DEF k
  <2>1. acc[1] \in Address /\ acc[2] \in Address
    BY <1>1, <1>2
  <2>2. Evolves(ledger, k, slot) /\ KeepsNonces(ledger, k)
    BY <1>1, <1>2, <2>1, TransferEvolves DEF k
  <2>3. StaysWithin(ledger, k, {acc[1], acc[2]}, signed)
    BY <1>1, <1>2, <2>1, TransferStaysWithin DEF k
  <2>4. StaysWithin(ledger, k, call.writable, signed)
    BY <1>2, <2>3 DEF StaysWithin
  <2>5. LeafEffect(call) = k
    BY <1>2, LeafEffectIs DEF k
  <2>6. QED
    BY <1>2, <2>2, <2>4, <2>5 DEF Kept
<1>3. CASE /\ call.op = "assign" /\ Len(acc) >= 1
           /\ acc[1] \in call.writable
           /\ AssignOk(ledger, signed, acc[1])
  <2> DEFINE k == AssignEffect(ledger, acc[1], "exact")
  <2> HIDE DEF k
  <2>1. acc[1] \in Address
    BY <1>1, <1>3
  <2>2. Evolves(ledger, k, slot) /\ KeepsNonces(ledger, k)
    BY <1>3, <2>1, AssignEvolves DEF k
  <2>3. StaysWithin(ledger, k, {acc[1]}, signed)
    BY <1>3, <2>1, AssignStaysWithin DEF k
  <2>4. StaysWithin(ledger, k, call.writable, signed)
    BY <1>3, <2>3 DEF StaysWithin
  <2>5. LeafEffect(call) = k
    BY <1>3, LeafEffectIs DEF k
  <2>6. QED
    BY <1>3, <2>2, <2>4, <2>5 DEF Kept
<1>4. CASE /\ call.op = "initialize" /\ Len(acc) >= 2
           /\ acc[1] \in call.writable
           /\ InitializeOk(ledger, acc[1])
  <2> DEFINE k == InitializeEffect(ledger, acc[1], acc[2], slot)
  <2> HIDE DEF k
  <2>1. acc[1] \in Address /\ acc[2] \in Address
    BY <1>1, <1>4
  <2>2. Evolves(ledger, k, slot) /\ KeepsNonces(ledger, k)
    BY <1>4, <2>1, InitializeEvolves DEF k
  <2>3. StaysWithin(ledger, k, {acc[1]}, signed)
    BY <1>4, <2>1, InitializeStaysWithin DEF k
  <2>4. StaysWithin(ledger, k, call.writable, signed)
    BY <1>4, <2>3 DEF StaysWithin
  <2>5. LeafEffect(call) = k
    BY <1>4, LeafEffectIs DEF k
  <2>6. QED
    BY <1>4, <2>2, <2>4, <2>5 DEF Kept
<1>5. CASE /\ call.op = "advance" /\ Len(acc) >= 2
           /\ acc[2] \in call.writable
           /\ AdvanceOk(ledger, signed, acc[1], acc[2], call.nonce)
  <2> DEFINE k == AdvanceEffect(ledger, acc[2], call.commitment)
  <2> HIDE DEF k
  <2>1. acc[2] \in Address
    BY <1>1, <1>5
  <2>2. ledger[acc[2]].state # Zeroed /\ call.nonce = ledger[acc[2]].state.nonce
    BY <1>5 DEF AdvanceOk, Initialized
  <2>3. Evolves(ledger, k, slot)
    BY <1>1, <2>1, <2>2, AdvanceEvolves DEF k
  <2>4. StaysWithin(ledger, k, {acc[2]}, signed)
    BY <1>1, <1>5, <2>1, AdvanceStaysWithin DEF k
  <2>5. StaysWithin(ledger, k, call.writable, signed)
    BY <1>5, <2>4 DEF StaysWithin
  <2>6. LeafEffect(call) = k
    BY <1>5, LeafEffectIs DEF k
  <2>7. Kept(call, k)
    BY <1>5, <2>1, <2>2, <2>3 DEF Kept, k
  <2>8. QED
    BY <2>5, <2>6, <2>7
<1>6. CASE /\ call.op = "withdraw" /\ Len(acc) >= 3
           /\ {acc[2], acc[3]} \subseteq call.writable
           /\ WithdrawOk(ledger, signed, slot, acc[1], acc[2], acc[3], lamports)
  <2> DEFINE k == WithdrawEffect(ledger, acc[2], acc[3], lamports)
  <2> HIDE DEF k
  <2>1. acc[2] \in Address /\ acc[3] \in Address
    BY <1>1, <1>6
  <2>2. Evolves(ledger, k, slot) /\ KeepsNonces(ledger, k)
    BY <1>1, <1>6, <2>1, WithdrawEvolves DEF k
  <2>3. StaysWithin(ledger, k, {acc[2], acc[3]}, signed)
    BY <1>1, <1>6, <2>1, WithdrawStaysWithin DEF k
  <2>4. StaysWithin(ledger, k, call.writable, signed)
    BY <1>6, <2>3 DEF StaysWithin
  <2>5. LeafEffect(call) = k
    BY <1>6, LeafEffectIs DEF k
  <2>6. QED
    BY <1>6, <2>2, <2>4, <2>5 DEF Kept
<1>7. QED
  BY <1>2, <1>3, <1>4, <1>5, <1>6 DEF LeafOk

------------------------------------------------------------------------------
(* The inductive invariant.                                                   *)

FrameType == [message: Ids, next: Nat, accounts: Seq(Address), signers: SUBSET Address,
              writable: SUBSET Address]

(* AllOrNothing, of one message and any record of what was started and finished. *)
Whole(begun, ended, m) ==
    ended[m] = IF begun[m] = 0 THEN 0 ELSE Len(book[m].body.instructions)

OnStack(m) == \E k \in 1..Len(stack) : stack[k].message = m

(* An invocation runs its message's own accounts, with no signer the outermost    *)
(* one lacks.  Of its instructions all before next are finished, but for the one *)
(* that the next invocation on the stack carries out.                            *)
Frames ==
    /\ stack \in Seq(FrameType)
    /\ \A k \in 1..Len(stack) :
          /\ stack[k].accounts = book[stack[k].message].body.keys
          /\ stack[k].next \in 1..(Len(Instructions(stack[k])) + 1)
          /\ stack[k].signers \subseteq stack[1].signers
          /\ started[stack[k].message] = 1
          /\ finished[stack[k].message] =
                stack[k].next - (IF k < Len(stack) THEN 2 ELSE 1)
    /\ \A j, k \in 1..Len(stack) : j # k => stack[j].message # stack[k].message

SavedType == [ledger: Ledger, started: [MessageId -> Nat], finished: [MessageId -> Nat],
              skipped: SUBSET MessageId]

(* What holds whoever may submit which Execute.                                 *)
Core ==
    /\ slot \in Nat
    /\ phase \in {Idle, "running"}
    /\ signers \subseteq KeyHolder
    /\ GoodBook(book)
    /\ Good(book, slot, ledger, started, skipped)
    /\ Good(book, slot, saved.ledger, saved.started, saved.skipped)
    /\ finished \in [MessageId -> Nat] /\ skipped \subseteq MessageId
    /\ saved \in SavedType
    /\ phase = Idle => stack = <<>> /\ signers = {} /\ saved = txState
    /\ Frames
    /\ \A m \in MessageId : OnStack(m) \/ Whole(started, finished, m)
    /\ \A m \in MessageId : Whole(saved.started, saved.finished, m)

(* The outermost Execute has the signers of the transaction.                    *)
SignersHeld == stack # <<>> => stack[1].signers \subseteq signers

IInv == Core /\ SignersHeld

------------------------------------------------------------------------------
(* The stack, and the calls of its innermost invocation.                      *)

\* A sequence without its last element.
LEMMA FrontFacts ==
    ASSUME NEW S, NEW s \in Seq(S), s # <<>>
    PROVE  LET n == Len(s)
           IN  /\ n \in Nat \ {0} /\ Last(s) = s[n] /\ Last(s) \in S
               /\ Front(s) \in Seq(S) /\ Len(Front(s)) = n - 1
               /\ \A k \in 1..(n - 1) : Front(s)[k] = s[k]
<1> DEFINE n == Len(s)
<1>1. n \in Nat \ {0} /\ \A k \in 1..n : s[k] \in S
  BY EmptySeq, LenProperties, ElementOfSeq
<1>2. Front(s) = SubSeq(s, 1, n - 1) /\ 1 \in Int /\ n - 1 \in Int
  BY <1>1 DEF Front
<1>3. \A k \in 1..(n - 1) : s[k] \in S
  BY <1>1
<1>4. /\ SubSeq(s, 1, n - 1) \in Seq(S)
      /\ Len(SubSeq(s, 1, n - 1)) = IF 1 <= n - 1 THEN n - 1 - 1 + 1 ELSE 0
      /\ \A k \in 1..(n - 1 - 1 + 1) : SubSeq(s, 1, n - 1)[k] = s[1 + k - 1]
  BY <1>2, <1>3, SubSeqProperties
<1>5. ASSUME NEW k \in 1..(n - 1) PROVE SubSeq(s, 1, n - 1)[k] = s[k]
  <2>1. k \in 1..(n - 1 - 1 + 1) /\ 1 + k - 1 = k
    BY <1>1
  <2>2. QED
    BY <1>4, <2>1
<1>6. (IF 1 <= n - 1 THEN n - 1 - 1 + 1 ELSE 0) = n - 1
  <2>1. n \in Nat /\ n # 0
    BY <1>1
  <2> HIDE DEF n
  <2>2. CASE n = 1
    BY <2>2
  <2>3. CASE n # 1
    <3>1. 1 <= n - 1 /\ n - 1 - 1 + 1 = n - 1
      BY <2>1, <2>3
    <3>2. QED
      BY <3>1
  <2>4. QED
    BY <2>2, <2>3
<1>7. Last(s) = s[n] /\ Last(s) \in S
  <2>1. n \in 1..n
    BY <1>1
  <2>2. QED
    BY <1>1, <2>1 DEF Last
<1>8. QED
  BY <1>1, <1>2, <1>4, <1>5, <1>6, <1>7

\* A sequence whose last element is replaced.
LEMMA LastReplaced ==
    ASSUME NEW S, NEW s \in Seq(S), s # <<>>, NEW f \in S
    PROVE  /\ Front(s) \o <<f>> \in Seq(S)
           /\ Len(Front(s) \o <<f>>) = Len(s)
           /\ \A k \in 1..Len(s) : (Front(s) \o <<f>>)[k] = IF k = Len(s) THEN f ELSE s[k]
<1> DEFINE n == Len(s)
           front == Front(s)
           one == <<f>>
<1>1. one \in Seq(S) /\ Len(one) = 1 /\ one[1] = f
  OBVIOUS
<1> HIDE DEF front, one
<1>2. /\ n \in Nat \ {0}
      /\ front \in Seq(S) /\ Len(front) = n - 1
      /\ \A k \in 1..(n - 1) : front[k] = s[k]
  BY FrontFacts DEF front
<1>3. /\ front \o one \in Seq(S) /\ Len(front \o one) = Len(front) + Len(one)
      /\ \A k \in 1..(Len(front) + Len(one)) : (front \o one)[k] =
            IF k <= Len(front) THEN front[k] ELSE one[k - Len(front)]
  BY <1>1, <1>2, ConcatProperties
<1>4. ASSUME NEW k \in 1..n PROVE (front \o one)[k] = IF k = n THEN f ELSE s[k]
  <2>1. k \in 1..(Len(front) + Len(one))
    BY <1>1, <1>2
  <2>2. CASE k = n
    <3>1. ~(k <= Len(front)) /\ k - Len(front) = 1
      BY <1>2, <2>2
    <3>2. QED
      BY <1>1, <1>3, <2>1, <2>2, <3>1
  <2>3. CASE k # n
    <3>1. k <= Len(front) /\ k \in 1..(n - 1)
      BY <1>2, <2>3
    <3>2. QED
      BY <1>2, <1>3, <2>1, <2>3, <3>1
  <2>4. QED
    BY <2>2, <2>3
<1>5. n - 1 + 1 = n
  BY <1>2
<1>6. QED
  BY <1>1, <1>2, <1>3, <1>4, <1>5 DEF front, one

\* A sequence whose last element makes room for two.
LEMMA LastPushed ==
    ASSUME NEW S, NEW s \in Seq(S), s # <<>>, NEW f \in S, NEW g \in S
    PROVE  /\ Front(s) \o <<f, g>> \in Seq(S)
           /\ Len(Front(s) \o <<f, g>>) = Len(s) + 1
           /\ \A k \in 1..(Len(s) + 1) : (Front(s) \o <<f, g>>)[k] =
                 IF k = Len(s) + 1 THEN g ELSE IF k = Len(s) THEN f ELSE s[k]
<1> DEFINE n == Len(s)
           front == Front(s)
           two == <<f, g>>
<1>1. two \in Seq(S) /\ Len(two) = 2 /\ two[1] = f /\ two[2] = g
  OBVIOUS
<1> HIDE DEF front, two
<1>2. /\ n \in Nat \ {0}
      /\ front \in Seq(S) /\ Len(front) = n - 1
      /\ \A k \in 1..(n - 1) : front[k] = s[k]
  BY FrontFacts DEF front
<1>3. /\ front \o two \in Seq(S) /\ Len(front \o two) = Len(front) + Len(two)
      /\ \A k \in 1..(Len(front) + Len(two)) : (front \o two)[k] =
            IF k <= Len(front) THEN front[k] ELSE two[k - Len(front)]
  BY <1>1, <1>2, ConcatProperties
<1>4. ASSUME NEW k \in 1..(n + 1)
      PROVE  (front \o two)[k] = IF k = n + 1 THEN g ELSE IF k = n THEN f ELSE s[k]
  <2>1. k \in 1..(Len(front) + Len(two))
    BY <1>1, <1>2
  <2>2. CASE k >= n
    <3>1. /\ ~(k <= Len(front))
          /\ \/ k = n /\ k - Len(front) = 1
             \/ k = n + 1 /\ k - Len(front) = 2
      BY <1>2, <2>2
    <3>2. (front \o two)[k] = two[k - Len(front)]
      BY <1>3, <2>1, <3>1
    <3>3. CASE k = n
      BY <1>1, <1>2, <3>1, <3>2, <3>3
    <3>4. CASE k = n + 1
      BY <1>1, <1>2, <3>1, <3>2, <3>4
    <3>5. QED
      BY <3>1, <3>3, <3>4
  <2>3. CASE ~(k >= n)
    <3>1. k <= Len(front) /\ k \in 1..(n - 1) /\ k # n /\ k # n + 1
      BY <1>2, <2>3
    <3>2. QED
      BY <1>2, <1>3, <2>1, <3>1
  <2>4. QED
    BY <2>2, <2>3
<1>5. n - 1 + 2 = n + 1
  BY <1>2
<1>6. QED
  BY <1>1, <1>2, <1>3, <1>4, <1>5 DEF front, two

\* The innermost invocation runs a composed message with that message's accounts.
LEMMA TopFacts ==
    ASSUME Core, stack # <<>>
    PROVE  /\ Len(stack) \in Nat \ {0}
           /\ Top = stack[Len(stack)] /\ Top \in FrameType
           /\ Top.message \in 1..Len(book) /\ Top.message \in MessageId
           /\ Top.next \in Nat /\ Top.next >= 1
           /\ Len(Instructions(Top)) \in Nat
           /\ Top.next <= Len(Instructions(Top)) + 1
           /\ Top.accounts = book[Top.message].body.keys
           /\ Top.signers \subseteq stack[1].signers
           /\ book[Top.message].body \in Body
           /\ started[Top.message] = 1
           /\ finished[Top.message] = Top.next - 1
<1>1. /\ GoodBook(book) /\ stack \in Seq(FrameType)
      /\ \A k \in 1..Len(stack) :
          /\ stack[k].accounts = book[stack[k].message].body.keys
          /\ stack[k].next \in 1..(Len(Instructions(stack[k])) + 1)
          /\ stack[k].signers \subseteq stack[1].signers
          /\ started[stack[k].message] = 1
          /\ finished[stack[k].message] =
                stack[k].next - (IF k < Len(stack) THEN 2 ELSE 1)
  BY DEF Core, Frames
<1>2. /\ Len(stack) \in Nat \ {0}
      /\ Top = stack[Len(stack)]
      /\ Top \in FrameType
  BY <1>1, FrontFacts DEF Top
<1>3. Top.message \in 1..Len(book) /\ Top.next \in Nat
  BY <1>2 DEF FrameType, Ids
<1>4. Top.message \in MessageId /\ book[Top.message].body \in Body
  BY <1>1, <1>3, BookFacts
<1>5. Len(Instructions(Top)) \in Nat
  BY <1>4, InstructionAssumption, LenProperties DEF InstructionAssumption, Instructions
<1>6. Len(stack) \in 1..Len(stack) /\ ~(Len(stack) < Len(stack))
  BY <1>2
<1>7. QED
  BY <1>1, <1>2, <1>3, <1>4, <1>5, <1>6

\* The instruction the innermost invocation runs next names accounts of its message's
\* header, with the header's privileges; only a message that carries another one
\* invokes Execute.
LEMMA CallFacts ==
    ASSUME Core, HasNext
    PROVE  LET call == ResolvedCall(Top)
               body == book[Top.message].body
           IN  /\ WellFormed(call)
               /\ call.commitment = OtherCommitment
               /\ call.signers \subseteq SignerKeys(body) /\ call.signers \subseteq Address
               /\ call.writable \subseteq WritableKeys(body)
               /\ call.op = "execute" => call.message \in Ids
<1> DEFINE call == ResolvedCall(Top)
           m == Top.message
           body == book[m].body
           ix == CurrentIx(Top)
<1>1. /\ stack # <<>> /\ Top.next <= Len(Instructions(Top))
      /\ Instructions(Top) = body.instructions /\ ix = body.instructions[Top.next]
  BY DEF HasNext, Instructions, CurrentIx
<1>2. /\ m \in 1..Len(book) /\ m \in MessageId /\ body \in Body
      /\ Top.next \in 1..Len(body.instructions)
      /\ Top.accounts = body.keys
  BY <1>1, TopFacts
<1>3. body.keys \in Seq(Address) /\ body.instructions \in Seq(InstructionOn(body.keys))
  BY <1>2, InstructionAssumption DEF InstructionAssumption
<1>4. ix \in InstructionOn(body.keys)
  BY <1>1, <1>2, <1>3, ElementOfSeq
<1>5. ix.accounts \in Seq(1..Len(body.keys)) /\ ix.lamports \in Nat
  BY <1>4 DEF InstructionOn
<1>6. /\ Len(ix.accounts) \in Nat /\ DOMAIN ix.accounts = 1..Len(ix.accounts)
      /\ \A k \in 1..Len(ix.accounts) : ix.accounts[k] \in 1..Len(body.keys)
      /\ \A i \in 1..Len(body.keys) : body.keys[i] \in Address
  BY <1>3, <1>5, LenProperties, ElementOfSeq
<1>7. /\ call.op = ix.op /\ call.lamports = ix.lamports
      /\ call.accounts = [k \in 1..Len(ix.accounts) |-> body.keys[ix.accounts[k]]]
      /\ call.signers = HeaderSigners(Top, Range(ix.accounts))
      /\ call.writable = HeaderWritable(Top, Range(ix.accounts))
      /\ call.message = book[m].inner
      /\ call.commitment = OtherCommitment
  BY <1>2 DEF ResolvedCall
<1> HIDE DEF call, ix
<1>8. call.accounts \in Seq(Address)
  <2>1. \A k \in 1..Len(ix.accounts) : body.keys[ix.accounts[k]] \in Address
    BY <1>6
  <2>2. [k \in 1..Len(ix.accounts) |-> body.keys[ix.accounts[k]]] \in Seq(Address)
    BY <1>6, <2>1
  <2>3. QED
    BY <1>7, <2>2
<1>9. Range(ix.accounts) \subseteq 1..Len(body.keys)
  BY <1>6 DEF Range
<1>10. /\ call.signers \subseteq SignerKeys(body) /\ call.signers \subseteq Address
       /\ call.writable \subseteq WritableKeys(body) /\ call.writable \subseteq Address
  <2>1. Top.accounts = body.keys /\ \A i \in 1..Len(body.keys) : body.keys[i] \in Address
    BY <1>2, <1>6
  <2>2. /\ call.signers = {body.keys[i] : i \in Range(ix.accounts) \cap body.signers}
        /\ call.writable = {body.keys[i] : i \in Range(ix.accounts) \cap body.writable}
    <3>1. call.signers = {body.keys[i] : i \in Range(ix.accounts) \cap body.signers}
      BY <1>7, <2>1 DEF HeaderSigners
    <3>2. call.writable = {body.keys[i] : i \in Range(ix.accounts) \cap body.writable}
      BY <1>7, <2>1 DEF HeaderWritable
    <3>3. QED
      BY <3>1, <3>2
  <2> HIDE DEF m, body
  <2>3. call.signers \subseteq SignerKeys(body) /\ call.writable \subseteq WritableKeys(body)
    BY <2>2 DEF SignerKeys, WritableKeys
  <2>4. call.signers \subseteq Address /\ call.writable \subseteq Address
    BY <1>9, <2>1, <2>2
  <2>5. QED
    BY <2>3, <2>4
<1>11. OtherCommitment \in Commitment
  BY ExecutorAssumption DEF ExecutorAssumption
<1>12. ASSUME call.op = "execute" PROVE call.message \in Ids
  <2>1. Embeds(body)
    BY <1>1, <1>2, <1>7, <1>12 DEF Embeds
  <2>2. /\ book[m].inner \in 0..(m - 1)
        /\ Embeds(body) => book[m].inner # NoMessage
        /\ Len(book) \in Nat
    BY <1>2, BookFacts DEF Core, GoodBook
  <2>3. QED
    BY <1>2, <1>7, <2>1, <2>2 DEF Ids, NoMessage
<1>13. QED
  BY <1>5, <1>7, <1>8, <1>10, <1>11, <1>12 DEF WellFormed, call

(* An Execute that somebody asks for.                                           *)
Request(call) ==
    /\ call.message \in Ids
    /\ call.accounts \in Seq(Address)
    /\ call.signers \subseteq Address
    /\ call.writable \subseteq Address

\* An Execute that passes its checks runs a message that has not been started and is
\* not on the stack, and what it owes is kept once its nonce is consumed.
LEMMA ExecuteFacts ==
    ASSUME Core, NEW call, Request(call), ExecuteOk(call)
    PROVE  LET m == call.message
           IN  /\ m \in 1..Len(book) /\ m \in MessageId
               /\ started[m] = 0 /\ finished[m] = 0 /\ ~OnStack(m)
               /\ book[m].lifetime = ledger[call.accounts[2]].state.nonce
               /\ Good(book, slot, ConsumeNonce(call), [started EXCEPT ![m] = @ + 1], skipped)
               /\ StaysWithin(ledger, ConsumeNonce(call), call.writable, call.signers)
<1> DEFINE m == call.message
           n == call.accounts[2]
<1>1. m \in 1..Len(book) /\ m \in MessageId /\ m \in Commitment /\ GoodBook(book)
  BY BookFacts DEF Core, Request, Ids
<1>2. /\ Len(call.accounts) >= 3 /\ n \in call.writable
      /\ AdvanceOk(ledger, call.signers, call.accounts[1], n, ledger[n].state.nonce)
      /\ ledger[n].state # Zeroed
      /\ book[m].lifetime = ledger[n].state.nonce
  BY DEF ExecuteOk, Initialized, LifetimeMatches
<1>3. n \in Address
  BY <1>2 DEF Request
<1>4. ConsumeNonce(call) = AdvanceEffect(ledger, n, m)
  BY DEF ConsumeNonce, CommitmentOf
<1>5. Good(book, slot, ledger, started, skipped) /\ ledger \in Ledger
  BY DEF Core, Good
<1>6. /\ started[m] = 0
      /\ Good(book, slot, AdvanceEffect(ledger, n, m), [started EXCEPT ![m] = @ + 1], skipped)
  BY <1>1, <1>2, <1>3, <1>5, ExecuteGood
<1>7. ~OnStack(m)
  BY <1>6 DEF Core, Frames, OnStack
<1>8. finished[m] = 0
  BY <1>1, <1>6, <1>7 DEF Core, Whole
<1>9. StaysWithin(ledger, AdvanceEffect(ledger, n, m), {n}, call.signers)
  BY <1>1, <1>2, <1>3, <1>5, AdvanceStaysWithin
<1>10. StaysWithin(ledger, AdvanceEffect(ledger, n, m), call.writable, call.signers)
  BY <1>2, <1>9 DEF StaysWithin
<1>11. QED
  BY <1>1, <1>2, <1>4, <1>6, <1>7, <1>8, <1>10

\* It pushes a frame at the message's first instruction, with the message's accounts.
LEMMA FrameFacts ==
    ASSUME NEW call, Request(call), ExecuteOk(call)
    PROVE  /\ Frame(call) \in FrameType
           /\ Frame(call).message = call.message
           /\ Frame(call).next = 1
           /\ Frame(call).accounts = book[call.message].body.keys
           /\ Frame(call).signers = call.signers
           /\ Frame(call).writable = call.writable
<1> DEFINE keys == book[call.message].body.keys
<1>1. Frame(call) = [message |-> call.message, next |-> 1, accounts |-> keys,
                     signers |-> call.signers, writable |-> call.writable]
  BY DEF ExecuteOk, MirrorsKeys, Frame
<1>2. MessageAccounts(call) = keys /\ Len(call.accounts) >= 3
  BY DEF ExecuteOk, MirrorsKeys
<1>3. keys \in Seq(Address)
  <2>1. Len(call.accounts) \in Nat /\ \A i \in 4..Len(call.accounts) : call.accounts[i] \in Address
    BY LenProperties, ElementOfSeq DEF Request
  <2>2. SubSeq(call.accounts, 4, Len(call.accounts)) \in Seq(Address)
    BY <2>1, SubSeqProperties
  <2>3. QED
    BY <1>2, <2>2 DEF MessageAccounts
<1>4. QED
  BY <1>1, <1>3 DEF FrameType, Request

------------------------------------------------------------------------------
(* The invariant holds initially, and every action keeps it.                  *)

\* Nothing is composed, started or in progress at the start.
LEMMA InitEstablishes == Init => IInv
<1> SUFFICES ASSUME Init PROVE IInv
  OBVIOUS
<1>1. /\ book = <<>> /\ Len(book) = 0 /\ book \in Seq(Message)
      /\ slot = FirstSlot /\ slot \in Nat
      /\ MessageId = 1..MaxMessages /\ MaxMessages \in Nat
      /\ ledger = InitLedger
      /\ started = [m \in MessageId |-> 0]
      /\ finished = [m \in MessageId |-> 0]
      /\ skipped = {} /\ stack = <<>> /\ phase = Idle /\ signers = {}
      /\ saved = txState
  BY ExecutorAssumption DEF Init, FirstSlot, MessageId, ExecutorAssumption
<1>2. /\ ledger \in Ledger /\ HoldsOwnNonces(ledger, slot)
      /\ \A n \in Address : ledger[n].state # Zeroed =>
            ledger[n].state.nonce.steps \in Seq({OtherCommitment})
  BY <1>1, InitLedgerAssumption DEF InitLedgerAssumption, Ledger, HoldsOwnNonces
<1>3. started \in [MessageId -> Nat] /\ finished \in [MessageId -> Nat]
      /\ \A m \in MessageId : started[m] = 0 /\ finished[m] = 0
  BY <1>1
<1>4. GoodBook(book)
  BY <1>1 DEF GoodBook
<1>5. Good(book, slot, ledger, started, skipped)
  <2>1. KnownSteps(book, ledger)
    BY <1>1, <1>2 DEF KnownSteps, OtherCommitment
  <2>2. QED
    BY <1>1, <1>2, <1>3, <2>1 DEF Good, UsedUp, RunsOnce, Justified, Ordered
<1>6. /\ saved.ledger = ledger /\ saved.started = started
      /\ saved.finished = finished /\ saved.skipped = skipped
      /\ saved \in SavedType
  BY <1>1, <1>2, <1>3 DEF txState, SavedType
<1>7. \A m \in MessageId : Whole(started, finished, m)
  BY <1>3 DEF Whole
<1>8. Frames
  BY <1>1 DEF Frames
<1>9. QED
  BY <1>1, <1>3, <1>4, <1>5, <1>6, <1>7, <1>8 DEF IInv, Core, SignersHeld

\* An Execute that a transaction submits becomes the only invocation in progress.
LEMMA SubmitKeepsCore ==
    ASSUME Core, phase = "running", stack = <<>>,
           NEW call, Request(call), ExecuteOk(call), Execute(call),
           stack' = <<Frame(call)>>,
           UNCHANGED <<slot, book, phase, signers, finished, skipped, saved>>
    PROVE  Core'
<1> DEFINE m == call.message
           f == Frame(call)
<1>1. /\ m \in 1..Len(book) /\ m \in MessageId
      /\ started[m] = 0 /\ finished[m] = 0
      /\ Good(book, slot, ledger', started', skipped)
      /\ ledger' = ConsumeNonce(call) /\ started' = [started EXCEPT ![m] = @ + 1]
  BY ExecuteFacts DEF Execute
<1>2. /\ f \in FrameType /\ f.message = m /\ f.next = 1
      /\ f.accounts = book[m].body.keys
  BY FrameFacts
<1>3. started \in [MessageId -> Nat]
  BY DEF Core, Good
<1>4. started'[m] = 1 /\ \A j \in MessageId \ {m} : started'[j] = started[j]
  BY <1>1, <1>3
<1> HIDE DEF f
<1>5. Len(stack') = 1 /\ stack'[1] = f /\ stack' \in Seq(FrameType)
  BY <1>2 DEF f
<1>6. FrameType' = FrameType
  BY DEF FrameType, Ids
<1>7. Frames'
  <2>1. Len(book[m].body.instructions) \in Nat
    <3>1. book[m].body \in Body
      BY <1>1, BookFacts DEF Core
    <3>2. QED
      BY <3>1, InstructionAssumption, LenProperties DEF InstructionAssumption
  <2>2. Instructions(f)' = book[m].body.instructions
    BY <1>2 DEF Instructions
  <2>3. QED
    BY <1>1, <1>2, <1>4, <1>5, <1>6, <2>1, <2>2 DEF Frames, Instructions
<1>8. \A j \in MessageId : OnStack(j)' \/ Whole(started, finished, j)'
  BY <1>2, <1>4, <1>5 DEF Core, OnStack, Whole
<1>9. \A j \in MessageId : Whole(saved.started, saved.finished, j)'
  BY DEF Core, Whole
<1>10. started' \in [MessageId -> Nat]
  BY <1>1 DEF Good
<1>11. QED
  BY <1>1, <1>7, <1>8, <1>9 DEF Core, Idle, SavedType

\* The next instruction of an invocation: only its position changes.
LEMMA AdvancedFacts ==
    ASSUME NEW f \in FrameType
    PROVE  /\ Advanced(f) \in FrameType
           /\ Advanced(f).message = f.message /\ Advanced(f).next = f.next + 1
           /\ Advanced(f).accounts = f.accounts
           /\ Advanced(f).signers = f.signers /\ Advanced(f).writable = f.writable
BY DEF Advanced, FrameType

\* What Core says of the running transaction's state.
LEMMA CoreFacts ==
    ASSUME Core
    PROVE  /\ GoodBook(book) /\ Good(book, slot, ledger, started, skipped)
           /\ ledger \in Ledger /\ slot \in Nat /\ HoldsOwnNonces(ledger, slot)
           /\ skipped \subseteq MessageId /\ Len(book) \in Nat
           /\ Ids \subseteq MessageId
<1>1. /\ GoodBook(book) /\ Good(book, slot, ledger, started, skipped)
      /\ slot \in Nat /\ skipped \subseteq MessageId
  BY DEF Core
<1>2. ledger \in Ledger /\ HoldsOwnNonces(ledger, slot)
  BY <1>1 DEF Good
<1>3. Len(book) \in Nat
  BY <1>1 DEF GoodBook
<1>4. Ids \subseteq MessageId
  BY <1>1, BookFacts DEF Ids
<1> QED
  BY <1>1, <1>2, <1>3, <1>4

\* A call of the Nonce or the System program keeps what is owed to the messages, given
\* that one which commits to a message in its stead is recorded.
LEMMA LeafKeepsGood ==
    ASSUME Core, NEW call, WellFormed(call), LeafOk(call),
           call.commitment \in {OtherCommitment} \cup Ids,
           NEW skipped2,
           skipped2 = IF call.op # "advance" THEN skipped
                      ELSE skipped \cup {m \in Ids : /\ book[m].lifetime = call.nonce
                                                     /\ CommitmentOf(m) = call.commitment}
    PROVE  /\ Good(book, slot, LeafEffect(call), started, skipped2)
           /\ skipped2 \subseteq MessageId
           /\ StaysWithin(ledger, LeafEffect(call), call.writable, call.signers)
<1>1. /\ GoodBook(book) /\ Good(book, slot, ledger, started, skipped)
      /\ ledger \in Ledger /\ slot \in Nat /\ HoldsOwnNonces(ledger, slot)
      /\ skipped \subseteq MessageId /\ Len(book) \in Nat
      /\ Ids \subseteq MessageId
  BY CoreFacts
<1>2. /\ Kept(call, LeafEffect(call))
      /\ StaysWithin(ledger, LeafEffect(call), call.writable, call.signers)
  BY <1>1, LeafFacts
<1>3. call.commitment \in 0..Len(book) /\ call.commitment \in Commitment
  BY <1>1 DEF Ids, OtherCommitment, WellFormed
<1>4. CASE call.op # "advance"
  <2>1. Evolves(ledger, LeafEffect(call), slot) /\ KeepsNonces(ledger, LeafEffect(call))
    BY <1>2, <1>4 DEF Kept
  <2>2. Good(book, slot, LeafEffect(call), started, skipped)
    BY <1>1, <2>1, LeafGood
  <2>3. QED
    BY <1>1, <1>2, <1>4, <2>2
<1>5. CASE call.op = "advance"
  <2>1. PICK n \in Address : /\ ledger[n].state # Zeroed
                             /\ call.nonce = ledger[n].state.nonce
                             /\ LeafEffect(call) = AdvanceEffect(ledger, n, call.commitment)
    BY <1>2, <1>5 DEF Kept
  <2>2. skipped2 = skipped \cup {m \in 1..Len(book) :
                                    /\ book[m].lifetime = ledger[n].state.nonce
                                    /\ m = call.commitment}
    BY <1>5, <2>1 DEF Ids, CommitmentOf
  <2>3. Good(book, slot, AdvanceEffect(ledger, n, call.commitment), started, skipped2)
    BY <1>1, <1>3, <2>1, <2>2, DirectAdvanceGood
  <2>4. skipped2 \subseteq MessageId
    BY <1>1, <1>5
  <2>5. QED
    BY <1>2, <2>1, <2>3, <2>4
<1>6. QED
  BY <1>4, <1>5

\* A message between transactions.
LEMMA ComposeKeeps ==
    ASSUME Core, NEW body \in Body, NEW lifetime \in Lifetimes,
           NEW inner \in {NoMessage} \cup Ids, Compose(body, lifetime, inner)
    PROVE  Core'
<1> DEFINE message == [body |-> body, lifetime |-> lifetime, inner |-> inner]
           len == Len(book)
<1>1. /\ GoodBook(book) /\ Good(book, slot, ledger, started, skipped)
      /\ book \in Seq(Message) /\ len \in Nat /\ len < MaxMessages
      /\ MaxMessages \in Nat
  BY ExecutorAssumption DEF Core, GoodBook, Compose, ExecutorAssumption
<1>2. lifetime \in NonceValue /\ lifetime.steps \in Seq(0..len)
  <2>1. CASE lifetime \in LiveNonces
    <3>1. PICK n \in NonceAddress : Initialized(ledger[n]) /\ lifetime = ledger[n].state.nonce
      BY <2>1 DEF LiveNonces
    <3>2. n \in Address /\ ledger[n].state # Zeroed
      BY <3>1, ExecutorAssumption DEF ExecutorAssumption, Initialized
    <3>3. QED
      BY <1>1, <3>1, <3>2, GoodTypes DEF Good, KnownSteps
  <2>2. CASE lifetime \in {Successor(m) : m \in Ids}
    <3>1. PICK m \in 1..len : lifetime = SuccessorIn(book, m)
      BY <2>2 DEF Ids, Successor, SuccessorIn
    <3>2. QED
      BY <1>1, <3>1, SuccessorFacts
  <2>3. QED
    BY <2>1, <2>2 DEF Lifetimes
<1>3. inner \in 0..len /\ inner \in Count
  BY <1>1 DEF NoMessage, Ids, Count
<1>4. /\ message \in Message /\ message.inner = inner /\ message.body = body
      /\ message.lifetime = lifetime
  BY <1>2, <1>3 DEF Message
<1>5. Embeds(message.body) <=> message.inner # NoMessage
  BY <1>4 DEF Compose
<1>6. /\ GoodBook(Append(book, message))
      /\ \A now, l, begun, passed : Good(book, now, l, begun, passed) =>
            Good(Append(book, message), now, l, begun, passed)
  <2> HIDE DEF message
  <2>1. message \in Message /\ message.inner \in 0..len
        /\ message.lifetime.steps \in Seq(0..len)
    BY <1>2, <1>3, <1>4
  <2>2. QED
    BY <1>1, <1>5, <2>1, ComposeGood
<1>7. /\ book' = Append(book, message) /\ phase = Idle
      /\ UNCHANGED <<ledger, slot, phase, signers, issued, stack, history, saved>>
  BY DEF Compose
<1>8. /\ UNCHANGED <<started, finished, skipped>> /\ txState' = txState
      /\ stack = <<>> /\ saved = txState
  BY <1>7 DEF history, txState, Core
<1>9. Good(book, slot, ledger, started, skipped)' /\ GoodBook(book)'
      /\ Good(book, slot, saved.ledger, saved.started, saved.skipped)'
  BY <1>1, <1>6, <1>7, <1>8 DEF Core
<1>10. \A m \in 1..len : book'[m] = book[m]
  BY <1>1, <1>4, <1>7, AppendProperties
<1>11. /\ \A m \in MessageId : Whole(started, finished, m)
       /\ \A m \in MessageId : started[m] = 0 \/ m \in 1..len
  BY <1>8, GoodTypes DEF Core, OnStack, Good, UsedUp
<1>12. \A m \in MessageId : Whole(started, finished, m)'
  BY <1>8, <1>10, <1>11, GoodTypes DEF Whole, Core, Good
<1>13. saved'.started = started' /\ saved'.finished = finished'
  BY <1>7, <1>8 DEF txState
<1>14. \A m \in MessageId : Whole(saved.started, saved.finished, m)'
  BY <1>12, <1>13 DEF Whole
<1>15. Frames'
  BY <1>7, <1>8 DEF Frames
<1>16. QED
  BY <1>7, <1>8, <1>9, <1>12, <1>14, <1>15 DEF Core, SavedType

\* A slot passes between transactions.
LEMMA NextSlotKeeps ==
    ASSUME Core, NextSlot
    PROVE  Core'
<1>1. /\ slot \in Nat /\ slot' = slot + 1 /\ phase = Idle
      /\ UNCHANGED <<ledger, book, phase, signers, issued, stack, started, finished, skipped, saved>>
  BY DEF Core, NextSlot, history
<1>2. slot' \in Nat /\ slot <= slot'
  BY <1>1
<1>3. Good(book, slot', ledger, started, skipped)
      /\ Good(book, slot', saved.ledger, saved.started, saved.skipped)
  BY <1>1, <1>2, SlotGood DEF Core
<1>4. Frames'
  BY <1>1 DEF Core, Frames, FrameType, Ids, Instructions
<1>5. /\ \A m \in MessageId : OnStack(m)' \/ Whole(started, finished, m)'
      /\ \A m \in MessageId : Whole(saved.started, saved.finished, m)'
  BY <1>1 DEF Core, OnStack, Whole
<1>6. saved' \in SavedType /\ (phase = Idle => saved = txState)' /\ (phase = Idle => stack = <<>>)'
  BY <1>1 DEF Core, txState, SavedType
<1>7. QED
  BY <1>1, <1>2, <1>3, <1>4, <1>5, <1>6 DEF Core, SavedType

\* A transaction begins.
LEMMA BeginKeeps ==
    ASSUME Core, NEW keys \in SUBSET KeyHolder, Begin(keys)
    PROVE  Core'
<1>1. /\ phase' = "running" /\ signers' \subseteq KeyHolder
      /\ UNCHANGED <<ledger, slot, book, issued, stack, started, finished, skipped, saved>>
  BY DEF Begin, history
<1>2. Frames'
  <2>1. Frames
    BY DEF Core
  <2>2. UNCHANGED <<book, stack, started, finished>>
    BY <1>1
  <2>3. QED
    BY <2>1, <2>2 DEF Frames, FrameType, Ids, Instructions
<1>3. phase' # Idle
  BY <1>1 DEF Idle
<1>4. /\ \A m \in MessageId : OnStack(m)' \/ Whole(started, finished, m)'
      /\ \A m \in MessageId : Whole(saved.started, saved.finished, m)'
  BY <1>1 DEF Core, OnStack, Whole
<1>5. QED
  BY <1>1, <1>2, <1>3, <1>4 DEF Core, SavedType

\* A direct call is well formed and signed as the transaction is.
LEMMA DirectCallFacts ==
    ASSUME Core, NEW call \in DirectCalls
    PROVE  /\ WellFormed(call) /\ call.commitment \in {OtherCommitment} \cup Ids
           /\ call.signers = signers
<1>1. PICK d \in DirectCall, v \in LiveNonces, c \in {OtherCommitment} \cup Ids :
          call = DirectlyCalled(d, v, c)
  BY DEF DirectCalls
<1>2. d \in LeafCall
  BY InstructionAssumption DEF InstructionAssumption
<1>3. /\ call.accounts = d.accounts /\ call.writable = d.writable
      /\ call.lamports = d.lamports /\ call.commitment = c /\ call.signers = signers
  BY <1>1, <1>2 DEF LeafCall, DirectlyCalled
<1>4. c \in Commitment
  BY BookFacts, ExecutorAssumption DEF ExecutorAssumption, Ids, Core
<1>5. QED
  BY <1>1, <1>2, <1>3, <1>4 DEF LeafCall, WellFormed

\* A transaction calls the Nonce or the System program.
LEMMA SubmitLeafKeeps ==
    ASSUME Core, NEW call \in DirectCalls, SubmitLeaf(call)
    PROVE  Core'
<1>1. /\ phase = "running" /\ stack = <<>> /\ LeafOk(call)
      /\ ledger' = LeafEffect(call)
      /\ skipped' = IF call.op # "advance" THEN skipped
                    ELSE skipped \cup {m \in Ids : /\ book[m].lifetime = call.nonce
                                                   /\ CommitmentOf(m) = call.commitment}
      /\ UNCHANGED <<slot, book, phase, signers, stack, started, finished, saved>>
  BY DEF SubmitLeaf, MayIssue
<1>2. WellFormed(call) /\ call.commitment \in {OtherCommitment} \cup Ids
  BY DirectCallFacts
<1>3. Good(book, slot, ledger', started, skipped') /\ skipped' \subseteq MessageId
  BY <1>1, <1>2, LeafKeepsGood
<1>4. Frames'
  BY <1>1 DEF Core, Frames, FrameType, Ids, Instructions
<1>5. QED
  BY <1>1, <1>3, <1>4 DEF Core, OnStack, Whole, SavedType, Idle

\* A failure restores what was saved.
LEMMA RollbackKeeps ==
    ASSUME Core, Rollback
    PROVE  Core'
<1>1. /\ ledger' = saved.ledger /\ started' = saved.started
      /\ finished' = saved.finished /\ skipped' = saved.skipped
      /\ phase' = Idle /\ stack' = <<>> /\ signers' = {}
      /\ UNCHANGED <<slot, book, saved>>
  BY DEF Rollback
<1>2. saved \in SavedType
  BY DEF Core
<1>3. /\ finished' \in [MessageId -> Nat] /\ skipped' \subseteq MessageId
      /\ txState' = saved'
  BY <1>1, <1>2 DEF SavedType, txState
<1>4. Frames'
  BY <1>1 DEF Frames
<1>5. QED
  BY <1>1, <1>2, <1>3, <1>4 DEF Core, Whole, SavedType

\* A transaction that ends without an invocation in progress leaves what it did.
LEMMA CommitKeeps ==
    ASSUME Core, Commit
    PROVE  Core'
<1>1. /\ stack = <<>> /\ phase' = Idle /\ signers' = {} /\ saved' = txState
      /\ UNCHANGED <<ledger, slot, book, stack, started, finished, skipped>>
  BY DEF Commit, history
<1>2. /\ saved'.ledger = ledger /\ saved'.started = started
      /\ saved'.finished = finished /\ saved'.skipped = skipped
      /\ txState' = saved'
  BY <1>1 DEF txState
<1>3. saved' \in SavedType
  BY <1>1 DEF Core, Good, SavedType, txState
<1>4. \A m \in MessageId : Whole(started, finished, m)
  BY <1>1 DEF Core, OnStack
<1>5. Frames'
  BY <1>1 DEF Frames
<1>6. QED
  BY <1>1, <1>2, <1>3, <1>4, <1>5 DEF Core, Whole, SavedType

\* What an instruction of a message calls in the Nonce or the System program.
LEMMA InvokeLeafEffect ==
    ASSUME Core, InvokeLeaf
    PROVE  LET call == ResolvedCall(Top)
           IN  /\ Good(book, slot, ledger', started, skipped)
               /\ StaysWithin(ledger, ledger', call.writable, call.signers)
<1> DEFINE call == ResolvedCall(Top)
<1>1. /\ HasNext /\ call.op # "execute" /\ Invocable(Top, call)
      /\ ledger' = LeafEffect(call)
  BY DEF InvokeLeaf
<1>2. /\ WellFormed(call) /\ call.commitment = OtherCommitment
      /\ LeafOk(call)
  BY <1>1, CallFacts DEF Invocable
<1>3. \A m \in Ids : CommitmentOf(m) # OtherCommitment
  BY BookFacts DEF CommitmentOf, Ids, Core
<1> HIDE DEF call
<1>4. skipped = IF call.op # "advance" THEN skipped
                ELSE skipped \cup {m \in Ids : /\ book[m].lifetime = call.nonce
                                               /\ CommitmentOf(m) = call.commitment}
  BY <1>2, <1>3
<1>5. QED
  BY <1>1, <1>2, <1>4, LeafKeepsGood DEF call

\* An instruction of a message that calls the Nonce or the System program completes.
LEMMA InvokeLeafKeeps ==
    ASSUME Core, InvokeLeaf
    PROVE  Core'
<1> DEFINE n == Len(stack)
           m == Top.message
           f == Advanced(Top)
<1>1. /\ stack # <<>> /\ Top.next <= Len(Instructions(Top))
      /\ stack' = Front(stack) \o <<f>>
      /\ finished' = [finished EXCEPT ![m] = @ + 1]
      /\ UNCHANGED <<slot, book, phase, signers, issued, started, skipped, saved>>
  BY DEF InvokeLeaf, HasNext, Completes
<1>2. /\ n \in Nat \ {0} /\ Top = stack[n] /\ Top \in FrameType
      /\ m \in MessageId /\ Top.next \in Nat /\ Top.next >= 1
      /\ Len(Instructions(Top)) \in Nat
      /\ Top.accounts = book[m].body.keys
      /\ Top.signers \subseteq stack[1].signers
      /\ started[m] = 1 /\ finished[m] = Top.next - 1
  BY <1>1, TopFacts
<1>3. /\ f \in FrameType /\ f.message = m /\ f.next = Top.next + 1
      /\ f.accounts = Top.accounts /\ f.signers = Top.signers
  BY <1>2, AdvancedFacts
<1>4. finished \in [MessageId -> Nat] /\ stack \in Seq(FrameType)
  BY DEF Core, Frames
<1> HIDE DEF n, f
<1>5. /\ stack' \in Seq(FrameType) /\ Len(stack') = n
      /\ \A k \in 1..n : stack'[k] = IF k = n THEN f ELSE stack[k]
  BY <1>1, <1>3, <1>4, LastReplaced DEF n
<1>6. /\ finished' \in [MessageId -> Nat] /\ finished'[m] = finished[m] + 1
      /\ \A j \in MessageId \ {m} : finished'[j] = finished[j]
  BY <1>1, <1>2, <1>4
<1>7. FrameType' = FrameType
  BY <1>1 DEF FrameType, Ids
<1>8. \A k \in 1..n :
        /\ stack[k].message \in MessageId
        /\ stack'[k].message = stack[k].message
        /\ stack'[k].accounts = stack[k].accounts
        /\ stack'[k].signers = stack[k].signers
  <2>1. \A k \in 1..n : stack[k] \in FrameType /\ stack[k].message \in Ids
    <3>1. \A k \in 1..n : stack[k] \in FrameType
      BY <1>4, ElementOfSeq DEF n
    <3>2. QED
      BY <3>1 DEF FrameType
  <2>2. Ids \subseteq MessageId
    BY BookFacts DEF Core, Ids
  <2>3. QED
    BY <1>2, <1>3, <1>5, <2>1, <2>2
<1>9. Frames'
  <2>1. ASSUME NEW k \in 1..n
        PROVE  /\ stack'[k].accounts = book[stack'[k].message].body.keys
               /\ stack'[k].next \in 1..(Len(Instructions(stack'[k])) + 1)
               /\ stack'[k].signers \subseteq stack'[1].signers
               /\ started[stack'[k].message] = 1
               /\ finished'[stack'[k].message] =
                     stack'[k].next - (IF k < n THEN 2 ELSE 1)
    <3>1. /\ stack[k].accounts = book[stack[k].message].body.keys
          /\ stack[k].next \in 1..(Len(Instructions(stack[k])) + 1)
          /\ stack[k].signers \subseteq stack[1].signers
          /\ started[stack[k].message] = 1
          /\ finished[stack[k].message] = stack[k].next - (IF k < n THEN 2 ELSE 1)
      BY DEF Core, Frames, n
    <3>2. 1 \in 1..n
      BY <1>2
    <3>3. /\ stack'[k].accounts = book[stack'[k].message].body.keys
          /\ stack'[k].signers \subseteq stack'[1].signers
          /\ started[stack'[k].message] = 1
      BY <1>8, <3>1, <3>2
    <3>4. CASE k = n
      <4>1. stack'[k] = f
        BY <1>5, <3>4
      <4>2. Instructions(f) = Instructions(Top)
        BY <1>3 DEF Instructions
      <4>3. ~(k < n)
        BY <1>2, <3>4
      <4>4. Top.next + 1 - 1 = Top.next - 1 + 1 /\ Top.next + 1 \in 1..(Len(Instructions(Top)) + 1)
        BY <1>1, <1>2
      <4>5. stack'[k].next \in 1..(Len(Instructions(stack'[k])) + 1)
        BY <1>3, <4>1, <4>2, <4>4
      <4>6. finished'[m] = f.next - 1 /\ stack'[k].message = m
        BY <1>2, <1>3, <1>6, <4>1, <4>4
      <4>7. finished'[stack'[k].message] = stack'[k].next - (IF k < n THEN 2 ELSE 1)
        BY <4>1, <4>3, <4>6
      <4>8. QED
        BY <3>3, <4>5, <4>7
    <3>5. CASE k # n
      <4>1. stack'[k] = stack[k]
        BY <1>5, <3>5
      <4>2. n \in 1..n
        BY <1>2
      <4>3. stack[k].message # m
        BY <1>2, <3>5, <4>2 DEF Core, Frames, n
      <4>4. finished'[stack[k].message] = finished[stack[k].message]
        BY <1>6, <1>8, <4>3
      <4>5. QED
        BY <3>1, <3>3, <4>1, <4>4
    <3>6. QED
      BY <3>4, <3>5
  <2>2. \A j, k \in 1..n : j # k => stack'[j].message # stack'[k].message
    <3>1. \A j, k \in 1..n : j # k => stack[j].message # stack[k].message
      BY DEF Core, Frames, n
    <3>2. QED
      BY <1>8, <3>1
  <2>3. stack' \in Seq(FrameType)' /\ Len(stack') = n
    BY <1>5, <1>7
  <2>4. /\ UNCHANGED <<book, started>>
        /\ \A k : Instructions(stack[k])' = Instructions(stack'[k])
    BY <1>1 DEF Instructions
  <2>5. QED
    BY <2>1, <2>2, <2>3, <2>4 DEF Frames
<1>10. \A j \in MessageId : OnStack(j)' <=> OnStack(j)
  BY <1>5, <1>8 DEF OnStack, n
<1>11. OnStack(m)
  BY <1>2 DEF OnStack, n
<1>12. \A j \in MessageId : OnStack(j)' \/ Whole(started, finished, j)'
  BY <1>1, <1>6, <1>10, <1>11 DEF Core, Whole
<1>13. Good(book, slot, ledger', started, skipped)
  BY InvokeLeafEffect
<1>14. \A j \in MessageId : Whole(saved.started, saved.finished, j)'
  BY <1>1 DEF Core, Whole
<1>15. phase = "running"
  BY <1>1 DEF Core
<1>16. QED
  BY <1>1, <1>6, <1>9, <1>12, <1>13, <1>14, <1>15 DEF Core, Idle, SavedType

\* An instruction of a message that is another Execute asks for a composed message, and
\* holds no signer that its caller lacks.
LEMMA InvokeExecuteRequest ==
    ASSUME Core, InvokeExecute
    PROVE  LET call == ResolvedCall(Top)
           IN  /\ Request(call) /\ ExecuteOk(call) /\ Execute(call)
               /\ call.signers \subseteq Top.signers
BY CallFacts DEF InvokeExecute, Invocable, NoEscalation, Request, WellFormed

\* An instruction of a message that is another Execute starts it.
LEMMA InvokeExecuteKeeps ==
    ASSUME Core, InvokeExecute
    PROVE  Core'
<1> DEFINE n == Len(stack)
           m == Top.message
           f == Advanced(Top)
           call == ResolvedCall(Top)
           inner == call.message
           g == Frame(call)
<1>1. /\ stack # <<>> /\ Top.next <= Len(Instructions(Top))
      /\ stack' = Front(stack) \o <<f, g>>
      /\ UNCHANGED <<slot, book, phase, signers, issued, finished, skipped, saved>>
  BY DEF InvokeExecute, HasNext
<1>2. Request(call) /\ ExecuteOk(call) /\ Execute(call) /\ call.signers \subseteq Top.signers
  BY InvokeExecuteRequest
<1> HIDE DEF call
<1>3. /\ n \in Nat \ {0} /\ Top = stack[n] /\ Top \in FrameType
      /\ m \in MessageId /\ Top.next \in Nat /\ Top.next >= 1
      /\ Len(Instructions(Top)) \in Nat
      /\ Top.accounts = book[m].body.keys
      /\ Top.signers \subseteq stack[1].signers
      /\ started[m] = 1 /\ finished[m] = Top.next - 1
  BY <1>1, TopFacts
<1>4. /\ f \in FrameType /\ f.message = m /\ f.next = Top.next + 1
      /\ f.accounts = Top.accounts /\ f.signers = Top.signers
  BY <1>3, AdvancedFacts
<1>5. /\ inner \in 1..Len(book) /\ inner \in MessageId
      /\ started[inner] = 0 /\ finished[inner] = 0 /\ ~OnStack(inner)
      /\ ledger' = ConsumeNonce(call) /\ started' = [started EXCEPT ![inner] = @ + 1]
      /\ Good(book, slot, ledger', started', skipped)
  BY <1>2, ExecuteFacts DEF Execute
<1>6. /\ g \in FrameType /\ g.message = inner /\ g.next = 1
      /\ g.accounts = book[inner].body.keys
      /\ g.signers = call.signers
  BY <1>2, FrameFacts
<1>7. started \in [MessageId -> Nat] /\ stack \in Seq(FrameType)
  BY DEF Core, Frames, Good
<1> HIDE DEF n, f, g, m, inner
<1>8. /\ stack' \in Seq(FrameType) /\ Len(stack') = n + 1
      /\ \A k \in 1..(n + 1) :
            stack'[k] = IF k = n + 1 THEN g ELSE IF k = n THEN f ELSE stack[k]
  BY <1>1, <1>4, <1>6, <1>7, LastPushed DEF n
<1>9. /\ started' \in [MessageId -> Nat] /\ started'[inner] = 1
      /\ \A j \in MessageId \ {inner} : started'[j] = started[j]
  BY <1>5, <1>7
<1>10. FrameType' = FrameType
  BY <1>1 DEF FrameType, Ids
<1>11. /\ stack'[n + 1] = g
       /\ \A k \in 1..n :
            /\ stack[k].message \in MessageId
            /\ stack'[k].message = stack[k].message
            /\ stack'[k].accounts = stack[k].accounts
            /\ stack'[k].signers = stack[k].signers
  <2>1. \A k \in 1..n : stack[k] \in FrameType /\ stack[k].message \in Ids
    <3>1. \A k \in 1..n : stack[k] \in FrameType
      BY <1>7, ElementOfSeq DEF n
    <3>2. QED
      BY <3>1 DEF FrameType
  <2>2. Ids \subseteq MessageId
    BY BookFacts DEF Core, Ids
  <2>3. ASSUME NEW k \in 1..n PROVE stack'[k] = IF k = n THEN f ELSE stack[k]
    <3>1. k \in 1..(n + 1) /\ k # n + 1
      BY <1>3
    <3>2. QED
      BY <1>8, <3>1
  <2>4. n + 1 \in 1..(n + 1)
    BY <1>3
  <2>5. QED
    BY <1>3, <1>4, <1>8, <2>1, <2>2, <2>3, <2>4 DEF m
<1>12. \A k \in 1..n : stack[k].message # inner
  BY <1>5 DEF OnStack, n
<1>13. Frames'
  <2>1. ASSUME NEW k \in 1..(n + 1)
        PROVE  /\ stack'[k].accounts = book[stack'[k].message].body.keys
               /\ stack'[k].next \in 1..(Len(Instructions(stack'[k])) + 1)
               /\ stack'[k].signers \subseteq stack'[1].signers
               /\ started'[stack'[k].message] = 1
               /\ finished[stack'[k].message] =
                     stack'[k].next - (IF k < n + 1 THEN 2 ELSE 1)
    <3>1. 1 \in 1..n /\ n \in 1..n /\ (k \in 1..n \/ k = n + 1)
      BY <1>3
    <3>2. stack'[1].signers = stack[1].signers
      BY <1>11, <3>1
    <3>3. CASE k = n + 1
      <4>1. Len(Instructions(g)) \in Nat
        <5>1. book[inner].body \in Body
          BY <1>5, BookFacts DEF Core
        <5>2. QED
          BY <1>6, <5>1, InstructionAssumption, LenProperties
             DEF InstructionAssumption, Instructions
      <4>2. ~(k < n + 1)
        BY <1>3, <3>3
      <4>3. g.signers \subseteq stack'[1].signers
        BY <1>2, <1>3, <1>6, <3>2
      <4>4. stack'[k] = g
        BY <1>11, <3>3
      <4>5. QED
        BY <1>5, <1>6, <1>9, <4>1, <4>2, <4>3, <4>4
    <3>4. CASE k \in 1..n
      <4>1. /\ stack[k].accounts = book[stack[k].message].body.keys
            /\ stack[k].next \in 1..(Len(Instructions(stack[k])) + 1)
            /\ stack[k].signers \subseteq stack[1].signers
            /\ started[stack[k].message] = 1
            /\ finished[stack[k].message] = stack[k].next - (IF k < n THEN 2 ELSE 1)
        BY <3>4 DEF Core, Frames, n
      <4>2. /\ stack'[k].accounts = book[stack'[k].message].body.keys
            /\ stack'[k].signers \subseteq stack'[1].signers
            /\ started'[stack'[k].message] = 1
        BY <1>9, <1>11, <1>12, <3>2, <3>4, <4>1
      <4>3. k < n + 1 /\ k \in 1..(n + 1) /\ k # n + 1
        BY <1>3, <3>4
      <4>4. CASE k = n
        <5>1. stack'[k] = f
          BY <1>8, <4>3, <4>4
        <5>2. Instructions(f) = Instructions(Top)
          BY <1>4 DEF Instructions, m
        <5>3. Top.next - 1 = Top.next + 1 - 2 /\ Top.next + 1 \in 1..(Len(Instructions(Top)) + 1)
          BY <1>1, <1>3
        <5>4. /\ finished[f.message] = f.next - 2
              /\ f.next \in 1..(Len(Instructions(f)) + 1)
          BY <1>3, <1>4, <5>2, <5>3
        <5>5. QED
          BY <4>2, <4>3, <5>1, <5>4
      <4>5. CASE k # n
        <5>1. stack'[k] = stack[k]
          BY <1>8, <4>3, <4>5
        <5>2. k < n
          BY <1>3, <4>3, <4>5
        <5>3. QED
          BY <4>1, <4>2, <4>3, <5>1, <5>2
      <4>6. QED
        BY <4>4, <4>5
    <3>5. QED
      BY <3>1, <3>3, <3>4
  <2>2. ASSUME NEW j \in 1..(n + 1), NEW k \in 1..(n + 1), j # k
        PROVE  stack'[j].message # stack'[k].message
    <3>1. /\ j \in 1..n \/ j = n + 1
          /\ k \in 1..n \/ k = n + 1
      BY <1>3
    <3>2. \A i, h \in 1..n : i # h => stack[i].message # stack[h].message
      BY DEF Core, Frames, n
    <3>3. QED
      BY <1>6, <1>11, <1>12, <2>2, <3>1, <3>2
  <2>3. stack' \in Seq(FrameType)' /\ Len(stack') = n + 1
    BY <1>8, <1>10
  <2>4. /\ UNCHANGED <<book, finished>>
        /\ \A k : Instructions(stack[k])' = Instructions(stack'[k])
    BY <1>1 DEF Instructions
  <2>5. QED
    BY <2>1, <2>2, <2>3, <2>4 DEF Frames
<1>14. ASSUME NEW j \in MessageId PROVE OnStack(j)' \/ Whole(started, finished, j)'
  <2>1. CASE j = inner
    <3>1. n + 1 \in 1..Len(stack') /\ stack'[n + 1].message = j
      BY <1>3, <1>6, <1>8, <1>11, <2>1
    <3>2. QED
      BY <3>1 DEF OnStack
  <2>2. CASE OnStack(j)
    <3>1. PICK k \in 1..n : stack[k].message = j
      BY <2>2 DEF OnStack, n
    <3>2. k \in 1..Len(stack') /\ stack'[k].message = j
      BY <1>3, <1>8, <1>11, <3>1
    <3>3. QED
      BY <3>2 DEF OnStack
  <2>3. CASE j # inner /\ ~OnStack(j)
    <3>1. Whole(started, finished, j)
      BY <2>3 DEF Core
    <3>2. QED
      BY <1>1, <1>9, <2>3, <3>1 DEF Whole
  <2>4. QED
    BY <2>1, <2>2, <2>3
<1>15. \A j \in MessageId : Whole(saved.started, saved.finished, j)'
  BY <1>1 DEF Core, Whole
<1>16. phase = "running"
  BY <1>1 DEF Core
<1>17. QED
  BY <1>1, <1>5, <1>13, <1>14, <1>15, <1>16 DEF Core, Idle, SavedType

\* An Execute whose message has no further instruction returns to its caller, and with
\* it completes one of the caller's instructions.
LEMMA ReturnKeeps ==
    ASSUME Core, Return
    PROVE  Core'
<1> DEFINE n == Len(stack)
           m == Top.message
           caller == stack[n - 1].message
<1>1. /\ stack # <<>> /\ ~(Top.next <= Len(Instructions(Top)))
      /\ stack' = Front(stack)
      /\ IF n > 1 THEN finished' = [finished EXCEPT ![caller] = @ + 1]
                  ELSE finished' = finished
      /\ UNCHANGED <<ledger, slot, book, phase, signers, started, skipped, saved>>
  BY DEF Return, HasNext, Completes
<1>2. /\ n \in Nat \ {0} /\ Top = stack[n]
      /\ m \in MessageId /\ Top.next \in Nat
      /\ Len(Instructions(Top)) \in Nat /\ Top.next <= Len(Instructions(Top)) + 1
      /\ started[m] = 1 /\ finished[m] = Top.next - 1
  BY <1>1, TopFacts
<1>3. finished \in [MessageId -> Nat] /\ stack \in Seq(FrameType)
  BY DEF Core, Frames
<1> HIDE DEF n, m, caller
<1>4. /\ stack' \in Seq(FrameType) /\ Len(stack') = n - 1
      /\ \A k \in 1..(n - 1) : stack'[k] = stack[k]
  BY <1>1, <1>3, FrontFacts DEF n
<1>5. \A k \in 1..n : /\ stack[k].message \in MessageId
                      /\ \A j \in 1..n : j # k => stack[j].message # stack[k].message
  <2>1. \A k \in 1..n : stack[k] \in FrameType
    BY <1>3, ElementOfSeq DEF n
  <2>2. \A k \in 1..n : stack[k].message \in Ids
    BY <2>1 DEF FrameType
  <2>3. Ids \subseteq MessageId
    BY BookFacts DEF Core, Ids
  <2>4. \A j, k \in 1..n : j # k => stack[j].message # stack[k].message
    BY DEF Core, Frames, n
  <2>5. QED
    BY <2>2, <2>3, <2>4
<1>6. /\ n > 1 => caller \in MessageId /\ caller = stack[n - 1].message
                  /\ finished'[caller] = finished[caller] + 1
      /\ \A j \in MessageId : ~(n > 1 /\ j = caller) => finished'[j] = finished[j]
      /\ finished' \in [MessageId -> Nat]
  <2>1. CASE n > 1
    <3>1. n - 1 \in 1..n
      BY <1>2, <2>1
    <3>2. caller \in MessageId
      BY <1>5, <3>1 DEF caller
    <3>3. QED
      BY <1>1, <1>3, <2>1, <3>2 DEF caller
  <2>2. CASE ~(n > 1)
    BY <1>1, <1>3, <2>2
  <2>3. QED
    BY <2>1, <2>2
<1>7. FrameType' = FrameType
  BY <1>1 DEF FrameType, Ids
<1>8. Frames'
  <2>1. ASSUME NEW k \in 1..(n - 1)
        PROVE  /\ stack'[k].accounts = book[stack'[k].message].body.keys
               /\ stack'[k].next \in 1..(Len(Instructions(stack'[k])) + 1)
               /\ stack'[k].signers \subseteq stack'[1].signers
               /\ started[stack'[k].message] = 1
               /\ finished'[stack'[k].message] =
                     stack'[k].next - (IF k < n - 1 THEN 2 ELSE 1)
    <3>1. k \in 1..n /\ 1 \in 1..(n - 1) /\ k < n /\ n > 1 /\ n - 1 \in 1..n
      BY <1>2
    <3>2. /\ stack[k].accounts = book[stack[k].message].body.keys
          /\ stack[k].next \in 1..(Len(Instructions(stack[k])) + 1)
          /\ stack[k].signers \subseteq stack[1].signers
          /\ started[stack[k].message] = 1
          /\ finished[stack[k].message] = stack[k].next - (IF k < n THEN 2 ELSE 1)
      BY <3>1 DEF Core, Frames, n
    <3>3. stack'[k] = stack[k] /\ stack'[1] = stack[1]
      BY <1>4, <3>1
    <3>4. Len(Instructions(stack[k])) \in Nat /\ stack[k].next \in Nat
      <4>1. book[stack[k].message].body \in Body
        <5>1. stack[k] \in FrameType
          BY <1>3, <3>1, ElementOfSeq DEF n
        <5>2. QED
          BY <5>1, BookFacts DEF Core, FrameType, Ids
      <4>2. Len(Instructions(stack[k])) \in Nat
        BY <4>1, InstructionAssumption, LenProperties DEF InstructionAssumption, Instructions
      <4>3. QED
        BY <3>2, <4>2
    <3>5. finished[stack[k].message] = stack[k].next - 2
      BY <3>1, <3>2
    <3>6. CASE k = n - 1
      <4>1. stack[k].message = caller /\ ~(k < n - 1)
        BY <1>2, <3>6 DEF caller
      <4>2. finished'[caller] = stack[k].next - 1
        BY <1>6, <3>1, <3>4, <3>5, <4>1
      <4>3. QED
        BY <3>2, <3>3, <4>1, <4>2
    <3>7. CASE k # n - 1
      <4>1. stack[k].message # caller /\ k < n - 1
        BY <1>2, <1>5, <3>1, <3>7 DEF caller
      <4>2. finished'[stack[k].message] = finished[stack[k].message]
        BY <1>5, <1>6, <3>1, <4>1
      <4>3. QED
        BY <3>2, <3>3, <3>5, <4>1, <4>2
    <3>8. QED
      BY <3>6, <3>7
  <2>2. ASSUME NEW j \in 1..(n - 1), NEW k \in 1..(n - 1), j # k
        PROVE  stack'[j].message # stack'[k].message
    <3>1. j \in 1..n /\ k \in 1..n
      BY <1>2
    <3>2. QED
      BY <1>4, <1>5, <2>2, <3>1
  <2>3. stack' \in Seq(FrameType)' /\ Len(stack') = n - 1
    BY <1>4, <1>7
  <2>4. /\ UNCHANGED <<book, started>>
        /\ \A k : Instructions(stack[k])' = Instructions(stack'[k])
    BY <1>1 DEF Instructions
  <2>5. QED
    BY <2>1, <2>2, <2>3, <2>4 DEF Frames
<1>9. ASSUME NEW j \in MessageId PROVE OnStack(j)' \/ Whole(started, finished, j)'
  <2>1. CASE j = m
    <3>1. finished[m] = Len(book[m].body.instructions) /\ started[m] # 0
      <4>1. finished[m] = Len(Instructions(Top))
        BY <1>1, <1>2
      <4>2. Instructions(Top) = book[m].body.instructions
        BY DEF Instructions, m
      <4>3. QED
        BY <1>2, <4>1, <4>2
    <3>2. n > 1 => m # caller
      <4>1. n > 1 => n - 1 \in 1..n /\ n \in 1..n /\ n - 1 # n
        BY <1>2
      <4>2. QED
        BY <1>2, <1>5, <4>1 DEF m, caller
    <3>3. finished'[m] = finished[m]
      BY <1>2, <1>6, <3>2
    <3>4. QED
      BY <1>1, <2>1, <3>1, <3>3 DEF Whole
  <2>2. CASE j # m /\ OnStack(j)
    <3>1. PICK k \in 1..n : stack[k].message = j
      BY <2>2 DEF OnStack, n
    <3>2. k # n
      BY <1>2, <2>2, <3>1 DEF m
    <3>3. k \in 1..Len(stack') /\ stack'[k].message = j
      BY <1>2, <1>4, <3>1, <3>2
    <3>4. QED
      BY <3>3 DEF OnStack
  <2>3. CASE ~OnStack(j)
    <3>1. Whole(started, finished, j)
      BY <2>3 DEF Core
    <3>2. n > 1 => j # caller
      <4>1. n > 1 => n - 1 \in 1..n
        BY <1>2
      <4>2. QED
        BY <2>3, <4>1 DEF OnStack, n, caller
    <3>3. finished'[j] = finished[j]
      BY <1>6, <3>2
    <3>4. QED
      BY <1>1, <3>1, <3>3 DEF Whole
  <2>4. QED
    BY <2>1, <2>2, <2>3
<1>10. \A j \in MessageId : Whole(saved.started, saved.finished, j)'
  BY <1>1 DEF Core, Whole
<1>11. phase = "running"
  BY <1>1 DEF Core
<1>12. QED
  BY <1>1, <1>6, <1>8, <1>9, <1>10, <1>11 DEF Core, Idle, SavedType

\* Any other step, whoever submits it.
LEMMA StutterKeepsCore ==
    ASSUME Core, UNCHANGED vars
    PROVE  Core'
<1>1. UNCHANGED <<ledger, slot, book, phase, signers, stack, started, finished, skipped, saved>>
  BY DEF vars, history
<1>2. FrameType' = FrameType
  BY <1>1 DEF FrameType, Ids
<1>3. Frames'
  BY <1>1, <1>2 DEF Core, Frames, Instructions
<1>4. QED
  BY <1>1, <1>3 DEF Core, OnStack, Whole, SavedType, txState

\* A top-level Execute carries what the transaction signs.
LEMMA SubmittedRequest ==
    ASSUME Core, NEW call \in ExecuteCalls
    PROVE  Request(call) /\ call.signers = signers
<1>1. PICK m \in Ids : \E a \in Address, n \in NonceAddress, supplied \in SuppliedAccounts(m) :
                            call = ExecuteCall(m, a, n, supplied)
  BY DEF ExecuteCalls
<1> PICK a \in Address, n \in NonceAddress, supplied \in SuppliedAccounts(m) :
         call = ExecuteCall(m, a, n, supplied)
  BY <1>1
<1>2. /\ call.message = m /\ call.signers = signers /\ call.writable = Address
      /\ call.accounts = <<a, n, NonceProgram>> \o supplied
  BY DEF ExecuteCall
<1>3. n \in Address /\ NonceProgram \in Address /\ signers \subseteq Address
  BY ExecutorAssumption DEF ExecutorAssumption, Core
<1>4. book[m].body.keys \in Seq(Address)
  BY BookFacts, InstructionAssumption DEF InstructionAssumption, Core, Ids
<1>5. supplied \in Seq(Address)
  <2>1. Reverse(book[m].body.keys) \in Seq(Address)
    <3> DEFINE keys == book[m].body.keys
               len == Len(keys)
    <3>1. len \in Nat /\ \A k \in 1..len : keys[k] \in Address
      BY <1>4, LenProperties, ElementOfSeq
    <3> HIDE DEF keys, len
    <3>2. \A k \in 1..len : keys[(len - k) + 1] \in Address
      <4>1. \A k \in 1..len : (len - k) + 1 \in 1..len
        BY <3>1
      <4>2. QED
        BY <3>1, <4>1
    <3>3. [k \in 1..len |-> keys[(len - k) + 1]] \in Seq(Address)
      BY <3>1, <3>2
    <3>4. QED
      BY <3>3 DEF Reverse, keys, len
  <2>2. QED
    BY <1>4, <2>1 DEF SuppliedAccounts
<1>6. <<a, n, NonceProgram>> \in Seq(Address)
  BY <1>3
<1>7. <<a, n, NonceProgram>> \o supplied \in Seq(Address)
  BY <1>5, <1>6, ConcatProperties
<1>8. QED
  BY <1>2, <1>3, <1>7 DEF Request

\* The signers of the outermost Execute are the transaction's.
LEMMA SubmitExecuteKeeps ==
    ASSUME Core, NEW call \in ExecuteCalls, SubmitExecute(call)
    PROVE  Core' /\ SignersHeld'
<1>1. Request(call) /\ call.signers = signers
  BY SubmittedRequest
<1>2. /\ phase = "running" /\ stack = <<>> /\ ExecuteOk(call) /\ Execute(call)
      /\ stack' = <<Frame(call)>>
      /\ UNCHANGED <<slot, book, phase, signers, finished, skipped, saved>>
  BY DEF SubmitExecute, MayIssue
<1>3. Core'
  BY <1>1, <1>2, SubmitKeepsCore
<1>4. stack'[1] = Frame(call) /\ Frame(call).signers = signers /\ signers' = signers
  BY <1>1, <1>2, FrameFacts
<1>5. QED
  BY <1>3, <1>4 DEF SignersHeld

\* While messages run, the outermost invocation keeps its privileges.
LEMMA RuntimeKeepsOutermost ==
    ASSUME Core, InvokeLeaf \/ InvokeExecute \/ Return, stack' # <<>>
    PROVE  /\ stack # <<>> /\ signers' = signers
           /\ stack'[1].message = stack[1].message
           /\ stack'[1].signers = stack[1].signers
           /\ stack'[1].writable = stack[1].writable
<1> DEFINE n == Len(stack)
<1>1. stack # <<>> /\ stack \in Seq(FrameType) /\ signers' = signers
  BY DEF Core, Frames, InvokeLeaf, InvokeExecute, Return, HasNext
<1>2. n \in Nat \ {0} /\ Top = stack[n] /\ Top \in FrameType
  BY <1>1, TopFacts
<1>3. /\ Advanced(Top) \in FrameType
      /\ Advanced(Top).message = Top.message
      /\ Advanced(Top).signers = Top.signers /\ Advanced(Top).writable = Top.writable
  BY <1>2, AdvancedFacts
<1> HIDE DEF n
<1>4. CASE InvokeLeaf
  <2>1. stack' = Front(stack) \o <<Advanced(Top)>> /\ 1 \in 1..n
    BY <1>2, <1>4 DEF InvokeLeaf
  <2>2. stack'[1] = IF 1 = n THEN Advanced(Top) ELSE stack[1]
    BY <1>1, <1>3, <2>1, LastReplaced DEF n
  <2>3. QED
    BY <1>1, <1>2, <1>3, <2>2
<1>5. CASE InvokeExecute
  <2> DEFINE g == Frame(ResolvedCall(Top))
  <2>1. stack' = Front(stack) \o <<Advanced(Top), g>>
    BY <1>5 DEF InvokeExecute
  <2>2. g \in FrameType
    BY <1>5, InvokeExecuteRequest, FrameFacts
  <2>3. 1 \in 1..(n + 1) /\ 1 # n + 1
    BY <1>2
  <2> HIDE DEF g
  <2>4. \A k \in 1..(n + 1) : stack'[k] =
           IF k = n + 1 THEN g ELSE IF k = n THEN Advanced(Top) ELSE stack[k]
    BY <1>1, <1>3, <2>1, <2>2, LastPushed DEF n
  <2>5. stack'[1] = IF 1 = n THEN Advanced(Top) ELSE stack[1]
    BY <2>3, <2>4
  <2>6. QED
    BY <1>1, <1>2, <1>3, <2>5
<1>6. CASE Return
  <2>1. stack' = Front(stack)
    BY <1>6 DEF Return
  <2>2. stack' \in Seq(FrameType) /\ Len(stack') = n - 1
        /\ \A k \in 1..(n - 1) : stack'[k] = stack[k]
    BY <1>1, <2>1, FrontFacts DEF n
  <2>3. 1 \in 1..(n - 1)
    BY <1>2, <2>2, EmptySeq
  <2>4. QED
    BY <1>1, <2>2, <2>3
<1>7. QED
  BY <1>4, <1>5, <1>6

\* Every step keeps it.
LEMMA NextKeepsCore ==
    ASSUME Core, [Next]_vars
    PROVE  Core'
<1>1. CASE \E body \in Body, lifetime \in Lifetimes, inner \in {NoMessage} \cup Ids :
              Compose(body, lifetime, inner)
  BY <1>1, ComposeKeeps
<1>2. CASE NextSlot
  BY <1>2, NextSlotKeeps
<1>3. CASE \E keys \in SUBSET KeyHolder : Begin(keys)
  BY <1>3, BeginKeeps
<1>4. CASE \E call \in ExecuteCalls : SubmitExecute(call)
  BY <1>4, SubmitExecuteKeeps
<1>5. CASE \E call \in DirectCalls : SubmitLeaf(call)
  BY <1>5, SubmitLeafKeeps
<1>6. CASE SubmitFails
  BY <1>6, RollbackKeeps DEF SubmitFails
<1>7. CASE Commit
  BY <1>7, CommitKeeps
<1>8. CASE RuntimeStep
  <2>1. CASE InvokeLeaf
    BY <2>1, InvokeLeafKeeps
  <2>2. CASE InvokeExecute
    BY <2>2, InvokeExecuteKeeps
  <2>3. CASE Return
    BY <2>3, ReturnKeeps
  <2>4. CASE InvokeFails
    BY <2>4, RollbackKeeps DEF InvokeFails
  <2>5. QED
    BY <1>8, <2>1, <2>2, <2>3, <2>4 DEF RuntimeStep
<1>9. CASE UNCHANGED vars
  BY <1>9, StutterKeepsCore
<1>10. QED
  BY <1>1, <1>2, <1>3, <1>4, <1>5, <1>6, <1>7, <1>8, <1>9 DEF Next

\* The outermost Execute holds no signer that did not sign the transaction.
LEMMA NextKeepsSignersHeld ==
    ASSUME IInv, [Next]_vars
    PROVE  SignersHeld'
<1>1. Core /\ SignersHeld
  BY DEF IInv
<1>2. CASE \E call \in ExecuteCalls : SubmitExecute(call)
  BY <1>1, <1>2, SubmitExecuteKeeps
<1>3. CASE stack' = <<>>
  BY <1>3 DEF SignersHeld
<1>4. CASE InvokeLeaf \/ InvokeExecute \/ Return
  BY <1>1, <1>3, <1>4, RuntimeKeepsOutermost DEF SignersHeld
<1>5. CASE stack' = stack /\ signers' = signers
  BY <1>1, <1>5 DEF SignersHeld
<1>6. CASE \E keys \in SUBSET KeyHolder : Begin(keys)
  <2>1. stack = <<>> /\ stack' = stack
    BY <1>1, <1>6 DEF Begin, Core
  <2>2. QED
    BY <1>3, <2>1
<1>7. QED
  BY <1>2, <1>3, <1>4, <1>5, <1>6
     DEF Next, Compose, NextSlot, SubmitLeaf, SubmitFails, Commit, RuntimeStep, InvokeFails,
         Rollback, vars

\* The inductive invariant holds in every reachable state.
THEOREM Invariance == Spec => []IInv
<1>1. Init => IInv
  BY InitEstablishes
<1>2. IInv /\ [Next]_vars => IInv'
  BY NextKeepsCore, NextKeepsSignersHeld DEF IInv
<1>3. QED
  BY <1>1, <1>2, PTL DEF Spec

------------------------------------------------------------------------------
(* What follows.                                                              *)

\* Of all the messages composed for a nonce value at most one runs, and it runs once.
LEMMA CoreRunsOnce == Core => OneExecutionPerNonce
BY DEF Core, Good, RunsOnce, OneExecutionPerNonce, Ids

\* Between transactions a message has run whole or not at all.
LEMMA CoreAllOrNothing == Core => AllOrNothing
<1> SUFFICES ASSUME Core, phase = Idle, NEW m \in Ids
             PROVE  finished[m] = started[m] * Len(book[m].body.instructions)
  BY DEF AllOrNothing
<1>1. m \in 1..Len(book) /\ m \in MessageId /\ book[m].body \in Body
  BY BookFacts DEF Core, Ids
<1>2. started[m] \in Nat /\ started[m] <= 1
  BY <1>1 DEF Core, Good, RunsOnce
<1>3. Len(book[m].body.instructions) \in Nat
  BY <1>1, InstructionAssumption, LenProperties DEF InstructionAssumption
<1>4. Whole(started, finished, m)
  BY <1>1 DEF Core, OnStack
<1>5. CASE started[m] = 0
  BY <1>3, <1>4, <1>5 DEF Whole
<1>6. CASE started[m] = 1
  BY <1>3, <1>4, <1>6 DEF Whole
<1>7. QED
  BY <1>2, <1>5, <1>6

\* A message runs after the one whose successor it was composed for.
LEMMA CoreInOrder == Core => ChainInOrder
BY DEF Core, Good, Ordered, ChainInOrder, Ids, Successor, SuccessorIn

\* Ledger, messages and stack have the shape TypeOK describes.
LEMMA InvariantTypes == IInv => TypeOK
<1> SUFFICES ASSUME IInv PROVE TypeOK
  OBVIOUS
<1>1. Core /\ SignersHeld
  BY DEF IInv
<1>2. ledger \in [Address -> Cell] /\ HoldsOwnNonces(ledger, slot)
  BY <1>1 DEF Core, Good, Ledger
<1>3. book \in Seq(Message) /\ \A m \in Ids : book[m].inner \in 0..(m - 1)
  BY <1>1 DEF Core, GoodBook, Ids
<1>4. ASSUME NEW k \in 1..Len(stack)
      PROVE  /\ stack[k].message \in Ids
             /\ stack[k].accounts = book[stack[k].message].body.keys
             /\ stack[k].next \in 1..(Len(Instructions(stack[k])) + 1)
             /\ stack[k].signers \subseteq signers
  <2>1. stack \in Seq(FrameType) /\ stack # <<>> /\ stack[k] \in FrameType
    BY <1>1, ElementOfSeq DEF Core, Frames
  <2>2. stack[k].message \in Ids
    BY <2>1 DEF FrameType
  <2>3. QED
    BY <1>1, <2>1, <2>2 DEF Core, Frames, SignersHeld
<1>5. phase = Idle => stack = <<>> /\ signers = {} /\ saved = txState
  BY <1>1 DEF Core
<1>6. QED
  BY <1>2, <1>3, <1>4, <1>5 DEF TypeOK, HoldsOwnNonces

\* A step of a message changes only what its header marks writable, and takes only with
\* a signature that its header lists and its invocation holds.
LEMMA StepStaysWithin ==
    ASSUME Core, stack # <<>>,
           InvokeLeaf \/ InvokeExecute \/ Return \/ UNCHANGED ledger,
           NEW a \in Address
    PROVE  LET body == book[Top.message].body
           IN  /\ ledger'[a] # ledger[a] => a \in WritableKeys(body)
               /\ TakesFrom(a) => Controller(a) \in SignerKeys(body) \cap Top.signers
<1> DEFINE call == ResolvedCall(Top)
           body == book[Top.message].body
<1>1. TakesFrom(a) <=> TakenFrom(ledger, ledger', a)
  BY DEF TakesFrom, TakenFrom
<1>2. Controller(a) = ControllerIn(ledger, a)
  BY DEF Controller, ControllerIn
<1>3. CASE InvokeLeaf \/ InvokeExecute
  <2>1. HasNext /\ call.signers \subseteq Top.signers
    BY <1>3 DEF InvokeLeaf, InvokeExecute, Invocable, NoEscalation
  <2>2. call.signers \subseteq SignerKeys(body) /\ call.writable \subseteq WritableKeys(body)
    BY <2>1, CallFacts
  <2>3. StaysWithin(ledger, ledger', call.writable, call.signers)
    <3>1. CASE InvokeLeaf
      BY <3>1, InvokeLeafEffect
    <3>2. CASE InvokeExecute
      BY <3>2, InvokeExecuteRequest, ExecuteFacts DEF Execute
    <3>3. QED
      BY <1>3, <3>1, <3>2
  <2> HIDE DEF call, body
  <2>4. /\ ledger'[a] # ledger[a] => a \in call.writable
        /\ TakenFrom(ledger, ledger', a) => ControllerIn(ledger, a) \in call.signers
    BY <2>3 DEF StaysWithin
  <2>5. QED
    BY <1>1, <1>2, <2>1, <2>2, <2>4 DEF body
<1>4. CASE Return \/ UNCHANGED ledger
  <2>1. ledger' = ledger
    BY <1>4 DEF Return
  <2>2. ledger[a].lamports \in Nat
    BY DEF Core, Good, Ledger, Cell
  <2>3. ~TakesFrom(a)
    BY <2>1, <2>2 DEF TakesFrom
  <2>4. QED
    BY <2>1, <2>3
<1>5. QED
  BY <1>3, <1>4

\* Type correctness.
THEOREM TypeCorrect == Spec => []TypeOK
BY Invariance, InvariantTypes, PTL

\* Whatever is composed, nested, replayed, skipped, closed and re-created: a nonce
\* value carries at most one execution.
THEOREM EachNonceRunsOnce == Spec => []OneExecutionPerNonce
<1>1. IInv => OneExecutionPerNonce
  BY CoreRunsOnce DEF IInv
<1>2. QED
  BY <1>1, Invariance, PTL

\* Transactions are atomic: no message is ever left half run.
THEOREM MessagesRunWhole == Spec => []AllOrNothing
<1>1. IInv => AllOrNothing
  BY CoreAllOrNothing DEF IInv
<1>2. QED
  BY <1>1, Invariance, PTL

\* Messages chained through their nonces run in the order of the chain.
THEOREM ChainsRunInOrder == Spec => []ChainInOrder
<1>1. IInv => ChainInOrder
  BY CoreInOrder DEF IInv
<1>2. QED
  BY <1>1, Invariance, PTL

\* No message goes beyond the privileges of its header and of the transaction.
THEOREM HeadersBound == Spec => WithinHeader
<1> DEFINE Bound == stack # <<>> /\ stack' # <<>> =>
                LET body == book[Top.message].body
                IN  \A a \in Address :
                        /\ ledger'[a] # ledger[a] => a \in WritableKeys(body)
                        /\ TakesFrom(a) => Controller(a) \in SignerKeys(body) \cap signers
<1>1. IInv /\ [Next]_vars => Bound
  <2> SUFFICES ASSUME IInv, [Next]_vars, stack # <<>>, stack' # <<>>, NEW a \in Address
               PROVE  LET body == book[Top.message].body
                      IN  /\ ledger'[a] # ledger[a] => a \in WritableKeys(body)
                          /\ TakesFrom(a) => Controller(a) \in SignerKeys(body) \cap signers
    OBVIOUS
  <2>1. Core /\ Top.signers \subseteq signers
    BY TopFacts DEF IInv, SignersHeld
  <2>2. InvokeLeaf \/ InvokeExecute \/ Return \/ UNCHANGED ledger
    BY <2>1 DEF Next, Compose, NextSlot, Begin, SubmitExecute, SubmitLeaf, MayIssue,
                SubmitFails, Commit, RuntimeStep, InvokeFails, Rollback, vars, Core
  <2>3. LET body == book[Top.message].body
        IN  /\ ledger'[a] # ledger[a] => a \in WritableKeys(body)
            /\ TakesFrom(a) => Controller(a) \in SignerKeys(body) \cap Top.signers
    BY <2>1, <2>2, StepStaysWithin
  <2>4. QED
    BY <2>1, <2>3
<1>2. QED
  BY <1>1, Invariance, PTL DEF Spec, WithinHeader
==============================================================================
