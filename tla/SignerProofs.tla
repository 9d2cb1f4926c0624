----------------------------- MODULE SignerProofs -----------------------------
(* What the signer program adds to the executor's invariant: every signer        *)
(* privilege of a programmatic signer can be traced to an envelope that its      *)
(* authority signed.  The invariant relates four things at once: the signatures  *)
(* in circulation, the Submit in progress, the privileges of the outermost       *)
(* Execute (no inner one holds more, Executor!NoEscalation), and the             *)
(* instructions that messages have run so far.                                   *)
EXTENDS Signer, ExecutorProofs

(* An authority consents to a message by signing its envelope, or the envelope   *)
(* of a message that carries it.                                                *)
Consents(k, m) == \E s \in approved : s[1] = k /\ m \in Carried(s[2].message)

(* Every authority whose programmatic signer signs one of the message's first n  *)
(* instructions consents to the message.                                        *)
BackedUpTo(m, n) ==
    \A j \in 1..n : \A k \in Authority :
        Pda[k] \in InstructionSigners(book[m].body, j) => Consents(k, m)

Backed(m) == BackedUpTo(m, Len(book[m].body.instructions))

Submission == [envelope: Envelope, relayWritable: RelayWritable]

SignatureTypes ==
    /\ approved \subseteq Address \X Envelope
    /\ \A s \in approved : s[2].message \in Ids
    /\ submission \in Submission \cup {NoEnvelope}

(* The Submit in progress is the outermost invocation, and what it runs is its    *)
(* envelope's message and the messages carried by it.                           *)
SubmitOutermost ==
    submission # NoEnvelope =>
        /\ stack # <<>>
        /\ stack[1].message = submission.envelope.message
        /\ \A i \in 1..Len(stack) : stack[i].message \in Carried(submission.envelope.message)

(* No invocation holds the privilege of a programmatic signer unless its         *)
(* authority signed the envelope being submitted.                               *)
PdaBehindEnvelope ==
    stack # <<>> =>
        \A k \in Authority : Pda[k] \in stack[1].signers =>
            submission # NoEnvelope /\ <<k, submission.envelope>> \in approved

FramesBacked ==
    \A i \in 1..Len(stack) : BackedUpTo(stack[i].message, stack[i].next - 1)

ReturnedBacked == \A m \in Ids : started[m] > 0 /\ ~OnStack(m) => Backed(m)

SavedBacked == \A m \in Ids : saved.started[m] > 0 => started[m] > 0 /\ Backed(m)

SignerInv ==
    /\ Core
    /\ SignatureTypes
    /\ SubmitOutermost
    /\ EverySignerApproved
    /\ NoPrivilegeBeyondEnvelope
    /\ PdaBehindEnvelope
    /\ FramesBacked
    /\ ReturnedBacked
    /\ SavedBacked

------------------------------------------------------------------------------
(* What carrying means, in a fixed book and in one that grows.                *)

(* The programmatic signers are addresses of their own, one for each authority,  *)
(* and no transaction is signed with one.                                       *)
LEMMA PdaFacts ==
    ASSUME NEW k \in Authority
    PROVE  /\ k \in Address /\ Pda[k] \in Address /\ Pda[k] \notin KeyHolder
           /\ \A j \in Authority : Pda[j] = Pda[k] => j = k
BY SignerAssumption

(* A message carries itself, and what it carries, carried messages carry too.    *)
LEMMA CarriedFacts ==
    ASSUME GoodBook(book), NEW m \in Ids
    PROVE  /\ m \in Carried(m) /\ Carried(m) \subseteq Ids
           /\ \A k \in Carried(m) : book[k].inner # NoMessage =>
                 book[k].inner \in Carried(m)
<1>1. m \in Carried(m) /\ Carried(m) \subseteq Ids
  BY DEF Carried
<1>2. ASSUME NEW k \in Carried(m), book[k].inner # NoMessage
      PROVE  book[k].inner \in Carried(m)
  <2>1. k \in Ids /\ book[k].inner \in 0..(k - 1) /\ Len(book) \in Nat
    BY <1>1, BookFacts DEF GoodBook, Ids
  <2>2. book[k].inner \in Ids
    BY <2>1, <1>2 DEF Ids, NoMessage
  <2>3. ASSUME NEW S \in SUBSET Ids, m \in S, HoldsCarried(S)
        PROVE  book[k].inner \in S
    BY <1>2, <2>3 DEF Carried, HoldsCarried
  <2> QED
    BY <2>2, <2>3 DEF Carried
<1> QED
  BY <1>1, <1>2

(* The book as a step may leave it: the same, or with one more message.          *)
BookGrows ==
    /\ GoodBook(book) /\ GoodBook(book)'
    /\ book' = book \/ \E message \in Message : book' = Append(book, message)

(* Messages stay in the book.                                                   *)
LEMMA BookKept ==
    ASSUME BookGrows
    PROVE  /\ Len(book) \in Nat /\ Len(book') \in Nat /\ Len(book) <= Len(book')
           /\ Ids \subseteq Ids'
           /\ \A m \in Ids : book'[m] = book[m]
<1>1. book \in Seq(Message) /\ book' \in Seq(Message)
  BY DEF BookGrows, GoodBook
<1>2. Ids = 1..Len(book) /\ Ids' = 1..Len(book')
  BY DEF Ids
<1>3. CASE book' = book
  BY <1>1, <1>2, <1>3
<1>4. CASE \E message \in Message : book' = Append(book, message)
  <2>1. PICK message \in Message : book' = Append(book, message)
    BY <1>4
  <2>2. Len(book') = Len(book) + 1 /\ \A m \in 1..Len(book) : book'[m] = book[m]
    BY <1>1, <2>1
  <2> QED
    BY <1>1, <1>2, <2>2
<1> QED
  BY <1>3, <1>4 DEF BookGrows

(* A message composed later is carried by no earlier one.                        *)
LEMMA CarriedKept ==
    ASSUME BookGrows, NEW m \in Ids
    PROVE  Carried(m)' = Carried(m)
<1>1. /\ Ids \subseteq Ids'
      /\ \A i \in Ids : book'[i] = book[i]
      /\ \A i \in Ids : book[i].inner \in 0..(i - 1)
      /\ Ids = 1..Len(book) /\ Len(book) \in Nat
  BY BookKept DEF BookGrows, GoodBook, Ids
<1>2. ASSUME NEW S \in SUBSET Ids
      PROVE  HoldsCarried(S)' <=> HoldsCarried(S)
  BY <1>1 DEF HoldsCarried, NoMessage
<1>3. ASSUME NEW k \in Carried(m)' PROVE k \in Carried(m)
  <2>1. HoldsCarried(Ids)
    BY <1>1 DEF HoldsCarried, NoMessage
  <2>2. /\ k \in Ids'
        /\ \A S \in SUBSET Ids' : m \in S /\ HoldsCarried(S)' => k \in S
    BY DEF Carried, HoldsCarried
  <2>3. k \in Ids
    BY <1>1, <1>2, <2>1, <2>2
  <2> QED
    BY <1>1, <1>2, <2>2, <2>3 DEF Carried
<1>4. ASSUME NEW k \in Carried(m) PROVE k \in Carried(m)'
  <2>1. k \in Ids /\ \A S \in SUBSET Ids : m \in S /\ HoldsCarried(S) => k \in S
    BY DEF Carried
  <2>2. ASSUME NEW S \in SUBSET Ids', m \in S, HoldsCarried(S)'
        PROVE  k \in S
    <3>1. HoldsCarried(S \cap Ids)
      <4> SUFFICES ASSUME NEW i \in S \cap Ids
                   PROVE  book[i].inner \in (S \cap Ids) \cup {NoMessage}
        BY DEF HoldsCarried
      <4>1. book[i].inner \in S \cup {NoMessage}
        BY <1>1, <2>2 DEF HoldsCarried
      <4>2. book[i].inner \in Ids \cup {NoMessage}
        BY <1>1 DEF NoMessage
      <4> QED
        BY <4>1, <4>2
    <3> QED
      BY <2>1, <2>2, <3>1
  <2>3. k \in Ids' /\ \A S \in SUBSET Ids' : m \in S /\ HoldsCarried(S)' => k \in S
    BY <1>1, <2>1, <2>2
  <2> QED
    BY <2>3 DEF Carried, HoldsCarried
<1> QED
  BY <1>3, <1>4

(* Consent is never withdrawn.                                                   *)
LEMMA BackedKept ==
    ASSUME BookGrows, approved \subseteq approved', \A s \in approved : s[2].message \in Ids
    PROVE  \A m \in Ids : \A n : BackedUpTo(m, n) => BackedUpTo(m, n)'
<1> SUFFICES ASSUME NEW m \in Ids, NEW n, BackedUpTo(m, n),
                    NEW j \in 1..n, NEW k \in Authority,
                    Pda[k] \in InstructionSigners(book'[m].body, j)
             PROVE  Consents(k, m)'
  BY DEF BackedUpTo
<1>1. Consents(k, m)
  BY BookKept DEF BackedUpTo
<1>2. PICK s \in approved : s[1] = k /\ m \in Carried(s[2].message)
  BY <1>1 DEF Consents
<1>3. Carried(s[2].message)' = Carried(s[2].message)
  BY CarriedKept
<1>4. s \in approved' /\ m \in Carried(s[2].message)'
  BY <1>2, <1>3
<1> QED
  BY <1>2, <1>4 DEF Consents

------------------------------------------------------------------------------
(* The invariant holds at the start, and every step keeps it.                  *)

(* A Submit in progress has a well-formed envelope whose message was composed.   *)
LEMMA SubmissionFacts ==
    ASSUME SignerInv, submission # NoEnvelope
    PROVE  /\ submission \in Submission /\ submission.envelope \in Envelope
           /\ stack # <<>> /\ Len(stack) \in Nat \ {0}
           /\ stack[1].message = submission.envelope.message
           /\ submission.envelope.message \in Ids
<1>1. submission \in Submission /\ stack # <<>>
      /\ stack[1].message = submission.envelope.message
  BY DEF SignerInv, SignatureTypes, SubmitOutermost
<1>2. Core
  BY DEF SignerInv
<1>3. stack \in Seq(FrameType)
  BY <1>2 DEF Core, Frames
<1>4. Len(stack) \in Nat \ {0}
  BY <1>1, <1>3
<1>5. stack[1] \in FrameType
  BY <1>3, <1>4
<1>6. stack[1].message \in Ids
  BY <1>5 DEF FrameType
<1> QED
  BY <1>1, <1>4, <1>6 DEF Submission

\* Nothing is signed, offered or run at first.
LEMMA SignerInitEstablishes == SignerInit => SignerInv
<1> SUFFICES ASSUME SignerInit PROVE SignerInv
  OBVIOUS
<1>1. Core
  BY InitEstablishes DEF SignerInit, IInv
<1>2. /\ stack = <<>> /\ approved = {} /\ submission = NoEnvelope /\ book = <<>>
      /\ saved = txState /\ Ids = {}
  BY DEF SignerInit, Init, Ids
<1>3. SignatureTypes /\ SubmitOutermost /\ EverySignerApproved /\ NoPrivilegeBeyondEnvelope
  BY <1>2 DEF SignatureTypes, SubmitOutermost, EverySignerApproved, NoPrivilegeBeyondEnvelope
<1>4. PdaBehindEnvelope /\ FramesBacked /\ ReturnedBacked /\ SavedBacked
  BY <1>2 DEF PdaBehindEnvelope, FramesBacked, ReturnedBacked, SavedBacked
<1> QED
  BY <1>1, <1>3, <1>4 DEF SignerInv

(* Steps that leave the invocations alone: signing, composing, the next slot,     *)
(* the start of a transaction, a direct call of another program.                *)
LEMMA QuietKeeps ==
    ASSUME SignerInv, Core', BookGrows,
           UNCHANGED <<stack, started, saved, submission>>,
           signers \subseteq signers', approved \subseteq approved',
           approved' \subseteq Address \X Envelope,
           \A s \in approved' : s[2].message \in Ids'
    PROVE  SignerInv'
<1>1. /\ Ids \subseteq Ids' /\ \A m \in Ids : book'[m] = book[m]
  BY BookKept
<1>2. \A s \in approved : s[2].message \in Ids
  BY DEF SignerInv, SignatureTypes
<1>3. \A m \in Ids : \A n : BackedUpTo(m, n) => BackedUpTo(m, n)'
  BY <1>2, BackedKept
<1>4. \A i \in 1..Len(stack) : stack[i].message \in Ids
  <2>1. stack \in Seq(FrameType)
    BY DEF SignerInv, Core, Frames
  <2>2. \A i \in 1..Len(stack) : stack[i] \in FrameType
    BY <2>1
  <2> QED
    BY <2>2 DEF FrameType
<1>5. SignatureTypes'
  BY DEF SignerInv, SignatureTypes
<1>6. SubmitOutermost'
  <2> SUFFICES ASSUME submission # NoEnvelope
               PROVE  /\ stack # <<>>
                      /\ stack[1].message = submission.envelope.message
                      /\ \A i \in 1..Len(stack) :
                            stack[i].message \in Carried(submission.envelope.message)'
    BY DEF SubmitOutermost, Carried, HoldsCarried
  <2>1. Carried(submission.envelope.message)' = Carried(submission.envelope.message)
    BY SubmissionFacts, CarriedKept
  <2> QED
    BY <2>1 DEF SignerInv, SubmitOutermost
<1>7. EverySignerApproved'
  BY DEF SignerInv, EverySignerApproved, RequiredSigners
<1>8. NoPrivilegeBeyondEnvelope' /\ PdaBehindEnvelope'
  BY DEF SignerInv, NoPrivilegeBeyondEnvelope, PdaBehindEnvelope, RequiredSigners
<1>9. FramesBacked'
  BY <1>3, <1>4 DEF SignerInv, FramesBacked
<1>10. \A m \in Ids : Backed(m) => Backed(m)'
  BY <1>1, <1>3 DEF Backed
<1>11. \A m \in MessageId : started[m] > 0 => OnStack(m) \/ m \in Ids
  BY DEF SignerInv, Core, Good, UsedUp, Ids
<1>12. \A m \in MessageId : saved.started[m] > 0 => m \in Ids
  BY DEF SignerInv, Core, Good, UsedUp, Ids
<1>13. Ids' \subseteq MessageId
  <2>1. Len(book') \in Nat /\ Len(book') <= MaxMessages
    BY BookKept DEF BookGrows, GoodBook
  <2> QED
    BY <2>1, ExecutorAssumption DEF Ids, MessageId
<1>14. ReturnedBacked' /\ SavedBacked'
  BY <1>10, <1>11, <1>12, <1>13 DEF SignerInv, ReturnedBacked, SavedBacked, OnStack
<1> QED
  BY <1>5, <1>6, <1>7, <1>8, <1>9, <1>14 DEF SignerInv

(* While the book and the signatures stay, so do the consents.                   *)
LEMMA SameBacking ==
    ASSUME UNCHANGED <<book, approved>>
    PROVE  /\ Ids' = Ids
           /\ \A m : Carried(m)' = Carried(m)
           /\ \A m : \A n : BackedUpTo(m, n)' <=> BackedUpTo(m, n)
           /\ \A m : Backed(m)' <=> Backed(m)
BY DEF Ids, Carried, HoldsCarried, Consents, BackedUpTo, Backed

(* The signer side of a step of the executor: the Submit in progress ends with    *)
(* the outermost invocation.                                                    *)
Follows ==
    /\ submission' = IF stack' = <<>> THEN NoEnvelope ELSE submission
    /\ UNCHANGED approved

Runs == InvokeLeaf \/ InvokeExecute \/ Return

\* An instruction runs within one transaction: nothing is committed.
LEMMA RunsKeeps ==
    ASSUME Runs
    PROVE  UNCHANGED <<book, saved, signers, slot, phase>>
BY DEF Runs, InvokeLeaf, InvokeExecute, Return

(* What an inner step does is none of the outermost invocation's concern.        *)
LEMMA OutermostKept ==
    ASSUME SignerInv, Runs, Follows
    PROVE  /\ SignatureTypes' /\ EverySignerApproved' /\ NoPrivilegeBeyondEnvelope'
           /\ PdaBehindEnvelope'
           /\ submission' # NoEnvelope =>
                 /\ submission' = submission /\ stack # <<>> /\ stack' # <<>>
                 /\ stack'[1].message = submission.envelope.message
<1>1. /\ signers' = signers /\ Ids' = Ids
      /\ stack' # <<>> => /\ stack # <<>>
                          /\ stack'[1].message = stack[1].message
                          /\ stack'[1].signers = stack[1].signers
                          /\ stack'[1].writable = stack[1].writable
  BY RuntimeKeepsOutermost, RunsKeeps DEF SignerInv, Runs, Ids
<1>2. SignatureTypes'
  BY <1>1 DEF SignerInv, SignatureTypes, Follows
<1>3. submission' # NoEnvelope => submission' = submission /\ stack' # <<>>
  BY DEF Follows
<1>4. EverySignerApproved'
  BY <1>1, <1>3 DEF SignerInv, EverySignerApproved, RequiredSigners, Follows
<1>5. NoPrivilegeBeyondEnvelope'
  BY <1>1, <1>3 DEF SignerInv, NoPrivilegeBeyondEnvelope, RequiredSigners
<1>6. PdaBehindEnvelope'
  BY <1>1 DEF SignerInv, PdaBehindEnvelope, Follows
<1> QED
  BY <1>1, <1>2, <1>3, <1>4, <1>5, <1>6 DEF SignerInv, SubmitOutermost

(* The instruction the runtime lets a message invoke is backed: the signer        *)
(* privileges it needs are held by the outermost invocation.                    *)
LEMMA CurrentBacked ==
    ASSUME SignerInv, HasNext, Invocable(Top, ResolvedCall(Top))
    PROVE  BackedUpTo(Top.message, Top.next)
<1>1. Core /\ stack # <<>>
  BY DEF SignerInv, HasNext
<1>2. /\ Top = stack[Len(stack)] /\ Len(stack) \in Nat \ {0}
      /\ Top.next \in Nat /\ Top.accounts = book[Top.message].body.keys
      /\ Top.signers \subseteq stack[1].signers
  BY <1>1, TopFacts
<1>3. BackedUpTo(Top.message, Top.next - 1)
  BY <1>2 DEF SignerInv, FramesBacked
<1>4. ResolvedCall(Top).signers = InstructionSigners(book[Top.message].body, Top.next)
  BY <1>2 DEF ResolvedCall, HeaderSigners, InstructionSigners, CurrentIx, Instructions
<1>5. ResolvedCall(Top).signers \subseteq Top.signers
  BY DEF Invocable, NoEscalation
<1>6. ASSUME NEW k \in Authority,
             Pda[k] \in InstructionSigners(book[Top.message].body, Top.next)
      PROVE  Consents(k, Top.message)
  <2>1. Pda[k] \in stack[1].signers
    BY <1>2, <1>4, <1>5, <1>6
  <2>2. submission # NoEnvelope /\ <<k, submission.envelope>> \in approved
    BY <1>1, <2>1 DEF SignerInv, PdaBehindEnvelope
  <2>3. Top.message \in Carried(submission.envelope.message)
    BY <1>2, <2>2 DEF SignerInv, SubmitOutermost
  <2> QED
    BY <2>2, <2>3 DEF Consents
<1>7. \A j \in 1..Top.next : j \in 1..(Top.next - 1) \/ j = Top.next
  BY <1>2
<1> QED
  BY <1>3, <1>6, <1>7 DEF BackedUpTo

(* A step of the executor that leaves the new frames carried and backed, and      *)
(* takes only completed messages off the stack, keeps the invariant.            *)
LEMMA FramesKeep ==
    ASSUME SignerInv, Core', Runs, Follows,
           submission # NoEnvelope =>
              \A i \in 1..Len(stack') :
                  stack'[i].message \in Carried(submission.envelope.message),
           \A i \in 1..Len(stack') : BackedUpTo(stack'[i].message, stack'[i].next - 1),
           \A m \in Ids : started'[m] > 0 /\ ~OnStack(m)' => Backed(m),
           \A m \in Ids : started[m] > 0 => started'[m] > 0
    PROVE  SignerInv'
<1>1. UNCHANGED <<book, approved>> /\ saved' = saved
  BY RunsKeeps DEF Follows
<1>2. /\ SignatureTypes' /\ EverySignerApproved' /\ NoPrivilegeBeyondEnvelope'
      /\ PdaBehindEnvelope'
      /\ submission' # NoEnvelope =>
            /\ submission' = submission /\ stack # <<>> /\ stack' # <<>>
            /\ stack'[1].message = submission.envelope.message
  BY OutermostKept
<1>3. /\ Ids' = Ids
      /\ \A m : Carried(m)' = Carried(m)
      /\ \A m : \A n : BackedUpTo(m, n)' <=> BackedUpTo(m, n)
      /\ \A m : Backed(m)' <=> Backed(m)
  BY <1>1, SameBacking
<1>4. SubmitOutermost'
  BY <1>2, <1>3 DEF SubmitOutermost
<1>5. FramesBacked'
  BY <1>3 DEF FramesBacked
<1>6. ReturnedBacked'
  BY <1>3 DEF ReturnedBacked
<1>7. SavedBacked'
  BY <1>1, <1>3 DEF SignerInv, SavedBacked
<1> QED
  BY <1>2, <1>4, <1>5, <1>6, <1>7 DEF SignerInv

\* A leaf runs under the signers of its frame, as the invariant has them.
LEMMA InvokeLeafKeepsSigner ==
    ASSUME SignerInv, Core', InvokeLeaf, Follows
    PROVE  SignerInv'
<1> DEFINE n == Len(stack)
<1>1. /\ HasNext /\ Invocable(Top, ResolvedCall(Top)) /\ stack # <<>> /\ Core
      /\ stack' = Front(stack) \o <<Advanced(Top)>>
      /\ UNCHANGED <<book, started>>
  BY DEF InvokeLeaf, HasNext, SignerInv
<1>2. stack \in Seq(FrameType)
  BY <1>1 DEF Core, Frames
<1>3. /\ n \in Nat \ {0} /\ Top = stack[n] /\ Top \in FrameType /\ Top.next \in Nat
      /\ Advanced(Top) \in FrameType
      /\ Advanced(Top).message = Top.message /\ Advanced(Top).next = Top.next + 1
  BY <1>1, TopFacts, AdvancedFacts
<1>4. /\ Len(stack') = n
      /\ \A i \in 1..n : stack'[i] = IF i = n THEN Advanced(Top) ELSE stack[i]
  BY <1>1, <1>2, <1>3, LastReplaced
<1> HIDE DEF n
<1>5. \A i \in 1..n : stack'[i].message = stack[i].message
  BY <1>3, <1>4
<1>6. \A i \in 1..n : BackedUpTo(stack'[i].message, stack'[i].next - 1)
  <2>1. BackedUpTo(Top.message, Top.next)
    BY <1>1, CurrentBacked
  <2>2. \A i \in 1..n : BackedUpTo(stack[i].message, stack[i].next - 1)
    BY DEF SignerInv, FramesBacked, n
  <2>3. Advanced(Top).next - 1 = Top.next
    BY <1>3
  <2> QED
    BY <1>3, <1>4, <2>1, <2>2, <2>3
<1>7. \A m : OnStack(m)' <=> OnStack(m)
  BY <1>4, <1>5 DEF OnStack, n
<1>8. submission # NoEnvelope =>
         \A i \in 1..n : stack'[i].message \in Carried(submission.envelope.message)
  BY <1>5 DEF SignerInv, SubmitOutermost, n
<1>9. \A m \in Ids : started'[m] > 0 /\ ~OnStack(m)' => Backed(m)
  BY <1>1, <1>7 DEF SignerInv, ReturnedBacked
<1> QED
  BY <1>1, <1>4, <1>6, <1>8, <1>9, FramesKeep DEF Runs

\* A nested Execute runs for signers that its caller already had.
LEMMA InvokeExecuteKeepsSigner ==
    ASSUME SignerInv, Core', InvokeExecute, Follows
    PROVE  SignerInv'
<1> DEFINE n == Len(stack)
           call == ResolvedCall(Top)
<1>1. /\ HasNext /\ Invocable(Top, call) /\ stack # <<>> /\ Core
      /\ stack' = Front(stack) \o <<Advanced(Top), Frame(call)>>
      /\ book' = book
  BY DEF InvokeExecute, HasNext, SignerInv
<1>2. Request(call) /\ ExecuteOk(call) /\ Execute(call)
  BY <1>1, InvokeExecuteRequest
<1>3. stack \in Seq(FrameType)
  BY <1>1 DEF Core, Frames
<1>4. /\ n \in Nat \ {0} /\ Top = stack[n] /\ Top \in FrameType /\ Top.next \in Nat
      /\ Advanced(Top) \in FrameType
      /\ Advanced(Top).message = Top.message /\ Advanced(Top).next = Top.next + 1
  BY <1>1, TopFacts, AdvancedFacts
<1>5. Frame(call) \in FrameType /\ Frame(call).message = call.message /\ Frame(call).next = 1
  BY <1>2, FrameFacts
<1>6. call.message = book[Top.message].inner /\ call.message \in Ids
  BY <1>2 DEF ResolvedCall, Request
<1>7. started' = [started EXCEPT ![call.message] = @ + 1]
  BY <1>2 DEF Execute
<1> HIDE DEF call
<1>8. /\ Len(stack') = n + 1
      /\ \A i \in 1..(n + 1) : stack'[i] =
            IF i = n + 1 THEN Frame(call) ELSE IF i = n THEN Advanced(Top) ELSE stack[i]
  BY <1>1, <1>3, <1>4, <1>5, LastPushed
<1> HIDE DEF n
<1>9. /\ \A i \in 1..n : i \in 1..(n + 1) /\ stack'[i].message = stack[i].message
      /\ n + 1 \in 1..(n + 1) /\ stack'[n + 1].message = call.message
      /\ \A i \in 1..(n + 1) : i \in 1..n \/ i = n + 1
  BY <1>4, <1>5, <1>8
<1>10. \A i \in 1..(n + 1) : BackedUpTo(stack'[i].message, stack'[i].next - 1)
  <2>1. BackedUpTo(Top.message, Top.next)
    BY <1>1, CurrentBacked DEF call
  <2>2. \A i \in 1..n : BackedUpTo(stack[i].message, stack[i].next - 1)
    BY DEF SignerInv, FramesBacked, n
  <2>3. Advanced(Top).next - 1 = Top.next /\ Frame(call).next - 1 = 0
    BY <1>4, <1>5
  <2>4. BackedUpTo(call.message, 0)
    BY DEF BackedUpTo
  <2> QED
    BY <1>4, <1>5, <1>8, <1>9, <2>1, <2>2, <2>3, <2>4
<1>11. \A m : OnStack(m)' <=> OnStack(m) \/ m = call.message
  BY <1>8, <1>9 DEF OnStack, n
<1>12. submission # NoEnvelope =>
          \A i \in 1..(n + 1) : stack'[i].message \in Carried(submission.envelope.message)
  <2> SUFFICES ASSUME submission # NoEnvelope
               PROVE  \A i \in 1..(n + 1) :
                         stack'[i].message \in Carried(submission.envelope.message)
    OBVIOUS
  <2>1. \A i \in 1..n : stack[i].message \in Carried(submission.envelope.message)
    BY DEF SignerInv, SubmitOutermost, n
  <2>2. call.message # NoMessage /\ GoodBook(book) /\ submission.envelope.message \in Ids
    BY <1>1, <1>6, SubmissionFacts DEF Ids, NoMessage, Core
  <2>3. call.message \in Carried(submission.envelope.message)
    BY <1>4, <1>6, <2>1, <2>2, CarriedFacts
  <2> QED
    BY <1>9, <2>1, <2>3
<1>13. \A m \in Ids : started[m] \in Nat /\ started[call.message] \in Nat
  BY <1>1, <1>6, GoodTypes DEF Core, Ids
<1>14. started \in [MessageId -> Nat] /\ Ids \subseteq MessageId
  BY <1>1, BookFacts DEF Core, Good, Ids
<1>15. \A m \in Ids : started'[m] = IF m = call.message THEN started[m] + 1 ELSE started[m]
  BY <1>7, <1>14
<1>16. \A m \in Ids : /\ started'[m] > 0 /\ ~OnStack(m)' => Backed(m)
                      /\ started[m] > 0 => started'[m] > 0
  BY <1>11, <1>13, <1>15 DEF SignerInv, ReturnedBacked
<1> QED
  BY <1>8, <1>10, <1>12, <1>16, FramesKeep DEF Runs

\* An Execute that ends leaves its caller as it was.
LEMMA ReturnKeepsSigner ==
    ASSUME SignerInv, Core', Return, Follows
    PROVE  SignerInv'
<1> DEFINE n == Len(stack)
<1>1. /\ ~HasNext /\ stack # <<>> /\ Core
      /\ stack' = Front(stack)
      /\ UNCHANGED <<book, started>>
  BY DEF Return, HasNext, SignerInv
<1>2. stack \in Seq(FrameType)
  BY <1>1 DEF Core, Frames
<1>3. /\ n \in Nat \ {0} /\ Top = stack[n] /\ Top.next \in Nat
      /\ Len(Instructions(Top)) \in Nat /\ Top.next <= Len(Instructions(Top)) + 1
  BY <1>1, TopFacts
<1>4. Len(stack') = n - 1 /\ \A i \in 1..(n - 1) : stack'[i] = stack[i]
  BY <1>1, <1>2, FrontFacts
<1> HIDE DEF n
<1>5. Top.next - 1 = Len(Instructions(Top))
  BY <1>1, <1>3 DEF HasNext
<1>6. \A i \in 1..n : BackedUpTo(stack[i].message, stack[i].next - 1)
  BY DEF SignerInv, FramesBacked, n
<1>7. Backed(Top.message)
  BY <1>3, <1>5, <1>6 DEF Backed, Instructions
<1>8. \A i \in 1..(n - 1) : i \in 1..n
  BY <1>3
<1>9. \A i \in 1..n : i \in 1..(n - 1) \/ i = n
  BY <1>3
<1>10. \A m : OnStack(m) => OnStack(m)' \/ m = Top.message
  BY <1>3, <1>4, <1>9 DEF OnStack, n
<1>11. \A m \in Ids : started'[m] > 0 /\ ~OnStack(m)' => Backed(m)
  BY <1>1, <1>7, <1>10 DEF SignerInv, ReturnedBacked
<1>12. submission # NoEnvelope =>
          \A i \in 1..(n - 1) : stack'[i].message \in Carried(submission.envelope.message)
  BY <1>4, <1>8 DEF SignerInv, SubmitOutermost, n
<1>13. \A i \in 1..(n - 1) : BackedUpTo(stack'[i].message, stack'[i].next - 1)
  BY <1>4, <1>6, <1>8
<1> QED
  BY <1>1, <1>4, <1>11, <1>12, <1>13, FramesKeep DEF Runs

(* The invariant once nothing is running: only the messages that have run and     *)
(* those that a failure would leave behind have to be backed.                   *)
LEMMA AtRest ==
    ASSUME Core', SignatureTypes', stack' = <<>>, submission' = NoEnvelope,
           ReturnedBacked', SavedBacked'
    PROVE  SignerInv'
<1>1. SubmitOutermost' /\ EverySignerApproved' /\ NoPrivilegeBeyondEnvelope'
  BY DEF SubmitOutermost, EverySignerApproved, NoPrivilegeBeyondEnvelope
<1>2. PdaBehindEnvelope' /\ FramesBacked'
  BY DEF PdaBehindEnvelope, FramesBacked
<1> QED
  BY <1>1, <1>2 DEF SignerInv

\* What is committed ran on the authorities' signatures.
LEMMA CommitKeepsSigner ==
    ASSUME SignerInv, Core', Commit, Follows
    PROVE  SignerInv'
<1>1. /\ UNCHANGED <<book, approved>> /\ started' = started /\ saved' = txState
      /\ stack = <<>> /\ stack' = <<>>
  BY DEF Commit, Follows, history
<1>2. Ids' = Ids /\ \A m : Backed(m)' <=> Backed(m)
  BY <1>1, SameBacking
<1>3. \A m \in Ids : started[m] > 0 => Backed(m)
  BY <1>1 DEF SignerInv, ReturnedBacked, OnStack
<1>4. saved'.started = started
  BY <1>1 DEF txState
<1>5. ReturnedBacked' /\ SavedBacked'
  BY <1>1, <1>2, <1>3, <1>4 DEF ReturnedBacked, SavedBacked
<1>6. SignatureTypes' /\ submission' = NoEnvelope
  BY <1>1, <1>2 DEF SignerInv, SignatureTypes, Follows
<1> QED
  BY <1>1, <1>5, <1>6, AtRest

\* What is rolled back has not happened.
LEMMA RollbackKeepsSigner ==
    ASSUME SignerInv, Core', Rollback, Follows
    PROVE  SignerInv'
<1>1. /\ UNCHANGED <<book, approved>> /\ started' = saved.started /\ saved' = saved
      /\ stack' = <<>>
  BY DEF Rollback, Follows
<1>2. Ids' = Ids /\ \A m : Backed(m)' <=> Backed(m)
  BY <1>1, SameBacking
<1>3. ReturnedBacked' /\ SavedBacked'
  BY <1>1, <1>2 DEF SignerInv, ReturnedBacked, SavedBacked
<1>4. SignatureTypes' /\ submission' = NoEnvelope
  BY <1>1, <1>2 DEF SignerInv, SignatureTypes, Follows
<1> QED
  BY <1>1, <1>3, <1>4, AtRest

(* A top-level Execute, submitted to the executor or through the signer program.  *)
LEMMA StartKeeps ==
    ASSUME SignerInv, Core', stack = <<>>,
           NEW call, Request(call), ExecuteOk(call), Execute(call),
           stack' = <<Frame(call)>>,
           UNCHANGED <<book, saved, approved>>,
           SignatureTypes', EverySignerApproved', NoPrivilegeBeyondEnvelope',
           PdaBehindEnvelope',
           submission' # NoEnvelope => submission'.envelope.message = call.message
    PROVE  SignerInv'
<1>1. Core
  BY DEF SignerInv
<1>2. Frame(call).message = call.message /\ Frame(call).next = 1 /\ call.message \in Ids
  BY FrameFacts DEF Request
<1>3. Len(stack') = 1 /\ stack'[1] = Frame(call) /\ stack' # <<>>
  OBVIOUS
<1>4. /\ Ids' = Ids
      /\ \A m : Carried(m)' = Carried(m)
      /\ \A m : Backed(m)' <=> Backed(m)
  BY SameBacking
<1>5. SubmitOutermost'
  BY <1>1, <1>2, <1>3, <1>4, CarriedFacts DEF SubmitOutermost, Core
<1>6. FramesBacked'
  BY <1>2, <1>3 DEF FramesBacked, BackedUpTo
<1>7. started \in [MessageId -> Nat] /\ Ids \subseteq MessageId
  BY <1>1, BookFacts DEF Core, Good, Ids
<1>8. \A m \in Ids : /\ started[m] \in Nat
                     /\ started'[m] = IF m = call.message THEN started[m] + 1 ELSE started[m]
  BY <1>7 DEF Execute
<1>9. OnStack(call.message)'
  BY <1>2, <1>3 DEF OnStack
<1>10. \A m : ~OnStack(m)
  BY DEF OnStack
<1>11. ReturnedBacked'
  BY <1>4, <1>8, <1>9, <1>10 DEF SignerInv, ReturnedBacked
<1>12. SavedBacked'
  BY <1>2, <1>4, <1>8 DEF SignerInv, SavedBacked
<1> QED
  BY <1>5, <1>6, <1>11, <1>12 DEF SignerInv

\* An Execute of the relayer's own lends nobody's PDA.
LEMMA SubmitExecuteKeepsSigner ==
    ASSUME SignerInv, Core', NEW call \in ExecuteCalls, SubmitExecute(call), Follows
    PROVE  SignerInv'
<1>1. /\ stack = <<>> /\ ExecuteOk(call) /\ Execute(call) /\ stack' = <<Frame(call)>>
      /\ UNCHANGED <<book, saved, approved, signers>>
  BY DEF SubmitExecute, MayIssue, Follows
<1>2. Core /\ submission = NoEnvelope /\ submission' = NoEnvelope
  BY <1>1 DEF SignerInv, SubmitOutermost, Follows
<1>3. Request(call) /\ call.signers = signers
  BY <1>2, SubmittedRequest
<1>4. SignatureTypes' /\ EverySignerApproved' /\ NoPrivilegeBeyondEnvelope'
  BY <1>1, <1>2 DEF SignerInv, SignatureTypes, EverySignerApproved,
                    NoPrivilegeBeyondEnvelope, Ids
<1>5. stack'[1].signers = signers /\ signers \subseteq KeyHolder
  BY <1>1, <1>2, <1>3, FrameFacts DEF Core
<1>6. PdaBehindEnvelope'
  BY <1>5, PdaFacts DEF PdaBehindEnvelope
<1> QED
  BY <1>1, <1>2, <1>3, <1>4, <1>6, StartKeeps

(* What Submit has checked about the signatures it was given.                     *)
LEMMA VerifiedFacts ==
    ASSUME NEW envelope \in Envelope, NEW relay, relay = envelope.shape.keys,
           NEW signatures \in SignatureLists(envelope),
           SignaturesOk(relay, signatures, envelope)
    PROVE  /\ VerifiedKeys(signatures, envelope) \subseteq RequiredSigners(envelope.shape)
           /\ \A k \in VerifiedKeys(signatures, envelope) : <<k, envelope>> \in approved
           /\ \A k \in RequiredSigners(envelope.shape) :
                 <<k, envelope>> \in approved \/ k \in signers
<1>1. envelope.shape \in EnvelopeShape
  BY DEF Envelope
<1>2. envelope.shape.required \in Nat
  BY <1>1, SignerAssumption
<1>3. Len(signatures) = envelope.shape.required
  BY DEF SignaturesOk
<1>4. PICK len \in {envelope.shape.required - 1, envelope.shape.required} :
         signatures \in [1..len -> {NoSignature} \cup approved]
  BY DEF SignatureLists
<1>5. len = envelope.shape.required
  <2>1. len \in Nat
    BY <1>1, <1>4, SignerAssumption
  <2>2. Len(signatures) = len
    BY <1>4, <2>1
  <2> QED
    BY <1>3, <2>2
<1>6. \A i \in 1..envelope.shape.required :
         IF signatures[i] = NoSignature THEN relay[i] \in signers
         ELSE <<envelope.shape.keys[i], envelope>> \in approved
  BY <1>3, <1>4, <1>5 DEF SignaturesOk, SignatureOk, Verifies
<1>7. VerifiedKeys(signatures, envelope) =
         {envelope.shape.keys[i] : i \in {j \in 1..envelope.shape.required :
                                             signatures[j] # NoSignature}}
  BY <1>3 DEF VerifiedKeys
<1> QED
  BY <1>6, <1>7 DEF RequiredSigners

(* What Submit asks of the executor: signer privileges of keys that signed the     *)
(* transaction, and of the programmatic signers of verified authorities.         *)
LEMMA ExecutorCallFacts ==
    ASSUME SignerInv, NEW envelope \in Envelope, envelope.message \in Ids,
           NEW relay, relay = envelope.shape.keys,
           NEW signatures \in SignatureLists(envelope),
           SignaturesOk(relay, signatures, envelope),
           NEW call, call = ExecutorCall(relay, signatures, envelope)
    PROVE  /\ Request(call) /\ call.message = envelope.message
           /\ call.writable \subseteq
                 {envelope.shape.keys[i] : i \in envelope.shape.writable}
           /\ call.signers \subseteq
                 RequiredSigners(envelope.shape)
                    \cup {Pda[k] : k \in RequiredSigners(envelope.shape) \cap Authority}
           /\ \A k \in Authority : Pda[k] \in call.signers => <<k, envelope>> \in approved
<1> DEFINE shape   == envelope.shape
           indices == Range(shape.accounts)
<1>1. /\ shape \in EnvelopeShape /\ shape.keys \in Seq(Address)
      /\ shape.required \in 1..Len(shape.keys) /\ shape.accounts \in Seq(1..Len(shape.keys))
  BY SignerAssumption DEF Envelope
<1>2. /\ indices \subseteq 1..Len(shape.keys)
      /\ \A i \in indices : shape.keys[i] \in Address
  BY <1>1 DEF Range
<1>3. /\ call.message = envelope.message
      /\ call.accounts = [k \in 1..Len(shape.accounts) |-> relay[shape.accounts[k]]]
      /\ call.signers = ({relay[i] : i \in {j \in indices : j <= shape.required}} \cap signers)
                          \cup ({relay[i] : i \in indices} \cap Promoted(signatures, envelope))
      /\ call.writable = {relay[i] : i \in indices \cap shape.writable}
  BY DEF ExecutorCall
<1>4. call.accounts \in Seq(Address)
  BY <1>1, <1>3
<1> HIDE DEF shape, indices
<1>5. call.signers \subseteq Address /\ call.writable \subseteq Address
  <2>1. \A i \in indices : relay[i] \in Address
    BY <1>2 DEF shape
  <2>2. call.writable \subseteq Address
    BY <1>3, <2>1
  <2>3. QED
    BY <1>3, <2>1, <2>2
<1>6. Request(call)
  BY <1>3, <1>4, <1>5 DEF Request
<1>7. call.writable \subseteq {shape.keys[i] : i \in shape.writable}
  BY <1>3 DEF shape
<1>8. {relay[i] : i \in {j \in indices : j <= shape.required}} \subseteq RequiredSigners(shape)
  BY <1>1, <1>2 DEF RequiredSigners, shape
<1>9. /\ VerifiedKeys(signatures, envelope) \subseteq RequiredSigners(shape)
      /\ \A k \in VerifiedKeys(signatures, envelope) : <<k, envelope>> \in approved
  BY VerifiedFacts DEF shape
<1>10. Promoted(signatures, envelope) \subseteq
          {Pda[k] : k \in RequiredSigners(shape) \cap Authority}
  BY <1>9 DEF Promoted
<1>11. call.signers \subseteq
          RequiredSigners(shape) \cup {Pda[k] : k \in RequiredSigners(shape) \cap Authority}
  BY <1>3, <1>8, <1>10
<1>12. ASSUME NEW k \in Authority, Pda[k] \in call.signers
       PROVE  <<k, envelope>> \in approved
  <2>1. signers \subseteq KeyHolder
    BY DEF SignerInv, Core
  <2>2. Pda[k] \in Promoted(signatures, envelope)
    BY <1>3, <1>12, <2>1, PdaFacts
  <2>3. PICK j \in VerifiedKeys(signatures, envelope) \cap Authority : Pda[j] = Pda[k]
    BY <2>2 DEF Promoted
  <2> QED
    BY <1>9, <2>3, PdaFacts
<1> QED
  BY <1>3, <1>6, <1>7, <1>11, <1>12 DEF shape

\* Submit lends the PDAs of the keys whose signatures it verified.
LEMMA SubmitKeepsSigner ==
    ASSUME SignerInv, NEW envelope \in Envelope, envelope.message \in Ids,
           NEW relay, NEW signatures \in SignatureLists(envelope),
           NEW relayWritable \in RelayWritable,
           Submit(relay, signatures, envelope, relayWritable)
    PROVE  SignerInv'
<1> DEFINE call == ExecutorCall(relay, signatures, envelope)
<1>1. /\ phase = "running" /\ stack = <<>> /\ ExecuteOk(call) /\ Execute(call)
      /\ stack' = <<Frame(call)>>
      /\ UNCHANGED <<slot, book, phase, signers, finished, skipped, saved>>
      /\ approved' = approved
      /\ submission' = [envelope |-> envelope, relayWritable |-> relayWritable]
      /\ relay = envelope.shape.keys /\ SignaturesOk(relay, signatures, envelope)
  BY DEF Submit, SubmitOk, MayIssue, MirrorsEnvelope
<1> HIDE DEF call
<1>2. /\ Request(call) /\ call.message = envelope.message
      /\ call.writable \subseteq {envelope.shape.keys[i] : i \in envelope.shape.writable}
      /\ call.signers \subseteq
            RequiredSigners(envelope.shape)
               \cup {Pda[k] : k \in RequiredSigners(envelope.shape) \cap Authority}
      /\ \A k \in Authority : Pda[k] \in call.signers => <<k, envelope>> \in approved
  BY <1>1, ExecutorCallFacts DEF call
<1>3. \A k \in RequiredSigners(envelope.shape) : <<k, envelope>> \in approved \/ k \in signers
  BY <1>1, VerifiedFacts
<1>4. Core
  BY DEF SignerInv
<1>5. Core'
  BY <1>1, <1>2, <1>4, SubmitKeepsCore
<1>6. submission' \in Submission /\ submission'.envelope = envelope
  BY <1>1 DEF Submission
<1>7. submission' # NoEnvelope
  BY <1>6, SignerAssumption DEF Submission
<1>8. SignatureTypes'
  BY <1>1, <1>6 DEF SignerInv, SignatureTypes, Ids
<1>9. EverySignerApproved'
  BY <1>1, <1>3, <1>6 DEF EverySignerApproved, RequiredSigners
<1>10. /\ stack'[1].signers = call.signers /\ stack'[1].writable = call.writable
  BY <1>1, <1>2, FrameFacts
<1>11. NoPrivilegeBeyondEnvelope'
  BY <1>2, <1>6, <1>10 DEF NoPrivilegeBeyondEnvelope, RequiredSigners
<1>12. PdaBehindEnvelope'
  BY <1>1, <1>2, <1>6, <1>7, <1>10 DEF PdaBehindEnvelope
<1> QED
  BY <1>1, <1>2, <1>5, <1>6, <1>8, <1>9, <1>11, <1>12, StartKeeps

\* A signature that enters circulation takes none away.
LEMMA ApproveKeepsSigner ==
    ASSUME SignerInv, NEW envelope \in Envelope, NEW key \in RequiredSigners(envelope.shape),
           Approve(key, envelope)
    PROVE  SignerInv'
<1>1. /\ envelope.message \in Ids /\ approved' = approved \cup {<<key, envelope>>}
      /\ UNCHANGED vars /\ submission' = submission
  BY DEF Approve
<1>2. Core /\ Core'
  BY <1>1, StutterKeepsCore DEF SignerInv
<1>3. key \in Address
  <2>1. envelope.shape \in EnvelopeShape
    BY DEF Envelope
  <2>2. envelope.shape.keys \in Seq(Address) /\ envelope.shape.required \in 1..Len(envelope.shape.keys)
    BY <2>1, SignerAssumption
  <2> QED
    BY <2>2 DEF RequiredSigners
<1>4. UNCHANGED <<book, stack, started, saved, signers>>
  BY <1>1 DEF vars, history
<1>5. BookGrows /\ Ids' = Ids
  BY <1>2, <1>4 DEF BookGrows, Core, Ids
<1>6. approved' \subseteq Address \X Envelope /\ \A s \in approved' : s[2].message \in Ids
  BY <1>1, <1>3 DEF SignerInv, SignatureTypes
<1> QED
  BY <1>1, <1>2, <1>4, <1>5, <1>6, QuietKeeps

(* The executor's steps between the invocations of messages.                     *)
Waits ==
    \/ \E body \in Body, lifetime \in Lifetimes, inner \in {NoMessage} \cup Ids :
            Compose(body, lifetime, inner)
    \/ NextSlot
    \/ \E keys \in SUBSET KeyHolder : Begin(keys)
    \/ \E call \in DirectCalls : SubmitLeaf(call)
    \/ UNCHANGED vars

\* Every other step is none of the signer program's concern.
LEMMA WaitsKeepsSigner ==
    ASSUME SignerInv, Core', Waits, Follows
    PROVE  SignerInv'
<1>1. Core
  BY DEF SignerInv
<1>2. /\ UNCHANGED <<stack, started, saved>>
      /\ signers' = signers \/ signers = {}
      /\ book' = book \/ \E message \in Message : book' = Append(book, message)
  <2>1. ASSUME NEW body \in Body, NEW lifetime \in Lifetimes,
               NEW inner \in {NoMessage} \cup Ids, Compose(body, lifetime, inner)
        PROVE  /\ UNCHANGED <<stack, started, saved, signers>>
               /\ \E message \in Message : book' = Append(book, message)
    <3> DEFINE message == [body |-> body, lifetime |-> lifetime, inner |-> inner]
    <3>1. book' = Append(book, message)
      BY <2>1 DEF Compose
    <3>2. GoodBook(book) /\ GoodBook(book)'
      BY <1>1 DEF Core
    <3>3. book' \in Seq(Message) /\ Len(book') \in Nat \ {0} /\ book'[Len(book')] = message
      BY <3>1, <3>2 DEF GoodBook
    <3>4. message \in Message
      BY <3>3
    <3>5. UNCHANGED <<stack, started, saved, signers>>
      BY <2>1 DEF Compose, history
    <3> HIDE DEF message
    <3> QED
      BY <3>1, <3>4, <3>5
  <2>2. CASE NextSlot
    BY <2>2 DEF NextSlot, history
  <2>3. ASSUME NEW keys \in SUBSET KeyHolder, Begin(keys)
        PROVE  UNCHANGED <<stack, started, saved, book>> /\ signers = {}
    BY <1>1, <2>3 DEF Begin, history, Core
  <2>4. ASSUME NEW call \in DirectCalls, SubmitLeaf(call)
        PROVE  UNCHANGED <<stack, started, saved, book, signers>>
    BY <2>4 DEF SubmitLeaf
  <2>5. CASE UNCHANGED vars
    BY <2>5 DEF vars, history
  <2> QED
    BY <2>1, <2>2, <2>3, <2>4, <2>5 DEF Waits
<1>3. BookGrows
  BY <1>1, <1>2 DEF BookGrows, Core
<1>4. submission' = submission /\ approved' = approved
  BY <1>2 DEF SignerInv, SubmitOutermost, Follows
<1>5. approved' \subseteq Address \X Envelope /\ \A s \in approved' : s[2].message \in Ids'
  BY <1>3, <1>4, BookKept DEF SignerInv, SignatureTypes
<1> QED
  BY <1>2, <1>3, <1>4, <1>5, QuietKeeps

(* Every step keeps the invariant.                                               *)
LEMMA StepKeepsSigner ==
    ASSUME SignerInv, [SignerNext]_allVars
    PROVE  SignerInv'
<1>1. ASSUME NEW envelope \in Envelope, NEW key \in RequiredSigners(envelope.shape),
             Approve(key, envelope)
      PROVE  SignerInv'
  BY <1>1, ApproveKeepsSigner
<1>2. ASSUME NEW envelope \in Envelope, envelope.message \in Ids,
             NEW relay \in RelayAccounts(envelope), NEW signatures \in SignatureLists(envelope),
             NEW relayWritable \in RelayWritable,
             Submit(relay, signatures, envelope, relayWritable)
      PROVE  SignerInv'
  BY <1>2, SubmitKeepsSigner
<1>3. ASSUME [Next]_vars, Follows PROVE SignerInv'
  <2>1. Core'
    BY <1>3, NextKeepsCore DEF SignerInv
  <2>2. CASE Waits
    BY <1>3, <2>1, <2>2, WaitsKeepsSigner
  <2>3. ASSUME NEW call \in ExecuteCalls, SubmitExecute(call) PROVE SignerInv'
    BY <1>3, <2>1, <2>3, SubmitExecuteKeepsSigner
  <2>4. CASE SubmitFails \/ InvokeFails
    BY <1>3, <2>1, <2>4, RollbackKeepsSigner DEF SubmitFails, InvokeFails
  <2>5. CASE Commit
    BY <1>3, <2>1, <2>5, CommitKeepsSigner
  <2>6. CASE InvokeLeaf \/ InvokeExecute \/ Return
    BY <1>3, <2>1, <2>6, InvokeLeafKeepsSigner, InvokeExecuteKeepsSigner, ReturnKeepsSigner
  <2> QED
    BY <1>3, <2>2, <2>3, <2>4, <2>5, <2>6 DEF Next, RuntimeStep, Waits
<1>4. CASE Composed(Next)
  BY <1>3, <1>4 DEF Composed, Follows
<1>5. CASE UNCHANGED allVars
  <2>1. UNCHANGED vars /\ UNCHANGED <<approved, submission, stack>>
    BY <1>5 DEF allVars, signerVars, vars
  <2>2. Follows
    BY <2>1 DEF Follows, SignerInv, SubmitOutermost
  <2> QED
    BY <1>3, <2>1, <2>2
<1> QED
  BY <1>1, <1>2, <1>4, <1>5 DEF SignerNext

(* Every reachable state satisfies the invariant.                                *)
THEOREM SignerInvariance == SignerSpec => []SignerInv
<1>1. SignerInv /\ [SignerNext]_allVars => SignerInv'
  BY StepKeepsSigner
<1> QED
  BY SignerInitEstablishes, <1>1, PTL DEF SignerSpec

(* While an envelope's instructions run, each of its required signers approved    *)
(* that envelope or signed the transaction: verify_authority_signatures.        *)
THEOREM SignersApprove == SignerSpec => []EverySignerApproved
<1>1. SignerInv => EverySignerApproved
  BY DEF SignerInv
<1> QED
  BY SignerInvariance, <1>1, PTL

(* The executor holds no privilege that the envelope does not list, whatever the  *)
(* relay transaction adds: invoke_executor_instruction.                         *)
THEOREM EnvelopesBound == SignerSpec => []NoPrivilegeBeyondEnvelope
<1>1. SignerInv => NoPrivilegeBeyondEnvelope
  BY DEF SignerInv
<1> QED
  BY SignerInvariance, <1>1, PTL

------------------------------------------------------------------------------
(* Who may take lamports out of an account, or change a nonce.                 *)

(* A top-level call needs the signature of whoever controls what it takes.        *)
LEMMA TopLevelTakes ==
    ASSUME NEW call, StaysWithin(ledger, ledger', call.writable, call.signers),
           NEW x \in Address, TakesFrom(x)
    PROVE  Controller(x) \in call.signers
<1>1. TakenFrom(ledger, ledger', x)
  BY DEF TakesFrom, TakenFrom
<1>2. Controller(x) = ControllerIn(ledger, x)
  BY DEF Controller, ControllerIn
<1> QED
  BY <1>1, <1>2 DEF StaysWithin

(* Nothing is taken where nothing changes.                                       *)
LEMMA NothingTakenIfSame ==
    ASSUME Core, ledger' = ledger, NEW x \in Address
    PROVE  ~TakesFrom(x)
<1>1. ledger[x].lamports \in Nat
  BY DEF Core, Good, Ledger, Cell
<1> QED
  BY <1>1 DEF TakesFrom

(* While an instruction of a message runs, there is an invocation in progress.    *)
LEMMA NotEmptied ==
    ASSUME NEW S, NEW s \in Seq(S), NEW f, NEW g
    PROVE  s \o <<f>> # <<>> /\ s \o <<f, g>> # <<>>
<1> DEFINE T == S \cup {f, g}
<1>1. s \in Seq(T) /\ <<f>> \in Seq(T) /\ <<f, g>> \in Seq(T)
  OBVIOUS
<1>2. Len(s \o <<f>>) = Len(s) + 1 /\ Len(s \o <<f, g>>) = Len(s) + 2 /\ Len(s) \in Nat
  BY <1>1
<1> QED
  BY <1>2

(* A programmatic signer gives up lamports, or has a nonce of its own replaced,   *)
(* only while a message runs that its authority signed an envelope for.         *)
THEOREM PdasActForAuthorities == SignerSpec => PdaActsForAuthority
<1> DEFINE Acts ==
        \A k \in Authority, x \in Address :
            phase' = "running" /\ TakesFrom(x) /\ Controller(x) = Pda[k] =>
                /\ submission' # NoEnvelope
                /\ <<k, submission'.envelope>> \in approved
                /\ stack'[1].message = submission'.envelope.message
<1>1. ASSUME SignerInv, [SignerNext]_allVars PROVE Acts
  <2> SUFFICES ASSUME NEW k \in Authority, NEW x \in Address,
                      phase' = "running", TakesFrom(x), Controller(x) = Pda[k]
               PROVE  /\ submission' # NoEnvelope
                      /\ <<k, submission'.envelope>> \in approved
                      /\ stack'[1].message = submission'.envelope.message
    OBVIOUS
  <2>1. Core /\ signers \subseteq KeyHolder
    BY <1>1 DEF SignerInv, Core
  <2>2. ledger' # ledger
    BY <2>1, NothingTakenIfSame
  <2>3. ASSUME NEW envelope \in Envelope, envelope.message \in Ids, NEW relay,
               NEW signatures \in SignatureLists(envelope),
               NEW relayWritable \in RelayWritable,
               Submit(relay, signatures, envelope, relayWritable)
        PROVE  /\ submission' # NoEnvelope
               /\ <<k, submission'.envelope>> \in approved
               /\ stack'[1].message = submission'.envelope.message
    <3> DEFINE call == ExecutorCall(relay, signatures, envelope)
    <3>1. /\ ExecuteOk(call) /\ Execute(call) /\ stack' = <<Frame(call)>>
          /\ submission' = [envelope |-> envelope, relayWritable |-> relayWritable]
          /\ relay = envelope.shape.keys /\ SignaturesOk(relay, signatures, envelope)
      BY <2>3 DEF Submit, SubmitOk, MirrorsEnvelope
    <3> HIDE DEF call
    <3>2. /\ Request(call) /\ call.message = envelope.message
          /\ Pda[k] \in call.signers => <<k, envelope>> \in approved
      BY <1>1, <2>3, <3>1, ExecutorCallFacts DEF call
    <3>3. StaysWithin(ledger, ledger', call.writable, call.signers)
      BY <2>1, <3>1, <3>2, ExecuteFacts DEF Execute
    <3>4. Pda[k] \in call.signers
      BY <3>3, TopLevelTakes
    <3>5. submission' # NoEnvelope /\ submission'.envelope = envelope
      BY <3>1, SignerAssumption
    <3>6. stack'[1].message = envelope.message
      BY <3>1, <3>2, FrameFacts
    <3> QED
      BY <3>2, <3>4, <3>5, <3>6
  <2>4. ASSUME NEW call \in ExecuteCalls, SubmitExecute(call) PROVE FALSE
    <3>1. Request(call) /\ call.signers = signers /\ ExecuteOk(call) /\ Execute(call)
      BY <2>1, <2>4, SubmittedRequest DEF SubmitExecute
    <3>2. StaysWithin(ledger, ledger', call.writable, call.signers)
      BY <2>1, <3>1, ExecuteFacts DEF Execute
    <3> QED
      BY <2>1, <3>1, <3>2, TopLevelTakes, PdaFacts
  <2>5. ASSUME NEW call \in DirectCalls, SubmitLeaf(call) PROVE FALSE
    <3>1. /\ WellFormed(call) /\ call.commitment \in {OtherCommitment} \cup Ids
          /\ call.signers = signers
      BY <2>1, DirectCallFacts
    <3>2. /\ LeafOk(call) /\ ledger' = LeafEffect(call)
          /\ skipped' = IF call.op # "advance" THEN skipped
                        ELSE skipped \cup {m \in Ids : /\ book[m].lifetime = call.nonce
                                                       /\ CommitmentOf(m) = call.commitment}
      BY <2>5 DEF SubmitLeaf
    <3>3. StaysWithin(ledger, ledger', call.writable, call.signers)
      BY <2>1, <3>1, <3>2, LeafKeepsGood
    <3> QED
      BY <2>1, <3>1, <3>3, TopLevelTakes, PdaFacts
  <2>6. ASSUME InvokeLeaf \/ InvokeExecute, Follows
        PROVE  /\ submission' # NoEnvelope
               /\ <<k, submission'.envelope>> \in approved
               /\ stack'[1].message = submission'.envelope.message
    <3>1. stack # <<>> /\ Pda[k] \in Top.signers
      BY <2>1, <2>6, StepStaysWithin DEF InvokeLeaf, InvokeExecute, HasNext
    <3>2. Pda[k] \in stack[1].signers
      BY <2>1, <3>1, TopFacts
    <3>3. submission # NoEnvelope /\ <<k, submission.envelope>> \in approved
      BY <1>1, <3>1, <3>2 DEF SignerInv, PdaBehindEnvelope
    <3>4. stack' # <<>>
      <4>1. \/ stack' = Front(stack) \o <<Advanced(Top)>>
            \/ stack' = Front(stack) \o <<Advanced(Top), Frame(ResolvedCall(Top))>>
        BY <2>6 DEF InvokeLeaf, InvokeExecute
      <4>2. stack \in Seq(FrameType)
        BY <2>1 DEF Core, Frames
      <4> QED
        BY <3>1, <4>1, <4>2, FrontFacts, NotEmptied
    <3>5. submission' = submission
      BY <2>6, <3>4 DEF Follows
    <3>6. stack'[1].message = submission.envelope.message
      BY <1>1, <2>6, <3>3, <3>5, OutermostKept DEF Runs
    <3> QED
      BY <3>3, <3>5, <3>6
  <2>7. ~ UNCHANGED vars
    BY <2>2 DEF vars
  <2>8. ASSUME NEW envelope, NEW key, Approve(key, envelope) PROVE FALSE
    BY <2>7, <2>8 DEF Approve
  <2>9. ASSUME Composed(Next), ~(InvokeLeaf \/ InvokeExecute) PROVE FALSE
    <3>1. Next
      BY <2>9 DEF Composed
    <3>2. CASE \/ \E body \in Body, lifetime \in Lifetimes, inner \in {NoMessage} \cup Ids :
                     Compose(body, lifetime, inner)
               \/ NextSlot \/ \E keys \in SUBSET KeyHolder : Begin(keys)
               \/ Commit \/ Return
      BY <2>2, <3>2 DEF Compose, NextSlot, Begin, Commit, Return
    <3>3. CASE SubmitFails \/ InvokeFails
      BY <3>3 DEF SubmitFails, InvokeFails, Rollback, Idle
    <3> QED
      BY <2>4, <2>5, <2>9, <3>1, <3>2, <3>3 DEF Next, RuntimeStep
  <2> QED
    BY <1>1, <2>3, <2>6, <2>7, <2>8, <2>9 DEF SignerNext, Composed, Follows, allVars
<1> QED
  BY <1>1, SignerInvariance, PTL DEF SignerSpec, PdaActsForAuthority

------------------------------------------------------------------------------
(* The three programs together implement AuthorizedOnce: composing a message is    *)
(* Offer, signing an envelope Approve, and the Commit of a transaction Perform.  *)

LEMMA OfferedFacts ==
    ASSUME GoodBook(book)
    PROVE  /\ Len(Offered) = Len(book) /\ DOMAIN Offered = Ids /\ Len(book) \in Nat
           /\ \A m \in Ids : /\ Offered[m].ticket = book[m].lifetime
                             /\ Offered[m].needs = Needs(book[m].body)
<1>1. Len(book) \in Nat
  BY DEF GoodBook
<1> QED
  BY <1>1 DEF Offered, Ids

\* Nothing is offered, approved or performed at first.
LEMMA InitIsEmpty == SignerInit => Once!Init
<1> SUFFICES ASSUME SignerInit PROVE Once!Init
  OBVIOUS
<1>1. book = <<>> /\ Ids = {} /\ approved = {}
  BY DEF SignerInit, Init, Ids
<1>2. Offered = <<>>
  <2>1. Offered = [m \in 1..0 |-> [ticket |-> book[m].lifetime, needs |-> Needs(book[m].body)]]
    BY <1>1 DEF Offered, Ids
  <2> QED
    BY <2>1
<1>3. ApprovedMessages = {} /\ Performed = {}
  BY <1>1 DEF ApprovedMessages, Performed
<1> QED
  BY <1>2, <1>3 DEF Once!Init

\* A signature is an approval, of the abstract message or of none.
LEMMA ApproveImplements ==
    ASSUME SignerInv, NEW envelope, NEW key, Approve(key, envelope)
    PROVE  Once!Approve
<1>1. approved \subseteq approved' /\ UNCHANGED <<book, saved>>
  BY DEF Approve, vars
<1>2. Offered' = Offered /\ Performed' = Performed /\ \A m : Carried(m)' = Carried(m)
  BY <1>1 DEF Offered, Performed, Carried, HoldsCarried, Ids
<1>3. ApprovedMessages \subseteq ApprovedMessages'
  BY <1>1, <1>2 DEF ApprovedMessages
<1> QED
  BY <1>2, <1>3 DEF Once!Approve

\* A new message is an offer for the ticket of its nonce.
LEMMA ComposeImplements ==
    ASSUME SignerInv, SignerInv', NEW body, NEW lifetime, NEW inner,
           Compose(body, lifetime, inner), approved' = approved
    PROVE  Once!Offer
<1> DEFINE message == [body |-> body, lifetime |-> lifetime, inner |-> inner]
<1>1. book' = Append(book, message) /\ saved' = saved
  BY DEF Compose
<1>2. GoodBook(book) /\ GoodBook(book)'
  BY DEF SignerInv, Core
<1>3. Len(book) \in Nat /\ Len(book') = Len(book) + 1 /\ book'[Len(book')] = message
  BY <1>1, <1>2 DEF GoodBook
<1>4. message \in Message
  <2>1. book' \in Seq(Message) /\ Len(book') \in Nat \ {0}
    BY <1>2, <1>3 DEF GoodBook
  <2> QED
    BY <1>3, <2>1
<1> HIDE DEF message
<1>5. BookGrows
  BY <1>1, <1>2, <1>4 DEF BookGrows
<1>6. /\ Ids \subseteq Ids' /\ \A m \in Ids : book'[m] = book[m]
      /\ \A m \in Ids : Carried(m)' = Carried(m)
  BY <1>5, BookKept, CarriedKept
<1>7. /\ Len(Offered) = Len(book) /\ DOMAIN Offered = Ids
      /\ \A m \in Ids : Offered[m] = [ticket |-> book[m].lifetime,
                                      needs |-> Needs(book[m].body)]
      /\ Len(Offered') = Len(book')
      /\ \A m \in Ids' : Offered'[m] = [ticket |-> book'[m].lifetime,
                                        needs |-> Needs(book'[m].body)]
  <2>1. Len(book') \in Nat
    BY <1>3
  <2> QED
    BY <1>3, <2>1 DEF Offered, Ids, Needs, InstructionSigners
<1>8. /\ Len(Offered') = Len(Offered) + 1
      /\ \A m \in DOMAIN Offered : Offered'[m] = Offered[m]
  BY <1>3, <1>6, <1>7
<1>9. ApprovedMessages' = ApprovedMessages
  <2>1. \A s \in approved : Carried(s[2].message)' = Carried(s[2].message)
    BY <1>6 DEF SignerInv, SignatureTypes
  <2> QED
    BY <2>1 DEF ApprovedMessages
<1>10. Performed' = Performed
  <2>1. \A m \in MessageId : saved.started[m] > 0 => m \in Ids
    BY DEF SignerInv, Core, Good, UsedUp, Ids
  <2>2. Ids' \subseteq MessageId
    <3>1. Len(book') \in Nat /\ Len(book') <= MaxMessages
      BY <1>2, <1>3 DEF GoodBook
    <3> QED
      BY <3>1, ExecutorAssumption DEF Ids, MessageId
  <2> QED
    BY <1>1, <1>6, <2>1, <2>2 DEF Performed
<1> QED
  BY <1>8, <1>9, <1>10 DEF Once!Offer

\* A committed transaction performs all that it ran, at once.
LEMMA CommitImplements ==
    ASSUME SignerInv, Commit, Follows
    PROVE  Once!Perform
<1>1. /\ UNCHANGED <<book, approved>> /\ stack = <<>> /\ saved'.started = started
  BY DEF Commit, Follows, txState
<1>2. /\ Offered' = Offered /\ \A m : Carried(m)' = Carried(m)
      /\ Performed' = {m \in Ids : started[m] > 0}
  BY <1>1 DEF Offered, Performed, Carried, HoldsCarried, Ids
<1>3. ApprovedMessages' = ApprovedMessages
  BY <1>1, <1>2 DEF ApprovedMessages
<1>4. Performed \subseteq Performed'
  BY <1>2 DEF Performed, SignerInv, SavedBacked
<1>5. GoodBook(book) /\ RunsOnce(book, started) /\ started \in [MessageId -> Nat]
  BY DEF SignerInv, Core, Good
<1>6. ASSUME NEW m \in Performed' PROVE Once!Consented(m)
  <2>1. m \in Ids /\ Backed(m)
    BY <1>1, <1>2, <1>6 DEF SignerInv, ReturnedBacked, OnStack
  <2>2. ASSUME NEW k \in Needs(book[m].body) PROVE <<k, m>> \in ApprovedMessages
    <3>1. Consents(k, m)
      BY <2>1, <2>2 DEF Needs, Backed, BackedUpTo
    <3>2. PICK s \in approved : s[1] = k /\ m \in Carried(s[2].message)
      BY <3>1 DEF Consents
    <3> QED
      BY <3>2 DEF ApprovedMessages
  <2> QED
    BY <1>5, <2>1, <2>2, OfferedFacts DEF Once!Consented
<1>7. ASSUME NEW m \in Performed', NEW k \in Performed' \ {m}
      PROVE  Offered[m].ticket # Offered[k].ticket
  <2>1. m \in Ids /\ k \in Ids \ {m} /\ started[m] > 0 /\ started[k] > 0
    BY <1>2, <1>7
  <2>2. started[m] \in Nat /\ started[k] \in Nat
    BY <1>5, <2>1, BookFacts DEF Ids
  <2>3. book[k].lifetime # book[m].lifetime
    BY <1>5, <2>1, <2>2 DEF RunsOnce, Ids
  <2> QED
    BY <1>5, <2>1, <2>3, OfferedFacts
<1> QED
  BY <1>2, <1>3, <1>4, <1>6, <1>7 DEF Once!Perform

(* Every step is one of AuthorizedOnce, or changes nothing it can see.            *)
LEMMA StepImplements ==
    ASSUME SignerInv, SignerInv', [SignerNext]_allVars
    PROVE  [Once!Next]_Once!vars
<1>1. ASSUME UNCHANGED <<book, saved, approved>> PROVE UNCHANGED Once!vars
  BY <1>1 DEF Once!vars, Offered, ApprovedMessages, Performed, Carried, HoldsCarried, Ids
<1>2. CASE UNCHANGED allVars
  BY <1>1, <1>2 DEF allVars, signerVars, vars
<1>3. ASSUME NEW envelope, NEW key, Approve(key, envelope) PROVE Once!Next
  BY <1>3, ApproveImplements DEF Once!Next
<1>4. ASSUME NEW envelope, NEW relay, NEW signatures, NEW relayWritable,
             Submit(relay, signatures, envelope, relayWritable)
      PROVE  UNCHANGED Once!vars
  BY <1>1, <1>4 DEF Submit
<1>5. CASE Composed(Next)
  <2>1. Next /\ Follows
    BY <1>5 DEF Composed, Follows
  <2>2. ASSUME NEW body, NEW lifetime, NEW inner, Compose(body, lifetime, inner)
        PROVE  Once!Next
    BY <2>1, <2>2, ComposeImplements DEF Follows, Once!Next
  <2>3. CASE Commit
    BY <2>1, <2>3, CommitImplements DEF Once!Next
  <2>4. CASE NextSlot \/ \E keys \in SUBSET KeyHolder : Begin(keys)
    BY <1>1, <2>1, <2>4 DEF NextSlot, Begin, Follows
  <2>5. CASE \/ \E call \in ExecuteCalls : SubmitExecute(call)
             \/ \E call \in DirectCalls : SubmitLeaf(call)
    BY <1>1, <2>1, <2>5 DEF SubmitExecute, SubmitLeaf, Follows
  <2>6. CASE SubmitFails \/ InvokeFails
    BY <1>1, <2>1, <2>6 DEF SubmitFails, InvokeFails, Rollback, Follows
  <2>7. CASE InvokeLeaf \/ InvokeExecute \/ Return
    BY <1>1, <2>1, <2>7, RunsKeeps DEF Runs, Follows
  <2> QED
    BY <2>1, <2>2, <2>3, <2>4, <2>5, <2>6, <2>7 DEF Next, RuntimeStep
<1> QED
  BY <1>2, <1>3, <1>4, <1>5 DEF SignerNext

(* The three programs together keep the promise AuthorizedOnce makes to the        *)
(* holders of cold keys.                                                        *)
THEOREM ImplementsAuthorization == SignerSpec => ImplementsAuthorizedOnce
BY InitIsEmpty, StepImplements, SignerInvariance, PTL
   DEF SignerSpec, ImplementsAuthorizedOnce, Once!Spec
==============================================================================
