------------------------------- MODULE Executor -------------------------------
(* The message executor (executor/program/src) under the transaction runtime.   *)
(* A transaction runs instructions one after the other; Execute consumes the    *)
(* nonce its message names and then invokes the message's instructions, each of *)
(* which may be another Execute.  The first failure discards the transaction.   *)
EXTENDS NonceAccounts, FiniteSets, SequencesExt

CONSTANTS
    NonceAddress,    \* where nonce accounts live
    NonceProgram,    \* the Nonce program's address
    KeyHolder,       \* addresses whose private key may sign a transaction
    Body,            \* what an execution message can ask for (see Message)
    DirectCall,      \* instructions submitted to the other programs directly
    MaxMessages,     \* bound: messages composed
    MaxSlot,         \* bound: the last slot explored
    MaxInstructions, \* bound: top-level instructions of a transaction
    MaxSteps,        \* bound: a direct Advance only of a nonce with fewer steps
    InitLedger       \* the accounts at the start

(* The n-th message composed is called n, and n also stands for the SHA-256     *)
(* commitment to it; commitment 0 is a hash of something else.                  *)
OtherCommitment == 0
MessageId == 1..MaxMessages
Count == 0..MaxMessages

(* An instruction names accounts by index into its message's keys.  inner is    *)
(* the message an Execute instruction of the body carries, 0 if it has none.    *)
NoMessage == 0
Message == [body: Body, lifetime: NonceValue, inner: Count]

LeafOp == {"transfer", "assign", "initialize", "advance", "withdraw"}

InstructionOn(keys) ==
    [op: LeafOp \cup {"execute"}, accounts: Seq(1..Len(keys)), lamports: Nat]

LeafCall == [op: LeafOp, accounts: Seq(Address), lamports: Nat, signers: SUBSET Address,
             writable: SUBSET Address, nonce: NonceValue, commitment: Commitment]

Idle == "idle"
FirstSlot == 2

ASSUME ExecutorAssumption ==
    /\ NonceAddress \subseteq Address
    /\ KeyHolder \subseteq Address
    /\ NonceProgram \in Address \ (NonceAddress \cup KeyHolder)
    /\ {MaxMessages, MaxSlot, MaxInstructions, MaxSteps} \subseteq Nat
    /\ FirstSlot <= MaxSlot
    /\ Commitment = {OtherCommitment} \cup MessageId

ASSUME InstructionAssumption ==
    /\ \A b \in Body : b.keys \in Seq(Address) /\ b.instructions \in Seq(InstructionOn(b.keys))
    /\ DirectCall \subseteq LeafCall

(* The accounts are as the Nonce program leaves them (NonceProofs!NonceBelongs), *)
(* and no nonce commits to a message that nobody has composed yet.               *)
ASSUME InitLedgerAssumption ==
    /\ InitLedger \in [Address -> Cell]
    /\ \A n \in Address : InitLedger[n].state # Zeroed =>
          LET state == InitLedger[n].state
          IN  /\ InitLedger[n].size = "exact"
              /\ state.nonce.account = n
              /\ state.nonce.seed = state.initialize_slot
              /\ state.initialize_slot <= FirstSlot
              /\ state.nonce.steps \in Seq({OtherCommitment})

VARIABLES
    ledger, slot,
    book,       \* the messages composed so far
    phase,      \* Idle, or "running" while a transaction runs
    signers,    \* the addresses that signed the running transaction
    issued,     \* how many top-level instructions it has run
    stack,      \* the Execute invocations in progress, innermost last
    started,    \* history: Execute invocations of each message
    finished,   \* history: message instructions completed, for each message
    skipped,    \* history: messages whose nonce transition a direct Advance made
    saved       \* the state a failure restores

history == <<started, finished, skipped>>
txState == [ledger |-> ledger, started |-> started, finished |-> finished, skipped |-> skipped]
vars == <<ledger, slot, book, phase, signers, issued, stack, history, saved>>

Init ==
    /\ ledger = InitLedger
    /\ slot = FirstSlot
    /\ book = <<>>
    /\ phase = Idle
    /\ signers = {}
    /\ issued = 0
    /\ stack = <<>>
    /\ started = [m \in MessageId |-> 0]
    /\ finished = [m \in MessageId |-> 0]
    /\ skipped = {}
    /\ saved = txState

Ids == 1..Len(book)

\* Mutant: the transition does not commit to the message.
CommitmentToNothing(m) == OtherCommitment

CommitmentOf(m) == m

Successor(m) == NextNonce(book[m].lifetime, CommitmentOf(m))

------------------------------------------------------------------------------
(* Composing messages, between transactions.  The author picks a stored nonce,  *)
(* or one that an earlier message is going to leave behind.                     *)

LiveNonces == {ledger[n].state.nonce : n \in {a \in NonceAddress : Initialized(ledger[a])}}

Lifetimes == LiveNonces \cup {Successor(m) : m \in Ids}

Embeds(body) == \E k \in 1..Len(body.instructions) : body.instructions[k].op = "execute"

Compose(body, lifetime, inner) ==
    LET message == [body |-> body, lifetime |-> lifetime, inner |-> inner]
    IN  /\ phase = Idle
        /\ Len(book) < MaxMessages
        /\ Embeds(body) <=> inner # NoMessage
        /\ message \notin Range(book)
        /\ book' = Append(book, message)
        /\ UNCHANGED <<ledger, slot, phase, signers, issued, stack, history, saved>>

NextSlot ==
    /\ phase = Idle
    /\ slot < MaxSlot
    /\ slot' = slot + 1
    /\ UNCHANGED <<ledger, book, phase, signers, issued, stack, history, saved>>

------------------------------------------------------------------------------
(* Invocations.  A call is an instruction with its accounts resolved and the    *)
(* signer and writable flags its metas carry.                                   *)

\* Every call of the Nonce and the System programs; too few accounts are an error,
\* and a program may only write the accounts its instruction marks writable.
LeafOk(call) ==
    LET acc == call.accounts
    IN  \/ /\ call.op = "transfer" /\ Len(acc) >= 2
           /\ {acc[1], acc[2]} \subseteq call.writable
           /\ TransferOk(ledger, call.signers, acc[1], acc[2], call.lamports)
        \/ /\ call.op = "assign" /\ Len(acc) >= 1
           /\ acc[1] \in call.writable
           /\ AssignOk(ledger, call.signers, acc[1])
        \/ /\ call.op = "initialize" /\ Len(acc) >= 2
           /\ acc[1] \in call.writable
           /\ InitializeOk(ledger, acc[1])
        \/ /\ call.op = "advance" /\ Len(acc) >= 2
           /\ acc[2] \in call.writable
           /\ AdvanceOk(ledger, call.signers, acc[1], acc[2], call.nonce)
        \/ /\ call.op = "withdraw" /\ Len(acc) >= 3
           /\ {acc[2], acc[3]} \subseteq call.writable
           /\ WithdrawOk(ledger, call.signers, slot, acc[1], acc[2], acc[3], call.lamports)

LeafEffect(call) ==
    LET acc == call.accounts
    IN  CASE call.op = "transfer"   -> TransferEffect(ledger, acc[1], acc[2], call.lamports)
          [] call.op = "assign"     -> AssignEffect(ledger, acc[1], "exact")
          [] call.op = "initialize" -> InitializeEffect(ledger, acc[1], acc[2], slot)
          [] call.op = "advance"    -> AdvanceEffect(ledger, acc[2], call.commitment)
          [] call.op = "withdraw"   -> WithdrawEffect(ledger, acc[2], acc[3], call.lamports)

\* process_execute up to the Advance: accounts are the nonce authority, the nonce
\* account, the Nonce program and the message accounts.
MessageAccounts(call) == SubSeq(call.accounts, 4, Len(call.accounts))

\* A V1 message that sanitizes and sets no config field.
ValidMessage(body) == body.wellFormed

MirrorsKeys(supplied, body) == supplied = body.keys

LifetimeMatches(lifetime, n) == lifetime = ledger[n].state.nonce

ExecuteOk(call) ==
    LET n       == call.accounts[2]
        message == book[call.message]
    IN  /\ Len(call.accounts) >= 3
        /\ call.accounts[3] = NonceProgram
        /\ OwnedByProgram(ledger[n])
        /\ Initialized(ledger[n])
        /\ ValidMessage(message.body)
        /\ LifetimeMatches(message.lifetime, n)
        /\ MirrorsKeys(MessageAccounts(call), message.body)
        /\ n \in call.writable
        /\ AdvanceOk(ledger, call.signers, call.accounts[1], n, ledger[n].state.nonce)

\* Mutant: Execute leaves the nonce where it is.
NonceNotConsumed(call) == ledger

\* The nonce is consumed before the first instruction of the message runs.
ConsumeNonce(call) ==
    AdvanceEffect(ledger, call.accounts[2], CommitmentOf(call.message))

Frame(call) == [message  |-> call.message,
                next     |-> 1,
                accounts |-> MessageAccounts(call),
                signers  |-> call.signers,
                writable |-> call.writable]

Execute(call) ==
    /\ ledger' = ConsumeNonce(call)
    /\ started' = [started EXCEPT ![call.message] = @ + 1]

------------------------------------------------------------------------------
(* invoke_instructions: the innermost Execute invokes its next instruction.     *)

Top == Last(stack)
Instructions(frame) == book[frame.message].body.instructions
CurrentIx(frame) == Instructions(frame)[frame.next]

\* Mutant: an account keeps the signer flag it arrived with.
SuppliedSigners(frame, indices) == {frame.accounts[i] : i \in indices} \cap frame.signers

\* The metas carry exactly the privileges the message header gives each account.
HeaderSigners(frame, indices) ==
    {frame.accounts[i] : i \in indices \cap book[frame.message].body.signers}

HeaderWritable(frame, indices) ==
    {frame.accounts[i] : i \in indices \cap book[frame.message].body.writable}

ResolvedCall(frame) ==
    LET ix == CurrentIx(frame)
    IN  [op         |-> ix.op,
         accounts   |-> [k \in 1..Len(ix.accounts) |-> frame.accounts[ix.accounts[k]]],
         signers    |-> HeaderSigners(frame, Range(ix.accounts)),
         writable   |-> HeaderWritable(frame, Range(ix.accounts)),
         lamports   |-> ix.lamports,
         nonce      |-> book[frame.message].lifetime,
         commitment |-> OtherCommitment,
         message    |-> book[frame.message].inner]

\* The runtime: a callee is granted no privilege its caller does not hold.
NoEscalation(frame, call) ==
    call.signers \subseteq frame.signers /\ call.writable \subseteq frame.writable

Invocable(frame, call) ==
    /\ NoEscalation(frame, call)
    /\ IF call.op = "execute" THEN ExecuteOk(call) ELSE LeafOk(call)

\* Mutant: the loop skips an instruction.
AdvancedTwice(frame) == [frame EXCEPT !.next = @ + 2]

Advanced(frame) == [frame EXCEPT !.next = @ + 1]

HasNext == stack # <<>> /\ Top.next <= Len(Instructions(Top))

\* One completed instruction of message m
Completes(m) == finished' = [finished EXCEPT ![m] = @ + 1]

InvokeLeaf ==
    /\ HasNext
    /\ LET call == ResolvedCall(Top)
       IN  /\ call.op # "execute"
           /\ Invocable(Top, call)
           /\ ledger' = LeafEffect(call)
           /\ stack' = Front(stack) \o <<Advanced(Top)>>
    /\ Completes(Top.message)
    /\ UNCHANGED <<slot, book, phase, signers, issued, started, skipped, saved>>

InvokeExecute ==
    /\ HasNext
    /\ LET call == ResolvedCall(Top)
       IN  /\ call.op = "execute"
           /\ Invocable(Top, call)
           /\ Execute(call)
           /\ stack' = Front(stack) \o <<Advanced(Top), Frame(call)>>
    /\ UNCHANGED <<slot, book, phase, signers, issued, finished, skipped, saved>>

\* The loop is over; an Execute that was invoked by a message completes one of that
\* message's instructions.
Return ==
    /\ stack # <<>>
    /\ ~HasNext
    /\ stack' = Front(stack)
    /\ IF Len(stack) > 1 THEN Completes(stack[Len(stack) - 1].message)
                         ELSE UNCHANGED finished
    /\ UNCHANGED <<ledger, slot, book, phase, signers, issued, started, skipped, saved>>

\* A failing instruction discards everything the transaction did.
Rollback ==
    /\ ledger' = saved.ledger
    /\ started' = saved.started
    /\ finished' = saved.finished
    /\ skipped' = saved.skipped
    /\ phase' = Idle
    /\ stack' = <<>>
    /\ issued' = 0
    /\ signers' = {}
    /\ UNCHANGED <<slot, book, saved>>

\* Mutant: the error of a message instruction is ignored.
InvokeFailureIgnored ==
    /\ HasNext
    /\ ~Invocable(Top, ResolvedCall(Top))
    /\ stack' = Front(stack) \o <<Advanced(Top)>>
    /\ UNCHANGED <<ledger, slot, book, phase, signers, issued, history, saved>>

InvokeFails ==
    /\ HasNext
    /\ ~Invocable(Top, ResolvedCall(Top))
    /\ Rollback

------------------------------------------------------------------------------
(* Transactions.                                                              *)

Begin(keys) ==
    /\ phase = Idle
    /\ phase' = "running"
    /\ signers' = keys
    /\ UNCHANGED <<ledger, slot, book, issued, stack, history, saved>>

MayIssue == phase = "running" /\ stack = <<>> /\ issued < MaxInstructions

\* A top-level Execute: the submitter chooses the accounts freely and grants them
\* whatever privilege the transaction's signatures allow.
SubmitExecute(call) ==
    /\ MayIssue
    /\ ExecuteOk(call)
    /\ Execute(call)
    /\ issued' = issued + 1
    /\ stack' = <<Frame(call)>>
    /\ UNCHANGED <<slot, book, phase, signers, finished, skipped, saved>>

SubmitLeaf(call) ==
    /\ MayIssue
    /\ LeafOk(call)
    /\ call.op = "advance" => Len(call.nonce.steps) < MaxSteps
    /\ ledger' = LeafEffect(call)
    /\ issued' = issued + 1
    /\ skipped' = IF call.op # "advance" THEN skipped
                  ELSE skipped \cup {m \in Ids : /\ book[m].lifetime = call.nonce
                                                 /\ CommitmentOf(m) = call.commitment}
    /\ UNCHANGED <<slot, book, phase, signers, stack, started, finished, saved>>

\* Some later instruction of the transaction fails, whatever it is.
SubmitFails == phase = "running" /\ stack = <<>> /\ Rollback

Commit ==
    /\ phase = "running"
    /\ stack = <<>>
    /\ issued > 0
    /\ phase' = Idle
    /\ signers' = {}
    /\ issued' = 0
    /\ saved' = txState
    /\ UNCHANGED <<ledger, slot, book, stack, history>>

\* The accounts a submitter may hand to Execute: the message's own, or others.
SuppliedAccounts(m) == {book[m].body.keys, Reverse(book[m].body.keys)}

ExecuteCall(m, authority, n, supplied) ==
    [op |-> "execute", message |-> m, signers |-> signers, writable |-> Address,
     accounts |-> <<authority, n, NonceProgram>> \o supplied]

ExecuteCalls ==
    UNION {{ExecuteCall(m, a, n, supplied) :
               a \in Address, n \in NonceAddress, supplied \in SuppliedAccounts(m)} : m \in Ids}

DirectlyCalled(d, v, c) == [d EXCEPT !.signers = signers, !.nonce = v, !.commitment = c]

DirectCalls ==
    {DirectlyCalled(d, v, c) :
        d \in DirectCall, v \in LiveNonces, c \in {OtherCommitment} \cup Ids}

RuntimeStep == InvokeLeaf \/ InvokeExecute \/ Return \/ InvokeFails

Next ==
    \/ \E body \in Body, lifetime \in Lifetimes, inner \in {NoMessage} \cup Ids :
            Compose(body, lifetime, inner)
    \/ NextSlot
    \/ \E keys \in SUBSET KeyHolder : Begin(keys)
    \/ \E call \in ExecuteCalls : SubmitExecute(call)
    \/ \E call \in DirectCalls : SubmitLeaf(call)
    \/ SubmitFails
    \/ Commit
    \/ RuntimeStep

Spec == Init /\ [][Next]_vars

------------------------------------------------------------------------------
(* Properties.                                                                *)

\* Account data is zeroed or the account's own nonce, seeded in the slot of its last
\* Initialize; balances never go below zero; a message carries an older one; Execute
\* frames run a message's own accounts, with no signer the transaction lacks; between
\* transactions nothing is in progress and there is nothing to undo.
TypeOK ==
    /\ ledger \in [Address -> Cell]
    /\ \A n \in Address : ledger[n].state # Zeroed =>
          /\ ledger[n].size = "exact"
          /\ ledger[n].state.nonce.account = n
          /\ ledger[n].state.nonce.seed = ledger[n].state.initialize_slot
          /\ ledger[n].state.initialize_slot <= slot
    /\ book \in Seq(Message)
    /\ \A m \in Ids : book[m].inner \in 0..(m - 1)
    /\ \A k \in 1..Len(stack) :
          /\ stack[k].message \in Ids
          /\ stack[k].accounts = book[stack[k].message].body.keys
          /\ stack[k].next \in 1..(Len(Instructions(stack[k])) + 1)
          /\ stack[k].signers \subseteq signers
    /\ phase = Idle => stack = <<>> /\ signers = {} /\ saved = txState

\* Of all the messages ever composed for a nonce value, at most one runs, and it
\* runs once: whatever is submitted again, whatever a message invokes while it runs
\* (itself through another message on the same nonce, an Advance of its own nonce,
\* closing and re-creating its nonce account), and whatever fails and is retried.
OneExecutionPerNonce ==
    \A m \in Ids :
        /\ started[m] <= 1
        /\ \A k \in Ids \ {m} :
              book[k].lifetime = book[m].lifetime => started[k] + started[m] <= 1

\* Between transactions every message has either run all of its instructions, nested
\* messages included, as often as it was started, or left no trace.
AllOrNothing ==
    phase = Idle =>
        \A m \in Ids : finished[m] = started[m] * Len(book[m].body.instructions)

\* A message composed for the successor of another message runs only after exactly
\* that message ran, unless the nonce authority itself advanced the nonce with that
\* message's commitment: no other message for the same nonce can stand in for it.
ChainInOrder ==
    \A m, k \in Ids :
        book[k].lifetime = Successor(m) /\ started[k] > 0 =>
            started[m] > 0 \/ m \in skipped

\* What a message's instructions do stays within what its header lists: they change
\* only accounts it marks writable, and they take lamports or replace a nonce only
\* with the signature of the account's controller, who signs the message's header
\* and the transaction both.
Controller(a) == IF Initialized(ledger[a]) THEN ledger[a].state.authority ELSE a

WritableKeys(body) == {body.keys[i] : i \in body.writable}
SignerKeys(body) == {body.keys[i] : i \in body.signers}

TakesFrom(a) == \/ ledger'[a].lamports < ledger[a].lamports
                \/ Initialized(ledger[a]) /\ ledger'[a].state # ledger[a].state

WithinHeader ==
    [][stack # <<>> /\ stack' # <<>> =>
        LET body == book[Top.message].body
        IN  \A a \in Address :
                /\ ledger'[a] # ledger[a] => a \in WritableKeys(body)
                /\ TakesFrom(a) => Controller(a) \in SignerKeys(body) \cap signers]_vars
==============================================================================
