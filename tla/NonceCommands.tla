----------------------------- MODULE NonceCommands -----------------------------
(* The CLI's nonce commands (clients/cli/src/commands/nonce) on a chain that    *)
(* moves on while they run.  An invocation reads the nonce account over RPC,     *)
(* plans one transaction from what it read, signs it against a recent blockhash  *)
(* and sends it.  The transaction may land later or never; the invocation may    *)
(* give up although it lands, and be run again.  What it prints on success was   *)
(* worked out from the account as it was read.                                  *)
EXTENDS NonceAccounts, FiniteSets

CONSTANTS
    Run,          \* invocations that may be going on at the same time
    Asks,         \* what each may be asked to do
    Pda,          \* the programmatic signer of each key
    FeePayer,     \* pays for every transaction and funds new accounts
    Stranger,     \* initializes accounts that are not its own
    All,          \* the amount ALL
    NoNonce,      \* no nonce is reported
    Unknown,      \* the transaction has not landed
    Persistent,   \* the run whose user asks for one thing again and again
    InitLedgers,
    DepositAmounts,
    MaxSlot,      \* bound: slots
    MaxAdvances,  \* bound: advances of a nonce account in one life
    MaxInFlight,  \* bound: transactions in flight when another run sends one
    MaxSigned     \* bound: authorization messages that others may relay

(* A command names the account and, to create it, its authority, given as it is  *)
(* or as the cold key it is derived from; to advance or withdraw, the key that    *)
(* signs and whether only its address is known.                                  *)
CreateCommand == [op: {"create"}, account: Address, authority: Address, derive: BOOLEAN]
AdvanceCommand ==
    [op: {"advance"}, account: Address, key: Address, canSign: BOOLEAN, salt: Nat]
WithdrawCommand ==
    [op: {"withdraw"}, account: Address, key: Address, canSign: BOOLEAN,
     to: Address, amount: Nat \cup {All}]

Command == UNION {Asks[r] : r \in Run}

FirstSlot == 2
ProgrammaticSigners == {Pda[k] : k \in DOMAIN Pda}

ASSUME CommandsAssumption ==
    /\ Asks \in [Run -> SUBSET (CreateCommand \cup AdvanceCommand \cup WithdrawCommand)]
    /\ {FeePayer, Stranger} \subseteq Address
    /\ All \notin Nat /\ NoNonce \notin NonceValue
    /\ MaxSlot \in Nat /\ MaxAdvances \in Nat
    /\ DepositAmounts \subseteq Nat

\* Nobody has the key of a programmatic signer, which is off the curve.
ASSUME SignersAssumption ==
    /\ Pda \in [DOMAIN Pda -> Address]
    /\ \A c \in Command :
          IF c.op = "create" THEN c.derive => c.authority \in DOMAIN Pda
                             ELSE c.key \in DOMAIN Pda \ ProgrammaticSigners

\* What the messages of the commands contain is what the nonce commits to.
ASSUME PayloadsAssumption ==
    /\ \A c \in Command : c.op = "advance" => [salt |-> c.salt] \in Commitment
    /\ \A c \in Command, x \in 1..U64Max :
          c.op = "withdraw" => [to |-> c.to, lamports |-> x] \in Commitment

(* The accounts are as the Nonce program leaves them (NonceProofs!NonceBelongs). *)
ASSUME InitLedgersAssumption ==
    \A l \in InitLedgers :
        /\ l \in [Address -> Cell]
        /\ \A x \in Address :
              /\ l[x].lamports <= U64Max
              /\ l[x].state # Zeroed =>
                    /\ l[x].size = "exact"
                    /\ l[x].state.nonce.account = x
                    /\ l[x].state.nonce.seed = l[x].state.initialize_slot
                    /\ l[x].state.initialize_slot <= FirstSlot

VARIABLES
    ledger, slot,
    phase,     \* where each invocation is
    command,   \* what it was asked
    plan,      \* the transaction it sends, the nonce it will print, the one it left behind
    inFlight,  \* transactions sent that have neither landed nor expired
    landed,    \* transactions with the newest blockhash that landed
    signed     \* authorization messages with their authority's signature in circulation

runs == <<phase, command, plan>>
vars == <<ledger, slot, runs, inFlight, landed, signed>>

NoPlan ==
    [action |-> [kind |-> "none"], nonce |-> NoNonce, blockhash |-> 0, after |-> Unknown]

Init ==
    /\ ledger \in InitLedgers
    /\ slot = FirstSlot
    /\ phase = [r \in Run |-> "idle"]
    /\ command \in [Run -> {NoNonce}]
    /\ plan = [r \in Run |-> NoPlan]
    /\ inFlight = {} /\ landed = {} /\ signed = {}

------------------------------------------------------------------------------
(* Planning.  `cell` is the account as it was read.                            *)

\* NonceAuthority: the key is the nonce authority, which signs the transaction ...
Direct(cell, c) == cell.state.authority = c.key /\ c.canSign
\* ... or the nonce authority is its programmatic signer, for which the key signs an
\* authorization message, here or elsewhere.
Derived(cell, c) == cell.state.authority # c.key /\ cell.state.authority = Pda[c.key]

\* An Execute from the nonce that was read; its message holds one payload.
Execution(cell, c, payload, closes) ==
    [kind |-> "execute", authority |-> cell.state.authority, account |-> c.account,
     lifetime |-> cell.state.nonce, payload |-> payload, closes |-> closes,
     derived |-> Derived(cell, c)]

\* summary.rs next_nonce: the value after the Execute.
Successor(action) == NextNonce(action.lifetime, action.payload)

\* advance: a message without instructions, whose salt sets the next nonce.
AdvanceRefused(cell, c) == ~Initialized(cell) \/ ~(Direct(cell, c) \/ Derived(cell, c))

AdvancePlan(cell, c) ==
    LET execution == Execution(cell, c, [salt |-> c.salt], FALSE)
    IN  [action |-> execution, nonce |-> Successor(execution),
         blockhash |-> 0, after |-> Unknown]

Lamports(cell, c) == IF c.amount = All THEN cell.lamports ELSE c.amount
Remaining(cell, c) == cell.lamports - Lamports(cell, c)

WithdrawRefused(cell, c) ==
    \/ c.to = c.account \/ ~OwnedByProgram(cell)
    \/ Lamports(cell, c) = 0 \/ Remaining(cell, c) < 0
    \/ /\ Initialized(cell)
       /\ \/ Remaining(cell, c) \in 1..MinBalance["exact"] - 1
          \/ ~(Direct(cell, c) \/ Derived(cell, c))
    \/ ~Initialized(cell) /\ ~(c.key = c.account /\ c.canSign /\ Remaining(cell, c) = 0)

PlainWithdrawal(cell, c) ==
    [kind |-> "withdraw", authority |-> c.key, account |-> c.account, to |-> c.to,
     lamports |-> Lamports(cell, c), closes |-> Remaining(cell, c) = 0]

\* A derived authority withdraws through the executor, which advances the nonce first;
\* any other signer withdraws plainly, and the nonce that was read is reported.
WithdrawPlan(cell, c) ==
    LET closes  == Remaining(cell, c) = 0
        payload == [to |-> c.to, lamports |-> Lamports(cell, c)]
        guarded == Initialized(cell) /\ Derived(cell, c)
        action  == IF guarded THEN Execution(cell, c, payload, closes)
                              ELSE PlainWithdrawal(cell, c)
    IN  [action    |-> action,
         nonce     |-> IF closes THEN NoNonce
                       ELSE IF guarded THEN Successor(action) ELSE cell.state.nonce,
         blockhash |-> 0, after |-> Unknown]

\* create: the authority as given, or the programmatic signer of the cold key.
CreateRefused(c) == c.account = FeePayer

CreatePlan(c) ==
    [action |-> [kind |-> "create", account |-> c.account,
                 authority |-> IF c.derive THEN Pda[c.authority] ELSE c.authority,
                 lamports |-> MinBalance["exact"]],
     nonce |-> NoNonce, blockhash |-> 0, after |-> Unknown]

Refused(cell, c) ==
    \/ c.op = "create" /\ CreateRefused(c)
    \/ c.op = "advance" /\ AdvanceRefused(cell, c)
    \/ c.op = "withdraw" /\ WithdrawRefused(cell, c)

Planned(cell, c) ==
    CASE c.op = "create"   -> CreatePlan(c)
      [] c.op = "advance"  -> AdvancePlan(cell, c)
      [] c.op = "withdraw" -> WithdrawPlan(cell, c)

------------------------------------------------------------------------------
(* The invocations.                                                           *)

\* An invocation that failed leaves no output.
Ended == {"idle", "done", "printed"}

WithinBound(cell) == Initialized(cell) => Len(cell.state.nonce.steps) < MaxAdvances

\* An authority known by its address only gets the authorization message to sign.
Prints(p, c) == p.action.kind = "execute" /\ p.action.derived /\ ~c.canSign

\* A new invocation reads the account and plans, unless it refuses.
Invoke(r, c) ==
    LET cell == ledger[c.account]
        p    == Planned(cell, c)
    IN  /\ phase[r] \in Ended
        /\ WithinBound(cell)
        /\ ~Refused(cell, c)
        /\ command' = [command EXCEPT ![r] = c]
        /\ plan' = [plan EXCEPT ![r] = p]
        /\ phase' = [phase EXCEPT ![r] = IF Prints(p, c) THEN "printed" ELSE "planned"]
        /\ UNCHANGED <<ledger, slot, inFlight, landed, signed>>

\* The printed authorization message is signed elsewhere and goes into circulation.
Circulate(action) ==
    signed' = IF Cardinality(signed) < MaxSigned THEN signed \cup {action} ELSE signed

SignElsewhere(r) ==
    /\ phase[r] = "printed"
    /\ phase' = [phase EXCEPT ![r] = "idle"]
    /\ plan' = [plan EXCEPT ![r] = NoPlan]
    /\ Circulate(plan[r].action)
    /\ UNCHANGED <<ledger, slot, command, inFlight, landed>>

\* send_relay_transaction: a transaction is what it does and its blockhash; sending the
\* same one twice is sending it once.  With it goes a signed authorization message.
Transaction(r) == [action |-> plan[r].action, blockhash |-> plan[r].blockhash]

Send(r) ==
    LET transaction == [action |-> plan[r].action, blockhash |-> slot]
    IN  /\ phase[r] = "planned"
        /\ phase' = [phase EXCEPT ![r] = "sent"]
        /\ plan' = [plan EXCEPT ![r].blockhash = slot]
        /\ r # Persistent => Cardinality(inFlight) < MaxInFlight
        /\ inFlight' = inFlight \cup ({transaction} \ landed)
        /\ IF plan[r].action.kind = "execute" /\ plan[r].action.derived
           THEN Circulate(plan[r].action) ELSE UNCHANGED signed
        /\ UNCHANGED <<ledger, slot, command, landed>>

\* Mutant: a transaction that was sent counts as confirmed.
ConfirmUnseen(r) ==
    /\ phase[r] = "sent"
    /\ phase' = [phase EXCEPT ![r] = IF command[r].op = "create" THEN "confirmed" ELSE "done"]
    /\ UNCHANGED <<ledger, slot, command, plan, inFlight, landed, signed>>

Confirm(r) ==
    /\ phase[r] = "sent"
    /\ plan[r].after # Unknown
    /\ phase' = [phase EXCEPT ![r] = IF command[r].op = "create" THEN "confirmed" ELSE "done"]
    /\ UNCHANGED <<ledger, slot, command, plan, inFlight, landed, signed>>

\* Mutant: what could not be confirmed is signed and sent again.
TimeOutRetries(r) ==
    /\ phase[r] = "sent"
    /\ phase' = [phase EXCEPT ![r] = "planned"]
    /\ UNCHANGED <<ledger, slot, command, plan, inFlight, landed, signed>>

\* The RPC node reports an error or does not answer; the transaction may land all the same.
TimeOut(r) ==
    /\ phase[r] = "sent"
    /\ phase' = [phase EXCEPT ![r] = "idle"]
    /\ plan' = [plan EXCEPT ![r] = NoPlan]
    /\ UNCHANGED <<ledger, slot, command, inFlight, landed, signed>>

\* create reads the account again, and reports what it then holds.
ReadCreated(r) ==
    LET cell == ledger[command[r].account]
    IN  /\ phase[r] = "confirmed"
        /\ phase' = [phase EXCEPT ![r] = IF Initialized(cell) THEN "done" ELSE "idle"]
        /\ plan' = [plan EXCEPT ![r] =
                IF Initialized(cell) THEN [@ EXCEPT !.nonce = cell.state.nonce] ELSE NoPlan]
        /\ UNCHANGED <<ledger, slot, command, inFlight, landed, signed>>

Step(r) == Send(r) \/ Confirm(r) \/ TimeOut(r) \/ ReadCreated(r)

------------------------------------------------------------------------------
(* The chain.                                                                 *)

Funded(action) ==
    AssignEffect(TransferEffect(ledger, FeePayer, action.account, action.lamports),
                 action.account, "exact")

\* Mutant: the account is created in a transaction of its own.
CreateLandsUninitialized(action) ==
    /\ action.kind = "create"
    /\ ledger[action.account] = SystemCell(0)
    /\ TransferOk(ledger, {FeePayer}, FeePayer, action.account, action.lamports)
    /\ ledger' = Funded(action)

\* System CreateAccount refuses an address that holds lamports.
CreateLands(action) ==
    /\ action.kind = "create"
    /\ ledger[action.account] = SystemCell(0)
    /\ TransferOk(ledger, {FeePayer}, FeePayer, action.account, action.lamports)
    /\ InitializeOk(Funded(action), action.account)
    /\ ledger' = InitializeEffect(Funded(action), action.account, action.authority, slot)

WithdrawalLands(action) ==
    /\ action.kind = "withdraw"
    /\ WithdrawOk(ledger, {action.authority}, slot, action.authority, action.account,
                  action.to, action.lamports)
    /\ ledger' = WithdrawEffect(ledger, action.account, action.to, action.lamports)

\* Mutant: the withdrawal runs without the nonce transition.
ExecutionLandsUnguarded(action) ==
    /\ action.kind = "execute"
    /\ Initialized(ledger[action.account])
    /\ LET payload  == action.payload
       IN  IF "salt" \in DOMAIN payload
           THEN ledger' = AdvanceEffect(ledger, action.account, payload)
           ELSE /\ WithdrawOk(ledger, {action.authority}, slot, action.authority,
                              action.account, payload.to, payload.lamports)
                /\ ledger' = WithdrawEffect(ledger, action.account, payload.to, payload.lamports)

\* Execute: the nonce moves first, then the message's instruction, if it has one.
ExecutionLands(action) ==
    /\ action.kind = "execute"
    /\ AdvanceOk(ledger, {action.authority}, action.authority, action.account, action.lifetime)
    /\ LET payload  == action.payload
           advanced == AdvanceEffect(ledger, action.account, payload)
       IN  IF "salt" \in DOMAIN payload
           THEN ledger' = advanced
           ELSE /\ WithdrawOk(advanced, {action.authority}, slot, action.authority,
                              action.account, payload.to, payload.lamports)
                /\ ledger' = WithdrawEffect(advanced, action.account, payload.to, payload.lamports)

ActionLands(action) ==
    CreateLands(action) \/ WithdrawalLands(action) \/ ExecutionLands(action)

NonceIn(cell) == IF Initialized(cell) THEN cell.state.nonce ELSE NoNonce

\* Mutant: the runtime does not recognize a transaction that has landed.
LandAgain(transaction) ==
    /\ transaction \in inFlight
    /\ ActionLands(transaction.action)
    /\ landed' = IF transaction.blockhash = slot THEN landed \cup {transaction} ELSE landed
    /\ plan' = [r \in Run |->
                  IF phase[r] = "sent" /\ Transaction(r) = transaction
                  THEN [plan[r] EXCEPT !.after = NonceIn(ledger'[transaction.action.account])]
                  ELSE plan[r]]
    /\ UNCHANGED <<slot, inFlight, phase, command, signed>>

Land(transaction) ==
    /\ transaction \in inFlight
    /\ ActionLands(transaction.action)
    /\ inFlight' = inFlight \ {transaction}
    /\ landed' = IF transaction.blockhash = slot THEN landed \cup {transaction} ELSE landed
    /\ plan' = [r \in Run |->
                  IF phase[r] = "sent" /\ Transaction(r) = transaction
                  THEN [plan[r] EXCEPT !.after = NonceIn(ledger'[transaction.action.account])]
                  ELSE plan[r]]
    /\ UNCHANGED <<slot, phase, command, signed>>

\* Lost, failed on chain, or its blockhash expired.
Drop(transaction) ==
    /\ transaction \in inFlight
    /\ inFlight' = inFlight \ {transaction}
    /\ UNCHANGED <<ledger, slot, runs, landed, signed>>

\* Anyone puts a signed authorization message into a transaction of their own.
RelaySigned(action) ==
    /\ action \in signed
    /\ ActionLands(action)
    /\ UNCHANGED <<slot, runs, inFlight, landed, signed>>

Deposit(n, lamports) ==
    /\ TransferOk(ledger, {FeePayer}, FeePayer, n, lamports)
    /\ ledger' = TransferEffect(ledger, FeePayer, n, lamports)
    /\ UNCHANGED <<slot, landed, runs, inFlight, signed>>

StrangerInitializes(n) ==
    /\ InitializeOk(ledger, n)
    /\ ledger' = InitializeEffect(ledger, n, Stranger, slot)
    /\ UNCHANGED <<slot, landed, runs, inFlight, signed>>

NextSlot ==
    /\ slot < MaxSlot
    /\ slot' = slot + 1
    /\ landed' = {}
    /\ UNCHANGED <<ledger, runs, inFlight, signed>>

NonceAddresses == {c.account : c \in Command}

Next ==
    \/ \E r \in Run : \E c \in Asks[r] : Invoke(r, c)
    \/ \E r \in Run : Step(r) \/ SignElsewhere(r)
    \/ \E transaction \in inFlight : Land(transaction) \/ Drop(transaction)
    \/ \E action \in signed : RelaySigned(action)
    \/ \E n \in NonceAddresses : \/ \E lamports \in DepositAmounts : Deposit(n, lamports)
                                 \/ StrangerInitializes(n)
    \/ NextSlot

Spec == Init /\ [][Next]_vars

Advance(transaction) ==
    transaction.action.kind = "execute" /\ "salt" \in DOMAIN transaction.action.payload

\* The client keeps the invocation going and its user asks again; the network lands a
\* transaction at last when the user keeps sending ones that could land.
Fairness ==
    /\ WF_vars(\E c \in Asks[Persistent] : Invoke(Persistent, c))
    /\ WF_vars(Step(Persistent))
    /\ SF_vars(\E transaction \in inFlight : Advance(transaction) /\ Land(transaction))

FairSpec == Spec /\ Fairness

------------------------------------------------------------------------------
(* Properties.                                                                *)

\* Balances stay within u64, nobody reports what is no nonce, and a transaction that
\* landed is not under way any more.
TypeOK ==
    /\ ledger \in [Address -> Cell] /\ \A x \in Address : ledger[x].lamports <= U64Max
    /\ slot \in Nat
    /\ phase \in [Run -> Ended \cup {"planned", "sent", "confirmed"}]
    /\ \A r \in Run : /\ command[r] \in Asks[r] \cup {NoNonce}
                      /\ plan[r].nonce \in NonceValue \cup {NoNonce}
    /\ inFlight \cap landed = {}

\* An advance that reports success tells the truth, although both nonces come from an
\* account read before the transaction was sent: its transaction landed and left the
\* nonce that is printed, and the one it was run against is gone.
AdvanceReportIsTrue ==
    \A r \in Run :
        phase[r] = "done" /\ command[r].op = "advance" =>
            /\ plan[r].after = plan[r].nonce
            /\ NonceIn(ledger[command[r].account]) # plan[r].action.lifetime

PartialWithdrawal(action) ==
    \/ action.kind = "withdraw" /\ ~action.closes
    \/ action.kind = "execute" /\ "to" \in DOMAIN action.payload /\ ~action.closes

StaysOpen(action) ==
    PartialWithdrawal(action) /\ ActionLands(action) => OwnedByProgram(ledger'[action.account])

\* A partial withdrawal for a programmatic signer leaves the account open, however late
\* it lands and however often the command was run meanwhile: the nonce it was planned
\* from keeps other withdrawals out, and deposits only add to what remains.
GuardedPartialStaysOpen == [][\A action \in signed : StaysOpen(action)]_vars

\* withdraw's help: a partial withdrawal must leave the nonce account rent-exempt.
PartialStaysOpen ==
    [][\A transaction \in inFlight : StaysOpen(transaction.action)]_vars

\* withdraw's output: the nonce value after the withdrawal, or None when it closed the
\* nonce account.
WithdrawReportIsTrue ==
    \A r \in Run :
        phase[r] = "done" /\ command[r].op = "withdraw" =>
            plan[r].after = plan[r].nonce

\* The account that `create` reports is initialized for an authority that a user asked
\* for: at no time between its creation and its initialization can a stranger step in.
CreatedForItsAuthority ==
    [][\A r \in Run :
        phase[r] = "confirmed" /\ phase'[r] = "done" =>
            \E c \in {d \in Command : d.op = "create"} :
                ledger[command[r].account].state.authority = CreatePlan(c).action.authority]_vars

\* A user who runs `nonce advance` until it works gets rid of the nonce, whatever is
\* lost, late or done by others meanwhile: what was signed for it cannot run for ever.
AdvancePrevails ==
    \A c \in Asks[Persistent], k \in 0..MaxAdvances - 1 :
        LET Stored == /\ Initialized(ledger[c.account])
                      /\ ledger[c.account].state.authority \in {c.key, Pda[c.key]}
                      /\ Len(ledger[c.account].state.nonce.steps) = k
        IN  Stored ~> ~Stored
==============================================================================
