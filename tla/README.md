# A TLA+ model of the Ed25519 programmatic signer

The repository lets a key that never touches a network control accounts on
Solana. A *cold authority* signs, with plain Ed25519, a message that wraps one
`Execute` instruction; anybody may relay it. Three on-chain programs do the
work: the **signer** checks the signatures and lends the authority's
*programmatic signer* (a PDA) to the **executor**, the executor consumes a
single-use value kept by the **nonce** program and then invokes the message's
instructions. The whole promise is: a signed message runs at most once,
completely or not at all, only when everyone it needs has approved it, and with
no more privilege than it lists.

## Inventory

| Component | Source | State | Operations |
|---|---|---|---|
| Nonce program | `nonce/program`, `nonce/interface` | nonce accounts: value, authority, slot of initialization, lamports | Initialize, Advance, Withdraw (partial or closing) |
| Executor program | `executor/program`, `executor/interface` | none of its own; the loop over a message's instructions | Execute |
| Signer program | `signer/program`, `signer/interface` | none | Submit |
| Instruction builders | `nonce/client`, `executor/client`, `signer/client` | none | pure functions; the authorization message builder lays out keys and header counts |
| CLI, nonce commands | `clients/cli/src/commands/nonce` | what it read over RPC | create, show, advance, withdraw |
| CLI, transaction commands | `clients/cli/src/commands/transaction` | envelope, collected signatures | sign, submit, simulate, decode |
| CLI, migrate commands | `clients/cli/src/commands/migrate` | what it read over RPC | one execution message per asset, scan |
| JavaScript client | `clients/js` | none | generated from the IDL |

How they interact: Submit invokes Execute, which invokes Advance and then any
instruction, another Execute included. The programs share nothing but accounts;
the runtime serializes the instructions of transactions that write the same
account, checks that a callee gets no privilege its caller lacks, and discards a
transaction as soon as an instruction fails. Clients know the chain only as it
was when they read it: a command reads, plans, asks or prints, signs and sends in
separate steps, and what it promised may have gone stale at each of them.

What is hard: messages are signed long before they run, for nonces that may not
exist yet, and stay valid until the nonce moves; signatures and envelopes are
public and can be resubmitted, combined and misplaced at will; a nonce account
can be closed and created again at the same address; control passes to arbitrary
programs in the middle of Execute; any instruction can fail after others took
effect; and lamports are u64 balances with a rent minimum under them.

What makes each component correct:

- *nonce*: no value is ever issued twice; only the authority (or the account's
  own key while it holds no nonce) moves value or lamports; nothing is stranded.
- *executor*: one execution for each nonce value, all or nothing, in the order
  the nonces were chained, within the header's privileges.
- *signer*: a programmatic signer acts only on its authority's signature; every
  required signer approved; no privilege from the relayer.
- *nonce commands*: what `create` and `advance` report is true although they
  planned from an old read; a partial withdrawal does not close the account; a
  user who keeps running `advance` gets rid of a nonce.
- *transaction commands*: all participants make the same envelope; `sign`,
  `submit`, `simulate` and the signer program agree about everybody's role;
  signatures made in separate runs fit together; nobody signs unasked; success
  is reported only for what ran; envelopes signed ahead run in their turn.
- *migrate commands*: what runs is what was reported, however late; what is built
  can run; a scan lists what its owner controls and suggests commands that work.

## Modules

| Module | Models |
|---|---|
| `SingleUse` | abstract: holders store values that leave for good and never return |
| `NonceAccounts` | the ledger and the handlers of the nonce program as a guard `XxxOk` and an effect on the ledger; the System program operations the clients use |
| `Nonce` | the nonce program on a chain: any instruction, by anyone, in any slot. Refines `SingleUse` |
| `NonceProofs` | theorems about `Nonce`: its types, its nonces, its refinement of `SingleUse`, its lamports |
| `LedgerProofs` | lemmas about the handlers of `NonceAccounts`, which the other proofs share |
| `Executor` | transactions, Execute frame by frame, the runtime's rollback and privilege rule |
| `ExecutorProofs` | theorems about `Executor` |
| `AuthorizedOnce` | abstract: messages, approvals, and one performance per ticket |
| `Signer` | Submit, off-chain approvals and a free relayer on top of `Executor`. Refines `AuthorizedOnce` |
| `SignerProofs` | theorems about `Signer`, on top of `ExecutorProofs` |
| `NonceCommands` | `nonce create`, `advance` and `withdraw` as invocations (read and plan, send, confirm or time out) over `NonceAccounts`, with transactions in flight |
| `NonceCommandsProofs` | theorems about `NonceCommands` |
| `Envelope` | the instruction builders of the client crates and the authorization message builder |
| `TransactionCommands` | what `transaction sign`, `submit` and `simulate` compute, as operators; what the signer program makes of a relay transaction |
| `Roles` | one request, participants who each run `sign`, a relayer who submits |
| `RolesProofs` | theorems about `Roles`, and lemmas about what `Envelope` and `TransactionCommands` compute |
| `Relay` | a chain of requests: approvals, offline and online runs of `submit`, the two nonces and blockhashes of the chain, transactions in flight |
| `RelayProofs` | theorems about `Relay` |
| `Migration` | what the migrate commands share, and what the other programs do with the instructions they build |
| `AuthorityMigration` | `migrate mint`, `stake`, `vote`, `program` |
| `AssetMigration` | `migrate sol`, `migrate token` |
| `Scan` | `migrate scan`: queries, items, suggested commands |
| `Migrations` | a migrate command or a scan read by read, the approvals and the execution of its message, and everybody else |
| `MigrationsProofs` | theorems about `Migrations`, and lemmas about what the migrate commands build, what their messages do and what a scan's answers hold |
| `MC...` | small instances for TLC |

`Executor` and `Signer` are composed on `NonceAccounts`; `NonceCommands` shares it
with them, so the commands meet the same handlers that `LedgerProofs` is about.
`Roles` and `Relay` share `Envelope` and `TransactionCommands`. They use a summary
of Submit (`ProgramAccepts`) in place of `Signer`, because they need the real
layout of an envelope, which `Signer` abstracts to its signers and accounts.

**State.** `ledger` maps addresses to cells: the class of data length and owner
(`"none"`: System program, `"exact"`: `Nonce::LEN` bytes, `"odd"`: another
length), the data (`Zeroed` or a `Nonce`), the lamports. A nonce hash is the
term it commits to: account, slot hash of the initialization, commitments of the
advances since. Equal terms are equal hashes; different terms are assumed to
hash differently. The newest entry of SlotHashes is fixed within a slot and
differs between slots, so it is named by the slot. A message is a number, which
also stands for its SHA-256; commitment 0 is any other hash.

**Actions.** `Nonce` has one action per instruction, mapped to `process_initialize`,
`process_advance`, `process_withdraw`; a failing instruction changes nothing and
is no step. Balances wrap nowhere: the checked operations of `withdraw.rs` are
guards over all amounts up to `U64Max`. `Executor` splits Execute where control
leaves it: `SubmitExecute` or `InvokeExecute` does everything up to and
including the Advance; then each `InvokeLeaf`, `InvokeExecute` or `InvokeFails`
is one iteration of `invoke_instructions`, and `Return` its end. `Rollback`
restores `saved`, the state after the last commit; history variables are part of
it, so that they describe what really happened on chain. `Signer` adds
`Approve`, a signature that enters circulation for ever, and `Submit`.

**Commands.** An invocation of a nonce command is a record in `plan`: what it
read is not kept, only what it made of it. `Invoke` reads and plans, `Send` takes
the newest blockhash, `Confirm` needs the transaction to have landed, `TimeOut`
does not care. A transaction is what it does and its blockhash, so the same one
sent twice is one. `create` reads a second time before it reports (`ReadCreated`).

In `Envelope` addresses are numbers, since participants sort them, and a v1
message is its keys and the three counts of its header; data is what it carries.
`Ascending` and `At` sort and select by rank, in place of the library's recursive or
abstract operators, so that what they return can be reasoned about.
A request of `sign` and a command of `submit` are records of their arguments, and
each `ensure!` of the code is a disjunct of `SignRefused`, `SubmitRefused` or
`PlannedRefused`. A transaction's size is counted in addresses (a signature takes
two), in which the size limit and the v1 limits on signatures and keys are
constants. In `Relay` the SPL nonce is the sequence of messages it commits to, so
that `next_nonce` and the executor derive the same value if and only if they use
the same message.

In the migrate modules an account is a record of what the commands look at. A
command reads account by account (`Read`), each at its own time; `Build` refuses or
reports; the message then waits for its signers (`Approve`) and runs whole or not
at all (`Execute`). `Change` lets anybody do what the other programs permit to an
account in between, and notes what the account held before in `past`, which only
properties read. Scan's categories query side by side (`Query`, `QueryFails`).

**The relayer** hands Execute and Submit the right accounts, or others, with
every privilege the transaction's signers allow, any signatures in circulation
in any position, or one signature too few, as often as it likes.

**Left out of the modelled parts.** The runtime's own checks at the end of a
transaction (rent state, purging of empty accounts) and its stack limits: the
model allows more behaviours, and safety holds in all of them. Message
sanitization, version and config checks are one flag, `wellFormed`. Submit
called by another program is not a separate action: the signers of the relay
accounts are an arbitrary set either way. Executor calling Submit calling
Executor is refused by the runtime (only direct recursion is allowed). An Advance
among a message's own instructions carries the message's lifetime and a commitment
that is no message's; one that commits a nonce to another message is left out (an
authority's own transactions contain such an Advance, which `ChainInOrder` is about).

## Runs

| Run | Shows | Bounds |
|---|---|---|
| `nonce` | values never return, rent exemption, cold accounts untouched, nothing stranded, conservation of lamports, refinement of `SingleUse` | 2 nonce accounts, a wallet with 4 lamports, a cold key; 3 slots; 1 advance per life; each key signs alone or all but the cold one together (no instruction needs two signatures) |
| `executor` | one execution per nonce, all or nothing, within the header | 2 messages over 7 bodies, 2 nonce accounts, 2 instructions a transaction, 2 slots |
| `executor_chain` | chained messages run in order | 3 messages, 1 nonce account, direct advances |
| `signer` | PDAs act for their authority, every signer approved, no relay privilege, refinement of `AuthorizedOnce` | 2 messages over 4 bodies, 6 envelope shapes, 2 signatures |
| `signer_flags` | a violation: Submit does not compare writable flags | as `signer` |

Why these bounds suffice. A nonce can return only by closing and re-creating an
account within a slot or across slots: 3 slots and 4 lamports (the minimum is 2)
give two accounts several lives each, also in the same slot. Four lamports also
reach `U64Max`. A message can run twice only through a retry, a second
instruction of the same transaction, a nested Execute or a re-created account;
the bodies of `MCExecutor` contain one of each, and 2 messages are enough for
one to compete with or contain the other. A chain needs 3 messages for a
substitute in the middle. In `MCSigner` one authority stays cold and the other
also signs relay transactions, which is what distinguishes an omitted signature
from a verified one; two signatures let a message with two signers be approved,
half approved, or approved with signatures of another envelope.

For the commands:

| Run | Shows | Bounds |
|---|---|---|
| `nonce_commands` | reports are true, guarded withdrawals, `create` is atomic, advancing prevails | 2 invocations at a time, one of them the persistent user's; an account that is live, uninitialized or absent; 2 slots to come, 2 advances, 1 other transaction in flight, 1 signed message in circulation |
| `withdraw_twice` | a violation: a partial withdrawal, run again after a timeout, closes the account | a live account of a hot key with 4 lamports (minimum 2); one user, one partial withdrawal of 2; 2 transactions in flight |
| `withdraw_report` | a violation: the nonce reported was read before the withdrawal | the same account; 2 users who advance or withdraw a part or all of it; deposits of 2 |
| `roles` | one envelope, exact header, roles agree, envelopes complete, simulation predicts | 3 wallets with their programmatic signers, 8 key lists with every small header, 4 choices of authorities, 3 of required relay signers, 4 nonce authorities; 2 participants |
| `smallest` | a violation: the size check of `sign` is not the smallest | as `roles`, with a size limit between the two sizes |
| `relay` | offline signatures fit, consent, true reports, chains progress | 2 requests, 3 wallets, 1 durable nonce with 2 values, 2 blockhashes, 2 offline signatures, 1 other transaction in flight |
| `migrations` | migrations move what they report, run, and scans are right | every command on about 100 small worlds; 1 account changed by others between the first read and the execution |

Three lamport levels around the minimum reach every branch of a withdrawal
(whole, part, too much of it left or taken). One message in circulation and one
transaction in flight besides the persistent user's are enough for either to be
late, lost, or first. The header counts go wrong by shifting an account across a
boundary: four keys with every combination of small counts meet each boundary
from both sides, and the key lists contain a programmatic signer of each wallet, a
wallet that signs itself, the nonce account and the executor program. A third
participant adds nothing, for `OneEnvelope` compares pairs. Two requests make a
chain with a first and a next. The migrate commands are sequential over accounts
that they read once: one change, at any of the steps, of any account, in each
respect that the other programs allow, meets every read and every check. The worlds that
are scanned have owners with each role and without it, every layout of a mint, token accounts
that can be moved and that cannot, and owners whose account is a wallet, is missing, has data,
or belongs to another program.

Deadlock checking is off: every bounded counter eventually runs out, and on
chain nothing has to happen.

**Fairness.** The programs assume none, and neither do `Roles` and `Migrations`: a
chain runs nothing unless somebody submits it, and their properties are safety
properties. Two modules state liveness.

- `NonceCommands!Fairness`: the persistent user runs `nonce advance` again whenever
  an invocation has ended (WF of `Invoke`); the client finishes an invocation, if
  only with an error (WF of `Step`: `send_and_confirm_transaction` returns); and an
  advance that could land again and again lands in the end (SF of `Land`). Weak
  fairness would not do for the last: a transaction that is dropped or expires is
  not continuously enabled, but the next invocation sends another one. Running
  `nonce advance` is what the error of a failed `transaction submit` tells its user
  to do (`submit.rs:438-442`). A timeout is always
  possible, so nothing is assumed about being told of success.
- `Relay!Fairness`: the authorities sign in the end; one relayer with all keys
  starts again whenever it can and agrees when asked (SF, as other runs may get in
  between); no run hangs at its prompt or after sending (WF); a relay transaction
  that is sent again and again while it could land lands in the end (SF). Nothing is
  assumed of offline runs, of the durable nonce, of blockhashes or of others.

## Findings

Four documented statements are not what the code does; each has a run that shows it.

1. *Writable flags* (`signer_flags`). `signer/interface/src/instruction.rs:49-50`
   demands that every submitted account's writable flag match the envelope.
   `submit.rs` compares addresses only and takes the flags of the CPI from the
   envelope, so a relay account with more privilege is accepted (and its privilege
   not forwarded, which `NoPrivilegeBeyondEnvelope` checks), and one with less is
   accepted where the executor does not use it.
2. *Partial withdrawals* (`withdraw_twice`). `nonce/withdraw.rs:31`: a partial
   withdrawal must leave the account rent-exempt. A plain withdrawal does not
   change the nonce and is checked against a balance read earlier. In the trace it is
   sent and times out, its command is run again and plans the same withdrawal from the
   balance before the first landed; then both land, and take everything between them,
   which closes the account. Withdrawals through the executor are guarded by the nonce
   they consume (`GuardedPartialStaysOpen` in `nonce_commands`).
3. *The nonce after a withdrawal* (`withdraw_report`). `nonce/withdraw.rs:220`: the
   output's nonce is the one after the withdrawal. For a plain withdrawal it is
   the one read before it was sent, and "closed" means that the whole balance as
   it was read was taken.
4. *The smallest relay transaction* (`smallest`). `transaction/sign.rs:305`: what is
   checked is the smallest relay transaction that `submit` could build. A required
   relay signer may sign, and pay for, the relay transaction in place of a
   signature in the data, which is smaller; `sign` refuses some envelopes that
   could be relayed. `Completable` shows that no envelope it accepts is too large.

Another was met and has no run. `migrate/mod.rs:35-36`: `scan` lists what the other
migrate commands can move, with the command for each. It lists every token account of the
owner with a `migrate token`, also frozen and CPI-guarded ones and those of
non-transferable mints, which that command refuses (`migrate/token.rs:147`, `252`, `257`),
and one that cannot be closed without `--no-close`. The refusal comes before anything is
signed. Hence `ListsWhatIsControlled` demands only the token accounts that can be moved,
and `SuggestionsStand` says for which of them the suggested command is accepted: those that
can be moved and closed, if the new authority's associated account can receive the tokens.

## Proofs

All of the 33 safety properties and refinements that the passing runs check are
theorems: they hold for all addresses, keys, messages, commands, balances and
bounds that satisfy the named assumptions of the modules, not only for the
instances of the runs.

| Module | Theorem | States |
|---|---|---|
| `NonceProofs` | `TypeCorrect` | `Spec => []TypeOK` |
| | `NoncesNeverReturn` | `Spec => []RetiredStaysRetired` |
| | `LiveAccountsStayRentExempt` | `Spec => []StaysRentExempt` |
| | `ColdAuthorityIsSafe` | `Spec => ColdAuthorityUntouched` |
| | `ImplementsSingleUseValues` | `Spec => ImplementsSingleUse` |
| | `SupplyConserved` | `Spec => []Conserved` |
| | `NothingIsStranded` | `Spec => []NeverStranded` |
| `ExecutorProofs` | `TypeCorrect` | `Spec => []TypeOK` |
| | `EachNonceRunsOnce` | `Spec => []OneExecutionPerNonce` |
| | `MessagesRunWhole` | `Spec => []AllOrNothing` |
| | `ChainsRunInOrder` | `Spec => []ChainInOrder` |
| | `HeadersBound` | `Spec => WithinHeader` |
| `SignerProofs` | `SignersApprove` | `SignerSpec => []EverySignerApproved` |
| | `EnvelopesBound` | `SignerSpec => []NoPrivilegeBeyondEnvelope` |
| | `PdasActForAuthorities` | `SignerSpec => PdaActsForAuthority` |
| | `ImplementsAuthorization` | `SignerSpec => ImplementsAuthorizedOnce` |
| `NonceCommandsProofs` | `TypeCorrect` | `Spec => []TypeOK` |
| | `AdvanceReportsTrue` | `Spec => []AdvanceReportIsTrue` |
| | `CreatedForItsAuthorityHolds` | `Spec => CreatedForItsAuthority` |
| | `GuardedPartialsStayOpen` | `Spec => GuardedPartialStaysOpen` |
| `RelayProofs` | `SameArgumentsSameTransaction` | `Spec => []OneRelayTransaction` |
| | `NothingWithoutConsent` | `Spec => []EveryoneConsented` |
| | `SuccessIsTrue` | `Spec => []ReportIsTrue` |
| `RolesProofs` | `ParticipantsAgree` | `Spec => []OneEnvelope` |
| | `EnvelopesAreExact` | `Spec => []HeaderIsExact` |
| | `SignersKeepTheirRoles` | `Spec => []RolesAgree` |
| | `SubmittedRuns` | `Spec => []SubmittedIsAccepted` |
| | `AcceptedCanBeSubmitted` | `Spec => []Completable` |
| | `SimulationsPredict` | `Spec => []SimulationPredicts` |
| `MigrationsProofs` | `MigrationMovesWhatItReports` | `Spec => MovesWhatItReports` |
| | `MigrationRunsIfUnchanged` | `Spec => []RunsIfUnchanged` |
| | `ScanListsWhatIsControlled` | `Spec => []ListsWhatIsControlled` |
| | `ScanSuggestionsStand` | `Spec => []SuggestionsStand` |

None of the invariants is inductive as it stands. Each proof module defines one that
is (`IInv`, `SupplyInv`, `SignerInv`, `RelayInv`, `EnvelopesOfRequest`, `MigrationInv`,
`ScanInv`), proves that the
initial states satisfy it and every action keeps it, and derives the properties.

**Nonces** (`NonceProofs`; `LedgerAssumption`, `NonceAssumption`). Nothing in
`RetiredStaysRetired` stops a retired value from being the one that the next
Initialize or Advance derives. `IInv` adds that a stored nonce names its own account
and was seeded in the slot recorded in `initialize_slot`, which is not in the future,
and that every retired value of an account is *older* than the one stored there:
seeded in an earlier slot, or in the same one with fewer advances. Initialize is safe
because an account that lost its nonce was closed in a later slot than that of its
initialization (the same-slot rule of `withdraw.rs`); Advance because its value has
one more step than any before it.

**Lamports** (`NonceProofs`; besides these `SupplyAssumption`: finitely many addresses,
which together fit a u64, and not just one). That an account can always be emptied
rests on conservation: a destination overflows only if there were more lamports than
the supply. The sum over all addresses is a recursive fold, about which the
provers know nothing, so `SupplyInv` carries an additive function that totals every
set of addresses (`Totals`): a handler changes it at two addresses at most. That such
a function exists, and that the fold computes it (`SumIsTotal`), are proved by
induction, in the form that a set of addresses for which they fail has no least
member.

**Executions** (`ExecutorProofs`; `ExecutorAssumption`, `InstructionAssumption`,
`InitLedgerAssumption`). `LedgerProofs` shows, handler by handler, that a *consumed*
nonce (its account has moved past it, or stores nothing in a later slot) stays
consumed; that an account moves to a nonce's successor only by an Advance of that
nonce; and that lamports leave only with the controller's signature. `Core` says of
the ledger that a message that was started has used up its nonce, that a message is
numbered after all that it, its lifetime or an account commits to, and that an
account holds a message's successor only if the message was started or its
commitment used by the authority itself. It says so twice, of the running
transaction's state and of the one that `Rollback` restores. `Frames` describes the
stack: no message is on it twice, `finished` counts the instructions before `next`
except the one that the next frame carries out, and no frame has a signer that the
outermost one lacks. With `SignersHeld`, that the outermost one has only the
transaction's, this is `IInv`.

**Authorizations** (`SignerProofs`; besides these `SignerAssumption`). `SignersHeld`
is what Submit adds an exception to, so `SignerInv` builds on `Core` alone. It says
that the Submit in progress is the outermost invocation, that a programmatic signer
among the outermost frame's signers belongs to a key whose signature over this very
envelope is in circulation, and that what a message has run so far, in progress,
returned or committed, was consented to by the authorities of all programmatic
signers its instructions named. Consent reaches the messages that the signed one
carries: these are the approvals of `AuthorizedOnce`. What the refinement asks an
authority's approval for are the programmatic signers that an instruction uses; a
stronger claim about all signers of the header is false, since a message nested in
another may list in its header a programmatic signer that its caller does not lend,
and run if no instruction needs it.

**Nonce commands** (`NonceCommandsProofs`; `CommandsAssumption`, `SignersAssumption`,
`PayloadsAssumption`, `InitLedgersAssumption`). `IInv` keeps for each invocation, from
its read on, the promise that it made then: an execution for a programmatic signer
finds the account with the nonce and at least the balance that it was planned from,
or its nonce is consumed (`AsPlanned`). Accounts whose authority is a programmatic
signer lose lamports only in executions, which consume the nonce, and this is what
makes guarded withdrawals safe and is missing for plain ones (`withdraw_twice`). What
has landed stays true until it is reported: `Consumed` because it is stable, `SetUp`
because an account that `create` made was never there uninitialized.

**Runs of `submit`** (`RelayProofs`; `RelayAssumption`, `ChainAssumption`). `RelayInv`
says that a run's transaction and every collected one is `Planned` from its arguments,
that the signatures given to a run are from people who agreed, and that whatever is in
flight is endorsed by all whose signatures or keys it carries. Then a transaction that
executes carries an agreement for every required signer. `ChainAssumption` says that the
messages of a chain differ from each other and from what the nonce commits to
anyway, so that an envelope's own message tells whether it ran.

**Envelopes** (`RolesProofs`; `EnvelopeAssumption`, `RolesAssumption`, `KeyAssumption`:
a programmatic signer has no key, so nobody signs with it or pays from it;
`RequestsAssumption`, the types of a request; `ListingsAssumption`: a listing of a
request repeats and reorders its addresses). `EnvelopesOfRequest` says that whatever a
participant made is the envelope of the request as it is, accepted by `sign` and small
enough; what `sign` makes of a listing depends on the sets of addresses only, in each
of the parts that it lays out. The rest is about what `sign`, `submit` and the signer
program compute, in three steps. *Sorting:* a rank is a bijection, so `Ascending` and
`At` return every element once, in order. *Layout:* the four parts of an envelope's
keys are disjoint and together are the signers, the executor and the accounts of the
Execute instruction; the header's counts are their lengths, so that a key signs, or is
writable, exactly if it stands in the right parts (`HeaderIsExact`), and every role can
be read back from the envelope (`AcceptedEnvelope`, and from it `RolesAgree`). *Relay
transaction:* a key that signs stands first among the keys that `submit` compiles, so
`Planned` gives the signer program a signature or an account for each signer of the
header. That its programmatic signers are no more than those of the listed authorities
needs `KeyAssumption`: without it a relayer could sign as one. The transaction that
`sign` measures (`SmallestRelay`) is the one that `submit` plans when all have signed
(`PlansSmallest`), hence `Completable`.

**Migrations** (`MigrationsProofs`; `MigrationAssumption`, `NamesAssumption`,
`AtaAssumption`, `CasesAssumption`: the accounts that a command meets fit together, and an
associated address holds nothing but its token account; what a program names as its data
is its data, or closed). Between the first read and the
execution anybody may change anything that the other programs permit, also an account
that was read. `MigrationInv` says what survives this: an account that was read is still
of its kind (`KindKept`: token accounts and wallets come and go, a mint stays a mint with
its fee, a stake account a stake account), it is what it was unless somebody touched it,
and a message is what the command makes of the accounts read, none of which it refused.
The rest is about one message. An execution is a recursive function of its instructions;
a command builds at most five, so the worlds that it goes through exist and are unique
without an induction (`AfterFacts`), and `Leads` puts together what its parts do: each
`SetRole` of a role not given away before, a transfer with or without the account created
for it, a closing with or without a harvest. `MigrationMovesWhatItReports` compares the last
world with the first, using of the changed accounts only that the instructions succeeded.
`MigrationRunsIfUnchanged` starts from accounts that are as they were read and derives from
what the command did not refuse that no instruction fails: the role's holder signs, the
custodian does while the lockup is in force, what is transferred was there, what is closed
is empty and closed by its close authority, and what pays keeps its rent minimum
(`Solvent`). For a scan, `ScanInv` says that each answer that a category has is right at
some moment of the scan: it has an account only with a content that the account had and that
the query asks for (`Asked`, `Recalls`), and it has every account that answered the query
with all that it held. `past` remembers the contents that a change replaced, so a change keeps
this, and for accounts that nobody touched it says that they are listed as they are
(`Agrees`). Putting the answers together is left: the mint queries cover every layout with
each role, the program queries run through the program data found (`SetToSeq` misses none), and
a kind of account answers to one category. `ScanListsWhatIsControlled` follows: nothing is
listed that the owner had at no moment, and nothing is missed that stayed the owner's, even
if it was changed between two queries. `ScanSuggestionsStand` then needs that the holder of all
the roles listed is the scan's owner, so that there is one holder who is not the new
authority, and that `SuggestRoles` names a role just if it is the only one; for tokens, that
the source and owner the command names are those of the account listed, which leaves of
`migrate token`'s causes to refuse only the account's state and its destination's.

Only model-checked are the liveness properties `AdvancePrevails` and `SignedAheadRuns`:
fairness is out of the provers' reach.

Hash collisions and signature forgery are assumed away by the representation, not
proved away.

## Not modelled

- **Argument parsing and output** (`cli.rs`, `output.rs`, `lib.rs`, `address.rs`,
  the `Display` and JSON of every command, `scan.rs:117-131` and `472-533`,
  `parse_amount`, `parse_token_amount`, `transaction decode`): a command starts
  from parsed arguments and ends with what it reports, in the abstract. The
  pre-signing summary and `simulate`'s list of balance changes are text about
  accounts and decide nothing.
- **`nonce show`**: it only reads.
- **`nonce/client/src/cpi.rs` withdraw**: a helper for other programs without a
  caller in the repository. `advance` there is `ConsumeNonce` of `Executor`.
- **The JavaScript client**: generated.
- **Account bytes.** Decoding is whether an account has the right owner and kind;
  data that does not decode is an account of another kind. v1 message validation
  is about keys and counts only.
- **In the migrate modules:** the relay transaction's fee, when the owner of moved
  SOL pays it; the native mint; the memo-required and pausable extensions of
  Token-2022, which the code does not look at either; an associated token address
  that holds lamports before it is created; accounts other than wallets and token accounts
  that are closed, or become of another kind, while a command runs; the size of an execution message; the
  placeholder that `scan` prints for an owner that is not a key.
- **In `relay`:** required relay signers who approve the envelope rather than the
  relay transaction (they are in `roles`), and offline runs over a recent blockhash.
- **RPC commitment levels and forks.** A read returns the chain's state at some
  moment of the invocation.

## Plan

The modules, runs and theorems planned are done.
