-------------------------- MODULE NonceCommandsProofs --------------------------
(* Proofs about module NonceCommands, for any accounts, commands, invocations and   *)
(* bounds.  What an invocation plans is a promise about a ledger that it no longer   *)
(* sees; the invariant follows the promise from the read to the report, through      *)
(* everything that may happen to the account meanwhile.                            *)
EXTENDS NonceCommands, LedgerProofs

CommandKeys == {c.key : c \in {d \in Command : d.op # "create"}}

CreateAuthorities == {CreatePlan(c).action.authority : c \in {d \in Command : d.op = "create"}}

Payload == [salt: Nat] \cup [to: Address, lamports: 1..U64Max]

(* What a transaction does, as some command planned it.                             *)
Creation(x) ==
    /\ x.kind = "create"
    /\ x.account \in Address /\ x.authority \in Address /\ x.lamports \in Nat
    /\ x.authority \in CreateAuthorities

Withdrawal(x) ==
    /\ x.kind = "withdraw"
    /\ x.account \in Address /\ x.to \in Address /\ x.lamports \in Nat
    /\ x.authority \in CommandKeys

Guarded(x) ==
    /\ x.kind = "execute"
    /\ x.account \in Address
    /\ x.lifetime \in NonceValue /\ x.lifetime.account = x.account
    /\ x.payload \in Payload \cap Commitment
    /\ x.closes \in BOOLEAN
    /\ x.derived => x.authority \in ProgrammaticSigners

GoodAction(x) == Creation(x) \/ Withdrawal(x) \/ Guarded(x)

(* The account is as it was when the execution was planned, but for deposits, or the  *)
(* execution cannot run any more.                                                  *)
AsPlanned(x, l, s) ==
    \/ Consumed(x.lifetime, l, s)
    \/ /\ Initialized(l[x.account])
       /\ l[x.account].state.nonce = x.lifetime
       /\ l[x.account].state.authority \in ProgrammaticSigners
       /\ "to" \in DOMAIN x.payload /\ ~x.closes =>
             l[x.account].lamports >= x.payload.lamports + MinBalance["exact"]

(* An account that somebody's `create` set up: never there for a stranger to take.     *)
SetUp(cell) ==
    IF cell.state = Zeroed THEN cell.size = "none"
                           ELSE cell.state.authority \in CreateAuthorities

WithinU64(l) == \A n \in Address : l[n].lamports <= U64Max

(* An account of a programmatic signer loses lamports only together with its nonce.   *)
KeepsGuards(l, k, s) ==
    \A n \in Address :
        Initialized(l[n]) /\ l[n].state.authority \in ProgrammaticSigners =>
            \/ Consumed(l[n].state.nonce, k, s)
            \/ /\ k[n].state = l[n].state /\ k[n].size = l[n].size
               /\ k[n].lamports >= l[n].lamports

KeepsSetUp(l, k) == \A n \in Address : SetUp(l[n]) => SetUp(k[n])

(* What every step of the chain keeps.                                              *)
Continues(l, k, s) ==
    /\ Evolves(l, k, s)
    /\ WithinU64(k)
    /\ KeepsGuards(l, k, s)
    /\ KeepsSetUp(l, k)

USE DEF Ledger

------------------------------------------------------------------------------
(* The chain's steps.                                                            *)

\* Lamports that only go up, and data that nobody touches.
LEMMA UntouchedContinues ==
    ASSUME NEW l \in Ledger, NEW k \in Ledger, NEW s, HoldsOwnNonces(l, s), WithinU64(k),
           \A n \in Address : /\ k[n].state = l[n].state /\ k[n].size = l[n].size
                              /\ l[n].size # "none" => k[n].lamports >= l[n].lamports
    PROVE  Continues(l, k, s)
<1>1. Evolves(l, k, s)
  BY SameDataEvolves
<1>2. KeepsGuards(l, k, s) /\ KeepsSetUp(l, k)
  BY DEF KeepsGuards, KeepsSetUp, SetUp, Initialized
<1> QED
  BY <1>1, <1>2 DEF Continues

\* A deposit or a payment: only wallets send lamports this way.
LEMMA TransferContinues ==
    ASSUME NEW l \in Ledger, NEW s, HoldsOwnNonces(l, s), WithinU64(l), NEW signers,
           NEW from \in Address, NEW to \in Address, NEW lamports \in Nat,
           TransferOk(l, signers, from, to, lamports)
    PROVE  LET k == TransferEffect(l, from, to, lamports)
           IN  /\ Continues(l, k, s)
               /\ \A n \in Address : k[n].state = l[n].state /\ k[n].size = l[n].size
<1> DEFINE k == TransferEffect(l, from, to, lamports)
<1> HIDE DEF k
<1>1. /\ k \in Ledger
      /\ \A n \in Address : k[n].state = l[n].state /\ k[n].size = l[n].size
      /\ k[from].lamports = l[from].lamports - lamports
      /\ k[to].lamports = l[to].lamports + lamports
      /\ \A n \in Address \ {from, to} : k[n] = l[n]
  BY TransferChanges DEF k
<1>2. \A n \in Address : l[n].lamports \in Nat
  BY DEF Cell
<1>3. /\ l[from].size = "none" /\ from # to
      /\ l[to].lamports + lamports <= U64Max
  BY DEF TransferOk, OwnedByProgram
<1>4. U64Max \in Nat
  BY LedgerAssumption DEF LedgerAssumption
<1>5. ASSUME NEW n \in Address
      PROVE  /\ k[n].lamports <= U64Max
             /\ l[n].size # "none" => k[n].lamports >= l[n].lamports
  <2>1. l[n].lamports \in Nat /\ l[n].lamports <= U64Max
    BY <1>2 DEF WithinU64
  <2> QED
    BY <1>1, <1>3, <1>4, <2>1
<1>6. WithinU64(k)
  BY <1>5 DEF WithinU64
<1> QED
  BY <1>1, <1>5, <1>6, UntouchedContinues DEF k

\* A stranger's Initialize finds no account that somebody's `create` set up.
LEMMA InitializeContinues ==
    ASSUME NEW l \in Ledger, NEW s \in Nat, HoldsOwnNonces(l, s), WithinU64(l),
           NEW n \in Address, NEW authority \in Address, InitializeOk(l, n)
    PROVE  Continues(l, InitializeEffect(l, n, authority, s), s)
<1> DEFINE k == InitializeEffect(l, n, authority, s)
<1>1. Evolves(l, k, s)
  BY InitializeEvolves
<1>2. /\ \A m \in Address : k[m].size = l[m].size /\ k[m].lamports = l[m].lamports
      /\ \A m \in Address \ {n} : k[m] = l[m]
  BY InitializeChanges
<1> HIDE DEF k
<1>3. l[n].state = Zeroed /\ l[n].size = "exact"
  BY DEF InitializeOk
<1>4. \A m \in Address : l[m].lamports \in Nat
  BY DEF Cell
<1>5. KeepsGuards(l, k, s)
  BY <1>2, <1>3, <1>4 DEF KeepsGuards, Initialized
<1>6. KeepsSetUp(l, k)
  BY <1>2, <1>3 DEF KeepsSetUp, SetUp
<1>7. WithinU64(k)
  BY <1>2 DEF WithinU64
<1> QED
  BY <1>1, <1>5, <1>6, <1>7 DEF Continues, k

\* An Advance consumes the nonce, so that it owes nothing to what was planned from it.
LEMMA AdvanceContinues ==
    ASSUME NEW l \in Ledger, NEW s, HoldsOwnNonces(l, s), WithinU64(l), NEW signers,
           NEW authority, NEW n \in Address, NEW current, NEW c \in Commitment,
           AdvanceOk(l, signers, authority, n, current)
    PROVE  LET k == AdvanceEffect(l, n, c)
           IN  /\ Continues(l, k, s)
               /\ Consumed(current, k, s)
<1> DEFINE k == AdvanceEffect(l, n, c)
<1>1. l[n].state # Zeroed /\ l[n].size = "exact" /\ current = l[n].state.nonce
  BY DEF AdvanceOk, Initialized
<1>2. Evolves(l, k, s) /\ Consumed(current, k, s)
  BY <1>1, AdvanceEvolves
<1>3. /\ k[n].state # Zeroed
      /\ k[n].state.authority = l[n].state.authority
      /\ \A m \in Address : k[m].size = l[m].size /\ k[m].lamports = l[m].lamports
      /\ \A m \in Address \ {n} : k[m] = l[m]
  BY <1>1, AdvanceChanges
<1> HIDE DEF k
<1>4. \A m \in Address : l[m].lamports \in Nat
  BY DEF Cell
<1>5. KeepsGuards(l, k, s)
  BY <1>1, <1>2, <1>3, <1>4 DEF KeepsGuards, Initialized
<1>6. KeepsSetUp(l, k)
  BY <1>1, <1>3 DEF KeepsSetUp, SetUp
<1>7. WithinU64(k)
  BY <1>3 DEF WithinU64
<1> QED
  BY <1>2, <1>5, <1>6, <1>7 DEF Continues, k

\* A withdrawal takes from its own account only.
LEMMA WithdrawKeeps ==
    ASSUME NEW l \in Ledger, NEW s \in Nat, HoldsOwnNonces(l, s), WithinU64(l),
           NEW signers, NEW authority, NEW n \in Address, NEW to \in Address,
           NEW lamports \in Nat, WithdrawOk(l, signers, s, authority, n, to, lamports)
    PROVE  LET k == WithdrawEffect(l, n, to, lamports)
           IN  /\ Evolves(l, k, s)
               /\ WithinU64(k)
               /\ KeepsSetUp(l, k)
               /\ lamports # l[n].lamports => k[n].size = l[n].size
               /\ \A m \in Address \ {n} : /\ k[m].state = l[m].state /\ k[m].size = l[m].size
                                           /\ k[m].lamports >= l[m].lamports
<1> DEFINE k == WithdrawEffect(l, n, to, lamports)
<1>1. Evolves(l, k, s)
  BY WithdrawEvolves
<1>2. /\ k \in Ledger
      /\ n # to
      /\ IF lamports = l[n].lamports
         THEN k[n] = SystemCell(0)
         ELSE /\ k[n].state = l[n].state
              /\ k[n].size = l[n].size
              /\ k[n].lamports = l[n].lamports - lamports
      /\ k[to].state = l[to].state
      /\ k[to].size = l[to].size
      /\ k[to].lamports = l[to].lamports + lamports
      /\ \A m \in Address \ {n, to} : k[m] = l[m]
  BY WithdrawChanges
<1> HIDE DEF k
<1>3. \A m \in Address : l[m].lamports \in Nat /\ l[m].lamports <= U64Max
  BY DEF Cell, WithinU64
<1>4. U64Max \in Nat /\ l[to].lamports + lamports <= U64Max
  BY LedgerAssumption DEF LedgerAssumption, WithdrawOk
<1>5. SystemCell(0).lamports = 0 /\ SystemCell(0).size = "none" /\ SystemCell(0).state = Zeroed
  BY DEF SystemCell
<1>6. \A m \in Address \ {n} : /\ k[m].state = l[m].state /\ k[m].size = l[m].size
                              /\ k[m].lamports >= l[m].lamports
  <2> SUFFICES ASSUME NEW m \in Address \ {n}
               PROVE  /\ k[m].state = l[m].state /\ k[m].size = l[m].size
                      /\ k[m].lamports >= l[m].lamports
    OBVIOUS
  <2>1. CASE m = to
    BY <1>2, <1>3, <2>1
  <2>2. CASE m # to
    BY <1>2, <1>3, <2>2
  <2> QED
    BY <2>1, <2>2
<1>7. ASSUME NEW m \in Address PROVE k[m].lamports <= U64Max
  BY <1>2, <1>3, <1>4, <1>5
<1>8. KeepsSetUp(l, k)
  BY <1>2, <1>5, <1>6 DEF KeepsSetUp, SetUp
<1> QED
  BY <1>1, <1>2, <1>6, <1>7, <1>8 DEF WithinU64, k

(* What holds of the chain.                                                         *)
GoodLedger == slot \in Nat /\ ledger \in Ledger /\ HoldsOwnNonces(ledger, slot) /\ WithinU64(ledger)

\* A key that signs a plain withdrawal is not a programmatic signer.
LEMMA WithdrawalContinues ==
    ASSUME GoodLedger, NEW x, Withdrawal(x), WithdrawalLands(x)
    PROVE  Continues(ledger, ledger', slot)
<1>1. PICK l, s : l = ledger /\ s = slot
  OBVIOUS
<1> DEFINE n == x.account
           k == WithdrawEffect(l, n, x.to, x.lamports)
<1>2. /\ WithdrawOk(l, {x.authority}, s, x.authority, n, x.to, x.lamports)
      /\ ledger' = k
  BY <1>1 DEF WithdrawalLands
<1>3. /\ l \in Ledger /\ s \in Nat /\ HoldsOwnNonces(l, s) /\ WithinU64(l)
      /\ n \in Address /\ x.to \in Address /\ x.lamports \in Nat
  BY <1>1 DEF GoodLedger, Withdrawal
<1>4. /\ Evolves(l, k, s) /\ WithinU64(k) /\ KeepsSetUp(l, k)
      /\ \A m \in Address \ {n} : /\ k[m].state = l[m].state /\ k[m].size = l[m].size
                                  /\ k[m].lamports >= l[m].lamports
  BY <1>2, <1>3, WithdrawKeeps
<1>5. Initialized(l[n]) => l[n].state.authority = x.authority
  BY <1>2 DEF WithdrawOk, MayWithdraw
<1>6. x.authority \notin ProgrammaticSigners
  BY SignersAssumption DEF Withdrawal, CommandKeys
<1>7. KeepsGuards(l, k, s)
  BY <1>4, <1>5, <1>6 DEF KeepsGuards
<1> QED
  BY <1>1, <1>2, <1>4, <1>7 DEF Continues

\* `create` funds, assigns and initializes in one transaction.
LEMMA CreationContinues ==
    ASSUME GoodLedger, NEW x, Creation(x), CreateLands(x)
    PROVE  Continues(ledger, ledger', slot) /\ SetUp(ledger'[x.account])
<1>1. PICK l, s : l = ledger /\ s = slot
  OBVIOUS
<1>0. PICK n, lamports : n = x.account /\ lamports = x.lamports
  OBVIOUS
<1> DEFINE t == TransferEffect(l, FeePayer, n, lamports)
           f == AssignEffect(t, n, "exact")
           k == InitializeEffect(f, n, x.authority, s)
<1> HIDE DEF t, f, k
<1>2. /\ l \in Ledger /\ s \in Nat /\ HoldsOwnNonces(l, s) /\ WithinU64(l)
      /\ n \in Address /\ FeePayer \in Address /\ lamports \in Nat /\ x.authority \in Address
  BY <1>0, <1>1, CommandsAssumption DEF GoodLedger, Creation
<1>3. /\ l[n] = SystemCell(0)
      /\ TransferOk(l, {FeePayer}, FeePayer, n, lamports)
      /\ InitializeOk(f, n)
      /\ ledger' = k
  BY <1>0, <1>1 DEF CreateLands, Funded, t, f, k
<1>4. Continues(l, t, s)
  BY <1>2, <1>3, TransferContinues DEF t
<1>5. t \in Ledger /\ HoldsOwnNonces(t, s) /\ WithinU64(t)
  BY <1>4 DEF Continues, Evolves
<1>6. \A m \in Address : t[m].state = l[m].state /\ t[m].size = l[m].size
  BY <1>2, <1>3, TransferContinues DEF t
<1>7. l[n].size = "none" /\ l[n].state = Zeroed
  BY <1>3 DEF SystemCell
<1>8. AssignOk(t, {n}, n)
  BY <1>2, <1>6, <1>7 DEF AssignOk, OwnedByProgram
<1>9. /\ f \in Ledger
      /\ \A m \in Address : f[m].state = t[m].state /\ f[m].lamports = t[m].lamports
      /\ \A m \in Address \ {n} : f[m] = t[m]
  BY <1>2, <1>5, AssignChanges DEF f
<1>10. Evolves(t, f, s)
  BY <1>2, <1>5, <1>8, AssignEvolves DEF f
<1>11. HoldsOwnNonces(f, s)
  BY <1>10 DEF Evolves
<1>12. Evolves(f, k, s)
  BY <1>2, <1>3, <1>9, <1>11, InitializeEvolves DEF k
<1>13. /\ k[n].state # Zeroed
       /\ k[n].state.authority = x.authority
       /\ \A m \in Address : k[m].size = f[m].size /\ k[m].lamports = f[m].lamports
       /\ \A m \in Address \ {n} : k[m] = f[m]
  BY <1>2, <1>9, InitializeChanges DEF k
<1>14. Evolves(l, k, s)
  BY <1>4, <1>10, <1>12 DEF Continues, Evolves
<1>15. WithinU64(k)
  BY <1>5, <1>9, <1>13 DEF WithinU64
<1>16. SetUp(k[n])
  BY <1>13 DEF Creation, SetUp
<1>17. \A m \in Address \ {n} : k[m] = t[m]
  BY <1>9, <1>13
<1>18. KeepsSetUp(l, k)
  BY <1>4, <1>16, <1>17 DEF Continues, KeepsSetUp
<1>19. KeepsGuards(l, k, s)
  <2> SUFFICES ASSUME NEW m \in Address,
                      Initialized(l[m]), l[m].state.authority \in ProgrammaticSigners
               PROVE  \/ Consumed(l[m].state.nonce, k, s)
                      \/ /\ k[m].state = l[m].state /\ k[m].size = l[m].size
                         /\ k[m].lamports >= l[m].lamports
    BY DEF KeepsGuards
  <2>1. m # n /\ l[m].state.nonce \in NonceValue
    BY <1>2, <1>7, StoredNonceType DEF Initialized
  <2>2. CASE Consumed(l[m].state.nonce, t, s)
    BY <1>10, <1>12, <2>1, <2>2 DEF Evolves
  <2>3. CASE /\ t[m].state = l[m].state /\ t[m].size = l[m].size
             /\ t[m].lamports >= l[m].lamports
    BY <1>17, <2>1, <2>3
  <2> QED
    BY <1>4, <2>2, <2>3 DEF Continues, KeepsGuards
<1> QED
  BY <1>0, <1>1, <1>3, <1>14, <1>15, <1>16, <1>18, <1>19 DEF Continues

\* What a payload is, by its fields.
LEMMA PayloadFields ==
    ASSUME NEW p \in Payload
    PROVE  \/ "salt" \in DOMAIN p /\ "to" \notin DOMAIN p
           \/ /\ "salt" \notin DOMAIN p /\ "to" \in DOMAIN p
              /\ p.to \in Address /\ p.lamports \in Nat
<1>1. CASE p \in [salt: Nat]
  <2>1. DOMAIN p = {"salt"}
    BY <1>1
  <2> QED
    BY <2>1
<1>2. CASE p \in [to: Address, lamports: 1..U64Max]
  <2>1. DOMAIN p = {"to", "lamports"} /\ p.to \in Address /\ p.lamports \in 1..U64Max
    BY <1>2
  <2>2. U64Max \in Nat
    BY LedgerAssumption DEF LedgerAssumption
  <2> QED
    BY <2>1, <2>2
<1> QED
  BY <1>1, <1>2 DEF Payload

\* An execution consumes the nonce it was planned from, leaves the nonce it announced
\* when it does nothing else, and leaves the account open when it takes a part.
LEMMA ExecutionContinues ==
    ASSUME GoodLedger, NEW x, Guarded(x), ExecutionLands(x)
    PROVE  /\ Continues(ledger, ledger', slot)
           /\ Consumed(x.lifetime, ledger', slot)
           /\ "salt" \in DOMAIN x.payload => NonceIn(ledger'[x.account]) = Successor(x)
           /\ AsPlanned(x, ledger, slot) /\ x.derived /\ PartialWithdrawal(x) =>
                 OwnedByProgram(ledger'[x.account])
<1>1. PICK l, s : l = ledger /\ s = slot
  OBVIOUS
<1>2. PICK n, payload, v, authority : /\ n = x.account /\ payload = x.payload
                                      /\ v = x.lifetime /\ authority = x.authority
  OBVIOUS
<1> DEFINE a == AdvanceEffect(l, n, payload)
<1> HIDE DEF a
<1>3. /\ l \in Ledger /\ s \in Nat /\ HoldsOwnNonces(l, s) /\ WithinU64(l)
      /\ n \in Address /\ payload \in Payload /\ payload \in Commitment
      /\ v \in NonceValue
  BY <1>1, <1>2 DEF GoodLedger, Guarded
<1>4. AdvanceOk(l, {authority}, authority, n, v)
  BY <1>1, <1>2 DEF ExecutionLands
<1>5. l[n].state # Zeroed /\ l[n].size = "exact" /\ l[n].state.nonce = v
  BY <1>4 DEF AdvanceOk, Initialized
<1>6. Continues(l, a, s) /\ Consumed(v, a, s)
  BY <1>3, <1>4, AdvanceContinues DEF a
<1>7. a \in Ledger /\ HoldsOwnNonces(a, s) /\ WithinU64(a)
  BY <1>6 DEF Continues, Evolves
<1>8. /\ a[n].state # Zeroed
      /\ a[n].state.nonce = NextNonce(l[n].state.nonce, payload)
      /\ \A m \in Address : a[m].size = l[m].size /\ a[m].lamports = l[m].lamports
  BY <1>3, <1>5, AdvanceChanges DEF a
<1>9. CASE "salt" \in DOMAIN payload
  <2>1. ledger' = a /\ "to" \notin DOMAIN payload
    BY <1>1, <1>2, <1>3, <1>9, PayloadFields DEF ExecutionLands, a
  <2>2. NonceIn(a[n]) = NextNonce(v, payload)
    BY <1>3, <1>5, <1>8 DEF NonceIn, Initialized
  <2>3. ~PartialWithdrawal(x)
    BY <1>2, <2>1 DEF PartialWithdrawal, Guarded
  <2> QED
    BY <1>1, <1>2, <1>6, <2>1, <2>2, <2>3 DEF Successor
<1>10. CASE "salt" \notin DOMAIN payload
  <2>1. PICK to, lamports : to = payload.to /\ lamports = payload.lamports
    OBVIOUS
  <2> DEFINE k == WithdrawEffect(a, n, to, lamports)
  <2> HIDE DEF k
  <2>2. to \in Address /\ lamports \in Nat
    BY <1>3, <1>10, <2>1, PayloadFields
  <2>3. WithdrawOk(a, {authority}, s, authority, n, to, lamports) /\ ledger' = k
    BY <1>1, <1>2, <1>10, <2>1 DEF ExecutionLands, a, k
  <2>4. /\ Evolves(a, k, s) /\ WithinU64(k) /\ KeepsSetUp(a, k)
        /\ lamports # a[n].lamports => k[n].size = a[n].size
        /\ \A m \in Address \ {n} : /\ k[m].state = a[m].state /\ k[m].size = a[m].size
                                    /\ k[m].lamports >= a[m].lamports
    BY <1>3, <1>7, <2>2, <2>3, WithdrawKeeps DEF k
  <2>5. Evolves(l, k, s) /\ Consumed(v, k, s)
    BY <1>3, <1>6, <2>4 DEF Continues, Evolves
  <2>6. \A m \in Address \ {n} : a[m] = l[m]
    BY <1>3, <1>5, AdvanceChanges DEF a
  <2>7. KeepsGuards(l, k, s)
    BY <1>5, <2>4, <2>5, <2>6 DEF KeepsGuards
  <2>8. KeepsSetUp(l, k)
    BY <1>6, <2>4 DEF Continues, KeepsSetUp
  <2>9. Continues(l, k, s)
    BY <2>4, <2>5, <2>7, <2>8 DEF Continues
  <2>10. ASSUME AsPlanned(x, l, s), PartialWithdrawal(x) PROVE OwnedByProgram(k[n])
    <3>1. "to" \in DOMAIN payload /\ ~x.closes
      BY <1>2, <2>10 DEF PartialWithdrawal, Guarded
    <3>2. ~Consumed(v, l, s)
      BY <1>3, <1>5, StoredIsNotConsumed
    <3>3. l[n].lamports >= lamports + MinBalance["exact"]
      BY <1>2, <2>1, <2>10, <3>1, <3>2 DEF AsPlanned
    <3>4. l[n].lamports \in Nat /\ MinBalance["exact"] \in Nat \ {0}
      BY <1>3, LedgerAssumption DEF Cell, LedgerAssumption
    <3>5. lamports # a[n].lamports
      BY <1>3, <1>8, <2>2, <3>3, <3>4
    <3>6. k[n].size = a[n].size
      BY <2>4, <3>5
    <3> QED
      BY <1>3, <1>5, <1>8, <3>6 DEF OwnedByProgram
  <2> QED
    BY <1>1, <1>2, <1>10, <2>3, <2>5, <2>9, <2>10
<1> QED
  BY <1>9, <1>10

\* Whatever a transaction does, the chain keeps its promises.
LEMMA ActionContinues ==
    ASSUME GoodLedger, NEW x, GoodAction(x), ActionLands(x)
    PROVE  /\ Continues(ledger, ledger', slot)
           /\ Creation(x) => SetUp(ledger'[x.account])
           /\ Guarded(x) => Consumed(x.lifetime, ledger', slot)
           /\ Guarded(x) /\ "salt" \in DOMAIN x.payload =>
                 NonceIn(ledger'[x.account]) = Successor(x)
<1>1. CASE CreateLands(x)
  BY <1>1, CreationContinues DEF CreateLands, GoodAction, Creation, Withdrawal, Guarded
<1>2. CASE WithdrawalLands(x)
  BY <1>2, WithdrawalContinues DEF WithdrawalLands, GoodAction, Creation, Withdrawal, Guarded
<1>3. CASE ExecutionLands(x)
  BY <1>3, ExecutionContinues DEF ExecutionLands, GoodAction, Creation, Withdrawal, Guarded
<1> QED
  BY <1>1, <1>2, <1>3 DEF ActionLands

------------------------------------------------------------------------------
(* The invariant.                                                                *)

Phases == Ended \cup {"planned", "sent", "confirmed"}

IsPlan(p) ==
    p = [action |-> p.action, nonce |-> p.nonce, blockhash |-> p.blockhash, after |-> p.after]

ForPda(x) == x.kind = "execute" /\ x.derived

(* What a command makes of the account it reads.                                    *)
Fits(c, p) ==
    /\ c \in Command
    /\ GoodAction(p.action) /\ p.action.account = c.account
    /\ c.op = "create" => Creation(p.action)
    /\ c.op = "advance" =>
          /\ Guarded(p.action)
          /\ "salt" \in DOMAIN p.action.payload
          /\ p.nonce = Successor(p.action)

(* The transaction of run r has landed, and what r is going to say of it is so.       *)
Landed(r) ==
    /\ command[r].op = "advance" =>
          /\ plan[r].after = plan[r].nonce
          /\ Consumed(plan[r].action.lifetime, ledger, slot)
    /\ command[r].op = "create" => SetUp(ledger[command[r].account])

RunInv(r) ==
    /\ phase[r] \in Phases
    /\ command[r] \in Asks[r] \cup {NoNonce}
    /\ IsPlan(plan[r]) /\ plan[r].nonce \in NonceValue \cup {NoNonce}
    /\ phase[r] # "idle" => Fits(command[r], plan[r])
    /\ phase[r] \in {"planned", "printed"} =>
          /\ plan[r].after = Unknown
          /\ ForPda(plan[r].action) => AsPlanned(plan[r].action, ledger, slot)
    /\ phase[r] = "printed" => ForPda(plan[r].action)
    /\ phase[r] = "sent" /\ plan[r].after # Unknown => Landed(r)
    /\ phase[r] \in {"confirmed", "done"} => Landed(r)
    /\ phase[r] = "confirmed" => command[r].op = "create"

RunsAreFunctions ==
    /\ phase = [r \in Run |-> phase[r]]
    /\ command = [r \in Run |-> command[r]]
    /\ plan = [r \in Run |-> plan[r]]

SignedForPda == \A x \in signed : Guarded(x) /\ x.derived /\ AsPlanned(x, ledger, slot)

IInv ==
    /\ GoodLedger
    /\ RunsAreFunctions
    /\ \A r \in Run : RunInv(r)
    /\ \A t \in inFlight : GoodAction(t.action)
    /\ inFlight \cap landed = {}
    /\ SignedForPda

(* The chain only moves on.                                                         *)
ChainMoves ==
    /\ GoodLedger'
    /\ \A v \in NonceValue : Consumed(v, ledger, slot) => Consumed(v, ledger', slot')
    /\ \A x : Guarded(x) /\ AsPlanned(x, ledger, slot) => AsPlanned(x, ledger', slot')
    /\ KeepsSetUp(ledger, ledger')

\* What a transaction does to the accounts voids no plan.
LEMMA ContinuesMoves ==
    ASSUME GoodLedger, Continues(ledger, ledger', slot), slot' = slot
    PROVE  ChainMoves
<1>1. GoodLedger'
  BY DEF GoodLedger, Continues, Evolves
<1>2. \A v \in NonceValue : Consumed(v, ledger, slot) => Consumed(v, ledger', slot)
  BY DEF Continues, Evolves
<1>3. ASSUME NEW x, Guarded(x), AsPlanned(x, ledger, slot)
      PROVE  AsPlanned(x, ledger', slot)
  <2>1. PICK l, k, s : l = ledger /\ k = ledger' /\ s = slot
    OBVIOUS
  <2>2. PICK n, v : n = x.account /\ v = x.lifetime
    OBVIOUS
  <2>3. n \in Address /\ v \in NonceValue /\ x.payload \in Payload
    BY <1>3, <2>2 DEF Guarded
  <2>4. CASE Consumed(v, l, s)
    BY <1>2, <2>1, <2>2, <2>3, <2>4 DEF AsPlanned
  <2>5. CASE ~Consumed(v, l, s)
    <3>1. /\ Initialized(l[n]) /\ l[n].state.nonce = v
          /\ l[n].state.authority \in ProgrammaticSigners
          /\ "to" \in DOMAIN x.payload /\ ~x.closes =>
                l[n].lamports >= x.payload.lamports + MinBalance["exact"]
      BY <1>3, <2>1, <2>2, <2>5 DEF AsPlanned
    <3>2. \/ Consumed(v, k, s)
          \/ k[n].state = l[n].state /\ k[n].size = l[n].size /\ k[n].lamports >= l[n].lamports
      BY <2>1, <2>3, <3>1 DEF Continues, KeepsGuards
    <3>3. l[n].lamports \in Nat /\ k[n].lamports \in Nat
      BY <1>1, <2>1, <2>3 DEF GoodLedger, Cell
    <3>4. MinBalance["exact"] \in Nat
      BY LedgerAssumption DEF LedgerAssumption
    <3>5. "to" \in DOMAIN x.payload => x.payload.lamports \in Nat
      BY <2>3, PayloadFields
    <3>6. CASE k[n].state = l[n].state /\ k[n].size = l[n].size /\ k[n].lamports >= l[n].lamports
      <4>1. "to" \in DOMAIN x.payload /\ ~x.closes =>
               k[n].lamports >= x.payload.lamports + MinBalance["exact"]
        BY <3>1, <3>3, <3>4, <3>5, <3>6
      <4> QED
        BY <2>1, <2>2, <3>1, <3>6, <4>1 DEF AsPlanned, Initialized
    <3> QED
      BY <2>1, <2>2, <3>2, <3>6 DEF AsPlanned
  <2> QED
    BY <2>4, <2>5
<1> QED
  BY <1>1, <1>2, <1>3 DEF ChainMoves, Continues

\* Nor does the passing of time.
LEMMA SlotMoves ==
    ASSUME GoodLedger, ledger' = ledger, slot' \in {slot, slot + 1}
    PROVE  ChainMoves
<1>1. /\ slot' \in Nat /\ HoldsOwnNonces(ledger, slot')
      /\ \A v \in NonceValue : Consumed(v, ledger, slot) => Consumed(v, ledger, slot')
  <2>1. PICK l, s, t : l = ledger /\ s = slot /\ t = slot'
    OBVIOUS
  <2>2. s \in Nat /\ t \in Nat /\ s <= t /\ l \in Ledger /\ HoldsOwnNonces(l, s)
    BY <2>1 DEF GoodLedger
  <2> QED
    BY <2>1, <2>2, SlotEvolves
<1>2. GoodLedger'
  BY <1>1 DEF GoodLedger
<1>3. \A x : Guarded(x) /\ AsPlanned(x, ledger, slot) => AsPlanned(x, ledger', slot')
  BY <1>1 DEF AsPlanned, Guarded
<1> QED
  BY <1>1, <1>2, <1>3 DEF ChainMoves, KeepsSetUp

------------------------------------------------------------------------------
(* Planning.                                                                     *)

\* What every plan has.
WellPlanned(c, p) ==
    /\ IsPlan(p)
    /\ p.nonce \in NonceValue \cup {NoNonce}
    /\ p.after = Unknown
    /\ Fits(c, p)
    /\ ForPda(p.action) => AsPlanned(p.action, ledger, slot)

\* A command has one of three forms.
LEMMA CommandForms ==
    ASSUME NEW c \in Command
    PROVE  /\ c.op \in {"create", "advance", "withdraw"}
           /\ c.op = "create" => c.account \in Address /\ c.authority \in Address
           /\ c.op = "advance" =>
                 /\ c.account \in Address /\ c.canSign \in BOOLEAN
                 /\ c.salt \in Nat /\ [salt |-> c.salt] \in Payload \cap Commitment
           /\ c.op = "withdraw" =>
                 /\ c.account \in Address /\ c.to \in Address /\ c.canSign \in BOOLEAN
                 /\ c.amount \in Nat \cup {All}
           /\ c.op # "create" => c.key \in CommandKeys /\ c.key \in DOMAIN Pda
<1>1. c \in CreateCommand \cup AdvanceCommand \cup WithdrawCommand
  BY CommandsAssumption DEF Command
<1>2. c.op = "advance" => [salt |-> c.salt] \in Commitment
  BY PayloadsAssumption
<1>3. c.op # "create" => c.key \in CommandKeys /\ c.key \in DOMAIN Pda
  BY SignersAssumption DEF CommandKeys
<1>4. \A n \in Nat : [salt |-> n] \in Payload
  BY DEF Payload
<1>5. CASE c \in CreateCommand
  <2>1. c.op = "create" /\ c.account \in Address /\ c.authority \in Address
    BY <1>5 DEF CreateCommand
  <2> QED
    BY <2>1
<1>6. CASE c \in AdvanceCommand
  <2>1. c.op = "advance" /\ c.account \in Address /\ c.canSign \in BOOLEAN /\ c.salt \in Nat
    BY <1>6 DEF AdvanceCommand
  <2> QED
    BY <1>2, <1>3, <1>4, <2>1
<1>7. CASE c \in WithdrawCommand
  <2>1. /\ c.op = "withdraw" /\ c.account \in Address /\ c.to \in Address
        /\ c.canSign \in BOOLEAN /\ c.amount \in Nat \cup {All}
    BY <1>7 DEF WithdrawCommand
  <2> QED
    BY <1>3, <2>1
<1> QED
  BY <1>1, <1>5, <1>6, <1>7

\* A programmatic signer that a key can stand behind.
LEMMA DerivedIsProgrammatic ==
    ASSUME NEW cell, NEW c, c.key \in DOMAIN Pda, Derived(cell, c)
    PROVE  cell.state.authority \in ProgrammaticSigners
BY DEF Derived, ProgrammaticSigners

\* create plans to set up an account of its authority, or the authority's PDA.
LEMMA CreateIsWellPlanned ==
    ASSUME NEW c \in Command, c.op = "create"
    PROVE  WellPlanned(c, CreatePlan(c))
<1> DEFINE p == CreatePlan(c)
           b == IF c.derive THEN Pda[c.authority] ELSE c.authority
           x == [kind |-> "create", account |-> c.account, authority |-> b,
                 lamports |-> MinBalance["exact"]]
<1>1. p = [action |-> x, nonce |-> NoNonce, blockhash |-> 0, after |-> Unknown]
  BY DEF CreatePlan
<1>2. p.action.authority \in CreateAuthorities
  BY DEF CreateAuthorities
<1> HIDE DEF p
<1>3. b \in Address
  BY CommandForms, SignersAssumption
<1>4. MinBalance["exact"] \in Nat
  BY LedgerAssumption DEF LedgerAssumption
<1> HIDE DEF b
<1>5. /\ x.kind = "create" /\ x.account = c.account /\ x.account \in Address
      /\ x.authority = b /\ x.lamports \in Nat
  BY <1>4, CommandForms
<1> HIDE DEF x
<1>6. /\ IsPlan(p) /\ p.action = x /\ p.nonce = NoNonce /\ p.after = Unknown
  BY <1>1 DEF IsPlan
<1>7. Creation(x)
  BY <1>2, <1>3, <1>5, <1>6 DEF Creation
<1> QED
  BY <1>5, <1>6, <1>7 DEF WellPlanned, Fits, GoodAction, ForPda, p

\* An execution is planned from what the account stores.
LEMMA ExecutionIsPlanned ==
    ASSUME GoodLedger, NEW c \in Command, c.op # "create",
           Initialized(ledger[c.account]),
           Direct(ledger[c.account], c) \/ Derived(ledger[c.account], c),
           NEW payload \in Payload \cap Commitment, NEW closes \in BOOLEAN,
           Derived(ledger[c.account], c) /\ "to" \in DOMAIN payload /\ ~closes =>
              ledger[c.account].lamports >= payload.lamports + MinBalance["exact"]
    PROVE  LET x == Execution(ledger[c.account], c, payload, closes)
           IN  /\ Guarded(x)
               /\ x.account = c.account /\ x.payload = payload
               /\ ForPda(x) => AsPlanned(x, ledger, slot)
               /\ Successor(x) \in NonceValue
<1> DEFINE cell == ledger[c.account]
           x == Execution(cell, c, payload, closes)
<1>1. c.account \in Address /\ c.key \in DOMAIN Pda
  BY CommandForms
<1>2. /\ cell.state # Zeroed /\ cell.size = "exact"
      /\ cell.state.nonce \in NonceValue /\ cell.state.nonce.account = c.account
  BY <1>1, StoredNonceType DEF GoodLedger, HoldsOwnNonces, Initialized
<1>3. Derived(cell, c) => cell.state.authority \in ProgrammaticSigners
  BY <1>1, DerivedIsProgrammatic
<1>4. /\ x.kind = "execute" /\ x.authority = cell.state.authority /\ x.account = c.account
      /\ x.lifetime = cell.state.nonce /\ x.payload = payload /\ x.closes = closes
      /\ x.derived = Derived(cell, c)
  BY DEF Execution
<1> HIDE DEF cell, x
<1>5. Guarded(x)
  BY <1>1, <1>2, <1>3, <1>4 DEF Guarded
<1>6. ForPda(x) => AsPlanned(x, ledger, slot)
  BY <1>2, <1>3, <1>4 DEF ForPda, AsPlanned, cell
<1>7. Successor(x) \in NonceValue
  BY <1>2, <1>4, DerivedNonce DEF Successor
<1> QED
  BY <1>4, <1>5, <1>6, <1>7 DEF x, cell

\* advance plans to consume the nonce that it read, and to report its successor.
LEMMA AdvanceIsWellPlanned ==
    ASSUME GoodLedger, NEW c \in Command, c.op = "advance",
           ~AdvanceRefused(ledger[c.account], c)
    PROVE  WellPlanned(c, AdvancePlan(ledger[c.account], c))
<1> DEFINE cell == ledger[c.account]
           payload == [salt |-> c.salt]
           x == Execution(cell, c, payload, FALSE)
           p == AdvancePlan(cell, c)
<1>1. p = [action |-> x, nonce |-> Successor(x), blockhash |-> 0, after |-> Unknown]
  BY DEF AdvancePlan
<1>2. payload \in Payload \cap Commitment
  BY CommandForms
<1>3. "salt" \in DOMAIN payload /\ "to" \notin DOMAIN payload
  OBVIOUS
<1>4. Initialized(cell) /\ (Direct(cell, c) \/ Derived(cell, c))
  BY DEF AdvanceRefused
<1> HIDE DEF payload, p
<1>5. PICK no : no = FALSE
  OBVIOUS
<1>6. x = Execution(cell, c, payload, no)
  BY <1>5
<1>7. /\ Guarded(x) /\ x.account = c.account /\ x.payload = payload
      /\ ForPda(x) => AsPlanned(x, ledger, slot)
      /\ Successor(x) \in NonceValue
  BY <1>2, <1>3, <1>4, <1>5, <1>6, ExecutionIsPlanned
<1> HIDE DEF x
<1>8. /\ IsPlan(p) /\ p.action = x /\ p.nonce = Successor(x) /\ p.after = Unknown
  BY <1>1 DEF IsPlan
<1> QED
  BY <1>3, <1>7, <1>8 DEF WellPlanned, Fits, GoodAction, p, cell

\* withdraw plans for the balance that it read: a part leaves the rent minimum.
LEMMA WithdrawIsWellPlanned ==
    ASSUME GoodLedger, NEW c \in Command, c.op = "withdraw",
           ~WithdrawRefused(ledger[c.account], c)
    PROVE  WellPlanned(c, WithdrawPlan(ledger[c.account], c))
<1> DEFINE cell == ledger[c.account]
           lamports == Lamports(cell, c)
           rest == Remaining(cell, c)
           closes == rest = 0
           payload == [to |-> c.to, lamports |-> lamports]
           p == WithdrawPlan(cell, c)
<1>1. /\ c.account \in Address /\ c.to \in Address /\ c.key \in CommandKeys
      /\ c.amount \in Nat \cup {All}
  BY CommandForms
<1>2. cell.lamports \in Nat /\ cell.lamports <= U64Max
  BY <1>1 DEF GoodLedger, WithinU64, Cell
<1>3. lamports \in Nat /\ rest = cell.lamports - lamports
  BY <1>1, <1>2 DEF Lamports, Remaining
<1>4. /\ lamports # 0 /\ ~(rest < 0)
      /\ Initialized(cell) => /\ rest \notin 1..MinBalance["exact"] - 1
                              /\ Direct(cell, c) \/ Derived(cell, c)
      /\ ~Initialized(cell) => rest = 0
  BY DEF WithdrawRefused
<1>5. MinBalance["exact"] \in Nat /\ U64Max \in Nat
  BY LedgerAssumption DEF LedgerAssumption
<1> HIDE DEF lamports, rest
<1>6. rest \in Nat /\ lamports \in 1..U64Max
  BY <1>2, <1>3, <1>4, <1>5
<1>7. payload \in Payload \cap Commitment
  BY <1>1, <1>6, PayloadsAssumption DEF Payload
<1>8. payload.lamports = lamports
  OBVIOUS
<1>9. Initialized(cell) /\ rest # 0 => cell.lamports >= lamports + MinBalance["exact"]
  BY <1>2, <1>3, <1>4, <1>5, <1>6
<1>10. closes \in BOOLEAN
  OBVIOUS
<1>11. CASE Initialized(cell) /\ Derived(cell, c)
  <2> DEFINE x == Execution(cell, c, payload, closes)
             v == IF closes THEN NoNonce ELSE Successor(x)
  <2>1. p = [action |-> x, nonce |-> v, blockhash |-> 0, after |-> Unknown]
    BY <1>11 DEF WithdrawPlan, lamports, rest
  <2> HIDE DEF payload, p
  <2>2. PICK b : b = closes
    OBVIOUS
  <2>3. b \in BOOLEAN /\ (~b => cell.lamports >= payload.lamports + MinBalance["exact"])
    BY <1>8, <1>9, <1>10, <1>11, <2>2 DEF payload
  <2>4. x = Execution(cell, c, payload, b)
    BY <2>2
  <2>5. /\ Guarded(x) /\ x.account = c.account
        /\ ForPda(x) => AsPlanned(x, ledger, slot)
        /\ Successor(x) \in NonceValue
    BY <1>7, <1>11, <2>3, <2>4, ExecutionIsPlanned
  <2> HIDE DEF x
  <2>6. v \in NonceValue \cup {NoNonce}
    BY <2>5
  <2> HIDE DEF v
  <2>7. /\ IsPlan(p) /\ p.action = x /\ p.nonce = v /\ p.after = Unknown
    BY <2>1 DEF IsPlan
  <2> QED
    BY <2>5, <2>6, <2>7 DEF WellPlanned, Fits, GoodAction, p, cell
<1>12. CASE ~(Initialized(cell) /\ Derived(cell, c))
  <2> DEFINE x == PlainWithdrawal(cell, c)
             v == IF closes THEN NoNonce ELSE cell.state.nonce
  <2>1. p = [action |-> x, nonce |-> v, blockhash |-> 0, after |-> Unknown]
    BY <1>12 DEF WithdrawPlan, rest
  <2>2. /\ x.kind = "withdraw" /\ x.account = c.account /\ x.to = c.to
        /\ x.authority = c.key /\ x.lamports = lamports
    BY DEF PlainWithdrawal, lamports
  <2> HIDE DEF x, p
  <2>3. Withdrawal(x)
    BY <1>1, <1>6, <2>2 DEF Withdrawal
  <2>4. ~closes => cell.state.nonce \in NonceValue
    BY <1>1, <1>4, StoredNonceType DEF GoodLedger, Initialized
  <2>5. v \in NonceValue \cup {NoNonce}
    BY <2>4
  <2> HIDE DEF v
  <2>6. /\ IsPlan(p) /\ p.action = x /\ p.nonce = v /\ p.after = Unknown
    BY <2>1 DEF IsPlan
  <2> QED
    BY <2>2, <2>3, <2>5, <2>6 DEF WellPlanned, Fits, GoodAction, ForPda, p, cell
<1> QED
  BY <1>11, <1>12

\* What a command does not refuse, it plans well.
LEMMA PlannedIsWellPlanned ==
    ASSUME GoodLedger, NEW c \in Command, ~Refused(ledger[c.account], c)
    PROVE  WellPlanned(c, Planned(ledger[c.account], c))
<1> DEFINE cell == ledger[c.account]
<1>1. CASE c.op = "create"
  <2>1. Planned(cell, c) = CreatePlan(c)
    BY <1>1, Zenon DEF Planned
  <2> QED
    BY <1>1, <2>1, CreateIsWellPlanned
<1>2. CASE c.op = "advance"
  <2>1. Planned(cell, c) = AdvancePlan(cell, c)
    BY <1>2, Zenon DEF Planned
  <2>2. ~AdvanceRefused(cell, c)
    BY <1>2 DEF Refused
  <2> QED
    BY <1>2, <2>1, <2>2, AdvanceIsWellPlanned
<1>3. CASE c.op = "withdraw"
  <2>1. Planned(cell, c) = WithdrawPlan(cell, c)
    BY <1>3, Zenon DEF Planned
  <2>2. ~WithdrawRefused(cell, c)
    BY <1>3 DEF Refused
  <2> QED
    BY <1>3, <2>1, <2>2, WithdrawIsWellPlanned
<1> QED
  BY <1>1, <1>2, <1>3, CommandForms

------------------------------------------------------------------------------
(* Every step keeps the invariant.                                               *)

\* An action for a programmatic signer is an execution.
LEMMA ForPdaIsGuarded ==
    ASSUME NEW x, GoodAction(x), ForPda(x)
    PROVE  Guarded(x)
BY DEF GoodAction, ForPda, Creation, Withdrawal, Guarded

\* An invocation is not disturbed by what goes on elsewhere.
LEMMA RunStays ==
    ASSUME ChainMoves, NEW r \in Run, RunInv(r),
           phase'[r] = phase[r], command'[r] = command[r], plan'[r] = plan[r]
    PROVE  RunInv(r)'
<1>1. PICK p, c, q : p = plan[r] /\ c = command[r] /\ q = phase[r]
  OBVIOUS
<1>2. /\ plan[r] = p /\ command[r] = c /\ phase[r] = q
      /\ plan'[r] = p /\ command'[r] = c /\ phase'[r] = q
  BY <1>1
<1>3. ASSUME q # "idle"
      PROVE  Fits(c, p) /\ c \in Command /\ c.account \in Address /\ GoodAction(p.action)
  <2>1. Fits(c, p)
    BY <1>2, <1>3 DEF RunInv
  <2> QED
    BY <2>1, CommandForms DEF Fits
<1>4. ASSUME q \in {"planned", "printed"}, ForPda(p.action)
      PROVE  AsPlanned(p.action, ledger', slot')
  <2>1. Guarded(p.action) /\ AsPlanned(p.action, ledger, slot)
    BY <1>2, <1>3, <1>4, ForPdaIsGuarded DEF RunInv
  <2> QED
    BY <2>1 DEF ChainMoves
<1>5. ASSUME Landed(r), q # "idle" PROVE Landed(r)'
  <2>1. c.op = "advance" => /\ p.after = p.nonce
                            /\ Consumed(p.action.lifetime, ledger, slot)
                            /\ p.action.lifetime \in NonceValue
    BY <1>2, <1>3, <1>5 DEF Landed, Fits, Guarded
  <2>2. c.op = "create" => SetUp(ledger[c.account])
    BY <1>2, <1>5 DEF Landed
  <2>3. c.op = "advance" => p.after = p.nonce /\ Consumed(p.action.lifetime, ledger', slot')
    BY <2>1 DEF ChainMoves
  <2>4. c.op = "create" => SetUp(ledger'[c.account])
    BY <1>3, <1>5, <2>2 DEF ChainMoves, KeepsSetUp
  <2> QED
    BY <1>2, <2>3, <2>4 DEF Landed
<1> QED
  BY <1>2, <1>4, <1>5 DEF RunInv

\* Steps of the chain that no invocation notices.
LEMMA ElsewhereKeeps ==
    ASSUME IInv, ChainMoves, UNCHANGED <<phase, command, plan, signed>>,
           inFlight' \subseteq inFlight, inFlight' \cap landed' = {}
    PROVE  IInv'
<1>1. \A r \in Run : RunInv(r)'
  BY RunStays DEF IInv
<1>2. RunsAreFunctions'
  BY DEF IInv, RunsAreFunctions
<1>3. SignedForPda'
  BY DEF IInv, SignedForPda, ChainMoves
<1> QED
  BY <1>1, <1>2, <1>3 DEF IInv, ChainMoves

\* A step of invocation r itself, on an unchanged chain.
LEMMA OwnStepKeeps ==
    ASSUME IInv, UNCHANGED <<ledger, slot, landed>>, NEW r \in Run, NEW p, NEW c, NEW q,
           phase' = [phase EXCEPT ![r] = q], command' = [command EXCEPT ![r] = c],
           plan' = [plan EXCEPT ![r] = p],
           RunInv(r)', SignedForPda', \A t \in inFlight' : GoodAction(t.action),
           inFlight' \cap landed' = {}
    PROVE  IInv'
<1>1. ChainMoves
  BY SlotMoves DEF IInv, GoodLedger
<1>2. RunsAreFunctions'
  BY DEF IInv, RunsAreFunctions
<1>3. ASSUME NEW o \in Run, o # r PROVE RunInv(o)'
  BY <1>1, <1>3, RunStays DEF IInv, RunsAreFunctions
<1> QED
  BY <1>1, <1>2, <1>3 DEF IInv, ChainMoves

\* A run that has gone idle promises nothing.
LEMMA IdleRun ==
    ASSUME NEW r \in Run, phase'[r] = "idle", command'[r] \in Asks[r] \cup {NoNonce},
           plan'[r] = NoPlan
    PROVE  RunInv(r)'
<1>1. IsPlan(NoPlan) /\ NoPlan.nonce = NoNonce
  BY DEF IsPlan, NoPlan
<1> QED
  BY <1>1 DEF RunInv, Phases, Ended

\* An invocation adds a good plan, or prints a message that others may relay.
LEMMA InvokeKeeps ==
    ASSUME IInv, NEW r \in Run, NEW c \in Asks[r], Invoke(r, c)
    PROVE  IInv'
<1>1. PICK p : p = Planned(ledger[c.account], c)
  OBVIOUS
<1>2. PICK q : q = IF Prints(p, c) THEN "printed" ELSE "planned"
  OBVIOUS
<1>3. /\ ~Refused(ledger[c.account], c)
      /\ command' = [command EXCEPT ![r] = c]
      /\ plan' = [plan EXCEPT ![r] = p]
      /\ phase' = [phase EXCEPT ![r] = q]
      /\ UNCHANGED <<ledger, slot, inFlight, landed, signed>>
  BY <1>1, <1>2 DEF Invoke
<1>4. c \in Command
  BY DEF Command
<1>5. WellPlanned(c, p)
  BY <1>1, <1>3, <1>4, PlannedIsWellPlanned DEF IInv
<1>6. phase'[r] = q /\ command'[r] = c /\ plan'[r] = p
  BY <1>3 DEF IInv, RunsAreFunctions
<1>7. q \in {"planned", "printed"} /\ (q = "printed" => ForPda(p.action))
  BY <1>2 DEF Prints, ForPda
<1>8. RunInv(r)'
  BY <1>3, <1>5, <1>6, <1>7 DEF RunInv, WellPlanned, Phases, Ended
<1>9. SignedForPda'
  BY <1>3 DEF IInv, SignedForPda
<1> QED
  BY <1>3, <1>8, <1>9, OwnStepKeeps DEF IInv

\* What a run puts into circulation is what it promised.
LEMMA CirculateKeeps ==
    ASSUME IInv, NEW x, GoodAction(x), ForPda(x), AsPlanned(x, ledger, slot),
           Circulate(x), UNCHANGED <<ledger, slot>>
    PROVE  SignedForPda'
<1>1. signed' \subseteq signed \cup {x}
  BY DEF Circulate
<1>2. Guarded(x) /\ x.derived
  BY ForPdaIsGuarded DEF ForPda
<1> QED
  BY <1>1, <1>2 DEF IInv, SignedForPda

\* A cold authority signs what the model lets it sign.
LEMMA SignElsewhereKeeps ==
    ASSUME IInv, NEW r \in Run, SignElsewhere(r)
    PROVE  IInv'
<1>1. PICK x, c : x = plan[r].action /\ c = command[r]
  OBVIOUS
<1>2. /\ phase[r] = "printed"
      /\ phase' = [phase EXCEPT ![r] = "idle"]
      /\ plan' = [plan EXCEPT ![r] = NoPlan]
      /\ Circulate(x)
      /\ UNCHANGED <<ledger, slot, command, inFlight, landed>>
  BY <1>1 DEF SignElsewhere
<1>3. GoodAction(x) /\ ForPda(x) /\ AsPlanned(x, ledger, slot)
  BY <1>1, <1>2 DEF IInv, RunInv, Fits
<1>4. SignedForPda'
  BY <1>2, <1>3, CirculateKeeps
<1>5. /\ phase'[r] = "idle" /\ plan'[r] = NoPlan
      /\ command'[r] = c /\ c \in Asks[r] \cup {NoNonce}
      /\ command' = [command EXCEPT ![r] = c]
  BY <1>1, <1>2 DEF IInv, RunsAreFunctions, RunInv
<1>6. RunInv(r)'
  BY <1>5, IdleRun
<1> QED
  BY <1>2, <1>4, <1>5, <1>6, OwnStepKeeps DEF IInv

\* A command that gives up reports nothing.
LEMMA TimeOutKeeps ==
    ASSUME IInv, NEW r \in Run, TimeOut(r)
    PROVE  IInv'
<1>1. PICK c : c = command[r]
  OBVIOUS
<1>2. /\ phase' = [phase EXCEPT ![r] = "idle"]
      /\ plan' = [plan EXCEPT ![r] = NoPlan]
      /\ UNCHANGED <<ledger, slot, command, inFlight, landed, signed>>
  BY DEF TimeOut
<1>3. /\ phase'[r] = "idle" /\ plan'[r] = NoPlan
      /\ command'[r] = c /\ c \in Asks[r] \cup {NoNonce}
      /\ command' = [command EXCEPT ![r] = c]
  BY <1>1, <1>2 DEF IInv, RunsAreFunctions, RunInv
<1>4. RunInv(r)' /\ SignedForPda'
  BY <1>2, <1>3, IdleRun DEF IInv, SignedForPda
<1> QED
  BY <1>2, <1>3, <1>4, OwnStepKeeps DEF IInv

\* A command reports success only of a transaction that landed.
LEMMA ConfirmKeeps ==
    ASSUME IInv, NEW r \in Run, Confirm(r)
    PROVE  IInv'
<1>1. PICK c, p : c = command[r] /\ p = plan[r]
  OBVIOUS
<1>2. PICK q : q = IF c.op = "create" THEN "confirmed" ELSE "done"
  OBVIOUS
<1>3. /\ phase[r] = "sent" /\ p.after # Unknown
      /\ phase' = [phase EXCEPT ![r] = q]
      /\ UNCHANGED <<ledger, slot, command, plan, inFlight, landed, signed>>
  BY <1>1, <1>2 DEF Confirm
<1>4. /\ phase'[r] = q /\ command'[r] = c /\ plan'[r] = p
      /\ command' = [command EXCEPT ![r] = c] /\ plan' = [plan EXCEPT ![r] = p]
  BY <1>1, <1>3 DEF IInv, RunsAreFunctions
<1>5. RunInv(r) /\ Landed(r)
  BY <1>1, <1>3 DEF IInv, RunInv
<1>6. Landed(r)'
  BY <1>3, <1>5 DEF Landed
<1>7. RunInv(r)'
  BY <1>1, <1>2, <1>3, <1>4, <1>5, <1>6 DEF RunInv, Phases, Ended
<1>8. SignedForPda'
  BY <1>3 DEF IInv, SignedForPda
<1> QED
  BY <1>3, <1>4, <1>7, <1>8, OwnStepKeeps DEF IInv

\* What is sent is what was planned.
LEMMA SendKeeps ==
    ASSUME IInv, NEW r \in Run, Send(r)
    PROVE  IInv'
<1>1. PICK x, c, p, t : /\ x = plan[r].action /\ c = command[r]
                        /\ p = [plan[r] EXCEPT !.blockhash = slot]
                        /\ t = [action |-> x, blockhash |-> slot]
  OBVIOUS
<1>2. /\ phase[r] = "planned"
      /\ phase' = [phase EXCEPT ![r] = "sent"]
      /\ plan' = [plan EXCEPT ![r] = p]
      /\ inFlight' = inFlight \cup ({t} \ landed)
      /\ IF ForPda(x) THEN Circulate(x) ELSE UNCHANGED signed
      /\ UNCHANGED <<ledger, slot, command, landed>>
  BY <1>1 DEF Send, ForPda
<1>3. /\ RunInv(r) /\ Fits(c, plan[r]) /\ GoodAction(x)
      /\ plan[r].after = Unknown
      /\ ForPda(x) => AsPlanned(x, ledger, slot)
  BY <1>1, <1>2 DEF IInv, RunInv, Fits
<1>4. /\ IsPlan(p) /\ p.action = x /\ p.nonce = plan[r].nonce /\ p.after = Unknown
  <2>1. PICK y, v, b, s : /\ plan[r] = [action |-> y, nonce |-> v, blockhash |-> b, after |-> Unknown]
                          /\ s = slot
    BY <1>3 DEF RunInv, IsPlan
  <2>2. p = [action |-> y, nonce |-> v, blockhash |-> s, after |-> Unknown]
    BY <1>1, <2>1
  <2>3. x = y /\ plan[r].nonce = v
    BY <1>1, <2>1
  <2> QED
    BY <2>2, <2>3 DEF IsPlan
<1>5. Fits(c, p)
  BY <1>1, <1>3, <1>4 DEF Fits
<1>6. /\ phase'[r] = "sent" /\ plan'[r] = p /\ command'[r] = c
      /\ command' = [command EXCEPT ![r] = c]
  BY <1>1, <1>2 DEF IInv, RunsAreFunctions
<1>7. c \in Asks[r] \cup {NoNonce} /\ p.nonce \in NonceValue \cup {NoNonce}
  BY <1>1, <1>3, <1>4 DEF RunInv
<1>8. RunInv(r)'
  BY <1>4, <1>5, <1>6, <1>7 DEF RunInv, Phases, Ended
<1>9. SignedForPda'
  <2>1. CASE ForPda(x)
    BY <1>2, <1>3, <2>1, CirculateKeeps
  <2>2. CASE ~ForPda(x)
    BY <1>2, <2>2 DEF IInv, SignedForPda
  <2> QED
    BY <2>1, <2>2
<1>10. t.action = x
  BY <1>1
<1>11. \A o \in inFlight' : GoodAction(o.action)
  BY <1>2, <1>3, <1>10 DEF IInv
<1>12. inFlight' \cap landed' = {}
  BY <1>2 DEF IInv
<1> QED
  BY <1>2, <1>6, <1>8, <1>9, <1>11, <1>12, OwnStepKeeps

\* create reports what it reads in the account it set up.
LEMMA ReadCreatedKeeps ==
    ASSUME IInv, NEW r \in Run, ReadCreated(r)
    PROVE  IInv'
<1>1. PICK c, cell, o : c = command[r] /\ cell = ledger[command[r].account] /\ o = plan[r]
  OBVIOUS
<1>2. PICK q, p : /\ q = IF Initialized(cell) THEN "done" ELSE "idle"
                  /\ p = IF Initialized(cell) THEN [o EXCEPT !.nonce = cell.state.nonce]
                                              ELSE NoPlan
  OBVIOUS
<1>3. /\ phase[r] = "confirmed"
      /\ phase' = [phase EXCEPT ![r] = q]
      /\ plan' = [plan EXCEPT ![r] = p]
      /\ UNCHANGED <<ledger, slot, command, inFlight, landed, signed>>
  BY <1>1, <1>2 DEF ReadCreated
<1>4. /\ phase'[r] = q /\ plan'[r] = p /\ command'[r] = c
      /\ command' = [command EXCEPT ![r] = c]
  BY <1>1, <1>3 DEF IInv, RunsAreFunctions
<1>5. /\ c.op = "create" /\ Fits(c, o) /\ IsPlan(o) /\ SetUp(ledger[c.account])
      /\ c \in Asks[r] \cup {NoNonce}
  BY <1>1, <1>3 DEF IInv, RunInv, Landed
<1>6. ASSUME Initialized(cell) PROVE RunInv(r)'
  <2>1. cell.state.nonce \in NonceValue
    BY <1>1, <1>5, <1>6, StoredNonceType, CommandForms
       DEF IInv, GoodLedger, Fits, Initialized
  <2>2. IsPlan(p) /\ p.action = o.action /\ p.nonce = cell.state.nonce
    <3>1. PICK y, v, b, a, w :
             /\ o = [action |-> y, nonce |-> v, blockhash |-> b, after |-> a]
             /\ w = cell.state.nonce
      BY <1>5 DEF IsPlan
    <3>2. p = [action |-> y, nonce |-> w, blockhash |-> b, after |-> a] /\ o.action = y
      BY <1>2, <1>6, <3>1
    <3> QED
      BY <3>1, <3>2 DEF IsPlan
  <2>3. Fits(c, p)
    BY <1>5, <2>2 DEF Fits
  <2>4. Landed(r)'
    BY <1>3, <1>4, <1>5 DEF Landed
  <2>5. q = "done"
    BY <1>2, <1>6
  <2>6. p.nonce \in NonceValue \cup {NoNonce} /\ c \in Asks[r] \cup {NoNonce}
    BY <1>5, <2>1, <2>2
  <2> QED
    BY <1>4, <2>2, <2>3, <2>4, <2>5, <2>6 DEF RunInv, Phases, Ended
<1>7. ASSUME ~Initialized(cell) PROVE RunInv(r)'
  <2>1. q = "idle" /\ p = NoPlan
    BY <1>2, <1>7
  <2> QED
    BY <1>4, <1>5, <2>1, IdleRun
<1>8. RunInv(r)' /\ SignedForPda'
  BY <1>3, <1>6, <1>7 DEF IInv, SignedForPda
<1> QED
  BY <1>3, <1>4, <1>8, OwnStepKeeps DEF IInv

\* The run whose transaction lands reports what the transaction did.
LEMMA LandedRun ==
    ASSUME IInv, NEW t \in inFlight, Land(t), NEW r \in Run,
           phase[r] = "sent", Transaction(r) = t
    PROVE  RunInv(r)'
<1>1. PICK c, o, x, w, l, s : /\ c = command[r] /\ o = plan[r] /\ x = t.action
                              /\ w = NonceIn(ledger'[t.action.account])
                              /\ l = ledger' /\ s = slot
  OBVIOUS
<1>2. PICK p : p = [o EXCEPT !.after = w]
  OBVIOUS
<1>3. /\ phase'[r] = "sent" /\ plan'[r] = p /\ command'[r] = c
      /\ slot' = s /\ ledger' = l
      /\ ActionLands(x)
  BY <1>1, <1>2 DEF Land
<1>4. o.action = x
  BY <1>1 DEF Transaction
<1>5. /\ c \in Asks[r] \cup {NoNonce}
      /\ IsPlan(o) /\ o.nonce \in NonceValue \cup {NoNonce}
      /\ Fits(c, o) /\ GoodAction(x)
  BY <1>1, <1>4 DEF IInv, RunInv, Fits
<1>6. /\ Creation(x) => SetUp(l[x.account])
      /\ Guarded(x) => Consumed(x.lifetime, l, s)
      /\ Guarded(x) /\ "salt" \in DOMAIN x.payload => w = Successor(x)
  BY <1>1, <1>3, <1>5, ActionContinues DEF IInv
<1>7. IsPlan(p) /\ p.action = x /\ p.nonce = o.nonce /\ p.after = w
  <2>1. PICK v, b, a : o = [action |-> x, nonce |-> v, blockhash |-> b, after |-> a]
    BY <1>4, <1>5 DEF IsPlan
  <2>2. p = [action |-> x, nonce |-> v, blockhash |-> b, after |-> w] /\ o.nonce = v
    BY <1>2, <2>1
  <2> QED
    BY <2>2 DEF IsPlan
<1>8. Fits(c, p)
  BY <1>4, <1>5, <1>7 DEF Fits
<1>9. /\ c.op = "advance" => w = p.nonce /\ Consumed(x.lifetime, l, s)
      /\ c.op = "create" => SetUp(l[c.account])
  BY <1>6, <1>7, <1>8 DEF Fits
<1>10. Landed(r)'
  BY <1>3, <1>7, <1>9 DEF Landed
<1> QED
  BY <1>3, <1>5, <1>7, <1>8, <1>10 DEF RunInv, Phases, Ended

\* A transaction lands: the ledger moves, and the runs that sent it learn of it.
LEMMA LandKeeps ==
    ASSUME IInv, NEW t \in inFlight, Land(t)
    PROVE  IInv'
<1>1. PICK x, a : /\ x = t.action
                  /\ a = [r \in Run |->
                            IF phase[r] = "sent" /\ Transaction(r) = t
                            THEN [plan[r] EXCEPT !.after = NonceIn(ledger'[t.action.account])]
                            ELSE plan[r]]
  OBVIOUS
<1>2. /\ ActionLands(x)
      /\ inFlight' = inFlight \ {t}
      /\ landed' \subseteq landed \cup {t}
      /\ plan' = a
      /\ UNCHANGED <<slot, phase, command, signed>>
  BY <1>1 DEF Land
<1>3. ChainMoves
  BY <1>1, <1>2, ActionContinues, ContinuesMoves DEF IInv
<1>4. RunsAreFunctions'
  <2>1. plan' = [r \in Run |-> plan'[r]]
    BY <1>1, <1>2
  <2> QED
    BY <1>2, <2>1 DEF IInv, RunsAreFunctions
<1>5. ASSUME NEW r \in Run PROVE RunInv(r)'
  <2>1. CASE phase[r] = "sent" /\ Transaction(r) = t
    BY <2>1, LandedRun
  <2>2. CASE ~(phase[r] = "sent" /\ Transaction(r) = t)
    <3>1. plan'[r] = plan[r]
      BY <1>1, <1>2, <2>2
    <3> QED
      BY <1>2, <1>3, <3>1, RunStays DEF IInv
  <2> QED
    BY <2>1, <2>2
<1>6. SignedForPda'
  BY <1>2, <1>3 DEF IInv, SignedForPda, ChainMoves
<1> QED
  BY <1>2, <1>3, <1>4, <1>5, <1>6 DEF IInv, ChainMoves

\* What others do to the chain: nobody's invocation takes part.
LEMMA OthersKeep ==
    ASSUME IInv,
           \/ \E t \in inFlight : Drop(t)
           \/ \E x \in signed : RelaySigned(x)
           \/ \E n \in NonceAddresses : \/ \E lamports \in DepositAmounts : Deposit(n, lamports)
                                        \/ StrangerInitializes(n)
           \/ NextSlot
           \/ UNCHANGED vars
    PROVE  IInv'
<1>1. NonceAddresses \subseteq Address
  BY CommandForms DEF NonceAddresses
<1>2. FeePayer \in Address /\ Stranger \in Address /\ DepositAmounts \subseteq Nat
  BY CommandsAssumption
<1>3. ASSUME NEW t \in inFlight, Drop(t) PROVE IInv'
  <2>1. /\ inFlight' = inFlight \ {t}
        /\ UNCHANGED <<ledger, slot, phase, command, plan, landed, signed>>
    BY <1>3 DEF Drop, runs
  <2> QED
    BY <2>1, SlotMoves, ElsewhereKeeps DEF IInv, GoodLedger
<1>4. ASSUME NEW x \in signed, RelaySigned(x) PROVE IInv'
  <2>1. /\ ActionLands(x)
        /\ UNCHANGED <<slot, phase, command, plan, inFlight, landed, signed>>
    BY <1>4 DEF RelaySigned, runs
  <2>2. GoodAction(x)
    BY DEF IInv, SignedForPda, GoodAction
  <2> QED
    BY <2>1, <2>2, ActionContinues, ContinuesMoves, ElsewhereKeeps DEF IInv
<1>5. ASSUME NEW n \in NonceAddresses, NEW lamports \in DepositAmounts, Deposit(n, lamports)
      PROVE  IInv'
  <2>1. PICK l, s : l = ledger /\ s = slot
    OBVIOUS
  <2>2. /\ TransferOk(l, {FeePayer}, FeePayer, n, lamports)
        /\ ledger' = TransferEffect(l, FeePayer, n, lamports)
        /\ UNCHANGED <<slot, landed, phase, command, plan, inFlight, signed>>
    BY <1>5, <2>1 DEF Deposit, runs
  <2>3. l \in Ledger /\ HoldsOwnNonces(l, s) /\ WithinU64(l)
    BY <2>1 DEF IInv, GoodLedger
  <2>4. Continues(l, ledger', s)
    BY <1>1, <1>2, <2>2, <2>3, TransferContinues
  <2> QED
    BY <2>1, <2>2, <2>4, ContinuesMoves, ElsewhereKeeps DEF IInv
<1>6. ASSUME NEW n \in NonceAddresses, StrangerInitializes(n) PROVE IInv'
  <2>1. PICK l, s : l = ledger /\ s = slot
    OBVIOUS
  <2>2. /\ InitializeOk(l, n)
        /\ ledger' = InitializeEffect(l, n, Stranger, s)
        /\ UNCHANGED <<slot, landed, phase, command, plan, inFlight, signed>>
    BY <1>6, <2>1 DEF StrangerInitializes, runs
  <2>3. l \in Ledger /\ s \in Nat /\ HoldsOwnNonces(l, s) /\ WithinU64(l)
    BY <2>1 DEF IInv, GoodLedger
  <2>4. Continues(l, ledger', s)
    BY <1>1, <1>2, <2>2, <2>3, InitializeContinues
  <2> QED
    BY <2>1, <2>2, <2>4, ContinuesMoves, ElsewhereKeeps DEF IInv
<1>7. CASE NextSlot
  <2>1. /\ slot' = slot + 1 /\ landed' = {}
        /\ UNCHANGED <<ledger, phase, command, plan, inFlight, signed>>
    BY <1>7 DEF NextSlot, runs
  <2> QED
    BY <2>1, SlotMoves, ElsewhereKeeps DEF IInv
<1>8. CASE UNCHANGED vars
  <2>1. UNCHANGED <<ledger, slot, phase, command, plan, inFlight, landed, signed>>
    BY <1>8 DEF vars, runs
  <2> QED
    BY <2>1, SlotMoves, ElsewhereKeeps DEF IInv, GoodLedger
<1> QED
  BY <1>3, <1>4, <1>5, <1>6, <1>7, <1>8

\* Nobody has asked for anything yet, and the accounts are the Nonce program's.
LEMMA InitEstablishes == Init => IInv
<1> SUFFICES ASSUME Init PROVE IInv
  OBVIOUS
<1>1. /\ ledger \in InitLedgers /\ slot = 2
      /\ phase = [r \in Run |-> "idle"]
      /\ command \in [Run -> {NoNonce}]
      /\ plan = [r \in Run |-> NoPlan]
      /\ inFlight = {} /\ landed = {} /\ signed = {}
  BY DEF Init, FirstSlot
<1>2. GoodLedger
  BY <1>1, InitLedgersAssumption DEF GoodLedger, HoldsOwnNonces, WithinU64, FirstSlot
<1>3. RunsAreFunctions
  BY <1>1 DEF RunsAreFunctions
<1>4. IsPlan(NoPlan) /\ NoPlan.nonce = NoNonce
  BY DEF IsPlan, NoPlan
<1>5. ASSUME NEW r \in Run PROVE RunInv(r)
  <2>1. phase[r] = "idle" /\ command[r] = NoNonce /\ plan[r] = NoPlan
    BY <1>1
  <2> QED
    BY <1>4, <2>1 DEF RunInv, Phases, Ended
<1> QED
  BY <1>1, <1>2, <1>3, <1>5 DEF IInv, SignedForPda

\* Every step keeps the invariant.
LEMMA StepKeeps == IInv /\ [Next]_vars => IInv'
<1> SUFFICES ASSUME IInv, [Next]_vars PROVE IInv'
  OBVIOUS
<1>1. ASSUME NEW r \in Run, NEW c \in Asks[r], Invoke(r, c) PROVE IInv'
  BY <1>1, InvokeKeeps
<1>2. ASSUME NEW r \in Run, Step(r) PROVE IInv'
  BY <1>2, SendKeeps, ConfirmKeeps, TimeOutKeeps, ReadCreatedKeeps DEF Step
<1>3. ASSUME NEW r \in Run, SignElsewhere(r) PROVE IInv'
  BY <1>3, SignElsewhereKeeps
<1>4. ASSUME NEW t \in inFlight, Land(t) PROVE IInv'
  BY <1>4, LandKeeps
<1> QED
  BY <1>1, <1>2, <1>3, <1>4, OthersKeep DEF Next

\* The inductive invariant holds of the commands on a chain that moves on meanwhile.
THEOREM CommandsInvariance == Spec => []IInv
BY InitEstablishes, StepKeeps, PTL DEF Spec

------------------------------------------------------------------------------
(* What follows.                                                                 *)

\* Balances stay within u64, nobody reports what is no nonce, and a transaction that
\* landed is not under way any more.
THEOREM TypeCorrect == Spec => []TypeOK
<1>1. IInv => TypeOK
  <2> SUFFICES ASSUME IInv PROVE TypeOK
    OBVIOUS
  <2>1. phase \in [Run -> Ended \cup {"planned", "sent", "confirmed"}]
    BY DEF IInv, RunsAreFunctions, RunInv, Phases
  <2> QED
    BY <2>1 DEF TypeOK, IInv, GoodLedger, WithinU64, RunInv
<1> QED
  BY <1>1, CommandsInvariance, PTL

\* An advance that reports success tells the truth, although both nonces come from an
\* account that was read before the transaction was sent.
THEOREM AdvanceReportsTrue == Spec => []AdvanceReportIsTrue
<1>1. IInv => AdvanceReportIsTrue
  <2> SUFFICES ASSUME IInv, NEW r \in Run, phase[r] = "done", command[r].op = "advance"
               PROVE  /\ plan[r].after = plan[r].nonce
                      /\ NonceIn(ledger[command[r].account]) # plan[r].action.lifetime
    BY DEF AdvanceReportIsTrue
  <2>1. PICK c, x, n, v : /\ c = command[r] /\ x = plan[r].action
                          /\ n = command[r].account /\ v = plan[r].action.lifetime
    OBVIOUS
  <2>2. Fits(c, plan[r]) /\ Landed(r)
    BY <2>1 DEF IInv, RunInv
  <2>3. /\ plan[r].after = plan[r].nonce /\ Consumed(v, ledger, slot)
        /\ v \in NonceValue /\ n \in Address
    BY <2>1, <2>2 DEF Landed, Fits, Guarded
  <2>4. ASSUME Initialized(ledger[n]) PROVE ledger[n].state.nonce # v
    <3>1. ~Consumed(ledger[n].state.nonce, ledger, slot)
      BY <2>3, <2>4, StoredIsNotConsumed DEF IInv, GoodLedger, Initialized
    <3> QED
      BY <2>3, <3>1
  <2>5. NonceIn(ledger[n]) # v
    BY <2>3, <2>4, CommandsAssumption DEF NonceIn
  <2> QED
    BY <2>1, <2>3, <2>5
<1> QED
  BY <1>1, CommandsInvariance, PTL

\* The account that `create` reports is initialized for an authority that a user asked
\* for: no stranger initialized it in between.
THEOREM CreatedForItsAuthorityHolds == Spec => CreatedForItsAuthority
<1>1. IInv /\ [Next]_vars =>
         [\A r \in Run : phase[r] = "confirmed" /\ phase'[r] = "done" =>
            \E c \in {d \in Command : d.op = "create"} :
                ledger[command[r].account].state.authority = CreatePlan(c).action.authority]_vars
  <2> SUFFICES ASSUME IInv, Next, NEW r \in Run, phase[r] = "confirmed", phase'[r] = "done"
               PROVE  \E c \in {d \in Command : d.op = "create"} :
                         ledger[command[r].account].state.authority = CreatePlan(c).action.authority
    OBVIOUS
  <2>1. phase' # phase
    OBVIOUS
  <2>2. ReadCreated(r)
    <3>1. ASSUME NEW o \in Run, NEW c \in Asks[o], Invoke(o, c) PROVE FALSE
      <4>1. phase' = [phase EXCEPT ![o] = IF Prints(Planned(ledger[c.account], c), c)
                                          THEN "printed" ELSE "planned"]
            /\ phase[o] \in Ended
        BY <3>1 DEF Invoke
      <4> QED
        BY <4>1 DEF Ended, IInv, RunsAreFunctions
    <3>2. ASSUME NEW o \in Run, Send(o) \/ Confirm(o) \/ TimeOut(o) \/ SignElsewhere(o) PROVE FALSE
      <4>1. phase[o] # "confirmed" /\ \E q : phase' = [phase EXCEPT ![o] = q]
        BY <3>2 DEF Send, Confirm, TimeOut, SignElsewhere
      <4> QED
        BY <4>1 DEF IInv, RunsAreFunctions
    <3>3. ASSUME NEW o \in Run, ReadCreated(o) PROVE o = r
      BY <3>3 DEF ReadCreated, IInv, RunsAreFunctions
    <3>4. \E o \in Run : (\E c \in Asks[o] : Invoke(o, c)) \/ Step(o) \/ SignElsewhere(o)
      BY <2>1 DEF Next, Land, Drop, RelaySigned, Deposit, StrangerInitializes, NextSlot, runs
    <3> QED
      BY <3>1, <3>2, <3>3, <3>4 DEF Step
  <2>3. PICK k : k = command[r]
    OBVIOUS
  <2>4. Initialized(ledger[k.account]) /\ SetUp(ledger[k.account])
    <3>1. SetUp(ledger[k.account])
      BY <2>3 DEF IInv, RunInv, Landed
    <3>2. ASSUME ~Initialized(ledger[k.account]) PROVE FALSE
      <4>1. phase' = [phase EXCEPT ![r] = "idle"]
        BY <2>2, <2>3, <3>2 DEF ReadCreated
      <4> QED
        BY <4>1 DEF IInv, RunsAreFunctions
    <3> QED
      BY <3>1, <3>2
  <2>5. ledger[k.account].state.authority \in CreateAuthorities
    BY <2>4 DEF SetUp, Initialized
  <2> QED
    BY <2>3, <2>5 DEF CreateAuthorities
<1> QED
  BY <1>1, CommandsInvariance, PTL DEF Spec, CreatedForItsAuthority

\* A partial withdrawal for a programmatic signer leaves the account open, however late
\* it lands and whoever relays it: what it was planned from is still there, or it cannot
\* run at all.
THEOREM GuardedPartialsStayOpen == Spec => GuardedPartialStaysOpen
<1>1. IInv => [\A action \in signed : StaysOpen(action)]_vars
  <2> SUFFICES ASSUME IInv, NEW x \in signed, PartialWithdrawal(x), ActionLands(x)
               PROVE  OwnedByProgram(ledger'[x.account])
    BY DEF StaysOpen
  <2>1. Guarded(x) /\ x.derived /\ AsPlanned(x, ledger, slot)
    BY DEF IInv, SignedForPda
  <2>2. ExecutionLands(x)
    BY <2>1 DEF ActionLands, CreateLands, WithdrawalLands, Guarded
  <2> QED
    BY <2>1, <2>2, ExecutionContinues DEF IInv
<1> QED
  BY <1>1, CommandsInvariance, PTL DEF GuardedPartialStaysOpen, StaysOpen
==============================================================================
