----------------------------- MODULE LedgerProofs -----------------------------
(* What each handler of module NonceAccounts does to a ledger, account by       *)
(* account, and what no handler does: bring a consumed nonce back.  The lemmas  *)
(* are about the operators alone, for any ledger and slot; the proofs about the *)
(* state machines that run the handlers cite them.                              *)
EXTENDS NonceAccounts, TLAPS

Ledger == [Address -> Cell]

(* An account holds a nonce only while the program owns it, and that nonce is   *)
(* its own, seeded in the slot its last Initialize ran.                         *)
HoldsOwnNonces(l, slot) ==
    \A n \in Address : l[n].state # Zeroed =>
        /\ l[n].size = "exact"
        /\ l[n].state.nonce.account = n
        /\ l[n].state.nonce.seed = l[n].state.initialize_slot
        /\ l[n].state.initialize_slot <= slot

(* v was consumed before the nonce w of the same account was stored.            *)
Precedes(v, w) ==
    \/ v.seed < w.seed
    \/ v.seed = w.seed /\ Len(v.steps) < Len(w.steps)

(* v will not be stored again: its account has moved past it, or stores nothing  *)
(* and will be given a later seed.                                              *)
Consumed(v, l, slot) ==
    IF l[v.account].state = Zeroed
    THEN v.seed < slot
    ELSE Precedes(v, l[v.account].state.nonce)

(* What holds across every handler that succeeds in a slot.                     *)
Evolves(l, k, slot) ==
    /\ k \in Ledger
    /\ HoldsOwnNonces(k, slot)
    /\ \A v \in NonceValue : Consumed(v, l, slot) => Consumed(v, k, slot)

(* Every nonce k stores is one that l stored there, or a new account's first.   *)
KeepsNonces(l, k) ==
    \A n \in Address : k[n].state # Zeroed =>
        \/ k[n].state.nonce.steps = <<>>
        \/ l[n].state # Zeroed /\ k[n].state.nonce = l[n].state.nonce

(* Who answers for what an account holds.                                       *)
ControllerIn(l, a) == IF Initialized(l[a]) THEN l[a].state.authority ELSE a

TakenFrom(l, k, a) ==
    \/ k[a].lamports < l[a].lamports
    \/ Initialized(l[a]) /\ k[a].state # l[a].state

(* Of the accounts, only those in written change, and one that loses something   *)
(* loses it with its controller's signature.                                    *)
StaysWithin(l, k, written, signers) ==
    \A a \in Address :
        /\ k[a] # l[a] => a \in written
        /\ TakenFrom(l, k, a) => ControllerIn(l, a) \in signers

USE DEF OwnedByProgram, Initialized, Ledger

------------------------------------------------------------------------------
(* Nonces.                                                                    *)

\* A nonce derived by Initialize or by Advance is a well-formed nonce.
LEMMA DerivedNonce ==
    /\ \A n \in Address, s \in Nat : InitialNonce(n, RecentSlotHash(s)) \in NonceValue
    /\ \A v \in NonceValue, c \in Commitment :
          /\ NextNonce(v, c) \in NonceValue
          /\ NextNonce(v, c).account = v.account
          /\ NextNonce(v, c).seed = v.seed
          /\ NextNonce(v, c).steps = Append(v.steps, c)
          /\ Len(NextNonce(v, c).steps) = Len(v.steps) + 1
          /\ Len(v.steps) < Len(NextNonce(v, c).steps)
<1>1. ASSUME NEW n \in Address, NEW s \in Nat
      PROVE  InitialNonce(n, RecentSlotHash(s)) \in NonceValue
  BY DEF InitialNonce, RecentSlotHash, NonceValue
<1>2. ASSUME NEW v \in NonceValue, NEW c \in Commitment
      PROVE  /\ NextNonce(v, c) \in NonceValue
             /\ NextNonce(v, c).account = v.account
             /\ NextNonce(v, c).seed = v.seed
             /\ NextNonce(v, c).steps = Append(v.steps, c)
             /\ Len(NextNonce(v, c).steps) = Len(v.steps) + 1
             /\ Len(v.steps) < Len(NextNonce(v, c).steps)
  <2>1. /\ v.steps \in Seq(Commitment) /\ v.account \in Address /\ v.seed \in Nat
    BY DEF NonceValue
  <2>2. /\ NextNonce(v, c).account = v.account
        /\ NextNonce(v, c).seed = v.seed
        /\ NextNonce(v, c).steps = Append(v.steps, c)
    BY DEF NextNonce, NonceValue
  <2>3. NextNonce(v, c) \in NonceValue
    BY <2>1 DEF NextNonce, NonceValue
  <2>4. /\ Len(v.steps) \in Nat
        /\ Len(Append(v.steps, c)) = Len(v.steps) + 1
    BY <2>1
  <2> QED
    BY <2>2, <2>3, <2>4
<1> QED
  BY <1>1, <1>2

\* The nonces an account stores one after the other differ.
LEMMA StoredNonceType ==
    ASSUME NEW l \in Ledger, NEW n \in Address, l[n].state # Zeroed
    PROVE  /\ l[n].state \in NonceState
           /\ l[n].state.nonce \in NonceValue
           /\ l[n].state.nonce.seed \in Nat
           /\ Len(l[n].state.nonce.steps) \in Nat
           /\ l[n].state.initialize_slot \in Nat
           /\ l[n].state.authority \in Address
BY DEF Cell, NonceState, NonceValue

\* What an account stores is not consumed.
LEMMA StoredIsNotConsumed ==
    ASSUME NEW l \in Ledger, NEW slot, HoldsOwnNonces(l, slot),
           NEW n \in Address, l[n].state # Zeroed
    PROVE  ~Consumed(l[n].state.nonce, l, slot)
<1>1. PICK v : v = l[n].state.nonce
  OBVIOUS
<1>2. v.account = n /\ v.seed \in Nat /\ Len(v.steps) \in Nat
  BY <1>1, StoredNonceType DEF HoldsOwnNonces
<1>3. ~Precedes(v, v)
  BY <1>2 DEF Precedes
<1> QED
  BY <1>1, <1>2, <1>3 DEF Consumed

------------------------------------------------------------------------------
(* The ledger each handler leaves behind.                                     *)

\* A transfer moves lamports and nothing else.
LEMMA TransferChanges ==
    ASSUME NEW l \in Ledger, NEW signers, NEW from \in Address, NEW to \in Address,
           NEW lamports \in Nat, TransferOk(l, signers, from, to, lamports)
    PROVE  LET k == TransferEffect(l, from, to, lamports)
           IN  /\ k \in Ledger
               /\ \A n \in Address : k[n].state = l[n].state /\ k[n].size = l[n].size
               /\ k[from].lamports = l[from].lamports - lamports
               /\ k[to].lamports = l[to].lamports + lamports
               /\ \A n \in Address \ {from, to} : k[n] = l[n]
<1> DEFINE k == TransferEffect(l, from, to, lamports)
           debited == [l[from] EXCEPT !.lamports = l[from].lamports - lamports]
           credited == [l[to] EXCEPT !.lamports = l[to].lamports + lamports]
<1>1. /\ l[from].lamports - lamports \in Nat
      /\ l[to].lamports + lamports \in Nat
      /\ from # to
  BY DEF TransferOk, Cell
<1>2. debited \in Cell /\ credited \in Cell
  BY <1>1 DEF Cell
<1>3. k = [l EXCEPT ![from] = debited, ![to] = credited]
  BY <1>1 DEF TransferEffect
<1>4. /\ k \in Ledger
      /\ k[from] = debited
      /\ k[to] = credited
      /\ \A n \in Address \ {from, to} : k[n] = l[n]
  BY <1>1, <1>2, <1>3
<1>5. /\ debited.state = l[from].state /\ debited.size = l[from].size
      /\ debited.lamports = l[from].lamports - lamports
      /\ credited.state = l[to].state /\ credited.size = l[to].size
      /\ credited.lamports = l[to].lamports + lamports
  BY DEF Cell
<1>6. QED
  BY <1>4, <1>5

\* Assign gives a System account's address to the program, with zeroed data.
LEMMA AssignChanges ==
    ASSUME NEW l \in Ledger, NEW n \in Address, NEW size \in {"exact", "odd"}
    PROVE  LET k == AssignEffect(l, n, size)
           IN  /\ k \in Ledger
               /\ \A m \in Address : k[m].state = l[m].state /\ k[m].lamports = l[m].lamports
               /\ \A m \in Address \ {n} : k[m] = l[m]
BY DEF AssignEffect, Cell, DataLength

\* Initialize writes the data of one account and no balance.
LEMMA InitializeChanges ==
    ASSUME NEW l \in Ledger, NEW n \in Address, NEW authority \in Address, NEW slot \in Nat
    PROVE  LET k == InitializeEffect(l, n, authority, slot)
           IN  /\ k \in Ledger
               /\ k[n].state # Zeroed
               /\ k[n].state.nonce = InitialNonce(n, RecentSlotHash(slot))
               /\ k[n].state.authority = authority
               /\ k[n].state.initialize_slot = slot
               /\ \A m \in Address : k[m].size = l[m].size /\ k[m].lamports = l[m].lamports
               /\ \A m \in Address \ {n} : k[m] = l[m]
<1> DEFINE k == InitializeEffect(l, n, authority, slot)
           st == [nonce           |-> InitialNonce(n, RecentSlotHash(slot)),
                  authority       |-> authority,
                  initialize_slot |-> slot]
           cell == [l[n] EXCEPT !.state = st]
<1>1. st \in NonceState /\ st # Zeroed
  BY DerivedNonce, LedgerAssumption DEF NonceState, LedgerAssumption
<1>2. cell \in Cell /\ cell.state = st
      /\ cell.size = l[n].size /\ cell.lamports = l[n].lamports
  BY <1>1 DEF Cell
<1>3. k = [l EXCEPT ![n] = cell]
  BY DEF InitializeEffect
<1>4. k \in Ledger /\ k[n] = cell /\ \A m \in Address \ {n} : k[m] = l[m]
  BY <1>2, <1>3
<1>5. /\ st.nonce = InitialNonce(n, RecentSlotHash(slot))
      /\ st.authority = authority
      /\ st.initialize_slot = slot
  OBVIOUS
<1> HIDE DEF k, st, cell
<1>6. QED
  BY <1>1, <1>2, <1>4, <1>5 DEF k

\* Advance replaces the nonce of one account and leaves the rest of it alone.
LEMMA AdvanceChanges ==
    ASSUME NEW l \in Ledger, NEW n \in Address, l[n].state # Zeroed, NEW c \in Commitment
    PROVE  LET k == AdvanceEffect(l, n, c)
           IN  /\ k \in Ledger
               /\ k[n].state # Zeroed
               /\ k[n].state.nonce = NextNonce(l[n].state.nonce, c)
               /\ k[n].state.authority = l[n].state.authority
               /\ k[n].state.initialize_slot = l[n].state.initialize_slot
               /\ \A m \in Address : k[m].size = l[m].size /\ k[m].lamports = l[m].lamports
               /\ \A m \in Address \ {n} : k[m] = l[m]
<1> DEFINE k == AdvanceEffect(l, n, c)
           st == [l[n].state EXCEPT !.nonce = NextNonce(l[n].state.nonce, c)]
           cell == [l[n] EXCEPT !.state = st]
<1>1. l[n].state \in NonceState /\ l[n].state.nonce \in NonceValue
  BY StoredNonceType
<1>2. st \in NonceState /\ st # Zeroed
  BY <1>1, DerivedNonce, LedgerAssumption DEF NonceState, LedgerAssumption
<1>3. /\ st.nonce = NextNonce(l[n].state.nonce, c)
      /\ st.authority = l[n].state.authority
      /\ st.initialize_slot = l[n].state.initialize_slot
  BY <1>1 DEF NonceState
<1>4. cell \in Cell /\ cell.state = st
      /\ cell.size = l[n].size /\ cell.lamports = l[n].lamports
  BY <1>2 DEF Cell
<1>5. k = [l EXCEPT ![n] = cell]
  BY <1>1 DEF AdvanceEffect, Cell, NonceState
<1>6. k \in Ledger /\ k[n] = cell /\ \A m \in Address \ {n} : k[m] = l[m]
  BY <1>4, <1>5
<1>7. QED
  BY <1>2, <1>3, <1>4, <1>6

\* A withdrawal moves lamports only, except that taking the whole balance leaves an
\* empty System account behind.
LEMMA WithdrawChanges ==
    ASSUME NEW l \in Ledger, NEW signers, NEW slot, NEW authority, NEW n \in Address,
           NEW to \in Address, NEW lamports \in Nat,
           WithdrawOk(l, signers, slot, authority, n, to, lamports)
    PROVE  LET k == WithdrawEffect(l, n, to, lamports)
           IN  /\ k \in Ledger
               /\ n # to
               /\ IF lamports = l[n].lamports
                  THEN k[n] = SystemCell(0)
                  ELSE /\ k[n].state = l[n].state
                       /\ k[n].size = l[n].size
                       /\ k[n].lamports = l[n].lamports - lamports
               /\ k[to].state = l[to].state
               /\ k[to].size = l[to].size
               /\ k[to].lamports = l[to].lamports + lamports
               /\ \A m \in Address \ {n, to} : k[m] = l[m]
<1> DEFINE k == WithdrawEffect(l, n, to, lamports)
           rest == l[n].lamports - lamports
           debited == IF rest = 0 THEN SystemCell(0)
                                  ELSE [l[n] EXCEPT !.lamports = rest]
           credited == [l[to] EXCEPT !.lamports = l[to].lamports + lamports]
<1>1. n # to /\ lamports <= l[n].lamports /\ l[n].lamports \in Nat /\ l[to].lamports \in Nat
  BY DEF WithdrawOk, Cell
<1>2. rest \in Nat /\ (rest = 0 <=> lamports = l[n].lamports)
  BY <1>1
<1>3. SystemCell(0) \in Cell
  BY DEF SystemCell, Cell, DataLength
<1>4. debited \in Cell
  BY <1>2, <1>3 DEF Cell
<1>5. credited \in Cell
  BY <1>1 DEF Cell
<1>6. k = [l EXCEPT ![to] = credited, ![n] = debited]
  BY <1>1 DEF WithdrawEffect, Cell
<1>7. k \in Ledger /\ k[n] = debited /\ k[to] = credited
      /\ \A m \in Address \ {n, to} : k[m] = l[m]
  BY <1>1, <1>4, <1>5, <1>6
<1>8. /\ credited.state = l[to].state /\ credited.size = l[to].size
      /\ credited.lamports = l[to].lamports + lamports
  BY DEF Cell
<1>9. rest # 0 => /\ debited.state = l[n].state /\ debited.size = l[n].size
                  /\ debited.lamports = rest
  BY DEF Cell
<1>10. QED
  BY <1>1, <1>2, <1>7, <1>8, <1>9

------------------------------------------------------------------------------
(* No handler brings a consumed nonce back.                                   *)

\* A ledger that stores the same data as another stands in for it.
LEMMA SameDataEvolves ==
    ASSUME NEW l \in Ledger, NEW k \in Ledger, NEW slot, HoldsOwnNonces(l, slot),
           \A n \in Address : /\ k[n].state = l[n].state
                              /\ l[n].state # Zeroed => k[n].size = l[n].size
    PROVE  Evolves(l, k, slot) /\ KeepsNonces(l, k)
BY DEF Evolves, HoldsOwnNonces, Consumed, KeepsNonces, NonceValue

\* A transfer leaves every account's data alone.
LEMMA TransferEvolves ==
    ASSUME NEW l \in Ledger, NEW signers, NEW slot, HoldsOwnNonces(l, slot),
           NEW from \in Address, NEW to \in Address, NEW lamports \in Nat,
           TransferOk(l, signers, from, to, lamports)
    PROVE  LET k == TransferEffect(l, from, to, lamports)
           IN  Evolves(l, k, slot) /\ KeepsNonces(l, k)
<1> DEFINE k == TransferEffect(l, from, to, lamports)
<1> HIDE DEF k
<1>1. /\ k \in Ledger
      /\ \A n \in Address : k[n].state = l[n].state /\ k[n].size = l[n].size
  BY TransferChanges DEF k
<1>2. QED
  BY <1>1, SameDataEvolves DEF k

\* Assign takes an account over that holds no nonce.
LEMMA AssignEvolves ==
    ASSUME NEW l \in Ledger, NEW signers, NEW slot, HoldsOwnNonces(l, slot),
           NEW n \in Address, NEW size \in {"exact", "odd"}, AssignOk(l, signers, n)
    PROVE  LET k == AssignEffect(l, n, size)
           IN  Evolves(l, k, slot) /\ KeepsNonces(l, k)
<1> DEFINE k == AssignEffect(l, n, size)
<1> HIDE DEF k
<1>1. /\ k \in Ledger
      /\ \A m \in Address : k[m].state = l[m].state /\ k[m].lamports = l[m].lamports
      /\ \A m \in Address \ {n} : k[m] = l[m]
  BY AssignChanges DEF k
<1>2. l[n].state = Zeroed
  BY DEF AssignOk, HoldsOwnNonces
<1>3. \A m \in Address : l[m].state # Zeroed => k[m].size = l[m].size
  BY <1>1, <1>2
<1>4. QED
  BY <1>1, <1>3, SameDataEvolves DEF k

\* A nonce that no Advance precedes replaces zeroed data with a seed of this slot.
LEMMA InitializeEvolves ==
    ASSUME NEW l \in Ledger, NEW slot \in Nat, HoldsOwnNonces(l, slot),
           NEW n \in Address, NEW authority \in Address, InitializeOk(l, n)
    PROVE  LET k == InitializeEffect(l, n, authority, slot)
           IN  Evolves(l, k, slot) /\ KeepsNonces(l, k)
<1> DEFINE k == InitializeEffect(l, n, authority, slot)
           first == InitialNonce(n, RecentSlotHash(slot))
<1>1. first.account = n /\ first.seed = slot /\ first.steps = <<>>
  BY DEF InitialNonce, RecentSlotHash
<1>2. /\ k \in Ledger
      /\ k[n].state # Zeroed
      /\ k[n].state.nonce = first
      /\ k[n].state.initialize_slot = slot
      /\ k[n].size = l[n].size
      /\ \A m \in Address \ {n} : k[m] = l[m]
  BY InitializeChanges
<1>3. l[n].state = Zeroed /\ l[n].size = "exact"
  BY DEF InitializeOk
<1> HIDE DEF k, first
<1>4. HoldsOwnNonces(k, slot)
  BY <1>1, <1>2, <1>3 DEF HoldsOwnNonces
<1>5. ASSUME NEW v \in NonceValue, Consumed(v, l, slot) PROVE Consumed(v, k, slot)
  <2>1. v.account \in Address
    BY DEF NonceValue
  <2>2. CASE v.account = n
    BY <1>1, <1>2, <1>3, <1>5, <2>2 DEF Consumed, Precedes
  <2>3. CASE v.account # n
    BY <1>2, <1>5, <2>1, <2>3 DEF Consumed
  <2>4. QED
    BY <2>2, <2>3
<1>6. KeepsNonces(l, k)
  BY <1>1, <1>2 DEF KeepsNonces
<1>7. QED
  BY <1>2, <1>4, <1>5, <1>6 DEF Evolves, k

\* Advance consumes the nonce it replaces.
LEMMA AdvanceEvolves ==
    ASSUME NEW l \in Ledger, NEW slot, HoldsOwnNonces(l, slot),
           NEW n \in Address, l[n].state # Zeroed, NEW c \in Commitment
    PROVE  LET k == AdvanceEffect(l, n, c)
           IN  /\ Evolves(l, k, slot)
               /\ Consumed(l[n].state.nonce, k, slot)
<1> DEFINE k == AdvanceEffect(l, n, c)
           old == l[n].state.nonce
           new == NextNonce(old, c)
<1>1. /\ k \in Ledger
      /\ k[n].state # Zeroed
      /\ k[n].state.nonce = new
      /\ k[n].state.initialize_slot = l[n].state.initialize_slot
      /\ k[n].size = l[n].size
      /\ \A m \in Address \ {n} : k[m] = l[m]
  BY AdvanceChanges
<1>2. /\ old \in NonceValue /\ old.seed \in Nat /\ Len(old.steps) \in Nat
      /\ new.account = old.account /\ new.seed = old.seed
      /\ Len(new.steps) = Len(old.steps) + 1
  BY StoredNonceType, DerivedNonce
<1>3. old.account = n
  BY DEF HoldsOwnNonces
<1> HIDE DEF k, new
<1>4. HoldsOwnNonces(k, slot)
  BY <1>1, <1>2 DEF HoldsOwnNonces
<1>5. ASSUME NEW v \in NonceValue, Consumed(v, l, slot) PROVE Consumed(v, k, slot)
  <2>1. v.account \in Address /\ v.seed \in Nat /\ Len(v.steps) \in Nat
    BY DEF NonceValue
  <2>2. CASE v.account = n
    <3>1. Precedes(v, old)
      BY <1>5, <2>2 DEF Consumed
    <3>2. Precedes(v, new)
      BY <1>2, <2>1, <3>1 DEF Precedes
    <3>3. QED
      BY <1>1, <2>2, <3>2 DEF Consumed
  <2>3. CASE v.account # n
    BY <1>1, <1>5, <2>1, <2>3 DEF Consumed
  <2>4. QED
    BY <2>2, <2>3
<1>6. Consumed(old, k, slot)
  BY <1>1, <1>2, <1>3 DEF Consumed, Precedes
<1>7. QED
  BY <1>1, <1>4, <1>5, <1>6 DEF Evolves, k

\* A close is in a later slot than the nonces it gives up were seeded in, so that the
\* account's next Initialize cannot bring one of them back.
LEMMA WithdrawEvolves ==
    ASSUME NEW l \in Ledger, NEW signers, NEW slot \in Nat, HoldsOwnNonces(l, slot),
           NEW authority, NEW n \in Address, NEW to \in Address, NEW lamports \in Nat,
           WithdrawOk(l, signers, slot, authority, n, to, lamports)
    PROVE  LET k == WithdrawEffect(l, n, to, lamports)
           IN  Evolves(l, k, slot) /\ KeepsNonces(l, k)
<1> DEFINE k == WithdrawEffect(l, n, to, lamports)
<1>1. /\ k \in Ledger
      /\ n # to
      /\ IF lamports = l[n].lamports
         THEN k[n] = SystemCell(0)
         ELSE k[n].state = l[n].state /\ k[n].size = l[n].size
      /\ k[to].state = l[to].state /\ k[to].size = l[to].size
      /\ \A m \in Address \ {n, to} : k[m] = l[m]
  BY WithdrawChanges
<1> HIDE DEF k
<1>2. CASE lamports # l[n].lamports \/ l[n].state = Zeroed
  <2>1. SystemCell(0).state = Zeroed
    BY DEF SystemCell
  <2>2. \A m \in Address : /\ k[m].state = l[m].state
                           /\ l[m].state # Zeroed => k[m].size = l[m].size
    BY <1>1, <1>2, <2>1
  <2>3. QED
    BY <1>1, <2>2, SameDataEvolves DEF k
<1>3. CASE lamports = l[n].lamports /\ l[n].state # Zeroed
  <2>1. k[n].state = Zeroed
    BY <1>1, <1>3 DEF SystemCell
  <2>2. \A m \in Address \ {n} : k[m].state = l[m].state /\ k[m].size = l[m].size
    BY <1>1
  <2>3. slot > l[n].state.initialize_slot
    BY <1>3 DEF WithdrawOk, CloseAllowed, HoldsOwnNonces
  <2>4. HoldsOwnNonces(k, slot)
    BY <2>1, <2>2 DEF HoldsOwnNonces
  <2>5. ASSUME NEW v \in NonceValue, Consumed(v, l, slot) PROVE Consumed(v, k, slot)
    <3>1. v.account \in Address /\ v.seed \in Nat
      BY DEF NonceValue
    <3>2. CASE v.account = n
      <4>1. /\ l[n].state.nonce.seed = l[n].state.initialize_slot
            /\ l[n].state.initialize_slot \in Nat
        BY <1>3, StoredNonceType DEF HoldsOwnNonces
      <4>2. v.seed <= l[n].state.nonce.seed
        BY <1>3, <2>5, <3>1, <3>2, <4>1 DEF Consumed, Precedes
      <4>3. QED
        BY <2>1, <2>3, <3>1, <3>2, <4>1, <4>2 DEF Consumed
    <3>3. CASE v.account # n
      BY <2>2, <2>5, <3>1, <3>3 DEF Consumed
    <3>4. QED
      BY <3>2, <3>3
  <2>6. KeepsNonces(l, k)
    BY <2>1, <2>2 DEF KeepsNonces
  <2>7. QED
    BY <1>1, <2>4, <2>5, <2>6 DEF Evolves, k
<1>4. QED
  BY <1>2, <1>3

\* While nothing is written, what was consumed stays consumed as slots pass.
LEMMA SlotEvolves ==
    ASSUME NEW l \in Ledger, NEW slot \in Nat, NEW later \in Nat, slot <= later
    PROVE  /\ HoldsOwnNonces(l, slot) => HoldsOwnNonces(l, later)
           /\ \A v \in NonceValue : Consumed(v, l, slot) => Consumed(v, l, later)
<1>1. \A n \in Address : l[n].state # Zeroed => l[n].state.initialize_slot \in Nat
  BY StoredNonceType
<1>2. \A v \in NonceValue : v.seed \in Nat
  BY DEF NonceValue
<1>3. QED
  BY <1>1, <1>2 DEF HoldsOwnNonces, Consumed

------------------------------------------------------------------------------
(* What a handler takes, it takes with its controller's signature.             *)

\* A transfer takes lamports from its sender alone, who signs.
LEMMA TransferStaysWithin ==
    ASSUME NEW l \in Ledger, NEW signers, NEW from \in Address, NEW to \in Address,
           NEW lamports \in Nat, TransferOk(l, signers, from, to, lamports)
    PROVE  StaysWithin(l, TransferEffect(l, from, to, lamports), {from, to}, signers)
<1> DEFINE k == TransferEffect(l, from, to, lamports)
<1> HIDE DEF k
<1>1. /\ k \in Ledger
      /\ \A n \in Address : k[n].state = l[n].state /\ k[n].size = l[n].size
      /\ k[to].lamports = l[to].lamports + lamports
      /\ \A n \in Address \ {from, to} : k[n] = l[n]
  BY TransferChanges DEF k
<1>2. \A a \in Address : l[a].lamports \in Nat
  BY DEF Cell
<1>3. ASSUME NEW a \in Address, TakenFrom(l, k, a) PROVE a = from
  BY <1>1, <1>2, <1>3 DEF TakenFrom
<1>4. ControllerIn(l, from) \in signers
  BY DEF ControllerIn, TransferOk
<1>5. QED
  BY <1>1, <1>3, <1>4 DEF k, StaysWithin

\* Of accounts that hold no nonce and lose no lamports nothing is taken.
LEMMA NothingTaken ==
    ASSUME NEW l \in Ledger, NEW k \in Ledger, NEW n \in Address, ~Initialized(l[n]),
           \A m \in Address : k[m].lamports = l[m].lamports,
           \A m \in Address \ {n} : k[m] = l[m],
           NEW signers
    PROVE  StaysWithin(l, k, {n}, signers)
<1>1. \A a \in Address : l[a].lamports \in Nat
  BY DEF Cell
<1>2. ASSUME NEW a \in Address PROVE ~TakenFrom(l, k, a)
  <2>1. k[a].lamports = l[a].lamports /\ l[a].lamports \in Nat
    BY <1>1
  <2>2. QED
    BY <2>1 DEF TakenFrom
<1>3. QED
  BY <1>2 DEF StaysWithin

\* Assign writes an account that holds no nonce.
LEMMA AssignStaysWithin ==
    ASSUME NEW l \in Ledger, NEW signers, NEW n \in Address, NEW size \in {"exact", "odd"},
           AssignOk(l, signers, n)
    PROVE  StaysWithin(l, AssignEffect(l, n, size), {n}, signers)
<1> DEFINE k == AssignEffect(l, n, size)
<1> HIDE DEF k
<1>1. /\ k \in Ledger
      /\ \A m \in Address : k[m].state = l[m].state /\ k[m].lamports = l[m].lamports
      /\ \A m \in Address \ {n} : k[m] = l[m]
  BY AssignChanges DEF k
<1>2. ~Initialized(l[n])
  BY DEF AssignOk
<1>3. QED
  BY <1>1, <1>2, NothingTaken DEF k

\* Initialize, which anybody may call, writes an account that holds no nonce.
LEMMA InitializeStaysWithin ==
    ASSUME NEW l \in Ledger, NEW n \in Address, NEW authority \in Address, NEW slot \in Nat,
           InitializeOk(l, n), NEW signers
    PROVE  StaysWithin(l, InitializeEffect(l, n, authority, slot), {n}, signers)
<1> DEFINE k == InitializeEffect(l, n, authority, slot)
<1> HIDE DEF k
<1>1. /\ k \in Ledger
      /\ \A m \in Address : k[m].size = l[m].size /\ k[m].lamports = l[m].lamports
      /\ \A m \in Address \ {n} : k[m] = l[m]
  BY InitializeChanges DEF k
<1>2. ~Initialized(l[n])
  BY DEF InitializeOk
<1>3. QED
  BY <1>1, <1>2, NothingTaken DEF k

\* An Advance replaces one nonce, on the word of its stored authority.
LEMMA AdvanceStaysWithin ==
    ASSUME NEW l \in Ledger, NEW signers, NEW authority, NEW n \in Address, NEW current,
           NEW c \in Commitment, AdvanceOk(l, signers, authority, n, current)
    PROVE  StaysWithin(l, AdvanceEffect(l, n, c), {n}, signers)
<1> DEFINE k == AdvanceEffect(l, n, c)
<1> HIDE DEF k
<1>1. l[n].state # Zeroed /\ ControllerIn(l, n) \in signers
  BY DEF AdvanceOk, ControllerIn
<1>2. /\ \A m \in Address : k[m].lamports = l[m].lamports
      /\ \A m \in Address \ {n} : k[m] = l[m]
  BY <1>1, AdvanceChanges DEF k
<1>3. \A a \in Address : l[a].lamports \in Nat
  BY DEF Cell
<1>4. ASSUME NEW a \in Address, TakenFrom(l, k, a) PROVE a = n
  BY <1>2, <1>3, <1>4 DEF TakenFrom
<1>5. QED
  BY <1>1, <1>2, <1>4 DEF k, StaysWithin

\* A withdrawal takes from one account, on the word of its stored authority, or of the
\* account's own key when it stores none.
LEMMA WithdrawStaysWithin ==
    ASSUME NEW l \in Ledger, NEW signers, NEW slot, NEW authority, NEW n \in Address,
           NEW to \in Address, NEW lamports \in Nat,
           WithdrawOk(l, signers, slot, authority, n, to, lamports)
    PROVE  StaysWithin(l, WithdrawEffect(l, n, to, lamports), {n, to}, signers)
<1> DEFINE k == WithdrawEffect(l, n, to, lamports)
<1> HIDE DEF k
<1>1. /\ k \in Ledger
      /\ k[to].state = l[to].state
      /\ k[to].lamports = l[to].lamports + lamports
      /\ \A m \in Address \ {n, to} : k[m] = l[m]
  BY WithdrawChanges DEF k
<1>2. \A a \in Address : l[a].lamports \in Nat
  BY DEF Cell
<1>3. ASSUME NEW a \in Address, TakenFrom(l, k, a) PROVE a = n
  BY <1>1, <1>2, <1>3 DEF TakenFrom
<1>4. ControllerIn(l, n) \in signers
  BY DEF ControllerIn, WithdrawOk, MayWithdraw
<1>5. QED
  BY <1>1, <1>3, <1>4 DEF k, StaysWithin
==============================================================================
