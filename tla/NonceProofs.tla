------------------------------ MODULE NonceProofs ------------------------------
(* Proofs about module Nonce, for every set of addresses, every rent table and *)
(* every bound: its nonces first, then its lamports.  IInv and SupplyInv are    *)
(* inductive; the safety properties of the runs follow.                        *)
EXTENDS Nonce, LedgerProofs, FiniteSetTheorems, WellFoundedInduction

(* An account holds a nonce only while it is owned by the program, and that    *)
(* nonce is its own, seeded in the slot its last Initialize ran.               *)
NonceBelongs ==
    \A n \in Address : ledger[n].state # Zeroed =>
        /\ ledger[n].size = "exact"
        /\ ledger[n].state.nonce.account = n
        /\ ledger[n].state.nonce.seed = ledger[n].state.initialize_slot
        /\ ledger[n].state.initialize_slot <= slot

(* A retired value is older than the one its account stores now; while the     *)
(* account stores none, it is from an earlier slot, so that the next           *)
(* Initialize cannot bring it back.                                            *)
RetiredIsOlder ==
    \A v \in retired :
        IF ledger[v.account].state = Zeroed
        THEN v.seed < slot
        ELSE Precedes(v, ledger[v.account].state.nonce)

IInv == TypeOK /\ NonceBelongs /\ RetiredIsOlder

USE DEF OwnedByProgram, Initialized

------------------------------------------------------------------------------
(* What each kind of write does to a well-typed ledger.                       *)

\* A nonce derived by Initialize or by Advance is a well-formed nonce.
LEMMA DerivedNonces ==
    /\ \A n \in Address, s \in Nat : InitialNonce(n, RecentSlotHash(s)) \in NonceValue
    /\ \A v \in NonceValue, c \in Commitment :
          /\ NextNonce(v, c) \in NonceValue
          /\ NextNonce(v, c).account = v.account
          /\ NextNonce(v, c).seed = v.seed
          /\ Len(NextNonce(v, c).steps) = Len(v.steps) + 1
          /\ Len(v.steps) < Len(NextNonce(v, c).steps)
BY DEF InitialNonce, RecentSlotHash, NextNonce, NonceValue

\* The types, instruction by instruction.
LEMMA InitType == Init => TypeOK
BY NonceAssumption, LedgerAssumption
   DEF Init, TypeOK, SystemCell, Cell, DataLength, NonceAssumption

\* A new account holds natural lamports and zeroed data.
LEMMA AssignType ==
    ASSUME TypeOK, NEW signers, NEW n \in NonceAddress, NEW size \in {"exact", "odd"},
           Assign(signers, n, size)
    PROVE  TypeOK'
BY NonceAssumption DEF Assign, AssignOk, AssignEffect, TypeOK, Cell, DataLength,
   NonceAssumption

\* A transfer takes no more than the sender has.
LEMMA TransferType ==
    ASSUME TypeOK, NEW signers, NEW from \in Address, NEW to \in Address,
           NEW lamports \in Nat, Transfer(signers, from, to, lamports)
    PROVE  TypeOK'
<1>1. /\ ledger[from].lamports - lamports \in Nat
      /\ ledger[to].lamports + lamports \in Nat
      /\ from # to
  BY DEF Transfer, TransferOk, TypeOK, Cell
<1>2. ledger' = [ledger EXCEPT ![from].lamports = @ - lamports, ![to].lamports = @ + lamports]
  BY DEF Transfer, TransferEffect
<1>3. [ledger[from] EXCEPT !.lamports = ledger[from].lamports - lamports] \in Cell
  BY <1>1 DEF TypeOK, Cell
<1>4. [ledger[to] EXCEPT !.lamports = ledger[to].lamports + lamports] \in Cell
  BY <1>1 DEF TypeOK, Cell
<1>5. ledger' \in [Address -> Cell]
  BY <1>1, <1>2, <1>3, <1>4 DEF TypeOK
<1>6. QED
  BY <1>5 DEF Transfer, TypeOK

\* An initialized account stores a value of its own.
LEMMA InitializeType ==
    ASSUME TypeOK, NEW n \in NonceAddress, NEW authority \in Address,
           Initialize(n, authority)
    PROVE  TypeOK'
<1>1. n \in Address
  BY NonceAssumption DEF NonceAssumption
<1> DEFINE st == [nonce           |-> InitialNonce(n, RecentSlotHash(slot)),
                  authority       |-> authority,
                  initialize_slot |-> slot]
<1>2. st \in NonceState
  BY <1>1, DerivedNonces DEF NonceState, TypeOK
<1>3. ledger' = [ledger EXCEPT ![n].state = st]
  BY DEF Initialize, InitializeEffect
<1>4. [ledger[n] EXCEPT !.state = st] \in Cell
  BY <1>1, <1>2 DEF TypeOK, Cell
<1>5. ledger' \in [Address -> Cell]
  BY <1>3, <1>4 DEF TypeOK
<1>6. QED
  BY <1>5 DEF Initialize, TypeOK

\* An advanced account stores a value with one more commitment.
LEMMA AdvanceType ==
    ASSUME TypeOK, NEW signers, NEW a \in Address, NEW n \in NonceAddress,
           NEW current, NEW c \in Commitment, Advance(signers, a, n, current, c)
    PROVE  /\ TypeOK'
           /\ n \in Address
           /\ ledger[n].state \in NonceState
           /\ ledger'[n].state \in NonceState
           /\ ledger'[n].state.nonce = NextNonce(ledger[n].state.nonce, c)
           /\ ledger'[n].state.authority = ledger[n].state.authority
           /\ ledger'[n].state.initialize_slot = ledger[n].state.initialize_slot
           /\ ledger'[n].size = ledger[n].size
           /\ ledger'[n].lamports = ledger[n].lamports
           /\ \A m \in Address \ {n} : ledger'[m] = ledger[m]
<1>1. n \in Address
  BY NonceAssumption DEF NonceAssumption
<1>2. ledger[n].state \in NonceState
  BY <1>1 DEF Advance, AdvanceOk, TypeOK, Cell
<1> DEFINE st == [ledger[n].state EXCEPT !.nonce = NextNonce(ledger[n].state.nonce, c)]
<1>3. ledger[n].state.nonce \in NonceValue
  BY <1>2 DEF NonceState
<1>4. st \in NonceState
  BY <1>2, <1>3, DerivedNonces DEF NonceState
<1>5. ledger' = [ledger EXCEPT ![n] = [ledger[n] EXCEPT !.state = st]]
  BY <1>1, <1>2 DEF Advance, AdvanceEffect, TypeOK, Cell, NonceState
<1>6. [ledger[n] EXCEPT !.state = st] \in Cell
  BY <1>1, <1>4 DEF TypeOK, Cell
<1>7. ledger' \in [Address -> Cell]
  BY <1>5, <1>6 DEF TypeOK
<1>8. TypeOK'
  BY <1>3, <1>7 DEF Advance, TypeOK
<1>9. ledger'[n] = [ledger[n] EXCEPT !.state = st]
  BY <1>1, <1>5 DEF TypeOK
<1>10. /\ ledger'[n].state = st
       /\ ledger'[n].size = ledger[n].size
       /\ ledger'[n].lamports = ledger[n].lamports
  BY <1>1, <1>9 DEF TypeOK, Cell
<1>11. \A m \in Address \ {n} : ledger'[m] = ledger[m]
  BY <1>1, <1>5 DEF TypeOK
<1>12. /\ st.nonce = NextNonce(ledger[n].state.nonce, c)
       /\ st.authority = ledger[n].state.authority
       /\ st.initialize_slot = ledger[n].state.initialize_slot
  BY <1>2 DEF NonceState
<1>13. QED
  BY <1>1, <1>2, <1>4, <1>8, <1>10, <1>11, <1>12

(* Initialize writes the data of one account and no balance.                  *)
LEMMA InitializeFrame ==
    ASSUME TypeOK, NEW n \in NonceAddress, NEW authority \in Address,
           Initialize(n, authority), NEW m \in Address
    PROVE  /\ ledger'[m].lamports = ledger[m].lamports
           /\ m # n => ledger'[m] = ledger[m]
<1> DEFINE st == [nonce           |-> InitialNonce(n, RecentSlotHash(slot)),
                  authority       |-> authority,
                  initialize_slot |-> slot]
           cell == [ledger[n] EXCEPT !.state = st]
<1>1. ledger' = [ledger EXCEPT ![n] = cell]
  BY DEF Initialize, InitializeEffect
<1>2. CASE m = n
  <2>1. cell.lamports = ledger[n].lamports
    BY <1>2 DEF TypeOK, Cell
  <2>2. QED
    BY <1>1, <1>2, <2>1 DEF TypeOK
<1>3. CASE m # n
  BY <1>1, <1>3 DEF TypeOK
<1>4. QED
  BY <1>2, <1>3

(* Initialize leaves a nonce behind.                                          *)
LEMMA InitializeWrites ==
    ASSUME TypeOK, NEW n \in NonceAddress, NEW authority \in Address,
           Initialize(n, authority)
    PROVE  ledger'[n].state # Zeroed
<1>1. n \in Address
  BY NonceAssumption DEF NonceAssumption
<1> DEFINE st == [nonce           |-> InitialNonce(n, RecentSlotHash(slot)),
                  authority       |-> authority,
                  initialize_slot |-> slot]
<1>2. st \in NonceState
  BY <1>1, DerivedNonces DEF NonceState, TypeOK
<1>3. ledger'[n].state = st
  BY <1>1 DEF Initialize, InitializeEffect, TypeOK, Cell
<1>4. QED
  BY <1>2, <1>3, LedgerAssumption DEF LedgerAssumption

(* A withdrawal moves lamports only, except that taking the whole balance       *)
(* leaves an empty System account behind.                                       *)
LEMMA WithdrawType ==
    ASSUME TypeOK, NEW signers, NEW a \in Address, NEW n \in NonceAddress,
           NEW to \in Address, NEW lamports \in Nat, Withdraw(signers, a, n, to, lamports)
    PROVE  /\ TypeOK'
           /\ n \in Address /\ n # to
           /\ IF lamports = ledger[n].lamports
              THEN ledger'[n] = SystemCell(0)
              ELSE /\ ledger'[n].state = ledger[n].state
                   /\ ledger'[n].size = ledger[n].size
                   /\ ledger'[n].lamports = ledger[n].lamports - lamports
           /\ ledger'[to].state = ledger[to].state
           /\ ledger'[to].size = ledger[to].size
           /\ ledger'[to].lamports = ledger[to].lamports + lamports
           /\ \A m \in Address \ {n, to} : ledger'[m] = ledger[m]
<1>1. n \in Address /\ n # to /\ lamports <= ledger[n].lamports
  BY NonceAssumption DEF NonceAssumption, Withdraw, WithdrawOk
<1> DEFINE rest == ledger[n].lamports - lamports
           debited == IF rest = 0 THEN SystemCell(0)
                                  ELSE [ledger[n] EXCEPT !.lamports = rest]
           credited == [ledger[to] EXCEPT !.lamports = ledger[to].lamports + lamports]
<1>2. ledger[n] \in Cell /\ ledger[to] \in Cell /\ ledger[n].lamports \in Nat
  BY <1>1 DEF TypeOK, Cell
<1>3. rest \in Nat /\ (rest = 0 <=> lamports = ledger[n].lamports)
  BY <1>1, <1>2 
<1>4. SystemCell(0) \in Cell
  BY DEF SystemCell, Cell, DataLength
<1>5. debited \in Cell
  BY <1>2, <1>3, <1>4 DEF Cell
<1>6. credited \in Cell
  BY <1>2 DEF Cell
<1>7. ledger' = [ledger EXCEPT ![to] = credited, ![n] = debited]
  BY <1>1, <1>2 DEF Withdraw, WithdrawEffect, TypeOK, Cell
<1>8. ledger' \in [Address -> Cell]
  BY <1>5, <1>6, <1>7 DEF TypeOK
<1>9. retired' \subseteq NonceValue
  BY <1>2 DEF Withdraw, TypeOK, Cell, NonceState
<1>10. TypeOK'
  BY <1>8, <1>9 DEF Withdraw, TypeOK
<1>11. /\ ledger'[n] = debited
       /\ ledger'[to] = credited
       /\ \A m \in Address \ {n, to} : ledger'[m] = ledger[m]
  BY <1>1, <1>7 DEF TypeOK
<1>12. /\ credited.state = ledger[to].state
       /\ credited.size = ledger[to].size
       /\ credited.lamports = ledger[to].lamports + lamports
  BY <1>2 DEF Cell
<1>13. rest # 0 => /\ debited.state = ledger[n].state
                   /\ debited.size = ledger[n].size
                   /\ debited.lamports = rest
  BY <1>2 DEF Cell
<1>14. QED
  BY <1>1, <1>3, <1>10, <1>11, <1>12, <1>13

------------------------------------------------------------------------------
(* IInv is inductive: one lemma per action.                                   *)

LEMMA InitIInv == Init => IInv
<1> SUFFICES ASSUME Init PROVE IInv
  OBVIOUS
<1>1. TypeOK
  BY InitType
<1>2. NonceBelongs /\ RetiredIsOlder
  BY DEF Init, SystemCell, NonceBelongs, RetiredIsOlder
<1>3. QED
  BY <1>1, <1>2 DEF IInv

\* A step that leaves every account's data and length alone keeps IInv.
LEMMA SameDataIInv ==
    ASSUME IInv, TypeOK', slot <= slot', UNCHANGED retired,
           \A m \in Address : /\ ledger'[m].state = ledger[m].state
                              /\ ledger[m].state # Zeroed => ledger'[m].size = ledger[m].size
    PROVE  IInv'
<1>1. slot \in Nat /\ slot' \in Nat
  BY DEF IInv, TypeOK
<1>2. \A m \in Address : ledger[m].state # Zeroed => ledger[m].state.initialize_slot \in Nat
  BY DEF IInv, TypeOK, Cell, NonceState
<1>3. NonceBelongs'
  BY <1>1, <1>2 DEF IInv, NonceBelongs
<1>4. \A v \in retired : v.account \in Address /\ v.seed \in Nat
  BY DEF IInv, TypeOK, NonceValue
<1>5. RetiredIsOlder'
  BY <1>1, <1>4 DEF IInv, RetiredIsOlder, Precedes
<1>6. QED
  BY <1>3, <1>5 DEF IInv

\* An account without a nonce has retired none but older ones.
LEMMA AssignIInv ==
    ASSUME IInv, NEW signers, NEW n \in NonceAddress, NEW size \in {"exact", "odd"},
           Assign(signers, n, size)
    PROVE  IInv'
<1>1. TypeOK'
  BY AssignType DEF IInv
<1>2. ledger[n].state = Zeroed
  BY NonceAssumption DEF Assign, AssignOk, IInv, NonceBelongs, NonceAssumption
<1>3. \A m \in Address : /\ ledger'[m].state = ledger[m].state
                         /\ m # n => ledger'[m].size = ledger[m].size
  BY NonceAssumption
     DEF Assign, AssignEffect, IInv, TypeOK, Cell, NonceAssumption
<1>4. slot <= slot' /\ UNCHANGED retired
  BY DEF Assign, IInv, TypeOK
<1>5. QED
  BY <1>1, <1>2, <1>3, <1>4, SameDataIInv

\* Lamports move no nonces.
LEMMA TransferIInv ==
    ASSUME IInv, NEW signers, NEW from \in Address, NEW to \in Address,
           NEW lamports \in Nat, Transfer(signers, from, to, lamports)
    PROVE  IInv'
<1>1. TypeOK'
  BY TransferType DEF IInv
<1>2. \A m \in Address : ledger'[m].state = ledger[m].state /\ ledger'[m].size = ledger[m].size
  BY DEF Transfer, TransferEffect, IInv, TypeOK, Cell
<1>3. slot <= slot' /\ UNCHANGED retired
  BY DEF Transfer, IInv, TypeOK
<1>4. QED
  BY <1>1, <1>2, <1>3, SameDataIInv

\* Time leaves the accounts alone.
LEMMA NextSlotIInv == ASSUME IInv, NextSlot PROVE IInv'
<1>1. slot <= slot' /\ TypeOK'
  BY DEF NextSlot, IInv, TypeOK
<1>2. QED
  BY <1>1, SameDataIInv DEF NextSlot

\* The value issued is younger than any retired before: an account that lost its nonce
\* was closed after the slot of its initialization.
LEMMA InitializeIInv ==
    ASSUME IInv, NEW n \in NonceAddress, NEW authority \in Address,
           Initialize(n, authority)
    PROVE  IInv'
<1>1. TypeOK' /\ n \in Address /\ slot \in Nat /\ slot' = slot /\ retired' = retired
  BY InitializeType, NonceAssumption DEF IInv, Initialize, TypeOK, NonceAssumption
<1> DEFINE first == InitialNonce(n, RecentSlotHash(slot))
           st == [nonce |-> first, authority |-> authority, initialize_slot |-> slot]
<1>2. first.account = n /\ first.seed = slot
  BY DEF InitialNonce, RecentSlotHash
<1>3. /\ ledger'[n].state = st
      /\ ledger'[n].size = "exact"
      /\ ledger[n].state = Zeroed
      /\ \A m \in Address \ {n} : ledger'[m] = ledger[m]
  BY <1>1 DEF Initialize, InitializeOk, InitializeEffect, IInv, TypeOK, Cell
<1>4. NonceBelongs'
  BY <1>1, <1>2, <1>3 DEF IInv, NonceBelongs
<1>5. ASSUME NEW v \in retired
      PROVE  IF ledger'[v.account].state = Zeroed
             THEN v.seed < slot
             ELSE Precedes(v, ledger'[v.account].state.nonce)
  <2>1. v.account \in Address
    BY DEF IInv, TypeOK, NonceValue
  <2>2. CASE v.account = n
    <3>1. v.seed < slot
      BY <1>3, <2>2 DEF IInv, RetiredIsOlder
    <3>2. st \in NonceState
      BY <1>1, DerivedNonces DEF NonceState
    <3>3. ledger'[n].state # Zeroed
      BY <1>3, <3>2, LedgerAssumption DEF LedgerAssumption
    <3>4. QED
      BY <1>2, <1>3, <2>2, <3>1, <3>3 DEF Precedes
  <2>3. CASE v.account # n
    BY <1>3, <2>1, <2>3 DEF IInv, RetiredIsOlder
  <2>4. QED
    BY <2>2, <2>3
<1>6. RetiredIsOlder'
  BY <1>1, <1>5 DEF RetiredIsOlder
<1>7. QED
  BY <1>1, <1>4, <1>6 DEF IInv

\* The next value has one more commitment than the one it retires.
LEMMA AdvanceIInv ==
    ASSUME IInv, NEW signers, NEW a \in Address, NEW n \in NonceAddress,
           NEW current, NEW c \in Commitment, Advance(signers, a, n, current, c)
    PROVE  IInv'
<1> DEFINE st == ledger[n].state
           next == NextNonce(st.nonce, c)
<1>1. /\ TypeOK' /\ n \in Address /\ st \in NonceState
      /\ ledger'[n].size = ledger[n].size
      /\ \A m \in Address \ {n} : ledger'[m] = ledger[m]
  BY AdvanceType DEF IInv
<1>2. /\ st.nonce \in NonceValue
      /\ next \in NonceValue /\ next.account = st.nonce.account
      /\ next.seed = st.nonce.seed /\ Len(next.steps) = Len(st.nonce.steps) + 1
      /\ Len(st.nonce.steps) < Len(next.steps)
  BY <1>1, DerivedNonces DEF NonceState
<1>3. /\ ledger'[n].state \in NonceState
      /\ ledger'[n].state.nonce = next
      /\ ledger'[n].state.initialize_slot = st.initialize_slot
  BY AdvanceType DEF IInv
<1>4. st # Zeroed /\ ledger'[n].state # Zeroed
  BY <1>1, <1>3, LedgerAssumption DEF LedgerAssumption
<1>5. slot' = slot /\ retired' = retired \cup {st.nonce} /\ slot \in Nat
  BY DEF Advance, IInv, TypeOK
<1>6. NonceBelongs'
  BY <1>1, <1>2, <1>3, <1>4, <1>5 DEF IInv, NonceBelongs
<1>7. ASSUME NEW v \in retired'
      PROVE  IF ledger'[v.account].state = Zeroed
             THEN v.seed < slot
             ELSE Precedes(v, ledger'[v.account].state.nonce)
  <2>1. v \in NonceValue /\ v.account \in Address /\ v.seed \in Nat /\ Len(v.steps) \in Nat
    BY <1>1 DEF TypeOK, NonceValue
  <2>2. st.nonce.seed \in Nat /\ Len(st.nonce.steps) \in Nat /\ st.nonce.account = n
    BY <1>1, <1>2, <1>4 DEF NonceValue, IInv, NonceBelongs
  <2>3. CASE v = st.nonce
    <3>1. Precedes(st.nonce, next)
      BY <1>2 DEF Precedes
    <3>2. Precedes(v, next)
      BY <2>3, <3>1, Zenon
    <3>3. QED
      BY <1>3, <1>4, <2>2, <2>3, <3>2
  <2>4. CASE v \in retired /\ v.account = n
    <3>1. Precedes(v, st.nonce)
      BY <1>4, <2>4 DEF IInv, RetiredIsOlder
    <3>2. Precedes(v, next)
      BY <1>2, <2>1, <2>2, <3>1 DEF Precedes
    <3>3. QED
      BY <1>3, <1>4, <2>4, <3>2
  <2>5. CASE v \in retired /\ v.account # n
    BY <1>1, <2>1, <2>5 DEF IInv, RetiredIsOlder
  <2>6. QED
    BY <1>5, <2>3, <2>4, <2>5
<1>8. RetiredIsOlder'
  BY <1>5, <1>7 DEF RetiredIsOlder
<1>9. QED
  BY <1>1, <1>6, <1>8 DEF IInv

\* A closed account gives up its value in a later slot than it was seeded in.
LEMMA WithdrawIInv ==
    ASSUME IInv, NEW signers, NEW a \in Address, NEW n \in NonceAddress,
           NEW to \in Address, NEW lamports \in Nat, Withdraw(signers, a, n, to, lamports)
    PROVE  IInv'
<1> DEFINE st == ledger[n].state
           closing == lamports = ledger[n].lamports
<1>1. /\ TypeOK' /\ n \in Address /\ n # to
      /\ IF closing
         THEN ledger'[n] = SystemCell(0)
         ELSE ledger'[n].state = ledger[n].state /\ ledger'[n].size = ledger[n].size
      /\ ledger'[to].state = ledger[to].state /\ ledger'[to].size = ledger[to].size
      /\ \A m \in Address \ {n, to} : ledger'[m] = ledger[m]
  BY WithdrawType DEF IInv
<1>2. slot' = slot /\ slot \in Nat
  BY DEF Withdraw, IInv, TypeOK
<1>3. \A m \in Address \ {n} :
         ledger'[m].state = ledger[m].state /\ ledger'[m].size = ledger[m].size
  BY <1>1 DEF IInv, TypeOK, Cell
<1>4. CASE ~closing
  <2>1. ledger'[n].state = st /\ ledger'[n].size = ledger[n].size
    BY <1>1, <1>4 DEF IInv, TypeOK, Cell
  <2>2. slot <= slot' /\ UNCHANGED retired
    BY <1>2, <1>4 DEF Withdraw
  <2>3. QED
    BY <1>1, <1>3, <2>1, <2>2, SameDataIInv
<1>5. CASE closing
  <2>1. ledger'[n].state = Zeroed
    BY <1>1, <1>5 DEF SystemCell
  <2>2. NonceBelongs'
    BY <1>2, <1>3, <2>1 DEF IInv, NonceBelongs
  <2>3. Initialized(ledger[n]) => /\ st.nonce.account = n
                                  /\ st.nonce.seed < slot
    BY <1>1, <1>5 DEF Withdraw, WithdrawOk, CloseAllowed, IInv, NonceBelongs, TypeOK, Cell,
       NonceState
  <2>4. ASSUME NEW v \in retired'
        PROVE  IF ledger'[v.account].state = Zeroed
               THEN v.seed < slot
               ELSE Precedes(v, ledger'[v.account].state.nonce)
    <3>1. v.account \in Address /\ v.seed \in Nat
      BY <1>1 DEF TypeOK, NonceValue
    <3>2. CASE Initialized(ledger[n]) /\ v = st.nonce
      BY <2>1, <2>3, <3>2
    <3>3. CASE v \in retired /\ v.account # n
      BY <1>3, <3>1, <3>3 DEF IInv, RetiredIsOlder
    <3>4. CASE v \in retired /\ v.account = n
      <4>1. CASE st = Zeroed
        BY <2>1, <3>4, <4>1 DEF IInv, RetiredIsOlder
      <4>2. CASE st # Zeroed
        <5>1. Precedes(v, st.nonce) /\ Initialized(ledger[n])
          BY <1>1, <3>4, <4>2 DEF IInv, RetiredIsOlder, NonceBelongs
        <5>2. st.nonce.seed \in Nat
          BY <1>1, <4>2 DEF IInv, TypeOK, Cell, NonceState, NonceValue
        <5>3. QED
          BY <1>2, <2>1, <2>3, <3>1, <3>4, <5>1, <5>2 DEF Precedes
      <4>3. QED
        BY <4>1, <4>2
    <3>5. QED
      BY <3>2, <3>3, <3>4 DEF Withdraw
  <2>5. RetiredIsOlder'
    BY <1>2, <2>4 DEF RetiredIsOlder
  <2>6. QED
    BY <1>1, <2>2, <2>5 DEF IInv
<1>6. QED
  BY <1>4, <1>5

\* Every step keeps the invariant.
LEMMA NextIInv == IInv /\ [Next]_vars => IInv'
<1> SUFFICES ASSUME IInv, [Next]_vars PROVE IInv'
  OBVIOUS
<1>1. ASSUME NEW signers \in TransactionSigners, NEW n \in NonceAddress,
             NEW size \in {"exact", "odd"}, Assign(signers, n, size)
      PROVE  IInv'
  BY <1>1, AssignIInv
<1>2. ASSUME NEW signers \in TransactionSigners, NEW from \in Address, NEW to \in Address,
             NEW lamports \in 1..U64Max, Transfer(signers, from, to, lamports)
      PROVE  IInv'
  BY <1>2, TransferIInv
<1>3. ASSUME NEW signers \in TransactionSigners, NEW a \in Address, NEW n \in NonceAddress,
             NEW current \in KnownNonces, NEW c \in Commitment,
             Advance(signers, a, n, current, c)
      PROVE  IInv'
  BY <1>3, AdvanceIInv
<1>4. ASSUME NEW signers \in TransactionSigners, NEW a \in Address, NEW n \in NonceAddress,
             NEW to \in Address, NEW lamports \in 0..U64Max,
             Withdraw(signers, a, n, to, lamports)
      PROVE  IInv'
  BY <1>4, WithdrawIInv
<1>5. ASSUME NEW n \in NonceAddress, NEW a \in Address, Initialize(n, a) PROVE IInv'
  BY <1>5, InitializeIInv
<1>6. CASE NextSlot
  BY <1>6, NextSlotIInv
<1>7. CASE UNCHANGED vars
  BY <1>7 DEF vars, IInv, TypeOK, NonceBelongs, RetiredIsOlder, Precedes
<1>8. QED
  BY <1>1, <1>2, <1>3, <1>4, <1>5, <1>6, <1>7 DEF Next

\* IInv holds throughout every behavior: the typing of the accounts, whose nonce
\* an account holds, and that retired values are older than the stored one.
THEOREM Invariance == Spec => []IInv
BY InitIInv, NextIInv, PTL DEF Spec

\* No withdrawal underflows a balance and the account data stays well formed.
THEOREM TypeCorrect == Spec => []TypeOK
<1>1. IInv => TypeOK
  BY DEF IInv
<1>2. QED
  BY <1>1, Invariance, PTL

------------------------------------------------------------------------------
(* The safety properties of the runs.                                         *)

\* The nonce an account stores, as IInv sees it.
LEMMA StoredIsOwn ==
    ASSUME IInv, NEW n \in NonceAddress
    PROVE  /\ n \in Address
           /\ Initialized(ledger[n]) <=> ledger[n].state # Zeroed
           /\ ledger[n].state # Zeroed =>
                 /\ StoredNonce(n) = ledger[n].state.nonce
                 /\ StoredNonce(n) \in NonceValue
                 /\ StoredNonce(n) # NoNonce
                 /\ StoredNonce(n).account = n
                 /\ StoredNonce(n).seed \in Nat
           /\ ledger[n].state = Zeroed => StoredNonce(n) = NoNonce
           /\ NoNonce \notin retired
<1>1. n \in Address
  BY NonceAssumption DEF NonceAssumption
<1>2. Initialized(ledger[n]) <=> ledger[n].state # Zeroed
  BY <1>1 DEF IInv, NonceBelongs
<1>3. ledger[n].state # Zeroed => ledger[n].state.nonce \in NonceValue
  BY <1>1 DEF IInv, TypeOK, Cell, NonceState
<1>4. NoNonce \notin NonceValue
  BY LedgerAssumption DEF LedgerAssumption, NoNonce
<1>5. ledger[n].state # Zeroed => ledger[n].state.nonce.account = n
  BY <1>1 DEF IInv, NonceBelongs
<1>6. \A v \in NonceValue : v.seed \in Nat
  BY DEF NonceValue
<1>7. QED
  BY <1>1, <1>2, <1>3, <1>4, <1>5, <1>6 DEF StoredNonce, IInv, TypeOK

\* No value is older than itself.
LEMMA NotBeforeItself ==
    ASSUME NEW v \in NonceValue
    PROVE  ~Precedes(v, v)
<1>1. v.seed \in Nat /\ Len(v.steps) \in Nat
  BY DEF NonceValue
<1>2. QED
  BY <1>1 DEF Precedes

\* A stored value is therefore not a retired one.
LEMMA IInvRetired == IInv => RetiredStaysRetired
<1> SUFFICES ASSUME IInv, NEW n \in NonceAddress PROVE StoredNonce(n) \notin retired
  BY DEF RetiredStaysRetired
<1>1. CASE ledger[n].state = Zeroed
  BY <1>1, StoredIsOwn
<1>2. CASE ledger[n].state # Zeroed
  <2>1. ASSUME StoredNonce(n) \in retired PROVE Precedes(StoredNonce(n), StoredNonce(n))
    BY <1>2, <2>1, StoredIsOwn DEF IInv, RetiredIsOlder
  <2>2. QED
    BY <1>2, <2>1, StoredIsOwn, NotBeforeItself
<1>3. QED
  BY <1>1, <1>2

\* A nonce value that left its account, by an advance or by a close, is never
\* stored again: no interleaving of initializations, advances, withdrawals and
\* re-creations over any number of slots makes a consumed message valid again.
THEOREM NoncesNeverReturn == Spec => []RetiredStaysRetired
BY Invariance, IInvRetired, PTL

\* A step keeps an account rent-exempt if it was live before and lost nothing.
LEMMA KeepsRent ==
    ASSUME IInv, StaysRentExempt, NEW m \in NonceAddress, Initialized(ledger[m]),
           ledger'[m].lamports \in Nat, ledger'[m].lamports >= ledger[m].lamports
    PROVE  ledger'[m].lamports >= MinBalance["exact"]
<1>1. ledger[m].lamports \in Nat
  BY StoredIsOwn DEF IInv, TypeOK, Cell
<1>2. MinBalance["exact"] \in Nat
  BY LedgerAssumption DEF LedgerAssumption
<1>3. QED
  BY <1>1, <1>2 DEF StaysRentExempt

\* Each instruction leaves an initialized account with the rent minimum.
LEMMA RentStep ==
    ASSUME IInv, IInv', StaysRentExempt, [Next]_vars, NEW m \in NonceAddress,
           Initialized(ledger'[m])
    PROVE  ledger'[m].lamports >= MinBalance["exact"]
<1> DEFINE Goal == ledger'[m].lamports >= MinBalance["exact"]
<1>1. /\ m \in Address /\ ledger[m].lamports \in Nat /\ ledger'[m].lamports \in Nat
      /\ NonceAddress \subseteq Address
  BY NonceAssumption DEF NonceAssumption, IInv, TypeOK, Cell
<1>2. ASSUME ledger'[m] = ledger[m] PROVE Goal
  BY <1>1, <1>2, KeepsRent
<1>3. ASSUME NEW signers, NEW n \in NonceAddress, NEW size \in {"exact", "odd"},
             Assign(signers, n, size)
      PROVE  Goal
  <2>1. ledger[n].state = Zeroed /\ ledger'[n].state = ledger[n].state
    BY <1>1, <1>3 DEF Assign, AssignOk, AssignEffect, IInv, TypeOK, Cell, NonceBelongs
  <2>2. m # n
    BY <2>1
  <2>3. ledger'[m] = ledger[m]
    BY <1>1, <1>3, <2>2 DEF Assign, AssignEffect, IInv, TypeOK
  <2>4. QED
    BY <1>2, <2>3
<1>4. ASSUME NEW signers, NEW from \in Address, NEW to \in Address,
             NEW lamports \in Nat, Transfer(signers, from, to, lamports)
      PROVE  Goal
  <2>1. /\ ledger'[m].state = ledger[m].state /\ ledger'[m].size = ledger[m].size
        /\ m # from => ledger'[m].lamports >= ledger[m].lamports
    BY <1>1, <1>4 DEF Transfer, TransferOk, TransferEffect, IInv, TypeOK, Cell
  <2>2. m # from
    BY <1>4, <2>1 DEF Transfer, TransferOk
  <2>3. QED
    BY <1>1, <2>1, <2>2, KeepsRent
<1>5. ASSUME NEW n \in NonceAddress, NEW a \in Address, Initialize(n, a) PROVE Goal
  <2>1. CASE m = n
    <3>1. ledger'[m].lamports = ledger[m].lamports
      BY <1>1, <1>5, InitializeFrame DEF IInv
    <3>2. QED
      BY <1>5, <2>1, <3>1 DEF Initialize, InitializeOk
  <2>2. CASE m # n
    BY <1>1, <1>2, <1>5, <2>2, InitializeFrame DEF IInv
  <2>3. QED
    BY <2>1, <2>2
<1>6. ASSUME NEW signers, NEW a \in Address, NEW n \in NonceAddress,
             NEW current, NEW c \in Commitment, Advance(signers, a, n, current, c)
      PROVE  Goal
  <2>1. CASE m = n
    <3>1. Initialized(ledger[m]) /\ ledger'[m].lamports = ledger[m].lamports
      BY <1>6, <2>1, AdvanceType DEF Advance, AdvanceOk, IInv
    <3>2. QED
      BY <1>1, <3>1, KeepsRent
  <2>2. CASE m # n
    BY <1>1, <1>2, <1>6, <2>2, AdvanceType DEF IInv
  <2>3. QED
    BY <2>1, <2>2
<1>7. ASSUME NEW signers, NEW a \in Address, NEW n \in NonceAddress, NEW to \in Address,
             NEW lamports \in Nat, Withdraw(signers, a, n, to, lamports)
      PROVE  Goal
  <2>1. TypeOK
    BY DEF IInv
  <2>2. /\ IF lamports = ledger[n].lamports
           THEN ledger'[n] = SystemCell(0)
           ELSE /\ ledger'[n].state = ledger[n].state
                /\ ledger'[n].size = ledger[n].size
                /\ ledger'[n].lamports = ledger[n].lamports - lamports
        /\ ledger'[to].state = ledger[to].state
        /\ ledger'[to].size = ledger[to].size
        /\ ledger'[to].lamports = ledger[to].lamports + lamports
        /\ \A k \in Address \ {n, to} : ledger'[k] = ledger[k]
    BY <1>7, <2>1, WithdrawType
  <2>3. CASE m = n
    <3>1. lamports # ledger[n].lamports
      <4> SUFFICES ASSUME lamports = ledger[n].lamports PROVE FALSE
        OBVIOUS
      <4>1. ledger'[m] = SystemCell(0)
        BY <2>2, <2>3
      <4>2. ledger'[m].size = "none"
        BY <4>1 DEF SystemCell
      <4>3. QED
        BY <4>2
    <3>2. /\ ledger'[n].lamports = ledger[n].lamports - lamports
          /\ ledger'[n].size = ledger[n].size
      BY <2>2, <3>1
    <3>3. ledger[n].lamports - lamports >= MinBalance[ledger[n].size]
      BY <1>7, <3>1 DEF Withdraw, WithdrawOk
    <3>4. ledger[n].size = "exact"
      BY <2>3, <3>2
    <3>5. QED
      BY <2>3, <3>2, <3>3, <3>4
  <2>4. CASE m = to /\ m # n
    <3>1. Initialized(ledger[m]) /\ ledger'[m].lamports = ledger[m].lamports + lamports
      BY <2>2, <2>4
    <3>2. ledger'[m].lamports >= ledger[m].lamports
      BY <1>1, <3>1
    <3>3. QED
      BY <1>1, <3>1, <3>2, KeepsRent
  <2>5. CASE m # to /\ m # n
    BY <1>1, <1>2, <2>2, <2>5
  <2>6. QED
    BY <2>3, <2>4, <2>5
<1>8. CASE NextSlot \/ UNCHANGED vars
  BY <1>2, <1>8 DEF NextSlot, vars
<1>9. 0..U64Max \subseteq Nat /\ 1..U64Max \subseteq Nat
  OBVIOUS
<1>10. QED
  BY <1>3, <1>4, <1>5, <1>6, <1>7, <1>8, <1>9 DEF Next

\* A live nonce account is rent-exempt: Initialize demands the minimum and a partial
\* withdrawal leaves it, so the account outlives any sequence of instructions.
THEOREM LiveAccountsStayRentExempt == Spec => []StaysRentExempt
<1>1. Init => StaysRentExempt
  BY NonceAssumption DEF Init, StaysRentExempt, SystemCell, NonceAssumption
<1>2. IInv /\ IInv' /\ StaysRentExempt /\ [Next]_vars => StaysRentExempt'
  BY RentStep DEF StaysRentExempt
<1>3. QED
  BY <1>1, <1>2, Invariance, PTL DEF Spec

\* Each instruction leaves an account of a cold authority its data and lamports.
LEMMA ColdStep ==
    ASSUME IInv, Next, NEW m \in NonceAddress,
           Initialized(ledger[m]), ledger[m].state.authority \in Cold
    PROVE  /\ ledger'[m].size = "exact"
           /\ ledger'[m].state = ledger[m].state
           /\ ledger'[m].lamports >= ledger[m].lamports
<1> DEFINE Goal == /\ ledger'[m].size = "exact"
                   /\ ledger'[m].state = ledger[m].state
                   /\ ledger'[m].lamports >= ledger[m].lamports
<1>0. \A signers \in TransactionSigners : signers \cap Cold = {}
  BY NonceAssumption DEF NonceAssumption
<1>1. /\ m \in Address /\ ledger[m].lamports \in Nat
      /\ NonceAddress \subseteq Address
  BY NonceAssumption DEF NonceAssumption, IInv, TypeOK, Cell
<1>2. ASSUME ledger'[m] = ledger[m] PROVE Goal
  BY <1>1, <1>2
<1>3. ASSUME NEW signers \in TransactionSigners, NEW n \in NonceAddress,
             NEW size \in {"exact", "odd"}, Assign(signers, n, size)
      PROVE  Goal
  <2>1. m # n
    BY <1>3 DEF Assign, AssignOk
  <2>2. QED
    BY <1>1, <1>2, <1>3, <2>1 DEF Assign, AssignEffect, IInv, TypeOK
<1>4. ASSUME NEW signers \in TransactionSigners, NEW from \in Address, NEW to \in Address,
             NEW lamports \in Nat, Transfer(signers, from, to, lamports)
      PROVE  Goal
  <2>1. m # from
    BY <1>4 DEF Transfer, TransferOk
  <2>2. /\ ledger'[m].state = ledger[m].state /\ ledger'[m].size = ledger[m].size
        /\ m # from => ledger'[m].lamports >= ledger[m].lamports
    BY <1>1, <1>4 DEF Transfer, TransferOk, TransferEffect, IInv, TypeOK, Cell
  <2>3. QED
    BY <2>1, <2>2
<1>5. ASSUME NEW n \in NonceAddress, NEW a \in Address, Initialize(n, a) PROVE Goal
  <2>1. m # n
    BY <1>5 DEF Initialize, InitializeOk
  <2>2. QED
    BY <1>1, <1>2, <1>5, <2>1, InitializeFrame DEF IInv
<1>6. ASSUME NEW signers \in TransactionSigners, NEW a \in Address, NEW n \in NonceAddress,
             NEW current, NEW c \in Commitment, Advance(signers, a, n, current, c)
      PROVE  Goal
  <2>1. m # n
    BY <1>0, <1>6 DEF Advance, AdvanceOk
  <2>2. QED
    BY <1>1, <1>2, <1>6, <2>1, AdvanceType DEF IInv
<1>7. ASSUME NEW signers \in TransactionSigners, NEW a \in Address, NEW n \in NonceAddress,
             NEW to \in Address, NEW lamports \in Nat, Withdraw(signers, a, n, to, lamports)
      PROVE  Goal
  <2>1. m # n
    BY <1>0, <1>7 DEF Withdraw, WithdrawOk, MayWithdraw
  <2>2. CASE m = to
    <3>1. /\ ledger'[to].state = ledger[to].state
          /\ ledger'[to].size = ledger[to].size
          /\ ledger'[to].lamports = ledger[to].lamports + lamports
      BY <1>7, WithdrawType DEF IInv
    <3>2. ledger'[m].lamports >= ledger[m].lamports
      BY <1>1, <2>2, <3>1
    <3>3. QED
      BY <2>2, <3>1, <3>2
  <2>3. CASE m # to
    BY <1>1, <1>2, <1>7, <2>1, <2>3, WithdrawType DEF IInv
  <2>4. QED
    BY <2>2, <2>3
<1>8. CASE NextSlot
  BY <1>2, <1>8 DEF NextSlot
<1>9. 0..U64Max \subseteq Nat /\ 1..U64Max \subseteq Nat
  OBVIOUS
<1>10. QED
  BY <1>1, <1>3, <1>4, <1>5, <1>6, <1>7, <1>8, <1>9 DEF Next

\* Whatever anyone else submits, a live account whose authority signs nothing keeps
\* its data and every lamport: not even its own key can drain or reset it.
THEOREM ColdAuthorityIsSafe == Spec => ColdAuthorityUntouched
<1>1. IInv /\ [Next]_vars =>
        [\A n \in NonceAddress :
            Initialized(ledger[n]) /\ ledger[n].state.authority \in Cold =>
                /\ ledger'[n].size = "exact"
                /\ ledger'[n].state = ledger[n].state
                /\ ledger'[n].lamports >= ledger[n].lamports]_vars
  BY ColdStep
<1>2. QED
  BY <1>1, Invariance, PTL DEF Spec, ColdAuthorityUntouched

------------------------------------------------------------------------------
(* Nonce implements SingleUse.                                                *)

Stored == \A n \in NonceAddress :
    /\ ledger[n].state # Zeroed =>
          /\ StoredNonce(n) = ledger[n].state.nonce
          /\ StoredNonce(n) # NoNonce
          /\ StoredNonce(n).account = n
    /\ ledger[n].state = Zeroed => StoredNonce(n) = NoNonce
    /\ StoredNonce(n) \notin retired

\* What the refinement needs to know of stored values.
LEMMA StoredFacts == IInv => Stored
BY StoredIsOwn, IInvRetired DEF Stored, RetiredStaysRetired

\* The same of the next state.
LEMMA StoredFactsPrimed == IInv' => Stored'
BY StoredFacts, PTL

ValuesHeld == [n \in NonceAddress |-> StoredNonce(n)]

\* A step that changes no account's data and retires nothing is a stutter.
LEMMA SameDataStutters ==
    ASSUME Stored, Stored', UNCHANGED retired,
           \A m \in NonceAddress : ledger'[m].state = ledger[m].state
    PROVE  UNCHANGED OneTime!vars
<1>1. \A n \in NonceAddress : StoredNonce(n)' = StoredNonce(n)
  BY DEF Stored
<1>2. ValuesHeld' = ValuesHeld
  BY <1>1 DEF ValuesHeld
<1>3. QED
  BY <1>2 DEF OneTime!vars, ValuesHeld

\* A nonce that is in no account's history and no account's data is fresh.
LEMMA FreshNonce ==
    ASSUME Stored, Stored', NEW n \in NonceAddress, retired \subseteq retired',
           ledger'[n].state # Zeroed,
           ledger[n].state = Zeroed \/ StoredNonce(n) \in retired'
    PROVE  OneTime!Fresh(ValuesHeld'[n])
<1> DEFINE v == StoredNonce(n)'
<1>1. v \notin retired /\ v # NoNonce /\ v.account = n /\ ValuesHeld'[n] = v
  BY DEF Stored, ValuesHeld
<1>2. ASSUME NEW h \in NonceAddress PROVE ValuesHeld[h] # v
  <2>1. CASE h = n
    BY <1>1, <2>1 DEF Stored, ValuesHeld
  <2>2. CASE h # n
    BY <1>1, <2>2 DEF Stored, ValuesHeld
  <2>3. QED
    BY <2>1, <2>2
<1>3. QED
  BY <1>1, <1>2 DEF OneTime!Fresh, ValuesHeld

\* Only the account n that a step writes can hold another nonce afterwards.
LEMMA OthersHold ==
    ASSUME Stored, Stored', NEW n \in NonceAddress,
           \A m \in NonceAddress \ {n} : ledger'[m].state = ledger[m].state
    PROVE  ValuesHeld' = [ValuesHeld EXCEPT ![n] = ValuesHeld'[n]]
<1>1. \A m \in NonceAddress \ {n} : StoredNonce(m)' = StoredNonce(m)
  BY DEF Stored
<1>2. QED
  BY <1>1 DEF ValuesHeld

\* No holder stores a value at first.
LEMMA InitRefines == Init => OneTime!Init
<1> SUFFICES ASSUME Init PROVE OneTime!Init
  OBVIOUS
<1>1. \A n \in NonceAddress : StoredNonce(n) = NoNonce
  BY NonceAssumption DEF Init, SystemCell, StoredNonce, NoNonce, NonceAssumption
<1>2. QED
  BY <1>1 DEF Init, OneTime!Init

\* Each instruction issues, replaces or drops a value, or does nothing to values.
LEMMA StepRefines == IInv /\ IInv' /\ [Next]_vars => [OneTime!Next]_(OneTime!vars)
<1> SUFFICES ASSUME IInv, IInv', [Next]_vars
             PROVE  OneTime!Next \/ UNCHANGED OneTime!vars
  OBVIOUS
<1> DEFINE Goal == OneTime!Next \/ UNCHANGED OneTime!vars
<1>1. Stored /\ Stored' /\ NonceAddress \subseteq Address
  BY StoredFacts, StoredFactsPrimed, NonceAssumption DEF NonceAssumption
<1>2. ASSUME NEW signers, NEW n \in NonceAddress, NEW size \in {"exact", "odd"},
             Assign(signers, n, size)
      PROVE  Goal
  <2>1. \A m \in NonceAddress : ledger'[m].state = ledger[m].state
    BY <1>1, <1>2 DEF Assign, AssignEffect, IInv, TypeOK, Cell
  <2>2. QED
    BY <1>1, <1>2, <2>1, SameDataStutters DEF Assign
<1>3. ASSUME NEW signers, NEW from \in Address, NEW to \in Address,
             NEW lamports \in Nat, Transfer(signers, from, to, lamports)
      PROVE  Goal
  <2>1. \A m \in NonceAddress : ledger'[m].state = ledger[m].state
    BY <1>1, <1>3 DEF Transfer, TransferEffect, IInv, TypeOK, Cell
  <2>2. QED
    BY <1>1, <1>3, <2>1, SameDataStutters DEF Transfer
<1>4. ASSUME NEW n \in NonceAddress, NEW a \in Address, Initialize(n, a) PROVE Goal
  <2>1. ledger[n].state = Zeroed /\ UNCHANGED retired
    BY <1>4 DEF Initialize, InitializeOk
  <2>2. ledger'[n].state # Zeroed
    BY <1>1, <1>4, InitializeWrites DEF IInv
  <2>3. \A m \in NonceAddress \ {n} : ledger'[m].state = ledger[m].state
    BY <1>1, <1>4, InitializeFrame DEF IInv
  <2>4. OneTime!Issue(n)
    BY <1>1, <2>1, <2>2, <2>3, FreshNonce, OthersHold DEF OneTime!Issue, ValuesHeld, Stored
  <2>5. QED
    BY <2>4 DEF OneTime!Next
<1>5. ASSUME NEW signers, NEW a \in Address, NEW n \in NonceAddress,
             NEW current, NEW c \in Commitment, Advance(signers, a, n, current, c)
      PROVE  Goal
  <2>1. /\ ledger[n].state # Zeroed /\ ledger'[n].state # Zeroed
        /\ \A m \in NonceAddress \ {n} : ledger'[m].state = ledger[m].state
    <3>1. /\ ledger[n].state \in NonceState /\ ledger'[n].state \in NonceState
          /\ \A m \in Address \ {n} : ledger'[m] = ledger[m]
      BY <1>5, AdvanceType DEF IInv
    <3>2. Zeroed \notin NonceState
      BY LedgerAssumption DEF LedgerAssumption
    <3>3. QED
      BY <1>1, <3>1, <3>2
  <2>2. retired' = retired \cup {StoredNonce(n)}
    BY <1>1, <1>5, <2>1 DEF Advance, Stored
  <2>3. OneTime!Replace(n)
    BY <1>1, <2>1, <2>2, FreshNonce, OthersHold DEF OneTime!Replace, ValuesHeld, Stored
  <2>4. QED
    BY <2>3 DEF OneTime!Next
<1>6. ASSUME NEW signers, NEW a \in Address, NEW n \in NonceAddress, NEW to \in Address,
             NEW lamports \in Nat, Withdraw(signers, a, n, to, lamports)
      PROVE  Goal
  <2>1. \A m \in NonceAddress \ {n} : ledger'[m].state = ledger[m].state
    BY <1>1, <1>6, WithdrawType DEF IInv
  <2>2. CASE ledger[n].state # Zeroed /\ lamports = ledger[n].lamports
    <3>1. ledger'[n].state = Zeroed
      BY <1>6, <2>2, WithdrawType DEF IInv, SystemCell
    <3>2. Initialized(ledger[n])
      BY <1>1, <2>2 DEF IInv, NonceBelongs
    <3>3. retired' = retired \cup {StoredNonce(n)}
      BY <1>1, <1>6, <2>2, <3>2 DEF Withdraw, Stored
    <3>4. OneTime!Drop(n)
      BY <1>1, <2>1, <2>2, <3>1, <3>3, OthersHold DEF OneTime!Drop, ValuesHeld, Stored
    <3>5. QED
      BY <3>4 DEF OneTime!Next
  <2>3. CASE ledger[n].state = Zeroed \/ lamports # ledger[n].lamports
    <3>1. ledger'[n].state = ledger[n].state
      BY <1>6, <2>3, WithdrawType DEF IInv, SystemCell
    <3>2. UNCHANGED retired
      BY <1>6, <2>3 DEF Withdraw
    <3>3. QED
      BY <1>1, <2>1, <3>1, <3>2, SameDataStutters
  <2>4. QED
    BY <2>2, <2>3
<1>7. CASE NextSlot \/ UNCHANGED vars
  BY <1>1, <1>7, SameDataStutters DEF NextSlot, vars
<1>8. 0..U64Max \subseteq Nat /\ 1..U64Max \subseteq Nat
  OBVIOUS
<1>9. QED
  BY <1>1, <1>2, <1>3, <1>4, <1>5, <1>6, <1>7, <1>8 DEF Next

\* The accounts of the program behave as single-use values: each account stores at
\* most one value, every stored value is fresh, and a value leaves for good.
THEOREM ImplementsSingleUseValues == Spec => ImplementsSingleUse
<1>1. QED
  BY InitRefines, StepRefines, Invariance, PTL DEF Spec, ImplementsSingleUse, OneTime!Spec

HIDE DEF OwnedByProgram, Initialized

------------------------------------------------------------------------------
(* Lamports are neither created nor destroyed, so that no balance can stand in the      *)
(* way of a withdrawal.  A function that totals every set of addresses is carried        *)
(* along, so that an instruction changes it at the two addresses it names; that it       *)
(* computes the same as the sum takes an induction, which goes by a least                *)
(* counterexample.                                                                  *)

\* What sets of addresses hold together.
Totals(balance) ==
    {f \in [SUBSET Address -> Nat] :
        /\ f[{}] = 0
        /\ \A S \in SUBSET Address : \A a \in Address \ S : f[S \cup {a}] = f[S] + balance[a]}

Balances(l) == [a \in Address |-> l[a].lamports]

\* The total of all balances is what it was at the beginning.
Conserving(l) == \E f \in Totals(Balances(l)) : f[Address] = Held(Supply)

SupplyInv == ledger \in Ledger /\ slot \in Nat /\ Conserving(ledger)

USE DEF Ledger

------------------------------------------------------------------------------
(* Totals.                                                                      *)

\* The address that the sum takes next.
Some(s) == CHOOSE x \in s : TRUE

\* A recursive sum that takes the addresses one by one.
Sums(b, i) ==
    i = [s \in SUBSET Address |-> IF s = {} THEN 0 ELSE b[Some(s)] + i[s \ {Some(s)}]]

\* The sum over all addresses is the total of their set.
LEMMA SumIsTotal ==
    ASSUME IsFiniteSet(Address), NEW b \in [Address -> Nat], NEW f \in Totals(b)
    PROVE  Held(b) = f[Address]
<1> DEFINE iter == CHOOSE i : Sums(b, i)
<1>1. Held(b) = iter[Address]
  BY DEF Held, MapThenSumSet, MapThenFoldSet, Sums, Some
<1>2. /\ f \in [SUBSET Address -> Nat] /\ f[{}] = 0
      /\ \A S \in SUBSET Address : \A a \in Address \ S : f[S \cup {a}] = f[S] + b[a]
  BY DEF Totals
<1>3. ASSUME NEW S \in SUBSET Address, S # {}
      PROVE  /\ Some(S) \in S /\ S \ {Some(S)} \in SUBSET Address
             /\ f[S] = b[Some(S)] + f[S \ {Some(S)}]
  <2>1. Some(S) \in S
    BY <1>3 DEF Some
  <2>2. PICK T, a : T = S \ {Some(S)} /\ a = Some(S)
    OBVIOUS
  <2>3. T \in SUBSET Address /\ a \in Address \ T /\ S = T \cup {a}
    BY <2>1, <2>2
  <2>4. f[S] = f[T] + b[a] /\ f[T] \in Nat /\ b[a] \in Nat
    BY <1>2, <2>3
  <2>5. f[S] = b[a] + f[T]
    BY <2>4
  <2> QED
    BY <2>1, <2>2, <2>3, <2>5
<1>4. Sums(b, f)
  <2>1. f = [s \in SUBSET Address |-> f[s]]
    BY <1>2
  <2>2. \A s \in SUBSET Address :
           f[s] = IF s = {} THEN 0 ELSE b[Some(s)] + f[s \ {Some(s)}]
    BY <1>2, <1>3
  <2> QED
    BY <2>1, <2>2 DEF Sums
<1>5. Sums(b, iter)
  BY <1>4
<1> HIDE DEF iter
<1>6. /\ iter[{}] = 0
      /\ \A s \in SUBSET Address : s # {} => iter[s] = b[Some(s)] + iter[s \ {Some(s)}]
  BY <1>5 DEF Sums
<1> DEFINE Differ == {S \in SUBSET Address : iter[S] # f[S]}
<1>7. ASSUME Differ # {} PROVE FALSE
  <2>1. IsWellFoundedOn(StrictSubsetOrdering(Address), FiniteSubsetsOf(Address))
    BY FS_StrictSubsetOrderingWellFounded
  <2>2. Differ \subseteq FiniteSubsetsOf(Address)
    BY FS_FiniteSubsetsOfFinite
  <2>3. PICK S \in Differ : \A T \in Differ : <<T, S>> \notin StrictSubsetOrdering(Address)
    BY <1>7, <2>1, <2>2, WFMin
  <2>4. S # {}
    BY <1>2, <1>6
  <2>5. PICK T : T = S \ {Some(S)}
    OBVIOUS
  <2>6. T \in SUBSET Address /\ T # S /\ T \subseteq S
    BY <1>3, <2>4, <2>5
  <2>7. T \notin Differ
    BY <2>3, <2>6 DEF StrictSubsetOrdering
  <2> QED
    BY <1>3, <1>6, <2>4, <2>5, <2>6, <2>7
<1> QED
  BY <1>1, <1>7

\* Every set of a finite set of addresses has a total.
LEMMA TotalsExist ==
    ASSUME IsFiniteSet(Address), NEW b \in [Address -> Nat]
    PROVE  Totals(b) # {}
<1> DEFINE Partial(A) ==
      {f \in [SUBSET A -> Nat] :
          /\ f[{}] = 0
          /\ \A S \in SUBSET A : \A a \in A \ S : f[S \cup {a}] = f[S] + b[a]}
           Lacking == {A \in SUBSET Address : Partial(A) = {}}
<1>1. ASSUME Lacking # {} PROVE FALSE
  <2>1. IsWellFoundedOn(StrictSubsetOrdering(Address), FiniteSubsetsOf(Address))
    BY FS_StrictSubsetOrderingWellFounded
  <2>2. Lacking \subseteq FiniteSubsetsOf(Address)
    BY FS_FiniteSubsetsOfFinite
  <2> HIDE DEF Lacking
  <2>3. PICK A \in Lacking : \A B \in Lacking : <<B, A>> \notin StrictSubsetOrdering(Address)
    BY <1>1, <2>1, <2>2, WFMin
  <2>4. A \in SUBSET Address /\ Partial(A) = {}
    BY <2>3 DEF Lacking
  <2>5. A # {}
    <3> SUFFICES ASSUME A = {} PROVE FALSE
      OBVIOUS
    <3> DEFINE zero == [S \in SUBSET A |-> 0]
    <3>1. zero \in Partial(A)
      OBVIOUS
    <3> QED
      BY <2>4, <3>1
  <2>6. PICK e \in A : TRUE
    BY <2>5
  <2>7. PICK B : B = A \ {e}
    OBVIOUS
  <2>8. B \in SUBSET Address /\ B \subseteq A /\ B # A /\ A = B \cup {e} /\ e \notin B /\ e \in Address
    BY <2>4, <2>7
  <2>9. B \notin Lacking
    BY <2>3, <2>4, <2>8 DEF StrictSubsetOrdering
  <2>10. PICK f \in Partial(B) : TRUE
    BY <2>8, <2>9 DEF Lacking
  <2>11. /\ f \in [SUBSET B -> Nat] /\ f[{}] = 0
         /\ \A S \in SUBSET B : \A a \in B \ S : f[S \cup {a}] = f[S] + b[a]
    BY <2>10
  <2> HIDE DEF Partial
  <2> DEFINE G(S) == IF e \in S THEN f[S \ {e}] + b[e] ELSE f[S]
             g == [S \in SUBSET A |-> G(S)]
  <2>12. ASSUME NEW S \in SUBSET A PROVE G(S) \in Nat
    <3>1. S \ {e} \in SUBSET B /\ (e \notin S => S \in SUBSET B) /\ b[e] \in Nat
      BY <2>8
    <3> QED
      BY <2>11, <3>1
  <2>13. g \in [SUBSET A -> Nat] /\ g[{}] = 0
    BY <2>11, <2>12
  <2>14. ASSUME NEW S \in SUBSET A, NEW a \in A \ S PROVE g[S \cup {a}] = g[S] + b[a]
    <3>1. g[S \cup {a}] = G(S \cup {a}) /\ g[S] = G(S) /\ b[a] \in Nat /\ b[e] \in Nat
      BY <2>4, <2>8
    <3> HIDE DEF g
    <3>2. CASE a = e
      <4>1. (S \cup {a}) \ {e} = S /\ e \notin S
        BY <3>2
      <4> QED
        BY <3>1, <3>2, <4>1
    <3>3. CASE a # e /\ e \notin S
      <4>1. S \in SUBSET B /\ a \in B \ S /\ e \notin S \cup {a}
        BY <2>8, <3>3
      <4> QED
        BY <2>11, <3>1, <3>3, <4>1
    <3>4. CASE a # e /\ e \in S
      <4>1. PICK T : T = S \ {e}
        OBVIOUS
      <4>2. T \in SUBSET B /\ a \in B \ T /\ (S \cup {a}) \ {e} = T \cup {a}
        BY <2>8, <3>4, <4>1
      <4>3. f[T \cup {a}] = f[T] + b[a] /\ f[T] \in Nat
        BY <2>11, <4>2
      <4>4. G(S \cup {a}) = f[T \cup {a}] + b[e] /\ G(S) = f[T] + b[e]
        BY <3>4, <4>1, <4>2
      <4> QED
        BY <3>1, <4>3, <4>4
    <3> QED
      BY <3>2, <3>3, <3>4
  <2> HIDE DEF g
  <2>15. g \in Partial(A)
    BY <2>13, <2>14 DEF Partial
  <2> QED
    BY <2>4, <2>15
<1>2. Partial(Address) # {}
  BY <1>1
<1> QED
  BY <1>2 DEF Totals

\* Moving lamports between two addresses moves them between the totals.
LEMMA TotalMoves ==
    ASSUME NEW b \in [Address -> Nat], NEW k \in [Address -> Nat], NEW f \in Totals(b),
           NEW from \in Address, NEW to \in Address, from # to,
           NEW x \in Nat, x <= b[from],
           k[from] = b[from] - x, k[to] = b[to] + x,
           \A a \in Address \ {from, to} : k[a] = b[a]
    PROVE  \E g \in Totals(k) : g[Address] = f[Address]
<1> DEFINE G(S) == IF from \in S THEN IF to \in S THEN f[S] ELSE f[S] - x
                                 ELSE IF to \in S THEN f[S] + x ELSE f[S]
           g == [S \in SUBSET Address |-> G(S)]
<1>1. /\ f \in [SUBSET Address -> Nat] /\ f[{}] = 0
      /\ \A S \in SUBSET Address : \A a \in Address \ S : f[S \cup {a}] = f[S] + b[a]
  BY DEF Totals
<1>2. ASSUME NEW S \in SUBSET Address PROVE G(S) \in Nat
  <2>1. f[S] \in Nat
    BY <1>1
  <2>2. ASSUME from \in S PROVE f[S] >= x
    <3>1. PICK T : T = S \ {from}
      OBVIOUS
    <3>2. T \in SUBSET Address /\ from \in Address \ T /\ S = T \cup {from}
      BY <2>2, <3>1
    <3>3. f[S] = f[T] + b[from] /\ f[T] \in Nat /\ b[from] \in Nat
      BY <1>1, <3>2
    <3> QED
      BY <3>3
  <2> QED
    BY <2>1, <2>2
<1>3. g \in [SUBSET Address -> Nat] /\ g[{}] = 0
  BY <1>1, <1>2
<1>4. ASSUME NEW S \in SUBSET Address, NEW a \in Address \ S
      PROVE  g[S \cup {a}] = g[S] + k[a]
  <2>1. /\ g[S \cup {a}] = G(S \cup {a}) /\ g[S] = G(S)
        /\ f[S \cup {a}] = f[S] + b[a] /\ f[S] \in Nat /\ b[a] \in Nat
    BY <1>1
  <2>2. /\ from \in S \cup {a} <=> (from \in S \/ a = from)
        /\ to \in S \cup {a} <=> (to \in S \/ a = to)
        /\ a \notin S
    OBVIOUS
  <2> HIDE DEF g
  <2>3. CASE a = from
    BY <2>1, <2>2, <2>3
  <2>4. CASE a = to
    BY <2>1, <2>2, <2>4
  <2>5. CASE a \notin {from, to}
    BY <2>1, <2>2, <2>5
  <2> QED
    BY <2>3, <2>4, <2>5
<1>5. g[Address] = f[Address]
  OBVIOUS
<1> HIDE DEF g
<1>6. g \in Totals(k)
  BY <1>3, <1>4 DEF Totals
<1> QED
  BY <1>5, <1>6

\* Two addresses hold no more than all.
LEMMA TwoOfAll ==
    ASSUME NEW b \in [Address -> Nat], NEW f \in Totals(b),
           NEW a \in Address, NEW c \in Address, a # c
    PROVE  b[a] + b[c] <= f[Address]
<1>1. PICK T, U : T = Address \ {a} /\ U = Address \ {a, c}
  OBVIOUS
<1>2. /\ T \in SUBSET Address /\ a \in Address \ T /\ Address = T \cup {a}
      /\ U \in SUBSET Address /\ c \in Address \ U /\ T = U \cup {c}
  BY <1>1
<1>3. f[T] = f[U] + b[c] /\ f[Address] = f[T] + b[a] /\ f[U] \in Nat
  BY <1>2 DEF Totals
<1>4. b[a] \in Nat /\ b[c] \in Nat
  OBVIOUS
<1> QED
  BY <1>3, <1>4

\* An instruction that moves lamports between two accounts conserves them.
LEMMA MoveConserves ==
    ASSUME NEW l \in Ledger, NEW k \in Ledger, Conserving(l),
           NEW from \in Address, NEW to \in Address, from # to,
           NEW x \in Nat, x <= l[from].lamports,
           k[from].lamports = l[from].lamports - x, k[to].lamports = l[to].lamports + x,
           \A a \in Address \ {from, to} : k[a].lamports = l[a].lamports
    PROVE  Conserving(k)
<1>1. PICK b, c : b = Balances(l) /\ c = Balances(k)
  OBVIOUS
<1>2. /\ b \in [Address -> Nat] /\ c \in [Address -> Nat]
      /\ \A a \in Address : b[a] = l[a].lamports /\ c[a] = k[a].lamports
  BY <1>1 DEF Balances, Cell
<1>3. PICK f \in Totals(b) : f[Address] = Held(Supply)
  BY <1>1 DEF Conserving
<1>4. /\ x <= b[from] /\ c[from] = b[from] - x /\ c[to] = b[to] + x
      /\ \A a \in Address \ {from, to} : c[a] = b[a]
  BY <1>2
<1>5. \E g \in Totals(c) : g[Address] = f[Address]
  <2>1. b \in [Address -> Nat] /\ c \in [Address -> Nat] /\ f \in Totals(b)
    BY <1>2, <1>3
  <2>2. QED
    BY ONLY <1>4, <2>1, TotalMoves, from \in Address, to \in Address, from # to, x \in Nat
<1> QED
  BY <1>1, <1>3, <1>5 DEF Conserving

\* An instruction that moves none conserves them.
LEMMA SameBalancesConserve ==
    ASSUME NEW l, NEW k, Conserving(l), \A a \in Address : k[a].lamports = l[a].lamports
    PROVE  Conserving(k)
<1>1. Balances(k) = Balances(l)
  BY DEF Balances
<1> QED
  BY <1>1 DEF Conserving

------------------------------------------------------------------------------
(* The program.                                                                 *)

\* The accounts hold what each address starts with.
LEMMA InitConserves == Init => SupplyInv
<1> SUFFICES ASSUME Init PROVE SupplyInv
  OBVIOUS
<1>1. ledger = [a \in Address |-> SystemCell(Supply[a])] /\ slot = 1
  BY DEF Init
<1>2. Supply \in [Address -> Nat]
  BY NonceAssumption
<1>3. ledger \in Ledger
  BY <1>1, <1>2 DEF SystemCell, Cell, DataLength
<1>4. \A a \in Address : ledger[a].lamports = Supply[a]
  BY <1>1 DEF SystemCell
<1>5. Balances(ledger) = Supply
  BY <1>2, <1>4 DEF Balances
<1>6. Conserving(ledger)
  <2>1. PICK f \in Totals(Supply) : TRUE
    BY <1>2, SupplyAssumption, TotalsExist
  <2>2. f[Address] = Held(Supply)
    BY <1>2, SupplyAssumption, SumIsTotal
  <2> QED
    BY <1>5, <2>2 DEF Conserving
<1> QED
  BY <1>1, <1>3, <1>6 DEF SupplyInv

\* Every instruction moves what it takes, and no more.
LEMMA StepConserves == SupplyInv /\ [Next]_vars => SupplyInv'
<1> SUFFICES ASSUME SupplyInv, [Next]_vars PROVE SupplyInv'
  OBVIOUS
<1>1. PICK l, s : l = ledger /\ s = slot
  OBVIOUS
<1>2. l \in Ledger /\ s \in Nat /\ Conserving(l)
  BY <1>1 DEF SupplyInv
<1>3. NonceAddress \subseteq Address
  BY NonceAssumption
<1>4. \A a \in Address : l[a].lamports \in Nat
  BY <1>2 DEF Cell
<1>5. U64Max \in Nat
  BY LedgerAssumption DEF LedgerAssumption
<1>6. ASSUME NEW signers, NEW n \in NonceAddress, NEW size \in {"exact", "odd"},
             Assign(signers, n, size)
      PROVE  SupplyInv'
  <2>1. ledger' = AssignEffect(l, n, size) /\ slot' = s
    BY <1>1, <1>6 DEF Assign
  <2>2. ledger' \in Ledger /\ \A m \in Address : ledger'[m].lamports = l[m].lamports
    BY <1>2, <1>3, <2>1, AssignChanges
  <2> QED
    BY <1>2, <2>1, <2>2, SameBalancesConserve DEF SupplyInv
<1>7. ASSUME NEW signers, NEW from \in Address, NEW to \in Address, NEW x \in 1..U64Max,
             Transfer(signers, from, to, x)
      PROVE  SupplyInv'
  <2>1. TransferOk(l, signers, from, to, x) /\ ledger' = TransferEffect(l, from, to, x) /\ slot' = s
    BY <1>1, <1>7 DEF Transfer
  <2>2. x \in Nat /\ from # to /\ x <= l[from].lamports
    BY <1>5, <2>1 DEF TransferOk
  <2> DEFINE k == TransferEffect(l, from, to, x)
  <2> HIDE DEF k
  <2>3. /\ k \in Ledger
        /\ k[from].lamports = l[from].lamports - x
        /\ k[to].lamports = l[to].lamports + x
        /\ \A m \in Address \ {from, to} : k[m] = l[m]
    BY <1>2, <2>1, <2>2, TransferChanges DEF k
  <2>4. Conserving(k)
    BY <1>2, <2>2, <2>3, MoveConserves
  <2> QED
    BY <1>2, <2>1, <2>3, <2>4 DEF SupplyInv, k
<1>8. ASSUME NEW n \in NonceAddress, NEW a \in Address, Initialize(n, a) PROVE SupplyInv'
  <2>1. InitializeOk(l, n) /\ ledger' = InitializeEffect(l, n, a, s) /\ slot' = s
    BY <1>1, <1>8 DEF Initialize
  <2>2. ledger' \in Ledger /\ \A m \in Address : ledger'[m].lamports = l[m].lamports
    BY <1>2, <1>3, <2>1, InitializeChanges
  <2> QED
    BY <1>2, <2>1, <2>2, SameBalancesConserve DEF SupplyInv
<1>9. ASSUME NEW signers, NEW a \in Address, NEW n \in NonceAddress, NEW current,
             NEW c \in Commitment, Advance(signers, a, n, current, c)
      PROVE  SupplyInv'
  <2>1. AdvanceOk(l, signers, a, n, current) /\ ledger' = AdvanceEffect(l, n, c) /\ slot' = s
    BY <1>1, <1>9 DEF Advance
  <2>2. l[n].state # Zeroed
    BY <2>1 DEF AdvanceOk, Initialized
  <2>3. ledger' \in Ledger /\ \A m \in Address : ledger'[m].lamports = l[m].lamports
    BY <1>2, <1>3, <2>1, <2>2, AdvanceChanges
  <2> QED
    BY <1>2, <2>1, <2>3, SameBalancesConserve DEF SupplyInv
<1>10. ASSUME NEW signers, NEW a \in Address, NEW n \in NonceAddress, NEW to \in Address,
              NEW x \in 0..U64Max, Withdraw(signers, a, n, to, x)
       PROVE  SupplyInv'
  <2>1. WithdrawOk(l, signers, s, a, n, to, x) /\ ledger' = WithdrawEffect(l, n, to, x) /\ slot' = s
    BY <1>1, <1>10 DEF Withdraw
  <2>2. x \in Nat /\ x <= l[n].lamports
    BY <1>5, <2>1 DEF WithdrawOk
  <2> DEFINE k == WithdrawEffect(l, n, to, x)
  <2> HIDE DEF k
  <2>3. /\ k \in Ledger /\ n # to
        /\ IF x = l[n].lamports
           THEN k[n] = SystemCell(0)
           ELSE /\ k[n].state = l[n].state
                /\ k[n].size = l[n].size
                /\ k[n].lamports = l[n].lamports - x
        /\ k[to].lamports = l[to].lamports + x
        /\ \A m \in Address \ {n, to} : k[m] = l[m]
    BY <1>2, <1>3, <2>1, <2>2, n \in Address, WithdrawChanges DEF k
  <2>4. k[n].lamports = l[n].lamports - x
    <3>1. SystemCell(0).lamports = 0
      BY DEF SystemCell
    <3> QED
      BY <1>3, <1>4, <2>2, <2>3, <3>1
  <2>5. Conserving(k)
    BY <1>2, <1>3, <2>2, <2>3, <2>4, MoveConserves
  <2> QED
    BY <1>2, <2>1, <2>3, <2>5 DEF SupplyInv, k
<1>11. ASSUME NextSlot PROVE SupplyInv'
  <2>1. ledger' = l /\ slot' = s + 1
    BY <1>1, <1>11 DEF NextSlot
  <2> QED
    BY <1>2, <2>1 DEF SupplyInv
<1>12. ASSUME UNCHANGED vars PROVE SupplyInv'
  <2>1. ledger' = l /\ slot' = s
    BY <1>1, <1>12 DEF vars
  <2> QED
    BY <1>2, <2>1 DEF SupplyInv
<1> QED
  BY <1>6, <1>7, <1>8, <1>9, <1>10, <1>11, <1>12 DEF Next

\* The invariant holds of the program.
THEOREM SupplyInvariance == Spec => []SupplyInv
BY InitConserves, StepConserves, PTL DEF Spec

\* No instruction creates or destroys lamports, however many accounts there are.
THEOREM SupplyConserved == Spec => []Conserved
<1>1. SupplyInv => Conserved
  <2> SUFFICES ASSUME SupplyInv PROVE Held(Balances(ledger)) = Held(Supply)
    BY DEF Conserved, Balances
  <2>1. PICK b : b = Balances(ledger)
    OBVIOUS
  <2>2. b \in [Address -> Nat]
    BY <2>1 DEF SupplyInv, Balances, Cell
  <2>3. PICK f \in Totals(b) : f[Address] = Held(Supply)
    BY <2>1 DEF SupplyInv, Conserving
  <2>4. Held(b) = f[Address]
    BY <2>2, SupplyAssumption, SumIsTotal
  <2> QED
    BY <2>1, <2>3, <2>4
<1> QED
  BY <1>1, SupplyInvariance, PTL

\* Nothing the program owns is stranded: whoever controls an account can close it and
\* recover every lamport once the slot of its initialization is over, and there is always
\* a destination that can take them.
THEOREM NothingIsStranded == Spec => []NeverStranded
<1>1. SupplyInv => NeverStranded
  <2> SUFFICES ASSUME SupplyInv, NEW n \in NonceAddress, OwnedByProgram(ledger[n]),
                      Initialized(ledger[n]) => slot > ledger[n].state.initialize_slot
               PROVE  \E to \in Address :
                         WithdrawOk(ledger, {Controller(n)}, slot, Controller(n), n, to,
                                    ledger[n].lamports)
    BY DEF NeverStranded
  <2>1. PICK to \in Address : to # n
    BY SupplyAssumption, NonceAssumption
  <2>2. /\ ledger[n].lamports \in Nat /\ ledger[to].lamports \in Nat
        /\ ledger[to].lamports + ledger[n].lamports <= U64Max
    <3>1. PICK b : b = Balances(ledger)
      OBVIOUS
    <3>2. b \in [Address -> Nat] /\ \A a \in Address : b[a] = ledger[a].lamports
      BY <3>1 DEF SupplyInv, Balances, Cell
    <3>3. PICK f \in Totals(b) : f[Address] = Held(Supply)
      BY <3>1 DEF SupplyInv, Conserving
    <3>4. n \in Address
      BY NonceAssumption
    <3>5. b[to] + b[n] <= Held(Supply)
      BY <2>1, <3>2, <3>3, <3>4, TwoOfAll
    <3>6. Held(Supply) \in Nat /\ Held(Supply) <= U64Max /\ U64Max \in Nat
      BY <3>3, SupplyAssumption, LedgerAssumption DEF Totals, LedgerAssumption
    <3>7. b[to] \in Nat /\ b[n] \in Nat
      BY <3>2, <3>4
    <3> QED
      BY <3>2, <3>4, <3>5, <3>6, <3>7
  <2>3. MayWithdraw(ledger, Controller(n), n)
    BY DEF MayWithdraw, Controller
  <2>4. CloseAllowed(ledger[n], slot)
    BY DEF CloseAllowed
  <2>5. WithdrawOk(ledger, {Controller(n)}, slot, Controller(n), n, to, ledger[n].lamports)
    BY <2>1, <2>2, <2>3, <2>4 DEF WithdrawOk
  <2> QED
    BY <2>5
<1> QED
  BY <1>1, SupplyInvariance, PTL
==============================================================================
