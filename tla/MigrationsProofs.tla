---------------------------- MODULE MigrationsProofs ----------------------------
(* Proofs about module Migrations, for all accounts, commands and any number of       *)
(* changes that others make in between.                                           *)
EXTENDS Migrations, FiniteSetTheorems, TLAPS

------------------------------------------------------------------------------
(* Running the instructions of a message.                                         *)

(* f has the worlds after each of the first m instructions.                         *)
RunsTo(f, m, w, instructions) ==
    f = [n \in 0..m |-> IF n = 0 THEN w ELSE Do(f[n - 1], instructions[n])]

\* One more instruction has a world after it, too.
LEMMA RunsOneMore ==
    ASSUME NEW m \in Nat, NEW w, NEW instructions, NEW f, RunsTo(f, m, w, instructions)
    PROVE  \E g : RunsTo(g, m + 1, w, instructions)
<1> DEFINE g == [n \in 0..(m + 1) |-> IF n = m + 1 THEN Do(f[m], instructions[m + 1]) ELSE f[n]]
<1>1. \A n \in 0..m : f[n] = IF n = 0 THEN w ELSE Do(f[n - 1], instructions[n])
  BY DEF RunsTo
<1>2. ASSUME NEW n \in 0..(m + 1)
      PROVE  g[n] = IF n = 0 THEN w ELSE Do(g[n - 1], instructions[n])
  <2>1. CASE n = m + 1
    <3>1. n # 0 /\ n - 1 = m /\ m \in 0..(m + 1) /\ m # m + 1
      BY <2>1
    <3>2. g[n - 1] = f[m] /\ g[n] = Do(f[m], instructions[n])
      BY <2>1, <3>1
    <3>3. QED
      BY <3>1, <3>2
  <2>2. CASE n = 0
    <3>1. 0 \in 0..m /\ 0 # m + 1
      OBVIOUS
    <3>2. QED
      BY <1>1, <2>2, <3>1
  <2>3. CASE n # m + 1 /\ n # 0
    <3>1. n \in 0..m /\ n - 1 \in 0..(m + 1) /\ n - 1 # m + 1
      BY <2>3
    <3>2. g[n] = f[n] /\ g[n - 1] = f[n - 1]
      BY <2>3, <3>1
    <3>3. f[n] = Do(f[n - 1], instructions[n])
      BY <1>1, <2>3, <3>1
    <3>4. QED
      BY <2>3, <3>2, <3>3
  <2> QED
    BY <2>1, <2>2, <2>3
<1>3. RunsTo(g, m + 1, w, instructions)
  BY <1>2 DEF RunsTo
<1> QED
  BY <1>3

\* No command builds a message of more than five instructions.
LEMMA AfterFacts ==
    ASSUME NEW w, NEW instructions, Len(instructions) \in 0..5
    PROVE  /\ After(w, instructions)[0] = w
           /\ \A n \in 1..Len(instructions) :
                 After(w, instructions)[n] = Do(After(w, instructions)[n - 1], instructions[n])
<1> DEFINE Ends(m) == \E f : RunsTo(f, m, w, instructions)
           after == CHOOSE f : RunsTo(f, Len(instructions), w, instructions)
<1>1. Ends(0)
  <2>1. RunsTo([n \in 0..0 |-> w], 0, w, instructions)
    BY DEF RunsTo
  <2> QED
    BY <2>1
<1>2. Ends(1)
  BY <1>1, RunsOneMore
<1>3. Ends(2)
  BY <1>2, RunsOneMore
<1>4. Ends(3)
  BY <1>3, RunsOneMore
<1>5. Ends(4)
  BY <1>4, RunsOneMore
<1>6. Ends(5)
  BY <1>5, RunsOneMore
<1>7. Ends(Len(instructions))
  <2>1. Len(instructions) = 0 \/ Len(instructions) = 1 \/ Len(instructions) = 2
        \/ Len(instructions) = 3 \/ Len(instructions) = 4 \/ Len(instructions) = 5
    OBVIOUS
  <2> QED
    BY <1>1, <1>2, <1>3, <1>4, <1>5, <1>6, <2>1
<1>8. RunsTo(after, Len(instructions), w, instructions)
  BY <1>7
<1>9. After(w, instructions) = after
  BY DEF After, RunsTo
<1> HIDE DEF after
<1>10. \A n \in 0..Len(instructions) :
          after[n] = IF n = 0 THEN w ELSE Do(after[n - 1], instructions[n])
  BY <1>8 DEF RunsTo
<1> QED
  BY <1>9, <1>10

------------------------------------------------------------------------------
(* Accounts.                                                                      *)

\* The program of an account and its type tell its kind.
LEMMA KindOf ==
    ASSUME NEW x \in Accounts
    PROVE  /\ StakeAccount(x) => x \in Stakes \cup Uninitialized
           /\ VoteAccount(x) => x \in Votes \cup Uninitialized
           /\ MintAccount(x) => x \in Mints
           /\ TokenProgramAccount(x) => x \in Mints \cup TokenAccounts
           /\ LoaderAccount(x) => x \in Programs \cup ProgramDatas
           /\ SystemAccount(x) => x \in Wallets
<1> USE DEF StakeAccount, VoteAccount, MintAccount, TokenProgramAccount, LoaderAccount,
            SystemAccount
<1>1. CASE x = Missing
  BY <1>1 DEF Missing
<1>2. CASE x \in Wallets
  BY <1>2 DEF Wallets
<1>3. CASE x \in TokenAccounts
  BY <1>3 DEF TokenAccounts
<1>4. CASE x \in Mints
  BY <1>4 DEF Mints
<1>5. CASE x \in Stakes \cup Votes \cup Uninitialized \cup Sysvars
  BY <1>5 DEF Stakes, Votes, Uninitialized, Sysvars
<1>6. CASE x \in Programs \cup ProgramDatas
  BY <1>6 DEF Programs, ProgramDatas
<1> QED
  BY <1>1, <1>2, <1>3, <1>4, <1>5, <1>6 DEF Accounts, Movable

\* And the other way round.
LEMMA KindFacts ==
    /\ \A x \in Mints : MintAccount(x) /\ TokenProgramAccount(x) /\ ~SystemAccount(x)
    /\ \A x \in TokenAccounts : TokenProgramAccount(x) /\ ~MintAccount(x) /\ ~SystemAccount(x)
    /\ \A x \in Stakes : StakeAccount(x) /\ DOMAIN x.authority = {"staker", "withdrawer"}
    /\ \A x \in Votes : VoteAccount(x) /\ DOMAIN x.authority = {"withdrawer"}
    /\ \A x \in Uninitialized : DOMAIN x.authority = {}
    /\ \A x \in Programs : IsProgram(x)
    /\ \A x \in ProgramDatas : IsProgramData(x) /\ DOMAIN x.authority = {"upgrade"}
    /\ \A x \in Movable : ~StakeAccount(x) /\ ~VoteAccount(x) /\ ~MintAccount(x) /\ ~LoaderAccount(x)
    /\ ~SystemAccount(Missing) /\ ~TokenProgramAccount(Missing)
<1> USE DEF StakeAccount, VoteAccount, MintAccount, TokenProgramAccount, LoaderAccount,
            SystemAccount, IsProgram, IsProgramData
<1>1. ASSUME NEW x \in Mints PROVE MintAccount(x) /\ TokenProgramAccount(x) /\ ~SystemAccount(x)
  BY DEF Mints
<1>2. ASSUME NEW x \in TokenAccounts
      PROVE  TokenProgramAccount(x) /\ ~MintAccount(x) /\ ~SystemAccount(x)
  BY DEF TokenAccounts
<1>3. ASSUME NEW x \in Stakes
      PROVE  StakeAccount(x) /\ DOMAIN x.authority = {"staker", "withdrawer"}
  BY DEF Stakes
<1>4. ASSUME NEW x \in Votes PROVE VoteAccount(x) /\ DOMAIN x.authority = {"withdrawer"}
  BY DEF Votes
<1>5. ASSUME NEW x \in Uninitialized PROVE DOMAIN x.authority = {}
  BY DEF Uninitialized
<1>6. ASSUME NEW x \in Programs PROVE IsProgram(x)
  BY DEF Programs
<1>7. ASSUME NEW x \in ProgramDatas
      PROVE  IsProgramData(x) /\ DOMAIN x.authority = {"upgrade"}
  BY DEF ProgramDatas
<1>8. ASSUME NEW x \in Movable
      PROVE  ~StakeAccount(x) /\ ~VoteAccount(x) /\ ~MintAccount(x) /\ ~LoaderAccount(x)
  BY DEF Movable, Missing, Wallets, TokenAccounts
<1>9. ~SystemAccount(Missing) /\ ~TokenProgramAccount(Missing)
  BY DEF Missing
<1> QED
  BY <1>1, <1>2, <1>3, <1>4, <1>5, <1>6, <1>7, <1>8, <1>9

(* y is an account of the kind of x; of a mint the roles may differ only.             *)
KindKept(x, y) ==
    /\ x \in Movable => y \in Movable
    /\ x \in Mints => /\ y \in Mints /\ y.program = x.program
                      /\ y.fee = x.fee /\ y.extended = x.extended
    /\ x \in Stakes => y \in Stakes
    /\ x \in Votes => y \in Votes
    /\ x \in ProgramDatas => y \in ProgramDatas
    /\ x \in Programs => y = x
    /\ x \in Sysvars => y \in Sysvars

\* An account of one kind is of no other.
LEMMA KindsDiffer ==
    ASSUME NEW x
    PROVE  /\ x \in Movable => x \notin Mints \cup Stakes \cup Votes \cup ProgramDatas \cup Programs
           /\ x \in Mints => x \notin Stakes \cup Votes \cup ProgramDatas \cup Programs
           /\ x \in Stakes => x \notin Votes \cup ProgramDatas \cup Programs
           /\ x \in Votes => x \notin ProgramDatas \cup Programs
           /\ x \in ProgramDatas => x \notin Programs
           /\ x \in Sysvars => x \notin Movable \cup Mints \cup Stakes \cup Votes
                                          \cup ProgramDatas \cup Programs
<1>1. x \in Mints => x.program \in {"token", "token2022"} /\ x.type = "mint"
  BY DEF Mints
<1>2. x \in Stakes => x.program = "stake"
  BY DEF Stakes
<1>3. x \in Votes => x.program = "vote"
  BY DEF Votes
<1>4. x \in ProgramDatas => x.program = "loader" /\ x.type = "program data"
  BY DEF ProgramDatas
<1>5. x \in Programs => x.program = "loader" /\ x.type = "program"
  BY DEF Programs
<1>6. x \in TokenAccounts => x.program \in {"token", "token2022"} /\ x.type = "account"
  BY DEF TokenAccounts
<1>7. x \in Wallets \cup {Missing} => x.program \in {"none", "system"}
  BY DEF Wallets, Missing
<1>8. x \in Sysvars => x.program = "sysvar"
  BY DEF Sysvars
<1> QED
  BY <1>1, <1>2, <1>3, <1>4, <1>5, <1>6, <1>7, <1>8 DEF Movable

------------------------------------------------------------------------------
(* What others do.                                                                *)

\* Giving a role away leaves an account what it is.
LEMMA RolesKeepKinds ==
    ASSUME NEW x, NEW r \in DOMAIN x.authority, NEW k \in Address \cup {Nobody},
           NEW y, y = [x EXCEPT !.authority[r] = k]
    PROVE  /\ x \in Mints => /\ y \in Mints /\ y.program = x.program
                             /\ y.fee = x.fee /\ y.extended = x.extended
           /\ x \in ProgramDatas => y \in ProgramDatas
           /\ k \in Address => (x \in Stakes => y \in Stakes) /\ (x \in Votes => y \in Votes)
<1>1. ASSUME x \in Mints
      PROVE  /\ y \in Mints /\ y.program = x.program
             /\ y.fee = x.fee /\ y.extended = x.extended
  BY <1>1 DEF Mints
<1>2. ASSUME x \in ProgramDatas PROVE y \in ProgramDatas
  BY <1>2 DEF ProgramDatas
<1>3. ASSUME x \in Stakes, k \in Address PROVE y \in Stakes
  BY <1>3 DEF Stakes
<1>4. ASSUME x \in Votes, k \in Address PROVE y \in Votes
  BY <1>4 DEF Votes
<1> QED
  BY <1>1, <1>2, <1>3, <1>4

\* The guards of Changes for each kind of account: one holds, the others do not.
LEMMA ChangesOfKinds ==
    ASSUME NEW x
    PROVE  /\ x = Missing => Changes(x) = {System(Rent)}
           /\ x \in Wallets => Changes(x) \subseteq SystemChanges(x)
           /\ x \in TokenAccounts => Changes(x) = TokenChanges(x)
           /\ x \in Mints \cup ProgramDatas => Changes(x) = RoleChanges(x, Strangers \cup {Nobody})
           /\ x \in Votes => Changes(x) = RoleChanges(x, Strangers)
           /\ x \in Stakes => Changes(x) = StakeChanges(x)
           /\ x \in Uninitialized \cup Programs => Changes(x) = {}
           /\ x \in Sysvars => Changes(x) = {[x EXCEPT !.time = @ + 1]}
<1> DEFINE system == SystemAccount(x)
           stake == StakeAccount(x)
           vote == VoteAccount(x)
           data == IsProgramData(x)
           mint == MintAccount(x)
           token == TokenProgramAccount(x)
           sysvar == x.program = "sysvar"
<1> USE DEF SystemAccount, StakeAccount, VoteAccount, IsProgramData, LoaderAccount, MintAccount,
            TokenProgramAccount
<1>0. Missing.program = "none"
  BY DEF Missing
<1>1. ASSUME x = Missing PROVE ~system /\ ~stake /\ ~vote /\ ~data /\ ~mint /\ ~token /\ ~sysvar
  BY <1>0, <1>1
<1>2. ASSUME x \in Wallets
      PROVE  x # Missing /\ ~stake /\ ~vote /\ ~data /\ ~mint /\ ~token /\ ~sysvar
  BY <1>0, <1>2 DEF Wallets
<1>3. ASSUME x \in TokenAccounts
      PROVE  x # Missing /\ ~system /\ ~stake /\ ~vote /\ ~data /\ ~mint /\ token /\ ~sysvar
  BY <1>0, <1>3 DEF TokenAccounts
<1>4. ASSUME x \in Mints
      PROVE  x # Missing /\ ~system /\ ~stake /\ ~vote /\ ~data /\ mint /\ token /\ ~sysvar
  BY <1>0, <1>4 DEF Mints
<1>5. ASSUME x \in ProgramDatas
      PROVE  x # Missing /\ ~system /\ ~stake /\ ~vote /\ data /\ ~mint /\ ~token /\ ~sysvar
  BY <1>0, <1>5 DEF ProgramDatas
<1>6. ASSUME x \in Votes
      PROVE  x # Missing /\ ~system /\ ~stake /\ vote /\ ~data /\ ~mint /\ ~token /\ ~sysvar
  BY <1>0, <1>6 DEF Votes
<1>7. ASSUME x \in Stakes
      PROVE  x # Missing /\ ~system /\ stake /\ ~vote /\ ~data /\ ~mint /\ ~token /\ ~sysvar
  BY <1>0, <1>7 DEF Stakes
<1>8. ASSUME x \in Programs
      PROVE  x # Missing /\ ~system /\ ~stake /\ ~vote /\ ~data /\ ~mint /\ ~token /\ ~sysvar
  BY <1>0, <1>8 DEF Programs
<1>9. ASSUME x \in Sysvars
      PROVE  x # Missing /\ ~system /\ ~stake /\ ~vote /\ ~data /\ ~mint /\ ~token /\ sysvar
  BY <1>0, <1>9 DEF Sysvars
<1>10. ASSUME x \in Uninitialized
       PROVE  /\ x # Missing /\ ~system /\ ~data /\ ~mint /\ ~token /\ ~sysvar
              /\ (stake /\ ~vote) \/ (~stake /\ vote) \/ (~stake /\ ~vote)
  BY <1>0, <1>10 DEF Uninitialized
<1>11. ASSUME x \in Uninitialized PROVE StakeChanges(x) = {} /\ RoleChanges(x, Strangers) = {}
  <2>1. DOMAIN x.authority = {}
    BY <1>11 DEF Uninitialized
  <2>2. RoleChanges(x, Strangers) = {}
    BY <2>1 DEF RoleChanges
  <2> QED
    BY <2>1, <2>2 DEF StakeChanges
<1>12. Changes(x) =
         CASE x = Missing    -> {System(Rent)}
           [] system         -> SystemChanges(x)
           [] stake          -> StakeChanges(x)
           [] vote           -> RoleChanges(x, Strangers)
           [] data           -> RoleChanges(x, Strangers \cup {Nobody})
           [] mint           -> RoleChanges(x, Strangers \cup {Nobody})
           [] token /\ ~mint -> TokenChanges(x)
           [] sysvar         -> {[x EXCEPT !.time = @ + 1]}
           [] OTHER          -> {}
  BY DEF Changes
<1> HIDE DEF system, stake, vote, data, mint, token, sysvar
<1>13. ASSUME x = Missing PROVE Changes(x) = {System(Rent)}
  BY <1>1, <1>12, <1>13
<1>14. ASSUME x \in Wallets PROVE Changes(x) \subseteq SystemChanges(x)
  BY <1>2, <1>12, <1>14
<1>15. ASSUME x \in TokenAccounts PROVE Changes(x) = TokenChanges(x)
  BY <1>3, <1>12, <1>15
<1>16. ASSUME x \in Mints PROVE Changes(x) = RoleChanges(x, Strangers \cup {Nobody})
  BY <1>4, <1>12, <1>16
<1>17. ASSUME x \in ProgramDatas PROVE Changes(x) = RoleChanges(x, Strangers \cup {Nobody})
  BY <1>5, <1>12, <1>17
<1>18. ASSUME x \in Votes PROVE Changes(x) = RoleChanges(x, Strangers)
  BY <1>6, <1>12, <1>18
<1>19. ASSUME x \in Stakes PROVE Changes(x) = StakeChanges(x)
  BY <1>7, <1>12, <1>19
<1>20. ASSUME x \in Programs PROVE Changes(x) = {}
  BY <1>8, <1>12, <1>20
<1>21. ASSUME x \in Sysvars PROVE Changes(x) = {[x EXCEPT !.time = @ + 1]}
  BY <1>9, <1>12, <1>21
<1>22. ASSUME x \in Uninitialized PROVE Changes(x) = {}
  BY <1>10, <1>11, <1>12, <1>22
<1> QED
  BY <1>13, <1>14, <1>15, <1>16, <1>17, <1>18, <1>19, <1>20, <1>21, <1>22

\* Whatever others do to an account, it stays of its kind, and token accounts of their mint.
LEMMA ChangesKeepKinds ==
    ASSUME NEW x \in Accounts, NEW y \in Changes(x)
    PROVE  /\ y \in Accounts /\ KindKept(x, y)
           /\ y \in TokenAccounts =>
                x \in TokenAccounts /\ y.mint = x.mint /\ y.program = x.program
           /\ y \notin Programs
<1>1. Strangers \subseteq Address /\ Rent \in Nat /\ Rent > 0
  BY CasesAssumption, MigrationAssumption
<1>2. CASE x = Missing
  <2>1. y = System(Rent)
    BY <1>2, ChangesOfKinds
  <2>2. y \in Wallets
    BY <1>1, <2>1 DEF System, Wallets
  <2>3. x \in Movable /\ y \in Movable /\ y \notin TokenAccounts
    BY <1>2, <2>2 DEF Movable, Wallets, TokenAccounts
  <2> QED
    BY <2>3, KindsDiffer DEF KindKept, Accounts
<1>3. CASE x \in Wallets
  <2>1. y \in SystemChanges(x)
    BY <1>3, ChangesOfKinds
  <2>2. x.lamports \in Nat
    BY <1>3 DEF Wallets
  <2>3. y \in Wallets \cup {Missing}
    <3>1. CASE y \in {[x EXCEPT !.lamports = @ + 1], Missing}
      BY <1>3, <2>2, <3>1 DEF Wallets
    <3>2. CASE y \notin {[x EXCEPT !.lamports = @ + 1], Missing}
      <4>1. x.lamports > Rent /\ y = [x EXCEPT !.lamports = @ - 1]
        BY <2>1, <3>2 DEF SystemChanges
      <4>2. x.lamports - 1 \in Nat
        BY <1>1, <2>2, <4>1
      <4> QED
        BY <1>3, <4>1, <4>2 DEF Wallets
    <3> QED
      BY <3>1, <3>2
  <2>4. x \in Movable /\ y \in Movable /\ y \notin TokenAccounts
    BY <1>3, <2>3 DEF Movable, Wallets, TokenAccounts, Missing
  <2> QED
    BY <2>4, KindsDiffer DEF KindKept, Accounts
<1>4. CASE x \in TokenAccounts
  <2>1. y \in TokenChanges(x)
    BY <1>4, ChangesOfKinds
  <2>2. y = Missing \/ (y \in TokenAccounts /\ y.mint = x.mint /\ y.program = x.program)
    <3>1. x.amount \in Nat /\ x.withheld \in Nat
      BY <1>4 DEF TokenAccounts
    <3>2. CASE y \in {[x EXCEPT !.owner = k] : k \in Strangers}
                     \cup {[x EXCEPT !.closeAuthority = k] : k \in Strangers}
      BY <1>1, <1>4, <3>2 DEF TokenAccounts
    <3>3. CASE y = [x EXCEPT !.amount = @ + 1]
      BY <1>4, <3>1, <3>3 DEF TokenAccounts
    <3>4. CASE y = [x EXCEPT !.withheld = @ + 1]
      BY <1>4, <3>1, <3>4 DEF TokenAccounts
    <3>5. CASE y = [x EXCEPT !.frozen = ~@] \/ y = [x EXCEPT !.guard = ~@]
      <4>1. CASE y = [x EXCEPT !.frozen = ~@]
        BY <1>4, <4>1 DEF TokenAccounts
      <4>2. CASE y = [x EXCEPT !.guard = ~@]
        BY <1>4, <4>2 DEF TokenAccounts
      <4> QED
        BY <3>5, <4>1, <4>2
    <3>6. CASE y \in (IF x.amount > 0 /\ ~x.frozen THEN {[x EXCEPT !.amount = @ - 1]}
                       ELSE IF x.amount = 0 THEN {Missing} ELSE {})
      BY <1>4, <3>1, <3>6 DEF TokenAccounts
    <3> QED
      BY <2>1, <3>2, <3>3, <3>4, <3>5, <3>6 DEF TokenChanges
  <2>3. x \in Movable /\ y \in Movable /\ Missing \notin TokenAccounts
    BY <1>4, <2>2 DEF Movable, TokenAccounts, Missing
  <2> QED
    BY <1>4, <2>2, <2>3, KindsDiffer DEF KindKept, Accounts
<1>5. CASE x \in Mints \cup ProgramDatas
  <2>1. y \in RoleChanges(x, Strangers \cup {Nobody})
    BY <1>5, ChangesOfKinds
  <2>2. PICK r \in DOMAIN x.authority, k \in Strangers \cup {Nobody} :
            y = [x EXCEPT !.authority[r] = k]
    BY <2>1 DEF RoleChanges
  <2>3. k \in Address \cup {Nobody}
    BY <1>1
  <2>4. /\ x \in Mints => /\ y \in Mints /\ y.program = x.program
                          /\ y.fee = x.fee /\ y.extended = x.extended
        /\ x \in ProgramDatas => y \in ProgramDatas
    BY <2>2, <2>3, RolesKeepKinds
  <2>5. y \notin TokenAccounts
    BY <1>5, <2>4 DEF Mints, ProgramDatas, TokenAccounts
  <2> QED
    BY <1>5, <2>4, <2>5, KindsDiffer DEF KindKept, Accounts
<1>6. CASE x \in Stakes \cup Votes
  <2>1. x \in Stakes => y \in Stakes
    <3> SUFFICES ASSUME x \in Stakes PROVE y \in Stakes
      OBVIOUS
    <3>1. y \in StakeChanges(x)
      BY ChangesOfKinds
    <3>2. CASE y \in RoleChanges(x, Strangers)
      <4>1. PICK r \in DOMAIN x.authority, k \in Strangers : y = [x EXCEPT !.authority[r] = k]
        BY <3>2 DEF RoleChanges
      <4>2. k \in Address
        BY <1>1
      <4> QED
        BY <4>1, <4>2, RolesKeepKinds
    <3>3. CASE y \notin RoleChanges(x, Strangers)
      <4>1. PICK k \in Strangers : y = [x EXCEPT !.lockup = [until |-> 1, custodian |-> k]]
        BY <3>1, <3>3 DEF StakeChanges
      <4> QED
        BY <1>1, <4>1 DEF Stakes
    <3> QED
      BY <3>2, <3>3
  <2>2. x \in Votes => y \in Votes
    <3> SUFFICES ASSUME x \in Votes PROVE y \in Votes
      OBVIOUS
    <3>1. y \in RoleChanges(x, Strangers)
      BY ChangesOfKinds
    <3>2. PICK r \in DOMAIN x.authority, k \in Strangers : y = [x EXCEPT !.authority[r] = k]
      BY <3>1 DEF RoleChanges
    <3>3. k \in Address
      BY <1>1
    <3> QED
      BY <3>2, <3>3, RolesKeepKinds
  <2>3. y \notin TokenAccounts
    BY <1>6, <2>1, <2>2 DEF Stakes, Votes, TokenAccounts
  <2> QED
    BY <1>6, <2>1, <2>2, <2>3, KindsDiffer DEF KindKept, Accounts
<1>7. CASE x \in Sysvars
  <2>1. y = [x EXCEPT !.time = @ + 1]
    BY <1>7, ChangesOfKinds
  <2>2. y \in Sysvars
    BY <1>7, <2>1 DEF Sysvars
  <2>3. x.program = "sysvar" /\ y.program = "sysvar" /\ Missing.program = "none"
    BY <1>7, <2>2 DEF Sysvars, Missing
  <2>4. /\ x \notin Movable \cup Mints \cup Stakes \cup Votes \cup ProgramDatas \cup Programs
        /\ y \notin TokenAccounts \cup Programs
    BY <2>3 DEF Movable, Wallets, TokenAccounts, Mints, Stakes, Votes, ProgramDatas, Programs
  <2> QED
    BY <2>2, <2>4 DEF KindKept, Accounts
<1>8. CASE x \in Uninitialized \cup Programs
  BY <1>8, ChangesOfKinds
<1> QED
  BY <1>2, <1>3, <1>4, <1>5, <1>6, <1>7, <1>8 DEF Accounts, Movable

------------------------------------------------------------------------------
(* The invariant.                                                                 *)

(* Until its message has run, the accounts that a command read are still of their kind  *)
(* and, unless others changed them, what they were.  A message is what the command      *)
(* makes of them.                                                                 *)
MigrationInv ==
    /\ command \in Commands /\ approvals \subseteq OnCurve
    /\ Scanning => report = Nothing /\ ~landed
    /\ Built => /\ ~Scanning /\ NextReads \subseteq DOMAIN seen /\ ~Refused(command, seen)
                /\ report = Output(command, seen)
    /\ ~landed =>
          /\ Consistent(world) /\ DOMAIN seen \subseteq DOMAIN world
          /\ \A a \in DOMAIN seen :
                /\ seen[a] \in Accounts /\ KindKept(seen[a], world[a])
                /\ a \notin touched => world[a] = seen[a]
          /\ touched = {} => UsedByTokensOnly(world)

\* To be of the same kind is transitive.
LEMMA KindKeptTwice ==
    ASSUME NEW x, NEW y, NEW z, KindKept(x, y), KindKept(y, z)
    PROVE  KindKept(x, z)
BY DEF KindKept

\* A token account that somebody creates is one of the mint's.
LEMMA CreatedAccounts ==
    ASSUME command \in Commands, Consistent(world), NEW a, NEW y \in Creations(a)
    PROVE  /\ y \in TokenAccounts /\ y.mint \in DOMAIN world
           /\ world[y.mint] \in Mints /\ world[y.mint].program = y.program
<1>1. PICK k \in OnCurve :
          /\ command.op = "token" /\ command.mint \in DOMAIN world
          /\ MintAccount(world[command.mint])
          /\ y = NewTokenAccount(world, [mint |-> command.mint, owner |-> Pda[k]])
  BY DEF Creations
<1>2. world[command.mint] \in Mints /\ command.mint \in Address
  BY <1>1, KindOf DEF Consistent
<1>3. Pda[k] \in Address /\ TokenRent \in Exempt
  BY MigrationAssumption DEF Exempt
<1>4. PICK m : m = world[command.mint]
  OBVIOUS
<1>5. m.program \in {"token", "token2022"}
  BY <1>2, <1>4 DEF Mints
<1>6. y = [program |-> m.program, type |-> "account", mint |-> command.mint, owner |-> Pda[k],
           amount |-> 0, frozen |-> m.rule = "frozen", guard |-> FALSE,
           closeAuthority |-> Nobody, withheld |-> 0, confidential |-> FALSE,
           lamports |-> TokenRent]
  BY <1>1, <1>4 DEF NewTokenAccount
<1>7. y \in TokenAccounts /\ y.mint = command.mint /\ y.program = m.program
  BY <1>2, <1>3, <1>5, <1>6 DEF TokenAccounts
<1> QED
  BY <1>1, <1>2, <1>4, <1>7

\* What others do keeps the accounts consistent.
LEMMA ChangeConsistent ==
    ASSUME command \in Commands, Consistent(world), NEW a \in DOMAIN world, Change(a)
    PROVE  /\ Consistent(world') /\ DOMAIN world' = DOMAIN world
           /\ \A b \in DOMAIN world : KindKept(world[b], world'[b])
           /\ \A b \in DOMAIN world : b # a => world'[b] = world[b]
<1>1. PICK y \in Changes(world[a]) \cup (IF world[a] = Missing THEN Creations(a) ELSE {}) :
          world' = [world EXCEPT ![a] = y]
  BY DEF Change
<1>2. PICK x : x = world[a] /\ x \in Accounts
  BY DEF Consistent
<1>3. /\ y \in Accounts /\ KindKept(x, y)
      /\ y \in TokenAccounts =>
            \/ x \in TokenAccounts /\ y.mint = x.mint /\ y.program = x.program
            \/ /\ y.mint \in DOMAIN world /\ world[y.mint] \in Mints
               /\ world[y.mint].program = y.program
      /\ y \notin Programs
  <2>1. CASE y \in Changes(x)
    BY <1>2, <2>1, ChangesKeepKinds
  <2>2. CASE y \notin Changes(x)
    <3>1. x = Missing /\ y \in Creations(a)
      BY <1>1, <1>2, <2>2
    <3>2. /\ y \in TokenAccounts /\ y.mint \in DOMAIN world
          /\ world[y.mint] \in Mints /\ world[y.mint].program = y.program
      BY <3>1, CreatedAccounts
    <3>3. x \in Movable /\ y \in Movable
      BY <3>1, <3>2 DEF Movable
    <3> QED
      BY <3>2, <3>3, KindsDiffer DEF KindKept, Accounts
  <2> QED
    BY <2>1, <2>2
<1>4. PICK w : w = world'
  OBVIOUS
<1>5. DOMAIN w = DOMAIN world /\ w[a] = y /\ \A b \in DOMAIN world : b # a => w[b] = world[b]
  BY <1>1, <1>4
<1>6. \A b \in DOMAIN world : KindKept(world[b], w[b])
  BY <1>2, <1>3, <1>5 DEF KindKept
<1>7. Consistent(w)
  <2>1. IsFiniteSet(DOMAIN w) /\ DOMAIN w \subseteq Address
    BY <1>5 DEF Consistent
  <2>2. \A b \in DOMAIN w : w[b] \in Accounts
    BY <1>3, <1>5 DEF Consistent
  <2>3. ASSUME NEW b \in DOMAIN w, w[b] \in Programs
        PROVE  w[b].data \in DOMAIN w /\ w[w[b].data] \in ProgramDatas \cup Movable
    <3>1. w[b] = world[b]
      BY <1>3, <1>5, <2>3
    <3>2. PICK d : d = w[b].data
      OBVIOUS
    <3>3. d \in DOMAIN world /\ world[d] \in ProgramDatas \cup Movable
      BY <1>5, <2>3, <3>1, <3>2 DEF Consistent
    <3>4. KindKept(world[d], w[d])
      BY <1>6, <3>3
    <3> QED
      BY <1>5, <3>2, <3>3, <3>4 DEF KindKept
  <2>4. ASSUME NEW b \in DOMAIN w, w[b] \in TokenAccounts
        PROVE  w[b].mint \in DOMAIN w /\ w[w[b].mint] \in Mints
               /\ w[w[b].mint].program = w[b].program
    <3>1. /\ w[b].mint \in DOMAIN world /\ world[w[b].mint] \in Mints
          /\ world[w[b].mint].program = w[b].program
      <4>1. CASE b = a
        BY <1>2, <1>3, <1>5, <2>4, <4>1 DEF Consistent
      <4>2. CASE b # a
        BY <1>5, <2>4, <4>2 DEF Consistent
      <4> QED
        BY <4>1, <4>2
    <3> QED
      BY <1>5, <1>6, <3>1 DEF KindKept
  <2>5. Clock \in DOMAIN w => w[Clock] \in Sysvars
    BY <1>5, <1>6 DEF Consistent, KindKept
  <2> QED
    BY <2>1, <2>2, <2>3, <2>4, <2>5 DEF Consistent
<1> QED
  BY <1>4, <1>5, <1>6, <1>7

\* A command starts with accounts that fit together.
LEMMA InitMigrates == Init => MigrationInv
<1> SUFFICES ASSUME Init PROVE MigrationInv
  OBVIOUS
<1>1. PICK case \in Cases : world = case.world /\ command \in case.commands
  BY DEF Init
<1>2. command \in Commands /\ Consistent(world) /\ UsedByTokensOnly(world)
  BY <1>1, CasesAssumption
<1>3. report = Nothing /\ approvals = {} /\ ~landed /\ DOMAIN seen = {}
  BY DEF Init
<1>4. ~Built
  BY <1>3 DEF Built
<1> QED
  BY <1>2, <1>3, <1>4 DEF MigrationInv

\* Every step keeps the invariant.
LEMMA StepMigrates == MigrationInv /\ [Next]_vars => MigrationInv'
<1> SUFFICES ASSUME MigrationInv, [Next]_vars PROVE MigrationInv'
  OBVIOUS
<1>1. CASE Read
  <2>1. PICK a \in DOMAIN world \ DOMAIN seen :
            seen' = [b \in DOMAIN seen \cup {a} |-> IF b = a THEN world[a] ELSE seen[b]]
    BY <1>1 DEF Read
  <2>2. /\ UNCHANGED <<world, command, report, approvals, landed, touched>>
        /\ report = Nothing
    BY <1>1 DEF Read, Running
  <2>3. ~Built' /\ (Scanning' <=> Scanning)
    BY <2>2 DEF Built, Scanning
  <2>4. ASSUME ~landed
        PROVE  /\ DOMAIN seen' \subseteq DOMAIN world
               /\ \A b \in DOMAIN seen' :
                    /\ seen'[b] \in Accounts /\ KindKept(seen'[b], world[b])
                    /\ b \notin touched => world[b] = seen'[b]
    <3>1. PICK s : s = seen'
      OBVIOUS
    <3>2. /\ DOMAIN s = DOMAIN seen \cup {a} /\ s[a] = world[a]
          /\ \A b \in DOMAIN seen : s[b] = seen[b]
      BY <2>1, <3>1
    <3>3. world[a] \in Accounts /\ KindKept(world[a], world[a])
      BY <2>4 DEF MigrationInv, Consistent, KindKept
    <3> QED
      BY <2>4, <3>1, <3>2, <3>3 DEF MigrationInv
  <2> QED
    BY <2>2, <2>3, <2>4 DEF MigrationInv
<1>2. CASE Build
  <2>1. /\ UNCHANGED <<world, command, seen, approvals, landed, touched>>
        /\ ~Scanning /\ NextReads \subseteq DOMAIN seen
        /\ report' = IF Refused(command, seen) THEN Refusal ELSE Output(command, seen)
    BY <1>2 DEF Build, Running
  <2>2. (Scanning' <=> Scanning) /\ NextReads' = NextReads
    BY <2>1 DEF Scanning, NextReads
  <2>3. Built' => ~Refused(command, seen) /\ report' = Output(command, seen)
    BY <2>1 DEF Built
  <2> QED
    BY <2>1, <2>2, <2>3 DEF MigrationInv
<1>3. CASE Execute
  <2>1. UNCHANGED <<command, seen, found, report, approvals, touched>> /\ landed' = TRUE /\ Built
    BY <1>3 DEF Execute
  <2>2. (Scanning' <=> Scanning) /\ NextReads' = NextReads /\ (Built' <=> Built)
    BY <2>1 DEF Scanning, NextReads, Built
  <2> QED
    BY <2>1, <2>2 DEF MigrationInv
<1>4. ASSUME NEW category \in Categories, Query(category) \/ QueryFails(category)
      PROVE  MigrationInv'
  <2>1. UNCHANGED <<world, command, seen, report, approvals, landed, touched>>
    BY <1>4 DEF Query, QueryFails
  <2>2. (Scanning' <=> Scanning) /\ NextReads' = NextReads /\ (Built' <=> Built)
    BY <2>1 DEF Scanning, NextReads, Built
  <2> QED
    BY <2>1, <2>2 DEF MigrationInv
<1>5. ASSUME NEW k \in OnCurve, Approve(k) PROVE MigrationInv'
  <2>1. UNCHANGED <<world, command, seen, report, landed, touched>>
        /\ approvals' = approvals \cup {k}
    BY <1>5 DEF Approve
  <2>2. (Scanning' <=> Scanning) /\ NextReads' = NextReads /\ (Built' <=> Built)
    BY <2>1 DEF Scanning, NextReads, Built
  <2> QED
    BY <2>1, <2>2 DEF MigrationInv
<1>6. ASSUME NEW a \in DOMAIN world, Change(a) PROVE MigrationInv'
  <2>1. /\ UNCHANGED <<command, seen, found, report, approvals, landed>>
        /\ touched' = touched \cup {a}
    BY <1>6 DEF Change
  <2>2. (Scanning' <=> Scanning) /\ NextReads' = NextReads /\ (Built' <=> Built)
    BY <2>1 DEF Scanning, NextReads, Built
  <2>3. ASSUME ~landed
        PROVE  /\ Consistent(world') /\ DOMAIN seen \subseteq DOMAIN world'
               /\ \A b \in DOMAIN seen :
                    /\ KindKept(seen[b], world'[b])
                    /\ b \notin touched' => world'[b] = seen[b]
    <3>1. /\ Consistent(world') /\ DOMAIN world' = DOMAIN world
          /\ \A b \in DOMAIN world : KindKept(world[b], world'[b])
          /\ \A b \in DOMAIN world : b # a => world'[b] = world[b]
      BY <1>6, <2>3, ChangeConsistent DEF MigrationInv
    <3>2. DOMAIN seen \subseteq DOMAIN world
      BY <2>3 DEF MigrationInv
    <3>3. ASSUME NEW b \in DOMAIN seen
          PROVE  /\ KindKept(seen[b], world'[b])
                 /\ b \notin touched' => world'[b] = seen[b]
      <4>1. KindKept(seen[b], world[b]) /\ (b \notin touched => world[b] = seen[b])
        BY <2>3, <3>3 DEF MigrationInv
      <4>2. KindKept(world[b], world'[b]) /\ (b # a => world'[b] = world[b])
        BY <3>1, <3>2, <3>3
      <4> QED
        BY <2>1, <4>1, <4>2, KindKeptTwice
    <3> QED
      BY <3>1, <3>2, <3>3
  <2>4. touched' # {}
    BY <2>1
  <2> QED
    BY <2>1, <2>2, <2>3, <2>4 DEF MigrationInv
<1>7. CASE UNCHANGED vars
  <2>1. UNCHANGED <<world, command, seen, report, approvals, landed, touched>>
    BY <1>7 DEF vars
  <2>2. (Scanning' <=> Scanning) /\ NextReads' = NextReads /\ (Built' <=> Built)
    BY <2>1 DEF Scanning, NextReads, Built
  <2> QED
    BY <2>1, <2>2 DEF MigrationInv
<1> QED
  BY <1>1, <1>2, <1>3, <1>4, <1>5, <1>6, <1>7 DEF Next

\* The invariant holds in every state.
LEMMA Migrates == Spec => []MigrationInv
BY InitMigrates, StepMigrates, PTL DEF Spec

------------------------------------------------------------------------------
(* What instructions do.                                                          *)

\* A message of at most five instructions goes through the worlds after each of them.
LEMMA MessageRuns ==
    ASSUME NEW w, NEW message, Len(message.instructions) \in 0..5
    PROVE  \E after :
              /\ after[0] = w
              /\ \A n \in 1..Len(message.instructions) :
                    after[n] = Do(after[n - 1], message.instructions[n])
              /\ Executed(w, message) = after[Len(message.instructions)]
              /\ Succeeds(w, message) <=>
                    /\ \A n \in 1..Len(message.instructions) :
                          /\ message.instructions[n].signers \subseteq message.signers
                          /\ May(after[n - 1], message.instructions[n])
                    /\ \A a \in DOMAIN w :
                          Executed(w, message)[a] = w[a] \/ RentExempt(Executed(w, message)[a])
<1>1. PICK after : after = After(w, message.instructions)
  OBVIOUS
<1>2. /\ after[0] = w
      /\ \A n \in 1..Len(message.instructions) :
            after[n] = Do(after[n - 1], message.instructions[n])
  BY <1>1, AfterFacts
<1>3. Executed(w, message) = after[Len(message.instructions)]
  BY <1>1 DEF Executed
<1> QED
  BY <1>1, <1>2, <1>3 DEF Succeeds

\* A memo changes nothing and can always be written.
LEMMA MemoEffect ==
    ASSUME NEW w, NEW ix, ix.op = "memo"
    PROVE  Do(w, ix) = w /\ May(w, ix)
BY DEF Do, May

\* Giving a role away.
LEMMA RoleEffect ==
    ASSUME NEW w, NEW ix, ix.op = "set role"
    PROVE  /\ Do(w, ix) = [w EXCEPT ![ix.account].authority[ix.role] = ix.new]
           /\ May(w, ix) <=> MaySetRole(w, ix)
BY DEF Do, May

\* A transfer of lamports.
LEMMA TransferEffect ==
    ASSUME NEW w, NEW ix, ix.op = "transfer"
    PROVE  /\ Do(w, ix) = Credit(Debit(w, ix.from, ix.lamports), ix.to, ix.lamports)
           /\ May(w, ix) <=> SystemAccount(w[ix.from]) /\ w[ix.from].lamports >= ix.lamports
BY DEF Do, May

\* Creating an associated account, unless it exists.
LEMMA CreateEffect ==
    ASSUME NEW w, NEW ix, ix.op = "create"
    PROVE  /\ Do(w, ix) = IF w[ix.account] = Missing
                            THEN [Debit(w, ix.payer, TokenRent)
                                     EXCEPT ![ix.account] = NewTokenAccount(w, ix)]
                            ELSE w
           /\ May(w, ix) <=>
                 IF w[ix.account] = Missing
                 THEN SystemAccount(w[ix.payer]) /\ w[ix.payer].lamports >= TokenRent
                 ELSE IsTokenAccount(w[ix.account], ix.mint) /\ w[ix.account].owner = ix.owner
BY DEF Do, May

\* A transfer of tokens.
LEMMA TokensEffect ==
    ASSUME NEW w, NEW ix, ix.op = "transfer tokens"
    PROVE  /\ Do(w, ix) =
                [w EXCEPT ![ix.from].amount = @ - ix.amount,
                          ![ix.to].amount = @ + ix.amount - Fee(w[ix.mint], ix.amount),
                          ![ix.to].withheld = @ + Fee(w[ix.mint], ix.amount)]
           /\ May(w, ix) <=> MayTransferTokens(w, ix)
BY DEF Do, May

\* Harvesting withheld fees.
LEMMA HarvestEffect ==
    ASSUME NEW w, NEW ix, ix.op = "harvest"
    PROVE  /\ Do(w, ix) = [w EXCEPT ![ix.account].withheld = 0]
           /\ May(w, ix) <=> TokenProgramAccount(w[ix.account])
BY DEF Do, May

\* Closing an account.
LEMMA CloseEffect ==
    ASSUME NEW w, NEW ix, ix.op = "close"
    PROVE  /\ Do(w, ix) = [Credit(w, ix.to, w[ix.account].lamports) EXCEPT ![ix.account] = Missing]
           /\ May(w, ix) <=> MayClose(w, ix)
BY DEF Do, May

------------------------------------------------------------------------------
(* Messages that give roles away.                                                 *)

\* One more instruction at the end of a sequence.
LEMMA OneMore ==
    ASSUME NEW s, NEW n \in Nat, Len(s) = n, s = [i \in 1..n |-> s[i]], NEW x
    PROVE  /\ Len(s \o <<x>>) = n + 1 /\ DOMAIN (s \o <<x>>) = 1..(n + 1)
           /\ \A i \in 1..n : (s \o <<x>>)[i] = s[i]
           /\ (s \o <<x>>)[n + 1] = x
<1> DEFINE S == {s[i] : i \in 1..n} \cup {x}
<1>1. s \in Seq(S) /\ <<x>> \in Seq(S)
  <2>1. s \in [1..n -> S]
    OBVIOUS
  <2> QED
    BY <2>1
<1> HIDE DEF S
<1>2. s \o <<x>> \in Seq(S)
  BY <1>1
<1> QED
  BY <1>1, <1>2

\* A message is signed by all that its instructions need and by the new authority.
LEMMA SignersOfMessage ==
    ASSUME NEW newOwner, NEW instructions, DOMAIN instructions = 1..Len(instructions)
    PROVE  /\ Message(newOwner, instructions).instructions = instructions
           /\ newOwner \in Message(newOwner, instructions).signers
           /\ \A n \in 1..Len(instructions) :
                 instructions[n].signers \subseteq Message(newOwner, instructions).signers
           /\ \A s \in Message(newOwner, instructions).signers :
                 s = newOwner \/ \E n \in 1..Len(instructions) : s \in instructions[n].signers
<1>1. ToSet(instructions) = {instructions[n] : n \in 1..Len(instructions)}
  BY DEF ToSet
<1> QED
  BY <1>1 DEF Message

RoleSeqs ==
    {<<"mint">>, <<"freeze">>, <<"mint", "freeze">>, <<"staker">>, <<"withdrawer">>,
     <<"staker", "withdrawer">>, <<"upgrade">>}

(* The roles are given one after the other, and the new authority may sign a memo.      *)
GivesRoles(instructions, account, roles, holders, new, others) ==
    /\ Len(instructions) \in {Len(roles), Len(roles) + 1}
    /\ DOMAIN instructions = 1..Len(instructions)
    /\ \A n \in 1..Len(roles) :
          instructions[n] = SetRole(account, roles[n], holders[n], new, others[n])
    /\ \A n \in 1..Len(instructions) : n \notin 1..Len(roles) => instructions[n] = Memo(new)

\* The roles there are.
LEMMA RoleSeqFacts ==
    ASSUME NEW roles \in RoleSeqs
    PROVE  /\ Len(roles) \in 1..2 /\ DOMAIN roles = 1..Len(roles)
           /\ ToSet(roles) = {roles[n] : n \in 1..Len(roles)}
           /\ \A n \in 1..Len(roles) : roles[n] \in {"mint", "freeze", "staker", "withdrawer", "upgrade"}
           /\ \A i, j \in 1..Len(roles) : roles[i] = roles[j] => i = j
BY DEF RoleSeqs, ToSet

(* An account whose roles have been given to somebody.                                *)
WithRoles(account, roles, new) ==
    [account EXCEPT !.authority = [r \in DOMAIN @ |-> IF r \in roles THEN new ELSE @[r]]]

(* The roles of one account are given away and nothing else is different.               *)
OnlyRoles(v, w, account, roles, new) ==
    /\ DOMAIN v = DOMAIN w
    /\ \A a \in DOMAIN w \ {account} : v[a] = w[a]
    /\ v[account] = WithRoles(w[account], roles, new)

\* After the instructions the account's roles are the new authority's, and nothing else is
\* different.
LEMMA RolesGiven ==
    ASSUME NEW w, NEW message, NEW account \in DOMAIN w, NEW roles \in RoleSeqs,
           NEW x, w[account] = x,
           NEW holders, NEW new, NEW others,
           GivesRoles(message.instructions, account, roles, holders, new, others),
           x \in Mints \cup Stakes \cup Votes \cup ProgramDatas,
           ToSet(roles) \subseteq DOMAIN x.authority
    PROVE  OnlyRoles(Executed(w, message), w, account, ToSet(roles), new)
<1> DEFINE ixs == message.instructions
           First(n) == {roles[i] : i \in 1..n}
           Roles(n) == [r \in DOMAIN x.authority |->
                            IF r \in First(n) THEN new ELSE x.authority[r]]
<1>1. /\ Len(roles) \in 1..2 /\ DOMAIN roles = 1..Len(roles)
      /\ ToSet(roles) = {roles[n] : n \in 1..Len(roles)}
  BY RoleSeqFacts
<1>2. Len(ixs) \in 1..3
  <2>1. Len(ixs) = Len(roles) \/ Len(ixs) = Len(roles) + 1
    BY DEF GivesRoles
  <2>2. PICK n, k : n = Len(ixs) /\ k = Len(roles)
    OBVIOUS
  <2>3. k \in 1..2 /\ (n = k \/ n = k + 1)
    BY <1>1, <2>1, <2>2
  <2>4. n \in 1..3
    BY <2>3
  <2> QED
    BY <2>2, <2>4
<1>3. PICK after :
          /\ after[0] = w
          /\ \A n \in 1..Len(ixs) : after[n] = Do(after[n - 1], ixs[n])
          /\ Executed(w, message) = after[Len(ixs)]
  <2>1. Len(message.instructions) \in 0..5
    BY <1>2
  <2> QED
    BY <2>1, MessageRuns
<1>4. x = [f \in DOMAIN x |-> x[f]] /\ "authority" \in DOMAIN x
  BY DEF Mints, Stakes, Votes, ProgramDatas
<1>5. x.authority = [r \in DOMAIN x.authority |-> x.authority[r]]
  BY DEF Mints, Stakes, Votes, ProgramDatas
<1> DEFINE Done(v, n) == /\ DOMAIN v = DOMAIN w
                         /\ \A a \in DOMAIN w \ {account} : v[a] = w[a]
                         /\ v[account] = [x EXCEPT !.authority = Roles(n)]
<1>6. Done(w, 0)
  <2>1. First(0) = {}
    OBVIOUS
  <2>2. Roles(0) = x.authority
    BY <1>5, <2>1
  <2> QED
    BY <1>4, <2>2
<1>7. ASSUME NEW n \in 0..(Len(roles) - 1), NEW v, Done(v, n) PROVE Done(Do(v, ixs[n + 1]), n + 1)
  <2>1. PICK role : role = roles[n + 1] /\ role \in DOMAIN x.authority
    BY <1>1, <1>7
  <2>2. PICK ix : ix = ixs[n + 1]
    OBVIOUS
  <2>3. ix = SetRole(account, role, holders[n + 1], new, others[n + 1])
    <3>1. n + 1 \in 1..Len(roles)
      BY <1>1, <1>7
    <3> QED
      BY <2>1, <2>2, <3>1 DEF GivesRoles
  <2>4. Do(v, ix) = [v EXCEPT ![account].authority[role] = new]
    <3>1. ix.op = "set role" /\ ix.account = account /\ ix.role = role /\ ix.new = new
      BY <2>3 DEF SetRole
    <3>2. Do(v, ix) = [v EXCEPT ![ix.account].authority[ix.role] = ix.new]
      BY <3>1, RoleEffect
    <3> QED
      BY <3>1, <3>2
  <2>5. PICK f, g, y : f = Roles(n) /\ g = Roles(n + 1) /\ y = v[account]
    OBVIOUS
  <2>6. g = [f EXCEPT ![role] = new]
    <3>1. First(n + 1) = First(n) \cup {role}
      BY <1>1, <1>7, <2>1
    <3>2. DOMAIN f = DOMAIN x.authority /\ DOMAIN g = DOMAIN x.authority
      BY <2>5
    <3>3. \A r \in DOMAIN x.authority : g[r] = IF r = role THEN new ELSE f[r]
      BY <2>5, <3>1
    <3>4. g = [r \in DOMAIN x.authority |-> g[r]]
      BY <2>5
    <3> QED
      BY <3>2, <3>3, <3>4
  <2>7. y = [x EXCEPT !.authority = f]
    BY <1>7, <2>5
  <2>8. y.authority = f /\ [y EXCEPT !.authority = g] = [x EXCEPT !.authority = g]
    BY <1>4, <2>7
  <2>9. [y EXCEPT !.authority[role] = new] = [x EXCEPT !.authority = g]
    BY <2>6, <2>8
  <2>10. /\ DOMAIN Do(v, ix) = DOMAIN v
         /\ \A a \in DOMAIN v \ {account} : Do(v, ix)[a] = v[a]
         /\ Do(v, ix)[account] = [y EXCEPT !.authority[role] = new]
    BY <1>7, <2>4, <2>5
  <2> QED
    BY <1>7, <2>2, <2>5, <2>9, <2>10
<1> HIDE DEF Done
<1>8. Done(after[Len(roles)], Len(roles))
  <2>1. Len(roles) <= Len(ixs) /\ Len(ixs) \in Nat
    BY <1>1 DEF GivesRoles
  <2>2. Done(after[1], 1)
    <3>1. after[1] = Do(w, ixs[1]) /\ 0 \in 0..(Len(roles) - 1)
      BY <1>1, <1>2, <1>3
    <3>2. Done(Do(w, ixs[0 + 1]), 0 + 1)
      BY <1>6, <1>7, <3>1
    <3> QED
      BY <3>1, <3>2
  <2>3. CASE Len(roles) = 2
    <3>1. after[2] = Do(after[1], ixs[2]) /\ 1 \in 0..(Len(roles) - 1)
      BY <1>3, <2>1, <2>3
    <3>2. Done(Do(after[1], ixs[1 + 1]), 1 + 1)
      BY <1>7, <2>2, <3>1
    <3> QED
      BY <2>3, <3>1, <3>2
  <2> QED
    BY <1>1, <2>2, <2>3
<1>9. after[Len(ixs)] = after[Len(roles)]
  <2>1. CASE Len(ixs) = Len(roles) + 1
    <3>1. ixs[Len(ixs)] = Memo(new) /\ Len(ixs) \in 1..Len(ixs) /\ Len(ixs) - 1 = Len(roles)
      BY <1>1, <2>1 DEF GivesRoles
    <3>2. ixs[Len(ixs)].op = "memo"
      BY <3>1 DEF Memo
    <3>3. Do(after[Len(roles)], ixs[Len(ixs)]) = after[Len(roles)]
      BY <3>2, MemoEffect
    <3> QED
      BY <1>3, <3>1, <3>3
  <2> QED
    BY <2>1 DEF GivesRoles
<1>10. First(Len(roles)) = ToSet(roles)
  BY <1>1
<1>11. Roles(Len(roles)) =
          [r \in DOMAIN x.authority |-> IF r \in ToSet(roles) THEN new ELSE x.authority[r]]
  BY <1>10
<1> QED
  BY <1>3, <1>8, <1>9, <1>11 DEF Done, WithRoles, OnlyRoles

------------------------------------------------------------------------------
(* What the commands that give roles away build.                                   *)

(* The account whose roles a command moves, in the accounts that it read.             *)
Moved(c, s) == IF c.op = "program" THEN s[c.account].data ELSE c.account

(* The roles that it moves.                                                        *)
MovedRoles(c, s) ==
    CASE c.op = "mint" -> MintRoles(s[c.account], c) [] c.op = "stake" -> StakeRoles(c)
      [] c.op = "vote" -> <<"withdrawer">> [] c.op = "program" -> <<"upgrade">>

(* Who signs for a role besides its holder.                                         *)
OtherSigners(c, s, new, role) ==
    IF c.op = "mint" THEN {}
    ELSE {new} \cup IF c.op = "stake" /\ role = "withdrawer" THEN Custodian(c, s) ELSE {}

(* A command moves roles that the account has, and refuses for no other reason than their *)
(* holders.                                                                        *)
MovesRoles(c, s, account, roles) ==
    /\ roles \in RoleSeqs /\ ToSet(roles) \subseteq DOMAIN s[account].authority
    /\ Refused(c, s) <=> RolesRefused(c.key, Holders(s[account], roles))
    /\ LET holders == Holders(s[account], roles)
           key     == NewAuthority(c.key, holders[1])
       IN  \E ixs :
              /\ GivesRoles(ixs, account, roles, holders, Pda[key],
                            [n \in 1..Len(roles) |-> OtherSigners(c, s, Pda[key], roles[n])])
              /\ Output(c, s) = Report(key, ixs, ToSet(roles))

\* The operation of a command decides which of the commands it is.
LEMMA Operations ==
    ASSUME NEW c, NEW s
    PROVE  /\ c.op = "mint" => /\ Refused(c, s) <=> MintRefused(c, s)
                               /\ Output(c, s) = MintReport(c, s)
                               /\ MovedRoles(c, s) = MintRoles(s[c.account], c)
           /\ c.op = "stake" => /\ Refused(c, s) <=> StakeRefused(c, s)
                                /\ Output(c, s) = StakeReport(c, s)
                                /\ MovedRoles(c, s) = StakeRoles(c)
           /\ c.op = "vote" => /\ Refused(c, s) <=> VoteRefused(c, s)
                               /\ Output(c, s) = VoteReport(c, s)
                               /\ MovedRoles(c, s) = <<"withdrawer">>
           /\ c.op = "program" => /\ Refused(c, s) <=> ProgramRefused(c, s)
                                  /\ Output(c, s) = ProgramReport(c, s)
                                  /\ MovedRoles(c, s) = <<"upgrade">>
           /\ c.op = "sol" => /\ Refused(c, s) <=> SolRefused(c, s)
                              /\ Output(c, s) = SolReport(c, s)
           /\ c.op = "token" => /\ Refused(c, s) <=> TokenRefused(c, s)
                                /\ Output(c, s) = TokenReport(c, s)
<1>1. CASE c.op = "mint"
  BY <1>1 DEF Refused, Output, MovedRoles
<1>2. CASE c.op = "stake"
  BY <1>2 DEF Refused, Output, MovedRoles
<1>3. CASE c.op = "vote"
  BY <1>3 DEF Refused, Output, MovedRoles
<1>4. CASE c.op = "program"
  BY <1>4 DEF Refused, Output, MovedRoles
<1>5. CASE c.op = "sol"
  BY <1>5 DEF Refused, Output
<1>6. CASE c.op = "token"
  BY <1>6 DEF Refused, Output
<1> QED
  BY <1>1, <1>2, <1>3, <1>4, <1>5, <1>6

\* What the arguments of a command can be.
LEMMA Arguments ==
    ASSUME NEW c \in Commands
    PROVE  /\ c.op \in {"scan", "mint", "stake", "vote", "program", "sol", "token"}
           /\ c.key \in Address \cup {Default}
           /\ c.op \in {"mint", "stake", "vote", "program"} => c.account \in Address
           /\ c.op = "mint" => c.role \in {"mint", "freeze", Default}
           /\ c.op = "stake" => c.role \in {"staker", "withdrawer", Default}
           /\ c.op \in {"scan", "sol"} => c.owner \in Address
           /\ c.op = "sol" => c.amount \in Nat \cup {Default}
           /\ c.op = "token" =>
                /\ c.mint \in Address /\ c.owner \in Address \cup {Default}
                /\ c.source \in Address \cup {Default}
                /\ c.destination \in Address \cup {Default}
                /\ c.amount \in Nat \cup {Default} /\ c.funder \in Address \cup {Default}
                /\ c.noClose \in BOOLEAN /\ c.rentRecipient \in Address \cup {Default}
BY DEF Commands, ArgumentOf

\* Without a role given a mint's command moves those that are set.
LEMMA MintRolesFacts ==
    ASSUME NEW c \in Commands, c.op = "mint", NEW x
    PROVE  /\ c.role # Default =>
                MintRoles(x, c) = <<c.role>> /\ c.role \in {"mint", "freeze"}
           /\ c.role = Default =>
                MintRoles(x, c) =
                    IF x.authority["mint"] # Nobody
                    THEN IF x.authority["freeze"] # Nobody THEN <<"mint", "freeze">> ELSE <<"mint">>
                    ELSE IF x.authority["freeze"] # Nobody THEN <<"freeze">> ELSE <<>>
<1>1. c.role \in {"mint", "freeze", Default}
  BY Arguments
<1>2. <<"mint">> \o <<"freeze">> = <<"mint", "freeze">>
  <2>1. PICK s, t, u : s = <<"mint">> /\ t = s \o <<"freeze">> /\ u = <<"mint", "freeze">>
    OBVIOUS
  <2>2. Len(s) = 1 /\ s = [i \in 1..1 |-> s[i]] /\ s[1] = "mint"
    BY <2>1
  <2>3. Len(t) = 2 /\ DOMAIN t = 1..2 /\ t[1] = "mint" /\ t[2] = "freeze"
    BY <2>1, <2>2, OneMore
  <2>4. s \in Seq({"mint", "freeze"}) /\ <<"freeze">> \in Seq({"mint", "freeze"})
    BY <2>1
  <2>5. s \o <<"freeze">> \in Seq({"mint", "freeze"})
    BY <2>4
  <2>6. t = [i \in 1..2 |-> t[i]]
    BY <2>1, <2>3, <2>5
  <2>7. u \in Seq({"mint", "freeze"}) /\ Len(u) = 2 /\ u[1] = "mint" /\ u[2] = "freeze"
    BY <2>1
  <2>8. u = [i \in 1..2 |-> u[i]]
    BY <2>7
  <2>9. \A i \in 1..2 : t[i] = u[i]
    BY <2>3, <2>7
  <2>10. t = u
    BY <2>6, <2>8, <2>9
  <2> QED
    BY <2>1, <2>10
<1>3. <<"mint">> \o <<>> = <<"mint">> /\ <<>> \o <<"freeze">> = <<"freeze">>
  OBVIOUS
<1>4. <<>> \o <<>> = <<>>
  OBVIOUS
<1> QED
  BY <1>1, <1>2, <1>3, <1>4 DEF MintRoles

\* A sequence given by a function.
LEMMA SeqOfFunction ==
    ASSUME NEW n \in Nat, NEW f, DOMAIN f = 1..n, f = [i \in 1..n |-> f[i]]
    PROVE  Len(f) = n
<1>1. f \in [1..n -> {f[i] : i \in 1..n}]
  OBVIOUS
<1>2. f \in Seq({f[i] : i \in 1..n})
  BY <1>1
<1> QED
  BY <1>1, <1>2

\* A command that gives a mint's roles away.
LEMMA MintMoves ==
    ASSUME NEW c \in Commands, c.op = "mint", NEW s, s[c.account] \in Mints,
           MintRoles(s[c.account], c) # <<>>
    PROVE  MovesRoles(c, s, Moved(c, s), MovedRoles(c, s))
<1>1. PICK x, roles : x = s[c.account] /\ x \in Mints /\ roles = MintRoles(x, c)
  OBVIOUS
<1>2. roles \in RoleSeqs /\ ToSet(roles) \subseteq {"mint", "freeze"}
  <2>1. roles \in {<<"mint">>, <<"freeze">>, <<"mint", "freeze">>}
    <3>1. CASE c.role = Default
      BY <1>1, <3>1, MintRolesFacts
    <3>2. CASE c.role # Default
      <4>1. roles = <<c.role>> /\ c.role \in {"mint", "freeze"}
        BY <1>1, <3>2, MintRolesFacts
      <4> QED
        BY <4>1
    <3> QED
      BY <3>1, <3>2
  <2> QED
    BY <2>1 DEF RoleSeqs, ToSet
<1>3. Moved(c, s) = c.account /\ MovedRoles(c, s) = roles
  BY <1>1, Operations DEF Moved
<1>4. DOMAIN x.authority = {"mint", "freeze"} /\ MintAccount(x)
  BY <1>1, KindFacts DEF Mints
<1>5. Refused(c, s) <=> RolesRefused(c.key, Holders(x, roles))
  BY <1>1, <1>4, Operations DEF MintRefused
<1>6. PICK holders, key, n, first, ixs :
          /\ holders = Holders(x, roles) /\ key = NewAuthority(c.key, holders[1])
          /\ n = Len(roles)
          /\ first = [i \in 1..Len(roles) |-> SetRole(c.account, roles[i], holders[i], Pda[key], {})]
          /\ ixs = first \o <<Memo(Pda[key])>>
  OBVIOUS
<1>7. n \in 1..2 /\ first = [i \in 1..n |-> first[i]] /\ DOMAIN first = 1..n
  BY <1>2, <1>6, RoleSeqFacts
<1>8. Len(first) = n
  BY <1>7, SeqOfFunction
<1>9. /\ Len(ixs) = n + 1 /\ DOMAIN ixs = 1..(n + 1)
      /\ \A i \in 1..n : ixs[i] = first[i]
      /\ ixs[n + 1] = Memo(Pda[key])
  BY <1>6, <1>7, <1>8, OneMore
<1>10. \A i \in 1..n : ixs[i] = SetRole(c.account, roles[i], holders[i], Pda[key], {})
  BY <1>6, <1>9
<1>11. GivesRoles(ixs, c.account, roles, holders, Pda[key],
                  [i \in 1..Len(roles) |-> OtherSigners(c, s, Pda[key], roles[i])])
  <2>1. \A i \in 1..n : OtherSigners(c, s, Pda[key], roles[i]) = {}
    BY DEF OtherSigners
  <2>2. PICK others : others = [i \in 1..n |-> OtherSigners(c, s, Pda[key], roles[i])]
    OBVIOUS
  <2>3. \A i \in 1..n : others[i] = {}
    BY <2>1, <2>2
  <2>4. \A i \in 1..(n + 1) : i \notin 1..n => i = n + 1
    BY <1>7
  <2>5. GivesRoles(ixs, c.account, roles, holders, Pda[key], others)
    BY <1>6, <1>9, <1>10, <2>3, <2>4 DEF GivesRoles
  <2> QED
    BY <1>6, <2>2, <2>5
<1>12. Output(c, s) = Report(key, ixs, ToSet(roles))
  <2>1. Output(c, s) = MintReport(c, s)
    BY Operations
  <2> QED
    BY <1>1, <1>6, <2>1 DEF MintReport
<1> QED
  BY <1>1, <1>2, <1>3, <1>4, <1>5, <1>6, <1>11, <1>12 DEF MovesRoles

\* A command that gives a stake account's roles away.
LEMMA StakeMoves ==
    ASSUME NEW c \in Commands, c.op = "stake", NEW s, s[c.account] \in Stakes
    PROVE  MovesRoles(c, s, Moved(c, s), MovedRoles(c, s))
<1>1. PICK x, roles : x = s[c.account] /\ x \in Stakes /\ roles = StakeRoles(c)
  OBVIOUS
<1>2. roles \in RoleSeqs /\ ToSet(roles) \subseteq {"staker", "withdrawer"}
  <2>1. roles \in {<<"staker">>, <<"withdrawer">>, <<"staker", "withdrawer">>}
    <3>1. c.role \in {"staker", "withdrawer", Default}
      BY Arguments
    <3> QED
      BY <1>1, <3>1 DEF StakeRoles
  <2> QED
    BY <2>1 DEF RoleSeqs, ToSet
<1>3. Moved(c, s) = c.account /\ MovedRoles(c, s) = roles
  BY <1>1, Operations DEF Moved
<1>4. DOMAIN x.authority = {"staker", "withdrawer"} /\ StakeAccount(x)
  BY <1>1, KindFacts
<1>5. Refused(c, s) <=> RolesRefused(c.key, Holders(x, roles))
  <2>1. DOMAIN x.authority # {}
    BY <1>4
  <2> QED
    BY <1>1, <1>4, <2>1, Operations DEF StakeRefused
<1>6. PICK holders, key, n, ixs :
          /\ holders = Holders(x, roles) /\ key = NewAuthority(c.key, holders[1])
          /\ n = Len(roles)
          /\ ixs = [i \in 1..Len(roles) |->
                        SetRole(c.account, roles[i], holders[i], Pda[key],
                                {Pda[key]} \cup IF roles[i] = "withdrawer"
                                                THEN Custodian(c, s) ELSE {})]
  OBVIOUS
<1>7. n \in 1..2 /\ ixs = [i \in 1..n |-> ixs[i]] /\ DOMAIN ixs = 1..n
  BY <1>2, <1>6, RoleSeqFacts
<1>8. Len(ixs) = n
  BY <1>7, SeqOfFunction
<1>9. GivesRoles(ixs, c.account, roles, holders, Pda[key],
                 [i \in 1..Len(roles) |-> OtherSigners(c, s, Pda[key], roles[i])])
  <2>1. \A i \in 1..n : OtherSigners(c, s, Pda[key], roles[i]) =
            {Pda[key]} \cup IF roles[i] = "withdrawer" THEN Custodian(c, s) ELSE {}
    BY DEF OtherSigners
  <2>2. PICK others : others = [i \in 1..n |-> OtherSigners(c, s, Pda[key], roles[i])]
    OBVIOUS
  <2>3. \A i \in 1..n : others[i] =
            {Pda[key]} \cup IF roles[i] = "withdrawer" THEN Custodian(c, s) ELSE {}
    BY <2>1, <2>2
  <2>4. \A i \in 1..n : ixs[i] = SetRole(c.account, roles[i], holders[i], Pda[key], others[i])
    BY <1>6, <2>3
  <2>5. GivesRoles(ixs, c.account, roles, holders, Pda[key], others)
    BY <1>6, <1>7, <1>8, <2>4 DEF GivesRoles
  <2> QED
    BY <1>6, <2>2, <2>5
<1>10. Output(c, s) = Report(key, ixs, ToSet(roles))
  <2>1. Output(c, s) = StakeReport(c, s)
    BY Operations
  <2> QED
    BY <1>1, <1>6, <2>1 DEF StakeReport
<1> QED
  BY <1>1, <1>2, <1>3, <1>4, <1>5, <1>6, <1>9, <1>10 DEF MovesRoles

\* A single role that the new authority signs for.
LEMMA OneRoleMoves ==
    ASSUME NEW c \in Commands, c.op \in {"vote", "program"}, NEW s, NEW account, NEW role,
           role \in {"withdrawer", "upgrade"}, DOMAIN s[account].authority = {role},
           Refused(c, s) <=> RolesRefused(c.key, Holders(s[account], <<role>>)),
           Output(c, s) = LET holder == s[account].authority[role]
                          IN  RoleReport(NewAuthority(c.key, holder), account, role, holder)
    PROVE  MovesRoles(c, s, account, <<role>>)
<1>1. PICK x, roles : x = s[account] /\ roles = <<role>>
  OBVIOUS
<1>2. /\ roles \in RoleSeqs /\ ToSet(roles) = {role}
      /\ Len(roles) = 1 /\ roles[1] = role /\ 1..Len(roles) = {1}
  BY <1>1 DEF RoleSeqs, ToSet
<1>3. PICK holder, holders, key, ixs :
          /\ holder = x.authority[role]
          /\ holders = Holders(x, roles) /\ key = NewAuthority(c.key, holders[1])
          /\ ixs = <<SetRole(account, role, holder, Pda[key], {Pda[key]})>>
  OBVIOUS
<1>4. holders[1] = holder
  BY <1>2, <1>3 DEF Holders
<1>5. GivesRoles(ixs, account, roles, holders, Pda[key],
                 [i \in 1..Len(roles) |-> OtherSigners(c, s, Pda[key], roles[i])])
  <2>1. OtherSigners(c, s, Pda[key], role) = {Pda[key]}
    BY DEF OtherSigners
  <2>2. PICK others : others = [i \in 1..Len(roles) |-> OtherSigners(c, s, Pda[key], roles[i])]
    OBVIOUS
  <2>3. others[1] = {Pda[key]}
    BY <1>2, <2>1, <2>2
  <2>4. Len(ixs) = 1 /\ DOMAIN ixs = 1..Len(ixs) /\ 1..Len(ixs) = {1}
        /\ ixs[1] = SetRole(account, role, holder, Pda[key], {Pda[key]})
    BY <1>3
  <2>5. GivesRoles(ixs, account, roles, holders, Pda[key], others)
    BY <1>2, <1>4, <2>3, <2>4 DEF GivesRoles
  <2> QED
    BY <2>2, <2>5
<1>6. Output(c, s) = Report(key, ixs, ToSet(roles))
  BY <1>1, <1>2, <1>3, <1>4 DEF RoleReport
<1> QED
  BY <1>1, <1>2, <1>3, <1>5, <1>6 DEF MovesRoles

\* A command that gives a vote account's withdraw authority away.
LEMMA VoteMoves ==
    ASSUME NEW c \in Commands, c.op = "vote", NEW s, s[c.account] \in Votes
    PROVE  MovesRoles(c, s, Moved(c, s), MovedRoles(c, s))
<1>1. DOMAIN s[c.account].authority = {"withdrawer"} /\ VoteAccount(s[c.account])
  BY KindFacts
<1>2. Refused(c, s) <=> RolesRefused(c.key, Holders(s[c.account], <<"withdrawer">>))
  BY <1>1, Operations DEF VoteRefused
<1>3. Output(c, s) = LET holder == s[c.account].authority["withdrawer"]
                     IN  RoleReport(NewAuthority(c.key, holder), c.account, "withdrawer", holder)
  BY Operations DEF VoteReport
<1>4. MovesRoles(c, s, c.account, <<"withdrawer">>)
  BY <1>1, <1>2, <1>3, OneRoleMoves
<1> QED
  BY <1>4, Operations DEF Moved

\* A command that gives a program's upgrade authority away.
LEMMA ProgramMoves ==
    ASSUME NEW c \in Commands, c.op = "program", NEW s,
           s[c.account] \in Programs, s[s[c.account].data] \in ProgramDatas
    PROVE  MovesRoles(c, s, Moved(c, s), MovedRoles(c, s))
<1>1. PICK data : data = s[c.account].data
  OBVIOUS
<1>2. IsProgram(s[c.account]) /\ IsProgramData(s[data]) /\ DOMAIN s[data].authority = {"upgrade"}
  BY <1>1, KindFacts
<1>3. Refused(c, s) <=> RolesRefused(c.key, Holders(s[data], <<"upgrade">>))
  BY <1>1, <1>2, Operations DEF ProgramRefused
<1>4. Output(c, s) = LET holder == s[data].authority["upgrade"]
                     IN  RoleReport(NewAuthority(c.key, holder), data, "upgrade", holder)
  BY <1>1, Operations DEF ProgramReport
<1>5. MovesRoles(c, s, data, <<"upgrade">>)
  BY <1>2, <1>3, <1>4, OneRoleMoves
<1> QED
  BY <1>1, <1>5, Operations DEF Moved

RoleCommand(c) == c.op \in {"mint", "stake", "vote", "program"}

\* What a command that gives roles away has read once it has built its message.
LEMMA RolesAccepted ==
    ASSUME NEW c \in Commands, RoleCommand(c), NEW s,
           AuthorityReads(c, s) \subseteq DOMAIN s, \A a \in DOMAIN s : s[a] \in Accounts,
           ~Refused(c, s)
    PROVE  /\ Moved(c, s) \in DOMAIN s /\ c.account \in DOMAIN s
           /\ c.op = "mint" => s[c.account] \in Mints
           /\ c.op = "stake" => s[c.account] \in Stakes
           /\ c.op = "vote" => s[c.account] \in Votes
           /\ c.op = "program" => s[c.account] \in Programs /\ s[Moved(c, s)] \in ProgramDatas
           /\ c.op # "program" => Moved(c, s) = c.account
           /\ MovesRoles(c, s, Moved(c, s), MovedRoles(c, s))
<1>1. PICK x : x = s[c.account]
  OBVIOUS
<1>2. c.account \in DOMAIN s /\ x \in Accounts
  <2>1. c.account \in DOMAIN s
    BY DEF AuthorityReads
  <2> QED
    BY <1>1, <2>1
<1>3. CASE c.op = "mint"
  <2>1. ~MintRefused(c, s)
    BY <1>3, Operations
  <2>2. x \in Mints
    BY <1>1, <1>2, <2>1, KindOf DEF MintRefused
  <2>3. MintRoles(x, c) # <<>>
    <3>1. Holders(x, MintRoles(x, c)) # <<>>
      BY <1>1, <2>1 DEF MintRefused, RolesRefused
    <3>2. Holders(x, <<>>) = <<>>
      BY DEF Holders
    <3> QED
      BY <3>1, <3>2
  <2>4. MovesRoles(c, s, Moved(c, s), MovedRoles(c, s))
    BY <1>1, <1>3, <2>2, <2>3, MintMoves
  <2> QED
    BY <1>1, <1>2, <1>3, <2>2, <2>4 DEF Moved
<1>4. CASE c.op = "stake"
  <2>1. ~StakeRefused(c, s)
    BY <1>4, Operations
  <2>2. x \in Stakes
    BY <1>1, <1>2, <2>1, KindOf, KindFacts DEF StakeRefused
  <2>3. MovesRoles(c, s, Moved(c, s), MovedRoles(c, s))
    BY <1>1, <1>4, <2>2, StakeMoves
  <2> QED
    BY <1>1, <1>2, <1>4, <2>2, <2>3 DEF Moved
<1>5. CASE c.op = "vote"
  <2>1. ~VoteRefused(c, s)
    BY <1>5, Operations
  <2>2. x \in Votes
    BY <1>1, <1>2, <2>1, KindOf, KindFacts DEF VoteRefused
  <2>3. MovesRoles(c, s, Moved(c, s), MovedRoles(c, s))
    BY <1>1, <1>5, <2>2, VoteMoves
  <2> QED
    BY <1>1, <1>2, <1>5, <2>2, <2>3 DEF Moved
<1>6. CASE c.op = "program"
  <2>1. ~ProgramRefused(c, s)
    BY <1>6, Operations
  <2>2. IsProgram(x)
    BY <1>1, <2>1 DEF ProgramRefused
  <2>3. x \in Programs
    BY <1>2, <2>2, KindOf DEF IsProgram, ProgramDatas
  <2>4. PICK data : data = x.data
    OBVIOUS
  <2>5. data \in DOMAIN s
    <3>1. AuthorityReads(c, s) = {data}
      BY <1>1, <1>2, <1>6, <2>2, <2>4 DEF AuthorityReads
    <3> QED
      BY <3>1
  <2>6. s[data] \in ProgramDatas
    <3>1. IsProgramData(s[data])
      BY <1>1, <2>1, <2>4 DEF ProgramRefused
    <3> QED
      BY <2>5, <3>1, KindOf DEF IsProgramData, Programs
  <2>7. Moved(c, s) = data
    BY <1>1, <1>6, <2>4 DEF Moved
  <2>8. MovesRoles(c, s, Moved(c, s), MovedRoles(c, s))
    BY <1>1, <1>6, <2>3, <2>4, <2>6, ProgramMoves
  <2> QED
    BY <1>1, <1>2, <1>6, <2>3, <2>5, <2>6, <2>7, <2>8
<1> QED
  BY <1>3, <1>4, <1>5, <1>6 DEF RoleCommand

\* The holders of the roles that a command moves are one or two, and the key of the new
\* authority is a key.
LEMMA RolesKey ==
    ASSUME NEW k, NEW holders, ~RolesRefused(k, holders)
    PROVE  NewAuthority(k, holders[1]) \in OnCurve
BY DEF RolesRefused, NewAuthorityRefused, NewAuthority

------------------------------------------------------------------------------
(* Running a message.                                                             *)

\* The new authority signed whatever a command built for it.
LEMMA NewAuthoritySigned ==
    ASSUME MigrationInv, Execute, NEW key \in OnCurve, NEW instructions, NEW moved,
           report = Report(key, instructions, moved)
    PROVE  /\ report.key = key /\ report.newOwner = Pda[key] /\ report.moved = moved
           /\ report.message = Message(Pda[key], instructions)
           /\ report.key \in approvals
<1>1. /\ report.key = key /\ report.newOwner = Pda[key] /\ report.moved = moved
      /\ report.message = Message(Pda[key], instructions)
  BY DEF Report
<1>2. Pda[key] \in report.message.signers
  BY <1>1 DEF Message
<1>3. PICK k \in approvals : Signs(k, Pda[key])
  BY <1>2 DEF Execute
<1>4. k \in OnCurve /\ Pda[key] \notin OnCurve
  BY MigrationAssumption DEF MigrationInv
<1>5. Pda[k] = Pda[key]
  BY <1>3, <1>4 DEF Signs
<1>6. k = key
  BY <1>4, <1>5, MigrationAssumption
<1> QED
  BY <1>1, <1>3, <1>6

\* A command's message gives away the roles that it reports and changes nothing else.
LEMMA RolesRun ==
    ASSUME NEW c \in Commands, RoleCommand(c), NEW s, NEW w,
           AuthorityReads(c, s) \subseteq DOMAIN s, ~Refused(c, s), DOMAIN s \subseteq DOMAIN w,
           \A a \in DOMAIN s : s[a] \in Accounts /\ KindKept(s[a], w[a])
    PROVE  \E key, ixs :
              /\ key \in OnCurve /\ Output(c, s) = Report(key, ixs, ToSet(MovedRoles(c, s)))
              /\ OnlyRoles(Executed(w, Output(c, s).message), w, Moved(c, s),
                           ToSet(MovedRoles(c, s)), Pda[key])
<1>1. PICK account, roles, holders, key, message :
          /\ account = Moved(c, s) /\ roles = MovedRoles(c, s)
          /\ holders = Holders(s[account], roles)
          /\ key = NewAuthority(c.key, holders[1])
          /\ message = Output(c, s).message
  OBVIOUS
<1>2. /\ account \in DOMAIN s /\ MovesRoles(c, s, account, roles)
      /\ s[account] \in Mints \cup Stakes \cup Votes \cup ProgramDatas
  BY <1>1, RolesAccepted DEF RoleCommand
<1>3. key \in OnCurve
  BY <1>1, <1>2, RolesKey DEF MovesRoles
<1>4. PICK ixs, others :
          /\ GivesRoles(ixs, account, roles, holders, Pda[key], others)
          /\ Output(c, s) = Report(key, ixs, ToSet(roles))
  BY <1>1, <1>2 DEF MovesRoles
<1>5. message.instructions = ixs
  BY <1>1, <1>4 DEF Message, Report
<1>6. /\ roles \in RoleSeqs /\ account \in DOMAIN w
      /\ ToSet(roles) \subseteq DOMAIN s[account].authority
  BY <1>2 DEF MovesRoles
<1>7. /\ w[account] \in Mints \cup Stakes \cup Votes \cup ProgramDatas
      /\ DOMAIN w[account].authority = DOMAIN s[account].authority
  <2>1. PICK x, y : x = s[account] /\ y = w[account] /\ KindKept(x, y)
    BY <1>2
  <2>2. CASE x \in Mints
    BY <2>1, <2>2 DEF KindKept, Mints
  <2>3. CASE x \in Stakes
    BY <2>1, <2>3 DEF KindKept, Stakes
  <2>4. CASE x \in Votes
    BY <2>1, <2>4 DEF KindKept, Votes
  <2>5. CASE x \in ProgramDatas
    BY <2>1, <2>5 DEF KindKept, ProgramDatas
  <2> QED
    BY <1>2, <2>1, <2>2, <2>3, <2>4, <2>5
<1>8. PICK x, new : x = w[account] /\ new = Pda[key]
  OBVIOUS
<1>9. GivesRoles(message.instructions, account, roles, holders, new, others)
  BY <1>4, <1>5, <1>8
<1>10. /\ x \in Mints \cup Stakes \cup Votes \cup ProgramDatas
       /\ ToSet(roles) \subseteq DOMAIN x.authority
  BY <1>6, <1>7, <1>8
<1>11. OnlyRoles(Executed(w, message), w, account, ToSet(roles), new)
  <2>1. account \in DOMAIN w /\ roles \in RoleSeqs /\ w[account] = x
    BY <1>6, <1>8
  <2> QED
    BY <1>9, <1>10, <2>1, RolesGiven
<1> QED
  BY <1>1, <1>3, <1>4, <1>8, <1>11

\* Giving roles away does what was reported.
LEMMA RolesMove ==
    ASSUME MigrationInv, Execute, RoleCommand(command)
    PROVE  report.key \in approvals /\ RolesMoved
<1>1. /\ Built /\ ~landed /\ world' = Executed(world, report.message)
  BY DEF Execute
<1>2. /\ command \in Commands /\ NextReads = AuthorityReads(command, seen)
      /\ NextReads \subseteq DOMAIN seen /\ ~Refused(command, seen)
      /\ report = Output(command, seen)
      /\ DOMAIN seen \subseteq DOMAIN world
      /\ \A a \in DOMAIN seen : seen[a] \in Accounts /\ KindKept(seen[a], world[a])
  BY <1>1 DEF MigrationInv, NextReads, RoleCommand
<1>3. PICK account, roles : account = Moved(command, seen) /\ roles = ToSet(MovedRoles(command, seen))
  OBVIOUS
<1>4. PICK key, ixs :
          /\ key \in OnCurve /\ report = Report(key, ixs, roles)
          /\ OnlyRoles(world', world, account, roles, Pda[key])
  BY <1>1, <1>2, <1>3, RolesRun
<1>5. report.key \in approvals /\ report.newOwner = Pda[key] /\ report.moved = roles
  BY <1>4, NewAuthoritySigned
<1>6. account = IF command.op = "program" THEN seen[command.account].data ELSE command.account
  BY <1>3 DEF Moved
<1> QED
  BY <1>4, <1>5, <1>6 DEF RolesMoved, Kept, WithRoles, OnlyRoles

------------------------------------------------------------------------------
(* Moving SOL.                                                                    *)

\* Every account has lamports, and all but a missing one and a wallet are rent exempt.
LEMMA Lamports ==
    ASSUME NEW x \in Accounts
    PROVE  /\ x.lamports \in Nat
           /\ \A n \in Nat : [x EXCEPT !.lamports = n].lamports = n
           /\ x \notin Wallets => RentExempt(x)
           /\ x \notin Wallets \cup {Missing} => x.lamports >= Rent
           /\ x \in Wallets \cup TokenAccounts => x # Missing
           /\ Missing.lamports = 0
<1>0. Missing.lamports = 0 /\ Missing.program = "none" /\ Missing = [Missing EXCEPT !.lamports = 0]
  BY DEF Missing
<1>1. CASE x = Missing
  <2>1. \A n \in Nat : [x EXCEPT !.lamports = n].lamports = n
    BY <1>1 DEF Missing
  <2>2. x \notin Wallets \cup TokenAccounts
    BY <1>0, <1>1 DEF Wallets, TokenAccounts
  <2> QED
    BY <1>0, <1>1, <2>1, <2>2 DEF RentExempt
<1>2. CASE x \in Wallets
  BY <1>0, <1>2 DEF Wallets
<1>3. CASE x \in TokenAccounts
  BY <1>0, <1>3 DEF TokenAccounts, Exempt, RentExempt
<1>4. CASE x \in Mints
  <2>1. x \notin TokenAccounts
    BY <1>4, KindsDiffer DEF Movable
  <2> QED
    BY <1>0, <1>4, <2>1 DEF Mints, Exempt, RentExempt
<1>5. CASE x \in Stakes \cup Votes \cup Uninitialized \cup Sysvars
  <2>1. x.program \in {"stake", "vote", "other", "sysvar"}
    BY <1>5 DEF Stakes, Votes, Uninitialized, Sysvars
  <2>2. x \notin Wallets \cup TokenAccounts /\ x # Missing
    BY <1>0, <2>1 DEF Wallets, TokenAccounts
  <2> QED
    BY <1>0, <1>5, <2>2 DEF Stakes, Votes, Uninitialized, Sysvars, Exempt, RentExempt
<1>6. CASE x \in Programs \cup ProgramDatas
  <2>1. x.program = "loader"
    BY <1>6 DEF Programs, ProgramDatas
  <2>2. x \notin Wallets \cup TokenAccounts /\ x # Missing
    BY <1>0, <2>1 DEF Wallets, TokenAccounts
  <2> QED
    BY <1>0, <1>6, <2>2 DEF Programs, ProgramDatas, Exempt, RentExempt
<1> QED
  BY <1>1, <1>2, <1>3, <1>4, <1>5, <1>6 DEF Accounts, Movable

\* A wallet that pays lamports.
LEMMA DebitedFacts ==
    ASSUME NEW x \in Wallets, NEW n \in Nat, x.lamports >= n
    PROVE  /\ Debited(x, n).lamports = x.lamports - n
           /\ Debited(x, n) = Missing <=> n = x.lamports
           /\ Debited(x, n) \in Wallets \cup {Missing}
<1>1. Missing.lamports = 0 /\ Missing.program = "none"
  BY DEF Missing
<1>2. x.lamports \in Nat
  BY DEF Wallets
<1>3. CASE x.lamports = n
  BY <1>1, <1>2, <1>3 DEF Debited
<1>4. CASE x.lamports # n
  <2>1. PICK m \in Nat : m = x.lamports - n
    BY <1>2, <1>4
  <2>2. Debited(x, n) = [x EXCEPT !.lamports = m]
    BY <1>4, <2>1 DEF Debited
  <2>3. Debited(x, n).lamports = m /\ Debited(x, n).program = "system" /\ Debited(x, n) \in Wallets
    BY <2>1, <2>2 DEF Wallets
  <2> QED
    BY <1>1, <1>4, <2>1, <2>3
<1> QED
  BY <1>3, <1>4

\* An account that receives lamports.
LEMMA CreditedFacts ==
    ASSUME NEW y \in Accounts, NEW n \in Nat
    PROVE  /\ Credited(y, n).lamports = y.lamports + n
           /\ Credited(y, n) # Missing
<1>1. Missing.lamports = 0 /\ Missing.program = "none" /\ y.lamports \in Nat
  BY Lamports DEF Missing
<1>2. CASE y = Missing
  <2>1. Credited(y, n) = System(n)
    BY <1>2 DEF Credited
  <2>2. System(n).lamports = n /\ System(n).program = "system"
    BY DEF System
  <2> QED
    BY <1>1, <1>2, <2>1, <2>2
<1>3. CASE y # Missing
  <2>1. PICK m \in Nat : m = y.lamports + n
    BY <1>1
  <2>2. Credited(y, n) = [y EXCEPT !.lamports = m]
    BY <1>3, <2>1 DEF Credited
  <2>3. Credited(y, n).lamports = m
    BY <2>1, <2>2, Lamports
  <2>4. Credited(y, n).program = y.program /\ y.program # "none"
    BY <1>3, <2>2 DEF Accounts, Movable, Wallets, TokenAccounts, Mints, Stakes, Votes,
                      Programs, ProgramDatas, Uninitialized, Sysvars
  <2> QED
    BY <1>1, <2>1, <2>3, <2>4
<1> QED
  BY <1>2, <1>3

(* Lamports move from one account to another.                                        *)
Paid(v, w, from, to, lamports) ==
    /\ DOMAIN v = DOMAIN w
    /\ \A a \in DOMAIN w \ {from, to} : v[a] = w[a]
    /\ v[to].lamports = w[to].lamports + lamports /\ v[to] # Missing
    /\ v[from].lamports = w[from].lamports - lamports
    /\ v[from] = Missing <=> lamports = w[from].lamports

\* What a transfer of lamports does.
LEMMA TransferPays ==
    ASSUME NEW w, NEW from \in DOMAIN w, NEW to \in DOMAIN w, from # to,
           w[from] \in Wallets, w[to] \in Accounts,
           NEW lamports \in Nat, w[from].lamports >= lamports
    PROVE  Paid(Credit(Debit(w, from, lamports), to, lamports), w, from, to, lamports)
<1>1. PICK x, y, d, v : /\ x = w[from] /\ y = w[to] /\ d = Debit(w, from, lamports)
                        /\ v = Credit(d, to, lamports)
  OBVIOUS
<1>2. x \in Wallets /\ y \in Accounts /\ x.lamports \in Nat /\ y.lamports \in Nat
      /\ x.lamports >= lamports
  BY <1>1, Lamports DEF Accounts, Movable
<1>3. /\ DOMAIN d = DOMAIN w /\ \A a \in DOMAIN w \ {from} : d[a] = w[a]
      /\ d[from] = Debited(x, lamports)
  BY <1>1 DEF Debit
<1>4. d[to] = y
  BY <1>1, <1>3
<1>5. /\ DOMAIN v = DOMAIN w /\ \A a \in DOMAIN w \ {to} : v[a] = d[a]
      /\ v[to] = Credited(y, lamports)
  BY <1>1, <1>3, <1>4 DEF Credit
<1>6. d[from].lamports = x.lamports - lamports /\ (d[from] = Missing <=> lamports = x.lamports)
  BY <1>2, <1>3, DebitedFacts
<1>7. v[to].lamports = y.lamports + lamports /\ v[to] # Missing
  BY <1>2, <1>5, CreditedFacts
<1>8. v[from] = d[from] /\ \A a \in DOMAIN w \ {from, to} : v[a] = w[a]
  BY <1>3, <1>5
<1> QED
  BY <1>1, <1>5, <1>6, <1>7, <1>8 DEF Paid

\* What a command for SOL has read once it has built its message.
LEMMA SolAccepted ==
    ASSUME NEW c \in Commands, c.op = "sol", NEW s,
           SolReads(c, s) \subseteq DOMAIN s, \A a \in DOMAIN s : s[a] \in Accounts,
           ~Refused(c, s)
    PROVE  \E key \in OnCurve, amount \in Nat \ {0} :
              /\ {c.owner, Pda[key]} \subseteq DOMAIN s /\ Pda[key] # c.owner
              /\ s[c.owner] \in Wallets /\ SystemAccount(s[c.owner])
              /\ amount = s[c.owner].lamports \/ amount + Rent <= s[c.owner].lamports
              /\ s[Pda[key]].lamports + amount >= Rent
              /\ Output(c, s) = Report(key, <<Transfer(c.owner, Pda[key], amount), Memo(Pda[key])>>,
                                       [lamports |-> amount,
                                        closes |-> amount = s[c.owner].lamports])
<1>1. PICK key, amount, x :
          key = NewAuthority(c.key, c.owner) /\ amount = SolAmount(c, s) /\ x = s[c.owner]
  OBVIOUS
<1>2. ~SolRefused(c, s) /\ Output(c, s) = SolReport(c, s)
  BY Operations
<1>3. c.owner \in DOMAIN s
  BY DEF SolReads
<1>4. /\ ~OwnerRefused(c.key, c.owner) /\ SystemAccount(x) /\ amount # 0
      /\ amount = x.lamports \/ ~(amount + Rent > x.lamports)
      /\ ~(s[NewWallet(c)].lamports + amount < Rent)
  BY <1>1, <1>2 DEF SolRefused
<1>5. NewWallet(c) = Pda[key] /\ key \in OnCurve /\ Pda[key] # c.owner
  BY <1>1, <1>4 DEF NewWallet, OwnerRefused, NewAuthorityRefused, NewAuthority
<1>6. Pda[key] \in DOMAIN s
  BY <1>3, <1>4, <1>5 DEF SolReads
<1>7. x \in Wallets /\ x.lamports \in Nat /\ s[Pda[key]].lamports \in Nat
  BY <1>1, <1>3, <1>4, <1>6, KindOf, Lamports
<1>8. amount \in Nat
  BY <1>1, <1>7, Arguments DEF SolAmount, Given
<1>9. amount = x.lamports \/ amount + Rent <= x.lamports
  BY <1>4, <1>7, <1>8, MigrationAssumption
<1>10. s[Pda[key]].lamports + amount >= Rent
  BY <1>4, <1>5, <1>7, <1>8, MigrationAssumption
<1>11. Output(c, s) = Report(key, <<Transfer(c.owner, Pda[key], amount), Memo(Pda[key])>>,
                             [lamports |-> amount, closes |-> amount = s[c.owner].lamports])
  BY <1>1, <1>2 DEF SolReport
<1> QED
  BY <1>1, <1>3, <1>4, <1>5, <1>6, <1>7, <1>8, <1>9, <1>10, <1>11

\* What the message of a command for SOL needs and does.
LEMMA SolRuns ==
    ASSUME NEW w, NEW from, NEW to, NEW amount, NEW message,
           message = Message(to, <<Transfer(from, to, amount), Memo(to)>>)
    PROVE  /\ Executed(w, message) = Credit(Debit(w, from, amount), to, amount)
           /\ Succeeds(w, message) <=>
                /\ SystemAccount(w[from]) /\ w[from].lamports >= amount
                /\ \A a \in DOMAIN w :
                      Executed(w, message)[a] = w[a] \/ RentExempt(Executed(w, message)[a])
<1>1. PICK ixs : ixs = <<Transfer(from, to, amount), Memo(to)>>
  OBVIOUS
<1>2. /\ DOMAIN ixs = 1..Len(ixs) /\ Len(ixs) = 2
      /\ ixs[1] = Transfer(from, to, amount) /\ ixs[2] = Memo(to)
  BY <1>1
<1>3. /\ message.instructions = ixs
      /\ \A n \in 1..Len(ixs) : ixs[n].signers \subseteq message.signers
  BY <1>1, <1>2, SignersOfMessage
<1>4. PICK after :
          /\ after[0] = w
          /\ \A n \in 1..Len(ixs) : after[n] = Do(after[n - 1], ixs[n])
          /\ Executed(w, message) = after[Len(ixs)]
          /\ Succeeds(w, message) <=>
                /\ \A n \in 1..Len(ixs) :
                      ixs[n].signers \subseteq message.signers /\ May(after[n - 1], ixs[n])
                /\ \A a \in DOMAIN w :
                      Executed(w, message)[a] = w[a] \/ RentExempt(Executed(w, message)[a])
  <2>1. Len(message.instructions) \in 0..5
    BY <1>2, <1>3
  <2> QED
    BY <1>3, <2>1, MessageRuns
<1>5. /\ ixs[1].op = "transfer" /\ ixs[1].from = from /\ ixs[1].to = to /\ ixs[1].lamports = amount
      /\ ixs[2].op = "memo"
  BY <1>2 DEF Transfer, Memo
<1>6. after[1] = Do(w, ixs[1]) /\ after[2] = Do(after[1], ixs[2])
  BY <1>2, <1>4
<1>7. /\ after[1] = Credit(Debit(w, from, amount), to, amount)
      /\ May(w, ixs[1]) <=> SystemAccount(w[from]) /\ w[from].lamports >= amount
  BY <1>5, <1>6, TransferEffect
<1>8. after[2] = after[1] /\ May(after[1], ixs[2])
  BY <1>5, <1>6, MemoEffect
<1>9. (\A n \in 1..Len(ixs) : May(after[n - 1], ixs[n])) <=> May(w, ixs[1])
  <2>1. \A n \in 1..Len(ixs) : n = 1 \/ n = 2
    BY <1>2
  <2>2. 1 \in 1..Len(ixs) /\ 1 - 1 = 0 /\ 2 - 1 = 1
    BY <1>2
  <2> QED
    BY <1>4, <1>8, <2>1, <2>2
<1> QED
  BY <1>2, <1>3, <1>4, <1>7, <1>8, <1>9

\* Moving SOL does what was reported.
LEMMA SolMove ==
    ASSUME MigrationInv, Execute, command.op = "sol"
    PROVE  report.key \in approvals /\ SolMoved
<1>1. /\ Built /\ ~landed /\ world' = Executed(world, report.message)
      /\ Succeeds(world, report.message)
  BY DEF Execute
<1>2. /\ command \in Commands /\ NextReads = SolReads(command, seen)
      /\ NextReads \subseteq DOMAIN seen /\ ~Refused(command, seen)
      /\ report = Output(command, seen)
      /\ DOMAIN seen \subseteq DOMAIN world /\ Consistent(world)
      /\ \A a \in DOMAIN seen : seen[a] \in Accounts /\ (a \notin touched => world[a] = seen[a])
  BY <1>1 DEF MigrationInv, NextReads
<1>3. PICK key \in OnCurve, amount \in Nat \ {0} :
          /\ {command.owner, Pda[key]} \subseteq DOMAIN seen /\ Pda[key] # command.owner
          /\ seen[command.owner] \in Wallets
          /\ report = Report(key, <<Transfer(command.owner, Pda[key], amount), Memo(Pda[key])>>,
                             [lamports |-> amount, closes |-> amount = seen[command.owner].lamports])
  BY <1>2, SolAccepted
<1>4. PICK from, to, w, v : from = command.owner /\ to = Pda[key] /\ w = world /\ v = world'
  OBVIOUS
<1>5. /\ report.key \in approvals /\ report.newOwner = to
      /\ report.moved.lamports = amount /\ report.moved.closes = (amount = seen[from].lamports)
      /\ report.message = Message(to, <<Transfer(from, to, amount), Memo(to)>>)
  BY <1>3, <1>4, NewAuthoritySigned
<1>6. /\ v = Credit(Debit(w, from, amount), to, amount)
      /\ SystemAccount(w[from]) /\ w[from].lamports >= amount
  BY <1>1, <1>4, <1>5, SolRuns
<1>7. /\ from \in DOMAIN w /\ to \in DOMAIN w /\ from # to
      /\ w[from] \in Wallets /\ w[to] \in Accounts
  BY <1>2, <1>3, <1>4, <1>6, KindOf DEF Consistent
<1>8. Paid(v, w, from, to, amount)
  BY <1>6, <1>7, TransferPays
<1>9. w[from].lamports \in Nat /\ w[to].lamports \in Nat
  BY <1>7, Lamports DEF Accounts, Movable
<1>10. from \in touched \/ (amount = seen[from].lamports <=> v[from] = Missing)
  BY <1>2, <1>3, <1>4, <1>8 DEF Paid
<1>11. /\ v[to].lamports - w[to].lamports = amount
       /\ w[from].lamports - v[from].lamports = amount
  BY <1>8, <1>9 DEF Paid
<1>12. \A a \in DOMAIN w \ {from, to} : v[a] = w[a]
  BY <1>8 DEF Paid
<1> QED
  BY <1>4, <1>5, <1>10, <1>11, <1>12 DEF SolMoved, Kept

------------------------------------------------------------------------------
(* Running the parts of a message one after the other.                              *)

IsSequence(s) == Len(s) \in Nat /\ s = [n \in 1..Len(s) |-> s[n]]

(* The instructions succeed one after the other and lead from w to v.                  *)
Leads(w, instructions, v) ==
    \E after :
        /\ after[0] = w /\ after[Len(instructions)] = v
        /\ \A n \in 1..Len(instructions) :
              May(after[n - 1], instructions[n]) /\ after[n] = Do(after[n - 1], instructions[n])

\* Two sequences, one after the other.
LEMMA Joined ==
    ASSUME NEW s, NEW t, IsSequence(s), IsSequence(t)
    PROVE  /\ IsSequence(s \o t) /\ Len(s \o t) = Len(s) + Len(t)
           /\ \A i \in 1..Len(s) : (s \o t)[i] = s[i]
           /\ \A i \in 1..Len(t) : (s \o t)[Len(s) + i] = t[i]
<1> DEFINE S == {s[i] : i \in 1..Len(s)} \cup {t[i] : i \in 1..Len(t)}
<1>1. s \in Seq(S) /\ t \in Seq(S)
  <2>1. Len(s) \in Nat /\ Len(t) \in Nat
    BY DEF IsSequence
  <2>2. s \in [1..Len(s) -> S] /\ t \in [1..Len(t) -> S]
    BY DEF IsSequence
  <2> QED
    BY <2>1, <2>2
<1> HIDE DEF S
<1>2. s \o t \in Seq(S) /\ Len(s \o t) = Len(s) + Len(t)
  BY <1>1
<1>3. IsSequence(s \o t)
  <2>1. PICK st : st = s \o t
    OBVIOUS
  <2>2. st \in Seq(S)
    BY <1>2, <2>1
  <2>3. IsSequence(st)
    BY <2>2 DEF IsSequence
  <2> QED
    BY <2>1, <2>3
<1>4. \A i \in 1..Len(s) : (s \o t)[i] = s[i]
  BY <1>1
<1>5. \A i \in 1..Len(t) : (s \o t)[Len(s) + i] = t[i]
  BY <1>1
<1> QED
  BY <1>2, <1>3, <1>4, <1>5

\* Short sequences.
LEMMA Short ==
    /\ IsSequence(<<>>) /\ Len(<<>>) = 0
    /\ \A x : IsSequence(<<x>>) /\ Len(<<x>>) = 1 /\ <<x>>[1] = x
<1>1. IsSequence(<<>>) /\ Len(<<>>) = 0
  BY DEF IsSequence
<1>2. ASSUME NEW x PROVE IsSequence(<<x>>) /\ Len(<<x>>) = 1 /\ <<x>>[1] = x
  BY DEF IsSequence
<1> QED
  BY <1>1, <1>2

\* Instructions in two parts have a world in between.
LEMMA LeadsJoined ==
    ASSUME NEW s, NEW t, IsSequence(s), IsSequence(t), NEW w, NEW v
    PROVE  Leads(w, s \o t, v) <=> \E u : Leads(w, s, u) /\ Leads(u, t, v)
<1>0. PICK m, n \in Nat : m = Len(s) /\ n = Len(t)
  BY DEF IsSequence
<1>1. PICK st : m = Len(s) /\ n = Len(t) /\ st = s \o t
  BY <1>0
<1>2. /\ Len(st) = m + n /\ \A i \in 1..m : st[i] = s[i]
      /\ \A i \in 1..n : st[m + i] = t[i]
  BY <1>1, Joined
<1>3. ASSUME Leads(w, st, v) PROVE \E u : Leads(w, s, u) /\ Leads(u, t, v)
  <2>1. PICK after :
            /\ after[0] = w /\ after[m + n] = v
            /\ \A i \in 1..(m + n) : May(after[i - 1], st[i]) /\ after[i] = Do(after[i - 1], st[i])
    BY <1>2, <1>3 DEF Leads
  <2>2. Leads(w, s, after[m])
    <3>1. \A i \in 1..m : May(after[i - 1], s[i]) /\ after[i] = Do(after[i - 1], s[i])
      <4>1. ASSUME NEW i \in 1..m PROVE i \in 1..(m + n) /\ st[i] = s[i]
        BY <1>2
      <4> QED
        BY <2>1, <4>1
    <3> QED
      BY <1>1, <2>1, <3>1 DEF Leads
  <2>3. Leads(after[m], t, v)
    <3>1. PICK later : later = [i \in 0..n |-> after[m + i]]
      OBVIOUS
    <3>2. later[0] = after[m] /\ later[n] = v
      <4>1. 0 \in 0..n /\ n \in 0..n /\ m + 0 = m
        OBVIOUS
      <4> QED
        BY <2>1, <3>1, <4>1
    <3>3. ASSUME NEW i \in 1..n
          PROVE  May(later[i - 1], t[i]) /\ later[i] = Do(later[i - 1], t[i])
      <4>1. i - 1 \in 0..n /\ i \in 0..n /\ m + i \in 1..(m + n) /\ (m + i) - 1 = m + (i - 1)
        OBVIOUS
      <4>2. later[i - 1] = after[m + (i - 1)] /\ later[i] = after[m + i]
        BY <3>1, <4>1
      <4>3. st[m + i] = t[i]
        BY <1>2
      <4>4. May(after[(m + i) - 1], st[m + i]) /\ after[m + i] = Do(after[(m + i) - 1], st[m + i])
        BY <2>1, <4>1
      <4> QED
        BY <4>1, <4>2, <4>3, <4>4
    <3> QED
      BY <1>1, <3>2, <3>3 DEF Leads
  <2> QED
    BY <2>2, <2>3
<1>4. ASSUME NEW u, Leads(w, s, u), Leads(u, t, v) PROVE Leads(w, st, v)
  <2>1. PICK first :
            /\ first[0] = w /\ first[m] = u
            /\ \A i \in 1..m : May(first[i - 1], s[i]) /\ first[i] = Do(first[i - 1], s[i])
    BY <1>1, <1>4 DEF Leads
  <2>2. PICK later :
            /\ later[0] = u /\ later[n] = v
            /\ \A i \in 1..n : May(later[i - 1], t[i]) /\ later[i] = Do(later[i - 1], t[i])
    BY <1>1, <1>4 DEF Leads
  <2>3. PICK after : after = [i \in 0..(m + n) |-> IF i <= m THEN first[i] ELSE later[i - m]]
    OBVIOUS
  <2>4. \A i \in 0..m : after[i] = first[i]
    <3>1. ASSUME NEW i \in 0..m PROVE i \in 0..(m + n) /\ i <= m
      OBVIOUS
    <3> QED
      BY <2>3, <3>1
  <2>5. \A i \in 0..n : after[m + i] = later[i]
    <3>1. ASSUME NEW i \in 0..n, i # 0 PROVE after[m + i] = later[i]
      <4>1. m + i \in 0..(m + n) /\ ~(m + i <= m) /\ (m + i) - m = i
        BY <3>1
      <4> QED
        BY <2>3, <4>1
    <3>2. after[m + 0] = later[0]
      <4>1. m + 0 = m /\ m \in 0..m
        OBVIOUS
      <4> QED
        BY <2>1, <2>2, <2>4, <4>1
    <3> QED
      BY <3>1, <3>2
  <2>6. ASSUME NEW i \in 1..(m + n)
        PROVE  May(after[i - 1], st[i]) /\ after[i] = Do(after[i - 1], st[i])
    <3>1. CASE i <= m
      <4>1. i \in 1..m /\ i \in 0..m /\ i - 1 \in 0..m
        BY <3>1
      <4> QED
        BY <1>2, <2>1, <2>4, <4>1
    <3>2. CASE ~(i <= m)
      <4>1. PICK j \in 1..n : i = m + j
        <5>1. i - m \in 1..n /\ i = m + (i - m)
          BY <3>2
        <5> QED
          BY <5>1
      <4>2. j \in 0..n /\ j - 1 \in 0..n /\ i - 1 = m + (j - 1)
        BY <4>1
      <4>3. after[i] = later[j] /\ after[i - 1] = later[j - 1] /\ st[i] = t[j]
        BY <1>2, <2>5, <4>1, <4>2
      <4> QED
        BY <2>2, <4>3
    <3> QED
      BY <3>1, <3>2
  <2>7. after[0] = w /\ after[m + n] = v
    <3>1. 0 \in 0..m /\ n \in 0..n
      OBVIOUS
    <3> QED
      BY <2>1, <2>2, <2>4, <2>5, <3>1
  <2> QED
    BY <1>2, <2>6, <2>7 DEF Leads
<1> QED
  BY <1>1, <1>3, <1>4

\* One instruction, or none.
LEMMA LeadsShort ==
    ASSUME NEW w, NEW v
    PROVE  /\ Leads(w, <<>>, v) <=> v = w
           /\ \A x : Leads(w, <<x>>, v) <=> May(w, x) /\ v = Do(w, x)
<1>1. Leads(w, <<>>, v) => v = w
  BY Short DEF Leads
<1>2. ASSUME v = w PROVE Leads(w, <<>>, v)
  <2>1. PICK after : after = [i \in 0..0 |-> w]
    OBVIOUS
  <2>2. after[0] = w
    BY <2>1
  <2> QED
    BY <1>2, <2>2, Short DEF Leads
<1>3. ASSUME NEW x, Leads(w, <<x>>, v) PROVE May(w, x) /\ v = Do(w, x)
  <2>1. PICK after :
            /\ after[0] = w /\ after[1] = v
            /\ \A n \in 1..1 : May(after[n - 1], x) /\ after[n] = Do(after[n - 1], x)
    BY <1>3, Short DEF Leads
  <2>2. 1 \in 1..1 /\ 1 - 1 = 0
    OBVIOUS
  <2> QED
    BY <2>1, <2>2
<1>4. ASSUME NEW x, May(w, x), v = Do(w, x) PROVE Leads(w, <<x>>, v)
  <2>1. PICK after : after = [i \in 0..1 |-> IF i = 0 THEN w ELSE v]
    OBVIOUS
  <2>2. after[0] = w /\ after[1] = v
    BY <2>1
  <2>3. \A n \in 1..1 : May(after[n - 1], <<x>>[n]) /\ after[n] = Do(after[n - 1], <<x>>[n])
    <3>1. ASSUME NEW n \in 1..1 PROVE n = 1 /\ n - 1 = 0 /\ <<x>>[n] = x
      BY Short
    <3> QED
      BY <1>4, <2>2, <3>1
  <2> QED
    BY <2>2, <2>3, Short DEF Leads
<1> QED
  BY <1>1, <1>2, <1>3, <1>4

\* A message runs if its instructions do, all their signers sign it and what it leaves is
\* rent exempt.
LEMMA MessageLeads ==
    ASSUME NEW w, NEW message, Len(message.instructions) \in 0..5
    PROVE  /\ \A v : Leads(w, message.instructions, v) => v = Executed(w, message)
           /\ Succeeds(w, message) <=>
                /\ \A n \in 1..Len(message.instructions) :
                      message.instructions[n].signers \subseteq message.signers
                /\ Leads(w, message.instructions, Executed(w, message))
                /\ \A a \in DOMAIN w :
                      Executed(w, message)[a] = w[a] \/ RentExempt(Executed(w, message)[a])
<1>1. PICK ixs, m, out : /\ ixs = message.instructions /\ m = Len(ixs) /\ m \in 0..5
                         /\ out = Executed(w, message)
  OBVIOUS
<1>0. m \in 0..5
  BY <1>1
<1>2. PICK after :
          /\ after[0] = w
          /\ \A n \in 1..m : after[n] = Do(after[n - 1], ixs[n])
          /\ out = after[m]
          /\ Succeeds(w, message) <=>
                /\ \A n \in 1..m : /\ ixs[n].signers \subseteq message.signers
                                   /\ May(after[n - 1], ixs[n])
                /\ \A a \in DOMAIN w : out[a] = w[a] \/ RentExempt(out[a])
  BY <1>1, MessageRuns
<1>3. ASSUME NEW f, f[0] = w, \A n \in 1..m : f[n] = Do(f[n - 1], ixs[n])
      PROVE  \A n \in 0..m : f[n] = after[n]
  <2>1. \A n \in 1..m : f[n - 1] = after[n - 1] => f[n] = after[n]
    BY <1>2, <1>3
  <2>2. f[0] = after[0]
    BY <1>2, <1>3
  <2>3. 1 <= m => f[1] = after[1]
    <3>1. 1 - 1 = 0 /\ (1 <= m => 1 \in 1..m)
      BY <1>0
    <3> QED
      BY <2>1, <2>2, <3>1
  <2>4. 2 <= m => f[2] = after[2]
    <3>1. 2 - 1 = 1 /\ (2 <= m => 2 \in 1..m /\ 1 <= m)
      BY <1>0
    <3> QED
      BY <2>1, <2>3, <3>1
  <2>5. 3 <= m => f[3] = after[3]
    <3>1. 3 - 1 = 2 /\ (3 <= m => 3 \in 1..m /\ 2 <= m)
      BY <1>0
    <3> QED
      BY <2>1, <2>4, <3>1
  <2>6. 4 <= m => f[4] = after[4]
    <3>1. 4 - 1 = 3 /\ (4 <= m => 4 \in 1..m /\ 3 <= m)
      BY <1>0
    <3> QED
      BY <2>1, <2>5, <3>1
  <2>7. 5 <= m => f[5] = after[5]
    <3>1. 5 - 1 = 4 /\ (5 <= m => 5 \in 1..m /\ 4 <= m)
      BY <1>0
    <3> QED
      BY <2>1, <2>6, <3>1
  <2>8. \A n \in 0..m : n = 0 \/ n = 1 \/ n = 2 \/ n = 3 \/ n = 4 \/ n = 5
    BY <1>0
  <2>9. \A n \in 0..m : n <= m
    BY <1>0
  <2> QED
    BY <2>2, <2>3, <2>4, <2>5, <2>6, <2>7, <2>8, <2>9
<1>4. ASSUME NEW v, Leads(w, ixs, v)
      PROVE  v = out /\ \A n \in 1..m : May(after[n - 1], ixs[n])
  <2>1. PICK f : /\ f[0] = w /\ f[m] = v
                 /\ \A n \in 1..m : May(f[n - 1], ixs[n]) /\ f[n] = Do(f[n - 1], ixs[n])
    BY <1>1, <1>4 DEF Leads
  <2>2. \A n \in 0..m : f[n] = after[n]
    BY <1>3, <2>1
  <2>3. m \in 0..m /\ \A n \in 1..m : n - 1 \in 0..m
    BY <1>0
  <2> QED
    BY <1>2, <2>1, <2>2, <2>3
<1>5. (\A n \in 1..m : May(after[n - 1], ixs[n])) => Leads(w, ixs, out)
  BY <1>1, <1>2 DEF Leads
<1> QED
  BY <1>1, <1>2, <1>4, <1>5

------------------------------------------------------------------------------
(* Moving tokens.                                                                 *)

\* What a command for tokens has read once it has built its message.
LEMMA TokenAccepted ==
    ASSUME NEW c \in Commands, c.op = "token", NEW s,
           TokenReads(c, s) \subseteq DOMAIN s, \A a \in DOMAIN s : s[a] \in Accounts,
           ~Refused(c, s)
    PROVE  /\ c.mint \in DOMAIN s /\ s[c.mint] \in Mints
           /\ Source(c, s) \in DOMAIN s /\ s[Source(c, s)] \in TokenAccounts
           /\ s[Source(c, s)].mint = c.mint /\ s[Source(c, s)].program = s[c.mint].program
           /\ Owner(c, s) = s[Source(c, s)].owner /\ ~s[Source(c, s)].guard
           /\ Key(c, s) \in OnCurve
           /\ Amount(c, s) \in Nat /\ Amount(c, s) <= s[Source(c, s)].amount
           /\ Amount(c, s) = 0 => Closes(c, s)
           /\ Closes(c, s) => /\ Amount(c, s) = s[Source(c, s)].amount
                              /\ RentRecipient(c, s) # Source(c, s)
                              /\ ~s[Source(c, s)].confidential
           /\ Source(c, s) # Destination(c, s) /\ RentRecipient(c, s) \in Address
           /\ Amount(c, s) > 0 =>
                /\ Destination(c, s) \in DOMAIN s
                /\ ~s[Source(c, s)].frozen /\ s[c.mint].rule \notin {"non-transferable", "hook"}
                /\ HasDestination(c, s) =>
                    /\ s[Destination(c, s)] \in TokenAccounts
                    /\ s[Destination(c, s)].mint = c.mint
                    /\ s[Destination(c, s)].program = s[c.mint].program
                    /\ s[Destination(c, s)].owner = Pda[Key(c, s)]
                    /\ ~s[Destination(c, s)].frozen
                /\ ~HasDestination(c, s) =>
                    /\ c.destination = Default
                    /\ Destination(c, s) = Ata(Pda[Key(c, s)], c.mint, s[c.mint].program)
                    /\ s[Destination(c, s)].program # s[c.mint].program
                    /\ s[c.mint].rule # "frozen"
<1>1. PICK source, dest, key, amount, m, x, p :
          /\ source = Source(c, s) /\ dest = Destination(c, s) /\ key = Key(c, s)
          /\ amount = Amount(c, s) /\ m = s[c.mint] /\ x = s[source] /\ p = Program(c, s)
  OBVIOUS
<1>2. ~TokenRefused(c, s)
  BY Operations
<1>3. c.mint \in DOMAIN s
  BY DEF TokenReads
<1>4. m \in Mints /\ p = m.program /\ p \in {"token", "token2022"}
  <2>1. MintAccount(m) /\ m \in Accounts
    BY <1>1, <1>2, <1>3 DEF TokenRefused
  <2>2. m \in Mints
    BY <2>1, KindOf
  <2> QED
    BY <1>1, <2>2 DEF Program, Mints
<1>5. source \in DOMAIN s
  <2>1. MintAccount(s[c.mint])
    BY <1>2 DEF TokenRefused
  <2> QED
    BY <1>1, <1>3, <2>1 DEF TokenReads
<1>6. /\ HoldsMint(c, s, x) /\ Owner(c, s) = x.owner /\ ~OwnerRefused(c.key, x.owner) /\ ~x.guard
      /\ ~(c.amount # Default /\ (c.amount = 0 \/ c.amount > x.amount))
      /\ ~(c.amount = Default /\ x.amount = 0 /\ c.noClose)
      /\ source # dest
  BY <1>1, <1>2 DEF TokenRefused, SourceRefused
<1>7. x \in TokenAccounts /\ x.mint = c.mint /\ x.program = p /\ x.amount \in Nat
  <2>1. x.program = p /\ x.type = "account" /\ x.mint = c.mint /\ x \in Accounts
    BY <1>1, <1>5, <1>6 DEF HoldsMint
  <2>2. x \in TokenAccounts
    BY <1>4, <2>1, KindOf DEF TokenProgramAccount, Mints
  <2> QED
    BY <2>1, <2>2 DEF TokenAccounts
<1>8. key \in OnCurve
  BY <1>1, <1>6 DEF Key, OwnerRefused, NewAuthorityRefused, NewAuthority
<1>9. /\ amount \in Nat /\ amount <= x.amount /\ (amount = 0 => Closes(c, s))
      /\ Closes(c, s) => amount = x.amount
  <2>1. amount = IF c.amount = Default THEN x.amount ELSE c.amount
    BY <1>1 DEF Amount, Given
  <2>2. c.amount \in Nat \cup {Default} /\ c.noClose \in BOOLEAN
    BY Arguments
  <2>3. Closes(c, s) <=> amount = x.amount /\ ~c.noClose
    BY <1>1 DEF Closes
  <2> QED
    BY <1>6, <1>7, <2>1, <2>2, <2>3
<1>10. Closes(c, s) => RentRecipient(c, s) # source /\ ~x.confidential
  BY <1>1, <1>2 DEF TokenRefused, CloseRefused
<1>11. RentRecipient(c, s) \in Address
  BY <1>1, <1>8, Arguments, MigrationAssumption DEF RentRecipient, Given
<1>12. ASSUME amount > 0
       PROVE  /\ dest \in DOMAIN s /\ ReadsDestination(c, s)
              /\ ~x.frozen /\ m.rule \notin {"non-transferable", "hook"}
              /\ ~HasDestination(c, s) => m.rule # "frozen"
  <2>1. ReadsDestination(c, s)
    BY <1>1, <1>12 DEF ReadsDestination
  <2>2. TokenReads(c, s) = {dest}
    BY <1>1, <1>2, <1>3, <1>5, <2>1 DEF TokenReads, TokenRefused
  <2>3. ~TransferRefused(c, s)
    BY <1>2 DEF TokenRefused
  <2> QED
    BY <1>1, <1>12, <2>1, <2>2, <2>3 DEF TransferRefused
<1>13. ASSUME amount > 0, HasDestination(c, s)
       PROVE  /\ s[dest] \in TokenAccounts /\ s[dest].mint = c.mint /\ s[dest].program = p
              /\ s[dest].owner = Pda[key] /\ ~s[dest].frozen
  <2>1. PICK y : y = s[dest] /\ y \in Accounts
    BY <1>12, <1>13
  <2>2. HoldsMint(c, s, y) /\ y.owner = Pda[key] /\ ~y.frozen
    BY <1>1, <1>2, <1>13, <2>1 DEF TokenRefused, DestinationRefused
  <2>3. y.program = p /\ y.type = "account" /\ y.mint = c.mint
    BY <1>1, <2>2 DEF HoldsMint
  <2>4. y \in TokenAccounts
    BY <1>4, <2>1, <2>3, KindOf DEF TokenProgramAccount, Mints
  <2> QED
    BY <2>1, <2>2, <2>3, <2>4
<1>14. ASSUME amount > 0, ~HasDestination(c, s)
       PROVE  /\ c.destination = Default /\ dest = Ata(Pda[key], c.mint, p)
              /\ s[dest].program # p
  <2>1. c.destination = Default /\ s[dest].program # p
    BY <1>1, <1>12, <1>14 DEF HasDestination
  <2> QED
    BY <1>1, <2>1 DEF Destination, Given
<1> QED
  BY <1>1, <1>3, <1>4, <1>5, <1>6, <1>7, <1>8, <1>9, <1>10, <1>11, <1>12, <1>13, <1>14

\* A token account that receives lamports has the same tokens and owner.
LEMMA CreditedTokens ==
    ASSUME NEW y \in TokenAccounts, NEW n \in Nat
    PROVE  /\ Credited(y, n) \in TokenAccounts
           /\ Credited(y, n).amount = y.amount /\ Credited(y, n).owner = y.owner
<1>1. y # Missing /\ y.lamports \in Nat /\ y.lamports >= Rent
  BY Lamports DEF Accounts, Movable, TokenAccounts, Exempt
<1>2. PICK m \in Nat : m = y.lamports + n
  BY <1>1
<1>3. m >= Rent
  BY <1>1, <1>2, MigrationAssumption
<1>4. Credited(y, n) = [y EXCEPT !.lamports = m]
  BY <1>1, <1>2 DEF Credited
<1> QED
  BY <1>2, <1>3, <1>4 DEF TokenAccounts, Exempt

\* The fee is never more than the amount.
LEMMA FeeFacts ==
    ASSUME NEW m \in Mints, NEW amount \in Nat
    PROVE  Fee(m, amount) \in 0..amount /\ (m.fee = 0 => Fee(m, amount) = 0)
<1>1. m.fee \in Nat
  BY DEF Mints
<1> QED
  BY <1>1 DEF Fee

\* What a transfer of tokens needs and does.
LEMMA TokensTransferred ==
    ASSUME NEW w, NEW from \in DOMAIN w, NEW to \in DOMAIN w, from # to, NEW mint,
           w[from] \in Accounts, w[to] \in Accounts, w[mint] \in Mints, NEW amount \in Nat,
           NEW owner, NEW u, Leads(w, <<TransferChecked(from, mint, to, owner, amount)>>, u)
    PROVE  /\ DOMAIN u = DOMAIN w /\ \A a \in DOMAIN w \ {from, to} : u[a] = w[a]
           /\ w[from] \in TokenAccounts /\ w[to] \in TokenAccounts
           /\ u[from] \in TokenAccounts /\ u[from].amount = w[from].amount - amount
           /\ u[to] \in TokenAccounts /\ u[to].owner = w[to].owner
           /\ u[to].amount = w[to].amount + amount - Fee(w[mint], amount)
<1>1. PICK ix, x, y, fee : /\ ix = TransferChecked(from, mint, to, owner, amount)
                           /\ x = w[from] /\ y = w[to] /\ fee = Fee(w[mint], amount)
  OBVIOUS
<1>2. /\ ix.op = "transfer tokens" /\ ix.from = from /\ ix.to = to /\ ix.mint = mint
      /\ ix.amount = amount
  BY <1>1 DEF TransferChecked
<1>3. May(w, ix) /\ u = Do(w, ix)
  <2>1. Leads(w, <<ix>>, u)
    BY <1>1
  <2> QED
    BY <2>1, LeadsShort
<1>4. /\ u = [w EXCEPT ![from].amount = @ - amount, ![to].amount = @ + amount - fee,
                       ![to].withheld = @ + fee]
      /\ MayTransferTokens(w, ix)
  <2>1. /\ Do(w, ix) = [w EXCEPT ![ix.from].amount = @ - ix.amount,
                                 ![ix.to].amount = @ + ix.amount - Fee(w[ix.mint], ix.amount),
                                 ![ix.to].withheld = @ + Fee(w[ix.mint], ix.amount)]
        /\ MayTransferTokens(w, ix)
    BY <1>2, <1>3, TokensEffect
  <2> QED
    BY <1>1, <1>2, <1>3, <2>1
<1>5. /\ IsTokenAccount(x, mint) /\ IsTokenAccount(y, mint) /\ x.amount >= amount
      /\ x \in Accounts /\ y \in Accounts
  BY <1>1, <1>2, <1>4 DEF MayTransferTokens
<1>6. x \in TokenAccounts /\ y \in TokenAccounts
  BY <1>5, KindOf DEF IsTokenAccount, Mints
<1>7. /\ x.amount \in Nat /\ y.amount \in Nat /\ y.withheld \in Nat /\ fee \in 0..amount
  BY <1>1, <1>6, FeeFacts DEF TokenAccounts
<1>8. x.amount - amount \in Nat /\ y.amount + (amount - fee) \in Nat /\ y.withheld + fee \in Nat
  BY <1>5, <1>7
<1>9. DOMAIN u = DOMAIN w /\ \A a \in DOMAIN w \ {from, to} : u[a] = w[a]
  BY <1>4
<1>10. u[from] = [x EXCEPT !.amount = x.amount - amount]
  BY <1>1, <1>4, <1>6
<1>11. u[to] = [y EXCEPT !.amount = y.amount + (amount - fee), !.withheld = y.withheld + fee]
  BY <1>1, <1>4, <1>6 DEF TokenAccounts
<1>12. u[from] \in TokenAccounts /\ u[from].amount = x.amount - amount
  BY <1>6, <1>8, <1>10 DEF TokenAccounts
<1>13. /\ u[to] \in TokenAccounts /\ u[to].amount = y.amount + (amount - fee)
       /\ u[to].owner = y.owner
  BY <1>6, <1>8, <1>11 DEF TokenAccounts
<1>14. u[to].amount = w[to].amount + amount - Fee(w[mint], amount)
  BY <1>1, <1>13
<1> QED
  BY <1>1, <1>6, <1>9, <1>12, <1>13, <1>14

(* An associated account is created, unless it exists.                               *)
Creates(u, w, payer, owner, mint, program, to) ==
    /\ DOMAIN u = DOMAIN w /\ \A a \in DOMAIN w \ {payer, to} : u[a] = w[a]
    /\ u[to] \in TokenAccounts /\ u[to].owner = owner
    /\ w[to] # Missing => u = w
    /\ w[to] = Missing => /\ u[to] = NewTokenAccount(w, CreateAta(payer, owner, mint, program))
                          /\ SystemAccount(w[payer]) /\ w[payer].lamports >= TokenRent
                          /\ payer # to /\ payer # mint
                          /\ payer \in DOMAIN w => u[payer] = Debited(w[payer], TokenRent)
                                                   /\ w[payer] \in Wallets
    /\ u[mint] = w[mint]
    /\ \A a \in DOMAIN w : u[a] \in Accounts /\ (TokenProgramAccount(u[a]) => a = to \/ u[a] = w[a])

\* What creating an associated account needs and does.
LEMMA AccountCreated ==
    ASSUME NEW w, NEW payer, NEW owner \in Address, NEW mint \in DOMAIN w, NEW program,
           NEW to \in DOMAIN w, to = Ata(owner, mint, program), mint \in Address,
           \A a \in DOMAIN w : w[a] \in Accounts, w[mint] \in Mints,
           NEW u, Leads(w, <<CreateAta(payer, owner, mint, program)>>, u)
    PROVE  Creates(u, w, payer, owner, mint, program, to)
<1>1. PICK ix : ix = CreateAta(payer, owner, mint, program)
  OBVIOUS
<1>2. /\ ix.op = "create" /\ ix.payer = payer /\ ix.owner = owner /\ ix.mint = mint
      /\ ix.account = to
  BY <1>1 DEF CreateAta
<1>3. May(w, ix) /\ u = Do(w, ix)
  BY <1>1, LeadsShort
<1>4. w[to] \in Accounts /\ w[mint] \in Accounts
  OBVIOUS
<1>5. CASE w[to] # Missing
  <2>1. u = w /\ IsTokenAccount(w[to], mint) /\ w[to].owner = owner
    BY <1>2, <1>3, <1>5, CreateEffect
  <2>2. w[to] \in TokenAccounts
    BY <1>4, <2>1, KindOf DEF IsTokenAccount, Mints
  <2> QED
    BY <1>5, <2>1, <2>2 DEF Creates
<1>6. CASE w[to] = Missing
  <2>1. PICK new, d : /\ new = NewTokenAccount(w, ix) /\ d = Debited(w[payer], TokenRent)
    OBVIOUS
  <2>2. /\ u = [Debit(w, payer, TokenRent) EXCEPT ![to] = new]
        /\ SystemAccount(w[payer]) /\ w[payer].lamports >= TokenRent
    BY <1>2, <1>3, <1>6, <2>1, CreateEffect
  <2>3. payer # to /\ payer # mint
    <3>1. ~SystemAccount(Missing) /\ ~SystemAccount(w[mint])
      BY KindFacts
    <3> QED
      BY <1>6, <2>2, <3>1
  <2>4. /\ DOMAIN u = DOMAIN w /\ \A a \in DOMAIN w \ {payer, to} : u[a] = w[a]
        /\ u[to] = new /\ (payer \in DOMAIN w => u[payer] = d)
    BY <2>1, <2>2, <2>3 DEF Debit
  <2>5. new \in TokenAccounts /\ new.owner = owner
    <3>1. PICK m : m = w[mint] /\ m \in Mints
      OBVIOUS
    <3>2. new = [program |-> m.program, type |-> "account", mint |-> mint, owner |-> owner,
                 amount |-> 0, frozen |-> m.rule = "frozen", guard |-> FALSE,
                 closeAuthority |-> Nobody, withheld |-> 0, confidential |-> FALSE,
                 lamports |-> TokenRent]
      BY <1>2, <2>1, <3>1 DEF NewTokenAccount
    <3>3. m.program \in {"token", "token2022"} /\ TokenRent \in Exempt
      BY <3>1, MigrationAssumption DEF Mints, Exempt
    <3> QED
      BY <3>2, <3>3 DEF TokenAccounts
  <2>6. ASSUME payer \in DOMAIN w
        PROVE  w[payer] \in Wallets /\ d \in Wallets \cup {Missing}
    <3>1. w[payer] \in Wallets
      BY <2>2, <2>6, KindOf
    <3>2. TokenRent \in Nat
      BY MigrationAssumption
    <3> QED
      BY <2>1, <2>2, <3>1, <3>2, DebitedFacts
  <2>7. ASSUME NEW a \in DOMAIN w
        PROVE  u[a] \in Accounts /\ (TokenProgramAccount(u[a]) => a = to \/ u[a] = w[a])
    <3>1. CASE a = to
      BY <2>4, <2>5, <3>1 DEF Accounts, Movable
    <3>2. CASE a = payer
      <4>1. u[a] \in Wallets \cup {Missing}
        BY <2>4, <2>6, <3>2
      <4>2. ~TokenProgramAccount(u[a])
        BY <4>1 DEF Wallets, Missing, TokenProgramAccount
      <4> QED
        BY <4>1, <4>2 DEF Accounts, Movable
    <3>3. CASE a # to /\ a # payer
      BY <2>4, <3>3
    <3> QED
      BY <3>1, <3>2, <3>3
  <2>8. mint # to
    <3>1. w[mint] # Missing
      BY KindsDiffer DEF Movable
    <3> QED
      BY <1>6, <3>1
  <2> QED
    BY <1>1, <1>6, <2>1, <2>2, <2>3, <2>4, <2>5, <2>6, <2>7, <2>8 DEF Creates
<1> QED
  BY <1>5, <1>6

\* What closing a token account does, after its withheld fees are harvested or not.
LEMMA AccountClosed ==
    ASSUME NEW w, NEW a \in DOMAIN w, w[a] \in TokenAccounts, NEW to, NEW authority, NEW v,
           NEW instructions, instructions \in {<<>>, <<Harvest(a)>>},
           Leads(w, instructions \o <<Close(a, to, authority)>>, v)
    PROVE  /\ DOMAIN v = DOMAIN w /\ \A b \in DOMAIN w \ {a, to} : v[b] = w[b]
           /\ v[a] = Missing /\ w[a].amount = 0 /\ to # a
           /\ to \in DOMAIN w => v[to] = Credited(w[to], w[a].lamports)
<1>1. IsSequence(instructions) /\ IsSequence(<<Close(a, to, authority)>>)
  BY Short
<1>2. PICK u : Leads(w, instructions, u) /\ Leads(u, <<Close(a, to, authority)>>, v)
  BY <1>1, LeadsJoined
<1>3. /\ DOMAIN u = DOMAIN w /\ \A b \in DOMAIN w \ {a} : u[b] = w[b]
      /\ u[a].amount = w[a].amount /\ u[a].lamports = w[a].lamports
  <2>1. CASE instructions = <<>>
    BY <1>2, <2>1, LeadsShort
  <2>2. CASE instructions = <<Harvest(a)>>
    <3>1. PICK ix, x : ix = Harvest(a) /\ x = w[a]
      OBVIOUS
    <3>2. ix.op = "harvest" /\ ix.account = a
      BY <3>1 DEF Harvest
    <3>3. u = Do(w, ix)
      BY <1>2, <2>2, <3>1, LeadsShort
    <3>4. u = [w EXCEPT ![a].withheld = 0]
      BY <3>2, <3>3, HarvestEffect
    <3>5. u[a] = [x EXCEPT !.withheld = 0]
      BY <3>1, <3>4 DEF TokenAccounts
    <3>6. u[a].amount = x.amount /\ u[a].lamports = x.lamports
      BY <3>1, <3>5 DEF TokenAccounts
    <3> QED
      BY <3>1, <3>4, <3>6
  <2> QED
    BY <2>1, <2>2
<1>4. PICK ix : ix = Close(a, to, authority)
  OBVIOUS
<1>5. ix.op = "close" /\ ix.account = a /\ ix.to = to
  BY <1>4 DEF Close
<1>6. May(u, ix) /\ v = Do(u, ix)
  <2>1. Leads(u, <<ix>>, v)
    BY <1>2, <1>4
  <2> QED
    BY <2>1, LeadsShort
<1>7. v = [Credit(u, to, u[a].lamports) EXCEPT ![a] = Missing] /\ MayClose(u, ix)
  BY <1>5, <1>6, CloseEffect
<1>8. to # a /\ u[a].amount = 0
  BY <1>5, <1>7 DEF MayClose
<1>9. PICK d : d = Credit(u, to, w[a].lamports)
  OBVIOUS
<1>10. v = [d EXCEPT ![a] = Missing]
  BY <1>3, <1>7, <1>9
<1>11. /\ DOMAIN d = DOMAIN w /\ \A b \in DOMAIN w \ {to} : d[b] = u[b]
       /\ to \in DOMAIN w => d[to] = Credited(u[to], w[a].lamports)
  BY <1>3, <1>9 DEF Credit
<1>12. to \in DOMAIN w => u[to] = w[to]
  BY <1>3, <1>8
<1>13. /\ DOMAIN v = DOMAIN w /\ v[a] = Missing
       /\ \A b \in DOMAIN w \ {a} : v[b] = d[b]
  BY <1>10, <1>11
<1> QED
  BY <1>3, <1>8, <1>11, <1>12, <1>13

(* A command for tokens that was accepted, and the accounts when its message runs.       *)
MovesTokens(c, s, w) ==
    /\ c \in Commands /\ c.op = "token" /\ TokenReads(c, s) \subseteq DOMAIN s /\ ~Refused(c, s)
    /\ DOMAIN s \subseteq DOMAIN w /\ DOMAIN w \subseteq Address
    /\ \A a \in DOMAIN w : w[a] \in Accounts
    /\ \A a \in DOMAIN s : s[a] \in Accounts /\ KindKept(s[a], w[a])

Funder(c, s) == Given(c.funder, Owner(c, s))

\* Sending the tokens, to an associated account that may have to be created.
LEMMA TokensSent ==
    ASSUME NEW c, NEW s, NEW w, MovesTokens(c, s, w), Amount(c, s) > 0,
           NEW v, Leads(w, MoveTokens(c, s), v)
    PROVE  LET from == Source(c, s)
               to   == Destination(c, s)
           IN  /\ DOMAIN v = DOMAIN w
               /\ \A a \in DOMAIN w \ {from, to} :
                     HasDestination(c, s) \/ a # Funder(c, s) => v[a] = w[a]
               /\ w[from] \in TokenAccounts /\ v[from] \in TokenAccounts
               /\ v[from].amount = w[from].amount - Amount(c, s)
               /\ v[to] \in TokenAccounts
               /\ v[to].amount = Balance(w[to]) + Amount(c, s) - Fee(w[c.mint], Amount(c, s))
               /\ HasDestination(c, s) => v[to].owner = w[to].owner
               /\ ~HasDestination(c, s) => v[to].owner = Pda[Key(c, s)]
<1>1. PICK from, to, key, amount, p, m, payer, owner, first :
          /\ from = Source(c, s) /\ to = Destination(c, s) /\ key = Key(c, s)
          /\ amount = Amount(c, s) /\ p = Program(c, s) /\ m = w[c.mint]
          /\ payer = Funder(c, s) /\ owner = Owner(c, s)
          /\ first = IF HasDestination(c, s) THEN <<>>
                     ELSE <<CreateAta(payer, Pda[key], c.mint, p)>>
  OBVIOUS
<1>2. /\ c.mint \in DOMAIN w /\ s[c.mint] \in Mints /\ from \in DOMAIN w /\ to \in DOMAIN w
      /\ c.mint \in DOMAIN s /\ p = s[c.mint].program
      /\ from # to /\ key \in OnCurve /\ amount \in Nat /\ amount > 0
      /\ ~HasDestination(c, s) => to = Ata(Pda[key], c.mint, p)
  BY <1>1, TokenAccepted DEF MovesTokens, Program
<1>3. m \in Mints /\ c.mint \in Address
  BY <1>1, <1>2 DEF MovesTokens, KindKept
<1>4. MoveTokens(c, s) = first \o <<TransferChecked(from, c.mint, to, owner, amount)>>
  BY <1>1 DEF MoveTokens, Funder
<1>5. IsSequence(first) /\ IsSequence(<<TransferChecked(from, c.mint, to, owner, amount)>>)
  BY <1>1, Short
<1>6. Leads(w, first \o <<TransferChecked(from, c.mint, to, owner, amount)>>, v)
  BY <1>4
<1>7. PICK u : Leads(w, first, u) /\ Leads(u, <<TransferChecked(from, c.mint, to, owner, amount)>>, v)
  BY <1>5, <1>6, LeadsJoined
<1>8. /\ DOMAIN u = DOMAIN w
      /\ \A a \in DOMAIN w : u[a] \in Accounts /\ (TokenProgramAccount(u[a]) => a = to \/ u[a] = w[a])
      /\ u[c.mint] = m
      /\ \A a \in DOMAIN w \ {from, to} :
            HasDestination(c, s) \/ a # Funder(c, s) => u[a] = w[a]
      /\ HasDestination(c, s) => u = w
      /\ ~HasDestination(c, s) => u[to] \in TokenAccounts /\ u[to].owner = Pda[key]
      /\ ~HasDestination(c, s) => u[to].amount = Balance(w[to])
  <2>1. CASE HasDestination(c, s)
    <3>1. u = w
      BY <1>1, <1>7, <2>1, LeadsShort
    <3> QED
      BY <1>1, <2>1, <3>1 DEF MovesTokens
  <2>2. CASE ~HasDestination(c, s)
    <3>1. Leads(w, <<CreateAta(payer, Pda[key], c.mint, p)>>, u)
      BY <1>1, <1>7, <2>2
    <3>2. PICK signer \in Address : signer = Pda[key]
      BY <1>2, MigrationAssumption
    <3>3. to = Ata(signer, c.mint, p) /\ Leads(w, <<CreateAta(payer, signer, c.mint, p)>>, u)
      BY <1>2, <2>2, <3>1, <3>2
    <3>4. \A a \in DOMAIN w : w[a] \in Accounts
      BY DEF MovesTokens
    <3>5. w[c.mint] \in Mints
      BY <1>1, <1>3
    <3>6. /\ DOMAIN u = DOMAIN w /\ \A a \in DOMAIN w \ {payer, to} : u[a] = w[a]
          /\ u[to] \in TokenAccounts /\ u[to].owner = signer
          /\ w[to] # Missing => u = w
          /\ w[to] = Missing => u[to] = NewTokenAccount(w, CreateAta(payer, signer, c.mint, p))
          /\ u[c.mint] = w[c.mint]
          /\ \A a \in DOMAIN w : u[a] \in Accounts
                                 /\ (TokenProgramAccount(u[a]) => a = to \/ u[a] = w[a])
      <4>1. Creates(u, w, payer, signer, c.mint, p, to)
        BY <1>2, <1>3, <3>3, <3>4, <3>5, AccountCreated
      <4> QED
        BY <4>1 DEF Creates
    <3>7. u[to].amount = Balance(w[to])
      BY <3>6 DEF Balance, NewTokenAccount
    <3> QED
      BY <1>1, <2>2, <3>2, <3>6, <3>7
  <2> QED
    BY <2>1, <2>2
<1>9. /\ DOMAIN v = DOMAIN w /\ \A a \in DOMAIN w \ {from, to} : v[a] = u[a]
      /\ u[from] \in TokenAccounts /\ u[to] \in TokenAccounts
      /\ v[from] \in TokenAccounts /\ v[from].amount = u[from].amount - amount
      /\ v[to] \in TokenAccounts /\ v[to].owner = u[to].owner
      /\ v[to].amount = u[to].amount + amount - Fee(m, amount)
  <2>1. /\ from \in DOMAIN u /\ to \in DOMAIN u /\ u[from] \in Accounts /\ u[to] \in Accounts
        /\ u[c.mint] \in Mints
    BY <1>2, <1>3, <1>8
  <2>2. /\ DOMAIN v = DOMAIN u /\ \A a \in DOMAIN u \ {from, to} : v[a] = u[a]
        /\ u[from] \in TokenAccounts /\ u[to] \in TokenAccounts
        /\ v[from] \in TokenAccounts /\ v[from].amount = u[from].amount - amount
        /\ v[to] \in TokenAccounts /\ v[to].owner = u[to].owner
        /\ v[to].amount = u[to].amount + amount - Fee(u[c.mint], amount)
    BY <1>2, <1>7, <2>1, TokensTransferred
  <2> QED
    BY <1>8, <2>2
<1>10. u[from] = w[from]
  BY <1>2, <1>8, <1>9, KindFacts
<1>11. HasDestination(c, s) => u[to].amount = Balance(w[to])
  <2>1. HasDestination(c, s) => u[to] = w[to] /\ w[to] # Missing
    BY <1>8, <1>9, KindsDiffer, Lamports DEF Accounts, Movable
  <2> QED
    BY <2>1 DEF Balance
<1>12. \A a \in DOMAIN w \ {from, to} : HasDestination(c, s) \/ a # Funder(c, s) => v[a] = w[a]
  BY <1>8, <1>9
<1>13. v[to].amount = Balance(w[to]) + amount - Fee(m, amount)
  BY <1>8, <1>9, <1>11
<1>14. /\ HasDestination(c, s) => v[to].owner = w[to].owner
       /\ ~HasDestination(c, s) => v[to].owner = Pda[key]
  BY <1>8, <1>9
<1> QED
  BY <1>1, <1>9, <1>10, <1>12, <1>13, <1>14

\* Only a token account can be closed.
LEMMA ClosesTokens ==
    ASSUME NEW w, NEW a \in DOMAIN w, w[a] \in Movable, NEW to, NEW authority, NEW v,
           NEW instructions, instructions \in {<<>>, <<Harvest(a)>>},
           Leads(w, instructions \o <<Close(a, to, authority)>>, v)
    PROVE  w[a] \in TokenAccounts
<1>1. PICK close : close = Close(a, to, authority)
  OBVIOUS
<1>2. close.op = "close" /\ close.account = a
  BY <1>1 DEF Close
<1>3. PICK u : Leads(w, instructions, u) /\ Leads(u, <<close>>, v)
  <2>1. IsSequence(instructions) /\ IsSequence(<<close>>)
    BY Short
  <2>2. Leads(w, instructions \o <<close>>, v)
    BY <1>1
  <2> QED
    BY <2>1, <2>2, LeadsJoined
<1>4. TokenProgramAccount(w[a])
  <2>1. CASE instructions = <<>>
    <3>1. u = w
      BY <1>3, <2>1, LeadsShort
    <3>2. May(w, close)
      BY <1>3, <3>1, LeadsShort
    <3>3. MayClose(w, close)
      BY <1>2, <3>2, CloseEffect
    <3> QED
      BY <1>2, <3>3 DEF MayClose
  <2>2. CASE instructions = <<Harvest(a)>>
    <3>1. PICK ix : ix = Harvest(a)
      OBVIOUS
    <3>2. ix.op = "harvest" /\ ix.account = a
      BY <3>1 DEF Harvest
    <3>3. May(w, ix)
      BY <1>3, <2>2, <3>1, LeadsShort
    <3> QED
      BY <3>2, <3>3, HarvestEffect
  <2> QED
    BY <2>1, <2>2
<1>5. w[a] \in Accounts
  BY DEF Accounts
<1>6. w[a] \notin Mints
  BY KindsDiffer
<1> QED
  BY <1>4, <1>5, <1>6, KindOf

(* The parts of a message: first the tokens move, then the account is closed.            *)
Sending(c, s) == IF Amount(c, s) > 0 THEN MoveTokens(c, s) ELSE <<>>
Closing(c, s) == IF Closes(c, s) THEN CloseSource(c, s) ELSE <<>>

\* At most two instructions.
LEMMA OneOrTwo ==
    ASSUME NEW x, NEW first, first = <<>> \/ \E y : first = <<y>>
    PROVE  IsSequence(first \o <<x>>) /\ Len(first \o <<x>>) \in 0..2
<1>1. PICK k : k = Len(first) /\ k \in 0..1 /\ IsSequence(first)
  <2>1. CASE first = <<>>
    BY <2>1, Short
  <2>2. CASE \E y : first = <<y>>
    <3>1. PICK y : first = <<y>>
      BY <2>2
    <3>2. IsSequence(<<y>>) /\ Len(<<y>>) = 1
      BY Short
    <3> QED
      BY <3>1, <3>2
  <2> QED
    BY <2>1, <2>2
<1>2. IsSequence(<<x>>) /\ Len(<<x>>) = 1
  BY Short
<1>3. IsSequence(first \o <<x>>) /\ Len(first \o <<x>>) = k + 1
  BY <1>1, <1>2, Joined
<1>4. k + 1 \in 0..2
  BY <1>1
<1> QED
  BY <1>3, <1>4

\* A message of a command for tokens is made of these parts and a memo.
LEMMA TokenMessage ==
    ASSUME NEW c, NEW s
    PROVE  LET instructions == Sending(c, s) \o Closing(c, s) \o <<Memo(Pda[Key(c, s)])>>
           IN  /\ IsSequence(Sending(c, s)) /\ IsSequence(Closing(c, s))
               /\ IsSequence(Sending(c, s) \o Closing(c, s))
               /\ IsSequence(instructions) /\ Len(instructions) \in 0..5
               /\ TokenReport(c, s) = Report(Key(c, s), instructions, TokenReport(c, s).moved)
<1>1. PICK key, a, b, ab, ixs :
          /\ key = Key(c, s) /\ a = Sending(c, s) /\ b = Closing(c, s) /\ ab = a \o b
          /\ ixs = ab \o <<Memo(Pda[key])>>
  OBVIOUS
<1>2. IsSequence(a) /\ Len(a) \in 0..2
  <2>1. IsSequence(MoveTokens(c, s)) /\ Len(MoveTokens(c, s)) \in 0..2
    <3>1. PICK first, x : MoveTokens(c, s) = first \o <<x>> /\ (first = <<>> \/ \E y : first = <<y>>)
      BY DEF MoveTokens
    <3> QED
      BY <3>1, OneOrTwo
  <2> QED
    BY <1>1, <2>1, Short DEF Sending
<1>3. IsSequence(b) /\ Len(b) \in 0..2
  <2>1. IsSequence(CloseSource(c, s)) /\ Len(CloseSource(c, s)) \in 0..2
    <3>1. PICK first, x : CloseSource(c, s) = first \o <<x>> /\ (first = <<>> \/ \E y : first = <<y>>)
      BY DEF CloseSource
    <3> QED
      BY <3>1, OneOrTwo
  <2> QED
    BY <1>1, <2>1, Short DEF Closing
<1>4. IsSequence(ab) /\ Len(ab) = Len(a) + Len(b)
  BY <1>1, <1>2, <1>3, Joined
<1>5. IsSequence(ixs) /\ Len(ixs) = Len(ab) + 1
  <2>1. IsSequence(<<Memo(Pda[key])>>) /\ Len(<<Memo(Pda[key])>>) = 1
    BY Short
  <2> QED
    BY <1>1, <1>4, <2>1, Joined
<1>6. Len(ixs) \in 0..5
  <2>1. PICK l, m : l = Len(a) /\ m = Len(b) /\ l \in 0..2 /\ m \in 0..2
    BY <1>2, <1>3
  <2>2. PICK n, k : n = Len(ixs) /\ k = Len(ab)
    OBVIOUS
  <2>3. k = l + m
    BY <1>4, <2>1, <2>2
  <2>4. n = k + 1
    BY <1>5, <2>2
  <2>5. n \in 0..5
    <3>1. l \in 0..2 /\ m \in 0..2
      BY <2>1
    <3>2. n = l + m + 1
      BY <2>3, <2>4
    <3>3. l + m + 1 \in 0..5
      BY <3>1
    <3> QED
      BY <3>2, <3>3
  <2> QED
    BY <2>2, <2>5
<1>7. TokenReport(c, s) = Report(key, ixs, TokenReport(c, s).moved)
  <2>1. PICK moved : TokenReport(c, s) = Report(key, ixs, moved)
    BY <1>1 DEF TokenReport, Sending, Closing
  <2>2. Report(key, ixs, moved).moved = moved
    BY DEF Report
  <2> QED
    BY <2>1, <2>2
<1> QED
  BY <1>1, <1>2, <1>3, <1>4, <1>5, <1>6, <1>7

\* The report of a command for tokens.
LEMMA TokenMoved ==
    ASSUME NEW c, NEW s, NEW m, m = TokenReport(c, s).moved
    PROVE  /\ m.amount = Amount(c, s) /\ m.from = Source(c, s) /\ m.to = Destination(c, s)
           /\ m.funder = IF Amount(c, s) > 0 /\ ~HasDestination(c, s) THEN Funder(c, s) ELSE Nobody
           /\ m.fee <=> Amount(c, s) > 0 /\ s[c.mint].fee > 0
           /\ m.rentRecipient = IF Closes(c, s) THEN RentRecipient(c, s) ELSE Nobody
BY DEF TokenReport, Report, Funder

\* The worlds between the parts.
LEMMA TokenParts ==
    ASSUME NEW c, NEW s, NEW w, NEW v
    PROVE  Leads(w, Sending(c, s) \o Closing(c, s) \o <<Memo(Pda[Key(c, s)])>>, v) <=>
                \E u : Leads(w, Sending(c, s), u) /\ Leads(u, Closing(c, s), v)
<1>1. PICK a, b, ab, memo :
          /\ a = Sending(c, s) /\ b = Closing(c, s) /\ ab = a \o b /\ memo = Memo(Pda[Key(c, s)])
  OBVIOUS
<1>2. IsSequence(a) /\ IsSequence(b) /\ IsSequence(ab) /\ IsSequence(<<memo>>)
  BY <1>1, TokenMessage, Short
<1>3. Leads(w, ab, v) <=> \E u : Leads(w, a, u) /\ Leads(u, b, v)
  BY <1>1, <1>2, LeadsJoined
<1>4. memo.op = "memo"
  BY <1>1 DEF Memo
<1>5. \A u : Leads(u, <<memo>>, v) <=> v = u
  BY <1>4, LeadsShort, MemoEffect
<1>6. Leads(w, ab \o <<memo>>, v) <=> Leads(w, ab, v)
  BY <1>2, <1>5, LeadsJoined
<1> QED
  BY <1>1, <1>3, <1>6

(* What a message that moves tokens does to the accounts.                               *)
TokensMovedBy(c, s, w, v) ==
    LET from   == Source(c, s)
        to     == Destination(c, s)
        amount == Amount(c, s)
    IN  /\ \A a \in DOMAIN w \ {from} :
              /\ amount > 0 => a # to /\ (HasDestination(c, s) \/ a # Funder(c, s))
              /\ Closes(c, s) => a # RentRecipient(c, s)
              => v[a] = w[a]
        /\ amount > 0 => /\ v[to] \in TokenAccounts
                         /\ v[to].amount = Balance(w[to]) + amount - Fee(w[c.mint], amount)
                         /\ v[to].owner = IF HasDestination(c, s) THEN w[to].owner ELSE Pda[Key(c, s)]
        /\ IF Closes(c, s) THEN v[from] = Missing /\ w[from].amount = amount
                           ELSE v[from].amount = w[from].amount - amount

\* The instructions of a command for tokens do this.
LEMMA TokensRun ==
    ASSUME NEW c, NEW s, NEW w, NEW v, MovesTokens(c, s, w),
           Leads(w, Sending(c, s) \o Closing(c, s) \o <<Memo(Pda[Key(c, s)])>>, v)
    PROVE  TokensMovedBy(c, s, w, v)
<1>1. PICK from, to, key, amount, rent :
          /\ from = Source(c, s) /\ to = Destination(c, s) /\ key = Key(c, s)
          /\ amount = Amount(c, s) /\ rent = RentRecipient(c, s)
  OBVIOUS
<1>2. /\ from \in DOMAIN s /\ s[from] \in TokenAccounts /\ amount \in Nat /\ from # to
      /\ amount = 0 => Closes(c, s)
      /\ amount > 0 => to \in DOMAIN s
  BY <1>1, TokenAccepted DEF MovesTokens
<1>3. PICK u : Leads(w, Sending(c, s), u) /\ Leads(u, Closing(c, s), v)
  BY TokenParts
<1>4. ASSUME amount > 0
      PROVE  /\ DOMAIN u = DOMAIN w /\ to \in DOMAIN w /\ from \in DOMAIN w
             /\ \A a \in DOMAIN w \ {from, to} :
                   HasDestination(c, s) \/ a # Funder(c, s) => u[a] = w[a]
             /\ w[from] \in TokenAccounts /\ u[from] \in TokenAccounts
             /\ u[from].amount = w[from].amount - amount
             /\ u[to] \in TokenAccounts
             /\ u[to].amount = Balance(w[to]) + amount - Fee(w[c.mint], amount)
             /\ u[to].owner = IF HasDestination(c, s) THEN w[to].owner ELSE Pda[key]
  <2>1. Leads(w, MoveTokens(c, s), u) /\ Amount(c, s) > 0
    BY <1>1, <1>3, <1>4 DEF Sending
  <2>2. to \in DOMAIN w /\ from \in DOMAIN w
    BY <1>2, <1>4 DEF MovesTokens
  <2>3. /\ DOMAIN u = DOMAIN w
        /\ \A a \in DOMAIN w \ {from, to} :
              HasDestination(c, s) \/ a # Funder(c, s) => u[a] = w[a]
        /\ w[from] \in TokenAccounts /\ u[from] \in TokenAccounts
        /\ u[from].amount = w[from].amount - amount
        /\ u[to] \in TokenAccounts
        /\ u[to].amount = Balance(w[to]) + amount - Fee(w[c.mint], amount)
        /\ HasDestination(c, s) => u[to].owner = w[to].owner
        /\ ~HasDestination(c, s) => u[to].owner = Pda[key]
    BY <1>1, <2>1, TokensSent
  <2> QED
    BY <2>2, <2>3
<1>5. amount = 0 => u = w
  BY <1>1, <1>3, LeadsShort DEF Sending
<1>6. ~Closes(c, s) => v = u
  BY <1>3, LeadsShort DEF Closing
<1>7. ASSUME Closes(c, s)
      PROVE  /\ u[from] \in TokenAccounts /\ u[from].amount = 0 /\ DOMAIN u = DOMAIN w
             /\ v[from] = Missing /\ rent # from
             /\ \A a \in DOMAIN w \ {from, rent} : v[a] = u[a]
             /\ rent \in DOMAIN w => v[rent] = Credited(u[rent], u[from].lamports)
  <2>1. PICK instructions, authority :
            /\ instructions = IF s[from].withheld > 0 THEN <<Harvest(from)>> ELSE <<>>
            /\ authority = IF s[from].closeAuthority = Nobody THEN Owner(c, s)
                                                            ELSE s[from].closeAuthority
    OBVIOUS
  <2>6. CloseSource(c, s) = instructions \o <<Close(from, rent, authority)>>
    BY <1>1, <2>1 DEF CloseSource
  <2>7. instructions \in {<<>>, <<Harvest(from)>>}
    BY <2>1
  <2>2. Leads(u, instructions \o <<Close(from, rent, authority)>>, v)
    BY <1>3, <1>7, <2>6 DEF Closing
  <2>3. DOMAIN u = DOMAIN w /\ from \in DOMAIN u /\ u[from] \in Movable
    <3>1. CASE amount > 0
      BY <1>4, <3>1 DEF Movable
    <3>2. CASE amount = 0
      BY <1>2, <1>5, <3>2 DEF MovesTokens, KindKept, Movable
    <3> QED
      BY <1>2, <3>1, <3>2
  <2>4. u[from] \in TokenAccounts
    BY <2>7, <2>2, <2>3, ClosesTokens
  <2>5. /\ DOMAIN v = DOMAIN u /\ \A b \in DOMAIN u \ {from, rent} : v[b] = u[b]
        /\ v[from] = Missing /\ u[from].amount = 0 /\ rent # from
        /\ rent \in DOMAIN u => v[rent] = Credited(u[rent], u[from].lamports)
    BY <2>7, <2>2, <2>3, <2>4, AccountClosed
  <2> QED
    BY <2>3, <2>4, <2>5
<1>8. \A a \in DOMAIN w \ {from} :
          /\ amount > 0 => a # to /\ (HasDestination(c, s) \/ a # Funder(c, s))
          /\ Closes(c, s) => a # rent
          => v[a] = w[a]
  <2> SUFFICES ASSUME NEW a \in DOMAIN w \ {from},
                      amount > 0 => a # to /\ (HasDestination(c, s) \/ a # Funder(c, s)),
                      Closes(c, s) => a # rent
               PROVE  v[a] = w[a]
    OBVIOUS
  <2>1. u[a] = w[a]
    BY <1>2, <1>4, <1>5
  <2>2. v[a] = u[a]
    BY <1>6, <1>7
  <2> QED
    BY <2>1, <2>2
<1>9. ASSUME amount > 0
      PROVE  /\ v[to] \in TokenAccounts
             /\ v[to].amount = Balance(w[to]) + amount - Fee(w[c.mint], amount)
             /\ v[to].owner = IF HasDestination(c, s) THEN w[to].owner ELSE Pda[key]
  <2>1. v[to] \in TokenAccounts /\ v[to].amount = u[to].amount /\ v[to].owner = u[to].owner
    <3>1. CASE Closes(c, s) /\ to = rent
      <4>1. v[to] = Credited(u[to], u[from].lamports) /\ u[to] \in TokenAccounts
        BY <1>4, <1>7, <1>9, <3>1
      <4>2. u[from].lamports \in Nat
        BY <1>7, <3>1 DEF TokenAccounts, Exempt
      <4> QED
        BY <4>1, <4>2, CreditedTokens
    <3>2. CASE Closes(c, s) /\ to # rent
      BY <1>2, <1>4, <1>7, <1>9, <3>2
    <3>3. CASE ~Closes(c, s)
      BY <1>4, <1>6, <1>9, <3>3
    <3> QED
      BY <3>1, <3>2, <3>3
  <2> QED
    BY <1>4, <1>9, <2>1
<1>10. IF Closes(c, s) THEN v[from] = Missing /\ w[from].amount = amount
                       ELSE v[from].amount = w[from].amount - amount
  <2>1. CASE Closes(c, s)
    <3>1. v[from] = Missing /\ u[from].amount = 0
      BY <1>7, <2>1
    <3>2. CASE amount > 0
      <4>1. w[from].amount \in Nat /\ u[from].amount = w[from].amount - amount
        BY <1>4, <3>2 DEF TokenAccounts
      <4> QED
        BY <1>2, <2>1, <3>1, <4>1
    <3>3. CASE amount = 0
      BY <1>5, <2>1, <3>1, <3>3
    <3> QED
      BY <1>2, <3>2, <3>3
  <2>2. CASE ~Closes(c, s)
    BY <1>2, <1>4, <1>6, <2>2
  <2> QED
    BY <2>1, <2>2
<1> QED
  BY <1>1, <1>8, <1>9, <1>10 DEF TokensMovedBy

\* Moving tokens does what was reported.
LEMMA TokensMove ==
    ASSUME MigrationInv, Execute, command.op = "token"
    PROVE  report.key \in approvals /\ TokensMoved
<1>1. /\ Built /\ ~landed /\ world' = Executed(world, report.message)
      /\ Succeeds(world, report.message)
  BY DEF Execute
<1>2. /\ command \in Commands /\ NextReads = TokenReads(command, seen)
      /\ NextReads \subseteq DOMAIN seen /\ ~Refused(command, seen)
      /\ report = Output(command, seen)
      /\ DOMAIN seen \subseteq DOMAIN world /\ Consistent(world)
      /\ \A a \in DOMAIN seen : seen[a] \in Accounts /\ KindKept(seen[a], world[a])
                                /\ (a \notin touched => world[a] = seen[a])
  BY <1>1 DEF MigrationInv, NextReads
<1>3. PICK c, s, w, v, m, key, amount, from, to, ixs :
          /\ c = command /\ s = seen /\ w = world /\ v = world' /\ m = report.moved
          /\ key = Key(c, s) /\ amount = Amount(c, s) /\ from = Source(c, s) /\ to = Destination(c, s)
          /\ ixs = Sending(c, s) \o Closing(c, s) \o <<Memo(Pda[Key(c, s)])>>
  OBVIOUS
<1>4. MovesTokens(c, s, w)
  BY <1>2, <1>3 DEF MovesTokens, Consistent
<1>5. /\ key \in OnCurve /\ RentRecipient(c, s) \in Address /\ amount \in Nat
      /\ s[c.mint] \in Mints /\ c.mint \in DOMAIN s /\ from # to
      /\ amount = 0 => Closes(c, s)
      /\ amount > 0 => /\ to \in DOMAIN s
                       /\ HasDestination(c, s) => s[to].owner = Pda[key]
  BY <1>3, <1>4, TokenAccepted DEF MovesTokens
<1>6. report = TokenReport(c, s) /\ report = Report(key, ixs, m) /\ Len(ixs) \in 0..5
  <2>1. report = TokenReport(c, s)
    BY <1>2, <1>3, Operations
  <2> QED
    BY <1>3, <2>1, TokenMessage
<1>7. /\ report.key \in approvals /\ report.newOwner = Pda[key]
      /\ report.message = Message(Pda[key], ixs)
  BY <1>5, <1>6, NewAuthoritySigned
<1>8. TokensMovedBy(c, s, w, v)
  <2>1. PICK message : message = report.message
    OBVIOUS
  <2>2. message.instructions = ixs
    BY <1>7, <2>1 DEF Message
  <2>3. Leads(w, message.instructions, Executed(w, message))
    BY <1>1, <1>3, <1>6, <2>1, <2>2, MessageLeads
  <2>4. Leads(w, ixs, v)
    BY <1>1, <1>3, <2>1, <2>2, <2>3
  <2> QED
    BY <1>3, <1>4, <2>4, TokensRun
<1>9. /\ m.amount = amount /\ m.from = from /\ m.to = to
      /\ m.funder = IF amount > 0 /\ ~HasDestination(c, s) THEN Funder(c, s) ELSE Nobody
      /\ m.fee <=> amount > 0 /\ s[c.mint].fee > 0
      /\ m.rentRecipient = IF Closes(c, s) THEN RentRecipient(c, s) ELSE Nobody
  <2>1. m = TokenReport(c, s).moved
    BY <1>3, <1>6
  <2>2. /\ m.amount = Amount(c, s) /\ m.from = Source(c, s) /\ m.to = Destination(c, s)
        /\ m.funder = IF Amount(c, s) > 0 /\ ~HasDestination(c, s) THEN Funder(c, s) ELSE Nobody
        /\ m.fee <=> Amount(c, s) > 0 /\ s[c.mint].fee > 0
        /\ m.rentRecipient = IF Closes(c, s) THEN RentRecipient(c, s) ELSE Nobody
    BY <2>1, TokenMoved
  <2> QED
    BY <1>3, <2>2
<1>10. Nobody \notin Address /\ DOMAIN w \subseteq Address
  BY <1>4, NamesAssumption DEF MovesTokens
<1>11. \A a \in DOMAIN w \ {from} :
          /\ amount > 0 => a # to /\ (HasDestination(c, s) \/ a # Funder(c, s))
          /\ Closes(c, s) => a # RentRecipient(c, s)
          => v[a] = w[a]
  BY <1>3, <1>8 DEF TokensMovedBy
<1>12. \A a \in DOMAIN w \ {m.from, m.to, m.funder, m.rentRecipient} : v[a] = w[a]
  BY <1>9, <1>11
<1>13. m.amount = 0 => \A a \in DOMAIN w \ {m.from, m.rentRecipient} : v[a] = w[a]
  BY <1>9, <1>11
<1>14. m.funder = Nobody => \A a \in DOMAIN w \ {m.from, m.to, m.rentRecipient} : v[a] = w[a]
  BY <1>9, <1>10, <1>11
<1>15. ASSUME m.amount # 0
       PROVE  /\ v[m.to].owner = report.newOwner \/ m.to \in touched
              /\ Balance(v[m.to]) = Balance(w[m.to]) + m.amount
                        - (IF m.fee THEN Fee(w[c.mint], m.amount) ELSE 0)
  <2>1. amount > 0
    BY <1>5, <1>9, <1>15
  <2>2. /\ v[to] \in TokenAccounts
        /\ v[to].amount = Balance(w[to]) + amount - Fee(w[c.mint], amount)
        /\ v[to].owner = IF HasDestination(c, s) THEN w[to].owner ELSE Pda[key]
    BY <1>3, <1>8, <2>1 DEF TokensMovedBy
  <2>3. v[to].owner = Pda[key] \/ to \in touched
    BY <1>2, <1>3, <1>5, <2>1, <2>2
  <2>4. Fee(w[c.mint], amount) = IF m.fee THEN Fee(w[c.mint], amount) ELSE 0
    <3>1. w[c.mint] \in Mints /\ w[c.mint].fee = s[c.mint].fee /\ s[c.mint].fee \in Nat
      BY <1>2, <1>3, <1>5 DEF KindKept, Mints
    <3>2. ~m.fee => w[c.mint].fee = 0
      BY <1>9, <2>1, <3>1
    <3> QED
      BY <1>5, <3>1, <3>2, FeeFacts
  <2>5. Balance(v[to]) = v[to].amount
    <3>1. v[to] # Missing
      BY <2>2, Lamports DEF Accounts, Movable
    <3> QED
      BY <3>1 DEF Balance
  <2>6. Balance(v[to]) = Balance(w[to]) + amount - (IF m.fee THEN Fee(w[c.mint], amount) ELSE 0)
    BY <2>2, <2>4, <2>5
  <2> QED
    BY <1>7, <1>9, <2>3, <2>6
<1>16. IF m.rentRecipient = Nobody THEN v[m.from].amount = w[m.from].amount - m.amount
       ELSE v[m.from] = Missing /\ w[m.from].amount = m.amount
  <2>1. m.rentRecipient = Nobody <=> ~Closes(c, s)
    BY <1>5, <1>9, <1>10
  <2>2. IF Closes(c, s) THEN v[from] = Missing /\ w[from].amount = amount
                        ELSE v[from].amount = w[from].amount - amount
    BY <1>3, <1>8 DEF TokensMovedBy
  <2> QED
    BY <1>9, <2>1, <2>2
<1> QED
  BY <1>3, <1>7, <1>12, <1>13, <1>14, <1>15, <1>16 DEF TokensMoved, Kept

------------------------------------------------------------------------------
(* The message does what was reported.                                            *)

\* A step that runs the message moves what the command reported.
LEMMA ExecuteMoves ==
    ASSUME MigrationInv, Execute
    PROVE  /\ report.key \in approvals
           /\ CASE command.op = "sol" -> SolMoved
                [] command.op = "token" -> TokensMoved
                [] OTHER -> RolesMoved
<1>1. command.op \in {"mint", "stake", "vote", "program", "sol", "token"}
  BY Arguments DEF MigrationInv, Execute, Scanning
<1>2. CASE command.op = "sol"
  BY <1>2, SolMove
<1>3. CASE command.op = "token"
  BY <1>3, TokensMove
<1>4. CASE RoleCommand(command)
  BY <1>4, RolesMove DEF RoleCommand
<1> QED
  BY <1>1, <1>2, <1>3, <1>4 DEF RoleCommand

\* No other step runs it, so MovesWhatItReports holds for every world, command and
\* sequence of changes by others: the effects are the reported ones whenever it lands.
THEOREM MigrationMovesWhatItReports == Spec => MovesWhatItReports
<1>1. ASSUME MigrationInv, [Next]_vars
      PROVE  [~landed /\ landed' =>
                /\ report.key \in approvals
                /\ CASE command.op = "sol" -> SolMoved
                     [] command.op = "token" -> TokensMoved
                     [] OTHER -> RolesMoved]_vars
  <2> SUFFICES ASSUME ~landed, landed'
               PROVE  /\ report.key \in approvals
                      /\ CASE command.op = "sol" -> SolMoved
                           [] command.op = "token" -> TokensMoved
                           [] OTHER -> RolesMoved
    OBVIOUS
  <2>1. CASE Execute
    BY <1>1, <2>1, ExecuteMoves
  <2>2. CASE Read \/ Build \/ \E k \in OnCurve : Approve(k)
    BY <2>2 DEF Read, Build, Approve
  <2>3. CASE \E category \in Categories : Query(category) \/ QueryFails(category)
    BY <2>3 DEF Query, QueryFails
  <2>4. CASE \E a \in DOMAIN world : Change(a)
    BY <2>4 DEF Change
  <2>5. CASE UNCHANGED vars
    BY <2>5 DEF vars
  <2> QED
    BY <1>1, <2>1, <2>2, <2>3, <2>4, <2>5 DEF Next
<1>2. Spec => []MigrationInv
  BY Migrates
<1> QED
  BY <1>1, <1>2, PTL DEF Spec, MovesWhatItReports

------------------------------------------------------------------------------
(* Messages run while nothing changes.                                            *)

\* A message that a report has is signed by all that its instructions need.
LEMMA ReportSigned ==
    ASSUME NEW key, NEW ixs, NEW moved, DOMAIN ixs = 1..Len(ixs), NEW message,
           message = Report(key, ixs, moved).message
    PROVE  /\ message.instructions = ixs
           /\ \A n \in 1..Len(ixs) : ixs[n].signers \subseteq message.signers
<1>1. message = Message(Pda[key], ixs)
  BY DEF Report
<1> QED
  BY <1>1, SignersOfMessage

(* The instruction gives a role away with its holder's signature and, if the lockup of    *)
(* a stake account is in force, the custodian's.                                     *)
HolderGives(w, ix) ==
    LET account == w[ix.account]
    IN  /\ account \in Mints \cup Stakes \cup Votes \cup ProgramDatas
        /\ ix.op = "set role" /\ ix.role \in DOMAIN account.authority
        /\ ix.current = account.authority[ix.role] /\ ix.current \in ix.signers
        /\ StakeAccount(account) /\ ix.role = "withdrawer" /\ InForce(account, w[Clock])
                => account.lockup.custodian \in ix.signers

\* Such an instruction succeeds.
LEMMA HolderMay ==
    ASSUME NEW w, NEW ix, HolderGives(w, ix)
    PROVE  May(w, ix)
<1>1. PICK x, holder, role : x = w[ix.account] /\ role = ix.role /\ holder = x.authority[role]
  OBVIOUS
<1>2. /\ ix.op = "set role" /\ ix.current = holder /\ holder \in ix.signers
      /\ role \in DOMAIN x.authority /\ x \in Mints \cup Stakes \cup Votes \cup ProgramDatas
      /\ StakeAccount(x) /\ role = "withdrawer" /\ InForce(x, w[Clock])
            => x.lockup.custodian \in ix.signers
  BY <1>1 DEF HolderGives
<1>3. x # Missing
  <2>1. x.program # "none"
    BY <1>2 DEF Mints, Stakes, Votes, ProgramDatas
  <2> QED
    BY <2>1 DEF Missing
<1>4. holder \in {x.authority[r] : r \in IF role = "staker" THEN DOMAIN x.authority ELSE {role}}
  BY <1>1, <1>2
<1>5. MaySetRole(w, ix)
  BY <1>1, <1>2, <1>3, <1>4 DEF MaySetRole
<1> QED
  BY <1>2, <1>5, RoleEffect

\* What the lockup of a stake account asks for is known when its withdrawer is moved.
LEMMA CustodianSigns ==
    ASSUME NEW c \in Commands, RoleCommand(c), NEW s, NEW new, NEW role,
           AuthorityReads(c, s) \subseteq DOMAIN s, c.account \in DOMAIN s,
           role \in ToSet(MovedRoles(c, s)),
           StakeAccount(s[Moved(c, s)]), role = "withdrawer",
           c.op = "stake", InForce(s[Moved(c, s)], s[Clock])
    PROVE  Clock \in DOMAIN s /\ s[Moved(c, s)].lockup.custodian \in OtherSigners(c, s, new, role)
<1>1. Moved(c, s) = c.account /\ MovedRoles(c, s) = StakeRoles(c)
  BY Operations DEF Moved
<1>2. Contains(StakeRoles(c), "withdrawer")
  BY <1>1 DEF ToSet, Contains
<1>3. Clock \in DOMAIN s
  BY <1>2 DEF AuthorityReads
<1>4. s[c.account].lockup.custodian \in Custodian(c, s)
  BY <1>1, <1>2 DEF Custodian
<1> QED
  BY <1>1, <1>3, <1>4 DEF OtherSigners

\* Each of the roles may be given away when its turn comes.
LEMMA RolesMay ==
    ASSUME NEW c \in Commands, RoleCommand(c), NEW s, NEW w, Consistent(w),
           AuthorityReads(c, s) \subseteq DOMAIN s, ~Refused(c, s), DOMAIN s \subseteq DOMAIN w,
           \A a \in DOMAIN s : w[a] = s[a],
           NEW account, account = Moved(c, s), NEW roles, roles = MovedRoles(c, s),
           NEW new \in Address,
           NEW n \in 1..Len(roles), NEW others, others = OtherSigners(c, s, new, roles[n]),
           NEW u, NEW y, u[account] = y, Clock \in DOMAIN w => u[Clock] = w[Clock],
           y \in Mints \cup Stakes \cup Votes \cup ProgramDatas,
           StakeAccount(y) => StakeAccount(w[account]) /\ y.lockup = w[account].lockup,
           roles[n] \in DOMAIN y.authority,
           y.authority[roles[n]] = w[account].authority[roles[n]],
           NEW ix, ix = SetRole(account, roles[n], Holders(s[account], roles)[n], new, others)
    PROVE  May(u, ix)
<1>1. PICK x, role : x = w[account] /\ role = roles[n]
  OBVIOUS
<1>2. /\ account \in DOMAIN s /\ c.account \in DOMAIN s /\ s[account] = x
      /\ c.op = "mint" => x \in Mints
      /\ c.op = "vote" => x \in Votes
      /\ c.op = "program" => x \in ProgramDatas
      /\ c.op # "program" => account = c.account
  <2>1. \A a \in DOMAIN s : s[a] \in Accounts
    BY DEF Consistent
  <2> QED
    BY <1>1, <2>1, RolesAccepted
<1>3. ix = SetRole(account, role, y.authority[role], new, others)
  BY <1>1, <1>2 DEF Holders
<1>4. ASSUME StakeAccount(y), role = "withdrawer", InForce(y, u[Clock])
      PROVE  y.lockup.custodian \in others
  <2>1. StakeAccount(x) /\ c.op = "stake"
    <3>1. StakeAccount(x)
      BY <1>1, <1>4
    <3>2. \A q \in Mints \cup Votes \cup ProgramDatas : ~StakeAccount(q)
      BY DEF StakeAccount, Mints, Votes, ProgramDatas
    <3>3. c.op \notin {"mint", "vote", "program"}
      BY <1>2, <3>1, <3>2
    <3> QED
      BY <3>1, <3>3 DEF RoleCommand
  <2>2. role \in ToSet(MovedRoles(c, s))
    BY <1>1, RoleSeqFacts DEF ToSet
  <2>3. Contains(StakeRoles(c), "withdrawer")
    <3>1. roles = StakeRoles(c)
      BY <2>1, Operations
    <3> QED
      BY <1>1, <1>4, <3>1 DEF Contains
  <2>4. Clock \in DOMAIN s
    BY <1>2, <2>1, <2>3 DEF AuthorityReads
  <2>5. u[Clock] = s[Clock]
    BY <2>4
  <2>6. InForce(s[Moved(c, s)], s[Clock])
    BY <1>1, <1>2, <1>4, <2>5 DEF InForce
  <2>7. x.lockup.custodian \in OtherSigners(c, s, new, role)
    BY <1>1, <1>2, <1>4, <2>1, <2>2, <2>6, CustodianSigns
  <2> QED
    BY <1>1, <1>4, <2>7
<1>5. /\ ix.account = account /\ ix.role = role /\ ix.op = "set role"
      /\ ix.current = y.authority[role] /\ ix.signers = {y.authority[role]} \cup others
  <2>1. PICK holder, set : holder = y.authority[role] /\ set = SetRole(account, role, holder, new, others)
    OBVIOUS
  <2>2. /\ set.account = account /\ set.role = role /\ set.op = "set role"
        /\ set.current = holder /\ set.signers = {holder} \cup others
    BY <2>1 DEF SetRole
  <2> QED
    BY <1>3, <2>1, <2>2
<1>6. HolderGives(u, ix)
  BY <1>1, <1>4, <1>5 DEF HolderGives
<1> QED
  BY <1>6, HolderMay

\* A message that gives roles away runs if nothing changed.
LEMMA RolesSucceed ==
    ASSUME NEW c \in Commands, RoleCommand(c), NEW s, NEW w, Consistent(w),
           AuthorityReads(c, s) \subseteq DOMAIN s, ~Refused(c, s), DOMAIN s \subseteq DOMAIN w,
           \A a \in DOMAIN s : w[a] = s[a]
    PROVE  Succeeds(w, Output(c, s).message)
<1>1. PICK account, roles, holders, key, message, x, new :
          /\ account = Moved(c, s) /\ roles = MovedRoles(c, s)
          /\ holders = Holders(s[account], roles)
          /\ key = NewAuthority(c.key, holders[1])
          /\ message = Output(c, s).message /\ x = s[account] /\ new = Pda[key]
  OBVIOUS
<1>0. \A a \in DOMAIN s : s[a] \in Accounts
  BY DEF Consistent
<1>2. /\ account \in DOMAIN s /\ MovesRoles(c, s, account, roles)
      /\ x \in Mints \cup Stakes \cup Votes \cup ProgramDatas
  BY <1>0, <1>1, RolesAccepted DEF RoleCommand
<1>3. key \in OnCurve /\ new \in Address
  <2>1. key \in OnCurve
    BY <1>1, <1>2, RolesKey DEF MovesRoles
  <2> QED
    BY <1>1, <2>1, MigrationAssumption
<1>4. PICK ixs, others :
          /\ GivesRoles(ixs, account, roles, holders, new, others)
          /\ others = [n \in 1..Len(roles) |-> OtherSigners(c, s, new, roles[n])]
          /\ Output(c, s) = Report(key, ixs, ToSet(roles))
  BY <1>1, <1>2 DEF MovesRoles
<1>5. /\ roles \in RoleSeqs /\ account \in DOMAIN w /\ w[account] = x
      /\ ToSet(roles) \subseteq DOMAIN x.authority
  BY <1>1, <1>2 DEF MovesRoles
<1>6. PICK k \in 1..2, m \in 1..3 :
          /\ k = Len(roles) /\ m = Len(ixs) /\ (m = k \/ m = k + 1)
  <2>0. PICK k \in 1..2 : k = Len(roles)
    BY <1>5, RoleSeqFacts
  <2>1. PICK m : k = Len(roles) /\ m = Len(ixs)
    BY <2>0
  <2>2. m = k \/ m = k + 1
    BY <1>4, <2>1 DEF GivesRoles
  <2>3. m \in 1..3
    BY <2>2
  <2> QED
    BY <2>1, <2>2, <2>3
<1>7. /\ message.instructions = ixs
      /\ \A n \in 1..m : ixs[n].signers \subseteq message.signers
  <2>1. DOMAIN ixs = 1..Len(ixs)
    BY <1>4 DEF GivesRoles
  <2> QED
    BY <1>1, <1>4, <1>6, <2>1, ReportSigned
<1>8. PICK after :
          /\ after[0] = w /\ \A n \in 1..m : after[n] = Do(after[n - 1], ixs[n])
          /\ Succeeds(w, message) <=>
                /\ \A n \in 1..m : ixs[n].signers \subseteq message.signers /\ May(after[n - 1], ixs[n])
                /\ \A a \in DOMAIN w :
                      Executed(w, message)[a] = w[a] \/ RentExempt(Executed(w, message)[a])
  <2>1. Len(message.instructions) \in 0..5
    BY <1>6, <1>7
  <2>2. PICK after :
            /\ after[0] = w
            /\ \A n \in 1..Len(message.instructions) :
                  after[n] = Do(after[n - 1], message.instructions[n])
            /\ Succeeds(w, message) <=>
                  /\ \A n \in 1..Len(message.instructions) :
                        /\ message.instructions[n].signers \subseteq message.signers
                        /\ May(after[n - 1], message.instructions[n])
                  /\ \A a \in DOMAIN w :
                        Executed(w, message)[a] = w[a] \/ RentExempt(Executed(w, message)[a])
    BY <2>1, MessageRuns
  <2> QED
    BY <1>6, <1>7, <2>2
<1>9. \A n \in 1..k : /\ ixs[n] = SetRole(account, roles[n], holders[n], new, others[n])
                      /\ others[n] = OtherSigners(c, s, new, roles[n])
                      /\ roles[n] \in DOMAIN x.authority
  <2>1. \A n \in 1..k : ixs[n] = SetRole(account, roles[n], holders[n], new, others[n])
    BY <1>4, <1>6 DEF GivesRoles
  <2>2. \A n \in 1..k : others[n] = OtherSigners(c, s, new, roles[n])
    BY <1>4, <1>6
  <2>3. \A n \in 1..k : roles[n] \in DOMAIN x.authority
    BY <1>5, <1>6, RoleSeqFacts
  <2> QED
    BY <2>1, <2>2, <2>3
<1>10. Clock \in DOMAIN w => Clock # account
  <2>1. Clock \in DOMAIN w => w[Clock] \in Sysvars
    BY DEF Consistent
  <2> QED
    BY <1>2, <1>5, <2>1, KindsDiffer
<1>11. May(after[0], ixs[1])
  <2>1. 1 \in 1..k /\ 1 \in 1..Len(roles)
    BY <1>6
  <2>2. /\ ixs[1] = SetRole(account, roles[1], Holders(s[account], roles)[1], new, others[1])
        /\ others[1] = OtherSigners(c, s, new, roles[1])
        /\ roles[1] \in DOMAIN x.authority
    BY <1>1, <1>9, <2>1
  <2>3. PICK ix, other : ix = ixs[1] /\ other = others[1]
    OBVIOUS
  <2>4. /\ StakeAccount(x) => StakeAccount(w[account]) /\ x.lockup = w[account].lockup
        /\ x.authority[roles[1]] = w[account].authority[roles[1]]
    BY <1>5
  <2>5. account = Moved(c, s) /\ roles = MovedRoles(c, s)
    BY <1>1
  <2>6. May(w, ix)
    BY <1>2, <1>3, <1>5, <2>1, <2>2, <2>3, <2>4, <2>5, RolesMay, SMTT(30)
  <2> QED
    BY <1>8, <2>3, <2>6
<1>12. ASSUME k = 2 PROVE May(after[1], ixs[2])
  <2>1. 1 \in 1..k /\ 2 \in 1..k /\ 1 \in 1..m /\ 1 - 1 = 0
    BY <1>6, <1>12
  <2>2. roles[1] # roles[2]
    BY <1>5, <1>6, <2>1, RoleSeqFacts
  <2>3. PICK r, u, ix : r = roles[1] /\ u = after[1] /\ ix = ixs[1]
    OBVIOUS
  <2>4. ix.op = "set role" /\ ix.account = account /\ ix.role = r /\ ix.new = new
    <3>1. ix = SetRole(account, r, holders[1], new, others[1])
      BY <1>9, <2>1, <2>3
    <3> QED
      BY <3>1 DEF SetRole
  <2>5. u = Do(w, ix)
    BY <1>8, <2>1, <2>3
  <2>6. u = [w EXCEPT ![account].authority[r] = new]
    <3>1. Do(w, ix) = [w EXCEPT ![ix.account].authority[ix.role] = ix.new]
      BY <2>4, RoleEffect
    <3> QED
      BY <2>4, <2>5, <3>1
  <2>7. PICK y : y = [x EXCEPT !.authority[r] = new]
    OBVIOUS
  <2>8. u[account] = y /\ (Clock \in DOMAIN w => u[Clock] = w[Clock])
    BY <1>5, <1>10, <2>6, <2>7
  <2>9. r \in DOMAIN x.authority
    BY <1>9, <2>1, <2>3
  <2>10. y \in Mints \cup Stakes \cup Votes \cup ProgramDatas
    BY <1>2, <1>3, <2>7, <2>9, RolesKeepKinds
  <2>11. /\ DOMAIN y.authority = DOMAIN x.authority /\ y.program = x.program
         /\ StakeAccount(x) => y.lockup = x.lockup
         /\ y.authority[roles[2]] = x.authority[roles[2]]
    <3>1. /\ x = [f \in DOMAIN x |-> x[f]] /\ "authority" \in DOMAIN x
          /\ x.authority = [f \in DOMAIN x.authority |-> x.authority[f]]
      BY <1>2 DEF Mints, Stakes, Votes, ProgramDatas
    <3>2. y.authority = [x.authority EXCEPT ![r] = new]
      BY <2>7, <3>1
    <3>3. y.program = x.program
      BY <1>2, <2>7 DEF Mints, Stakes, Votes, ProgramDatas
    <3>4. ASSUME StakeAccount(x) PROVE y.lockup = x.lockup
      <4>1. x \in Stakes
        BY <1>2, <3>4 DEF StakeAccount, Mints, Votes, ProgramDatas
      <4> QED
        BY <2>7, <4>1 DEF Stakes
    <3> QED
      BY <2>2, <2>3, <3>2, <3>3, <3>4
  <2>12. StakeAccount(y) => StakeAccount(x)
    BY <2>11 DEF StakeAccount
  <2>13. /\ u[account] = y /\ roles[2] \in DOMAIN y.authority
         /\ y.authority[roles[2]] = w[account].authority[roles[2]]
         /\ StakeAccount(y) => StakeAccount(w[account]) /\ y.lockup = w[account].lockup
    BY <1>5, <1>9, <2>1, <2>8, <2>11, <2>12
  <2>14. ixs[2] = SetRole(account, roles[2], Holders(s[account], roles)[2], new, others[2])
    BY <1>1, <1>9, <2>1
  <2>15. May(u, ixs[2])
    BY <1>1, <1>3, <1>6, <1>9, <2>1, <2>8, <2>10, <2>13, <2>14, RolesMay, SMTT(30)
  <2> QED
    BY <2>3, <2>15
<1>13. \A n \in 1..m : n \notin 1..k => May(after[n - 1], ixs[n])
  <2> SUFFICES ASSUME NEW n \in 1..m, n \notin 1..k PROVE May(after[n - 1], ixs[n])
    OBVIOUS
  <2>1. ixs[n] = Memo(new)
    BY <1>4, <1>6 DEF GivesRoles
  <2>2. ixs[n].op = "memo"
    BY <2>1 DEF Memo
  <2> QED
    BY <2>2, MemoEffect
<1>14. \A n \in 1..m : May(after[n - 1], ixs[n])
  <2> SUFFICES ASSUME NEW n \in 1..m, n \in 1..k PROVE May(after[n - 1], ixs[n])
    BY <1>13
  <2>1. n = 1 \/ (n = 2 /\ k = 2)
    BY <1>6
  <2> QED
    BY <1>11, <1>12, <2>1
<1>15. \A a \in DOMAIN w :
          Executed(w, message)[a] = w[a] \/ RentExempt(Executed(w, message)[a])
  <2>1. OnlyRoles(Executed(w, message), w, account, ToSet(roles), new)
    <3>1. GivesRoles(message.instructions, account, roles, holders, new, others)
      BY <1>4, <1>7
    <3> QED
      BY <1>2, <1>5, <3>1, RolesGiven
  <2>2. PICK v : v = Executed(w, message)
    OBVIOUS
  <2>3. v[account].lamports = x.lamports
    <3>1. v[account] = WithRoles(x, ToSet(roles), new)
      BY <1>5, <2>1, <2>2 DEF OnlyRoles
    <3> QED
      BY <1>2, <3>1 DEF WithRoles, Mints, Stakes, Votes, ProgramDatas
  <2>4. RentExempt(v[account])
    BY <1>2, <2>3 DEF RentExempt, Mints, Stakes, Votes, ProgramDatas, Exempt
  <2> QED
    BY <2>1, <2>2, <2>4 DEF OnlyRoles
<1> QED
  BY <1>1, <1>7, <1>8, <1>14, <1>15

\* A message that moves SOL runs if nothing changed.
LEMMA SolSucceeds ==
    ASSUME NEW c \in Commands, c.op = "sol", NEW s, NEW w, Consistent(w),
           SolReads(c, s) \subseteq DOMAIN s, ~Refused(c, s), DOMAIN s \subseteq DOMAIN w,
           \A a \in DOMAIN s : w[a] = s[a]
    PROVE  Succeeds(w, Output(c, s).message)
<1>0. \A a \in DOMAIN s : s[a] \in Accounts
  BY DEF Consistent
<1>1. PICK key \in OnCurve, amount \in Nat \ {0} :
          /\ {c.owner, Pda[key]} \subseteq DOMAIN s /\ Pda[key] # c.owner
          /\ s[c.owner] \in Wallets /\ SystemAccount(s[c.owner])
          /\ amount = s[c.owner].lamports \/ amount + Rent <= s[c.owner].lamports
          /\ s[Pda[key]].lamports + amount >= Rent
          /\ Output(c, s) = Report(key, <<Transfer(c.owner, Pda[key], amount), Memo(Pda[key])>>,
                                   [lamports |-> amount,
                                    closes |-> amount = s[c.owner].lamports])
  BY <1>0, SolAccepted
<1>2. PICK from, to, message, v :
          /\ from = c.owner /\ to = Pda[key] /\ message = Output(c, s).message
          /\ v = Executed(w, message)
  OBVIOUS
<1>3. /\ message = Message(to, <<Transfer(from, to, amount), Memo(to)>>)
      /\ from \in DOMAIN w /\ to \in DOMAIN w /\ from # to
      /\ w[from] \in Wallets /\ SystemAccount(w[from]) /\ w[to] \in Accounts
      /\ amount = w[from].lamports \/ amount + Rent <= w[from].lamports
      /\ w[to].lamports + amount >= Rent
  BY <1>0, <1>1, <1>2 DEF Report
<1>4. v = Credit(Debit(w, from, amount), to, amount)
  BY <1>2, <1>3, SolRuns
<1>5. PICK m, n, r \in Nat : m = w[from].lamports /\ n = w[to].lamports /\ r = Rent /\ m \in Nat /\ n \in Nat
  BY <1>3, Lamports, MigrationAssumption DEF Accounts, Movable
<1>6. m >= amount
  BY <1>3, <1>5
<1>7. Paid(v, w, from, to, amount)
  BY <1>3, <1>4, <1>5, <1>6, TransferPays
<1>8. RentExempt(v[from])
  <2>1. v[from] = Missing \/ v[from].lamports = m - amount
    BY <1>5, <1>7 DEF Paid
  <2>2. v[from] = Missing \/ m - amount >= r
    BY <1>3, <1>5, <1>7 DEF Paid
  <2> QED
    BY <1>5, <2>1, <2>2 DEF RentExempt
<1>9. RentExempt(v[to])
  BY <1>3, <1>5, <1>7 DEF Paid, RentExempt
<1>10. \A a \in DOMAIN w : v[a] = w[a] \/ RentExempt(v[a])
  BY <1>7, <1>8, <1>9 DEF Paid
<1> QED
  BY <1>2, <1>3, <1>5, <1>6, <1>10, SolRuns

(* Every account that is different is gone or rent exempt.                             *)
Solvent(v, w) ==
    DOMAIN v = DOMAIN w /\ \A a \in DOMAIN w : v[a] = w[a] \/ RentExempt(v[a])

\* Parts of a message that leave every account rent exempt do so together.
LEMMA SolventTwice ==
    ASSUME NEW w, NEW u, NEW v, Solvent(u, w), Solvent(v, u)
    PROVE  Solvent(v, w)
BY DEF Solvent

\* An associated account can be created where nothing is, if somebody pays.
LEMMA CreateSucceeds ==
    ASSUME NEW w, NEW payer \in DOMAIN w, NEW owner, NEW mint, NEW program,
           NEW to \in DOMAIN w, to = Ata(owner, mint, program), w[to] = Missing,
           w[payer] \in Wallets, SystemAccount(w[payer]),
           w[payer].lamports = TokenRent \/ w[payer].lamports >= TokenRent + Rent
    PROVE  \E u : Leads(w, <<CreateAta(payer, owner, mint, program)>>, u) /\ Solvent(u, w)
<1>1. PICK ix, u, x, n, r, t :
          /\ ix = CreateAta(payer, owner, mint, program) /\ u = Do(w, ix) /\ x = w[payer]
          /\ n = x.lamports /\ r = Rent /\ t = TokenRent
  OBVIOUS
<1>2. /\ ix.op = "create" /\ ix.payer = payer /\ ix.owner = owner /\ ix.mint = mint
      /\ ix.account = to
  BY <1>1 DEF CreateAta
<1>3. n \in Nat /\ r \in Nat /\ t \in Nat /\ t >= r /\ (n = t \/ n >= t + r)
  BY <1>1, MigrationAssumption DEF Wallets
<1>4. n >= t
  BY <1>3
<1>5. May(w, ix)
  BY <1>1, <1>2, <1>4, CreateEffect
<1>6. u = [Debit(w, payer, t) EXCEPT ![to] = NewTokenAccount(w, ix)]
  BY <1>1, <1>2, CreateEffect
<1>7. NewTokenAccount(w, ix).lamports = t
  BY <1>1 DEF NewTokenAccount
<1>8. payer # to
  BY KindFacts
<1>9. /\ DOMAIN u = DOMAIN w /\ \A a \in DOMAIN w \ {payer, to} : u[a] = w[a]
      /\ u[to] = NewTokenAccount(w, ix) /\ u[payer] = Debited(x, t)
  BY <1>1, <1>6, <1>8 DEF Debit
<1>10. RentExempt(u[to])
  BY <1>1, <1>3, <1>7, <1>9 DEF RentExempt
<1>11. RentExempt(u[payer])
  <2>1. CASE n = t
    BY <1>1, <1>9, <2>1 DEF Debited, RentExempt
  <2>2. CASE n # t
    <3>1. n - t >= r
      BY <1>3, <2>2
    <3>2. u[payer] = [x EXCEPT !.lamports = n - t]
      BY <1>1, <1>9, <2>2 DEF Debited
    <3>3. u[payer].lamports = n - t
      BY <1>1, <3>2 DEF Wallets
    <3> QED
      BY <1>1, <3>1, <3>3 DEF RentExempt
  <2> QED
    BY <2>1, <2>2
<1>12. Leads(w, <<ix>>, u)
  BY <1>1, <1>5, LeadsShort
<1> QED
  BY <1>1, <1>9, <1>10, <1>11, <1>12 DEF Solvent

\* Tokens can be sent between open accounts of a mint without rules.
LEMMA TransferSucceeds ==
    ASSUME NEW w, NEW from \in DOMAIN w, NEW to \in DOMAIN w, from # to, NEW mint,
           w[from] \in TokenAccounts, w[to] \in TokenAccounts,
           w[from].mint = mint, w[to].mint = mint, w[mint] \in Mints, NEW amount \in Nat,
           w[from].amount >= amount, ~w[from].frozen, ~w[to].frozen, ~w[from].guard,
           w[mint].rule \notin {"hook", "non-transferable"}
    PROVE  \E u : /\ Leads(w, <<TransferChecked(from, mint, to, w[from].owner, amount)>>, u)
                  /\ Solvent(u, w) /\ \A a \in DOMAIN w \ {from, to} : u[a] = w[a]
                  /\ u[from] = [w[from] EXCEPT !.amount = @ - amount]
                  /\ u[to] \in TokenAccounts
<1>1. PICK ix, u, x, y, fee, owner :
          /\ x = w[from] /\ y = w[to] /\ fee = Fee(w[mint], amount) /\ owner = x.owner
          /\ ix = TransferChecked(from, mint, to, owner, amount) /\ u = Do(w, ix)
  OBVIOUS
<1>2. /\ ix.op = "transfer tokens" /\ ix.from = from /\ ix.to = to /\ ix.mint = mint
      /\ ix.amount = amount /\ ix.owner = owner
  BY <1>1 DEF TransferChecked
<1>3. IsTokenAccount(x, mint) /\ IsTokenAccount(y, mint)
  BY <1>1 DEF IsTokenAccount, TokenProgramAccount, TokenAccounts
<1>4. May(w, ix)
  <2>1. MayTransferTokens(w, ix)
    BY <1>1, <1>2, <1>3 DEF MayTransferTokens
  <2> QED
    BY <1>2, <2>1, TokensEffect
<1>5. u = [w EXCEPT ![from].amount = @ - amount, ![to].amount = @ + amount - fee,
                    ![to].withheld = @ + fee]
  <2>1. Do(w, ix) = [w EXCEPT ![ix.from].amount = @ - ix.amount,
                              ![ix.to].amount = @ + ix.amount - Fee(w[ix.mint], ix.amount),
                              ![ix.to].withheld = @ + Fee(w[ix.mint], ix.amount)]
    BY <1>2, TokensEffect
  <2>2. Fee(w[ix.mint], ix.amount) = fee
    BY <1>1, <1>2
  <2>3. Do(w, ix) = [w EXCEPT ![from].amount = @ - amount, ![to].amount = @ + amount - fee,
                              ![to].withheld = @ + fee]
    BY <1>2, <2>1, <2>2
  <2> QED
    BY <1>1, <2>3
<1>6. Leads(w, <<ix>>, u)
  <2>1. u = Do(w, ix)
    BY <1>1
  <2> QED
    BY <1>4, <2>1, LeadsShort
<1>7. PICK m, n, k : m = x.amount - amount /\ n = y.amount + amount - fee /\ k = y.withheld + fee
  OBVIOUS
<1>8. m \in Nat /\ n \in Nat /\ k \in Nat
  <2>1. fee \in 0..amount
    BY <1>1, FeeFacts
  <2>2. x.amount \in Nat /\ y.amount \in Nat /\ y.withheld \in Nat /\ x.amount >= amount
    BY <1>1 DEF TokenAccounts
  <2> QED
    BY <1>7, <2>1, <2>2
<1>9. /\ DOMAIN u = DOMAIN w /\ \A a \in DOMAIN w \ {from, to} : u[a] = w[a]
      /\ u[from] = [x EXCEPT !.amount = m]
      /\ u[to] = [x EXCEPT !.amount = n] \/ u[to] = [y EXCEPT !.amount = n, !.withheld = k]
  BY <1>1, <1>5, <1>7 DEF TokenAccounts
<1>10. u[to] = [y EXCEPT !.amount = n, !.withheld = k]
  BY <1>1, <1>5, <1>7 DEF TokenAccounts
<1>11. u[from] \in TokenAccounts /\ u[to] \in TokenAccounts
  <2>1. x \in TokenAccounts /\ y \in TokenAccounts
    BY <1>1
  <2>2. u[from] \in TokenAccounts
    BY <1>8, <1>9, <2>1 DEF TokenAccounts
  <2>3. u[to] \in TokenAccounts
    BY <1>8, <1>10, <2>1 DEF TokenAccounts
  <2> QED
    BY <2>2, <2>3
<1>12. RentExempt(u[from]) /\ RentExempt(u[to])
  BY <1>11 DEF RentExempt, TokenAccounts, Exempt
<1> QED
  BY <1>1, <1>6, <1>7, <1>9, <1>11, <1>12 DEF Solvent

\* An empty account can be closed by whoever may, once its fees are harvested.
LEMMA CloseSucceeds ==
    ASSUME NEW w, NEW a \in DOMAIN w, w[a] \in TokenAccounts, w[a].amount = 0,
           ~w[a].confidential, NEW to, to # a, \A b \in DOMAIN w : w[b] \in Accounts,
           NEW authority,
           authority = IF w[a].closeAuthority = Nobody THEN w[a].owner ELSE w[a].closeAuthority,
           NEW instructions, instructions = IF w[a].withheld > 0 THEN <<Harvest(a)>> ELSE <<>>
    PROVE  \E v : Leads(w, instructions \o <<Close(a, to, authority)>>, v) /\ Solvent(v, w)
<1>1. PICK x, y, u : /\ x = w[a] /\ y = [x EXCEPT !.withheld = 0]
                     /\ u = IF x.withheld > 0 THEN [w EXCEPT ![a] = y] ELSE w
  OBVIOUS
<1>2. /\ y \in TokenAccounts /\ y.withheld = 0 /\ y.amount = 0 /\ ~y.confidential
      /\ authority = IF y.closeAuthority = Nobody THEN y.owner ELSE y.closeAuthority
      /\ ~(x.withheld > 0) => y = x
  BY <1>1 DEF TokenAccounts
<1>3. DOMAIN u = DOMAIN w /\ u[a] = y /\ \A b \in DOMAIN w \ {a} : u[b] = w[b]
  BY <1>1, <1>2
<1>4. Leads(w, instructions, u)
  <2>1. CASE x.withheld > 0
    <3>1. PICK ix : ix = Harvest(a)
      OBVIOUS
    <3>2. ix.op = "harvest" /\ ix.account = a
      BY <3>1 DEF Harvest
    <3>3. TokenProgramAccount(x)
      BY <1>1, KindFacts
    <3>4. Do(w, ix) = [w EXCEPT ![a].withheld = 0] /\ May(w, ix)
      BY <1>1, <3>2, <3>3, HarvestEffect
    <3>5. u = Do(w, ix)
      BY <1>1, <2>1, <3>4
    <3> QED
      BY <1>1, <2>1, <3>1, <3>4, <3>5, LeadsShort
  <2>2. CASE ~(x.withheld > 0)
    <3>1. u = w
      BY <1>1, <2>2
    <3> QED
      BY <1>1, <2>2, <3>1, LeadsShort
  <2> QED
    BY <2>1, <2>2
<1>5. PICK ix, v : ix = Close(a, to, authority) /\ v = Do(u, ix)
  OBVIOUS
<1>6. ix.op = "close" /\ ix.account = a /\ ix.to = to /\ ix.authority = authority
  BY <1>5 DEF Close
<1>7. May(u, ix)
  <2>1. TokenProgramAccount(y)
    BY <1>2, KindFacts
  <2>2. MayClose(u, ix)
    BY <1>2, <1>3, <1>6, <2>1 DEF MayClose
  <2> QED
    BY <1>6, <2>2, CloseEffect
<1>8. Leads(w, instructions \o <<ix>>, v)
  <2>1. IsSequence(instructions) /\ IsSequence(<<ix>>)
    BY Short
  <2>2. Leads(u, <<ix>>, v)
    BY <1>5, <1>7, LeadsShort
  <2> QED
    BY <1>4, <2>1, <2>2, LeadsJoined
<1>9. v = [Credit(u, to, y.lamports) EXCEPT ![a] = Missing]
  BY <1>3, <1>5, <1>6, CloseEffect
<1>10. /\ DOMAIN v = DOMAIN w /\ v[a] = Missing /\ \A b \in DOMAIN w \ {a, to} : v[b] = w[b]
       /\ to \in DOMAIN w => v[to] = Credited(w[to], y.lamports)
  BY <1>3, <1>9 DEF Credit
<1>11. to \in DOMAIN w => RentExempt(v[to])
  <2> SUFFICES ASSUME to \in DOMAIN w PROVE RentExempt(v[to])
    OBVIOUS
  <2>0. w[to] \in Accounts /\ w[to].lamports \in Nat /\ y.lamports \in Nat
    BY <1>2, Lamports DEF TokenAccounts, Exempt
  <2>1. PICK z, m, n : z = w[to] /\ m = z.lamports /\ n = y.lamports /\ z \in Accounts
                       /\ m \in Nat /\ n \in Nat
    BY <2>0
  <2>2. n >= Rent /\ Rent \in Nat /\ Rent > 0
    BY <1>2, <2>1, MigrationAssumption DEF TokenAccounts, Exempt
  <2>3. v[to].lamports = m + n
    BY <1>10, <2>1, <2>2, CreditedFacts
  <2> QED
    BY <2>1, <2>2, <2>3 DEF RentExempt
<1>12. RentExempt(v[a])
  BY <1>10 DEF RentExempt
<1> QED
  BY <1>5, <1>8, <1>10, <1>11, <1>12 DEF Solvent

\* The tokens can be sent if nothing changed and the funder of an account pays for it.
LEMMA SendingSucceeds ==
    ASSUME NEW c \in Commands, c.op = "token", NEW s, NEW w, Consistent(w), UsedByTokensOnly(w),
           TokenReads(c, s) \subseteq DOMAIN s, ~Refused(c, s), DOMAIN s \subseteq DOMAIN w,
           \A a \in DOMAIN s : w[a] = s[a],
           Amount(c, s) > 0 /\ ~HasDestination(c, s) =>
                /\ Funder(c, s) \in DOMAIN w /\ SystemAccount(w[Funder(c, s)])
                /\ \/ w[Funder(c, s)].lamports = TokenRent
                   \/ w[Funder(c, s)].lamports >= TokenRent + Rent
    PROVE  \E u : /\ Leads(w, Sending(c, s), u) /\ Solvent(u, w)
                  /\ \A a \in DOMAIN w : w[a] \in Accounts => u[a] \in Accounts
                  /\ u[Source(c, s)] = IF Amount(c, s) > 0
                                       THEN [w[Source(c, s)] EXCEPT !.amount = @ - Amount(c, s)]
                                       ELSE w[Source(c, s)]
<1>0. \A a \in DOMAIN s : s[a] \in Accounts
  BY DEF Consistent
<1>1. PICK from, to, key, amount, p, mint, payer, owner, x, m :
          /\ from = Source(c, s) /\ to = Destination(c, s) /\ key = Key(c, s)
          /\ amount = Amount(c, s) /\ p = Program(c, s) /\ mint = c.mint
          /\ payer = Funder(c, s) /\ owner = Owner(c, s) /\ x = w[from] /\ m = w[mint]
  OBVIOUS
<1>2. /\ mint \in DOMAIN w /\ mint \in DOMAIN s /\ m \in Mints /\ p = m.program
      /\ from \in DOMAIN w /\ from \in DOMAIN s /\ x \in TokenAccounts /\ x.mint = mint
      /\ owner = x.owner /\ ~x.guard /\ key \in OnCurve
      /\ amount \in Nat /\ amount <= x.amount /\ from # to
  BY <1>0, <1>1, TokenAccepted DEF Program
<1>3. CASE amount = 0
  <2>1. ~(Amount(c, s) > 0)
    BY <1>1, <1>3
  <2>2. Leads(w, Sending(c, s), w)
    BY <2>1, LeadsShort DEF Sending
  <2>3. Solvent(w, w)
    BY DEF Solvent
  <2> QED
    BY <2>1, <2>2, <2>3
<1>4. CASE amount > 0
  <2>1. /\ to \in DOMAIN s /\ to \in DOMAIN w /\ ~x.frozen
        /\ m.rule \notin {"non-transferable", "hook"}
        /\ HasDestination(c, s) => /\ w[to] \in TokenAccounts /\ w[to].mint = mint
                                   /\ ~w[to].frozen
        /\ ~HasDestination(c, s) => /\ to = Ata(Pda[key], mint, p) /\ w[to].program # p
                                    /\ m.rule # "frozen"
    BY <1>0, <1>1, <1>2, <1>4, TokenAccepted
  <2>2. PICK first, last :
            /\ first = IF HasDestination(c, s) THEN <<>>
                       ELSE <<CreateAta(payer, Pda[key], mint, p)>>
            /\ last = <<TransferChecked(from, mint, to, owner, amount)>>
    OBVIOUS
  <2>3. Sending(c, s) = first \o last
    BY <1>1, <1>4, <2>2 DEF Sending, MoveTokens, Funder
  <2>4. \E u : /\ Leads(w, first, u) /\ Solvent(u, w) /\ u[from] = x /\ u[mint] = m
               /\ u[to] \in TokenAccounts /\ u[to].mint = mint /\ ~u[to].frozen
               /\ \A a \in DOMAIN w : w[a] \in Accounts => u[a] \in Accounts
    <3>1. CASE HasDestination(c, s)
      <4>1. Leads(w, first, w) /\ Solvent(w, w)
        BY <2>2, <3>1, LeadsShort DEF Solvent
      <4> QED
        BY <1>1, <2>1, <3>1, <4>1
    <3>2. CASE ~HasDestination(c, s)
      <4>1. w[to] = Missing
        <5>1. mint \in Address /\ Pda[key] \in Address /\ p \in {"token", "token2022"}
          BY <1>1, <1>2, MigrationAssumption DEF Mints, Consistent
        <5>2. w[to] # Missing => w[to].program = p
          BY <2>1, <3>2, <5>1 DEF UsedByTokensOnly
        <5> QED
          BY <2>1, <3>2, <5>2
      <4>2. /\ payer \in DOMAIN w /\ SystemAccount(w[payer])
            /\ w[payer].lamports = TokenRent \/ w[payer].lamports >= TokenRent + Rent
        BY <1>1, <1>4, <3>2
      <4>3. w[payer] \in Wallets
        BY <4>2, KindOf DEF Consistent
      <4>4. to = Ata(Pda[key], mint, p)
        BY <2>1, <3>2
      <4>5. PICK u : Leads(w, <<CreateAta(payer, Pda[key], mint, p)>>, u) /\ Solvent(u, w)
        BY <2>1, <4>1, <4>2, <4>3, <4>4, CreateSucceeds
      <4>6. Pda[key] \in Address /\ mint \in Address /\ w[mint] \in Mints
        BY <1>1, <1>2, MigrationAssumption DEF Consistent
      <4>7. \A a \in DOMAIN w : w[a] \in Accounts
        BY DEF Consistent
      <4>8. Creates(u, w, payer, Pda[key], mint, p, to)
        BY <1>2, <2>1, <4>4, <4>5, <4>6, <4>7, AccountCreated
      <4>9. PICK ix : ix = CreateAta(payer, Pda[key], mint, p)
        OBVIOUS
      <4>10. /\ u[to] = NewTokenAccount(w, ix) /\ u[to] \in TokenAccounts
             /\ \A a \in DOMAIN w : u[a] \in Accounts
             /\ u[mint] = m /\ payer # to /\ \A a \in DOMAIN w \ {payer, to} : u[a] = w[a]
        BY <1>1, <4>1, <4>8, <4>9 DEF Creates
      <4>11. u[to].mint = mint /\ ~u[to].frozen
        <5>1. ix.mint = mint
          BY <4>9 DEF CreateAta
        <5>2. u[to].mint = mint /\ u[to].frozen = (m.rule = "frozen")
          BY <1>1, <4>10, <5>1 DEF NewTokenAccount
        <5> QED
          BY <2>1, <3>2, <5>2
      <4>12. u[from] = x
        <5>1. ~SystemAccount(x)
          BY <1>2, KindFacts
        <5>2. from # payer
          BY <1>1, <4>2, <5>1
        <5> QED
          BY <1>1, <1>2, <4>10, <5>2
      <4>13. Leads(w, first, u) /\ Solvent(u, w)
        BY <2>2, <3>2, <4>5
      <4>14. /\ u[mint] = m /\ u[to] \in TokenAccounts
             /\ \A a \in DOMAIN w : w[a] \in Accounts => u[a] \in Accounts
        BY <4>10
      <4> QED
        BY <4>11, <4>12, <4>13, <4>14
    <3> QED
      BY <3>1, <3>2
  <2>5. PICK u : /\ Leads(w, first, u) /\ Solvent(u, w) /\ u[from] = x /\ u[mint] = m
                 /\ u[to] \in TokenAccounts /\ u[to].mint = mint /\ ~u[to].frozen
                 /\ \A a \in DOMAIN w : w[a] \in Accounts => u[a] \in Accounts
    BY <2>4
  <2>6. /\ from \in DOMAIN u /\ to \in DOMAIN u /\ DOMAIN u = DOMAIN w
        /\ u[from] \in TokenAccounts /\ u[from].mint = mint /\ u[mint] \in Mints
        /\ u[from].amount >= amount /\ ~u[from].frozen /\ ~u[from].guard
        /\ u[mint].rule \notin {"hook", "non-transferable"} /\ u[from].owner = owner
    <3>1. x.amount >= amount
      BY <1>2 DEF TokenAccounts
    <3> QED
      BY <1>2, <2>1, <2>5, <3>1 DEF Solvent
  <2>7. PICK v : /\ Leads(u, <<TransferChecked(from, mint, to, u[from].owner, amount)>>, v)
                 /\ Solvent(v, u) /\ \A a \in DOMAIN u \ {from, to} : v[a] = u[a]
                 /\ v[from] = [u[from] EXCEPT !.amount = @ - amount]
                 /\ v[to] \in TokenAccounts
    BY <1>2, <2>5, <2>6, TransferSucceeds
  <2>8. Leads(w, Sending(c, s), v)
    <3>1. Leads(u, last, v)
      BY <2>2, <2>6, <2>7
    <3>2. IsSequence(first) /\ IsSequence(last)
      BY <2>2, Short
    <3> QED
      BY <2>3, <2>5, <3>1, <3>2, LeadsJoined
  <2>9. Solvent(v, w)
    BY <2>5, <2>7, SolventTwice
  <2>10. v[from] = [x EXCEPT !.amount = @ - amount]
    BY <2>5, <2>7
  <2>11. v[from] \in TokenAccounts
    <3>1. x.amount - amount \in Nat
      BY <1>2 DEF TokenAccounts
    <3> QED
      BY <1>2, <2>10, <3>1 DEF TokenAccounts
  <2>12. \A a \in DOMAIN w : w[a] \in Accounts => v[a] \in Accounts
    <3>1. TokenAccounts \subseteq Accounts
      BY DEF Accounts, Movable
    <3> QED
      BY <2>5, <2>6, <2>7, <2>11, <3>1
  <2>13. v[Source(c, s)] = IF Amount(c, s) > 0
                           THEN [w[Source(c, s)] EXCEPT !.amount = @ - Amount(c, s)]
                           ELSE w[Source(c, s)]
    BY <1>1, <1>4, <2>10
  <2> QED
    BY <2>8, <2>9, <2>12, <2>13
<1> QED
  BY <1>2, <1>3, <1>4

\* A message that moves tokens runs if nothing changed and the funder pays.
LEMMA TokensSucceed ==
    ASSUME NEW c \in Commands, c.op = "token", NEW s, NEW w, Consistent(w), UsedByTokensOnly(w),
           TokenReads(c, s) \subseteq DOMAIN s, ~Refused(c, s), DOMAIN s \subseteq DOMAIN w,
           \A a \in DOMAIN s : w[a] = s[a],
           Amount(c, s) > 0 /\ ~HasDestination(c, s) =>
                /\ Funder(c, s) \in DOMAIN w /\ SystemAccount(w[Funder(c, s)])
                /\ \/ w[Funder(c, s)].lamports = TokenRent
                   \/ w[Funder(c, s)].lamports >= TokenRent + Rent
    PROVE  Succeeds(w, Output(c, s).message)
<1>0. \A a \in DOMAIN s : s[a] \in Accounts
  BY DEF Consistent
<1>1. PICK from, to, key, amount, rent, x, message, ixs :
          /\ from = Source(c, s) /\ to = Destination(c, s) /\ key = Key(c, s)
          /\ amount = Amount(c, s) /\ rent = RentRecipient(c, s) /\ x = w[from]
          /\ message = Output(c, s).message
          /\ ixs = Sending(c, s) \o Closing(c, s) \o <<Memo(Pda[key])>>
  OBVIOUS
<1>2. /\ from \in DOMAIN w /\ from \in DOMAIN s /\ x \in TokenAccounts /\ x = s[from]
      /\ Owner(c, s) = x.owner /\ amount \in Nat
      /\ Closes(c, s) => amount = x.amount /\ rent # from /\ ~x.confidential
  BY <1>0, <1>1, TokenAccepted
<1>3. PICK u : /\ Leads(w, Sending(c, s), u) /\ Solvent(u, w)
               /\ \A a \in DOMAIN w : u[a] \in Accounts
               /\ u[from] = IF amount > 0 THEN [x EXCEPT !.amount = @ - amount] ELSE x
  <2>1. \A a \in DOMAIN w : w[a] \in Accounts
    BY DEF Consistent
  <2>2. PICK u : /\ Leads(w, Sending(c, s), u) /\ Solvent(u, w)
                 /\ \A a \in DOMAIN w : w[a] \in Accounts => u[a] \in Accounts
                 /\ u[Source(c, s)] = IF Amount(c, s) > 0
                                      THEN [w[Source(c, s)] EXCEPT !.amount = @ - Amount(c, s)]
                                      ELSE w[Source(c, s)]
    BY SendingSucceeds
  <2> QED
    BY <1>1, <2>1, <2>2
<1>4. \E v : Leads(u, Closing(c, s), v) /\ Solvent(v, u)
  <2>1. CASE ~Closes(c, s)
    <3>1. Leads(u, Closing(c, s), u)
      BY <2>1, LeadsShort DEF Closing
    <3> QED
      BY <3>1 DEF Solvent
  <2>2. CASE Closes(c, s)
    <3>1. PICK y : y = u[from]
      OBVIOUS
    <3>2. /\ y \in TokenAccounts /\ y.amount = 0 /\ ~y.confidential
          /\ y.closeAuthority = x.closeAuthority /\ y.owner = x.owner /\ y.withheld = x.withheld
      <4>1. CASE amount > 0
        <5>1. y = [x EXCEPT !.amount = 0]
          <6>1. y = [x EXCEPT !.amount = @ - amount] /\ x.amount = amount
            BY <1>2, <1>3, <2>2, <3>1, <4>1
          <6>2. x.amount - amount = 0
            BY <1>2, <6>1
          <6> QED
            BY <1>2, <6>1, <6>2
        <5> QED
          BY <1>2, <2>2, <5>1 DEF TokenAccounts
      <4>2. CASE ~(amount > 0)
        <5>1. y = x /\ amount = 0
          BY <1>2, <1>3, <3>1, <4>2
        <5> QED
          BY <1>2, <2>2, <5>1
      <4> QED
        BY <4>1, <4>2
    <3>3. PICK instructions, authority :
              /\ instructions = IF x.withheld > 0 THEN <<Harvest(from)>> ELSE <<>>
              /\ authority = IF x.closeAuthority = Nobody THEN x.owner ELSE x.closeAuthority
      OBVIOUS
    <3>4. Closing(c, s) = instructions \o <<Close(from, rent, authority)>>
      BY <1>1, <1>2, <2>2, <3>3 DEF Closing, CloseSource
    <3>5. /\ from \in DOMAIN u /\ u[from] \in TokenAccounts /\ u[from].amount = 0
          /\ ~u[from].confidential /\ rent # from /\ \A b \in DOMAIN u : u[b] \in Accounts
      BY <1>2, <1>3, <2>2, <3>1, <3>2 DEF Solvent
    <3>6. /\ authority = IF u[from].closeAuthority = Nobody THEN u[from].owner
                                                           ELSE u[from].closeAuthority
          /\ instructions = IF u[from].withheld > 0 THEN <<Harvest(from)>> ELSE <<>>
      BY <3>1, <3>2, <3>3
    <3>7. \E v : Leads(u, instructions \o <<Close(from, rent, authority)>>, v) /\ Solvent(v, u)
      BY <3>5, <3>6, CloseSucceeds
    <3> QED
      BY <3>4, <3>7
  <2> QED
    BY <2>1, <2>2
<1>5. PICK v : Leads(u, Closing(c, s), v) /\ Solvent(v, u)
  BY <1>4
<1>6. Leads(w, ixs, v)
  BY <1>1, <1>3, <1>5, TokenParts
<1>7. Solvent(v, w)
  BY <1>3, <1>5, SolventTwice
<1>8. /\ IsSequence(ixs) /\ Len(ixs) \in 0..5
      /\ message = Report(key, ixs, TokenReport(c, s).moved).message
  <2>1. Output(c, s) = TokenReport(c, s)
    BY Operations
  <2> QED
    BY <1>1, <2>1, TokenMessage
<1>9. /\ message.instructions = ixs
      /\ \A n \in 1..Len(ixs) : ixs[n].signers \subseteq message.signers
  <2>1. DOMAIN ixs = 1..Len(ixs)
    BY <1>8 DEF IsSequence
  <2> QED
    BY <1>8, <2>1, ReportSigned
<1>10. v = Executed(w, message)
  BY <1>6, <1>8, <1>9, MessageLeads
<1>11. Succeeds(w, message)
  BY <1>6, <1>7, <1>8, <1>9, <1>10, MessageLeads DEF Solvent
<1> QED
  BY <1>1, <1>11

\* A message that was built runs as long as nothing changes: neither the other programs'
\* rules nor a lockup, a close authority, withheld fees or the rent minimum are in its way,
\* whatever the accounts, the command and the number of instructions.
THEOREM MigrationRunsIfUnchanged == Spec => []RunsIfUnchanged
<1>1. ASSUME MigrationInv PROVE RunsIfUnchanged
  <2> SUFFICES ASSUME Built, ~landed, touched = {}, FunderPays
               PROVE  Succeeds(world, report.message)
    BY DEF RunsIfUnchanged
  <2>1. /\ command \in Commands /\ command.op # "scan" /\ NextReads \subseteq DOMAIN seen
        /\ ~Refused(command, seen) /\ report = Output(command, seen)
        /\ Consistent(world) /\ DOMAIN seen \subseteq DOMAIN world
        /\ \A a \in DOMAIN seen : world[a] = seen[a]
        /\ UsedByTokensOnly(world)
    BY <1>1 DEF MigrationInv, Scanning
  <2>2. CASE RoleCommand(command)
    <3>1. AuthorityReads(command, seen) \subseteq DOMAIN seen
      BY <2>1, <2>2 DEF RoleCommand, NextReads
    <3> QED
      BY <2>1, <2>2, <3>1, RolesSucceed
  <2>3. CASE command.op = "sol"
    <3>1. SolReads(command, seen) \subseteq DOMAIN seen
      BY <2>1, <2>3 DEF NextReads
    <3> QED
      BY <2>1, <2>3, <3>1, SolSucceeds
  <2>4. CASE command.op = "token"
    <3>1. TokenReads(command, seen) \subseteq DOMAIN seen
      BY <2>1, <2>4 DEF NextReads
    <3>2. PICK c, s, w, payer : c = command /\ s = seen /\ w = world /\ payer = Funder(c, s)
      OBVIOUS
    <3>3. report.moved.funder = IF Amount(c, s) > 0 /\ ~HasDestination(c, s)
                                THEN payer ELSE Nobody
      <4>1. report.moved = TokenReport(c, s).moved
        BY <2>1, <2>4, <3>2, Operations
      <4> QED
        BY <3>2, <4>1, TokenMoved
    <3>4. payer # Nobody
      <4>1. Owner(c, s) \in Address
        <5>1. \A a \in DOMAIN s : s[a] \in Accounts
          BY <2>1, <3>2 DEF Consistent
        <5>2. /\ Source(c, s) \in DOMAIN s /\ s[Source(c, s)] \in TokenAccounts
              /\ Owner(c, s) = s[Source(c, s)].owner
          BY <2>1, <2>4, <3>1, <3>2, <5>1, TokenAccepted
        <5> QED
          BY <5>2 DEF TokenAccounts
      <4>2. payer \in Address
        BY <2>1, <2>4, <3>2, <4>1, Arguments DEF Funder, Given
      <4> QED
        BY <4>2, NamesAssumption
    <3>5. Amount(c, s) > 0 /\ ~HasDestination(c, s) =>
                /\ payer \in DOMAIN w /\ SystemAccount(w[payer])
                /\ w[payer].lamports = TokenRent \/ w[payer].lamports >= TokenRent + Rent
      BY <2>4, <3>2, <3>3, <3>4 DEF FunderPays
    <3> QED
      BY <2>1, <2>4, <3>1, <3>2, <3>5, TokensSucceed
  <2> QED
    BY <2>1, <2>2, <2>3, <2>4, Arguments DEF RoleCommand
<1>2. Spec => []MigrationInv
  BY Migrates
<1> QED
  BY <1>1, <1>2, PTL

------------------------------------------------------------------------------
(* Scans.                                                                         *)

(* Whether an account is asked for by the n-th query of a category, whose first answer   *)
(* was `first`.                                                                     *)
Asked(category, n, first, a, account) ==
    CASE category = "stake"   ->
            StakeMatches(account, <<"staker", "withdrawer">>[n], command.owner)
      [] category = "vote"    -> VoteMatches(account, command.owner)
      [] category = "program" ->
            IF n = 1 THEN IsProgramData(account) /\ HoldsRole(account, "upgrade", command.owner)
                     ELSE IsProgram(account) /\ account.data = SetToSeq(DOMAIN first)[n - 1]
      [] category = "mint"    -> MintMatches(account, MintQueries[n], command.owner)
      [] category = "token"   -> TokenMatches(account, <<"token", "token2022">>[n], command.owner)
      [] category = "sol"     -> a = command.owner /\ account # Missing

(* What is remembered of an address: nothing if nobody touched it, or if it holds a        *)
(* program, and otherwise accounts of the kind of the one there now.                        *)
Remembered(a) ==
    /\ a \notin touched => past[a] = {}
    /\ \A x \in past[a] : x \in Accounts /\ KindKept(x, world[a])
    /\ world[a] \in Programs => past[a] = {}
    /\ Contents(a) \subseteq TokenAccounts =>
          \A x \in Contents(a) : x.program = world[a].program

(* An answer has accounts as they were at some moment, if they were asked for, and all      *)
(* accounts that were asked for whatever they held.                                         *)
Recalls(category, answers, n) ==
    /\ DOMAIN answers[n] \subseteq DOMAIN world
    /\ category = "sol" => DOMAIN answers[n] \subseteq {command.owner}
    /\ \A a \in DOMAIN answers[n] :
          /\ answers[n][a] \in Contents(a)
          /\ Asked(category, n, answers[1], a, answers[n][a])
    /\ \A a \in DOMAIN world :
          (\A x \in Contents(a) : Asked(category, n, answers[1], a, x)) => a \in DOMAIN answers[n]

(* The answers of a category so far.                                                  *)
AllRecall(category, answers) ==
    IsSequence(answers) /\ \A n \in 1..Len(answers) : Recalls(category, answers, n)

(* So it is right about the accounts that nobody touched.                              *)
Agrees(category, answers, n) ==
    /\ DOMAIN answers[n] \subseteq DOMAIN world
    /\ category = "sol" => DOMAIN answers[n] \subseteq {command.owner}
    /\ \A a \in DOMAIN world \ touched :
          /\ a \in DOMAIN answers[n] <=> Asked(category, n, answers[1], a, world[a])
          /\ a \in DOMAIN answers[n] => answers[n][a] = world[a]

AllAgree(category, answers) ==
    IsSequence(answers) /\ \A n \in 1..Len(answers) : Agrees(category, answers, n)

(* Whatever changes while the queries are answered one after the other, the answers are    *)
(* true of what the accounts held.                                                        *)
ScanInv ==
    Scanning =>
        /\ DOMAIN past = DOMAIN world /\ \A a \in DOMAIN world : Remembered(a)
        /\ DOMAIN found = Categories
        /\ \A category \in Categories :
              found[category] = NotScanned \/ AllRecall(category, found[category])

\* The answer to a query has the accounts asked for.
LEMMA AnswerFacts ==
    ASSUME NEW category \in Categories, NEW answers, IsSequence(answers)
    PROVE  Answer(world, category, answers, command.owner) =
                [a \in {b \in DOMAIN world :
                            Asked(category, Len(answers) + 1, answers[1], b, world[b])}
                    |-> world[a]]
<1>1. PICK n : n = Len(answers) + 1 /\ n \in Nat /\ (answers = <<>> <=> n = 1) /\ Len(answers) = n - 1
  <2>1. PICK m : m = Len(answers) /\ m \in Nat
    BY DEF IsSequence
  <2>2. answers = <<>> => m = 0
    BY <2>1
  <2>3. m = 0 => answers = <<>>
    <3>1. <<>> = [i \in 1..0 |-> answers[i]]
      OBVIOUS
    <3> QED
      BY <2>1, <3>1 DEF IsSequence
  <2> QED
    BY <2>1, <2>2, <2>3
<1> DEFINE Matches(a) ==
      CASE category = "stake"   ->
              StakeMatches(world[a], <<"staker", "withdrawer">>[n], command.owner)
        [] category = "vote"    -> VoteMatches(world[a], command.owner)
        [] category = "program" -> ProgramMatches(world[a], answers, command.owner)
        [] category = "mint"    -> MintMatches(world[a], MintQueries[n], command.owner)
        [] category = "token"   ->
              TokenMatches(world[a], <<"token", "token2022">>[n], command.owner)
        [] category = "sol"     -> a = command.owner /\ world[a] # Missing
<1>2. Answer(world, category, answers, command.owner) =
          [a \in {b \in DOMAIN world : Matches(b)} |-> world[a]]
  BY <1>1 DEF Answer
<1>3. ASSUME NEW a PROVE Matches(a) <=> Asked(category, n, answers[1], a, world[a])
  <2>1. ProgramMatches(world[a], answers, command.owner) <=>
            IF n = 1 THEN IsProgramData(world[a]) /\ HoldsRole(world[a], "upgrade", command.owner)
            ELSE IsProgram(world[a]) /\ world[a].data = SetToSeq(DOMAIN answers[1])[n - 1]
    BY <1>1 DEF ProgramMatches
  <2> QED
    BY <2>1 DEF Asked, Categories
<1> HIDE DEF Matches
<1>4. {b \in DOMAIN world : Matches(b)} =
          {b \in DOMAIN world : Asked(category, n, answers[1], b, world[b])}
  BY <1>3
<1> QED
  BY <1>1, <1>2, <1>4

\* One more answer.
LEMMA Answered ==
    ASSUME NEW s, IsSequence(s), NEW e
    PROVE  LET t == Append(s, e)
           IN  /\ IsSequence(t) /\ Len(t) = Len(s) + 1 /\ t[Len(s) + 1] = e
               /\ \A n \in 1..Len(s) : t[n] = s[n]
<1>1. PICK m, S, t : m = Len(s) /\ m \in Nat /\ S = {s[n] : n \in 1..m} \cup {e} /\ t = Append(s, e)
  BY DEF IsSequence
<1>2. s = [n \in 1..m |-> s[n]]
  BY <1>1 DEF IsSequence
<1>3. s \in [1..m -> S]
  BY <1>1, <1>2
<1>4. s \in Seq(S) /\ e \in S
  BY <1>1, <1>3
<1>5. t \in Seq(S) /\ Len(t) = m + 1 /\ t[m + 1] = e /\ \A n \in 1..m : t[n] = s[n]
  BY <1>1, <1>4
<1>6. t = [n \in 1..(m + 1) |-> t[n]]
  BY <1>5
<1> QED
  BY <1>1, <1>5, <1>6 DEF IsSequence

\* A query adds an answer that is true of the accounts as they are.
LEMMA QueryRecalls ==
    ASSUME NEW category \in Categories, NEW answers, AllRecall(category, answers)
    PROVE  AllRecall(category, Append(answers, Answer(world, category, answers, command.owner)))
<1>1. PICK m, e, t : /\ m = Len(answers) /\ e = Answer(world, category, answers, command.owner)
                     /\ t = Append(answers, e)
  OBVIOUS
<1>2. /\ IsSequence(answers) /\ m \in Nat
      /\ \A n \in 1..m : Recalls(category, answers, n)
  BY <1>1 DEF AllRecall, IsSequence
<1>3. IsSequence(t) /\ Len(t) = m + 1 /\ t[m + 1] = e /\ \A n \in 1..m : t[n] = answers[n]
  BY <1>1, <1>2, Answered
<1>4. ASSUME NEW n \in 1..m PROVE Recalls(category, t, n)
  <2>1. t[n] = answers[n] /\ t[1] = answers[1] /\ Recalls(category, answers, n)
    BY <1>2, <1>3
  <2> QED
    BY <2>1 DEF Recalls
<1>5. Recalls(category, t, m + 1)
  <2>1. e = [a \in {b \in DOMAIN world : Asked(category, m + 1, answers[1], b, world[b])}
                |-> world[a]]
    BY <1>1, <1>2, AnswerFacts
  <2>2. ASSUME NEW a, NEW x
        PROVE  Asked(category, m + 1, answers[1], a, x) <=> Asked(category, m + 1, t[1], a, x)
    <3>1. CASE m = 0
      BY <3>1 DEF Asked, Categories
    <3>2. CASE m # 0
      <4>1. t[1] = answers[1]
        BY <1>2, <1>3, <3>2
      <4> QED
        BY <4>1
    <3> QED
      BY <3>1, <3>2
  <2>3. /\ DOMAIN e \subseteq DOMAIN world
        /\ \A a \in DOMAIN world :
              a \in DOMAIN e <=> Asked(category, m + 1, answers[1], a, world[a])
        /\ \A a \in DOMAIN e : e[a] = world[a]
    BY <2>1
  <2>4. category = "sol" => DOMAIN e \subseteq {command.owner}
    BY <2>1 DEF Asked
  <2>5. \A a : world[a] \in Contents(a)
    BY DEF Contents
  <2> QED
    BY <1>3, <2>2, <2>3, <2>4, <2>5 DEF Recalls
<1>6. \A n \in 1..(m + 1) : n \in 1..m \/ n = m + 1
  BY <1>2
<1>7. \A n \in 1..(m + 1) : Recalls(category, t, n)
  BY <1>4, <1>5, <1>6
<1> QED
  BY <1>1, <1>3, <1>7 DEF AllRecall

\* An answer stays true of what the accounts held, as long as nothing is forgotten.
LEMMA ChangeRecalls ==
    ASSUME NEW category \in Categories, NEW answers, AllRecall(category, answers),
           DOMAIN world' = DOMAIN world, command' = command,
           \A a \in DOMAIN world : Contents(a) \subseteq Contents(a)'
    PROVE  AllRecall(category, answers)'
<1>1. ASSUME NEW n, Recalls(category, answers, n) PROVE Recalls(category, answers, n)'
  <2>1. \A first, a, x : Asked(category, n, first, a, x)' <=> Asked(category, n, first, a, x)
    BY DEF Asked
  <2>2. /\ DOMAIN answers[n] \subseteq DOMAIN world'
        /\ category = "sol" => DOMAIN answers[n] \subseteq {command'.owner}
    BY <1>1 DEF Recalls
  <2>3. ASSUME NEW a \in DOMAIN answers[n]
        PROVE  /\ answers[n][a] \in Contents(a)'
               /\ Asked(category, n, answers[1], a, answers[n][a])
    BY <1>1, <2>3 DEF Recalls
  <2>4. ASSUME NEW a \in DOMAIN world',
               \A x \in Contents(a)' : Asked(category, n, answers[1], a, x)
        PROVE  a \in DOMAIN answers[n]
    BY <1>1, <2>4 DEF Recalls
  <2> QED
    BY <2>1, <2>2, <2>3, <2>4 DEF Recalls
<1> QED
  BY <1>1 DEF AllRecall

\* A change remembers what it replaces.
LEMMA ChangeRemembered ==
    ASSUME command \in Commands, Consistent(world), DOMAIN past = DOMAIN world,
           \A b \in DOMAIN world : Remembered(b),
           NEW a \in DOMAIN world, Change(a)
    PROVE  /\ DOMAIN past' = DOMAIN world'
           /\ \A b \in DOMAIN world : Remembered(b)' /\ Contents(b) \subseteq Contents(b)'
<1>1. /\ DOMAIN world' = DOMAIN world
      /\ \A b \in DOMAIN world : KindKept(world[b], world'[b])
      /\ \A b \in DOMAIN world : b # a => world'[b] = world[b]
  BY ChangeConsistent
<1>2. touched' = touched \cup {a} /\ past' = [past EXCEPT ![a] = @ \cup {world[a]}]
  BY DEF Change
<1>3. DOMAIN past' = DOMAIN past /\ \A b \in DOMAIN world : b # a => past'[b] = past[b]
  BY <1>2
<1>4. ASSUME NEW b \in DOMAIN world, b # a
      PROVE  Remembered(b)' /\ Contents(b) \subseteq Contents(b)'
  <2>1. /\ world'[b] = world[b] /\ past'[b] = past[b] /\ (b \in touched' <=> b \in touched)
        /\ Remembered(b)
    BY <1>1, <1>2, <1>3, <1>4
  <2>2. Contents(b)' = Contents(b)
    BY <2>1 DEF Contents
  <2> QED
    BY <2>1, <2>2 DEF Remembered
<1>5. PICK x, y, p, q : x = world[a] /\ y = world'[a] /\ p = past[a] /\ q = past'[a]
  OBVIOUS
<1>6. q = p \cup {x}
  BY <1>2, <1>5
<1>7. Contents(a) = p \cup {x} /\ Contents(a)' = p \cup {x, y}
  BY <1>5, <1>6 DEF Contents
<1>8. x \in Accounts /\ KindKept(x, y) /\ Remembered(a)
  BY <1>1, <1>5 DEF Consistent
<1>9. \A z \in q : z \in Accounts /\ KindKept(z, y)
  BY <1>5, <1>6, <1>8, KindKeptTwice DEF Remembered
<1>10. /\ y \notin Programs
       /\ x \in TokenAccounts /\ y \in TokenAccounts => y.program = x.program
  <2>1. PICK z : /\ z \in Changes(x) \cup (IF x = Missing THEN Creations(a) ELSE {})
                 /\ world' = [world EXCEPT ![a] = z]
    BY <1>5 DEF Change
  <2>2. z = y
    BY <1>5, <2>1
  <2>3. CASE y \in Changes(x)
    BY <1>8, <2>3, ChangesKeepKinds
  <2>4. CASE y \notin Changes(x)
    <3>1. x = Missing /\ y \in Creations(a)
      BY <2>1, <2>2, <2>4
    <3>2. y \in TokenAccounts
      BY <3>1, CreatedAccounts
    <3>3. y \notin Programs /\ x \notin TokenAccounts
      BY <3>1, <3>2, KindsDiffer, KindFacts DEF Movable
    <3> QED
      BY <3>3
  <2> QED
    BY <2>3, <2>4
<1>11. p \cup {x, y} \subseteq TokenAccounts => \A z \in p \cup {x, y} : z.program = y.program
  BY <1>5, <1>7, <1>8, <1>10 DEF Remembered
<1>12. Remembered(a)'
  BY <1>2, <1>5, <1>7, <1>9, <1>10, <1>11 DEF Remembered
<1> QED
  BY <1>1, <1>3, <1>4, <1>7, <1>12

\* No query was answered at first, and nothing is remembered.
LEMMA InitScans == Init => ScanInv
<1>1. IsSequence(<<>>) /\ Len(<<>>) = 0
  <2>1. <<>> = [n \in 1..0 |-> <<>>[n]]
    OBVIOUS
  <2> QED
    BY <2>1 DEF IsSequence
<1>2. \A category : AllRecall(category, <<>>)
  BY <1>1 DEF AllRecall
<1>3. ASSUME Init
      PROVE  DOMAIN past = DOMAIN world /\ \A a \in DOMAIN world : Remembered(a)
  <2>1. DOMAIN past = DOMAIN world /\ \A a \in DOMAIN world : past[a] = {}
    BY <1>3 DEF Init
  <2> QED
    BY <2>1 DEF Remembered, Contents
<1> QED
  BY <1>2, <1>3 DEF Init, ScanInv

\* Every step keeps the answers true.
LEMMA StepScans == MigrationInv /\ ScanInv /\ [Next]_vars => ScanInv'
<1> SUFFICES ASSUME MigrationInv, ScanInv, [Next]_vars, Scanning'
             PROVE  /\ DOMAIN past' = DOMAIN world'
                    /\ \A a \in DOMAIN world' : Remembered(a)'
                    /\ DOMAIN found' = Categories
                    /\ \A category \in Categories :
                          found'[category] = NotScanned \/ AllRecall(category, found[category])'
  BY DEF ScanInv
<1>1. command' = command
  BY DEF Next, vars, Read, Build, Execute, Query, QueryFails, Approve, Change
<1>2. /\ Scanning /\ DOMAIN found = Categories
      /\ DOMAIN past = DOMAIN world /\ \A a \in DOMAIN world : Remembered(a)
      /\ \A category \in Categories :
            found[category] = NotScanned \/ AllRecall(category, found[category])
  BY <1>1 DEF ScanInv, Scanning
<1>3. ~landed /\ report = Nothing /\ ~Built /\ ~Running
  BY <1>2 DEF MigrationInv, Built, Running
<1>4. ASSUME UNCHANGED <<world, touched, past>>
      PROVE  /\ DOMAIN past' = DOMAIN world' /\ \A a \in DOMAIN world' : Remembered(a)'
             /\ \A a \in DOMAIN world : Contents(a) \subseteq Contents(a)'
  <2>1. \A a : Contents(a)' = Contents(a)
    BY <1>4 DEF Contents
  <2>2. \A a : Remembered(a)' <=> Remembered(a)
    BY <1>4, <2>1 DEF Remembered
  <2> QED
    BY <1>2, <1>4, <2>1, <2>2
<1>5. CASE UNCHANGED <<world, found, touched, past>>
  <2>1. \A c \in Categories : AllRecall(c, found[c]) => AllRecall(c, found[c])'
    BY <1>1, <1>4, <1>5, ChangeRecalls
  <2> QED
    BY <1>2, <1>4, <1>5, <2>1
<1>6. ASSUME NEW category \in Categories, Query(category) \/ QueryFails(category)
      PROVE  /\ DOMAIN past' = DOMAIN world' /\ \A a \in DOMAIN world' : Remembered(a)'
             /\ DOMAIN found' = Categories
             /\ \A c \in Categories : found'[c] = NotScanned \/ AllRecall(c, found[c])'
  <2>1. /\ UNCHANGED <<world, touched, past>> /\ found[category] # NotScanned
        /\ \/ found' = [found EXCEPT ![category] = NotScanned]
           \/ found' = [found EXCEPT ![category] =
                            Append(@, Answer(world, category, @, command.owner))]
    BY <1>6 DEF Query, QueryFails, Scanned
  <2>2. AllRecall(category, Append(found[category],
                                   Answer(world, category, found[category], command.owner)))
    BY <1>2, <2>1, QueryRecalls
  <2>3. /\ DOMAIN found' = Categories
        /\ \A c \in Categories : c # category => found'[c] = found[c]
        /\ found'[category] = NotScanned \/ AllRecall(category, found'[category])
    BY <1>2, <2>1, <2>2
  <2>4. ASSUME NEW c \in Categories PROVE found'[c] = NotScanned \/ AllRecall(c, found'[c])
    BY <1>2, <2>3, <2>4
  <2>5. PICK f : f = found'
    OBVIOUS
  <2>6. \A c \in Categories : AllRecall(c, f[c]) => AllRecall(c, f[c])'
    BY <1>1, <1>4, <2>1, ChangeRecalls
  <2>7. \A c \in Categories : found'[c] = NotScanned \/ AllRecall(c, found[c])'
    BY <2>4, <2>5, <2>6
  <2> QED
    BY <1>4, <2>1, <2>3, <2>7
<1>7. ASSUME NEW a \in DOMAIN world, Change(a)
      PROVE  /\ DOMAIN past' = DOMAIN world' /\ \A b \in DOMAIN world' : Remembered(b)'
             /\ DOMAIN found' = Categories
             /\ \A c \in Categories : found'[c] = NotScanned \/ AllRecall(c, found[c])'
  <2>1. found' = found
    BY <1>7 DEF Change
  <2>2. DOMAIN world' = DOMAIN world
    BY <1>3, <1>7, ChangeConsistent DEF MigrationInv
  <2>3. /\ DOMAIN past' = DOMAIN world'
        /\ \A b \in DOMAIN world : Remembered(b)' /\ Contents(b) \subseteq Contents(b)'
    BY <1>2, <1>3, <1>7, ChangeRemembered DEF MigrationInv
  <2>4. \A c \in Categories : AllRecall(c, found[c]) => AllRecall(c, found[c])'
    BY <1>1, <2>1, <2>2, <2>3, ChangeRecalls
  <2> QED
    BY <1>2, <2>1, <2>2, <2>3, <2>4
<1> QED
  <2>1. CASE Next
    BY <1>3, <1>5, <1>6, <1>7, <2>1 DEF Next, Read, Build, Execute, Approve
  <2>2. CASE UNCHANGED vars
    BY <1>5, <2>2 DEF vars
  <2> QED
    BY <2>1, <2>2

\* The answers are true in every state.
LEMMA Scans == Spec => []ScanInv
<1>1. Init => MigrationInv /\ ScanInv
  BY InitMigrates, InitScans
<1>2. MigrationInv /\ ScanInv /\ [Next]_vars => (MigrationInv /\ ScanInv)'
  BY StepMigrates, StepScans
<1> QED
  BY <1>1, <1>2, PTL DEF Spec

(* The accounts are as a scan may meet them, and the category's queries are answered.    *)
AnsweredScan(category) ==
    /\ category \in Categories /\ ScanDone(category)
    /\ Consistent(world) /\ command \in Commands /\ command.op = "scan"
    /\ \A a \in DOMAIN world : Remembered(a)
    /\ AllRecall(category, found[category]) /\ AllAgree(category, found[category])

(* The roles of an account that a category is to list, and the command for them.          *)
Listed(category, a) == IF CategoryOf(world[a]) = category THEN Controlled(world[RoleAccount(a)]) ELSE {}
Suggested(category, a) ==
    IF category \in {"stake", "mint"}
    THEN SuggestRoles(category, a, Listed(category, a), command.key)
    ELSE [op |-> category, account |-> a, key |-> command.key]

(* Items list an account just if there is a role to list, with all of them.                *)
ListRoles(items, a, roles, suggested) ==
    /\ \A item \in items : item.account = a =>
          roles # {} /\ item.roles = roles /\ item.command = suggested
    /\ roles # {} => \E item \in items : item.account = a
Lists(category, a) ==
    ListRoles(ItemsOf(category), a, Listed(category, a), Suggested(category, a))

\* What is true of all that an account held is right about one that nobody touched.
LEMMA RecallsAgrees ==
    ASSUME NEW category, NEW answers, AllRecall(category, answers),
           \A a \in DOMAIN world : Remembered(a)
    PROVE  AllAgree(category, answers)
<1>1. ASSUME NEW a \in DOMAIN world \ touched PROVE Contents(a) = {world[a]}
  BY <1>1 DEF Remembered, Contents
<1>2. ASSUME NEW n, Recalls(category, answers, n) PROVE Agrees(category, answers, n)
  <2>1. ASSUME NEW a \in DOMAIN world \ touched
        PROVE  /\ a \in DOMAIN answers[n] <=> Asked(category, n, answers[1], a, world[a])
               /\ a \in DOMAIN answers[n] => answers[n][a] = world[a]
    <3>1. a \in DOMAIN answers[n] =>
              answers[n][a] = world[a] /\ Asked(category, n, answers[1], a, world[a])
      <4>1. a \in DOMAIN answers[n] =>
                answers[n][a] \in Contents(a) /\ Asked(category, n, answers[1], a, answers[n][a])
        BY <1>2 DEF Recalls
      <4> QED
        BY <1>1, <4>1
    <3>2. Asked(category, n, answers[1], a, world[a]) => a \in DOMAIN answers[n]
      BY <1>1, <1>2 DEF Recalls
    <3> QED
      BY <3>1, <3>2
  <2> QED
    BY <1>2, <2>1 DEF Recalls, Agrees
<1> QED
  BY <1>2 DEF AllRecall, AllAgree

\* A scan in every state.
LEMMA ScansAnswered ==
    ASSUME MigrationInv, ScanInv, NEW category, category \in Categories, ScanDone(category)
    PROVE  AnsweredScan(category)
<1>1. Scanning /\ found[category] # NotScanned
  BY DEF ScanDone
<1>2. ~landed
  BY <1>1 DEF MigrationInv
<1>3. AllRecall(category, found[category]) /\ \A a \in DOMAIN world : Remembered(a)
  BY <1>1 DEF ScanInv
<1>4. AllAgree(category, found[category])
  BY <1>3, RecallsAgrees
<1> QED
  BY <1>1, <1>2, <1>3, <1>4 DEF MigrationInv, AnsweredScan, Scanning

\* The category of an account, and the roles that the owner has of it.
LEMMA ControlFacts ==
    ASSUME Consistent(world), NEW a \in DOMAIN world,
           NEW x, x = world[a], NEW owner, owner = command.owner
    PROVE  /\ CategoryOf(x) = "stake" <=> StakeAccount(x)
           /\ CategoryOf(x) = "vote" <=> VoteAccount(x)
           /\ CategoryOf(x) = "program" <=> IsProgram(x)
           /\ CategoryOf(x) = "mint" <=> MintAccount(x)
           /\ StakeAccount(x) \/ VoteAccount(x) \/ MintAccount(x) =>
                /\ RoleAccount(a) = a
                /\ Controlled(x) = {r \in DOMAIN x.authority : x.authority[r] = owner}
           /\ IsProgram(x) =>
                /\ x \in Programs /\ x.data \in DOMAIN world /\ RoleAccount(a) = x.data
                /\ Controlled(world[x.data]) =
                     IF IsProgramData(world[x.data]) /\ HoldsRole(world[x.data], "upgrade", owner)
                     THEN {"upgrade"} ELSE {}
<1> USE DEF StakeAccount, VoteAccount, MintAccount, TokenProgramAccount, LoaderAccount,
            IsProgram, IsProgramData
<1>1. x.program \in {"stake"} => CategoryOf(x) = "stake"
  BY DEF CategoryOf
<1>2. x.program \in {"vote"} => CategoryOf(x) = "vote"
  BY DEF CategoryOf
<1>3. x.program = "loader" =>
        CategoryOf(x) = IF x.type = "program" THEN "program" ELSE "none"
  BY DEF CategoryOf
<1>4. x.program \in {"token", "token2022"} =>
        CategoryOf(x) = IF x.type = "mint" THEN "mint" ELSE "none"
  BY DEF CategoryOf
<1>5. x.program \notin {"stake", "vote", "loader", "token", "token2022"} => CategoryOf(x) = "none"
  BY DEF CategoryOf
<1>6. /\ CategoryOf(x) = "stake" <=> StakeAccount(x)
      /\ CategoryOf(x) = "vote" <=> VoteAccount(x)
      /\ CategoryOf(x) = "program" <=> IsProgram(x)
      /\ CategoryOf(x) = "mint" <=> MintAccount(x)
  BY <1>1, <1>2, <1>3, <1>4, <1>5
<1>7. ASSUME StakeAccount(x) \/ VoteAccount(x) \/ MintAccount(x)
      PROVE  /\ RoleAccount(a) = a
             /\ Controlled(x) = {r \in DOMAIN x.authority : x.authority[r] = owner}
  <2>1. RoleAccount(a) = a
    BY <1>7 DEF RoleAccount
  <2> QED
    BY <1>7, <2>1 DEF Controlled
<1>8. ASSUME IsProgram(x)
      PROVE  /\ x \in Programs /\ x.data \in DOMAIN world /\ RoleAccount(a) = x.data
             /\ Controlled(world[x.data]) =
                  IF IsProgramData(world[x.data]) /\ HoldsRole(world[x.data], "upgrade", owner)
                  THEN {"upgrade"} ELSE {}
  <2>1. x \in Programs
    BY <1>8, KindOf DEF Consistent, ProgramDatas
  <2>2. PICK d, y : d = x.data /\ y = world[d]
    OBVIOUS
  <2>3. d \in DOMAIN world /\ y \in ProgramDatas \cup Movable
    BY <2>1, <2>2 DEF Consistent
  <2>4. RoleAccount(a) = d
    BY <1>8, <2>2 DEF RoleAccount
  <2>5. Controlled(y) =
            IF StakeAccount(y) \/ VoteAccount(y) \/ IsProgramData(y) \/ MintAccount(y)
            THEN {r \in DOMAIN y.authority : y.authority[r] = owner} ELSE {}
    BY DEF Controlled
  <2>6. CASE y \in ProgramDatas
    <3>1. IsProgramData(y) /\ DOMAIN y.authority = {"upgrade"}
      BY <2>6, KindFacts
    <3>2. Controlled(y) = {r \in {"upgrade"} : y.authority[r] = owner}
      BY <2>5, <3>1
    <3>3. HoldsRole(y, "upgrade", owner) <=> y.authority["upgrade"] = owner
      BY <3>1 DEF HoldsRole
    <3> QED
      BY <2>1, <2>2, <2>3, <2>4, <3>1, <3>2, <3>3
  <2>7. CASE y \in Movable
    <3>1. ~StakeAccount(y) /\ ~VoteAccount(y) /\ ~MintAccount(y) /\ ~LoaderAccount(y)
      BY <2>7, KindFacts
    <3>2. ~IsProgramData(y)
      BY <3>1
    <3> QED
      BY <2>1, <2>2, <2>3, <2>4, <2>5, <3>1, <3>2
  <2> QED
    BY <2>1, <2>2, <2>3, <2>4, <2>6, <2>7
<1> QED
  BY <1>6, <1>7, <1>8

\* An item for each account found, with the roles for which it was found.
LEMMA RoleItemsOf ==
    ASSUME NEW op, NEW answers, NEW roleOf, NEW key, NEW a, NEW roles,
           roles = RolesFound(answers, roleOf, a)
    PROVE  ListRoles(RoleItems(op, answers, roleOf, key), a, roles, SuggestRoles(op, a, roles, key))
<1> DEFINE Of(b) == RolesFound(answers, roleOf, b)
           Item(b) == [account |-> b, roles |-> Of(b), command |-> SuggestRoles(op, b, Of(b), key)]
           all == UNION {DOMAIN answers[n] : n \in 1..Len(answers)}
<1>1. RoleItems(op, answers, roleOf, key) = {Item(b) : b \in all}
  BY DEF RoleItems
<1>2. roles = Of(a)
  OBVIOUS
<1>3. roles # {} <=> a \in all
  BY DEF RolesFound
<1>4. \A b : /\ Item(b).account = b /\ Item(b).roles = Of(b)
             /\ Item(b).command = SuggestRoles(op, b, Of(b), key)
  OBVIOUS
<1> HIDE DEF Of, Item, all
<1>5. ASSUME NEW item \in RoleItems(op, answers, roleOf, key), item.account = a
      PROVE  /\ roles # {} /\ item.roles = roles
             /\ item.command = SuggestRoles(op, a, roles, key)
  <2>1. PICK b \in all : item = Item(b)
    BY <1>1
  <2>2. b = a
    BY <1>4, <1>5, <2>1
  <2> QED
    BY <1>2, <1>3, <1>4, <2>1, <2>2
<1>6. ASSUME roles # {}
      PROVE  \E item \in RoleItems(op, answers, roleOf, key) : item.account = a
  <2>1. Item(a) \in RoleItems(op, answers, roleOf, key)
    BY <1>1, <1>3, <1>6
  <2> QED
    BY <1>4, <2>1
<1> QED
  BY <1>5, <1>6 DEF ListRoles

\* The queries of a stake account's or a mint's roles: one for each, or for each layout.
LEMMA RolesListed ==
    ASSUME NEW category \in {"stake", "mint"}, AnsweredScan(category),
           NEW a \in DOMAIN world \ touched,
           NEW answers, answers = found[category],
           NEW roleOf, ItemsOf(category) = RoleItems(category, answers, roleOf, command.key),
           \A n \in 1..Len(answers) :
               Asked(category, n, answers[1], a, world[a]) => roleOf[n] \in Listed(category, a),
           \A r \in Listed(category, a) : \E n \in 1..Len(answers) :
               roleOf[n] = r /\ Asked(category, n, answers[1], a, world[a])
    PROVE  Lists(category, a)
<1>1. \A n \in 1..Len(answers) :
          a \in DOMAIN answers[n] <=> Asked(category, n, answers[1], a, world[a])
  BY DEF AnsweredScan, AllAgree, Agrees
<1>2. PICK roles : roles = Listed(category, a)
  OBVIOUS
<1>3. roles = RolesFound(answers, roleOf, a)
  BY <1>1, <1>2 DEF RolesFound
<1>4. ListRoles(RoleItems(category, answers, roleOf, command.key), a, roles,
                SuggestRoles(category, a, roles, command.key))
  BY <1>3, RoleItemsOf
<1>5. Suggested(category, a) = SuggestRoles(category, a, roles, command.key)
  BY <1>2 DEF Suggested
<1> QED
  BY <1>2, <1>4, <1>5 DEF Lists

\* Stake accounts are listed by their two roles.
LEMMA StakeListed ==
    ASSUME AnsweredScan("stake"), NEW a \in DOMAIN world \ touched
    PROVE  Lists("stake", a)
<1>1. PICK answers, roleOf, x :
          answers = found["stake"] /\ roleOf = <<"staker", "withdrawer">> /\ x = world[a]
  OBVIOUS
<1>2. ItemsOf("stake") = RoleItems("stake", answers, roleOf, command.key)
  BY <1>1 DEF ItemsOf, Items, StakeItems
<1>3. Len(answers) = 2
  BY <1>1 DEF AnsweredScan, ScanDone, Scanned, Queries
<1>4. Listed("stake", a) =
          IF StakeAccount(x) THEN {r \in DOMAIN x.authority : x.authority[r] = command.owner}
                             ELSE {}
  BY <1>1, ControlFacts DEF Listed, AnsweredScan
<1>5. StakeAccount(x) => DOMAIN x.authority \subseteq {"staker", "withdrawer"}
  <2>1. x \in Accounts
    BY <1>1 DEF AnsweredScan, Consistent
  <2> QED
    BY <2>1, KindOf, KindFacts
<1>6. \A n \in 1..2 : Asked("stake", n, answers[1], a, x) <=>
          StakeAccount(x) /\ roleOf[n] \in DOMAIN x.authority
            /\ x.authority[roleOf[n]] = command.owner
  BY <1>1 DEF Asked, StakeMatches, HoldsRole
<1>7. roleOf[1] = "staker" /\ roleOf[2] = "withdrawer"
  BY <1>1
<1>8. \A n \in 1..Len(answers) :
          Asked("stake", n, answers[1], a, world[a]) => roleOf[n] \in Listed("stake", a)
  BY <1>1, <1>3, <1>4, <1>6
<1>9. ASSUME NEW r \in Listed("stake", a)
      PROVE  \E n \in 1..Len(answers) :
                 roleOf[n] = r /\ Asked("stake", n, answers[1], a, world[a])
  <2>1. StakeAccount(x) /\ r \in DOMAIN x.authority /\ x.authority[r] = command.owner
    BY <1>4, <1>9
  <2>2. PICK n \in 1..2 : roleOf[n] = r
    BY <1>5, <1>7, <2>1
  <2> QED
    BY <1>1, <1>3, <1>6, <2>1, <2>2
<1> QED
  BY <1>1, <1>2, <1>8, <1>9, RolesListed

\* The queries for mints: two roles in each of three layouts.
LEMMA MintQueryFacts ==
    /\ Len(MintQueries) = 6 /\ DOMAIN MintQueries = 1..6
    /\ MintQueries[1].layout = MintLayouts[1] /\ MintQueries[1].role = "mint"
    /\ MintQueries[2].layout = MintLayouts[1] /\ MintQueries[2].role = "freeze"
    /\ MintQueries[3].layout = MintLayouts[2] /\ MintQueries[3].role = "mint"
    /\ MintQueries[4].layout = MintLayouts[2] /\ MintQueries[4].role = "freeze"
    /\ MintQueries[5].layout = MintLayouts[3] /\ MintQueries[5].role = "mint"
    /\ MintQueries[6].layout = MintLayouts[3] /\ MintQueries[6].role = "freeze"
<1>1. PICK layouts, queries : layouts = MintLayouts /\ queries = MintQueries
  OBVIOUS
<1>2. Len(layouts) = 3
  BY <1>1 DEF MintLayouts
<1>3. 2 * Len(layouts) = 6
  BY <1>2
<1>4. queries = [n \in 1..6 |-> [layout |-> layouts[(n + 1) \div 2],
                                 role |-> IF n % 2 = 1 THEN "mint" ELSE "freeze"]]
  BY <1>1, <1>3 DEF MintQueries
<1>5. Len(queries) = 6
  <2>1. DOMAIN queries = 1..6 /\ queries = [n \in 1..6 |-> queries[n]]
    BY <1>4
  <2> QED
    BY <2>1, SeqOfFunction
<1>6. /\ (1 + 1) \div 2 = 1 /\ 1 % 2 = 1 /\ (2 + 1) \div 2 = 1 /\ 2 % 2 = 0
      /\ (3 + 1) \div 2 = 2 /\ 3 % 2 = 1 /\ (4 + 1) \div 2 = 2 /\ 4 % 2 = 0
      /\ (5 + 1) \div 2 = 3 /\ 5 % 2 = 1 /\ (6 + 1) \div 2 = 3 /\ 6 % 2 = 0
  OBVIOUS
<1>7. \A n \in 1..6 : /\ queries[n].layout = layouts[(n + 1) \div 2]
                      /\ queries[n].role = IF n % 2 = 1 THEN "mint" ELSE "freeze"
  BY <1>4
<1>8. /\ queries[1].layout = layouts[1] /\ queries[2].layout = layouts[1]
      /\ queries[3].layout = layouts[2] /\ queries[4].layout = layouts[2]
      /\ queries[5].layout = layouts[3] /\ queries[6].layout = layouts[3]
  BY <1>6, <1>7
<1>9. /\ queries[1].role = "mint" /\ queries[2].role = "freeze"
      /\ queries[3].role = "mint" /\ queries[4].role = "freeze"
      /\ queries[5].role = "mint" /\ queries[6].role = "freeze"
  BY <1>6, <1>7
<1> QED
  BY <1>1, <1>4, <1>5, <1>8, <1>9

\* Mints are listed by their two roles, whatever their layout.
LEMMA MintListed ==
    ASSUME AnsweredScan("mint"), NEW a \in DOMAIN world \ touched
    PROVE  Lists("mint", a)
<1>1. PICK answers, roleOf, x :
          /\ answers = found["mint"] /\ x = world[a]
          /\ roleOf = [n \in DOMAIN MintQueries |-> MintQueries[n].role]
  OBVIOUS
<1>2. ItemsOf("mint") = RoleItems("mint", answers, roleOf, command.key)
  BY <1>1 DEF ItemsOf, Items, MintItems
<1>3. Len(answers) = 6
  BY <1>1, MintQueryFacts DEF AnsweredScan, ScanDone, Scanned, Queries
<1>4. Listed("mint", a) =
          IF MintAccount(x) THEN {r \in DOMAIN x.authority : x.authority[r] = command.owner}
                            ELSE {}
  <2>1. CategoryOf(x) = "mint" <=> MintAccount(x)
    BY <1>1, ControlFacts DEF AnsweredScan
  <2>2. MintAccount(x) =>
            /\ RoleAccount(a) = a
            /\ Controlled(x) = {r \in DOMAIN x.authority : x.authority[r] = command.owner}
    BY <1>1, ControlFacts DEF AnsweredScan
  <2> QED
    BY <1>1, <2>1, <2>2 DEF Listed
<1>5. MintAccount(x) =>
          /\ DOMAIN x.authority = {"mint", "freeze"}
          /\ <<x.program, x.extended>> \in {MintLayouts[1], MintLayouts[2], MintLayouts[3]}
  <2>1. x \in Accounts
    BY <1>1 DEF AnsweredScan, Consistent
  <2>2. ASSUME MintAccount(x)
        PROVE  /\ DOMAIN x.authority = {"mint", "freeze"}
               /\ x.program \in {"token", "token2022"} /\ x.extended \in BOOLEAN
               /\ x.extended => x.program = "token2022"
    <3>1. x \in Mints
      BY <2>1, <2>2, KindOf
    <3> QED
      BY <3>1 DEF Mints
  <2>3. /\ MintLayouts[1] = <<"token", FALSE>> /\ MintLayouts[2] = <<"token2022", FALSE>>
        /\ MintLayouts[3] = <<"token2022", TRUE>>
    BY DEF MintLayouts
  <2> QED
    BY <2>2, <2>3
<1>6. \A n \in 1..6 : Asked("mint", n, answers[1], a, x) <=>
          /\ MintAccount(x) /\ <<x.program, x.extended>> = MintQueries[n].layout
          /\ roleOf[n] \in DOMAIN x.authority /\ x.authority[roleOf[n]] = command.owner
  <2>1. \A n \in 1..6 : roleOf[n] = MintQueries[n].role
    BY <1>1, MintQueryFacts
  <2>2. \A n \in 1..6 : Asked("mint", n, answers[1], a, x) <=>
            MintMatches(x, MintQueries[n], command.owner)
    BY DEF Asked
  <2> QED
    BY <2>1, <2>2 DEF MintMatches, HoldsRole
<1>7. ASSUME NEW r \in {"mint", "freeze"},
             NEW layout \in {MintLayouts[1], MintLayouts[2], MintLayouts[3]}
      PROVE  \E n \in 1..6 : roleOf[n] = r /\ MintQueries[n].layout = layout
  <2>1. /\ roleOf[1] = "mint" /\ roleOf[2] = "freeze" /\ roleOf[3] = "mint"
        /\ roleOf[4] = "freeze" /\ roleOf[5] = "mint" /\ roleOf[6] = "freeze"
    BY <1>1, MintQueryFacts
  <2> QED
    BY <1>7, <2>1, MintQueryFacts
<1>8. \A n \in 1..Len(answers) :
          Asked("mint", n, answers[1], a, world[a]) => roleOf[n] \in Listed("mint", a)
  BY <1>1, <1>3, <1>4, <1>6
<1>9. ASSUME NEW r \in Listed("mint", a)
      PROVE  \E n \in 1..Len(answers) :
                 roleOf[n] = r /\ Asked("mint", n, answers[1], a, world[a])
  <2>1. MintAccount(x) /\ r \in DOMAIN x.authority /\ x.authority[r] = command.owner
    BY <1>4, <1>9
  <2>2. PICK n \in 1..6 : roleOf[n] = r /\ MintQueries[n].layout = <<x.program, x.extended>>
    BY <1>5, <1>7, <2>1
  <2> QED
    BY <1>1, <1>3, <1>6, <2>1, <2>2
<1> QED
  BY <1>1, <1>2, <1>8, <1>9, RolesListed

(* Items with a single role.                                                        *)
SingleItems(op, role, key, S) ==
    {[account |-> b, roles |-> {role}, command |-> [op |-> op, account |-> b, key |-> key]] :
        b \in S}

\* They list the accounts found.
LEMMA SingleItemsOf ==
    ASSUME NEW op, NEW role, NEW key, NEW S, NEW a,
           NEW roles, roles = IF a \in S THEN {role} ELSE {},
           NEW suggested, suggested = [op |-> op, account |-> a, key |-> key]
    PROVE  ListRoles(SingleItems(op, role, key, S), a, roles, suggested)
<1> DEFINE Item(b) == [account |-> b, roles |-> {role},
                       command |-> [op |-> op, account |-> b, key |-> key]]
<1>1. \A b : /\ Item(b).account = b /\ Item(b).roles = {role}
             /\ Item(b).command = [op |-> op, account |-> b, key |-> key]
  OBVIOUS
<1> HIDE DEF Item
<1>2. ASSUME NEW item \in {Item(b) : b \in S}, item.account = a
      PROVE  roles # {} /\ item.roles = roles /\ item.command = suggested
  <2>1. PICK b \in S : item = Item(b)
    BY <1>2
  <2>2. b = a
    BY <1>1, <1>2, <2>1
  <2> QED
    BY <1>1, <2>1, <2>2
<1>3. ASSUME roles # {} PROVE \E item \in {Item(b) : b \in S} : item.account = a
  <2>1. a \in S
    BY <1>3
  <2>2. Item(a) \in {Item(b) : b \in S}
    BY <2>1
  <2> QED
    BY <1>1, <2>2
<1>4. ListRoles({Item(b) : b \in S}, a, roles, suggested)
  BY <1>2, <1>3 DEF ListRoles
<1> QED
  BY <1>4 DEF Item, SingleItems

\* Vote accounts are listed by their withdraw authority.
LEMMA VoteListed ==
    ASSUME AnsweredScan("vote"), NEW a \in DOMAIN world \ touched
    PROVE  Lists("vote", a)
<1>1. PICK answers, S, x : answers = found["vote"] /\ S = DOMAIN answers[1] /\ x = world[a]
  OBVIOUS
<1>2. ItemsOf("vote") = SingleItems("vote", "withdrawer", command.key, S)
  BY <1>1 DEF ItemsOf, Items, VoteItems, SingleItems
<1>3. Len(answers) = 1
  BY <1>1 DEF AnsweredScan, ScanDone, Scanned, Queries
<1>4. a \in S <=> Asked("vote", 1, answers[1], a, x)
  BY <1>1, <1>3 DEF AnsweredScan, AllAgree, Agrees
<1>5. Asked("vote", 1, answers[1], a, x) <=>
          /\ VoteAccount(x) /\ "withdrawer" \in DOMAIN x.authority
          /\ x.authority["withdrawer"] = command.owner
  BY DEF Asked, VoteMatches, HoldsRole
<1>6. Listed("vote", a) =
          IF VoteAccount(x) THEN {r \in DOMAIN x.authority : x.authority[r] = command.owner}
                            ELSE {}
  BY <1>1, ControlFacts DEF Listed, AnsweredScan
<1>7. VoteAccount(x) => DOMAIN x.authority \subseteq {"withdrawer"}
  <2>1. x \in Accounts
    BY <1>1 DEF AnsweredScan, Consistent
  <2> QED
    BY <2>1, KindOf, KindFacts
<1>8. Listed("vote", a) = IF a \in S THEN {"withdrawer"} ELSE {}
  BY <1>4, <1>5, <1>6, <1>7
<1>9. Suggested("vote", a) = [op |-> "vote", account |-> a, key |-> command.key]
  BY DEF Suggested
<1> QED
  BY <1>2, <1>8, <1>9, SingleItemsOf DEF Lists

\* A finite set as a sequence has every element.
LEMMA SeqOfSet ==
    ASSUME NEW S, IsFiniteSet(S)
    PROVE  /\ Cardinality(S) \in Nat
           /\ \A n \in 1..Cardinality(S) : SetToSeq(S)[n] \in S
           /\ \A e \in S : \E n \in 1..Cardinality(S) : SetToSeq(S)[n] = e
<1>1. PICK m : m = Cardinality(S) /\ m \in Nat
  BY FS_CardinalityType
<1>2. PICK f \in Bijection(1..m, S) : TRUE
  BY <1>1, FS_CardinalityType DEF ExistsBijection
<1>3. f \in [1..m -> S] /\ IsInjective(f)
  BY <1>2 DEF Bijection, Injection, IsInjective
<1>4. PICK s : s = SetToSeq(S)
  OBVIOUS
<1>5. s \in [1..m -> S] /\ IsInjective(s)
  BY <1>1, <1>3, <1>4 DEF SetToSeq
<1>6. s \in Injection(1..m, S)
  BY <1>5 DEF Injection, IsInjective
<1>7. IsFiniteSet(1..m) /\ Cardinality(1..m) = m
  BY <1>1, FS_Interval
<1>8. s \in Surjection(1..m, S)
  BY <1>1, <1>6, <1>7, FS_Injection
<1> QED
  BY <1>1, <1>4, <1>5, <1>8 DEF Surjection

\* The programs of each program data account found are asked for, one after the other.
LEMMA ProgramAnswers ==
    ASSUME AnsweredScan("program"), NEW answers, answers = found["program"],
           NEW D, D = DOMAIN answers[1]
    PROVE  \E m \in Nat :
             /\ Len(answers) = m + 1 /\ \A n \in 1..(m + 1) : Recalls("program", answers, n)
             /\ \A e \in D : \E n \in 1..m : SetToSeq(D)[n] = e
             /\ \A n \in 1..m : SetToSeq(D)[n] \in D
<1>1. Len(answers) = IF answers = <<>> THEN 1 ELSE 1 + Cardinality(D)
  BY DEF AnsweredScan, ScanDone, Scanned, Queries
<1>2. answers # <<>>
  BY <1>1
<1>3. IsSequence(answers) /\ \A n \in 1..Len(answers) : Recalls("program", answers, n)
  BY DEF AnsweredScan, AllRecall
<1>4. IsFiniteSet(D)
  <2>1. Len(answers) \in Nat /\ Len(answers) # 0
    <3>1. CASE Len(answers) = 0
      <4>1. answers = [n \in 1..0 |-> answers[n]]
        BY <1>3, <3>1 DEF IsSequence
      <4>2. <<>> = [n \in 1..0 |-> answers[n]]
        OBVIOUS
      <4> QED
        BY <1>2, <4>1, <4>2
    <3> QED
      BY <1>3, <3>1 DEF IsSequence
  <2>2. D \subseteq DOMAIN world
    BY <1>3, <2>1 DEF Recalls
  <2> QED
    BY <2>2, FS_Subset DEF AnsweredScan, Consistent
<1>5. PICK m : m = Cardinality(D) /\ m \in Nat
  BY <1>4, SeqOfSet
<1>6. Len(answers) = m + 1
  BY <1>1, <1>2, <1>5
<1>7. /\ \A e \in D : \E n \in 1..m : SetToSeq(D)[n] = e
      /\ \A n \in 1..m : SetToSeq(D)[n] \in D
  BY <1>4, <1>5, SeqOfSet
<1> QED
  BY <1>3, <1>5, <1>6, <1>7

\* Programs are listed by the upgrade authority of their data.
LEMMA ProgramListed ==
    ASSUME AnsweredScan("program"), NEW a, a \in Untouched
    PROVE  Lists("program", a)
<1>1. PICK answers, S, D, x :
          /\ answers = found["program"] /\ D = DOMAIN answers[1] /\ x = world[a]
          /\ S = UNION {DOMAIN answers[n] : n \in 2..Len(answers)}
  OBVIOUS
<1>2. ItemsOf("program") = SingleItems("program", "upgrade", command.key, S)
  BY <1>1 DEF ItemsOf, Items, ProgramItems, SingleItems
<1>3. a \in DOMAIN world \ touched /\ RoleAccount(a) \notin touched
  BY DEF Untouched
<1>4. IsSequence(answers) /\ \A n \in 1..Len(answers) : Agrees("program", answers, n)
  BY <1>1 DEF AnsweredScan, AllAgree
<1>5. PICK m \in Nat :
          /\ Len(answers) = m + 1
          /\ \A e \in D : \E n \in 1..m : SetToSeq(D)[n] = e
          /\ \A n \in 1..m : SetToSeq(D)[n] \in D
  BY <1>1, ProgramAnswers
<1>6. a \in S <=> IsProgram(x) /\ x.data \in D
  <2>1. ASSUME NEW n \in 2..(m + 1)
        PROVE  a \in DOMAIN answers[n] <=> IsProgram(x) /\ x.data = SetToSeq(D)[n - 1]
    <3>1. n \in 1..Len(answers) /\ n # 1
      BY <1>5, <2>1
    <3>2. a \in DOMAIN answers[n] <=> Asked("program", n, answers[1], a, x)
      BY <1>1, <1>3, <1>4, <3>1 DEF Agrees
    <3> QED
      BY <1>1, <3>1, <3>2 DEF Asked
  <2>2. \A n \in 2..(m + 1) : n - 1 \in 1..m
    BY <1>5
  <2>3. \A n \in 1..m : n + 1 \in 2..(m + 1) /\ (n + 1) - 1 = n
    BY <1>5
  <2>4. a \in S <=> \E n \in 2..(m + 1) : a \in DOMAIN answers[n]
    BY <1>1, <1>5
  <2>5. ASSUME a \in S PROVE IsProgram(x) /\ x.data \in D
    <3>1. PICK n \in 2..(m + 1) : a \in DOMAIN answers[n]
      BY <2>4, <2>5
    <3>2. IsProgram(x) /\ x.data = SetToSeq(D)[n - 1]
      BY <2>1, <3>1
    <3>3. n - 1 \in 1..m
      BY <2>2
    <3>4. SetToSeq(D)[n - 1] \in D
      BY <1>5, <3>3
    <3> QED
      BY <3>2, <3>4
  <2>6. ASSUME IsProgram(x), x.data \in D PROVE a \in S
    <3>1. PICK n \in 1..m : SetToSeq(D)[n] = x.data
      BY <1>5, <2>6
    <3>2. n + 1 \in 2..(m + 1) /\ (n + 1) - 1 = n
      BY <2>3
    <3>3. a \in DOMAIN answers[n + 1]
      BY <2>1, <2>6, <3>1, <3>2
    <3> QED
      BY <2>4, <3>2, <3>3
  <2> QED
    BY <2>5, <2>6
<1>7. IsProgram(x) =>
          (x.data \in D <=>
            IsProgramData(world[x.data]) /\ HoldsRole(world[x.data], "upgrade", command.owner))
  <2>1. ASSUME IsProgram(x)
        PROVE  x.data \in D <=> IsProgramData(world[x.data])
                                /\ HoldsRole(world[x.data], "upgrade", command.owner)
    <3>1. PICK d, y : d = x.data /\ y = world[d]
      OBVIOUS
    <3>2. d \in DOMAIN world
      BY <1>1, <1>3, <2>1, <3>1, ControlFacts DEF AnsweredScan
    <3>3. d \notin touched
      BY <1>1, <1>3, <2>1, <3>1 DEF RoleAccount
    <3>4. 1 \in 1..Len(answers)
      BY <1>5
    <3>5. d \in D <=> Asked("program", 1, answers[1], d, y)
      BY <1>1, <1>4, <3>1, <3>2, <3>3, <3>4 DEF Agrees
    <3> QED
      BY <3>1, <3>5 DEF Asked
  <2> QED
    BY <2>1
<1>8. Listed("program", a) = IF a \in S THEN {"upgrade"} ELSE {}
  <2>1. CategoryOf(x) = "program" <=> IsProgram(x)
    BY <1>1, <1>3, ControlFacts DEF AnsweredScan
  <2>2. IsProgram(x) =>
          Controlled(world[RoleAccount(a)]) =
            IF IsProgramData(world[x.data]) /\ HoldsRole(world[x.data], "upgrade", command.owner)
            THEN {"upgrade"} ELSE {}
    BY <1>1, <1>3, ControlFacts DEF AnsweredScan
  <2> QED
    BY <1>1, <1>6, <1>7, <2>1, <2>2 DEF Listed
<1>9. Suggested("program", a) = [op |-> "program", account |-> a, key |-> command.key]
  BY DEF Suggested
<1> QED
  BY <1>2, <1>8, <1>9, SingleItemsOf DEF Lists

(* The command for a token account.                                                     *)
TokensFrom(a, x) ==
    LET associated == Ata(command.owner, x.mint, x.program) = a
    IN  [op |-> "token", mint |-> x.mint, key |-> command.key,
         owner |-> IF associated THEN command.owner ELSE Default,
         source |-> IF associated THEN Default ELSE a,
         destination |-> Default, amount |-> Default, funder |-> Default,
         noClose |-> FALSE, rentRecipient |-> Default]

\* Token accounts are listed with their tokens.
LEMMA TokensListed ==
    ASSUME AnsweredScan("token"), NEW a \in DOMAIN world \ touched, NEW x, x = world[a]
    PROVE  /\ \A item \in ItemsOf("token") : item.account = a =>
                HoldsTokens(x) /\ item.amount = x.amount /\ item.command = TokensFrom(a, x)
           /\ HoldsTokens(x) => \E item \in ItemsOf("token") : item.account = a
<1>1. PICK answers : answers = found["token"]
  OBVIOUS
<1> DEFINE Item(n, b) == [account |-> b, amount |-> answers[n][b].amount,
                          command |-> TokensFrom(b, answers[n][b])]
<1>2. ItemsOf("token") = UNION {{Item(n, b) : b \in DOMAIN answers[n]} : n \in 1..Len(answers)}
  BY <1>1 DEF ItemsOf, Items, TokenItems, TokensFrom
<1>3. Len(answers) = 2
  BY <1>1 DEF AnsweredScan, ScanDone, Scanned, Queries
<1>4. \A n \in 1..2 : /\ a \in DOMAIN answers[n] <=> Asked("token", n, answers[1], a, x)
                      /\ a \in DOMAIN answers[n] => answers[n][a] = x
  BY <1>1, <1>3 DEF AnsweredScan, AllAgree, Agrees
<1>5. \A n \in 1..2 : Asked("token", n, answers[1], a, x) <=>
          /\ x.program = <<"token", "token2022">>[n]
          /\ x.type = "account" /\ x.owner = command.owner
  BY DEF Asked, TokenMatches
<1>6. x \in Accounts
  BY DEF AnsweredScan, Consistent
<1>7. HoldsTokens(x) <=> \E n \in 1..2 : Asked("token", n, answers[1], a, x)
  <2>1. TokenProgramAccount(x) => x.type \in {"account", "mint"}
    BY <1>6, KindOf DEF Mints, TokenAccounts
  <2>2. HoldsTokens(x) <=> /\ x.program \in {"token", "token2022"}
                           /\ x.type = "account" /\ x.owner = command.owner
    BY <2>1 DEF HoldsTokens, TokenProgramAccount, MintAccount
  <2>3. x.program \in {"token", "token2022"} <=>
            \E n \in 1..2 : x.program = <<"token", "token2022">>[n]
    <3>1. <<"token", "token2022">>[1] = "token" /\ <<"token", "token2022">>[2] = "token2022"
      OBVIOUS
    <3>2. 1..2 = {1, 2}
      OBVIOUS
    <3> QED
      BY <3>1, <3>2
  <2> QED
    BY <1>5, <2>2, <2>3
<1>8. \A n, b : /\ Item(n, b).account = b /\ Item(n, b).amount = answers[n][b].amount
                /\ Item(n, b).command = TokensFrom(b, answers[n][b])
  OBVIOUS
<1> HIDE DEF Item
<1>9. ASSUME NEW item \in ItemsOf("token"), item.account = a
      PROVE  HoldsTokens(x) /\ item.amount = x.amount /\ item.command = TokensFrom(a, x)
  <2>1. PICK n \in 1..2 : \E b \in DOMAIN answers[n] : item = Item(n, b)
    BY <1>2, <1>3, <1>9
  <2>2. a \in DOMAIN answers[n] /\ item = Item(n, a)
    BY <1>8, <1>9, <2>1
  <2>3. answers[n][a] = x /\ Asked("token", n, answers[1], a, x)
    BY <1>4, <2>2
  <2> QED
    BY <1>7, <1>8, <2>2, <2>3
<1>10. ASSUME HoldsTokens(x) PROVE \E item \in ItemsOf("token") : item.account = a
  <2>1. PICK n \in 1..2 : a \in DOMAIN answers[n]
    BY <1>4, <1>7, <1>10
  <2>2. Item(n, a) \in ItemsOf("token")
    BY <1>2, <1>3, <2>1
  <2> QED
    BY <1>8, <2>2
<1> QED
  BY <1>9, <1>10

\* What is listed of an account in each category of roles.
LEMMA CategoryListed ==
    ASSUME NEW category \in {"stake", "vote", "program", "mint"}, AnsweredScan(category),
           NEW a \in Untouched
    PROVE  Lists(category, a)
<1>1. a \in DOMAIN world \ touched
  BY DEF Untouched
<1> QED
  BY <1>1, StakeListed, VoteListed, ProgramListed, MintListed

\* What an account held while a scan went on was of the kind that it is.
LEMMA ContentsKind ==
    ASSUME NEW category, AnsweredScan(category), NEW a \in DOMAIN world, NEW x \in Contents(a)
    PROVE  x \in Accounts /\ KindKept(x, world[a])
<1>1. CASE x \in past[a]
  BY <1>1 DEF AnsweredScan, Remembered
<1>2. CASE x = world[a]
  BY <1>2 DEF AnsweredScan, Consistent, KindKept
<1> QED
  BY <1>1, <1>2 DEF Contents

\* An account that had roles of the owner's has the same roles to give now.
LEMMA RolesOfKind ==
    ASSUME NEW x \in Accounts, NEW y \in Accounts, KindKept(x, y), Controlled(x) # {}
    PROVE  /\ StakeAccount(x) <=> StakeAccount(y)
           /\ VoteAccount(x) <=> VoteAccount(y)
           /\ MintAccount(x) <=> MintAccount(y)
           /\ IsProgramData(x) <=> IsProgramData(y)
           /\ IsProgramData(x) => Controlled(x) = {"upgrade"} /\ HoldsRole(x, "upgrade", command.owner)
           /\ MintAccount(x) => y.program = x.program /\ y.extended = x.extended
<1>1. /\ StakeAccount(x) \/ VoteAccount(x) \/ IsProgramData(x) \/ MintAccount(x)
      /\ Controlled(x) = {r \in DOMAIN x.authority : x.authority[r] = command.owner}
  BY DEF Controlled
<1>2. x \in Stakes \/ x \in Votes \/ x \in ProgramDatas \/ x \in Mints
  <2>1. DOMAIN x.authority # {}
    BY <1>1
  <2>2. IsProgramData(x) => x \in ProgramDatas
    <3>1. IsProgramData(x) => x \in Programs \cup ProgramDatas
      BY KindOf DEF IsProgramData
    <3>2. x \in Programs => ~IsProgramData(x)
      BY DEF Programs, IsProgramData
    <3> QED
      BY <3>1, <3>2
  <2> QED
    BY <1>1, <2>1, <2>2, KindOf, KindFacts
<1> USE DEF StakeAccount, VoteAccount, MintAccount, TokenProgramAccount, LoaderAccount,
            IsProgramData
<1>3. CASE x \in Stakes
  <2>1. y \in Stakes
    BY <1>3 DEF KindKept
  <2>2. x.program = "stake" /\ y.program = "stake"
    BY <1>3, <2>1 DEF Stakes
  <2> QED
    BY <2>2
<1>4. CASE x \in Votes
  <2>1. y \in Votes
    BY <1>4 DEF KindKept
  <2>2. x.program = "vote" /\ y.program = "vote"
    BY <1>4, <2>1 DEF Votes
  <2> QED
    BY <2>2
<1>5. CASE x \in ProgramDatas
  <2>1. y \in ProgramDatas
    BY <1>5 DEF KindKept
  <2>2. /\ x.program = "loader" /\ y.program = "loader"
        /\ x.type = "program data" /\ y.type = "program data"
    BY <1>5, <2>1 DEF ProgramDatas
  <2>3. DOMAIN x.authority = {"upgrade"}
    BY <1>5, KindFacts
  <2>4. Controlled(x) = {"upgrade"} /\ x.authority["upgrade"] = command.owner
    BY <1>1, <2>3
  <2> QED
    BY <2>2, <2>3, <2>4 DEF HoldsRole
<1>6. CASE x \in Mints
  <2>1. y \in Mints /\ y.program = x.program /\ y.extended = x.extended
    BY <1>6 DEF KindKept
  <2>2. x.program \in {"token", "token2022"} /\ x.type = "mint" /\ y.type = "mint"
    BY <1>6, <2>1 DEF Mints
  <2> QED
    BY <2>1, <2>2
<1> QED
  BY <1>2, <1>3, <1>4, <1>5, <1>6

\* The queries of a stake account's or a mint's roles: each finds accounts that had its
\* role, and one of them finds each account that kept a role.
LEMMA RolesFoundListed ==
    ASSUME NEW category \in {"stake", "mint"}, AnsweredScan(category),
           NEW answers, answers = found[category],
           NEW roleOf, ItemsOf(category) = RoleItems(category, answers, roleOf, command.key),
           \A a \in DOMAIN world : \A n \in 1..Len(answers) : \A x \in Contents(a) :
               Asked(category, n, answers[1], a, x) =>
                   /\ CategoryOf(world[a]) = category /\ RoleAccount(a) = a
                   /\ roleOf[n] \in Controlled(x),
           \A a \in DOMAIN world : CategoryOf(world[a]) = category =>
               /\ RoleAccount(a) = a
               /\ \A r \in Controlled(world[a]) : (\A x \in Contents(a) : r \in Controlled(x)) =>
                     \E n \in 1..Len(answers) :
                         roleOf[n] = r /\ \A x \in Contents(a) : Asked(category, n, answers[1], a, x)
    PROVE  RolesAreListed(category)
<1>1. \A n \in 1..Len(answers) : Recalls(category, answers, n)
  BY DEF AnsweredScan, AllRecall
<1>2. ASSUME NEW a, NEW roles, roles = RolesFound(answers, roleOf, a)
      PROVE  \E suggested : ListRoles(ItemsOf(category), a, roles, suggested)
  BY <1>2, RoleItemsOf
<1>3. ASSUME NEW item \in ItemsOf(category)
      PROVE  /\ item.account \in DOMAIN world /\ CategoryOf(world[item.account]) = category
             /\ item.roles # {}
             /\ item.roles \subseteq
                   UNION {Controlled(x) : x \in Contents(RoleAccount(item.account))}
  <2>1. PICK a, roles : a = item.account /\ roles = RolesFound(answers, roleOf, a)
    OBVIOUS
  <2>2. item.roles = roles /\ roles # {}
    BY <1>2, <2>1 DEF ListRoles
  <2>3. ASSUME NEW r \in roles
        PROVE  /\ a \in DOMAIN world /\ CategoryOf(world[a]) = category /\ RoleAccount(a) = a
               /\ \E x \in Contents(a) : r \in Controlled(x)
    <3>1. PICK n \in 1..Len(answers) : a \in DOMAIN answers[n] /\ r = roleOf[n]
      BY <2>1, <2>3 DEF RolesFound
    <3>2. PICK x : x = answers[n][a]
      OBVIOUS
    <3>3. a \in DOMAIN world /\ x \in Contents(a) /\ Asked(category, n, answers[1], a, x)
      BY <1>1, <3>1, <3>2 DEF Recalls
    <3> QED
      BY <3>1, <3>3
  <2> QED
    BY <2>1, <2>2, <2>3
<1>4. ASSUME NEW a \in DOMAIN world, CategoryOf(world[a]) = category,
             NEW r \in Controlled(world[RoleAccount(a)]),
             \A x \in Contents(RoleAccount(a)) : r \in Controlled(x)
      PROVE  \E item \in ItemsOf(category) : item.account = a /\ r \in item.roles
  <2>1. PICK n \in 1..Len(answers) :
            roleOf[n] = r /\ \A x \in Contents(a) : Asked(category, n, answers[1], a, x)
    BY <1>4
  <2>2. a \in DOMAIN answers[n]
    BY <1>1, <2>1 DEF Recalls
  <2>3. PICK roles : roles = RolesFound(answers, roleOf, a)
    OBVIOUS
  <2>4. r \in roles
    BY <2>1, <2>2, <2>3 DEF RolesFound
  <2>5. PICK item \in ItemsOf(category) : item.account = a
    BY <1>2, <2>3, <2>4 DEF ListRoles
  <2>6. item.roles = roles
    BY <1>2, <2>3, <2>5 DEF ListRoles
  <2> QED
    BY <2>4, <2>5, <2>6
<1> QED
  BY <1>3, <1>4 DEF RolesAreListed

\* Stake accounts are scanned for by their two roles.
LEMMA StakeScanned ==
    ASSUME AnsweredScan("stake")
    PROVE  RolesAreListed("stake")
<1>1. PICK answers, roleOf :
          answers = found["stake"] /\ roleOf = <<"staker", "withdrawer">>
  OBVIOUS
<1>2. ItemsOf("stake") = RoleItems("stake", answers, roleOf, command.key)
  BY <1>1 DEF ItemsOf, Items, StakeItems
<1>3. Len(answers) = 2 /\ roleOf[1] = "staker" /\ roleOf[2] = "withdrawer"
  BY <1>1 DEF AnsweredScan, ScanDone, Scanned, Queries
<1>4. ASSUME NEW n \in 1..2, NEW a, NEW x
      PROVE  Asked("stake", n, answers[1], a, x) <=> StakeAccount(x) /\ roleOf[n] \in Controlled(x)
  <2>1. Asked("stake", n, answers[1], a, x) <=>
            StakeAccount(x) /\ roleOf[n] \in DOMAIN x.authority
              /\ x.authority[roleOf[n]] = command.owner
    BY <1>1 DEF Asked, StakeMatches, HoldsRole
  <2> QED
    BY <2>1 DEF Controlled
<1>5. ASSUME NEW a \in DOMAIN world
      PROVE  /\ CategoryOf(world[a]) = "stake" <=> StakeAccount(world[a])
             /\ StakeAccount(world[a]) => RoleAccount(a) = a
  BY <1>5, ControlFacts DEF AnsweredScan
<1>6. ASSUME NEW a \in DOMAIN world, NEW x \in Contents(a), Controlled(x) # {}
      PROVE  StakeAccount(x) <=> StakeAccount(world[a])
  BY <1>6, ContentsKind, RolesOfKind DEF AnsweredScan, Consistent
<1>7. ASSUME NEW a \in DOMAIN world, NEW n \in 1..Len(answers), NEW x \in Contents(a),
             Asked("stake", n, answers[1], a, x)
      PROVE  /\ CategoryOf(world[a]) = "stake" /\ RoleAccount(a) = a
             /\ roleOf[n] \in Controlled(x)
  <2>1. StakeAccount(x) /\ roleOf[n] \in Controlled(x)
    BY <1>3, <1>4, <1>7
  <2>2. StakeAccount(world[a])
    BY <1>6, <2>1
  <2> QED
    BY <1>5, <2>1, <2>2
<1>8. ASSUME NEW a \in DOMAIN world, CategoryOf(world[a]) = "stake",
             NEW r \in Controlled(world[a]), \A x \in Contents(a) : r \in Controlled(x)
      PROVE  \E n \in 1..Len(answers) :
                 roleOf[n] = r /\ \A x \in Contents(a) : Asked("stake", n, answers[1], a, x)
  <2>1. \A x \in Contents(a) : StakeAccount(x)
    BY <1>5, <1>6, <1>8
  <2>2. r \in {"staker", "withdrawer"}
    <3>1. PICK y : y = world[a]
      OBVIOUS
    <3>2. y \in Accounts /\ StakeAccount(y) /\ r \in DOMAIN y.authority
      BY <1>5, <1>8, <3>1 DEF AnsweredScan, Consistent, Controlled
    <3>3. y \in Stakes \cup Uninitialized
      BY <3>2, KindOf
    <3> QED
      BY <3>2, <3>3, KindFacts
  <2>3. PICK n \in 1..2 : roleOf[n] = r
    BY <1>3, <2>2
  <2> QED
    BY <1>3, <1>4, <1>8, <2>1, <2>3
<1> QED
  BY <1>1, <1>2, <1>5, <1>7, <1>8, RolesFoundListed

\* Mints are scanned for by their two roles, in each of their layouts.
LEMMA MintScanned ==
    ASSUME AnsweredScan("mint")
    PROVE  RolesAreListed("mint")
<1>1. PICK answers, roleOf :
          /\ answers = found["mint"]
          /\ roleOf = [n \in DOMAIN MintQueries |-> MintQueries[n].role]
  OBVIOUS
<1>2. ItemsOf("mint") = RoleItems("mint", answers, roleOf, command.key)
  BY <1>1 DEF ItemsOf, Items, MintItems
<1>3. Len(answers) = 6
  BY <1>1, MintQueryFacts DEF AnsweredScan, ScanDone, Scanned, Queries
<1>4. ASSUME NEW n \in 1..6, NEW a, NEW x
      PROVE  Asked("mint", n, answers[1], a, x) <=>
                /\ MintAccount(x) /\ <<x.program, x.extended>> = MintQueries[n].layout
                /\ roleOf[n] \in Controlled(x)
  <2>1. roleOf[n] = MintQueries[n].role
    BY <1>1, MintQueryFacts
  <2>2. Asked("mint", n, answers[1], a, x) <=> MintMatches(x, MintQueries[n], command.owner)
    BY DEF Asked
  <2>3. Asked("mint", n, answers[1], a, x) <=>
          /\ MintAccount(x) /\ <<x.program, x.extended>> = MintQueries[n].layout
          /\ roleOf[n] \in DOMAIN x.authority /\ x.authority[roleOf[n]] = command.owner
    BY <2>1, <2>2 DEF MintMatches, HoldsRole
  <2> QED
    BY <2>3 DEF Controlled
<1>5. ASSUME NEW a \in DOMAIN world
      PROVE  /\ CategoryOf(world[a]) = "mint" <=> MintAccount(world[a])
             /\ MintAccount(world[a]) => RoleAccount(a) = a
  BY <1>5, ControlFacts DEF AnsweredScan
<1>6. ASSUME NEW a \in DOMAIN world, NEW x \in Contents(a), Controlled(x) # {}
      PROVE  /\ MintAccount(x) <=> MintAccount(world[a])
             /\ MintAccount(x) =>
                  world[a].program = x.program /\ world[a].extended = x.extended
  BY <1>6, ContentsKind, RolesOfKind DEF AnsweredScan, Consistent
<1>7. ASSUME NEW a \in DOMAIN world, NEW n \in 1..Len(answers), NEW x \in Contents(a),
             Asked("mint", n, answers[1], a, x)
      PROVE  /\ CategoryOf(world[a]) = "mint" /\ RoleAccount(a) = a
             /\ roleOf[n] \in Controlled(x)
  <2>1. MintAccount(x) /\ roleOf[n] \in Controlled(x)
    BY <1>3, <1>4, <1>7
  <2>2. MintAccount(world[a])
    BY <1>6, <2>1
  <2> QED
    BY <1>5, <2>1, <2>2
<1>8. ASSUME NEW a \in DOMAIN world, CategoryOf(world[a]) = "mint",
             NEW r \in Controlled(world[a]), \A x \in Contents(a) : r \in Controlled(x)
      PROVE  \E n \in 1..Len(answers) :
                 roleOf[n] = r /\ \A x \in Contents(a) : Asked("mint", n, answers[1], a, x)
  <2>1. PICK y : y = world[a]
    OBVIOUS
  <2>2. \A x \in Contents(a) :
            MintAccount(x) /\ x.program = y.program /\ x.extended = y.extended
    BY <1>5, <1>6, <1>8, <2>1
  <2>3. y \in Mints /\ r \in DOMAIN y.authority
    BY <1>5, <1>8, <2>1, KindOf DEF AnsweredScan, Consistent, Controlled
  <2>4. /\ r \in {"mint", "freeze"}
        /\ <<y.program, y.extended>> \in {MintLayouts[1], MintLayouts[2], MintLayouts[3]}
    <3>1. /\ DOMAIN y.authority = {"mint", "freeze"}
          /\ y.program \in {"token", "token2022"} /\ y.extended \in BOOLEAN
          /\ y.extended => y.program = "token2022"
      BY <2>3 DEF Mints
    <3>2. /\ MintLayouts[1] = <<"token", FALSE>> /\ MintLayouts[2] = <<"token2022", FALSE>>
          /\ MintLayouts[3] = <<"token2022", TRUE>>
      BY DEF MintLayouts
    <3> QED
      BY <2>3, <3>1, <3>2
  <2>5. /\ roleOf[1] = "mint" /\ roleOf[2] = "freeze" /\ roleOf[3] = "mint"
        /\ roleOf[4] = "freeze" /\ roleOf[5] = "mint" /\ roleOf[6] = "freeze"
    BY <1>1, MintQueryFacts
  <2>6. PICK n \in 1..6 : roleOf[n] = r /\ MintQueries[n].layout = <<y.program, y.extended>>
    BY <2>4, <2>5, MintQueryFacts
  <2>7. \A x \in Contents(a) : <<x.program, x.extended>> = MintQueries[n].layout
    BY <2>2, <2>6
  <2> QED
    BY <1>3, <1>4, <1>8, <2>2, <2>6, <2>7
<1>9. answers = found["mint"]
  BY <1>1
<1> QED
  BY <1>2, <1>5, <1>7, <1>8, <1>9, RolesFoundListed

\* Items with a single role list accounts that had it, and those that kept it.
LEMMA SingleListed ==
    ASSUME NEW category, NEW role, NEW S, S \subseteq DOMAIN world,
           ItemsOf(category) = SingleItems(category, role, command.key, S),
           \A a \in S : /\ CategoryOf(world[a]) = category
                        /\ \E x \in Contents(RoleAccount(a)) : role \in Controlled(x),
           \A a \in DOMAIN world : CategoryOf(world[a]) = category =>
               \A r \in Controlled(world[RoleAccount(a)]) :
                   (\A x \in Contents(RoleAccount(a)) : r \in Controlled(x)) =>
                       r = role /\ a \in S
    PROVE  RolesAreListed(category)
<1>1. ASSUME NEW a, NEW roles, roles = IF a \in S THEN {role} ELSE {}
      PROVE  \E suggested : ListRoles(ItemsOf(category), a, roles, suggested)
  BY <1>1, SingleItemsOf, ZenonT(30)
<1>2. ASSUME NEW item \in ItemsOf(category)
      PROVE  item.account \in S /\ item.roles = {role}
  <2>1. PICK a, roles : a = item.account /\ roles = IF a \in S THEN {role} ELSE {}
    OBVIOUS
  <2>2. roles # {} /\ item.roles = roles
    BY <1>1, <2>1 DEF ListRoles
  <2> QED
    BY <2>1, <2>2
<1>3. ASSUME NEW a \in S PROVE \E item \in ItemsOf(category) : item.account = a
  <2>1. PICK roles : roles = {role} /\ roles = IF a \in S THEN {role} ELSE {}
    BY <1>3
  <2> QED
    BY <1>1, <2>1 DEF ListRoles
<1>4. ASSUME NEW item \in ItemsOf(category)
      PROVE  /\ item.account \in DOMAIN world /\ CategoryOf(world[item.account]) = category
             /\ item.roles # {}
             /\ item.roles \subseteq
                   UNION {Controlled(x) : x \in Contents(RoleAccount(item.account))}
  BY <1>2
<1>5. ASSUME NEW a \in DOMAIN world, CategoryOf(world[a]) = category,
             NEW r \in Controlled(world[RoleAccount(a)]),
             \A x \in Contents(RoleAccount(a)) : r \in Controlled(x)
      PROVE  \E item \in ItemsOf(category) : item.account = a /\ r \in item.roles
  BY <1>2, <1>3, <1>5
<1> QED
  BY <1>4, <1>5 DEF RolesAreListed

\* Vote accounts are scanned for by their withdraw authority.
LEMMA VoteScanned ==
    ASSUME AnsweredScan("vote")
    PROVE  RolesAreListed("vote")
<1>1. PICK answers, S : answers = found["vote"] /\ S = DOMAIN answers[1]
  OBVIOUS
<1>2. ItemsOf("vote") = SingleItems("vote", "withdrawer", command.key, S)
  BY <1>1 DEF ItemsOf, Items, VoteItems, SingleItems
<1>3. Recalls("vote", answers, 1)
  BY <1>1 DEF AnsweredScan, ScanDone, Scanned, Queries, AllRecall
<1>4. ASSUME NEW a, NEW x
      PROVE  Asked("vote", 1, answers[1], a, x) <=> VoteAccount(x) /\ "withdrawer" \in Controlled(x)
  <2>1. Asked("vote", 1, answers[1], a, x) <=>
          /\ VoteAccount(x) /\ "withdrawer" \in DOMAIN x.authority
          /\ x.authority["withdrawer"] = command.owner
    BY DEF Asked, VoteMatches, HoldsRole
  <2> QED
    BY <2>1 DEF Controlled
<1>5. ASSUME NEW a \in DOMAIN world
      PROVE  /\ CategoryOf(world[a]) = "vote" <=> VoteAccount(world[a])
             /\ VoteAccount(world[a]) => RoleAccount(a) = a
  BY <1>5, ControlFacts DEF AnsweredScan
<1>6. ASSUME NEW a \in DOMAIN world, NEW x \in Contents(a), Controlled(x) # {}
      PROVE  VoteAccount(x) <=> VoteAccount(world[a])
  BY <1>6, ContentsKind, RolesOfKind DEF AnsweredScan, Consistent
<1>7. ASSUME NEW a \in S
      PROVE  /\ CategoryOf(world[a]) = "vote"
             /\ \E x \in Contents(RoleAccount(a)) : "withdrawer" \in Controlled(x)
  <2>1. PICK x : x = answers[1][a]
    OBVIOUS
  <2>2. a \in DOMAIN world /\ x \in Contents(a) /\ Asked("vote", 1, answers[1], a, x)
    BY <1>1, <1>3, <1>7, <2>1 DEF Recalls
  <2>3. VoteAccount(x) /\ "withdrawer" \in Controlled(x)
    BY <1>4, <2>2
  <2> QED
    BY <1>5, <1>6, <2>2, <2>3
<1>8. ASSUME NEW a \in DOMAIN world, CategoryOf(world[a]) = "vote",
             NEW r \in Controlled(world[RoleAccount(a)]),
             \A x \in Contents(RoleAccount(a)) : r \in Controlled(x)
      PROVE  r = "withdrawer" /\ a \in S
  <2>1. RoleAccount(a) = a /\ VoteAccount(world[a])
    BY <1>5, <1>8
  <2>2. r = "withdrawer"
    <3>1. PICK y : y = world[a]
      OBVIOUS
    <3>2. y \in Accounts /\ VoteAccount(y) /\ r \in DOMAIN y.authority
      BY <1>8, <2>1, <3>1 DEF AnsweredScan, Consistent, Controlled
    <3>3. y \in Votes \cup Uninitialized
      BY <3>2, KindOf
    <3> QED
      BY <3>2, <3>3, KindFacts
  <2>3. \A x \in Contents(a) : VoteAccount(x)
    BY <1>6, <1>8, <2>1
  <2>4. \A x \in Contents(a) : Asked("vote", 1, answers[1], a, x)
    BY <1>4, <1>8, <2>1, <2>2, <2>3
  <2> QED
    BY <1>1, <1>3, <2>2, <2>4 DEF Recalls
<1>9. S \subseteq DOMAIN world
  BY <1>1, <1>3 DEF Recalls
<1> QED
  BY <1>2, <1>7, <1>8, <1>9, SingleListed

\* Programs are scanned for by the program data that the owner may upgrade.
LEMMA ProgramScanned ==
    ASSUME AnsweredScan("program")
    PROVE  RolesAreListed("program")
<1>1. PICK answers, S, D :
          /\ answers = found["program"] /\ D = DOMAIN answers[1]
          /\ S = UNION {DOMAIN answers[n] : n \in 2..Len(answers)}
  OBVIOUS
<1>2. ItemsOf("program") = SingleItems("program", "upgrade", command.key, S)
  BY <1>1 DEF ItemsOf, Items, ProgramItems, SingleItems
<1>3. PICK m \in Nat :
          /\ Len(answers) = m + 1 /\ \A n \in 1..(m + 1) : Recalls("program", answers, n)
          /\ \A e \in D : \E n \in 1..m : SetToSeq(D)[n] = e
          /\ \A n \in 1..m : SetToSeq(D)[n] \in D
  BY <1>1, ProgramAnswers
<1>4. 1 \in 1..(m + 1) /\ \A n \in 2..(m + 1) : n \in 1..(m + 1) /\ n # 1 /\ n - 1 \in 1..m
  BY <1>3
<1>5. \A n \in 1..m : n + 1 \in 2..(m + 1) /\ n + 1 \in 1..(m + 1) /\ n + 1 # 1 /\ (n + 1) - 1 = n
  BY <1>3
<1>6. ASSUME NEW n \in 1..(m + 1), n # 1, NEW a, NEW x
      PROVE  Asked("program", n, answers[1], a, x) <=>
                IsProgram(x) /\ x.data = SetToSeq(D)[n - 1]
  BY <1>1, <1>6 DEF Asked
<1>7. ASSUME NEW a, NEW x
      PROVE  Asked("program", 1, answers[1], a, x) <=>
                IsProgramData(x) /\ HoldsRole(x, "upgrade", command.owner)
  BY DEF Asked
<1>8. ASSUME NEW a \in DOMAIN world
      PROVE  /\ CategoryOf(world[a]) = "program" <=> IsProgram(world[a])
             /\ IsProgram(world[a]) =>
                  /\ world[a] \in Programs /\ RoleAccount(a) = world[a].data
                  /\ RoleAccount(a) \in DOMAIN world /\ Contents(a) = {world[a]}
  <2>1. /\ CategoryOf(world[a]) = "program" <=> IsProgram(world[a])
        /\ IsProgram(world[a]) => /\ world[a] \in Programs /\ RoleAccount(a) = world[a].data
                                  /\ RoleAccount(a) \in DOMAIN world
    BY <1>8, ControlFacts DEF AnsweredScan
  <2>2. world[a] \in Programs => Contents(a) = {world[a]}
    BY <1>8 DEF AnsweredScan, Remembered, Contents
  <2> QED
    BY <2>1, <2>2
<1>9. ASSUME NEW a \in S
      PROVE  /\ a \in DOMAIN world /\ CategoryOf(world[a]) = "program"
             /\ \E x \in Contents(RoleAccount(a)) : "upgrade" \in Controlled(x)
  <2>0. S = UNION {DOMAIN answers[n] : n \in 2..(m + 1)}
    BY <1>1, <1>3
  <2>1. PICK n \in 2..(m + 1) : a \in DOMAIN answers[n]
    BY <1>9, <2>0
  <2>2. PICK x : x = answers[n][a]
    OBVIOUS
  <2>3. a \in DOMAIN world /\ x \in Contents(a) /\ Asked("program", n, answers[1], a, x)
    BY <1>3, <1>4, <2>1, <2>2 DEF Recalls
  <2>4. IsProgram(x) /\ x.data = SetToSeq(D)[n - 1] /\ SetToSeq(D)[n - 1] \in D
    BY <1>3, <1>4, <1>6, <2>1, <2>3
  <2>5. x \in Accounts /\ KindKept(x, world[a])
    BY <2>3, ContentsKind
  <2>6. x \in Programs
    BY <2>4, <2>5, KindOf DEF ProgramDatas, IsProgram
  <2>7. world[a] = x
    BY <2>5, <2>6 DEF KindKept
  <2>8. PICK d, z : d = x.data /\ z = answers[1][d]
    OBVIOUS
  <2>9. d \in D /\ RoleAccount(a) = d /\ CategoryOf(world[a]) = "program"
    BY <1>8, <2>3, <2>4, <2>7, <2>8
  <2>10. z \in Contents(d) /\ Asked("program", 1, answers[1], d, z)
    BY <1>1, <1>3, <1>4, <2>8, <2>9 DEF Recalls
  <2>11. "upgrade" \in Controlled(z)
    BY <1>7, <2>10 DEF Controlled, HoldsRole
  <2> QED
    BY <2>3, <2>9, <2>10, <2>11
<1>10. ASSUME NEW a \in DOMAIN world, CategoryOf(world[a]) = "program",
              NEW r \in Controlled(world[RoleAccount(a)]),
              \A x \in Contents(RoleAccount(a)) : r \in Controlled(x)
       PROVE  r = "upgrade" /\ a \in S
  <2>1. PICK d, y : d = RoleAccount(a) /\ y = world[d]
    OBVIOUS
  <2>2. /\ IsProgram(world[a]) /\ world[a] \in Programs /\ d = world[a].data
        /\ d \in DOMAIN world /\ Contents(a) = {world[a]}
    BY <1>8, <1>10, <2>1
  <2>3. y \in ProgramDatas
    <3>1. y \in ProgramDatas \cup Movable
      BY <2>1, <2>2 DEF AnsweredScan, Consistent
    <3>2. y \in Movable => Controlled(y) = {}
      BY KindFacts DEF Controlled, IsProgramData
    <3> QED
      BY <1>10, <2>1, <3>1, <3>2
  <2>4. IsProgramData(y) /\ y \in Accounts
    BY <2>3, KindFacts DEF Accounts
  <2>5. ASSUME NEW x \in Contents(d)
        PROVE  IsProgramData(x) /\ HoldsRole(x, "upgrade", command.owner) /\ r = "upgrade"
    <3>1. x \in Accounts /\ KindKept(x, y) /\ r \in Controlled(x)
      BY <1>10, <2>1, <2>2, <2>5, ContentsKind
    <3> QED
      BY <2>4, <3>1, RolesOfKind
  <2>6. y \in Contents(d)
    BY <2>1 DEF Contents
  <2>7. d \in D
    BY <1>1, <1>3, <1>4, <1>7, <2>2, <2>5 DEF Recalls
  <2>8. PICK n \in 1..m : SetToSeq(D)[n] = d
    BY <1>3, <2>7
  <2>9. \A x \in Contents(a) : Asked("program", n + 1, answers[1], a, x)
    BY <1>5, <1>6, <2>2, <2>8
  <2>10. a \in DOMAIN answers[n + 1]
    BY <1>3, <1>5, <2>9 DEF Recalls
  <2>11. a \in S
    BY <1>1, <1>3, <1>5, <2>10
  <2> QED
    BY <2>5, <2>6, <2>11
<1>11. S \subseteq DOMAIN world
  BY <1>9
<1> QED
  BY <1>2, <1>9, <1>10, <1>11, SingleListed

\* Token accounts are scanned for in both token programs.
LEMMA TokensScanned ==
    ASSUME AnsweredScan("token")
    PROVE  TokensAreListed
<1>1. PICK answers : answers = found["token"]
  OBVIOUS
<1> DEFINE Item(n, b) == [account |-> b, amount |-> answers[n][b].amount,
                          command |-> TokensFrom(b, answers[n][b])]
<1>2. ItemsOf("token") = UNION {{Item(n, b) : b \in DOMAIN answers[n]} : n \in 1..Len(answers)}
  BY <1>1 DEF ItemsOf, Items, TokenItems, TokensFrom
<1>3. Len(answers) = 2 /\ \A n \in 1..2 : Recalls("token", answers, n)
  BY <1>1 DEF AnsweredScan, ScanDone, Scanned, Queries, AllRecall
<1>4. ASSUME NEW n \in 1..2, NEW a, NEW x
      PROVE  Asked("token", n, answers[1], a, x) <=>
                /\ x.program = <<"token", "token2022">>[n]
                /\ x.type = "account" /\ x.owner = command.owner
  BY DEF Asked, TokenMatches
<1>5. /\ <<"token", "token2022">>[1] = "token" /\ <<"token", "token2022">>[2] = "token2022"
      /\ 1..2 = {1, 2}
  OBVIOUS
<1>6. \A n, b : /\ Item(n, b).account = b /\ Item(n, b).amount = answers[n][b].amount
                /\ Item(n, b).command.mint = answers[n][b].mint
  BY DEF TokensFrom
<1> HIDE DEF Item
<1>7. ASSUME NEW item \in ItemsOf("token")
      PROVE  \E x \in Contents(item.account) :
                 HoldsTokens(x) /\ item.amount = x.amount /\ item.command.mint = x.mint
  <2>1. PICK n \in 1..2 : \E b \in DOMAIN answers[n] : item = Item(n, b)
    BY <1>2, <1>3, <1>7
  <2>2. PICK a \in DOMAIN answers[n] : item = Item(n, a)
    BY <2>1
  <2>3. PICK x : x = answers[n][a]
    OBVIOUS
  <2>4. x \in Contents(a) /\ Asked("token", n, answers[1], a, x)
    BY <1>3, <2>3 DEF Recalls
  <2>5. x.program \in {"token", "token2022"} /\ x.type = "account" /\ x.owner = command.owner
    BY <1>4, <1>5, <2>4
  <2>6. HoldsTokens(x)
    BY <2>5 DEF HoldsTokens, TokenProgramAccount, MintAccount
  <2> QED
    BY <1>6, <2>2, <2>3, <2>4, <2>6
<1>8. ASSUME NEW a \in DOMAIN world, \A x \in Contents(a) : HoldsTokens(x)
      PROVE  \E item \in ItemsOf("token") : item.account = a
  <2>1. ASSUME NEW x \in Contents(a)
        PROVE  x \in TokenAccounts /\ x.owner = command.owner
    <3>1. x \in Accounts /\ TokenProgramAccount(x) /\ ~MintAccount(x) /\ x.owner = command.owner
      BY <1>8, <2>1, ContentsKind DEF HoldsTokens
    <3> QED
      BY <3>1, KindOf, KindFacts
  <2>2. PICK y : y = world[a]
    OBVIOUS
  <2>3. y \in Contents(a)
    BY <2>2 DEF Contents
  <2>4. \A x \in Contents(a) : x.program = y.program
    BY <2>1, <2>2 DEF AnsweredScan, Remembered
  <2>5. y.program \in {"token", "token2022"} /\ \A x \in Contents(a) : x.type = "account"
    BY <2>1, <2>3 DEF TokenAccounts
  <2>6. PICK n \in 1..2 : <<"token", "token2022">>[n] = y.program
    BY <1>5, <2>5
  <2>7. \A x \in Contents(a) : Asked("token", n, answers[1], a, x)
    BY <1>4, <2>1, <2>4, <2>5, <2>6
  <2>8. a \in DOMAIN answers[n]
    BY <1>3, <2>7 DEF Recalls
  <2>9. Item(n, a) \in ItemsOf("token")
    BY <1>2, <1>3, <2>8
  <2> QED
    BY <1>6, <2>9
<1> QED
  BY <1>7, <1>8 DEF TokensAreListed

\* The owner's lamports are listed, with a command if they can be moved.
LEMMA SolScanned ==
    ASSUME AnsweredScan("sol"), command.owner \in DOMAIN world
    PROVE  SolIsListed
<1>1. PICK answers, owner : answers = found["sol"] /\ owner = command.owner
  OBVIOUS
<1>2. PICK x : x = IF owner \in DOMAIN answers[1] THEN answers[1][owner] ELSE Missing
  OBVIOUS
<1>3. Recalls("sol", answers, 1)
  <2>1. Len(found["sol"]) = 1
    BY DEF AnsweredScan, ScanDone, Scanned, Queries
  <2> QED
    BY <1>1, <2>1 DEF AnsweredScan, AllRecall
<1>4. x \in Contents(owner)
  <2>1. CASE owner \in DOMAIN answers[1]
    BY <1>2, <1>3, <2>1 DEF Recalls
  <2>2. CASE owner \notin DOMAIN answers[1]
    <3>1. PICK y \in Contents(owner) : ~Asked("sol", 1, answers[1], owner, y)
      BY <1>1, <1>3, <2>2 DEF Recalls
    <3>2. y = Missing
      BY <1>1, <3>1 DEF Asked
    <3> QED
      BY <1>2, <2>2, <3>1, <3>2
  <2> QED
    BY <2>1, <2>2
<1>5. PICK movable : movable <=> SystemAccount(x) /\ x.lamports > 0
  OBVIOUS
<1>6. PICK c : c = IF movable
                   THEN [op |-> "sol", owner |-> owner, key |-> command.key, amount |-> Default]
                   ELSE NoCommand
  OBVIOUS
<1>7. ItemsOf("sol") = {[account |-> owner, amount |-> x.lamports, command |-> c]}
  BY <1>1, <1>2, <1>5, <1>6 DEF ItemsOf, Items, SolItems
<1>8. c # NoCommand <=> movable
  <2>1. movable => c.op = "sol"
    BY <1>6
  <2>2. NoCommand.op = "none"
    BY DEF NoCommand
  <2> QED
    BY <1>6, <2>1, <2>2
<1>9. \A item \in ItemsOf("sol") :
          item.account = owner /\ item.amount = x.lamports /\ item.command = c
  BY <1>7
<1>10. ItemsOf("sol") # {}
  BY <1>7
<1> QED
  BY <1>1, <1>4, <1>5, <1>8, <1>9, <1>10 DEF SolIsListed

\* Although its queries are answered one after the other while accounts change, a scan lists
\* no role, token account or balance that its owner had at no moment of it, and all the roles
\* and movable token accounts that were the owner's throughout, and the owner's lamports with
\* a command just if they could be moved (scan.rs).
THEOREM ScanListsWhatIsControlled == Spec => []ListsWhatIsControlled
<1>1. ASSUME MigrationInv, ScanInv PROVE ListsWhatIsControlled
  <2>1. ASSUME NEW category \in {"stake", "vote", "program", "mint"}, ScanDone(category)
        PROVE  RolesAreListed(category)
    <3>1. AnsweredScan(category)
      BY <1>1, <2>1, ScansAnswered DEF Categories
    <3> QED
      BY <2>1, <3>1, StakeScanned, VoteScanned, ProgramScanned, MintScanned
  <2>2. ScanDone("token") => TokensAreListed
    BY <1>1, ScansAnswered, TokensScanned DEF Categories
  <2>3. ScanDone("sol") /\ command.owner \in DOMAIN world => SolIsListed
    BY <1>1, ScansAnswered, SolScanned DEF Categories
  <2> QED
    BY <2>1, <2>2, <2>3 DEF ListsWhatIsControlled
<1> QED
  BY <1>1, Migrates, Scans, PTL

(* The role that a suggested command names (SuggestRoles).                                *)
NamedRole(roles) == IF Cardinality(roles) = 1 THEN CHOOSE r \in roles : TRUE ELSE Default

\* Of two roles one is named, or both are meant.
LEMMA OneOfTwo ==
    ASSUME NEW x, NEW y, x # y, NEW R, R \subseteq {x, y}, R # {}
    PROVE  \/ NamedRole(R) \in R /\ R = {NamedRole(R)}
           \/ NamedRole(R) = Default /\ R = {x, y}
<1>1. R = {x} \/ R = {y} \/ R = {x, y}
  OBVIOUS
<1>2. ASSUME NEW e, R = {e} PROVE R = {NamedRole(R)}
  <2>1. Cardinality(R) = 1
    BY <1>2, FS_Singleton
  <2>2. NamedRole(R) \in R
    BY <1>2, <2>1 DEF NamedRole
  <2> QED
    BY <1>2, <2>2
<1>3. ASSUME R = {x, y} PROVE NamedRole(R) = Default
  <2>1. IsFiniteSet({y}) /\ Cardinality({y}) = 1 /\ {x, y} = {y} \cup {x} /\ x \notin {y}
    BY FS_Singleton
  <2>2. Cardinality({y} \cup {x}) = Cardinality({y}) + 1
    BY <2>1, FS_AddElement
  <2>3. Cardinality(R) # 1
    BY <1>3, <2>1, <2>2
  <2> QED
    BY <2>3 DEF NamedRole
<1> QED
  BY <1>1, <1>2, <1>3

(* A command that moves roles of the scan's owner is accepted and asks for no signatures but  *)
(* the owner's, the new authority's and, if some may, those of others.                     *)
RolesStand(c, roles, custodians) ==
    /\ ~Refused(c, world)
    /\ LET output == Output(c, world)
       IN  /\ output.moved = roles
           /\ output.message.signers \subseteq
                {command.owner, output.newOwner} \cup custodians

\* Who signs the instruction that gives a role.
LEMMA SetRoleSigners ==
    ASSUME NEW account, NEW role, NEW holder, NEW new, NEW others
    PROVE  SetRole(account, role, holder, new, others).signers = {holder} \cup others
BY DEF SetRole

\* A command for roles that the owner has.
LEMMA HeldRolesStand ==
    ASSUME NEW c \in Commands, RoleCommand(c), NEW account, NEW roles,
           MovesRoles(c, world, account, roles), c.key = command.key,
           \A n \in 1..Len(roles) : world[account].authority[roles[n]] = command.owner,
           command \in Commands, command.op = "scan", ~ScanRefused(command),
           command.key # Default \/ command.owner \in OnCurve
    PROVE  RolesStand(c, ToSet(roles),
                      IF c.op = "stake" THEN {world[c.account].lockup.custodian} ELSE {})
<1>1. PICK holders, owner, key, m :
          /\ holders = Holders(world[account], roles) /\ owner = command.owner
          /\ key = NewAuthority(c.key, holders[1]) /\ m = Len(roles)
  OBVIOUS
<1>2. owner \in Address /\ owner # Nobody
  BY <1>1, Arguments, NamesAssumption
<1>3. roles \in RoleSeqs
  BY DEF MovesRoles
<1>4. m \in 1..2
  BY <1>1, <1>3, RoleSeqFacts
<1>5. holders = [n \in 1..m |-> owner]
  BY <1>1 DEF Holders
<1>6. Len(holders) = m /\ ToSet(holders) = {owner} /\ holders # <<>> /\ holders[1] = owner
  <2>1. DOMAIN holders = 1..m /\ holders = [n \in 1..m |-> holders[n]] /\ holders[1] = owner
    BY <1>4, <1>5
  <2>2. Len(holders) = m
    BY <1>4, <2>1, SeqOfFunction
  <2>3. holders # <<>>
    BY <1>4, <2>2
  <2>4. ToSet(holders) = {owner}
    BY <1>4, <1>5, <2>1 DEF ToSet
  <2> QED
    BY <2>1, <2>2, <2>3, <2>4
<1>7. key = IF c.key = Default THEN owner ELSE c.key
  BY <1>1, <1>6 DEF NewAuthority
<1>8. key \in OnCurve /\ Pda[key] # owner
  <2>1. CASE c.key = Default
    BY <1>1, <1>7, <2>1, MigrationAssumption
  <2>2. CASE c.key # Default
    BY <1>1, <1>7, <2>2 DEF ScanRefused
  <2> QED
    BY <2>1, <2>2
<1>9. ~RolesRefused(c.key, holders)
  <2>1. Cardinality(ToSet(holders)) = 1
    BY <1>6, FS_Singleton
  <2>2. ~NewAuthorityRefused(c.key, holders[1])
    BY <1>6, <1>7, <1>8 DEF NewAuthorityRefused
  <2>3. Pda[NewAuthority(c.key, holders[1])] \notin ToSet(holders)
    BY <1>1, <1>6, <1>8
  <2>4. ~(Cardinality(ToSet(holders)) > 1)
    BY <2>1
  <2> QED
    BY <1>2, <1>6, <2>2, <2>3, <2>4 DEF RolesRefused
<1>10. ~Refused(c, world)
  BY <1>1, <1>9 DEF MovesRoles
<1>11. PICK ixs, others :
          /\ others = [n \in 1..m |-> OtherSigners(c, world, Pda[key], roles[n])]
          /\ GivesRoles(ixs, account, roles, holders, Pda[key], others)
          /\ Output(c, world) = Report(key, ixs, ToSet(roles))
  BY <1>1 DEF MovesRoles
<1>12. PICK output, message :
          /\ output = Output(c, world) /\ message = output.message
          /\ output.moved = ToSet(roles) /\ output.newOwner = Pda[key]
          /\ message = Message(Pda[key], ixs)
  BY <1>11 DEF Report
<1>13. PICK custodians :
          custodians = IF c.op = "stake" THEN {world[c.account].lockup.custodian} ELSE {}
  OBVIOUS
<1>14. \A n \in 1..m : others[n] \subseteq {Pda[key]} \cup custodians
  <2>1. Custodian(c, world) \subseteq {world[c.account].lockup.custodian}
    BY DEF Custodian
  <2>2. \A role : OtherSigners(c, world, Pda[key], role) \subseteq {Pda[key]} \cup custodians
    BY <1>13, <2>1 DEF OtherSigners
  <2> QED
    BY <1>11, <2>2
<1>15. /\ DOMAIN ixs = 1..Len(ixs)
       /\ \A n \in 1..m :
             ixs[n] = SetRole(account, roles[n], holders[n], Pda[key], others[n])
       /\ \A n \in 1..Len(ixs) : n \notin 1..m => ixs[n] = Memo(Pda[key])
  BY <1>1, <1>11 DEF GivesRoles
<1>16. ASSUME NEW n \in 1..Len(ixs)
       PROVE  ixs[n].signers \subseteq {owner, Pda[key]} \cup custodians
  <2>1. CASE n \in 1..m
    <3>1. PICK role, holder, new, other :
              /\ holder = holders[n] /\ other = others[n]
              /\ ixs[n] = SetRole(account, role, holder, new, other)
      BY <1>15, <2>1
    <3>2. ixs[n].signers = {holder} \cup other
      BY <3>1, SetRoleSigners
    <3>3. holders[n] = owner
      BY <1>5, <2>1
    <3> QED
      BY <1>14, <2>1, <3>1, <3>2, <3>3
  <2>2. CASE n \notin 1..m
    BY <1>15, <2>2 DEF Memo
  <2> QED
    BY <2>1, <2>2
<1>17. message.signers \subseteq {owner, Pda[key]} \cup custodians
  <2>1. \A s : s \in message.signers <=>
                s = Pda[key] \/ \E n \in 1..Len(ixs) : s \in ixs[n].signers
    BY <1>12, <1>15, SignersOfMessage
  <2> QED
    BY <1>16, <2>1
<1> QED
  BY <1>1, <1>10, <1>12, <1>13, <1>17 DEF RolesStand

\* The command suggested for what was listed of an account.
LEMMA SuggestionAccepted ==
    ASSUME NEW category \in {"stake", "vote", "program", "mint"}, AnsweredScan(category),
           NEW a \in Untouched, Listed(category, a) # {},
           ~ScanRefused(command), command.key # Default \/ command.owner \in OnCurve
    PROVE  RolesStand(Suggested(category, a), Listed(category, a),
                      IF category = "stake" THEN {world[a].lockup.custodian} ELSE {})
<1>1. PICK c, R, x, owner :
          /\ c = Suggested(category, a) /\ R = Listed(category, a) /\ x = world[a]
          /\ owner = command.owner
  OBVIOUS
<1>2. a \in DOMAIN world /\ a \in Address /\ x \in Accounts /\ Consistent(world)
  BY <1>1 DEF AnsweredScan, Consistent, Untouched
<1>3. /\ command \in Commands /\ command.op = "scan" /\ command.key \in ArgumentOf(Address)
      /\ owner \in Address
  BY <1>1, Arguments DEF AnsweredScan, ArgumentOf
<1>4. CategoryOf(x) = category /\ R = Controlled(world[RoleAccount(a)])
  BY <1>1 DEF Listed
<1>5. CASE category = "stake"
  <2>1. StakeAccount(x) /\ R = {r \in DOMAIN x.authority : x.authority[r] = owner}
    BY <1>1, <1>2, <1>4, <1>5, ControlFacts
  <2>2. x \in Stakes /\ DOMAIN x.authority = {"staker", "withdrawer"}
    BY <1>1, <1>2, <2>1, KindOf, KindFacts
  <2>3. PICK role : role = NamedRole(R)
    OBVIOUS
  <2>4. c = [op |-> "stake", account |-> a, key |-> command.key, role |-> role]
    BY <1>1, <1>5, <2>3 DEF Suggested, SuggestRoles, NamedRole
  <2>5. R \in SUBSET {"staker", "withdrawer"} /\ R # {}
    BY <1>1, <2>1, <2>2
  <2>6. \/ role \in R /\ R = {role}
        \/ role = Default /\ R = {"staker", "withdrawer"}
    <3>1. "staker" # "withdrawer" /\ R \subseteq {"staker", "withdrawer"} /\ R # {}
      BY <2>5
    <3> QED
      BY <2>3, <3>1, OneOfTwo
  <2>7. c \in Commands
    BY <1>2, <1>3, <2>4, <2>5, <2>6 DEF Commands, ArgumentOf
  <2>8. c.op = "stake" /\ c.account = a /\ c.key = command.key /\ c.role = role
    BY <2>4
  <2>9. PICK roles : roles = StakeRoles(c)
    OBVIOUS
  <2>10. MovesRoles(c, world, a, roles)
    BY <1>1, <2>2, <2>7, <2>8, <2>9, StakeMoves, Operations DEF Moved
  <2>11. ToSet(roles) = R /\ \A n \in 1..Len(roles) : roles[n] \in R
    <3>1. roles = <<role>> \/ roles = <<"staker", "withdrawer">>
      BY <2>8, <2>9 DEF StakeRoles
    <3>2. role = Default => roles = <<"staker", "withdrawer">>
      BY <2>8, <2>9 DEF StakeRoles
    <3>3. role # Default => roles = <<role>>
      BY <2>8, <2>9 DEF StakeRoles
    <3>4. role \in R => role # Default
      BY <2>5, NamesAssumption
    <3>5. \/ roles = <<role>> /\ R = {role}
          \/ roles = <<"staker", "withdrawer">> /\ R = {"staker", "withdrawer"}
      BY <2>6, <3>2, <3>3, <3>4
    <3> QED
      BY <3>5 DEF ToSet
  <2>12. \A n \in 1..Len(roles) : world[a].authority[roles[n]] = command.owner
    BY <1>1, <2>1, <2>11
  <2>13. RolesStand(c, ToSet(roles),
                    IF c.op = "stake" THEN {world[c.account].lockup.custodian} ELSE {})
    BY <1>3, <2>7, <2>8, <2>10, <2>12, HeldRolesStand DEF RoleCommand
  <2> QED
    BY <1>1, <1>5, <2>8, <2>11, <2>13
<1>6. CASE category = "mint"
  <2>1. MintAccount(x) /\ R = {r \in DOMAIN x.authority : x.authority[r] = owner}
    BY <1>1, <1>2, <1>4, <1>6, ControlFacts
  <2>2. x \in Mints /\ DOMAIN x.authority = {"mint", "freeze"}
    <3>1. x \in Mints
      BY <1>2, <2>1, KindOf
    <3> QED
      BY <3>1 DEF Mints
  <2>3. PICK role : role = NamedRole(R)
    OBVIOUS
  <2>4. c = [op |-> "mint", account |-> a, key |-> command.key, role |-> role]
    BY <1>1, <1>6, <2>3 DEF Suggested, SuggestRoles, NamedRole
  <2>5. R \in SUBSET {"mint", "freeze"} /\ R # {}
    BY <1>1, <2>1, <2>2
  <2>6. \/ role \in R /\ R = {role}
        \/ role = Default /\ R = {"mint", "freeze"}
    <3>1. "mint" # "freeze" /\ R \subseteq {"mint", "freeze"} /\ R # {}
      BY <2>5
    <3> QED
      BY <2>3, <3>1, OneOfTwo
  <2>7. c \in Commands
    BY <1>2, <1>3, <2>4, <2>5, <2>6 DEF Commands, ArgumentOf
  <2>8. c.op = "mint" /\ c.account = a /\ c.key = command.key /\ c.role = role
    BY <2>4
  <2>9. PICK roles : roles = MintRoles(x, c)
    OBVIOUS
  <2>10. \/ roles = <<role>> /\ R = {role}
         \/ roles = <<"mint", "freeze">> /\ R = {"mint", "freeze"}
    <3>1. owner # Nobody
      BY <1>3, NamesAssumption
    <3>2. role \in R => role # Default
      BY <2>5, NamesAssumption
    <3>3. CASE role \in R /\ R = {role}
      BY <2>7, <2>8, <2>9, <3>2, <3>3, MintRolesFacts
    <3>4. CASE role = Default /\ R = {"mint", "freeze"}
      <4>1. x.authority["mint"] # Nobody /\ x.authority["freeze"] # Nobody
        BY <2>1, <3>1, <3>4
      <4>2. roles = <<"mint", "freeze">>
        BY <2>7, <2>8, <2>9, <3>4, <4>1, MintRolesFacts
      <4> QED
        BY <3>4, <4>2
    <3> QED
      BY <2>6, <3>3, <3>4
  <2>11. ToSet(roles) = R /\ (\A n \in 1..Len(roles) : roles[n] \in R) /\ roles # <<>>
    BY <2>10 DEF ToSet
  <2>12. MovesRoles(c, world, a, roles)
    BY <1>1, <2>2, <2>7, <2>8, <2>9, <2>11, MintMoves, Operations DEF Moved
  <2>13. \A n \in 1..Len(roles) : world[a].authority[roles[n]] = command.owner
    BY <1>1, <2>1, <2>11
  <2>14. RolesStand(c, ToSet(roles),
                    IF c.op = "stake" THEN {world[c.account].lockup.custodian} ELSE {})
    BY <1>3, <2>7, <2>8, <2>12, <2>13, HeldRolesStand DEF RoleCommand
  <2> QED
    BY <1>1, <1>6, <2>8, <2>11, <2>14
<1>7. CASE category = "vote"
  <2>1. VoteAccount(x) /\ R = {r \in DOMAIN x.authority : x.authority[r] = owner}
    BY <1>1, <1>2, <1>4, <1>7, ControlFacts
  <2>2. x \in Votes /\ DOMAIN x.authority = {"withdrawer"}
    BY <1>1, <1>2, <2>1, KindOf, KindFacts
  <2>3. c = [op |-> "vote", account |-> a, key |-> command.key]
    BY <1>1, <1>7 DEF Suggested
  <2>4. c \in Commands /\ c.op = "vote" /\ c.account = a /\ c.key = command.key
    BY <1>2, <1>3, <2>3 DEF Commands
  <2>5. PICK roles : roles = <<"withdrawer">>
    OBVIOUS
  <2>6. MovesRoles(c, world, a, roles)
    BY <1>1, <2>2, <2>4, <2>5, VoteMoves, Operations DEF Moved
  <2>7. R = {"withdrawer"} /\ x.authority["withdrawer"] = owner
    BY <1>1, <2>1, <2>2
  <2>8. ToSet(roles) = R /\ \A n \in 1..Len(roles) : roles[n] = "withdrawer"
    BY <2>5, <2>7 DEF ToSet
  <2>9. RolesStand(c, ToSet(roles),
                   IF c.op = "stake" THEN {world[c.account].lockup.custodian} ELSE {})
    BY <1>1, <1>3, <2>4, <2>6, <2>7, <2>8, HeldRolesStand DEF RoleCommand
  <2> QED
    BY <1>1, <1>7, <2>4, <2>8, <2>9
<1>8. CASE category = "program"
  <2>1. PICK d, y : d = x.data /\ y = world[d]
    OBVIOUS
  <2>2. /\ x \in Programs /\ d \in DOMAIN world
        /\ IsProgramData(y) /\ HoldsRole(y, "upgrade", owner) /\ R = {"upgrade"}
    BY <1>1, <1>2, <1>4, <1>8, <2>1, ControlFacts
  <2>3. y \in ProgramDatas /\ y.authority["upgrade"] = owner
    <3>1. y \in Accounts
      BY <1>2, <2>1, <2>2 DEF Consistent
    <3>2. y \in Programs \cup ProgramDatas
      BY <2>2, <3>1, KindOf DEF IsProgramData
    <3> QED
      BY <2>2, <3>2 DEF HoldsRole, IsProgramData, Programs
  <2>4. c = [op |-> "program", account |-> a, key |-> command.key]
    BY <1>1, <1>8 DEF Suggested
  <2>5. c \in Commands /\ c.op = "program" /\ c.account = a /\ c.key = command.key
    BY <1>2, <1>3, <2>4 DEF Commands
  <2>6. PICK roles : roles = <<"upgrade">>
    OBVIOUS
  <2>7. MovesRoles(c, world, d, roles)
    BY <1>1, <2>1, <2>2, <2>3, <2>5, <2>6, ProgramMoves, Operations DEF Moved
  <2>8. ToSet(roles) = R /\ \A n \in 1..Len(roles) : roles[n] = "upgrade"
    BY <2>2, <2>6 DEF ToSet
  <2>9. RolesStand(c, ToSet(roles),
                   IF c.op = "stake" THEN {world[c.account].lockup.custodian} ELSE {})
    BY <1>1, <1>3, <2>1, <2>3, <2>5, <2>7, <2>8, HeldRolesStand DEF RoleCommand
  <2> QED
    BY <1>1, <1>8, <2>5, <2>8, <2>9
<1> QED
  BY <1>5, <1>6, <1>7, <1>8

\* The command suggested for a token account that was listed takes from it.
LEMMA TokensTaken ==
    ASSUME AnsweredScan("token"), NEW a \in DOMAIN world, NEW x, x = world[a], HoldsTokens(x),
           NEW c, c = TokensFrom(a, x)
    PROVE  Source(c, world) = a /\ Owner(c, world) = command.owner
<1>1. PICK owner : owner = command.owner
  OBVIOUS
<1>2. a \in Address /\ x \in Accounts /\ owner \in Address /\ Consistent(world)
  BY <1>1, Arguments DEF AnsweredScan, Consistent
<1>3. x \in TokenAccounts
  <2>1. x \in Mints \cup TokenAccounts
    BY <1>2, KindOf DEF HoldsTokens
  <2>2. x \in Mints => MintAccount(x)
    BY DEF Mints, MintAccount, TokenProgramAccount
  <2> QED
    BY <2>1, <2>2 DEF HoldsTokens
<1>4. PICK m : m = x.mint /\ Program(c, world) = x.program
  <2>1. c.mint = x.mint
    BY DEF TokensFrom
  <2> QED
    BY <1>2, <1>3, <2>1 DEF Consistent, Program
<1>5. a # Default /\ owner # Default /\ x.owner = owner
  BY <1>1, <1>2, NamesAssumption DEF HoldsTokens
<1>6. CASE Ata(owner, m, x.program) = a
  <2>1. c.source = Default /\ c.owner = owner /\ c.mint = m
    BY <1>1, <1>4, <1>6 DEF TokensFrom
  <2> QED
    BY <1>1, <1>4, <1>6, <2>1 DEF Source, Owner, Given
<1>7. CASE Ata(owner, m, x.program) # a
  <2>1. c.source = a
    BY <1>1, <1>4, <1>7 DEF TokensFrom
  <2>2. Source(c, world) = a
    BY <1>5, <2>1 DEF Source, Given
  <2> QED
    BY <1>1, <1>5, <2>1, <2>2 DEF Owner
<1> QED
  BY <1>6, <1>7

\* It is accepted if the tokens can be moved and received, and the account closed.
LEMMA TokensSuggested ==
    ASSUME AnsweredScan("token"), NEW a \in DOMAIN world, NEW x, x = world[a], HoldsTokens(x),
           NEW c, c = TokensFrom(a, x), ~ScanRefused(command),
           command.key # Default \/ command.owner \in OnCurve,
           ~Stuck(x), ~x.confidential, CanReceive(NewAuthority(command.key, command.owner), a)
    PROVE  ~Refused(c, world)
<1>1. PICK owner, key, k, m, to :
          /\ owner = command.owner /\ key = command.key /\ m = x.mint
          /\ k = NewAuthority(key, owner) /\ to = Ata(Pda[k], m, x.program)
  OBVIOUS
<1>2. /\ a \in Address /\ x \in Accounts /\ owner \in Address /\ key \in ArgumentOf(Address)
      /\ Consistent(world)
  BY <1>1, Arguments DEF AnsweredScan, ArgumentOf, Consistent
<1>3. x \in TokenAccounts
  <2>1. x \in Mints \cup TokenAccounts
    BY <1>2, KindOf DEF HoldsTokens
  <2>2. x \in Mints => MintAccount(x)
    BY DEF Mints, MintAccount, TokenProgramAccount
  <2> QED
    BY <2>1, <2>2 DEF HoldsTokens
<1>4. /\ x.type = "account" /\ x.amount \in Nat /\ x.owner = owner
      /\ x.program \in {"token", "token2022"}
  BY <1>1, <1>3 DEF TokenAccounts, HoldsTokens
<1>5. m \in DOMAIN world /\ world[m] \in Mints /\ world[m].program = x.program
  BY <1>1, <1>2, <1>3 DEF Consistent
<1>6. /\ c.op = "token" /\ c.mint = m /\ c.key = key /\ c.destination = Default
      /\ c.amount = Default /\ c.noClose = FALSE /\ c.rentRecipient = Default
  BY <1>1 DEF TokensFrom
<1>7. Source(c, world) = a /\ Owner(c, world) = owner
  BY <1>1, TokensTaken
<1>8. Program(c, world) = x.program
  BY <1>5, <1>6 DEF Program
<1>9. Key(c, world) = k /\ Amount(c, world) = x.amount /\ Destination(c, world) = to
  BY <1>1, <1>6, <1>7, <1>8 DEF Key, Amount, Destination, Given
<1>10. RentRecipient(c, world) = k /\ Closes(c, world)
  BY <1>6, <1>7, <1>9 DEF RentRecipient, Closes, Given
<1>11. k \in OnCurve /\ Pda[k] # owner /\ ~OwnerRefused(key, owner)
  <2>1. \/ key \in OnCurve /\ Pda[key] # owner
        \/ key = Default /\ owner \in OnCurve
    BY <1>1 DEF ScanRefused
  <2>2. k \in OnCurve /\ ~NewAuthorityRefused(key, owner)
    BY <1>1, <2>1 DEF NewAuthority, NewAuthorityRefused
  <2>3. Pda[k] # owner
    BY <1>1, <2>1, MigrationAssumption DEF NewAuthority, MigrationAssumption
  <2> QED
    BY <1>1, <2>2, <2>3 DEF OwnerRefused
<1>12. /\ a # k /\ a # to /\ to \in DOMAIN world
       /\ x.amount > 0 =>
             IF TokenProgramAccount(world[to])
             THEN IsTokenAccount(world[to], m) /\ world[to].owner = Pda[k] /\ ~world[to].frozen
             ELSE world[m].rule # "frozen"
  BY <1>1 DEF CanReceive
<1>13. MintAccount(world[c.mint])
  BY <1>5, <1>6, KindFacts
<1>14. ~SourceRefused(c, world)
  <2>1. HoldsMint(c, world, x)
    BY <1>1, <1>4, <1>6, <1>8 DEF HoldsMint
  <2>2. ~x.guard
    BY DEF Stuck
  <2> QED
    BY <1>4, <1>6, <1>7, <1>9, <1>11, <1>12, <2>1, <2>2 DEF SourceRefused
<1>15. HasDestination(c, world) <=> x.amount > 0 /\ world[to].program = x.program
  BY <1>6, <1>8, <1>9 DEF HasDestination, ReadsDestination
<1>16. ~DestinationRefused(c, world)
  <2>1. HasDestination(c, world) =>
            IsTokenAccount(world[to], m) /\ world[to].owner = Pda[k] /\ ~world[to].frozen
    BY <1>4, <1>12, <1>15 DEF TokenProgramAccount
  <2>2. HasDestination(c, world) => HoldsMint(c, world, world[to])
    BY <1>6, <1>8, <1>15, <2>1 DEF HoldsMint, IsTokenAccount
  <2> QED
    BY <1>9, <2>1, <2>2 DEF DestinationRefused
<1>17. ~TransferRefused(c, world)
  <2>1. x.amount > 0 => ~x.frozen /\ world[m].rule \notin {"non-transferable", "hook"}
    BY <1>1, <1>4 DEF Stuck
  <2>2. ASSUME x.amount > 0, ~HasDestination(c, world) PROVE world[m].rule # "frozen"
    <3>1. CASE TokenProgramAccount(world[to])
      <4>1. to \in Address /\ world[to] \in Accounts /\ world[to].type = "account"
            /\ world[to].mint = m
        BY <1>2, <1>12, <2>2, <3>1 DEF Consistent, IsTokenAccount
      <4>2. world[to] \in TokenAccounts
        BY <3>1, <4>1, KindOf DEF Mints
      <4>3. world[to].program = x.program
        BY <1>2, <1>5, <1>12, <4>1, <4>2 DEF Consistent
      <4> QED
        BY <1>15, <2>2, <4>3
    <3>2. CASE ~TokenProgramAccount(world[to])
      BY <1>12, <2>2, <3>2
    <3> QED
      BY <3>1, <3>2
  <2> QED
    BY <1>6, <1>7, <1>9, <2>1, <2>2 DEF TransferRefused
<1>18. ~CloseRefused(c, world)
  BY <1>7, <1>10, <1>12 DEF CloseRefused
<1> QED
  BY <1>6, <1>13, <1>14, <1>16, <1>17, <1>18 DEF Refused, TokenRefused

(* The commands that a scan suggests for the roles it lists are accepted while nothing      *)
(* changes, move just those roles and need no signatures but the owner's, the new            *)
(* authority's and a stake's custodian's; its command for tokens takes them from the account *)
(* listed, as its owner, and is accepted if they can be moved and received and the account   *)
(* can be closed (scan.rs with mint.rs, stake.rs, vote.rs, program.rs and token.rs).         *)
THEOREM ScanSuggestionsStand == Spec => []SuggestionsStand
<1>1. ASSUME MigrationInv, ScanInv, command.op = "scan",
             command.key # Default \/ command.owner \in OnCurve
      PROVE  SuggestionsStand
  <2>1. ASSUME NEW category \in {"stake", "vote", "program", "mint"}, ScanDone(category),
               NEW item \in ItemsOf(category), item.account \in Untouched
        PROVE  RolesStand(item.command, item.roles,
                          IF category = "stake" THEN {world[item.account].lockup.custodian}
                                                ELSE {})
    <3>1. PICK a \in Untouched : a = item.account
      BY <2>1
    <3>2. AnsweredScan(category)
      BY <1>1, <2>1, ScansAnswered DEF Categories
    <3>3. Lists(category, a)
      BY <3>2, CategoryListed
    <3>4. /\ Listed(category, a) # {} /\ item.roles = Listed(category, a)
          /\ item.command = Suggested(category, a)
      BY <3>1, <3>3 DEF Lists, ListRoles
    <3>5. ~ScanRefused(command)
      BY <2>1 DEF ScanDone
    <3>6. RolesStand(Suggested(category, a), Listed(category, a),
                     IF category = "stake" THEN {world[a].lockup.custodian} ELSE {})
      BY <1>1, <3>2, <3>4, <3>5, SuggestionAccepted
    <3> QED
      BY <3>1, <3>4, <3>6
  <2>2. ASSUME ScanDone("token"), NEW item \in ItemsOf("token"), item.account \in Untouched
        PROVE  Source(item.command, world) = item.account
               /\ Owner(item.command, world) = command.owner
               /\ (~Stuck(world[item.account]) /\ ~world[item.account].confidential
                   /\ CanReceive(NewAuthority(command.key, command.owner), item.account)
                      => ~Refused(item.command, world))
    <3>1. PICK a, x, c : a = item.account /\ x = world[a] /\ c = item.command
      OBVIOUS
    <3>2. AnsweredScan("token") /\ a \in DOMAIN world \ touched
      BY <1>1, <2>2, <3>1, ScansAnswered DEF Categories, Untouched
    <3>3. HoldsTokens(x) /\ c = TokensFrom(a, x)
      BY <2>2, <3>1, <3>2, TokensListed
    <3>4. Source(c, world) = a /\ Owner(c, world) = command.owner
      BY <3>1, <3>2, <3>3, TokensTaken
    <3>5. ~Stuck(x) /\ ~x.confidential
          /\ CanReceive(NewAuthority(command.key, command.owner), a) => ~Refused(c, world)
      <4>1. ~ScanRefused(command)
        BY <2>2 DEF ScanDone
      <4> QED
        BY <1>1, <3>1, <3>2, <3>3, <4>1, TokensSuggested
    <3> QED
      BY <3>1, <3>4, <3>5
  <2> QED
    BY <2>1, <2>2 DEF SuggestionsStand, RolesStand
<1>2. MigrationInv /\ ScanInv => SuggestionsStand
  BY <1>1 DEF SuggestionsStand
<1> QED
  BY <1>2, Migrates, Scans, PTL
==============================================================================
