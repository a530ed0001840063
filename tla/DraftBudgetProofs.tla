-------------------------- MODULE DraftBudgetProofs ----------------------------
(* What the methods of DraftBudgetService keep of the accounts of a league.      *)
EXTENDS DraftBudget, TLAPS

\* What every method of DraftBudgetService keeps of the accounts of a set S of rosters.
Sound(accounts, S) ==
  /\ accounts \in [S -> Account]
  /\ \A r \in S : Explained(accounts[r]) /\ OwesOnlyWages(accounts[r])

LEMMA CreditSound ==
  ASSUME NEW S, NEW acc, Sound(acc, S), NEW r \in S, NEW n \in Int, NEW t \in CreditTypes
  PROVE  Sound(credit(acc, r, n, t), S)
<1> DEFINE new == credit(acc, r, n, t)
<1>1. CASE n <= 0
  BY <1>1 DEF credit
<1>2. CASE n > 0
  <2> DEFINE e == acc[r].entry
             f == [e EXCEPT ![t] = @ + n + 0]
             row == Posted(acc[r], n, 0, t)
  <2>1. acc[r] \in Account /\ t \in EntryTypes /\ e \in [EntryTypes -> Nat]
    BY DEF Sound, Account, EntryTypes
  <2>2. new = [acc EXCEPT ![r] = row]
    BY <1>2 DEF credit
  <2>3. f \in [EntryTypes -> Nat]
    BY <1>2, <2>1
  <2>4. row \in Account
    BY <1>2, <2>1, <2>3 DEF Posted, Account
  <2>5. Explained(row) /\ OwesOnlyWages(row)
    <3>1. Explained(acc[r]) /\ OwesOnlyWages(acc[r])
      BY DEF Sound
    <3>2. CreditsOf(f) = CreditsOf(e) + n /\ DebitsOf(f) = DebitsOf(e)
          /\ f["SEED"] = e["SEED"] /\ f["SALARY"] = e["SALARY"]
      BY <1>2, <2>1 DEF CreditTypes, EntryTypes, DebitTypes, CreditsOf, DebitsOf
    <3>3. CreditsOf(e) \in Int /\ DebitsOf(e) \in Int
      BY <2>1 DEF CreditsOf, DebitsOf, EntryTypes, CreditTypes, DebitTypes
    <3> QED
      BY <1>2, <2>1, <3>1, <3>2, <3>3 DEF Explained, Posted, OwesOnlyWages, Account, EntryTypes, DebitTypes
  <2> QED
    BY <2>2, <2>4, <2>5 DEF Sound
<1> QED
  BY <1>1, <1>2

LEMMA ChargeSound ==
  ASSUME NEW S, NEW acc, Sound(acc, S), NEW r \in S, NEW n \in Int, NEW t \in DebitTypes,
         t = "SALARY" \/ canDebit(acc, r, n)
  PROVE  Sound(charge(acc, r, n, t), S)
<1> DEFINE new == charge(acc, r, n, t)
<1>1. CASE n <= 0
  BY <1>1 DEF charge
<1>2. CASE n > 0
  <2> DEFINE e == acc[r].entry
             f == [e EXCEPT ![t] = @ + 0 + n]
             row == Posted(acc[r], 0, n, t)
  <2>1. acc[r] \in Account /\ t \in EntryTypes /\ e \in [EntryTypes -> Nat]
    BY DEF Sound, Account, EntryTypes
  <2>2. new = [acc EXCEPT ![r] = row]
    BY <1>2 DEF charge
  <2>3. f \in [EntryTypes -> Nat]
    BY <1>2, <2>1
  <2>4. row \in Account
    BY <1>2, <2>1, <2>3 DEF Posted, Account
  <2>5. Explained(row) /\ OwesOnlyWages(row)
    <3>1. Explained(acc[r]) /\ OwesOnlyWages(acc[r])
      BY DEF Sound
    <3>2. CreditsOf(f) = CreditsOf(e) /\ DebitsOf(f) = DebitsOf(e) + n
          /\ f["SEED"] = e["SEED"]
      BY <1>2, <2>1 DEF CreditTypes, EntryTypes, DebitTypes, CreditsOf, DebitsOf
    <3>3. CreditsOf(e) \in Int /\ DebitsOf(e) \in Int
      BY <2>1 DEF CreditsOf, DebitsOf, EntryTypes, CreditTypes, DebitTypes
    <3>4. Explained(row)
      BY <1>2, <2>1, <3>1, <3>2, <3>3 DEF Explained, Posted, Account, EntryTypes
    <3>5. CASE t = "SALARY"
      BY <1>2, <2>1, <3>1, <3>4, <3>5 DEF OwesOnlyWages, Posted, Account
    <3>6. CASE t # "SALARY"
      <4>1. acc[r].budget >= n
        BY <1>2, <3>6 DEF canDebit
      <4>2. f["SALARY"] = e["SALARY"] /\ e["SALARY"] \in Nat
        BY <2>1, <3>6 DEF EntryTypes, DebitTypes
      <4> QED
        BY <1>2, <2>1, <3>4, <4>1, <4>2 DEF OwesOnlyWages, Posted, Account
    <3> QED
      BY <3>4, <3>5, <3>6
  <2> QED
    BY <2>2, <2>4, <2>5 DEF Sound
<1> QED
  BY <1>1, <1>2

LEMMA DebitSound ==
  ASSUME NEW S, NEW acc, Sound(acc, S), NEW r \in S, NEW n \in Int, NEW t \in DebitTypes,
         canDebit(acc, r, n)
  PROVE  Sound(debit(acc, r, n, t), S)
BY ChargeSound DEF debit

LEMMA TransferSound ==
  ASSUME NEW S, NEW acc, Sound(acc, S), NEW r \in S, NEW s \in S, NEW n \in Int,
         canDebit(acc, r, n)
  PROVE  Sound(transfer(acc, r, s, n), S)
<1>1. Sound(debit(acc, r, n, "TRANSFER_OUT"), S)
  BY DebitSound DEF DebitTypes
<1> QED
  BY <1>1, CreditSound DEF transfer, CreditTypes

LEMMA SeededSound ==
  ASSUME NEW S, NEW n \in Nat
  PROVE  Sound([r \in S |-> Seeded(n)], S)
<1> DEFINE e == [t \in EntryTypes |-> IF t = "SEED" THEN n ELSE 0]
<1>1. e \in [EntryTypes -> Nat] /\ e["SEED"] = n
      /\ \A t \in CreditTypes \cup DebitTypes : e[t] = 0
  BY DEF EntryTypes, CreditTypes, DebitTypes
<1>2. Seeded(n) = [budget |-> n, earned |-> 0, spent |-> 0, entry |-> e]
  BY DEF Seeded
<1>3. Seeded(n) \in Account
  BY <1>1, <1>2 DEF Account
<1>4. CreditsOf(e) = 0 /\ DebitsOf(e) = 0 /\ e["SALARY"] = 0
  BY <1>1 DEF CreditsOf, DebitsOf, CreditTypes, DebitTypes
<1>5. Explained(Seeded(n)) /\ OwesOnlyWages(Seeded(n))
  BY <1>1, <1>2, <1>4 DEF Explained, OwesOnlyWages
<1> QED
  BY <1>3, <1>5 DEF Sound
-----------------------------------------------------------------------------
(* A movement is one entry of the statement of one roster and nothing else.      *)

LEMMA CreditEntry ==
  ASSUME NEW S, NEW acc \in [S -> Account], NEW r \in S, NEW n \in Nat, NEW t \in CreditTypes
  PROVE  LET new == credit(acc, r, n, t) IN
         /\ new \in [S -> Account]
         /\ \A s \in S, u \in EntryTypes :
              new[s].entry[u] = acc[s].entry[u] + (IF s = r /\ u = t THEN n ELSE 0)
<1> DEFINE e == acc[r].entry
           f == [e EXCEPT ![t] = @ + n + 0]
           row == Posted(acc[r], n, 0, t)
<1>1. \A s \in S : acc[s] \in Account /\ acc[s].entry \in [EntryTypes -> Nat]
  BY DEF Account
<1>2. t \in EntryTypes /\ e \in [EntryTypes -> Nat]
  BY <1>1 DEF EntryTypes
<1>3. f \in [EntryTypes -> Nat] /\ \A u \in EntryTypes : f[u] = e[u] + (IF u = t THEN n ELSE 0)
  BY <1>2
<1>4. row \in Account /\ row.entry = f
  BY <1>1, <1>3 DEF Posted, Account
<1>5. CASE n = 0
  <2>1. credit(acc, r, n, t) = acc
    BY <1>5 DEF credit
  <2> QED
    BY <1>1, <1>5, <2>1
<1>6. CASE n # 0
  <2>1. credit(acc, r, n, t) = [acc EXCEPT ![r] = row]
    BY <1>6 DEF credit
  <2> HIDE DEF row, f, e
  <2>2. e = acc[r].entry
    BY DEF e
  <2> QED
    BY <1>1, <1>3, <1>4, <2>1, <2>2
<1> QED
  BY <1>5, <1>6

LEMMA ChargeEntry ==
  ASSUME NEW S, NEW acc \in [S -> Account], NEW r \in S, NEW n \in Nat, NEW t \in DebitTypes
  PROVE  LET new == charge(acc, r, n, t) IN
         /\ new \in [S -> Account]
         /\ \A s \in S, u \in EntryTypes :
              new[s].entry[u] = acc[s].entry[u] + (IF s = r /\ u = t THEN n ELSE 0)
<1> DEFINE e == acc[r].entry
           f == [e EXCEPT ![t] = @ + 0 + n]
           row == Posted(acc[r], 0, n, t)
<1>1. \A s \in S : acc[s] \in Account /\ acc[s].entry \in [EntryTypes -> Nat]
  BY DEF Account
<1>2. t \in EntryTypes /\ e \in [EntryTypes -> Nat]
  BY <1>1 DEF EntryTypes
<1>3. f \in [EntryTypes -> Nat] /\ \A u \in EntryTypes : f[u] = e[u] + (IF u = t THEN n ELSE 0)
  BY <1>2
<1>4. row \in Account /\ row.entry = f
  BY <1>1, <1>3 DEF Posted, Account
<1>5. CASE n = 0
  <2>1. charge(acc, r, n, t) = acc
    BY <1>5 DEF charge
  <2> QED
    BY <1>1, <1>5, <2>1
<1>6. CASE n # 0
  <2>1. charge(acc, r, n, t) = [acc EXCEPT ![r] = row]
    BY <1>6 DEF charge
  <2> HIDE DEF row, f, e
  <2>2. e = acc[r].entry
    BY DEF e
  <2> QED
    BY <1>1, <1>3, <1>4, <2>1, <2>2
<1> QED
  BY <1>5, <1>6
=============================================================================
