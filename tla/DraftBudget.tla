------------------------------- MODULE DraftBudget ------------------------------
(* The cash of a roster inside a draft league: DraftBudgetService.              *)
(*                                                                              *)
(* An account is the three money columns of DraftRoster plus its statement, the *)
(* DraftBudgetEntry rows, kept as the total of |amount| per entry type.  Every  *)
(* method is one UPDATE ... SET budget = budget +/- amount followed by the      *)
(* INSERT of the entry, so a method is one operator from accounts to accounts.  *)
EXTENDS Integers

CreditTypes == {"MATCH_REWARD", "SALE", "TRANSFER_IN", "AUCTION_REFUND", "AUCTION_SALE"}
DebitTypes  == {"SIGNING", "TRANSFER_OUT", "AUCTION_BID", "SALARY"}
EntryTypes  == {"SEED"} \cup CreditTypes \cup DebitTypes

Account == [budget: Int, earned: Int, spent: Int, entry: [EntryTypes -> Nat]]

\* seed(): the season's cash, the old statement deleted and one SEED entry written.
Seeded(startingBudget) ==
  [budget |-> startingBudget, earned |-> 0, spent |-> 0,
   entry  |-> [t \in EntryTypes |-> IF t = "SEED" THEN startingBudget ELSE 0]]

\* The columns after `more` came in or `less` went out, with the entry of that movement.
Posted(a, more, less, type) ==
  [budget |-> a.budget + more - less, earned |-> a.earned + more, spent |-> a.spent + less,
   entry  |-> [a.entry EXCEPT ![type] = @ + more + less]]

\* Mutant: a credit that is not recorded.
creditUnrecorded(account, r, amount, type) ==
  IF amount <= 0 THEN account
  ELSE [account EXCEPT ![r].budget = @ + amount, ![r].earned = @ + amount]

credit(account, r, amount, type) ==
  IF amount <= 0 THEN account ELSE [account EXCEPT ![r] = Posted(account[r], amount, 0, type)]

\* Mutant: any cash at all is enough.
canDebitSomething(account, r, amount) == amount <= 0 \/ account[r].budget > 0

\* The WHERE budget >= amount of debit(): zero rows updated is the exception.
canDebit(account, r, amount) == amount <= 0 \/ account[r].budget >= amount

\* Mutant: the statement row has the sign the wrong way round.
chargeNegativeEntry(account, r, amount, type) ==
  IF amount <= 0 THEN account
  ELSE [account EXCEPT ![r].budget = @ - amount, ![r].spent = @ + amount,
                       ![r].entry[type] = @ - amount]

\* charge(): unconditional, a wage bill may leave the roster in debt.
charge(account, r, amount, type) ==
  IF amount <= 0 THEN account ELSE [account EXCEPT ![r] = Posted(account[r], 0, amount, type)]

\* debit() where canDebit holds.
debit(account, r, amount, type) == charge(account, r, amount, type)

transfer(account, from, to, amount) ==
  credit(debit(account, from, amount, "TRANSFER_OUT"), to, amount, "TRANSFER_IN")
-----------------------------------------------------------------------------
CreditsOf(e) == e["MATCH_REWARD"] + e["SALE"] + e["TRANSFER_IN"]
                + e["AUCTION_REFUND"] + e["AUCTION_SALE"]
DebitsOf(e)  == e["SIGNING"] + e["TRANSFER_OUT"] + e["AUCTION_BID"] + e["SALARY"]

\* The statement explains the three columns, to the coin.
Explained(a) ==
  /\ a.earned = CreditsOf(a.entry)
  /\ a.spent  = DebitsOf(a.entry)
  /\ a.budget = a.entry["SEED"] + a.earned - a.spent

\* Without the wages paid so far the roster would not be in the red.
OwesOnlyWages(a) == a.budget + a.entry["SALARY"] >= 0
=============================================================================
