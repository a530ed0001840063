------------------------------- MODULE Wallet -------------------------------
(***************************************************************************)
(* The coins of the platform (economy/wallet.service.ts).  A movement is   *)
(* two writes: the wallet, and then the line of the statement; nothing     *)
(* keeps other requests out in between, and the second write may fail.     *)
(* The statement is kept as the sum of its lines.                          *)
(***************************************************************************)
EXTENDS Integers

CONSTANTS Holders,      \* the users, each with a wallet
          Amounts,
          Calls,        \* the requests under way at once
          MaxCoins      \* bound: what a wallet may earn

ASSUME AmountsAssumption == Amounts \subseteq Nat \ {0}
ASSUME HoldersAssumption == "nobody" \notin Holders

VARIABLES wallet,       \* user -> balance, totalEarned and totalSpent
          statement,    \* user -> the sum of the lines written
          missing,      \* user -> the sum of the movements with no line (yet)
          request       \* request -> the movement it is making

vars == <<wallet, statement, missing, request>>

Idle == [step |-> "idle", user |-> "nobody", to |-> "nobody", amount |-> 0, signed |-> 0]

Init == /\ wallet = [u \in Holders |-> [balance |-> 0, earned |-> 0, spent |-> 0]]
        /\ statement = [u \in Holders |-> 0]
        /\ missing = [u \in Holders |-> 0]
        /\ request = [r \in Calls |-> Idle]
-----------------------------------------------------------------------------
(* The two writes.                                                         *)

\* The update adds to what is there; the movement has no line yet.
Credited(u, n) ==
  /\ wallet' = [wallet EXCEPT ![u] = [balance |-> @.balance + n, earned |-> @.earned + n,
                                      spent |-> @.spent]]
  /\ missing' = [missing EXCEPT ![u] = @ + n]

Debited(u, n) ==
  /\ wallet' = [wallet EXCEPT ![u] = [balance |-> @.balance - n, earned |-> @.earned,
                                      spent |-> @.spent + n]]
  /\ missing' = [missing EXCEPT ![u] = @ - n]

\* Mutant: a balance that is compared and then written by another statement.
EnoughWhenRead(u, n) == TRUE

\* updateMany takes the coins only where the balance still covers them.
Enough(u, n) == wallet[u].balance >= n

\* The line of the statement, with the sign of the movement.
record(r) ==
  statement' = [statement EXCEPT ![request[r].user] = @ + request[r].signed]
-----------------------------------------------------------------------------
(* The requests: adjust, by an administrator, and transfer, for who pays.  *)

NextStep(r, rec) == request' = [request EXCEPT ![r] = rec]

adjustUp(r) ==
  \E u \in Holders, n \in Amounts :
    /\ request[r] = Idle
    /\ wallet[u].earned + n <= MaxCoins
    /\ Credited(u, n)
    /\ NextStep(r, [step |-> "record", user |-> u, to |-> "nobody", amount |-> n, signed |-> n])
    /\ UNCHANGED statement

\* A debit that finds too little is refused and leaves nothing.
debit(r) ==
  \E u \in Holders, to \in Holders \cup {"nobody"}, n \in Amounts :
    /\ request[r] = Idle /\ to # u
    /\ Enough(u, n)
    /\ Debited(u, n)
    /\ NextStep(r, [step |-> "record", user |-> u, to |-> to, amount |-> n, signed |-> -n])
    /\ UNCHANGED statement

\* What follows the line: the other half of a transfer, or the answer.
Then(r) == IF request[r].to = "nobody" THEN Idle ELSE [request[r] EXCEPT !.step = "credit"]

recordLine(r) ==
  /\ request[r].step = "record"
  /\ record(r)
  /\ missing' = [missing EXCEPT ![request[r].user] = @ - request[r].signed]
  /\ NextStep(r, Then(r))
  /\ UNCHANGED wallet

\* The line cannot be written: the request ends there, and so does a transfer
\* whose coins have left the first wallet.
Fails(r) ==
  /\ request[r].step \in {"record", "credit"}
  /\ NextStep(r, Idle)
  /\ UNCHANGED <<wallet, statement, missing>>

transferCredit(r) ==
  /\ request[r].step = "credit"
  /\ wallet[request[r].to].earned + request[r].amount <= MaxCoins
  /\ Credited(request[r].to, request[r].amount)
  /\ NextStep(r, [step |-> "record", user |-> request[r].to, to |-> "nobody",
                  amount |-> request[r].amount, signed |-> request[r].amount])
  /\ UNCHANGED statement

Next == \E r \in Calls : \/ adjustUp(r) \/ debit(r) \/ recordLine(r)
                         \/ Fails(r) \/ transferCredit(r)

Spec == Init /\ [][Next]_vars
-----------------------------------------------------------------------------
(* Properties.                                                             *)

\* No wallet is ever overdrawn, its balance is what was earned less what was
\* spent, and the statement explains it up to the movements whose line is not
\* written: whatever debits race on the same wallet, and whatever write fails.
WalletBalances ==
  \A u \in Holders :
    /\ wallet[u].balance >= 0
    /\ wallet[u].balance = wallet[u].earned - wallet[u].spent
    /\ wallet[u].balance = statement[u] + missing[u]
=============================================================================
