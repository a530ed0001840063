------------------------------- MODULE Verify -------------------------------
(***************************************************************************)
(* The proof that a League account is one's own (verify/verify.service.ts  *)
(* and its older form in discord/interactions/lol-verification.interaction *)
(* .ts): the owner is asked to show an icon.  A call is a handler between  *)
(* two awaits; the owner changes the icon whenever he likes.               *)
(***************************************************************************)
EXTENDS Integers, FiniteSets

CONSTANTS Discords, Accounts, Icons,
          Calls,        \* the calls under way at once
          MaxPending,   \* bound: verifications started
          MAX_ATTEMPTS

VARIABLES icon,         \* account -> the icon it shows
          known,        \* account -> the icon the cache of RiotService gives
          verified,     \* verifiedAccount: discord -> account, or None
          leagueAccount, \* account -> the user it is linked to, or None
          users,        \* the Discord users with a user of the platform
          pending,      \* the rows of pendingVerification, those deleted too
          session,      \* discord -> the session of the modal, or NoSession
          call

vars == <<icon, known, verified, leagueAccount, users, pending, session, call>>

None == 0
NoSession == [account |-> None, target |-> 0]
NoCall == [step |-> "idle", discord |-> None, id |-> 0, account |-> None, target |-> 0,
           attempts |-> 0]

\* checks and confirmed count what was done with the row.
Unused == [live |-> FALSE, discord |-> None, account |-> None, target |-> 0, attempts |-> 0,
           expired |-> FALSE, checks |-> 0, confirmed |-> 0]

Ids == 1 .. MaxPending

Init == /\ icon \in [Accounts -> Icons] /\ known = icon
        /\ verified = [d \in Discords |-> None]
        /\ leagueAccount = [a \in Accounts |-> None]
        /\ users \in SUBSET Discords
        /\ pending = [i \in Ids |-> Unused]
        /\ session = [d \in Discords |-> NoSession]
        /\ call = [c \in Calls |-> NoCall]

Rows == <<verified, leagueAccount, users, pending, session>>

Goes(c, rec) == call' = [call EXCEPT ![c] = rec]
Ends(c) == Goes(c, NoCall)
At(c, step) == call[c].step = step
-----------------------------------------------------------------------------
(* The owner, and the half hour of the cache.                              *)

ShowIcon == \E a \in Accounts, i \in Icons : /\ icon' = [icon EXCEPT ![a] = i]
                                             /\ UNCHANGED <<known, call, Rows>>

Forgets == /\ known' = icon
           /\ UNCHANGED <<icon, call, Rows>>
-----------------------------------------------------------------------------
(* startVerification.                                                      *)

\* Any icon but the one the account is known to show.
targetIcons(a) == Icons \ {known[a]}

startVerification(c) ==
  \E d \in Discords, a \in Accounts :
    /\ At(c, "idle") /\ verified[d] = None
    /\ \E target \in targetIcons(a) :
         Goes(c, [NoCall EXCEPT !.step = "clear", !.discord = d, !.account = a,
                                !.target = target])
    /\ UNCHANGED <<icon, known, Rows>>

\* What the same user had pending goes.
clearPending(c) ==
  /\ At(c, "clear")
  /\ pending' = [i \in Ids |-> IF pending[i].discord = call[c].discord
                               THEN [pending[i] EXCEPT !.live = FALSE] ELSE pending[i]]
  /\ Goes(c, [call[c] EXCEPT !.step = "create"])
  /\ UNCHANGED <<icon, known, verified, leagueAccount, users, session>>

createPending(c) ==
  /\ At(c, "create")
  /\ \E i \in Ids :
       /\ pending[i] = Unused /\ \A j \in 1 .. i - 1 : pending[j] # Unused
       /\ pending' = [pending EXCEPT ![i] = [Unused EXCEPT !.live = TRUE,
            !.discord = call[c].discord, !.account = call[c].account,
            !.target = call[c].target]]
  /\ Ends(c)
  /\ UNCHANGED <<icon, known, verified, leagueAccount, users, session>>

\* Ten minutes.
TimePasses ==
  \E i \in Ids : /\ pending[i].live /\ ~pending[i].expired
                 /\ pending' = [pending EXCEPT ![i].expired = TRUE]
                 /\ UNCHANGED <<icon, known, verified, leagueAccount, users, session, call>>
-----------------------------------------------------------------------------
(* confirmVerification.                                                    *)

\* One that has expired is deleted by the confirmation that finds it.
confirmVerification(c) ==
  \E i \in Ids :
    /\ At(c, "idle") /\ pending[i].live
    /\ IF pending[i].expired
       THEN pending' = [pending EXCEPT ![i].live = FALSE] /\ UNCHANGED call
       ELSE /\ Goes(c, [NoCall EXCEPT !.step = "attempt", !.id = i,
                                      !.discord = pending[i].discord,
                                      !.account = pending[i].account,
                                      !.target = pending[i].target,
                                      !.attempts = pending[i].attempts])
            /\ UNCHANGED pending
    /\ UNCHANGED <<icon, known, verified, leagueAccount, users, session>>

\* Mutant: the count that was read when the confirmation began.
AttemptsAsRead(c) == call[c].attempts + 1

\* The count the update gives back.
Attempts(c) == pending[call[c].id].attempts + 1

\* The attempt counts before the icon is looked at; with no row left to update the
\* call fails.
countAttempt(c) ==
  LET i == call[c].id
      drop == Attempts(c) >= MAX_ATTEMPTS IN
  /\ At(c, "attempt")
  /\ IF ~pending[i].live
     THEN Ends(c) /\ UNCHANGED pending
     ELSE /\ pending' = [pending EXCEPT ![i].attempts = @ + 1]
          /\ Goes(c, [call[c] EXCEPT !.step = IF drop THEN "drop" ELSE "icon"])
  /\ UNCHANGED <<icon, known, verified, leagueAccount, users, session>>

dropPending(c) ==
  /\ At(c, "drop")
  /\ pending' = [pending EXCEPT ![call[c].id].live = FALSE]
  /\ Ends(c)
  /\ UNCHANGED <<icon, known, verified, leagueAccount, users, session>>

\* The icon is read afresh; a failed read and another icon end the call.
checkIcon(c) ==
  /\ At(c, "icon")
  /\ pending' = [pending EXCEPT ![call[c].id].checks = @ + 1]
  /\ \/ icon[call[c].account] = call[c].target /\ Goes(c, [call[c] EXCEPT !.step = "commit"])
     \/ Ends(c)
  /\ UNCHANGED <<icon, known, verified, leagueAccount, users, session>>

\* The deletion that ends the transaction finds its row, or all is undone.
DeletesPending(c) == pending[call[c].id].live

\* The account leaves whoever had it; a user who has another one by now makes the
\* transaction fail.
commitVerification(c) ==
  LET d == call[c].discord
      a == call[c].account IN
  /\ At(c, "commit")
  /\ IF DeletesPending(c) /\ verified[d] \in {None, a}
     THEN /\ verified' = [x \in Discords |-> IF x = d THEN a
                                             ELSE IF verified[x] = a THEN None ELSE verified[x]]
          /\ leagueAccount' = [leagueAccount EXCEPT ![a] = IF d \in users THEN d ELSE @]
          /\ pending' = [pending EXCEPT ![call[c].id].live = FALSE,
                                        ![call[c].id].confirmed = @ + 1]
     ELSE UNCHANGED <<verified, leagueAccount, pending>>
  /\ Ends(c)
  /\ UNCHANGED <<icon, known, users, session>>

\* The link of the league account stays.
unlinkAccount ==
  \E d \in Discords : /\ verified[d] # None
                      /\ verified' = [verified EXCEPT ![d] = None]
                      /\ UNCHANGED <<icon, known, leagueAccount, users, pending, session, call>>
-----------------------------------------------------------------------------
(* The modal of Discord: it only makes a user of the platform.             *)

onVerifyModal ==
  \E d \in Discords, a \in Accounts :
    /\ session[d] = NoSession
    /\ \E target \in targetIcons(a) :
         session' = [session EXCEPT ![d] = [account |-> a, target |-> target]]
    /\ UNCHANGED <<icon, known, verified, leagueAccount, users, pending, call>>

\* The session is forgotten once it has served; one with the wrong icon stays.
onVerify ==
  \E d \in Discords :
    /\ session[d] # NoSession
    /\ icon[session[d].account] = session[d].target
    /\ users' = users \cup {d}
    /\ session' = [session EXCEPT ![d] = NoSession]
    /\ UNCHANGED <<icon, known, verified, leagueAccount, pending, call>>

\* Cancelled, or three minutes old.
onCancel ==
  \E d \in Discords : /\ session[d] # NoSession
                      /\ session' = [session EXCEPT ![d] = NoSession]
                      /\ UNCHANGED <<icon, known, verified, leagueAccount, users, pending, call>>

Handler(c) == \/ startVerification(c) \/ clearPending(c) \/ createPending(c)
              \/ confirmVerification(c) \/ countAttempt(c) \/ dropPending(c)
              \/ checkIcon(c) \/ commitVerification(c)

Next == \/ \E c \in Calls : Handler(c)
        \/ ShowIcon \/ Forgets \/ TimePasses \/ unlinkAccount
        \/ onVerifyModal \/ onVerify \/ onCancel

Spec == Init /\ [][Next]_vars
-----------------------------------------------------------------------------
(* Properties.                                                             *)

\* A verification is used up: however many confirmations of it run at once, the
\* icon is looked at fewer than MAX_ATTEMPTS times, and the account is given once,
\* so that an account that was unlinked or has moved on never comes back through a
\* confirmation that was still under way.
VerificationIsUsedUp ==
  \A i \in Ids : pending[i].checks < MAX_ATTEMPTS /\ pending[i].confirmed <= 1
=============================================================================
