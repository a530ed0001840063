---------------------------- MODULE AccountProofs -----------------------------
(* Who may come in: the verification of an account, the guards of the API, and   *)
(* the secrets the server keeps.  Each component is proved about by itself; the   *)
(* platform takes over the theorems.                                              *)
EXTENDS Integers, Sequences, FiniteSets, FiniteSetTheorems, TLAPS

CONSTANTS
  Discords, Accounts, Icons, Calls, MaxPending, MAX_ATTEMPTS,   \* Verify
  Requests, Admins, MaxChanges,                                 \* Access
  Credentials, Announcement, MaxKeys, MaxSaves                  \* Secrets

VARIABLES
  icon, known, verified, leagueAccount, users, pending, session, call,     \* Verify
  row, token, base, cache, promise, request, half, change, changes,        \* Access
  rows, keys, reading, saving, held, migrated, saves                       \* Secrets

Verification == INSTANCE Verify
Door == INSTANCE Access
Secret == INSTANCE Secrets WITH cache <- held
-----------------------------------------------------------------------------
(* A verification is used up, for any number of confirmations at once.       *)

\* There are finitely many calls, and a confirmation may be attempted.
VerifyBounds == IsFiniteSet(Calls) /\ MAX_ATTEMPTS \in Nat \ {0}

Pending == [live: BOOLEAN, discord: Discords \cup {Verification!None},
  account: Accounts \cup {Verification!None},
            target: Icons \cup {0}, attempts: Nat, expired: BOOLEAN, checks: Nat, confirmed: Nat]

OfARow == {"attempt", "drop", "icon", "commit"}
VerifyCall == [step: {"idle", "clear", "create"} \cup OfARow,
  discord: Discords \cup {Verification!None},
         id: Verification!Ids \cup {0}, account: Accounts \cup {Verification!None},
           target: Icons \cup {0}, attempts: Nat]

\* The rows and the calls are typed, and a call in the middle of a confirmation has a row.
VerifyRowsOK == pending \in [Verification!Ids -> Pending]
HasItsRow(rec) == rec.step \in OfARow => rec.id \in Verification!Ids
CallsOK == call \in [Calls -> VerifyCall] /\ \A c \in Calls : HasItsRow(call[c])
VerifyTypes == VerifyRowsOK /\ CallsOK

\* The calls that have counted an attempt of row i and are still to look.
Looking(i) == {c \in Calls : call[c].step = "icon" /\ call[c].id = i}
Looks(i) == pending[i].checks + Cardinality(Looking(i))

\* Why the bound is never passed: who is to look has counted, below the maximum.
LooksAreCounted == \A i \in Verification!Ids : Looks(i) <= pending[i].attempts
  /\ Looks(i) < MAX_ATTEMPTS

\* Why nothing is given twice: a row that is there has not given its account.
LiveIsUnused == \A i \in Verification!Ids : /\ pending[i].live => pending[i].confirmed = 0
                                            /\ pending[i].confirmed <= 1

VerifyInv == VerifyTypes /\ LooksAreCounted /\ LiveIsUnused
-----------------------------------------------------------------------------
\* The number of those who are to look is a number, and a call more or less changes it by one.
LEMMA LookingIsFinite ==
  ASSUME VerifyBounds, NEW i
  PROVE  IsFiniteSet(Looking(i)) /\ Cardinality(Looking(i)) \in Nat
  BY FS_Subset, FS_CardinalityType DEF Looking, VerifyBounds

\* A row that is rewritten is still a row.
LEMMA RowIsTyped ==
  ASSUME NEW entry \in Pending
  PROVE  /\ [entry EXCEPT !.live = FALSE] \in Pending
         /\ [entry EXCEPT !.expired = TRUE] \in Pending
         /\ [entry EXCEPT !.attempts = @ + 1] \in Pending
         /\ [entry EXCEPT !.checks = @ + 1] \in Pending
         /\ [entry EXCEPT !.live = FALSE, !.confirmed = @ + 1] \in Pending
<1>1. [entry EXCEPT !.live = FALSE] \in Pending
  BY DEF Pending
<1>2. [entry EXCEPT !.expired = TRUE] \in Pending
  BY DEF Pending
<1>3. [entry EXCEPT !.attempts = @ + 1] \in Pending
  BY DEF Pending
<1>4. [entry EXCEPT !.checks = @ + 1] \in Pending
  BY DEF Pending
<1>5. [entry EXCEPT !.live = FALSE, !.confirmed = @ + 1] \in Pending
  <2>1. [entry EXCEPT !.confirmed = @ + 1] \in Pending
    BY DEF Pending
  <2>2. [[entry EXCEPT !.confirmed = @ + 1] EXCEPT !.live = FALSE] \in Pending
    BY <2>1 DEF Pending
  <2>3. [entry EXCEPT !.live = FALSE, !.confirmed = @ + 1]
          = [[entry EXCEPT !.confirmed = @ + 1] EXCEPT !.live = FALSE]
    BY DEF Pending
  <2> QED BY <2>2, <2>3
<1> QED BY <1>1, <1>2, <1>3, <1>4, <1>5

\* So is a table with another row in it.
LEMMA TableIsTyped ==
  ASSUME VerifyRowsOK, NEW i \in Verification!Ids, NEW entry \in Pending,
         pending' = [pending EXCEPT ![i] = entry]
  PROVE  VerifyRowsOK' /\ pending'[i] = entry
         /\ \A j \in Verification!Ids \ {i} : pending'[j] = pending[j]
  BY DEF VerifyRowsOK

\* A call that goes on, or ends, is still a call.
LEMMA CallIsTyped ==
  ASSUME CallsOK, NEW c \in Calls
  PROVE  /\ Verification!NoCall \in VerifyCall /\ HasItsRow(Verification!NoCall)
         /\ \A step \in {"create", "drop", "icon",
            "commit"} : [call[c] EXCEPT !.step = step] \in VerifyCall
         /\ \A step \in {"create", "drop", "icon", "commit"} :
              call[c].id \in Verification!Ids => HasItsRow([call[c] EXCEPT !.step = step])
         /\ HasItsRow([call[c] EXCEPT !.step = "create"])
<1>1. Verification!NoCall \in VerifyCall /\ HasItsRow(Verification!NoCall)
  BY DEF Verification!NoCall, VerifyCall, HasItsRow, OfARow, Verification!None
<1>2. call[c] \in VerifyCall
  BY DEF CallsOK
<1> QED BY <1>1, <1>2 DEF VerifyCall, HasItsRow, OfARow

\* So are all of them, when one goes on.
LEMMA CallsAreTyped ==
  ASSUME CallsOK, NEW c \in Calls, NEW rec \in VerifyCall, HasItsRow(rec), Verification!Goes(c, rec)
  PROVE  CallsOK'
  BY DEF CallsOK, Verification!Goes

\* No step but one that enters or leaves the look changes who is to look.
LEMMA LookingStays ==
  ASSUME NEW c \in Calls, NEW rec, call \in [Calls -> VerifyCall], Verification!Goes(c, rec),
         call[c].step # "icon", rec.step # "icon", NEW i
  PROVE  Looking(i)' = Looking(i)
  BY DEF Looking, Verification!Goes

\* Before the first verification nobody looks.
LEMMA VerifyInit ==
  ASSUME VerifyBounds
  PROVE  Verification!Init => VerifyInv
<1> SUFFICES ASSUME Verification!Init  PROVE VerifyInv
  OBVIOUS
<1>1. VerifyTypes
  BY DEF Verification!Init, VerifyTypes, VerifyRowsOK, CallsOK, HasItsRow, Pending, VerifyCall,
     OfARow, Verification!Unused, Verification!NoCall, Verification!None
<1>2. \A i \in Verification!Ids : Looking(i) = {}
  BY DEF Verification!Init, Looking, Verification!NoCall
<1>3. \A i \in Verification!Ids : pending[i].checks = 0 /\ pending[i].attempts = 0
  BY DEF Verification!Init, Verification!Unused
<1>4. \A i \in Verification!Ids : Cardinality(Looking(i)) = 0
  BY <1>2, FS_EmptySet
<1>5. \A i \in Verification!Ids : Looks(i) = 0 /\ pending[i].attempts = 0
  BY <1>3, <1>4 DEF Looks
<1>6. LooksAreCounted
  BY <1>5 DEF LooksAreCounted, VerifyBounds
<1>7. LiveIsUnused
  BY DEF Verification!Init, LiveIsUnused, Verification!Unused
<1> QED BY <1>1, <1>6, <1>7 DEF VerifyInv

\* A step that leaves the three counts of every row, lets no row come back and nobody
\* start or end a look keeps the invariant, if it keeps the types.
LEMMA VerifyQuietKeeps ==
  ASSUME VerifyInv, VerifyTypes',
         \A i \in Verification!Ids : /\ Looking(i)' = Looking(i)
                                     /\ pending[i]'.checks = pending[i].checks
                                     /\ pending[i]'.attempts = pending[i].attempts
                                     /\ pending[i]'.confirmed = pending[i].confirmed
                                     /\ pending[i]'.live => pending[i].live
  PROVE  VerifyInv'
<1>1. LooksAreCounted'
  BY DEF VerifyInv, LooksAreCounted, Looks
<1>2. LiveIsUnused'
  BY DEF VerifyInv, LiveIsUnused
<1> QED BY <1>1, <1>2 DEF VerifyInv

\* startVerification and clearPending: what was pending may only go.
LEMMA StartKeeps ==
  ASSUME VerifyInv, NEW c \in Calls, Verification!startVerification(c) \/ Verification!clearPending(c)
  PROVE  VerifyInv'
<1>1. CASE Verification!startVerification(c)
  <2>1. PICK d \in Discords, a \in Accounts, target \in Icons :
          Verification!Goes(c, [Verification!NoCall EXCEPT !.step = "clear", !.discord = d,
            !.account = a,
                                 !.target = target])
    BY <1>1 DEF Verification!startVerification, Verification!targetIcons
  <2> DEFINE rec == [Verification!NoCall EXCEPT !.step = "clear", !.discord = d, !.account = a,
                                   !.target = target]
  <2>2. rec \in VerifyCall /\ HasItsRow(rec)
    BY DEF VerifyCall, HasItsRow, OfARow, Verification!NoCall, Verification!None
  <2>3. VerifyTypes'
    BY <1>1, <2>1, <2>2, CallsAreTyped DEF VerifyInv, VerifyTypes, VerifyRowsOK,
       Verification!startVerification, Verification!Rows
  <2>4. \A i \in Verification!Ids : Looking(i)' = Looking(i)
    BY <1>1, <2>1, LookingStays DEF VerifyInv, VerifyTypes, CallsOK,
       Verification!startVerification, Verification!At, Verification!NoCall
  <2> QED BY <1>1, <2>3, <2>4, VerifyQuietKeeps DEF Verification!startVerification,
             Verification!Rows
<1>2. CASE Verification!clearPending(c)
  <2>1. VerifyRowsOK' /\ \A i \in Verification!Ids : pending'[i] \in {pending[i],
          [pending[i] EXCEPT !.live = FALSE]}
    BY <1>2, RowIsTyped DEF VerifyInv, VerifyTypes, VerifyRowsOK, Verification!clearPending
  <2>2. CallsOK'
    BY <1>2, CallIsTyped, CallsAreTyped DEF VerifyInv, VerifyTypes, Verification!clearPending
  <2>3. [call[c] EXCEPT !.step = "create"].step # "icon"
    BY DEF VerifyInv, VerifyTypes, CallsOK, VerifyCall
  <2>4. \A i \in Verification!Ids : Looking(i)' = Looking(i)
    BY <1>2, <2>3, LookingStays DEF VerifyInv, VerifyTypes, CallsOK, Verification!clearPending,
       Verification!At
  <2>5. \A i \in Verification!Ids : pending[i] \in Pending
    BY DEF VerifyInv, VerifyTypes, VerifyRowsOK
  <2> QED BY <2>1, <2>2, <2>4, <2>5, VerifyQuietKeeps DEF VerifyTypes, Pending
<1> QED BY <1>1, <1>2

\* createPending: a new row has no attempts, and whoever looked would have counted one.
LEMMA CreateKeeps ==
  ASSUME VerifyInv, VerifyBounds, NEW c \in Calls, Verification!createPending(c)
  PROVE  VerifyInv'
<1>1. PICK i \in Verification!Ids :
        /\ pending[i] = Verification!Unused
        /\ pending' = [pending EXCEPT ![i] = [Verification!Unused EXCEPT !.live = TRUE,
             !.discord = call[c].discord, !.account = call[c].account,
             !.target = call[c].target]]
  BY DEF Verification!createPending
<1>2. [Verification!Unused EXCEPT !.live = TRUE, !.discord = call[c].discord,
        !.account = call[c].account,
                     !.target = call[c].target] \in Pending
  BY DEF VerifyInv, VerifyTypes, CallsOK, Pending, VerifyCall, Verification!Unused
<1>3. VerifyTypes'
  BY <1>1, <1>2, TableIsTyped, CallIsTyped, CallsAreTyped DEF Verification!createPending,
     Verification!Ends, VerifyInv, VerifyTypes
<1>4. \A j \in Verification!Ids : Looking(j)' = Looking(j)
  BY LookingStays DEF Verification!createPending, Verification!Ends, Verification!At,
     Verification!NoCall, VerifyInv, VerifyTypes, CallsOK
<1>5. \A j \in Verification!Ids : /\ pending'[j].checks = pending[j].checks
                                  /\ pending'[j].attempts = pending[j].attempts
                                  /\ pending'[j].confirmed = pending[j].confirmed
  BY <1>1 DEF Verification!Unused, VerifyInv, VerifyTypes, VerifyRowsOK
<1>6. LooksAreCounted'
  BY <1>4, <1>5 DEF VerifyInv, LooksAreCounted, Looks
<1>7. LiveIsUnused'
  BY <1>1, <1>5 DEF VerifyInv, LiveIsUnused, VerifyTypes, VerifyRowsOK, Verification!Unused
<1> QED BY <1>3, <1>6, <1>7 DEF VerifyInv

\* confirmVerification reads a row, or deletes one that has expired.
LEMMA ConfirmKeeps ==
  ASSUME VerifyInv, NEW c \in Calls, Verification!confirmVerification(c)
  PROVE  VerifyInv'
<1>1. PICK i \in Verification!Ids :
        /\ Verification!At(c, "idle") /\ pending[i].live
        /\ IF pending[i].expired
           THEN pending' = [pending EXCEPT ![i].live = FALSE] /\ UNCHANGED call
           ELSE /\ Verification!Goes(c, [Verification!NoCall EXCEPT !.step = "attempt", !.id = i,
                                          !.discord = pending[i].discord,
                                          !.account = pending[i].account,
                                          !.target = pending[i].target,
                                          !.attempts = pending[i].attempts])
                /\ UNCHANGED pending
  BY DEF Verification!confirmVerification
<1>2. CASE pending[i].expired
  <2>1. pending[i] \in Pending
    BY DEF VerifyInv, VerifyTypes, VerifyRowsOK
  <2>2. VerifyTypes' /\ pending'[i] = [pending[i] EXCEPT !.live = FALSE]
        /\ \A j \in Verification!Ids \ {i} : pending'[j] = pending[j]
    BY <1>1, <1>2, <2>1, RowIsTyped, TableIsTyped DEF VerifyInv, VerifyTypes, CallsOK
  <2>3. \A j \in Verification!Ids : Looking(j)' = Looking(j)
    BY <1>1, <1>2 DEF Looking
  <2> QED BY <2>1, <2>2, <2>3, VerifyQuietKeeps DEF Pending
<1>3. CASE ~pending[i].expired
  <2> DEFINE rec == [Verification!NoCall EXCEPT !.step = "attempt", !.id = i,
                                   !.discord = pending[i].discord,
                                   !.account = pending[i].account,
                                   !.target = pending[i].target,
                                   !.attempts = pending[i].attempts]
  <2>1. rec \in VerifyCall /\ HasItsRow(rec)
    BY DEF VerifyInv, VerifyTypes, VerifyRowsOK, Pending, VerifyCall, HasItsRow, OfARow,
       Verification!NoCall
  <2>2. VerifyTypes'
    BY <1>1, <1>3, <2>1, CallsAreTyped DEF VerifyInv, VerifyTypes, VerifyRowsOK
  <2>3. \A j \in Verification!Ids : Looking(j)' = Looking(j)
    BY <1>1, <1>3, LookingStays DEF VerifyInv, VerifyTypes, CallsOK, Verification!At,
       Verification!NoCall
  <2> QED BY <1>1, <1>3, <2>2, <2>3, VerifyQuietKeeps
<1> QED BY <1>2, <1>3

\* countAttempt: who goes on to look has one attempt of his own, and not the last one.
LEMMA CountKeeps ==
  ASSUME VerifyInv, VerifyBounds, NEW c \in Calls, Verification!countAttempt(c)
  PROVE  VerifyInv'
<1>1. PICK i \in Verification!Ids : /\ i = call[c].id /\ call[c].step = "attempt"
                                       /\ call[c] \in VerifyCall
                                    /\ pending[i] \in Pending
  BY DEF Verification!countAttempt, Verification!At, VerifyInv, VerifyTypes, VerifyRowsOK,
     CallsOK, HasItsRow, OfARow
<1>2. CASE ~pending[i].live
  <2>1. Verification!Ends(c) /\ UNCHANGED pending
    BY <1>1, <1>2 DEF Verification!countAttempt
  <2>2. VerifyTypes'
    BY <2>1, CallIsTyped, CallsAreTyped DEF VerifyInv, VerifyTypes, VerifyRowsOK,
       Verification!Ends
  <2>3. \A j \in Verification!Ids : Looking(j)' = Looking(j)
    BY <1>1, <2>1, LookingStays DEF VerifyInv, VerifyTypes, CallsOK, Verification!Ends,
       Verification!NoCall
  <2> QED BY <2>1, <2>2, <2>3, VerifyQuietKeeps
<1>3. CASE pending[i].live /\ Verification!Attempts(c) >= MAX_ATTEMPTS
  <2>1. /\ pending' = [pending EXCEPT ![i].attempts = @ + 1]
        /\ Verification!Goes(c, [call[c] EXCEPT !.step = "drop"])
    BY <1>1, <1>3 DEF Verification!countAttempt
  <2>2. VerifyTypes'
    BY <1>1, <2>1, RowIsTyped, TableIsTyped, CallIsTyped, CallsAreTyped DEF VerifyInv, VerifyTypes
  <2>3. \A j \in Verification!Ids : Looking(j)' = Looking(j)
    BY <1>1, <2>1, LookingStays DEF VerifyInv, VerifyTypes, CallsOK, VerifyCall
  <2>4. \A j \in Verification!Ids : /\ pending'[j].checks = pending[j].checks
                                    /\ pending'[j].attempts \in {pending[j].attempts,
                                       pending[j].attempts + 1}
                                    /\ pending'[j].confirmed = pending[j].confirmed
                                    /\ pending'[j].live = pending[j].live
    BY <1>1, <2>1 DEF VerifyInv, VerifyTypes, VerifyRowsOK, Pending
  <2>5. LooksAreCounted'
    <3> SUFFICES ASSUME NEW j \in Verification!Ids
                 PROVE Looks(j)' <= pending'[j].attempts /\ Looks(j)' < MAX_ATTEMPTS
      BY DEF LooksAreCounted
    <3>1. Looks(j)' = Looks(j)
      BY <2>3, <2>4 DEF Looks
    <3>2. Looks(j) \in Nat /\ pending[j].attempts \in Nat
      BY LookingIsFinite DEF Looks, VerifyInv, VerifyTypes, VerifyRowsOK, Pending
    <3> QED BY <3>1, <3>2, <2>4 DEF VerifyInv, LooksAreCounted
  <2>6. LiveIsUnused'
    BY <2>4 DEF VerifyInv, LiveIsUnused
  <2> QED BY <2>2, <2>5, <2>6 DEF VerifyInv
<1>4. CASE pending[i].live /\ ~(Verification!Attempts(c) >= MAX_ATTEMPTS)
  <2>1. /\ pending' = [pending EXCEPT ![i].attempts = @ + 1]
        /\ call' = [call EXCEPT ![c] = [call[c] EXCEPT !.step = "icon"]]
    BY <1>1, <1>4 DEF Verification!countAttempt, Verification!Goes
  <2>2. VerifyTypes'
    BY <1>1, <2>1, RowIsTyped, TableIsTyped, CallIsTyped, CallsAreTyped DEF VerifyInv,
       VerifyTypes, Verification!Goes
  <2>3. /\ Looking(i)' = Looking(i) \cup {c} /\ c \notin Looking(i)
        /\ \A j \in Verification!Ids \ {i} : Looking(j)' = Looking(j)
    BY <1>1, <2>1 DEF Looking, VerifyCall, VerifyInv, VerifyTypes, CallsOK
  <2>4. Cardinality(Looking(i)') = Cardinality(Looking(i)) + 1
    BY <2>3, LookingIsFinite, FS_AddElement
  <2>5. LooksAreCounted'
    <3> SUFFICES ASSUME NEW j \in Verification!Ids
                 PROVE Looks(j)' <= pending'[j].attempts /\ Looks(j)' < MAX_ATTEMPTS
      BY DEF LooksAreCounted
    <3>1. CASE j # i
      BY <1>1, <2>1, <2>3, <3>1 DEF Looks, VerifyInv, LooksAreCounted, VerifyTypes, VerifyRowsOK
    <3>2. CASE j = i
      <4>1. /\ pending'[i].attempts = pending[i].attempts + 1
            /\ pending'[i].checks = pending[i].checks /\ pending[i].checks \in Nat
        BY <1>1, <2>1 DEF VerifyInv, VerifyTypes, VerifyRowsOK, Pending
      <4>2. pending'[i].checks + Cardinality(Looking(i)') = Looks(i) + 1
        BY <2>4, <4>1, LookingIsFinite DEF Looks
      <4>3. Looks(i) \in Nat /\ Looks(i) <= pending[i].attempts
        BY <1>1, LookingIsFinite DEF Looks, VerifyInv, LooksAreCounted, Pending
      <4>4. pending[i].attempts + 1 < MAX_ATTEMPTS
        BY <1>1, <1>4 DEF Verification!Attempts, VerifyBounds, Pending
      <4>5. Looks(i) + 1 <= pending[i].attempts + 1 /\ Looks(i) + 1 < MAX_ATTEMPTS
        BY <1>1, <4>3, <4>4 DEF VerifyBounds, Pending
      <4>6. Looks(i)' = Looks(i) + 1
        BY <4>2 DEF Looks
      <4>7. Looks(i)' <= pending'[i].attempts /\ Looks(i)' < MAX_ATTEMPTS
        BY <4>1, <4>5, <4>6
      <4> QED BY ONLY <3>2, <4>7
    <3> QED BY <3>1, <3>2
  <2>6. LiveIsUnused'
    BY <1>1, <2>1 DEF VerifyInv, LiveIsUnused, VerifyTypes, VerifyRowsOK, Pending
  <2> QED BY <2>2, <2>5, <2>6 DEF VerifyInv
<1> QED BY <1>2, <1>3, <1>4

\* dropPending: a row goes.
LEMMA DropKeeps ==
  ASSUME VerifyInv, NEW c \in Calls, Verification!dropPending(c)
  PROVE  VerifyInv'
<1>1. call[c].id \in Verification!Ids /\ call[c].step = "drop"
  BY DEF Verification!dropPending, Verification!At, VerifyInv, VerifyTypes, CallsOK, HasItsRow,
     OfARow
<1>2. \A j \in Verification!Ids : pending[j] \in Pending
  BY DEF VerifyInv, VerifyTypes, VerifyRowsOK
<1>3. VerifyTypes' /\ pending'[call[c].id] = [pending[call[c].id] EXCEPT !.live = FALSE]
      /\ \A j \in Verification!Ids \ {call[c].id} : pending'[j] = pending[j]
  BY <1>1, <1>2, RowIsTyped, TableIsTyped, CallIsTyped, CallsAreTyped
     DEF Verification!dropPending, Verification!Ends, VerifyInv, VerifyTypes
<1>4. \A j \in Verification!Ids : Looking(j)' = Looking(j)
  BY <1>1, LookingStays DEF Verification!dropPending, VerifyInv, VerifyTypes, CallsOK,
     Verification!Ends, Verification!NoCall
<1> QED BY <1>2, <1>3, <1>4, VerifyQuietKeeps DEF Pending

\* checkIcon: one of those who were to look has looked.
LEMMA CheckKeeps ==
  ASSUME VerifyInv, VerifyBounds, NEW c \in Calls, Verification!checkIcon(c)
  PROVE  VerifyInv'
<1>1. PICK i \in Verification!Ids : /\ i = call[c].id /\ call[c].step = "icon" /\ call[c] \in VerifyCall
                                    /\ pending[i] \in Pending
  BY DEF Verification!checkIcon, Verification!At, VerifyInv, VerifyTypes, VerifyRowsOK, CallsOK,
     HasItsRow, OfARow
<1>2. PICK rec \in {[call[c] EXCEPT !.step = "commit"], Verification!NoCall} :
        pending' = [pending EXCEPT ![i].checks = @ + 1] /\ Verification!Goes(c, rec)
  BY <1>1 DEF Verification!checkIcon, Verification!Ends
<1>3. rec \in VerifyCall /\ HasItsRow(rec)
  BY <1>1, <1>2, CallIsTyped DEF VerifyInv, VerifyTypes
<1>4. VerifyRowsOK'
  BY <1>1, <1>2, RowIsTyped, TableIsTyped DEF VerifyInv, VerifyTypes
<1>5. VerifyTypes'
  BY <1>2, <1>3, <1>4, CallsAreTyped DEF VerifyInv, VerifyTypes
<1>6. rec.step # "icon"
  BY <1>1 DEF VerifyCall, Verification!NoCall
<1>7. /\ Looking(i)' = Looking(i) \ {c} /\ c \in Looking(i)
      /\ \A j \in Verification!Ids \ {i} : Looking(j)' = Looking(j)
  <2>1. call' = [call EXCEPT ![c] = rec] /\ call \in [Calls -> VerifyCall]
    BY <1>2 DEF Verification!Goes, VerifyInv, VerifyTypes, CallsOK
  <2>2. call'[c].step # "icon" /\ \A b \in Calls \ {c} : call'[b] = call[b]
    BY <1>6, <2>1
  <2> QED BY <1>1, <2>2 DEF Looking
<1>8. Cardinality(Looking(i)') = Cardinality(Looking(i)) - 1
  BY <1>7, LookingIsFinite, FS_RemoveElement
<1>9. pending'[i].checks = pending[i].checks + 1 /\ pending[i].checks \in Nat
  BY <1>1, <1>2 DEF VerifyInv, VerifyTypes, VerifyRowsOK, Pending
<1>10. pending'[i].checks + Cardinality(Looking(i)') = Looks(i)
  BY <1>8, <1>9, LookingIsFinite DEF Looks
<1>11. \A j \in Verification!Ids : Looks(j)' = Looks(j)
  <2>1. \A j \in Verification!Ids \ {i} : Looks(j)' = Looks(j)
    BY <1>2, <1>7 DEF Looks, VerifyInv, VerifyTypes, VerifyRowsOK
  <2>2. Looks(i)' = Looks(i)
    BY <1>10 DEF Looks
  <2> QED BY <2>1, <2>2
<1>12. \A j \in Verification!Ids : /\ pending'[j].attempts = pending[j].attempts
                     /\ pending'[j].confirmed = pending[j].confirmed
                     /\ pending'[j].live = pending[j].live
  BY <1>1, <1>2 DEF VerifyInv, VerifyTypes, VerifyRowsOK, Pending
<1>13. LooksAreCounted' /\ LiveIsUnused'
  BY <1>11, <1>12 DEF VerifyInv, LooksAreCounted, LiveIsUnused
<1> QED BY <1>5, <1>13 DEF VerifyInv

\* commitVerification: the account is given with the deletion of the row.
LEMMA CommitKeeps ==
  ASSUME VerifyInv, NEW c \in Calls, Verification!commitVerification(c)
  PROVE  VerifyInv'
<1>1. PICK i \in Verification!Ids : i = call[c].id /\ call[c].step = "commit" /\ pending[i] \in Pending
  BY DEF Verification!commitVerification, Verification!At, VerifyInv, VerifyTypes, VerifyRowsOK,
     CallsOK, HasItsRow, OfARow
<1>2. Verification!Ends(c) /\ \/ UNCHANGED pending
                              \/ /\ pending[i].live
                                 /\ pending' = [pending EXCEPT ![i].live = FALSE,
                                    ![i].confirmed = @ + 1]
  BY <1>1 DEF Verification!commitVerification, Verification!DeletesPending
<1>3. CallsOK'
  BY <1>2, CallIsTyped, CallsAreTyped DEF Verification!Ends, VerifyInv, VerifyTypes
<1>4. [pending[i] EXCEPT !.live = FALSE, !.confirmed = @ + 1] \in Pending
  BY <1>1, RowIsTyped
<1>5. ASSUME UNCHANGED pending  PROVE VerifyTypes'
  BY <1>3, <1>5 DEF VerifyInv, VerifyTypes, VerifyRowsOK
<1>6. ASSUME ~UNCHANGED pending  PROVE VerifyTypes'
  <2>1. pending' = [pending EXCEPT ![i] = [pending[i] EXCEPT !.live = FALSE, !.confirmed = @ + 1]]
    BY <1>2, <1>6
  <2> QED BY <1>1, <1>3, <1>4, <2>1, TableIsTyped DEF VerifyInv, VerifyTypes
<1>7. VerifyTypes'
  BY <1>5, <1>6
<1>8. \A j \in Verification!Ids : Looking(j)' = Looking(j)
  BY <1>1, <1>2, LookingStays DEF VerifyInv, VerifyTypes, CallsOK, Verification!Ends,
     Verification!NoCall
<1>9. \A j \in Verification!Ids : /\ pending'[j].attempts = pending[j].attempts
                                  /\ pending'[j].checks = pending[j].checks
  BY <1>1, <1>2 DEF VerifyInv, VerifyTypes, VerifyRowsOK, Pending
<1>10. LooksAreCounted'
  BY <1>8, <1>9 DEF VerifyInv, LooksAreCounted, Looks
<1>11. LiveIsUnused'
  BY <1>1, <1>2 DEF VerifyInv, LiveIsUnused, VerifyTypes, VerifyRowsOK, Pending
<1> QED BY <1>7, <1>10, <1>11 DEF VerifyInv

\* The owner, the clock, the cache and the modal touch no count of a row.
LEMMA OutsideKeeps ==
  ASSUME VerifyInv,
         \/ Verification!ShowIcon \/ Verification!Forgets \/ Verification!TimePasses
            \/ Verification!unlinkAccount
         \/ Verification!onVerifyModal \/ Verification!onVerify \/ Verification!onCancel
            \/ UNCHANGED Verification!vars
  PROVE  VerifyInv'
<1>1. CASE Verification!TimePasses
  <2>1. PICK i \in Verification!Ids : pending' = [pending EXCEPT ![i].expired = TRUE] /\ UNCHANGED call
    BY <1>1 DEF Verification!TimePasses
  <2>2. \A j \in Verification!Ids : pending[j] \in Pending
    BY DEF VerifyInv, VerifyTypes, VerifyRowsOK
  <2>3. VerifyTypes' /\ pending'[i] = [pending[i] EXCEPT !.expired = TRUE]
        /\ \A j \in Verification!Ids \ {i} : pending'[j] = pending[j]
    BY <2>1, <2>2, RowIsTyped, TableIsTyped DEF VerifyInv, VerifyTypes, CallsOK
  <2>4. \A j \in Verification!Ids : Looking(j)' = Looking(j)
    BY <2>1 DEF Looking
  <2> QED BY <2>2, <2>3, <2>4, VerifyQuietKeeps DEF Pending
<1>2. CASE UNCHANGED <<pending, call>>
  <2>1. VerifyTypes' /\ \A j \in Verification!Ids : Looking(j)' = Looking(j)
    BY <1>2 DEF VerifyInv, VerifyTypes, VerifyRowsOK, CallsOK, Looking
  <2> QED BY <1>2, <2>1, VerifyQuietKeeps
<1> QED BY <1>1, <1>2 DEF Verification!ShowIcon, Verification!Forgets,
           Verification!unlinkAccount, Verification!onVerifyModal, Verification!onVerify,
           Verification!onCancel,
                          Verification!vars, Verification!Rows

\* Every step keeps the invariant.
LEMMA VerifyStep ==
  ASSUME VerifyBounds
  PROVE  VerifyInv /\ [Verification!Next]_Verification!vars => VerifyInv'
<1> SUFFICES ASSUME VerifyInv, [Verification!Next]_Verification!vars  PROVE VerifyInv'
  OBVIOUS
<1>1. ASSUME NEW c \in Calls, Verification!Handler(c)  PROVE VerifyInv'
  BY <1>1, StartKeeps, CreateKeeps, ConfirmKeeps, CountKeeps, DropKeeps, CheckKeeps, CommitKeeps
     DEF Verification!Handler
<1> QED BY <1>1, OutsideKeeps DEF Verification!Next

\* The icon is looked at fewer than MAX_ATTEMPTS times and the account is given once.
LEMMA VerifyShows ==
  ASSUME VerifyBounds
  PROVE  VerifyInv => Verification!VerificationIsUsedUp
<1> SUFFICES ASSUME VerifyInv, NEW i \in Verification!Ids
             PROVE  pending[i].checks < MAX_ATTEMPTS /\ pending[i].confirmed <= 1
  BY DEF Verification!VerificationIsUsedUp
<1>1. pending[i].checks \in Nat /\ Cardinality(Looking(i)) \in Nat
  BY LookingIsFinite DEF VerifyInv, VerifyTypes, VerifyRowsOK, Pending
<1> QED BY <1>1 DEF VerifyInv, LooksAreCounted, LiveIsUnused, Looks, VerifyBounds
-----------------------------------------------------------------------------
(* Who is blocked is shut out, whatever is on its way.                       *)

\* The requests are numbered from one: an empty cache holds 0.
AccessBounds == Requests \subseteq Nat \ {0}

Status == {"none", "PENDING", "APPROVED", "BLOCKED"}
Promised == Status \cup {"none", "pending", "failed", "yes", "no"}
Kinds == {"none", "review", "groups", "settings", "group", "gone"}

CachesOK == cache \in [Door!Caches -> Requests \cup {0}]
  /\ promise \in [Door!Caches -> [Requests -> Promised]]
RequestRow == [at: {"none", "served", "refused"} \cup Door!Stages, on: Requests \cup {0}, shut: BOOLEAN]
RequestsOK ==
  /\ request \in [Requests -> RequestRow]
  /\ \A r \in Requests : request[r].at \in Door!Stages => request[r].on \in Requests
RowOK == row \in [status: Status, member: BOOLEAN] /\ token \in BOOLEAN /\ base \in BOOLEAN
HalvesOK == half \in [Requests -> [on: Requests \cup {0}, member: BOOLEAN]]
ChangesOK ==
  /\ change \in [Admins -> [kind: Kinds, step: Nat, to: {"none", "yes", "no", "APPROVED", "BLOCKED"}]]
  /\ \A a \in Admins : change[a].kind = "review" => change[a].to \in {"APPROVED", "BLOCKED"}
AccessTypes == CachesOK /\ RequestsOK /\ RowOK /\ HalvesOK /\ ChangesOK

\* A review has written the row and the caches have not forgotten it yet.
Halfway == \E a \in Admins : change[a].kind = "review" /\ change[a].step = 2

\* Whom the row does not let in, no session that is kept lets in either, but for a
\* review halfway.
SessionsAreFresh ==
  row.status # "APPROVED" /\ ~Halfway /\ cache["session"] # 0
    => promise["session"][cache["session"]] # "APPROVED"

\* Who is shut out stays so: nobody is about to approve him, and what his request
\* waits for will not let him pass.
ShutOut(r) == /\ row.status \notin {"none", "APPROVED"}
              /\ \A a \in Admins : change[a].kind = "review" => change[a].to = "BLOCKED"
              /\ request[r].at \in {"session", "refused"}
              /\ request[r].at = "session" => promise["session"][request[r].on] # "APPROVED"

AccessInv == /\ AccessTypes
             /\ token => row.status # "none"
             /\ SessionsAreFresh
             /\ \A r \in Requests : request[r].shut => ShutOut(r)
-----------------------------------------------------------------------------
\* A request that starts a promise, or takes the one that is kept.
LEMMA WrapIsTyped ==
  ASSUME AccessBounds, CachesOK, NEW c \in Door!Caches, NEW r \in Requests, Door!wrap(c, r)
  PROVE  /\ CachesOK' /\ Door!Wrap(c, r) \in Requests
         /\ cache'[c] = Door!Wrap(c, r)
         /\ \A d \in Door!Caches \ {c} : cache'[d] = cache[d] /\ promise'[d] = promise[d]
         /\ \A k \in Requests : promise'[c][k] \in {promise[c][k], "pending"}
<1>1. Door!Wrap(c, r) \in Requests
  BY DEF Door!Wrap, CachesOK
<1>2. cache' \in [Door!Caches -> Requests \cup {0}] /\ cache'[c] = Door!Wrap(c, r)
      /\ \A d \in Door!Caches \ {c} : cache'[d] = cache[d]
  BY <1>1 DEF Door!wrap, CachesOK
<1>3. PICK v \in Promised : promise' = [promise EXCEPT ![c][r] = v] /\ v \in {promise[c][r], "pending"}
  BY DEF Door!wrap, CachesOK, Promised
<1>4. promise' \in [Door!Caches -> [Requests -> Promised]]
      /\ \A d \in Door!Caches \ {c} : promise'[d] = promise[d]
  BY <1>3 DEF CachesOK
<1>5. \A k \in Requests : promise'[c][k] \in {promise[c][k], "pending"}
  BY <1>3 DEF CachesOK
<1>6. CachesOK'
  BY <1>2, <1>4 DEF CachesOK
<1>7. \A d \in Door!Caches \ {c} : cache'[d] = cache[d] /\ promise'[d] = promise[d]
  BY <1>2, <1>4
<1>8. cache'[c] = Door!Wrap(c, r)
  BY <1>2
<1> QED BY <1>1, <1>5, <1>6, <1>7, <1>8

\* The answer of the database to one promise.
LEMMA AnswerIsTyped ==
  ASSUME CachesOK, NEW c \in Door!Caches, NEW r \in Requests, NEW v \in Promised, Door!Answer(c, r, v)
  PROVE  /\ promise' \in [Door!Caches -> [Requests -> Promised]]
         /\ promise'[c][r] = v
         /\ \A d \in Door!Caches \ {c} : promise'[d] = promise[d]
         /\ \A k \in Requests \ {r} : promise'[c][k] = promise[c][k]
  BY DEF Door!Answer, CachesOK

\* Forgetting empties caches.
LEMMA ForgetIsTyped ==
  ASSUME CachesOK, Door!forget \/ Door!forgetAll
  PROVE  cache' \in [Door!Caches -> Requests \cup {0}] /\ cache'["session"] = 0
  BY DEF CachesOK, Door!forget, Door!forgetAll, Door!Caches

\* A step that leaves alone the person, his requests and their changes, and at most
\* empties the session cache, keeps what is said of them.
LEMMA AccessQuietKeeps ==
  ASSUME AccessInv, AccessTypes', UNCHANGED <<request, change>>, row'.status = row.status,
         token' => token \/ row.status = "APPROVED",
         cache'["session"] \in {cache["session"], 0},
         \A k \in Requests : promise'["session"][k] = "APPROVED"
            => promise["session"][k] = "APPROVED" \/ row.status = "APPROVED"
  PROVE  AccessInv'
<1>1. token' => row'.status # "none"
  BY DEF AccessInv
<1>2. Halfway' = Halfway
  BY DEF Halfway
<1>3. SessionsAreFresh'
  BY <1>2 DEF AccessInv, SessionsAreFresh, AccessTypes, CachesOK, Door!Caches
<1>4. ASSUME NEW r \in Requests, request'[r].shut  PROVE ShutOut(r)'
  <2>1. ShutOut(r)
    BY <1>4 DEF AccessInv
  <2>2. request[r].at = "session" => request[r].on \in Requests
    BY DEF AccessInv, AccessTypes, RequestsOK, Door!Stages
  <2> QED BY <2>1, <2>2 DEF ShutOut
<1> QED BY <1>1, <1>3, <1>4 DEF AccessInv

\* The door: a person who is unknown has asked for nothing.
LEMMA DoorKeeps ==
  ASSUME AccessBounds, AccessInv, Door!discordLogin \/ Door!login \/ Door!createImpersonationToken
         \/ Door!refresh \/ Door!Expire
  PROVE  AccessInv'
<1>1. CASE Door!discordLogin
  <2>1. PICK status \in IF row.status = "none" THEN {"PENDING", "APPROVED"} ELSE {row.status} :
          row' = [row EXCEPT !.status = status] /\ token' = (token \/ status = "APPROVED")
    BY <1>1 DEF Door!discordLogin
  <2>2. row \in [status: Status, member: BOOLEAN] /\ status \in Status
    BY <2>1 DEF AccessInv, AccessTypes, RowOK, Status
  <2>3. RowOK' /\ row'.status = status
    BY <1>1, <2>1, <2>2 DEF RowOK, Door!discordLogin, AccessInv, AccessTypes
  <2>4. CachesOK' /\ cache'["session"] \in {cache["session"], 0}
    BY <1>1, ForgetIsTyped DEF Door!discordLogin, AccessInv, AccessTypes, CachesOK
  <2>5. AccessTypes'
    BY <1>1, <2>3, <2>4 DEF Door!discordLogin, AccessInv, AccessTypes, RequestsOK, HalvesOK,
       ChangesOK
  <2>6. CASE row.status # "none"
    BY <1>1, <2>1, <2>3, <2>4, <2>5, <2>6, AccessQuietKeeps DEF Door!discordLogin
  <2>7. CASE row.status = "none"
    <3>1. UNCHANGED <<cache, promise, request, change>> /\ row'.status # "none"
      BY <1>1, <2>1, <2>3, <2>7 DEF Door!discordLogin
    <3>2. \A r \in Requests : ~request[r].shut
      BY <2>7 DEF AccessInv, ShutOut
    <3>3. SessionsAreFresh'
      BY <2>7, <3>1 DEF AccessInv, SessionsAreFresh, Halfway
    <3> QED BY <2>5, <3>1, <3>2, <3>3 DEF AccessInv
  <2> QED BY <2>6, <2>7
<1>2. CASE Door!login
  <2>1. CachesOK' /\ cache'["session"] \in {cache["session"], 0}
    BY <1>2, ForgetIsTyped DEF Door!login, AccessInv, AccessTypes, CachesOK
  <2>2. AccessTypes'
    BY <1>2, <2>1 DEF Door!login, AccessInv, AccessTypes, RowOK, RequestsOK, HalvesOK, ChangesOK
  <2> QED BY <1>2, <2>1, <2>2, AccessQuietKeeps DEF Door!login
<1>3. CASE Door!IssueToken
  <2>1. AccessTypes'
    BY <1>3 DEF Door!IssueToken, AccessInv, AccessTypes, CachesOK, RowOK, RequestsOK, HalvesOK,
       ChangesOK
  <2> QED BY <1>3, <2>1, AccessQuietKeeps DEF Door!IssueToken
<1>4. CASE Door!Expire
  <2>1. PICK c \in Door!Caches : cache' = [cache EXCEPT ![c] = 0]
    BY <1>4 DEF Door!Expire
  <2>2. CachesOK' /\ cache'["session"] \in {cache["session"], 0}
    BY <1>4, <2>1 DEF Door!Expire, AccessInv, AccessTypes, CachesOK, Door!Caches
  <2>3. AccessTypes'
    BY <1>4, <2>2 DEF Door!Expire, AccessInv, AccessTypes, RowOK, RequestsOK, HalvesOK, ChangesOK
  <2> QED BY <1>4, <2>2, <2>3, AccessQuietKeeps DEF Door!Expire
<1> QED BY <1>1, <1>2, <1>3, <1>4 DEF Door!createImpersonationToken, Door!refresh

\* validateSessionToken: who begins while he is blocked takes no session of before.
LEMMA BeginKeeps ==
  ASSUME AccessBounds, AccessInv, NEW r \in Requests, Door!Begin(r)
  PROVE  AccessInv'
<1> DEFINE on == Door!Wrap("session", r)
           shut == row.status # "APPROVED" /\ Door!NoReview
<1>1. /\ CachesOK' /\ on \in Requests /\ cache'["session"] = on
      /\ \A k \in Requests : promise'["session"][k] \in {promise["session"][k], "pending"}
  BY WrapIsTyped DEF Door!Begin, Door!Caches, AccessInv, AccessTypes
<1>2. request' = [request EXCEPT ![r] = [at |-> "session", on |-> on, shut |-> shut]]
  BY DEF Door!Begin
<1>3. shut \in BOOLEAN
  OBVIOUS
<1>4. promise'["session"][on] # "APPROVED" \/ (cache["session"] = on
        /\ promise["session"][on] = "APPROVED")
  <2>1. cache["session"] # 0 => cache["session"] = on
    BY DEF Door!Wrap
  <2>2. cache["session"] = 0 => promise'["session"][on] = "pending"
    BY DEF Door!Begin, Door!wrap, Door!Wrap, Door!Caches, AccessInv, AccessTypes, CachesOK
  <2> QED BY <1>1, <2>1, <2>2
<1> HIDE DEF on, shut
<1>5. RequestsOK'
  BY <1>1, <1>2, <1>3 DEF AccessInv, AccessTypes, RequestsOK, RequestRow, Door!Stages
<1>6. AccessTypes'
  BY <1>1, <1>5 DEF Door!Begin, AccessInv, AccessTypes, RowOK, HalvesOK, ChangesOK
<1>7. UNCHANGED <<row, token, change>> /\ Halfway' = Halfway
  BY DEF Door!Begin, Halfway
<1>8. cache["session"] # 0 => on = cache["session"]
  BY DEF on, Door!Wrap
<1>9. on # 0
  BY <1>1 DEF AccessBounds
<1>10. SessionsAreFresh'
  BY <1>1, <1>4, <1>7, <1>9 DEF AccessInv, SessionsAreFresh
<1>11. ASSUME NEW q \in Requests, request'[q].shut  PROVE ShutOut(q)'
  <2>1. CASE q # r
    <3>1. request'[q] = request[q]
      BY <1>2, <2>1 DEF AccessInv, AccessTypes, RequestsOK, RequestRow
    <3>2. ShutOut(q)
      BY <1>11, <3>1 DEF AccessInv
    <3>3. request[q].at = "session" => request[q].on \in Requests
      BY DEF AccessInv, AccessTypes, RequestsOK, RequestRow, Door!Stages
    <3> QED BY <1>1, <1>7, <3>1, <3>2, <3>3 DEF ShutOut
  <2>2. CASE q = r
    <3>1. request'[q] = [at |-> "session", on |-> on, shut |-> shut]
      BY <1>2, <2>2 DEF AccessInv, AccessTypes, RequestsOK, RequestRow
    <3>2. row.status # "APPROVED" /\ Door!NoReview
      <4>1. request'[q].shut = shut
        BY <3>1
      <4> QED BY <1>11, <4>1 DEF shut
    <3>3. row.status # "none"
      BY DEF AccessInv, Door!Begin
    <3>4. ~Halfway
      BY <3>2 DEF Halfway, Door!NoReview
    <3>5. promise'["session"][on] # "APPROVED"
      BY <1>4, <1>9, <3>2, <3>4 DEF AccessInv, SessionsAreFresh
    <3> QED BY <1>7, <3>1, <3>2, <3>3, <3>5 DEF ShutOut, Door!NoReview
  <2> QED BY <2>1, <2>2
<1> QED BY <1>6, <1>7, <1>10, <1>11 DEF AccessInv

\* A request at its next guard.
LEMMA MovesOn ==
  ASSUME NEW rec \in RequestRow, NEW at \in {"served", "actor", "permission"}
  PROVE  [rec EXCEPT !.at = at] = [at |-> at, on |-> rec.on, shut |-> rec.shut]
  BY DEF RequestRow

\* A request that is let through was not shut out; one that is refused stays out.
LEMMA GuardKeeps ==
  ASSUME AccessBounds, AccessInv, NEW r \in Requests, Door!Pass(r) \/ Door!Refuse(r)
  PROVE  AccessInv'
<1>1. /\ UNCHANGED <<row, token, base, half, change>> /\ Halfway' = Halfway
      /\ RowOK' /\ HalvesOK' /\ ChangesOK'
  BY DEF Door!Pass, Door!Refuse, Halfway, AccessInv, AccessTypes, RowOK, HalvesOK, ChangesOK
<1>2. request \in [Requests -> RequestRow]
  BY DEF AccessInv, AccessTypes, RequestsOK, RequestRow
<1>3. CASE Door!Refuse(r)
  <2>1. request' = [request EXCEPT ![r].at = "refused"] /\ UNCHANGED <<cache, promise>>
    BY <1>3 DEF Door!Refuse
  <2>2. /\ request'[r].at = "refused" /\ request'[r].shut = request[r].shut
        /\ \A q \in Requests \ {r} : request'[q] = request[q]
    BY <1>2, <2>1
  <2>3. RequestsOK'
    BY <1>2, <2>1, <2>2 DEF AccessInv, AccessTypes, RequestsOK, RequestRow, Door!Stages
  <2>4. AccessTypes' /\ SessionsAreFresh'
    BY <1>1, <2>1, <2>3 DEF AccessInv, AccessTypes, CachesOK, SessionsAreFresh
  <2>5. ASSUME NEW q \in Requests, request'[q].shut  PROVE ShutOut(q)'
    BY <1>1, <2>1, <2>2, <2>5 DEF AccessInv, ShutOut
  <2> QED BY <1>1, <2>4, <2>5 DEF AccessInv
<1>4. CASE Door!Pass(r)
  <2>1. request[r].at \in Door!Stages
          /\ promise[request[r].at][request[r].on] = Door!Lets(request[r].at)
    BY <1>4 DEF Door!Pass
  <2>2. ~request[r].shut
    BY <2>1 DEF AccessInv, ShutOut, Door!Stages, Door!Lets
  <2>3. PICK at \in {"served", "actor", "permission"}, on \in Requests :
          /\ request' = [request EXCEPT ![r] = [at |-> at, on |-> on, shut |-> request[r].shut]]
          /\ CachesOK'
          /\ cache'["session"] = cache["session"] /\ promise'["session"] = promise["session"]
    <3> DEFINE next == Door!After(request[r].at)
    <3>1. next \in {"served", "actor", "permission"} /\ request[r].on \in Requests
      BY <2>1 DEF Door!After, Door!Stages, AccessInv, AccessTypes, RequestsOK, RequestRow
    <3> HIDE DEF next
    <3>2. CASE next = "served"
      <4>1. request' = [request EXCEPT ![r].at = "served"] /\ UNCHANGED <<cache, promise>>
        BY <1>4, <3>2 DEF Door!Pass, next
      <4>2. [request[r] EXCEPT !.at = "served"]
              = [at |-> "served", on |-> request[r].on, shut |-> request[r].shut]
        BY <1>2, MovesOn
      <4>3. request' = [request EXCEPT ![r] = [request[r] EXCEPT !.at = "served"]]
        BY <4>1
      <4> QED BY <3>1, <4>1, <4>2, <4>3 DEF AccessInv, AccessTypes, CachesOK
    <3>3. CASE next # "served"
      <4>1. next \in Door!Caches /\ next # "session"
        BY <3>1, <3>3 DEF Door!Caches
      <4>2. Door!wrap(next, r) /\ request' = [request EXCEPT ![r].at = next,
              ![r].on = Door!Wrap(next, r)]
        BY <1>4, <3>3 DEF Door!Pass, next
      <4>3. /\ CachesOK' /\ Door!Wrap(next, r) \in Requests
            /\ cache'["session"] = cache["session"] /\ promise'["session"] = promise["session"]
        BY <4>1, <4>2, WrapIsTyped DEF AccessInv, AccessTypes, Door!Caches
      <4>4. [[request[r] EXCEPT !.at = next] EXCEPT !.on = Door!Wrap(next, r)]
              = [at |-> next, on |-> Door!Wrap(next, r), shut |-> request[r].shut]
        <5>1. request[r] \in RequestRow /\ next \in {"served", "actor", "permission"}
          BY <1>2, <3>1
        <5>2. [request[r] EXCEPT !.at = next]
                = [at |-> next, on |-> request[r].on, shut |-> request[r].shut]
          BY <5>1, MovesOn
        <5>3. [[at |-> next, on |-> request[r].on,
                shut |-> request[r].shut] EXCEPT !.on = Door!Wrap(next, r)]
                = [at |-> next, on |-> Door!Wrap(next, r), shut |-> request[r].shut]
          OBVIOUS
        <5> QED BY <5>2, <5>3
      <4>5. request' = [request EXCEPT ![r] = [[request[r] EXCEPT !.at = next] EXCEPT !.on = Door!Wrap(next, r)]]
        BY <1>2, <4>2
      <4> QED BY <3>1, <4>3, <4>4, <4>5
    <3> QED BY <3>2, <3>3
  <2>4. RequestsOK'
    BY <1>2, <2>3 DEF AccessInv, AccessTypes, RequestsOK, RequestRow, Door!Stages
  <2>5. AccessTypes' /\ SessionsAreFresh'
    BY <1>1, <2>3, <2>4 DEF AccessInv, AccessTypes, SessionsAreFresh
  <2>6. ASSUME NEW q \in Requests, request'[q].shut  PROVE ShutOut(q)'
    <3>1. q # r /\ request'[q] = request[q]
      BY <1>2, <2>2, <2>3, <2>6
    <3> QED BY <1>1, <2>3, <2>6, <3>1 DEF AccessInv, ShutOut
  <2> QED BY <1>1, <2>5, <2>6 DEF AccessInv
<1> QED BY <1>3, <1>4

\* The database: a session that is read says what the row says.
LEMMA DatabaseKeeps ==
  ASSUME AccessBounds, AccessInv, NEW r \in Requests,
         \/ Door!LoadUser(r) \/ Door!loadPermissions(r) \/ Door!loadSettings(r)
            \/ Door!permissionsOf(r) \/ Door!LoadFails(r)
  PROVE  AccessInv'
<1>1. UNCHANGED <<row, token, base, request, change>> /\ RowOK' /\ RequestsOK' /\ ChangesOK'
  BY DEF Door!LoadUser, Door!loadPermissions, Door!loadSettings, Door!permissionsOf,
     Door!LoadFails, AccessInv, AccessTypes, RowOK,
         RequestsOK, RequestRow, ChangesOK
<1>2. SUFFICES /\ CachesOK' /\ HalvesOK' /\ cache'["session"] \in {cache["session"], 0}
               /\ \A k \in Requests : promise'["session"][k] = "APPROVED"
                     => promise["session"][k] = "APPROVED" \/ row.status = "APPROVED"
  BY <1>1, AccessQuietKeeps DEF AccessTypes
<1>3. CachesOK /\ HalvesOK
  BY DEF AccessInv, AccessTypes
<1>4. CASE Door!LoadUser(r)
  <2>1. PICK c \in {"session", "actor"} : Door!Answer(c, r, row.status) /\ UNCHANGED <<cache, half>>
    BY <1>4 DEF Door!LoadUser
  <2>2. row.status \in Promised /\ c \in Door!Caches
    BY DEF AccessInv, AccessTypes, RowOK, Promised, Door!Caches
  <2>3. /\ promise' \in [Door!Caches -> [Requests -> Promised]] /\ promise'[c][r] = row.status
        /\ \A d \in Door!Caches \ {c} : promise'[d] = promise[d]
        /\ \A k \in Requests \ {r} : promise'[c][k] = promise[c][k]
    BY <1>3, <2>1, <2>2, AnswerIsTyped
  <2>4. CachesOK' /\ HalvesOK'
    BY <1>3, <2>1, <2>3 DEF CachesOK, HalvesOK
  <2>5. \A k \in Requests : promise'["session"][k] \in {promise["session"][k], row.status}
    BY <2>1, <2>3 DEF Door!Caches
  <2> QED BY <2>1, <2>4, <2>5
<1>5. CASE Door!loadPermissions(r)
  <2>1. CASE row.status # "APPROVED"
    <3>1. Door!Answer("permission", r, "no") /\ UNCHANGED <<cache, half>>
      BY <1>5, <2>1 DEF Door!loadPermissions
    <3>2. promise' \in [Door!Caches -> [Requests -> Promised]]
            /\ promise'["session"] = promise["session"]
      BY <1>3, <3>1, AnswerIsTyped DEF Promised, Door!Caches
    <3> QED BY <1>3, <3>1, <3>2 DEF CachesOK, HalvesOK
  <2>2. CASE row.status = "APPROVED"
    <3>1. /\ Door!wrap("settings", r)
          /\ half' = [half EXCEPT ![r] = [on |-> Door!Wrap("settings", r), member |-> row.member]]
      BY <1>5, <2>2 DEF Door!loadPermissions
    <3>2. /\ CachesOK' /\ Door!Wrap("settings", r) \in Requests
          /\ cache'["session"] = cache["session"] /\ promise'["session"] = promise["session"]
      BY <1>3, <3>1, WrapIsTyped DEF Door!Caches
    <3>3. row.member \in BOOLEAN
      BY DEF AccessInv, AccessTypes, RowOK
    <3>4. HalvesOK'
      BY <1>3, <3>1, <3>2, <3>3 DEF HalvesOK
    <3> QED BY <3>2, <3>4
  <2> QED BY <2>1, <2>2
<1>6. CASE Door!loadSettings(r)
  <2>1. PICK v \in {"yes", "no"} : Door!Answer("settings", r, v) /\ UNCHANGED <<cache, half>>
    BY <1>6 DEF Door!loadSettings
  <2>2. promise' \in [Door!Caches -> [Requests -> Promised]] /\ promise'["session"] = promise["session"]
    BY <1>3, <2>1, AnswerIsTyped DEF Promised, Door!Caches
  <2> QED BY <1>3, <2>1, <2>2 DEF CachesOK, HalvesOK
<1>7. CASE Door!permissionsOf(r)
  <2>1. half[r].on \in Requests
    BY <1>3, <1>7 DEF Door!permissionsOf, HalvesOK
  <2>2. PICK v \in Promised : Door!Answer("permission", r, v)
    BY <1>3, <1>7, <2>1 DEF Door!permissionsOf, CachesOK, Door!Caches, Promised
  <2>3. promise' \in [Door!Caches -> [Requests -> Promised]] /\ promise'["session"] = promise["session"]
    BY <1>3, <2>2, AnswerIsTyped DEF Door!Caches
  <2>4. UNCHANGED cache /\ half' = [half EXCEPT ![r] = Door!NoHalf]
    BY <1>7 DEF Door!permissionsOf
  <2>5. HalvesOK'
    BY <1>3, <2>4 DEF HalvesOK, Door!NoHalf
  <2> QED BY <1>3, <2>3, <2>4, <2>5 DEF CachesOK
<1>8. CASE Door!LoadFails(r)
  <2>1. PICK c \in Door!Caches : /\ Door!Answer(c, r, "failed") /\ UNCHANGED half
                                 /\ cache' = [cache EXCEPT ![c] = IF @ = r THEN 0 ELSE @]
    BY <1>8 DEF Door!LoadFails
  <2>2. /\ promise' \in [Door!Caches -> [Requests -> Promised]] /\ promise'[c][r] = "failed"
        /\ \A d \in Door!Caches \ {c} : promise'[d] = promise[d]
        /\ \A k \in Requests \ {r} : promise'[c][k] = promise[c][k]
    BY <1>3, <2>1, AnswerIsTyped DEF Promised
  <2>3. /\ cache' \in [Door!Caches -> Requests \cup {0}]
        /\ \A d \in Door!Caches : cache'[d] \in {cache[d], 0}
    BY <1>3, <2>1 DEF CachesOK
  <2>4. CachesOK' /\ HalvesOK'
    BY <1>3, <2>1, <2>2, <2>3 DEF CachesOK, HalvesOK
  <2>5. \A k \in Requests : promise'["session"][k] \in {promise["session"][k], "failed"}
    BY <2>2 DEF Door!Caches
  <2> QED BY <2>3, <2>4, <2>5 DEF Door!Caches
<1> QED BY <1>4, <1>5, <1>6, <1>7, <1>8

\* A change that is asked for, that goes on, that is answered.
LEMMA AskIsTyped ==
  ASSUME ChangesOK, NEW a \in Admins, NEW kind \in Kinds,
         NEW to \in {"yes", "no", "APPROVED", "BLOCKED"},
         kind = "review" => to \in {"APPROVED", "BLOCKED"}, Door!Asks(a, kind, to)
  PROVE  /\ ChangesOK' /\ change'[a] = [kind |-> kind, step |-> 1, to |-> to]
         /\ change[a].kind = "none"
         /\ \A b \in Admins \ {a} : change'[b] = change[b]
  BY DEF Door!Asks, ChangesOK

LEMMA DoesIsTyped ==
  ASSUME ChangesOK, NEW a \in Admins, NEW kind \in Kinds, NEW step \in Nat, Door!Does(a, kind, step)
  PROVE  /\ ChangesOK' /\ change[a].kind = kind
         /\ change'[a].kind = kind /\ change'[a].step = step + 1
         /\ change'[a].to = change[a].to
         /\ \A b \in Admins \ {a} : change'[b] = change[b]
  BY DEF Door!Does, ChangesOK

LEMMA AnswersIsTyped ==
  ASSUME ChangesOK, NEW a \in Admins, NEW kind, NEW step, Door!Answers(a, kind, step)
  PROVE  /\ ChangesOK' /\ change'[a] = Door!NoChange
         /\ change[a].kind = kind
         /\ \A b \in Admins \ {a} : change'[b] = change[b]
  BY DEF Door!Answers, ChangesOK, Door!NoChange, Kinds

\* reviewUser: the review is asked for, written, and remembered by nobody.
LEMMA ReviewKeeps ==
  ASSUME AccessBounds, AccessInv, NEW a \in Admins, Door!AskReview(a) \/ Door!reviewUser(a)
  PROVE  AccessInv'
<1> USE DEF AccessInv, AccessTypes
<1>1. CASE Door!AskReview(a)
  <2>1. PICK to \in {"APPROVED", "BLOCKED"} :
          /\ Door!Asks(a, "review", to)
          /\ request' = [r \in Requests |-> [request[r] EXCEPT !.shut = @ /\ to # "APPROVED"]]
    BY <1>1 DEF Door!AskReview
  <2>2. /\ ChangesOK' /\ change'[a] = [kind |-> "review", step |-> 1, to |-> to]
        /\ change[a].kind = "none" /\ \A b \in Admins \ {a} : change'[b] = change[b]
    BY <2>1, AskIsTyped DEF Kinds
  <2>3. UNCHANGED <<row, token, base, cache, promise, half>>
    BY <1>1 DEF Door!AskReview
  <2>4. \A r \in Requests : /\ request'[r].at = request[r].at /\ request'[r].on = request[r].on
                            /\ request'[r].shut \in BOOLEAN
                            /\ request'[r].shut => request[r].shut /\ to # "APPROVED"
    BY <2>1 DEF RequestsOK, RequestRow
  <2>5. request' \in [Requests -> RequestRow]
    BY <2>1 DEF RequestsOK, RequestRow
  <2>6. AccessTypes'
    BY <2>2, <2>3, <2>4, <2>5 DEF CachesOK, RequestsOK, RequestRow, RowOK, HalvesOK
  <2>7. Halfway' => Halfway
    BY <2>2 DEF Halfway
  <2>8. Halfway => Halfway'
    BY <2>2 DEF Halfway
  <2>9. SessionsAreFresh'
    BY <2>3, <2>8 DEF SessionsAreFresh
  <2>10. ASSUME NEW r \in Requests, request'[r].shut  PROVE ShutOut(r)'
    <3>1. ShutOut(r) /\ to = "BLOCKED"
      BY <2>4, <2>10
    <3>2. \A b \in Admins : change'[b].kind = "review" => change'[b].to = "BLOCKED"
      BY <2>2, <3>1 DEF ShutOut
    <3> QED BY <2>3, <2>4, <3>1, <3>2 DEF ShutOut
  <2> QED BY <2>3, <2>6, <2>9, <2>10
<1>2. CASE /\ Door!Does(a, "review", 1) /\ row' = [row EXCEPT !.status = change[a].to]
           /\ UNCHANGED <<token, base, cache, promise, request, half>>
  <2>1. /\ ChangesOK' /\ change[a].kind = "review" /\ change'[a].kind = "review"
        /\ change'[a].step = 2 /\ change'[a].to = change[a].to
        /\ \A b \in Admins \ {a} : change'[b] = change[b]
    BY <1>2, DoesIsTyped DEF Kinds
  <2>2. change[a].to \in {"APPROVED", "BLOCKED"}
    BY <2>1 DEF ChangesOK
  <2>3. RowOK' /\ row'.status = change[a].to
    BY <1>2, <2>2 DEF RowOK, Status
  <2>4. AccessTypes'
    BY <1>2, <2>1, <2>3 DEF CachesOK, RequestsOK, RequestRow, HalvesOK
  <2>5. SessionsAreFresh'
    BY <2>1 DEF SessionsAreFresh, Halfway
  <2>6. ASSUME NEW r \in Requests, request'[r].shut  PROVE ShutOut(r)'
    BY <1>2, <2>1, <2>3, <2>6 DEF ShutOut
  <2> QED BY <1>2, <2>2, <2>3, <2>4, <2>5, <2>6
<1>3. CASE /\ Door!Answers(a, "review", 2) /\ Door!forget
           /\ UNCHANGED <<row, token, base, promise, request, half>>
  <2>1. ChangesOK' /\ change'[a] = Door!NoChange /\ \A b \in Admins \ {a} : change'[b] = change[b]
    BY <1>3, AnswersIsTyped
  <2>2. cache' \in [Door!Caches -> Requests \cup {0}] /\ cache'["session"] = 0
    BY <1>3, ForgetIsTyped
  <2>3. AccessTypes'
    BY <1>3, <2>1, <2>2 DEF CachesOK, RequestsOK, RequestRow, RowOK, HalvesOK
  <2>4. SessionsAreFresh'
    BY <2>2 DEF SessionsAreFresh
  <2>5. ASSUME NEW r \in Requests, request'[r].shut  PROVE ShutOut(r)'
    BY <1>3, <2>1, <2>5 DEF ShutOut, Door!NoChange
  <2> QED BY <1>3, <2>3, <2>4, <2>5
<1> QED BY <1>1, <1>2, <1>3 DEF Door!reviewUser

\* The other changes review nobody: they leave the status, and empty caches or write
\* groups and settings.
LEMMA ChangeKeeps ==
  ASSUME AccessBounds, AccessInv, NEW a \in Admins,
         Door!AskChange(a) \/ Door!setUserGroups(a) \/ Door!removeGroup(a) \/ Door!updateGroup(a)
           \/ Door!updateSettings(a)
  PROVE  AccessInv'
<1>1. /\ UNCHANGED <<token, promise, request, half>>
      /\ row' = row \/ \E m \in BOOLEAN : row' = [row EXCEPT !.member = m]
      /\ base' \in BOOLEAN
      /\ UNCHANGED cache \/ Door!forget \/ Door!forgetAll
  BY DEF Door!AskChange, Door!setUserGroups, Door!removeGroup, Door!updateGroup,
     Door!updateSettings, AccessInv, AccessTypes, RowOK
<1>2. RowOK' /\ row'.status = row.status
  BY <1>1 DEF AccessInv, AccessTypes, RowOK
<1>3. CachesOK' /\ cache'["session"] \in {cache["session"], 0}
  BY <1>1, ForgetIsTyped DEF AccessInv, AccessTypes, CachesOK
<1>4. /\ ChangesOK' /\ change[a].kind # "review" /\ change'[a].kind # "review"
      /\ \A b \in Admins \ {a} : change'[b] = change[b]
  <2>1. CASE Door!AskChange(a)
    <3>1. PICK kind \in {"groups", "settings", "group", "gone"}, to \in {"yes",
               "no"} : Door!Asks(a, kind, to)
      BY <2>1 DEF Door!AskChange
    <3> QED BY <3>1, AskIsTyped DEF Kinds, AccessInv, AccessTypes
  <2>2. CASE Door!setUserGroups(a) \/ Door!removeGroup(a) \/ Door!updateGroup(a)
             \/ Door!updateSettings(a)
    <3>1. PICK kind \in {"groups", "settings", "group", "gone"} : Door!Does(a, kind, 1)
               \/ Door!Answers(a, kind, 2)
      BY <2>2 DEF Door!setUserGroups, Door!removeGroup, Door!updateGroup, Door!updateSettings
    <3>2. CASE Door!Does(a, kind, 1)
      BY <3>2, DoesIsTyped DEF Kinds, AccessInv, AccessTypes
    <3>3. CASE Door!Answers(a, kind, 2)
      BY <3>3, AnswersIsTyped DEF Door!NoChange, AccessInv, AccessTypes
    <3> QED BY <3>1, <3>2, <3>3
  <2> QED BY <2>1, <2>2
<1>5. Halfway' = Halfway
  BY <1>4 DEF Halfway
<1>6. AccessTypes'
  BY <1>1, <1>2, <1>3, <1>4 DEF AccessInv, AccessTypes, RequestsOK, RequestRow, HalvesOK
<1>7. SessionsAreFresh'
  BY <1>1, <1>2, <1>3, <1>5 DEF AccessInv, SessionsAreFresh
<1>8. ASSUME NEW r \in Requests, request'[r].shut  PROVE ShutOut(r)'
  BY <1>1, <1>2, <1>4, <1>8 DEF AccessInv, ShutOut
<1> QED BY <1>1, <1>2, <1>6, <1>7, <1>8 DEF AccessInv

LEMMA AccessInit ==
  ASSUME AccessBounds
  PROVE  Door!Init => AccessInv
<1> SUFFICES ASSUME Door!Init  PROVE AccessInv
  OBVIOUS
<1>1. AccessTypes
  BY DEF Door!Init, AccessTypes, CachesOK, RequestsOK, RequestRow, RowOK, HalvesOK, ChangesOK,
     Status, Promised, Kinds,
         Door!NoRequest, Door!NoHalf, Door!NoChange, Door!Stages
<1>2. cache["session"] = 0 /\ \A r \in Requests : ~request[r].shut
  BY DEF Door!Init, Door!Caches, Door!NoRequest
<1> QED BY <1>1, <1>2 DEF Door!Init, AccessInv, SessionsAreFresh

LEMMA AccessStep ==
  ASSUME AccessBounds
  PROVE  AccessInv /\ [Door!Next]_Door!vars => AccessInv'
<1> SUFFICES ASSUME AccessInv, [Door!Next]_Door!vars  PROVE AccessInv'
  OBVIOUS
<1>1. ASSUME NEW r \in Requests, Door!Request(r)  PROVE AccessInv'
  BY <1>1, BeginKeeps, GuardKeeps, DatabaseKeeps DEF Door!Request
<1>2. ASSUME NEW a \in Admins, Door!Admin(a)  PROVE AccessInv'
  BY <1>2, ReviewKeeps, ChangeKeeps DEF Door!Admin
<1>3. CASE UNCHANGED Door!vars
  <2>1. AccessTypes'
    BY <1>3 DEF Door!vars, AccessInv, AccessTypes, CachesOK, RequestsOK, RequestRow, RowOK,
       HalvesOK, ChangesOK
  <2> QED BY <1>3, <2>1, AccessQuietKeeps DEF Door!vars
<1> QED BY <1>1, <1>2, <1>3, DoorKeeps DEF Door!Next

\* Nobody is served whose block was answered before he asked.
LEMMA AccessShows == AccessInv => Door!BlockHoldsAtOnce
  BY DEF AccessInv, Door!BlockHoldsAtOnce, ShutOut
-----------------------------------------------------------------------------
(* Every stored value opens, whatever keys are rotated.                      *)

SecretBounds == Credentials \in Seq(Secret!ToSet(Credentials))

\* A row is in the clear, or under a key; which value it holds is all one here.
SecretRowsOK == rows = [s \in Secret!Settings |-> rows[s]]
KeysOK == keys \in Seq(Nat \ {Secret!Plain})
SavingOK == saving \in Seq(Secret!Settings)
ReadingOK == reading = [of |-> reading.of, values |-> reading.values, stale |-> reading.stale,
                        failed |-> reading.failed]
SecretTypes == SecretRowsOK /\ KeysOK /\ SavingOK /\ ReadingOK

\* What is done with: in the clear, or under the primary key.
Migrated(s) == rows[s].under \in {Secret!Plain, Secret!Primary}

\* Why the old keys may go: what was read since the deploy and has not failed is done
\* with, and what is being read is so up to the rewrites still to come.
SecretInv == /\ SecretTypes
             /\ \A s \in Secret!Settings : Secret!Opens(rows[s])
             /\ \A s \in migrated \cap Secret!Settings : Migrated(s)
             /\ \A s \in (reading.of \cap Secret!Settings) \ (reading.stale
                \cup reading.failed) : Migrated(s)
-----------------------------------------------------------------------------
\* The primary key is one of the keys.
LEMMA PrimaryOpens ==
  ASSUME KeysOK
  PROVE  /\ Secret!Primary = Secret!Plain \/ Secret!Primary \in Secret!ToSet(keys)
         /\ \A entry : entry.under \in {Secret!Plain, Secret!Primary} => Secret!Opens(entry)
<1>1. CASE keys = <<>>
  BY <1>1 DEF Secret!Primary, Secret!Opens
<1>2. CASE keys # <<>>
  BY <1>2 DEF Secret!Primary, Secret!Opens, Secret!ToSet, KeysOK
<1> QED BY <1>1, <1>2

\* A row that is written under the primary key, whatever its value, is done with.
LEMMA WriteKeeps ==
  ASSUME SecretTypes, \A s \in Secret!Settings : Secret!Opens(rows[s]), UNCHANGED keys,
         NEW s \in Secret!Settings, NEW v, rows' = [rows EXCEPT ![s] = Secret!Encrypted(v)]
  PROVE  /\ SecretRowsOK' /\ Migrated(s)'
         /\ \A t \in Secret!Settings : Secret!Opens(rows[t])'
         /\ \A t \in Secret!Settings : Migrated(t) => Migrated(t)'
<1>1. rows' = [t \in Secret!Settings |-> IF t = s THEN Secret!Encrypted(v) ELSE rows[t]]
  BY DEF SecretTypes, SecretRowsOK
<1>2. /\ rows'[s] = Secret!Encrypted(v)
      /\ \A t \in Secret!Settings \ {s} : rows'[t] = rows[t]
  BY <1>1
<1>3. SecretRowsOK'
  BY <1>1, <1>2 DEF SecretRowsOK
<1>4. Secret!Primary' = Secret!Primary
  BY DEF Secret!Primary
<1>5. Migrated(s)' /\ Secret!Encrypted(v).under = Secret!Primary
  BY <1>2, <1>4 DEF Migrated, Secret!Encrypted
<1>6. Secret!Opens(Secret!Encrypted(v))
  BY <1>5, PrimaryOpens DEF SecretTypes
<1>7. \A t \in Secret!Settings : Secret!Opens(rows[t])'
  BY <1>2, <1>6 DEF Secret!Opens
<1>8. \A t \in Secret!Settings : Migrated(t) => Migrated(t)'
  BY <1>2, <1>4, <1>5 DEF Migrated
<1> QED BY <1>3, <1>5, <1>7, <1>8

\* getMany, its rewrites and its end.
LEMMA ReadingKeeps ==
  ASSUME SecretInv, Secret!credentials \/ Secret!Visit
         \/ (\E s \in Secret!Settings : Secret!Rewrite(s)) \/ Secret!load \/ Secret!latest
  PROVE  SecretInv'
<1> USE DEF SecretInv, SecretTypes
<1>1. ASSUME NEW ks, Secret!getMany(ks), UNCHANGED <<rows, keys, saving, held, migrated, saves>>
      PROVE  SecretInv'
  <2> DEFINE opened == {s \in ks : Secret!Stored(s) /\ Secret!Opens(rows[s])}
  <2>1. /\ reading'.of = ks /\ reading'.failed = {}
        /\ reading'.stale = {s \in opened : Secret!Stale(s)}
    BY <1>1 DEF Secret!getMany
  <2>2. ASSUME NEW s \in (ks \cap Secret!Settings) \ {t \in opened : Secret!Stale(t)}  PROVE Migrated(s)
    <3>1. CASE ~Secret!Stored(s)
      BY <3>1 DEF Secret!Stored, Secret!NoRow, Migrated
    <3>2. CASE Secret!Stored(s)
      <4>1. s \in opened /\ ~Secret!Stale(s)
        BY <2>2, <3>2
      <4>2. CASE Secret!Primary = Secret!Plain
        <5>1. keys = <<>>
          BY <4>2 DEF Secret!Primary, KeysOK
        <5> QED BY <5>1 DEF Secret!Opens, Migrated, Secret!ToSet
      <4> QED BY <4>1, <4>2 DEF Secret!Stale, Migrated
    <3> QED BY <3>1, <3>2
  <2>3. SecretTypes' /\ Secret!Primary' = Secret!Primary
    BY <1>1 DEF SecretRowsOK, KeysOK, SavingOK, ReadingOK, Secret!getMany, Secret!Primary
  <2>4. \A s \in Secret!Settings : Secret!Opens(rows[s])' /\ (Migrated(s) => Migrated(s)')
    BY <1>1, <2>3 DEF Secret!Opens, Migrated
  <2>5. ASSUME NEW s \in (reading'.of \cap Secret!Settings) \ (reading'.stale \cup reading'.failed)
        PROVE  Migrated(s)'
    <3>1. s \in (ks \cap Secret!Settings) \ {t \in opened : Secret!Stale(t)}
      BY <2>1
    <3> HIDE DEF opened
    <3> QED BY <2>2, <2>4, <3>1
  <2> HIDE DEF opened
  <2> QED BY <1>1, <2>3, <2>4, <2>5
<1>2. ASSUME NEW s \in Secret!Settings, Secret!Rewrite(s)  PROVE SecretInv'
  <2>1. UNCHANGED <<keys, saving, migrated>> /\ reading'.of = reading.of
        /\ KeysOK' /\ SavingOK' /\ ReadingOK'
    BY <1>2 DEF Secret!Rewrite, KeysOK, SavingOK, ReadingOK
  <2>2. CASE /\ rows' = [rows EXCEPT ![s] = Secret!Rewritten(s)]
             /\ reading' = [reading EXCEPT !.stale = @ \ {s}]
    <3>1. /\ SecretRowsOK' /\ Migrated(s)'
          /\ \A t \in Secret!Settings : Secret!Opens(rows[t])'
          /\ \A t \in Secret!Settings : Migrated(t) => Migrated(t)'
      BY <2>1, <2>2, WriteKeeps DEF Secret!Rewritten
    <3>2. \A t \in (reading'.of \cap Secret!Settings) \ (reading'.stale \cup reading'.failed) :
            t = s \/ t \in (reading.of \cap Secret!Settings) \ (reading.stale \cup reading.failed)
      BY <2>1, <2>2 DEF ReadingOK
    <3>3. \A t \in (reading'.of \cap Secret!Settings) \ (reading'.stale
            \cup reading'.failed) : Migrated(t)'
      BY <3>1, <3>2
    <3> QED BY <2>1, <3>1, <3>3
  <2>3. CASE /\ UNCHANGED rows
             /\ reading' = [reading EXCEPT !.stale = @ \ {s}, !.failed = @ \cup {s}]
    <3>1. \A t \in (reading'.of \cap Secret!Settings) \ (reading'.stale \cup reading'.failed) :
            t \in (reading.of \cap Secret!Settings) \ (reading.stale \cup reading.failed)
      BY <2>1, <2>3 DEF ReadingOK
    <3>2. SecretRowsOK' /\ \A t \in Secret!Settings : Secret!Opens(rows[t])' /\ (Migrated(t)
            => Migrated(t)')
      BY <2>1, <2>3 DEF SecretRowsOK, Secret!Opens, Migrated, Secret!Primary
    <3> QED BY <2>1, <3>1, <3>2
  <2> QED BY <1>2, <2>2, <2>3 DEF Secret!Rewrite
<1>3. CASE Secret!load \/ Secret!latest
  <2>1. /\ UNCHANGED <<rows, keys, saving>> /\ reading.stale = {}
        /\ reading'.of = {} /\ migrated' = migrated \cup (reading.of \ reading.failed)
    BY <1>3 DEF Secret!load, Secret!latest, Secret!Read, Secret!NoReading
  <2>2. SecretTypes' /\ \A t \in Secret!Settings : Secret!Opens(rows[t])' /\ (Migrated(t)
          => Migrated(t)')
    BY <1>3, <2>1 DEF SecretRowsOK, KeysOK, SavingOK, ReadingOK, Secret!load, Secret!latest,
       Secret!NoReading, Secret!Opens, Migrated, Secret!Primary
  <2> QED BY <2>1, <2>2
<1> QED BY <1>1, <1>2, <1>3 DEF Secret!credentials, Secret!Visit

\* save, publish, set and clear: what is written is written under the primary key.
LEMMA SavingKeeps ==
  ASSUME SecretBounds, SecretInv, Secret!save \/ Secret!publish \/ Secret!set \/ Secret!clear
  PROVE  SecretInv'
<1> USE DEF SecretInv, SecretTypes
<1>1. CASE Secret!save \/ Secret!publish
  <2>1. UNCHANGED <<rows, keys, reading, migrated>>
    BY <1>1 DEF Secret!save, Secret!publish
  <2>2. PICK ss \in {Secret!Front(Credentials), Credentials, <<Announcement>>} : saving' = ss
    BY <1>1 DEF Secret!save, Secret!publish, Secret!Save
  <2>3. Secret!Front(Credentials) \in Seq(Secret!ToSet(Credentials))
    BY DEF Secret!Front, SecretBounds
  <2>4. SavingOK'
    <3>1. <<Announcement>> \in Seq(Secret!Settings)
      BY DEF Secret!Settings
    <3>2. Secret!Front(Credentials) \in Seq(Secret!Settings) /\ Credentials \in Seq(Secret!Settings)
      BY <2>3 DEF Secret!Settings, SecretBounds
    <3> QED BY <2>2, <3>1, <3>2 DEF SavingOK
  <2>5. SecretRowsOK' /\ KeysOK' /\ ReadingOK'
          /\ \A t \in Secret!Settings : Secret!Opens(rows[t])' /\ (Migrated(t) => Migrated(t)')
    BY <2>1 DEF SecretRowsOK, KeysOK, ReadingOK, Secret!Opens, Migrated, Secret!Primary
  <2> QED BY <2>1, <2>4, <2>5
<1>2. CASE Secret!set
  <2>1. /\ saving # <<>> /\ rows' = [rows EXCEPT ![Head(saving)] = Secret!Encrypted(saves)]
        /\ saving' = Tail(saving) /\ UNCHANGED <<keys, reading, migrated>>
    BY <1>2 DEF Secret!set
  <2>2. Head(saving) \in Secret!Settings /\ SavingOK' /\ KeysOK' /\ ReadingOK'
    BY <2>1 DEF SavingOK, KeysOK, ReadingOK
  <2>3. /\ SecretRowsOK'
        /\ \A t \in Secret!Settings : Secret!Opens(rows[t])'
        /\ \A t \in Secret!Settings : Migrated(t) => Migrated(t)'
    BY <2>1, <2>2, WriteKeeps
  <2> QED BY <2>1, <2>2, <2>3
<1>3. CASE Secret!clear
  <2>1. /\ rows' = [s \in Secret!Settings |-> IF s = Announcement THEN rows[s] ELSE Secret!NoRow]
        /\ UNCHANGED <<keys, saving, reading, migrated>>
    BY <1>3 DEF Secret!clear
  <2>2. SecretRowsOK' /\ KeysOK' /\ SavingOK' /\ ReadingOK'
    BY <2>1 DEF SecretRowsOK, KeysOK, SavingOK, ReadingOK
  <2>3. \A t \in Secret!Settings : Secret!Opens(rows[t])' /\ (Migrated(t) => Migrated(t)')
    BY <2>1 DEF Secret!Opens, Migrated, Secret!Primary, Secret!NoRow
  <2> QED BY <2>1, <2>2, <2>3
<1> QED BY <1>1, <1>2, <1>3

\* A deploy with more keys opens no less; one that drops the old keys comes when every
\* value is under the new one, or under none.
LEMMA DeployKeeps ==
  ASSUME SecretInv, Secret!Restart \/ Secret!Rotate \/ Secret!RetireOldKeys
  PROVE  SecretInv'
<1> USE DEF SecretInv, SecretTypes
<1>1. ASSUME NEW ks \in Seq(Nat \ {Secret!Plain}), Secret!Boot(ks),
             \A s \in Secret!Settings : rows[s].under = Secret!Plain
               \/ rows[s].under \in Secret!ToSet(ks)
      PROVE  SecretInv'
  <2>1. /\ keys' = ks /\ UNCHANGED rows /\ saving' = <<>> /\ migrated' = {} /\ reading'.of = {}
    BY <1>1 DEF Secret!Boot, Secret!NoReading
  <2>2. SecretTypes'
    BY <1>1, <2>1 DEF SecretRowsOK, KeysOK, SavingOK, ReadingOK, Secret!Boot, Secret!NoReading
  <2>3. \A s \in Secret!Settings : Secret!Opens(rows[s])'
    BY <1>1, <2>1 DEF Secret!Opens
  <2> QED BY <2>1, <2>2, <2>3
<1>2. CASE Secret!Restart
  BY <1>1, <1>2 DEF Secret!Restart, Secret!Opens, KeysOK
<1>3. CASE Secret!Rotate
  <2>1. PICK n \in Nat \ {Secret!Plain} : Secret!Boot(<<n>> \o keys)
    <3> DEFINE n == IF keys = <<>> THEN 1 ELSE Head(keys) + 1
    <3>1. n \in Nat \ {Secret!Plain} /\ Secret!Boot(<<n>> \o keys)
      BY <1>3 DEF Secret!Rotate, KeysOK, Secret!Plain
    <3> QED BY <3>1
  <2>2. <<n>> \o keys \in Seq(Nat \ {Secret!Plain})
    BY DEF KeysOK
  <2>3. Secret!ToSet(keys) \subseteq Secret!ToSet(<<n>> \o keys)
    <3> SUFFICES ASSUME NEW i \in DOMAIN keys  PROVE keys[i] \in Secret!ToSet(<<n>> \o keys)
      BY DEF Secret!ToSet
    <3>1. (<<n>> \o keys)[i + 1] = keys[i] /\ i + 1 \in DOMAIN (<<n>> \o keys)
      BY DEF KeysOK
    <3> QED BY <3>1 DEF Secret!ToSet
  <2> QED BY <1>1, <2>1, <2>2, <2>3 DEF Secret!Opens
<1>4. CASE Secret!RetireOldKeys
  <2>1. Len(keys) > 1 /\ migrated = Secret!Settings /\ Secret!Boot(<<Head(keys)>>)
    BY <1>4 DEF Secret!RetireOldKeys
  <2>2. keys # <<>> /\ Head(keys) \in Nat \ {Secret!Plain}
    BY <2>1 DEF KeysOK
  <2>3. \A s \in Secret!Settings : rows[s].under \in {Secret!Plain, Head(keys)}
    BY <2>1, <2>2 DEF Migrated, Secret!Primary
  <2>4. <<Head(keys)>> \in Seq(Nat \ {Secret!Plain}) /\ Head(keys) \in Secret!ToSet(<<Head(keys)>>)
    BY <2>2 DEF Secret!ToSet
  <2> QED BY <1>1, <2>1, <2>3, <2>4
<1> QED BY <1>2, <1>3, <1>4

LEMMA SecretInit == Secret!Init => SecretInv
<1> SUFFICES ASSUME Secret!Init  PROVE SecretInv
  OBVIOUS
<1>1. KeysOK /\ SavingOK /\ ReadingOK
  <2>1. <<>> \in Seq(Nat \ {0}) /\ <<1>> \in Seq(Nat \ {0}) /\ <<>> \in Seq(Secret!Settings)
    OBVIOUS
  <2> QED BY <2>1 DEF Secret!Init, KeysOK, SavingOK, ReadingOK, Secret!NoReading, Secret!Plain
<1>2. SecretRowsOK /\ \A s \in Secret!Settings : rows[s].under \in {Secret!Plain, Secret!Primary}
  BY DEF Secret!Init, SecretRowsOK, Secret!NoRow
<1>3. \A s \in Secret!Settings : Secret!Opens(rows[s])
  BY <1>1, <1>2, PrimaryOpens
<1> QED BY <1>1, <1>2, <1>3 DEF Secret!Init, SecretInv, SecretTypes, Secret!NoReading

LEMMA SecretStep ==
  ASSUME SecretBounds
  PROVE  SecretInv /\ [Secret!Next]_Secret!vars => SecretInv'
<1> SUFFICES ASSUME SecretInv, [Secret!Next]_Secret!vars  PROVE SecretInv'
  OBVIOUS
<1>1. CASE UNCHANGED Secret!vars
  <2>1. UNCHANGED <<rows, keys, saving, reading, migrated>>
    BY <1>1 DEF Secret!vars
  <2>2. SecretTypes' /\ \A t \in Secret!Settings : Secret!Opens(rows[t])' = Secret!Opens(rows[t])
          /\ Migrated(t)' = Migrated(t)
    BY <2>1 DEF SecretInv, SecretTypes, SecretRowsOK, KeysOK, SavingOK, ReadingOK, Secret!Opens,
       Migrated, Secret!Primary
  <2> QED BY <2>1, <2>2 DEF SecretInv
<1> QED BY <1>1, ReadingKeeps, SavingKeeps, DeployKeeps DEF Secret!Next

\* Every stored value opens.
LEMMA SecretShows == SecretInv => Secret!EveryValueOpens
  BY DEF SecretInv, Secret!EveryValueOpens
=============================================================================
