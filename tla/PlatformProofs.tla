----------------------------- MODULE PlatformProofs -----------------------------
(* What the platform keeps, for every value of its constants.  A component is       *)
(* proved about by itself, in AccountProofs, CompetitionProofs or ServiceProofs;    *)
(* here its lemma "...IsTheSame" says that the platform runs the very same one, and *)
(* its theorem takes the inductive invariant over, for as long as it runs.          *)
EXTENDS Platform, Sequences, FiniteSets, TLAPS

-----------------------------------------------------------------------------
\* What a request is between its writes: while a line is to be written it is of
\* a user, while a credit is to follow it is to a user and of an amount.
Wallets == [balance : Int, earned : Int, spent : Int]

Movements == [step : {"idle", "record", "credit"}, user : Holders \cup {"nobody"},
              to : Holders \cup {"nobody"}, amount : Nat, signed : Int]

WalletTypes == /\ wallet \in [Holders -> Wallets]
          /\ statement \in [Holders -> Int]
          /\ missing \in [Holders -> Int]
          /\ request \in [Calls -> Movements]

UnderWay == \A r \in Calls : /\ request[r].step = "record" => request[r].user \in Holders
                             /\ request[r].step = "credit" => request[r].to \in Holders

\* WalletBalances alone does not say that the wallets hold numbers, nor that a
\* request that goes on has a wallet to go on with.
WalletInv == WalletTypes /\ UnderWay /\ WalletBalances


\* Init: the wallets of the first state, all empty, satisfy the invariant.
LEMMA WalletInit == Init => WalletInv
  BY DEF Init, WalletInv, WalletTypes, UnderWay, WalletBalances, Wallets, Movements, Idle

\* credit: a credit keeps every balance explained and above zero.
LEMMA CreditKeeps ==
  ASSUME WalletTypes, WalletBalances, NEW u \in Holders, NEW n \in Nat, Credited(u, n),
         UNCHANGED statement
  PROVE  /\ wallet' \in [Holders -> Wallets] /\ missing' \in [Holders -> Int]
         /\ WalletBalances'
<1>1. wallet' \in [Holders -> Wallets] /\ missing' \in [Holders -> Int]
  BY DEF WalletTypes, Credited, Wallets
<1>2. ASSUME NEW v \in Holders
      PROVE  /\ wallet'[v].balance >= 0
             /\ wallet'[v].balance = wallet'[v].earned - wallet'[v].spent
             /\ wallet'[v].balance = statement'[v] + missing'[v]
  BY <1>2 DEF WalletTypes, WalletBalances, Credited, Wallets
<1> QED BY <1>1, <1>2 DEF WalletBalances

\* debit: the guard of updateMany is what keeps the balance above zero.
LEMMA DebitKeeps ==
  ASSUME WalletTypes, WalletBalances, NEW u \in Holders, NEW n \in Nat, Enough(u, n), Debited(u, n),
         UNCHANGED statement
  PROVE  /\ wallet' \in [Holders -> Wallets] /\ missing' \in [Holders -> Int]
         /\ WalletBalances'
<1>1. wallet' \in [Holders -> Wallets] /\ missing' \in [Holders -> Int]
  BY DEF WalletTypes, Debited, Wallets
<1>2. ASSUME NEW v \in Holders
      PROVE  /\ wallet'[v].balance >= 0
             /\ wallet'[v].balance = wallet'[v].earned - wallet'[v].spent
             /\ wallet'[v].balance = statement'[v] + missing'[v]
  BY <1>2 DEF WalletTypes, WalletBalances, Debited, Enough, Wallets
<1> QED BY <1>1, <1>2 DEF WalletBalances

\* Each step of each request keeps the invariant.
LEMMA WalletStep == WalletInv /\ [Next]_vars => WalletInv'
<1> SUFFICES ASSUME WalletInv, [Next]_vars PROVE WalletInv'
  OBVIOUS
<1> USE DEF WalletInv
<1>1. ASSUME NEW r \in Calls, adjustUp(r) PROVE WalletInv'
  <2>1. PICK u \in Holders, n \in Amounts :
          /\ Credited(u, n)
          /\ NextStep(r, [step |-> "record", user |-> u, to |-> "nobody", amount |-> n,
                          signed |-> n])
          /\ UNCHANGED statement
    BY <1>1 DEF adjustUp
  <2>2. n \in Nat
    BY AmountsAssumption
  <2>3. wallet' \in [Holders -> Wallets] /\ missing' \in [Holders -> Int] /\ WalletBalances'
    BY <2>1, <2>2, CreditKeeps
  <2>4. request' \in [Calls -> Movements] /\ UnderWay'
    BY <2>1, <2>2 DEF WalletTypes, UnderWay, NextStep, Movements
  <2> QED BY <2>1, <2>3, <2>4 DEF WalletTypes
<1>2. ASSUME NEW r \in Calls, debit(r) PROVE WalletInv'
  <2>1. PICK u \in Holders, to \in Holders \cup {"nobody"}, n \in Amounts :
          /\ Enough(u, n) /\ Debited(u, n)
          /\ NextStep(r, [step |-> "record", user |-> u, to |-> to, amount |-> n,
                          signed |-> -n])
          /\ UNCHANGED statement
    BY <1>2 DEF debit
  <2>2. n \in Nat
    BY AmountsAssumption
  <2>3. wallet' \in [Holders -> Wallets] /\ missing' \in [Holders -> Int] /\ WalletBalances'
    BY <2>1, <2>2, DebitKeeps
  <2>4. request' \in [Calls -> Movements] /\ UnderWay'
    BY <2>1, <2>2 DEF WalletTypes, UnderWay, NextStep, Movements
  <2> QED BY <2>1, <2>3, <2>4 DEF WalletTypes
<1>3. ASSUME NEW r \in Calls, recordLine(r) PROVE WalletInv'
  <2>1. request[r].user \in Holders /\ request[r].signed \in Int
    <3>1. request[r] \in Movements /\ request[r].step = "record"
      BY <1>3 DEF recordLine, WalletTypes
    <3>2. request[r].user \in Holders
      BY <3>1 DEF UnderWay
    <3> QED BY <3>1, <3>2 DEF Movements
  <2>2. statement' \in [Holders -> Int] /\ missing' \in [Holders -> Int] /\ wallet' = wallet
    BY <1>3, <2>1 DEF recordLine, record, WalletTypes
  <2>3. ASSUME NEW v \in Holders PROVE statement'[v] + missing'[v] = statement[v] + missing[v]
    BY <1>3, <2>1 DEF recordLine, record, WalletTypes
  <2>4. WalletBalances'
    BY <2>2, <2>3 DEF WalletBalances
  <2>5. request' \in [Calls -> Movements] /\ UnderWay'
    BY <1>3 DEF recordLine, NextStep, Then, Idle, WalletTypes, UnderWay, Movements
  <2> QED BY <2>2, <2>4, <2>5 DEF WalletTypes
<1>4. ASSUME NEW r \in Calls, Fails(r) PROVE WalletInv'
  BY <1>4 DEF Fails, NextStep, Idle, WalletTypes, UnderWay, WalletBalances, Movements
<1>5. ASSUME NEW r \in Calls, transferCredit(r) PROVE WalletInv'
  <2>1. request[r].to \in Holders /\ request[r].amount \in Nat
    <3>1. request[r] \in Movements /\ request[r].step = "credit"
      BY <1>5 DEF transferCredit, WalletTypes
    <3>2. request[r].to \in Holders
      BY <3>1 DEF UnderWay
    <3> QED BY <3>1, <3>2 DEF Movements
  <2>2. wallet' \in [Holders -> Wallets] /\ missing' \in [Holders -> Int] /\ WalletBalances'
    BY <1>5, <2>1, CreditKeeps DEF transferCredit
  <2>3. request' \in [Calls -> Movements] /\ UnderWay'
    BY <1>5, <2>1 DEF transferCredit, NextStep, WalletTypes, UnderWay, Movements
  <2> QED BY <1>5, <2>2, <2>3 DEF WalletTypes, transferCredit
<1>6. CASE UNCHANGED vars
  BY <1>6 DEF vars, WalletTypes, UnderWay, WalletBalances
<1> QED BY <1>1, <1>2, <1>3, <1>4, <1>5, <1>6 DEF Next

\* WalletService: whatever requests race on the wallets, and whichever of their
\* writes fail, no balance goes below zero and every balance is explained.
THEOREM WalletsBalance == PlatformSpec => []WalletBalances
<1>1. WalletInv => WalletBalances
  BY DEF WalletInv
<1>2. PlatformInit => WalletInv
  BY WalletInit DEF PlatformInit
<1>3. WalletInv /\ [PlatformNext]_all => WalletInv'
  <2>1. [PlatformNext]_all => [Next]_vars
    BY DEF PlatformNext, all, vars
  <2> QED BY <2>1, WalletStep
<1> QED BY <1>1, <1>2, <1>3, PTL DEF PlatformSpec
-----------------------------------------------------------------------------
Identity == INSTANCE AccountProofs WITH
  Admins <- Reviewers, MaxChanges <- MaxReviews, Requests <- AccessRequests,
  icon <- s1, known <- s2, verified <- s3, leagueAccount <- s4, users <- s5, pending <- s6,
  session <- s7, call <- s8,
  row <- s1, token <- s2, base <- s3, cache <- s4, promise <- s5, request <- s6, half <- s7,
  change <- s8, changes <- s9,
  rows <- s1, keys <- s2, reading <- s3, saving <- s4, held <- s5, migrated <- s6, saves <- s7

\* Verify, as the platform runs it and as it is proved about.
LEMMA VerificationIsTheSame ==
  /\ Verification!Init => Identity!Verification!Init
  /\ Verification!Next => Identity!Verification!Next
<1>1. Verification!Init => Identity!Verification!Init
  BY Zenon
     DEF Verification!Init, Verification!None, Verification!Ids, Verification!Unused,
         Verification!NoSession, Verification!NoCall, Identity!Verification!Init,
         Identity!Verification!None, Identity!Verification!Ids, Identity!Verification!Unused,
         Identity!Verification!NoSession, Identity!Verification!NoCall
<1>2. Verification!Next => Identity!Verification!Next
  BY Zenon
     DEF Verification!Next, Verification!Handler, Verification!ShowIcon, Verification!Forgets,
         Verification!TimePasses, Verification!unlinkAccount, Verification!onVerifyModal,
         Verification!onVerify, Verification!onCancel, Verification!startVerification,
         Verification!clearPending, Verification!createPending,
         Verification!confirmVerification, Verification!countAttempt, Verification!dropPending,
         Verification!checkIcon, Verification!commitVerification, Verification!Rows,
         Verification!Ids, Verification!None, Verification!NoSession, Verification!targetIcons,
         Verification!At, Verification!Goes, Verification!NoCall, Verification!Unused,
         Verification!Ends, Verification!Attempts, Verification!DeletesPending,
         Identity!Verification!Next, Identity!Verification!Handler,
         Identity!Verification!ShowIcon, Identity!Verification!Forgets,
         Identity!Verification!TimePasses, Identity!Verification!unlinkAccount,
         Identity!Verification!onVerifyModal, Identity!Verification!onVerify,
         Identity!Verification!onCancel, Identity!Verification!startVerification,
         Identity!Verification!clearPending, Identity!Verification!createPending,
         Identity!Verification!confirmVerification, Identity!Verification!countAttempt,
         Identity!Verification!dropPending, Identity!Verification!checkIcon,
         Identity!Verification!commitVerification, Identity!Verification!Rows,
         Identity!Verification!Ids, Identity!Verification!None,
         Identity!Verification!NoSession, Identity!Verification!targetIcons,
         Identity!Verification!At, Identity!Verification!Goes, Identity!Verification!NoCall,
         Identity!Verification!Unused, Identity!Verification!Ends,
         Identity!Verification!Attempts, Identity!Verification!DeletesPending
<1> QED BY <1>1, <1>2

\* VerifyService: however many people confirm at once, an icon is looked at as often as
\* the attempts allow and the account is given once.
THEOREM VerificationServesOnce ==
  ASSUME IsFiniteSet(Calls), MAX_ATTEMPTS \in Nat \ {0}
  PROVE  PlatformSpec => []VerificationIsUsedUp
<1> DEFINE J == component = "verify" => Identity!VerifyInv
<1>0. Identity!VerifyBounds
  BY DEF Identity!VerifyBounds, IsFiniteSet, Identity!IsFiniteSet
<1>1. PlatformInit => J
  BY <1>0, VerificationIsTheSame, Identity!VerifyInit DEF PlatformInit
<1>2. J /\ [PlatformNext]_all => J'
  <2> SUFFICES ASSUME J, [PlatformNext]_all, component' = "verify"  PROVE Identity!VerifyInv'
    OBVIOUS
  <2>1. component = "verify" /\ [Identity!Verification!Next]_(Identity!Verification!vars)
    BY VerificationIsTheSame DEF PlatformNext, all, states, Identity!Verification!vars
  <2> QED BY <1>0, <2>1, Identity!VerifyStep
<1>3. J => VerificationIsUsedUp
  BY <1>0, Identity!VerifyShows
     DEF VerificationIsUsedUp, Verification!VerificationIsUsedUp, Verification!Ids,
         Identity!Verification!VerificationIsUsedUp, Identity!Verification!Ids
<1> QED BY <1>1, <1>2, <1>3, PTL DEF PlatformSpec

\* Access, as the platform runs it and as it is proved about.
LEMMA DoorIsTheSame ==
  /\ Door!Init => Identity!Door!Init
  /\ Door!Next => Identity!Door!Next
<1>1. Door!Init => Identity!Door!Init
  BY Zenon
     DEF Door!Init, Door!Caches, Door!NoRequest, Door!NoHalf, Door!NoChange,
         Identity!Door!Init, Identity!Door!Caches, Identity!Door!NoRequest,
         Identity!Door!NoHalf, Identity!Door!NoChange
<1>2. Door!Next => Identity!Door!Next
  BY Zenon
     DEF Door!Next, Door!Request, Door!Admin, Door!discordLogin, Door!login,
         Door!createImpersonationToken, Door!refresh, Door!Expire, Door!Begin, Door!Pass,
         Door!Refuse, Door!LoadUser, Door!loadPermissions, Door!loadSettings,
         Door!permissionsOf, Door!LoadFails, Door!AskReview, Door!reviewUser, Door!AskChange,
         Door!setUserGroups, Door!removeGroup, Door!updateGroup, Door!updateSettings,
         Door!forget, Door!IssueToken, Door!Caches, Door!wrap, Door!Wrap, Door!NoReview,
         Door!After, Door!Stages, Door!Settled, Door!Lets, Door!Answer, Door!NoHalf, Door!Asks,
         Door!Does, Door!Answers, Door!forgetAll, Door!NoChange, Identity!Door!Next,
         Identity!Door!Request, Identity!Door!Admin, Identity!Door!discordLogin,
         Identity!Door!login, Identity!Door!createImpersonationToken, Identity!Door!refresh,
         Identity!Door!Expire, Identity!Door!Begin, Identity!Door!Pass, Identity!Door!Refuse,
         Identity!Door!LoadUser, Identity!Door!loadPermissions, Identity!Door!loadSettings,
         Identity!Door!permissionsOf, Identity!Door!LoadFails, Identity!Door!AskReview,
         Identity!Door!reviewUser, Identity!Door!AskChange, Identity!Door!setUserGroups,
         Identity!Door!removeGroup, Identity!Door!updateGroup, Identity!Door!updateSettings,
         Identity!Door!forget, Identity!Door!IssueToken, Identity!Door!Caches,
         Identity!Door!wrap, Identity!Door!Wrap, Identity!Door!NoReview, Identity!Door!After,
         Identity!Door!Stages, Identity!Door!Settled, Identity!Door!Lets, Identity!Door!Answer,
         Identity!Door!NoHalf, Identity!Door!Asks, Identity!Door!Does, Identity!Door!Answers,
         Identity!Door!forgetAll, Identity!Door!NoChange
<1> QED BY <1>1, <1>2

\* The guards of the API: who is blocked is let in no more, by any cached session or
\* any answer of the database that was on its way.
THEOREM BlockedAreShutOut ==
  ASSUME AccessRequests \subseteq Nat \ {0}
  PROVE  PlatformSpec => []BlockHoldsAtOnce
<1> DEFINE J == component = "access" => Identity!AccessInv
<1>0. Identity!AccessBounds
  BY DEF Identity!AccessBounds
<1>1. PlatformInit => J
  BY <1>0, DoorIsTheSame, Identity!AccessInit DEF PlatformInit
<1>2. J /\ [PlatformNext]_all => J'
  <2> SUFFICES ASSUME J, [PlatformNext]_all, component' = "access"  PROVE Identity!AccessInv'
    OBVIOUS
  <2>1. component = "access" /\ [Identity!Door!Next]_(Identity!Door!vars)
    BY DoorIsTheSame DEF PlatformNext, all, states, Identity!Door!vars
  <2> QED BY <1>0, <2>1, Identity!AccessStep
<1>3. J => BlockHoldsAtOnce
  BY <1>0, Identity!AccessShows
     DEF BlockHoldsAtOnce, Door!BlockHoldsAtOnce, Identity!Door!BlockHoldsAtOnce
<1> QED BY <1>1, <1>2, <1>3, PTL DEF PlatformSpec

\* Secrets, as the platform runs it and as it is proved about.
LEMMA SecretIsTheSame ==
  /\ Secret!Init => Identity!Secret!Init
  /\ Secret!Next => Identity!Secret!Next
<1>1. Secret!Init => Identity!Secret!Init
  BY Zenon
     DEF Secret!Init, Secret!Settings, Secret!NoRow, Secret!Plain, Secret!Primary,
         Secret!NoReading, Secret!NoCache, Secret!ToSet, Identity!Secret!Init,
         Identity!Secret!Settings, Identity!Secret!NoRow, Identity!Secret!Plain,
         Identity!Secret!Primary, Identity!Secret!NoReading, Identity!Secret!NoCache,
         Identity!Secret!ToSet
<1>2. Secret!Next => Identity!Secret!Next
  BY Zenon
     DEF Secret!Next, Secret!credentials, Secret!Visit, Secret!Settings, Secret!Rewrite,
         Secret!load, Secret!latest, Secret!save, Secret!publish, Secret!set, Secret!clear,
         Secret!Restart, Secret!Rotate, Secret!RetireOldKeys, Secret!getMany, Secret!ToSet,
         Secret!Rewritten, Secret!Read, Secret!NoReading, Secret!Save, Secret!Front,
         Secret!Encrypted, Secret!NoCache, Secret!Stored, Secret!NoRow, Secret!Boot,
         Secret!Opens, Secret!Stale, Secret!Primary, Secret!Plain, Identity!Secret!Next,
         Identity!Secret!credentials, Identity!Secret!Visit, Identity!Secret!Settings,
         Identity!Secret!Rewrite, Identity!Secret!load, Identity!Secret!latest,
         Identity!Secret!save, Identity!Secret!publish, Identity!Secret!set,
         Identity!Secret!clear, Identity!Secret!Restart, Identity!Secret!Rotate,
         Identity!Secret!RetireOldKeys, Identity!Secret!getMany, Identity!Secret!ToSet,
         Identity!Secret!Rewritten, Identity!Secret!Read, Identity!Secret!NoReading,
         Identity!Secret!Save, Identity!Secret!Front, Identity!Secret!Encrypted,
         Identity!Secret!NoCache, Identity!Secret!Stored, Identity!Secret!NoRow,
         Identity!Secret!Boot, Identity!Secret!Opens, Identity!Secret!Stale,
         Identity!Secret!Primary, Identity!Secret!Plain
<1> QED BY <1>1, <1>2

\* SecretsService: whatever keys are rotated and retired between its reads and its
\* saves, every stored secret still opens.
THEOREM SecretsOpen ==
  ASSUME Credentials \in Seq(Identity!Secret!ToSet(Credentials))
  PROVE  PlatformSpec => []EveryValueOpens
<1> DEFINE J == component = "secrets" => Identity!SecretInv
<1>0. Identity!SecretBounds
  BY DEF Identity!SecretBounds
<1>1. PlatformInit => J
  BY <1>0, SecretIsTheSame, Identity!SecretInit DEF PlatformInit
<1>2. J /\ [PlatformNext]_all => J'
  <2> SUFFICES ASSUME J, [PlatformNext]_all, component' = "secrets"  PROVE Identity!SecretInv'
    OBVIOUS
  <2>1. component = "secrets" /\ [Identity!Secret!Next]_(Identity!Secret!vars)
    BY SecretIsTheSame DEF PlatformNext, all, states, Identity!Secret!vars
  <2> QED BY <1>0, <2>1, Identity!SecretStep
<1>3. J => EveryValueOpens
  BY <1>0, Identity!SecretShows
     DEF EveryValueOpens, Secret!EveryValueOpens, Secret!Settings, Secret!Stored, Secret!Opens,
         Secret!ToSet, Secret!NoRow, Secret!Plain, Identity!Secret!EveryValueOpens,
         Identity!Secret!Settings, Identity!Secret!Stored, Identity!Secret!Opens,
         Identity!Secret!ToSet, Identity!Secret!NoRow, Identity!Secret!Plain
<1> QED BY <1>1, <1>2, <1>3, PTL DEF PlatformSpec
-----------------------------------------------------------------------------
Competition == INSTANCE CompetitionProofs WITH
  People <- Entrants, MaxMatches <- MaxRanked,
  cup <- s1, staff <- s2, teams <- s3, invited <- s4, codes <- s5, desk <- s6, cron <- s7,
  requests <- s8, restarts <- s9,
  rules <- s1, match <- s2, writes <- s3, overdue <- s4, proof <- s5, readers <- s6,
  proofs <- s7, counted <- s8, reopened <- s9,
  seasons <- s1, matches <- s2, cache <- s3, reading <- s4, closing <- s5, overlapped <- s6,
  QueueModes <- MatchTypes, Admins <- Closers,
  status <- s1, perTeam <- s2, format <- s3, queue <- s4, winner <- s5, left <- s6,
  pending <- s7, crossed <- s8,
  player <- s1, round <- s2, due <- s3, rostered <- s4, job <- s5, failures <- s6,
  draft <- s1, calendar <- s2, auction <- s3

\* TournamentMatch, as the platform runs it and as it is proved about.
LEMMA MatchIsTheSame ==
  /\ Match!Init => Competition!Match!Init
  /\ Match!Next => Competition!Match!Next
<1>1. Match!Init => Competition!Match!Init
  BY Zenon
     DEF Match!Init, Match!Sides, Match!Desks, Match!Nothing, Match!NoProof,
         Competition!Match!Init, Competition!Match!Sides, Competition!Match!Desks,
         Competition!Match!Nothing, Competition!Match!NoProof
<1>2. Match!Next => Competition!Match!Next
  BY Zenon
     DEF Match!Next, Match!Sides, Match!proposeSchedule, Match!respondSchedule,
         Match!postMessage, Match!claimResult, Match!respondClaim, Match!requestGrace,
         Match!setReady, Match!forfeit, Match!requestReview, Match!resolveReview,
         Match!rejectEaAudit, Match!checkEaResult, Match!reportWithoutImage,
         Match!synchronizeTournamentEaMatches, Match!resolveDeadlines, Match!Desks,
         Match!WriteRow, Match!Decide, Match!DecideTooLate, Match!Late, Match!report,
         Match!SendProof, Match!ProofRefused, Match!processProof, Match!processProofUnread,
         Match!LockGrowsOld, Match!ProofIsRead, Match!ProofIsApproved, Match!ReadingFails,
         Match!Restart, Match!review, Match!assertOpen, Match!Begin, Match!Other,
         Match!BothReady, Match!engagedTeams, Match!WriteMatch, Match!Written,
         Match!DeadlineAfter, Match!Put, Match!OPEN_STATUSES, Match!NoProof, Match!MayBeRead,
         Match!ProofChanges, Match!Free, Match!Nothing, Match!Reopens, Match!Decided,
         Competition!Match!Next, Competition!Match!Sides, Competition!Match!proposeSchedule,
         Competition!Match!respondSchedule, Competition!Match!postMessage,
         Competition!Match!claimResult, Competition!Match!respondClaim,
         Competition!Match!requestGrace, Competition!Match!setReady, Competition!Match!forfeit,
         Competition!Match!requestReview, Competition!Match!resolveReview,
         Competition!Match!rejectEaAudit, Competition!Match!checkEaResult,
         Competition!Match!reportWithoutImage, Competition!Match!synchronizeTournamentEaMatches,
         Competition!Match!resolveDeadlines, Competition!Match!Desks,
         Competition!Match!WriteRow, Competition!Match!Decide, Competition!Match!DecideTooLate,
         Competition!Match!Late, Competition!Match!report, Competition!Match!SendProof,
         Competition!Match!ProofRefused, Competition!Match!processProof,
         Competition!Match!processProofUnread, Competition!Match!LockGrowsOld,
         Competition!Match!ProofIsRead, Competition!Match!ProofIsApproved,
         Competition!Match!ReadingFails, Competition!Match!Restart, Competition!Match!review,
         Competition!Match!assertOpen, Competition!Match!Begin, Competition!Match!Other,
         Competition!Match!BothReady, Competition!Match!engagedTeams,
         Competition!Match!WriteMatch, Competition!Match!Written,
         Competition!Match!DeadlineAfter, Competition!Match!Put,
         Competition!Match!OPEN_STATUSES, Competition!Match!NoProof,
         Competition!Match!MayBeRead, Competition!Match!ProofChanges, Competition!Match!Free,
         Competition!Match!Nothing, Competition!Match!Reopens, Competition!Match!Decided
<1> QED BY <1>1, <1>2

\* TournamentMatchService: a match is counted once, and once more for each time it was
\* opened again, however many people have a request under way at the same time.
THEOREM ResultCountsOnce == PlatformSpec => []OneResultCounts
<1> DEFINE J == component = "match" => Competition!MatchInv
<1>1. PlatformInit => J
  BY MatchIsTheSame, Competition!MatchInit DEF PlatformInit
<1>2. J /\ [PlatformNext]_all => J'
  <2> SUFFICES ASSUME J, [PlatformNext]_all, component' = "match"  PROVE Competition!MatchInv'
    OBVIOUS
  <2>1. component = "match" /\ [Competition!Match!Next]_(Competition!Match!vars)
    BY MatchIsTheSame DEF PlatformNext, all, states, Competition!Match!vars
  <2> QED BY <2>1, Competition!MatchStep
<1>3. J => OneResultCounts
  BY Competition!MatchShows
     DEF OneResultCounts, Match!OneResultCounts, Match!Decided,
         Competition!Match!OneResultCounts, Competition!Match!Decided
<1> QED BY <1>1, <1>2, <1>3, PTL DEF PlatformSpec

\* LeagueMatch, as the platform runs it and as it is proved about.
LEMMA LeagueIsTheSame ==
  /\ League!Init => Competition!League!Init
  /\ League!Next => Competition!League!Next
<1>1. League!Init => Competition!League!Init
  BY Zenon
     DEF League!Init, League!Free, League!Active, League!Idle, Competition!League!Init,
         Competition!League!Free, Competition!League!Active, Competition!League!Idle
<1>2. \A users : League!Draws(users) = Competition!League!Draws(users)
  BY Zenon
     DEF League!Draws, League!balancedSplit, League!SetToSeqs, League!kSubset,
         League!Cardinality, League!Strength, League!FoldLeft, League!FoldSet,
         League!MapThenFoldSet, League!Max, Competition!League!Draws,
         Competition!League!balancedSplit, Competition!League!SetToSeqs,
         Competition!League!kSubset, Competition!League!Cardinality,
         Competition!League!Strength, Competition!League!FoldLeft, Competition!League!FoldSet,
         Competition!League!MapThenFoldSet, Competition!League!Max
<1>3. \A h : League!draw(h) => Competition!League!draw(h)
  BY <1>2, Zenon
     DEF League!draw, League!Free, League!maxPlayers, League!Reads, League!Idle, League!Users,
         Competition!League!draw, Competition!League!Free, Competition!League!maxPlayers,
         Competition!League!Reads, Competition!League!Idle, Competition!League!Users
<1>4. /\ \A f : League!createOnline(f) => Competition!League!createOnline(f)
      /\ \A u : League!join(u) => Competition!League!join(u)
      /\ \A h, u : League!leave(h, u) => Competition!League!leave(h, u)
      /\ \A h, u : League!kickPlayer(h, u) => Competition!League!kickPlayer(h, u)
      /\ \A h : League!rowDeleted(h) => Competition!League!rowDeleted(h)
  BY Zenon
     DEF League!createOnline, League!join, League!maxPlayers, League!Users, League!Free,
         League!leave, League!AsksToGo, League!Reads, League!Idle, League!kickPlayer,
         League!rowDeleted, League!RemoveAt, League!Active, League!Without, League!Starting,
         Competition!League!createOnline, Competition!League!join,
         Competition!League!maxPlayers, Competition!League!Users, Competition!League!Free,
         Competition!League!leave, Competition!League!AsksToGo, Competition!League!Reads,
         Competition!League!Idle, Competition!League!kickPlayer, Competition!League!rowDeleted,
         Competition!League!RemoveAt, Competition!League!Active, Competition!League!Without,
         Competition!League!Starting
<1>5. /\ \A h : League!undone(h) => Competition!League!undone(h)
      /\ \A h : League!dealt(h) => Competition!League!dealt(h)
      /\ \A h : League!start(h) => Competition!League!start(h)
      /\ \A h : League!started(h) => Competition!League!started(h)
  BY Zenon
     DEF League!undone, League!Free, League!Idle, League!Starting, League!Active, League!dealt,
         League!Writes, League!InTeams, League!SideIn, League!start, League!maxPlayers,
         League!Complete, League!Reads, League!Users, League!Sides, League!Cardinality,
         League!Team, League!started, Competition!League!undone, Competition!League!Free,
         Competition!League!Idle, Competition!League!Starting, Competition!League!Active,
         Competition!League!dealt, Competition!League!Writes, Competition!League!InTeams,
         Competition!League!SideIn, Competition!League!start, Competition!League!maxPlayers,
         Competition!League!Complete, Competition!League!Reads, Competition!League!Users,
         Competition!League!Sides, Competition!League!Cardinality, Competition!League!Team,
         Competition!League!started
<1>6. /\ \A h : League!finish(h) => Competition!League!finish(h)
      /\ \A h, side : League!finished(h, side) => Competition!League!finished(h, side)
      /\ \A h : League!cancel(h) => Competition!League!cancel(h)
      /\ \A h : League!cancelled(h) => Competition!League!cancelled(h)
      /\ \A h : League!cleanExpiredLobbies(h) => Competition!League!cleanExpiredLobbies(h)
      /\ \A h : League!cleaned(h) => Competition!League!cleaned(h)
      /\ \A side : League!update(side) => Competition!League!update(side)
      /\ League!remove => Competition!League!remove
  BY Zenon
     DEF League!finish, League!Reads, League!Idle, League!finished, League!Writes,
         League!cancel, League!cancelled, League!cleanExpiredLobbies, League!cleaned,
         League!Deleted, League!Active, League!update, League!remove, Competition!League!finish,
         Competition!League!Reads, Competition!League!Idle, Competition!League!finished,
         Competition!League!Writes, Competition!League!cancel, Competition!League!cancelled,
         Competition!League!cleanExpiredLobbies, Competition!League!cleaned,
         Competition!League!Deleted, Competition!League!Active, Competition!League!update,
         Competition!League!remove
<1>7. /\ \A f, two : League!create(f, two) => Competition!League!create(f, two)
  BY Zenon
     DEF League!create, League!SetToSeq, League!Cardinality, League!IsInjective,
         Competition!League!create, Competition!League!SetToSeq, Competition!League!Cardinality,
         Competition!League!IsInjective
<1>8. /\ \A k, S : League!kSubset(k, S) = Competition!League!kSubset(k, S)
      /\ League!Active = Competition!League!Active /\ League!Sides = Competition!League!Sides
  BY Zenon
     DEF League!Sides, League!Active, League!kSubset, League!Cardinality,
         Competition!League!Sides, Competition!League!Active, Competition!League!kSubset,
         Competition!League!Cardinality
<1>9. League!Next => Competition!League!Next
  BY <1>3, <1>4, <1>5, <1>6, <1>7, <1>8, Zenon DEF League!Next, Competition!League!Next
<1> QED BY <1>1, <1>9

\* LeagueMatchService: however many requests to go, to draw, to start and to call off wait
\* between what they read and what they write, a match is on only between two whole teams
\* and, where they were drawn balanced, apart by no more than the score of one player,
\* unless a player went, or a draw wrote, once a start had read the match.
THEOREM TeamsStartFair ==
  ASSUME DOMAIN LeagueHandlers \in SUBSET (Nat \ {0}), Score \in [Queuers -> Int]
  PROVE  PlatformSpec => []TeamsAreFair
<1> DEFINE J == component = "league" => Competition!LeagueInv
<1>0. Competition!LeagueBounds
  BY DEF Competition!LeagueBounds
<1>1. PlatformInit => J
  BY <1>0, LeagueIsTheSame, Competition!LeagueInit DEF PlatformInit
<1>2. J /\ [PlatformNext]_all => J'
  <2> SUFFICES ASSUME J, [PlatformNext]_all, component' = "league"  PROVE Competition!LeagueInv'
    OBVIOUS
  <2>1. component = "league" /\ [Competition!League!Next]_(Competition!League!vars)
    BY LeagueIsTheSame DEF PlatformNext, all, states, Competition!League!vars
  <2> QED BY <1>0, <2>1, Competition!LeagueStep
<1>3. /\ League!TeamsAreWhole <=> Competition!League!TeamsAreWhole
      /\ League!TeamsAreBalanced <=> Competition!League!TeamsAreBalanced
  BY Zenon
     DEF League!TeamsAreWhole, League!TeamsAreBalanced, League!Team, League!Users, League!Sides,
         League!Strength, League!FoldSet, League!MapThenFoldSet, League!Cardinality,
         Competition!League!TeamsAreWhole, Competition!League!TeamsAreBalanced,
         Competition!League!Team, Competition!League!Users, Competition!League!Sides,
         Competition!League!Strength, Competition!League!FoldSet,
         Competition!League!MapThenFoldSet, Competition!League!Cardinality
<1>4. J => TeamsAreFair
  BY <1>3, Competition!LeagueShows DEF TeamsAreFair
<1> QED BY <1>1, <1>2, <1>4, PTL DEF PlatformSpec

\* ServerRanking, as the platform runs it and as it is proved about.
LEMMA RankingIsTheSame ==
  /\ Ranking!Init => Competition!Ranking!Init
  /\ Ranking!Next => Competition!Ranking!Next
<1>1. Ranking!Init => Competition!Ranking!Init
  BY Zenon
     DEF Ranking!Init, Ranking!Nothing, Ranking!NoReading, Ranking!NoClosing,
         Competition!Ranking!Init, Competition!Ranking!Nothing, Competition!Ranking!NoReading,
         Competition!Ranking!NoClosing
<1>2. Ranking!Next => Competition!Ranking!Next
  BY Zenon
     DEF Ranking!Next, Ranking!create, Ranking!finish, Ranking!Expire, Ranking!Restart,
         Ranking!onTemporada, Ranking!getActive, Ranking!closeActive, Ranking!lastSeason,
         Ranking!startNext, Ranking!invalidateServer, Ranking!getLeaderboardForServer,
         Ranking!Reader, Ranking!Nothing, Ranking!NoReading, Ranking!NoClosing,
         Ranking!getActiveSeasonStart, Ranking!Open, Ranking!fromCache, Ranking!Query,
         Ranking!toCache, Ranking!Answered, Ranking!AllTime, Ranking!cacheKey, Ranking!Counted,
         Competition!Ranking!Next, Competition!Ranking!create, Competition!Ranking!finish,
         Competition!Ranking!Expire, Competition!Ranking!Restart,
         Competition!Ranking!onTemporada, Competition!Ranking!getActive,
         Competition!Ranking!closeActive, Competition!Ranking!lastSeason,
         Competition!Ranking!startNext, Competition!Ranking!invalidateServer,
         Competition!Ranking!getLeaderboardForServer, Competition!Ranking!Reader,
         Competition!Ranking!Nothing, Competition!Ranking!NoReading,
         Competition!Ranking!NoClosing, Competition!Ranking!getActiveSeasonStart,
         Competition!Ranking!Open, Competition!Ranking!fromCache, Competition!Ranking!Query,
         Competition!Ranking!toCache, Competition!Ranking!Answered, Competition!Ranking!AllTime,
         Competition!Ranking!cacheKey, Competition!Ranking!Counted
<1> QED BY <1>1, <1>2

\* LeaderboardService and SeasonService: a season is closed by a ranking of its own
\* matches, however old the ranking in the cache and whoever computed it, unless the
\* closing of another season overlapped with its own.
THEOREM SeasonsAreClosedRight ==
  ASSUME MaxSeasons \in Nat, Clients \cap Closers = {}
  PROVE  PlatformSpec => []ChampionsAreOfTheirSeason
<1> DEFINE J == component = "ranking" => Competition!SeasonInv
<1>0. Competition!SeasonBounds
  BY DEF Competition!SeasonBounds
<1>1. PlatformInit => J
  BY <1>0, RankingIsTheSame, Competition!SeasonInit DEF PlatformInit
<1>2. J /\ [PlatformNext]_all => J'
  <2> SUFFICES ASSUME J, [PlatformNext]_all, component' = "ranking"  PROVE Competition!SeasonInv'
    OBVIOUS
  <2>1. component = "ranking" /\ [Competition!Ranking!Next]_(Competition!Ranking!vars)
    BY RankingIsTheSame DEF PlatformNext, all, states, Competition!Ranking!vars
  <2> QED BY <1>0, <2>1, Competition!SeasonStep
<1>3. J => ChampionsAreOfTheirSeason
  BY <1>0, Competition!SeasonShows
     DEF ChampionsAreOfTheirSeason, Ranking!ChampionsAreOfTheirSeason, Ranking!Nothing,
         Competition!Ranking!ChampionsAreOfTheirSeason, Competition!Ranking!Nothing
<1> QED BY <1>1, <1>2, <1>3, PTL DEF PlatformSpec

\* World, as the platform runs it and as it is proved about.
LEMMA WorldIsTheSame ==
  /\ Football!Init => Competition!Football!Init
  /\ Football!Next => Competition!Football!Next
<1>1. Football!Init => Competition!Football!Init
  BY Zenon
     DEF Football!Init, Football!NoJob, Football!Players, Football!Teams, Football!ToSet,
         Competition!Football!Init, Competition!Football!NoJob,
         Competition!Football!Players, Competition!Football!Teams,
         Competition!Football!ToSet
<1>2. Football!tick => Competition!Football!tick
  BY ZenonT(60)
     DEF Football!tick, Football!pairTeams, Football!eligible, Football!Free,
         Football!Among, Football!FoldLeft, Football!MapThenFoldSet, Football!Max,
         Football!SetToSeqs, Football!Cardinality, Football!Players, Football!Teams,
         Football!ToSet, Competition!Football!tick, Competition!Football!pairTeams,
         Competition!Football!eligible, Competition!Football!Free,
         Competition!Football!Among, Competition!Football!FoldLeft,
         Competition!Football!MapThenFoldSet, Competition!Football!Max,
         Competition!Football!SetToSeqs, Competition!Football!Cardinality,
         Competition!Football!Players, Competition!Football!Teams,
         Competition!Football!ToSet
<1>3. Football!playMatch => Competition!Football!playMatch
  BY ZenonT(60)
     DEF Football!playMatch, Football!autoLineup, Football!take, Football!Foremost,
         Football!Among, Football!FoldLeft, Football!MapThenFoldSet, Football!Max,
         Football!Cardinality, Football!Players, Football!Teams, Football!ToSet,
         Football!Least, Football!Most, Football!simulateMatch, Football!ratePlayers,
         Football!progressOf, Football!nextRatingAvg, Football!attributeChange,
         Football!nextForm, Football!FormStep, Football!Round, Football!roll,
         Football!growthChance, Football!declineChance, Football!MAX_FORM,
         Football!MIN_FORM, Football!Unknown, Competition!Football!playMatch,
         Competition!Football!autoLineup, Competition!Football!take,
         Competition!Football!Foremost, Competition!Football!Among,
         Competition!Football!FoldLeft, Competition!Football!MapThenFoldSet,
         Competition!Football!Max, Competition!Football!Cardinality,
         Competition!Football!Players, Competition!Football!Teams,
         Competition!Football!ToSet, Competition!Football!Least, Competition!Football!Most,
         Competition!Football!simulateMatch, Competition!Football!ratePlayers,
         Competition!Football!progressOf, Competition!Football!nextRatingAvg,
         Competition!Football!attributeChange, Competition!Football!nextForm,
         Competition!Football!FormStep, Competition!Football!Round,
         Competition!Football!roll, Competition!Football!growthChance,
         Competition!Football!declineChance, Competition!Football!MAX_FORM,
         Competition!Football!MIN_FORM, Competition!Football!Unknown
<1>4. Football!finishRound \/ Football!roundFails \/ Football!DayPasses \/ Football!Drafted =>
        Competition!Football!Next
  BY Zenon
     DEF Football!finishRound, Football!roundFails, Football!DayPasses, Football!Drafted,
         Football!NoJob, Competition!Football!Next, Competition!Football!finishRound,
         Competition!Football!roundFails, Competition!Football!DayPasses,
         Competition!Football!Drafted, Competition!Football!NoJob
<1> QED BY <1>1, <1>2, <1>3, <1>4 DEF Football!Next, Competition!Football!Next

\* WorldSimulationService: the strongest of every line play, and the average of a player
\* lies among the ratings he has had, however often a round fails half way and is played
\* again from rows read before.
THEOREM ProgressIsExplained ==
  ASSUME Ratings \subseteq Nat, LINEUP_SIZE \in Nat \ {0},
         Quota \in [{"GK", "DEF", "MID", "ATT"} -> Nat], Quota["GK"] > 0,
         \A t \in Football!Teams : /\ Squads[t] \in Seq(Football!Players)
                                  /\ \A i, j \in DOMAIN Squads[t] :
                                       Squads[t][i] = Squads[t][j] => i = j
  PROVE  PlatformSpec => []ProgressIsEarned
<1> DEFINE J == component = "world" => Competition!WorldInv
<1>0. Competition!WorldBounds /\ Competition!LineupBounds
  BY DEF Competition!WorldBounds, Competition!LineupBounds, Competition!Distinct, Football!Teams,
         Football!Players, Football!ToSet, Competition!Football!Teams,
         Competition!Football!Players, Competition!Football!ToSet
<1>1. PlatformInit => J
  BY WorldIsTheSame, Competition!WorldInit DEF PlatformInit
<1>2. J /\ [PlatformNext]_all => J'
  <2> SUFFICES ASSUME J, [PlatformNext]_all, component' = "world"  PROVE Competition!WorldInv'
    OBVIOUS
  <2>1. component = "world" /\ [Competition!Football!Next]_(Competition!Football!vars)
    BY WorldIsTheSame DEF PlatformNext, all, states, Competition!Football!vars
  <2> QED BY <1>0, <2>1, Competition!WorldStep
<1>3. /\ Football!ProgressIsEarned <=> Football!RatingsExplain /\ Football!StrongestPlay
      /\ Football!RatingsExplain <=> Competition!Football!RatingsExplain
      /\ Competition!Football!ProgressIsEarned <=>
           Competition!Football!RatingsExplain /\ Competition!Football!StrongestPlay
  BY Zenon
     DEF Football!ProgressIsEarned, Football!RatingsExplain, Football!Players,
         Football!Teams, Football!ToSet, Football!MAX_FORM, Football!MIN_FORM,
         Competition!Football!ProgressIsEarned, Competition!Football!RatingsExplain,
         Competition!Football!Players, Competition!Football!Teams,
         Competition!Football!ToSet, Competition!Football!MAX_FORM,
         Competition!Football!MIN_FORM
<1>4. /\ \A squad : Football!autoLineup(squad) = Competition!Football!autoLineup(squad)
      /\ \A t : Football!Free(t) = Competition!Football!Free(t)
  <2>1. \A squad, S : Football!Among(squad, S) = Competition!Football!Among(squad, S)
    BY Zenon
       DEF Football!Among, Football!FoldLeft, Football!MapThenFoldSet, Football!Max,
           Competition!Football!Among, Competition!Football!FoldLeft,
           Competition!Football!MapThenFoldSet, Competition!Football!Max
  <2>2. /\ Football!Players = Competition!Football!Players
        /\ \A s : Football!ToSet(s) = Competition!Football!ToSet(s)
        /\ \A s, n : Football!Foremost(s, n) = Competition!Football!Foremost(s, n)
    BY Zenon
       DEF Football!Players, Football!Teams, Football!ToSet, Football!Foremost,
           Football!Least, Competition!Football!Players, Competition!Football!Teams,
           Competition!Football!ToSet, Competition!Football!Foremost,
           Competition!Football!Least
  <2>3. \A squad, line : Football!take(squad, line) = Competition!Football!take(squad, line)
    BY <2>1, <2>2 DEF Football!take, Competition!Football!take
  <2> QED BY <2>1, <2>2, <2>3 DEF Football!autoLineup, Competition!Football!autoLineup,
             Football!Free, Competition!Football!Free
<1>5. Football!StrongestPlay <=> Competition!Football!StrongestPlay
  <2>1. /\ \A s : Football!ToSet(s) = Competition!Football!ToSet(s)
        /\ \A S : Football!Cardinality(S) = Competition!Football!Cardinality(S)
        /\ \A m, n : Football!Least(m, n) = Competition!Football!Least(m, n)
        /\ \A t, p : Football!Strength(t, p) = Competition!Football!Strength(t, p)
        /\ Football!Teams = Competition!Football!Teams
    BY Zenon
       DEF Football!ToSet, Football!Cardinality, Football!Least, Football!Strength,
           Football!Teams, Competition!Football!ToSet, Competition!Football!Cardinality,
           Competition!Football!Least, Competition!Football!Strength,
           Competition!Football!Teams
  <2>2. Football!eligible = Competition!Football!eligible
    BY <1>4, <2>1 DEF Football!eligible, Competition!Football!eligible
  <2> QED BY <1>4, <2>1, <2>2, Zenon DEF Football!StrongestPlay, Competition!Football!StrongestPlay
<1>6. J => ProgressIsEarned
  BY <1>0, <1>3, <1>5, Competition!WorldShows DEF ProgressIsEarned
<1> QED BY <1>1, <1>2, <1>6, PTL DEF PlatformSpec

\* DraftRules, as the platform runs it and as it is proved about.
LEMMA PlanIsTheSame ==
  /\ DraftPlan!Init => Competition!DraftPlan!Init
  /\ DraftPlan!Next => Competition!DraftPlan!Next
  /\ Competition!DraftPlan!OrderIsFair => DraftPlan!OrderIsFair
  /\ Competition!DraftPlan!EverybodyMeetsOnce => DraftPlan!EverybodyMeetsOnce
  /\ Competition!DraftPlan!SeasonFitsTheCalendar => DraftPlan!SeasonFitsTheCalendar
  /\ Competition!DraftPlan!MinimumBidIsLeast => DraftPlan!MinimumBidIsLeast
<1>1. /\ DraftPlan!Init => Competition!DraftPlan!Init
      /\ DraftPlan!Next => Competition!DraftPlan!Next
  BY Zenon
     DEF DraftPlan!Init, DraftPlan!Next, DraftPlan!TryDraft, DraftPlan!TryCalendar,
         DraftPlan!TryAuction, DraftPlan!Return, DraftPlan!Drafts, DraftPlan!Calendars,
         DraftPlan!Auctions, DraftPlan!Draft0, DraftPlan!Calendar0, DraftPlan!Auction0,
         Competition!DraftPlan!Init, Competition!DraftPlan!Next,
         Competition!DraftPlan!TryDraft, Competition!DraftPlan!TryCalendar,
         Competition!DraftPlan!TryAuction, Competition!DraftPlan!Return,
         Competition!DraftPlan!Drafts, Competition!DraftPlan!Calendars,
         Competition!DraftPlan!Auctions, Competition!DraftPlan!Draft0,
         Competition!DraftPlan!Calendar0, Competition!DraftPlan!Auction0
<1>2. Competition!DraftPlan!OrderIsFair => DraftPlan!OrderIsFair
  BY Zenon
     DEF DraftPlan!OrderIsFair, DraftPlan!Indexes, DraftPlan!PicksOf, DraftPlan!PickAt,
         DraftPlan!TotalPicks, DraftPlan!pickCoordinate, Competition!DraftPlan!OrderIsFair,
         Competition!DraftPlan!Indexes, Competition!DraftPlan!PicksOf,
         Competition!DraftPlan!PickAt, Competition!DraftPlan!TotalPicks,
         Competition!DraftPlan!pickCoordinate
<1>3. DraftPlan!Pairs = Competition!DraftPlan!Pairs
  <2>1. /\ \A n : DraftPlan!Places(n) = Competition!DraftPlan!Places(n)
        /\ \A n, k, p : DraftPlan!lineup(n, k, p) = Competition!DraftPlan!lineup(n, k, p)
        /\ DraftPlan!Bye = Competition!DraftPlan!Bye
    BY Zenon
       DEF DraftPlan!lineup, DraftPlan!Places, DraftPlan!IndexAt, DraftPlan!Bye,
           Competition!DraftPlan!lineup, Competition!DraftPlan!Places,
           Competition!DraftPlan!IndexAt, Competition!DraftPlan!Bye
  <2> QED
    BY <2>1
       DEF DraftPlan!Pairs, DraftPlan!roundRobinPairs, Competition!DraftPlan!Pairs,
           Competition!DraftPlan!roundRobinPairs
<1>4. \A S : DraftPlan!Cardinality(S) = Competition!DraftPlan!Cardinality(S)
  BY Zenon DEF DraftPlan!Cardinality, Competition!DraftPlan!Cardinality
<1>5. Competition!DraftPlan!EverybodyMeetsOnce => DraftPlan!EverybodyMeetsOnce
  BY <1>3, <1>4
     DEF DraftPlan!EverybodyMeetsOnce, DraftPlan!Indexes,
         Competition!DraftPlan!EverybodyMeetsOnce, Competition!DraftPlan!Indexes
<1>6. \A from, late, weekdays, count :
        DraftPlan!nextMatchDates(from, late, weekdays, count) =
          Competition!DraftPlan!nextMatchDates(from, late, weekdays, count)
  BY Zenon
     DEF DraftPlan!nextMatchDates, DraftPlan!firstDay, DraftPlan!FoldLeft,
         DraftPlan!MapThenFoldSet, DraftPlan!Max,
         Competition!DraftPlan!nextMatchDates, Competition!DraftPlan!firstDay,
         Competition!DraftPlan!FoldLeft, Competition!DraftPlan!MapThenFoldSet,
         Competition!DraftPlan!Max
<1>7. Competition!DraftPlan!SeasonFitsTheCalendar => DraftPlan!SeasonFitsTheCalendar
  <2> DEFINE Rounds(P) == CHOOSE k \in {f.round : f \in P} : \A f \in P : f.round <= k
             Fits(rounds, dates) ==
               LET c == s2
                   allowed == IF c.weekdays = {} THEN {0, 3} ELSE c.weekdays
                   possible == {d \in c.from .. dates[rounds] : d % 7 \in allowed /\ (d > c.from \/ ~c.late)}
               IN /\ Len(dates) = rounds
                  /\ \A k \in 1 .. rounds - 1 : dates[k] < dates[k + 1]
                  /\ {dates[k] : k \in 1..rounds} = possible
             r == Rounds(DraftPlan!Pairs)
  <2>1. DraftPlan!SeasonFitsTheCalendar
          = Fits(r, DraftPlan!nextMatchDates(s2.from, s2.late, s2.weekdays, r))
    BY Zenon DEF DraftPlan!SeasonFitsTheCalendar
  <2> DEFINE q == Rounds(Competition!DraftPlan!Pairs)
  <2>2. Competition!DraftPlan!SeasonFitsTheCalendar
          = Fits(q, Competition!DraftPlan!nextMatchDates(s2.from, s2.late, s2.weekdays, q))
    BY Zenon DEF Competition!DraftPlan!SeasonFitsTheCalendar
  <2>3. r = q
    <3> HIDE DEF Rounds
    <3> QED BY <1>3
  <2> HIDE DEF Fits, r, q
  <2> QED BY <1>6, <2>1, <2>2, <2>3
<1>8. Competition!DraftPlan!MinimumBidIsLeast => DraftPlan!MinimumBidIsLeast
  BY Zenon
     DEF DraftPlan!MinimumBidIsLeast, DraftPlan!minimumBid, DraftPlan!bidStep,
         DraftPlan!CeilDiv, Competition!DraftPlan!MinimumBidIsLeast,
         Competition!DraftPlan!minimumBid, Competition!DraftPlan!bidStep,
         Competition!DraftPlan!CeilDiv
<1> QED BY <1>1, <1>2, <1>5, <1>7, <1>8

\* Whatever a draft is planned for, its order is fair, its fixtures are everybody against
\* everybody in as few rounds as can be, each on its day, and its next bid is the least one.
THEOREM PlansHold ==
  ASSUME WeekdayChoices \subseteq SUBSET (0..6), Percents \subseteq Nat
  PROVE  PlatformSpec => []PlansAreSound
<1> DEFINE J == component = "draftRules" => Competition!PlanInv
<1>1. PlatformInit => J
  BY PlanIsTheSame, Competition!PlanInit DEF PlatformInit
<1>2. J /\ [PlatformNext]_all => J'
  <2> SUFFICES ASSUME J, [PlatformNext]_all, component' = "draftRules"
               PROVE  Competition!PlanInv'
    OBVIOUS
  <2>1. component = "draftRules" /\ [Competition!DraftPlan!Next]_(Competition!DraftPlan!vars)
    BY PlanIsTheSame DEF PlatformNext, all, states, Competition!DraftPlan!vars
  <2>2. Competition!PlanBounds
    BY DEF Competition!PlanBounds
  <2> QED BY <2>1, <2>2, Competition!PlanStep
<1>3. J => PlansAreSound
  BY PlanIsTheSame, Competition!PlanShows DEF PlansAreSound
<1> QED BY <1>1, <1>2, <1>3, PTL DEF PlatformSpec

\* Registration, as the platform runs it and as it is proved about.
LEMMA SignUpIsTheSame ==
  /\ SignUp!Init => Competition!SignUp!Init
  /\ SignUp!Next => Competition!SignUp!Next
<1>1. SignUp!Init => Competition!SignUp!Init
  BY Zenon
     DEF SignUp!Init, SignUp!NoCode, SignUp!NoRead, Competition!SignUp!Init,
         Competition!SignUp!NoCode, Competition!SignUp!NoRead
<1>2. SignUp!Next => Competition!SignUp!Next
  BY Zenon
     DEF SignUp!Next, SignUp!Requests, SignUp!Expire, SignUp!Scheduler, SignUp!Restart,
         SignUp!Update, SignUp!SetStaff, SignUp!RemoveStaff, SignUp!TransferOwnership,
         SignUp!CreateRegistrationInvite, SignUp!RevokeRegistrationInvite, SignUp!JoinByInvite,
         SignUp!ClaimInvite, SignUp!JoinByLegacyInvite, SignUp!AddTeam, SignUp!CreateTeam,
         SignUp!RemoveTeam, SignUp!SetSeeds, SignUp!StartRead, SignUp!Start, SignUp!CronLeaves,
         SignUp!CloseExpiredRegistrations, SignUp!CronClose, SignUp!CronBegin,
         SignUp!CronStart, SignUp!NoRead, SignUp!Statuses, SignUp!Request, SignUp!CanManage,
         SignUp!RunsOrRan, SignUp!AssertWindow, SignUp!Staffing, SignUp!NoCode, SignUp!Keeps,
         SignUp!Claim, SignUp!MayEnter, SignUp!MANAGED_STATUSES, SignUp!CanModerate,
         SignUp!Captains, SignUp!RemoveAt, SignUp!AssertStartable, SignUp!StillThere,
         SignUp!Started, SignUp!Owners, SignUp!CronCatch, SignUp!ToSet,
         Competition!SignUp!Next, Competition!SignUp!Requests, Competition!SignUp!Expire,
         Competition!SignUp!Scheduler, Competition!SignUp!Restart, Competition!SignUp!Update,
         Competition!SignUp!SetStaff, Competition!SignUp!RemoveStaff,
         Competition!SignUp!TransferOwnership, Competition!SignUp!CreateRegistrationInvite,
         Competition!SignUp!RevokeRegistrationInvite, Competition!SignUp!JoinByInvite,
         Competition!SignUp!ClaimInvite, Competition!SignUp!JoinByLegacyInvite,
         Competition!SignUp!AddTeam, Competition!SignUp!CreateTeam,
         Competition!SignUp!RemoveTeam, Competition!SignUp!SetSeeds,
         Competition!SignUp!StartRead, Competition!SignUp!Start, Competition!SignUp!CronLeaves,
         Competition!SignUp!CloseExpiredRegistrations, Competition!SignUp!CronClose,
         Competition!SignUp!CronBegin, Competition!SignUp!CronStart, Competition!SignUp!NoRead,
         Competition!SignUp!Statuses, Competition!SignUp!Request, Competition!SignUp!CanManage,
         Competition!SignUp!RunsOrRan, Competition!SignUp!AssertWindow,
         Competition!SignUp!Staffing, Competition!SignUp!NoCode, Competition!SignUp!Keeps,
         Competition!SignUp!Claim, Competition!SignUp!MayEnter,
         Competition!SignUp!MANAGED_STATUSES, Competition!SignUp!CanModerate,
         Competition!SignUp!Captains, Competition!SignUp!RemoveAt,
         Competition!SignUp!AssertStartable, Competition!SignUp!StillThere,
         Competition!SignUp!Started, Competition!SignUp!Owners, Competition!SignUp!CronCatch,
         Competition!SignUp!ToSet
<1> QED BY <1>1, <1>2

\* RegistrationService: who claimed an invite stays its claimer.
THEOREM ClaimedInviteStays == PlatformSpec => InviteAdmitsOne
<1> DEFINE J == component = "registration" => Competition!InviteInv
<1>1. PlatformInit => J
  BY SignUpIsTheSame, Competition!InviteInit DEF PlatformInit
<1>2. J /\ [PlatformNext]_all => J' /\ [component = "registration" => SignUp!ClaimsLast]_all
  <2> SUFFICES ASSUME J, [PlatformNext]_all
               PROVE  J' /\ [component = "registration" => SignUp!ClaimsLast]_all
    OBVIOUS
  <2>1. component' = component
    BY DEF PlatformNext, all
  <2>2. CASE component = "registration"
    <3>1. [Competition!SignUp!Next]_(Competition!SignUp!vars)
      BY <2>2, SignUpIsTheSame DEF PlatformNext, all, states, Competition!SignUp!vars
    <3>2. /\ Competition!InviteInv'
          /\ Competition!SignUp!ClaimsLast \/ UNCHANGED Competition!SignUp!vars
      BY <2>2, <3>1, Competition!StepLeaves
    <3>3. CASE UNCHANGED Competition!SignUp!vars
      <4>1. SignUp!ClaimsLast
        BY <3>3 DEF SignUp!ClaimsLast, Competition!SignUp!vars
      <4> QED BY <2>2, <3>2, <4>1
    <3>4. CASE Competition!SignUp!ClaimsLast
      BY <2>2, <3>2, <3>4 DEF SignUp!ClaimsLast, Competition!SignUp!ClaimsLast
    <3> QED BY <3>2, <3>3, <3>4
  <2> QED BY <2>1, <2>2
<1> QED BY <1>1, <1>2, PTL DEF PlatformSpec, InviteAdmitsOne
-----------------------------------------------------------------------------
Services == INSTANCE ServiceProofs WITH
  People <- Callers, Formats <- Modes, MaxMatches <- MaxFinished, Callers <- RiotCallers,
  Keys <- Lookups, Teams <- ListTeams, Users <- Managers, Players <- Picked,
  results <- s1, achievements <- s2, player <- s3, reads <- s4, todo <- s5, announced <- s6,
  failed <- s7, vote <- s8, open <- s9, tally <- s10, mvp <- s11,
  match <- s1, channels <- s2, waiting <- s3,
  events <- s1, file <- s2,
  league <- s1, staff <- s2, formation <- s3, rosterOf <- s4, starter <- s5, asked <- s6,
  chosen <- s7, overtaken <- s8,
  tokens <- s1, sinceRefill <- s2, cache <- s3, call <- s4, granted <- s5,
  PlayedIn <- Played,
  folders <- s1, base <- s2, sync <- s3, unrated <- s4, instant <- s5, edits <- s6,
  imported <- s1, clubRows <- s2, clubDesk <- s3,
  phase <- s1, seats <- s2, host <- s3, sessions <- s4, admitted <- s5, away <- s6,
  corpses <- s7, meeting <- s8, work <- s9, blackout <- s10, winner <- s11, games <- s12,
  stored <- s1, live <- s2, peers <- s3, joined <- s4, told <- s5, tickets <- s6,
  closing <- s7, handed <- s8, restarts <- s9,
  settings <- s1, refuses <- s2, quirks <- s3, blocked <- s4, asking <- s5, kept <- s6,
  calls <- s7

\* RiotClient, as the platform runs it and as it is proved about.
LEMMA RiotIsTheSame ==
  /\ Riot!Init => Services!Riot!Init
  /\ Riot!Next => Services!Riot!Next
<1>1. Riot!Init => Services!Riot!Init
  BY Zenon
     DEF Riot!Init, Riot!NoCall, Services!Riot!Init, Services!Riot!NoCall
<1>2. Riot!Next => Services!Riot!Next
  BY Zenon
     DEF Riot!Next, Riot!Tick, Riot!Step, Riot!Least, Riot!Before, Riot!Recent,
         Riot!CachedRead, Riot!FreshRead, Riot!Retake, Riot!Send, Riot!Resend, Riot!AnswerData,
         Riot!AnswerBusy, Riot!AnswerError, Riot!Cardinality, Riot!Live, Riot!cacheGet,
         Riot!riotGet, Riot!acquire, Riot!cacheSet, Riot!NoCall, Riot!gives, Riot!filled,
         Riot!Refilled, Riot!waitFor, Riot!Holds, Services!Riot!Next, Services!Riot!Tick,
         Services!Riot!Step, Services!Riot!Least, Services!Riot!Before, Services!Riot!Recent,
         Services!Riot!CachedRead, Services!Riot!FreshRead, Services!Riot!Retake,
         Services!Riot!Send, Services!Riot!Resend, Services!Riot!AnswerData,
         Services!Riot!AnswerBusy, Services!Riot!AnswerError, Services!Riot!Cardinality,
         Services!Riot!Live, Services!Riot!cacheGet, Services!Riot!riotGet,
         Services!Riot!acquire, Services!Riot!cacheSet, Services!Riot!NoCall,
         Services!Riot!gives, Services!Riot!filled, Services!Riot!Refilled,
         Services!Riot!waitFor, Services!Riot!Holds
<1> QED BY <1>1, <1>2

\* RiotClientService: however many calls wait for a token, in no window does a bucket
\* give more than it holds and is refilled with.
THEOREM RequestBurstsAreBounded ==
  ASSUME MaxTokens \in [Buckets -> Nat \ {0}], Window \in [Buckets -> Nat \ {0}]
  PROVE  PlatformSpec => []BurstsAreBounded
<1> DEFINE J == component = "riot" => Services!RiotInv
<1>0. Services!RiotBounds
  BY DEF Services!RiotBounds
<1>1. PlatformInit => J
  BY <1>0, RiotIsTheSame, Services!RiotInit DEF PlatformInit
<1>2. J /\ [PlatformNext]_all => J'
  <2> SUFFICES ASSUME J, [PlatformNext]_all, component' = "riot"  PROVE Services!RiotInv'
    OBVIOUS
  <2>1. component = "riot" /\ [Services!Riot!Next]_(Services!Riot!vars)
    BY RiotIsTheSame DEF PlatformNext, all, states, Services!Riot!vars
  <2> QED BY <1>0, <2>1, Services!RiotStep
<1>3. J => BurstsAreBounded
  BY <1>0, Services!RiotShows
     DEF BurstsAreBounded, Riot!BurstsAreBounded, Riot!Given, Services!Riot!BurstsAreBounded,
         Services!Riot!Given
<1> QED BY <1>1, <1>2, <1>3, PTL DEF PlatformSpec

\* PostMatch, as the platform runs it and as it is proved about.
LEMMA HonoursIsTheSame ==
  /\ Honours!Init => Services!Honours!Init
  /\ Honours!Next => Services!Honours!Next
<1>1. Honours!Init => Services!Honours!Init
  BY Zenon
     DEF Honours!Init, Honours!Matches, Honours!Members, Honours!Players, Honours!Nobody,
         Services!Honours!Init, Services!Honours!Matches, Services!Honours!Members,
         Services!Honours!Players, Services!Honours!Nobody
<1>2. Honours!Next => Services!Honours!Next
  BY Zenon
     DEF Honours!Next, Honours!Matches, Honours!Step, Honours!onMatchFinished,
         Honours!ReadPlayer, Honours!checkAndUnlock, Honours!CreateFails,
         Honours!CheckFails, Honours!Vote,
         Honours!runMvpVote, Honours!Checks, Honours!Players, Honours!getPlayerStats,
         Honours!Types, Honours!Test, Honours!Voting, Honours!NextPlayer, Honours!Unlocks,
         Honours!Members, Honours!Winners, Honours!Checking, Honours!MostVotes, Honours!wins,
         Honours!totalGames, Honours!winStreak, Honours!Cardinality, Honours!Won,
         Services!Honours!Next, Services!Honours!Matches, Services!Honours!Step,
         Services!Honours!onMatchFinished, Services!Honours!ReadPlayer,
         Services!Honours!checkAndUnlock, Services!Honours!CreateFails,
         Services!Honours!CheckFails, Services!Honours!Vote,
         Services!Honours!runMvpVote, Services!Honours!Checks, Services!Honours!Players,
         Services!Honours!getPlayerStats, Services!Honours!Types, Services!Honours!Test,
         Services!Honours!Voting, Services!Honours!NextPlayer, Services!Honours!Unlocks,
         Services!Honours!Members, Services!Honours!Winners, Services!Honours!Checking,
         Services!Honours!MostVotes, Services!Honours!wins, Services!Honours!totalGames,
         Services!Honours!winStreak, Services!Honours!Cardinality, Services!Honours!Won
<1> QED BY <1>1, <1>2

\* PostMatchService and AchievementService: however many flows run at once, an
\* achievement is written for who earned it, and the MVP is a winner with the most votes.
THEOREM HonoursGoToWhoEarnedThem ==
  ASSUME MaxFinished \in Nat, Blue \in Seq(Honours!Members(Blue)), Red \in Seq(Honours!Members(Red))
  PROVE  PlatformSpec => []HonoursAreEarned
<1> DEFINE J == component = "honours" => Services!HonoursInv
<1>0. Services!HonoursBounds
  BY DEF Services!HonoursBounds, Honours!Members, Services!Honours!Members
<1>1. PlatformInit => J
  BY <1>0, HonoursIsTheSame, Services!HonoursInit DEF PlatformInit
<1>2. J /\ [PlatformNext]_all => J'
  <2> SUFFICES ASSUME J, [PlatformNext]_all, component' = "honours"  PROVE Services!HonoursInv'
    OBVIOUS
  <2>1. component = "honours" /\ [Services!Honours!Next]_(Services!Honours!vars)
    BY HonoursIsTheSame DEF PlatformNext, all, states, Services!Honours!vars
  <2> QED BY <1>0, <2>1, Services!HonoursStep
<1>3. J => HonoursAreEarned
  <2>1. Services!Honours!HonoursAreEarned => Honours!HonoursAreEarned
    BY ZenonT(60)
    DEF Honours!HonoursAreEarned, Honours!Matches, Honours!Nobody,
         Honours!Members, Honours!Winners, Honours!Players, Honours!Checks, Honours!Types,
         Honours!Test, Honours!getPlayerStats, Honours!wins, Honours!totalGames,
         Honours!winStreak, Honours!Cardinality, Honours!Won,
         Services!Honours!HonoursAreEarned, Services!Honours!Matches, Services!Honours!Nobody,
         Services!Honours!Members, Services!Honours!Winners, Services!Honours!Players,
         Services!Honours!Checks, Services!Honours!Types, Services!Honours!Test,
         Services!Honours!getPlayerStats, Services!Honours!wins, Services!Honours!totalGames,
         Services!Honours!winStreak, Services!Honours!Cardinality, Services!Honours!Won
  <2> QED BY <1>0, <2>1, Services!HonoursShows DEF HonoursAreEarned
<1> QED BY <1>1, <1>2, <1>3, PTL DEF PlatformSpec

\* DraftOffice, as the platform runs it and as it is proved about.
LEMMA OfficeIsTheSame ==
  /\ Office!Init => Services!Office!Init
  /\ Office!Next => Services!Office!Next
<1>1. Office!Init => Services!Office!Init
  BY Zenon
     DEF Office!Init, Office!None, Office!Absent, Office!NoLineup, Services!Office!Init,
         Services!Office!None, Services!Office!Absent, Services!Office!NoLineup
<1>2. Office!Next => Services!Office!Next
  BY Zenon
     DEF Office!Next, Office!Plans, Office!create, Office!Statuses, Office!update,
         Office!remove, Office!setStaff, Office!removeStaff, Office!transferOwnership,
         Office!importPlayers, Office!removePlayer, Office!Signed, Office!Free, Office!Traded,
         Office!setTactics, Office!setLineup, Office!setLineupCommit, Office!Exists,
         Office!assertLeaguePlan, Office!Lineups, Office!canManage, Office!None, Office!Absent,
         Office!NoLineup, Office!canModerate, Office!League, Office!StartsNowhere,
         Office!Cardinality, Office!Squad, Office!isValidFormation, Office!Min,
         Office!startersFor, Services!Office!Next, Services!Office!Plans,
         Services!Office!create, Services!Office!Statuses, Services!Office!update,
         Services!Office!remove, Services!Office!setStaff, Services!Office!removeStaff,
         Services!Office!transferOwnership, Services!Office!importPlayers,
         Services!Office!removePlayer, Services!Office!Signed, Services!Office!Free,
         Services!Office!Traded, Services!Office!setTactics, Services!Office!setLineup,
         Services!Office!setLineupCommit, Services!Office!Exists,
         Services!Office!assertLeaguePlan, Services!Office!Lineups, Services!Office!canManage,
         Services!Office!None, Services!Office!Absent, Services!Office!NoLineup,
         Services!Office!canModerate, Services!Office!League, Services!Office!StartsNowhere,
         Services!Office!Cardinality, Services!Office!Squad, Services!Office!isValidFormation,
         Services!Office!Min, Services!Office!startersFor
<1> QED BY <1>1, <1>2

\* DraftService and DraftMarketService: however the draft, the market, the list and
\* line-ups that were checked before follow upon each other, who starts for a roster was
\* chosen by its last line-up or put there by one that a trade had overtaken.
THEOREM StartersAreChosen ==
  ASSUME Rosters \cap {"free", "absent"} = {}
  PROVE  PlatformSpec => []StartersWereChosen
<1> DEFINE J == component = "office" => Services!OfficeInv
<1>0. Services!OfficeBounds
  BY DEF Services!OfficeBounds, Services!Office!Free, Services!Office!Absent
<1>1. PlatformInit => J
  BY <1>0, OfficeIsTheSame, Services!OfficeInit DEF PlatformInit
<1>2. J /\ [PlatformNext]_all => J'
  <2> SUFFICES ASSUME J, [PlatformNext]_all, component' = "office"  PROVE Services!OfficeInv'
    OBVIOUS
  <2>1. component = "office" /\ [Services!Office!Next]_(Services!Office!vars)
    BY OfficeIsTheSame DEF PlatformNext, all, states, Services!Office!vars
  <2> QED BY <1>0, <2>1, Services!OfficeStep
<1>3. J => StartersWereChosen
  BY Services!OfficeShows
     DEF StartersWereChosen, Office!StartersWereChosen, Services!Office!StartersWereChosen
<1> QED BY <1>1, <1>2, <1>3, PTL DEF PlatformSpec

\* EaClubSync, as the platform runs it and as it is proved about.
LEMMA ClubIsTheSame ==
  /\ Club!Init => Services!Club!Init
  /\ Club!Next => Services!Club!Next
<1>1. Club!Init => Services!Club!Init
  BY Zenon
     DEF Club!Init, Club!Idle, Services!Club!Init, Services!Club!Idle
<1>2. Club!Next => Services!Club!Next
  BY Zenon
     DEF Club!Next, Club!sync, Club!importMatch, Club!importFails, Club!Restart, Club!readRows,
         Club!refreshEaCareerTotals, Club!Idle, Club!playersOf, Club!ByTotals, Club!Keys,
         Club!Row, Club!TakenOver, Club!Known, Club!KeyIn, Club!NewIn, Club!Heirs, Club!Unnamed,
         Services!Club!Next, Services!Club!sync, Services!Club!importMatch,
         Services!Club!importFails, Services!Club!Restart, Services!Club!readRows,
         Services!Club!refreshEaCareerTotals, Services!Club!Idle, Services!Club!playersOf,
         Services!Club!ByTotals, Services!Club!Keys, Services!Club!Row, Services!Club!TakenOver,
         Services!Club!Known, Services!Club!KeyIn, Services!Club!NewIn, Services!Club!Heirs,
         Services!Club!Unnamed
<1> QED BY <1>1, <1>2

\* EaFcClubsService: a club that one synchronisation at a time brings up to date has the
\* totals of a name on one row, and apart from the matches of a player of that name only
\* where a match without ids was stored whose row took them.
THEOREM TotalsAreTakenOver ==
  ASSUME \A s, t \in Syncs : s = t, \A m \in ClubMatches : Played[m] \subseteq ClubPlayers
  PROVE  PlatformSpec => []TotalsMeetTheirPlayer
<1> DEFINE J == component = "club" => Services!ClubInv
<1>0. Services!ClubBounds
  BY DEF Services!ClubBounds
<1>1. PlatformInit => J
  BY <1>0, ClubIsTheSame, Services!ClubInit DEF PlatformInit
<1>2. J /\ [PlatformNext]_all => J'
  <2> SUFFICES ASSUME J, [PlatformNext]_all, component' = "club"  PROVE Services!ClubInv'
    OBVIOUS
  <2>1. component = "club" /\ [Services!Club!Next]_(Services!Club!vars)
    BY ClubIsTheSame DEF PlatformNext, all, states, Services!Club!vars
  <2> QED BY <1>0, <2>1, Services!ClubStep
<1>3. J => TotalsMeetTheirPlayer
  BY <1>0, Services!ClubShows
     DEF TotalsMeetTheirPlayer, Club!TotalsMeetTheirPlayer, Club!Known, Club!Keys, Club!Unnamed,
         Services!Club!TotalsMeetTheirPlayer, Services!Club!Known, Services!Club!Keys,
         Services!Club!Unnamed
<1> QED BY <1>1, <1>2, <1>3, PTL DEF PlatformSpec

\* Deducao, as the platform runs it and as it is proved about.
LEMMA GameIsTheSame ==
  /\ Game!Init => Services!Game!Init
  /\ Game!Next => Services!Game!Next
<1>1. Game!Init => Services!Game!Init
  BY Zenon
     DEF Game!Init, Game!None, Game!NoMeeting, Game!Nothing, Services!Game!Init,
         Services!Game!None, Services!Game!NoMeeting, Services!Game!Nothing
<1>2. ASSUME NEW p, NEW v
      PROVE  /\ Game!onAuth <=> Services!Game!onAuth
             /\ Game!onJoin(p) <=> Services!Game!onJoin(p)
             /\ Game!onLeave(p) <=> Services!Game!onLeave(p)
             /\ Game!onDrop(p) <=> Services!Game!onDrop(p)
             /\ Game!Reconnects(p) <=> Services!Game!Reconnects(p)
             /\ Game!GivenUp(p) <=> Services!Game!GivenUp(p)
             /\ Game!onMicrophoneStatus(p) <=> Services!Game!onMicrophoneStatus(p)
             /\ Game!onReady(p) <=> Services!Game!onReady(p)
             /\ Game!onStart(p) <=> Services!Game!onStart(p)
             /\ Game!onRestart(p) <=> Services!Game!onRestart(p)
             /\ Game!onMove(p) <=> Services!Game!onMove(p)
             /\ Game!onTaskBegin(p, v) <=> Services!Game!onTaskBegin(p, v)
  BY Zenon
     DEF Game!onAuth, Game!onJoin, Game!onLeave, Game!onDrop, Game!Reconnects,
         Game!GivenUp, Game!onMicrophoneStatus, Game!onReady, Game!onStart,
         Game!onRestart, Game!onMove, Game!onTaskBegin, Game!None, Game!InRoom,
         Game!NewSeat, Game!Acts, Game!Gone, Game!Cardinality, Game!Rest, Game!Nothing,
         Game!canStartMatch, Game!assignRoles, Game!alive, Game!Closed, Game!Playing,
         Game!Quiet, Game!CheckEnd, Game!AsItIs, Game!KillersOf, Game!Range,
         Game!winnerFor, Game!Unvoted, Game!maxKillersFor, Game!Killers,
         Services!Game!onAuth, Services!Game!onJoin, Services!Game!onLeave,
         Services!Game!onDrop, Services!Game!Reconnects, Services!Game!GivenUp,
         Services!Game!onMicrophoneStatus, Services!Game!onReady, Services!Game!onStart,
         Services!Game!onRestart, Services!Game!onMove, Services!Game!onTaskBegin,
         Services!Game!None, Services!Game!InRoom, Services!Game!NewSeat,
         Services!Game!Acts, Services!Game!Gone, Services!Game!Cardinality,
         Services!Game!Rest, Services!Game!Nothing, Services!Game!canStartMatch,
         Services!Game!assignRoles, Services!Game!alive, Services!Game!Closed,
         Services!Game!Playing, Services!Game!Quiet, Services!Game!CheckEnd,
         Services!Game!AsItIs, Services!Game!KillersOf, Services!Game!Range,
         Services!Game!winnerFor, Services!Game!Unvoted, Services!Game!maxKillersFor,
         Services!Game!Killers
<1>3. ASSUME NEW p, NEW v
      PROVE  /\ Game!onTaskDone(p) <=> Services!Game!onTaskDone(p)
             /\ Game!onKill(p, v) <=> Services!Game!onKill(p, v)
             /\ Game!onVent(p) <=> Services!Game!onVent(p)
             /\ Game!onSabotage(p) <=> Services!Game!onSabotage(p)
             /\ Game!onReport(p, v) <=> Services!Game!onReport(p, v)
             /\ Game!onEmergency(p) <=> Services!Game!onEmergency(p)
             /\ Game!onInspect(p, v) <=> Services!Game!onInspect(p, v)
  BY Zenon
     DEF Game!onTaskDone, Game!onKill, Game!onVent, Game!onSabotage, Game!onReport,
         Game!onEmergency, Game!onInspect, Game!Nothing, Game!CheckEnd, Game!AsItIs,
         Game!Playing, Game!alive, Game!Rest, Game!Quiet, Game!openMeeting, Game!None,
         Game!Acts, Game!winnerFor, Game!Closed, Game!Unvoted, Game!InRoom, Game!Range,
         Game!NoMeeting, Game!Killers, Game!Cardinality, Services!Game!onTaskDone,
         Services!Game!onKill, Services!Game!onVent, Services!Game!onSabotage,
         Services!Game!onReport, Services!Game!onEmergency, Services!Game!onInspect,
         Services!Game!Nothing, Services!Game!CheckEnd, Services!Game!AsItIs,
         Services!Game!Playing, Services!Game!alive, Services!Game!Rest,
         Services!Game!Quiet, Services!Game!openMeeting, Services!Game!None,
         Services!Game!Acts, Services!Game!winnerFor, Services!Game!Closed,
         Services!Game!Unvoted, Services!Game!InRoom, Services!Game!Range,
         Services!Game!NoMeeting, Services!Game!Killers, Services!Game!Cardinality
<1>4. ASSUME NEW p, NEW v
      PROVE  /\ Game!onForensicInspect(p, v) <=> Services!Game!onForensicInspect(p, v)
             /\ Game!onVote(p, v) <=> Services!Game!onVote(p, v)
             /\ Game!TimePasses <=> Services!Game!TimePasses
             /\ Game!tickVoting <=> Services!Game!tickVoting
             /\ Game!tickResult <=> Services!Game!tickResult
             /\ Game!tickPlay <=> Services!Game!tickPlay
             /\ Game!tickLight <=> Services!Game!tickLight
  BY Zenon
     DEF Game!onForensicInspect, Game!onVote, Game!TimePasses, Game!tickVoting,
         Game!tickResult, Game!tickPlay, Game!tickLight, Game!alive, Game!Playing,
         Game!Quiet, Game!None, Game!Skip, Game!Acts, Game!closeVoting, Game!Closed,
         Game!Unvoted, Game!CheckEnd, Game!Nothing, Game!InRoom, Game!Range,
         Game!tallyVotes, Game!winnerFor, Game!Cardinality, Game!Killers,
         Services!Game!onForensicInspect, Services!Game!onVote,
         Services!Game!TimePasses, Services!Game!tickVoting, Services!Game!tickResult,
         Services!Game!tickPlay, Services!Game!tickLight, Services!Game!alive,
         Services!Game!Playing, Services!Game!Quiet, Services!Game!None,
         Services!Game!Skip, Services!Game!Acts, Services!Game!closeVoting,
         Services!Game!Closed, Services!Game!Unvoted, Services!Game!CheckEnd,
         Services!Game!Nothing, Services!Game!InRoom, Services!Game!Range,
         Services!Game!tallyVotes, Services!Game!winnerFor, Services!Game!Cardinality,
         Services!Game!Killers
<1>5. Game!Next => Services!Game!Next
  BY <1>2, <1>3, <1>4
     DEF Game!Next, Game!Sessions, Game!InRoom, Game!Skip,
         Services!Game!Next, Services!Game!Sessions, Services!Game!InRoom, Services!Game!Skip
<1> QED BY <1>1, <1>5

\* DeducaoRoom: whoever kills, is voted out, leaves, comes back or drops out, a game
\* of as many as it asks for goes on only while it is undecided.
THEOREM DecidedGamesAreOver ==
  ASSUME MIN_PLAYERS \in Nat, MIN_PLAYERS >= 3, GameAdmins = {}, IsFiniteSet(Spots)
  PROVE  PlatformSpec => []NobodyPlaysOn
<1> DEFINE J == component = "game" => Services!GameInv
<1>0. Services!GameBounds
  BY DEF Services!GameBounds, IsFiniteSet, Services!IsFiniteSet
<1>1. PlatformInit => J
  BY <1>0, GameIsTheSame, Services!GameInit DEF PlatformInit
<1>2. J /\ [PlatformNext]_all => J'
  <2> SUFFICES ASSUME J, [PlatformNext]_all, component' = "game"  PROVE Services!GameInv'
    OBVIOUS
  <2>1. component = "game" /\ [Services!Game!Next]_(Services!Game!vars)
    BY GameIsTheSame DEF PlatformNext, all, states, Services!Game!vars
  <2> QED BY <1>0, <2>1, Services!GameStep
<1>3. J => NobodyPlaysOn
  BY <1>0, Services!GameShows
     DEF NobodyPlaysOn, Game!NobodyPlaysOn, Game!winnerFor, Game!Nothing, Game!Cardinality,
         Game!alive, Game!Killers, Services!Game!NobodyPlaysOn, Services!Game!winnerFor,
         Services!Game!Nothing, Services!Game!Cardinality, Services!Game!alive,
         Services!Game!Killers
<1> QED BY <1>1, <1>2, <1>3, PTL DEF PlatformSpec

\* Catalog, as the platform runs it and as it is proved about.
LEMMA RollIsTheSame ==
  /\ Roll!Init => Services!Roll!Init
  /\ Roll!Next => Services!Roll!Next
<1>1. Roll!Init => Services!Roll!Init
  BY Zenon
     DEF Roll!Init, Roll!Keys, Roll!NoPlayer, Roll!First, Roll!Exists, Roll!Idle,
         Services!Roll!Init, Services!Roll!Keys, Services!Roll!NoPlayer, Services!Roll!First,
         Services!Roll!Exists, Services!Roll!Idle
<1>2. Roll!Next => Services!Roll!Next
  BY Zenon
     DEF Roll!Next, Roll!FetchFromFootballData, Roll!FetchFromGeneric, Roll!SyncWikipedia,
         Roll!RefreshFromSofifa, Roll!FillCompetitionFromSofifa, Roll!FillCompetition,
         Roll!FillTeamFromSofifa, Roll!SyncAiSquads, Roll!CreateSofifaCompetition,
         Roll!CreateAiCompetition, Roll!Persist, Roll!SaveTeam, Roll!SavePlayer,
         Roll!RetireMissing, Roll!StopSync, Roll!CreatePlayer, Roll!SavePlayers,
         Roll!UpdatePlayer, Roll!MoveTo, Roll!RemovePlayer, Roll!RemoveTeam,
         Roll!EstimateMissingAttributes, Roll!EstimateTeamAttributes,
         Roll!EstimatePlayerAttributes, Roll!WriteEstimate, Roll!Ask, Roll!EmptyTeams,
         Roll!MayAsk, Roll!FetchSquads, Roll!FirstByName, Roll!Cardinality, Roll!CreateFolders,
         Roll!FetchCompetitionTeams, Roll!Min, Roll!Synced, Roll!Keys, Roll!Retired,
         Roll!Restrict, Roll!Idle, Roll!Exists, Roll!Edit, Roll!Manual, Roll!Hand,
         Roll!NoPlayer, Roll!Forget, Roll!Estimate, Roll!Lacking, Roll!Answer, Roll!CardData,
         Roll!HandEdited, Services!Roll!Next, Services!Roll!FetchFromFootballData,
         Services!Roll!FetchFromGeneric, Services!Roll!SyncWikipedia,
         Services!Roll!RefreshFromSofifa, Services!Roll!FillCompetitionFromSofifa,
         Services!Roll!FillCompetition, Services!Roll!FillTeamFromSofifa,
         Services!Roll!SyncAiSquads, Services!Roll!CreateSofifaCompetition,
         Services!Roll!CreateAiCompetition, Services!Roll!Persist, Services!Roll!SaveTeam,
         Services!Roll!SavePlayer, Services!Roll!RetireMissing, Services!Roll!StopSync,
         Services!Roll!CreatePlayer, Services!Roll!SavePlayers, Services!Roll!UpdatePlayer,
         Services!Roll!MoveTo, Services!Roll!RemovePlayer, Services!Roll!RemoveTeam,
         Services!Roll!EstimateMissingAttributes, Services!Roll!EstimateTeamAttributes,
         Services!Roll!EstimatePlayerAttributes, Services!Roll!WriteEstimate,
         Services!Roll!Ask, Services!Roll!EmptyTeams, Services!Roll!MayAsk,
         Services!Roll!FetchSquads, Services!Roll!FirstByName, Services!Roll!Cardinality,
         Services!Roll!CreateFolders, Services!Roll!FetchCompetitionTeams, Services!Roll!Min,
         Services!Roll!Synced, Services!Roll!Keys, Services!Roll!Retired,
         Services!Roll!Restrict, Services!Roll!Idle, Services!Roll!Exists, Services!Roll!Edit,
         Services!Roll!Manual, Services!Roll!Hand, Services!Roll!NoPlayer,
         Services!Roll!Forget, Services!Roll!Estimate, Services!Roll!Lacking,
         Services!Roll!Answer, Services!Roll!CardData, Services!Roll!HandEdited
<1> QED BY <1>1, <1>2

\* PlayerCatalogService: a sync takes out of the base only whom its list has left out,
\* whatever hands and estimates write between its steps.
THEOREM TheListedStay == PlatformSpec => OnlyTheMissingRest
<1> DEFINE J == component = "catalog" => Services!RollInv
<1>1. PlatformInit => J
  BY RollIsTheSame, Services!RollInit DEF PlatformInit
<1>2. J /\ [PlatformNext]_all => J' /\ [component = "catalog" => Roll!RestsTheMissing]_all
  <2> SUFFICES ASSUME J, [PlatformNext]_all
               PROVE  J' /\ [component = "catalog" => Roll!RestsTheMissing]_all
    OBVIOUS
  <2>1. component' = component
    BY DEF PlatformNext, all
  <2>2. CASE component = "catalog"
    <3>1. [Services!Roll!Next]_(Services!Roll!vars)
      BY <2>2, RollIsTheSame DEF PlatformNext, all, states, Services!Roll!vars
    <3>2. /\ Services!RollInv'
          /\ Services!Roll!RestsTheMissing \/ UNCHANGED Services!Roll!vars
      BY <2>2, <3>1, Services!RollStep, Services!StepRests
    <3>3. CASE UNCHANGED Services!Roll!vars
      <4>1. Roll!RestsTheMissing
        BY <3>3 DEF Roll!RestsTheMissing, Services!Roll!vars
      <4> QED BY <2>2, <3>2, <4>1
    <3>4. CASE Services!Roll!RestsTheMissing
      BY <2>2, <3>2, <3>4
         DEF Roll!RestsTheMissing, Services!Roll!RestsTheMissing, Roll!Keys, Services!Roll!Keys
    <3> QED BY <3>2, <3>3, <3>4
  <2> QED BY <2>1, <2>2
<1> QED BY <1>1, <1>2, PTL DEF PlatformSpec, OnlyTheMissingRest

\* Streaming, as the platform runs it and as it is proved about.
LEMMA LiveIsTheSame ==
  /\ Live!Init => Services!Live!Init
  /\ Live!Next => Services!Live!Next
<1>1. Live!Init => Services!Live!Init
  BY Zenon
     DEF Live!Init, Live!Gone, Services!Live!Init, Services!Live!Gone
<1>2. Live!Next => Services!Live!Next
  BY Zenon
     DEF Live!Next, Live!create, Live!start, Live!end, Live!deleteRow, Live!updateVisibility,
         Live!sendGuestsAway, Live!reportTelemetry, Live!Restart, Live!joinHost,
         Live!joinViewer, Live!joinPublic, Live!Ids, Live!leave, Live!createTicket,
         Live!ticketExpires, Live!events, Live!detach, Live!rtcGrant, Live!TimePasses,
         Live!cleanup, Live!Open, Live!Gone, Live!NewLive, Live!Counters, Live!destroy,
         Live!Drop, Live!GuestsIn, Live!Admit, Live!Dropped, Live!Viewers, Live!InRoom,
         Live!Public, Live!None, Live!Stale, Live!NewPeer, Services!Live!Next,
         Services!Live!create, Services!Live!start, Services!Live!end, Services!Live!deleteRow,
         Services!Live!updateVisibility, Services!Live!sendGuestsAway,
         Services!Live!reportTelemetry, Services!Live!Restart, Services!Live!joinHost,
         Services!Live!joinViewer, Services!Live!joinPublic, Services!Live!Ids,
         Services!Live!leave, Services!Live!createTicket, Services!Live!ticketExpires,
         Services!Live!events, Services!Live!detach, Services!Live!rtcGrant,
         Services!Live!TimePasses, Services!Live!cleanup, Services!Live!Open,
         Services!Live!Gone, Services!Live!NewLive, Services!Live!Counters,
         Services!Live!destroy, Services!Live!Drop, Services!Live!GuestsIn, Services!Live!Admit,
         Services!Live!Dropped, Services!Live!Viewers, Services!Live!InRoom,
         Services!Live!Public, Services!Live!None, Services!Live!Stale, Services!Live!NewPeer
<1> QED BY <1>1, <1>2

\* StreamingService: whatever pages open, are replaced and close, the host has been
\* told of exactly those who watch.
THEOREM TheHostIsTold == PlatformSpec => []HostKnowsTheViewers
<1> DEFINE J == component = "live" => Services!LiveInv
<1>1. PlatformInit => J
  BY LiveIsTheSame, Services!LiveInit DEF PlatformInit
<1>2. J /\ [PlatformNext]_all => J'
  <2> SUFFICES ASSUME J, [PlatformNext]_all, component' = "live"  PROVE Services!LiveInv'
    OBVIOUS
  <2>1. component = "live" /\ [Services!Live!Next]_(Services!Live!vars)
    BY LiveIsTheSame DEF PlatformNext, all, states, Services!Live!vars
  <2> QED BY <2>1, Services!LiveStep
<1>3. J => HostKnowsTheViewers
  BY Services!LiveShows
     DEF HostKnowsTheViewers, Live!HostKnowsTheViewers, Live!Open, Live!None, Live!Viewers,
         Live!Gone, Services!Live!HostKnowsTheViewers, Services!Live!Open, Services!Live!None,
         Services!Live!Viewers, Services!Live!Gone
<1> QED BY <1>1, <1>2, <1>3, PTL DEF PlatformSpec

\* StreamingService: once a live is answered to be private, no guest is in it.
THEOREM GuestsLeaveAPrivateLive == PlatformSpec => []PrivateLiveHasNoGuests
<1> DEFINE J == component = "live" => Services!LiveInv
<1>1. PlatformInit => J
  BY LiveIsTheSame, Services!LiveInit DEF PlatformInit
<1>2. J /\ [PlatformNext]_all => J'
  <2> SUFFICES ASSUME J, [PlatformNext]_all, component' = "live"  PROVE Services!LiveInv'
    OBVIOUS
  <2>1. component = "live" /\ [Services!Live!Next]_(Services!Live!vars)
    BY LiveIsTheSame DEF PlatformNext, all, states, Services!Live!vars
  <2> QED BY <2>1, Services!LiveStep
<1>3. J => PrivateLiveHasNoGuests
  BY Services!LiveShows
     DEF PrivateLiveHasNoGuests, Live!PrivateLiveHasNoGuests, Live!Open, Live!GuestsIn,
         Live!Gone, Services!Live!PrivateLiveHasNoGuests, Services!Live!Open,
         Services!Live!GuestsIn, Services!Live!Gone
<1> QED BY <1>1, <1>2, <1>3, PTL DEF PlatformSpec

\* Chat, as the platform runs it and as it is proved about.
LEMMA ModelIsTheSame ==
  /\ Model!Init => Services!Model!Init
  /\ Model!Next => Services!Model!Next
<1>1. Model!Init => Services!Model!Init
  BY Zenon
     DEF Model!Init, Model!Providers, Model!OpenAi, Model!NoCall, Model!Primary, Model!Reserve,
         Services!Model!Init, Services!Model!Providers, Services!Model!OpenAi,
         Services!Model!NoCall, Services!Model!Primary, Services!Model!Reserve
<1>2. Model!Next => Services!Model!Next
  BY Zenon
     DEF Model!Next, Model!CooldownEnds, Model!Expire, Model!AnalyzeOpponents,
         Model!AnalyzePlayerProfile, Model!GenerateMatchRecap, Model!Step, Model!Ask,
         Model!WaitForCooldown, Model!WaitEnds, Model!Post, Model!Outcome, Model!BackoffEnds, Model!Return,
         Model!NoCall, Model!Analysis, Model!At, Model!Body, Model!Learn, Model!Answered,
         Model!Transient, Model!Refused, Model!Kept, Model!Resolve, Model!Primary,
         Model!OpenAi, Model!Rejected, Model!Throw, Model!Retry, Model!Fallback,
         Services!Model!Next, Services!Model!CooldownEnds, Services!Model!Expire,
         Services!Model!AnalyzeOpponents, Services!Model!AnalyzePlayerProfile,
         Services!Model!GenerateMatchRecap, Services!Model!Step, Services!Model!Ask,
         Services!Model!WaitForCooldown, Services!Model!WaitEnds, Services!Model!Post, Services!Model!Outcome,
         Services!Model!BackoffEnds, Services!Model!Return, Services!Model!NoCall,
         Services!Model!Analysis, Services!Model!At, Services!Model!Body, Services!Model!Learn,
         Services!Model!Answered, Services!Model!Transient, Services!Model!Refused,
         Services!Model!Kept, Services!Model!Resolve, Services!Model!Primary,
         Services!Model!OpenAi, Services!Model!Rejected, Services!Model!Throw,
         Services!Model!Retry, Services!Model!Fallback
<1> QED BY <1>1, <1>2

\* ChatClient: a call that has another house to ask does not fail before it has been
\* asked, whatever each answers and however often it is tried again.
THEOREM NoCallGivesUpEarly == PlatformSpec => []TheReserveIsAsked
<1> DEFINE J == component = "chat" => Services!CallInv
<1>1. PlatformInit => J
  BY ModelIsTheSame, Services!CallInit DEF PlatformInit
<1>2. J /\ [PlatformNext]_all => J'
  <2> SUFFICES ASSUME J, [PlatformNext]_all, component' = "chat"  PROVE Services!CallInv'
    OBVIOUS
  <2>1. component = "chat" /\ [Services!Model!Next]_(Services!Model!vars)
    BY ModelIsTheSame DEF PlatformNext, all, states, Services!Model!vars
  <2> QED BY <2>1, Services!CallStep
<1>3. J => TheReserveIsAsked
  BY Services!CallShows
     DEF TheReserveIsAsked, Model!TheReserveIsAsked, Model!Primary, Model!Reserve,
         Services!Model!TheReserveIsAsked, Services!Model!Primary, Services!Model!Reserve
<1> QED BY <1>1, <1>2, <1>3, PTL DEF PlatformSpec

\* OfflineMatch, as the platform runs it and as it is proved about.
LEMMA OfflineIsTheSame ==
  /\ Offline!Init => Services!Offline!Init
  /\ Offline!Next => Services!Offline!Next
<1>1. Offline!Init => Services!Offline!Init
  BY Zenon
     DEF Offline!Init, Offline!NoMatch, Offline!IsInjective, Services!Offline!Init,
         Services!Offline!NoMatch, Services!Offline!IsInjective
<1>2. Offline!Next => Services!Offline!Next
  BY Zenon
     DEF Offline!Next, Offline!createChannels, Offline!createOfflineMatch, Offline!onDraw,
         Offline!onStart, Offline!onFinish, Offline!Restart, Offline!onJoin, Offline!onLeave,
         Offline!onLeaveMoved, Offline!onDrawRanked, Offline!onFinishMoved,
         Offline!onCriarPartida, Offline!SetToSeq, Offline!kSubset, Offline!maxPlayers,
         Offline!drawTeams, Offline!Drawn, Offline!Awaits, Offline!update, Offline!ToSet,
         Offline!NoMatch, Offline!Without, Offline!Resumes, Offline!balancedSplitByDiscordIds,
         Offline!Cardinality, Offline!RemoveAt, Offline!IsInjective, Services!Offline!Next,
         Services!Offline!createChannels, Services!Offline!createOfflineMatch,
         Services!Offline!onDraw, Services!Offline!onStart, Services!Offline!onFinish,
         Services!Offline!Restart, Services!Offline!onJoin, Services!Offline!onLeave,
         Services!Offline!onLeaveMoved, Services!Offline!onDrawRanked,
         Services!Offline!onFinishMoved, Services!Offline!onCriarPartida,
         Services!Offline!SetToSeq, Services!Offline!kSubset, Services!Offline!maxPlayers,
         Services!Offline!drawTeams, Services!Offline!Drawn, Services!Offline!Awaits,
         Services!Offline!update, Services!Offline!ToSet, Services!Offline!NoMatch,
         Services!Offline!Without, Services!Offline!Resumes,
         Services!Offline!balancedSplitByDiscordIds, Services!Offline!Cardinality,
         Services!Offline!RemoveAt, Services!Offline!IsInjective
<1> QED BY <1>1, <1>2

\* EventAnswers, as the platform runs it and as it is proved about.
LEMMA EventIsTheSame ==
  /\ Event!Init => Services!Event!Init
  /\ Event!Next => Services!Event!Next
<1>1. Event!Init => Services!Event!Init
  BY Zenon
     DEF Event!Init, Event!NoEvent, Services!Event!Init, Services!Event!NoEvent
<1>2. Event!Next => Services!Event!Next
  BY Zenon
     DEF Event!Next, Event!onEventModal, Event!onModuleInit, Event!onVou, Event!onNaoVou,
         Event!upsert, Event!NoEvent, Event!save, Services!Event!Next,
         Services!Event!onEventModal, Services!Event!onModuleInit, Services!Event!onVou,
         Services!Event!onNaoVou, Services!Event!upsert, Services!Event!NoEvent,
         Services!Event!save
<1> QED BY <1>1, <1>2

\* The Discord bot: whatever handlers resume after an await, nobody is twice in the list of
\* an offline match nor in both teams, no team is too large, and who is remembered is who is
\* in the list; nobody is in both lists of an event.
THEOREM ListsAreSound ==
  ASSUME playersPerTeam \in Nat, IsFiniteSet(Callers)
  PROVE  PlatformSpec => []ListsStaySound
<1> DEFINE J == /\ component = "offline" => Services!OfflineInv
                /\ component = "event" => Services!EventInv
<1>0. Services!OfflineBounds
  BY DEF Services!OfflineBounds, IsFiniteSet, Services!IsFiniteSet
<1>1. PlatformInit => J
  BY OfflineIsTheSame, EventIsTheSame, Services!OfflineInit, Services!EventInit DEF PlatformInit
<1>2. J /\ [PlatformNext]_all => J'
  <2>1. ASSUME J, [PlatformNext]_all, component' = "offline"  PROVE Services!OfflineInv'
    <3>1. component = "offline" /\ [Services!Offline!Next]_(Services!Offline!vars)
      BY <2>1, OfflineIsTheSame DEF PlatformNext, all, states, Services!Offline!vars
    <3> QED BY <1>0, <2>1, <3>1, Services!OfflineStep
  <2>2. ASSUME J, [PlatformNext]_all, component' = "event"  PROVE Services!EventInv'
    <3>1. component = "event" /\ [Services!Event!Next]_(Services!Event!vars)
      BY <2>2, EventIsTheSame DEF PlatformNext, all, states, Services!Event!vars
    <3> QED BY <2>2, <3>1, Services!EventStep
  <2> QED BY <2>1, <2>2
<1>3. J => ListsStaySound
  <2>1. Services!OfflineInv => Offline!ListsStaySound
    BY Services!OfflineShows
       DEF Offline!ListsStaySound, Services!Offline!ListsStaySound,
           Offline!maxPlayers, Services!Offline!maxPlayers,
           Offline!ToSet, Services!Offline!ToSet,
           Offline!IsInjective, Services!Offline!IsInjective,
           Offline!Cardinality, Services!Offline!Cardinality
  <2>2. Services!EventInv => Event!OneAnswerEach
    BY Services!EventShows DEF Event!OneAnswerEach, Services!Event!OneAnswerEach
  <2> QED BY <2>1, <2>2 DEF ListsStaySound
<1> QED BY <1>1, <1>2, <1>3, PTL DEF PlatformSpec

=============================================================================
