------------------------------ MODULE MCJourneys ------------------------------
(* The components that wait for somebody: what they start must come to an end.   *)
(* They share no state: one of them, chosen at the start, runs alone, and its    *)
(* variables are s1, s2, ... as its INSTANCE says.                               *)
EXTENDS Naturals

CONSTANT NoOne  \* No leader, no request.

VARIABLES component,  \* the one that runs
          s1, s2, s3, s4, s5, s6, s7, s8, s9, s10, s11, s12  \* its state

\* By hand with an opponent who confirms, from EA, from an image.
Rule(window, confirm, result, auto, present) ==
  [window |-> window, confirm |-> confirm, result |-> result, auto |-> auto, present |-> present,
   desks |-> {"one", "deadlines", "ea"}]
MCRules == {Rule(TRUE, TRUE, "MANUAL", FALSE, FALSE), Rule(TRUE, FALSE, "EA_API", FALSE, FALSE),
            Rule(TRUE, FALSE, "AI_IMAGE", TRUE, TRUE)}

Cup == INSTANCE Registration WITH
  cup <- s1, staff <- s2, teams <- s3, invited <- s4, codes <- s5, desk <- s6, cron <- s7,
  requests <- s8, restarts <- s9,
  People <- {1, 2}, Creator <- 1, Codes <- {1}, MaxTeams <- 2, MinTeams <- 2,
  MaxRequests <- 2, MaxRestarts <- 1
Match == INSTANCE TournamentMatch WITH
  rules <- s1, match <- s2, desk <- s3, overdue <- s4, proof <- s5, readers <- s6,
  proofs <- s7, counted <- s8, reopened <- s9,
  Rules <- MCRules, People <- {"one"}, MaxReopened <- 0, MaxProofs <- 1
Game == INSTANCE Deducao WITH
  phase <- s1, players <- s2, host <- s3, sessions <- s4, admitted <- s5, away <- s6,
  corpses <- s7, meeting <- s8, work <- s9, blackout <- s10, winner <- s11, games <- s12,
  MaxSessions <- 3, Admins <- {}, Spots <- {}, MIN_PLAYERS <- 3, Emergencies <- 1,
  MaxDrops <- 0, Detective <- FALSE, Callers <- {1}, MaxGames <- 1
Live == INSTANCE Streaming WITH
  row <- s1, live <- s2, peers <- s3, joined <- s4, told <- s5, tickets <- s6, closing <- s7,
  granted <- s8, restarts <- s9,
  MaxPeers <- 2, MaxGrants <- 2, MaxRestarts <- 1
Model == INSTANCE Chat WITH
  settings <- s1, refuses <- s2, quirks <- s3, blocked <- s4, call <- s5, cache <- s6,
  calls <- s7,
  Callers <- {1, 2}, Features <- {"analysis", "profile"},
  UNSUPPORTED_PARAMS <- {"max_tokens"}, MAX_RETRIES <- 1, MaxCalls <- 2
Scouts == INSTANCE ScoutQueue WITH
  jobs <- s1, pending <- s2, processing <- s3, scout <- s4,
  RiotKeys <- {1, 2}, MaxJobs <- 2, Members <- 2
\* One auction, one manager and a moderator, two requests at a time.
Market == INSTANCE DraftMarket WITH
  league <- s1, played <- s2, owner <- s3, account <- s4, auctions <- s5, paidIn <- s6,
  offers <- s7, now <- s8, req <- s9,
  Workers <- {1, 2}, Rosters <- {"a"}, Owners <- {"a"}, Guests <- {"staff"},
  Moderators <- {"staff"}, Players <- {"p"}, BasePlayers <- {}, Auctions <- {1}, Offers <- {},
  Outside <- "outside", RosterSize <- 1, StartingBudget <- 1, Price <- [p \in {"p"} |-> 2],
  Salary <- 0, RoundRewards <- {}, StartingBids <- {1}, MaxBid <- 1, OfferPrices <- {},
  IncrementPercent <- 5, AuctionHours <- 2, AntiSnipe <- 1, MaxTime <- 2, MaxMatches <- 0,
  MaxTurnover <- 2, None <- NoOne

Components == {"registration", "match", "meeting", "live", "chat", "scout", "market"}

states == <<s1, s2, s3, s4, s5, s6, s7, s8, s9, s10, s11, s12>>
all == <<component, states>>

\* The variables from the k-th on, which a component leaves over.
Zero(k) == /\ k <= 1 => s1 = 0
           /\ k <= 2 => s2 = 0
           /\ k <= 3 => s3 = 0
           /\ k <= 4 => s4 = 0
           /\ k <= 5 => s5 = 0
           /\ k <= 6 => s6 = 0
           /\ k <= 7 => s7 = 0
           /\ k <= 8 => s8 = 0
           /\ k <= 9 => s9 = 0
           /\ k <= 10 => s10 = 0
           /\ k <= 11 => s11 = 0
           /\ k <= 12 => s12 = 0

JourneysInit ==
  /\ component \in Components
  /\ \/ component = "market" /\ Market!Init /\ Zero(10)
     \/ component = "registration" /\ Cup!Init /\ Zero(10)
     \/ component = "match" /\ Match!Init /\ Zero(10)
     \/ component = "meeting" /\ Game!Init
     \/ component = "live" /\ Live!Init /\ Zero(10)
     \/ component = "chat" /\ Model!Init /\ Zero(8)
     \/ component = "scout" /\ Scouts!Init /\ Zero(5)

JourneysNext ==
  /\ UNCHANGED component
  /\ \/ component = "market" /\ Market!Next /\ UNCHANGED <<s10, s11, s12>>
     \/ component = "registration" /\ Cup!Next /\ UNCHANGED <<s10, s11, s12>>
     \/ component = "match" /\ Match!Next /\ UNCHANGED <<s10, s11, s12>>
     \/ component = "meeting" /\ Game!Next
     \/ component = "live" /\ Live!Next /\ UNCHANGED <<s10, s11, s12>>
     \/ component = "chat" /\ Model!Next /\ UNCHANGED <<s8, s9, s10, s11, s12>>
     \/ component = "scout" /\ Scouts!Next /\ UNCHANGED <<s5, s6, s7, s8, s9, s10, s11, s12>>

-----------------------------------------------------------------------------
(* The fairness of each component is the Fairness of its module.  Only one runs,  *)
(* so that one condition over a step of each says the same as one for every step. *)

TheMarket(step) == component = "market" /\ step /\ UNCHANGED <<component, s10, s11, s12>>
TheCup(step)    == component = "registration" /\ step /\ UNCHANGED <<component, s10, s11, s12>>
TheMatch(step)  == component = "match" /\ step /\ UNCHANGED <<component, s10, s11, s12>>
TheGame(step)   == component = "meeting" /\ step /\ UNCHANGED component
TheLive(step)   == component = "live" /\ step /\ UNCHANGED <<component, s10, s11, s12>>
TheModel(step)  == component = "chat" /\ step
                   /\ UNCHANGED <<component, s8, s9, s10, s11, s12>>
TheScouts(step) == component = "scout" /\ step
                   /\ UNCHANGED <<component, s5, s6, s7, s8, s9, s10, s11, s12>>

Clocks == \/ TheCup(Cup!Scheduler)
          \/ TheMatch(Match!resolveDeadlines)
          \/ TheGame(Game!TimePasses)
          \/ TheLive(Live!TimePasses)
Writes == \/ TheMatch(Match!DeadlineWrites)
          \/ TheGame(Game!tickVoting)
          \/ TheLive(Live!cleanup)
          \/ TheScouts(Scouts!Stage)
Looks  == TheMatch(Match!processProof) \/ TheGame(Game!tickResult)
Locks  == TheMatch(Match!LockGrowsOld) \/ TheGame(Game!tickPlay)
Reads  == TheMatch(Match!ReadingEnds)
Calls(c)   == TheModel(Model!Step(c)) \/ TheMarket(Market!Commit(c) \/ Market!rollback(c))
Commits(c) == TheMarket(Market!closeCommit(c))
Returns(c) == TheMarket(Market!closeCheck(c, 1))

JourneysFairness ==
  /\ WF_all(Clocks) /\ WF_all(Writes) /\ WF_all(Looks) /\ WF_all(Locks) /\ WF_all(Reads)
  /\ \A c \in {1, 2} : WF_all(Calls(c)) /\ SF_all(Commits(c)) /\ SF_all(Returns(c))

JourneysSpec == JourneysInit /\ [][JourneysNext]_all /\ JourneysFairness
-----------------------------------------------------------------------------
(* The properties of the components, by the names their modules explain.        *)

\* What has a time limit is over some time after it: a registration whose window has
\* passed, a match past its deadline, a meeting, a live without its host.
Overdue == \/ component = "registration" /\ Cup!WindowIsOver
           \/ component = "match" /\ Match!LeftAlone
           \/ component = "meeting" /\ Game!InMeeting
           \/ component = "live" /\ Live!Abandoned

DeadlinesAreKept == Overdue ~> ~Overdue

\* What somebody waits for comes: the scout that was asked for, the answer to a call to a
\* model, the reading of a proof.
AwaitedBy(i) == \/ component = "scout" /\ Scouts!Waits(i)
                \/ component = "chat" /\ Model!Busy(i)
                \/ component = "match" /\ i = 1 /\ Match!Unread

AwaitedIsDone == \A i \in {1, 2} : AwaitedBy(i) ~> ~AwaitedBy(i)

\* An auction whose time is up ends, unless a last bid gives it more time, whatever becomes
\* of the transfer window.
TimeIsUp == component = "market" /\ s5[1].status = "OPEN" /\ s5[1].endsAt <= s8
EveryAuctionCloses == TimeIsUp ~> ~TimeIsUp
=============================================================================
