------------------------------- MODULE Platform -------------------------------
(* The components that run beside the drafts, side by side, for what may never   *)
(* happen.  They share no state: one of them, chosen at the start, runs alone,    *)
(* so that TLC explores each of them whole and a theorem about one of them is a    *)
(* theorem about the platform; its variables are s1, s2, ... as its INSTANCE       *)
(* says.  Wallet is extended and keeps its own.                                    *)
EXTENDS Wallet

CONSTANTS
  Chosen,        \* the components that may run
  MaxRosters, MaxSize, MaxBid, WeekdayChoices, Percents,                  \* DraftRules
  Workers, Drafters, Moderators, Seats, Draftees, Overall, RosterSize,    \* DraftRoom
  OrderType, LiveStart, NoOne,
  MaxBracket, MaxGroups, MaxGroupSize, MaxAdvance,                        \* BracketRules
  Entrants, Creator, Codes, MaxTeams, MinTeams, MaxRequests, MaxRestarts, \* Registration
  Setups, Scores, MaxCorrections,                                         \* Tournament
  Rules, Reporters, MaxReopened, MaxProofs,                               \* TournamentMatch
  Queuers, Score, LeagueHandlers, MatchTypes, MaxLeft,                    \* LeagueMatch
  MaxSessions, GameAdmins, Spots, MIN_PLAYERS, Emergencies, MaxDrops,     \* Deducao
  Detective, Accusers, MaxGames,
  Syncs, ClubPlayers, Name, ClubMatches, Played, Anonymous,               \* EaClubSync
  ListTeams, Names, MaxSyncs, MaxEdits, Batch,                            \* Catalog
  RiotCallers, Buckets, MaxTokens, Window, Lookups, FreshKeys, Ttl,       \* RiotClient
  MaxEntries, RIOT_MAX_RETRIES, MaxRetryAfter,
  AccessRequests, Reviewers, MaxReviews,                                  \* Access
  Blue, Red, MaxFinished, MaxBallots, Goals,                              \* PostMatch
  MaxRanked, MaxSeasons, Clients, Closers,                                \* ServerRanking
  Discords, Accounts, Icons, MaxPending, MAX_ATTEMPTS,                    \* Verify, and Calls
  Squads, LineOf, Age, Ratings, Quota, LINEUP_SIZE, MIN_SQUAD,            \* World
  MIN_MATCHES, Draftable, MaxRounds, MaxFailures,
  Callers, Modes, playersPerTeam, MaxWaiting,                             \* OfflineMatch
  Guests, Messages,                                                       \* EventAnswers
  Managers, Rosters, Manager, Picked, Formations, Sizes, FIELD,           \* DraftOffice
  Credentials, Announcement, MaxKeys, MaxSaves,                           \* Secrets
  MaxPeers, MaxGrants, MaxReboots,                                        \* Streaming
  Askers, Features, UNSUPPORTED_PARAMS, MAX_RETRIES, MaxCalls             \* Chat

VARIABLES component,  \* the one that runs
          s1, s2, s3, s4, s5, s6, s7, s8, s9, s10, s11, s12  \* its state

DraftPlan == INSTANCE DraftRules WITH draft <- s1, calendar <- s2, auction <- s3
Room == INSTANCE DraftRoom WITH
  status <- s1, currentPickNumber <- s2, rosters <- s3, owner <- s4, picks <- s5,
  fixtures <- s6, startsAt <- s7, expired <- s8, req <- s9, Users <- Drafters,
  Managers <- Moderators, Rosters <- Seats, Players <- Draftees, None <- NoOne
CupPlan == INSTANCE BracketRules WITH plan <- s1
SignUp == INSTANCE Registration WITH
  cup <- s1, staff <- s2, teams <- s3, invited <- s4, codes <- s5, desk <- s6, cron <- s7,
  requests <- s8, restarts <- s9, People <- Entrants
Cup == INSTANCE Tournament WITH
  setup <- s1, status <- s2, matches <- s3, table <- s4, champion <- s5, desk <- s6,
  changes <- s7, overtaken <- s8, MaxChanges <- MaxCorrections
Match == INSTANCE TournamentMatch WITH
  rules <- s1, match <- s2, desk <- s3, overdue <- s4, proof <- s5, readers <- s6,
  proofs <- s7, counted <- s8, reopened <- s9, People <- Reporters
League == INSTANCE LeagueMatch WITH
  status <- s1, perTeam <- s2, format <- s3, queue <- s4, winner <- s5, left <- s6, req <- s7,
  crossed <- s8, Players <- Queuers, Formats <- MatchTypes, Handlers <- LeagueHandlers
Game == INSTANCE Deducao WITH
  phase <- s1, players <- s2, host <- s3, sessions <- s4, admitted <- s5, away <- s6,
  corpses <- s7, meeting <- s8, work <- s9, blackout <- s10, winner <- s11, games <- s12,
  Admins <- GameAdmins, Callers <- Accusers
Club == INSTANCE EaClubSync WITH
  imported <- s1, rows <- s2, desk <- s3, People <- ClubPlayers, Matches <- ClubMatches
Roll == INSTANCE Catalog WITH
  teams <- s1, players <- s2, desk <- s3, asked <- s4, instant <- s5, edits <- s6,
  Teams <- ListTeams
Riot == INSTANCE RiotClient WITH
  tokens <- s1, sinceRefill <- s2, cache <- s3, call <- s4, granted <- s5,
  Callers <- RiotCallers, Keys <- Lookups
Door == INSTANCE Access WITH
  row <- s1, token <- s2, base <- s3, cache <- s4, promise <- s5, request <- s6, half <- s7,
  change <- s8, changes <- s9, Admins <- Reviewers, MaxChanges <- MaxReviews,
  Requests <- AccessRequests
Honours == INSTANCE PostMatch WITH
  results <- s1, achievements <- s2, player <- s3, reads <- s4, todo <- s5, announced <- s6,
  failed <- s7, vote <- s8, open <- s9, tally <- s10, mvp <- s11, MaxMatches <- MaxFinished
Ranking == INSTANCE ServerRanking WITH
  seasons <- s1, matches <- s2, cache <- s3, reading <- s4, closing <- s5,
  overlapped <- s6, MaxMatches <- MaxRanked, Admins <- Closers
Verification == INSTANCE Verify WITH
  icon <- s1, known <- s2, verified <- s3, leagueAccount <- s4, users <- s5, pending <- s6,
  session <- s7, call <- s8
Football == INSTANCE World WITH
  player <- s1, round <- s2, due <- s3, rostered <- s4, job <- s5, failures <- s6
Offline == INSTANCE OfflineMatch WITH
  match <- s1, channels <- s2, waiting <- s3, Users <- Callers, Formats <- Modes
Event == INSTANCE EventAnswers WITH events <- s1, file <- s2
Office == INSTANCE DraftOffice WITH
  league <- s1, staff <- s2, formation <- s3, rosterOf <- s4, starter <- s5, asked <- s6,
  chosen <- s7, overtaken <- s8, Users <- Managers, Players <- Picked
Secret == INSTANCE Secrets WITH
  rows <- s1, keys <- s2, reading <- s3, saving <- s4, cache <- s5, migrated <- s6,
  saves <- s7
Live == INSTANCE Streaming WITH
  row <- s1, live <- s2, peers <- s3, joined <- s4, told <- s5, tickets <- s6, closing <- s7,
  granted <- s8, restarts <- s9, MaxRestarts <- MaxReboots
Model == INSTANCE Chat WITH
  settings <- s1, refuses <- s2, quirks <- s3, blocked <- s4, call <- s5, cache <- s6,
  calls <- s7, Callers <- Askers

Components == {"wallet", "draftRules", "bracketRules", "registration", "cup", "match",
               "league", "game", "club", "catalog", "riot", "access", "honours", "ranking",
               "verify", "world", "offline", "event", "office", "secrets", "live", "chat", "room"}

states == <<s1, s2, s3, s4, s5, s6, s7, s8, s9, s10, s11, s12>>
all == <<component, states, vars>>

\* The variables from the k-th on, which a component leaves over.
Zero(k) == /\ k <= 1 => s1 = 0
           /\ k <= 2 => s2 = 0
           /\ k <= 3 => s3 = 0
           /\ k <= 4 => s4 = 0
           /\ k <= 5 => s5 = 0
           /\ k <= 6 => s6 = 0
           /\ k <= 7 => s7 = 0
           /\ k <= 8 => s8 = 0
           /\ k <= 9 => s9 = 0
           /\ k <= 10 => s10 = 0
           /\ k <= 11 => s11 = 0
           /\ k <= 12 => s12 = 0

PlatformInit ==
  /\ Init
  /\ component \in Components \cap Chosen
  /\ \/ component = "wallet" /\ Zero(1)
     \/ component = "draftRules" /\ DraftPlan!Init /\ Zero(4)
     \/ component = "bracketRules" /\ CupPlan!Init /\ Zero(2)
     \/ component = "registration" /\ SignUp!Init /\ Zero(10)
     \/ component = "cup" /\ Cup!Init /\ Zero(9)
     \/ component = "match" /\ Match!Init /\ Zero(10)
     \/ component = "league" /\ League!Init /\ Zero(9)
     \/ component = "game" /\ Game!Init
     \/ component = "club" /\ Club!Init /\ Zero(4)
     \/ component = "catalog" /\ Roll!Init /\ Zero(7)
     \/ component = "riot" /\ Riot!Init /\ Zero(6)
     \/ component = "access" /\ Door!Init /\ Zero(10)
     \/ component = "honours" /\ Honours!Init /\ Zero(12)
     \/ component = "ranking" /\ Ranking!Init /\ Zero(7)
     \/ component = "verify" /\ Verification!Init /\ Zero(9)
     \/ component = "world" /\ Football!Init /\ Zero(7)
     \/ component = "offline" /\ Offline!Init /\ Zero(4)
     \/ component = "event" /\ Event!Init /\ Zero(3)
     \/ component = "office" /\ Office!Init /\ Zero(9)
     \/ component = "secrets" /\ Secret!Init /\ Zero(8)
     \/ component = "live" /\ Live!Init /\ Zero(10)
     \/ component = "chat" /\ Model!Init /\ Zero(8)
     \/ component = "room" /\ Room!Init /\ Zero(10)

PlatformNext ==
  /\ UNCHANGED component
  /\ \/ component = "wallet" /\ Next /\ UNCHANGED states
     \/ component = "draftRules" /\ DraftPlan!Next /\ UNCHANGED <<s4, s5, s6, s7, s8, s9, s10, s11, s12, vars>>
     \/ component = "bracketRules" /\ CupPlan!Next /\ UNCHANGED <<s2, s3, s4, s5, s6, s7, s8, s9, s10, s11, s12, vars>>
     \/ component = "registration" /\ SignUp!Next /\ UNCHANGED <<s10, s11, s12, vars>>
     \/ component = "cup" /\ Cup!Next /\ UNCHANGED <<s9, s10, s11, s12, vars>>
     \/ component = "match" /\ Match!Next /\ UNCHANGED <<s10, s11, s12, vars>>
     \/ component = "league" /\ League!Next /\ UNCHANGED <<s9, s10, s11, s12, vars>>
     \/ component = "game" /\ Game!Next /\ UNCHANGED vars
     \/ component = "club" /\ Club!Next /\ UNCHANGED <<s4, s5, s6, s7, s8, s9, s10, s11, s12, vars>>
     \/ component = "catalog" /\ Roll!Next /\ UNCHANGED <<s7, s8, s9, s10, s11, s12, vars>>
     \/ component = "riot" /\ Riot!Next /\ UNCHANGED <<s6, s7, s8, s9, s10, s11, s12, vars>>
     \/ component = "access" /\ Door!Next /\ UNCHANGED <<s10, s11, s12, vars>>
     \/ component = "honours" /\ Honours!Next /\ UNCHANGED <<s12, vars>>
     \/ component = "ranking" /\ Ranking!Next /\ UNCHANGED <<s7, s8, s9, s10, s11, s12, vars>>
     \/ component = "verify" /\ Verification!Next /\ UNCHANGED <<s9, s10, s11, s12, vars>>
     \/ component = "world" /\ Football!Next /\ UNCHANGED <<s7, s8, s9, s10, s11, s12, vars>>
     \/ component = "offline" /\ Offline!Next /\ UNCHANGED <<s4, s5, s6, s7, s8, s9, s10, s11, s12, vars>>
     \/ component = "event" /\ Event!Next /\ UNCHANGED <<s3, s4, s5, s6, s7, s8, s9, s10, s11, s12, vars>>
     \/ component = "office" /\ Office!Next /\ UNCHANGED <<s9, s10, s11, s12, vars>>
     \/ component = "secrets" /\ Secret!Next /\ UNCHANGED <<s8, s9, s10, s11, s12, vars>>
     \/ component = "live" /\ Live!Next /\ UNCHANGED <<s10, s11, s12, vars>>
     \/ component = "chat" /\ Model!Next /\ UNCHANGED <<s8, s9, s10, s11, s12, vars>>
     \/ component = "room" /\ Room!Next /\ UNCHANGED <<s10, s11, s12, vars>>

PlatformSpec == PlatformInit /\ [][PlatformNext]_all

-----------------------------------------------------------------------------
(* The properties of the components, by the names their modules explain.        *)

\* Of a draft: a fair order, everybody once against everybody on the allowed days, the
\* least next bid.
PlansAreSound ==
  component = "draftRules" => /\ DraftPlan!OrderIsFair /\ DraftPlan!EverybodyMeetsOnce
                              /\ DraftPlan!SeasonFitsTheCalendar /\ DraftPlan!MinimumBidIsLeast

\* The squads of a draft are what its picks say, one pick to a number and to a player.
SquadsAreTheirPicks == component = "room" => Room!SquadsAreTheirPicks

\* An invite lets one person in, once.
InviteAdmitsOne == [][component = "registration" => SignUp!ClaimsLast]_all

\* Of a cup: a bracket without gaps, fair groups and openers across groups are planned, and
\* table, bracket and eliminations tell the results, whatever was corrected on the way.
CupIsSound ==
  /\ component = "bracketRules" => /\ CupPlan!BracketIsSound /\ CupPlan!GroupsAreFair
                                  /\ CupPlan!OpenersAreAcrossGroups
  /\ component = "cup" => Cup!TableIsTheResults /\ Cup!BracketFollowsResults /\ Cup!TheEliminatedAreDone

\* A running tournament has something to play.
TournamentGoesOn == component = "cup" => Cup!TournamentGoesOn

\* The champion has won what decides his tournament.
ChampionHasWon == [][component = "cup" => Cup!CrownsTheWinner]_all

\* A match is counted once, whoever reports it.
OneResultCounts == component = "match" => Match!OneResultCounts

\* A match of the house starts with two whole teams, balanced ones of equal strength,
\* unless its start crossed a change of the queue.
TeamsAreFair == component = "league" => League!TeamsAreWhole /\ League!TeamsAreBalanced

\* A decided game of deduction is over.
NobodyPlaysOn == component = "game" => Game!NobodyPlaysOn

\* Totals and matches of one EA player are kept together.
TotalsMeetTheirPlayer == component = "club" => Club!TotalsMeetTheirPlayer

\* A sync takes out of the base only whom the list has left out.
OnlyTheMissingRest == [][component = "catalog" => Roll!RestsTheMissing]_all

\* The buckets hold the requests to Riot within twice their limits.
BurstsAreBounded == component = "riot" => Riot!BurstsAreBounded

\* "90 req / 2 min": they do not hold them within the limits (riot.service.ts).
TheLimitIsHeld == component = "riot" => Riot!TheLimitIsHeld

\* A blocked person is served no more.
BlockHoldsAtOnce == component = "access" => Door!BlockHoldsAtOnce

\* Achievements and MVPs are of those who earned them.
HonoursAreEarned == component = "honours" => Honours!HonoursAreEarned

\* The champions of a season are its own, unless two closings of it overlapped.
ChampionsAreOfTheirSeason == component = "ranking" => Ranking!ChampionsAreOfTheirSeason

\* A verification gives its account once.
VerificationIsUsedUp == component = "verify" => Verification!VerificationIsUsedUp

\* What a player becomes is explained by how he played.
ProgressIsEarned == component = "world" => Football!ProgressIsEarned

\* The lists behind the buttons of a Discord message stay sound.
ListsStaySound ==
  /\ component = "offline" => Offline!ListsStaySound
  /\ component = "event" => Event!OneAnswerEach

\* Who starts for a roster was put there by its last line-up.
StartersWereChosen == component = "office" => Office!StartersWereChosen

\* No stored secret is lost while the keys are rotated.
EveryValueOpens == component = "secrets" => Secret!EveryValueOpens

\* The host's page knows its viewers.
HostKnowsTheViewers == component = "live" => Live!HostKnowsTheViewers

\* Guests leave a live that became private.
PrivateLiveHasNoGuests == component = "live" => Live!PrivateLiveHasNoGuests

\* A call fails only after the reserve has been asked.
TheReserveIsAsked == component = "chat" => Model!TheReserveIsAsked

=============================================================================
