# Verification of ApiTimbas

TLA+ models of ApiTimbas, the NestJS API behind the TeamBahia Discord server, checked
with TLC and, where a property matters for every size of league, proved with TLAPS.
The source is under `src/`; paths below are relative to it. `PROJECT.json` maps every
definition that models code to the lines it translates and lists runs, mutants,
findings, hazards and theorems.

## 1. The system

ApiTimbas is one Node process (`src/main.ts`) with a PostgreSQL database reached through
Prisma. Requests of the web front end, buttons of the Discord bot and `@Cron` methods run
as asynchronous handlers of that process. A handler runs alone only between two `await`s,
and a transaction is READ COMMITTED unless the call says otherwise: almost every rule of
the program is "read, compare, then write", and most of what can go wrong happens between
the read and the write.

| Component | What it keeps | What is hard | What makes it correct | Modules |
|---|---|---|---|---|
| **draft/auction** (`draft-auction.service.ts`, `auction-rules.ts`) | leader, current bid, deadline, status | bids, cancellations and the cron race; refunds and deadlines computed from old reads | locked money is the leading bid; only an overtaken bid shortens a deadline; a due auction closes | `AuctionRules`, `AuctionHouse`, `DraftMarket` |
| **draft/market** (`draft-market.service.ts`) | owner of a player, offers, the window | two buyers of one player, an offer answered twice, a squad filled meanwhile | an offer is answered once and trades what both sides own | `DraftMarket` |
| **draft/budget** (`draft-budget.service.ts`) | cash columns and statement | concurrent debits | the statement explains the cash; only wages make a debt | `DraftBudget` |
| **draft/room and picks** (`draft.service.ts`, `draft-pick.service.ts`, `draft-order.ts`) | phase, current pick, rosters, picks, fixtures | two openings, two picks of one turn, absent rosters, a shrinking pool | picks follow the snake; squads are their picks; a started draft ends | `DraftOrder`, `DraftRules`, `DraftRoom` |
| **draft/season** (`draft-fixture.service.ts`, `draft-simulation.service.ts`) | matches, proofs, standings, rounds | approval and settlement apart; second proofs | standings and cash tell one season; the season ends | `DraftSeason` |
| **draft/office** (`draft.service.ts`) | settings, staff, tactics, line-ups | a line-up written after the market moved its players | who starts was chosen by his roster | `DraftOffice` |
| **tournament/registration** (`tournament.service.ts`, `tournament-access.service.ts`, `registration-window.scheduler.ts`) | window, owners, invites, teams | one invite read by several; a scheduler cut half way | an invite admits one person; a window that is over closes | `Registration` |
| **tournament/brackets and results** (`bracket.builder.ts`, `bracket-advance.ts`, `series.ts`, `tournament-result.service.ts`, `team-replacement.ts`) | matches, table, champion | corrections of what already advanced; walkovers through chains of empty matches | table, bracket and champion tell the results; a running tournament has something to play | `Bracket`, `BracketRules`, `Tournament` |
| **tournament/matches and proofs** (`tournament-match.service.ts`, `match-proof.service.ts`) | claim, audit, proposal, presence, proof and its lock | players, EA, proofs, the organisation and crons settle one match | a match counts once; a deadline decides; a proof is read | `TournamentMatch` |
| **games/deducao** (`deducao.room.ts`) | players, roles, bodies, meeting, tasks | drops and returns between any two messages, votes in the last moment | a decided game is over; a meeting ends | `Deducao` |
| **streaming** (`streaming.service.ts`) | rows, peers, event channels, tickets, grants | reconnections against the cleanup, a visibility change against guests, restarts | the host knows the viewers; a private live has no guests; an abandoned live ends | `Streaming` |
| **customLeagueMath** (`leagueMatch.service.ts`) | queue, teams, status | departures and draws between the reads and the writes of a start | a match starts with whole, fair teams, unless its start was crossed | `LeagueMatch` |
| **clash** (`scout-queue.service.ts`, `clash.service.ts`) | jobs in memory | one worker, failures, expiry, restart | what is asked for is answered | `ScoutQueue` |
| **economy** (`wallet.service.ts`) | balance, statement | movements outside a transaction | no wallet is overdrawn; the statement explains it | `Wallet` |
| **ea-fc-clubs** (`ea-fc-clubs.service.ts`) | matches, players, totals | one player known by id and by name, in any order | totals and matches of a player meet, but for rows without an id | `EaClubSync` |
| **player-catalog** (`catalog-sync.service.ts`, `player-catalog.service.ts`, `world-simulation.service.ts`) | folders, players, their form and level | syncs without a transaction, edits meanwhile, a round that fails half way | a sync rests only who is missing; progress is earned | `Catalog`, `World` |
| **football** (`development.ts`, `match-simulation.ts`) | nothing: pure | | line-ups whole, form within bounds | `World` |
| **auth and access** (`auth.service.ts`, `actor.service.ts`, `access/`, `ttl-cache.ts`, `cache-bus.service.ts`) | sessions, actors, permissions, three caches of promises | a read started before a change answers after it | a blocked person is served no more | `Access` |
| **verify** (`verify.service.ts`, `lol-verification.interaction.ts`) | pending and verified accounts | two confirmations at once beside an unlink | attempts bound the looks; an account is given once | `Verify` |
| **engagement** (`post-match.service.ts`, `achievement.service.ts`, `season.service.ts`) | achievements, ballots, seasons | flows of two matches overlap; a ranking older than the season; two closings at once | honours are earned; champions are of their season | `PostMatch`, `ServerRanking` |
| **discord and discordServer** (`offline-match.interaction.ts`, `event.interaction.ts`, `temporada.command.ts`) | lists in memory and in a file | a handler writes back a list it read before waiting for Discord | the lists stay sound | `OfflineMatch`, `EventAnswers` |
| **riot** (`riot.service.ts`) | token buckets, caches | queues for tokens, a full bucket that refills, retries of a 429 | bursts are bounded; the limit of the comment is not held | `RiotClient` |
| **leaderboard and playerStats** (`leaderboard.service.ts`) | a ranking kept five minutes | see engagement | | `ServerRanking` |
| **ai and score-reader** (`chat.client.ts`, `ai-settings.service.ts`, `ai.service.ts`) | settings, cooldown, refused parameters, caches | retries, the cooldown of other calls, the reserve | a call ends, and fails only after the reserve | `Chat` |
| **settings and feature flags** (`settings.service.ts`, `secret-cipher.ts`) | encrypted rows, keys | rewriting while keys are rotated, cut by a deploy | every stored value opens | `Secrets` |
| demo; common and prisma | | | | none (section 6) |

The draft leagues are the core: four services write the same rows (`DraftRoster`,
`DraftPlayer`, `DraftLeague`) from handlers and three cron jobs, money is involved, and no
test covers more than the pure functions. Its components meet in those rows: a pick and a
purchase both write `rosterId`, an auction, an offer and a settled round all write the
cash, the calendar opens and closes the transfer window, and the end of the draft creates
the fixtures the season plays. The tournament is the second core: its registration starts
what `Bracket` plans, an open match lives in `TournamentMatch` until it is decided, and
`Tournament` carries each decision on to the table, the bracket and the champion. The
other components meet these two through single calls, which their modules take as inputs.

## 2. How the code is modelled

In the draft every request or cron run is served by a *worker*. A **Check** step takes all the
reads of the handler and its guards and keeps what the handler keeps in local variables in
`req[w]`; a **Commit** step is its transaction: unconditional writes write what was computed
from the old reads (a bid also from the clock it read some time since), increments apply to the
row as it is, and the conditions that the database evaluates with the write (the `where` of an
`updateMany`, a unique key, a missing row) are guards of the Commit step. Where a handler
commits twice (presence and then a look at the room, approval and then settlement) there are as
many steps. `rollback(w)` ends a request at any point: an exception, a timeout, a restart. With
one worker requests are served one at a time; with two, every interleaving of the reads and
writes of two handlers is there.

Elsewhere the same idea has the name the module gives it: what a handler has read and will
write waits on a *desk* (`TournamentMatch`, `Registration`, `EaClubSync`, `Catalog`), in a
*call* or *request* (`Verify`, `Wallet`, `Access`, `Chat`, `RiotClient`), in a *job*
(`World`, `ScoutQueue`). A handler that reads and writes without an `await` between is one
step. In `Tournament` a handler is one step unless its kind is in `setup.stale`: then it may
read (`Read`), let others commit, and write what it had read; `overtaken` remembers the kinds
that wrote so after what they had read had changed. `LeagueMatch` keeps what each request has
read in `req` and remembers in `crossed` that somebody went, or a draw wrote, once a start had
read the match. What lives in memory is lost by a restart, where the module has one; rows are not.
Colyseus hands a room its messages one at a time, so each is a step of `Deducao`, apart
from the joins and leaves that wait.

Names are the source's. A definition that stands for a plausible bug is marked
`\* Mutant:` and stands before the definition it would replace.

### Modules

| Module | Models | State and actions |
|---|---|---|
| `AuctionRules` | `auction-rules.ts` | `minimumBid`, `extendedDeadline`: pure |
| `DraftBudget` | `draft-budget.service.ts` | an account is its cash columns and the sums of its statement by type; `credit`, `debit`/`canDebit`, `charge`, `transfer` |
| `DraftMarket` | auction, market and budget services on one league | players with their owner, auctions, offers, accounts, the window, a clock; two steps per handler |
| `AuctionHouse` | the promise of the comment over `DraftAuctionService`: "a liga segura o dinheiro do líder, devolve o de quem foi coberto" | who leads, with how much held; `Bid`, `Cancel`, `Sell`, `Delete` |
| `DraftOrder` | `draft-order.ts` | `pickCoordinate`, `roundRobinPairs`: pure |
| `DraftRules` | `draft-order.ts` | `nextMatchDates`: pure; and every input of the pure rules of the draft within bounds, with their references |
| `DraftRoom` | seats, presence, opening, picks, fixtures | phase, pick number, rosters, owners, picks, fixtures, whether the two clocks have run out |
| `DraftSeason` | results, proofs, settlement, cron | league, matches, proofs, standings, accounts, rounds due |
| `DraftOffice` | the owner's and the staff's overrides, tactics, line-ups | league, staff, formation, who owns and who starts, a line-up between its check and its write |
| `Bracket`, `BracketRules` | `bracket.builder.ts` | the plans of all formats; every tournament within bounds and what a plan must be |
| `Tournament` | `tournament-result.service.ts`, `bracket-advance.ts`, `series.ts`, `team-replacement.ts`, `start` | matches, table, champion; `settle`, walkovers, `correct`, `cancel`, `reopen`, replacement, groups to knockout |
| `TournamentMatch` | `tournament-match.service.ts`, `match-proof.service.ts` | the row of one match, a desk per person and cron, the proof with lock and attempts |
| `Registration` | `tournament.service.ts` before the start, its scheduler | cup, staff, teams, invites, a desk per person, the scheduler's own, restarts |
| `Deducao` | `deducao.room.ts`, `rules.ts`, `tasks.ts` | lobby, sessions, players, bodies, meeting, tasks and sabotage |
| `Streaming` | `streaming.service.ts` | row, live, peers, what the host was told, tickets, grants, a pending visibility change |
| `LeagueMatch` | `leagueMatch.service.ts` | queue, sides, status, the requests between their reads and writes; draws of all formats, start, finish, cancel, expiry |
| `ScoutQueue` | `scout-queue.service.ts`, the stages of `clash.service.ts` | jobs with their age, the queue, the stage of the running scout |
| `Wallet` | `wallet.service.ts` | wallets, statements and movements between their writes |
| `EaClubSync` | the sync of `ea-fc-clubs.service.ts` | imported matches, rows by id and by name, a sync per desk |
| `Catalog`, `World` | syncs, edits and estimates; the daily round | teams and players of one competition, row by row; form, average and level of two squads |
| `Access` | sessions, actors, permissions and their caches | the row of one person, token, three caches of promises, requests under way, a change |
| `Verify` | both verifications | icon, accounts, pending rows, calls between two awaits |
| `PostMatch`, `ServerRanking` | achievements and ballots; ranking and seasons | flows of matches under way; seasons, matches, the cached ranking and its readers |
| `OfflineMatch`, `EventAnswers` | the Discord lists | lists, remembered channels, handlers that wait |
| `RiotClient`, `Chat` | the two external clients | buckets, caches and calls; settings, blocks, calls with their attempts |
| `Secrets` | encrypted settings | rows with their key, keys of the process, reads and saves cut in two |
| `MCDraftMarket`, `MCDraftRoom`, `MCDraftSeason`, `MCCup` | | instances of one module |
| `Platform` | | twenty-three components, of which one runs; `MCPlatform` gives its constants small values |
| `MCJourneys` | | seven components that wait for somebody, see section 3 |
| `DraftMarketProofs`, `DraftRoomProofs`, `DraftSeasonProofs`, `DraftBudgetProofs` | | the theorems about the drafts (section 4) |
| `AccountProofs`, `CompetitionProofs`, `ServiceProofs` | | the proofs about the components of `Platform`, each by itself |
| `PlatformProofs` | | the theorems of `Platform`, taken over from those three |

`DraftMarket` composes `AuctionRules` and `DraftBudget`; `DraftSeason` uses `DraftBudget`,
`DraftRoom` uses `DraftOrder`, `Tournament` starts from the plans of `Bracket`. The abstract
`AuctionHouse` is instantiated in `DraftMarket` and checked as a property of it.

Abstractions, all of data: money and minutes are small naturals; a statement is the sum
per type of entry; a name, an image, a prompt, a description is left out; wages are a
constant of the round; a score is one of a few; a date is a round, an age or a flag; an
answer of EA, Riot, Discord or a language model is any it may give. Control is kept: every
guard that depends on the state, in order, and every write.

## 3. What is checked

| Run | Question |
|---|---|
| `market_serial` | one worker: do auctions, offers, purchases, releases and signings respect each other when nothing is concurrent? |
| `market_concurrent` | two workers: what survives every interleaving: the statement, the debt rule; when may a deadline be brought forward? |
| `market_bid_race` (violation) | two workers: is the locked money the leading bid under concurrency? It is not |
| `market_sold_from_seller` (violation) | one worker: is an auction's sale of the seller's player? It need not be |
| `room_serial` | one worker: order, complete squads, complete season, and the draft ends |
| `room_reopened` (violation) | two workers: can a draft start twice? It can |
| `season_serial` | one worker: do standings and cash agree, and does a simulated season end? |
| `season_double` (violation) | does a match count once? Not always |
| `platform` | twenty-three components: what must never happen in each of them? Among them the draft room with two workers: do squads and picks agree under every race? |
| `journeys` | seven components that wait for somebody: does what they start come to an end? |
| `riot_burst` (violation) | does a bucket of the Riot client hold the limit it is commented with? It does not |
| `cup_stuck` (violation) | does a double elimination of five teams go on to its champion? It does not |

`platform` and `journeys` each hold many components that share no state with each other:
the initial state chooses one, which then runs alone and is explored whole. The composite
adds nothing to a component: `Platform` says which variables `s1`, `s2`, ... stand for it
and with which constants, and gives its properties their names. It says nothing about two
components at a time, and is not meant to.

### Properties

*Market.* `PaidInIsTheLeadingBid`: what rosters paid into auctions and did not get back is
the sum of the leading bids. `AuctionsKeepTheirPromise`: every step of the market is a step
of `AuctionHouse`. `AcceptedOfferIsHonoured`: an offer is answered once, and accepted only
while both sides own what they trade. `SquadsChangeByRight`: no player leaves a roster that
did not give it up, and no squad grows past its size except in the one case the code allows
(an auction or an offer agreed on while there was room). `StatementExplainsBudget`,
`DebtIsWages` hold with two workers. `OnlyOvertakenBidsShorten`: a bid takes the time before
its conditional update, so a late one can bring the deadline forward, but only if another bid
on the auction committed in between. `EveryAuctionCloses` is liveness, of `journeys`.

*Room.* `PicksFollowTheOrder` relates each pick to the order drawn at the opening, and what the
last pick leaves behind to full squads and a full calendar. `SquadsAreTheirPicks` is what the
two unique keys of `DraftPick` keep true under concurrency (checked in `platform`). `DraftEnds`
is liveness: late, vacant and absent rosters do not stall the draft, unless a moderator deletes
more players than the draft can spare (the property says so).

*Season.* `StatementFollowsTable` ties the standing columns to the statement: the same
number of wins, draws and defeats explains both. `SeasonEnds` is liveness.

*Plans* (`PlansAreSound`). Each pure rule is compared with a reference that is not the
algorithm: everybody picks once in every round of a draft, a round robin makes every two
rosters meet once in as few rounds as possible, the calendar leaves out no allowed day, the
minimum bid is the least whole number that covers.

*Tournament.* `InviteAdmitsOne`: an invite stays with who claimed it first.
`CupIsSound`: as drawn, in a bracket every slot has one source, every match leads to the last
one and the two best seeds meet nowhere before it, in a group every two meet once a leg, and
the openers of a knockout are across groups; and after settling, correcting, cancelling,
reopening and replacing, the table adds up the decided matches, every slot of the bracket
holds who won his way there and the eliminated have nothing left to play. Each of these says
after which overtaken handlers it holds: the table after all but overlapping corrections and
forfeits, bracket and eliminations after an overtaken build only. `ChampionHasWon`;
`TournamentGoesOn` (a running tournament has a match to play, also after overtaken handlers
other than a correction). `OneResultCounts`: a match was counted once more than it
was reopened if it is decided, and as often otherwise, whoever settled it.

*The others.* `TeamsAreFair`, `NobodyPlaysOn`, `TotalsMeetTheirPlayer`,
`OnlyTheMissingRest`, `BurstsAreBounded`, `BlockHoldsAtOnce`, `WalletBalances`,
`HonoursAreEarned`, `ChampionsAreOfTheirSeason`, `VerificationIsUsedUp`, `ProgressIsEarned`,
`ListsStaySound`, `StartersWereChosen`, `EveryValueOpens`, `HostKnowsTheViewers`,
`PrivateLiveHasNoGuests`, `TheReserveIsAsked`: each is stated over its definition in the
module of its component. Where the code loses a race, the property says which one and that
nothing else breaks it: `TeamsAreFair` (a start that was crossed), `ChampionsAreOfTheirSeason`
(two closings that overlap), `StartersWereChosen` (a line-up overtaken by a sale),
`TotalsMeetTheirPlayer` (a row of a match without ids that took the totals).

*Liveness of `journeys`.* `EveryAuctionCloses`: an auction whose time is up is closed, whatever
the window does. `DeadlinesAreKept`: a registration whose window is over, a match
past its deadline, a meeting, a live nobody comes back to do not stay so.
`AwaitedIsDone`: a scout, a call to a model and the reading of a proof end. Two cases are
excepted in the properties because the code leaves them open: a match with both teams
present and a result already in somebody's hands (`LeftAlone`), and a proof whose third
reading a restart cuts (`Unread`).

Every property has a mutant: a definition of the model changed as a plausible bug would
change the code, under which TLC finds the property violated.

### Bounds, and why they suffice

*Drafts.* The races need two handlers, one object and two parties: two workers, two or three
rosters, one auction, two offers, two or three players. Bids run to 2, so that a first bid is
covered and given back and, in `market_concurrent`, a late one finds the deadline another has
extended; prices are chosen so that a roster can afford one thing and not two. `MaxTime`,
`MaxMatches`, `MaxTurnover`, `MaxPlayed` cap counters that grow for ever in the program.
`room_serial` uses three rows of which at most two can fill squads of two from a pool of four,
so the snake turns, a roster can leave and another take its place, and a deleted player can
make the pool too small. The season has two rounds, three rosters, one of them vacant, and one
proof, enough to settle a match twice, to approve late and to reject late. Rosters, players and
workers are permuted (symmetry) in safety runs only.

*`platform`.* Each component is as large as its hazard needs:

| Component | Bounds | What they let happen |
|---|---|---|
| draft and cup plans | nine rosters, all kinds of weeks; brackets to 10, 8 groups of 5 | byes, odd numbers, three rounds |
| registration | two people, one code, three requests | two who read one invite |
| room | two workers, two seats, one player each | two picks of one turn or one player, a deletion between |
| cup | twelve tournaments of every format, three scores, two changes (`MaxChanges`) | byes, series, draws, a correction of what advanced; settlements, corrections, forfeits, replacements and builds that others overtake (`stale`) |
| match | four kinds of rules, one person beside the crons (two where they send images), one proof, one reopening | every pair of a person, EA, a proof, the organisation, the deadline |
| league | four players and teams of one with two requests at once, teams of two with one; one departure | a departure or a draw that a start overtakes, balanced draws, a queue filled up again |
| game | three sessions, one drop, one game | the last of a side leaves, dies or is ejected |
| club | three people of whom two share a name, three matches, one anonymous | id after name, name after id, totals between |
| catalog | two teams, two names, two persists, one edit | a move between clubs, a sync over one cut half way |
| riot | two callers, buckets of 1 and 2, cache of 1 | both buckets empty, a burst of a full bucket and its refill, a retry, an eviction |
| access | two requests, one change | a read before the change, an answer after it |
| honours, ranking | two matches and their ballots; two seasons, two administrators, one reader | overlapping flows; a cached ranking of a closed season, two closings at once |
| verify | one account, one row, two calls, three attempts | two confirmations at the last attempt |
| wallet | two holders, two movements, two coins at most | two debits of one balance, a lost second write |
| world | two squads, two rounds, one failure | a round played again from half written rows |
| offline, event | three users with two waiting handlers; two guests | a list overwritten by an older one |
| office | two rosters, two players | a starter sold between check and write |
| secrets | three keys, two saves | two rotations around one rewriting |
| live (in `journeys` too) | two peers, two grants, one restart | a page replaced by its reconnection, a guest admitted while the live becomes private |
| calls to a model (in `journeys` too) | two callers, two calls, one retry | a cooldown another call prolongs, a refusal before the reserve is asked |

*`journeys`.* As above with a restart for registration and live, two peers and two grants of a
live, two scouts of a team of two, two callers of a model with one retry, three players in a
meeting, one auction with one bidder, a moderator and two requests at a time. The counters
named `Max...` cap what people may do, never what a timer or a cron does.

Deadlock checking is off in every configuration: a league, a match or a room that finished
has nothing left to do.

### Fairness

*Drafts.* Time passes and a round becomes due (weak fairness: a clock). A request in flight
ends, with its commit or its rollback (weak fairness: every handler has a timeout). The cron
jobs (`EVERY_MINUTE`, `EVERY_10_SECONDS`, `EVERY_5_MINUTES`) come back for ever and catch
and log their failures, so what a cron may do again and again is not passed over for ever
and its commit does not fail for ever (strong fairness of exactly those actions).

*`journeys`.* Of the market as above. Weak fairness of the scheduler of registrations (every
minute); of the cron of deadlines, of the writes it began, of the cron of proofs, of the age of
a lock and of the end of a reading; of time and the ticks of a room; of time and the cleanup of
lives (every five seconds); of the stages of a scout (its requests give up after their
retries); of the steps of a call to a model (every post has a timeout) and of the end of a
cooldown, with strong fairness of the step that waits for the cooldown other calls may prolong.
Only one component runs, so one condition over a step of each says the same as one condition
for each step; `MCJourneys` merges them in this way to keep the formula small.

No fairness is assumed of people: nobody has to bid, answer, pick, vote, claim or report.
`platform` checks safety and assumes none.

## 4. What is proved

Eight modules hold theorems and their lemmas. A theorem says that a specification keeps a
property for every value of its constants, from an inductive invariant that is stated beside
the proof. Where a
theorem needs more of a constant than the `ASSUME`s of the module say, it has the condition
as its hypothesis; the table at the end gives them all.

### The drafts

* `DraftBudgetProofs`: lemmas about one movement of cash, what it preserves of an account
  and what it adds to a statement. Both lines of proof about money rest on it.
* `DraftMarketProofs`, any number of workers. `MarketInvariant`: `TypeOK` and `Sound` are
  inductive. `Sound` says that the accounts are explained by their statements, and that what
  a request in flight remembers (an amount, a roster, a deadline) is of its kind and in the
  range its guards established. The type alone is not inductive, because a Commit step writes
  what a Check step remembered. `TypesAreKept`, `StatementIsExact`, `OnlyWagesMakeDebt`
  follow from it, and `DeadlinesShrinkOnlyByOvertakenBids`, an action property, from it and
  from what a bid in flight remembers of the deadline and the number of bids it read: a bid
  nobody overtook writes no less than the deadline that stands.
* `DraftMarketProofs`, one request at a time (the hypothesis that all workers are one).
  `SerialInvariant` adds to the types `Escrow` (what is locked in an auction is what its row
  says, and the row a request has seen is the current one) and `ReadsHold` (whatever a Check
  step established still holds when its Commit step comes: who owns, who is free, how many a
  squad has). From it: `SerialEscrow`, the locked money is the leading bid;
  `AuctionsImplementTheHouse`, the refinement: every step of the market is, for each auction,
  a step of `AuctionHouse` or leaves it alone; `OffersAreHonoured` and `SquadsAreRightful`, two
  action properties. `Escrow` is what fails with two workers, as `market_bid_race` shows.
* `DraftRoomProofs`. `PicksMakeTheSquads`, any number of workers: owners and picks agree
  because every commit writes both and the two unique keys are conditions of the commit
  itself. `PicksInOrder`, one request at a time: the invariant is in stages (no picks in
  SETUP; in DRAFTING as many picks as the number says, each of the roster whose turn it was;
  in ACTIVE all of them and the season) and says that a request in flight is up to date.
  Two counts are the heart of it. A roster has one turn in each round of the snake, so that
  as many picks as there are turns leave every squad full (`Turn` is a permutation of the
  league in every round, by the arithmetic of `pickCoordinate`); and the fixtures of the
  circle method pair every two rosters once (`roundRobinPairs` written without recursion).
* `DraftSeasonProofs`, `SeasonInvariant`: `TypeOK`, `ReviewedIsWritten` and
  `StatementFollowsTable` are inductive together, for any number of workers and any league
  (`SeasonAssumption`: a match is between two rosters, prices and wages are natural).
  `ReviewedIsWritten` (a proof under review is a row) is what types the match a review goes
  on to settle. A settlement adds one result to each side and, from the same score in the
  same transaction, its reward and wages: `PlayedAddsUp`, `PlayedOwed` and `SettledEntries`
  say that both grow by the same. `SeasonTypes` and `BooksFollowResults` follow, so a match
  settled twice (`season_double`) still leaves books that agree with each other.

### The components of the platform

A component is proved about by itself, over variables with its own names: `AccountProofs`
(`Verify`, `Access`, `Secrets`), `CompetitionProofs` (`Registration`, `TournamentMatch`,
`ServerRanking`, `LeagueMatch`, `World`, `DraftRules`) and `ServiceProofs` (`PostMatch`,
`OfflineMatch`, `EventAnswers`, `DraftOffice`, `RiotClient`, `Catalog`, `EaClubSync`,
`Deducao`, `Streaming`, `Chat`). Each part of these modules has the same shape: an invariant
`...Inv`, the lemmas `...Init` and `...Step`, by which it holds at the beginning and after
every step, and `...Shows`, by which it implies the property. `PlatformProofs` instantiates
them over `s1`, `s2`, ...; for each component a lemma `...IsTheSame` says that the instance in
`Platform` and the one that was proved about are the same Init and Next, and a theorem takes
the invariant over: while the component runs it is kept, and another never becomes that
component.

| Theorem | Property | What the invariant adds, and why it is needed |
|---|---|---|
| `WalletsBalance` | `WalletBalances` | a movement between its two writes is of a holder; `missing` counts the movements whose line is still to be written or was lost by a write that failed, and the statement explains the balance up to those |
| `VerificationServesOnce` | `VerificationIsUsedUp` | the looks taken and those of calls that counted their attempt and are still to look stay together below the maximum; a pending row has not given its account |
| `BlockedAreShutOut` | `BlockHoldsAtOnce` | whom the row does not let in, no session kept in the cache lets in either, but while a review has written the row and not yet forgotten the caches; a request begun after the block waits for a session that will not let it pass, and nobody is about to approve |
| `SecretsOpen` | `EveryValueOpens` | what was read since the last deploy without an error is in the clear or under the primary key, and what is being read is so up to the rewrites still to come: so an old key may be dropped. `RetireOldKeys` waits until every value has been read since the deploy, which is more than the one deploy the comment asks for: a value nobody reads in that deploy is not migrated, and the key must stay |
| `ClaimedInviteStays` | `InviteAdmitsOne` | invites are typed and who is about to join has one; the rest is the condition of the claim in the database |
| `ResultCountsOnce` | `OneResultCounts` | what may wait on a desk: no write but a settlement or a walkover decides a match, and both claim the row |
| `SeasonsAreClosedRight` | `ChampionsAreOfTheirSeason` | what is kept or being read counts finished matches since the season it is kept under; a closing remembers the season its ranking was read for and which was the last, and where both are the one it closes its champions are of that season; a lone command finds it so and nothing changes under it |
| `HonoursGoToWhoEarnedThem` | `HonoursAreEarned` | votes are for winners; the flow of the last match, unless a read of it failed, has written what each player it is past had earned, and remembers for the one it is at what is still to be unlocked |
| `ListsAreSound` | `ListsStaySound` | a handler that waits holds a list that is sound in itself, since it will replace the one that is there |
| `StartersAreChosen` | `StartersWereChosen` | a starter is on the list and, unless a line-up overtaken by his departure set him, on a roster whose last line-up has him; so also a free player who starts can only be an overtaken one |
| `RequestBurstsAreBounded` | `BurstsAreBounded` | a meter of each bucket: whoever was given a token, he and all who were given one since and the tokens left are no more than a full bucket and the refill of the time between |
| `TheListedStay` | `OnlyTheMissingRest` | whom a running sync has saved bears its instant, unless a hand has moved somebody meanwhile |
| `TotalsAreTakenOver` | `TotalsMeetTheirPlayer` | a row's key and name are those of a player, of a stored match without ids or of the totals, a player has no totals row beside his own, and the totals of a name are on one row; what a sync has read of the rows is what they are |
| `DecidedGamesAreOver` | `NobodyPlaysOn` | sessions in the room are sessions that were let in, and seats have a role and a life; a game begins undecided, who joins decides nothing, and whatever kills or removes looks whether that was the end |
| `TheHostIsTold` | `HostKnowsTheViewers` | the types of live, row and peers; a room without a live is empty; a page has its number from a counter, so a new one is nobody who was already in the room |
| `GuestsLeaveAPrivateLive` | `PrivateLiveHasNoGuests` | the same, and a live that is open has its row |
| `NoCallGivesUpEarly` | `TheReserveIsAsked` | a call with the reserve to fall back on is with the primary and has not failed, or is with the reserve after the primary refused it |
| `TeamsStartFair` | `TeamsAreFair` | nobody is in a queue twice; a full queue in which everybody has a side was drawn as it is; what a request has read still stands unless it was crossed, so a start that is under way has two whole, balanced teams before it or makes them; teams about to be written are a balanced draw of whomever they still reach |
| `ProgressIsExplained` | `ProgressIsEarned` | a round that is under way holds rows that may be older than the players' own, and what such a row has seen the player has seen too |
| `PlansHold` | `PlansAreSound` | the types of what is planned; the rest is what the four rules compute |

Three of them rest on what an algorithm computes and not only on what its steps keep
(the end of `CompetitionProofs`):

* *Sums over a set.* A `FoldSet` of the community modules picks its elements by `CHOOSE`.
  `SetInduction` does without the library's induction theorems, whose operator no prover here
  can instantiate: the claim is a set of subsets, the sizes at which it may fail have a least
  one (`WFMin`, which takes no operator), and there it holds after all. From it come
  `Recursion`, that a fold over a finite set is a function of the set, and `SumTakesOut`, that
  any element may be taken out first. On them rest the balanced draw, where a player joins the
  lighter side and so the difference never exceeds the best score seen, and the mean of a
  player's ratings.
* *The fixtures.* With N places, one of them fixed, the others stand in a circle that turns
  by one place a round. Two who both turn are opposite in the round r with
  i + j = -2r modulo N - 1; that has one solution among the N - 1 rounds, since N - 1 is
  odd. The fixed one meets i in the round that turns i opposite to him.
* *The calendar.* The walk over 7 times as many days as there are rounds keeps the allowed
  ones in order until it has enough of them. By induction over the days its list is what is
  allowed among those seen, or is full; seven days in a row hold one of every weekday, so it
  fills.

The proofs found three things about the models themselves. `TotalsMeetTheirPlayer` is not kept
by two synchronisations of one club (section 6), so the theorem says so in its hypothesis;
`NobodyPlaysOn` needs at least three players, because with two a killer has won before
the game begins; and `TeamsAreFair` is about balanced draws by scores that are nowhere
negative (section 6), which is how the property is stated and run now.

### Hypotheses

| Theorem | Assumes of the constants | Why the code justifies it |
|---|---|---|
| every theorem about the drafts | the `ASSUME` of its module: constants are of their kind, rosters are finite, money and minutes are natural | integer columns |
| `SerialEscrow`, `SerialInvariant`, `AuctionsImplementTheHouse`, `OffersAreHonoured`, `SquadsAreRightful`, `PicksInOrder` | all workers are one | it does not: with two handlers the money, a sale and an opening really go wrong (section 5). They say what the code does when it is not overtaken |
| `VerificationServesOnce` | finitely many calls, `MAX_ATTEMPTS` at least 1 | the code has 3 |
| `BlockedAreShutOut` | requests are numbered from 1 | a name for the order in which they come |
| `SecretsOpen` | credentials are a sequence | a list in the code |
| `SeasonsAreClosedRight` | `MaxSeasons` is natural, readers are no administrators | a bound of the model; two names for two kinds of requests |
| `HonoursGoToWhoEarnedThem` | the two teams are sequences, `MaxFinished` is natural | lists of players |
| `ListsAreSound` | `playersPerTeam` is natural, people are finite | a number of the command |
| `StartersAreChosen` | no roster is called free or absent | values that stand for NULL and for a deleted row |
| `RequestBurstsAreBounded` | a bucket holds at least one token and its window has at least one tick | 18 in a second, 90 in two minutes |
| `TotalsAreTakenOver` | one synchronisation at a time | the scheduler awaits each club and never overlaps itself; a synchronisation by hand beside it is outside the theorem |
| `DecidedGamesAreOver` | at least three players, no administrator in the room, finitely many tasks | the code asks for four; an administrator may start with fewer, to try a map, and that game is decided from its start |
| `TeamsStartFair` | a team has at least one player, scores are integers | one of the formats of the code; points of a ranking |
| `ProgressIsExplained` | ratings and quotas are natural, a line-up of at least one with room for a goalkeeper, squads are lists without repetition | tenths of the engine's rating; 11 in the quota 1-4-3-3; ids of a roster's players |
| `PlansHold` | weekdays are 0 to 6, percentages natural | the enums and checks of the draft's settings |

### Only model-checked

* Liveness (`EveryAuctionCloses`, `DraftEnds`, `SeasonEnds`, `DeadlinesAreKept`,
  `AwaitedIsDone`, `ChampionHasWon` under its fairness): out of the prover's reach.
* `CupIsSound`. The bracket is what the generators of each format, the passes of the walkovers
  and sorts by `SetToSortSeq` make of a size, checked for each size up to the bound; the
  walks along it are themselves bounded (12 levels, 16 passes), enough for those sizes, so
  for every size it would not even hold as it is written.
* `TournamentGoesOn` does not hold for every value of the constants: `cup_stuck` is the
  counterexample. `platform` checks it on tournaments where it does.
* `ChampionHasWon`: rests on the shape of the bracket, like `CupIsSound`.

## 5. Findings

* `market_bid_race`: `cancel()` and `bid()` refund the leader they read before their
  transaction; a bid that commits in between is never refunded.
* `market_sold_from_seller`: an auction closes on a player the seller no longer owns, and
  pays the seller.
* `room_reopened`: `openDraft` does not look at the phase again; the second of two openings
  puts the pick number back to 0 after picks were made, and then every pick is refused by
  the unique key.
* `season_double`: a settlement does not look at the status of the match; a match simulated
  by hand or a second proof approved counts it twice.
* `riot_burst`: a bucket starts full and refills while it is spent, so its first window lets
  through its size and a refill more: up to 179 requests in two minutes where the comment
  (`riot.service.ts:58`) has 90, below a limit of 100 "without ever hitting a 429".
* `cup_stuck`: `resolveWalkovers` runs only at the start and after the groups, and takes a
  pending match that nobody can ever reach for one that will still send somebody; a double
  elimination of five teams leaves two matches of the losers waiting for ever.

## 6. Not modelled, and why

*No module.* `demo` is one script of inserts without a rule of its own. `common` and
`prisma` are wiring; the isolation of PostgreSQL is in the steps of every module, and the
caches of `common` are in `Access`.

*Left out of a module.* The match engine of `football` and the market value (floating
point); the map, the movement and the cooldowns of `deducao` (geometry and wall time: a
target is in reach or not, a cooldown is over or not); text and voice; what is posted in
Discord; LiveKit; the scraping and parsing of the catalogue's sources and of EA's answers;
the contents of prompts and answers; the statistics of players, clubs and servers, which are
arithmetic over rows nobody writes there; passwords, OAuth and profiles; feature flags, one
boolean a row, which the models take as a choice; the layout of the award cards, a third user
of the encrypted settings (`award-card-settings.service.ts:67`, `:79`) that overwrites one row
with what it had read; read-only boards.

*Hazards no property covers.*
* Draft: two `create()` of an auction for one player (`draft-auction.service.ts:82`); a
  seller and an actor both without a roster compare equal (`:176`); deleting a free agent
  deletes its open auction and the leader's locked bid (`draft.service.ts:328`); two users
  take over one vacancy (`draft.service.ts:214`); the owner's update may put any phase back
  (`draft.service.ts:92`); two settlements of disjoint matches at the same moment can each
  miss the other and leave the league unfinished (`draft-fixture.service.ts:638`; the steps
  are in `DraftSeason`, but `SeasonEnds` is checked with one worker, as the cron settles one
  match after another).
* Tournament: every handler checks before its transaction and at most claims the status in it.
  The model has these races (`stale`), and the properties except what the code loses by them:
  two corrections or forfeits that overlap give the same result back twice; a settlement decides
  a match that a rebuild has emptied or a replacement has cleared, a replacement clears a
  match whose winner has gone on; a correction of a match that was cleared may be the last of
  the groups, which seats no knockout. The scheduler's catch writes
  DRAFT over whatever the status is by then, also over RUNNING; a claim looks at the invite's
  claimer only, not again at its revocation or at the registration being open; a proof whose
  third reading a restart cuts stays unread.
* Lobby: a departure or a draw that read a waiting queue writes after a start had read it
  (`leagueMatch.service.ts:541`, `:826`, `:601`): the match begins, or goes on, with a team short or
  without teams. In the model (`crossed`); `TeamsAreFair` says that only this breaks it.
* Lobby: a score can be negative (`leaderboard.service.ts:192`: twice the wins less the losses),
  and then the draw gives the next player to a side that each one makes lighter still
  (`leagueMatch.service.ts:891`): four players of -1, -1, -20, -20 are not drawn as evenly as
  they could be. `TeamsAreBalanced` states what holds without negative scores.
* Clients: a retry of a 429 takes no token; a rewriting of a secret may put an old value over
  one saved meanwhile.
* Seasons: a second `/temporada` that begins before the first has ended may close the new season
  with the ranking of the old one (`season.service.ts:28`). In the model (`overlapped`);
  `ChampionsAreOfTheirSeason` says that only this does.
* Office: a line-up is checked and written later (`draft.service.ts:400`, `:411`); whom the market
  has moved meanwhile then starts for a roster that did not choose him. In the model (`overtaken`).
* Catalogue: a round of the world that failed half way counts its first matches twice; two
  syncs at the same time (`Catalog` runs one at a time) may each rest whom the other found.
* Live: guests stay if the write of the visibility fails.
* Clubs: a match without ids stores a row by name; if it is the only one of that name it takes
  the totals (`ea-fc-clubs.service.ts:1084`) and nobody takes it over when the player comes with
  his id. In the model; `TotalsMeetTheirPlayer` says that only this keeps the two apart.
* Clubs: two synchronisations of one club, by the scheduler and by hand, may overlap; then
  the totals written from older reads stand beside a row the matches have just brought
  (`ea-fc-clubs.service.ts:1049`). `platform` and the theorem have one at a time.
* Room: the size of a squad is counted before its pick is written (`draft-pick.service.ts:233`);
  that none outgrows it is checked and proved with one request at a time.

## 7. What is left

* The types of `Tournament` as a theorem, and from them `ChampionHasWon` and the part of
  `CupIsSound` that is about the table, over any bracket whose matches lead to its last.
* An abstract match that is decided once, with `TournamentMatch` shown to implement it, and
  `Tournament` composed with it: today a settlement is one input of `Tournament`.
* `DraftRoom` composed with `DraftMarket` and `DraftSeason` over one league's cash.
* The hazards of section 6 that are races of two handlers of one component, each as a run of
  two workers.
