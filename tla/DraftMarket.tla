------------------------------- MODULE DraftMarket ------------------------------
(* The transfer market of one draft league: auctions (DraftAuctionService),     *)
(* offers, releases and signings (DraftMarketService) and the cash behind them  *)
(* (DraftBudgetService).                                                        *)
(*                                                                              *)
(* A request is two steps.  Its Check step evaluates every read and every guard *)
(* and keeps in req[w] what the handler keeps in local variables; its Commit    *)
(* step makes the writes of the transaction visible at once.  PostgreSQL runs   *)
(* these transactions at READ COMMITTED, so nothing read in the Check step is   *)
(* protected until the Commit step: only what an UPDATE re-evaluates (the WHERE *)
(* of debit(), the increments, a foreign or unique key) is current there.       *)
(* Workers bounds the requests and cron runs in flight: one worker serves them  *)
(* serially, two give every interleaving of two handlers.                       *)
EXTENDS Integers, FiniteSets, DraftBudget, AuctionRules

CONSTANTS
  Workers,        \* requests in flight at a time
  Rosters,        \* DraftRoster rows of the league
  Owners,         \* the rosters that have a user; the others are vacant
  Guests,         \* users of the platform without a roster in the league
  Moderators,     \* users with canModerate
  Players,        \* DraftPlayer rows and the catalog players that can become one
  BasePlayers,    \* those that start in the catalog only
  Auctions, Offers,              \* rows that may be created
  None, Outside,                 \* SQL NULL; "no row in this league"
  RosterSize, StartingBudget,
  Price,          \* [Players -> Nat]
  Salary,         \* salary of every player
  RoundRewards,   \* coinsWin, coinsDraw, coinsLoss as <<home, away>> pairs
  StartingBids, MaxBid, OfferPrices,     \* inputs of the requests
  IncrementPercent, AuctionHours, AntiSnipe,
  MaxTime, MaxMatches, MaxTurnover       \* bounds: clock, matches, money moved

Users      == Owners \cup Guests
NullRoster == Rosters \cup {None}

ASSUME MarketAssumption ==
  /\ Owners \subseteq Rosters /\ Guests \cap Rosters = {}
  /\ None \notin Rosters /\ Outside \notin NullRoster /\ None \notin Players
  /\ Moderators \subseteq Users /\ BasePlayers \subseteq Players /\ IsFiniteSet(Players)
  /\ RosterSize \in Nat /\ StartingBudget \in Nat /\ Salary \in Nat
  /\ Price \in [Players -> Nat]
  /\ RoundRewards \subseteq Nat \X Nat
  /\ StartingBids \subseteq Nat \ {0} /\ OfferPrices \subseteq Nat
  /\ {IncrementPercent, AuctionHours, AntiSnipe, MaxBid, MaxTime, MaxMatches, MaxTurnover} \subseteq Nat

VARIABLES
  league,     \* [status, transferWindowOpen] of DraftLeague
  played,     \* matches settled so far
  owner,      \* DraftPlayer.rosterId, Outside when there is no row
  account,    \* the cash columns and the statement of every roster
  auctions,   \* DraftAuction rows
  paidIn,     \* AUCTION_BID minus AUCTION_REFUND entries, by auction and roster
  offers,     \* TransferOffer rows
  now,        \* the clock, in hours
  req         \* what each request in flight has read

market == <<league, played>>
vars   == <<league, played, owner, account, auctions, paidIn, offers, now, req>>

NoAuction == [status |-> "NONE", player |-> None, seller |-> None, startingBid |-> 0,
              currentBid |-> 0, bidCount |-> 0, leader |-> None, endsAt |-> 0]
NoOffer   == [status |-> "NONE", kind |-> "SWAP", player |-> None, from |-> None,
              to |-> None, offered |-> None, price |-> 0]
Idle      == [op |-> "idle"]

MarketOpen     == league.status = "ACTIVE" /\ league.transferWindowOpen
InLeague       == {p \in Players : owner[p] # Outside}
Squad(r)       == {p \in Players : owner[p] = r}
squadSize(r)   == Cardinality(Squad(r))
RosterOf(u)    == IF u \in Owners THEN u ELSE None
CanModerate(u) == u \in Moderators
Exists(row)    == row.status \notin {"NONE", "DELETED"}

\* The season starts when the last pick fills the last roster.
Init ==
  /\ league = [status |-> "ACTIVE", transferWindowOpen |-> TRUE]
  /\ played = 0
  /\ owner \in [Players -> Rosters \cup {None, Outside}]
  /\ \A p \in Players : owner[p] = Outside <=> p \in BasePlayers
  /\ \A r \in Rosters : squadSize(r) = RosterSize
  /\ account = [r \in Rosters |-> Seeded(StartingBudget)]
  /\ auctions = [a \in Auctions |-> NoAuction]
  /\ paidIn = [a \in Auctions |-> [r \in Rosters |-> 0]]
  /\ offers = [o \in Offers |-> NoOffer]
  /\ now = 0
  /\ req = [w \in Workers |-> Idle]

Receive(w, r) == req[w] = Idle /\ req' = [req EXCEPT ![w] = r]
                 /\ UNCHANGED <<market, owner, account, auctions, paidIn, offers, now>>
\* A request that will move money, as long as the bound on the statements allows it.
Trade(w, r) == /\ \A x \in Rosters : account[x].earned + account[x].spent < MaxTurnover
               /\ Receive(w, r)
Reply(w)      == req' = [req EXCEPT ![w] = Idle]
Serving(w, o) == req[w].op = o
-----------------------------------------------------------------------------
(* Auctions                                                                     *)

createAuctionCheck(w) ==
  \E u \in Users, p \in InLeague, bid \in StartingBids :
    /\ MarketOpen
    /\ \A a \in Auctions : ~(auctions[a].status = "OPEN" /\ auctions[a].player = p)
    /\ CanModerate(u) \/ (owner[p] # None /\ owner[p] = RosterOf(u))
    /\ Receive(w, [op |-> "createAuction", player |-> p, seller |-> owner[p],
                   startingBid |-> bid])

createAuctionCommit(w) ==
  /\ Serving(w, "createAuction") /\ req[w].player \in InLeague
  /\ \E a \in Auctions :
       /\ auctions[a].status = "NONE"
       /\ auctions' = [auctions EXCEPT ![a] =
            [NoAuction EXCEPT !.status = "OPEN", !.player = req[w].player,
                              !.seller = req[w].seller, !.startingBid = req[w].startingBid,
                              !.endsAt = now + AuctionHours]]
  /\ Reply(w)
  /\ UNCHANGED <<market, owner, account, paidIn, offers, now>>

bidCheck(w) ==
  \E r \in Owners, a \in Auctions, amount \in 1..MaxBid :
    LET seen == auctions[a] IN
    /\ MarketOpen
    /\ seen.status = "OPEN" /\ seen.endsAt > now
    /\ seen.seller # r /\ seen.leader # r
    /\ squadSize(r) < RosterSize
    /\ amount >= minimumBid(seen.currentBid, seen.startingBid, seen.bidCount, IncrementPercent)
    /\ Trade(w, [op |-> "bid", by |-> r, auction |-> a, amount |-> amount, seen |-> seen,
                 since |-> now])

\* Mutant: the covered bid is not given back.
bidCommitWithoutRefund(w) ==
  LET q == req[w]
      a == q.auction
  IN
  /\ Serving(w, "bid") /\ Exists(auctions[a])
  /\ canDebit(account, q.by, q.amount)
  /\ account' = debit(account, q.by, q.amount, "AUCTION_BID")
  /\ paidIn'  = [paidIn EXCEPT ![a][q.by] = @ + q.amount]
  /\ auctions' = [auctions EXCEPT ![a].currentBid = q.amount, ![a].leader = q.by,
                                  ![a].bidCount = @ + 1]
  /\ Reply(w)
  /\ UNCHANGED <<market, owner, offers, now>>

\* The refund and the deadline come from the auction read in the Check step.  The clock
\* is read somewhere between that step and the UPDATE, which may wait for a lock.
bidCommit(w) ==
  LET q == req[w]
      a == q.auction
  IN
  /\ Serving(w, "bid") /\ Exists(auctions[a])
  /\ canDebit(account, q.by, q.amount)
  /\ LET paid   == debit(account, q.by, q.amount, "AUCTION_BID")
         placed == [paidIn EXCEPT ![a][q.by] = @ + q.amount]
     IN IF q.seen.leader = None
        THEN account' = paid /\ paidIn' = placed
        ELSE /\ account' = credit(paid, q.seen.leader, q.seen.currentBid, "AUCTION_REFUND")
             /\ paidIn'  = [placed EXCEPT ![a][q.seen.leader] = @ - q.seen.currentBid]
  /\ \E at \in q.since..now :
       auctions' = [auctions EXCEPT ![a].currentBid = q.amount, ![a].leader = q.by,
                                    ![a].bidCount = @ + 1,
                                    ![a].endsAt = extendedDeadline(q.seen.endsAt, at, AntiSnipe)]
  /\ Reply(w)
  /\ UNCHANGED <<market, owner, offers, now>>

\* isSeller compares two columns that may both be NULL.
cancelAuctionCheck(w) ==
  \E u \in Users, a \in Auctions :
    LET seen == auctions[a] IN
    /\ seen.status = "OPEN"
    /\ CanModerate(u) \/ (seen.seller = RosterOf(u) /\ seen.bidCount = 0)
    /\ Receive(w, [op |-> "cancelAuction", by |-> u, auction |-> a, seen |-> seen])

cancelAuctionCommit(w) ==
  LET q == req[w]
      a == q.auction
  IN
  /\ Serving(w, "cancelAuction") /\ Exists(auctions[a])
  /\ IF q.seen.leader = None
     THEN UNCHANGED <<account, paidIn>>
     ELSE /\ account' = credit(account, q.seen.leader, q.seen.currentBid, "AUCTION_REFUND")
          /\ paidIn'  = [paidIn EXCEPT ![a][q.seen.leader] = @ - q.seen.currentBid]
  /\ auctions' = [auctions EXCEPT ![a].status = "CANCELLED", ![a].leader = None,
                                  ![a].currentBid = 0]
  /\ Reply(w)
  /\ UNCHANGED <<market, owner, offers, now>>

\* Mutant: the cron skips the leagues whose window is closed.
closeCheckInWindow(w, a) ==
  /\ MarketOpen /\ auctions[a].status = "OPEN" /\ auctions[a].endsAt <= now
  /\ Receive(w, [op |-> "close", auction |-> a, seen |-> auctions[a]])

\* The minute cron: neither the league nor the window is consulted.
closeCheck(w, a) ==
  /\ auctions[a].status = "OPEN" /\ auctions[a].endsAt <= now
  /\ Receive(w, [op |-> "close", auction |-> a, seen |-> auctions[a]])

closeWithoutBids(w) ==
  /\ Serving(w, "close") /\ req[w].seen.leader = None
  /\ Exists(auctions[req[w].auction])
  /\ auctions' = [auctions EXCEPT ![req[w].auction].status = "EXPIRED"]
  /\ Reply(w)
  /\ UNCHANGED <<market, owner, account, paidIn, offers, now>>

CancelPending(p, keep) ==
  [o \in Offers |-> IF offers[o].player = p /\ offers[o].status = "PENDING" /\ o \notin keep
                    THEN [offers[o] EXCEPT !.status = "CANCELLED"] ELSE offers[o]]

closeSold(w) ==
  LET q == req[w]
      s == q.seen
  IN
  /\ Serving(w, "close") /\ s.leader # None
  /\ Exists(auctions[q.auction])
  /\ owner' = [owner EXCEPT ![s.player] = s.leader]
  /\ account' = IF s.seller = None THEN account
                ELSE credit(account, s.seller, s.currentBid, "AUCTION_SALE")
  /\ offers' = CancelPending(s.player, {})
  /\ auctions' = [auctions EXCEPT ![q.auction].status = "SOLD"]
  /\ Reply(w)
  /\ UNCHANGED <<market, paidIn, now>>
-----------------------------------------------------------------------------
(* Offers between rosters                                                       *)

createOfferCheck(w) ==
  \E r \in Owners, p \in InLeague, price \in OfferPrices :
    \E kind \in {"BUY_FROM_ROSTER", "SWAP"}, offered \in Players \cup {None} :
      /\ MarketOpen
      /\ owner[p] \notin {r, None}
      /\ kind = "BUY_FROM_ROSTER" => squadSize(r) < RosterSize /\ offered = None
      /\ kind = "SWAP" => offered \in Squad(r)
      /\ Trade(w, [op |-> "createOffer",
                   row |-> [status |-> "PENDING", kind |-> kind, player |-> p, from |-> r,
                            to |-> owner[p], offered |-> offered, price |-> price]])

createOfferCommit(w) ==
  /\ Serving(w, "createOffer") /\ req[w].row.player \in InLeague
  /\ \E o \in Offers : /\ offers[o].status = "NONE"
                       /\ offers' = [offers EXCEPT ![o] = req[w].row]
  /\ Reply(w)
  /\ UNCHANGED <<market, owner, account, auctions, paidIn, now>>

\* respond(): the window is checked for both answers.
rejectCheck(w) ==
  \E o \in Offers :
    /\ MarketOpen /\ offers[o].status = "PENDING" /\ offers[o].to \in Owners
    /\ Receive(w, [op |-> "reject", offer |-> o])

\* Mutant: the transaction trusts the offer and does not read the player again.
acceptCheckTrusting(w) ==
  \E o \in Offers :
    /\ MarketOpen /\ offers[o].status = "PENDING" /\ offers[o].to \in Owners
    /\ Receive(w, [op |-> "accept", offer |-> o])

acceptCheck(w) ==
  \E o \in Offers :
    /\ MarketOpen /\ offers[o].status = "PENDING" /\ offers[o].to \in Owners
    /\ owner[offers[o].player] = offers[o].to
    /\ offers[o].kind = "SWAP" => owner[offers[o].offered] = offers[o].from
    /\ Receive(w, [op |-> "accept", offer |-> o])

\* cancel() of an offer asks for no open window.
withdrawCheck(w) ==
  \E o \in Offers :
    /\ offers[o].status = "PENDING"
    /\ Receive(w, [op |-> "withdraw", offer |-> o])

\* update({ where: { id } }): the status is not part of the WHERE.
rejectCommit(w) ==
  /\ Serving(w, "reject") /\ Exists(offers[req[w].offer])
  /\ offers' = [offers EXCEPT ![req[w].offer].status = "REJECTED"]
  /\ Reply(w)
  /\ UNCHANGED <<market, owner, account, auctions, paidIn, now>>

withdrawCommit(w) ==
  /\ Serving(w, "withdraw") /\ Exists(offers[req[w].offer])
  /\ offers' = [offers EXCEPT ![req[w].offer].status = "CANCELLED"]
  /\ Reply(w)
  /\ UNCHANGED <<market, owner, account, auctions, paidIn, now>>

acceptCommit(w) ==
  LET o == req[w].offer
      t == offers[o]
  IN
  /\ Serving(w, "accept") /\ Exists(t)
  /\ canDebit(account, t.from, t.price)
  /\ account' = transfer(account, t.from, t.to, t.price)
  /\ owner' = [p \in Players |-> IF p = t.player THEN t.from
                                 ELSE IF p = t.offered THEN t.to ELSE owner[p]]
  /\ offers' = [CancelPending(t.player, {o}) EXCEPT ![o].status = "ACCEPTED"]
  /\ Reply(w)
  /\ UNCHANGED <<market, auctions, paidIn, now>>
-----------------------------------------------------------------------------
(* Free agents, releases, signings from the catalog                             *)

\* Mutant: the direct purchase does not ask whether the player is free.
buyFreeAgentCheckAnyone(w) ==
  \E r \in Owners, p \in InLeague :
    /\ MarketOpen /\ owner[p] # r /\ squadSize(r) < RosterSize
    /\ Trade(w, [op |-> "buyFreeAgent", by |-> r, player |-> p])

buyFreeAgentCheck(w) ==
  \E r \in Owners, p \in InLeague :
    /\ MarketOpen /\ owner[p] = None /\ squadSize(r) < RosterSize
    /\ Trade(w, [op |-> "buyFreeAgent", by |-> r, player |-> p])

buyFreeAgentCommit(w) ==
  LET q == req[w] IN
  /\ Serving(w, "buyFreeAgent") /\ q.player \in InLeague
  /\ canDebit(account, q.by, Price[q.player])
  /\ account' = debit(account, q.by, Price[q.player], "SIGNING")
  /\ owner' = [owner EXCEPT ![q.player] = q.by]
  /\ Reply(w)
  /\ UNCHANGED <<market, auctions, paidIn, offers, now>>

releaseCheck(w) ==
  \E r \in Owners : \E p \in Squad(r) :
    MarketOpen /\ Trade(w, [op |-> "release", by |-> r, player |-> p])

releaseCommit(w) ==
  LET q == req[w] IN
  /\ Serving(w, "release") /\ q.player \in InLeague
  /\ owner' = [owner EXCEPT ![q.player] = None]
  /\ account' = credit(account, q.by, Price[q.player] \div 2, "SALE")
  /\ Reply(w)
  /\ UNCHANGED <<market, auctions, paidIn, offers, now>>

signFromBaseCheck(w) ==
  \E r \in Owners, p \in BasePlayers \ InLeague :
    /\ MarketOpen /\ squadSize(r) < RosterSize
    /\ Trade(w, [op |-> "signFromBase", by |-> r, player |-> p])

\* The unique key on (leagueId, name) refuses the second copy.
signFromBaseCommit(w) ==
  LET q == req[w] IN
  /\ Serving(w, "signFromBase") /\ q.player \notin InLeague
  /\ canDebit(account, q.by, Price[q.player])
  /\ account' = debit(account, q.by, Price[q.player], "SIGNING")
  /\ owner' = [owner EXCEPT ![q.player] = q.by]
  /\ Reply(w)
  /\ UNCHANGED <<market, auctions, paidIn, offers, now>>

\* DraftService.removePlayer, at any phase of the league.
removePlayerCheck(w) ==
  \E u \in Moderators, p \in InLeague :
    owner[p] = None /\ Receive(w, [op |-> "removePlayer", player |-> p])

\* ON DELETE CASCADE takes the auctions and the offers of the player along.
removePlayerCommit(w) ==
  LET p == req[w].player
      Deleted(row) == IF row.player = p THEN [row EXCEPT !.status = "DELETED"] ELSE row
  IN
  /\ Serving(w, "removePlayer") /\ p \in InLeague
  /\ owner' = [owner EXCEPT ![p] = Outside]
  /\ auctions' = [a \in Auctions |-> Deleted(auctions[a])]
  /\ offers' = [o \in Offers |-> Deleted(offers[o])]
  /\ Reply(w)
  /\ UNCHANGED <<market, account, paidIn, now>>
-----------------------------------------------------------------------------
(* The rest of the league, as far as the market sees it                         *)

\* syncMarketWindows and the owner's update both write transferWindowOpen.
toggleWindow ==
  /\ league.status = "ACTIVE"
  /\ league' = [league EXCEPT !.transferWindowOpen = ~@]
  /\ UNCHANGED <<played, owner, account, auctions, paidIn, offers, now, req>>

\* DraftFixtureService.settle: both prizes, then both wage bills; the last match
\* of the season finishes the league.
settleMatch ==
  \E home, away \in Rosters, coins \in RoundRewards :
    LET wages(r)  == Salary * squadSize(r)
        rewarded  == credit(credit(account, home, coins[1], "MATCH_REWARD"),
                            away, coins[2], "MATCH_REWARD")
    IN
    /\ home # away /\ played < MaxMatches
    /\ account' = charge(charge(rewarded, home, wages(home), "SALARY"),
                         away, wages(away), "SALARY")
    /\ played' = played + 1
    /\ league' = IF played' = MaxMatches THEN [league EXCEPT !.status = "FINISHED"] ELSE league
    /\ UNCHANGED <<owner, auctions, paidIn, offers, now, req>>

tick ==
  /\ now < MaxTime
  /\ now' = now + 1
  /\ UNCHANGED <<market, owner, account, auctions, paidIn, offers, req>>

\* An exception, a deadlock victim, the 30 s timeout or a restart of the process.
rollback(w) ==
  /\ req[w] # Idle
  /\ Reply(w)
  /\ UNCHANGED <<market, owner, account, auctions, paidIn, offers, now>>
-----------------------------------------------------------------------------
Check(w) ==
  \/ createAuctionCheck(w) \/ bidCheck(w) \/ cancelAuctionCheck(w)
  \/ \E a \in Auctions : closeCheck(w, a)
  \/ createOfferCheck(w) \/ rejectCheck(w) \/ acceptCheck(w) \/ withdrawCheck(w)
  \/ buyFreeAgentCheck(w) \/ releaseCheck(w) \/ signFromBaseCheck(w) \/ removePlayerCheck(w)

closeCommit(w) == closeWithoutBids(w) \/ closeSold(w)

Commit(w) ==
  \/ createAuctionCommit(w) \/ bidCommit(w) \/ cancelAuctionCommit(w) \/ closeCommit(w)
  \/ createOfferCommit(w) \/ rejectCommit(w) \/ acceptCommit(w) \/ withdrawCommit(w)
  \/ buyFreeAgentCommit(w) \/ releaseCommit(w) \/ signFromBaseCommit(w) \/ removePlayerCommit(w)

Next ==
  \/ \E w \in Workers : Check(w) \/ Commit(w) \/ rollback(w)
  \/ toggleWindow \/ settleMatch \/ tick

Spec == Init /\ [][Next]_vars

\* Every request ends, by its commit or by its rollback; the cron comes back every
\* minute, so a closing that can always be tried again is not rolled back for ever.
Fairness ==
  \A w \in Workers :
    /\ WF_vars(Commit(w) \/ rollback(w))
    /\ SF_vars(closeCommit(w))
    /\ \A a \in Auctions : SF_vars(closeCheck(w, a))

FairSpec == Spec /\ Fairness
-----------------------------------------------------------------------------
AuctionRow ==
  [status: {"OPEN", "SOLD", "EXPIRED", "CANCELLED", "DELETED"}, player: Players,
   seller: NullRoster, startingBid: Nat, currentBid: Nat, bidCount: Nat,
   leader: NullRoster, endsAt: Nat]

OfferRow ==
  [status: {"PENDING", "ACCEPTED", "REJECTED", "CANCELLED", "DELETED"},
   kind: {"BUY_FROM_ROSTER", "SWAP"}, player: Players, from: Rosters, to: Rosters,
   offered: Players \cup {None}, price: Nat]

CreateAuctionRequest == [op: {"createAuction"}, player: Players, seller: NullRoster, startingBid: Nat]
BidRequest     == [op: {"bid"}, by: Owners, auction: Auctions, amount: Nat, seen: AuctionRow,
                   since: Nat]
CancelRequest  == [op: {"cancelAuction"}, by: Users, auction: Auctions, seen: AuctionRow]
CloseRequest   == [op: {"close"}, auction: Auctions, seen: AuctionRow]
OfferRequest   == [op: {"createOffer"}, row: OfferRow]
AnswerRequest  == [op: {"reject", "accept", "withdraw"}, offer: Offers]
SigningRequest == [op: {"buyFreeAgent", "release", "signFromBase"}, by: Owners, player: Players]
RemovalRequest == [op: {"removePlayer"}, player: Players]

Request ==
  {Idle} \cup CreateAuctionRequest \cup BidRequest \cup CancelRequest \cup CloseRequest
  \cup OfferRequest \cup AnswerRequest \cup SigningRequest \cup RemovalRequest

\* The columns of the league's tables and the local variables of the handlers in
\* flight hold values of their types.
TypeOK ==
  /\ league \in [status: {"ACTIVE", "FINISHED"}, transferWindowOpen: BOOLEAN]
  /\ played \in Nat /\ now \in Nat
  /\ owner \in [Players -> Rosters \cup {None, Outside}]
  /\ account \in [Rosters -> Account]
  /\ auctions \in [Auctions -> {NoAuction} \cup AuctionRow]
  /\ paidIn \in [Auctions -> [Rosters -> Int]]
  /\ offers \in [Offers -> {NoOffer} \cup OfferRow]
  /\ req \in [Workers -> Request]

\* The statement of a roster explains its cash, earned and spent columns to the
\* coin, whatever handlers of the budget service run at the same time.
StatementExplainsBudget == \A r \in Rosters : Explained(account[r])

\* "Gasto voluntario nunca fica no vermelho": a roster is in the red by no more
\* than the wages charged to it, even when two purchases race for the same cash.
DebtIsWages == \A r \in Rosters : OwesOnlyWages(account[r])

\* "o dinheiro do lider fica preso no lance ... e volta para quem for coberto": the
\* leader has exactly the current bid in the auction and nobody else has anything.
PaidInIsTheLeadingBid ==
  \A a \in Auctions, r \in Rosters :
    paidIn[a][r] = IF auctions[a].leader = r THEN auctions[a].currentBid ELSE 0

\* "Lance no fim empurra o prazo": a deadline is brought forward only by a bid that
\* another bid overtook, which writes a deadline computed from the row and the clock it
\* read before that other bid pushed the deadline further.
OnlyOvertakenBidsShorten ==
  [][\A a \in Auctions : auctions[a].status = "OPEN" /\ auctions'[a].endsAt < auctions[a].endsAt
       => \E w \in Workers : /\ Serving(w, "bid") /\ req[w].auction = a /\ req'[w] = Idle
                            /\ req[w].seen.bidCount < auctions[a].bidCount]_vars

House(a) == INSTANCE AuctionHouse
  WITH Bidders <- Rosters, Nobody <- None,
       status <- auctions[a].status, leader <- auctions[a].leader,
       price <- auctions[a].currentBid, held <- paidIn[a]

\* Served one request at a time, every auction of DraftAuctionService keeps the
\* promise of its class comment: it implements AuctionHouse.
HousesStep == \A a \in Auctions : [House(a)!HouseNext]_(House(a)!houseVars)
AuctionsKeepTheirPromise == (\A a \in Auctions : House(a)!Init) /\ [][HousesStep]_vars

\* "Esta proposta ja foi respondida", "O jogador mudou de elenco desde que a proposta
\* foi feita": an answered offer keeps its answer, and an offer is accepted only while
\* both sides still own what they trade.
AnswersStand ==
  \A o \in Offers :
    /\ offers[o].status \in {"ACCEPTED", "REJECTED", "CANCELLED"}
         => offers'[o].status \in {offers[o].status, "DELETED"}
    /\ offers[o].status # "ACCEPTED" /\ offers'[o].status = "ACCEPTED"
         => /\ owner[offers[o].player] = offers[o].to
            /\ offers[o].kind = "SWAP" => owner[offers[o].offered] = offers[o].from
AcceptedOfferIsHonoured == [][AnswersStand]_vars

\* Whether the request w was made, or agreed to, by the roster that owns p.
GaveUp(w, p) ==
  \/ req[w].op = "close"
  \/ req[w].op = "release" /\ req[w].by = owner[p]
  \/ /\ req[w].op = "accept"
     /\ LET t == offers[req[w].offer] IN
        (p = t.player /\ owner[p] = t.to) \/ (p = t.offered /\ owner[p] = t.from)

\* Outside auctions a roster loses a player only by its own release, by an offer it
\* accepted or by a swap it proposed, never to a signing that looked too early; and
\* "seu elenco esta cheio" keeps every purchase and signing within rosterSize.  A sold
\* auction and an accepted offer do not count the squad again.
RightfulChange ==
  /\ \A p \in Players : owner[p] \in Rosters /\ owner'[p] # owner[p]
       => \E w \in Workers : req'[w] # req[w] /\ GaveUp(w, p)
  /\ \A r \in Rosters : Cardinality({p \in Players : owner'[p] = r}) > squadSize(r)
       => \/ squadSize(r) < RosterSize
          \/ \E w \in Workers : req[w].op \in {"close", "accept"} /\ req'[w] = Idle
SquadsChangeByRight == [][RightfulChange]_vars

\* "So o dono do jogador pode leiloa-lo": what an auction sells still belongs to the
\* roster (or to the free pool) it was opened for.
SoldFromItsSeller ==
  [][\A a \in Auctions : auctions[a].status = "OPEN" /\ auctions'[a].status = "SOLD"
       => owner[auctions[a].player] = auctions[a].seller]_vars

\* "leilao fecha no horario dele mesmo que a janela ... ja tenha fechado": an auction
\* whose time is up ends, unless a last bid gives it more time.
EveryAuctionCloses ==
  \A a \in Auctions : (auctions[a].status = "OPEN" /\ auctions[a].endsAt <= now)
    ~> (auctions[a].status # "OPEN" \/ auctions[a].endsAt > now)
=============================================================================
