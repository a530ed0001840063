--------------------------- MODULE DraftMarketProofs ----------------------------
(* Theorems of DraftMarket, for every number of workers, rosters, players, rows  *)
(* and every value of the money and time constants.                              *)
EXTENDS DraftMarket, DraftBudgetProofs, FiniteSetTheorems, TLAPS

-----------------------------------------------------------------------------
(* Types and cash together: charge and debit need the types of the accounts, the *)
(* accounts need the types of the requests in flight.                            *)

IInv == TypeOK /\ Sound(account, Rosters)

LEMMA InitIInv == Init => IInv
<1> SUFFICES ASSUME Init PROVE IInv
  OBVIOUS
<1> USE MarketAssumption
<1>1. Sound(account, Rosters)
  BY SeededSound DEF Init
<1>2. TypeOK
  BY <1>1 DEF Init, TypeOK, Sound, Request
<1> QED
  BY <1>1, <1>2 DEF IInv

\* A Check step only fills req[w].
LEMMA ReceiveKeeps ==
  ASSUME IInv, NEW w \in Workers, NEW q \in Request, Receive(w, q)
  PROVE  IInv'
BY DEF IInv, TypeOK, Sound, Receive, market

\* The request in flight has the fields of its kind.
LEMMA InFlight ==
  ASSUME TypeOK, NEW w \in Workers
  PROVE  /\ req[w] \in Request
         /\ Serving(w, "createAuction") => req[w] \in CreateAuctionRequest
         /\ Serving(w, "bid") => req[w] \in BidRequest
         /\ Serving(w, "cancelAuction") => req[w] \in CancelRequest
         /\ Serving(w, "close") => req[w] \in CloseRequest
         /\ Serving(w, "createOffer") => req[w] \in OfferRequest
         /\ \A o \in {"reject", "accept", "withdraw"} : Serving(w, o) => req[w] \in AnswerRequest
         /\ \A o \in {"buyFreeAgent", "release", "signFromBase"} :
              Serving(w, o) => req[w] \in SigningRequest
         /\ Serving(w, "removePlayer") => req[w] \in RemovalRequest
BY DEF TypeOK, Serving, Request, Idle, CreateAuctionRequest, BidRequest, CancelRequest,
       CloseRequest, OfferRequest, AnswerRequest, SigningRequest, RemovalRequest

LEMMA CheckKeeps ==
  ASSUME IInv, NEW w \in Workers, Check(w)
  PROVE  IInv'
<1> USE MarketAssumption DEF IInv, TypeOK
<1> DEFINE Fills(q) == q \in Request /\ Receive(w, q)
<1>1. SUFFICES \E q : Fills(q)
  BY ReceiveKeeps
<1>2. CASE createAuctionCheck(w)
  <2>1. PICK u \in Users, p \in InLeague, bid \in StartingBids :
          Receive(w, [op |-> "createAuction", player |-> p, seller |-> owner[p], startingBid |-> bid])
    BY <1>2 DEF createAuctionCheck
  <2> DEFINE q == [op |-> "createAuction", player |-> p, seller |-> owner[p], startingBid |-> bid]
  <2>2. q \in CreateAuctionRequest
    BY DEF CreateAuctionRequest, InLeague, NullRoster
  <2> QED
    BY <2>1, <2>2 DEF Request
<1>3. CASE bidCheck(w)
  <2>1. PICK r \in Owners, a \in Auctions, amount \in 1..MaxBid :
          /\ auctions[a].status = "OPEN"
          /\ Receive(w, [op |-> "bid", by |-> r, auction |-> a, amount |-> amount,
                         seen |-> auctions[a], since |-> now])
    BY <1>3 DEF bidCheck, Trade
  <2> DEFINE q == [op |-> "bid", by |-> r, auction |-> a, amount |-> amount, seen |-> auctions[a],
                    since |-> now]
  <2>2. q \in BidRequest
    BY <2>1 DEF BidRequest, NoAuction, TypeOK
  <2> QED
    BY <2>1, <2>2 DEF Request
<1>4. CASE cancelAuctionCheck(w)
  <2>1. PICK u \in Users, a \in Auctions :
          /\ auctions[a].status = "OPEN"
          /\ Receive(w, [op |-> "cancelAuction", by |-> u, auction |-> a, seen |-> auctions[a]])
    BY <1>4 DEF cancelAuctionCheck
  <2> DEFINE q == [op |-> "cancelAuction", by |-> u, auction |-> a, seen |-> auctions[a]]
  <2>2. q \in CancelRequest
    BY <2>1 DEF CancelRequest, NoAuction
  <2> QED
    BY <2>1, <2>2 DEF Request
<1>5. CASE \E a \in Auctions : closeCheck(w, a)
  <2>1. PICK a \in Auctions :
          /\ auctions[a].status = "OPEN"
          /\ Receive(w, [op |-> "close", auction |-> a, seen |-> auctions[a]])
    BY <1>5 DEF closeCheck
  <2> DEFINE q == [op |-> "close", auction |-> a, seen |-> auctions[a]]
  <2>2. q \in CloseRequest
    BY <2>1 DEF CloseRequest, NoAuction
  <2> QED
    BY <2>1, <2>2 DEF Request
<1>6. CASE createOfferCheck(w)
  <2>1. PICK r \in Owners, p \in InLeague, price \in OfferPrices,
             kind \in {"BUY_FROM_ROSTER", "SWAP"}, offered \in Players \cup {None} :
          /\ owner[p] \notin {r, None}
          /\ Receive(w, [op |-> "createOffer",
                         row |-> [status |-> "PENDING", kind |-> kind, player |-> p, from |-> r,
                                  to |-> owner[p], offered |-> offered, price |-> price]])
    BY <1>6 DEF createOfferCheck, Trade
  <2> DEFINE row == [status |-> "PENDING", kind |-> kind, player |-> p, from |-> r,
                     to |-> owner[p], offered |-> offered, price |-> price]
             q == [op |-> "createOffer", row |-> row]
  <2>2. row \in OfferRow
    BY <2>1 DEF OfferRow, InLeague
  <2>3. q \in OfferRequest
    BY <2>2 DEF OfferRequest
  <2> QED
    BY <2>1, <2>3 DEF Request
<1>7. CASE rejectCheck(w) \/ acceptCheck(w) \/ withdrawCheck(w)
  <2>1. PICK o \in Offers, op \in {"reject", "accept", "withdraw"} :
          Receive(w, [op |-> op, offer |-> o])
    BY <1>7 DEF rejectCheck, acceptCheck, withdrawCheck
  <2>2. [op |-> op, offer |-> o] \in AnswerRequest
    BY DEF AnswerRequest
  <2> QED
    BY <2>1, <2>2 DEF Request
<1>8. CASE buyFreeAgentCheck(w) \/ releaseCheck(w) \/ signFromBaseCheck(w)
  <2>1. PICK r \in Owners, p \in Players, op \in {"buyFreeAgent", "release", "signFromBase"} :
          Receive(w, [op |-> op, by |-> r, player |-> p])
    BY <1>8 DEF buyFreeAgentCheck, releaseCheck, signFromBaseCheck, Trade, InLeague, Squad
  <2>2. [op |-> op, by |-> r, player |-> p] \in SigningRequest
    BY DEF SigningRequest
  <2> QED
    BY <2>1, <2>2 DEF Request
<1>9. CASE removePlayerCheck(w)
  <2>1. PICK p \in Players : Receive(w, [op |-> "removePlayer", player |-> p])
    BY <1>9 DEF removePlayerCheck, InLeague
  <2>2. [op |-> "removePlayer", player |-> p] \in RemovalRequest
    BY DEF RemovalRequest
  <2> QED
    BY <2>1, <2>2 DEF Request
<1> QED
  BY <1>2, <1>3, <1>4, <1>5, <1>6, <1>7, <1>8, <1>9 DEF Check

\* A Commit step frees the worker and leaves every other table well typed: what is
\* left to show of it is the table it writes.
LEMMA ReplyKeeps ==
  ASSUME IInv, NEW w \in Workers, Reply(w), UNCHANGED <<market, now>>,
         owner' \in [Players -> Rosters \cup {None, Outside}],
         Sound(account', Rosters),
         auctions' \in [Auctions -> {NoAuction} \cup AuctionRow],
         paidIn' \in [Auctions -> [Rosters -> Int]],
         offers' \in [Offers -> {NoOffer} \cup OfferRow]
  PROVE  IInv'
BY DEF IInv, TypeOK, Sound, Reply, market, Request

LEMMA PaidInTyped ==
  ASSUME NEW pd \in [Auctions -> [Rosters -> Int]], NEW a \in Auctions, NEW r \in Rosters,
         NEW n \in Int
  PROVE  [pd EXCEPT ![a][r] = n] \in [Auctions -> [Rosters -> Int]] /\ pd[a][r] \in Int
<1>1. pd[a] \in [Rosters -> Int]
  OBVIOUS
<1>2. [pd[a] EXCEPT ![r] = n] \in [Rosters -> Int]
  BY <1>1
<1> QED
  BY <1>1, <1>2

\* The columns a status change, a bid or a cancellation writes.
LEMMA RowTyped ==
  ASSUME NEW row \in AuctionRow, NEW s \in {"SOLD", "EXPIRED", "CANCELLED", "DELETED"},
         NEW r \in NullRoster, NEW bid \in Nat, NEW n \in Nat, NEW end \in Nat
  PROVE  /\ [row EXCEPT !.status = s] \in AuctionRow
         /\ [row EXCEPT !.status = s, !.leader = r, !.currentBid = bid] \in AuctionRow
         /\ [row EXCEPT !.currentBid = bid, !.leader = r, !.bidCount = n, !.endsAt = end] \in AuctionRow
BY DEF AuctionRow

LEMMA OfferStatusTyped ==
  ASSUME TypeOK, NEW o \in Offers, Exists(offers[o]),
         NEW s \in {"PENDING", "ACCEPTED", "REJECTED", "CANCELLED", "DELETED"}
  PROVE  [offers EXCEPT ![o].status = s] \in [Offers -> {NoOffer} \cup OfferRow]
<1>1. offers \in [Offers -> {NoOffer} \cup OfferRow] /\ offers[o] \in OfferRow
  BY DEF TypeOK, Exists, NoOffer
<1>2. [offers[o] EXCEPT !.status = s] \in OfferRow
  BY <1>1 DEF OfferRow
<1> QED
  BY <1>1, <1>2

LEMMA CancelPendingTyped ==
  ASSUME TypeOK, NEW p, NEW keep
  PROVE  CancelPending(p, keep) \in [Offers -> {NoOffer} \cup OfferRow]
<1> SUFFICES ASSUME NEW o \in Offers, offers[o].status = "PENDING"
             PROVE  [offers[o] EXCEPT !.status = "CANCELLED"] \in OfferRow
  BY DEF CancelPending, TypeOK
<1>1. offers[o] \in OfferRow
  BY DEF TypeOK, NoOffer
<1> QED
  BY <1>1 DEF OfferRow

LEMMA CreateAuctionKeeps ==
  ASSUME IInv, NEW w \in Workers, createAuctionCommit(w)
  PROVE  IInv'
<1> USE MarketAssumption DEF IInv
<1> DEFINE q == req[w]
           end == now + AuctionHours
           row == [NoAuction EXCEPT !.status = "OPEN", !.player = q.player, !.seller = q.seller,
                                    !.startingBid = q.startingBid, !.endsAt = end]
<1>1. q \in CreateAuctionRequest
  BY InFlight DEF createAuctionCommit
<1>2. PICK a \in Auctions : auctions' = [auctions EXCEPT ![a] = row]
  BY DEF createAuctionCommit
<1>3. end \in Nat
  <2>1. AuctionHours \in Nat
    OBVIOUS
  <2> QED
    BY <2>1 DEF TypeOK
<1>4. row \in AuctionRow
  <2> HIDE DEF end
  <2> QED
    BY <1>1, <1>3 DEF CreateAuctionRequest, NoAuction, AuctionRow, NullRoster
<1> QED
  BY <1>2, <1>4, ReplyKeeps DEF createAuctionCommit, market, TypeOK

LEMMA BidKeeps ==
  ASSUME IInv, NEW w \in Workers, bidCommit(w)
  PROVE  IInv'
<1> USE MarketAssumption DEF IInv
<1> DEFINE q == req[w]
           a == q.auction
           s == q.seen
           paid == debit(account, q.by, q.amount, "AUCTION_BID")
           placed == [paidIn EXCEPT ![a][q.by] = @ + q.amount]
<1>1. /\ q \in BidRequest /\ a \in Auctions /\ s \in AuctionRow
      /\ q.amount \in Nat /\ q.by \in Rosters
      /\ s.leader \in NullRoster /\ s.currentBid \in Nat /\ s.endsAt \in Nat /\ q.since \in Nat
  BY InFlight DEF bidCommit, BidRequest, AuctionRow
<1>0. PICK at \in q.since..now :
        auctions' = [auctions EXCEPT ![a].currentBid = q.amount, ![a].leader = q.by,
                                     ![a].bidCount = @ + 1,
                                     ![a].endsAt = extendedDeadline(s.endsAt, at, AntiSnipe)]
  BY DEF bidCommit
<1> DEFINE end == extendedDeadline(s.endsAt, at, AntiSnipe)
<1>2. /\ canDebit(account, q.by, q.amount) /\ Exists(auctions[a])
      /\ account' = IF s.leader = None THEN paid
                    ELSE credit(paid, s.leader, s.currentBid, "AUCTION_REFUND")
      /\ paidIn' = IF s.leader = None THEN placed
                   ELSE [placed EXCEPT ![a][s.leader] = @ - s.currentBid]
      /\ auctions' = [auctions EXCEPT ![a].currentBid = q.amount, ![a].leader = q.by,
                                      ![a].bidCount = @ + 1, ![a].endsAt = end]
      /\ Reply(w) /\ UNCHANGED <<market, owner, offers, now>>
  BY <1>0 DEF bidCommit
<1>3. Sound(account', Rosters)
  <2>1. Sound(paid, Rosters)
    <3>1. Sound(account, Rosters) /\ q.amount \in Int /\ "AUCTION_BID" \in DebitTypes
      BY <1>1 DEF DebitTypes
    <3> HIDE DEF IInv
    <3> QED
      BY <1>1, <1>2, <3>1, DebitSound
  <2>2. CASE s.leader # None
    <3>1. s.leader \in Rosters /\ s.currentBid \in Int /\ "AUCTION_REFUND" \in CreditTypes
      BY <1>1, <2>2 DEF NullRoster, CreditTypes
    <3>2. Sound(credit(paid, s.leader, s.currentBid, "AUCTION_REFUND"), Rosters)
      BY <2>1, <3>1, CreditSound
    <3> QED
      BY <1>2, <2>2, <3>2
  <2> QED
    BY <1>2, <2>1, <2>2
<1>4. paidIn' \in [Auctions -> [Rosters -> Int]]
  <2>1. placed \in [Auctions -> [Rosters -> Int]]
    <3>1. paidIn \in [Auctions -> [Rosters -> Int]]
      BY DEF TypeOK
    <3>2. paidIn[a][q.by] + q.amount \in Int
      BY <1>1, <3>1
    <3> QED
      BY <1>1, <3>1, <3>2, PaidInTyped
  <2>2. CASE s.leader # None
    <3>1. s.leader \in Rosters
      BY <1>1, <2>2 DEF NullRoster
    <3> HIDE DEF placed
    <3>2. placed[a][s.leader] - s.currentBid \in Int
      BY <1>1, <2>1, <3>1
    <3> QED
      BY <1>1, <1>2, <2>1, <2>2, <3>1, <3>2, PaidInTyped
  <2> QED
    BY <1>2, <2>1, <2>2
<1>5. auctions' \in [Auctions -> {NoAuction} \cup AuctionRow]
  <2>1. auctions[a] \in AuctionRow /\ auctions \in [Auctions -> {NoAuction} \cup AuctionRow]
    BY <1>1, <1>2 DEF TypeOK, Exists, NoAuction
  <2>2. auctions[a].bidCount + 1 \in Nat
    BY <2>1 DEF AuctionRow
  <2>3. end \in Nat
    BY <1>0, <1>1 DEF TypeOK, extendedDeadline
  <2> DEFINE n == auctions[a].bidCount + 1
             row == [auctions[a] EXCEPT !.currentBid = q.amount, !.leader = q.by,
                                        !.bidCount = n, !.endsAt = end]
  <2>4. auctions' = [auctions EXCEPT ![a] = row]
    <3> HIDE DEF end
    <3> QED
      BY <1>1, <1>2, <2>1
  <2>5. row \in AuctionRow
    <3> HIDE DEF n, end
    <3> QED
      BY <1>1, <2>1, <2>2, <2>3, RowTyped DEF n, NullRoster
  <2> QED
    BY <1>1, <2>1, <2>4, <2>5
<1> QED
  BY <1>2, <1>3, <1>4, <1>5, ReplyKeeps DEF TypeOK

LEMMA CancelAuctionKeeps ==
  ASSUME IInv, NEW w \in Workers, cancelAuctionCommit(w)
  PROVE  IInv'
<1> USE MarketAssumption DEF IInv
<1> DEFINE q == req[w]
           a == q.auction
           s == q.seen
<1>1. /\ q \in CancelRequest /\ a \in Auctions /\ s \in AuctionRow
      /\ s.leader \in NullRoster /\ s.currentBid \in Nat
  BY InFlight DEF cancelAuctionCommit, CancelRequest, AuctionRow
<1>2. /\ Exists(auctions[a])
      /\ account' = IF s.leader = None THEN account
                    ELSE credit(account, s.leader, s.currentBid, "AUCTION_REFUND")
      /\ paidIn' = IF s.leader = None THEN paidIn
                   ELSE [paidIn EXCEPT ![a][s.leader] = @ - s.currentBid]
      /\ auctions' = [auctions EXCEPT ![a].status = "CANCELLED", ![a].leader = None,
                                      ![a].currentBid = 0]
      /\ Reply(w) /\ UNCHANGED <<market, owner, offers, now>>
  BY DEF cancelAuctionCommit
<1>3. Sound(account', Rosters) /\ paidIn' \in [Auctions -> [Rosters -> Int]]
  <2>1. CASE s.leader # None
    <3>1. s.leader \in Rosters /\ s.currentBid \in Int /\ "AUCTION_REFUND" \in CreditTypes
      BY <1>1, <2>1 DEF NullRoster, CreditTypes
    <3>2. Sound(account, Rosters) /\ paidIn \in [Auctions -> [Rosters -> Int]]
      BY DEF TypeOK
    <3>3. Sound(credit(account, s.leader, s.currentBid, "AUCTION_REFUND"), Rosters)
      BY <3>1, <3>2, CreditSound
    <3>4. paidIn[a][s.leader] - s.currentBid \in Int
      BY <1>1, <3>1, <3>2
    <3> QED
      BY <1>1, <1>2, <2>1, <3>1, <3>2, <3>3, <3>4, PaidInTyped
  <2> QED
    BY <1>2, <2>1 DEF TypeOK
<1>4. auctions' \in [Auctions -> {NoAuction} \cup AuctionRow]
  <2>1. auctions[a] \in AuctionRow /\ auctions \in [Auctions -> {NoAuction} \cup AuctionRow]
    BY <1>1, <1>2 DEF TypeOK, Exists, NoAuction
  <2> DEFINE row == [auctions[a] EXCEPT !.status = "CANCELLED", !.leader = None, !.currentBid = 0]
  <2>2. auctions' = [auctions EXCEPT ![a] = row]
    BY <1>1, <1>2, <2>1
  <2>3. row \in AuctionRow
    BY <2>1, RowTyped DEF NullRoster
  <2> QED
    BY <1>1, <2>1, <2>2, <2>3
<1> QED
  BY <1>2, <1>3, <1>4, ReplyKeeps DEF TypeOK

LEMMA CloseKeeps ==
  ASSUME IInv, NEW w \in Workers, closeCommit(w)
  PROVE  IInv'
<1> USE MarketAssumption DEF IInv
<1> DEFINE q == req[w]
           a == q.auction
           s == q.seen
<1>1. /\ q \in CloseRequest /\ a \in Auctions /\ s \in AuctionRow
      /\ s.leader \in NullRoster /\ s.seller \in NullRoster /\ s.player \in Players
      /\ s.currentBid \in Nat
  BY InFlight DEF closeCommit, closeWithoutBids, closeSold, CloseRequest, AuctionRow
<1>2. auctions[a] \in AuctionRow /\ auctions \in [Auctions -> {NoAuction} \cup AuctionRow]
  BY <1>1 DEF TypeOK, Exists, NoAuction, closeCommit, closeWithoutBids, closeSold
<1>3. \A st \in {"SOLD", "EXPIRED"} :
        [auctions EXCEPT ![a].status = st] \in [Auctions -> {NoAuction} \cup AuctionRow]
  <2> TAKE st \in {"SOLD", "EXPIRED"}
  <2>1. [auctions[a] EXCEPT !.status = st] \in AuctionRow
    BY <1>2 DEF AuctionRow
  <2>2. [auctions EXCEPT ![a].status = st] = [auctions EXCEPT ![a] = [auctions[a] EXCEPT !.status = st]]
    BY <1>1, <1>2
  <2> QED
    BY <1>1, <1>2, <2>1, <2>2
<1>4. CASE closeWithoutBids(w)
  BY <1>3, <1>4, ReplyKeeps DEF closeWithoutBids, TypeOK
<1>5. CASE closeSold(w)
  <2>1. s.leader \in Rosters
    BY <1>1, <1>5 DEF closeSold, NullRoster
  <2>2. Sound(account', Rosters)
    <3>1. CASE s.seller # None
      <4>1. s.seller \in Rosters /\ s.currentBid \in Int /\ "AUCTION_SALE" \in CreditTypes
        BY <1>1, <3>1 DEF NullRoster, CreditTypes
      <4>2. Sound(credit(account, s.seller, s.currentBid, "AUCTION_SALE"), Rosters)
        BY <4>1, CreditSound
      <4> QED
        BY <1>5, <3>1, <4>2 DEF closeSold
    <3> QED
      BY <1>5, <3>1 DEF closeSold
  <2>3. offers' \in [Offers -> {NoOffer} \cup OfferRow]
    BY <1>5, CancelPendingTyped DEF closeSold
  <2>4. owner' \in [Players -> Rosters \cup {None, Outside}]
    BY <1>1, <1>5, <2>1 DEF closeSold, TypeOK
  <2> QED
    BY <1>3, <1>5, <2>2, <2>3, <2>4, ReplyKeeps DEF closeSold, TypeOK
<1> QED
  BY <1>4, <1>5 DEF closeCommit

LEMMA OfferKeeps ==
  ASSUME IInv, NEW w \in Workers,
         createOfferCommit(w) \/ rejectCommit(w) \/ withdrawCommit(w)
  PROVE  IInv'
<1> USE DEF IInv
<1>1. CASE createOfferCommit(w)
  <2>1. req[w].row \in OfferRow
    BY <1>1, InFlight DEF createOfferCommit, OfferRequest
  <2> QED
    BY <1>1, <2>1, ReplyKeeps DEF createOfferCommit, TypeOK, market
<1>2. CASE rejectCommit(w) \/ withdrawCommit(w)
  <2>1. PICK o \in Offers, s \in {"REJECTED", "CANCELLED"} :
          Exists(offers[o]) /\ offers' = [offers EXCEPT ![o].status = s]
    BY <1>2, InFlight DEF rejectCommit, withdrawCommit, AnswerRequest
  <2>2. offers' \in [Offers -> {NoOffer} \cup OfferRow]
    BY <2>1, OfferStatusTyped
  <2> QED
    BY <1>2, <2>2, ReplyKeeps DEF rejectCommit, withdrawCommit, TypeOK
<1> QED
  BY <1>1, <1>2

LEMMA AcceptKeeps ==
  ASSUME IInv, NEW w \in Workers, acceptCommit(w)
  PROVE  IInv'
<1> USE DEF IInv
<1> DEFINE o == req[w].offer
           t == offers[o]
<1>1. o \in Offers /\ t \in OfferRow /\ t.from \in Rosters /\ t.to \in Rosters
      /\ t.price \in Int /\ t.player \in Players
  BY InFlight DEF acceptCommit, AnswerRequest, Exists, NoOffer, TypeOK, OfferRow
<1>2. Sound(account', Rosters)
  BY <1>1, TransferSound DEF acceptCommit
<1>3. owner' \in [Players -> Rosters \cup {None, Outside}]
  BY <1>1 DEF acceptCommit, TypeOK
<1>4. offers' \in [Offers -> {NoOffer} \cup OfferRow]
  <2> DEFINE left == CancelPending(t.player, {o})
  <2>1. left \in [Offers -> {NoOffer} \cup OfferRow] /\ left[o] = offers[o]
    <3>1. left \in [Offers -> {NoOffer} \cup OfferRow]
      BY CancelPendingTyped
    <3>2. o \in {o}
      OBVIOUS
    <3>3. left[o] = offers[o]
      BY <1>1, <3>2, Zenon DEF CancelPending
    <3> QED
      BY <3>1, <3>3
  <2>2. [left[o] EXCEPT !.status = "ACCEPTED"] \in OfferRow
    BY <1>1, <2>1 DEF OfferRow
  <2>3. offers' = [left EXCEPT ![o] = [left[o] EXCEPT !.status = "ACCEPTED"]]
    BY <1>1, <2>1 DEF acceptCommit
  <2> QED
    BY <1>1, <2>1, <2>2, <2>3
<1> QED
  BY <1>2, <1>3, <1>4, ReplyKeeps DEF acceptCommit, TypeOK

LEMMA SigningKeeps ==
  ASSUME IInv, NEW w \in Workers,
         buyFreeAgentCommit(w) \/ releaseCommit(w) \/ signFromBaseCommit(w)
  PROVE  IInv'
<1> USE MarketAssumption DEF IInv
<1> DEFINE q == req[w]
<1>1. q \in SigningRequest /\ q.by \in Rosters /\ q.player \in Players
  BY InFlight DEF buyFreeAgentCommit, releaseCommit, signFromBaseCommit, SigningRequest
<1>2. Price[q.player] \in Nat /\ Price[q.player] \div 2 \in Nat
  BY <1>1
<1>3. owner' \in [Players -> Rosters \cup {None, Outside}]
  BY <1>1 DEF TypeOK, buyFreeAgentCommit, releaseCommit, signFromBaseCommit
<1>4. Sound(account', Rosters)
  <2>1. CASE buyFreeAgentCommit(w) \/ signFromBaseCommit(w)
    <3>1. /\ canDebit(account, q.by, Price[q.player])
          /\ account' = debit(account, q.by, Price[q.player], "SIGNING")
      BY <2>1 DEF buyFreeAgentCommit, signFromBaseCommit
    <3>2. Price[q.player] \in Int /\ "SIGNING" \in DebitTypes
      BY <1>2 DEF DebitTypes
    <3> QED
      BY <1>1, <3>1, <3>2, DebitSound
  <2>2. CASE releaseCommit(w)
    <3>1. account' = credit(account, q.by, Price[q.player] \div 2, "SALE")
      BY <2>2 DEF releaseCommit
    <3>2. Price[q.player] \div 2 \in Int /\ "SALE" \in CreditTypes
      BY <1>2 DEF CreditTypes
    <3> QED
      BY <1>1, <3>1, <3>2, CreditSound
  <2> QED
    BY <2>1, <2>2
<1> QED
  BY <1>3, <1>4, ReplyKeeps DEF buyFreeAgentCommit, releaseCommit, signFromBaseCommit, TypeOK

LEMMA RemovalKeeps ==
  ASSUME IInv, NEW w \in Workers, removePlayerCommit(w)
  PROVE  IInv'
<1> USE MarketAssumption DEF IInv
<1> DEFINE p == req[w].player
           Deleted(row) == IF row.player = p THEN [row EXCEPT !.status = "DELETED"] ELSE row
<1>1. p \in Players
  BY InFlight DEF removePlayerCommit, RemovalRequest
<1>2. /\ owner' = [owner EXCEPT ![p] = Outside]
      /\ auctions' = [a \in Auctions |-> Deleted(auctions[a])]
      /\ offers' = [o \in Offers |-> Deleted(offers[o])]
      /\ Reply(w) /\ UNCHANGED <<market, account, paidIn, now>>
  BY DEF removePlayerCommit
<1>3. \A row \in {NoAuction} \cup AuctionRow : Deleted(row) \in {NoAuction} \cup AuctionRow
  <2> SUFFICES ASSUME NEW row \in {NoAuction} \cup AuctionRow, row.player = p
               PROVE  [row EXCEPT !.status = "DELETED"] \in AuctionRow
    OBVIOUS
  <2>1. row \in AuctionRow
    BY <1>1 DEF NoAuction
  <2> QED
    BY <2>1 DEF AuctionRow
<1>4. \A row \in {NoOffer} \cup OfferRow : Deleted(row) \in {NoOffer} \cup OfferRow
  <2> SUFFICES ASSUME NEW row \in {NoOffer} \cup OfferRow, row.player = p
               PROVE  [row EXCEPT !.status = "DELETED"] \in OfferRow
    OBVIOUS
  <2>1. row \in OfferRow
    BY <1>1 DEF NoOffer
  <2> QED
    BY <2>1 DEF OfferRow
<1> HIDE DEF Deleted
<1>5. /\ auctions' \in [Auctions -> {NoAuction} \cup AuctionRow]
      /\ offers' \in [Offers -> {NoOffer} \cup OfferRow]
      /\ owner' \in [Players -> Rosters \cup {None, Outside}]
  BY <1>1, <1>2, <1>3, <1>4 DEF TypeOK
<1> QED
  BY <1>2, <1>5, ReplyKeeps DEF TypeOK

LEMMA SettleKeeps ==
  ASSUME IInv, settleMatch
  PROVE  IInv'
<1> USE MarketAssumption DEF IInv
<1> DEFINE wages(r) == Salary * squadSize(r)
<1>1. \A r \in Rosters : wages(r) \in Nat
  <2> TAKE r \in Rosters
  <2>1. IsFiniteSet(Squad(r)) /\ Squad(r) \subseteq Players
    BY FS_Subset DEF Squad
  <2>2. squadSize(r) \in Nat
    BY <2>1, FS_CardinalityType DEF squadSize
  <2> QED
    BY <2>2
<1> HIDE DEF wages
<1>2. PICK home \in Rosters, away \in Rosters, coins \in RoundRewards :
        /\ account' = charge(charge(credit(credit(account, home, coins[1], "MATCH_REWARD"),
                                           away, coins[2], "MATCH_REWARD"),
                                    home, wages(home), "SALARY"), away, wages(away), "SALARY")
        /\ played' = played + 1
        /\ league' = IF played' = MaxMatches THEN [league EXCEPT !.status = "FINISHED"] ELSE league
        /\ UNCHANGED <<owner, auctions, paidIn, offers, now, req>>
  BY Zenon DEF settleMatch, wages
<1> DEFINE c1 == credit(account, home, coins[1], "MATCH_REWARD")
           c2 == credit(c1, away, coins[2], "MATCH_REWARD")
           c3 == charge(c2, home, wages(home), "SALARY")
           c4 == charge(c3, away, wages(away), "SALARY")
<1>3. /\ coins[1] \in Int /\ coins[2] \in Int /\ wages(home) \in Int /\ wages(away) \in Int
      /\ "MATCH_REWARD" \in CreditTypes /\ "SALARY" \in DebitTypes
  <2>1. coins \in Nat \X Nat
    OBVIOUS
  <2> QED
    BY <1>1, <2>1 DEF CreditTypes, DebitTypes
<1>4. Sound(c1, Rosters)
  BY <1>3, CreditSound
<1> HIDE DEF c1
<1>5. Sound(c2, Rosters)
  BY <1>3, <1>4, CreditSound
<1> HIDE DEF c2
<1>6. Sound(c3, Rosters)
  BY <1>3, <1>5, ChargeSound
<1> HIDE DEF c3
<1>7. Sound(c4, Rosters)
  BY <1>3, <1>6, ChargeSound
<1>8. account' = c4
  BY <1>2, Zenon DEF c1, c2, c3
<1>9. Sound(account', Rosters)
  BY <1>7, <1>8
<1>10. TypeOK'
  <2>1. played' \in Nat /\ league' \in [status: {"ACTIVE", "FINISHED"}, transferWindowOpen: BOOLEAN]
    BY <1>2 DEF TypeOK
  <2> QED
    BY <1>2, <1>9, <2>1 DEF TypeOK, Sound
<1> QED
  BY <1>9, <1>10 DEF Sound

LEMMA StepKeeps ==
  ASSUME IInv, [Next]_vars
  PROVE  IInv'
<1>1. ASSUME NEW w \in Workers, Check(w)
      PROVE  IInv'
  BY <1>1, CheckKeeps
<1>2. ASSUME NEW w \in Workers, Commit(w)
      PROVE  IInv'
  BY <1>2, CreateAuctionKeeps, BidKeeps, CancelAuctionKeeps, CloseKeeps, OfferKeeps,
     AcceptKeeps, SigningKeeps, RemovalKeeps DEF Commit
<1>3. ASSUME NEW w \in Workers, rollback(w)
      PROVE  IInv'
  BY <1>3, ReplyKeeps DEF rollback, IInv, TypeOK
<1>4. CASE toggleWindow \/ tick
  <2>1. league' \in [status: {"ACTIVE", "FINISHED"}, transferWindowOpen: BOOLEAN]
    BY <1>4 DEF toggleWindow, tick, market, IInv, TypeOK
  <2>2. now' \in Nat /\ UNCHANGED <<played, owner, account, auctions, paidIn, offers, req>>
    BY <1>4 DEF toggleWindow, tick, market, IInv, TypeOK
  <2> QED
    BY <2>1, <2>2 DEF IInv, TypeOK, Sound
<1>5. CASE UNCHANGED vars
  BY <1>5 DEF vars, market, IInv, TypeOK, Sound
<1> QED
  BY <1>1, <1>2, <1>3, <1>4, <1>5, SettleKeeps DEF Next

\* The inductive invariant, for any number of handlers at a time.
THEOREM MarketInvariant == Spec => []IInv
BY InitIInv, StepKeeps, PTL DEF Spec

\* Every column of the market's tables keeps its type.
THEOREM TypesAreKept == Spec => []TypeOK
BY MarketInvariant, PTL DEF IInv

\* The statement of every roster explains its cash, earned and spent columns.
THEOREM StatementIsExact == Spec => []StatementExplainsBudget
<1>1. IInv => StatementExplainsBudget
  BY DEF IInv, Sound, StatementExplainsBudget
<1> QED
  BY <1>1, MarketInvariant, PTL

\* No purchase, bid or transfer puts a roster in the red: its debt is unpaid wages.
THEOREM OnlyWagesMakeDebt == Spec => []DebtIsWages
<1>1. IInv => DebtIsWages
  BY DEF IInv, Sound, DebtIsWages
<1> QED
  BY <1>1, MarketInvariant, PTL
-----------------------------------------------------------------------------
(* The deadline.  A bid in flight writes a deadline computed from the row it      *)
(* read, so the invariant says when that row still tells the deadline: as long as  *)
(* no other bid has been counted since.                                            *)

ReadsTheDeadline(v) ==
  Serving(v, "bid") =>
    LET row  == auctions[req[v].auction]
        seen == req[v].seen
    IN  /\ row.status # "NONE" /\ seen.bidCount <= row.bidCount
        /\ seen.bidCount = row.bidCount => seen.endsAt = row.endsAt

DeadlineInv == \A v \in Workers : ReadsTheDeadline(v)

\* What OnlyOvertakenBidsShorten says of one step.
OvertakenOnly ==
  \A a \in Auctions : auctions[a].status = "OPEN" /\ auctions'[a].endsAt < auctions[a].endsAt
    => \E w \in Workers : /\ Serving(w, "bid") /\ req[w].auction = a /\ req'[w] = Idle
                         /\ req[w].seen.bidCount < auctions[a].bidCount

\* A step that moves no deadline, counts no bid and starts no bid on an old snapshot.
KeepsDeadlines ==
  /\ \A a \in Auctions : auctions[a].status # "NONE"
       => /\ auctions'[a].status # "NONE" /\ auctions'[a].endsAt = auctions[a].endsAt
          /\ auctions'[a].bidCount = auctions[a].bidCount
  /\ \A v \in Workers : req'[v].op = "bid"
       => \/ req'[v] = req[v]
          \/ /\ auctions' = auctions /\ req'[v].auction \in Auctions
             /\ req'[v].seen = auctions[req'[v].auction]
             /\ req'[v].seen.status = "OPEN"

LEMMA RowsTyped ==
  ASSUME TypeOK
  PROVE  /\ \A a \in Auctions : auctions[a].endsAt \in Nat /\ auctions[a].bidCount \in Nat
         /\ \A v \in Workers : Serving(v, "bid")
              => /\ req[v].auction \in Auctions /\ req[v].seen.endsAt \in Nat
                 /\ req[v].seen.bidCount \in Nat /\ req[v].since \in Nat
<1>1. ASSUME NEW a \in Auctions PROVE auctions[a].endsAt \in Nat /\ auctions[a].bidCount \in Nat
  <2>1. auctions[a] \in {NoAuction} \cup AuctionRow
    BY DEF TypeOK
  <2> QED
    BY <2>1 DEF NoAuction, AuctionRow
<1>2. ASSUME NEW v \in Workers, Serving(v, "bid")
      PROVE  /\ req[v].auction \in Auctions /\ req[v].seen.endsAt \in Nat
             /\ req[v].seen.bidCount \in Nat /\ req[v].since \in Nat
  BY <1>2, InFlight DEF BidRequest, AuctionRow
<1> QED
  BY <1>1, <1>2

LEMMA QuietStep ==
  ASSUME IInv, DeadlineInv, KeepsDeadlines
  PROVE  DeadlineInv' /\ OvertakenOnly
<1>1. TypeOK
  BY DEF IInv
<1>2. ASSUME NEW v \in Workers PROVE ReadsTheDeadline(v)'
  <2>1. SUFFICES ASSUME req'[v].op = "bid" PROVE ReadsTheDeadline(v)'
    BY DEF ReadsTheDeadline, Serving
  <2>2. CASE req'[v] = req[v]
    <3>1. Serving(v, "bid")
      BY <2>1, <2>2 DEF Serving
    <3>2. req[v].auction \in Auctions /\ ReadsTheDeadline(v)
      BY <1>1, <3>1, RowsTyped DEF DeadlineInv
    <3> QED
      BY <2>2, <3>1, <3>2 DEF ReadsTheDeadline, Serving, KeepsDeadlines
  <2>3. CASE /\ auctions' = auctions /\ req'[v].auction \in Auctions
             /\ req'[v].seen = auctions[req'[v].auction]
             /\ req'[v].seen.status = "OPEN"
    <3>1. auctions[req'[v].auction].bidCount \in Nat
      BY <1>1, <2>3, RowsTyped
    <3> QED
      BY <2>3, <3>1 DEF ReadsTheDeadline, Serving
  <2> QED
    BY <2>1, <2>2, <2>3 DEF KeepsDeadlines
<1>3. OvertakenOnly
  BY <1>1, RowsTyped DEF KeepsDeadlines, OvertakenOnly
<1> QED
  BY <1>2, <1>3 DEF DeadlineInv

\* A bid never writes a deadline before the one it read, whenever it looked at the clock.
LEMMA BidExtends ==
  ASSUME NEW seen \in Nat, NEW at \in Nat
  PROVE  /\ extendedDeadline(seen, at, AntiSnipe) \in Nat
         /\ extendedDeadline(seen, at, AntiSnipe) >= seen
BY MarketAssumption DEF extendedDeadline

\* The one step that writes a deadline over another: a bid in flight commits.
LEMMA BidMovesTheDeadline ==
  ASSUME IInv, DeadlineInv, NEW w \in Workers, bidCommit(w)
  PROVE  DeadlineInv' /\ OvertakenOnly
<1> DEFINE a == req[w].auction
           seen == req[w].seen
<1>1. TypeOK /\ Serving(w, "bid") /\ now \in Nat
  BY DEF IInv, bidCommit, TypeOK
<1>2. /\ a \in Auctions /\ seen.endsAt \in Nat /\ seen.bidCount \in Nat /\ req[w].since \in Nat
      /\ \A b \in Auctions : auctions[b].endsAt \in Nat /\ auctions[b].bidCount \in Nat
  BY <1>1, RowsTyped
<1>3. PICK at \in req[w].since..now :
        auctions' = [auctions EXCEPT ![a].currentBid = req[w].amount, ![a].leader = req[w].by,
                       ![a].bidCount = @ + 1,
                       ![a].endsAt = extendedDeadline(seen.endsAt, at, AntiSnipe)]
  BY DEF bidCommit
<1> DEFINE end == extendedDeadline(seen.endsAt, at, AntiSnipe)
<1>4. end \in Nat /\ end >= seen.endsAt
  <2>1. at \in Nat
    BY <1>1, <1>2, <1>3
  <2> QED
    BY <1>2, <2>1, BidExtends
<1> HIDE DEF end
<1>5. /\ auctions'[a].endsAt = end /\ auctions'[a].status = auctions[a].status
      /\ auctions'[a].bidCount = auctions[a].bidCount + 1
      /\ \A b \in Auctions : b # a => auctions'[b] = auctions[b]
      /\ req' = [req EXCEPT ![w] = Idle] /\ req'[w] = Idle
  <2>1. auctions[a] \in AuctionRow /\ auctions \in [Auctions -> {NoAuction} \cup AuctionRow]
    BY <1>1, <1>2 DEF TypeOK, bidCommit, Exists, NoAuction
  <2>2. auctions' = [auctions EXCEPT ![a].currentBid = req[w].amount, ![a].leader = req[w].by,
                                     ![a].bidCount = @ + 1, ![a].endsAt = end]
    BY <1>3 DEF end
  <2>3. /\ auctions'[a].endsAt = end /\ auctions'[a].status = auctions[a].status
        /\ auctions'[a].bidCount = auctions[a].bidCount + 1
    BY <1>2, <2>1, <2>2 DEF AuctionRow
  <2>4. \A b \in Auctions : b # a => auctions'[b] = auctions[b]
    BY <1>2, <2>1, <2>2
  <2>5. req' = [req EXCEPT ![w] = Idle] /\ req'[w] = Idle
    BY <1>1 DEF bidCommit, Reply, TypeOK
  <2> QED
    BY <2>3, <2>4, <2>5
<1>6. ASSUME NEW v \in Workers PROVE ReadsTheDeadline(v)'
  <2>1. SUFFICES ASSUME req'[v].op = "bid" PROVE ReadsTheDeadline(v)'
    BY DEF ReadsTheDeadline, Serving
  <2>2. req'[v] = req[v] /\ Serving(v, "bid")
    BY <1>1, <1>5, <2>1 DEF Serving, Idle, TypeOK
  <2> DEFINE b == req[v].auction
             s == req[v].seen
  <2>3. b \in Auctions /\ s.endsAt \in Nat /\ s.bidCount \in Nat
    BY <1>1, <2>2, RowsTyped
  <2>4. /\ auctions[b].status # "NONE" /\ s.bidCount <= auctions[b].bidCount
        /\ s.bidCount = auctions[b].bidCount => s.endsAt = auctions[b].endsAt
    BY <2>2 DEF DeadlineInv, ReadsTheDeadline
  <2> HIDE DEF a
  <2>5. CASE b # a
    <3>1. auctions'[b] = auctions[b]
      BY <1>5, <2>3, <2>5
    <3> QED
      BY <2>2, <2>4, <3>1 DEF ReadsTheDeadline, Serving
  <2>6. CASE b = a
    <3>1. /\ auctions'[b].status # "NONE" /\ s.bidCount < auctions'[b].bidCount
      BY <1>2, <1>5, <2>3, <2>4, <2>6
    <3> QED
      BY <1>2, <1>5, <2>2, <2>3, <2>6, <3>1 DEF ReadsTheDeadline, Serving
  <2> QED
    BY <2>5, <2>6
<1>7. ASSUME NEW b \in Auctions, auctions[b].status = "OPEN",
             auctions'[b].endsAt < auctions[b].endsAt
      PROVE  \E v \in Workers : /\ Serving(v, "bid") /\ req[v].auction = b /\ req'[v] = Idle
                               /\ req[v].seen.bidCount < auctions[b].bidCount
  <2>1. b = a
    BY <1>2, <1>5, <1>7 DEF a
  <2>2. seen.bidCount <= auctions[a].bidCount
        /\ (seen.bidCount = auctions[a].bidCount => seen.endsAt = auctions[a].endsAt)
    BY <1>1 DEF DeadlineInv, ReadsTheDeadline
  <2>3. seen.bidCount # auctions[a].bidCount
    BY <1>2, <1>4, <1>5, <1>7, <2>1, <2>2
  <2> QED
    BY <1>1, <1>2, <1>5, <2>1, <2>2, <2>3
<1> QED
  BY <1>6, <1>7 DEF DeadlineInv, OvertakenOnly

LEMMA ReceiveKeepsDeadlines ==
  ASSUME TypeOK, NEW w \in Workers, NEW q, Receive(w, q),
         q.op = "bid" => /\ q.auction \in Auctions /\ q.seen = auctions[q.auction]
                         /\ q.seen.status = "OPEN"
  PROVE  KeepsDeadlines
<1>1. /\ UNCHANGED auctions
      /\ req'[w] = q /\ \A v \in Workers : v # w => req'[v] = req[v]
  BY DEF Receive, TypeOK
<1> QED
  BY <1>1 DEF KeepsDeadlines

LEMMA CheckKeepsDeadlines ==
  ASSUME TypeOK, NEW w \in Workers, Check(w)
  PROVE  KeepsDeadlines
<1>1. CASE bidCheck(w)
  <2>1. PICK r \in Owners, a \in Auctions, amount \in 1..MaxBid :
          /\ auctions[a].status = "OPEN"
          /\ Receive(w, [op |-> "bid", by |-> r, auction |-> a, amount |-> amount,
                         seen |-> auctions[a], since |-> now])
    BY <1>1 DEF bidCheck, Trade
  <2> QED
    BY <2>1, ReceiveKeepsDeadlines
<1>2. CASE createAuctionCheck(w) \/ cancelAuctionCheck(w) \/ \E a \in Auctions : closeCheck(w, a)
  BY <1>2, ReceiveKeepsDeadlines DEF createAuctionCheck, cancelAuctionCheck, closeCheck
<1>3. CASE createOfferCheck(w)
  BY <1>3, ReceiveKeepsDeadlines DEF createOfferCheck, Trade
<1>4. CASE rejectCheck(w) \/ acceptCheck(w) \/ withdrawCheck(w) \/ removePlayerCheck(w)
  BY <1>4, ReceiveKeepsDeadlines DEF rejectCheck, acceptCheck, withdrawCheck, removePlayerCheck
<1>5. CASE buyFreeAgentCheck(w) \/ releaseCheck(w) \/ signFromBaseCheck(w)
  BY <1>5, ReceiveKeepsDeadlines DEF buyFreeAgentCheck, releaseCheck, signFromBaseCheck, Trade
<1> QED
  BY <1>1, <1>2, <1>3, <1>4, <1>5 DEF Check

LEMMA CommitKeepsDeadlines ==
  ASSUME TypeOK, NEW w \in Workers, Commit(w), ~bidCommit(w)
  PROVE  KeepsDeadlines
<1>1. Reply(w)
  BY DEF Commit, createAuctionCommit, cancelAuctionCommit, closeCommit, closeWithoutBids, closeSold,
         createOfferCommit, rejectCommit, acceptCommit, withdrawCommit, buyFreeAgentCommit,
         releaseCommit, signFromBaseCommit, removePlayerCommit
<1>2. ASSUME NEW a \in Auctions, auctions[a].status # "NONE"
      PROVE  /\ auctions'[a].status # "NONE" /\ auctions'[a].endsAt = auctions[a].endsAt
             /\ auctions'[a].bidCount = auctions[a].bidCount
  <2>1. auctions[a] \in AuctionRow /\ auctions \in [Auctions -> {NoAuction} \cup AuctionRow]
    BY <1>2 DEF TypeOK, NoAuction
  <2>2. CASE createAuctionCommit(w)
    BY <1>2, <2>1, <2>2 DEF createAuctionCommit
  <2>3. CASE cancelAuctionCommit(w)
    <3>1. auctions' = [auctions EXCEPT ![req[w].auction].status = "CANCELLED",
                         ![req[w].auction].leader = None, ![req[w].auction].currentBid = 0]
      BY <2>3 DEF cancelAuctionCommit
    <3> QED
      BY <1>2, <2>1, <3>1 DEF AuctionRow
  <2>4. CASE closeCommit(w)
    <3>1. PICK st \in {"SOLD", "EXPIRED"} :
            auctions' = [auctions EXCEPT ![req[w].auction].status = st]
      BY <2>4 DEF closeCommit, closeWithoutBids, closeSold
    <3> QED
      BY <1>2, <2>1, <3>1 DEF AuctionRow
  <2>5. CASE removePlayerCommit(w)
    <3>1. \/ auctions'[a] = auctions[a]
          \/ auctions'[a] = [auctions[a] EXCEPT !.status = "DELETED"]
      BY <2>5 DEF removePlayerCommit
    <3> QED
      BY <1>2, <2>1, <3>1 DEF AuctionRow
  <2>6. CASE auctions' = auctions
    BY <1>2, <2>6
  <2> QED
    BY <2>2, <2>3, <2>4, <2>5, <2>6 DEF Commit, createOfferCommit, rejectCommit, acceptCommit,
       withdrawCommit, buyFreeAgentCommit, releaseCommit, signFromBaseCommit
<1> QED
  BY <1>1, <1>2 DEF Reply, Idle, TypeOK, KeepsDeadlines

LEMMA RestKeepsDeadlines ==
  ASSUME TypeOK,
         (\E w \in Workers : rollback(w)) \/ toggleWindow \/ settleMatch \/ tick \/ UNCHANGED vars
  PROVE  KeepsDeadlines
<1>1. auctions' = auctions
  BY DEF rollback, toggleWindow, settleMatch, tick, vars, market
<1>2. req' = req \/ \E w \in Workers : req' = [req EXCEPT ![w] = Idle]
  BY DEF rollback, Reply, toggleWindow, settleMatch, tick, vars
<1>3. \A v \in Workers : req'[v].op = "bid" => req'[v] = req[v]
  BY <1>2 DEF Idle, TypeOK
<1> QED
  BY <1>1, <1>3 DEF KeepsDeadlines

LEMMA DeadlineStep ==
  ASSUME IInv, DeadlineInv, [Next]_vars
  PROVE  DeadlineInv' /\ OvertakenOnly
<1>1. CASE \E w \in Workers : bidCommit(w)
  BY <1>1, BidMovesTheDeadline
<1>2. CASE ~ \E w \in Workers : bidCommit(w)
  <2>1. KeepsDeadlines
    BY <1>2, CheckKeepsDeadlines, CommitKeepsDeadlines, RestKeepsDeadlines DEF Next, IInv
  <2> QED
    BY <2>1, QuietStep
<1> QED
  BY <1>1, <1>2

LEMMA DeadlineInvariant == Spec => [](IInv /\ DeadlineInv)
<1>1. Init => DeadlineInv
  BY DEF Init, DeadlineInv, ReadsTheDeadline, Serving, Idle
<1>2. IInv /\ DeadlineInv /\ [Next]_vars => DeadlineInv'
  BY DeadlineStep
<1> QED
  BY <1>1, <1>2, MarketInvariant, PTL DEF Spec

\* However late it looked at the clock and however late it commits, a bid brings a deadline
\* forward only where another bid has been counted between its read and its write.
THEOREM DeadlinesShrinkOnlyByOvertakenBids == Spec => OnlyOvertakenBidsShorten
<1>1. IInv /\ DeadlineInv /\ [Next]_vars => [OvertakenOnly]_vars
  BY DeadlineStep
<1> QED
  BY <1>1, DeadlineInvariant, PTL DEF Spec, OnlyOvertakenBidsShorten, OvertakenOnly
-----------------------------------------------------------------------------
(* One request at a time.  The run MarketBidRace shows why the assumption is      *)
(* there: with two handlers in flight the escrow of an auction is lost.           *)

\* A request in flight still sees the row it read.
SeenIsCurrent ==
  \A w \in Workers : req[w].op \in {"bid", "cancelAuction", "close"} =>
    /\ req[w].auction \in Auctions /\ req[w].seen = auctions[req[w].auction]
    /\ req[w].op = "bid" => req[w].seen.leader # req[w].by

Escrow == PaidInIsTheLeadingBid /\ SeenIsCurrent

\* What an auction's row asks of the money locked in it.
Locked(row, r) == IF row.leader = r THEN row.currentBid ELSE 0

LEMMA ReceiveKeepsEscrow ==
  ASSUME TypeOK, Escrow, NEW w \in Workers, NEW q, Receive(w, q),
         \A v \in Workers : v = w,
         q.op \in {"bid", "cancelAuction", "close"} =>
           /\ q.auction \in Auctions /\ q.seen = auctions[q.auction]
           /\ q.op = "bid" => q.seen.leader # q.by
  PROVE  Escrow'
<1>1. UNCHANGED <<auctions, paidIn>> /\ req'[w] = q
  BY DEF Receive, TypeOK
<1>2. PaidInIsTheLeadingBid'
  BY <1>1 DEF Escrow, PaidInIsTheLeadingBid
<1>3. SeenIsCurrent'
  BY <1>1 DEF SeenIsCurrent
<1> QED
  BY <1>2, <1>3 DEF Escrow

LEMMA CheckKeepsEscrow ==
  ASSUME TypeOK, Escrow, NEW w \in Workers, Check(w), \A v \in Workers : v = w
  PROVE  Escrow'
<1>1. CASE bidCheck(w)
  <2>1. PICK r \in Owners, a \in Auctions, amount \in 1..MaxBid :
          /\ auctions[a].leader # r
          /\ Receive(w, [op |-> "bid", by |-> r, auction |-> a, amount |-> amount,
                         seen |-> auctions[a], since |-> now])
    BY <1>1 DEF bidCheck, Trade
  <2> QED
    BY <2>1, ReceiveKeepsEscrow
<1>2. CASE createAuctionCheck(w) \/ cancelAuctionCheck(w) \/ \E a \in Auctions : closeCheck(w, a)
  BY <1>2, ReceiveKeepsEscrow DEF createAuctionCheck, cancelAuctionCheck, closeCheck
<1>3. CASE createOfferCheck(w)
  BY <1>3, ReceiveKeepsEscrow DEF createOfferCheck, Trade
<1>4. CASE rejectCheck(w) \/ acceptCheck(w) \/ withdrawCheck(w) \/ removePlayerCheck(w)
  BY <1>4, ReceiveKeepsEscrow DEF rejectCheck, acceptCheck, withdrawCheck, removePlayerCheck
<1>5. CASE buyFreeAgentCheck(w) \/ releaseCheck(w) \/ signFromBaseCheck(w)
  BY <1>5, ReceiveKeepsEscrow DEF buyFreeAgentCheck, releaseCheck, signFromBaseCheck, Trade
<1> QED
  BY <1>1, <1>2, <1>3, <1>4, <1>5 DEF Check

\* After a Commit step nothing is in flight, so only the money is left to show.
LEMMA CommitKeepsEscrow ==
  ASSUME TypeOK, Escrow, NEW w \in Workers, Commit(w), \A v \in Workers : v = w
  PROVE  Escrow'
<1> USE MarketAssumption
<1>a. /\ auctions \in [Auctions -> {NoAuction} \cup AuctionRow]
      /\ paidIn \in [Auctions -> [Rosters -> Int]]
      /\ \A a \in Auctions, r \in Rosters : paidIn[a][r] = Locked(auctions[a], r)
  BY DEF TypeOK, Escrow, PaidInIsTheLeadingBid, Locked
<1>b. \A a \in Auctions : Exists(auctions[a]) => auctions[a] \in AuctionRow
  BY <1>a DEF Exists, NoAuction
<1>1. Reply(w) /\ SeenIsCurrent'
  <2>1. Reply(w)
    BY DEF Commit, createAuctionCommit, bidCommit, cancelAuctionCommit, closeCommit,
           closeWithoutBids, closeSold, createOfferCommit, rejectCommit, acceptCommit,
           withdrawCommit, buyFreeAgentCommit, releaseCommit, signFromBaseCommit,
           removePlayerCommit
  <2> QED
    BY <2>1 DEF Reply, SeenIsCurrent, Idle, TypeOK
<1>2. SUFFICES \A a \in Auctions, r \in Rosters : paidIn'[a][r] = Locked(auctions'[a], r)
  BY <1>1 DEF Escrow, PaidInIsTheLeadingBid, Locked
<1> TAKE a \in Auctions, r \in Rosters
<1>3. CASE createAuctionCommit(w)
  <2>1. PICK b \in Auctions :
          /\ auctions[b].status = "NONE" /\ paidIn' = paidIn
          /\ auctions' = [auctions EXCEPT ![b] =
               [NoAuction EXCEPT !.status = "OPEN", !.player = req[w].player,
                                 !.seller = req[w].seller, !.startingBid = req[w].startingBid,
                                 !.endsAt = now + AuctionHours]]
    BY <1>3 DEF createAuctionCommit
  <2>2. auctions[b] = NoAuction /\ auctions[b].leader = None
    BY <1>a, <2>1 DEF AuctionRow, NoAuction
  <2>3. auctions'[b].leader = None
    BY <1>a, <2>1 DEF NoAuction
  <2>4. CASE a = b
    BY <1>a, <2>1, <2>2, <2>3, <2>4 DEF Locked
  <2>5. CASE a # b
    BY <1>a, <2>1, <2>5
  <2> QED
    BY <2>4, <2>5
<1>4. CASE bidCommit(w)
  <2> DEFINE q == req[w]
             b == q.auction
  <2>1. /\ q \in BidRequest /\ b \in Auctions /\ q.seen = auctions[b]
        /\ q.seen.leader # q.by /\ q.by \in Rosters /\ q.amount \in Nat
        /\ auctions[b] \in AuctionRow /\ auctions[b].currentBid \in Nat
        /\ auctions[b].leader \in NullRoster
    <3>1. Serving(w, "bid") /\ Exists(auctions[b])
      BY <1>4 DEF bidCommit
    <3>2. q \in BidRequest
      BY <3>1, InFlight
    <3>3. b \in Auctions /\ q.seen = auctions[b] /\ q.seen.leader # q.by
      BY <3>1 DEF Serving, Escrow, SeenIsCurrent
    <3> QED
      BY <1>b, <3>1, <3>2, <3>3 DEF BidRequest, AuctionRow
  <2> DEFINE old == auctions[b].leader
             cur == auctions[b].currentBid
             placed == [paidIn EXCEPT ![b][q.by] = @ + q.amount]
  <2>2. PICK end :
        /\ paidIn' = IF old = None THEN placed ELSE [placed EXCEPT ![b][old] = @ - cur]
        /\ auctions' = [auctions EXCEPT ![b].currentBid = q.amount, ![b].leader = q.by,
                                        ![b].bidCount = @ + 1, ![b].endsAt = end]
    BY <1>4, <2>1 DEF bidCommit
  <2>3. CASE a # b
    BY <1>a, <2>1, <2>2, <2>3
  <2>4. CASE a = b
    <3>1. auctions'[b].leader = q.by /\ auctions'[b].currentBid = q.amount
      BY <1>a, <2>1, <2>2 DEF AuctionRow
    <3>2. /\ paidIn[b][q.by] = 0
          /\ \A x \in Rosters : x # old => paidIn[b][x] = 0
          /\ old \in Rosters => paidIn[b][old] = cur
      BY <1>a, <2>1 DEF Locked
    <3>3. /\ placed \in [Auctions -> [Rosters -> Int]]
          /\ placed[b][q.by] = q.amount
          /\ \A x \in Rosters : x # q.by => placed[b][x] = paidIn[b][x]
      <4>1. paidIn[b] \in [Rosters -> Int] /\ paidIn[b][q.by] + q.amount = q.amount
        BY <1>a, <2>1, <3>2
      <4>2. placed = [paidIn EXCEPT ![b][q.by] = q.amount]
        BY <1>a, <2>1, <4>1
      <4>3. placed \in [Auctions -> [Rosters -> Int]]
        BY <1>a, <2>1, <4>2, PaidInTyped
      <4> QED
        BY <1>a, <2>1, <4>1, <4>2, <4>3
    <3> HIDE DEF placed
    <3>4. CASE old = None
      BY <2>1, <2>2, <2>4, <3>1, <3>2, <3>3, <3>4 DEF Locked
    <3>5. CASE old # None
      <4>1. old \in Rosters
        BY <2>1, <3>5 DEF NullRoster
      <4>2. placed[b][old] - cur = 0
        BY <2>1, <3>2, <3>3, <4>1
      <4>3. paidIn' = [placed EXCEPT ![b][old] = 0]
        BY <2>1, <2>2, <3>3, <3>5, <4>2
      <4> HIDE DEF old
      <4>4. /\ paidIn'[b][old] = 0
            /\ \A x \in Rosters : x # old => paidIn'[b][x] = placed[b][x]
        BY <2>1, <3>3, <4>1, <4>3
      <4>5. old # q.by
        BY <2>1 DEF old
      <4> QED
        BY <2>1, <2>4, <3>1, <3>2, <3>3, <4>1, <4>4, <4>5 DEF Locked
    <3> QED
      BY <3>4, <3>5
  <2> QED
    BY <2>3, <2>4
<1>5. CASE cancelAuctionCommit(w)
  <2> DEFINE b == req[w].auction
             old == auctions[b].leader
             cur == auctions[b].currentBid
  <2>1. /\ b \in Auctions /\ req[w].seen = auctions[b]
        /\ auctions[b] \in AuctionRow /\ cur \in Nat /\ old \in NullRoster
    <3>1. Serving(w, "cancelAuction") /\ Exists(auctions[b])
      BY <1>5 DEF cancelAuctionCommit
    <3>2. b \in Auctions /\ req[w].seen = auctions[b]
      BY <3>1 DEF Serving, Escrow, SeenIsCurrent
    <3> QED
      BY <1>b, <3>1, <3>2 DEF AuctionRow
  <2>2. /\ paidIn' = IF old = None THEN paidIn ELSE [paidIn EXCEPT ![b][old] = @ - cur]
        /\ auctions' = [auctions EXCEPT ![b].status = "CANCELLED", ![b].leader = None,
                                        ![b].currentBid = 0]
    BY <1>5, <2>1 DEF cancelAuctionCommit
  <2>3. CASE a # b
    BY <1>a, <2>1, <2>2, <2>3
  <2>4. CASE a = b
    <3>1. auctions'[b].leader = None
      BY <1>a, <2>1, <2>2 DEF AuctionRow
    <3>2. \A x \in Rosters : paidIn[b][x] = IF x = old THEN cur ELSE 0
      BY <1>a, <2>1 DEF Locked
    <3>3. CASE old = None
      BY <2>2, <2>4, <3>1, <3>2, <3>3 DEF Locked
    <3>4. CASE old # None
      <4>1. old \in Rosters
        BY <2>1, <3>4 DEF NullRoster
      <4>2. paidIn[b][old] - cur = 0
        BY <2>1, <3>2, <4>1
      <4>3. paidIn' = [paidIn EXCEPT ![b][old] = 0]
        BY <1>a, <2>1, <2>2, <3>4, <4>2
      <4>4. paidIn'[b][r] = 0
        BY <1>a, <2>1, <3>2, <4>1, <4>3
      <4> QED
        BY <2>4, <3>1, <4>4 DEF Locked
    <3> QED
      BY <3>3, <3>4
  <2> QED
    BY <2>3, <2>4
<1>6. CASE closeCommit(w)
  <2> DEFINE b == req[w].auction
  <2>1. PICK st \in {"SOLD", "EXPIRED"} :
          /\ Exists(auctions[b]) /\ paidIn' = paidIn
          /\ auctions' = [auctions EXCEPT ![b].status = st]
    BY <1>6 DEF closeCommit, closeWithoutBids, closeSold
  <2>2. /\ auctions'[a].leader = auctions[a].leader
        /\ auctions'[a].currentBid = auctions[a].currentBid
    BY <1>a, <1>b, <2>1 DEF AuctionRow
  <2> QED
    BY <1>a, <2>1, <2>2 DEF Locked
<1>7. CASE removePlayerCommit(w)
  <2>1. /\ paidIn' = paidIn
        /\ \/ auctions'[a] = auctions[a]
           \/ /\ auctions'[a] = [auctions[a] EXCEPT !.status = "DELETED"]
              /\ auctions[a].player = req[w].player
    BY <1>7 DEF removePlayerCommit
  <2>2. /\ auctions'[a].leader = auctions[a].leader
        /\ auctions'[a].currentBid = auctions[a].currentBid
    BY <1>a, <2>1 DEF AuctionRow, NoAuction
  <2> QED
    BY <1>a, <2>1, <2>2 DEF Locked
<1>8. CASE UNCHANGED <<auctions, paidIn>>
  BY <1>a, <1>8
<1> QED
  BY <1>3, <1>4, <1>5, <1>6, <1>7, <1>8 DEF Commit, createOfferCommit, rejectCommit,
     acceptCommit, withdrawCommit, buyFreeAgentCommit, releaseCommit, signFromBaseCommit

LEMMA StepKeepsEscrow ==
  ASSUME TypeOK, Escrow, [Next]_vars, \A v, w \in Workers : v = w
  PROVE  Escrow'
<1>1. CASE \E w \in Workers : Check(w) \/ Commit(w)
  BY <1>1, CheckKeepsEscrow, CommitKeepsEscrow
<1>2. CASE (\E w \in Workers : rollback(w)) \/ toggleWindow \/ settleMatch \/ tick \/ UNCHANGED vars
  <2>1. UNCHANGED <<auctions, paidIn>>
    BY <1>2 DEF rollback, toggleWindow, settleMatch, tick, vars
  <2>2. \A v \in Workers : req'[v] \in {req[v], Idle}
    BY <1>2 DEF rollback, Reply, toggleWindow, settleMatch, tick, vars, TypeOK
  <2>3. PaidInIsTheLeadingBid'
    BY <2>1 DEF Escrow, PaidInIsTheLeadingBid
  <2>4. SeenIsCurrent'
    BY <2>1, <2>2 DEF Escrow, SeenIsCurrent, Idle
  <2> QED
    BY <2>3, <2>4 DEF Escrow
<1> QED
  BY <1>1, <1>2 DEF Next
-----------------------------------------------------------------------------
(* What a request in flight has checked still holds when it commits: nothing else *)
(* writes the owners, the auctions or the offers.                                 *)

Holds(q) ==
  /\ q.op = "createAuction" => q.startingBid > 0
  /\ q.op = "createOffer" =>
       q.row.status = "PENDING" /\ (q.row.kind = "BUY_FROM_ROSTER" => q.row.offered = None)
  /\ q.op \in {"bid", "cancelAuction", "close"} => q.seen.status = "OPEN"
  /\ q.op = "bid" => q.amount > q.seen.currentBid
  /\ q.op \in {"reject", "accept", "withdraw"} => offers[q.offer].status = "PENDING"
  /\ q.op = "accept" =>
       /\ owner[offers[q.offer].player] = offers[q.offer].to
       /\ offers[q.offer].kind = "SWAP" => owner[offers[q.offer].offered] = offers[q.offer].from
  /\ q.op \in {"buyFreeAgent", "signFromBase"} =>
       owner[q.player] \notin Rosters /\ squadSize(q.by) < RosterSize
  /\ q.op = "release" => owner[q.player] = q.by
  /\ q.op = "removePlayer" => owner[q.player] = None

RowsAreSound ==
  /\ \A a \in Auctions : auctions[a].status = "OPEN" =>
       auctions[a].startingBid > 0 /\ (auctions[a].bidCount = 0 => auctions[a].currentBid = 0)
  /\ \A o \in Offers : offers[o].kind = "BUY_FROM_ROSTER" => offers[o].offered = None

ReadsHold == RowsAreSound /\ \A w \in Workers : Holds(req[w])

LEMMA HoldsStill ==
  ASSUME NEW q, Holds(q), UNCHANGED <<owner, auctions, offers>>
  PROVE  Holds(q)'
BY DEF Holds, squadSize, Squad

LEMMA ReceiveHolds ==
  ASSUME TypeOK, ReadsHold, NEW w \in Workers, NEW q, Receive(w, q), Holds(q),
         \A v \in Workers : v = w
  PROVE  ReadsHold'
<1>1. UNCHANGED <<owner, auctions, offers>> /\ req'[w] = q
  BY DEF Receive, TypeOK
<1>2. RowsAreSound'
  BY <1>1 DEF ReadsHold, RowsAreSound
<1>3. Holds(q)'
  BY <1>1, HoldsStill
<1> QED
  BY <1>1, <1>2, <1>3 DEF ReadsHold, Holds, squadSize, Squad

LEMMA HigherBid ==
  ASSUME NEW row \in AuctionRow, row.startingBid > 0, row.bidCount = 0 => row.currentBid = 0,
         NEW amount \in Int,
         amount >= minimumBid(row.currentBid, row.startingBid, row.bidCount, IncrementPercent)
  PROVE  amount > row.currentBid
<1>1. row.currentBid \in Nat /\ row.startingBid \in Nat /\ IncrementPercent \in Nat
  BY MarketAssumption DEF AuctionRow
<1>2. bidStep(row.currentBid, IncrementPercent) >= 1 /\ bidStep(row.currentBid, IncrementPercent) \in Int
  <2>1. row.currentBid * IncrementPercent \in Int
    BY <1>1
  <2>2. CeilDiv(row.currentBid * IncrementPercent, 100) \in Int
    BY <2>1 DEF CeilDiv
  <2> QED
    BY <2>2 DEF bidStep
<1> QED
  BY <1>1, <1>2 DEF minimumBid

LEMMA CheckHolds ==
  ASSUME TypeOK, ReadsHold, NEW w \in Workers, Check(w), \A v \in Workers : v = w
  PROVE  ReadsHold'
<1> USE MarketAssumption
<1>1. SUFFICES \E q : Receive(w, q) /\ Holds(q)
  BY ReceiveHolds
<1>2. CASE bidCheck(w)
  <2>1. PICK r \in Owners, a \in Auctions, amount \in 1..MaxBid :
          /\ auctions[a].status = "OPEN"
          /\ amount >= minimumBid(auctions[a].currentBid, auctions[a].startingBid,
                                  auctions[a].bidCount, IncrementPercent)
          /\ Receive(w, [op |-> "bid", by |-> r, auction |-> a, amount |-> amount,
                         seen |-> auctions[a], since |-> now])
    BY <1>2 DEF bidCheck, Trade
  <2> DEFINE q == [op |-> "bid", by |-> r, auction |-> a, amount |-> amount, seen |-> auctions[a],
                    since |-> now]
  <2>2. auctions[a] \in AuctionRow
    BY <2>1 DEF TypeOK, NoAuction
  <2>3. amount > auctions[a].currentBid
    BY <2>1, <2>2, HigherBid DEF ReadsHold, RowsAreSound
  <2>4. Holds(q)
    BY <2>1, <2>3 DEF Holds
  <2> QED
    BY <2>1, <2>4
<1>3. CASE createAuctionCheck(w)
  <2>1. PICK p \in InLeague, bid \in StartingBids :
          Receive(w, [op |-> "createAuction", player |-> p, seller |-> owner[p], startingBid |-> bid])
    BY <1>3 DEF createAuctionCheck
  <2> DEFINE q == [op |-> "createAuction", player |-> p, seller |-> owner[p], startingBid |-> bid]
  <2>3. q.op = "createAuction" /\ q.startingBid > 0
    OBVIOUS
  <2> HIDE DEF q
  <2>2. Holds(q)
    BY ONLY <2>3 DEF Holds
  <2> USE DEF q
  <2> QED
    BY <2>1, <2>2
<1>4. CASE cancelAuctionCheck(w)
  BY <1>4 DEF cancelAuctionCheck, Holds
<1>5. CASE \E a \in Auctions : closeCheck(w, a)
  BY <1>5 DEF closeCheck, Holds
<1>6. CASE createOfferCheck(w)
  <2>1. PICK r \in Owners, p \in InLeague, price \in OfferPrices,
             kind \in {"BUY_FROM_ROSTER", "SWAP"}, offered \in Players \cup {None} :
          /\ kind = "BUY_FROM_ROSTER" => offered = None
          /\ Receive(w, [op |-> "createOffer",
                         row |-> [status |-> "PENDING", kind |-> kind, player |-> p, from |-> r,
                                  to |-> owner[p], offered |-> offered, price |-> price]])
    BY <1>6 DEF createOfferCheck, Trade
  <2>2. Holds([op |-> "createOffer",
               row |-> [status |-> "PENDING", kind |-> kind, player |-> p, from |-> r,
                        to |-> owner[p], offered |-> offered, price |-> price]])
    BY <2>1 DEF Holds
  <2> QED
    BY <2>1, <2>2
<1>7. CASE rejectCheck(w) \/ acceptCheck(w) \/ withdrawCheck(w)
  <2>1. PICK o \in Offers, op \in {"reject", "accept", "withdraw"} :
          /\ offers[o].status = "PENDING"
          /\ op = "accept" => /\ owner[offers[o].player] = offers[o].to
                              /\ offers[o].kind = "SWAP" => owner[offers[o].offered] = offers[o].from
          /\ Receive(w, [op |-> op, offer |-> o])
    BY <1>7 DEF rejectCheck, acceptCheck, withdrawCheck
  <2>2. Holds([op |-> op, offer |-> o])
    BY <2>1 DEF Holds
  <2> QED
    BY <2>1, <2>2
<1>8. CASE buyFreeAgentCheck(w) \/ signFromBaseCheck(w)
  <2>1. PICK r \in Owners, p \in Players, op \in {"buyFreeAgent", "signFromBase"} :
          /\ owner[p] \notin Rosters /\ squadSize(r) < RosterSize
          /\ Receive(w, [op |-> op, by |-> r, player |-> p])
    BY <1>8 DEF buyFreeAgentCheck, signFromBaseCheck, Trade, InLeague, NullRoster
  <2>2. Holds([op |-> op, by |-> r, player |-> p])
    BY <2>1 DEF Holds
  <2> QED
    BY <2>1, <2>2
<1>9. CASE releaseCheck(w)
  BY <1>9 DEF releaseCheck, Trade, Holds, Squad
<1>10. CASE removePlayerCheck(w)
  BY <1>10 DEF removePlayerCheck, Holds
<1> QED
  BY <1>2, <1>3, <1>4, <1>5, <1>6, <1>7, <1>8, <1>9, <1>10 DEF Check

LEMMA CommitHolds ==
  ASSUME TypeOK, Escrow, ReadsHold, NEW w \in Workers, Commit(w), \A v \in Workers : v = w
  PROVE  ReadsHold'
<1> USE MarketAssumption
<1>1. \A v \in Workers : Holds(req[v])'
  <2>1. Reply(w)
    BY DEF Commit, createAuctionCommit, bidCommit, cancelAuctionCommit, closeCommit,
           closeWithoutBids, closeSold, createOfferCommit, rejectCommit, acceptCommit,
           withdrawCommit, buyFreeAgentCommit, releaseCommit, signFromBaseCommit,
           removePlayerCommit
  <2> QED
    BY <2>1 DEF Reply, Holds, Idle, TypeOK
<1>2. SUFFICES RowsAreSound'
  BY <1>1 DEF ReadsHold
<1>3. ASSUME NEW a \in Auctions, auctions'[a].status = "OPEN"
      PROVE  auctions'[a].startingBid > 0 /\ (auctions'[a].bidCount = 0 => auctions'[a].currentBid = 0)
  <2>1. auctions \in [Auctions -> {NoAuction} \cup AuctionRow]
    BY DEF TypeOK
  <2>2. CASE createAuctionCommit(w)
    <3>1. PICK b \in Auctions :
            /\ Serving(w, "createAuction")
            /\ auctions' = [auctions EXCEPT ![b] =
               [NoAuction EXCEPT !.status = "OPEN", !.player = req[w].player,
                                 !.seller = req[w].seller, !.startingBid = req[w].startingBid,
                                 !.endsAt = now + AuctionHours]]
      BY <2>2 DEF createAuctionCommit
    <3>2. req[w].startingBid > 0
      BY <3>1 DEF ReadsHold, Holds, Serving
    <3>3. CASE a = b
      BY <2>1, <3>1, <3>2, <3>3 DEF NoAuction
    <3>4. CASE a # b
      BY <1>3, <2>1, <3>1, <3>4 DEF ReadsHold, RowsAreSound
    <3> QED
      BY <3>3, <3>4
  <2>3. CASE bidCommit(w)
    <3> DEFINE b == req[w].auction
    <3>1. /\ Serving(w, "bid") /\ Exists(auctions[b]) /\ b \in Auctions
          /\ auctions[b].status = "OPEN"
      BY <2>3 DEF bidCommit, Serving, ReadsHold, Holds, Escrow, SeenIsCurrent
    <3>2. auctions[b] \in AuctionRow
      BY <2>1, <3>1 DEF NoAuction
    <3>3. PICK end : auctions' = [auctions EXCEPT ![b].currentBid = req[w].amount, ![b].leader = req[w].by,
              ![b].bidCount = @ + 1, ![b].endsAt = end]
      BY <2>3 DEF bidCommit
    <3>4. CASE a = b
      <4>1. /\ auctions'[b].startingBid = auctions[b].startingBid
            /\ auctions'[b].bidCount = auctions[b].bidCount + 1
        BY <2>1, <3>1, <3>2, <3>3 DEF AuctionRow
      <4>2. auctions[b].bidCount \in Nat /\ auctions[b].startingBid > 0
        BY <3>1, <3>2 DEF AuctionRow, ReadsHold, RowsAreSound
      <4> QED
        BY <3>4, <4>1, <4>2
    <3>5. CASE a # b
      BY <1>3, <2>1, <3>3, <3>5 DEF ReadsHold, RowsAreSound
    <3> QED
      BY <3>4, <3>5
  <2>4. CASE cancelAuctionCommit(w)
    <3>1. auctions' = [auctions EXCEPT ![req[w].auction].status = "CANCELLED",
                         ![req[w].auction].leader = None, ![req[w].auction].currentBid = 0]
      BY <2>4 DEF cancelAuctionCommit
    <3>2. a # req[w].auction
      BY <1>3, <2>1, <3>1 DEF AuctionRow, NoAuction
    <3> QED
      BY <1>3, <2>1, <3>1, <3>2 DEF ReadsHold, RowsAreSound
  <2>5. CASE closeCommit(w)
    <3>1. PICK st \in {"SOLD", "EXPIRED"} :
            auctions' = [auctions EXCEPT ![req[w].auction].status = st]
      BY <2>5 DEF closeCommit, closeWithoutBids, closeSold
    <3>2. a # req[w].auction
      BY <1>3, <2>1, <3>1 DEF AuctionRow, NoAuction
    <3> QED
      BY <1>3, <2>1, <3>1, <3>2 DEF ReadsHold, RowsAreSound
  <2>6. CASE removePlayerCommit(w)
    <3>1. \/ auctions'[a] = auctions[a]
          \/ auctions'[a] = [auctions[a] EXCEPT !.status = "DELETED"]
      BY <2>6 DEF removePlayerCommit
    <3>2. auctions'[a] = auctions[a]
      BY <1>3, <2>1, <3>1 DEF AuctionRow, NoAuction
    <3> QED
      BY <1>3, <3>2 DEF ReadsHold, RowsAreSound
  <2>7. CASE auctions' = auctions
    BY <1>3, <2>7 DEF ReadsHold, RowsAreSound
  <2> QED
    BY <2>2, <2>3, <2>4, <2>5, <2>6, <2>7 DEF Commit, createOfferCommit, rejectCommit,
       acceptCommit, withdrawCommit, buyFreeAgentCommit, releaseCommit, signFromBaseCommit
<1>4. ASSUME NEW o \in Offers, offers'[o].kind = "BUY_FROM_ROSTER"
      PROVE  offers'[o].offered = None
  <2>1. offers \in [Offers -> {NoOffer} \cup OfferRow]
    BY DEF TypeOK
  <2>2. CASE createOfferCommit(w)
    <3>1. PICK b \in Offers : offers' = [offers EXCEPT ![b] = req[w].row]
      BY <2>2 DEF createOfferCommit
    <3>2. req[w].row.kind = "BUY_FROM_ROSTER" => req[w].row.offered = None
      BY <2>2 DEF createOfferCommit, Serving, ReadsHold, Holds
    <3>3. CASE o = b
      BY <1>4, <2>1, <3>1, <3>2, <3>3
    <3>4. CASE o # b
      BY <1>4, <2>1, <3>1, <3>4 DEF ReadsHold, RowsAreSound
    <3> QED
      BY <3>3, <3>4
  <2>3. CASE \E s : offers'[o] = [offers[o] EXCEPT !.status = s] \/ offers'[o] = offers[o]
    <3>1. offers'[o].kind = offers[o].kind /\ offers'[o].offered = offers[o].offered
      BY <2>1, <2>3 DEF OfferRow, NoOffer
    <3> QED
      BY <1>4, <3>1 DEF ReadsHold, RowsAreSound
  <2>4. CASE rejectCommit(w) \/ withdrawCommit(w)
    BY <2>1, <2>3, <2>4 DEF rejectCommit, withdrawCommit
  <2>5. CASE acceptCommit(w)
    BY <2>1, <2>3, <2>5 DEF acceptCommit, CancelPending
  <2>6. CASE closeSold(w) \/ removePlayerCommit(w)
    BY <2>1, <2>3, <2>6 DEF closeSold, CancelPending, removePlayerCommit
  <2>7. CASE offers' = offers
    BY <1>4, <2>7 DEF ReadsHold, RowsAreSound
  <2> QED
    BY <2>2, <2>4, <2>5, <2>6, <2>7 DEF Commit, createAuctionCommit, bidCommit,
       cancelAuctionCommit, closeCommit, closeWithoutBids, buyFreeAgentCommit, releaseCommit,
       signFromBaseCommit
<1> QED
  BY <1>3, <1>4 DEF RowsAreSound

LEMMA StepHolds ==
  ASSUME TypeOK, Escrow, ReadsHold, [Next]_vars, \A v, w \in Workers : v = w
  PROVE  ReadsHold'
<1>1. CASE \E w \in Workers : Check(w) \/ Commit(w)
  BY <1>1, CheckHolds, CommitHolds
<1>2. CASE (\E w \in Workers : rollback(w)) \/ toggleWindow \/ settleMatch \/ tick \/ UNCHANGED vars
  <2>1. UNCHANGED <<owner, auctions, offers>>
    BY <1>2 DEF rollback, toggleWindow, settleMatch, tick, vars
  <2>2. \A v \in Workers : req'[v] \in {req[v], Idle}
    BY <1>2 DEF rollback, Reply, toggleWindow, settleMatch, tick, vars, TypeOK
  <2>3. \A v \in Workers : Holds(req[v])'
    BY <2>1, <2>2 DEF Holds, Idle, squadSize, Squad, ReadsHold
  <2> QED
    BY <2>1, <2>3 DEF ReadsHold, RowsAreSound
<1> QED
  BY <1>1, <1>2 DEF Next
-----------------------------------------------------------------------------
(* Every step of the market is a step of every auction's house.                   *)

\* The money held is the leader's alone.
LEMMA HeldByTheLeader ==
  ASSUME NEW a \in Auctions, NEW held \in [Rosters -> Int], NEW row,
         \A r \in Rosters : held[r] = Locked(row, r), None \notin Rosters
  PROVE  /\ row.leader \in Rosters => held = House(a)!HeldBy(row.leader, row.currentBid)
         /\ row.leader = None => held = House(a)!NothingHeld
BY DEF House!HeldBy, House!NothingHeld, Locked

LEMMA CommitIsHouseStep ==
  ASSUME TypeOK, TypeOK', Escrow, Escrow', ReadsHold, NEW w \in Workers, Commit(w),
         NEW a \in Auctions
  PROVE  [House(a)!HouseNext]_(House(a)!houseVars)
<1> USE MarketAssumption
<1>1. /\ auctions \in [Auctions -> {NoAuction} \cup AuctionRow]
      /\ auctions' \in [Auctions -> {NoAuction} \cup AuctionRow]
      /\ paidIn \in [Auctions -> [Rosters -> Int]] /\ paidIn' \in [Auctions -> [Rosters -> Int]]
      /\ \A r \in Rosters : paidIn[a][r] = Locked(auctions[a], r)
      /\ \A r \in Rosters : paidIn'[a][r] = Locked(auctions'[a], r)
  BY DEF TypeOK, Escrow, PaidInIsTheLeadingBid, Locked
<1> DEFINE row == auctions[a]
           new == auctions'[a]
<1>2. /\ new.leader \in Rosters => paidIn'[a] = House(a)!HeldBy(new.leader, new.currentBid)
      /\ new.leader = None => paidIn'[a] = House(a)!NothingHeld
  <2>1. paidIn'[a] \in [Rosters -> Int]
    BY <1>1
  <2> QED
    BY <1>1, <2>1, HeldByTheLeader
<1>3. ASSUME new = row /\ paidIn'[a] = paidIn[a]
      PROVE  UNCHANGED House(a)!houseVars
  BY <1>3 DEF House!houseVars
<1>4. CASE createAuctionCommit(w)
  <2>1. PICK b \in Auctions :
          /\ auctions[b].status = "NONE" /\ paidIn' = paidIn
          /\ auctions' = [auctions EXCEPT ![b] =
               [NoAuction EXCEPT !.status = "OPEN", !.player = req[w].player,
                                 !.seller = req[w].seller, !.startingBid = req[w].startingBid,
                                 !.endsAt = now + AuctionHours]]
    BY <1>4 DEF createAuctionCommit
  <2>2. CASE a = b
    <3>1. auctions[b] = NoAuction
      BY <1>1, <2>1 DEF AuctionRow
    <3>2. new.status = "OPEN" /\ new.leader = None /\ new.currentBid = 0
      BY <1>1, <2>1, <2>2 DEF NoAuction
    <3>3. House(a)!Open
      BY <2>1, <2>2, <3>1, <3>2 DEF House!Open, NoAuction
    <3> QED
      BY <3>3 DEF House!HouseNext
  <2>3. CASE a # b
    BY <1>1, <1>3, <2>1, <2>3
  <2> QED
    BY <2>2, <2>3
<1>5. CASE bidCommit(w) /\ a = req[w].auction
  <2>1. /\ row.status = "OPEN" /\ row.leader # req[w].by /\ req[w].amount > row.currentBid
        /\ req[w].by \in Rosters /\ req[w].amount \in Nat
    <3>1. Serving(w, "bid") /\ req[w].op = "bid"
      BY <1>5 DEF bidCommit, Serving
    <3>2. req[w].seen = row /\ req[w].seen.leader # req[w].by /\ req[w].seen.status = "OPEN"
          /\ req[w].amount > req[w].seen.currentBid
      BY <1>5, <3>1 DEF Escrow, SeenIsCurrent, ReadsHold, Holds
    <3>3. req[w] \in BidRequest
      BY <3>1, InFlight
    <3> QED
      BY <3>2, <3>3 DEF BidRequest
  <2>2. row \in AuctionRow
    BY <1>1, <2>1 DEF NoAuction
  <2>3. PICK end : auctions' = [auctions EXCEPT ![a].currentBid = req[w].amount, ![a].leader = req[w].by,
            ![a].bidCount = @ + 1, ![a].endsAt = end]
    BY <1>5 DEF bidCommit
  <2>4. /\ new.status = row.status /\ new.leader = req[w].by /\ new.currentBid = req[w].amount
    BY <1>1, <2>2, <2>3 DEF AuctionRow
  <2>5. House(a)!Bid
    BY <1>2, <2>1, <2>4 DEF House!Bid
  <2> QED
    BY <2>5 DEF House!HouseNext
<1>6. CASE cancelAuctionCommit(w) /\ a = req[w].auction
  <2>1. row.status = "OPEN" /\ row \in AuctionRow
    <3>1. Serving(w, "cancelAuction") /\ req[w].op = "cancelAuction"
      BY <1>6 DEF cancelAuctionCommit, Serving
    <3> QED
      BY <1>1, <1>6, <3>1 DEF Escrow, SeenIsCurrent, ReadsHold, Holds, NoAuction
  <2>2. auctions' = [auctions EXCEPT ![a].status = "CANCELLED", ![a].leader = None, ![a].currentBid = 0]
    BY <1>6 DEF cancelAuctionCommit
  <2>3. new.status = "CANCELLED" /\ new.leader = None /\ new.currentBid = 0
    BY <1>1, <2>1, <2>2 DEF AuctionRow
  <2>4. House(a)!Cancel
    BY <1>2, <2>1, <2>3 DEF House!Cancel
  <2> QED
    BY <2>4 DEF House!HouseNext
<1>7. CASE closeCommit(w) /\ a = req[w].auction
  <2>1. row.status = "OPEN" /\ row \in AuctionRow /\ req[w].seen = row
    <3>1. Serving(w, "close") /\ req[w].op = "close"
      BY <1>7 DEF closeCommit, closeWithoutBids, closeSold, Serving
    <3> QED
      BY <1>1, <1>7, <3>1 DEF Escrow, SeenIsCurrent, ReadsHold, Holds, NoAuction
  <2>2. PICK st \in {"SOLD", "EXPIRED"} :
          /\ auctions' = [auctions EXCEPT ![a].status = st] /\ paidIn' = paidIn
          /\ st = "EXPIRED" <=> row.leader = None
    BY <1>7, <2>1 DEF closeCommit, closeWithoutBids, closeSold
  <2>3. new.status = st /\ new.leader = row.leader /\ new.currentBid = row.currentBid
    BY <1>1, <2>1, <2>2 DEF AuctionRow
  <2>4. House(a)!Expire \/ House(a)!Sell
    BY <2>1, <2>2, <2>3 DEF House!Expire, House!Sell
  <2> QED
    BY <2>4 DEF House!HouseNext
<1>8. CASE removePlayerCommit(w)
  <2>1. /\ paidIn' = paidIn
        /\ \/ new = row
           \/ new = [row EXCEPT !.status = "DELETED"] /\ row.player = req[w].player
    BY <1>8 DEF removePlayerCommit
  <2>2. CASE new # row
    <3>1. req[w].player \in Players
      BY <1>8, InFlight DEF removePlayerCommit, RemovalRequest
    <3>2. row \in AuctionRow
      BY <1>1, <2>1, <2>2, <3>1 DEF NoAuction
    <3>3. new.status = "DELETED" /\ new.leader = row.leader /\ new.currentBid = row.currentBid
          /\ row.status # "NONE"
      BY <2>1, <2>2, <3>2 DEF AuctionRow
    <3>4. House(a)!Delete
      BY <2>1, <3>3 DEF House!Delete
    <3> QED
      BY <3>4 DEF House!HouseNext
  <2> QED
    BY <1>3, <2>1, <2>2
<1>9. CASE (bidCommit(w) \/ cancelAuctionCommit(w) \/ closeCommit(w)) /\ a # req[w].auction
  <2>1. new = row
    BY <1>1, <1>9 DEF bidCommit, cancelAuctionCommit, closeCommit, closeWithoutBids, closeSold
  <2>2. paidIn'[a] = paidIn[a]
    BY <1>1, <2>1 DEF Locked
  <2> QED
    BY <1>3, <2>1, <2>2
<1>10. CASE UNCHANGED <<auctions, paidIn>>
  BY <1>3, <1>10
<1> QED
  BY <1>4, <1>5, <1>6, <1>7, <1>8, <1>9, <1>10 DEF Commit, createOfferCommit, rejectCommit,
     acceptCommit, withdrawCommit, buyFreeAgentCommit, releaseCommit, signFromBaseCommit

\* Of the other steps none touches an auction.
LEMMA OnlyCommitsWrite ==
  ASSUME [Next]_vars, ~ \E w \in Workers : Commit(w)
  PROVE  UNCHANGED <<owner, auctions, paidIn, offers>>
BY DEF Next, Check, vars, rollback, toggleWindow, settleMatch, tick, createAuctionCheck, bidCheck,
       cancelAuctionCheck, closeCheck, createOfferCheck, rejectCheck, acceptCheck, withdrawCheck,
       buyFreeAgentCheck, releaseCheck, signFromBaseCheck, removePlayerCheck, Receive, Trade

LEMMA StepIsHouseStep ==
  ASSUME TypeOK, TypeOK', Escrow, Escrow', ReadsHold, [Next]_vars
  PROVE  HousesStep
<1>1. CASE \E w \in Workers : Commit(w)
  BY <1>1, CommitIsHouseStep DEF HousesStep
<1>2. CASE ~ \E w \in Workers : Commit(w)
  <2>1. UNCHANGED <<auctions, paidIn>>
    BY <1>2, OnlyCommitsWrite
  <2> QED
    BY <2>1 DEF HousesStep, House!houseVars
<1> QED
  BY <1>1, <1>2
-----------------------------------------------------------------------------
(* What a committed answer, purchase or sale does to offers and squads.           *)
-----------------------------------------------------------------------------
(* What a committed answer, purchase or sale does to offers and squads.           *)

LEMMA CommitAnswers ==
  ASSUME TypeOK, ReadsHold, NEW w \in Workers, Commit(w), NEW o \in Offers
  PROVE  /\ offers[o].status \in {"ACCEPTED", "REJECTED", "CANCELLED"}
              => offers'[o].status \in {offers[o].status, "DELETED"}
         /\ offers[o].status # "ACCEPTED" /\ offers'[o].status = "ACCEPTED"
              => /\ owner[offers[o].player] = offers[o].to
                 /\ offers[o].kind = "SWAP" => owner[offers[o].offered] = offers[o].from
<1>1. offers \in [Offers -> {NoOffer} \cup OfferRow]
  BY DEF TypeOK
<1>2. CASE createOfferCommit(w)
  <2>1. PICK b \in Offers : offers[b].status = "NONE" /\ offers' = [offers EXCEPT ![b] = req[w].row]
    BY <1>2 DEF createOfferCommit
  <2>2. req[w].row.status = "PENDING"
    BY <1>2 DEF createOfferCommit, Serving, ReadsHold, Holds
  <2> QED
    BY <1>1, <2>1, <2>2
<1>3. CASE rejectCommit(w) \/ withdrawCommit(w)
  <2>1. PICK s \in {"REJECTED", "CANCELLED"} :
          offers' = [offers EXCEPT ![req[w].offer].status = s]
    BY <1>3 DEF rejectCommit, withdrawCommit
  <2>2. req[w].op \in {"reject", "withdraw"}
    BY <1>3 DEF rejectCommit, withdrawCommit, Serving
  <2>3. offers[req[w].offer].status = "PENDING"
    BY <2>2 DEF ReadsHold, Holds
  <2>4. CASE o = req[w].offer
    <3>1. offers'[o].status = s
      BY <1>1, <2>1, <2>4 DEF NoOffer, OfferRow
    <3> QED
      BY <2>3, <2>4, <3>1
  <2>5. CASE o # req[w].offer
    BY <1>1, <2>1, <2>5
  <2> QED
    BY <2>4, <2>5
<1>4. CASE acceptCommit(w)
  <2> DEFINE b == req[w].offer
  <2>1. /\ offers[b].status = "PENDING" /\ owner[offers[b].player] = offers[b].to
        /\ offers[b].kind = "SWAP" => owner[offers[b].offered] = offers[b].from
    BY <1>4 DEF acceptCommit, Serving, ReadsHold, Holds
  <2>2. CASE o = b
    BY <2>1, <2>2
  <2>3. CASE o # b
    <3>1. offers'[o] = CancelPending(offers[b].player, {b})[o]
      BY <1>4, <2>3 DEF acceptCommit, CancelPending
    <3>2. \/ offers'[o] = offers[o]
          \/ offers[o].status = "PENDING" /\ offers'[o] = [offers[o] EXCEPT !.status = "CANCELLED"]
      BY <3>1 DEF CancelPending
    <3> QED
      BY <1>1, <3>2 DEF OfferRow, NoOffer
  <2> QED
    BY <2>2, <2>3
<1>5. CASE closeSold(w)
  <2>1. \/ offers'[o] = offers[o]
        \/ offers[o].status = "PENDING" /\ offers'[o] = [offers[o] EXCEPT !.status = "CANCELLED"]
    BY <1>5 DEF closeSold, CancelPending
  <2> QED
    BY <1>1, <2>1 DEF OfferRow, NoOffer
<1>6. CASE removePlayerCommit(w)
  <2>1. offers'[o] = offers[o] \/ offers'[o] = [offers[o] EXCEPT !.status = "DELETED"]
    BY <1>6 DEF removePlayerCommit
  <2> QED
    BY <1>1, <2>1 DEF OfferRow, NoOffer
<1>7. CASE offers' = offers
  BY <1>7
<1> QED
  BY <1>2, <1>3, <1>4, <1>5, <1>6, <1>7 DEF Commit, createAuctionCommit, bidCommit,
     cancelAuctionCommit, closeCommit, closeWithoutBids, buyFreeAgentCommit, releaseCommit,
     signFromBaseCommit

LEMMA StepAnswers ==
  ASSUME TypeOK, ReadsHold, [Next]_vars
  PROVE  AnswersStand
<1>1. CASE \E w \in Workers : Commit(w)
  BY <1>1, CommitAnswers DEF AnswersStand
<1>2. CASE ~ \E w \in Workers : Commit(w)
  <2>1. offers' = offers
    BY <1>2, OnlyCommitsWrite
  <2> QED
    BY <2>1 DEF AnswersStand
<1> QED
  BY <1>1, <1>2

\* A squad that lost players, or kept them, has not grown.
LEMMA Shrinks ==
  ASSUME IsFiniteSet(Players), NEW r, \A p \in Players : owner'[p] = r => owner[p] = r
  PROVE  ~(Cardinality({p \in Players : owner'[p] = r}) > squadSize(r))
<1> DEFINE S == {p \in Players : owner'[p] = r}
<1>1. S \subseteq Squad(r) /\ Squad(r) \subseteq Players
  BY DEF Squad
<1>2. IsFiniteSet(Squad(r))
  BY <1>1, FS_Subset
<1>3. Cardinality(S) <= Cardinality(Squad(r)) /\ Cardinality(S) \in Nat /\ Cardinality(Squad(r)) \in Nat
  BY <1>1, <1>2, FS_Subset, FS_CardinalityType
<1> QED
  BY <1>3 DEF squadSize

LEMMA CommitIsRightful ==
  ASSUME TypeOK, ReadsHold, NEW w \in Workers, Commit(w)
  PROVE  RightfulChange
<1> USE MarketAssumption
<1>1. /\ owner \in [Players -> Rosters \cup {None, Outside}]
      /\ offers \in [Offers -> {NoOffer} \cup OfferRow]
  BY DEF TypeOK
<1>2. req'[w] = Idle /\ req[w].op # "idle" /\ req'[w] # req[w]
  <2>1. Reply(w) /\ req[w].op # "idle"
    BY DEF Commit, createAuctionCommit, bidCommit, cancelAuctionCommit, closeCommit,
           closeWithoutBids, closeSold, createOfferCommit, rejectCommit, acceptCommit,
           withdrawCommit, buyFreeAgentCommit, releaseCommit, signFromBaseCommit,
           removePlayerCommit, Serving
  <2> QED
    BY <2>1 DEF Reply, TypeOK, Idle
<1> DEFINE Lost == \A p \in Players : owner[p] \in Rosters /\ owner'[p] # owner[p] => GaveUp(w, p)
           Grown == \A r \in Rosters : Cardinality({p \in Players : owner'[p] = r}) > squadSize(r)
                      => squadSize(r) < RosterSize \/ req[w].op \in {"close", "accept"}
<1>3. SUFFICES Lost /\ Grown
  BY <1>2 DEF RightfulChange
<1>4. CASE closeSold(w)
  BY <1>4 DEF closeSold, Serving, GaveUp
<1>5. CASE acceptCommit(w)
  <2> DEFINE t == offers[req[w].offer]
  <2>1. /\ req[w].op = "accept" /\ owner[t.player] = t.to
        /\ t.kind = "SWAP" => owner[t.offered] = t.from
        /\ t.kind = "BUY_FROM_ROSTER" => t.offered = None
        /\ t.kind \in {"SWAP", "BUY_FROM_ROSTER"}
    <3>1. req[w].op = "accept" /\ req[w].offer \in Offers
      BY <1>5, InFlight DEF acceptCommit, Serving, AnswerRequest
    <3>2. t.kind \in {"SWAP", "BUY_FROM_ROSTER"}
      BY <1>1, <3>1 DEF NoOffer, OfferRow
    <3> QED
      BY <3>1, <3>2 DEF ReadsHold, Holds, RowsAreSound
  <2>2. owner' = [p \in Players |-> IF p = t.player THEN t.from
                                    ELSE IF p = t.offered THEN t.to ELSE owner[p]]
    BY <1>5 DEF acceptCommit
  <2>3. Lost
    BY <2>1, <2>2 DEF GaveUp
  <2> QED
    BY <2>1, <2>3
<1>6. CASE buyFreeAgentCommit(w) \/ signFromBaseCommit(w)
  <2>1. /\ owner' = [owner EXCEPT ![req[w].player] = req[w].by]
        /\ owner[req[w].player] \notin Rosters /\ squadSize(req[w].by) < RosterSize
    BY <1>6 DEF buyFreeAgentCommit, signFromBaseCommit, Serving, ReadsHold, Holds
  <2>2. Lost
    BY <1>1, <2>1
  <2>3. \A r \in Rosters : r # req[w].by => \A p \in Players : owner'[p] = r => owner[p] = r
    BY <1>1, <2>1
  <2> QED
    BY <2>1, <2>2, <2>3, Shrinks
<1>7. CASE releaseCommit(w) \/ removePlayerCommit(w)
  <2>1. PICK v \in {None, Outside} : owner' = [owner EXCEPT ![req[w].player] = v]
    BY <1>7 DEF releaseCommit, removePlayerCommit
  <2>2. \A r \in Rosters : \A p \in Players : owner'[p] = r => owner[p] = r
    BY <1>1, <2>1 DEF NullRoster
  <2>3. Lost
    <3>1. CASE releaseCommit(w)
      BY <1>1, <2>1, <3>1 DEF releaseCommit, Serving, ReadsHold, Holds, GaveUp
    <3>2. CASE removePlayerCommit(w)
      BY <1>1, <2>1, <3>2 DEF removePlayerCommit, Serving, ReadsHold, Holds
    <3> QED
      BY <1>7, <3>1, <3>2
  <2> QED
    BY <2>2, <2>3, Shrinks
<1>8. CASE owner' = owner
  <2>1. \A r \in Rosters : \A p \in Players : owner'[p] = r => owner[p] = r
    BY <1>8
  <2> QED
    BY <1>8, <2>1, Shrinks
<1> QED
  BY <1>4, <1>5, <1>6, <1>7, <1>8 DEF Commit, createAuctionCommit, bidCommit,
     cancelAuctionCommit, closeCommit, closeWithoutBids, createOfferCommit, rejectCommit,
     withdrawCommit

LEMMA StepIsRightful ==
  ASSUME TypeOK, ReadsHold, [Next]_vars
  PROVE  RightfulChange
<1>1. CASE \E w \in Workers : Commit(w)
  BY <1>1, CommitIsRightful
<1>2. CASE ~ \E w \in Workers : Commit(w)
  <2>1. \A r \in Rosters : \A p \in Players : owner'[p] = r => owner[p] = r
    BY <1>2, OnlyCommitsWrite
  <2>2. owner' = owner
    BY <1>2, OnlyCommitsWrite
  <2> QED
    BY <2>1, <2>2, Shrinks, MarketAssumption DEF RightfulChange
<1> QED
  BY <1>1, <1>2
-----------------------------------------------------------------------------
LEMMA SerialInit == Init => Escrow /\ ReadsHold /\ \A a \in Auctions : House(a)!Init
<1> SUFFICES ASSUME Init PROVE Escrow /\ ReadsHold /\ \A a \in Auctions : House(a)!Init
  OBVIOUS
<1>1. Escrow
  BY MarketAssumption DEF Init, Escrow, PaidInIsTheLeadingBid, SeenIsCurrent, Idle, NoAuction
<1>2. ReadsHold
  BY DEF Init, ReadsHold, RowsAreSound, Holds, Idle, NoAuction, NoOffer
<1>3. \A a \in Auctions : House(a)!Init
  BY DEF Init, NoAuction, House!Init, House!NothingHeld
<1> QED
  BY <1>1, <1>2, <1>3

\* With one handler at a time the money locked in an auction is exactly the leading
\* bid, for any number of rosters, players, auctions and coins.
THEOREM SerialEscrow ==
  ASSUME \A v, w \in Workers : v = w
  PROVE  Spec => []PaidInIsTheLeadingBid
<1>1. TypeOK /\ Escrow /\ [Next]_vars => Escrow'
  BY StepKeepsEscrow
<1>2. Escrow => PaidInIsTheLeadingBid
  BY DEF Escrow
<1> QED
  BY <1>1, <1>2, SerialInit, TypesAreKept, PTL DEF Spec

\* The serial invariant: the money is where the rows say and every check still holds.
THEOREM SerialInvariant ==
  ASSUME \A v, w \in Workers : v = w
  PROVE  Spec => [](TypeOK /\ Escrow /\ ReadsHold)
<1>1. TypeOK /\ Escrow /\ ReadsHold /\ [Next]_vars => Escrow' /\ ReadsHold'
  BY StepKeepsEscrow, StepHolds
<1> QED
  BY <1>1, SerialInit, TypesAreKept, PTL DEF Spec

\* Served one request at a time, the market implements the abstract auction.
THEOREM AuctionsImplementTheHouse ==
  ASSUME \A v, w \in Workers : v = w
  PROVE  Spec => AuctionsKeepTheirPromise
<1>1. TypeOK /\ TypeOK' /\ Escrow /\ Escrow' /\ ReadsHold /\ [Next]_vars => [HousesStep]_vars
  BY StepIsHouseStep
<1> QED
  BY <1>1, SerialInit, SerialInvariant, PTL DEF Spec, AuctionsKeepTheirPromise

\* Served one request at a time, an answered offer keeps its answer and an accepted
\* one moves only players that both sides still own.
THEOREM OffersAreHonoured ==
  ASSUME \A v, w \in Workers : v = w
  PROVE  Spec => AcceptedOfferIsHonoured
<1>1. TypeOK /\ ReadsHold /\ [Next]_vars => [AnswersStand]_vars
  BY StepAnswers
<1> QED
  BY <1>1, SerialInvariant, PTL DEF Spec, AcceptedOfferIsHonoured

\* Served one request at a time, nobody loses a player but by an act of its own, and
\* no purchase or signing exceeds rosterSize.
THEOREM SquadsAreRightful ==
  ASSUME \A v, w \in Workers : v = w
  PROVE  Spec => SquadsChangeByRight
<1>1. TypeOK /\ ReadsHold /\ [Next]_vars => [RightfulChange]_vars
  BY StepIsRightful
<1> QED
  BY <1>1, SerialInvariant, PTL DEF Spec, SquadsChangeByRight
=============================================================================
