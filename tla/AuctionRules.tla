------------------------------ MODULE AuctionRules ------------------------------
(* The pure rules of an open-bid auction: src/src/draft/auction-rules.ts.       *)
(* Money and minutes are naturals; a bid is an integer (PlaceBidDto).           *)
EXTENDS Integers

\* Math.ceil of the quotient of two naturals.
CeilDiv(m, n) == (m + n - 1) \div n

\* "sempre pelo menos uma moeda acima"
bidStep(currentBid, percent) ==
  LET raise == CeilDiv(currentBid * percent, 100)
  IN  IF raise > 1 THEN raise ELSE 1

\* Mutant: the step left out, a bid may equal the one it covers.
minimumBidWithoutStep(currentBid, startingBid, bidCount, percent) ==
  IF bidCount = 0 THEN startingBid ELSE currentBid

minimumBid(currentBid, startingBid, bidCount, percent) ==
  IF bidCount = 0 THEN startingBid ELSE currentBid + bidStep(currentBid, percent)

\* Mutant: the deadline restarts at every bid.
extendedDeadlineAlways(endsAt, now, window) == IF window > 0 THEN now + window ELSE endsAt

\* A bid inside the last `window` minutes pushes the deadline to now + window.
extendedDeadline(endsAt, now, window) ==
  IF window > 0 /\ endsAt - now < window THEN now + window ELSE endsAt
=============================================================================
