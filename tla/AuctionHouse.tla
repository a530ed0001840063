------------------------------ MODULE AuctionHouse ------------------------------
(* What one open-bid auction promises the rosters of a draft league, stated from *)
(* the class comment of DraftAuctionService: a bid locks its money, a covered    *)
(* bid gives it back in the same step, and once closed nothing moves any more.   *)
(* DraftMarket is shown to implement it auction by auction.                      *)
EXTENDS Naturals

CONSTANTS Bidders, Nobody

VARIABLES
  status,   \* "NONE", "OPEN", "SOLD", "EXPIRED", "CANCELLED"; "DELETED" at any time
  leader,   \* who would win now
  price,    \* the leading bid
  held      \* money of each bidder locked in this auction

houseVars == <<status, leader, price, held>>

NothingHeld == [r \in Bidders |-> 0]
HeldBy(r, amount) == [NothingHeld EXCEPT ![r] = amount]

Init == status = "NONE" /\ leader = Nobody /\ price = 0 /\ held = NothingHeld

Open == status = "NONE" /\ status' = "OPEN" /\ UNCHANGED <<leader, price, held>>

\* The new leader's money goes in and the old leader's comes out together.
Bid ==
  /\ status = "OPEN"
  /\ leader' \in Bidders \ {leader} /\ price' \in Nat /\ price' > price
  /\ held' = HeldBy(leader', price')
  /\ UNCHANGED status

Cancel ==
  /\ status = "OPEN" /\ status' = "CANCELLED"
  /\ leader' = Nobody /\ price' = 0 /\ held' = NothingHeld

Expire ==
  /\ status = "OPEN" /\ leader = Nobody /\ status' = "EXPIRED"
  /\ UNCHANGED <<leader, price, held>>

\* The leader keeps paying exactly the price called.
Sell ==
  /\ status = "OPEN" /\ leader # Nobody /\ status' = "SOLD"
  /\ UNCHANGED <<leader, price, held>>

\* The player's row is deleted and the auction's row with it.
Delete == status # "NONE" /\ status' = "DELETED" /\ UNCHANGED <<leader, price, held>>

HouseNext == Open \/ Bid \/ Cancel \/ Expire \/ Sell \/ Delete

HouseSpec == Init /\ [][HouseNext]_houseVars
=============================================================================
