------------------------------- MODULE DraftRules -------------------------------
(* The pure rules of a draft league over every input within the bounds: the      *)
(* order of the picks, the fixtures, the calendar and the minimum bid.            *)
EXTENDS DraftOrder, AuctionRules, Sequences, SequencesExt

CONSTANTS MaxRosters, MaxSize, MaxBid,  \* bounds of the inputs
          WeekdayChoices, Percents

VARIABLES
  draft,     \* [rosterCount, rosterSize, orderType]
  calendar,  \* [from, late, weekdays]
  auction    \* [currentBid, percent]

vars == <<draft, calendar, auction>>

Drafts    == [rosterCount: 2..MaxRosters, rosterSize: 1..MaxSize, orderType: {"SNAKE", "LINEAR"}]
Calendars == [from: 0..6, late: BOOLEAN, weekdays: WeekdayChoices]
Auctions  == [currentBid: 0..MaxBid, percent: Percents]

Draft0    == [rosterCount |-> 2, rosterSize |-> 1, orderType |-> "SNAKE"]
Calendar0 == [from |-> 0, late |-> FALSE, weekdays |-> {}]
Auction0  == [currentBid |-> 0, percent |-> 0]

Init == draft = Draft0 /\ calendar = Calendar0 /\ auction = Auction0

\* One input after another, each from the first; every calendar with every number of
\* rosters.
TryDraft    == Init /\ draft' \in Drafts /\ UNCHANGED <<calendar, auction>>
TryCalendar == /\ Init /\ calendar' \in Calendars /\ UNCHANGED auction
               /\ \E n \in 2..MaxRosters : draft' = [draft EXCEPT !.rosterCount = n]
TryAuction  == Init /\ auction' \in Auctions /\ UNCHANGED <<draft, calendar>>
Return      == draft' = Draft0 /\ calendar' = Calendar0 /\ auction' = Auction0

Next == TryDraft \/ TryCalendar \/ TryAuction \/ Return
Spec == Init /\ [][Next]_vars
-----------------------------------------------------------------------------
\* The match days of a season.  Days are counted from a Sunday; `late` is whether the
\* hour of the match is already gone on the day the season is generated.
firstDay(from, late) == IF late THEN from + 1 ELSE from

\* The cursor walks the days one by one and keeps the allowed ones; within a week it
\* meets one at least.  No choice of weekdays stands for Sunday and Wednesday.
nextMatchDates(from, late, weekdays, count) ==
  LET allowed == IF weekdays = {} THEN {0, 3} ELSE weekdays
      Visit(dates, cursor) ==
        IF Len(dates) < count /\ cursor % 7 \in allowed THEN Append(dates, cursor) ELSE dates
  IN FoldLeft(Visit, <<>>, [i \in 1 .. 7 * count |-> firstDay(from, late) + i - 1])
-----------------------------------------------------------------------------
Indexes    == 0 .. draft.rosterCount - 1
TotalPicks == draft.rosterCount * draft.rosterSize
PickAt(n)  == pickCoordinate(n, draft.rosterCount, draft.orderType)
PicksOf(i) == {n \in 0 .. TotalPicks - 1 : PickAt(n).rosterIndex = i}

\* "inverte a ordem a cada rodada": every roster picks once in every round, and over two
\* rounds of a snake nobody waits longer than anybody else in sum.
OrderIsFair ==
  /\ \A i \in Indexes, round \in 1..draft.rosterSize :
       \E n \in PicksOf(i) : /\ PickAt(n).round = round
                             /\ \A k \in PicksOf(i) : PickAt(k).round = round => k = n
  /\ draft.orderType = "SNAKE" =>
       \A m, n \in 0 .. TotalPicks - 1 :
         /\ PickAt(m).rosterIndex = PickAt(n).rosterIndex
         /\ PickAt(n).round = PickAt(m).round + 1
         => PickAt(m).indexInRound + PickAt(n).indexInRound = draft.rosterCount - 1

Pairs == roundRobinPairs(draft.rosterCount)

\* "agenda todos contra todos", "nao repete um elenco na mesma rodada": every two meet
\* once, nobody plays twice in a round, and no round could be saved.
EverybodyMeetsOnce ==
  /\ \A i, j \in Indexes : i # j => Cardinality({f \in Pairs : {f.home, f.away} = {i, j}}) = 1
  /\ \A f, g \in Pairs : f.round = g.round /\ f # g => {f.home, f.away} \cap {g.home, g.away} = {}
  /\ {f.round : f \in Pairs} = 1 .. (draft.rosterCount - (IF draft.rosterCount % 2 = 0 THEN 1 ELSE 0))

\* "cai so nos dias configurados", "sempre comeca depois da data informada": every round
\* has its day, an allowed one, and no allowed day in between is left out.
SeasonFitsTheCalendar ==
  LET c       == calendar
      rounds  == CHOOSE k \in {f.round : f \in Pairs} : \A f \in Pairs : f.round <= k
      dates   == nextMatchDates(c.from, c.late, c.weekdays, rounds)
      allowed == IF c.weekdays = {} THEN {0, 3} ELSE c.weekdays
      possible == {d \in c.from .. dates[rounds] : d % 7 \in allowed /\ (d > c.from \/ ~c.late)}
  IN /\ Len(dates) = rounds
     /\ \A k \in 1 .. rounds - 1 : dates[k] < dates[k + 1]
     /\ {dates[k] : k \in 1..rounds} = possible

\* "sobe pela porcentagem do lance atual, sempre pelo menos uma moeda acima": the minimum
\* is the least whole amount above the bid that covers the percentage.
MinimumBidIsLeast ==
  LET c == auction.currentBid
      Covers(amount) == amount > c /\ 100 * (amount - c) >= auction.percent * c
      least == minimumBid(c, 1, 1, auction.percent)
  IN Covers(least) /\ \A amount \in c .. least - 1 : ~Covers(amount)
=============================================================================
