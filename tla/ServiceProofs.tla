---------------------------- MODULE ServiceProofs -----------------------------
(* What the server does beside the competitions: the honours after a match, the   *)
(* lists behind the buttons of the Discord bot, the line-ups of a league, the      *)
(* limits of the Riot API, the player base, the clubs of EA, the game, the lives   *)
(* and the calls to language models.  Each component is proved about by itself;    *)
(* the platform takes over the theorems.                                           *)
EXTENDS Integers, Sequences, FiniteSets, FiniteSetTheorems, SequenceTheorems, TLAPS

CONSTANTS
  Blue, Red, MaxMatches, MaxBallots, Goals,                               \* PostMatch
  People, Formats, playersPerTeam, MaxWaiting,                            \* OfflineMatch
  Guests, Messages,                                                       \* EventAnswers
  Users, Rosters, Manager, Players, Formations, Sizes, FIELD,             \* DraftOffice
  Callers, Buckets, MaxTokens, Window, Keys, FreshKeys, Ttl, MaxEntries,  \* RiotClient
  RIOT_MAX_RETRIES, MaxRetryAfter,
  Teams, Names, MaxSyncs, MaxEdits, Batch,                                \* Catalog
  Syncs, ClubPlayers, Name, ClubMatches, PlayedIn, Anonymous,             \* EaClubSync
  MaxSessions, GameAdmins, Spots, MIN_PLAYERS, Emergencies, MaxDrops,     \* Deducao
  Detective, Accusers, MaxGames,
  MaxPeers, MaxGrants, MaxReboots,                                        \* Streaming
  Askers, Features, UNSUPPORTED_PARAMS, MAX_RETRIES, MaxCalls             \* Chat

VARIABLES
  results, achievements, player, reads, todo, announced, failed, vote,    \* PostMatch
  open, tally, mvp,
  match, channels, waiting,                                               \* OfflineMatch
  events, file,                                                           \* EventAnswers
  league, staff, formation, rosterOf, starter, asked, chosen, overtaken,  \* DraftOffice
  tokens, sinceRefill, cache, call, granted,                              \* RiotClient
  folders, base, sync, unrated, instant, edits,                           \* Catalog
  imported, clubRows, clubDesk,                                           \* EaClubSync
  phase, seats, host, sessions,   admitted, away, corpses, meeting,       \* Deducao
  work, blackout, winner, games,
  stored, live, peers, joined, told, tickets, closing, handed, restarts,  \* Streaming
  settings, refuses, quirks, blocked, asking, kept, calls                 \* Chat

Honours == INSTANCE PostMatch
Offline == INSTANCE OfflineMatch WITH Users <- People
Event == INSTANCE EventAnswers
Office == INSTANCE DraftOffice
Riot == INSTANCE RiotClient
Roll == INSTANCE Catalog WITH teams <- folders, players <- base, desk <- sync, asked <- unrated
Club == INSTANCE EaClubSync WITH rows <- clubRows, desk <- clubDesk, People <- ClubPlayers,
  Matches <- ClubMatches, Played <- PlayedIn
Game == INSTANCE Deducao WITH players <- seats, Admins <- GameAdmins, Callers <- Accusers
Live == INSTANCE Streaming WITH row <- stored, granted <- handed, MaxRestarts <- MaxReboots
Model == INSTANCE Chat WITH call <- asking, cache <- kept, Callers <- Askers
-----------------------------------------------------------------------------
\* A component counts and compares as its theorems do.
LEMMA SameCounts ==
  ASSUME NEW S
  PROVE  /\ Offline!Cardinality(S) = Cardinality(S)
         /\ Riot!Cardinality(S) = Cardinality(S)
         /\ Game!Cardinality(S) = Cardinality(S)
  BY Zenon DEF Cardinality, Offline!Cardinality, Riot!Cardinality, Game!Cardinality

LEMMA SameInjections ==
  ASSUME NEW f
  PROVE  Offline!IsInjective(f) <=> IsInjective(f)
  BY DEF IsInjective, Offline!IsInjective

-----------------------------------------------------------------------------
(* Achievements and MVPs are of those who earned them.                       *)

HonoursBounds == MaxMatches \in Nat /\ Blue \in Seq(Honours!Members(Blue))
  /\ Red \in Seq(Honours!Members(Red))

Earned == {row \in Honours!Members(Honours!Players) \X Honours!Types : Honours!Test(row[2],
  Honours!getPlayerStats(row[1]))}

\* Ballots, once there are any, are for winners, and who is the MVP had the most.
Fair(done, winners, state, votes, most) ==
  /\ state = "open" => done
  /\ \A q \in DOMAIN votes : votes[q] > 0 => done /\ q \in winners
  /\ most # 0 => /\ done /\ state = "over" /\ most \in DOMAIN votes /\ votes[most] > 0
                   /\ \A q \in DOMAIN votes : votes[q] <= votes[most]

Voted ==
  /\ tally \in [Honours!Matches -> [Honours!Members(Honours!Players) -> Nat]]
  /\ mvp = [m \in Honours!Matches |-> mvp[m]] /\ vote = [m \in Honours!Matches |-> vote[m]]
  /\ \A m \in Honours!Matches : Fair(m \in DOMAIN results, Honours!Members(Honours!Winners(m)),
     vote[m], tally[m], mvp[m])

\* What a flow has announced it has written, and no other flow.
Announced ==
  /\ announced = [m \in Honours!Matches |-> announced[m]]
  /\ \A m \in Honours!Matches : announced[m] \subseteq achievements
  /\ \A m, n \in Honours!Matches : m # n => announced[m] \cap announced[n] = {}

\* What player i has earned is written, but for what is to be unlocked.
HonoursSettled(earned, rows, i, but) ==
  \A type \in Honours!Types : <<Honours!Players[i], type>> \in earned
    => <<Honours!Players[i], type>> \in rows \/ type \in but

\* The flow of the last match has unlocked all that the players had earned it has been at.
Checked ==
  /\ player \in [Honours!Matches -> Nat] /\ reads \in [Honours!Matches -> BOOLEAN]
  /\ todo = [m \in Honours!Matches |-> todo[m]] /\ failed \in [Honours!Matches -> BOOLEAN]
  /\ results \in Seq({"BLUE", "RED"}) /\ DOMAIN results \subseteq Honours!Matches
  /\ \A m \in Honours!Matches : IF m \in DOMAIN results THEN player[m] >= 1 ELSE player[m] = 0
     /\ ~reads[m]
  /\ \A m \in Honours!Matches : m = Len(results) /\ ~failed[m] =>
       /\ \A i \in 1 .. player[m] - 1 : HonoursSettled(Earned, achievements, i, {})
       /\ reads[m] => HonoursSettled(Earned, achievements, player[m], todo[m])

HonoursInv == Voted /\ Announced /\ Checked
-----------------------------------------------------------------------------
LEMMA ThePlayers ==
  ASSUME HonoursBounds
  PROVE  DOMAIN Honours!Players = 1 .. Len(Honours!Players) /\ Len(Honours!Players) \in Nat
  BY DEF HonoursBounds, Honours!Players

LEMMA SameEarned ==
  ASSUME UNCHANGED results
  PROVE  UNCHANGED Earned
<1> SUFFICES ASSUME NEW p  PROVE Honours!getPlayerStats(p)' = Honours!getPlayerStats(p)
  BY DEF Earned, Honours!Test, Honours!Members, Honours!Players, Honours!Types
<1>1. \A m : Honours!Won(p, m)' <=> Honours!Won(p, m)
  BY DEF Honours!Won, Honours!Winners
<1>2. Honours!wins(p)' = Honours!wins(p)
  <2>1. {m \in DOMAIN results : Honours!Won(p, m)}' = {m \in DOMAIN results : Honours!Won(p, m)}
    BY <1>1
  <2> QED BY <2>1 DEF Honours!wins
<1>3. Honours!winStreak(p)' = Honours!winStreak(p)
  <2> DEFINE streak == {m \in DOMAIN results : \A n \in m .. Len(results) : Honours!Won(p, n)}
  <2>1. streak' = streak
    BY <1>1
  <2> QED BY <2>1 DEF Honours!winStreak
<1> QED BY <1>2, <1>3 DEF Honours!getPlayerStats, Honours!totalGames

LEMMA HonoursInit ==
  ASSUME HonoursBounds
  PROVE  Honours!Init => HonoursInv
<1> SUFFICES ASSUME Honours!Init  PROVE HonoursInv
  OBVIOUS
<1>1. Voted
  <2>1. \A m \in Honours!Matches : m \notin DOMAIN results /\ vote[m] = "none" /\ mvp[m] = 0
                          /\ tally[m] = [p \in Honours!Members(Honours!Players) |-> 0]
    BY DEF Honours!Init, Honours!Nobody
  <2>2. \A m \in Honours!Matches : Fair(m \in DOMAIN results, Honours!Members(Honours!Winners(m)),
          vote[m], tally[m], mvp[m])
    BY <2>1 DEF Fair
  <2> QED BY <2>2 DEF Honours!Init, Voted
<1>2. Announced
  BY DEF Honours!Init, Announced
<1>3. Checked
  <2>1. \A m \in Honours!Matches : m # Len(results) /\ m \notin DOMAIN results
    BY DEF Honours!Init, Honours!Matches
  <2> QED BY <2>1 DEF Honours!Init, Checked
<1> QED BY <1>1, <1>2, <1>3 DEF HonoursInv

\* A match that is finished begins its flow.
LEMMA HonoursFinishKeeps ==
  ASSUME HonoursBounds, HonoursInv, NEW m \in Honours!Matches, Honours!onMatchFinished(m)
  PROVE  HonoursInv'
<1> DEFINE K == Len(results)
<1>1. PICK side \in {"BLUE", "RED"} :
        /\ results' = Append(results, side)
        /\ player' = [player EXCEPT ![m] = 1]
        /\ \E ballots : /\ open' = [open EXCEPT ![m] = ballots]
                        /\ vote' = [vote EXCEPT ![m] = IF ballots = 0 THEN "over" ELSE "open"]
  BY DEF Honours!onMatchFinished
<1>2. m = K + 1 /\ UNCHANGED <<achievements, reads, todo, announced, failed, tally, mvp>>
  BY DEF Honours!onMatchFinished
<1>3. /\ results \in Seq({"BLUE", "RED"}) /\ results' \in Seq({"BLUE", "RED"}) /\ K \in Nat
      /\ DOMAIN results = 1 .. K /\ DOMAIN results' = 1 .. K + 1 /\ Len(results') = K + 1
      /\ \A n \in 1 .. K : results'[n] = results[n]
  BY <1>1 DEF HonoursInv, Checked
<1>4. m \notin DOMAIN results
        /\ \A n \in Honours!Matches : n \in DOMAIN results' <=> n \in DOMAIN results \/ n = m
  BY <1>2, <1>3 DEF Honours!Matches
<1>5. \A n \in DOMAIN results : Honours!Winners(n)' = Honours!Winners(n)
  BY <1>3 DEF Honours!Winners
<1> HIDE DEF K
<1>6. Voted'
  <2>1. tally' \in [Honours!Matches -> [Honours!Members(Honours!Players) -> Nat]]
          /\ mvp' = [n \in Honours!Matches |-> mvp'[n]]
    BY <1>2 DEF HonoursInv, Voted
  <2>2. vote' = [n \in Honours!Matches |-> vote'[n]]
    BY <1>1 DEF HonoursInv, Voted
  <2>3. ASSUME NEW n \in Honours!Matches
        PROVE  Fair(n \in DOMAIN results', Honours!Members(Honours!Winners(n)'), vote'[n],
               tally'[n], mvp'[n])
    <3>1. n # m => vote'[n] = vote[n]
      BY <1>1 DEF HonoursInv, Voted
    <3>2. Fair(n \in DOMAIN results, Honours!Members(Honours!Winners(n)), vote[n], tally[n], mvp[n])
      BY DEF HonoursInv, Voted
    <3>3. n \in DOMAIN results => Honours!Winners(n)' = Honours!Winners(n)
      BY <1>5
    <3>4. UNCHANGED <<tally, mvp>> /\ (n \in DOMAIN results' <=> n \in DOMAIN results \/ n = m)
      BY <1>2, <1>4
    <3> QED BY <1>4, <3>1, <3>2, <3>3, <3>4 DEF Fair
  <2> QED BY <2>1, <2>2, <2>3 DEF Voted, Honours!Members, Honours!Players, Honours!Matches
<1>7. Announced'
  BY <1>2 DEF HonoursInv, Announced
<1>8. Checked'
  <2>1. /\ player' \in [Honours!Matches -> Nat] /\ reads' \in [Honours!Matches -> BOOLEAN]
        /\ todo' = [n \in Honours!Matches |-> todo'[n]] /\ failed' \in [Honours!Matches -> BOOLEAN]
    BY <1>1, <1>2 DEF HonoursInv, Checked
  <2>2. \A n \in Honours!Matches : IF n \in DOMAIN results' THEN player'[n] >= 1
                           ELSE player'[n] = 0 /\ ~reads'[n]
    BY <1>1, <1>2, <1>4 DEF HonoursInv, Checked
  <2>3. \A n \in Honours!Matches : n = Len(results') => n = m
    BY <1>2, <1>3
  <2>4. player'[m] = 1 /\ ~reads'[m] /\ 1 .. player'[m] - 1 = {}
    BY <1>1, <1>2, <1>4 DEF HonoursInv, Checked
  <2>5. DOMAIN results' \subseteq Honours!Matches
    BY <1>2, <1>3 DEF HonoursInv, Checked
  <2> QED BY <1>3, <2>1, <2>2, <2>3, <2>4, <2>5 DEF Checked, Honours!Matches
<1> QED BY <1>6, <1>7, <1>8 DEF HonoursInv

\* What changes no vote.
LEMMA FairVotes ==
  ASSUME UNCHANGED results,
         tally' \in [Honours!Matches -> [Honours!Members(Honours!Players) -> Nat]],
         mvp' = [n \in Honours!Matches |-> mvp'[n]], vote' = [n \in Honours!Matches |-> vote'[n]],
         \A n \in Honours!Matches : Fair(n \in DOMAIN results,
           Honours!Members(Honours!Winners(n)), vote'[n], tally'[n], mvp'[n])
  PROVE  Voted'
<1>1. \A n : Honours!Members(Honours!Winners(n))' = Honours!Members(Honours!Winners(n))
  BY DEF Honours!Winners, Honours!Members
<1>2. Honours!Members(Honours!Players)' = Honours!Members(Honours!Players)
        /\ Honours!Matches' = Honours!Matches
  BY DEF Honours!Members, Honours!Players, Honours!Matches
<1> QED BY <1>1, <1>2 DEF Voted

LEMMA SameVotes ==
  ASSUME HonoursInv, UNCHANGED <<results, Honours!Voting>>
  PROVE  Voted'
<1>1. UNCHANGED <<tally, mvp, vote>>
  BY DEF Honours!Voting
<1> QED BY <1>1, FairVotes DEF HonoursInv, Voted

LEMMA ReadKeeps ==
  ASSUME HonoursBounds, HonoursInv, NEW m \in Honours!Matches, Honours!ReadPlayer(m)
  PROVE  HonoursInv'
<1> DEFINE p == Honours!Players[player[m]]
           found == {type \in Honours!Types : <<p, type>> \notin achievements
             /\ Honours!Test(type, Honours!getPlayerStats(p))}
<1>1. /\ player[m] \in DOMAIN Honours!Players /\ ~reads[m]
      /\ todo' = [todo EXCEPT ![m] = found] /\ reads' = [reads EXCEPT ![m] = TRUE]
      /\ UNCHANGED <<results, achievements, player, announced, failed, Honours!Voting>>
  BY DEF Honours!ReadPlayer, Honours!Checks
<1>2. Voted'
  BY <1>1, SameVotes
<1>3. Announced'
  BY <1>1 DEF HonoursInv, Announced
<1>4. HonoursSettled(Earned, achievements, player[m], found)
  BY DEF HonoursSettled, Earned
<1> HIDE DEF found
<1>5. m \in DOMAIN results
  BY <1>1, ThePlayers DEF HonoursInv, Checked
<1>6. Earned' = Earned
  BY <1>1, SameEarned
<1>7. Checked'
  <2>1. \A n \in Honours!Matches : n # m => todo'[n] = todo[n] /\ reads'[n] = reads[n]
    BY <1>1 DEF HonoursInv, Checked
  <2>2. todo'[m] = found
    BY <1>1 DEF HonoursInv, Checked
  <2>3. /\ todo' = [n \in Honours!Matches |-> todo'[n]] /\ reads' \in [Honours!Matches -> BOOLEAN]
        /\ \A n \in Honours!Matches : IF n \in DOMAIN results' THEN player'[n] >= 1
                             ELSE player'[n] = 0 /\ ~reads'[n]
    BY <1>1, <1>5 DEF HonoursInv, Checked
  <2>4. ASSUME NEW n \in Honours!Matches, n = Len(results), ~failed[n]
        PROVE  /\ \A i \in 1 .. player[n] - 1 : HonoursSettled(Earned, achievements, i, {})
               /\ reads'[n] => HonoursSettled(Earned, achievements, player[n], todo'[n])
    BY <1>4, <2>1, <2>2, <2>4 DEF HonoursInv, Checked
  <2> QED BY <1>1, <1>6, <2>3, <2>4 DEF HonoursInv, Checked
<1> QED BY <1>2, <1>3, <1>7 DEF HonoursInv

\* The flow of match m goes on with the next player when the one it was at is settled,
\* or it has failed.
LEMMA NextPlayerKeeps ==
  ASSUME HonoursBounds, HonoursInv, NEW m \in Honours!Matches, Honours!Checks(m), Honours!NextPlayer(m),
         UNCHANGED <<results, achievements, todo, announced, Honours!Voting>>,
         failed' \in [Honours!Matches -> BOOLEAN],
         \A n \in Honours!Matches : n # m => failed'[n] = failed[n],
         failed'[m] \/ (~failed[m] /\ reads[m] /\ todo[m] = {})
  PROVE  HonoursInv'
<1>1. player' = [player EXCEPT ![m] = player[m] + 1] /\ reads' = [reads EXCEPT ![m] = FALSE]
  BY DEF Honours!NextPlayer
<1>2. Voted'
  BY SameVotes
<1>3. Announced'
  BY DEF HonoursInv, Announced
<1>4. Earned' = Earned
  BY SameEarned
<1>5. Checked'
  <2>1. \A n \in Honours!Matches : n # m => player'[n] = player[n] /\ reads'[n] = reads[n]
    BY <1>1 DEF HonoursInv, Checked
  <2>2. player'[m] = player[m] + 1 /\ player[m] \in Nat /\ ~reads'[m] /\ player[m] >= 1
    BY <1>1, ThePlayers DEF HonoursInv, Checked, Honours!Checks
  <2>3. player' \in [Honours!Matches -> Nat] /\ reads' \in [Honours!Matches -> BOOLEAN]
    BY <1>1, <2>2 DEF HonoursInv, Checked
  <2>4. \A n \in Honours!Matches : IF n \in DOMAIN results' THEN player'[n] >= 1
                           ELSE player'[n] = 0 /\ ~reads'[n]
    BY <2>1, <2>2 DEF HonoursInv, Checked
  <2>5. ASSUME NEW n \in Honours!Matches, n = Len(results), ~failed'[n]
        PROVE  /\ \A i \in 1 .. player'[n] - 1 : HonoursSettled(Earned, achievements, i, {})
               /\ reads'[n] => HonoursSettled(Earned, achievements, player'[n], todo[n])
    <3>1. CASE n = m
      <4>1. /\ \A i \in 1 .. player[m] - 1 : HonoursSettled(Earned, achievements, i, {})
            /\ HonoursSettled(Earned, achievements, player[m], {})
        BY <2>5, <3>1 DEF HonoursInv, Checked
      <4>2. \A i \in 1 .. player'[m] - 1 : i \in 1 .. player[m] - 1 \/ i = player[m]
        BY <2>2
      <4> QED BY <2>2, <3>1, <4>1, <4>2
    <3>2. CASE n # m
      BY <2>1, <2>5, <3>2 DEF HonoursInv, Checked
    <3> QED BY <3>1, <3>2
  <2> QED BY <1>4, <2>3, <2>4, <2>5 DEF HonoursInv, Checked
<1> QED BY <1>2, <1>3, <1>5 DEF HonoursInv

LEMMA UnlockKeeps ==
  ASSUME HonoursBounds, HonoursInv, NEW m \in Honours!Matches, Honours!checkAndUnlock(m)
  PROVE  HonoursInv'
<1>1. CASE todo[m] = {} /\ Honours!NextPlayer(m) /\ UNCHANGED <<achievements, todo, announced>>
  <2>1. CASE failed[m]
    BY <1>1, <2>1, NextPlayerKeeps DEF Honours!checkAndUnlock, HonoursInv, Checked
  <2>2. CASE ~failed[m]
    BY <1>1, <2>2, NextPlayerKeeps DEF Honours!checkAndUnlock, HonoursInv, Checked
  <2> QED BY <2>1, <2>2
<1>2. ASSUME NEW type \in todo[m], NEW row, row = <<Honours!Players[player[m]], type>>,
             /\ achievements' = achievements \cup {row}
             /\ todo' = [todo EXCEPT ![m] = @ \ {type}]
             /\ announced' = [announced EXCEPT ![m] = IF Honours!Unlocks(row) THEN @ \cup {row} ELSE @]
             /\ UNCHANGED <<player, reads>>
      PROVE  HonoursInv'
  <2>1. UNCHANGED <<results, failed, Honours!Voting>>
    BY DEF Honours!checkAndUnlock
  <2>2. Voted'
    BY <2>1, SameVotes
  <2>3. Announced'
    <3>1. announced' = [n \in Honours!Matches |-> announced'[n]]
      BY <1>2 DEF HonoursInv, Announced
    <3>2. \A n \in Honours!Matches : n # m => announced'[n] = announced[n]
      BY <1>2 DEF HonoursInv, Announced
    <3>3. announced'[m] = announced[m] \/ (row \notin achievements
            /\ announced'[m] = announced[m] \cup {row})
      BY <1>2 DEF HonoursInv, Announced, Honours!Unlocks
    <3>4. \A n \in Honours!Matches : announced[n] \subseteq achievements
      BY DEF HonoursInv, Announced
    <3>5. \A k, n \in Honours!Matches : k # n => announced[k] \cap announced[n] = {}
      BY DEF HonoursInv, Announced
    <3>6. \A n \in Honours!Matches : announced'[n] \subseteq achievements'
      BY <1>2, <3>2, <3>3, <3>4
    <3>7. \A k, n \in Honours!Matches : k # n => announced'[k] \cap announced'[n] = {}
      BY <3>2, <3>3, <3>4, <3>5
    <3> QED BY <3>1, <3>6, <3>7 DEF Announced
  <2>4. Earned' = Earned
    BY <2>1, SameEarned
  <2>5. Checked'
    <3>1. todo' = [n \in Honours!Matches |-> todo'[n]] /\ \A n \in Honours!Matches : n # m
            => todo'[n] = todo[n]
      BY <1>2 DEF HonoursInv, Checked
    <3>2. todo'[m] = todo[m] \ {type}
      BY <1>2 DEF HonoursInv, Checked
    <3>3. ASSUME NEW n \in Honours!Matches, n = Len(results), ~failed[n]
          PROVE  /\ \A i \in 1 .. player[n] - 1 : HonoursSettled(Earned, achievements', i, {})
                 /\ reads[n] => HonoursSettled(Earned, achievements', player[n], todo'[n])
      <4>1. /\ \A i \in 1 .. player[n] - 1 : HonoursSettled(Earned, achievements, i, {})
            /\ reads[n] => HonoursSettled(Earned, achievements, player[n], todo[n])
        BY <3>3 DEF HonoursInv, Checked
      <4>2. \A i \in 1 .. player[n] - 1 : HonoursSettled(Earned, achievements', i, {})
        BY <1>2, <4>1 DEF HonoursSettled
      <4>3. reads[n] => HonoursSettled(Earned, achievements', player[n], todo'[n])
        BY <1>2, <3>1, <3>2, <4>1 DEF HonoursSettled
      <4> QED BY <4>2, <4>3
    <3> QED BY <1>2, <2>1, <2>4, <3>1, <3>3 DEF HonoursInv, Checked
  <2> QED BY <2>2, <2>3, <2>5 DEF HonoursInv
<1> QED BY <1>1, <1>2 DEF Honours!checkAndUnlock

\* What changes no check.
LEMMA SameChecks ==
  ASSUME HonoursInv, UNCHANGED <<results, achievements, Honours!Checking>>
  PROVE  Announced' /\ Checked'
<1>1. Earned' = Earned
  BY SameEarned
<1> QED BY <1>1 DEF HonoursInv, Honours!Checking, Announced, Checked

LEMMA VoteKeeps ==
  ASSUME HonoursBounds, HonoursInv, NEW m \in Honours!Matches, Honours!Vote(m)
  PROVE  HonoursInv'
<1>1. m \in DOMAIN results /\ vote[m] = "open"
        /\ UNCHANGED <<results, achievements, Honours!Checking, vote, mvp>>
  BY DEF Honours!Vote, HonoursInv, Voted, Fair
<1>3. CASE UNCHANGED tally
  BY <1>1, <1>3, SameChecks, FairVotes DEF HonoursInv, Voted
<1>4. ASSUME NEW p \in Honours!Members(Honours!Winners(m)), tally' = [tally EXCEPT ![m][p] = @ + 1]
      PROVE  HonoursInv'
  <2> DEFINE votes == tally[m]
             more == [votes EXCEPT ![p] = votes[p] + 1]
  <2>1. votes \in [Honours!Members(Honours!Players) -> Nat] /\ tally' = [tally EXCEPT ![m] = more]
    BY <1>4 DEF HonoursInv, Voted
  <2>2. /\ more \in [Honours!Members(Honours!Players) -> Nat]
        /\ \A q \in Honours!Members(Honours!Players) : more[q] > 0 => votes[q] > 0 \/ q = p
    <3> HIDE DEF votes
    <3>1. \A q \in Honours!Members(Honours!Players) : more[q] = IF q = p THEN votes[q] + 1 ELSE votes[q]
      BY <2>1
    <3>2. more = [q \in Honours!Members(Honours!Players) |-> more[q]]
      BY <2>1
    <3>3. \A q \in Honours!Members(Honours!Players) : votes[q] \in Nat
      BY <2>1
    <3> HIDE DEF more
    <3> QED BY <3>1, <3>2, <3>3
  <2> HIDE DEF more
  <2>3. tally' \in [Honours!Matches -> [Honours!Members(Honours!Players) -> Nat]]
    BY <2>1, <2>2 DEF HonoursInv, Voted
  <2>4. tally'[m] = more /\ \A n \in Honours!Matches : n # m => tally'[n] = tally[n]
    BY <2>1 DEF HonoursInv, Voted
  <2>5. \A n \in Honours!Matches : Fair(n \in DOMAIN results, Honours!Members(Honours!Winners(n)),
          vote[n], tally[n], mvp[n])
    BY DEF HonoursInv, Voted
  <2>6. Fair(m \in DOMAIN results, Honours!Members(Honours!Winners(m)), vote[m], more, mvp[m])
    BY <1>1, <1>4, <2>1, <2>2, <2>5 DEF Fair
  <2>7. \A n \in Honours!Matches : Fair(n \in DOMAIN results, Honours!Members(Honours!Winners(n)),
          vote'[n], tally'[n], mvp'[n])
    BY <1>1, <2>4, <2>5, <2>6
  <2>8. Voted'
    BY <1>1, <2>3, <2>7, FairVotes DEF HonoursInv, Voted
  <2> QED BY <1>1, <2>8, SameChecks DEF HonoursInv
<1> QED BY <1>3, <1>4 DEF Honours!Vote

LEMMA TallyKeeps ==
  ASSUME HonoursBounds, HonoursInv, NEW m \in Honours!Matches, Honours!runMvpVote(m)
  PROVE  HonoursInv'
<1>1. /\ vote[m] = "open" /\ vote' = [vote EXCEPT ![m] = "over"]
      /\ UNCHANGED <<results, achievements, Honours!Checking, open, tally>>
      /\ m \in DOMAIN results
  BY DEF Honours!runMvpVote, HonoursInv, Voted, Fair
<1>2. tally[m] \in [Honours!Members(Honours!Players) -> Nat]
  BY DEF HonoursInv, Voted
<1>3. /\ mvp' = [n \in Honours!Matches |-> mvp'[n]] /\ \A n \in Honours!Matches : n # m
         => mvp'[n] = mvp[n]
      /\ \/ mvp'[m] = Honours!Nobody
         \/ mvp'[m] \in Honours!Members(Honours!Players) /\ Honours!MostVotes(tally[m], mvp'[m])
  <2>1. CASE UNCHANGED mvp
    BY <1>1, <2>1 DEF HonoursInv, Voted, Fair, Honours!Nobody
  <2>2. ASSUME NEW p \in Honours!Members(Honours!Players), Honours!MostVotes(tally[m], p),
               mvp' = [mvp EXCEPT ![m] = p]
        PROVE  /\ mvp' = [n \in Honours!Matches |-> mvp'[n]] /\ \A n \in Honours!Matches : n # m
                  => mvp'[n] = mvp[n]
               /\ mvp'[m] = p
    BY <2>2 DEF HonoursInv, Voted
  <2> QED BY <2>1, <2>2 DEF Honours!runMvpVote
<1>4. vote' = [n \in Honours!Matches |-> vote'[n]] /\ vote'[m] = "over"
        /\ \A n \in Honours!Matches : n # m => vote'[n] = vote[n]
  BY <1>1 DEF HonoursInv, Voted
<1>5. ASSUME NEW n \in Honours!Matches
      PROVE  Fair(n \in DOMAIN results, Honours!Members(Honours!Winners(n)), vote'[n], tally'[n],
             mvp'[n])
  <2>1. Fair(n \in DOMAIN results, Honours!Members(Honours!Winners(n)), vote[n], tally[n], mvp[n])
    BY DEF HonoursInv, Voted
  <2>2. CASE n = m
    BY <1>1, <1>2, <1>3, <1>4, <2>1, <2>2 DEF Fair, Honours!MostVotes, Honours!Nobody
  <2>3. CASE n # m
    BY <1>1, <1>3, <1>4, <2>1, <2>3
  <2> QED BY <2>2, <2>3
<1>6. Voted'
  BY <1>1, <1>3, <1>4, <1>5, FairVotes DEF HonoursInv, Voted
<1> QED BY <1>1, <1>6, SameChecks DEF HonoursInv

\* A write that fails is remembered, so that nothing is claimed of its flow any more.
LEMMA CreateFailsKeeps ==
  ASSUME HonoursBounds, HonoursInv, NEW m \in Honours!Matches, Honours!CreateFails(m)
  PROVE  HonoursInv'
<1>1. /\ UNCHANGED <<results, achievements, player, reads, announced, Honours!Voting>>
      /\ failed' = [failed EXCEPT ![m] = TRUE]
      /\ todo' = [n \in Honours!Matches |-> todo'[n]]
      /\ \A n \in Honours!Matches : n # m => todo'[n] = todo[n]
  BY DEF Honours!CreateFails, HonoursInv, Checked
<1>2. failed' \in [Honours!Matches -> BOOLEAN] /\ failed'[m]
      /\ \A n \in Honours!Matches : n # m => failed'[n] = failed[n]
  BY <1>1 DEF HonoursInv, Checked
<1>3. Earned' = Earned
  BY <1>1, SameEarned
<1>4. ASSUME NEW n \in Honours!Matches, n = Len(results), ~failed'[n]
      PROVE  /\ \A i \in 1 .. player[n] - 1 : HonoursSettled(Earned, achievements, i, {})
             /\ reads[n] => HonoursSettled(Earned, achievements, player[n], todo'[n])
  BY <1>1, <1>2, <1>4 DEF HonoursInv, Checked
<1>5. Checked'
  <2> HIDE DEF Earned, HonoursSettled
  <2>1. \A n \in Honours!Matches : n = Len(results') /\ ~failed'[n] =>
          /\ \A i \in 1 .. player'[n] - 1 : HonoursSettled(Earned', achievements', i, {})
          /\ reads'[n] => HonoursSettled(Earned', achievements', player'[n], todo'[n])
    BY <1>1, <1>3, <1>4
  <2>2. \A i, but : HonoursSettled(Earned, achievements, i, but)' <=>
                    HonoursSettled(Earned', achievements', i, but)
    BY DEF HonoursSettled, Honours!Types, Honours!Players
  <2> QED BY <1>1, <1>2, <2>1 DEF HonoursInv, Checked, HonoursSettled, Honours!Types, Honours!Players
<1> QED BY <1>1, <1>5, SameVotes DEF HonoursInv, Announced

LEMMA HonoursStep ==
  ASSUME HonoursBounds
  PROVE  HonoursInv /\ [Honours!Next]_Honours!vars => HonoursInv'
<1> SUFFICES ASSUME HonoursInv, [Honours!Next]_Honours!vars  PROVE HonoursInv'
  OBVIOUS
<1>1. ASSUME NEW m \in Honours!Matches, Honours!CheckFails(m)  PROVE HonoursInv'
  <2>1. failed' \in [Honours!Matches -> BOOLEAN] /\ failed'[m] /\ \A n \in Honours!Matches : n # m
          => failed'[n] = failed[n]
    BY <1>1 DEF Honours!CheckFails, HonoursInv, Checked
  <2> QED BY <1>1, <2>1, NextPlayerKeeps DEF Honours!CheckFails
<1>2. CASE UNCHANGED Honours!vars
  BY <1>2, SameChecks, SameVotes DEF Honours!vars, Honours!Checking, Honours!Voting, HonoursInv
<1>3. ASSUME NEW m \in Honours!Matches, Honours!Step(m)  PROVE HonoursInv'
  BY <1>1, <1>3, HonoursFinishKeeps, ReadKeeps, UnlockKeeps, CreateFailsKeeps, VoteKeeps, TallyKeeps
     DEF Honours!Step
<1> QED BY <1>2, <1>3 DEF Honours!Next

\* The flow of the last match has seen everybody with the statistics as they are.
LEMMA HonoursShows ==
  ASSUME HonoursBounds
  PROVE  HonoursInv => Honours!HonoursAreEarned
<1> SUFFICES ASSUME HonoursInv  PROVE Honours!HonoursAreEarned
  OBVIOUS
<1>1. \A m, n \in Honours!Matches : m # n => announced[m] \cap announced[n] = {}
  BY DEF HonoursInv, Announced
<1>2. ASSUME NEW m \in DOMAIN results, mvp[m] # Honours!Nobody
      PROVE  /\ mvp[m] \in Honours!Members(Honours!Winners(m))
             /\ \A q \in Honours!Members(Honours!Players) : tally[m][q] <= tally[m][mvp[m]]
  <2>1. Fair(m \in DOMAIN results, Honours!Members(Honours!Winners(m)), vote[m], tally[m], mvp[m])
    BY <1>2 DEF Checked, HonoursInv, Voted
  <2>2. tally[m] \in [Honours!Members(Honours!Players) -> Nat]
    BY <1>2 DEF HonoursInv, Voted, Checked
  <2>3. mvp[m] # 0
    BY <1>2 DEF Honours!Nobody
  <2> QED BY <2>1, <2>2, <2>3 DEF Fair
<1>3. ASSUME \A m \in DOMAIN results : ~Honours!Checks(m) /\ ~failed[m],
             NEW p \in Honours!Members(Honours!Players), NEW type \in Honours!Types, results # <<>>,
             Honours!Test(type, Honours!getPlayerStats(p))
      PROVE  <<p, type>> \in achievements
  <2> DEFINE K == Len(results)
  <2>1. K \in DOMAIN results /\ K \in Honours!Matches
    BY <1>3 DEF HonoursInv, Checked
  <2>2. PICK i \in DOMAIN Honours!Players : p = Honours!Players[i]
    BY DEF Honours!Members
  <2>3. <<Honours!Players[i], type>> \in Earned
    BY <1>3, <2>2 DEF Earned
  <2>4. player[K] \in Nat /\ player[K] >= 1 /\ player[K] \notin DOMAIN Honours!Players
    BY <1>3, <2>1 DEF HonoursInv, Checked, Honours!Checks
  <2>5. i \in 1 .. player[K] - 1
    BY <2>2, <2>4, ThePlayers
  <2>6. HonoursSettled(Earned, achievements, i, {})
    BY <1>3, <2>1, <2>5 DEF HonoursInv, Checked
  <2> QED BY <2>2, <2>3, <2>6 DEF HonoursSettled
<1> QED BY <1>1, <1>2, <1>3 DEF Honours!HonoursAreEarned
-----------------------------------------------------------------------------
(* The lists of an offline match stay sound.                                 *)

OfflineBounds == playersPerTeam \in Nat /\ IsFiniteSet(People)

\* A list, and what is remembered with it.
Fits(list) == list \in Seq(People) /\ Offline!IsInjective(list) /\ Len(list) <= Offline!maxPlayers
Remembers(debug, list, remembered) ==
  IF debug THEN remembered \subseteq Offline!ToSet(list) ELSE remembered = Offline!ToSet(list)
Fields(teams) == /\ teams[1] \cap teams[2] = {}
                 /\ Cardinality(teams[1]) <= playersPerTeam /\ Cardinality(teams[2]) <= playersPerTeam

IsMatch(m) ==
  m = [format |-> m.format, debug |-> m.debug, confirmed |-> m.confirmed, original |-> m.original,
       blue |-> m.blue, red |-> m.red, started |-> m.started, finished |-> m.finished, on |-> m.on]

\* What a handler has read is as sound as what it will be written over.
Reads(debug, h) ==
  /\ h.kind \in {"leave", "draw"} => Fits(h.confirmed)
  /\ h.kind = "leave" => Remembers(debug, h.confirmed, h.original)

Played(m, handlers) ==
  /\ IsMatch(m) /\ m.on
  /\ Fits(m.confirmed) /\ Remembers(m.debug, m.confirmed, m.original) /\ Fields(<<m.blue, m.red>>)
  /\ \A h \in handlers : Reads(m.debug, h)

OfflineInv == \/ match = Offline!NoMatch /\ waiting = {}
              \/ Played(match, waiting)
-----------------------------------------------------------------------------
(* The lists.                                                              *)

LEMMA ListAsSet ==
  ASSUME NEW list, Fits(list)
  PROVE  /\ IsFiniteSet(Offline!ToSet(list)) /\ Offline!ToSet(list) \subseteq People
         /\ Cardinality(Offline!ToSet(list)) = Len(list) /\ Len(list) \in Nat
<1>1. list \in [1 .. Len(list) -> People] /\ Len(list) \in Nat /\ DOMAIN list = 1 .. Len(list)
  BY LenProperties DEF Fits
<1>2. list \in Bijection(1 .. Len(list), Offline!ToSet(list))
  BY <1>1, SameInjections DEF Fits, Offline!ToSet, Bijection, Injection, Surjection
<1>3. IsFiniteSet(1 .. Len(list)) /\ Cardinality(1 .. Len(list)) = Len(list)
  <2>1. \A n \in Nat : IsFiniteSet(1 .. n) /\ Cardinality(1 .. n) = n
    BY FS_Interval
  <2> QED BY <1>1, <2>1
<1>4. ExistsBijection(1 .. Len(list), Offline!ToSet(list))
  BY <1>2 DEF ExistsBijection
<1>5. IsFiniteSet(Offline!ToSet(list)) /\ Cardinality(Offline!ToSet(list)) = Len(list)
  BY <1>3, <1>4, FS_Bijection
<1> QED BY <1>1, <1>5 DEF Offline!ToSet

LEMMA AppendFits ==
  ASSUME NEW list, Fits(list), NEW u \in People, u \notin Offline!ToSet(list),
         Len(list) < Offline!maxPlayers,
         playersPerTeam \in Nat
  PROVE  Fits(Append(list, u)) /\ Offline!ToSet(Append(list, u)) = Offline!ToSet(list) \cup {u}
<1> DEFINE n == Len(list)
           more == Append(list, u)
<1>1. /\ more \in Seq(People) /\ Len(more) = n + 1 /\ n \in Nat /\ more[n + 1] = u
      /\ DOMAIN more = 1 .. n + 1 /\ DOMAIN list = 1 .. n /\ \A i \in 1 .. n : more[i] = list[i]
  BY DEF Fits
<1> HIDE DEF more, n
<1>2. \A i \in 1 .. n + 1 : i \in 1 .. n \/ i = n + 1
  BY <1>1
<1>3. \A i \in 1 .. n : i \in 1 .. n + 1 /\ list[i] # u
  BY <1>1 DEF Offline!ToSet
<1>4. Offline!IsInjective(more)
  BY <1>1, <1>2, <1>3 DEF Offline!IsInjective, Fits
<1>5. Offline!ToSet(more) = Offline!ToSet(list) \cup {u}
  <2>1. n + 1 \in 1 .. n + 1
    BY <1>1
  <2> QED BY <1>1, <1>2, <1>3, <2>1 DEF Offline!ToSet
<1>6. Len(more) <= Offline!maxPlayers
  BY <1>1 DEF n, Offline!maxPlayers
<1> QED BY <1>1, <1>4, <1>5, <1>6 DEF Fits, more

LEMMA WithoutFits ==
  ASSUME NEW list, Fits(list), NEW u \in Offline!ToSet(list), playersPerTeam \in Nat
  PROVE  Fits(Offline!Without(list, u))
         /\ Offline!ToSet(Offline!Without(list, u)) = Offline!ToSet(list) \ {u}
<1> DEFINE n == Len(list)
           at == CHOOSE i \in DOMAIN list : list[i] = u
           less == Offline!Without(list, u)
<1>1. n \in Nat /\ DOMAIN list = 1 .. n /\ list \in Seq(People)
  BY DEF Fits
<1>2. at \in 1 .. n /\ list[at] = u
  BY <1>1 DEF Offline!ToSet
<1>3. less = SubSeq(list, 1, at - 1) \o SubSeq(list, at + 1, n)
  BY DEF Offline!Without, Offline!RemoveAt
<1> HIDE DEF at, n, less
<1> DEFINE head == SubSeq(list, 1, at - 1)
           tail == SubSeq(list, at + 1, n)
<1>4. /\ head \in Seq(People) /\ Len(head) = at - 1
      /\ \A i \in 1 .. at - 1 : head[i] = list[i]
  BY <1>1, <1>2 DEF n
<1>5. /\ tail \in Seq(People) /\ Len(tail) = n - at
      /\ \A i \in 1 .. n - at : tail[i] = list[i + at]
  <2>1. tail \in Seq(People) /\ Len(tail) = n - at
    <3>1. \A i \in at + 1 .. n : list[i] \in People
      BY <1>1, <1>2 DEF n
    <3>2. tail \in Seq(People) /\ Len(tail) = IF at + 1 <= n THEN n - (at + 1) + 1 ELSE 0
      BY <1>1, <1>2, <3>1, SubSeqProperties
    <3> QED BY <1>1, <1>2, <3>2
  <2>2. ASSUME NEW i \in 1 .. n - at  PROVE tail[i] = list[i + at]
    <3>1. at + 1 + i - 1 = i + at
      BY <1>1, <1>2
    <3>2. tail[i] = list[at + 1 + i - 1]
      BY <1>1, <1>2 DEF n
    <3> QED BY <3>1, <3>2
  <2> QED BY <2>1, <2>2
<1> HIDE DEF head, tail
<1>6. /\ less \in Seq(People) /\ Len(less) = n - 1 /\ DOMAIN less = 1 .. n - 1
      /\ \A i \in 1 .. n - 1 : less[i] = IF i < at THEN list[i] ELSE list[i + 1]
  <2>1. less = head \o tail
    BY <1>3 DEF head, tail
  <2>2. less \in Seq(People) /\ Len(less) = n - 1 /\ DOMAIN less = 1 .. n - 1
    <3>0. \A p, q \in Seq(People) : p \o q \in Seq(People) /\ Len(p \o q) = Len(p) + Len(q)
      OBVIOUS
    <3>1. less \in Seq(People) /\ Len(less) = Len(head) + Len(tail)
      BY <1>4, <1>5, <2>1, <3>0
    <3>2. DOMAIN less = 1 .. Len(less)
      BY <3>1
    <3> QED BY <1>1, <1>2, <1>4, <1>5, <3>1, <3>2
  <2>3. ASSUME NEW i \in 1 .. n - 1  PROVE less[i] = IF i < at THEN list[i] ELSE list[i + 1]
    <3>1. CASE i < at
      BY <1>1, <1>2, <1>4, <1>5, <2>1, <3>1
    <3>2. CASE ~(i < at)
      <4>1. less[i] = tail[i - (at - 1)] /\ i - (at - 1) \in 1 .. n - at
        BY <1>1, <1>2, <1>4, <1>5, <2>1, <3>2
      <4>2. i - (at - 1) + at = i + 1
        BY <1>1, <1>2
      <4> QED BY <1>5, <3>2, <4>1, <4>2
    <3> QED BY <3>1, <3>2
  <2> QED BY <2>2, <2>3
<1>7. \A i, j \in 1 .. n : list[i] = list[j] => i = j
  BY <1>1 DEF Fits, Offline!IsInjective
<1>8. Offline!IsInjective(less)
  <2> SUFFICES ASSUME NEW i \in 1 .. n - 1, NEW j \in 1 .. n - 1, less[i] = less[j]  PROVE i = j
    BY <1>6 DEF Offline!IsInjective
  <2>1. i \in 1 .. n /\ i + 1 \in 1 .. n /\ j \in 1 .. n /\ j + 1 \in 1 .. n
    BY <1>1
  <2>2. CASE i < at /\ j < at
    BY <1>6, <1>7, <2>1, <2>2
  <2>3. CASE ~(i < at) /\ ~(j < at)
    <3>1. list[i + 1] = list[j + 1]
      BY <1>6, <2>3
    <3>2. i + 1 = j + 1
      BY <1>7, <2>1, <3>1
    <3> QED BY <2>1, <3>2
  <2>4. CASE i < at /\ ~(j < at)
    <3>1. list[i] = list[j + 1]
      BY <1>6, <2>4
    <3>2. i = j + 1
      BY <1>7, <2>1, <3>1
    <3> QED BY <1>2, <2>1, <2>4, <3>2
  <2>5. CASE ~(i < at) /\ j < at
    <3>1. list[i + 1] = list[j]
      BY <1>6, <2>5
    <3>2. i + 1 = j
      BY <1>7, <2>1, <3>1
    <3> QED BY <1>2, <2>1, <2>5, <3>2
  <2> QED BY <2>2, <2>3, <2>4, <2>5
<1>9. Offline!ToSet(less) = Offline!ToSet(list) \ {u}
  <2>1. ASSUME NEW x \in Offline!ToSet(less)  PROVE x \in Offline!ToSet(list) \ {u}
    <3>1. PICK i \in 1 .. n - 1 : x = less[i]
      BY <1>6 DEF Offline!ToSet
    <3>2. CASE i < at
      <4>1. i \in 1 .. n /\ x = list[i] /\ i # at
        BY <1>1, <1>2, <1>6, <3>1, <3>2
      <4> QED BY <1>1, <1>2, <1>7, <4>1 DEF Offline!ToSet
    <3>3. CASE ~(i < at)
      <4>1. i + 1 \in 1 .. n /\ x = list[i + 1] /\ i + 1 # at
        BY <1>1, <1>2, <1>6, <3>1, <3>3
      <4> QED BY <1>1, <1>2, <1>7, <4>1 DEF Offline!ToSet
    <3> QED BY <3>2, <3>3
  <2>2. ASSUME NEW x \in Offline!ToSet(list) \ {u}  PROVE x \in Offline!ToSet(less)
    <3>1. PICK i \in 1 .. n : x = list[i] /\ i # at
      BY <1>1, <1>2 DEF Offline!ToSet
    <3>2. CASE i < at
      <4>1. i \in 1 .. n - 1 /\ less[i] = x
        BY <1>1, <1>2, <1>6, <3>1, <3>2
      <4> QED BY <1>6, <4>1 DEF Offline!ToSet
    <3>3. CASE ~(i < at)
      <4>1. i - 1 \in 1 .. n - 1 /\ ~(i - 1 < at) /\ i - 1 + 1 = i
        BY <1>1, <1>2, <3>1, <3>3
      <4>2. less[i - 1] = x
        BY <1>6, <3>1, <4>1
      <4> QED BY <1>6, <4>1, <4>2 DEF Offline!ToSet
    <3> QED BY <3>2, <3>3
  <2> QED BY <2>1, <2>2
<1>10. Len(less) <= Offline!maxPlayers
  BY <1>1, <1>6 DEF Fits, n, Offline!maxPlayers
<1> QED BY <1>6, <1>8, <1>9, <1>10 DEF Fits, less

\* What is not blue of a list is red.
LEMMA SplitIsFair ==
  ASSUME NEW list, Fits(list), NEW blue \in SUBSET Offline!ToSet(list), playersPerTeam \in Nat,
         Cardinality(blue) <= playersPerTeam, Len(list) - Cardinality(blue) <= playersPerTeam
  PROVE  Fields(<<blue, Offline!ToSet(list) \ blue>>)
<1>1. IsFiniteSet(Offline!ToSet(list)) /\ Cardinality(Offline!ToSet(list)) = Len(list)
  BY ListAsSet
<1>2. /\ IsFiniteSet(blue)
      /\ Cardinality(Offline!ToSet(list) \ blue) = Cardinality(Offline!ToSet(list)) - Cardinality(Offline!ToSet(list) \cap blue)
  BY <1>1, FS_Subset, FS_Difference
<1>3. Offline!ToSet(list) \cap blue = blue
  OBVIOUS
<1>4. Cardinality(Offline!ToSet(list) \ blue) <= playersPerTeam
  BY <1>1, <1>2, <1>3
<1>5. blue \cap (Offline!ToSet(list) \ blue) = {}
  OBVIOUS
<1> QED BY <1>4, <1>5 DEF Fields

LEMMA DrawIsFair ==
  ASSUME NEW list, Fits(list), playersPerTeam \in Nat,
         NEW teams \in Offline!drawTeams(list) \cup Offline!balancedSplitByDiscordIds(list)
  PROVE  Fields(teams)
<1>1. IsFiniteSet(Offline!ToSet(list)) /\ Cardinality(Offline!ToSet(list)) = Len(list)
        /\ Len(list) \in Nat
      /\ Len(list) <= 2 * playersPerTeam
  BY ListAsSet DEF Fits, Offline!maxPlayers
<1>2. CASE teams \in Offline!drawTeams(list)
  <2>1. PICK blue \in SUBSET Offline!ToSet(list) :
          Cardinality(blue) = Len(list) \div 2 /\ teams = <<blue, Offline!ToSet(list) \ blue>>
    BY <1>2, SameCounts DEF Offline!drawTeams, Offline!kSubset
  <2>2. Len(list) \div 2 <= playersPerTeam /\ Len(list) - (Len(list) \div 2) <= playersPerTeam
    BY <1>1
  <2> QED BY <2>1, <2>2, SplitIsFair
<1>3. CASE teams \in Offline!balancedSplitByDiscordIds(list)
  <2>1. PICK blue \in SUBSET Offline!ToSet(list) :
          /\ Cardinality(blue) <= playersPerTeam /\ Len(list) - Cardinality(blue) <= playersPerTeam
          /\ teams = <<blue, Offline!ToSet(list) \ blue>>
    BY <1>3, SameCounts DEF Offline!balancedSplitByDiscordIds
  <2> QED BY <2>1, SplitIsFair
<1> QED BY <1>2, <1>3

\* Part of a list has no more members than its length.
LEMMA PartIsSmall ==
  ASSUME NEW list, Fits(list), NEW a \in Nat, NEW b \in Nat, a >= 1, b <= Len(list), a <= b + 1
  PROVE  /\ \A x \in Offline!ToSet(SubSeq(list, a, b)) : \E i \in a .. b : x = list[i]
         /\ Cardinality(Offline!ToSet(SubSeq(list, a, b))) <= b - a + 1
<1> DEFINE part == SubSeq(list, a, b)
           n == b - a + 1
<1>1. list \in Seq(People) /\ Len(list) \in Nat
  BY DEF Fits
<1>2. part \in Seq(People) /\ Len(part) = n /\ n \in Nat
  BY <1>1
<1>3. \A i \in 1 .. n : part[i] = list[a + i - 1] /\ a + i - 1 \in a .. b
  <2>1. ASSUME NEW i \in 1 .. n  PROVE part[i] = list[a + i - 1]
    BY <1>1
  <2> QED BY <2>1
<1> HIDE DEF part
<1>4. DOMAIN part = 1 .. n /\ part \in [1 .. n -> People]
  BY <1>2
<1> HIDE DEF n
<1>5. part \in Surjection(1 .. n, Offline!ToSet(part))
  BY <1>4 DEF Surjection, Offline!ToSet
<1>6. ExistsSurjection(1 .. n, Offline!ToSet(part))
  BY <1>5 DEF ExistsSurjection
<1>7. Cardinality(Offline!ToSet(part)) <= n
  BY <1>2, <1>6, FS_SurjCardinalityBound
<1>8. \A x \in Offline!ToSet(part) : \E i \in a .. b : x = list[i]
  BY <1>3, <1>4 DEF Offline!ToSet
<1> QED BY <1>7, <1>8 DEF part, n

\* The first half of a list against the second.
LEMMA HalvesAreFair ==
  ASSUME NEW list, Fits(list), playersPerTeam \in Nat, Len(list) >= Offline!maxPlayers
  PROVE  Fields(<<Offline!ToSet(SubSeq(list, 1, playersPerTeam)),
                  Offline!ToSet(SubSeq(list, playersPerTeam + 1, Offline!maxPlayers))>>)
<1> DEFINE blue == Offline!ToSet(SubSeq(list, 1, playersPerTeam))
           red == Offline!ToSet(SubSeq(list, playersPerTeam + 1, Offline!maxPlayers))
           n == playersPerTeam
<1>1. Len(list) \in Nat /\ Len(list) = 2 * n /\ Offline!maxPlayers = 2 * n /\ DOMAIN list = 1 .. 2 * n
  BY DEF Fits, Offline!maxPlayers
<1>2. /\ \A x \in blue : \E i \in 1 .. n : x = list[i]
      /\ Cardinality(blue) <= n - 1 + 1
  BY <1>1, PartIsSmall
<1>3. /\ \A x \in red : \E i \in n + 1 .. 2 * n : x = list[i]
      /\ Cardinality(red) <= 2 * n - (n + 1) + 1
  <2>1. n + 1 \in Nat /\ 2 * n \in Nat /\ n + 1 >= 1 /\ 2 * n <= Len(list) /\ n + 1 <= 2 * n + 1
    BY <1>1
  <2>2. red = Offline!ToSet(SubSeq(list, n + 1, 2 * n))
    BY <1>1
  <2> HIDE DEF red, n
  <2> QED BY <2>1, <2>2, PartIsSmall
<1> HIDE DEF blue, red
<1>4. blue \cap red = {}
  <2> SUFFICES ASSUME NEW x \in blue, x \in red  PROVE FALSE
    OBVIOUS
  <2>1. PICK i \in 1 .. n : x = list[i]
    BY <1>2
  <2>2. PICK j \in n + 1 .. 2 * n : x = list[j]
    BY <1>3
  <2>3. i \in DOMAIN list /\ j \in DOMAIN list /\ i # j
    BY <1>1
  <2> QED BY <2>1, <2>2, <2>3 DEF Fits, Offline!IsInjective
<1>5. Cardinality(blue) <= n /\ Cardinality(red) <= n
  <2>1. n - 1 + 1 = n /\ 2 * n - (n + 1) + 1 = n
    OBVIOUS
  <2> QED BY <1>2, <1>3, <2>1
<1> QED BY <1>4, <1>5 DEF Fields, blue, red
-----------------------------------------------------------------------------
(* The fields of a match that are written.                                 *)

SameButFor(m, n) == IsMatch(n) /\ n.debug = m.debug /\ n.on = m.on
SameLists(m, n) == n.confirmed = m.confirmed /\ n.original = m.original
SameTeams(m, n) == n.blue = m.blue /\ n.red = m.red

WithList(m, list) == [m EXCEPT !.confirmed = list]
WithOriginal(m, remembered) == [m EXCEPT !.original = remembered]
WithBlue(m, blue) == [m EXCEPT !.blue = blue]
WithRed(m, red) == [m EXCEPT !.red = red]
Begun(m) == [m EXCEPT !.started = TRUE]
Ended(m) == [m EXCEPT !.finished = TRUE]

LEMMA OneFieldWritten ==
  ASSUME NEW m, IsMatch(m), NEW x
  PROVE  /\ LET n == WithList(m, x) IN
              SameButFor(m, n) /\ n.confirmed = x /\ n.original = m.original /\ SameTeams(m, n)
         /\ LET n == WithOriginal(m, x) IN
              SameButFor(m, n) /\ n.confirmed = m.confirmed /\ n.original = x /\ SameTeams(m, n)
         /\ LET n == WithBlue(m, x) IN
              SameButFor(m, n) /\ SameLists(m, n) /\ n.blue = x /\ n.red = m.red
         /\ LET n == WithRed(m, x) IN
              SameButFor(m, n) /\ SameLists(m, n) /\ n.blue = m.blue /\ n.red = x
         /\ SameButFor(m, Begun(m)) /\ SameLists(m, Begun(m)) /\ SameTeams(m, Begun(m))
         /\ SameButFor(m, Ended(m)) /\ SameLists(m, Ended(m)) /\ SameTeams(m, Ended(m))
<1> DEFINE R(f, d, c, o, b, r, s, e, on) ==
             [format |-> f, debug |-> d, confirmed |-> c, original |-> o,
              blue |-> b, red |-> r, started |-> s, finished |-> e, on |-> on]
<1>1. PICK f, d, c, o, b, r, s, e, on : m = R(f, d, c, o, b, r, s, e, on)
  BY DEF IsMatch
<1>2. /\ WithList(m, x) = R(f, d, x, o, b, r, s, e, on)
      /\ WithOriginal(m, x) = R(f, d, c, x, b, r, s, e, on)
  BY <1>1 DEF WithList, WithOriginal
<1>3. /\ WithBlue(m, x) = R(f, d, c, o, x, r, s, e, on)
      /\ WithRed(m, x) = R(f, d, c, o, b, x, s, e, on)
  BY <1>1 DEF WithBlue, WithRed
<1>4. \E yes : Begun(m) = R(f, d, c, o, b, r, yes, e, on)
  <2>1. \A yes : [m EXCEPT !.started = yes] = R(f, d, c, o, b, r, yes, e, on)
    BY <1>1
  <2> QED BY <2>1, Zenon DEF Begun
<1>5. \E yes : Ended(m) = R(f, d, c, o, b, r, s, yes, on)
  <2>1. \A yes : [m EXCEPT !.finished = yes] = R(f, d, c, o, b, r, s, yes, on)
    BY <1>1
  <2> QED BY <2>1, Zenon DEF Ended
<1> QED
  BY <1>1, <1>2, <1>3, <1>4, <1>5 DEF SameButFor, SameLists, SameTeams, IsMatch

\* A match with other lists and other teams, all of them sound.
LEMMA WrittenIsPlayed ==
  ASSUME NEW m, NEW handlers, Played(m, handlers), NEW left \in SUBSET handlers, NEW n,
         SameButFor(m, n),
         Fits(n.confirmed), Remembers(m.debug, n.confirmed, n.original), Fields(<<n.blue, n.red>>)
  PROVE  Played(n, left)
  BY DEF Played, SameButFor

LEMMA ListsWritten ==
  ASSUME NEW m, NEW handlers, Played(m, handlers), NEW left \in SUBSET handlers,
         NEW list, NEW remembered, Fits(list), Remembers(m.debug, list, remembered)
  PROVE  Played(WithOriginal(WithList(m, list), remembered), left)
<1> DEFINE mid == WithList(m, list)
           n == WithOriginal(mid, remembered)
<1>1. SameButFor(m, mid) /\ mid.confirmed = list /\ SameTeams(m, mid)
  BY OneFieldWritten DEF Played
<1> HIDE DEF mid
<1>2. SameButFor(mid, n) /\ n.confirmed = mid.confirmed /\ n.original = remembered /\ SameTeams(mid, n)
  BY <1>1, OneFieldWritten DEF SameButFor
<1> HIDE DEF n
<1>3. Played(n, left)
  BY <1>1, <1>2, WrittenIsPlayed DEF SameButFor, SameTeams, Played
<1> QED BY <1>3 DEF n, mid

LEMMA TeamsWritten ==
  ASSUME NEW m, NEW handlers, Played(m, handlers), NEW left \in SUBSET handlers,
         NEW blue, NEW red, Fields(<<blue, red>>)
  PROVE  Played(WithRed(WithBlue(m, blue), red), left)
<1> DEFINE mid == WithBlue(m, blue)
           n == WithRed(mid, red)
<1>1. SameButFor(m, mid) /\ SameLists(m, mid) /\ mid.blue = blue
  BY OneFieldWritten DEF Played
<1> HIDE DEF mid
<1>2. SameButFor(mid, n) /\ SameLists(mid, n) /\ n.blue = mid.blue /\ n.red = red
  BY <1>1, OneFieldWritten DEF SameButFor
<1> HIDE DEF n
<1>3. Played(n, left)
  BY <1>1, <1>2, WrittenIsPlayed DEF SameButFor, SameLists, Played
<1> QED BY <1>3 DEF n, mid

LEMMA FlagsWritten ==
  ASSUME NEW m, NEW handlers, Played(m, handlers), NEW left \in SUBSET handlers
  PROVE  Played(Begun(m), left) /\ Played(Ended(m), left)
<1>1. /\ SameButFor(m, Begun(m)) /\ SameLists(m, Begun(m)) /\ SameTeams(m, Begun(m))
      /\ SameButFor(m, Ended(m)) /\ SameLists(m, Ended(m)) /\ SameTeams(m, Ended(m))
  BY OneFieldWritten DEF Played
<1> QED BY <1>1, WrittenIsPlayed DEF SameLists, SameTeams, Played
-----------------------------------------------------------------------------
LEMMA OfflineInit == Offline!Init => OfflineInv
  BY DEF Offline!Init, OfflineInv

\* A match that is on is the one that is written.
LEMMA PlayedIsOn ==
  ASSUME OfflineInv, match.on
  PROVE  Played(match, waiting)
<1>1. match # Offline!NoMatch
  BY DEF Offline!NoMatch
<1> QED BY <1>1 DEF OfflineInv

LEMMA PlayedKept ==
  ASSUME Played(match', waiting')
  PROVE  OfflineInv'
  BY DEF OfflineInv

LEMMA CreateKeeps ==
  ASSUME OfflineBounds, OfflineInv, Offline!createOfflineMatch
  PROVE  OfflineInv'
<1>1. ~match.on /\ UNCHANGED waiting
  BY DEF Offline!createOfflineMatch, Offline!onCriarPartida
<1>2. waiting = {}
  BY <1>1 DEF OfflineInv, Played
<1> DEFINE New(format, debug, initial) ==
             [format |-> format, debug |-> debug, confirmed |-> initial, original |-> {},
              blue |-> {}, red |-> {}, started |-> FALSE, finished |-> FALSE, on |-> TRUE]
<1>3. PICK format \in Formats, debug \in BOOLEAN :
        \E initial \in IF debug THEN {Offline!SetToSeq(s) : s
          \in Offline!kSubset(Offline!maxPlayers, People)} ELSE {<<>>} :
          match' = New(format, debug, initial)
  BY Zenon DEF Offline!createOfflineMatch
<1>4. PICK initial \in IF debug THEN {Offline!SetToSeq(s) : s
           \in Offline!kSubset(Offline!maxPlayers, People)} ELSE {<<>>} :
        match' = New(format, debug, initial)
  BY <1>3
<1>5. Fits(initial) /\ Remembers(debug, initial, {})
  <2>1. CASE ~debug
    BY <1>4, <2>1 DEF Fits, Remembers, Offline!ToSet, Offline!IsInjective, Offline!maxPlayers,
       OfflineBounds
  <2>2. CASE debug
    <3>1. PICK s \in SUBSET People : Cardinality(s) = Offline!maxPlayers
               /\ initial = Offline!SetToSeq(s)
      BY <1>4, <2>2, SameCounts DEF Offline!kSubset
    <3>2. IsFiniteSet(s) /\ Cardinality(s) \in Nat /\ ExistsBijection(1 .. Cardinality(s), s)
      BY FS_Subset, FS_CardinalityType DEF OfflineBounds
    <3>3. \E f \in [1 .. Cardinality(s) -> s] : Offline!IsInjective(f)
      BY <3>2, SameInjections DEF ExistsBijection, Bijection, Injection
    <3>4. initial \in [1 .. Cardinality(s) -> s] /\ Offline!IsInjective(initial)
      BY <3>1, <3>3, SameCounts DEF Offline!SetToSeq
    <3>5. initial \in [1 .. Cardinality(s) -> People]
      BY <3>4
    <3>6. initial \in Seq(People)
      BY <3>2, <3>5, SeqDef
    <3>7. DOMAIN initial = 1 .. Len(initial) /\ Len(initial) \in Nat
      BY <3>6, LenProperties
    <3>8. \A a, b \in Nat : 1 .. a = 1 .. b => a = b
      OBVIOUS
    <3>9. Len(initial) = Cardinality(s)
      BY <3>2, <3>5, <3>7, <3>8
    <3> QED BY <2>2, <3>1, <3>2, <3>4, <3>6, <3>9 DEF Fits, Remembers, Offline!maxPlayers,
               OfflineBounds
  <2> QED BY <2>1, <2>2
<1>6. Fields(<<{}, {}>>)
  BY FS_EmptySet DEF Fields, OfflineBounds
<1>7. /\ match'.debug = debug /\ match'.confirmed = initial /\ match'.original = {} /\ match'.blue = {}
      /\ match'.red = {} /\ match'.on
  BY <1>4
<1>8. IsMatch(match')
  BY <1>4 DEF IsMatch
<1>9. Played(match', waiting')
  BY <1>1, <1>2, <1>5, <1>6, <1>7, <1>8 DEF Played
<1> QED BY <1>9, PlayedKept

LEMMA OfflineJoinKeeps ==
  ASSUME OfflineBounds, OfflineInv, NEW u \in People, Offline!onJoin(u)
  PROVE  OfflineInv'
<1> DEFINE list == match.confirmed
           more == Append(list, u)
           stay == match.original \cup {u}
<1>1. match.on /\ u \notin Offline!ToSet(list) /\ Len(list) < Offline!maxPlayers /\ UNCHANGED waiting
  BY DEF Offline!onJoin
<1>2. Played(match, waiting)
  BY <1>1, PlayedIsOn
<1>3. match' = WithOriginal(WithList(match, more), stay)
  BY <1>1, Zenon DEF Offline!onJoin, Offline!update, WithOriginal, WithList
<1>4. Fits(more) /\ Offline!ToSet(more) = Offline!ToSet(list) \cup {u}
  BY <1>1, <1>2, AppendFits DEF OfflineBounds, Played
<1>5. Remembers(match.debug, more, stay)
  BY <1>2, <1>4 DEF Remembers, Played
<1> HIDE DEF more, stay
<1>6. Played(match', waiting')
  BY <1>1, <1>2, <1>3, <1>4, <1>5, ListsWritten
<1> QED BY <1>6, PlayedKept

\* What a handler reads before it awaits.
LEMMA AwaitKeeps ==
  ASSUME OfflineInv, match.on, UNCHANGED match, NEW h, waiting' = waiting \cup {h},
         Played(match, waiting) => Reads(match.debug, h)
  PROVE  OfflineInv'
<1>1. Played(match', waiting')
  BY PlayedIsOn DEF Played
<1> QED BY <1>1, PlayedKept

LEMMA LeaveKeeps ==
  ASSUME OfflineBounds, OfflineInv, NEW u \in People, Offline!onLeave(u)
  PROVE  OfflineInv'
<1> DEFINE list == match.confirmed
           h == [kind |-> "leave", confirmed |-> Offline!Without(list, u),
             original |-> match.original \ {u}]
<1>1. match.on /\ UNCHANGED match /\ waiting' = waiting \cup {h} /\ u \in Offline!ToSet(list)
  BY DEF Offline!onLeave, Offline!Awaits
<1>2. ASSUME Played(match, waiting)  PROVE Reads(match.debug, h)
  <2>1. Fits(Offline!Without(list, u))
          /\ Offline!ToSet(Offline!Without(list, u)) = Offline!ToSet(list) \ {u}
    BY <1>1, <1>2, WithoutFits DEF OfflineBounds, Played
  <2>2. Remembers(match.debug, Offline!Without(list, u), match.original \ {u})
    BY <1>2, <2>1 DEF Remembers, Played
  <2> QED BY <2>1, <2>2 DEF Reads
<1> HIDE DEF h
<1> QED BY <1>1, <1>2, AwaitKeeps

LEMMA LeaveMovedKeeps ==
  ASSUME OfflineBounds, OfflineInv, NEW h \in waiting, Offline!onLeaveMoved(h)
  PROVE  OfflineInv'
<1>1. Played(match, waiting) /\ match.on /\ h.kind = "leave" /\ waiting' = waiting \ {h}
  BY DEF Offline!onLeaveMoved, Offline!Resumes, OfflineInv, Played
<1>2. match' = WithOriginal(WithList(match, h.confirmed), h.original)
  BY <1>1, Zenon DEF Offline!onLeaveMoved, Offline!update, WithOriginal, WithList
<1>3. Fits(h.confirmed) /\ Remembers(match.debug, h.confirmed, h.original)
  BY <1>1 DEF Reads, Played
<1>4. Played(match', waiting')
  BY <1>1, <1>2, <1>3, ListsWritten
<1> QED BY <1>4, PlayedKept

LEMMA DrawKeeps ==
  ASSUME OfflineBounds, OfflineInv, Offline!onDraw
  PROVE  OfflineInv'
<1>1. match.on /\ Played(match, waiting)
  BY PlayedIsOn DEF Offline!onDraw
<1>2. CASE Offline!Awaits([kind |-> "draw", confirmed |-> match.confirmed]) /\ UNCHANGED match
  <2> DEFINE h == [kind |-> "draw", confirmed |-> match.confirmed]
  <2>1. waiting' = waiting \cup {h}
    BY <1>2 DEF Offline!Awaits
  <2>2. Reads(match.debug, h)
    BY <1>1 DEF Reads, Played
  <2> HIDE DEF h
  <2> QED BY <1>1, <1>2, <2>1, <2>2, AwaitKeeps
<1>3. CASE (\E teams \in Offline!drawTeams(match.confirmed) : Offline!Drawn(teams)) /\ UNCHANGED waiting
  <2>1. PICK teams \in Offline!drawTeams(match.confirmed) : Offline!Drawn(teams)
    BY <1>3
  <2>2. match' = WithRed(WithBlue(match, teams[1]), teams[2])
    BY <1>1, <2>1, Zenon DEF Offline!Drawn, Offline!update, WithRed, WithBlue
  <2>3. Fields(<<teams[1], teams[2]>>)
    BY <1>1, DrawIsFair DEF OfflineBounds, Fields, Played
  <2>4. Played(match', waiting')
    BY <1>1, <1>3, <2>2, <2>3, TeamsWritten
  <2> QED BY <2>4, PlayedKept
<1> QED BY <1>2, <1>3 DEF Offline!onDraw

LEMMA DrawRankedKeeps ==
  ASSUME OfflineBounds, OfflineInv, NEW h \in waiting, Offline!onDrawRanked(h)
  PROVE  OfflineInv'
<1>1. Played(match, waiting) /\ match.on /\ h.kind = "draw" /\ waiting' = waiting \ {h}
  BY DEF Offline!onDrawRanked, Offline!Resumes, OfflineInv, Played
<1>2. PICK teams \in Offline!balancedSplitByDiscordIds(h.confirmed) : Offline!Drawn(teams)
  BY DEF Offline!onDrawRanked
<1>3. match' = WithRed(WithBlue(match, teams[1]), teams[2])
  BY <1>1, <1>2, Zenon DEF Offline!Drawn, Offline!update, WithRed, WithBlue
<1>4. Fits(h.confirmed)
  BY <1>1 DEF Reads, Played
<1>5. Fields(<<teams[1], teams[2]>>)
  BY <1>4, DrawIsFair DEF OfflineBounds, Fields
<1>6. Played(match', waiting')
  BY <1>1, <1>3, <1>5, TeamsWritten
<1> QED BY <1>6, PlayedKept

LEMMA OfflineStartKeeps ==
  ASSUME OfflineBounds, OfflineInv, Offline!onStart
  PROVE  OfflineInv'
<1> DEFINE list == match.confirmed
           first == Offline!ToSet(SubSeq(list, 1, playersPerTeam))
           second == Offline!ToSet(SubSeq(list, playersPerTeam + 1, Offline!maxPlayers))
<1>1. match.on /\ UNCHANGED waiting /\ Len(list) >= Offline!maxPlayers /\ Played(match, waiting)
  BY PlayedIsOn DEF Offline!onStart
<1>2. \/ match' = WithRed(WithBlue(Begun(match), first), second)
      \/ match' = Begun(match)
  BY <1>1, Zenon DEF Offline!onStart, Offline!update, Begun, WithBlue, WithRed
<1>3. Fields(<<first, second>>)
  BY <1>1, HalvesAreFair DEF OfflineBounds, Played
<1> HIDE DEF first, second
<1>4. Played(Begun(match), waiting)
  BY <1>1, FlagsWritten
<1>5. Played(WithRed(WithBlue(Begun(match), first), second), waiting)
  BY <1>3, <1>4, TeamsWritten
<1>6. Played(match', waiting')
  BY <1>1, <1>2, <1>4, <1>5
<1> QED BY <1>6, PlayedKept

LEMMA OfflineFinishKeeps ==
  ASSUME OfflineBounds, OfflineInv, Offline!onFinish
  PROVE  OfflineInv'
<1> DEFINE h == [kind |-> "finish"]
<1>1. match.on /\ UNCHANGED match /\ waiting' = waiting \cup {h}
  BY DEF Offline!onFinish, Offline!Awaits
<1>2. Reads(match.debug, h)
  BY DEF Reads
<1> HIDE DEF h
<1> QED BY <1>1, <1>2, AwaitKeeps

LEMMA FinishMovedKeeps ==
  ASSUME OfflineBounds, OfflineInv, NEW h \in waiting, Offline!onFinishMoved(h)
  PROVE  OfflineInv'
<1>1. Played(match, waiting) /\ match.on /\ waiting' = waiting \ {h}
  BY DEF Offline!onFinishMoved, Offline!Resumes, OfflineInv, Played
<1>2. match' = Ended(match)
  BY <1>1, Zenon DEF Offline!onFinishMoved, Offline!update, Ended
<1>3. Played(match', waiting')
  BY <1>1, <1>2, FlagsWritten
<1> QED BY <1>3, PlayedKept

LEMMA OfflineStep ==
  ASSUME OfflineBounds
  PROVE  OfflineInv /\ [Offline!Next]_Offline!vars => OfflineInv'
<1> SUFFICES ASSUME OfflineInv, [Offline!Next]_Offline!vars  PROVE OfflineInv'
  OBVIOUS
<1>1. ASSUME UNCHANGED <<match, waiting>>  PROVE OfflineInv'
  BY <1>1 DEF OfflineInv
<1>2. CASE Offline!createChannels \/ UNCHANGED Offline!vars
  BY <1>1, <1>2 DEF Offline!createChannels, Offline!vars
<1>3. CASE Offline!Restart
  BY <1>3 DEF Offline!Restart, OfflineInv
<1>4. ASSUME NEW u \in People, Offline!onJoin(u) \/ Offline!onLeave(u)  PROVE OfflineInv'
  BY <1>4, OfflineJoinKeeps, LeaveKeeps
<1>5. ASSUME NEW h \in waiting, Offline!onLeaveMoved(h) \/ Offline!onDrawRanked(h)
             \/ Offline!onFinishMoved(h)  PROVE OfflineInv'
  BY <1>5, LeaveMovedKeeps, DrawRankedKeeps, FinishMovedKeeps
<1> QED BY <1>2, <1>3, <1>4, <1>5, CreateKeeps, DrawKeeps, OfflineStartKeeps,
           OfflineFinishKeeps DEF Offline!Next

\* The lists of a match that is on.
LEMMA OfflineShows == OfflineInv => Offline!ListsStaySound
<1> SUFFICES ASSUME OfflineInv, match.on  PROVE Offline!ListsStaySound
  BY DEF Offline!ListsStaySound
<1>1. Played(match, waiting)
  BY PlayedIsOn
<1> QED BY <1>1, SameCounts
        DEF Played, Fits, Remembers, Fields, Offline!ListsStaySound
-----------------------------------------------------------------------------
(* A guest has one answer.                                                   *)

\* Nobody is in both lists of an event, be it in memory or in the file.
Listed == [going: SUBSET Guests, notGoing: SUBSET Guests, on: BOOLEAN]
EventSettled(book) == /\ book \in [Messages -> Listed]
                      /\ \A m \in Messages : book[m].going \cap book[m].notGoing = {}

EventInv == EventSettled(events) /\ EventSettled(file)
-----------------------------------------------------------------------------
\* An answer takes a guest from one list into the other.
LEMMA AnswerSettles ==
  ASSUME NEW m \in Messages, EventSettled(events), NEW entry \in Listed,
         entry.going \cap entry.notGoing = {}, Event!upsert(m, entry)
  PROVE  EventSettled(events') /\ file' \in {events', file}
<1>1. events' = [events EXCEPT ![m] = entry] /\ file' \in {events', file}
  BY DEF Event!upsert, Event!save
<1> QED BY <1>1 DEF EventSettled

LEMMA EventInit == Event!Init => EventInv
<1> SUFFICES ASSUME Event!Init  PROVE EventSettled(events) /\ file = events
  BY DEF EventInv
<1>1. Event!NoEvent \in Listed /\ Event!NoEvent.going \cap Event!NoEvent.notGoing = {}
  BY DEF Event!NoEvent, Listed
<1> QED BY <1>1 DEF Event!Init, EventSettled

LEMMA EventStep == EventInv /\ [Event!Next]_Event!vars => EventInv'
<1> SUFFICES ASSUME EventInv, [Event!Next]_Event!vars
             PROVE EventSettled(events') /\ EventSettled(file')
  BY DEF EventInv
<1>1. Event!NoEvent \in Listed /\ Event!NoEvent.going = {} /\ Event!NoEvent.notGoing = {}
  BY DEF Event!NoEvent, Listed
<1>2. CASE Event!onEventModal
  <2>1. PICK m \in Messages : Event!upsert(m, [going |-> {}, notGoing |-> {}, on |-> TRUE])
    BY <1>2 DEF Event!onEventModal
  <2>2. [going |-> {}, notGoing |-> {}, on |-> TRUE] \in Listed
    BY DEF Listed
  <2>3. EventSettled(events') /\ file' \in {events', file}
    BY <2>1, <2>2, AnswerSettles DEF EventInv
  <2> QED BY <2>3 DEF EventInv
<1>3. ASSUME NEW m \in Messages, NEW u \in Guests, Event!onVou(m, u) \/ Event!onNaoVou(m, u)
      PROVE  EventSettled(events') /\ EventSettled(file')
  <2> DEFINE going == events[m].going
             notGoing == events[m].notGoing
  <2>1. going \subseteq Guests /\ notGoing \subseteq Guests /\ going \cap notGoing = {}
    BY DEF EventInv, EventSettled, Listed
  <2>2. CASE Event!onVou(m, u)
    <3> DEFINE entry == [going |-> going \cup {u}, notGoing |-> notGoing \ {u}, on |-> TRUE]
    <3>1. Event!upsert(m, entry)
      BY <2>2 DEF Event!onVou
    <3>2. entry \in Listed /\ entry.going \cap entry.notGoing = {}
      BY <2>1 DEF Listed
    <3> HIDE DEF entry
    <3>3. EventSettled(events') /\ file' \in {events', file}
      BY <3>1, <3>2, AnswerSettles DEF EventInv
    <3> QED BY <3>3 DEF EventInv
  <2>3. CASE Event!onNaoVou(m, u)
    <3> DEFINE entry == [going |-> going \ {u}, notGoing |-> notGoing \cup {u}, on |-> TRUE]
    <3>1. Event!upsert(m, entry)
      BY <2>3 DEF Event!onNaoVou
    <3>2. entry \in Listed /\ entry.going \cap entry.notGoing = {}
      BY <2>1 DEF Listed
    <3> HIDE DEF entry
    <3>3. EventSettled(events') /\ file' \in {events', file}
      BY <3>1, <3>2, AnswerSettles DEF EventInv
    <3> QED BY <3>3 DEF EventInv
  <2> QED BY <1>3, <2>2, <2>3
<1>4. CASE Event!onModuleInit
  <2>1. PICK expired \in SUBSET Messages :
          events' = [m \in Messages |-> IF m \in expired THEN Event!NoEvent ELSE file[m]]
    BY <1>4 DEF Event!onModuleInit
  <2>2. EventSettled(events')
    BY <1>1, <2>1 DEF EventInv, EventSettled
  <2>3. file' \in {events', file}
    BY <1>4 DEF Event!onModuleInit, Event!save
  <2> QED BY <2>2, <2>3 DEF EventInv
<1>5. CASE UNCHANGED Event!vars
  BY <1>5 DEF Event!vars, EventInv
<1> QED BY <1>2, <1>3, <1>4, <1>5 DEF Event!Next

\* Nobody is among those who go and those who do not.
LEMMA EventShows == EventInv => Event!OneAnswerEach
  BY DEF EventInv, EventSettled, Event!OneAnswerEach
-----------------------------------------------------------------------------
(* Who starts for a roster was put there by its last line-up.                *)

OfficeBounds == Rosters \cap {Office!Free, Office!Absent} = {}

\* A starter who has no roster, or one that did not choose him, was put there by a
\* line-up he had left; nobody starts who is not on the list.
StartersInv ==
  \A p \in Players : p \in starter =>
    /\ rosterOf[p] # Office!Absent
    /\ p \in overtaken \/ (rosterOf[p] \in Rosters /\ p \in chosen[rosterOf[p]])

OfficeInv ==
  /\ rosterOf = [p \in Players |-> rosterOf[p]] /\ chosen = [r \in Rosters |-> chosen[r]]
  /\ StartersInv
-----------------------------------------------------------------------------
LEMMA OfficeInit == Office!Init => OfficeInv
  BY DEF Office!Init, OfficeInv, StartersInv

\* A player who moves starts nowhere, wherever he goes.
LEMMA MovesKeep ==
  ASSUME OfficeInv, NEW p \in Players, NEW r, rosterOf' = [rosterOf EXCEPT ![p] = r],
         Office!StartsNowhere(p)
  PROVE  OfficeInv'
  BY DEF OfficeInv, StartersInv, Office!StartsNowhere

\* A free player who starts is one of those a late line-up was written for.
LEMMA SigningsKeep ==
  ASSUME OfficeBounds, OfficeInv, NEW r \in Rosters, NEW p \in Players, Office!Signed(r, p)
  PROVE  OfficeInv'
  BY DEF OfficeBounds, OfficeInv, StartersInv, Office!Signed

LEMMA ImportsKeep ==
  ASSUME OfficeBounds, OfficeInv, NEW u \in Users, NEW players \in SUBSET Players,
         NEW replace \in BOOLEAN, Office!importPlayers(u, players, replace)
  PROVE  OfficeInv'
<1>1. rosterOf' = [p \in Players |-> rosterOf'[p]] /\ chosen' = chosen
  BY DEF Office!importPlayers
<1>2. StartersInv'
  BY DEF OfficeInv, StartersInv, Office!importPlayers
<1> QED BY <1>1, <1>2 DEF OfficeInv

\* The line-up takes the place of those who started for its roster; whom it names and the
\* roster has no more is overtaken.
LEMMA LineupsKeep ==
  ASSUME OfficeInv, NEW r \in Rosters, Office!setLineupCommit(r)
  PROVE  OfficeInv'
<1> DEFINE new == asked[r].starters
<1>1. CASE \E p \in new : rosterOf[p] = Office!Absent
  BY <1>1 DEF OfficeInv, StartersInv, Office!setLineupCommit
<1>2. CASE ~\E p \in new : rosterOf[p] = Office!Absent
  <2>1. /\ starter' = (starter \ Office!Squad(r)) \cup new
        /\ chosen' = [chosen EXCEPT ![r] = new]
        /\ overtaken' = (overtaken \ Office!Squad(r)) \cup (new \ Office!Squad(r))
        /\ rosterOf' = rosterOf
    BY <1>2 DEF Office!setLineupCommit
  <2> HIDE DEF new
  <2>2. ASSUME NEW p \in Players, p \in starter'
        PROVE  /\ rosterOf'[p] # Office!Absent
               /\ p \in overtaken' \/ (rosterOf'[p] \in Rosters /\ p \in chosen'[rosterOf'[p]])
    <3>1. CASE p \in new
      BY <1>2, <2>1, <3>1 DEF OfficeInv, Office!Squad
    <3>2. CASE p \notin new
      <4>1. p \in starter /\ rosterOf[p] # r
        BY <2>1, <2>2, <3>2 DEF Office!Squad
      <4> QED BY <2>1, <4>1 DEF OfficeInv, StartersInv, Office!Squad
    <3> QED BY <3>1, <3>2
  <2> QED BY <2>1, <2>2 DEF OfficeInv, StartersInv
<1> QED BY <1>1, <1>2

LEMMA OfficeStep ==
  ASSUME OfficeBounds
  PROVE  OfficeInv /\ [Office!Next]_Office!vars => OfficeInv'
<1> SUFFICES ASSUME OfficeInv, [Office!Next]_Office!vars  PROVE OfficeInv'
  OBVIOUS
<1>1. ASSUME UNCHANGED <<rosterOf, starter, chosen, overtaken>>  PROVE OfficeInv'
  BY <1>1 DEF OfficeInv, StartersInv
<1>2. CASE \E u \in Users, plan \in Office!Plans : Office!create(u, plan)
  BY <1>1, <1>2 DEF Office!create, Office!Lineups
<1>3. CASE \E u \in Users, plan \in Office!Plans, status \in Office!Statuses :
             Office!update(u, plan, status)
  BY <1>1, <1>3 DEF Office!update, Office!Lineups
<1>4. CASE \E u \in Users : Office!remove(u)
  BY <1>4 DEF Office!remove, OfficeInv, StartersInv
<1>5. CASE \E u, v \in Users : \/ Office!setStaff(u, v, "MODERATOR") \/ Office!removeStaff(u, v)
                              \/ Office!transferOwnership(u, v)
  BY <1>1, <1>5 DEF Office!setStaff, Office!removeStaff, Office!transferOwnership, Office!Lineups
<1>6. CASE \E u \in Users, players \in SUBSET Players, replace \in BOOLEAN :
             Office!importPlayers(u, players, replace)
  BY <1>6, ImportsKeep
<1>7. CASE \E u \in Users, p \in Players : Office!removePlayer(u, p)
  BY <1>7, MovesKeep DEF Office!removePlayer
<1>8. CASE \E r \in Rosters, p \in Players : Office!Signed(r, p)
  BY <1>8, SigningsKeep
<1>9. CASE \E r \in Rosters \cup {Office!Free}, p \in Players : Office!Traded(r, p)
  BY <1>9, MovesKeep DEF Office!Traded
<1>10. CASE \E u \in Users, r \in Rosters, f \in Formations : Office!setTactics(u, r, f)
  BY <1>1, <1>10 DEF Office!setTactics, Office!Lineups
<1>11. CASE \E r \in Rosters, f \in Formations, starters \in SUBSET Players :
              Office!setLineup(r, f, starters)
  BY <1>1, <1>11 DEF Office!setLineup
<1>12. CASE \E r \in Rosters : Office!setLineupCommit(r)
  BY <1>12, LineupsKeep
<1>13. CASE UNCHANGED Office!vars
  BY <1>1, <1>13 DEF Office!vars
<1> QED
  BY <1>2, <1>3, <1>4, <1>5, <1>6, <1>7, <1>8, <1>9, <1>10, <1>11, <1>12, <1>13 DEF Office!Next

LEMMA OfficeShows == OfficeInv => Office!StartersWereChosen
  BY DEF OfficeInv, StartersInv, Office!StartersWereChosen
-----------------------------------------------------------------------------
(* The requests to the Riot API come in bounded bursts.                      *)

RiotBounds == MaxTokens \in [Buckets -> Nat \ {0}] /\ Window \in [Buckets -> Nat \ {0}]

\* Whoever was given a token by a bucket that holds m and fills up in w ticks, all who
\* were given one since and the tokens left are no more than a full bucket and what was
\* refilled in between; the last refill was s ticks ago.
Metered(m, w, t, s, ages) ==
  /\ t \in Nat /\ t <= m * w /\ s \in Nat /\ s <= w
  /\ ages \in Seq(Nat)
  /\ \A i \in 1 .. Len(ages) :
       /\ s <= ages[i] /\ ages[i] < w
       /\ (Len(ages) - i + 1) * w + t <= m * w + (ages[i] - s) * m
  /\ \A i, j \in 1 .. Len(ages) : i <= j => ages[j] <= ages[i]

RiotInv == /\ tokens = [b \in Buckets |-> tokens[b]]
           /\ sinceRefill = [b \in Buckets |-> sinceRefill[b]]
           /\ granted = [b \in Buckets |-> granted[b]]
           /\ \A b \in Buckets : Metered(MaxTokens[b], Window[b], tokens[b], sinceRefill[b], granted[b])
-----------------------------------------------------------------------------
\* A look at the bucket refills it, and gives a token if there is one.
LEMMA LookKeepsMeter ==
  ASSUME NEW m \in Nat \ {0}, NEW w \in Nat \ {0}, NEW t, NEW s, NEW ages, Metered(m, w, t, s, ages),
         NEW full, full = Riot!Least(m * w, t + s * m)
  PROVE  /\ Metered(m, w, full, 0, ages)
         /\ full >= w => Metered(m, w, full - w, 0, Append(ages, 0))
<1> DEFINE mw == m * w
           sm == s * m
<1>1. /\ t \in Nat /\ s \in Nat /\ ages \in Seq(Nat) /\ Len(ages) \in Nat /\ t <= m * w
      /\ \A i \in 1 .. Len(ages) : ages[i] \in Nat
  BY DEF Metered
<1>2. sm \in Nat /\ mw \in Nat
  BY <1>1
<1>3. full \in Nat /\ full <= mw /\ full <= t + sm
  <2> HIDE DEF mw, sm
  <2>1. full = Riot!Least(mw, t + sm)
    BY DEF mw, sm
  <2> QED BY <1>1, <1>2, <2>1 DEF Riot!Least, mw
<1>4. ASSUME NEW i \in 1 .. Len(ages)
      PROVE  (Len(ages) - i + 1) * w + full <= mw + ages[i] * m /\ 0 <= ages[i] /\ ages[i] < w
  <2> DEFINE given == (Len(ages) - i + 1) * w
             more == (ages[i] - s) * m
             am == ages[i] * m
  <2>1. given + t <= mw + more /\ ages[i] < w
    BY <1>4 DEF Metered
  <2>2. ages[i] \in Nat
    BY <1>1
  <2>3. more = am - sm
    BY <1>1, <2>2
  <2>4. given \in Int /\ am \in Int /\ more \in Int
    BY <1>1, <2>2
  <2>5. given + full <= mw + am
    <3> HIDE DEF given, more, am, mw, sm
    <3> QED BY <1>1, <1>2, <1>3, <2>1, <2>3, <2>4
  <2> QED BY <2>1, <2>2, <2>5
<1>5. \A i, j \in 1 .. Len(ages) : i <= j => ages[j] <= ages[i]
  BY DEF Metered
<1>6. Metered(m, w, full, 0, ages)
  BY <1>1, <1>3, <1>4, <1>5 DEF Metered
<1>7. ASSUME full >= w  PROVE Metered(m, w, full - w, 0, Append(ages, 0))
  <2> DEFINE more == Append(ages, 0)
             n == Len(ages)
  <2>1. /\ more \in Seq(Nat) /\ Len(more) = n + 1 /\ n \in Nat /\ more[n + 1] = 0
        /\ \A i \in 1 .. n : more[i] = ages[i]
    BY <1>1
  <2>2. full - w \in Nat /\ full - w <= m * w
    BY <1>3, <1>7
  <2>3. ASSUME NEW i \in 1 .. n + 1
        PROVE  /\ 0 <= more[i] /\ more[i] < w
               /\ (Len(more) - i + 1) * w + (full - w) <= mw + (more[i] - 0) * m
    <3>1. CASE i = n + 1
      <4>1. more[i] = 0 /\ (Len(more) - i + 1) * w = w /\ (more[i] - 0) * m = 0
        <5>1. more[i] = 0 /\ Len(more) - i + 1 = 1
          BY <2>1, <3>1
        <5> HIDE DEF more
        <5> QED BY <5>1
      <4>2. full \in Nat /\ full <= mw /\ mw \in Nat
        BY <1>2, <1>3
      <4>3. w + (full - w) <= mw + 0
        <5> HIDE DEF mw
        <5> QED BY <4>2
      <4> HIDE DEF mw, more, n
      <4> QED BY <4>1, <4>3
    <3>2. CASE i \in 1 .. n
      <4>1. (Len(more) - i + 1) * w + (full - w) = (n - i + 1) * w + full
        <5>1. Len(more) - i + 1 = (n - i + 1) + 1 /\ n - i + 1 \in Int
          BY <2>1
        <5>2. \A x \in Int : (x + 1) * w + (full - w) = x * w + full
          BY <1>3
        <5> HIDE DEF more, n
        <5> QED BY <5>1, <5>2
      <4>2. (n - i + 1) * w + full <= mw + ages[i] * m /\ 0 <= ages[i] /\ ages[i] < w
        BY <1>4, <3>2
      <4>3. more[i] = ages[i] /\ more[i] - 0 = ages[i]
        BY <1>1, <2>1, <3>2
      <4> HIDE DEF mw, more, n
      <4> QED BY <4>1, <4>2, <4>3
    <3> QED BY <2>1, <3>1, <3>2
  <2>4. ASSUME NEW i \in 1 .. n + 1, NEW j \in 1 .. n + 1, i <= j  PROVE more[j] <= more[i]
    <3>1. CASE j = n + 1
      BY <2>1, <2>3, <3>1
    <3>2. CASE j \in 1 .. n
      BY <1>5, <2>1, <2>4, <3>2
    <3> QED BY <2>1, <3>1, <3>2
  <2>5. more \in Seq(Nat) /\ Len(more) = n + 1
    BY <2>1
  <2>6. w \in Nat /\ 0 <= w
    OBVIOUS
  <2>7. \A i \in 1 .. Len(more) :
                   /\ 0 <= more[i] /\ more[i] < w
                   /\ (Len(more) - i + 1) * w + (full - w) <= m * w + (more[i] - 0) * m
    BY <2>3, <2>5
  <2>8. \A i, j \in 1 .. Len(more) : i <= j => more[j] <= more[i]
    BY <2>4, <2>5
  <2>9. 0 \in Nat
    OBVIOUS
  <2> HIDE DEF more, n
  <2>10. Metered(m, w, full - w, 0, more)
    BY <2>2, <2>5, <2>6, <2>7, <2>8, <2>9 DEF Metered
  <2> QED BY <2>10 DEF more
<1> QED BY <1>6, <1>7

\* The clock makes nobody's token younger.
LEMMA TickKeepsMeter ==
  ASSUME NEW m \in Nat \ {0}, NEW w \in Nat \ {0}, NEW t, NEW s, NEW ages, Metered(m, w, t, s, ages)
  PROVE  Metered(m, w, t, Riot!Least(w, s + 1), Riot!Recent([i \in DOMAIN ages |-> ages[i] + 1], w))
<1> DEFINE older == [i \in DOMAIN ages |-> ages[i] + 1]
           gone == {i \in DOMAIN older : older[i] >= w}
           k == Cardinality(gone)
           n == Len(ages)
           left == SubSeq(older, 1 + k, Len(older))
<1>1. /\ t \in Nat /\ s \in Nat /\ ages \in Seq(Nat) /\ n \in Nat /\ t <= m * w /\ s <= w
      /\ \A i \in 1 .. n : ages[i] \in Nat /\ s <= ages[i] /\ ages[i] < w
      /\ DOMAIN ages = 1 .. n
  BY DEF Metered
<1>2. /\ older \in Seq(Nat) /\ Len(older) = n /\ DOMAIN older = 1 .. n
      /\ \A i \in 1 .. n : older[i] = ages[i] + 1 /\ older[i] \in Nat
  <2>1. DOMAIN older = 1 .. n /\ \A i \in 1 .. n : older[i] = ages[i] + 1 /\ older[i] \in Nat
    BY <1>1
  <2>2. older \in [1 .. n -> Nat]
    BY <2>1
  <2> HIDE DEF older, n
  <2>3. older \in Seq(Nat)
    BY <1>1, <2>2, SeqDef
  <2>4. Len(older) \in Nat /\ DOMAIN older = 1 .. Len(older)
    BY <2>3, LenProperties
  <2>5. \A a, b \in Nat : 1 .. a = 1 .. b => a = b
    OBVIOUS
  <2>6. Len(older) = n
    BY <1>1, <2>1, <2>4, <2>5
  <2> QED BY <2>1, <2>3, <2>6
<1>3. IsFiniteSet(1 .. n) /\ Cardinality(1 .. n) = n
  <2>1. \A x \in Nat : IsFiniteSet(1 .. x) /\ Cardinality(1 .. x) = x
    BY FS_Interval
  <2> QED BY <1>1, <2>1
<1>4. gone \subseteq 1 .. n
  BY <1>2
<1>5. k \in Nat /\ k <= n /\ IsFiniteSet(gone)
  BY <1>3, <1>4, FS_Subset, FS_CardinalityType
<1>6. \A i \in 1 .. n : i > k => older[i] < w
  <2> SUFFICES ASSUME NEW i \in 1 .. n, i > k, ~(older[i] < w)  PROVE FALSE
    OBVIOUS
  <2>1. 1 .. i \subseteq gone
    <3> SUFFICES ASSUME NEW j \in 1 .. i  PROVE j \in 1 .. n /\ older[j] >= w
      BY <1>2 DEF gone
    <3>1. j \in 1 .. n /\ j <= i
      BY <1>1
    <3>2. ages[i] <= ages[j]
      BY <3>1 DEF Metered
    <3> QED BY <1>1, <1>2, <3>1, <3>2
  <2>2. Cardinality(1 .. i) = i
    BY <1>1, FS_Interval
  <2>3. Cardinality(1 .. i) <= Cardinality(gone)
    BY <1>5, <2>1, FS_Subset
  <2>4. i <= k
    BY <2>2, <2>3
  <2> QED BY <1>1, <1>5, <2>4
<1> HIDE DEF k, gone, older
<1>7. /\ left \in Seq(Nat) /\ Len(left) = n - k
      /\ \A i \in 1 .. n - k : left[i] = older[i + k]
  <2>1. left = SubSeq(older, 1 + k, n) /\ 1 + k \in 1 .. n + 1
    BY <1>1, <1>2, <1>5
  <2> HIDE DEF left, n
  <2>2. left \in Seq(Nat)
    BY <1>1, <1>2, <1>5, <2>1
  <2>3. Len(left) = n - k
    BY <1>1, <1>2, <1>5, <2>1
  <2>4. \A i \in 1 .. n - k : left[i] = older[i + k]
    BY <1>1, <1>2, <1>5, <2>1
  <2> QED BY <2>2, <2>3, <2>4
<1>8. \A i \in 1 .. n - k : i + k \in 1 .. n /\ i + k > k
  BY <1>1, <1>5
<1>9. left = Riot!Recent(older, w)
  BY SameCounts DEF Riot!Recent, k, gone
<1>10. n - k > 0 => s < w /\ Riot!Least(w, s + 1) = s + 1
  <2> SUFFICES ASSUME n - k > 0  PROVE s < w /\ Riot!Least(w, s + 1) = s + 1
    OBVIOUS
  <2>1. 1 \in 1 .. n
    BY <1>1, <1>5
  <2>2. s < w
    BY <1>1, <2>1
  <2> QED BY <1>1, <2>2 DEF Riot!Least
<1>11. Riot!Least(w, s + 1) \in Nat /\ Riot!Least(w, s + 1) <= w
  BY <1>1 DEF Riot!Least
<1>12. ASSUME NEW i \in 1 .. n - k
       PROVE  /\ s + 1 <= left[i] /\ left[i] < w
              /\ (n - k - i + 1) * w + t <= m * w + (left[i] - (s + 1)) * m
  <2>1. i + k \in 1 .. n /\ i + k > k /\ left[i] = older[i + k]
    BY <1>7, <1>8
  <2>2. left[i] = ages[i + k] + 1 /\ left[i] < w
    BY <1>2, <1>6, <2>1
  <2>3. ages[i + k] \in Nat /\ s <= ages[i + k]
    BY <1>1, <2>1
  <2>4. (n - (i + k) + 1) * w + t <= m * w + (ages[i + k] - s) * m
    BY <2>1 DEF Metered
  <2> HIDE DEF left, n
  <2>5. n - (i + k) + 1 = n - k - i + 1
    BY <1>1, <1>5
  <2>6. ages[i + k] - s = left[i] - (s + 1) /\ s + 1 <= left[i]
    BY <1>1, <2>2, <2>3
  <2> QED BY <2>2, <2>4, <2>5, <2>6
<1>13. ASSUME NEW i \in 1 .. n - k, NEW j \in 1 .. n - k, i <= j  PROVE left[j] <= left[i]
  <2>1. i + k \in 1 .. n /\ j + k \in 1 .. n /\ i + k <= j + k
    BY <1>1, <1>5, <1>13
  <2>2. ages[j + k] <= ages[i + k]
    BY <2>1 DEF Metered
  <2>3. left[i] = ages[i + k] + 1 /\ left[j] = ages[j + k] + 1
    BY <1>2, <1>7, <2>1
  <2> HIDE DEF left
  <2> QED BY <1>1, <2>1, <2>2, <2>3
<1> HIDE DEF left
<1>14. Metered(m, w, t, Riot!Least(w, s + 1), left)
  <2>1. \A i \in 1 .. Len(left) : s < w /\ Riot!Least(w, s + 1) = s + 1
    BY <1>1, <1>5, <1>7, <1>10
  <2>2. n - k \in Nat
    BY <1>1, <1>5
  <2> HIDE DEF n
  <2> QED BY <1>1, <1>7, <1>11, <1>12, <1>13, <2>1, <2>2 DEF Metered
<1> QED BY <1>9, <1>14 DEF older

LEMMA RiotInit ==
  ASSUME RiotBounds
  PROVE  Riot!Init => RiotInv
<1> SUFFICES ASSUME Riot!Init, NEW b \in Buckets
             PROVE  Metered(MaxTokens[b], Window[b], tokens[b], sinceRefill[b], granted[b])
  BY DEF Riot!Init, RiotInv
<1>1. MaxTokens[b] \in Nat /\ Window[b] \in Nat
  BY DEF RiotBounds
<1>2. /\ tokens[b] = MaxTokens[b] * Window[b] /\ sinceRefill[b] = 0 /\ granted[b] = <<>>
      /\ MaxTokens[b] * Window[b] \in Nat
  BY <1>1 DEF Riot!Init
<1> QED BY <1>1, <1>2 DEF Metered

\* What a call asks of some of the buckets.
LEMMA AcquireKeeps ==
  ASSUME RiotBounds, RiotInv, NEW c, NEW bs \in SUBSET Buckets, NEW rest, Riot!acquire(c, bs, rest)
  PROVE  RiotInv'
<1> SUFFICES ASSUME NEW b \in Buckets
             PROVE  Metered(MaxTokens[b], Window[b], tokens'[b], sinceRefill'[b], granted'[b])
  BY DEF RiotInv, Riot!acquire
<1>1. /\ tokens'[b] = IF b \notin bs THEN tokens[b]
                     ELSE IF Riot!gives(b) THEN Riot!filled(b) - Window[b] ELSE Riot!filled(b)
      /\ sinceRefill'[b] = IF b \in bs THEN 0 ELSE sinceRefill[b]
      /\ granted'[b] = IF b \in bs /\ Riot!gives(b) THEN Append(granted[b], 0) ELSE granted[b]
  BY DEF Riot!acquire, Riot!Refilled
<1>2. MaxTokens[b] \in Nat \ {0} /\ Window[b] \in Nat \ {0}
  BY DEF RiotBounds
<1>3. Metered(MaxTokens[b], Window[b], tokens[b], sinceRefill[b], granted[b])
  BY DEF RiotInv
<1>4. /\ Metered(MaxTokens[b], Window[b], Riot!filled(b), 0, granted[b])
      /\ Riot!gives(b) => Metered(MaxTokens[b], Window[b], Riot!filled(b) - Window[b], 0,
         Append(granted[b], 0))
  BY <1>2, <1>3, LookKeepsMeter DEF Riot!filled, Riot!gives
<1> QED BY <1>1, <1>3, <1>4

LEMMA RiotStep ==
  ASSUME RiotBounds
  PROVE  RiotInv /\ [Riot!Next]_Riot!vars => RiotInv'
<1> SUFFICES ASSUME RiotInv, [Riot!Next]_Riot!vars  PROVE RiotInv'
  OBVIOUS
<1>1. ASSUME UNCHANGED <<tokens, sinceRefill, granted>>  PROVE RiotInv'
  BY <1>1 DEF RiotInv
<1>2. ASSUME NEW c \in Callers, Riot!CachedRead(c) \/ Riot!FreshRead(c)  PROVE RiotInv'
  <2>1. PICK key : Riot!riotGet(c, key)
    BY <1>2 DEF Riot!CachedRead, Riot!FreshRead
  <2> QED BY <2>1, AcquireKeeps DEF Riot!riotGet
<1>3. ASSUME NEW c \in Callers, Riot!Retake(c)  PROVE RiotInv'
  <2>1. Riot!acquire(c, {b \in Buckets \ call[c].holds : call[c].wait[b] = 0}, call[c])
    BY <1>3 DEF Riot!Retake
  <2> QED BY <2>1, AcquireKeeps
<1>4. ASSUME NEW c \in Callers,
             Riot!Send(c) \/ Riot!Resend(c) \/ Riot!AnswerData(c) \/ Riot!AnswerBusy(c)
               \/ Riot!AnswerError(c)
      PROVE  RiotInv'
  BY <1>1, <1>4 DEF Riot!Send, Riot!Resend, Riot!AnswerData, Riot!AnswerBusy, Riot!AnswerError
<1>5. CASE Riot!Tick
  <2> SUFFICES ASSUME NEW b \in Buckets
               PROVE  Metered(MaxTokens[b], Window[b], tokens'[b], sinceRefill'[b], granted'[b])
    BY <1>5 DEF RiotInv, Riot!Tick
  <2>1. /\ tokens'[b] = tokens[b] /\ sinceRefill'[b] = Riot!Least(Window[b], sinceRefill[b] + 1)
        /\ granted'[b] = Riot!Recent([i \in DOMAIN granted[b] |-> granted[b][i] + 1], Window[b])
    BY <1>5 DEF Riot!Tick
  <2>2. MaxTokens[b] \in Nat \ {0} /\ Window[b] \in Nat \ {0}
    BY DEF RiotBounds
  <2>3. Metered(MaxTokens[b], Window[b], tokens[b], sinceRefill[b], granted[b])
    BY DEF RiotInv
  <2> QED BY <2>1, <2>2, <2>3, TickKeepsMeter
<1>6. CASE UNCHANGED Riot!vars
  BY <1>1, <1>6 DEF Riot!vars
<1> QED BY <1>2, <1>3, <1>4, <1>5, <1>6 DEF Riot!Next, Riot!Step

\* The tokens given in a window are those after the oldest of them.
LEMMA RiotShows ==
  ASSUME RiotBounds
  PROVE  RiotInv => Riot!BurstsAreBounded
<1> SUFFICES ASSUME RiotInv, NEW b \in Buckets
             PROVE  Len(granted[b]) <= MaxTokens[b] + (MaxTokens[b] * (Window[b] - 1)) \div Window[b]
  BY DEF Riot!BurstsAreBounded, Riot!Given
<1> DEFINE m == MaxTokens[b]
           w == Window[b]
           ages == granted[b]
           n == Len(ages)
           refill == m * (w - 1)
<1>1. m \in Nat \ {0} /\ w \in Nat \ {0} /\ Metered(m, w, tokens[b], sinceRefill[b], ages)
  BY DEF RiotBounds, RiotInv
<1>2. n \in Nat /\ refill \in Nat /\ tokens[b] \in Nat /\ sinceRefill[b] \in Nat
  <2>1. ages \in Seq(Nat) /\ tokens[b] \in Nat /\ sinceRefill[b] \in Nat
    BY <1>1 DEF Metered
  <2>2. w - 1 \in Nat /\ m \in Nat
    BY <1>1
  <2>3. refill \in Nat
    <3> HIDE DEF m, w
    <3> QED BY <2>2
  <2>4. n \in Nat
    BY <2>1
  <2> QED BY <2>1, <2>3, <2>4
<1>3. ASSUME n # 0  PROVE n * w <= m * w + refill
  <2>1. 1 \in 1 .. n
    BY <1>2, <1>3
  <2>2. /\ ages[1] < w /\ sinceRefill[b] <= ages[1] /\ ages \in Seq(Nat)
        /\ (n - 1 + 1) * w + tokens[b] <= m * w + (ages[1] - sinceRefill[b]) * m
    <3> HIDE DEF m, w
    <3> QED BY <1>1, <2>1 DEF Metered
  <2>3. (ages[1] - sinceRefill[b]) * m <= refill
    <3>0. ages[1] \in Nat
      BY <2>1, <2>2
    <3>1. ages[1] - sinceRefill[b] \in Nat /\ ages[1] - sinceRefill[b] <= w - 1
      <4> HIDE DEF m, w, ages
      <4> QED BY <1>1, <1>2, <2>2, <3>0
    <3>2. ASSUME NEW x \in Nat, NEW y \in Nat, NEW z \in Nat, x <= y  PROVE x * z <= z * y
      BY <3>2
    <3>3. m \in Nat /\ w - 1 \in Nat
      BY <1>1
    <3> HIDE DEF m, w, ages
    <3> QED BY <3>1, <3>2, <3>3
  <2>4. n - 1 + 1 = n
    BY <1>2
  <2>5. ages[1] \in Nat
    BY <2>1, <2>2
  <2> DEFINE given == n * w
             full == m * w
             more == (ages[1] - sinceRefill[b]) * m
  <2>6. given \in Nat /\ full \in Nat /\ more \in Int
    <3> HIDE DEF m, w, n, ages
    <3> QED BY <1>1, <1>2, <2>5
  <2>7. given + tokens[b] <= full + more
    BY <2>2, <2>4
  <2> HIDE DEF given, full, more, refill
  <2>8. more <= refill
    BY <2>3 DEF more
  <2>9. given <= full + refill
    BY <1>2, <2>6, <2>7, <2>8
  <2> QED BY <2>9 DEF given, full
<1>4. ASSUME n # 0  PROVE n <= m + refill \div w
  <2>1. n * w <= m * w + refill
    BY <1>3, <1>4
  <2> DEFINE q == refill \div w
  <2>2. q \in Int /\ refill < (q + 1) * w
    <3> HIDE DEF m, refill
    <3> QED BY <1>1, <1>2
  <2> HIDE DEF q, refill
  <2> HIDE DEF m, w, n
  <2>3. n * w < (m + q + 1) * w
    <3>1. (m + q + 1) * w = m * w + (q + 1) * w
      BY <1>1, <2>2
    <3>2. n * w \in Int /\ m * w \in Int /\ (q + 1) * w \in Int /\ refill \in Int
      BY <1>1, <1>2, <2>2
    <3> QED BY <2>1, <2>2, <3>1, <3>2
  <2>4. n < m + q + 1
    <3>1. ASSUME NEW x \in Int, NEW y \in Int, NEW z \in Nat \ {0}, x * z < y * z  PROVE x < y
      BY <3>1
    <3> QED BY <1>1, <1>2, <2>2, <2>3, <3>1
  <2> QED BY <1>1, <1>2, <2>2, <2>4 DEF q
<1>5. refill \div w >= 0
  <2> HIDE DEF m, refill
  <2> QED BY <1>1, <1>2
<1> QED BY <1>1, <1>2, <1>4, <1>5
-----------------------------------------------------------------------------
(* A sync rests only whom its list has left out.                             *)

RollRows == [active : BOOLEAN, source : {"none", "manual", "outside"},
         card : {"none", "hand", "model"}, syncedAt : Nat]

\* Whom the running persist has saved, its list still has, at this instant, unless somebody
\* was moved into his place or a hand registered him anew.
Stamped(d, rows, now) ==
  /\ d.moved \in BOOLEAN
  /\ d.at = "players" /\ ~d.moved =>
       \A k \in Roll!Keys : k[1] = d.team /\ k[2] \in d.saved /\ rows[k].source = "outside"
                       => rows[k].syncedAt = now

RollInv == /\ base \in [Roll!Keys -> RollRows] /\ instant \in Nat
           /\ unrated \subseteq Roll!Keys
           /\ Stamped(sync, base, instant)
-----------------------------------------------------------------------------
LEMMA NewRows == {Roll!NoPlayer, Roll!First, Roll!Manual} \subseteq RollRows
  BY DEF Roll!NoPlayer, Roll!First, Roll!Manual, RollRows

\* An edit of a row.
Edited(p, active, card) == [p EXCEPT !.active = active, !.card = card]

LEMMA EditedRow ==
  ASSUME NEW p \in RollRows, NEW active \in BOOLEAN, NEW card \in {"none", "hand", "model"}
  PROVE  /\ Edited(p, active, card) \in RollRows
         /\ Edited(p, active, card).source = p.source /\ Edited(p, active, card).syncedAt = p.syncedAt
  BY DEF Edited, RollRows

LEMMA RollInit == Roll!Init => RollInv
<1> SUFFICES ASSUME Roll!Init  PROVE RollInv
  OBVIOUS
<1>1. base \in [Roll!Keys -> RollRows] /\ instant \in Nat /\ unrated \subseteq Roll!Keys
  BY NewRows DEF Roll!Init
<1>2. sync.at = "idle" /\ sync.moved = FALSE
  BY DEF Roll!Init, Roll!Idle
<1> QED BY <1>1, <1>2 DEF RollInv, Stamped

\* Between two lists nobody is saved yet.
LEMMA NothingStamped ==
  ASSUME RollInv, base' = base, instant' \in Nat, unrated' \subseteq Roll!Keys,
         sync'.moved \in BOOLEAN, sync'.at # "players" \/ sync'.saved = {}
  PROVE  RollInv'
  BY DEF RollInv, Stamped

\* A hand that writes a row either keeps when it was last found or takes it out of the lists.
LEMMA HandKeeps ==
  ASSUME RollInv, NEW k \in Roll!Keys, NEW p \in RollRows, base' = [base EXCEPT ![k] = p],
         sync' = sync, instant' = instant, unrated' \subseteq Roll!Keys,
         p.source = "outside" => base[k].source = "outside" /\ p.syncedAt = base[k].syncedAt
  PROVE  RollInv'
<1>1. base' \in [Roll!Keys -> RollRows]
  BY DEF RollInv
<1>2. \A j \in Roll!Keys : base'[j].source = "outside" =>
                        base[j].source = "outside" /\ base'[j].syncedAt = base[j].syncedAt
  BY DEF RollInv
<1> QED BY <1>1, <1>2 DEF RollInv, Stamped

LEMMA AskKeeps ==
  ASSUME RollInv, Roll!MayAsk, NEW squads, NEW cards,
         sync' = [Roll!Idle EXCEPT !.at = "answered", !.squads = squads, !.cards = cards]
  PROVE  RollInv'
<1>1. sync'.at = "answered" /\ sync'.moved = FALSE
  BY DEF Roll!Idle
<1> QED BY <1>1, NothingStamped DEF Roll!MayAsk, RollInv

LEMMA AsksKeep ==
  ASSUME RollInv,
         \/ \E T, cards : Roll!Ask(T, cards)
         \/ \E T : Roll!MayAsk /\ Roll!FetchSquads(T)
  PROVE  RollInv'
<1>1. ASSUME NEW T, NEW cards, Roll!Ask(T, cards)  PROVE RollInv'
  <2>1. PICK squads : sync' = [Roll!Idle EXCEPT !.at = "answered", !.squads = squads, !.cards = cards]
    BY <1>1 DEF Roll!Ask, Roll!Answer
  <2> QED BY <1>1, <2>1, AskKeeps DEF Roll!Ask
<1>2. ASSUME NEW T, Roll!MayAsk, Roll!FetchSquads(T)  PROVE RollInv'
  <2>1. PICK squads : sync' = [Roll!Idle EXCEPT !.at = "answered", !.cards = TRUE, !.squads = squads]
    BY <1>2 DEF Roll!FetchSquads
  <2>2. sync'.at = "answered" /\ sync'.moved = FALSE
    BY <2>1 DEF Roll!Idle
  <2> QED BY <1>2, <2>2, NothingStamped DEF Roll!MayAsk, RollInv
<1> QED BY <1>1, <1>2

LEMMA SavePlayerKeeps == ASSUME RollInv, Roll!SavePlayer  PROVE RollInv'
<1>1. PICK n \in sync.squads[sync.team] \ sync.saved :
        /\ base' = [base EXCEPT ![<<sync.team, n>>] = Roll!Synced(@)]
        /\ sync' = [sync EXCEPT !.saved = @ \cup {n}]
  BY DEF Roll!SavePlayer
<1> DEFINE k == <<sync.team, n>>
<1>2. UNCHANGED <<unrated, instant>> /\ sync.at = "players"
  BY DEF Roll!SavePlayer
<1>3. ASSUME k \in Roll!Keys
      PROVE  Roll!Synced(base[k]) \in RollRows /\ Roll!Synced(base[k]).syncedAt = instant
  <2>1. base[k] \in RollRows /\ instant \in Nat
    BY <1>3 DEF RollInv
  <2>2. Roll!CardData(base[k]) \in {"none", "hand", "model"}
    BY <2>1 DEF Roll!CardData, RollRows
  <2> QED BY <2>1, <2>2 DEF Roll!Synced, RollRows
<1>4. base' \in [Roll!Keys -> RollRows]
  BY <1>1, <1>3 DEF RollInv
<1>5. \A j \in Roll!Keys : IF j = k THEN base'[j].syncedAt = instant ELSE base'[j] = base[j]
  BY <1>1, <1>3 DEF RollInv
<1>6. sync'.moved = sync.moved /\ sync'.at = sync.at /\ sync'.team = sync.team
      /\ \A x : x \in sync'.saved => x \in sync.saved \/ x = n
  BY <1>1
<1>7. \A j \in Roll!Keys : j[1] = sync.team /\ j[2] = n => j = k
  BY DEF Roll!Keys
<1> HIDE DEF k
<1> QED BY <1>2, <1>4, <1>5, <1>6, <1>7 DEF RollInv, Stamped

LEMMA MoveKeeps == ASSUME RollInv, Roll!MoveTo  PROVE RollInv'
<1>1. PICK k \in Roll!Keys, t \in Teams :
        /\ base' = [base EXCEPT ![<<t, k[2]>>] = base[k], ![k] = Roll!NoPlayer]
        /\ unrated' = IF k \in unrated THEN (unrated \ {k}) \cup {<<t, k[2]>>} ELSE unrated
        /\ sync' = IF sync.at = "idle" THEN sync ELSE [sync EXCEPT !.moved = TRUE]
        /\ instant' = instant
  BY DEF Roll!MoveTo
<1>2. <<t, k[2]>> \in Roll!Keys
  BY DEF Roll!Keys
<1>3. base' \in [Roll!Keys -> RollRows] /\ unrated' \subseteq Roll!Keys
  BY <1>1, <1>2, NewRows DEF RollInv
<1>4. CASE sync.at = "idle"
  BY <1>1, <1>3, <1>4 DEF RollInv, Stamped
<1>5. CASE sync.at # "idle"
  <2>1. sync' = [sync EXCEPT !.moved = TRUE]
    BY <1>1, <1>5
  <2>2. sync'.moved = TRUE
    BY <2>1
  <2> QED BY <1>1, <1>3, <2>2 DEF RollInv, Stamped
<1> QED BY <1>4, <1>5

LEMMA RollStep == RollInv /\ [Roll!Next]_Roll!vars => RollInv'
<1> SUFFICES ASSUME RollInv, [Roll!Next]_Roll!vars  PROVE RollInv'
  OBVIOUS
<1>0. /\ base \in [Roll!Keys -> RollRows] /\ instant \in Nat /\ unrated \subseteq Roll!Keys
      /\ sync.moved \in BOOLEAN
  BY DEF RollInv, Stamped
<1>1. CASE \/ Roll!FetchFromFootballData \/ Roll!FetchFromGeneric \/ Roll!SyncWikipedia
           \/ Roll!RefreshFromSofifa \/ Roll!FillCompetitionFromSofifa \/ Roll!FillCompetition
           \/ Roll!FillTeamFromSofifa \/ Roll!SyncAiSquads
  BY <1>1, AsksKeep
     DEF Roll!FetchFromFootballData, Roll!FetchFromGeneric, Roll!SyncWikipedia, Roll!RefreshFromSofifa,
         Roll!FillCompetitionFromSofifa, Roll!FillCompetition, Roll!FillTeamFromSofifa,
           Roll!SyncAiSquads
<1>2. CASE Roll!CreateSofifaCompetition \/ Roll!CreateAiCompetition
  <2>1. UNCHANGED <<base, sync, unrated, instant>>
    BY <1>2 DEF Roll!CreateSofifaCompetition, Roll!CreateAiCompetition, Roll!CreateFolders
  <2> QED BY <2>1 DEF RollInv, Stamped
<1>3. CASE Roll!Persist
  <2>1. sync' = [sync EXCEPT !.at = "between"] /\ instant' = instant + 1
        /\ UNCHANGED <<base, unrated>>
    BY <1>3 DEF Roll!Persist
  <2>2. sync'.at # "players" /\ sync'.moved = sync.moved
    BY <2>1
  <2> QED BY <1>0, <2>1, <2>2, NothingStamped
<1>4. CASE Roll!SaveTeam
  <2>1. PICK t : sync' = [sync EXCEPT !.at = "players", !.team = t, !.saved = {}]
    BY <1>4 DEF Roll!SaveTeam
  <2>2. UNCHANGED <<base, unrated, instant>>
    BY <1>4 DEF Roll!SaveTeam
  <2>3. sync'.saved = {} /\ sync'.moved = sync.moved
    BY <2>1
  <2> QED BY <1>0, <2>2, <2>3, NothingStamped
<1>5. CASE Roll!SavePlayer
  BY <1>5, SavePlayerKeeps
<1>6. CASE Roll!RetireMissing
  <2>1. /\ base' = [k \in Roll!Keys |-> IF k \in Roll!Retired(sync.team)
                                      THEN [base[k] EXCEPT !.active = FALSE] ELSE base[k]]
        /\ UNCHANGED <<unrated, instant>>
    BY <1>6 DEF Roll!RetireMissing
  <2>2. base' \in [Roll!Keys -> RollRows]
    <3>1. \A k \in Roll!Keys : [base[k] EXCEPT !.active = FALSE] \in RollRows
      BY <1>0, Zenon DEF RollRows
    <3> QED BY <1>0, <2>1, <3>1
  <2>3. PICK squads : sync' = [sync EXCEPT !.at = "between", !.squads = squads, !.team = 0,
             !.saved = {}]
    BY <1>6 DEF Roll!RetireMissing
  <2>4. sync'.at = "between" /\ sync'.moved = sync.moved
    BY <2>3
  <2> QED BY <1>0, <2>1, <2>2, <2>4 DEF RollInv, Stamped
<1>7. CASE Roll!StopSync
  <2>1. sync'.at = "idle" /\ sync'.moved = FALSE /\ UNCHANGED <<base, unrated, instant>>
    BY <1>7 DEF Roll!StopSync, Roll!Idle
  <2> QED BY <1>0, <2>1, NothingStamped
<1>8. CASE Roll!CreatePlayer
  <2>1. PICK k \in Roll!Keys : base' = [base EXCEPT ![k] = Roll!Manual]
    BY <1>8 DEF Roll!CreatePlayer
  <2>2. UNCHANGED <<sync, unrated, instant>>
    BY <1>8 DEF Roll!CreatePlayer
  <2>3. Roll!Manual.source # "outside"
    BY DEF Roll!Manual
  <2>4. Roll!Manual \in RollRows /\ unrated' \subseteq Roll!Keys
    BY <1>0, <2>2, NewRows
  <2> QED BY <2>1, <2>2, <2>3, <2>4, HandKeeps
<1>9. CASE Roll!SavePlayers
  <2>1. PICK k \in Roll!Keys, numbers \in BOOLEAN :
          LET p == IF Roll!Exists(k) THEN base[k] ELSE Roll!Manual IN
          Roll!Hand(k, [p EXCEPT !.active = TRUE, !.card = IF numbers /\ @ = "none" THEN "hand" ELSE @])
    BY <1>9 DEF Roll!SavePlayers
  <2> DEFINE p == IF Roll!Exists(k) THEN base[k] ELSE Roll!Manual
             card == IF numbers /\ p.card = "none" THEN "hand" ELSE p.card
  <2>2. Roll!Hand(k, Edited(p, TRUE, card)) /\ unrated' = unrated
    BY <1>9, <2>1, Zenon DEF Roll!SavePlayers, Edited
  <2>3. p \in RollRows /\ (p.source = "outside" => p = base[k])
    BY <1>0, NewRows DEF Roll!Manual
  <2>4. card \in {"none", "hand", "model"}
    BY <2>3 DEF RollRows
  <2> HIDE DEF p, card
  <2> QED BY <1>0, <2>2, <2>3, <2>4, EditedRow, HandKeeps DEF Roll!Hand
<1>10. CASE Roll!UpdatePlayer
  <2>1. PICK k \in Roll!Keys, active \in BOOLEAN, numbers \in BOOLEAN :
          Roll!Hand(k, [base[k] EXCEPT !.active = active, !.card = IF numbers THEN "hand" ELSE @])
    BY <1>10 DEF Roll!UpdatePlayer
  <2> DEFINE card == IF numbers THEN "hand" ELSE base[k].card
  <2>2. Roll!Hand(k, Edited(base[k], active, card)) /\ unrated' = unrated
    BY <1>10, <2>1, Zenon DEF Roll!UpdatePlayer, Edited
  <2>3. base[k] \in RollRows /\ card \in {"none", "hand", "model"}
    BY <1>0 DEF RollRows
  <2> HIDE DEF card
  <2> QED BY <1>0, <2>2, <2>3, EditedRow, HandKeeps DEF Roll!Hand
<1>11. CASE Roll!MoveTo
  BY <1>11, MoveKeeps
<1>12. CASE Roll!RemovePlayer
  <2>1. PICK k \in Roll!Keys : Roll!Hand(k, Roll!NoPlayer) /\ Roll!Forget({k})
    BY <1>12 DEF Roll!RemovePlayer
  <2>2. unrated' \subseteq Roll!Keys /\ Roll!NoPlayer.source # "outside"
    BY <1>0, <2>1 DEF Roll!Forget, Roll!NoPlayer
  <2> QED BY <2>1, <2>2, NewRows, HandKeeps DEF Roll!Hand
<1>13. CASE Roll!RemoveTeam
  <2>1. PICK t \in folders :
          /\ base' = [k \in Roll!Keys |-> IF k[1] = t THEN Roll!NoPlayer ELSE base[k]]
          /\ Roll!Forget({t} \X Names) /\ UNCHANGED <<sync, instant>>
    BY <1>13 DEF Roll!RemoveTeam
  <2>2. unrated' \subseteq Roll!Keys /\ base' \in [Roll!Keys -> RollRows]
    BY <1>0, <2>1, NewRows DEF Roll!Forget
  <2>3. \A k \in Roll!Keys : base'[k].source = "outside" => base'[k] = base[k]
    BY <2>1 DEF Roll!NoPlayer
  <2> QED BY <1>0, <2>1, <2>2, <2>3 DEF RollInv, Stamped
<1>14. CASE Roll!EstimateMissingAttributes \/ Roll!EstimateTeamAttributes
            \/ Roll!EstimatePlayerAttributes
  <2>1. PICK K \in SUBSET Roll!Keys : Roll!Estimate(K)
    BY <1>14 DEF Roll!EstimateMissingAttributes, Roll!EstimateTeamAttributes,
       Roll!EstimatePlayerAttributes, Roll!Lacking
  <2>2. unrated' \subseteq Roll!Keys /\ UNCHANGED <<base, sync, instant>>
    BY <2>1 DEF Roll!Estimate
  <2> QED BY <1>0, <2>2 DEF RollInv, Stamped
<1>15. CASE Roll!WriteEstimate
  <2>1. PICK k \in unrated : /\ base' = [base EXCEPT ![k].card = "model"]
                             /\ unrated' = unrated \ {k} /\ UNCHANGED <<sync, instant>>
    BY <1>15 DEF Roll!WriteEstimate
  <2> DEFINE p == [base[k] EXCEPT !.card = "model"]
  <2>2. k \in Roll!Keys /\ base[k] \in RollRows /\ base' = [base EXCEPT ![k] = p]
    BY <1>0, <2>1
  <2>3. p \in RollRows /\ p.source = base[k].source /\ p.syncedAt = base[k].syncedAt
    BY <2>2 DEF RollRows
  <2>4. unrated' \subseteq Roll!Keys
    BY <1>0, <2>1
  <2> HIDE DEF p
  <2> QED BY <2>1, <2>2, <2>3, <2>4, HandKeeps
<1>16. CASE UNCHANGED Roll!vars
  BY <1>16 DEF Roll!vars, RollInv, Stamped
<1> QED BY <1>1, <1>2, <1>3, <1>4, <1>5, <1>6, <1>7, <1>8, <1>9, <1>10, <1>11, <1>12, <1>13,
           <1>14, <1>15, <1>16 DEF Roll!Next

\* Whoever is taken out of the active base by a step of a sync.
LEMMA StepRests ==
  ASSUME RollInv, [Roll!Next]_Roll!vars
  PROVE  Roll!RestsTheMissing \/ UNCHANGED Roll!vars
<1> SUFFICES ASSUME Roll!Next, NEW k \in Roll!Keys, sync' # sync, base[k].active,
                    ~base'[k].active, ~sync'.moved
             PROVE  base'[k].source = "outside" /\ k[1] = sync.team /\ k[2] \notin sync.squads[k[1]]
  BY DEF Roll!RestsTheMissing
<1>0. base \in [Roll!Keys -> RollRows]
  BY DEF RollInv
<1>1. base' # base
  OBVIOUS
<1>2. ~Roll!MayAsk /\ ~Roll!Persist /\ ~Roll!SaveTeam /\ ~Roll!StopSync
  BY <1>1 DEF Roll!MayAsk, Roll!Persist, Roll!SaveTeam, Roll!StopSync
<1>3. \A j, p : ~Roll!Hand(j, p)
  BY DEF Roll!Hand
<1>4. Roll!SavePlayer \/ Roll!RetireMissing \/ Roll!MoveTo
  BY <1>1, <1>2, <1>3
     DEF Roll!Next, Roll!FetchFromFootballData, Roll!FetchFromGeneric, Roll!SyncWikipedia,
       Roll!RefreshFromSofifa,
         Roll!FillCompetitionFromSofifa, Roll!FillCompetition, Roll!FillTeamFromSofifa,
           Roll!SyncAiSquads, Roll!Ask,
         Roll!CreateSofifaCompetition, Roll!CreateAiCompetition, Roll!CreateFolders,
           Roll!CreatePlayer, Roll!SavePlayers,
         Roll!UpdatePlayer, Roll!RemovePlayer, Roll!RemoveTeam, Roll!EstimateMissingAttributes,
         Roll!EstimateTeamAttributes, Roll!EstimatePlayerAttributes, Roll!Estimate, Roll!WriteEstimate
<1>5. ~Roll!SavePlayer
  <2> SUFFICES ASSUME Roll!SavePlayer  PROVE FALSE
    OBVIOUS
  <2>1. PICK n : base' = [base EXCEPT ![<<sync.team, n>>] = Roll!Synced(@)]
    BY DEF Roll!SavePlayer
  <2>2. base'[k] = base[k] \/ base'[k] = Roll!Synced(base[k])
    BY <1>0, <2>1
  <2> QED BY <2>2 DEF Roll!Synced
<1>6. ~Roll!MoveTo
  <2> SUFFICES ASSUME Roll!MoveTo  PROVE FALSE
    OBVIOUS
  <2>1. sync' = [sync EXCEPT !.moved = TRUE]
    BY DEF Roll!MoveTo
  <2> QED BY <2>1
<1>7. /\ base' = [j \in Roll!Keys |-> IF j \in Roll!Retired(sync.team)
                                    THEN [base[j] EXCEPT !.active = FALSE] ELSE base[j]]
      /\ sync.at = "players" /\ sync.saved = sync.squads[sync.team]
  BY <1>4, <1>5, <1>6 DEF Roll!RetireMissing
<1>8. /\ k \in Roll!Retired(sync.team)
      /\ base'[k] = [base[k] EXCEPT !.active = FALSE]
  BY <1>7
<1>9. k[1] = sync.team /\ base[k].source = "outside" /\ base[k].syncedAt < instant
  BY <1>8 DEF Roll!Retired
<1>10. base'[k].source = "outside"
  BY <1>0, <1>8, <1>9 DEF RollRows
<1>11. sync.moved = sync'.moved
  <2>1. PICK squads : sync' = [sync EXCEPT !.at = "between", !.squads = squads, !.team = 0,
             !.saved = {}]
    BY <1>4, <1>5, <1>6 DEF Roll!RetireMissing
  <2> QED BY <2>1
<1>12. k[2] \notin sync.saved
  <2>1. base[k].syncedAt # instant
    BY <1>0, <1>9 DEF RollInv, RollRows
  <2> QED BY <1>7, <1>9, <1>11, <2>1 DEF RollInv, Stamped
<1> QED BY <1>7, <1>9, <1>10, <1>12
-----------------------------------------------------------------------------
(* Totals meet the player the matches have brought.                          *)

\* One synchronisation at a time; those who play are players.
ClubBounds == /\ \A s, t \in Syncs : s = t
              /\ \A m \in ClubMatches : PlayedIn[m] \subseteq ClubPlayers

\* A row has the key of a player, of a stored match without ids or of the totals, and was
\* created with it or with the totals'; all of them tell its name.
RowIsKnown(r) ==
  /\ \/ \E p \in ClubPlayers : r.identityKey = Club!Known(p) /\ r.playerName = Name[p]
     \/ \E m \in imported \cap Anonymous : r.identityKey = Club!Unnamed(m, r.playerName)
     \/ r.identityKey = Club!ByTotals(r.playerName)
  /\ r.first = r.identityKey \/ r.first = Club!ByTotals(r.playerName)

\* A row is a record.
ClubRow(r) == r = [identityKey |-> r.identityKey, playerName |-> r.playerName, first |-> r.first,
                   totals |-> r.totals]

\* Rows are known, a player has none by his club's totals beside his own, and the totals of a
\* name are on one row.
RowsInv == /\ \A r \in clubRows : ClubRow(r) /\ RowIsKnown(r)
           /\ \A p \in ClubPlayers : ~(/\ Club!ByTotals(Name[p]) \in Club!Keys(clubRows)
                                       /\ Club!Known(p) \in Club!Keys(clubRows))
           /\ \A r, t \in clubRows : r.totals /\ t.totals /\ r.playerName = t.playerName => r = t

\* What a synchronisation has read of the rows is what they are.
ClubInv == /\ RowsInv
           /\ clubDesk = [s \in Syncs |-> clubDesk[s]]
           /\ \A s \in Syncs : clubDesk[s].step = "totals" => clubDesk[s].seen = clubRows
-----------------------------------------------------------------------------
LEMMA KeysDiffer ==
  /\ \A p, q : Club!Known(p) = Club!Known(q) => p = q
  /\ \A p, n : Club!Known(p) # Club!ByTotals(n)
  /\ \A p, m, n : Club!Known(p) # Club!Unnamed(m, n)
  /\ \A k, m, n : Club!ByTotals(k) # Club!Unnamed(m, n)
  /\ \A k, n : Club!ByTotals(k) = Club!ByTotals(n) => k = n
  /\ \A k, l, m, n : Club!Unnamed(k, m) = Club!Unnamed(l, n) => m = n
  BY DEF Club!Known, Club!ByTotals, Club!Unnamed

LEMMA ClubInit == Club!Init => ClubInv
  BY DEF Club!Init, ClubInv, RowsInv, Club!Keys, Club!Idle

\* Two rows created with one key have one name.
LEMMA FirstTellsTheName ==
  ASSUME NEW r, NEW t, RowIsKnown(r), RowIsKnown(t), r.first = t.first
  PROVE  r.playerName = t.playerName
  BY KeysDiffer DEF RowIsKnown

\* A row of a player is new, his name's totals, or was there.
LEMMA PlayersAre ==
  ASSUME RowsInv, NEW m, NEW h \in Club!Heirs(clubRows, m), NEW new,
         new = (clubRows \ Club!TakenOver(clubRows, m))
               \cup {[r EXCEPT !.identityKey = Club!Known(h[r]), !.playerName = Name[h[r]]]
                     : r \in Club!TakenOver(clubRows, m)}
               \cup {Club!Row(Club!KeyIn(m, p), Name[p], FALSE)
                     : p \in {q \in Club!NewIn(clubRows, m) :
                                \A r \in Club!TakenOver(clubRows, m) : h[r] # q}},
         NEW x \in new
  PROVE  \/ x \in clubRows /\ x \notin Club!TakenOver(clubRows, m)
         \/ \E r \in Club!TakenOver(clubRows, m) :
              /\ x = [r EXCEPT !.identityKey = Club!Known(h[r]), !.playerName = Name[h[r]]]
              /\ h[r] \in Club!NewIn(clubRows, m) /\ m \notin Anonymous /\ r \in clubRows
              /\ r.playerName = Name[h[r]]
              /\ x.identityKey = Club!Known(h[r]) /\ x.playerName = Name[h[r]]
              /\ x.first = Club!ByTotals(x.playerName) /\ x.totals = r.totals /\ ClubRow(x)
         \/ \E p \in Club!NewIn(clubRows, m) :
              /\ x.identityKey = Club!KeyIn(m, p) /\ x.playerName = Name[p] /\ x.first = x.identityKey
              /\ ~x.totals /\ ClubRow(x)
<1>1. CASE \E r \in Club!TakenOver(clubRows, m) :
             x = [r EXCEPT !.identityKey = Club!Known(h[r]), !.playerName = Name[h[r]]]
  <2>1. PICK r \in Club!TakenOver(clubRows, m) :
             x = [r EXCEPT !.identityKey = Club!Known(h[r]), !.playerName = Name[h[r]]]
    BY <1>1
  <2>2. /\ m \notin Anonymous /\ r \in clubRows /\ h[r] \in Club!NewIn(clubRows, m)
        /\ r.identityKey = Club!ByTotals(Name[h[r]])
    BY DEF Club!TakenOver, Club!Heirs
  <2>3. ClubRow(r) /\ RowIsKnown(r)
    BY <2>2 DEF RowsInv
  <2>4. r.playerName = Name[h[r]] /\ r.first = Club!ByTotals(Name[h[r]])
    BY <2>2, <2>3, KeysDiffer DEF RowIsKnown
  <2>5. x = [identityKey |-> Club!Known(h[r]), playerName |-> Name[h[r]], first |-> r.first,
             totals |-> r.totals]
    BY <2>1, <2>3 DEF ClubRow
  <2> QED BY <2>1, <2>2, <2>4, <2>5 DEF ClubRow
<1>2. CASE \E p \in Club!NewIn(clubRows, m) : x = Club!Row(Club!KeyIn(m, p), Name[p], FALSE)
  <2>1. PICK p \in Club!NewIn(clubRows, m) : x = Club!Row(Club!KeyIn(m, p), Name[p], FALSE)
    BY <1>2
  <2>2. x = [identityKey |-> Club!KeyIn(m, p), playerName |-> Name[p], first |-> Club!KeyIn(m, p),
             totals |-> FALSE]
    BY <2>1 DEF Club!Row
  <2>3. /\ x.identityKey = Club!KeyIn(m, p) /\ x.playerName = Name[p] /\ x.first = x.identityKey
        /\ x.totals = FALSE /\ ClubRow(x)
    BY <2>2 DEF ClubRow
  <2> QED BY <2>3
<1> QED BY <1>1, <1>2

\* The players of a match take over the rows their names had from the totals.
LEMMA PlayersMeet ==
  ASSUME RowsInv, NEW m, clubRows' \in Club!playersOf(clubRows, m), imported' = imported \cup {m},
         Club!NewIn(clubRows, m) \subseteq ClubPlayers
  PROVE  RowsInv'
<1>1. PICK h \in Club!Heirs(clubRows, m) :
        clubRows' = (clubRows \ Club!TakenOver(clubRows, m))
               \cup {[r EXCEPT !.identityKey = Club!Known(h[r]), !.playerName = Name[h[r]]]
                     : r \in Club!TakenOver(clubRows, m)}
               \cup {Club!Row(Club!KeyIn(m, p), Name[p], FALSE)
                     : p \in {q \in Club!NewIn(clubRows, m) :
                                \A r \in Club!TakenOver(clubRows, m) : h[r] # q}}
  BY DEF Club!playersOf
<1> DEFINE Stays(x) == x \in clubRows /\ x \notin Club!TakenOver(clubRows, m)
           Inherits(x) ==
             \E r \in Club!TakenOver(clubRows, m) :
              /\ x = [r EXCEPT !.identityKey = Club!Known(h[r]), !.playerName = Name[h[r]]]
              /\ h[r] \in Club!NewIn(clubRows, m) /\ m \notin Anonymous /\ r \in clubRows
              /\ r.playerName = Name[h[r]]
              /\ x.identityKey = Club!Known(h[r]) /\ x.playerName = Name[h[r]]
              /\ x.first = Club!ByTotals(x.playerName) /\ x.totals = r.totals /\ ClubRow(x)
           IsNew(x) ==
             \E p \in Club!NewIn(clubRows, m) :
              /\ x.identityKey = Club!KeyIn(m, p) /\ x.playerName = Name[p] /\ x.first = x.identityKey
              /\ ~x.totals /\ ClubRow(x)
<1>2. \A x \in clubRows' : Stays(x) \/ Inherits(x) \/ IsNew(x)
  BY <1>1, PlayersAre
<1>3. \A p \in ClubPlayers : Club!KeyIn(m, p) = IF m \in Anonymous THEN Club!Unnamed(m, Name[p])
                                                ELSE Club!Known(p)
  BY DEF Club!KeyIn
<1>4. ASSUME NEW x \in clubRows'  PROVE (ClubRow(x) /\ RowIsKnown(x))'
  <2>1. CASE Stays(x)
    BY <2>1 DEF RowsInv, ClubRow, RowIsKnown
  <2>2. CASE Inherits(x)
    BY <2>2 DEF ClubRow, RowIsKnown
  <2>3. CASE IsNew(x)
    BY <2>3, <1>3 DEF ClubRow, RowIsKnown
  <2> QED BY <1>2, <2>1, <2>2, <2>3
<1>5. ASSUME NEW p \in ClubPlayers, Club!ByTotals(Name[p]) \in Club!Keys(clubRows'),
             Club!Known(p) \in Club!Keys(clubRows')
      PROVE  FALSE
  <2>1. PICK a \in clubRows' : a.identityKey = Club!ByTotals(Name[p])
    BY <1>5 DEF Club!Keys
  <2>2. PICK b \in clubRows' : b.identityKey = Club!Known(p)
    BY <1>5 DEF Club!Keys
  <2>0. \A x \in clubRows' : IsNew(x) => \E q \in ClubPlayers : /\ q \in Club!NewIn(clubRows, m)
            /\ x.identityKey = IF m \in Anonymous THEN Club!Unnamed(m, Name[q]) ELSE Club!Known(q)
    BY <1>3
  <2> HIDE DEF IsNew
  <2>3. Stays(a)
    <3>1. ~IsNew(a)
      BY <2>0, <2>1, KeysDiffer
    <3>2. ~Inherits(a)
      BY <2>1, KeysDiffer
    <3> QED BY <1>2, <3>1, <3>2
  <2>4. ~Stays(b)
    BY <2>1, <2>2, <2>3 DEF RowsInv, Club!Keys
  <2>5. m \notin Anonymous /\ p \in Club!NewIn(clubRows, m)
    <3>1. CASE Inherits(b)
      BY <2>2, <3>1, KeysDiffer
    <3>2. CASE IsNew(b)
      BY <2>0, <2>2, <3>2, KeysDiffer
    <3> QED BY <1>2, <2>4, <3>1, <3>2
  <2> QED BY <2>1, <2>3, <2>5 DEF Club!TakenOver
<1>6. ASSUME NEW x \in clubRows', NEW y \in clubRows', x.totals, y.totals, x.playerName = y.playerName
      PROVE  x = y
  <2>1. (Stays(x) \/ Inherits(x)) /\ (Stays(y) \/ Inherits(y))
    BY <1>2, <1>6
  <2>2. ASSUME NEW r \in clubRows, NEW t \in clubRows, r.totals, t.totals,
               r.playerName = t.playerName  PROVE r = t
    BY <2>2 DEF RowsInv
  <2>3. CASE Stays(x) /\ Stays(y)
    BY <2>2, <2>3, <1>6
  <2>4. CASE Stays(x) /\ Inherits(y)
    BY <2>2, <2>4, <1>6
  <2>5. CASE Inherits(x) /\ Stays(y)
    BY <2>2, <2>5, <1>6
  <2>6. CASE Inherits(x) /\ Inherits(y)
    <3>1. PICK r \in clubRows :
            /\ x = [r EXCEPT !.identityKey = Club!Known(h[r]), !.playerName = Name[h[r]]]
            /\ x.totals = r.totals /\ x.playerName = r.playerName
      BY <2>6
    <3>2. PICK t \in clubRows :
            /\ y = [t EXCEPT !.identityKey = Club!Known(h[t]), !.playerName = Name[h[t]]]
            /\ y.totals = t.totals /\ y.playerName = t.playerName
      BY <2>6
    <3>3. r = t
      BY <1>6, <2>2, <3>1, <3>2
    <3> QED BY <3>1, <3>2, <3>3
  <2> QED BY <2>1, <2>3, <2>4, <2>5, <2>6
<1> QED BY <1>4, <1>5, <1>6 DEF RowsInv

\* The totals come to the only row of a name, or to a new one where the name has none.
LEMMA TotalsCome ==
  ASSUME RowsInv, NEW s \in Syncs, NEW members \in SUBSET ClubPlayers, clubDesk[s].seen = clubRows,
         Club!refreshEaCareerTotals(s, members)
  PROVE  RowsInv'
<1> DEFINE Of(n)   == {r \in clubRows : r.playerName = n}
           names   == {Name[p] : p \in members}
           only    == {r \in clubRows : r.playerName \in names /\ Of(r.playerName) = {r}}
           missing == {n \in names : Of(n) = {} /\ Club!ByTotals(n) \notin Club!Keys(clubRows)}
           Marked(r) == [r EXCEPT !.totals = @ \/ \E o \in only : o.first = r.first]
           Made(n) == Club!Row(Club!ByTotals(n), n, TRUE)
<1>1. clubRows' = {Marked(r) : r \in clubRows} \cup {Made(n) : n \in missing} /\ imported' = imported
  BY DEF Club!refreshEaCareerTotals
<1>2. ASSUME NEW r \in clubRows
      PROVE  /\ Marked(r).identityKey = r.identityKey /\ Marked(r).playerName = r.playerName
             /\ Marked(r).first = r.first /\ ClubRow(Marked(r))
             /\ Marked(r).totals = (r.totals \/ \E o \in only : o.first = r.first)
  <2>1. ClubRow(r)
    BY DEF RowsInv
  <2> HIDE DEF only
  <2> QED BY <2>1 DEF ClubRow
<1>3. \A n : /\ Made(n).identityKey = Club!ByTotals(n) /\ Made(n).playerName = n
             /\ Made(n).first = Club!ByTotals(n) /\ ClubRow(Made(n)) /\ Made(n).totals
  <2> TAKE n
  <2>1. Made(n) = [identityKey |-> Club!ByTotals(n), playerName |-> n, first |-> Club!ByTotals(n),
                   totals |-> TRUE]
    BY DEF Club!Row
  <2> HIDE DEF Made
  <2>2. /\ Made(n).identityKey = Club!ByTotals(n) /\ Made(n).playerName = n
        /\ Made(n).first = Club!ByTotals(n) /\ ClubRow(Made(n)) /\ Made(n).totals = TRUE
    BY <2>1 DEF ClubRow
  <2> QED BY <2>2
<1>4. \A r \in clubRows : (\E o \in only : o.first = r.first) => Of(r.playerName) = {r}
  BY FirstTellsTheName DEF RowsInv
<1>5. \A n \in missing, r \in clubRows : r.playerName # n
  OBVIOUS
<1> HIDE DEF Marked, Made, missing, only
<1>6. \A x \in clubRows' : (\E r \in clubRows : x = Marked(r)) \/ (\E n \in missing : x = Made(n))
  BY <1>1
<1>7. ASSUME NEW x \in clubRows'  PROVE (ClubRow(x) /\ RowIsKnown(x))'
  <2>1. ASSUME NEW r \in clubRows, x = Marked(r)  PROVE (ClubRow(x) /\ RowIsKnown(x))'
    <3>1. RowIsKnown(r)
      BY DEF RowsInv
    <3> QED BY <1>1, <1>2, <2>1, <3>1 DEF ClubRow, RowIsKnown
  <2>2. ASSUME NEW n \in missing, x = Made(n)  PROVE (ClubRow(x) /\ RowIsKnown(x))'
    BY <1>3, <2>2 DEF ClubRow, RowIsKnown
  <2> QED BY <1>6, <2>1, <2>2
<1>8. ASSUME NEW p \in ClubPlayers, Club!ByTotals(Name[p]) \in Club!Keys(clubRows'),
             Club!Known(p) \in Club!Keys(clubRows')
      PROVE  FALSE
  <2>1. PICK a \in clubRows' : a.identityKey = Club!ByTotals(Name[p])
    BY <1>8 DEF Club!Keys
  <2>2. PICK b \in clubRows' : b.identityKey = Club!Known(p)
    BY <1>8 DEF Club!Keys
  <2>3. PICK r \in clubRows : b = Marked(r)
    BY <1>3, <1>6, <2>2, KeysDiffer
  <2>4. r.identityKey = Club!Known(p) /\ r.playerName = Name[p]
    BY <1>2, <2>2, <2>3, KeysDiffer DEF RowsInv, RowIsKnown
  <2>5. CASE \E t \in clubRows : a = Marked(t)
    BY <1>2, <2>1, <2>4, <2>5 DEF RowsInv, Club!Keys
  <2>6. CASE \E n \in missing : a = Made(n)
    BY <1>3, <1>5, <2>1, <2>4, <2>6, KeysDiffer
  <2> QED BY <1>6, <2>5, <2>6
<1>9. ASSUME NEW x \in clubRows', NEW y \in clubRows', x.totals, y.totals, x.playerName = y.playerName
      PROVE  x = y
  <2>1. ASSUME NEW r \in clubRows, NEW t \in clubRows, x = Marked(r), y = Marked(t)  PROVE r = t
    <3>1. r.playerName = t.playerName
      BY <1>2, <1>9, <2>1
    <3>2. CASE r.totals /\ t.totals
      BY <3>1, <3>2 DEF RowsInv
    <3>3. CASE Of(r.playerName) = {r} \/ Of(t.playerName) = {t}
      BY <3>1, <3>3
    <3> QED BY <1>2, <1>4, <1>9, <2>1, <3>2, <3>3
  <2>2. ASSUME NEW n \in missing, x = Made(n)  PROVE y = Made(n)
    BY <1>2, <1>3, <1>5, <1>6, <1>9, <2>2
  <2>3. ASSUME NEW n \in missing, y = Made(n)  PROVE x = Made(n)
    BY <1>2, <1>3, <1>5, <1>6, <1>9, <2>3
  <2> QED BY <1>6, <2>1, <2>2, <2>3
<1> QED BY <1>7, <1>8, <1>9 DEF RowsInv

LEMMA ClubStep ==
  ASSUME ClubBounds
  PROVE  ClubInv /\ [Club!Next]_Club!vars => ClubInv'
<1> SUFFICES ASSUME ClubInv, [Club!Next]_Club!vars  PROVE ClubInv'
  OBVIOUS
<1>1. ASSUME NEW s \in Syncs, NEW d, clubDesk' = [clubDesk EXCEPT ![s] = d],
             d.step # "totals", UNCHANGED <<clubRows, imported>>
      PROVE  ClubInv'
  BY <1>1 DEF ClubInv, RowsInv, ClubRow, RowIsKnown
<1>2. ASSUME NEW s \in Syncs, NEW recent \in SUBSET ClubMatches, Club!sync(s, recent)  PROVE ClubInv'
  <2> DEFINE d == [Club!Idle EXCEPT !.step = "import", !.todo = recent \ imported]
  <2>1. clubDesk' = [clubDesk EXCEPT ![s] = d] /\ UNCHANGED <<clubRows, imported>>
    BY <1>2 DEF Club!sync
  <2>2. d.step = "import"
    BY DEF Club!Idle
  <2> HIDE DEF d
  <2> QED BY <1>1, <2>1, <2>2
<1>3. ASSUME NEW s \in Syncs, NEW m \in ClubMatches, Club!importMatch(s, m)  PROVE ClubInv'
  <2>1. /\ clubDesk' = [clubDesk EXCEPT ![s].todo = @ \ {m}] /\ clubDesk[s].step = "import"
        /\ clubRows' \in IF m \in imported THEN {clubRows} ELSE Club!playersOf(clubRows, m)
        /\ imported' = imported \cup {m}
    BY <1>3 DEF Club!importMatch
  <2>2. clubDesk' = [t \in Syncs |-> clubDesk'[t]] /\ \A t \in Syncs : clubDesk'[t].step # "totals"
    BY <2>1 DEF ClubInv, ClubBounds
  <2>3. CASE m \in imported
    BY <2>1, <2>2, <2>3 DEF ClubInv, RowsInv, ClubRow, RowIsKnown
  <2>4. CASE m \notin imported
    <3>1. Club!NewIn(clubRows, m) \subseteq ClubPlayers
      BY DEF Club!NewIn, ClubBounds
    <3>2. RowsInv'
      BY <2>1, <2>4, <3>1, PlayersMeet DEF ClubInv
    <3> QED BY <2>2, <3>2 DEF ClubInv
  <2> QED BY <2>3, <2>4
<1>4. ASSUME NEW s \in Syncs, NEW m \in ClubMatches, Club!importFails(s, m)  PROVE ClubInv'
  <2>1. /\ clubDesk' = [clubDesk EXCEPT ![s].todo = @ \ {m}] /\ clubDesk[s].step = "import"
        /\ UNCHANGED <<clubRows, imported>>
    BY <1>4 DEF Club!importFails
  <2> DEFINE d == [clubDesk[s] EXCEPT !.todo = @ \ {m}]
  <2>2. clubDesk' = [clubDesk EXCEPT ![s] = d] /\ d.step = clubDesk[s].step
    BY <2>1
  <2> HIDE DEF d
  <2> QED BY <1>1, <2>1, <2>2
<1>5. ASSUME NEW s \in Syncs, Club!Restart(s)  PROVE ClubInv'
  <2>1. clubDesk' = [clubDesk EXCEPT ![s] = Club!Idle] /\ UNCHANGED <<clubRows, imported>>
    BY <1>5 DEF Club!Restart
  <2>2. Club!Idle.step # "totals"
    BY DEF Club!Idle
  <2> QED BY <1>1, <2>1, <2>2
<1>6. ASSUME NEW s \in Syncs, Club!readRows(s)  PROVE ClubInv'
  <2>1. /\ clubDesk' = [clubDesk EXCEPT ![s] = [step |-> "totals", todo |-> {}, seen |-> clubRows]]
        /\ UNCHANGED <<clubRows, imported>>
    BY <1>6 DEF Club!readRows
  <2>2. clubDesk' = [t \in Syncs |-> clubDesk'[t]] /\ \A t \in Syncs : clubDesk'[t].seen = clubRows'
    BY <2>1 DEF ClubInv, ClubBounds
  <2> QED BY <2>1, <2>2 DEF ClubInv, RowsInv, ClubRow, RowIsKnown
<1>7. ASSUME NEW s \in Syncs, NEW members \in SUBSET ClubPlayers, Club!refreshEaCareerTotals(s, members)
      PROVE  ClubInv'
  <2>1. clubDesk' = [clubDesk EXCEPT ![s] = Club!Idle] /\ clubDesk[s].seen = clubRows
    BY <1>7 DEF Club!refreshEaCareerTotals, ClubInv
  <2>2. clubDesk' = [t \in Syncs |-> clubDesk'[t]] /\ \A t \in Syncs : clubDesk'[t].step # "totals"
    BY <2>1 DEF ClubInv, ClubBounds, Club!Idle
  <2>3. RowsInv'
    BY <1>7, <2>1, TotalsCome DEF ClubInv
  <2> QED BY <2>2, <2>3 DEF ClubInv
<1>8. CASE UNCHANGED Club!vars
  BY <1>8 DEF Club!vars, ClubInv, RowsInv, ClubRow, RowIsKnown
<1> QED BY <1>2, <1>3, <1>4, <1>5, <1>6, <1>7, <1>8 DEF Club!Next

LEMMA ClubShows == ClubInv => Club!TotalsMeetTheirPlayer
<1> SUFFICES ASSUME ClubInv, NEW r \in clubRows, r.totals
             PROVE  /\ \A t \in clubRows : t.totals /\ t.playerName = r.playerName => t = r
                    /\ (\E p \in ClubPlayers : Name[p] = r.playerName /\ Club!Known(p) \in Club!Keys(clubRows)) =>
                         \/ \E p \in ClubPlayers : r.identityKey = Club!Known(p)
                         \/ \E m \in imported \cap Anonymous : r.identityKey = Club!Unnamed(m, r.playerName)
  BY DEF Club!TotalsMeetTheirPlayer
<1>1. RowIsKnown(r)
  BY DEF ClubInv, RowsInv
<1> QED BY <1>1 DEF ClubInv, RowsInv, RowIsKnown, Club!Keys
-----------------------------------------------------------------------------
(* A decided game is over.                                                   *)

GameBounds == MIN_PLAYERS \in Nat /\ MIN_PLAYERS >= 3 /\ GameAdmins = {} /\ IsFiniteSet(Spots)

IsSeat(seat) == {"role", "alive"} \subseteq DOMAIN seat
AreSeats(ps) == \A p \in DOMAIN ps : IsSeat(ps[p])

GameInv == /\ sessions \in Nat /\ admitted \subseteq 1 .. sessions
                /\ DOMAIN seats \subseteq 1 .. sessions
           /\ admitted \cap DOMAIN seats = {}
           /\ AreSeats(seats)
           /\ Game!NobodyPlaysOn
-----------------------------------------------------------------------------
\* The end of a game depends on who is alive and on the roles.
LEMMA SameEnd ==
  ASSUME NEW f, NEW g, DOMAIN g = DOMAIN f, \A p \in DOMAIN f : g[p].alive = f[p].alive
         /\ g[p].role = f[p].role,
         NEW w
  PROVE  Game!winnerFor(g, w) = Game!winnerFor(f, w)
<1>1. Game!alive(g) = Game!alive(f)
  BY DEF Game!alive
<1>2. Game!Killers(g) = Game!Killers(f)
  BY DEF Game!Killers
<1> QED BY <1>1, <1>2 DEF Game!winnerFor

LEMMA CountAlive ==
  ASSUME GameInv
  PROVE  /\ IsFiniteSet(Game!alive(seats)) /\ Cardinality(Game!alive(seats)) \in Nat
         /\ IsFiniteSet(Game!alive(seats) \cap Game!Killers(seats))
         /\ Cardinality(Game!alive(seats) \cap Game!Killers(seats)) \in Nat
<1>1. IsFiniteSet(1 .. sessions)
  BY FS_Interval DEF GameInv
<1>2. Game!alive(seats) \subseteq 1 .. sessions
  BY DEF GameInv, Game!alive
<1>3. IsFiniteSet(Game!alive(seats)) /\ IsFiniteSet(Game!alive(seats) \cap Game!Killers(seats))
  BY <1>1, <1>2, FS_Subset
<1> QED BY <1>3, FS_CardinalityType

\* One more who does not kill decides nothing.
LEMMA GameJoinKeeps == ASSUME GameInv, NEW p, Game!onJoin(p)  PROVE GameInv'
<1>1. /\ p \in admitted /\ admitted' = admitted \ {p}
      /\ seats' = [q \in DOMAIN seats \cup {p} |-> IF q = p THEN Game!NewSeat ELSE seats[q]]
      /\ UNCHANGED <<sessions, phase, work>>
  BY DEF Game!onJoin, Game!InRoom
<1>2. IsSeat(Game!NewSeat) /\ Game!NewSeat.alive = TRUE /\ Game!NewSeat.role = "funcionario"
  BY DEF IsSeat, Game!NewSeat
<1>3. p \notin DOMAIN seats /\ p \in 1 .. sessions
  BY <1>1 DEF GameInv
<1>4. DOMAIN seats' = DOMAIN seats \cup {p} /\ AreSeats(seats)'
  BY <1>1, <1>2 DEF GameInv, AreSeats
<1>5. ASSUME phase = "jogando"  PROVE Game!winnerFor(seats, work)' = Game!Nothing
  <2> DEFINE n == Cardinality(Game!alive(seats))
             k == Cardinality(Game!alive(seats) \cap Game!Killers(seats))
  <2>1. Game!alive(seats)' = Game!alive(seats) \cup {p} /\ Game!Killers(seats)' = Game!Killers(seats)
    BY <1>1, <1>2, <1>3 DEF Game!alive, Game!Killers
  <2>2. p \notin Game!alive(seats) /\ p \notin Game!Killers(seats)
    BY <1>3 DEF Game!alive, Game!Killers
  <2>3. Cardinality(Game!alive(seats)') = n + 1
    BY <2>1, <2>2, CountAlive, FS_AddElement
  <2>4. Cardinality(Game!alive(seats)' \cap Game!Killers(seats)') = k
    <3>1. Game!alive(seats)' \cap Game!Killers(seats)' = Game!alive(seats) \cap Game!Killers(seats)
      BY <2>1, <2>2
    <3> QED BY <3>1
  <2>5. n \in Nat /\ k \in Nat
    BY CountAlive
  <2>6. Game!winnerFor(seats, work) = Game!Nothing
    BY <1>5 DEF GameInv, Game!NobodyPlaysOn
  <2>7. k # 0 /\ ~(work.total > 0 /\ work.done >= work.total) /\ ~(k >= n - k)
    BY <2>6, SameCounts DEF Game!winnerFor, Game!Nothing
  <2> HIDE DEF n, k
  <2>8. ~(k >= n + 1 - k)
    BY <2>5, <2>7
  <2> DEFINE now == Cardinality(Game!alive(seats))'
             bad == Cardinality(Game!alive(seats) \cap Game!Killers(seats))'
  <2>9. now = n + 1 /\ bad = k /\ work' = work
    BY <1>1, <2>3, <2>4
  <2>10. bad # 0 /\ ~(bad >= now - bad) /\ ~(work'.total > 0 /\ work'.done >= work'.total)
    BY <2>5, <2>7, <2>8, <2>9
  <2> QED BY <2>10, SameCounts DEF Game!winnerFor, now, bad
<1> QED BY <1>1, <1>3, <1>4, <1>5 DEF GameInv, Game!NobodyPlaysOn

\* A game begins with one killer among three at least.
LEMMA GameStartKeeps == ASSUME GameBounds, GameInv, NEW p, Game!onStart(p)  PROVE GameInv'
<1>1. PICK roles \in Game!assignRoles(Game!InRoom, 1, Detective) :
        /\ seats' = [q \in Game!InRoom |-> [Game!NewSeat EXCEPT !.role = roles[q],
           !.tasks = Spots, !.mic = TRUE]]
        /\ work' = [done |-> 0,
                    total |-> Cardinality(Spots) * Cardinality({q
                      \in Game!InRoom : roles[q] # "assassino"})]
  BY SameCounts DEF Game!onStart
<1>2. UNCHANGED <<sessions, admitted>> /\ Cardinality(Game!InRoom) >= MIN_PLAYERS
  BY SameCounts DEF Game!onStart, Game!canStartMatch, GameBounds
<1>3. DOMAIN seats' = Game!InRoom /\ \A q \in Game!InRoom : /\ IsSeat(seats'[q])
                                                            /\ seats'[q].alive = TRUE /\ seats'[q].role = roles[q]
  BY <1>1 DEF Game!NewSeat, IsSeat
<1> DEFINE n == Cardinality(Game!InRoom)
<1>4. IsFiniteSet(Game!InRoom) /\ n \in Nat /\ n >= 3
  <2>1. IsFiniteSet(1 .. sessions) /\ Game!InRoom \subseteq 1 .. sessions
    BY FS_Interval DEF GameInv, Game!InRoom
  <2>2. IsFiniteSet(Game!InRoom) /\ n \in Nat
    BY <2>1, FS_Subset, FS_CardinalityType
  <2> QED BY <1>2, <2>2 DEF GameBounds
<1>5. Cardinality({q \in Game!InRoom : roles[q] = "assassino"}) = 1
  <2>1. Cardinality({q \in Game!InRoom : roles[q] = "assassino"}) = Game!KillersOf(n, 1)
    BY <1>1, SameCounts DEF Game!assignRoles
  <2>2. Game!maxKillersFor(n) \in {1, 2, 3}
    BY DEF Game!maxKillersFor
  <2> HIDE DEF n
  <2>3. Game!KillersOf(n, 1) = 1
    BY <1>4, <2>2 DEF Game!KillersOf
  <2> QED BY <2>1, <2>3
<1>6. Game!alive(seats)' = Game!InRoom
        /\ Game!Killers(seats)' = {q \in Game!InRoom : roles[q] = "assassino"}
  BY <1>3 DEF Game!alive, Game!Killers
<1>7. Game!alive(seats)' \cap Game!Killers(seats)' = {q \in Game!InRoom : roles[q] = "assassino"}
  BY <1>6
<1>8. ~(work'.total > 0 /\ work'.done >= work'.total)
  <2> DEFINE busy == {q \in Game!InRoom : roles[q] # "assassino"}
  <2>1. Cardinality(Spots) \in Nat /\ Cardinality(busy) \in Nat
    BY <1>4, FS_Subset, FS_CardinalityType DEF GameBounds
  <2>2. work'.done = 0 /\ work'.total = Cardinality(Spots) * Cardinality(busy)
    BY <1>1
  <2>3. work'.total \in Nat
    BY <2>1, <2>2
  <2> QED BY <2>2, <2>3
<1> HIDE DEF n
<1>9. Game!winnerFor(seats, work)' = Game!Nothing
  <2>1. Cardinality(Game!alive(seats)') = n
    BY <1>6 DEF n
  <2>2. Cardinality(Game!alive(seats)' \cap Game!Killers(seats)') = 1
    BY <1>5, <1>7
  <2>3. ~(1 >= n - 1)
    BY <1>4
  <2> QED BY <1>8, <2>1, <2>2, <2>3, SameCounts DEF Game!winnerFor
<1> QED BY <1>2, <1>3, <1>9 DEF GameInv, Game!NobodyPlaysOn, AreSeats, Game!InRoom

\* A step that leaves who is alive and the roles as they are.
LEMMA NobodyDies ==
  ASSUME GameInv, DOMAIN seats' = DOMAIN seats,
         \A p \in DOMAIN seats : /\ IsSeat(seats'[p]) /\ seats'[p].alive = seats[p].alive
                                 /\ seats'[p].role = seats[p].role,
         UNCHANGED <<sessions, admitted>>,
         phase' = "jogando" => phase = "jogando" /\ work' = work
  PROVE  GameInv'
<1>1. Game!winnerFor(seats', work) = Game!winnerFor(seats, work)
  BY SameEnd
<1> QED BY <1>1 DEF GameInv, Game!NobodyPlaysOn, AreSeats

LEMMA AwayFromPlay ==
  ASSUME GameInv, DOMAIN seats' \subseteq DOMAIN seats, AreSeats(seats'),
         UNCHANGED <<sessions, admitted>>, phase' # "jogando"
  PROVE  GameInv'
  BY DEF GameInv, Game!NobodyPlaysOn

\* Whoever asks whether the game is over plays on only if it is not.
LEMMA CheckEndKeeps ==
  ASSUME GameInv, NEW ps, NEW w, NEW next, Game!CheckEnd(ps, w, next),
         DOMAIN ps \subseteq DOMAIN seats, AreSeats(ps), UNCHANGED <<sessions, admitted>>
  PROVE  GameInv'
<1>1. CASE Game!winnerFor(ps, w) = Game!Nothing
  <2>1. seats' = ps /\ work' = w
    BY <1>1 DEF Game!CheckEnd
  <2> QED BY <1>1, <2>1 DEF GameInv, Game!NobodyPlaysOn
<1>2. CASE Game!winnerFor(ps, w) # Game!Nothing
  <2>1. seats' = Game!Unvoted(ps) /\ phase' = "fim"
    BY <1>2 DEF Game!CheckEnd
  <2>2. DOMAIN seats' = DOMAIN ps /\ AreSeats(seats')
    BY <2>1 DEF Game!Unvoted, AreSeats, IsSeat
  <2> QED BY <2>1, <2>2, AwayFromPlay
<1> QED BY <1>1, <1>2

LEMMA GoneKeeps == ASSUME GameInv, NEW p, Game!Gone(p)  PROVE GameInv'
<1> DEFINE rest == [q \in Game!InRoom \ {p} |-> seats[q]]
<1>1. DOMAIN rest \subseteq DOMAIN seats /\ AreSeats(rest)
  BY DEF Game!InRoom, GameInv, AreSeats
<1>2. UNCHANGED <<sessions, admitted>>
  BY DEF Game!Gone
<1>3. CASE phase \in {"lobby", "fim"}
  <2>1. seats' = rest /\ phase' # "jogando"
    BY <1>3 DEF Game!Gone
  <2> QED BY <1>1, <1>2, <2>1, AwayFromPlay
<1>4. CASE phase \notin {"lobby", "fim"}
  <2>1. Game!CheckEnd(rest, work, Game!AsItIs)
    BY <1>4 DEF Game!Gone
  <2> QED BY <1>1, <1>2, <2>1, CheckEndKeeps
<1> QED BY <1>3, <1>4

LEMMA MeetingKeeps ==
  ASSUME GameInv, NEW ps, DOMAIN ps = DOMAIN seats, AreSeats(ps), Game!openMeeting(ps)
  PROVE  GameInv'
<1>1. DOMAIN seats' = DOMAIN ps /\ AreSeats(seats')
  BY DEF Game!openMeeting, AreSeats, IsSeat
<1> QED BY <1>1, AwayFromPlay DEF Game!openMeeting

LEMMA VotingKeeps ==
  ASSUME GameInv, NEW ps, DOMAIN ps = DOMAIN seats, AreSeats(ps), Game!closeVoting(ps),
         UNCHANGED <<sessions, admitted>>, phase' # "jogando"
  PROVE  GameInv'
<1>1. PICK out : seats' = [p \in DOMAIN ps |-> IF p \in out THEN [ps[p] EXCEPT !.alive = FALSE]
           ELSE ps[p]]
  BY DEF Game!closeVoting
<1>2. DOMAIN seats' = DOMAIN ps /\ AreSeats(seats')
  BY <1>1 DEF AreSeats, IsSeat
<1> QED BY <1>2, AwayFromPlay

LEMMA GameInit == Game!Init => GameInv
<1> SUFFICES ASSUME Game!Init  PROVE GameInv
  OBVIOUS
<1>1. DOMAIN seats = {} /\ sessions = 0 /\ admitted = {} /\ phase = "lobby"
  BY DEF Game!Init
<1> QED BY <1>1 DEF GameInv, AreSeats, Game!NobodyPlaysOn

LEMMA GameStep ==
  ASSUME GameBounds
  PROVE  GameInv /\ [Game!Next]_Game!vars => GameInv'
<1> SUFFICES ASSUME GameInv, [Game!Next]_Game!vars  PROVE GameInv'
  OBVIOUS
<1>0. AreSeats(seats)
  BY DEF GameInv
<1>1. CASE Game!onAuth
  BY <1>1 DEF Game!onAuth, GameInv, Game!NobodyPlaysOn
<1>2. ASSUME NEW p, Game!onDrop(p) \/ Game!Reconnects(p) \/ Game!onMicrophoneStatus(p)
             \/ Game!onReady(p) \/ Game!onMove(p) \/ Game!onVent(p)
      PROVE  GameInv'
  <2>1. /\ DOMAIN seats' = DOMAIN seats
        /\ \A q \in DOMAIN seats : /\ IsSeat(seats'[q]) /\ seats'[q].alive = seats[q].alive
                                   /\ seats'[q].role = seats[q].role
    BY <1>0, <1>2 DEF Game!onDrop, Game!Reconnects, Game!onMicrophoneStatus, Game!onReady,
       Game!onMove, Game!onVent, AreSeats, IsSeat
  <2>2. UNCHANGED <<sessions, admitted, phase, work>>
    BY <1>2 DEF Game!onDrop, Game!Reconnects, Game!onMicrophoneStatus, Game!onReady, Game!onMove,
       Game!onVent, Game!Rest
  <2> QED BY <2>1, <2>2, NobodyDies
<1>3. ASSUME NEW p, NEW x, Game!onTaskBegin(p, x) \/ Game!onInspect(p, x)
      PROVE  GameInv'
  <2>1. /\ DOMAIN seats' = DOMAIN seats
        /\ \A q \in DOMAIN seats : /\ IsSeat(seats'[q]) /\ seats'[q].alive = seats[q].alive
                                   /\ seats'[q].role = seats[q].role
    BY <1>0, <1>3 DEF Game!onTaskBegin, Game!onInspect, AreSeats, IsSeat
  <2>2. UNCHANGED <<sessions, admitted, phase, work>>
    BY <1>3 DEF Game!onTaskBegin, Game!onInspect, Game!Rest
  <2> QED BY <2>1, <2>2, NobodyDies
<1>4. CASE \E p, v \in Game!Sessions : Game!onSabotage(p) \/ Game!onForensicInspect(p, v)
  BY <1>4 DEF Game!onSabotage, Game!onForensicInspect, GameInv, Game!NobodyPlaysOn
<1>5. CASE Game!TimePasses \/ Game!tickVoting \/ Game!tickLight
  BY <1>5 DEF Game!TimePasses, Game!tickVoting, Game!tickLight, GameInv, Game!NobodyPlaysOn
<1>6. ASSUME NEW p, Game!onTaskDone(p)  PROVE GameInv'
  <2> DEFINE ps == [seats EXCEPT ![p].done = @ \cup {seats[p].active}, ![p].active = Game!Nothing]
  <2>1. /\ DOMAIN ps = DOMAIN seats
        /\ \A q \in DOMAIN seats : /\ IsSeat(ps[q]) /\ ps[q].alive = seats[q].alive
                                   /\ ps[q].role = seats[q].role
    BY <1>0 DEF AreSeats, IsSeat
  <2>2. UNCHANGED <<sessions, admitted>>
        /\ \/ seats' = ps /\ UNCHANGED <<phase, work>>
           \/ Game!CheckEnd(ps, [work EXCEPT !.done = @ + 1], Game!AsItIs)
    BY <1>6 DEF Game!onTaskDone
  <2>3. AreSeats(ps)
    BY <2>1 DEF AreSeats
  <2> HIDE DEF ps
  <2> QED BY <2>1, <2>2, <2>3, NobodyDies, CheckEndKeeps
<1>7. ASSUME NEW p, NEW v, Game!onKill(p, v)  PROVE GameInv'
  <2> DEFINE ps == [seats EXCEPT ![v].alive = FALSE, ![v].active = Game!Nothing]
  <2>1. DOMAIN ps = DOMAIN seats /\ AreSeats(ps)
    BY <1>0 DEF AreSeats, IsSeat
  <2>2. UNCHANGED <<sessions, admitted>> /\ Game!CheckEnd(ps, work, Game!AsItIs)
    BY <1>7 DEF Game!onKill
  <2> HIDE DEF ps
  <2> QED BY <2>1, <2>2, CheckEndKeeps
<1>8. CASE \E p, v \in Game!Sessions : Game!onReport(p, v)
  BY <1>0, <1>8, MeetingKeeps DEF Game!onReport
<1>9. ASSUME NEW p, Game!onEmergency(p)  PROVE GameInv'
  <2> DEFINE ps == [seats EXCEPT ![p].calls = @ - 1]
  <2>1. DOMAIN ps = DOMAIN seats /\ AreSeats(ps)
    BY <1>0 DEF AreSeats, IsSeat
  <2>2. Game!openMeeting(ps)
    BY <1>9 DEF Game!onEmergency
  <2> HIDE DEF ps
  <2> QED BY <2>1, <2>2, MeetingKeeps
<1>10. ASSUME NEW p, NEW target, Game!onVote(p, target)  PROVE GameInv'
  <2> DEFINE ps == [seats EXCEPT ![p].vote = target]
  <2>1. DOMAIN ps = DOMAIN seats /\ AreSeats(ps)
    BY <1>0 DEF AreSeats, IsSeat
  <2>2. /\ UNCHANGED <<sessions, admitted>> /\ phase' # "jogando"
        /\ Game!closeVoting(ps) \/ seats' = ps
    BY <1>10 DEF Game!onVote
  <2> HIDE DEF ps
  <2> QED BY <2>1, <2>2, VotingKeeps, AwayFromPlay
<1>11. CASE Game!tickResult
  BY <1>0, <1>11, VotingKeeps DEF Game!tickResult
<1>12. CASE Game!tickPlay
  <2>1. DOMAIN Game!Unvoted(seats) = DOMAIN seats /\ AreSeats(Game!Unvoted(seats))
    BY <1>0 DEF Game!Unvoted, AreSeats, IsSeat
  <2>2. PICK next : Game!CheckEnd(Game!Unvoted(seats), work, next)
    BY <1>12 DEF Game!tickPlay
  <2> QED BY <1>12, <2>1, <2>2, CheckEndKeeps DEF Game!tickPlay
<1>13. ASSUME NEW p, Game!onRestart(p)  PROVE GameInv'
  <2>1. DOMAIN seats' = DOMAIN seats /\ AreSeats(seats')
    BY <1>0, <1>13 DEF Game!onRestart, Game!InRoom, AreSeats, IsSeat
  <2>2. UNCHANGED <<sessions, admitted>> /\ phase' # "jogando"
    BY <1>13 DEF Game!onRestart
  <2> QED BY <2>1, <2>2, AwayFromPlay
<1>14. CASE UNCHANGED Game!vars
  BY <1>14 DEF Game!vars, GameInv, Game!NobodyPlaysOn
<1>15. CASE \E p \in Game!Sessions : Game!onJoin(p) \/ Game!onStart(p) \/ Game!onLeave(p)
            \/ Game!GivenUp(p)
  BY <1>15, GameJoinKeeps, GameStartKeeps, GoneKeeps DEF Game!onLeave, Game!GivenUp
<1> QED
  BY <1>1, <1>2, <1>3, <1>4, <1>5, <1>6, <1>7, <1>8, <1>9, <1>10, <1>11, <1>12, <1>13, <1>14,
     <1>15 DEF Game!Next

LEMMA GameShows == GameInv => Game!NobodyPlaysOn
  BY DEF GameInv
-----------------------------------------------------------------------------
(* The host of a live knows its viewers, and a private live has no guests.   *)

\* A peer in the room and a live in memory; a page has its number from the counter.
Peer == [who: {"host", "member", "guest"}, attached: BOOLEAN, conns: Int, stale: BOOLEAN]
Lives == [broadcasting: BOOLEAN, visibility: {"MEMBERS", "PUBLIC"}, host: Nat,
          missing: {"no", "now", "long"}, telemetry: {"none", "fresh", "old"}]
LiveRows == [broadcasting: BOOLEAN, visibility: {"MEMBERS", "PUBLIC"}]

LiveTypes ==
  /\ joined \in Nat
  /\ DOMAIN peers \subseteq 1..joined
  /\ peers \in [DOMAIN peers -> Peer]
  /\ stored = Live!Gone \/ stored \in LiveRows
  /\ live = Live!Gone \/ live \in Lives
  /\ closing \in BOOLEAN

\* A room without a live is empty; a live has its row.
LiveInv ==
  /\ LiveTypes
  /\ ~Live!Open => DOMAIN peers = {}
  /\ Live!Open => stored \in LiveRows
  /\ Live!HostKnowsTheViewers
  /\ Live!PrivateLiveHasNoGuests

LEMMA NotGone == Live!Gone \notin Lives /\ Live!Gone \notin LiveRows
<1>1. SUFFICES ASSUME NEW x, x \in Lives \/ x \in LiveRows, x = Live!Gone  PROVE FALSE
  OBVIOUS
<1>2. DOMAIN x = {"none"}
  BY <1>1 DEF Live!Gone
<1>3. "broadcasting" \in DOMAIN x
  BY <1>1 DEF Lives, LiveRows
<1> QED BY <1>2, <1>3

LEMMA NobodyIn == DOMAIN <<>> = {} /\ <<>> \in [DOMAIN <<>> -> Peer]
  OBVIOUS

LEMMA LiveInit == Live!Init => LiveInv
<1> SUFFICES ASSUME Live!Init  PROVE LiveInv
  OBVIOUS
<1>1. live = Live!Gone /\ stored = Live!Gone /\ peers = <<>> /\ joined = 0 /\ closing \in BOOLEAN
  BY DEF Live!Init
<1>2. DOMAIN peers = {} /\ peers \in [DOMAIN peers -> Peer]
  BY <1>1, NobodyIn
<1> QED BY <1>1, <1>2 DEF LiveInv, LiveTypes, Live!Open, Live!HostKnowsTheViewers,
           Live!PrivateLiveHasNoGuests

LEMMA DroppedIs ==
  ASSUME NEW ps, NEW out, NEW S, ps \in [DOMAIN ps -> S]
  PROVE  /\ Live!Dropped(ps, out) \in [DOMAIN ps \ out -> S]
         /\ \A p \in DOMAIN ps \ out : Live!Dropped(ps, out)[p] = ps[p]
  BY DEF Live!Dropped

LEMMA PeerIs ==
  ASSUME NEW q \in Peer, NEW n \in Int
  PROVE  LET on  == [q EXCEPT !.attached = TRUE, !.conns = n, !.stale = FALSE]
             off == [q EXCEPT !.attached = FALSE, !.conns = n, !.stale = FALSE]
         IN /\ on \in Peer /\ on.attached = TRUE /\ on.who = q.who
            /\ off \in Peer /\ off.attached = FALSE /\ off.who = q.who
  BY DEF Peer

LEMMA LiveIs ==
  ASSUME NEW l \in Lives, NEW h \in Nat, NEW m \in {"no", "now", "long"}
  PROVE  LET now == [l EXCEPT !.host = h, !.missing = m]
         IN now \in Lives /\ now.host = h /\ now.visibility = l.visibility
  BY DEF Lives

LEMMA LiveStep == LiveInv /\ [Live!Next]_Live!vars => LiveInv'
<1> SUFFICES ASSUME LiveInv, [Live!Next]_Live!vars  PROVE LiveInv'
  OBVIOUS
<1> USE NotGone DEF LiveInv, LiveTypes, Live!Open
<1>0. joined \in Nat /\ (Live!Open => live \in Lives /\ stored \in LiveRows)
  OBVIOUS
<1>1. ASSUME NEW v \in {"MEMBERS", "PUBLIC"}, Live!create(v)  PROVE LiveInv'
  <2>1. /\ stored' \in LiveRows /\ live' \in Lives /\ live'.host = Live!None
        /\ peers' = peers /\ joined' = joined /\ closing' = closing /\ DOMAIN peers = {}
    BY <1>1 DEF Live!create, Live!NewLive, LiveRows, Lives, Live!None
  <2>2. Live!GuestsIn(peers) = {}
    BY <2>1 DEF Live!GuestsIn
  <2> QED BY <2>1, <2>2 DEF Live!HostKnowsTheViewers, Live!PrivateLiveHasNoGuests
<1>2. CASE Live!start
  <2>1. /\ live' \in Lives /\ live'.host = live.host /\ live'.visibility = live.visibility
        /\ UNCHANGED <<peers, joined, told, closing>> /\ live \in Lives
    BY <1>2 DEF Live!start, Lives
  <2>2. stored' \in LiveRows
    <3>1. stored' = [stored EXCEPT !.broadcasting = TRUE] /\ stored \in LiveRows
      BY <1>2 DEF Live!start
    <3> HIDE DEF LiveInv, LiveTypes
    <3> QED BY <3>1 DEF LiveRows
  <2> QED BY <2>1, <2>2 DEF Live!HostKnowsTheViewers, Live!PrivateLiveHasNoGuests
<1>3. ASSUME Live!destroy  PROVE LiveInv'
  BY <1>3, NobodyIn DEF Live!destroy, Live!Counters, Live!HostKnowsTheViewers,
     Live!PrivateLiveHasNoGuests
<1>4. CASE Live!deleteRow
  BY <1>4 DEF Live!deleteRow, Live!Counters, Live!HostKnowsTheViewers, Live!PrivateLiveHasNoGuests
<1>5. ASSUME NEW v \in {"MEMBERS", "PUBLIC"}, Live!updateVisibility(v)  PROVE LiveInv'
  <2>1. /\ live' \in Lives /\ live'.host = live.host /\ live'.visibility = v
        /\ UNCHANGED <<peers, joined, told>> /\ live \in Lives
    BY <1>5 DEF Live!updateVisibility, Lives
  <2>2. stored' \in LiveRows
    <3>1. stored' = [stored EXCEPT !.visibility = v] /\ stored \in LiveRows
      BY <1>5 DEF Live!updateVisibility
    <3> HIDE DEF LiveInv, LiveTypes
    <3> QED BY <3>1 DEF LiveRows
  <2>3. closing' = (closing \/ v = "MEMBERS")
    BY <1>5 DEF Live!updateVisibility
  <2> QED BY <2>1, <2>2, <2>3 DEF Live!HostKnowsTheViewers, Live!PrivateLiveHasNoGuests
<1>6. CASE Live!sendGuestsAway
  <2>1. /\ UNCHANGED <<stored, live, joined>> /\ Live!Open /\ closing' = FALSE
        /\ peers' = Live!Dropped(peers, Live!GuestsIn(peers)) /\ told' = told \ Live!GuestsIn(peers)
    BY <1>6 DEF Live!sendGuestsAway, Live!Drop
  <2> QED BY <2>1, DroppedIs
          DEF Live!HostKnowsTheViewers, Live!PrivateLiveHasNoGuests, Live!GuestsIn, Live!Viewers,
            Live!Dropped
<1>7. CASE Live!reportTelemetry
  <2>1. /\ live' \in Lives /\ live'.host = live.host /\ live'.visibility = live.visibility
        /\ UNCHANGED <<stored, peers, joined, told, closing>> /\ live \in Lives
    BY <1>7 DEF Live!reportTelemetry, Lives
  <2> QED BY <2>1 DEF Live!HostKnowsTheViewers, Live!PrivateLiveHasNoGuests
<1>8. CASE Live!Restart
  <2>1. /\ UNCHANGED <<stored, joined>> /\ peers' = <<>> /\ closing' = FALSE
        /\ live' = Live!Gone \/ (live' \in Lives /\ live'.host = Live!None /\ stored \in LiveRows)
    <3>1. /\ UNCHANGED <<stored, joined>> /\ peers' = <<>> /\ closing' = FALSE
          /\ live' = IF stored = Live!Gone THEN Live!Gone ELSE Live!NewLive(stored.broadcasting,
             stored.visibility)
          /\ stored = Live!Gone \/ stored \in LiveRows
      BY <1>8 DEF Live!Restart
    <3> HIDE DEF LiveInv, LiveTypes, Live!Open
    <3>2. stored \in LiveRows => Live!NewLive(stored.broadcasting, stored.visibility) \in Lives
      BY DEF Live!NewLive, LiveRows, Lives, Live!None
    <3>3. Live!NewLive(stored.broadcasting, stored.visibility).host = Live!None
      BY DEF Live!NewLive
    <3>4. CASE stored = Live!Gone
      BY <3>1, <3>4
    <3>5. CASE stored # Live!Gone
      BY <3>1, <3>2, <3>3, <3>5
    <3> QED BY <3>4, <3>5
  <2> QED BY <2>1, NobodyIn DEF Live!HostKnowsTheViewers, Live!PrivateLiveHasNoGuests, Live!GuestsIn
<1>9. CASE Live!joinHost
  <2>1. /\ UNCHANGED <<stored, closing>> /\ Live!Open /\ live \in Lives /\ joined' = joined + 1
        /\ peers' = Live!Admit(Live!Dropped(peers, {live.host}), "host")
        /\ told' = Live!Viewers(peers, live.host)
    BY <1>9 DEF Live!joinHost
  <2>2. live' \in Lives /\ live'.host = joined + 1 /\ live'.visibility = live.visibility
    <3>1. live' = [live EXCEPT !.host = joined + 1, !.missing = "no"]
      BY <1>9 DEF Live!joinHost
    <3>2. joined + 1 \in Nat
      BY <1>0
    <3> HIDE DEF LiveInv, LiveTypes, Live!Open
    <3> QED BY <3>1, <3>2, <2>1, LiveIs
  <2>3. /\ DOMAIN peers' = (DOMAIN peers \ {live.host}) \cup {joined + 1}
        /\ peers'[joined + 1] = Live!NewPeer("host")
        /\ \A p \in DOMAIN peers \ {live.host} : peers'[p] = peers[p]
        /\ peers' \in [DOMAIN peers' -> Peer]
        /\ joined + 1 \notin DOMAIN peers
    <3>1. Live!NewPeer("host") \in Peer
      BY DEF Live!NewPeer, Peer
    <3>2. \A p \in DOMAIN peers : peers[p] \in Peer
      OBVIOUS
    <3>3. joined + 1 \notin DOMAIN peers
      OBVIOUS
    <3> HIDE DEF LiveInv, LiveTypes, Live!Open
    <3>4. peers' = [p \in (DOMAIN peers \ {live.host}) \cup {joined + 1} |->
                     IF p = joined + 1 THEN Live!NewPeer("host") ELSE Live!Dropped(peers,
                       {live.host})[p]]
      BY <2>1 DEF Live!Admit, Live!Dropped
    <3>5. \A p \in DOMAIN peers \ {live.host} : Live!Dropped(peers, {live.host})[p] = peers[p]
      BY DEF Live!Dropped
    <3> QED BY <3>1, <3>2, <3>3, <3>4, <3>5
  <2>4. Live!HostKnowsTheViewers'
    <3>1. Live!Viewers(peers', joined + 1) = Live!Viewers(peers, live.host)
      <4> HIDE DEF LiveInv, LiveTypes, Live!Open
      <4> QED BY <2>3 DEF Live!Viewers, Live!NewPeer
    <3> QED BY <2>1, <2>2, <3>1 DEF Live!HostKnowsTheViewers
  <2>5. Live!PrivateLiveHasNoGuests'
    <3>1. Live!GuestsIn(peers') \subseteq Live!GuestsIn(peers)
      <4> HIDE DEF LiveInv, LiveTypes, Live!Open
      <4> QED BY <2>3 DEF Live!GuestsIn, Live!NewPeer
    <3> QED BY <2>1, <2>2, <3>1 DEF Live!PrivateLiveHasNoGuests
  <2>6. joined' \in Nat /\ DOMAIN peers' \subseteq 1..joined'
    BY <1>0, <2>1, <2>3
  <2>7. /\ stored' \in LiveRows /\ closing' \in BOOLEAN
    BY <1>0, <2>1
  <2> QED BY <2>2, <2>3, <2>4, <2>5, <2>6, <2>7
<1>10. ASSUME NEW older \in SUBSET DOMAIN peers, NEW who \in {"member", "guest"}, Live!Open,
              who = "guest" => Live!Public,
              joined' = joined + 1, UNCHANGED <<stored, live, closing>>,
              peers' = Live!Admit(Live!Dropped(peers, older), who), told' = told \ older
       PROVE  LiveInv'
  <2>1. /\ DOMAIN peers' = (DOMAIN peers \ older) \cup {joined + 1}
        /\ peers'[joined + 1] = Live!NewPeer(who)
        /\ \A p \in DOMAIN peers \ older : peers'[p] = peers[p]
        /\ peers' \in [DOMAIN peers' -> Peer]
        /\ joined + 1 \notin DOMAIN peers
    <3>1. Live!NewPeer(who) \in Peer
      BY DEF Live!NewPeer, Peer
    <3>2. \A p \in DOMAIN peers : peers[p] \in Peer
      OBVIOUS
    <3>3. joined + 1 \notin DOMAIN peers
      OBVIOUS
    <3> HIDE DEF LiveInv, LiveTypes, Live!Open
    <3> QED BY <1>10, <3>1, <3>2, <3>3 DEF Live!Admit, Live!Dropped
  <2>2. Live!HostKnowsTheViewers'
    BY <1>10, <2>1 DEF Live!HostKnowsTheViewers, Live!Viewers, Live!NewPeer
  <2>3. Live!PrivateLiveHasNoGuests'
    BY <1>10, <2>1 DEF Live!PrivateLiveHasNoGuests, Live!GuestsIn, Live!NewPeer, Live!Public
  <2> QED BY <1>10, <2>1, <2>2, <2>3
<1>11. CASE Live!joinViewer
  BY <1>11, <1>10 DEF Live!joinViewer, Live!InRoom
<1>12. ASSUME NEW sameTab \in BOOLEAN, Live!joinPublic(sameTab)  PROVE LiveInv'
  <2>1. (IF sameTab THEN Live!GuestsIn(peers) ELSE {}) \in SUBSET DOMAIN peers
    BY DEF Live!GuestsIn
  <2> QED BY <1>12, <1>10, <2>1 DEF Live!joinPublic
<1>13. ASSUME NEW out \in SUBSET DOMAIN peers, Live!Open, Live!Drop(peers, out),
              UNCHANGED <<stored, live, joined, closing>>
       PROVE  LiveInv'
  <2>1. /\ DOMAIN peers' = DOMAIN peers \ out /\ told' = told \ out
        /\ \A p \in DOMAIN peers \ out : peers'[p] = peers[p]
        /\ peers' \in [DOMAIN peers' -> Peer]
    BY <1>13, DroppedIs DEF Live!Drop, Live!Dropped
  <2> QED BY <1>13, <2>1 DEF Live!HostKnowsTheViewers, Live!PrivateLiveHasNoGuests, Live!GuestsIn,
             Live!Viewers
<1>14. ASSUME NEW p \in Live!Ids, Live!leave(p)  PROVE LiveInv'
  <2>1. CASE p = live.host
    <3>1. /\ live \in Lives /\ live' \in Lives /\ live'.host = Live!None
          /\ live'.visibility = live.visibility
          /\ peers' = Live!Dropped(peers, {p}) /\ UNCHANGED <<stored, joined, closing>>
      <4>1. /\ live' = [live EXCEPT !.host = Live!None, !.missing = "now"] /\ live \in Lives
            /\ peers' = Live!Dropped(peers, {p}) /\ UNCHANGED <<stored, joined, closing>>
        BY <1>14, <2>1 DEF Live!leave
      <4> QED BY <4>1 DEF Lives, Live!None
    <3> QED BY <3>1, DroppedIs
            DEF Live!HostKnowsTheViewers, Live!PrivateLiveHasNoGuests, Live!GuestsIn, Live!Dropped
  <2>2. CASE p # live.host
    BY <1>14, <2>2, <1>13 DEF Live!leave, Live!InRoom
  <2> QED BY <2>1, <2>2
<1>15. ASSUME NEW p \in Live!Ids, Live!events(p)  PROVE LiveInv'
  <2>1. CASE Live!Open /\ p \in Live!InRoom
    <3>1. /\ live \in Lives /\ UNCHANGED <<stored, live, joined, closing>>
          /\ peers' = [peers EXCEPT ![p].attached = TRUE, ![p].conns = @ + 1, ![p].stale = FALSE]
          /\ told' = IF live.host = Live!None THEN told
                     ELSE IF p = live.host THEN told \cup Live!Viewers(peers, p) ELSE told \cup {p}
      BY <1>15, <2>1 DEF Live!events
    <3>2. /\ DOMAIN peers' = DOMAIN peers /\ peers' \in [DOMAIN peers -> Peer]
          /\ peers'[p].attached = TRUE /\ peers'[p].who = peers[p].who
          /\ \A q \in DOMAIN peers \ {p} : peers'[q] = peers[q]
      <4> DEFINE now == [peers[p] EXCEPT !.attached = TRUE, !.conns = @ + 1, !.stale = FALSE]
      <4>1. peers' = [peers EXCEPT ![p] = now]
        BY <3>1
      <4>2. peers[p] \in Peer
        BY <2>1 DEF Live!InRoom
      <4>3. p \in DOMAIN peers /\ peers \in [DOMAIN peers -> Peer]
        BY <2>1 DEF Live!InRoom
      <4>4. now \in Peer /\ now.attached = TRUE /\ now.who = peers[p].who
        <5>1. peers[p].conns + 1 \in Int
          BY <4>2 DEF Peer
        <5> HIDE DEF LiveInv, LiveTypes, Live!Open
        <5> QED BY <4>2, <5>1, PeerIs
      <4> HIDE DEF LiveInv, LiveTypes, Live!Open, now
      <4> QED BY <4>1, <4>3, <4>4
    <3>3. Live!HostKnowsTheViewers'
      BY <3>1, <3>2, <2>1 DEF Live!HostKnowsTheViewers, Live!Viewers, Live!InRoom
    <3>4. Live!PrivateLiveHasNoGuests'
      BY <3>1, <3>2, <2>1 DEF Live!PrivateLiveHasNoGuests, Live!GuestsIn, Live!InRoom
    <3> QED BY <3>1, <3>2, <3>3, <3>4
  <2>2. CASE ~(Live!Open /\ p \in Live!InRoom)
    BY <1>15, <2>2 DEF Live!events, Live!HostKnowsTheViewers, Live!PrivateLiveHasNoGuests
  <2> QED BY <2>1, <2>2
<1>16. ASSUME NEW p \in Live!Ids, Live!detach(p)  PROVE LiveInv'
  <2>1. /\ live \in Lives /\ UNCHANGED <<stored, joined, closing>> /\ p \in DOMAIN peers
        /\ peers' = [peers EXCEPT ![p].attached = FALSE, ![p].conns = @ - 1, ![p].stale = FALSE]
        /\ told' = IF p = live.host THEN told ELSE told \ {p}
    BY <1>16 DEF Live!detach, Live!InRoom
  <2>2. live' \in Lives /\ live'.host = live.host /\ live'.visibility = live.visibility
    BY <1>16 DEF Live!detach, Lives
  <2>3. /\ DOMAIN peers' = DOMAIN peers /\ peers' \in [DOMAIN peers -> Peer]
        /\ peers'[p].attached = FALSE /\ peers'[p].who = peers[p].who
        /\ \A q \in DOMAIN peers \ {p} : peers'[q] = peers[q]
    <3> DEFINE now == [peers[p] EXCEPT !.attached = FALSE, !.conns = @ - 1, !.stale = FALSE]
    <3>1. peers' = [peers EXCEPT ![p] = now]
      BY <2>1
    <3>2. peers[p] \in Peer /\ peers \in [DOMAIN peers -> Peer]
      BY <2>1
    <3>3. now \in Peer /\ now.attached = FALSE /\ now.who = peers[p].who
      <4>1. peers[p].conns - 1 \in Int
        BY <3>2 DEF Peer
      <4> HIDE DEF LiveInv, LiveTypes, Live!Open
      <4> QED BY <3>2, <4>1, PeerIs
    <3> HIDE DEF LiveInv, LiveTypes, Live!Open, now
    <3> QED BY <2>1, <3>1, <3>2, <3>3
  <2>4. Live!HostKnowsTheViewers'
    BY <2>1, <2>2, <2>3 DEF Live!HostKnowsTheViewers, Live!Viewers
  <2>5. Live!PrivateLiveHasNoGuests'
    BY <2>1, <2>2, <2>3 DEF Live!PrivateLiveHasNoGuests, Live!GuestsIn
  <2> QED BY <2>1, <2>2, <2>3, <2>4, <2>5
<1>17. ASSUME NEW p \in Live!Ids, Live!rtcGrant(p)  PROVE LiveInv'
  <2>1. /\ UNCHANGED <<stored, live, joined, told, closing>> /\ p \in DOMAIN peers
        /\ peers' = [peers EXCEPT ![p].stale = FALSE]
    BY <1>17 DEF Live!rtcGrant, Live!InRoom
  <2>2. /\ DOMAIN peers' = DOMAIN peers /\ peers' \in [DOMAIN peers -> Peer]
        /\ \A q \in DOMAIN peers : peers'[q].attached = peers[q].attached
           /\ peers'[q].who = peers[q].who
    BY <2>1 DEF Peer
  <2> QED BY <2>1, <2>2 DEF Live!HostKnowsTheViewers, Live!PrivateLiveHasNoGuests, Live!GuestsIn,
             Live!Viewers
<1>18. CASE Live!TimePasses
  <2>1. /\ UNCHANGED <<stored, joined, told, closing>> /\ live \in Lives
        /\ peers' = [p \in DOMAIN peers |-> [peers[p] EXCEPT !.stale = ~peers[p].attached]]
    BY <1>18 DEF Live!TimePasses, Live!InRoom
  <2>2. live' \in Lives /\ live'.host = live.host /\ live'.visibility = live.visibility
    BY <1>18, <2>1 DEF Live!TimePasses, Lives
  <2>3. /\ DOMAIN peers' = DOMAIN peers /\ peers' \in [DOMAIN peers -> Peer]
        /\ \A q \in DOMAIN peers : peers'[q].attached = peers[q].attached
           /\ peers'[q].who = peers[q].who
    BY <2>1 DEF Peer
  <2> QED BY <2>1, <2>2, <2>3 DEF Live!HostKnowsTheViewers, Live!PrivateLiveHasNoGuests,
             Live!GuestsIn, Live!Viewers
<1>19. CASE Live!cleanup
  <2>1. Live!destroy \/ (Live!Open /\ Live!Drop(peers, Live!Stale)
          /\ UNCHANGED <<stored, live, joined, closing>>)
    BY <1>19 DEF Live!cleanup
  <2>2. Live!Stale \in SUBSET DOMAIN peers
    BY DEF Live!Stale, Live!InRoom
  <2> QED BY <2>1, <2>2, <1>3, <1>13
<1>20. ASSUME NEW p \in Live!Ids, Live!createTicket(p) \/ Live!ticketExpires(p)  PROVE LiveInv'
  BY <1>20 DEF Live!createTicket, Live!ticketExpires, Live!HostKnowsTheViewers,
     Live!PrivateLiveHasNoGuests
<1>21. CASE UNCHANGED Live!vars
  BY <1>21 DEF Live!vars, Live!HostKnowsTheViewers, Live!PrivateLiveHasNoGuests
<1> QED BY <1>1, <1>2, <1>3, <1>4, <1>5, <1>6, <1>7, <1>8, <1>9, <1>11, <1>12, <1>14, <1>15,
           <1>16, <1>17, <1>18, <1>19, <1>20, <1>21 DEF Live!Next, Live!end

LEMMA LiveShows == LiveInv => Live!HostKnowsTheViewers /\ Live!PrivateLiveHasNoGuests
  BY DEF LiveInv
-----------------------------------------------------------------------------
(* A call fails only after the reserve has been asked.                       *)

\* A call between two of its steps; where it may still go it has gone, or can go.
CallRecords ==
  [at: {"idle", "cooldown", "waiting", "ready", "posted", "backoff", "answered", "failed"},
   feature: Features \cup {"none"}, provider: {0} \cup Model!Providers,
     fallback: {0} \cup Model!Providers,
   attempt: Nat, body: SUBSET UNSUPPORTED_PARAMS, refused: SUBSET Model!Providers,
   why: {"none", "parameter", "transient", "refused"}]

\* With the reserve as its fallback a call is with the primary provider, which it has not
\* given up, or with the reserve, after the primary one refused it.
OnItsWay(k) ==
  /\ k.at # "idle" => k.provider # 0
  /\ k.at # "idle" /\ k.fallback = Model!Reserve =>
       \/ k.provider = Model!Primary /\ k.at # "failed"
       \/ k.provider = Model!Reserve /\ Model!Primary \in k.refused

CallInv ==
  /\ settings \in [enabled : BOOLEAN, keys : SUBSET Model!Providers,
     fallback : {0} \cup Model!Providers]
  /\ asking \in [Askers -> CallRecords]
  /\ \A c \in Askers : OnItsWay(asking[c])

LEMMA CallInit == Model!Init => CallInv
<1>1. Model!NoCall \in CallRecords /\ OnItsWay(Model!NoCall)
  BY DEF Model!NoCall, CallRecords, OnItsWay, Model!Reserve, Model!Providers
<1> QED BY <1>1 DEF Model!Init, CallInv

\* A step of one caller replaces its call.
LEMMA OneCall ==
  ASSUME CallInv, UNCHANGED settings, NEW c \in Askers, NEW k \in CallRecords, OnItsWay(k),
         asking' = [asking EXCEPT ![c] = k]
  PROVE  CallInv'
  BY DEF CallInv

LEMMA OnTheWay ==
  ASSUME NEW k \in CallRecords, OnItsWay(k), k.at # "idle",
         NEW at \in {"cooldown", "waiting", "ready", "posted", "answered"},
         NEW body \in SUBSET UNSUPPORTED_PARAMS
  PROVE  /\ [k EXCEPT !.at = at] \in CallRecords /\ OnItsWay([k EXCEPT !.at = at])
         /\ [k EXCEPT !.at = at, !.body = body] \in CallRecords
         /\ OnItsWay([k EXCEPT !.at = at, !.body = body])
  BY DEF CallRecords, OnItsWay

\* A provider that fails for a while is asked again.
LEMMA AsksAgain ==
  ASSUME NEW k \in CallRecords, OnItsWay(k), k.at # "idle"
  PROVE  Model!Retry(k) \in CallRecords /\ OnItsWay(Model!Retry(k))
<1>1. k.attempt + 1 \in Nat
  BY DEF CallRecords
<1>2. \A n \in Nat : LET next == [k EXCEPT !.at = "backoff", !.body = {}, !.attempt = n]
                     IN next \in CallRecords /\ OnItsWay(next)
  BY DEF CallRecords, OnItsWay
<1> QED BY <1>1, <1>2 DEF Model!Retry

\* Whom the primary provider fails, the reserve is asked.
LEMMA FallsBack ==
  ASSUME NEW k \in CallRecords, OnItsWay(k), k.at # "idle"
  PROVE  Model!Fallback(k) \in CallRecords /\ OnItsWay(Model!Fallback(k))
<1>1. CASE k.fallback = 0 \/ k.fallback = k.provider
  BY <1>1 DEF Model!Fallback, CallRecords, OnItsWay, Model!Providers, Model!Primary, Model!Reserve
<1>2. CASE ~(k.fallback = 0 \/ k.fallback = k.provider)
  <2> DEFINE next(p, out) == [k EXCEPT !.at = "cooldown", !.provider = p, !.attempt = 0,
                                       !.refused = out]
  <2>1. Model!Fallback(k) = next(k.fallback, k.refused \cup {k.provider})
    BY <1>2 DEF Model!Fallback
  <2>2. k.fallback \in Model!Providers /\ k.refused \cup {k.provider} \in SUBSET Model!Providers
    BY <1>2 DEF CallRecords, OnItsWay
  <2>3. k.fallback = Model!Reserve => k.provider = Model!Primary
    BY <1>2 DEF OnItsWay
  <2>4. \A p \in Model!Providers, out \in SUBSET Model!Providers :
          /\ next(p, out) \in CallRecords /\ next(p, out).fallback = k.fallback
          /\ next(p, out).provider = p /\ next(p, out).refused = out
          /\ next(p, out).at = "cooldown"
    BY DEF CallRecords
  <2>5. 0 \notin Model!Providers
    BY DEF Model!Providers, Model!Primary, Model!Reserve
  <2> HIDE DEF next
  <2> QED BY <1>2, <2>1, <2>2, <2>3, <2>4, <2>5 DEF OnItsWay
<1> QED BY <1>1, <1>2

LEMMA CallStep == CallInv /\ [Model!Next]_Model!vars => CallInv'
<1> SUFFICES ASSUME CallInv, [Model!Next]_Model!vars  PROVE CallInv'
  OBVIOUS
<1>1. CASE UNCHANGED Model!vars \/ Model!CooldownEnds \/ Model!Expire
  BY <1>1 DEF Model!vars, Model!CooldownEnds, Model!Expire, CallInv
<1>2. ASSUME NEW c \in Askers, NEW f \in Features, Model!Ask(c, f)  PROVE CallInv'
  <2> DEFINE k == [Model!NoCall EXCEPT !.at = "cooldown", !.feature = f,
                                 !.provider = Model!Analysis.provider,
                                   !.fallback = Model!Analysis.fallback]
  <2>1. /\ Model!Analysis.provider \in {0} \cup Model!Providers
           /\ Model!Analysis.fallback \in {0} \cup Model!Providers
        /\ Model!Analysis.provider # 0 => Model!Analysis.provider = Model!Primary
    BY DEF Model!Analysis, CallInv, Model!Providers
  <2>2. k \in CallRecords /\ k.provider = Model!Analysis.provider /\ k.at = "cooldown"
    BY <2>1 DEF CallRecords, Model!NoCall
  <2>3. OnItsWay(k)
    BY <1>2, <2>1, <2>2 DEF Model!Ask, OnItsWay
  <2>4. UNCHANGED settings /\ asking' = [asking EXCEPT ![c] = k]
    BY <1>2 DEF Model!Ask
  <2> HIDE DEF k
  <2> QED BY <2>2, <2>3, <2>4, OneCall
<1>3. ASSUME NEW c \in Askers, NEW at \in {"cooldown", "waiting", "ready", "answered"}, Model!At(c, at),
             asking[c].at # "idle", UNCHANGED settings
      PROVE  CallInv'
  <2>1. asking[c] \in CallRecords /\ OnItsWay(asking[c])
    BY DEF CallInv
  <2>2. asking' = [asking EXCEPT ![c] = [asking[c] EXCEPT !.at = at]]
    BY <1>3 DEF Model!At
  <2>3. {} \in SUBSET UNSUPPORTED_PARAMS
    OBVIOUS
  <2> QED BY <1>3, <2>1, <2>2, <2>3, OnTheWay, OneCall
<1>4. ASSUME NEW c \in Askers, NEW why \in {"parameter", "transient", "refused"}, Model!Throw(c, why),
             asking[c].at # "idle", UNCHANGED settings
      PROVE  CallInv'
  <2>1. asking[c] \in CallRecords /\ OnItsWay(asking[c])
    BY DEF CallInv
  <2> DEFINE k == [asking[c] EXCEPT !.why = why, !.body = {}]
  <2>2. k \in CallRecords /\ OnItsWay(k) /\ k.at # "idle"
    BY <1>4, <2>1 DEF CallRecords, OnItsWay
  <2>4. asking' = [asking EXCEPT ![c] = Model!Fallback(k)]
    BY <1>4 DEF Model!Throw
  <2> HIDE DEF k
  <2> QED BY <1>4, <2>2, <2>4, FallsBack, OneCall
<1>5. ASSUME NEW c \in Askers, Model!Step(c)  PROVE CallInv'
  <2>0. asking[c] \in CallRecords /\ OnItsWay(asking[c])
    BY DEF CallInv
  <2>1. CASE Model!WaitEnds(c) \/ Model!Answered(c) \/ Model!BackoffEnds(c)
    BY <2>1, <1>3 DEF Model!WaitEnds, Model!Answered, Model!BackoffEnds
  <2>7. CASE Model!WaitForCooldown(c)
    <3>1. UNCHANGED settings /\ asking[c].at = "cooldown"
          /\ (Model!At(c, "waiting") \/ Model!At(c, "ready"))
      BY <2>7 DEF Model!WaitForCooldown
    <3> QED BY <3>1, <1>3
  <2>2. CASE Model!Post(c)
    <3>1. Model!Body(asking[c].provider) \in SUBSET UNSUPPORTED_PARAMS
      BY DEF Model!Body
    <3>2. asking' = [asking EXCEPT ![c] = [asking[c] EXCEPT !.at = "posted",
                                                      !.body = Model!Body(asking[c].provider)]]
          /\ UNCHANGED settings
      BY <2>2 DEF Model!Post
    <3>3. asking[c].at = "ready"
      BY <2>2 DEF Model!Post
    <3> QED BY <2>0, <3>1, <3>2, <3>3, OnTheWay, OneCall
  <2>3. CASE Model!Learn(c)
    <3>1. UNCHANGED settings /\ asking[c].at = "posted" /\ (Model!Throw(c, "parameter")
            \/ Model!At(c, "ready"))
      BY <2>3 DEF Model!Learn
    <3> QED BY <3>1, <1>3, <1>4
  <2>4. CASE Model!Transient(c)
    <3>1. /\ UNCHANGED settings /\ asking[c].at = "posted"
          /\ Model!Throw(c, "transient") \/ asking' = [asking EXCEPT ![c] = Model!Retry(asking[c])]
      BY <2>4 DEF Model!Transient
    <3> QED BY <2>0, <3>1, <1>4, AsksAgain, OneCall
  <2>5. CASE Model!Refused(c)
    BY <2>5, <1>4 DEF Model!Refused
  <2>6. CASE Model!Return(c)
    <3>1. Model!NoCall \in CallRecords /\ OnItsWay(Model!NoCall)
      BY DEF Model!NoCall, CallRecords, OnItsWay, Model!Reserve, Model!Providers
    <3>2. UNCHANGED settings /\ asking' = [asking EXCEPT ![c] = Model!NoCall]
      BY <2>6 DEF Model!Return
    <3> QED BY <3>1, <3>2, OneCall
  <2> QED BY <1>5, <2>1, <2>2, <2>3, <2>4, <2>5, <2>6, <2>7 DEF Model!Step, Model!Outcome
<1> QED BY <1>1, <1>2, <1>5
        DEF Model!Next, Model!AnalyzeOpponents, Model!AnalyzePlayerProfile, Model!GenerateMatchRecap

LEMMA CallShows == CallInv => Model!TheReserveIsAsked
  BY DEF CallInv, OnItsWay, CallRecords, Model!Providers, Model!TheReserveIsAsked
=============================================================================
