--------------------------- MODULE ServerRanking ----------------------------
(***************************************************************************)
(* The ranking of a server (leaderboard/leaderboard.service.ts), kept for  *)
(* five minutes, and its seasons (engagement/season.service.ts), which     *)
(* the command /temporada closes with the three first of the ranking.      *)
(* Several such commands may be under way: each reads the season it counts *)
(* for, later the season it closes, later the last number, and writes.     *)
(* A date is the number of seasons that had been opened by then, a ranking *)
(* is the set of matches it was computed from.                             *)
(***************************************************************************)
EXTENDS Integers, Sequences, FiniteSets

CONSTANTS MaxMatches, MaxSeasons, Clients, Admins

VARIABLES seasons,      \* in order: ended, whose ranking closed it, whether crossed
          matches,      \* the matches: the date of their creation, whether finished
          cache,        \* start of the season -> the ranking kept, or Nothing
          reading,      \* client -> a ranking he is asking for
          closing,      \* administrator -> the /temporada he is running
          overlapped    \* two of them have been under way at once

vars == <<seasons, matches, cache, reading, closing, overlapped>>

Nothing == {0}          \* no ranking: matches are counted from 1
AllTime == 0            \* the start when no season is open

NoReading == [step |-> "none", start |-> 0, data |-> Nothing]
NoClosing == [step |-> "none", read |-> 0, top |-> Nothing, season |-> 0, last |-> 0]

Init == /\ seasons = <<>> /\ matches = <<>>
        /\ cache = [start \in 0 .. MaxSeasons |-> Nothing]
        /\ reading = [c \in Clients \cup Admins |-> NoReading]
        /\ closing = [a \in Admins |-> NoClosing] /\ overlapped = FALSE
-----------------------------------------------------------------------------
(* Custom matches.                                                         *)

create == /\ Len(matches) < MaxMatches
          /\ matches' = Append(matches, [date |-> Len(seasons), finished |-> FALSE])
          /\ UNCHANGED <<seasons, cache, reading, closing, overlapped>>

finish == \E m \in DOMAIN matches :
            /\ ~matches[m].finished
            /\ matches' = [matches EXCEPT ![m].finished = TRUE]
            /\ UNCHANGED <<seasons, cache, reading, closing, overlapped>>
-----------------------------------------------------------------------------
(* The ranking.                                                            *)

Open == {k \in DOMAIN seasons : ~seasons[k].ended}

\* The last season still open; without one the ranking counts every match.
getActiveSeasonStart ==
  IF Open = {} THEN AllTime ELSE CHOOSE k \in Open : \A j \in Open : j <= k

\* Mutant: one ranking for the server, whatever the season.
OneKey(start) == AllTime

\* The key of the cache: the season is part of it.
cacheKey(start) == start

\* What the query counts: the finished matches created since the season began.
Counted(start) == {m \in DOMAIN matches : matches[m].finished /\ matches[m].date >= start}

\* The season is read first, then the cache, then the matches.
getLeaderboardForServer(c) ==
  /\ reading[c].step = "none" /\ c \in Clients
  /\ reading' = [reading EXCEPT ![c] = [step |-> "cache", start |-> getActiveSeasonStart,
                                        data |-> Nothing]]
  /\ UNCHANGED <<seasons, matches, cache, closing, overlapped>>

fromCache(c) ==
  /\ reading[c].step = "cache"
  /\ LET kept == cache[cacheKey(reading[c].start)] IN
     reading' = [reading EXCEPT ![c].step = IF kept = Nothing THEN "query" ELSE "done",
                                ![c].data = kept]
  /\ UNCHANGED <<seasons, matches, cache, closing, overlapped>>

Query(c) ==
  /\ reading[c].step = "query"
  /\ reading' = [reading EXCEPT ![c].step = "keep", ![c].data = Counted(reading[c].start)]
  /\ UNCHANGED <<seasons, matches, cache, closing, overlapped>>

toCache(c) ==
  /\ reading[c].step = "keep"
  /\ cache' = [cache EXCEPT ![cacheKey(reading[c].start)] = reading[c].data]
  /\ reading' = [reading EXCEPT ![c].step = "done"]
  /\ UNCHANGED <<seasons, matches, closing, overlapped>>

Answered(c) ==
  /\ reading[c].step = "done" /\ c \in Clients
  /\ reading' = [reading EXCEPT ![c] = NoReading]
  /\ UNCHANGED <<seasons, matches, cache, closing, overlapped>>

\* Five minutes later, or after an MVP was written (invalidateServer).
Expire ==
  /\ \/ \E start \in DOMAIN cache : /\ cache[start] # Nothing
                                    /\ cache' = [cache EXCEPT ![start] = Nothing]
     \/ cache' = [start \in DOMAIN cache |-> Nothing] /\ cache' # cache
  /\ UNCHANGED <<seasons, matches, reading, closing, overlapped>>
-----------------------------------------------------------------------------
(* /temporada: the ranking, the closing, the next season, the forgetting.  *)

onTemporada(a) ==
  /\ closing[a].step = "none" /\ Len(seasons) < MaxSeasons
  /\ closing' = [closing EXCEPT ![a] = [NoClosing EXCEPT !.step = "ranking",
                                                         !.read = getActiveSeasonStart]]
  /\ reading' = [reading EXCEPT ![a] = [step |-> "cache", data |-> Nothing,
                                        start |-> getActiveSeasonStart]]
  /\ overlapped' = (overlapped \/ \E b \in Admins : closing[b].step # "none")
  /\ UNCHANGED <<seasons, matches, cache>>

\* closeAndStartNext reads the active season again.
getActive(a) ==
  /\ closing[a].step = "ranking" /\ reading[a].step = "done"
  /\ closing' = [closing EXCEPT ![a] = IF Open = {} THEN [NoClosing EXCEPT !.step = "last"]
                ELSE [step |-> "close", read |-> @.read, top |-> reading[a].data,
                      season |-> getActiveSeasonStart, last |-> Len(seasons)]]
  /\ reading' = [reading EXCEPT ![a] = NoReading]
  /\ UNCHANGED <<seasons, matches, cache, overlapped>>

\* It is closed by its id, whoever else has closed it meanwhile.  It is crossed when the
\* ranking is of another season, or it was not the last one any more.
closeActive(a) ==
  /\ closing[a].step = "close"
  /\ LET c == closing[a] IN
     seasons' = [seasons EXCEPT ![c.season] =
                   [ended |-> TRUE, champions |-> c.top,
                    crossed |-> c.read # c.season \/ c.last # c.season]]
  /\ closing' = [closing EXCEPT ![a] = [NoClosing EXCEPT !.step = "last"]]
  /\ UNCHANGED <<matches, cache, reading, overlapped>>

lastSeason(a) ==
  /\ closing[a].step = "last"
  /\ closing' = [closing EXCEPT ![a].step = "open", ![a].last = Len(seasons)]
  /\ UNCHANGED <<seasons, matches, cache, reading, overlapped>>

\* The next number after the last: the season begins now, unless it has that number already.
startNext(a) ==
  /\ closing[a].step = "open" /\ Len(seasons) < MaxSeasons
  /\ IF closing[a].last = Len(seasons)
     THEN /\ seasons' = Append(seasons, [ended |-> FALSE, champions |-> Nothing, crossed |-> FALSE])
          /\ closing' = [closing EXCEPT ![a] = [NoClosing EXCEPT !.step = "forget"]]
     ELSE closing' = [closing EXCEPT ![a] = NoClosing] /\ UNCHANGED seasons
  /\ UNCHANGED <<matches, cache, reading, overlapped>>

invalidateServer(a) ==
  /\ closing[a].step = "forget"
  /\ cache' = [start \in DOMAIN cache |-> Nothing]
  /\ closing' = [closing EXCEPT ![a] = NoClosing]
  /\ UNCHANGED <<seasons, matches, reading, overlapped>>

\* The process restarts: the cache and what was under way are gone; a season may
\* be closed with no next one open.
Restart ==
  /\ cache' = [start \in DOMAIN cache |-> Nothing]
  /\ reading' = [c \in DOMAIN reading |-> NoReading]
  /\ closing' = [a \in Admins |-> NoClosing]
  /\ UNCHANGED <<seasons, matches, overlapped>>

Reader(c) == fromCache(c) \/ Query(c) \/ toCache(c) \/ Answered(c)

Next == \/ create \/ finish \/ Expire \/ Restart
        \/ \E a \in Admins : onTemporada(a) \/ getActive(a) \/ closeActive(a) \/ lastSeason(a)
        \/ \E a \in Admins : startNext(a) \/ invalidateServer(a)
        \/ \E c \in Clients : getLeaderboardForServer(c)
        \/ \E c \in DOMAIN reading : Reader(c)
-----------------------------------------------------------------------------
(* Properties.                                                             *)

\* A season closed with the ranking that was read for it, while it was the last one, has
\* champions from matches of that season alone, although the ranking may be minutes old and
\* computed by somebody else; and only administrators who close at once can close one with
\* the ranking of another (H36).
ChampionsAreOfTheirSeason ==
  \A k \in DOMAIN seasons :
    /\ seasons[k].crossed => overlapped
    /\ seasons[k].champions # Nothing /\ ~seasons[k].crossed =>
         \A m \in seasons[k].champions : matches[m].finished /\ matches[m].date = k
=============================================================================
