---------------------------- MODULE OfflineMatch ----------------------------
(***************************************************************************)
(* A match that lives in the memory of the Discord bot and is nobody's     *)
(* statistics: discord/interactions/offline-match.interaction.ts over      *)
(* services/match-state.service.ts.  A handler is atomic between two       *)
(* awaits; the ones that write after an await are split in two, and what   *)
(* they had read waits with them.  Which voice channel somebody is in is   *)
(* left out: of a player only whether his channel is remembered.           *)
(***************************************************************************)
EXTENDS Integers, Sequences, FiniteSets, SequencesExt, FiniteSetsExt

CONSTANTS Users,
          Formats,       \* among Aleatorio, Livre, Balanceado, Completo
          playersPerTeam,
          MaxWaiting     \* bound: handlers in an await at once

VARIABLES match,         \* the match of a message, or NoMatch
          channels,      \* whether the server has the channels of the matches
          waiting        \* the handlers in an await, with what they had read

vars == <<match, channels, waiting>>

NoMatch == [confirmed |-> <<>>, on |-> FALSE]
maxPlayers == 2 * playersPerTeam

Init == match = NoMatch /\ channels \in BOOLEAN /\ waiting = {}

Awaits(handler) == Cardinality(waiting) < MaxWaiting /\ waiting' = waiting \cup {handler}
Resumes(handler, kind) == handler.kind = kind /\ waiting' = waiting \ {handler}

\* MatchStateService.update: nothing happens to a match that is no more.
update(new) == match' = IF match.on THEN new ELSE match
-----------------------------------------------------------------------------
(* Creation.                                                               *)

\* The channels that are missing are created if the creator says so.
createChannels == /\ ~channels /\ channels' = TRUE
                  /\ UNCHANGED <<match, waiting>>

\* Lanes are drawn only for five against five.
onCriarPartida(format) == channels /\ ~match.on /\ (format = "Completo" => playersPerTeam = 5)

\* A match to try things out is full from the start, its channels unknown.
createOfflineMatch ==
  \E format \in Formats, debug \in BOOLEAN :
    /\ onCriarPartida(format)
    /\ \E initial \in IF debug THEN {SetToSeq(s) : s \in kSubset(maxPlayers, Users)}
                               ELSE {<<>>} :
         match' = [format |-> format, debug |-> debug, confirmed |-> initial, original |-> {},
                   blue |-> {}, red |-> {}, started |-> FALSE, finished |-> FALSE, on |-> TRUE]
    /\ UNCHANGED <<channels, waiting>>
-----------------------------------------------------------------------------
(* Buttons.                                                                *)

onJoin(u) ==
  /\ match.on /\ ~match.started /\ ~match.finished
  /\ u \notin ToSet(match.confirmed) /\ Len(match.confirmed) < maxPlayers
  /\ update([match EXCEPT !.confirmed = Append(@, u), !.original = @ \cup {u}])
  /\ UNCHANGED <<channels, waiting>>

\* Nobody is in it twice: he is filtered out where he stands.
Without(list, u) == RemoveAt(list, CHOOSE i \in DOMAIN list : list[i] = u)

\* He goes back to his channel before the list is written.
onLeave(u) ==
  /\ match.on /\ ~match.started /\ u \in ToSet(match.confirmed)
  /\ Awaits([kind |-> "leave", confirmed |-> Without(match.confirmed, u),
             original |-> match.original \ {u}])
  /\ UNCHANGED <<match, channels>>

\* Mutant: the list loses him and keeps whose channel is remembered.
onLeaveMovedKeepsChannel(h) ==
  /\ Resumes(h, "leave")
  /\ update([match EXCEPT !.confirmed = h.confirmed])
  /\ UNCHANGED channels

\* What was read before the await is written after it: who came meanwhile is lost,
\* who left meanwhile is back.
onLeaveMoved(h) ==
  /\ Resumes(h, "leave")
  /\ update([match EXCEPT !.confirmed = h.confirmed, !.original = h.original])
  /\ UNCHANGED channels

\* Half of the list, the smaller one, is blue.
drawTeams(list) ==
  {<<blue, ToSet(list) \ blue>> : blue \in kSubset(Len(list) \div 2, ToSet(list))}

\* To the lighter team that has room; any order and any scores are possible.
balancedSplitByDiscordIds(list) ==
  {<<blue, ToSet(list) \ blue>> :
     blue \in {s \in SUBSET ToSet(list) : /\ Cardinality(s) <= playersPerTeam
                                          /\ Len(list) - Cardinality(s) <= playersPerTeam
                                          /\ list # <<>> => s # {}}}

Drawn(teams) == update([match EXCEPT !.blue = teams[1], !.red = teams[2]])

\* A balanced draw awaits the ranking of the server.
onDraw ==
  /\ match.on /\ ~match.started
  /\ \/ /\ match.format # "Balanceado"
        /\ \E teams \in drawTeams(match.confirmed) : Drawn(teams)
        /\ UNCHANGED waiting
     \/ /\ match.format = "Balanceado"
        /\ Awaits([kind |-> "draw", confirmed |-> match.confirmed])
        /\ UNCHANGED match
  /\ UNCHANGED channels

onDrawRanked(h) ==
  /\ Resumes(h, "draw")
  /\ \E teams \in balancedSplitByDiscordIds(h.confirmed) : Drawn(teams)
  /\ UNCHANGED channels

\* Only the length of the list and that there is a blue team are looked at.
onStart ==
  LET list == match.confirmed IN
  /\ match.on /\ ~match.started /\ Len(list) >= maxPlayers
  /\ \/ /\ match.format = "Livre"
        /\ update([match EXCEPT !.started = TRUE,
             !.blue = ToSet(SubSeq(list, 1, playersPerTeam)),
             !.red = ToSet(SubSeq(list, playersPerTeam + 1, maxPlayers))])
     \/ /\ match.format # "Livre" /\ match.blue # {}
        /\ update([match EXCEPT !.started = TRUE])
  /\ UNCHANGED <<channels, waiting>>

\* Everybody is brought back one by one, then the match is over.
onFinish ==
  /\ match.on /\ match.started /\ ~match.finished
  /\ Awaits([kind |-> "finish"])
  /\ UNCHANGED <<match, channels>>

onFinishMoved(h) ==
  /\ Resumes(h, "finish")
  /\ update([match EXCEPT !.finished = TRUE])
  /\ UNCHANGED channels

\* The process starts again: nothing of a match is kept.
Restart == match.on /\ match' = NoMatch /\ waiting' = {} /\ UNCHANGED channels

Next == \/ createChannels \/ createOfflineMatch \/ onDraw \/ onStart \/ onFinish \/ Restart
        \/ \E u \in Users : onJoin(u) \/ onLeave(u)
        \/ \E h \in waiting : onLeaveMoved(h) \/ onDrawRanked(h) \/ onFinishMoved(h)
-----------------------------------------------------------------------------
(* Properties.                                                             *)

\* However the buttons of a message overtake each other, its lists stay lists a match
\* can be played from: nobody twice, no more than fit, nobody in both teams, and the
\* channel remembered of exactly those in the list, so that finishing brings back
\* neither a stranger nor too few of them.
ListsStaySound ==
  match.on =>
    /\ IsInjective(match.confirmed) /\ Len(match.confirmed) <= maxPlayers
    /\ match.blue \cap match.red = {}
    /\ \A team \in {match.blue, match.red} : Cardinality(team) <= playersPerTeam
    /\ IF match.debug THEN match.original \subseteq ToSet(match.confirmed)
                      ELSE match.original = ToSet(match.confirmed)
=============================================================================
