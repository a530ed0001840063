------------------------------ MODULE MCPlatform ------------------------------
(* Platform for TLC: small sets, and the bounds of each component.               *)
EXTENDS Platform

\* A league drafts with up to nine rosters and plays on one to seven days a week.
MCWeekdays == {{}, {0}, {6}, {1, 2}, {0, 3}, {2, 4, 6}, 0..6}

\* A pool of two equals.
MCOverall == [p \in Draftees |-> 70]

\* One tournament of every format, and some whose handlers may be overtaken: with groups, a
\* laboratory, a bracket.
Base == [format |-> "NONE", teamCount |-> 0, groupCount |-> 0, advancePerGroup |-> 0, legs |-> 1,
         thirdPlace |-> FALSE, bestOf |-> 1, allowDraws |-> FALSE, labMode |-> FALSE, stale |-> {}]
Groups == [Base EXCEPT !.format = "GROUPS_KNOCKOUT", !.teamCount = 4, !.groupCount = 2,
                       !.advancePerGroup = 1]
MCSetups == {[Base EXCEPT !.format = "SINGLE_ELIMINATION", !.teamCount = 3],
             [Base EXCEPT !.format = "SINGLE_ELIMINATION", !.teamCount = 5, !.thirdPlace = TRUE],
             [Base EXCEPT !.format = "DOUBLE_ELIMINATION", !.teamCount = 4],
             [Base EXCEPT !.format = "SERIES", !.teamCount = 2, !.bestOf = 3],
             [Base EXCEPT !.format = "ROUND_ROBIN", !.teamCount = 3, !.allowDraws = TRUE],
             [Groups EXCEPT !.allowDraws = TRUE],
             [Groups EXCEPT !.teamCount = 6, !.groupCount = 3],
             [Groups EXCEPT !.labMode = TRUE],
             [Groups EXCEPT !.stale = {"settle", "correct", "replace"}],
             [Groups EXCEPT !.labMode = TRUE, !.stale = {"settle", "build", "rebuild"}],
             [Groups EXCEPT !.labMode = TRUE, !.stale = {"forfeit"}],
             [Base EXCEPT !.format = "SINGLE_ELIMINATION", !.teamCount = 4,
                          !.stale = {"settle", "replace"}]}
MCScores == {<<1, 0>>, <<1, 2>>, <<0, 0>>}

\* By hand with an opponent who confirms, by hand at once, from EA, from an image.
\* Two people at once where their images meet.
Rule(window, confirm, result, auto, present, people) ==
  [window |-> window, confirm |-> confirm, result |-> result, auto |-> auto, present |-> present,
   desks |-> people \cup {"deadlines", "ea"}]
MCRules == {Rule(TRUE, TRUE, "MANUAL", FALSE, FALSE, {"one"}),
            Rule(FALSE, FALSE, "MANUAL", FALSE, FALSE, {"one"}),
            Rule(TRUE, FALSE, "EA_API", FALSE, FALSE, {"one"}),
            Rule(TRUE, FALSE, "AI_IMAGE", TRUE, TRUE, {"one", "two"})}

\* Two squads with a goalkeeper and a defender, one young and one old player.
MCSquads == <<<<"a1", "a2", "a3">>, <<"b1", "b2">>>>
Footballers == {"a1", "a2", "a3", "b1", "b2"}
MCLines == [p \in Footballers |-> CASE p = "a3" -> "GK" [] p = "b2" -> "DEF" [] OTHER -> "MID"]
MCAges  == [p \in Footballers |-> CASE p = "a1" -> 20 [] p = "b1" -> 35 [] OTHER -> 0]
MCQuota == [l \in {"GK", "DEF", "MID", "ATT"} |-> 1]

\* A match of two against two or of one against one, and the requests it has under way at
\* once.  Players by their points; two of a club under one name; who played when.
MCHandlers == <<{1, 2}, {1}>>
MCScore  == <<7, 5, 5, 2>>
MCName   == <<"x", "x", "y">>
MCPlayed == <<{1, 3}, {2, 3}, {1}>>

\* The two limits of the Riot API, in ticks.
MCTokens == [perSecond |-> 1, perTwoMin |-> 2]
MCWindow == [perSecond |-> 1, perTwoMin |-> 3]

\* Two against one, and the first match with ballots; a streak of two wins, a first win.
MCBlue    == <<1, 2>>
MCRed     == <<3>>
MCBallots == <<3, 0>>
MCGoals   == <<[counts |-> "winStreak", asks |-> 2], [counts |-> "wins", asks |-> 1]>>

\* Two rosters, each with its manager.  The two secrets of the media server.
MCManager     == [A |-> 1, B |-> 2]
MCCredentials == <<"apiKey", "apiSecret">>

=============================================================================
