--------------------------------- MODULE EaClubSync -------------------------------
(* The synchronisation of a club with EA: ea-fc-clubs/ea-fc-clubs.service.ts.  A    *)
(* player is known by the id EA gives with a match, by name alone when a match has  *)
(* none, and by name again in the club's totals; the rows have to come together.    *)
EXTENDS Naturals, FiniteSets

CONSTANTS Syncs,      \* synchronisations that may be under way at once
          People, Name,                \* players and [People -> the name EA shows]
          Matches, Played,             \* matches and [Matches -> who played for the club]
          Anonymous                    \* the matches that come without player ids

VARIABLES imported,   \* externalMatchId of the matches stored
          rows,       \* eaClubPlayer: [identityKey; playerName; totals: EA's totals are on it;
                      \*  first: the key it was created with, which stands for its id]
          desk        \* [sync -> step, matches to import, rows read]

vars == <<imported, rows, desk>>

Idle == [step |-> "idle", todo |-> {}, seen |-> {}]
Known(p)        == <<"ea", p>>
ByTotals(n)     == <<"clubstats", n>>
Unnamed(m, n)   == <<"anonymous", m, n>>
KeyIn(m, p)     == IF m \in Anonymous THEN Unnamed(m, Name[p]) ELSE Known(p)
Row(key, n, t)  == [identityKey |-> key, playerName |-> n, first |-> key, totals |-> t]
Keys(rs)        == {r.identityKey : r \in rs}
-----------------------------------------------------------------------------
\* What is there of the matches EA has just given is read once, at the start.
sync(s, recent) ==
  /\ desk[s] = Idle
  /\ desk' = [desk EXCEPT ![s] = [Idle EXCEPT !.step = "import", !.todo = recent \ imported]]
  /\ UNCHANGED <<imported, rows>>

\* Those of match m who have no row yet, by the key it gives them.
NewIn(rs, m) == {p \in Played[m] : KeyIn(m, p) \notin Keys(rs)}

\* Mutant: the totals' row is not looked for.
playersOfNew(rs, m) == {rs \cup {Row(KeyIn(m, p), Name[p], FALSE) : p \in NewIn(rs, m)}}

\* The rows of the totals whose name a player with an id now bears.
TakenOver(rs, m) == {r \in rs : /\ m \notin Anonymous
                                /\ \E p \in NewIn(rs, m) : r.identityKey = ByTotals(Name[p])}

\* Who takes them over, the first of his name in the match.
Heirs(rs, m) == {h \in [TakenOver(rs, m) -> NewIn(rs, m)] :
                   \A r \in TakenOver(rs, m) : r.identityKey = ByTotals(Name[h[r]])}

\* What the rows may be after the players of match m: each found by his key, heir of the
\* totals' row of his name, or new.
playersOf(rs, m) ==
  {(rs \ TakenOver(rs, m))
   \cup {[r EXCEPT !.identityKey = Known(h[r]), !.playerName = Name[h[r]]] : r \in TakenOver(rs, m)}
   \cup {Row(KeyIn(m, p), Name[p], FALSE) : p \in {q \in NewIn(rs, m) : \A r \in TakenOver(rs, m) : h[r] # q}}
   : h \in Heirs(rs, m)}

\* importMatch, a transaction: the match with the row of each of its players.
importMatch(s, m) ==
  /\ desk[s].step = "import" /\ m \in desk[s].todo
  /\ desk' = [desk EXCEPT ![s].todo = @ \ {m}]
  /\ imported' = imported \cup {m}
  /\ rows' \in IF m \in imported THEN {rows} ELSE playersOf(rows, m)

\* A match that cannot be stored, or the server going down, leaves it to the next time.
importFails(s, m) ==
  /\ desk[s].step = "import" /\ m \in desk[s].todo
  /\ desk' = [desk EXCEPT ![s].todo = @ \ {m}]
  /\ UNCHANGED <<imported, rows>>

Restart(s) ==
  /\ desk[s] # Idle /\ desk' = [desk EXCEPT ![s] = Idle]
  /\ UNCHANGED <<imported, rows>>

\* refreshEaCareerTotals: the rows are read when EA has answered ...
readRows(s) ==
  /\ desk[s].step = "import" /\ desk[s].todo = {}
  /\ desk' = [desk EXCEPT ![s] = [step |-> "totals", todo |-> {}, seen |-> rows]]
  /\ UNCHANGED <<imported, rows>>

\* ... and the totals of a name are written on its only row, whatever its key; a name that has
\* none gets one, two rows of a name are left alone.
refreshEaCareerTotals(s, members) ==
  /\ desk[s].step = "totals" /\ desk' = [desk EXCEPT ![s] = Idle]
  /\ LET Of(n)   == {r \in desk[s].seen : r.playerName = n}
         names   == {Name[p] : p \in members}
         only    == {r \in desk[s].seen : r.playerName \in names /\ Of(r.playerName) = {r}}
         missing == {n \in names : Of(n) = {} /\ ByTotals(n) \notin Keys(rows)}
     IN rows' = {[r EXCEPT !.totals = @ \/ \E o \in only : o.first = r.first] : r \in rows}
                \cup {Row(ByTotals(n), n, TRUE) : n \in missing}
  /\ UNCHANGED imported
-----------------------------------------------------------------------------
Init == /\ imported = {} /\ rows = {}
        /\ desk = [s \in Syncs |-> Idle]

Next ==
  \/ \E s \in Syncs, recent \in SUBSET Matches : sync(s, recent)
  \/ \E s \in Syncs, m \in Matches : importMatch(s, m)
  \/ \E s \in Syncs, m \in Matches : importFails(s, m)
  \/ \E s \in Syncs : Restart(s)
  \/ \E s \in Syncs : readRows(s)
  \/ \E s \in Syncs, members \in SUBSET People : refreshEaCareerTotals(s, members)
-----------------------------------------------------------------------------
(* Properties                                                                    *)

\* The totals of a name are on one row of it, in whatever order matches and totals came,
\* failed and were taken again; and they are kept apart from a player of that name who is
\* known by id only where a match without ids was stored, whose row was the only one of the
\* name when the totals came.
TotalsMeetTheirPlayer ==
  \A r \in rows : r.totals =>
    /\ \A t \in rows : t.totals /\ t.playerName = r.playerName => t = r
    /\ (\E p \in People : Name[p] = r.playerName /\ Known(p) \in Keys(rows)) =>
         \/ \E p \in People : r.identityKey = Known(p)
         \/ \E m \in imported \cap Anonymous : r.identityKey = Unnamed(m, r.playerName)
=============================================================================
