--------------------------------- MODULE Streaming --------------------------------
(* One live of the streaming service: streaming/streaming.service.ts.  The room     *)
(* lives in memory, the row in the database brings it back after a restart, and the *)
(* event channel of each page (its SSE connection) is what tells who is there.      *)
EXTENDS Integers, FiniteSets

CONSTANTS MaxPeers,     \* bound on peers, numbered as they join; a page that comes back is a new one
          MaxGrants,    \* bound on tickets and media grants asked for (and two channels a page)
          MaxRestarts

VARIABLES
  row,        \* the live in the database: none, or [broadcasting, visibility]
  live,       \* none, or [broadcasting, visibility, host, missing, telemetry] in memory
  peers,      \* [peer -> [who, attached, conns, stale]]
  joined,     \* peers so far
  told,       \* the viewers the host's page has been told of, what waits for it included
  tickets,    \* peers with a ticket not yet used
  closing,    \* the host made the live private and its guests are still to be sent away
  granted, restarts

vars == <<row, live, peers, joined, told, tickets, closing, granted, restarts>>

Gone == [none |-> TRUE]
None == 0
Open == live # Gone
InRoom == DOMAIN peers
Viewers(ps, host)  == {p \in DOMAIN ps : p # host /\ ps[p].attached}
GuestsIn(ps) == {p \in DOMAIN ps : ps[p].who = "guest"}
NewPeer(who) == [who |-> who, attached |-> FALSE, conns |-> 0, stale |-> FALSE]
Dropped(ps, out) == [p \in DOMAIN ps \ out |-> ps[p]]

\* missing: the host is there, is missing, or has been for longer than the grace.
NewLive(broadcasting, visibility) ==
  [broadcasting |-> broadcasting, visibility |-> visibility, host |-> None, missing |-> "now",
   telemetry |-> "none"]

\* dropPeer for each of `out`, none of them the host's: the host is told.
Drop(ps, out) == peers' = Dropped(ps, out) /\ told' = told \ out

Counters == UNCHANGED <<granted, restarts>>
-----------------------------------------------------------------------------
(* The life of the live                                                          *)
create(visibility) ==
  /\ ~Open /\ row = Gone
  /\ row' = [broadcasting |-> FALSE, visibility |-> visibility]
  /\ live' = NewLive(FALSE, visibility)
  /\ UNCHANGED <<peers, joined, told, tickets, closing>> /\ Counters

start ==
  /\ Open /\ ~live.broadcasting
  /\ live' = [live EXCEPT !.broadcasting = TRUE]
  /\ row' = [row EXCEPT !.broadcasting = TRUE]
  /\ UNCHANGED <<peers, joined, told, tickets, closing>> /\ Counters

\* destroy: everybody is told it is over; the row goes later, if the server lives.
destroy ==
  /\ live' = Gone /\ peers' = <<>> /\ told' = {} /\ closing' = FALSE
  /\ UNCHANGED <<row, joined, tickets>> /\ Counters

deleteRow ==
  /\ ~Open /\ row # Gone /\ row' = Gone
  /\ UNCHANGED <<live, peers, joined, told, tickets, closing>> /\ Counters

end == Open /\ destroy

\* updateVisibility answers when the database has it; only then guests are sent away.
updateVisibility(visibility) ==
  /\ Open /\ live.visibility # visibility
  /\ live' = [live EXCEPT !.visibility = visibility]
  /\ row' = [row EXCEPT !.visibility = visibility]
  /\ closing' = (closing \/ visibility = "MEMBERS")
  /\ UNCHANGED <<peers, joined, told, tickets>> /\ Counters

sendGuestsAway ==
  /\ Open /\ closing /\ closing' = FALSE
  /\ Drop(peers, GuestsIn(peers))
  /\ UNCHANGED <<row, live, joined, tickets>> /\ Counters

reportTelemetry ==
  /\ Open /\ live.telemetry # "fresh"
  /\ live' = [live EXCEPT !.telemetry = "fresh"]
  /\ UNCHANGED <<row, peers, joined, told, tickets, closing>> /\ Counters

\* The server goes down and onModuleInit brings back what the database has.
Restart ==
  /\ restarts < MaxRestarts /\ restarts' = restarts + 1
  /\ peers' = <<>> /\ told' = {} /\ tickets' = {} /\ closing' = FALSE
  /\ live' = IF row = Gone THEN Gone ELSE NewLive(row.broadcasting, row.visibility)
  /\ UNCHANGED <<row, joined, granted>>
-----------------------------------------------------------------------------
(* Coming and going                                                              *)
Admit(ps, who) ==
  [p \in DOMAIN ps \cup {joined + 1} |-> IF p = joined + 1 THEN NewPeer(who) ELSE ps[p]]

\* join as the host: the page before gives way, the answer lists the viewers there are.
joinHost ==
  /\ Open /\ joined < MaxPeers /\ joined' = joined + 1
  /\ peers' = Admit(Dropped(peers, {live.host}), "host")
  /\ live' = [live EXCEPT !.host = joined + 1, !.missing = "no"]
  /\ told' = Viewers(peers, live.host)
  /\ UNCHANGED <<row, tickets, closing>> /\ Counters

\* join as a member: one viewer per user.
joinViewer ==
  /\ Open /\ joined < MaxPeers /\ joined' = joined + 1
  /\ LET older == {p \in InRoom : peers[p].who = "member"}
     IN peers' = Admit(Dropped(peers, older), "member") /\ told' = told \ older
  /\ UNCHANGED <<row, live, tickets, closing>> /\ Counters

Public == live.broadcasting /\ live.visibility = "PUBLIC"

\* Mutant: whoever has the link gets in.
joinPublicUnasked(sameTab) ==
  /\ Open /\ joined < MaxPeers /\ joined' = joined + 1
  /\ LET older == IF sameTab THEN GuestsIn(peers) ELSE {}
     IN peers' = Admit(Dropped(peers, older), "guest") /\ told' = told \ older
  /\ UNCHANGED <<row, live, tickets, closing>> /\ Counters

joinPublic(sameTab) ==
  /\ Open /\ Public /\ joined < MaxPeers /\ joined' = joined + 1
  /\ LET older == IF sameTab THEN GuestsIn(peers) ELSE {}
     IN peers' = Admit(Dropped(peers, older), "guest") /\ told' = told \ older
  /\ UNCHANGED <<row, live, tickets, closing>> /\ Counters

\* leave and leavePublic: the host may come back within the grace.
leave(p) ==
  /\ Open /\ p \in InRoom
  /\ IF p = live.host
     THEN /\ peers' = Dropped(peers, {p}) /\ told' = {}
          /\ live' = [live EXCEPT !.host = None, !.missing = "now"]
     ELSE Drop(peers, {p}) /\ UNCHANGED live
  /\ UNCHANGED <<row, joined, tickets, closing>> /\ Counters
-----------------------------------------------------------------------------
(* The event channel                                                             *)

\* createTicket, createPublicTicket
createTicket(p) ==
  /\ Open /\ p \in InRoom \ tickets /\ granted < MaxGrants
  /\ peers[p].who = "guest" => Public
  /\ tickets' = tickets \cup {p} /\ granted' = granted + 1
  /\ UNCHANGED <<row, live, peers, joined, told, closing, restarts>>

ticketExpires(p) ==
  /\ p \in tickets /\ tickets' = tickets \ {p}
  /\ UNCHANGED <<row, live, peers, joined, told, closing>> /\ Counters

\* consumeTicket, attach, activate and announce: the page that opens its channel is seen;
\* the host is told of it, or hears of all who are there.
events(p) ==
  /\ p \in tickets /\ tickets' = tickets \ {p}
  /\ IF Open /\ p \in InRoom
     THEN /\ peers[p].conns < 2
          /\ peers' = [peers EXCEPT ![p].attached = TRUE, ![p].conns = @ + 1, ![p].stale = FALSE]
          /\ told' = IF live.host = None THEN told
                     ELSE IF p = live.host THEN told \cup Viewers(peers, p) ELSE told \cup {p}
     ELSE UNCHANGED <<peers, told>>
  /\ UNCHANGED <<row, live, joined, closing>> /\ Counters

\* Mutant: a viewer that only closes the page is not reported.
detachSilently(p) ==
  /\ Open /\ p \in InRoom /\ peers[p].conns > 0
  /\ peers' = [peers EXCEPT ![p].attached = FALSE, ![p].conns = @ - 1, ![p].stale = FALSE]
  /\ live' = IF p = live.host THEN [live EXCEPT !.missing = "now"] ELSE live
  /\ UNCHANGED <<row, joined, told, tickets, closing>> /\ Counters

\* detach: a channel closes, maybe after the one that replaced it was opened.
detach(p) ==
  /\ Open /\ p \in InRoom /\ peers[p].conns > 0
  /\ peers' = [peers EXCEPT ![p].attached = FALSE, ![p].conns = @ - 1, ![p].stale = FALSE]
  /\ live' = IF p = live.host THEN [live EXCEPT !.missing = "now"] ELSE live
  /\ told' = IF p = live.host THEN told ELSE told \ {p}
  /\ UNCHANGED <<row, joined, tickets, closing>> /\ Counters

\* rtcGrant, publicRtcGrant: asking for the media keeps a peer that lost its channel.
rtcGrant(p) ==
  /\ Open /\ p \in InRoom /\ peers[p].stale /\ granted < MaxGrants
  /\ peers[p].who = "guest" => Public
  /\ peers' = [peers EXCEPT ![p].stale = FALSE] /\ granted' = granted + 1
  /\ UNCHANGED <<row, live, joined, told, tickets, closing, restarts>>
-----------------------------------------------------------------------------
(* The clock                                                                     *)
TimePasses ==
  /\ Open
  /\ peers' = [p \in InRoom |-> [peers[p] EXCEPT !.stale = ~peers[p].attached]]
  /\ live' = [live EXCEPT !.missing = IF @ = "now" THEN "long" ELSE @,
                          !.telemetry = IF @ = "fresh" THEN "old" ELSE @]
  /\ <<peers, live>>' # <<peers, live>>
  /\ UNCHANGED <<row, joined, told, tickets, closing>> /\ Counters

Stale == {p \in InRoom : ~peers[p].attached /\ peers[p].stale}

\* cleanup: a live without its host, or whose host reports nothing, ends; viewers that
\* never opened their channel go.
cleanup ==
  /\ Open
  /\ LET NeverConnected == live.host = None /\ live.missing = "long"
         Idle == live.broadcasting /\ live.telemetry = "old"
     IN IF NeverConnected \/ Idle \/ live.host \in Stale
        THEN destroy
        ELSE /\ Stale # {} /\ Drop(peers, Stale)
             /\ UNCHANGED <<row, live, joined, tickets, closing>> /\ Counters
-----------------------------------------------------------------------------
Ids == 1 .. MaxPeers

Init ==
  /\ row = Gone /\ live = Gone /\ peers = <<>> /\ joined = 0 /\ told = {} /\ tickets = {}
  /\ closing = FALSE /\ granted = 0 /\ restarts = 0

Next ==
  \/ \E v \in {"MEMBERS", "PUBLIC"} : create(v)
  \/ start
  \/ end
  \/ deleteRow
  \/ \E v \in {"MEMBERS", "PUBLIC"} : updateVisibility(v)
  \/ sendGuestsAway
  \/ reportTelemetry
  \/ Restart
  \/ joinHost
  \/ joinViewer
  \/ \E sameTab \in BOOLEAN : joinPublic(sameTab)
  \/ \E p \in Ids : leave(p)
  \/ \E p \in Ids : createTicket(p)
  \/ \E p \in Ids : ticketExpires(p)
  \/ \E p \in Ids : events(p)
  \/ \E p \in Ids : detach(p)
  \/ \E p \in Ids : rtcGrant(p)
  \/ TimePasses
  \/ cleanup

\* The server's clock goes on and cleanup runs every five seconds.
Fairness == WF_vars(TimePasses) /\ WF_vars(cleanup)
Spec == Init /\ [][Next]_vars /\ Fairness
-----------------------------------------------------------------------------
(* Properties                                                                    *)

HostIsConnected == Open /\ live.host \in InRoom /\ peers[live.host].conns > 0

\* The host's page knows who watches: it has been told of exactly the viewers the service
\* counts, whatever pages were refreshed, replaced or dropped on either side.
HostKnowsTheViewers == Open /\ live.host # None => told = Viewers(peers, live.host)

\* Nobody without a session stays in a private live once its change has been answered.
PrivateLiveHasNoGuests == Open /\ live.visibility = "MEMBERS" /\ ~closing => GuestsIn(peers) = {}

\* A live whose host is not connected is taken off the air or taken up again, across
\* restarts (MCJourneys, DeadlinesAreKept).
Abandoned == Open /\ ~HostIsConnected
=============================================================================
