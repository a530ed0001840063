---------------------------- MODULE EventAnswers ----------------------------
(***************************************************************************)
(* Who goes to an event announced on Discord                               *)
(* (discord/interactions/event.interaction.ts): kept in memory and, after  *)
(* every change, in a file that is read when the process starts            *)
(* (discord/services/event-state.service.ts).                              *)
(***************************************************************************)
EXTENDS FiniteSets, Integers

CONSTANTS Guests, Messages

VARIABLES events,        \* message -> its event, or NoEvent
          file           \* the same, as last saved

vars == <<events, file>>

NoEvent == [going |-> {}, notGoing |-> {}, on |-> FALSE]

Init == events = [m \in Messages |-> NoEvent] /\ file = events

\* All events are written; a write that fails is only logged.
save == file' = events' \/ UNCHANGED file

upsert(m, entry) == events' = [events EXCEPT ![m] = entry] /\ save

onEventModal == \E m \in Messages : ~events[m].on /\ upsert(m, [going |-> {}, notGoing |-> {}, on |-> TRUE])

onVou(m, u) ==
  /\ events[m].on /\ u \notin events[m].going
  /\ upsert(m, [going |-> events[m].going \cup {u}, notGoing |-> events[m].notGoing \ {u}, on |-> TRUE])

onNaoVou(m, u) ==
  /\ events[m].on /\ u \notin events[m].notGoing
  /\ upsert(m, [going |-> events[m].going \ {u}, notGoing |-> events[m].notGoing \cup {u}, on |-> TRUE])

\* The process starts again: what the file has and is not a day old.
onModuleInit ==
  /\ \E expired \in SUBSET Messages :
       events' = [m \in Messages |-> IF m \in expired THEN NoEvent ELSE file[m]]
  /\ save

Next == \/ onEventModal \/ onModuleInit
        \/ \E m \in Messages, u \in Guests : onVou(m, u) \/ onNaoVou(m, u)
-----------------------------------------------------------------------------
(* Properties.                                                             *)

\* However often somebody changes his mind, and whichever writes of the file failed
\* before a restart, he is never among those who go and those who do not.
OneAnswerEach ==
  \A m \in Messages, book \in {events, file} : book[m].going \cap book[m].notGoing = {}
=============================================================================
