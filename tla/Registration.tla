---------------------------- MODULE Registration ----------------------------
(***************************************************************************)
(* The registration of one tournament, until it starts: who runs it, who   *)
(* may enter and with which invite, the teams, and the scheduler that      *)
(* closes the window every minute (tournament/tournament.service.ts,       *)
(* tournament-access.service.ts, registration-window.scheduler.ts).  What  *)
(* start lays out is the business of Tournament.                           *)
(*                                                                         *)
(* A request that reads and later writes on what it read holds its reading *)
(* on the desk of its person, and the scheduler holds its own; whoever     *)
(* fits between the two does.  Creator is the tournament's first owner.    *)
(* MaxRequests bounds the requests and MaxRestarts the restarts.           *)
(***************************************************************************)
EXTENDS Naturals, Sequences, FiniteSets, SequencesExt, Functions

CONSTANTS People, Creator, Codes, MaxTeams, MinTeams, MaxRequests, MaxRestarts

VARIABLES cup,       \* status, accessMode, registrationEndsAt, autoStartOnClose, inviteCode
          staff,     \* the role of each person, or "NONE"
          teams,     \* the entries, in the order of their seeds
          invited,   \* who has a TournamentInvite
          codes,     \* the single-use invites: who claimed it (0: nobody), and revoked or not
          desk,      \* what each person's request has read
          cron,      \* what the scheduler has read
          requests, restarts

vars == <<cup, staff, teams, invited, codes, desk, cron, requests, restarts>>

MANAGED_STATUSES == {"DRAFT", "REGISTRATION"}
Statuses == MANAGED_STATUSES \cup {"RUNNING", "FINISHED", "CANCELLED"}
NoCode == [claimedBy |-> 0, revoked |-> TRUE]
NoRead == [op |-> "none"]

\* create asks for a window, in the future.  Only tournaments of an older version have the
\* one inviteCode.
Init == /\ cup \in [status : {"REGISTRATION"}, mode : {"PUBLIC", "INVITE_ONLY"},
                    window : {"open"}, autoStart : BOOLEAN, legacy : BOOLEAN]
        /\ cup.legacy => cup.mode = "INVITE_ONLY"
        /\ staff = [p \in People |-> IF p = Creator THEN "OWNER" ELSE "NONE"]
        /\ teams = <<>> /\ invited \in SUBSET (People \ {Creator})
        /\ codes = [c \in Codes |-> NoCode]
        /\ desk = [p \in People |-> NoRead] /\ cron = NoRead
        /\ requests = 0 /\ restarts = 0

\* of: nobody here is an administrator of the platform.
CanManage(p)   == staff[p] = "OWNER"
CanModerate(p) == staff[p] \in {"OWNER", "MODERATOR"}
Captains == {teams[i].captain : i \in DOMAIN teams}

Request(p) == /\ desk[p] = NoRead /\ requests < MaxRequests /\ requests' = requests + 1
Keeps(p, read) == desk' = [desk EXCEPT ![p] = read]

-----------------------------------------------------------------------------
(* The tournament and its staff: one statement each.                       *)

RunsOrRan == cup.status \in {"RUNNING", "FINISHED"}

AssertWindow(window, autoStart) == window # "expired" /\ (autoStart => window = "open")

\* A window taken away is checked as the one that was there.
Update(p) == \E new \in [status : Statuses, mode : {"PUBLIC", "INVITE_ONLY"},
                         window : {"none", "open", "expired"}, autoStart : BOOLEAN,
                         legacy : BOOLEAN] :
  /\ Request(p) /\ CanManage(p)
  /\ new.legacy = (cup.legacy /\ new.mode # "PUBLIC")
  /\ RunsOrRan \/ AssertWindow(IF new.window = "none" THEN cup.window ELSE new.window, new.autoStart)
  /\ cup' = new
  /\ UNCHANGED <<staff, teams, invited, codes, desk, cron, restarts>>

Staffing(p, new) == /\ Request(p) /\ CanManage(p) /\ staff' = new
                    /\ UNCHANGED <<cup, teams, invited, codes, desk, cron, restarts>>

\* The role of the owner may be set too.
SetStaff(p) == \E q \in People : Staffing(p, [staff EXCEPT ![q] = "MODERATOR"])

RemoveStaff(p) == \E q \in People : /\ staff[q] = "MODERATOR"
                                    /\ Staffing(p, [staff EXCEPT ![q] = "NONE"])

TransferOwnership(p) == \E q \in People \ {p} :
  Staffing(p, [r \in People |-> IF r = q THEN "OWNER"
                                ELSE IF CanManage(r) THEN "MODERATOR" ELSE staff[r]])

-----------------------------------------------------------------------------
(* The invites.                                                            *)

CreateRegistrationInvite(p) == \E c \in Codes :
  /\ Request(p) /\ CanManage(p)
  /\ cup.mode = "INVITE_ONLY" /\ cup.status = "REGISTRATION"
  /\ codes[c] = NoCode
  /\ codes' = [codes EXCEPT ![c].revoked = FALSE]
  /\ UNCHANGED <<cup, staff, teams, invited, desk, cron, restarts>>

RevokeRegistrationInvite(p) == \E c \in Codes :
  /\ Request(p) /\ CanManage(p)
  /\ codes[c].claimedBy = 0 /\ ~codes[c].revoked
  /\ codes' = [codes EXCEPT ![c].revoked = TRUE]
  /\ UNCHANGED <<cup, staff, teams, invited, desk, cron, restarts>>

JoinByInvite(p) == \E c \in Codes :
  /\ Request(p)
  /\ codes[c].claimedBy = 0 /\ ~codes[c].revoked
  /\ cup.mode = "INVITE_ONLY" /\ cup.status = "REGISTRATION"
  /\ Keeps(p, [op |-> "join", code |-> c])
  /\ UNCHANGED <<cup, staff, teams, invited, codes, cron, restarts>>

\* Mutant: who claims last has it.
ClaimOverwrites(p) == codes' = [codes EXCEPT ![desk[p].code].claimedBy = p]

\* The claim is conditional, so of two readers one comes too late; it looks at
\* the use and not at the revocation.
Claim(p) == codes' = [codes EXCEPT ![desk[p].code].claimedBy = IF @ = 0 THEN p ELSE @]

ClaimInvite(p) ==
  /\ desk[p].op = "join" /\ Keeps(p, NoRead) /\ Claim(p)
  /\ invited' = IF codes[desk[p].code].claimedBy = 0 THEN invited \cup {p} ELSE invited
  /\ UNCHANGED <<cup, staff, teams, cron, requests, restarts>>

\* The old code of the tournament; the person is let in and then the code goes.
JoinByLegacyInvite(p) ==
  /\ Request(p)
  /\ cup.legacy /\ cup.mode = "INVITE_ONLY" /\ cup.status = "REGISTRATION"
  /\ invited' = invited \cup {p} /\ cup' = [cup EXCEPT !.legacy = FALSE]
  /\ UNCHANGED <<staff, teams, codes, desk, cron, restarts>>

-----------------------------------------------------------------------------
(* The teams.                                                              *)

MayEnter(p) == \/ CanModerate(p)
               \/ /\ cup.mode = "PUBLIC" \/ p \in invited
                  /\ cup.status = "REGISTRATION" /\ p \notin Captains

AddTeam(p) == \E captain \in People :
  /\ Request(p) /\ MayEnter(p)
  /\ cup.status \in MANAGED_STATUSES /\ Len(teams) < MaxTeams
  /\ CanModerate(p) \/ captain = p
  /\ captain \notin Captains
  /\ Keeps(p, [op |-> "add", captain |-> captain])
  /\ UNCHANGED <<cup, staff, teams, invited, codes, cron, restarts>>

CreateTeam(p) ==
  /\ desk[p].op = "add" /\ Keeps(p, NoRead)
  /\ teams' = Append(teams, [captain |-> desk[p].captain, entry |-> requests])
  /\ UNCHANGED <<cup, staff, invited, codes, cron, requests, restarts>>

RemoveTeam(p) == \E i \in DOMAIN teams :
  /\ Request(p)
  /\ CanModerate(p) \/ teams[i].captain = p
  /\ cup.status \in MANAGED_STATUSES
  /\ teams' = RemoveAt(teams, i)
  /\ UNCHANGED <<cup, staff, invited, codes, desk, cron, restarts>>

SetSeeds(p) == \E i, j \in DOMAIN teams :
  /\ Request(p) /\ CanModerate(p) /\ cup.status \in MANAGED_STATUSES /\ i < j
  /\ teams' = [teams EXCEPT ![i] = teams[j], ![j] = teams[i]]
  /\ UNCHANGED <<cup, staff, invited, codes, desk, cron, restarts>>

-----------------------------------------------------------------------------
(* start, for the owner and for the scheduler.                             *)

AssertStartable == cup.status \in MANAGED_STATUSES /\ Len(teams) >= MinTeams

\* The rewriting of a team that has gone in the meantime takes everything back.
StillThere(read) == ToSet(read) \subseteq ToSet(teams)
Started == [cup EXCEPT !.status = "RUNNING", !.window = "none"]

StartRead(p) == /\ Request(p) /\ CanManage(p) /\ AssertStartable
                /\ Keeps(p, [op |-> "start", teams |-> teams])
                /\ UNCHANGED <<cup, staff, teams, invited, codes, cron, restarts>>

Start(p) == /\ desk[p].op = "start" /\ Keeps(p, NoRead)
            /\ cup' = IF StillThere(desk[p].teams) THEN Started ELSE cup
            /\ UNCHANGED <<staff, teams, invited, codes, cron, requests, restarts>>

-----------------------------------------------------------------------------
(* The scheduler.                                                          *)

CronLeaves == UNCHANGED <<staff, teams, invited, codes, desk, requests, restarts>>

Expire == /\ cup.window = "open" /\ cup' = [cup EXCEPT !.window = "expired"]
          /\ UNCHANGED cron /\ CronLeaves

Owners == {p \in People : CanManage(p)}
CloseExpiredRegistrations ==
  /\ cron = NoRead /\ cup.status = "REGISTRATION" /\ cup.window = "expired"
  /\ cron' = IF cup.autoStart /\ Owners # {}
             THEN [op |-> "begin", owner |-> CHOOSE p \in Owners : TRUE] ELSE [op |-> "close"]
  /\ UNCHANGED cup /\ CronLeaves

\* Also where a start that failed ends.
CronClose == /\ cron.op = "close" /\ cron' = NoRead
             /\ cup' = [cup EXCEPT !.status = "DRAFT", !.window = "none"]
             /\ CronLeaves

CronCatch == [op |-> "close"]
CronBegin == /\ cron.op = "begin"
             /\ cron' = IF CanManage(cron.owner) /\ AssertStartable
                        THEN [op |-> "start", teams |-> teams] ELSE CronCatch
             /\ UNCHANGED cup /\ CronLeaves

CronStart == /\ cron.op = "start"
             /\ LET ok == StillThere(cron.teams) IN
                /\ cup' = IF ok THEN Started ELSE cup
                /\ cron' = IF ok THEN NoRead ELSE CronCatch
             /\ CronLeaves

Restart == /\ restarts < MaxRestarts /\ restarts' = restarts + 1
           /\ desk' = [p \in People |-> NoRead] /\ cron' = NoRead
           /\ UNCHANGED <<cup, staff, teams, invited, codes, requests>>

-----------------------------------------------------------------------------
Requests == \E p \in People :
  \/ Update(p) \/ SetStaff(p) \/ RemoveStaff(p) \/ TransferOwnership(p)
  \/ CreateRegistrationInvite(p) \/ RevokeRegistrationInvite(p)
  \/ JoinByInvite(p) \/ ClaimInvite(p) \/ JoinByLegacyInvite(p)
  \/ AddTeam(p) \/ CreateTeam(p) \/ RemoveTeam(p) \/ SetSeeds(p)
  \/ StartRead(p) \/ Start(p)
Scheduler == CloseExpiredRegistrations \/ CronClose \/ CronBegin \/ CronStart

Next == Requests \/ Expire \/ Scheduler \/ Restart

Fairness == WF_vars(Scheduler)
Spec == Init /\ [][Next]_vars /\ Fairness

\* An individual invite lets one person in, once: who claimed it stays its
\* claimer, whatever the others who had read it free do (joinByInvite's
\* "Este convite já foi utilizado").
ClaimsLast == \A c \in Codes : codes[c].claimedBy # 0 => codes'[c].claimedBy = codes[c].claimedBy

InviteAdmitsOne == [][ClaimsLast]_vars

\* A window that has run out is closed: the scheduler ends the registration even
\* if there is no owner left, the start is refused or fails half way, or the
\* process restarts in between, unless somebody sets a new window
\* (MCJourneys, DeadlinesAreKept).
WindowIsOver == cup.status = "REGISTRATION" /\ cup.window = "expired"
=============================================================================
