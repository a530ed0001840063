------------------------------- MODULE Access -------------------------------
(***************************************************************************)
(* Who may be served: the session (auth/auth.service.ts), the actor        *)
(* (common/actor.service.ts) and the permissions (access/) of one person.  *)
(* Each keeps what it read for a few seconds in a TtlCache, which holds    *)
(* the promise and not the value; CacheBusService makes all of them forget *)
(* when an administrator changes something.  A promise is known by the     *)
(* request that started it, and the database answers it later, with what   *)
(* it holds at that moment.                                                *)
(***************************************************************************)
EXTENDS Integers, FiniteSets

CONSTANTS Requests,     \* the requests of the person, each made once
          Admins,       \* who may change something at the same time
          MaxChanges

VARIABLES row,          \* the person: status, and whether a group of his grants
          token,        \* whether he was given one
          base,         \* whether defaultPermissions grants
          cache,        \* cache -> the request whose promise it holds, or 0
          promise,      \* cache -> request -> what its promise is
          request,      \* request -> where it is, and whose promise it waits for
          half,         \* request -> loadPermissions between its two reads
          change,       \* admin -> the change he is making
          changes

vars == <<row, token, base, cache, promise, request, half, change, changes>>

Caches == {"session", "actor", "permission", "settings"}
Stages == {"session", "actor", "permission"}
NoHalf == [on |-> 0, member |-> FALSE]
NoChange == [kind |-> "none", step |-> 0, to |-> "none"]
NoRequest == [at |-> "none", on |-> 0, shut |-> FALSE]

Init == /\ row = [status |-> "none", member |-> FALSE]
        /\ token = FALSE
        /\ base = TRUE
        /\ cache = [c \in Caches |-> 0]
        /\ promise = [c \in Caches |-> [r \in Requests |-> "none"]]
        /\ request = [r \in Requests |-> NoRequest]
        /\ half = [r \in Requests |-> NoHalf]
        /\ change = [a \in Admins |-> NoChange]
        /\ changes = 0

Settled(c, r) == promise[c][r] \notin {"none", "pending"}

\* wrap: the request takes the promise the cache holds, or starts its own.
Wrap(c, r) == IF cache[c] # 0 THEN cache[c] ELSE r

wrap(c, r) ==
  /\ cache' = [cache EXCEPT ![c] = Wrap(c, r)]
  /\ promise' = [promise EXCEPT ![c][r] = IF cache[c] = 0 THEN "pending" ELSE @]
-----------------------------------------------------------------------------
(* The door.                                                               *)

\* CacheBusService: the entries of the person, and all entries.
forget == cache' = [c \in Caches |-> IF c = "settings" THEN cache[c] ELSE 0]
forgetAll == cache' = [c \in Caches |-> 0]

\* Somebody Discord vouches for: one the platform does not know is added, and
\* waits if the settings of that moment want an approval (requireApproval); one it
\* knows is read afresh.  Only who is approved gets a token (assertCanEnter).
discordLogin ==
  /\ \E status \in IF row.status = "none" THEN {"PENDING", "APPROVED"} ELSE {row.status} :
       row' = [row EXCEPT !.status = status] /\ token' = (token \/ status = "APPROVED")
  /\ IF row.status = "none" THEN UNCHANGED cache ELSE forget
  /\ UNCHANGED <<base, promise, request, half, change, changes>>

\* Who has a password enters without Discord; his row is written (lastLoginAt).
login == /\ row.status = "APPROVED"
         /\ token' = TRUE
         /\ forget
         /\ UNCHANGED <<row, base, promise, request, half, change, changes>>

\* The row itself is asked, and no cache is touched.
IssueToken == /\ row.status = "APPROVED" /\ ~token
              /\ token' = TRUE
              /\ UNCHANGED <<row, base, cache, promise, request, half>>
              /\ UNCHANGED <<change, changes>>

\* A refresh token still kept is exchanged for a new session.
refresh == IssueToken

\* An administrator enters as the person, if he is approved.
createImpersonationToken == IssueToken
-----------------------------------------------------------------------------
(* A request: the session guard, the actor, the permission guard.          *)

\* Nobody is changing the person's status.
NoReview == \A a \in Admins : change[a].kind # "review"

\* validateSessionToken.  The requests are numbered in the order they begin.
\* The request is shut out when the person is not
\* approved and every review of him has been answered.
Begin(r) ==
  /\ token /\ request[r].at = "none"
  /\ \A earlier \in Requests : earlier < r => request[earlier].at # "none"
  /\ wrap("session", r)
  /\ request' = [request EXCEPT ![r] = [at |-> "session", on |-> Wrap("session", r),
                                        shut |-> row.status # "APPROVED" /\ NoReview]]
  /\ UNCHANGED <<row, token, base, half, change, changes>>

\* The promise the request waits for is there: assertCanEnter, require and
\* canActivate let it through to the next, or refuse it.
After(stage) == CASE stage = "session" -> "actor"
                  [] stage = "actor" -> "permission"
                  [] stage = "permission" -> "served"

Lets(stage) == IF stage = "permission" THEN "yes" ELSE "APPROVED"

Pass(r) ==
  LET at == request[r].at
      next == After(at) IN
  /\ at \in Stages /\ Settled(at, request[r].on)
  /\ promise[at][request[r].on] = Lets(at)
  /\ IF next = "served"
     THEN /\ request' = [request EXCEPT ![r].at = "served"]
          /\ UNCHANGED <<cache, promise>>
     ELSE /\ wrap(next, r)
          /\ request' = [request EXCEPT ![r].at = next, ![r].on = Wrap(next, r)]
  /\ UNCHANGED <<row, token, base, half, change, changes>>

Refuse(r) ==
  LET at == request[r].at IN
  /\ at \in Stages /\ Settled(at, request[r].on)
  /\ promise[at][request[r].on] # Lets(at)
  /\ request' = [request EXCEPT ![r].at = "refused"]
  /\ UNCHANGED <<row, token, base, cache, promise, half, change, changes>>
-----------------------------------------------------------------------------
(* The database answers the promises.                                      *)

Answer(c, r, value) == promise' = [promise EXCEPT ![c][r] = value]

\* The two reads of the person's row.
LoadUser(r) ==
  \E c \in {"session", "actor"} :
    /\ promise[c][r] = "pending"
    /\ Answer(c, r, row.status)
    /\ UNCHANGED <<row, token, base, cache, request, half, change, changes>>

\* loadPermissions reads the row with its groups; one who is not approved has
\* no permission, for the others the settings are asked.
loadPermissions(r) ==
  /\ promise["permission"][r] = "pending" /\ half[r] = NoHalf
  /\ IF row.status # "APPROVED"
     THEN Answer("permission", r, "no") /\ UNCHANGED <<cache, half>>
     ELSE /\ wrap("settings", r)
          /\ half' = [half EXCEPT ![r] = [on |-> Wrap("settings", r), member |-> row.member]]
  /\ UNCHANGED <<row, token, base, request, change, changes>>

loadSettings(r) ==
  /\ promise["settings"][r] = "pending"
  /\ Answer("settings", r, IF base THEN "yes" ELSE "no")
  /\ UNCHANGED <<row, token, base, cache, request, half, change, changes>>

\* The base of the platform and the groups of the person together.
permissionsOf(r) ==
  /\ half[r].on # 0 /\ Settled("settings", half[r].on)
  /\ LET granted == promise["settings"][half[r].on] IN
     Answer("permission", r, IF granted = "failed" THEN "failed"
                             ELSE IF half[r].member THEN "yes" ELSE granted)
  /\ half' = [half EXCEPT ![r] = NoHalf]
  /\ UNCHANGED <<row, token, base, cache, request, change, changes>>

\* A read fails: the promise fails for all who wait for it, and leaves the
\* cache if the cache still holds it.
LoadFails(r) ==
  \E c \in Caches :
    /\ promise[c][r] = "pending" /\ half[r] = NoHalf
    /\ Answer(c, r, "failed")
    /\ cache' = [cache EXCEPT ![c] = IF @ = r THEN 0 ELSE @]
    /\ UNCHANGED <<row, token, base, request, half, change, changes>>

\* The few seconds of an entry are over.
Expire ==
  \E c \in Caches : /\ cache[c] # 0
                    /\ cache' = [cache EXCEPT ![c] = 0]
                    /\ UNCHANGED <<row, token, base, promise, request>>
                    /\ UNCHANGED <<half, change, changes>>
-----------------------------------------------------------------------------
(* The changes of an administrator: the write, and the forgetting.         *)

Asks(a, kind, to) ==
  /\ change[a].kind = "none" /\ changes < MaxChanges
  /\ change' = [change EXCEPT ![a] = [kind |-> kind, step |-> 1, to |-> to]]
  /\ changes' = changes + 1

Does(a, kind, step) == /\ change[a].kind = kind /\ change[a].step = step
                       /\ change' = [change EXCEPT ![a].step = step + 1]
                       /\ UNCHANGED changes

Answers(a, kind, step) == /\ change[a].kind = kind /\ change[a].step = step
                          /\ change' = [change EXCEPT ![a] = NoChange]
                          /\ UNCHANGED changes

\* A review that approves opens the door to the requests already on their way.
AskReview(a) ==
  \E to \in {"APPROVED", "BLOCKED"} :
    /\ row.status # "none"
    /\ Asks(a, "review", to)
    /\ request' = [r \in Requests |-> [request[r] EXCEPT !.shut = @ /\ to # "APPROVED"]]
    /\ UNCHANGED <<row, token, base, cache, promise, half>>

\* Mutant: the caches forget before the row is written: a request in between reads the
\* old row again, and keeps it.
reviewUserForgetsFirst(a) ==
  \/ /\ Does(a, "review", 1) /\ forget
     /\ UNCHANGED <<row, token, base, promise, request, half>>
  \/ /\ Answers(a, "review", 2) /\ row' = [row EXCEPT !.status = change[a].to]
     /\ UNCHANGED <<token, base, cache, promise, request, half>>

reviewUser(a) ==
  \/ /\ Does(a, "review", 1) /\ row' = [row EXCEPT !.status = change[a].to]
     /\ UNCHANGED <<token, base, cache, promise, request, half>>
  \/ /\ Answers(a, "review", 2) /\ forget
     /\ UNCHANGED <<row, token, base, promise, request, half>>

AskChange(a) ==
  /\ \/ \E to \in {"yes", "no"} : Asks(a, "groups", to) \/ Asks(a, "settings", to)
     \/ Asks(a, "group", "no") \/ Asks(a, "gone", "no")
  /\ row.status # "none"
  /\ UNCHANGED <<row, token, base, cache, promise, request, half>>

\* The groups of the person: the write first.
setUserGroups(a) ==
  \/ /\ Does(a, "groups", 1) /\ row' = [row EXCEPT !.member = change[a].to = "yes"]
     /\ UNCHANGED <<token, base, cache, promise, request, half>>
  \/ /\ Answers(a, "groups", 2) /\ forget
     /\ UNCHANGED <<row, token, base, promise, request, half>>

\* The group itself goes: the write first too.
removeGroup(a) ==
  \/ /\ Does(a, "gone", 1) /\ row' = [row EXCEPT !.member = FALSE]
     /\ UNCHANGED <<token, base, cache, promise, request, half>>
  \/ /\ Answers(a, "gone", 2) /\ forgetAll
     /\ UNCHANGED <<row, token, base, promise, request, half>>

\* updateGroup: the caches forget first, the group is written after.
updateGroup(a) ==
  \/ /\ Does(a, "group", 1) /\ forgetAll
     /\ UNCHANGED <<row, token, base, promise, request, half>>
  \/ /\ Answers(a, "group", 2) /\ row' = [row EXCEPT !.member = FALSE]
     /\ UNCHANGED <<token, base, cache, promise, request, half>>

\* updateSettings: the same.
updateSettings(a) ==
  \/ /\ Does(a, "settings", 1) /\ forgetAll
     /\ UNCHANGED <<row, token, base, promise, request, half>>
  \/ /\ Answers(a, "settings", 2) /\ base' = (change[a].to = "yes")
     /\ UNCHANGED <<row, token, cache, promise, request, half>>

Request(r) == \/ Begin(r) \/ Pass(r) \/ Refuse(r)
              \/ LoadUser(r) \/ loadPermissions(r) \/ loadSettings(r)
              \/ permissionsOf(r) \/ LoadFails(r)

Admin(a) == \/ AskReview(a) \/ reviewUser(a) \/ AskChange(a)
            \/ setUserGroups(a) \/ removeGroup(a) \/ updateGroup(a) \/ updateSettings(a)

Next == \/ \E r \in Requests : Request(r)
        \/ \E a \in Admins : Admin(a)
        \/ discordLogin \/ login \/ createImpersonationToken \/ refresh
        \/ Expire
-----------------------------------------------------------------------------
(* Properties.                                                             *)

\* A block counts from the next request on: a request that began after the
\* review was answered is never served, whatever the three caches held, whatever
\* reads were still under way, and whatever else is being changed.
BlockHoldsAtOnce == \A r \in Requests : request[r].shut => request[r].at # "served"
=============================================================================
