-------------------------- MODULE CompetitionProofs ---------------------------
(* Who is in a competition, what its matches count for, who has won its season,    *)
(* which teams a match of the house begins with, and what a round of the base      *)
(* makes of its players.  Each component is proved about by itself; the platform   *)
(* takes over the theorems on what one of its properties states whole.             *)
EXTENDS Integers, Sequences, FiniteSets, FiniteSetTheorems, SequenceTheorems,
        WellFoundedInduction, TLAPS

CONSTANTS
  People, Creator, Codes, MaxTeams, MinTeams, MaxRequests, MaxRestarts,   \* Registration
  Rules, Reporters, MaxReopened, MaxProofs,                               \* TournamentMatch
  MaxMatches, MaxSeasons, Clients, Admins,                                \* ServerRanking
  Queuers, Score, QueueModes, LeagueHandlers, MaxLeft,                    \* LeagueMatch
  Squads, LineOf, Age, Ratings, Quota, LINEUP_SIZE, MIN_SQUAD,            \* World
  MIN_MATCHES, Draftable, MaxRounds, MaxFailures,
  MaxRosters, MaxSize, MaxBid, WeekdayChoices, Percents                   \* DraftRules

VARIABLES
  cup, staff, teams, invited, codes, desk, cron, requests, restarts,      \* Registration
  rules, match, writes, overdue, proof, readers, proofs, counted,         \* TournamentMatch
  reopened,
  seasons, matches, cache, reading, closing, overlapped,                  \* ServerRanking
  status, perTeam, format, queue, winner, left, pending, crossed,         \* LeagueMatch
  player, round, due, rostered, job, failures,                            \* World
  draft, calendar, auction                                                \* DraftRules

SignUp == INSTANCE Registration
Match == INSTANCE TournamentMatch WITH desk <- writes, People <- Reporters
Ranking == INSTANCE ServerRanking
League == INSTANCE LeagueMatch WITH
  req <- pending, Players <- Queuers, Formats <- QueueModes, Handlers <- LeagueHandlers
Football == INSTANCE World
DraftPlan == INSTANCE DraftRules
-----------------------------------------------------------------------------
(* What the folds of the components compute, by induction on what they fold. *)

\* A set of numbers with 0 and with the successor of each of its own has them all.
LEMMA Induction ==
  ASSUME NEW S \in SUBSET Nat, 0 \in S, \A n \in S : n + 1 \in S
  PROVE  S = Nat
<1> DEFINE T == Nat \ S
           R == {p \in Nat \X Nat : p[1] < p[2]}
<1>1. SUFFICES ASSUME T # {} PROVE FALSE
  OBVIOUS
<1>2. IsWellFoundedOn(R, Nat)
  BY NatLessThanWellFounded, Zenon DEF OpToRel
<1>3. PICK n \in T : \A m \in T : <<m, n>> \notin R
  <2> HIDE DEF R
  <2> QED BY <1>1, <1>2, WFMin
<1>4. n \in Nat \ {0}
  OBVIOUS
<1>5. n - 1 \in Nat /\ (n - 1) + 1 = n
  BY <1>4
<1>6. n - 1 \in T /\ <<n - 1, n>> \in R
  BY <1>4, <1>5
<1> QED BY <1>3, <1>6

\* The element a fold takes first, and what is left.
Picked(s) == CHOOSE x \in s : TRUE
Rest(s) == s \ {Picked(s)}

LEMMA Picking ==
  ASSUME NEW S, IsFiniteSet(S)
  PROVE  /\ Cardinality(S) \in Nat
         /\ \A s \in SUBSET S :
              /\ IsFiniteSet(s)
              /\ Cardinality(s) \in Nat
              /\ Cardinality(s) = 0 => s = {}
              /\ s = {} => Cardinality(s) = 0
              /\ s # {} => /\ Picked(s) \in s
                           /\ Rest(s) \in SUBSET S
                           /\ Cardinality(Rest(s)) = Cardinality(s) - 1
<1>1. \A s \in SUBSET S : IsFiniteSet(s) /\ Cardinality(s) \in Nat
  BY FS_Subset, FS_CardinalityType
<1>2. \A s \in SUBSET S : Cardinality(s) = 0 <=> s = {}
  BY <1>1, FS_EmptySet
<1>3. \A s \in SUBSET S : s # {} => Picked(s) \in s
  BY DEF Picked
<1>4. \A s \in SUBSET S : s # {} => Cardinality(s \ {Picked(s)}) = Cardinality(s) - 1
  BY <1>1, <1>3, FS_RemoveElement
<1> QED BY <1>1, <1>2, <1>3, <1>4, FS_CardinalityType DEF Rest

\* What every finite set has whose rest has it.
LEMMA SetInduction ==
  ASSUME NEW S, IsFiniteSet(S), NEW G, {} \in G,
         \A s \in SUBSET S : s # {} /\ (\A x \in s : s \ {x} \in G) => s \in G
  PROVE  \A s \in SUBSET S : s \in G
<1> DEFINE Sized == {n \in Nat : \A s \in SUBSET S : Cardinality(s) = n => s \in G}
<1>1. 0 \in Sized
  BY Picking
<1>2. ASSUME NEW n \in Sized  PROVE n + 1 \in Sized
  <2>1. ASSUME NEW s \in SUBSET S, Cardinality(s) = n + 1  PROVE s \in G
    <3>1. IsFiniteSet(s) /\ s # {}
      BY <2>1, Picking
    <3>2. ASSUME NEW x \in s  PROVE s \ {x} \in G
      <4>1. Cardinality(s \ {x}) = Cardinality(s) - 1
        BY <3>1, FS_RemoveElement
      <4>2. Cardinality(s \ {x}) = n /\ s \ {x} \in SUBSET S
        BY <2>1, <4>1
      <4> QED BY <1>2, <4>2
    <3> QED BY <3>1, <3>2
  <2> QED BY <2>1
<1>3. Sized = Nat
  <2>1. Sized \in SUBSET Nat
    OBVIOUS
  <2> HIDE DEF Sized
  <2> QED BY <1>1, <1>2, <2>1, Induction
<1> QED BY <1>3, Picking

\* The function f on the parts of S takes one element out at a time.
Takes(f, S, V, pick, base, step) ==
  /\ f \in [SUBSET S -> V]
  /\ \A s \in SUBSET S : f[s] = IF s = {} THEN base ELSE step[<<pick[s], f[s \ {pick[s]}]>>]

\* There is one for every way to pick an element and to take it in.
LEMMA Recursion ==
  ASSUME NEW S, IsFiniteSet(S), NEW pick, \A s \in SUBSET S : s # {} => pick[s] \in s,
         NEW V, NEW base \in V, NEW step \in [S \X V -> V]
  PROVE  \E f : Takes(f, S, V, pick, base, step)
<1> DEFINE From(f, s) == IF s = {} THEN base ELSE step[<<pick[s], f[s \ {pick[s]}]>>]
           Solves(f, n) == \A s \in SUBSET S : Cardinality(s) <= n => f[s] = From(f, s)
           Good == {n \in Nat : \E f \in [SUBSET S -> V] : Solves(f, n)}
<1>0. /\ Cardinality(S) \in Nat
      /\ \A s \in SUBSET S : /\ Cardinality(s) \in Nat /\ Cardinality(s) <= Cardinality(S)
                             /\ Cardinality(s) = 0 => s = {}
  BY FS_Subset, FS_CardinalityType, FS_EmptySet
<1>r. ASSUME NEW s \in SUBSET S, s # {}
      PROVE  /\ pick[s] \in S /\ s \ {pick[s]} \in SUBSET S
             /\ Cardinality(s \ {pick[s]}) = Cardinality(s) - 1
  <2>1. IsFiniteSet(s) /\ pick[s] \in s
    BY <1>r, FS_Subset
  <2> QED BY <2>1, FS_RemoveElement
<1>t. ASSUME NEW f \in [SUBSET S -> V], NEW s \in SUBSET S  PROVE From(f, s) \in V
  <2>1. CASE s = {}
    BY <2>1
  <2>2. CASE s # {}
    <3>1. <<pick[s], f[s \ {pick[s]}]>> \in S \X V
      BY <1>r, <2>2
    <3> QED BY <2>2, <3>1
  <2> QED BY <2>1, <2>2
<1>1. 0 \in Good
  <2> DEFINE g == [s \in SUBSET S |-> base]
  <2>1. ASSUME NEW s \in SUBSET S, Cardinality(s) <= 0  PROVE g[s] = From(g, s)
    <3>1. Cardinality(s) = 0
      BY <1>0, <2>1
    <3> QED BY <1>0, <3>1
  <2>2. g \in [SUBSET S -> V]
    OBVIOUS
  <2> QED BY <2>1, <2>2
<1>2. ASSUME NEW n \in Nat, NEW f \in [SUBSET S -> V], Solves(f, n)
      PROVE  \E g \in [SUBSET S -> V] : Solves(g, n + 1)
  <2> DEFINE g == [s \in SUBSET S |-> IF Cardinality(s) <= n THEN f[s] ELSE From(f, s)]
  <2>0. g \in [SUBSET S -> V]
    <3> HIDE DEF From
    <3> QED BY <1>t
  <2>1. ASSUME NEW s \in SUBSET S  PROVE g[s] = From(f, s)
    <3> HIDE DEF From
    <3> QED BY <1>2
  <2>2. ASSUME NEW s \in SUBSET S, Cardinality(s) <= n + 1, s # {}
        PROVE  g[s \ {pick[s]}] = f[s \ {pick[s]}]
    <3>1. s \ {pick[s]} \in SUBSET S /\ Cardinality(s \ {pick[s]}) <= n
      BY <1>0, <1>r, <2>2
    <3> QED BY <3>1
  <2>3. ASSUME NEW s \in SUBSET S, Cardinality(s) <= n + 1  PROVE g[s] = From(g, s)
    <3> HIDE DEF g
    <3> QED BY <2>1, <2>2, <2>3
  <2> HIDE DEF g, From
  <2> QED BY <2>0, <2>3
<1>3. Good = Nat
  <2> HIDE DEF Solves
  <2>1. ASSUME NEW n \in Good  PROVE n + 1 \in Good
    <3>1. n \in Nat /\ n + 1 \in Nat
      OBVIOUS
    <3>2. PICK f \in [SUBSET S -> V] : Solves(f, n)
      OBVIOUS
    <3> QED BY <1>2, <3>1, <3>2
  <2>2. Good \in SUBSET Nat
    OBVIOUS
  <2> HIDE DEF Good
  <2> QED BY <1>1, <2>1, <2>2, Induction
<1>4. PICK f \in [SUBSET S -> V] : Solves(f, Cardinality(S))
  BY <1>0, <1>3
<1>5. \A s \in SUBSET S : f[s] = From(f, s)
  <2> HIDE DEF From
  <2> QED BY <1>0, <1>4
<1> QED BY <1>5 DEF Takes

\* The sum of v over a finite set, as FoldSet computes it.
SumFrom(f, v, s) == IF s = {} THEN 0 ELSE v[Picked(s)] + f[Rest(s)]
SumOf(v, S) == CHOOSE f : f = [s \in SUBSET S |-> SumFrom(f, v, s)]
Sum(v, S) == SumOf(v, S)[S]

LEMMA SumIsDefined ==
  ASSUME NEW S, IsFiniteSet(S), NEW v, \A x \in S : v[x] \in Int
  PROVE  /\ SumOf(v, S) = [s \in SUBSET S |-> SumFrom(SumOf(v, S), v, s)]
<1> DEFINE pick == [s \in SUBSET S |-> Picked(s)]
           step == [p \in S \X Int |-> v[p[1]] + p[2]]
<1>1. \A s \in SUBSET S : s # {} => pick[s] \in s
  BY DEF Picked
<1>2. step \in [S \X Int -> Int]
  OBVIOUS
<1>3. PICK f : Takes(f, S, Int, pick, 0, step)
  <2>1. 0 \in Int
    OBVIOUS
  <2> HIDE DEF pick, step
  <2> QED BY <1>1, <1>2, <2>1, Recursion, Zenon
<1>4. ASSUME NEW s \in SUBSET S  PROVE f[s] = SumFrom(f, v, s)
  <2>1. CASE s = {}
    BY <1>3, <2>1 DEF SumFrom, Takes
  <2>2. CASE s # {}
    <3>1. pick[s] = Picked(s) /\ <<Picked(s), f[Rest(s)]>> \in S \X Int
      BY <1>1, <1>3, <2>2 DEF Rest, Takes
    <3>2. f[s] = step[<<Picked(s), f[Rest(s)]>>]
      BY <1>3, <2>2, <3>1 DEF Rest, Takes
    <3> QED BY <2>2, <3>1, <3>2 DEF SumFrom
  <2> QED BY <2>1, <2>2
<1>5. f = [s \in SUBSET S |-> f[s]]
  BY <1>3 DEF Takes
<1>6. f = [s \in SUBSET S |-> SumFrom(f, v, s)]
  BY <1>4, <1>5
<1> QED BY <1>6, Zenon DEF SumOf

\* A part of the set is summed the same way within it and by itself.
LEMMA SumOfPart ==
  ASSUME NEW S, IsFiniteSet(S), NEW v, \A x \in S : v[x] \in Int, NEW T \in SUBSET S
  PROVE  SumOf(v, S)[T] = Sum(v, T)
<1> DEFINE G == {s \in SUBSET T : SumOf(v, S)[s] = SumOf(v, T)[s]}
<1>1. IsFiniteSet(T)
  BY FS_Subset
<1>2. ASSUME NEW s \in SUBSET T
      PROVE  /\ SumOf(v, S)[s] = SumFrom(SumOf(v, S), v, s)
             /\ SumOf(v, T)[s] = SumFrom(SumOf(v, T), v, s)
  <2> DEFINE F == SumOf(v, S)
             H == SumOf(v, T)
  <2>1. F = [t \in SUBSET S |-> SumFrom(F, v, t)]
    BY SumIsDefined
  <2>2. H = [t \in SUBSET T |-> SumFrom(H, v, t)]
    BY <1>1, SumIsDefined
  <2> HIDE DEF F, H
  <2>3. F[s] = SumFrom(F, v, s) /\ H[s] = SumFrom(H, v, s)
    BY <2>1, <2>2
  <2> QED BY <2>3 DEF F, H
<1>3. {} \in G
  BY <1>2 DEF SumFrom
<1>4. ASSUME NEW s \in SUBSET T, s # {}, \A x \in s : s \ {x} \in G  PROVE s \in G
  <2>1. Picked(s) \in s
    BY <1>4 DEF Picked
  <2>2. Rest(s) \in G
    BY <1>4, <2>1 DEF Rest
  <2> QED BY <1>2, <1>4, <2>2 DEF SumFrom
<1>5. \A s \in SUBSET T : s \in G
  <2> HIDE DEF G
  <2> QED BY <1>1, <1>3, <1>4, SetInduction
<1> QED BY <1>5 DEF Sum

LEMMA SumStep ==
  ASSUME NEW S, IsFiniteSet(S), NEW v, \A x \in S : v[x] \in Int
  PROVE  /\ S = {} => Sum(v, S) = 0
         /\ S # {} => Picked(S) \in S /\ Sum(v, S) = v[Picked(S)] + Sum(v, Rest(S))
<1>1. Sum(v, S) = SumFrom(SumOf(v, S), v, S)
  <2> HIDE DEF SumFrom
  <2> DEFINE F == SumOf(v, S)
  <2>1. F = [s \in SUBSET S |-> SumFrom(F, v, s)]
    BY SumIsDefined
  <2> HIDE DEF F
  <2>2. F[S] = SumFrom(F, v, S)
    BY <2>1
  <2> QED BY <2>2 DEF Sum, F
<1>2. S # {} => Picked(S) \in S
  BY DEF Picked
<1>3. Rest(S) \in SUBSET S
  BY DEF Rest
<1> QED BY <1>1, <1>2, <1>3, SumOfPart DEF SumFrom

\* Sums of numbers are numbers, and an element may be taken out of them in any order.
LEMMA SumTakesOut ==
  ASSUME NEW S, IsFiniteSet(S), NEW v, \A x \in S : v[x] \in Int
  PROVE  /\ Sum(v, {}) = 0
         /\ Sum(v, S) \in Int
         /\ \A x \in S : Sum(v, S \ {x}) \in Int /\ Sum(v, S) = v[x] + Sum(v, S \ {x})
<1> DEFINE G == {s \in SUBSET S :
                   /\ Sum(v, s) \in Int
                   /\ \A x \in s : Sum(v, s \ {x}) \in Int /\ Sum(v, s) = v[x] + Sum(v, s \ {x})}
<1>1. \A s \in SUBSET S : IsFiniteSet(s)
  BY FS_Subset
<1>2. Sum(v, {}) = 0 /\ {} \in G
  <2>1. IsFiniteSet({}) /\ \A x \in {} : v[x] \in Int
    BY <1>1
  <2> QED BY <2>1, SumStep
<1>3. ASSUME NEW s \in SUBSET S, s # {}, \A x \in s : s \ {x} \in G  PROVE s \in G
  <2> DEFINE p == Picked(s)
  <2>1. p \in s /\ Sum(v, s) = v[p] + Sum(v, s \ {p})
    BY <1>1, <1>3, SumStep DEF Rest
  <2> HIDE DEF p
  <2>2. Sum(v, s) \in Int
    BY <2>1, <1>3
  <2>3. ASSUME NEW x \in s, x # p  PROVE Sum(v, s) = v[x] + Sum(v, s \ {x})
    <3> DEFINE a == Sum(v, s \ {p})
               b == Sum(v, s \ {x})
               c == Sum(v, (s \ {p}) \ {x})
    <3>1. (s \ {p}) \ {x} = (s \ {x}) \ {p}
      OBVIOUS
    <3>2. a = v[x] + c /\ b = v[p] + c /\ c \in Int /\ v[x] \in Int /\ v[p] \in Int
      BY <1>3, <2>1, <2>3, <3>1
    <3>3. Sum(v, s) = v[p] + a
      BY <2>1
    <3> HIDE DEF a, b, c
    <3>4. v[p] + a = v[x] + b
      BY <3>2
    <3> QED BY <3>3, <3>4 DEF b
  <2>4. \A x \in s : Sum(v, s \ {x}) \in Int
    BY <1>3
  <2> QED BY <1>3, <2>1, <2>2, <2>3, <2>4
<1>4. \A s \in SUBSET S : s \in G
  <2> HIDE DEF G
  <2> QED BY <1>2, <1>3, SetInduction
<1> QED BY <1>2, <1>4

\* The largest of some numbers up to n.
Largest(s) == CHOOSE x \in s : \A y \in s : x >= y

LEMMA HasLargest ==
  ASSUME NEW n \in Nat
  PROVE  /\ \A s \in SUBSET (1..n) : s # {} => Largest(s) \in s
         /\ n > 0 => Largest(1..n) = n
<1> DEFINE G == {s \in SUBSET (1..n) : s # {} => \E x \in s : \A y \in s : x >= y}
<1>1. IsFiniteSet(1..n) /\ {} \in G
  BY FS_Interval
<1>2. ASSUME NEW s \in SUBSET (1..n), s # {}, \A x \in s : s \ {x} \in G  PROVE s \in G
  <2>1. PICK x \in s : TRUE
    BY <1>2
  <2>2. CASE s \ {x} = {}
    <3>1. x \in Int /\ \A y \in s : y = x
      BY <2>2
    <3> QED BY <3>1
  <2>3. CASE s \ {x} # {}
    <3>1. PICK z \in s \ {x} : \A y \in s \ {x} : z >= y
      BY <1>2, <2>3
    <3>2. x \in Int /\ z \in Int /\ \A y \in s : y \in Int
      OBVIOUS
    <3>3. CASE z >= x
      BY <3>1, <3>3
    <3>4. CASE ~(z >= x)
      BY <3>1, <3>2, <3>4
    <3> QED BY <3>3, <3>4
  <2> QED BY <2>2, <2>3
<1>3. \A s \in SUBSET (1..n) : s \in G
  <2> HIDE DEF G
  <2> QED BY <1>1, <1>2, SetInduction
<1>4. ASSUME n > 0  PROVE Largest(1..n) = n
  <2>1. n \in 1..n /\ \A y \in 1..n : n >= y
    BY <1>4
  <2>2. \A x \in 1..n : (\A y \in 1..n : x >= y) => x = n
    BY <2>1
  <2> QED BY <2>1, <2>2 DEF Largest
<1> QED BY <1>3, <1>4 DEF Largest
-----------------------------------------------------------------------------
(* An individual invite lets one person in, once.                            *)

Invite == [claimedBy: People \cup {0}, revoked: BOOLEAN]

\* The invites are typed, and who is about to claim one has one to claim.
CodesOK == codes \in [Codes -> Invite]
Joining == \A p \in People : desk[p].op = "join" => desk[p].code \in Codes

InviteInv == CodesOK /\ Joining
-----------------------------------------------------------------------------
\* No invite and no request at the beginning.
LEMMA InviteInit == SignUp!Init => InviteInv
  BY DEF SignUp!Init, InviteInv, CodesOK, Joining, Invite, SignUp!NoCode, SignUp!NoRead

\* What a person keeps on his desk, other than a code to claim, leaves the invariant.
LEMMA KeepsLeaves ==
  ASSUME InviteInv, NEW p \in People, NEW read, SignUp!Keeps(p, read), UNCHANGED codes,
         read.op = "join" => read.code \in Codes
  PROVE  InviteInv' /\ SignUp!ClaimsLast
  BY DEF InviteInv, CodesOK, Joining, SignUp!Keeps, SignUp!ClaimsLast

\* What changes neither an invite nor a desk leaves it too.
LEMMA StillLeaves ==
  ASSUME InviteInv, UNCHANGED <<codes, desk>>
  PROVE  InviteInv' /\ SignUp!ClaimsLast
  BY DEF InviteInv, CodesOK, Joining, SignUp!ClaimsLast

\* createRegistrationInvite and revokeRegistrationInvite: an invite nobody claimed.
LEMMA InvitesLeave ==
  ASSUME InviteInv, NEW p \in People, SignUp!CreateRegistrationInvite(p)
         \/ SignUp!RevokeRegistrationInvite(p)
  PROVE  InviteInv' /\ SignUp!ClaimsLast
<1>1. PICK c \in Codes, revoked \in BOOLEAN :
        codes[c].claimedBy = 0 /\ codes' = [codes EXCEPT ![c].revoked = revoked]
  <2>1. CASE SignUp!CreateRegistrationInvite(p)
    <3>1. PICK c \in Codes : codes[c] = SignUp!NoCode /\ codes' = [codes EXCEPT ![c].revoked = FALSE]
      BY <2>1 DEF SignUp!CreateRegistrationInvite
    <3>2. codes[c].claimedBy = 0
      BY <3>1 DEF SignUp!NoCode
    <3> QED BY <3>1, <3>2
  <2>2. CASE SignUp!RevokeRegistrationInvite(p)
    <3>1. PICK c \in Codes : /\ codes[c].claimedBy = 0
                             /\ codes' = [codes EXCEPT ![c].revoked = TRUE]
      BY <2>2 DEF SignUp!RevokeRegistrationInvite
    <3> QED BY <3>1
  <2> QED BY <2>1, <2>2
<1>2. CodesOK' /\ \A d \in Codes : codes'[d].claimedBy = codes[d].claimedBy
  BY <1>1 DEF InviteInv, CodesOK, Invite
<1>3. UNCHANGED desk
  BY DEF SignUp!CreateRegistrationInvite, SignUp!RevokeRegistrationInvite
<1> QED BY <1>2, <1>3 DEF InviteInv, Joining, SignUp!ClaimsLast

\* joinByInvite: the conditional claim leaves an invite that is already claimed.
LEMMA ClaimLeaves ==
  ASSUME InviteInv, NEW p \in People, SignUp!ClaimInvite(p)
  PROVE  InviteInv' /\ SignUp!ClaimsLast
<1>1. PICK c \in Codes : /\ c = desk[p].code /\ codes[c] \in Invite
                         /\ codes' = [codes EXCEPT ![c].claimedBy = IF @ = 0 THEN p ELSE @]
  BY DEF SignUp!ClaimInvite, SignUp!Claim, InviteInv, Joining, CodesOK
<1>2. /\ CodesOK'
      /\ \A d \in Codes : codes[d].claimedBy # 0 => codes'[d].claimedBy = codes[d].claimedBy
  BY <1>1 DEF InviteInv, CodesOK, Invite
<1>3. Joining'
  BY DEF SignUp!ClaimInvite, SignUp!Keeps, SignUp!NoRead, InviteInv, Joining
<1> QED BY <1>2, <1>3 DEF InviteInv, SignUp!ClaimsLast

\* Every request of a person.
LEMMA RequestLeaves ==
  ASSUME InviteInv, NEW p \in People,
         \/ SignUp!Update(p) \/ SignUp!SetStaff(p) \/ SignUp!RemoveStaff(p)
            \/ SignUp!TransferOwnership(p)
         \/ SignUp!CreateRegistrationInvite(p) \/ SignUp!RevokeRegistrationInvite(p)
         \/ SignUp!JoinByInvite(p) \/ SignUp!ClaimInvite(p) \/ SignUp!JoinByLegacyInvite(p)
         \/ SignUp!AddTeam(p) \/ SignUp!CreateTeam(p) \/ SignUp!RemoveTeam(p) \/ SignUp!SetSeeds(p)
         \/ SignUp!StartRead(p) \/ SignUp!Start(p)
  PROVE  InviteInv' /\ SignUp!ClaimsLast
<1>1. CASE SignUp!Update(p)
  BY <1>1, StillLeaves DEF SignUp!Update
<1>2. CASE SignUp!SetStaff(p) \/ SignUp!RemoveStaff(p) \/ SignUp!TransferOwnership(p)
  BY <1>2, StillLeaves DEF SignUp!SetStaff, SignUp!RemoveStaff, SignUp!TransferOwnership,
     SignUp!Staffing
<1>3. CASE SignUp!CreateRegistrationInvite(p) \/ SignUp!RevokeRegistrationInvite(p)
  BY <1>3, InvitesLeave
<1>4. CASE SignUp!JoinByInvite(p)
  <2>1. PICK c \in Codes : SignUp!Keeps(p, [op |-> "join", code |-> c]) /\ UNCHANGED codes
    BY <1>4 DEF SignUp!JoinByInvite
  <2> QED BY <2>1, KeepsLeaves
<1>5. CASE SignUp!ClaimInvite(p)
  BY <1>5, ClaimLeaves
<1>6. CASE SignUp!JoinByLegacyInvite(p) \/ SignUp!RemoveTeam(p) \/ SignUp!SetSeeds(p)
  BY <1>6, StillLeaves DEF SignUp!JoinByLegacyInvite, SignUp!RemoveTeam, SignUp!SetSeeds
<1>7. CASE SignUp!AddTeam(p)
  <2>1. PICK captain \in People :
          SignUp!Keeps(p, [op |-> "add", captain |-> captain]) /\ UNCHANGED codes
    BY <1>7 DEF SignUp!AddTeam
  <2> QED BY <2>1, KeepsLeaves
<1>8. CASE SignUp!CreateTeam(p) \/ SignUp!Start(p)
  BY <1>8, KeepsLeaves DEF SignUp!CreateTeam, SignUp!Start, SignUp!NoRead
<1>9. CASE SignUp!StartRead(p)
  <2>1. SignUp!Keeps(p, [op |-> "start", teams |-> teams]) /\ UNCHANGED codes
    BY <1>9 DEF SignUp!StartRead
  <2> QED BY <2>1, KeepsLeaves
<1> QED BY <1>1, <1>2, <1>3, <1>4, <1>5, <1>6, <1>7, <1>8, <1>9

\* Every step keeps the invariant, and the claims.
LEMMA StepLeaves == InviteInv /\ [SignUp!Next]_SignUp!vars
  => InviteInv' /\ [SignUp!ClaimsLast]_SignUp!vars
<1> SUFFICES ASSUME InviteInv, [SignUp!Next]_SignUp!vars
             PROVE InviteInv' /\ [SignUp!ClaimsLast]_SignUp!vars
  OBVIOUS
<1>1. CASE SignUp!Requests
  BY <1>1, RequestLeaves DEF SignUp!Requests
<1>2. CASE SignUp!Expire \/ SignUp!Scheduler
  BY <1>2, StillLeaves DEF SignUp!Expire, SignUp!Scheduler, SignUp!CloseExpiredRegistrations,
     SignUp!CronClose, SignUp!CronBegin,
                           SignUp!CronStart, SignUp!CronLeaves
<1>3. CASE SignUp!Restart
  BY <1>3 DEF SignUp!Restart, SignUp!NoRead, InviteInv, CodesOK, Joining, SignUp!ClaimsLast
<1>4. CASE UNCHANGED SignUp!vars
  BY <1>4, StillLeaves DEF SignUp!vars
<1> QED BY <1>1, <1>2, <1>3, <1>4 DEF SignUp!Next
-----------------------------------------------------------------------------
(* A match is counted once, and once more for each time it was opened again. *)

Row == [status: Match!OPEN_STATUSES \cup Match!Decided, claim: Match!Sides \cup {"NONE", "EA"},
        audit: {"NONE", "PENDING", "MUST_COUNT"}, proposal: Match!Sides \cup {"NONE"},
        scheduled: BOOLEAN, talked: SUBSET Match!Sides, ready: SUBSET Match!Sides,
          grace: SUBSET Match!Sides]

\* What a handler may be about to write.
OfASide  == {"PROPOSE", "TALK", "CLAIM", "GRACE", "READY", "NOT_READY"}
Plain    == {"NONE", "SCHEDULE", "REFUSE", "DISPUTE", "WALKOVER", "REJECT_AUDIT", "REOPEN",
             "REVIEW_UNREPORTED", "PROOF"}
Sources  == {"TEAM", "REVIEW", "EA", "PROOF", "ORG"}
Write   == [op: OfASide, side: Match!Sides] \cup [op: Plain] \cup [op: {"SETTLE"}, from: Sources]
            \cup [op: {"AUDIT"}, audit: {"PENDING", "MUST_COUNT"}]

\* The row and what is about to be written to it are typed, and the counters are numbers.
MatchTypes == /\ match \in Row
              /\ writes \in [Match!Desks -> Write]
              /\ counted \in Nat /\ reopened \in Nat

\* OneResultCounts does not say that nobody is about to write a decision without a claim of
\* the match: that lies in what a write can be.
MatchInv == MatchTypes /\ Match!OneResultCounts
-----------------------------------------------------------------------------
\* A match begins open and uncounted.
LEMMA MatchInit == Match!Init => MatchInv
  BY DEF Match!Init, MatchInv, MatchTypes, Match!OneResultCounts, Row, Write, Plain,
     Match!Nothing, Match!Sides,
         Match!OPEN_STATUSES, Match!Decided, Match!Desks

\* Begin: a request that has read changes nothing but what waits on its desk.
LEMMA BeginKeeps ==
  ASSUME MatchInv, NEW d \in Match!Desks, NEW w \in Write, Match!Begin(d, w)
  PROVE  MatchInv'
  BY DEF MatchInv, MatchTypes, Match!OneResultCounts, Match!Begin

\* Written: a write of the row keeps its type and never decides the match.
LEMMA WrittenIsTyped ==
  ASSUME NEW row \in Row, NEW w \in Write, w.op \notin {"NONE", "SETTLE", "WALKOVER", "PROOF"}
  PROVE  /\ Match!Written(row, w) \in Row
         /\ Match!Written(row, w).status \in Match!Decided => row.status \in Match!Decided
<1> USE DEF Row, Match!Sides, Match!OPEN_STATUSES, Match!Decided
<1>1. CASE w \in [op: OfASide, side: Match!Sides]
  <2>1. CASE w.op = "PROPOSE"  BY <1>1, <2>1 DEF Match!Written
  <2>2. CASE w.op = "TALK"  BY <1>1, <2>2 DEF Match!Written
  <2>3. CASE w.op = "CLAIM"  BY <1>1, <2>3 DEF Match!Written
  <2>4. CASE w.op = "GRACE"  BY <1>1, <2>4 DEF Match!Written
  <2>5. CASE w.op = "READY"  BY <1>1, <2>5 DEF Match!Written
  <2>6. CASE w.op = "NOT_READY"  BY <1>1, <2>6 DEF Match!Written
  <2> QED BY <1>1, <2>1, <2>2, <2>3, <2>4, <2>5, <2>6 DEF OfASide
<1>2. CASE w \in [op: Plain]
  <2>1. CASE w.op = "SCHEDULE"  BY <2>1 DEF Match!Written
  <2>2. CASE w.op = "REFUSE"  BY <2>2 DEF Match!Written
  <2>3. CASE w.op = "DISPUTE"  BY <2>3 DEF Match!Written
  <2>4. CASE w.op = "REJECT_AUDIT"  BY <2>4 DEF Match!Written
  <2>5. CASE w.op = "REOPEN"  BY <2>5 DEF Match!Written
  <2>6. CASE w.op = "REVIEW_UNREPORTED"  BY <2>6 DEF Match!Written
  <2> QED BY <1>2, <2>1, <2>2, <2>3, <2>4, <2>5, <2>6 DEF Plain
<1>3. CASE w \in [op: {"AUDIT"}, audit: {"PENDING", "MUST_COUNT"}]
  BY <1>3 DEF Match!Written
<1> QED BY <1>1, <1>2, <1>3 DEF Write

\* A handler that has written its row leaves its desk.
LEMMA PutIsTyped ==
  ASSUME MatchTypes, NEW d \in Match!Desks, Match!Put(d)
  PROVE  writes' \in [Match!Desks -> Write]
  BY DEF MatchTypes, Match!Put, Match!Nothing, Write, Plain

\* WriteMatch: a decided match that is written open again is counted as opened again.
LEMMA WriteMatchKeeps ==
  ASSUME MatchInv, NEW row \in Row, row.status \in Match!Decided => match.status \in Match!Decided,
         Match!WriteMatch(row), counted' = counted, NEW d \in Match!Desks, Match!Put(d)
  PROVE  MatchInv'
<1>1. /\ match' = row
      /\ reopened' = IF match.status \in Match!Decided /\ match'.status \notin Match!Decided
                     THEN reopened + 1 ELSE reopened
  BY DEF Match!WriteMatch, Match!Reopens
<1>2. MatchTypes'
  BY <1>1, PutIsTyped DEF MatchInv, MatchTypes
<1>3. Match!OneResultCounts'
  BY <1>1 DEF MatchInv, MatchTypes, Match!OneResultCounts
<1> QED BY <1>2, <1>3 DEF MatchInv

\* WriteRow writes a typed row that decides nothing.
LEMMA WriteRowKeeps ==
  ASSUME MatchInv, NEW d \in Match!Desks, Match!WriteRow(d)
  PROVE  MatchInv'
<1>1. /\ match \in Row /\ writes[d] \in Write
      /\ writes[d].op \notin {"NONE", "SETTLE", "WALKOVER", "PROOF"}
  BY DEF MatchInv, MatchTypes, Match!WriteRow
<1>2. Match!WriteMatch(Match!Written(match, writes[d])) /\ counted' = counted /\ Match!Put(d)
  BY DEF Match!WriteRow
<1> QED BY <1>1, <1>2, WrittenIsTyped, WriteMatchKeeps

\* SendProof waits for a reading, and decides nothing.
LEMMA SendProofKeeps ==
  ASSUME MatchInv, NEW d \in Match!Desks, Match!SendProof(d)
  PROVE  MatchInv'
<1> DEFINE row == [match EXCEPT !.status = "AWAITING_PROOF"]
<1>1. row \in Row /\ row.status \notin Match!Decided
  BY DEF MatchInv, MatchTypes, Row, Match!OPEN_STATUSES, Match!Decided
<1>2. Match!WriteMatch(row) /\ counted' = counted /\ Match!Put(d)
  BY DEF Match!SendProof
<1> HIDE DEF row
<1> QED BY <1>1, <1>2, WriteMatchKeeps

\* Decide: an open match is claimed in the step that counts it.
LEMMA DecideKeeps ==
  ASSUME MatchInv, NEW d \in Match!Desks, Match!Decide(d)
  PROVE  MatchInv'
<1>1. /\ match' \in Row /\ match'.status \in Match!Decided /\ match.status \notin Match!Decided
      /\ counted' = counted + 1 /\ reopened' = reopened
  BY DEF MatchInv, MatchTypes, Match!Decide, Row, Match!OPEN_STATUSES, Match!Decided
<1>2. MatchTypes'
  BY <1>1, PutIsTyped DEF MatchInv, MatchTypes, Match!Decide
<1>3. Match!OneResultCounts'
  BY <1>1 DEF MatchInv, MatchTypes, Match!OneResultCounts
<1> QED BY <1>2, <1>3 DEF MatchInv
-----------------------------------------------------------------------------
\* The requests of people: whatever stops them, what they write is a write.
Asks(d) ==
  \/ \E s \in Match!Sides : \/ Match!proposeSchedule(d, s) \/ Match!respondSchedule(d, s)
                               \/ Match!postMessage(d, s)
                            \/ Match!claimResult(d, s) \/ Match!respondClaim(d, s)
                               \/ Match!requestGrace(d, s)
                            \/ Match!setReady(d, s) \/ Match!forfeit(d, s)
  \/ Match!requestReview(d) \/ Match!resolveReview(d) \/ Match!rejectEaAudit(d)
     \/ Match!checkEaResult(d) \/ Match!report(d)
  \/ Match!reportWithoutImage(d)

\* Every request of a team or of the organisation only begins a write.
LEMMA RequestBegins ==
  ASSUME NEW d \in Match!Desks, Asks(d)
  PROVE  \E w \in Write : Match!Begin(d, w)
<1>1. ASSUME NEW s \in Match!Sides,
             \/ Match!proposeSchedule(d, s) \/ Match!respondSchedule(d, s) \/ Match!postMessage(d, s)
             \/ Match!claimResult(d, s) \/ Match!respondClaim(d, s) \/ Match!requestGrace(d, s)
             \/ Match!setReady(d, s) \/ Match!forfeit(d, s)
      PROVE  \E w \in Write : Match!Begin(d, w)
  <2> DEFINE Sided(op) == [op |-> op, side |-> s]
             Alone(op) == [op |-> op]
             Settle    == [op |-> "SETTLE", from |-> "TEAM"]
  <2>1. /\ \A op \in OfASide : Sided(op) \in Write
        /\ \A op \in Plain : Alone(op) \in Write
        /\ Settle \in Write
    BY DEF Write, Sources
  <2>2. \/ \E op \in OfASide : Match!Begin(d, Sided(op))
        \/ \E op \in Plain : Match!Begin(d, Alone(op))
        \/ Match!Begin(d, Settle)
    BY <1>1 DEF Match!proposeSchedule, Match!respondSchedule, Match!postMessage,
       Match!claimResult, Match!respondClaim,
                Match!requestGrace, Match!setReady, Match!forfeit, OfASide, Plain
  <2> HIDE DEF Sided, Alone, Settle
  <2> QED BY <2>1, <2>2
<1>2. CASE Match!requestReview(d) \/ Match!rejectEaAudit(d) \/ Match!report(d)
  <2>1. \A op \in {"DISPUTE", "REJECT_AUDIT", "PROOF"} : [op |-> op] \in Write
    BY DEF Write, Plain
  <2> QED BY <1>2, <2>1 DEF Match!requestReview, Match!rejectEaAudit, Match!report
<1>3. CASE Match!resolveReview(d) \/ Match!checkEaResult(d) \/ Match!reportWithoutImage(d)
  <2>1. \A f \in Sources : [op |-> "SETTLE", from |-> f] \in Write
    BY DEF Write
  <2> QED BY <1>3, <2>1 DEF Match!resolveReview, Match!checkEaResult, Match!reportWithoutImage,
             Sources
<1> QED BY <1>1, <1>2, <1>3 DEF Asks

\* The synchronisation with EA and the cron of the deadlines begin a write too.
LEMMA CronBegins ==
  /\ Match!synchronizeTournamentEaMatches => \E w \in Write : Match!Begin("ea", w)
  /\ Match!resolveDeadlines => \E w \in Write : Match!Begin("deadlines", w)
<1>1. /\ [op |-> "SETTLE", from |-> "EA"] \in Write
      /\ \A a \in {"PENDING", "MUST_COUNT"} : [op |-> "AUDIT", audit |-> a] \in Write
  BY DEF Write, Sources
<1>2. \A op \in {"REVIEW_UNREPORTED", "DISPUTE", "WALKOVER"} : [op |-> op] \in Write
  BY DEF Write, Plain
<1> QED BY <1>1, <1>2 DEF Match!synchronizeTournamentEaMatches, Match!resolveDeadlines

\* The steps of a proof that was sent leave the match alone, and touch a desk only to settle.
ProofSteps ==
  \/ Match!processProof \/ Match!processProofUnread \/ Match!LockGrowsOld
     \/ Match!ProofIsRead
  \/ Match!ReadingFails \/ Match!Restart
  \/ \E d \in Reporters : Match!ProofIsApproved(d) \/ Match!review(d)

\* Nothing that happens to a proof counts a result.
LEMMA ProofKeeps ==
  ASSUME MatchInv, ProofSteps
  PROVE  MatchInv'
<1>1. CASE Match!processProof \/ Match!processProofUnread \/ Match!LockGrowsOld
           \/ Match!ProofIsRead \/ Match!ReadingFails \/ Match!Restart
  BY <1>1 DEF MatchInv, MatchTypes, Match!OneResultCounts, Match!processProof,
     Match!processProofUnread, Match!LockGrowsOld,
              Match!ProofIsRead, Match!ReadingFails, Match!Restart, Match!ProofChanges
<1>2. ASSUME NEW d \in Reporters, Match!ProofIsApproved(d) \/ Match!review(d)  PROVE  MatchInv'
  <2>1. /\ [op |-> "SETTLE", from |-> "PROOF"] \in Write
        /\ [op |-> "REOPEN"] \in Write /\ Match!Nothing \in Write
    BY DEF Write, Sources, Plain, Match!Nothing
  <2>2. writes' \in [Match!Desks -> Write]
    BY <1>2, <2>1 DEF MatchInv, MatchTypes, Match!ProofIsApproved, Match!review
  <2> QED BY <1>2, <2>2 DEF MatchInv, MatchTypes, Match!OneResultCounts, Match!ProofIsApproved,
             Match!review
<1> QED BY <1>1, <1>2 DEF ProofSteps

\* Every step keeps the invariant.
LEMMA MatchStep == MatchInv /\ [Match!Next]_Match!vars => MatchInv'
<1> SUFFICES ASSUME MatchInv, [Match!Next]_Match!vars  PROVE MatchInv'
  OBVIOUS
<1>1. ASSUME NEW d \in Reporters, Asks(d)  PROVE MatchInv'
  BY <1>1, RequestBegins, BeginKeeps DEF Match!Desks
<1>2. CASE Match!synchronizeTournamentEaMatches \/ Match!resolveDeadlines
  BY <1>2, CronBegins, BeginKeeps DEF Match!Desks
<1>3. ASSUME NEW d \in Match!Desks, Match!WriteRow(d)  PROVE MatchInv'
  BY <1>3, WriteRowKeeps
<1>4. ASSUME NEW d \in Match!Desks, Match!Decide(d) \/ Match!SendProof(d)  PROVE MatchInv'
  BY <1>4, DecideKeeps, SendProofKeeps
<1>5. ASSUME NEW d \in Match!Desks, Match!DecideTooLate(d) \/ Match!ProofRefused(d)  PROVE MatchInv'
  BY <1>5, PutIsTyped DEF MatchInv, MatchTypes, Match!OneResultCounts, Match!DecideTooLate,
     Match!ProofRefused
<1>6. CASE Match!Late
  BY <1>6 DEF MatchInv, MatchTypes, Match!OneResultCounts, Match!Late
<1>7. CASE ProofSteps
  BY <1>7, ProofKeeps
<1>8. CASE UNCHANGED Match!vars
  BY <1>8 DEF MatchInv, MatchTypes, Match!OneResultCounts, Match!vars
<1> QED
  BY <1>1, <1>2, <1>3, <1>4, <1>5, <1>6, <1>7, <1>8 DEF Match!Next, Asks, ProofSteps, Match!Desks

\* A match is counted once, and once more for each time it was opened again.
LEMMA MatchShows == MatchInv => Match!OneResultCounts
  BY DEF MatchInv
-----------------------------------------------------------------------------
(* A season is closed by its own champions.                                  *)

SeasonBounds == MaxSeasons \in Nat /\ Clients \cap Admins = {}

Readers == Clients \cup Admins
Seasons == [ended: BOOLEAN, champions: SUBSET Nat, crossed: BOOLEAN]
CustomMatch == [date: Nat, finished: BOOLEAN]
Reading == [step: {"none", "cache", "query", "keep", "done"}, start: Nat, data: SUBSET Nat]
Closing == [step: {"none", "ranking", "close", "last", "open", "forget"}, read: Nat,
            top: SUBSET Nat, season: Nat, last: Nat]
SeasonTypes == /\ seasons \in Seq(Seasons) /\ matches \in Seq(CustomMatch)
               /\ cache \in [0 .. MaxSeasons -> SUBSET Nat]
               /\ reading \in [Readers -> Reading]
               /\ closing \in [Admins -> Closing] /\ overlapped \in BOOLEAN

\* The seasons are 1 to Last; a match is as old as a season there has been.
Last == Len(seasons)
DatesArePast == Last <= MaxSeasons /\ \A m \in DOMAIN matches : matches[m].date <= Last

\* A ranking counts since season k; it is one of season k.
Since(ms, data, k) ==
  data # Ranking!Nothing => \A m \in data : m \in DOMAIN ms /\ ms[m].finished /\ ms[m].date >= k
RankingOf(ms, data, k) ==
  data # Ranking!Nothing => \A m \in data : m \in DOMAIN ms /\ ms[m].finished /\ ms[m].date = k

\* What is kept and what is read counts since the season it is kept under and read for.
KeptIsSound == \A k \in 0 .. MaxSeasons : Since(matches, cache[k], k)
ReadSound(ms, r) ==
  r.start \in 0 .. MaxSeasons /\ (r.step \in {"keep", "done"} => Since(ms, r.data, r.start))
ReadIsSound == \A c \in Readers : ReadSound(matches, reading[c])

\* Who closes has read the ranking of the season he says; nobody else's is closed uncrossed.
AsItRead == \A a \in Admins : closing[a].step = "ranking" => reading[a].start = closing[a].read
ToCloseRight ==
  \A a \in Admins : LET c == closing[a] IN
    c.step = "close" => /\ c.season \in DOMAIN seasons
                        /\ c.read = c.season /\ c.last = c.season => RankingOf(matches, c.top, c.season)
ClosedRight ==
  \A k \in DOMAIN seasons : ~seasons[k].crossed => RankingOf(matches, seasons[k].champions, k)

\* What a lone command has found: nothing changes under it.
Alone(c) ==
  /\ c.step = "ranking" => c.read = Ranking!getActiveSeasonStart
  /\ c.step = "close" => c.season = Last /\ c.last = Last /\ c.read = Last
  /\ c.step \in {"last", "open"} => Ranking!Open = {}
OneAtATime ==
  ~overlapped =>
    /\ \A a, b \in Admins : closing[a].step # "none" /\ closing[b].step # "none" => a = b
    /\ \A a \in Admins : Alone(closing[a])
    /\ \A k \in DOMAIN seasons : ~seasons[k].crossed /\ (k < Last => seasons[k].ended)

SeasonInv == SeasonTypes /\ DatesArePast /\ KeptIsSound /\ ReadIsSound /\ AsItRead /\ ToCloseRight
  /\ ClosedRight /\ OneAtATime
-----------------------------------------------------------------------------
\* Finitely many numbers, if there are any, have a greatest one.
LEMMA HasGreatest ==
  ASSUME NEW n \in Nat, NEW S \in SUBSET (1 .. n), S # {}
  PROVE  \E m \in S : \A j \in S : j <= m
<1> DEFINE Good == {k \in Nat : \A T \in SUBSET (1 .. k) :
                      T # {} => \E m \in T : \A j \in T : j <= m}
<1>1. 0 \in Good
  <2>1. 1 .. 0 = {}
    OBVIOUS
  <2> QED BY <2>1
<1>2. ASSUME NEW k \in Good  PROVE k + 1 \in Good
  <2> SUFFICES ASSUME NEW T \in SUBSET (1 .. k + 1), T # {}
               PROVE  \E m \in T : \A j \in T : j <= m
    OBVIOUS
  <2>1. CASE k + 1 \in T
    BY <2>1
  <2>2. CASE k + 1 \notin T
    <3>1. T \in SUBSET (1 .. k)
      BY <2>2
    <3> QED BY <3>1
  <2> QED BY <2>1, <2>2
<1>3. Good \in SUBSET Nat
  OBVIOUS
<1> HIDE DEF Good
<1>4. n \in Good
  BY <1>1, <1>2, <1>3, Induction
<1> QED BY <1>4 DEF Good

\* The active season is one of the seasons, or none; it is the last when all before it ended.
LEMMA TheActiveSeason ==
  ASSUME SeasonTypes
  PROVE  /\ Last \in Nat /\ DOMAIN seasons = 1 .. Last
         /\ Ranking!Open = {} => Ranking!getActiveSeasonStart = 0
         /\ Ranking!Open # {} => Ranking!getActiveSeasonStart \in Ranking!Open
         /\ Ranking!getActiveSeasonStart \in 0 .. Last
<1>1. Last \in Nat /\ DOMAIN seasons = 1 .. Last
  BY DEF SeasonTypes, Last
<1>2. Ranking!Open = {} => Ranking!getActiveSeasonStart = 0
  BY DEF Ranking!getActiveSeasonStart, Ranking!AllTime
<1>3. ASSUME Ranking!Open # {}  PROVE Ranking!getActiveSeasonStart \in Ranking!Open
  <2>1. PICK n \in Ranking!Open : \A j \in Ranking!Open : j <= n
    <3>1. Ranking!Open \in SUBSET (1 .. Last)
      BY <1>1 DEF Ranking!Open
    <3> QED BY <1>1, <1>3, <3>1, HasGreatest
  <2> QED BY <1>3, <2>1 DEF Ranking!getActiveSeasonStart
<1>4. Ranking!getActiveSeasonStart \in 0 .. Last
  <2>1. Ranking!Open \in SUBSET (1 .. Last)
    BY <1>1 DEF Ranking!Open
  <2>2. CASE Ranking!Open = {}
    BY <1>1, <1>2, <2>2
  <2>3. CASE Ranking!Open # {}
    <3>1. Ranking!getActiveSeasonStart \in 1 .. Last
      BY <1>3, <2>1, <2>3
    <3> QED BY <1>1, <3>1
  <2> QED BY <2>2, <2>3
<1> QED BY <1>1, <1>2, <1>3, <1>4

\* While all seasons before the last have ended, the active one is the last or none.
LEMMA TheLastIsOpen ==
  ASSUME SeasonTypes, \A k \in DOMAIN seasons : k < Last => seasons[k].ended, Ranking!Open # {}
  PROVE  Ranking!getActiveSeasonStart = Last
<1>1. /\ Last \in Nat /\ DOMAIN seasons = 1 .. Last
      /\ Ranking!getActiveSeasonStart \in Ranking!Open
  BY TheActiveSeason
<1> QED BY <1>1 DEF Ranking!Open

\* A ranking stays sound while matches are only created and finished.
LEMMA SoundStays ==
  ASSUME NEW data, NEW k,
         \A m \in DOMAIN matches : /\ m \in DOMAIN matches' /\ matches'[m].date = matches[m].date
                                   /\ matches[m].finished => matches'[m].finished
  PROVE  /\ RankingOf(matches, data, k) => RankingOf(matches', data, k)
         /\ Since(matches, data, k) => Since(matches', data, k)
BY DEF RankingOf, Since

\* What is counted now counts since that season.
LEMMA CountedIsSound ==
  ASSUME SeasonTypes, NEW k \in Nat
  PROVE  Ranking!Counted(k) \in SUBSET Nat /\ Since(matches, Ranking!Counted(k), k)
<1>1. DOMAIN matches \subseteq Nat
  <2>1. matches \in Seq(CustomMatch)
    BY DEF SeasonTypes
  <2> QED BY <2>1
<1> QED BY <1>1 DEF Ranking!Counted, Since

\* The custom matches.
LEMMA MatchesKeep ==
  ASSUME SeasonBounds, SeasonInv, Ranking!create \/ Ranking!finish
  PROVE  SeasonInv'
<1> USE DEF SeasonInv
<1>1. UNCHANGED <<seasons, cache, reading, closing, overlapped>> /\ Last' = Last
  BY DEF Ranking!create, Ranking!finish, Last
<1>2. /\ matches' \in Seq(CustomMatch)
      /\ \A m \in DOMAIN matches : /\ m \in DOMAIN matches' /\ matches'[m].date = matches[m].date
                                   /\ matches[m].finished => matches'[m].finished
      /\ \A m \in DOMAIN matches' : matches'[m].date <= Last
  <2>1. CASE Ranking!create
    <3>1. Last \in Nat
      BY TheActiveSeason
    <3>2. [date |-> Last, finished |-> FALSE] \in CustomMatch
      BY <3>1 DEF CustomMatch
    <3> DEFINE new == [date |-> Last, finished |-> FALSE]
    <3>3. matches' = Append(matches, new) /\ new \in CustomMatch /\ new.date = Last
      BY <2>1, <3>2 DEF Ranking!create, Last
    <3> HIDE DEF new
    <3>4. /\ matches' \in Seq(CustomMatch)
          /\ \A m \in DOMAIN matches : m \in DOMAIN matches' /\ matches'[m] = matches[m]
          /\ \A m \in DOMAIN matches' : m \in DOMAIN matches \/ matches'[m] = new
      BY <3>3 DEF SeasonTypes
    <3> QED BY <3>1, <3>3, <3>4 DEF DatesArePast
  <2>2. CASE Ranking!finish
    <3>1. PICK m \in DOMAIN matches : matches' = [matches EXCEPT ![m].finished = TRUE]
      BY <2>2 DEF Ranking!finish
    <3>2. matches[m] \in CustomMatch
      BY <3>1 DEF SeasonTypes
    <3> DEFINE new == [matches[m] EXCEPT !.finished = TRUE]
    <3>3. new \in CustomMatch /\ new.date = matches[m].date /\ new.finished
      BY <3>2 DEF CustomMatch
    <3>4. matches' = [matches EXCEPT ![m] = new]
      BY <3>1
    <3> HIDE DEF new
    <3>5. /\ matches' \in Seq(CustomMatch) /\ DOMAIN matches' = DOMAIN matches
          /\ matches'[m] = new /\ \A j \in DOMAIN matches \ {m} : matches'[j] = matches[j]
      BY <3>3, <3>4 DEF SeasonTypes
    <3> QED BY <3>3, <3>5 DEF DatesArePast
  <2> QED BY <2>1, <2>2
<1>3. SeasonTypes' /\ DatesArePast'
  BY <1>1, <1>2 DEF SeasonTypes, DatesArePast
<1>4. \A data, k : /\ RankingOf(matches, data, k) => RankingOf(matches', data, k)
                   /\ Since(matches, data, k) => Since(matches', data, k)
  BY <1>2, SoundStays
<1>5. KeptIsSound' /\ ReadIsSound' /\ ToCloseRight' /\ ClosedRight'
  BY <1>1, <1>4 DEF KeptIsSound, ReadIsSound, ReadSound, ToCloseRight, ClosedRight
<1>6. Ranking!Open' = Ranking!Open /\ Ranking!getActiveSeasonStart' = Ranking!getActiveSeasonStart
  BY <1>1 DEF Ranking!Open, Ranking!getActiveSeasonStart
<1>7. AsItRead' /\ OneAtATime'
  BY <1>1, <1>6 DEF AsItRead, OneAtATime, Alone
<1> QED BY <1>3, <1>5, <1>7

\* A reading with a new step and new data.
LEMMA ReadingChanges ==
  ASSUME NEW r \in Reading, NEW step \in {"none", "cache", "query", "keep", "done"},
         NEW data \in SUBSET Nat
  PROVE  /\ [[r EXCEPT !.step = step] EXCEPT !.data = data]
              = [step |-> step, start |-> r.start, data |-> data]
         /\ [r EXCEPT !.step = step] = [step |-> step, start |-> r.start, data |-> r.data]
         /\ [step |-> step, start |-> r.start, data |-> data] \in Reading
<1>1. r = [step |-> r.step, start |-> r.start, data |-> r.data] /\ r.start \in Nat
  BY DEF Reading
<1>2. [r EXCEPT !.step = step] = [step |-> step, start |-> r.start, data |-> r.data]
  BY <1>1
<1>3. [[step |-> step, start |-> r.start, data |-> r.data] EXCEPT !.data = data]
        = [step |-> step, start |-> r.start, data |-> data]
  OBVIOUS
<1>4. [step |-> step, start |-> r.start, data |-> data] \in Reading
  BY <1>1 DEF Reading
<1> QED BY <1>2, <1>3, <1>4

\* While seasons, matches and commands stay, only the rankings have to be looked at.
LEMMA ReadersKeep ==
  ASSUME SeasonInv, UNCHANGED <<seasons, matches, closing, overlapped>>,
         cache' \in [0 .. MaxSeasons -> SUBSET Nat], reading' \in [Readers -> Reading],
         KeptIsSound', ReadIsSound', AsItRead'
  PROVE  SeasonInv'
<1> USE DEF SeasonInv
<1>1. Last' = Last /\ Ranking!Open' = Ranking!Open
      /\ Ranking!getActiveSeasonStart' = Ranking!getActiveSeasonStart
  BY DEF Last, Ranking!Open, Ranking!getActiveSeasonStart
<1>2. SeasonTypes' /\ DatesArePast' /\ ToCloseRight' /\ ClosedRight'
  BY <1>1 DEF SeasonTypes, DatesArePast, ToCloseRight, ClosedRight
<1>3. OneAtATime'
  BY <1>1 DEF OneAtATime, Alone
<1> QED BY <1>2, <1>3

\* One reader's reading goes on.
LEMMA OneReads ==
  ASSUME SeasonInv, UNCHANGED <<seasons, matches, closing, overlapped>>, NEW c \in Readers,
         NEW rec \in Reading, reading' = [reading EXCEPT ![c] = rec], ReadSound(matches, rec),
         c \in Admins => rec.start = reading[c].start,
         cache' \in [0 .. MaxSeasons -> SUBSET Nat],
         \A k \in 0 .. MaxSeasons : cache'[k] = cache[k] \/ Since(matches, cache'[k], k)
  PROVE  SeasonInv'
<1>1. reading' \in [Readers -> Reading] /\ reading'[c] = rec
      /\ \A b \in Readers \ {c} : reading'[b] = reading[b]
  BY DEF SeasonInv, SeasonTypes
<1>2. KeptIsSound' /\ ReadIsSound'
  BY <1>1 DEF SeasonInv, KeptIsSound, ReadIsSound
<1>3. AsItRead'
  BY <1>1 DEF SeasonInv, AsItRead, Readers
<1> QED BY <1>1, <1>2, <1>3, ReadersKeep

\* A ranking goes from the query to the cache and from the cache to a reader.
LEMMA RankingKeeps ==
  ASSUME SeasonBounds, SeasonInv,
         \/ \E c \in Clients : Ranking!getLeaderboardForServer(c)
         \/ \E c \in DOMAIN reading : Ranking!Reader(c)
         \/ Ranking!Expire
  PROVE  SeasonInv'
<1>1. /\ UNCHANGED <<seasons, matches, closing, overlapped>> /\ DOMAIN reading = Readers
      /\ cache \in [0 .. MaxSeasons -> SUBSET Nat] /\ Ranking!Nothing \in SUBSET Nat
      /\ \A k : Since(matches, Ranking!Nothing, k)
  <2>1. UNCHANGED <<seasons, matches, closing, overlapped>>
    BY DEF Ranking!getLeaderboardForServer, Ranking!Reader, Ranking!fromCache, Ranking!Query,
       Ranking!toCache, Ranking!Answered, Ranking!Expire
  <2>2. \A k : Since(matches, Ranking!Nothing, k)
    BY DEF Since
  <2> QED BY <2>1, <2>2 DEF SeasonInv, SeasonTypes, Ranking!Nothing
<1>2. Last \in Nat /\ Last <= MaxSeasons
  BY TheActiveSeason DEF SeasonInv, DatesArePast
<1>3. ASSUME NEW c \in Readers
      PROVE  /\ reading[c] \in Reading /\ reading[c].start \in 0 .. MaxSeasons
             /\ ReadSound(matches, reading[c]) /\ reading[c].data \in SUBSET Nat
  BY DEF SeasonInv, SeasonTypes, ReadIsSound, ReadSound, Reading
<1>4. ASSUME NEW c \in Clients, Ranking!getLeaderboardForServer(c)  PROVE SeasonInv'
  <2> DEFINE rec == [step |-> "cache", start |-> Ranking!getActiveSeasonStart, data |-> Ranking!Nothing]
  <2>1. Ranking!getActiveSeasonStart \in 0 .. MaxSeasons
    BY <1>2, TheActiveSeason DEF SeasonInv, SeasonBounds
  <2>2. rec \in Reading /\ ReadSound(matches, rec)
    BY <1>1, <2>1 DEF Reading, ReadSound
  <2>3. reading' = [reading EXCEPT ![c] = rec] /\ c \notin Admins /\ UNCHANGED cache /\ c \in Readers
    BY <1>4 DEF Ranking!getLeaderboardForServer, Readers, SeasonBounds
  <2> HIDE DEF rec
  <2> QED BY <1>1, <2>2, <2>3, OneReads
<1>5. ASSUME NEW c \in Readers, Ranking!fromCache(c)  PROVE SeasonInv'
  <2> DEFINE k == reading[c].start
             kept == cache[k]
             step == IF kept = Ranking!Nothing THEN "query" ELSE "done"
             rec == [step |-> step, start |-> k, data |-> kept]
  <2>1. k \in 0 .. MaxSeasons /\ reading[c] \in Reading
    BY <1>3
  <2>2. kept \in SUBSET Nat /\ Since(matches, kept, k)
    BY <2>1 DEF SeasonInv, SeasonTypes, KeptIsSound
  <2>3. step \in {"none", "cache", "query", "keep", "done"}
    OBVIOUS
  <2>4. [[reading[c] EXCEPT !.step = step] EXCEPT !.data = kept] = rec /\ rec \in Reading
    <3>1. CASE kept = Ranking!Nothing
      <4>1. step = "query"
        BY <3>1
      <4> HIDE DEF step, kept
      <4> QED BY <2>1, <2>2, <4>1, ReadingChanges
    <3>2. CASE kept # Ranking!Nothing
      <4>1. step = "done"
        BY <3>2
      <4> HIDE DEF step, kept
      <4> QED BY <2>1, <2>2, <4>1, ReadingChanges
    <3> QED BY <3>1, <3>2
  <2>5. reading' = [reading EXCEPT ![c] = rec] /\ UNCHANGED cache
    BY <1>1, <1>5, <2>4 DEF Ranking!fromCache, Ranking!cacheKey
  <2>6. ReadSound(matches, rec) /\ rec.start = reading[c].start
    <3> HIDE DEF step, kept
    <3> QED BY <2>1, <2>2 DEF ReadSound
  <2> HIDE DEF rec, step, k, kept
  <2> QED BY <1>1, <2>4, <2>5, <2>6, OneReads
<1>6. ASSUME NEW c \in Readers, Ranking!Query(c)  PROVE SeasonInv'
  <2> DEFINE k == reading[c].start
             rec == [step |-> "keep", start |-> k, data |-> Ranking!Counted(k)]
  <2>1. k \in 0 .. MaxSeasons /\ k \in Nat /\ reading[c] \in Reading
    BY <1>3 DEF SeasonBounds
  <2>2. Ranking!Counted(k) \in SUBSET Nat /\ Since(matches, Ranking!Counted(k), k)
    BY <2>1, CountedIsSound DEF SeasonInv
  <2>3. [[reading[c] EXCEPT !.step = "keep"] EXCEPT !.data = Ranking!Counted(k)] = rec /\ rec \in Reading
    BY <2>1, <2>2, ReadingChanges
  <2>4. reading' = [reading EXCEPT ![c] = rec] /\ UNCHANGED cache
    BY <1>1, <1>6, <2>3 DEF Ranking!Query
  <2>5. ReadSound(matches, rec) /\ rec.start = reading[c].start
    BY <2>1, <2>2 DEF ReadSound
  <2> HIDE DEF rec, k
  <2> QED BY <1>1, <2>3, <2>4, <2>5, OneReads
<1>7. ASSUME NEW c \in Readers, Ranking!toCache(c)  PROVE SeasonInv'
  <2> DEFINE k == reading[c].start
             data == reading[c].data
             rec == [step |-> "done", start |-> k, data |-> data]
  <2>1. k \in 0 .. MaxSeasons /\ reading[c] \in Reading /\ data \in SUBSET Nat
    BY <1>3
  <2>2. reading[c].step = "keep" /\ Since(matches, data, k)
    BY <1>3, <1>7 DEF Ranking!toCache, ReadSound
  <2>3. [reading[c] EXCEPT !.step = "done"] = rec /\ rec \in Reading
    <3> HIDE DEF data
    <3>1. reading[c].data = data
      BY DEF data
    <3> QED BY <2>1, <3>1, ReadingChanges
  <2>4. reading' = [reading EXCEPT ![c] = rec] /\ cache' = [cache EXCEPT ![k] = data]
    BY <1>1, <1>7, <2>3 DEF Ranking!toCache, Ranking!cacheKey
  <2>5. ReadSound(matches, rec) /\ rec.start = reading[c].start
    BY <2>1, <2>2 DEF ReadSound
  <2>6. /\ cache' \in [0 .. MaxSeasons -> SUBSET Nat]
        /\ \A j \in 0 .. MaxSeasons : cache'[j] = cache[j] \/ Since(matches, cache'[j], j)
    <3> HIDE DEF k, data, rec
    <3> QED BY <1>1, <2>1, <2>2, <2>4
  <2> HIDE DEF rec, k, data
  <2> QED BY <1>1, <2>3, <2>4, <2>5, <2>6, OneReads
<1>8. ASSUME NEW c \in Readers, Ranking!Answered(c)  PROVE SeasonInv'
  <2>1. Ranking!NoReading \in Reading /\ ReadSound(matches, Ranking!NoReading)
    BY DEF Ranking!NoReading, Reading, Ranking!Nothing, SeasonBounds, ReadSound
  <2>2. reading' = [reading EXCEPT ![c] = Ranking!NoReading] /\ c \notin Admins /\ UNCHANGED cache
    BY <1>8 DEF Ranking!Answered, SeasonBounds
  <2> QED BY <1>1, <2>1, <2>2, OneReads
<1>9. CASE Ranking!Expire
  <2>1. UNCHANGED reading /\ cache' \in [0 .. MaxSeasons -> SUBSET Nat]
        /\ \A k \in 0 .. MaxSeasons : cache'[k] \in {cache[k], Ranking!Nothing}
    <3>1. CASE \E start \in DOMAIN cache : cache' = [cache EXCEPT ![start] = Ranking!Nothing]
      BY <1>1, <1>9, <3>1 DEF Ranking!Expire
    <3>2. CASE cache' = [start \in DOMAIN cache |-> Ranking!Nothing]
      BY <1>1, <1>9, <3>2 DEF Ranking!Expire
    <3> QED BY <1>9, <3>1, <3>2 DEF Ranking!Expire
  <2>2. KeptIsSound'
    BY <1>1, <2>1 DEF SeasonInv, KeptIsSound
  <2>3. ReadIsSound' /\ AsItRead' /\ reading' \in [Readers -> Reading]
    BY <1>1, <2>1 DEF SeasonInv, SeasonTypes, ReadIsSound, AsItRead
  <2> QED BY <1>1, <2>1, <2>2, <2>3, ReadersKeep
<1> QED BY <1>1, <1>4, <1>5, <1>6, <1>7, <1>8, <1>9 DEF Ranking!Reader

\* A command goes on, and the seasons stay.
LEMMA CommandKeeps ==
  ASSUME SeasonInv, NEW a \in Admins, NEW c \in Closing, closing' = [closing EXCEPT ![a] = c],
         UNCHANGED <<seasons, matches>>, overlapped' \in BOOLEAN, overlapped => overlapped',
         cache' \in [0 .. MaxSeasons -> SUBSET Nat],
         \A k \in 0 .. MaxSeasons : cache'[k] \in {cache[k], Ranking!Nothing},
         reading' \in [Readers -> Reading], ReadIsSound',
         \A b \in Admins \ {a} : reading'[b] = reading[b],
         c.step = "ranking" => reading'[a].start = c.read,
         c.step = "close" => c.season \in DOMAIN seasons,
         c.step = "close" /\ c.read = c.season /\ c.last = c.season
           => RankingOf(matches, c.top, c.season),
         ~overlapped' => Alone(c) /\ (closing[a].step # "none" \/ c.step = "none"
                                      \/ \A b \in Admins : closing[b].step = "none")
  PROVE  SeasonInv'
<1> USE DEF SeasonInv
<1>1. Last' = Last /\ Ranking!Open' = Ranking!Open
      /\ Ranking!getActiveSeasonStart' = Ranking!getActiveSeasonStart
  BY DEF Last, Ranking!Open, Ranking!getActiveSeasonStart
<1>2. closing' \in [Admins -> Closing] /\ closing'[a] = c
      /\ \A b \in Admins \ {a} : closing'[b] = closing[b]
  BY DEF SeasonTypes
<1>3. SeasonTypes' /\ DatesArePast' /\ ClosedRight'
  BY <1>1, <1>2 DEF SeasonTypes, DatesArePast, ClosedRight
<1>4. KeptIsSound'
  BY DEF KeptIsSound, Since
<1>5. AsItRead'
  BY <1>2 DEF AsItRead
<1>6. ToCloseRight'
  BY <1>2 DEF ToCloseRight
<1>7. OneAtATime'
  <2>1. SUFFICES ASSUME ~overlapped'
                 PROVE  /\ \A b, d \in Admins : closing'[b].step # "none" /\ closing'[d].step # "none" => b = d
                        /\ \A b \in Admins : Alone(closing'[b])
    BY <1>1 DEF OneAtATime, Alone
  <2>2. \A b, d \in Admins : closing'[b].step # "none" /\ closing'[d].step # "none" => b = d
    BY <1>2, <2>1 DEF OneAtATime
  <2>3. \A b \in Admins : Alone(closing'[b])
    BY <1>2, <2>1 DEF OneAtATime
  <2> QED BY <2>2, <2>3
<1> QED BY <1>3, <1>4, <1>5, <1>6, <1>7

\* A command reads, forgets the rankings, or is over.
LEMMA CommandsKeep ==
  ASSUME SeasonBounds, SeasonInv, NEW a \in Admins,
         Ranking!onTemporada(a) \/ Ranking!getActive(a) \/ Ranking!lastSeason(a)
           \/ Ranking!invalidateServer(a)
  PROVE  SeasonInv'
<1>1. /\ Last \in Nat /\ DOMAIN seasons = 1 .. Last /\ Last <= MaxSeasons
      /\ Ranking!Open = {} => Ranking!getActiveSeasonStart = 0
      /\ Ranking!Open # {} => Ranking!getActiveSeasonStart \in Ranking!Open
      /\ Ranking!getActiveSeasonStart \in 0 .. Last
  BY TheActiveSeason DEF SeasonInv, DatesArePast
<1>2. /\ a \in Readers /\ reading \in [Readers -> Reading] /\ closing \in [Admins -> Closing]
      /\ cache \in [0 .. MaxSeasons -> SUBSET Nat] /\ closing[a] \in Closing /\ reading[a] \in Reading
      /\ overlapped \in BOOLEAN
  BY DEF Readers, SeasonInv, SeasonTypes
<1>3. /\ Ranking!Nothing \in SUBSET Nat /\ Ranking!NoReading \in Reading
      /\ ReadSound(matches, Ranking!NoReading)
      /\ Ranking!NoClosing \in Closing /\ Ranking!NoClosing.step = "none"
  BY DEF Ranking!NoReading, Reading, Ranking!Nothing, SeasonBounds, ReadSound, Ranking!NoClosing, Closing
<1>4. CASE Ranking!onTemporada(a)
  <2> DEFINE rec == [step |-> "cache", data |-> Ranking!Nothing, start |-> Ranking!getActiveSeasonStart]
             c == [Ranking!NoClosing EXCEPT !.step = "ranking", !.read = Ranking!getActiveSeasonStart]
  <2>1. /\ rec \in Reading /\ ReadSound(matches, rec) /\ rec.start = Ranking!getActiveSeasonStart
    BY <1>1, <1>3 DEF Reading, ReadSound, SeasonBounds
  <2>2. c \in Closing /\ c.step = "ranking" /\ c.read = Ranking!getActiveSeasonStart
    <3>1. Ranking!getActiveSeasonStart \in Nat
      BY <1>1
    <3> QED BY <1>3, <3>1 DEF Closing, Ranking!NoClosing
  <2>3. /\ closing' = [closing EXCEPT ![a] = c] /\ reading' = [reading EXCEPT ![a] = rec]
        /\ overlapped' = (overlapped \/ \E b \in Admins : closing[b].step # "none")
        /\ UNCHANGED <<seasons, matches, cache>>
    BY <1>4 DEF Ranking!onTemporada
  <2> HIDE DEF rec, c
  <2>4. /\ reading' \in [Readers -> Reading] /\ reading'[a] = rec
        /\ \A b \in Readers \ {a} : reading'[b] = reading[b]
    BY <1>2, <2>1, <2>3
  <2>5. ReadIsSound' /\ \A b \in Admins \ {a} : reading'[b] = reading[b]
    BY <2>1, <2>3, <2>4 DEF SeasonInv, ReadIsSound, Readers
  <2>6. Alone(c)
    BY <2>2 DEF Alone
  <2>7. overlapped' \in BOOLEAN /\ (overlapped => overlapped')
        /\ (~overlapped' => \A b \in Admins : closing[b].step = "none")
    BY <1>2, <2>3, Zenon
  <2> QED BY <1>2, <2>1, <2>2, <2>3, <2>4, <2>5, <2>6, <2>7, CommandKeeps
<1>5. CASE Ranking!getActive(a)
  <2>1. /\ closing[a].step = "ranking" /\ reading[a].step = "done"
        /\ reading' = [reading EXCEPT ![a] = Ranking!NoReading]
        /\ UNCHANGED <<seasons, matches, cache, overlapped>>
    BY <1>5 DEF Ranking!getActive
  <2>2. /\ reading' \in [Readers -> Reading] /\ reading'[a] = Ranking!NoReading
        /\ \A b \in Readers \ {a} : reading'[b] = reading[b]
    BY <1>2, <1>3, <2>1
  <2>3. ReadIsSound' /\ \A b \in Admins \ {a} : reading'[b] = reading[b]
    BY <1>3, <2>1, <2>2 DEF SeasonInv, ReadIsSound, Readers
  <2>4. CASE Ranking!Open = {}
    <3> DEFINE c == [Ranking!NoClosing EXCEPT !.step = "last"]
    <3>1. c \in Closing /\ c.step = "last"
      BY <1>3 DEF Closing, Ranking!NoClosing
    <3>2. closing' = [closing EXCEPT ![a] = c]
      BY <1>5, <2>4 DEF Ranking!getActive
    <3> HIDE DEF c
    <3>3. Alone(c)
      BY <2>4, <3>1 DEF Alone
    <3> QED BY <1>2, <2>1, <2>2, <2>3, <3>1, <3>2, <3>3, CommandKeeps
  <2>5. CASE Ranking!Open # {}
    <3> DEFINE top == reading[a].data
               s == Ranking!getActiveSeasonStart
               c == [step |-> "close", read |-> closing[a].read, top |-> top,
                     season |-> s, last |-> Last]
    <3>1. s \in 1 .. Last /\ top \in SUBSET Nat /\ closing[a].read \in Nat
      BY <1>1, <1>2, <2>5 DEF Ranking!Open, Reading, Closing
    <3>2. c \in Closing
      BY <1>1, <3>1 DEF Closing
    <3>3. closing' = [closing EXCEPT ![a] = c]
      BY <1>5, <2>5 DEF Ranking!getActive, Last
    <3>4. reading[a].start = closing[a].read /\ Since(matches, top, closing[a].read)
      BY <1>2, <2>1 DEF SeasonInv, AsItRead, ReadIsSound, ReadSound
    <3>5. \A m \in DOMAIN matches : matches[m].date \in Nat /\ matches[m].date <= Last
      <4>1. matches \in Seq(CustomMatch)
        BY DEF SeasonInv, SeasonTypes
      <4>2. \A m \in DOMAIN matches : matches[m] \in CustomMatch
        BY <4>1
      <4> QED BY <4>2 DEF CustomMatch, SeasonInv, DatesArePast
    <3>6. c.read = c.season /\ c.last = c.season => RankingOf(matches, c.top, c.season)
      BY <1>1, <3>1, <3>4, <3>5 DEF Since, RankingOf
    <3>7. c.step = "close" /\ c.season \in DOMAIN seasons
      BY <1>1, <3>1
    <3>8. ASSUME ~overlapped  PROVE Alone(c)
      <4>1. closing[a].read = s
        BY <2>1, <3>8 DEF SeasonInv, OneAtATime, Alone
      <4>2. s = Last
        BY <2>5, <3>8, TheLastIsOpen DEF SeasonInv, OneAtATime
      <4> QED BY <4>1, <4>2 DEF Alone
    <3> HIDE DEF c
    <3> QED BY <1>2, <2>1, <2>2, <2>3, <3>2, <3>3, <3>6, <3>7, <3>8, CommandKeeps
  <2> QED BY <2>4, <2>5
<1>6. CASE Ranking!lastSeason(a)
  <2> DEFINE c == [closing[a] EXCEPT !.step = "open", !.last = Last]
  <2>1. /\ closing[a].step = "last" /\ closing' = [closing EXCEPT ![a] = c]
        /\ UNCHANGED <<seasons, matches, cache, reading, overlapped>>
    BY <1>2, <1>6 DEF Ranking!lastSeason, Last
  <2>2. c \in Closing /\ c.step = "open"
    BY <1>1, <1>2 DEF Closing
  <2> HIDE DEF c
  <2>3. ~overlapped => Alone(c)
    BY <2>1, <2>2 DEF SeasonInv, OneAtATime, Alone
  <2>4. ReadIsSound'
    BY <2>1 DEF SeasonInv, ReadIsSound
  <2> QED BY <1>2, <2>1, <2>2, <2>3, <2>4, CommandKeeps
<1>7. CASE Ranking!invalidateServer(a)
  <2>1. /\ closing[a].step = "forget" /\ closing' = [closing EXCEPT ![a] = Ranking!NoClosing]
        /\ cache' = [start \in DOMAIN cache |-> Ranking!Nothing]
        /\ UNCHANGED <<seasons, matches, reading, overlapped>>
    BY <1>7 DEF Ranking!invalidateServer
  <2>2. cache' \in [0 .. MaxSeasons -> SUBSET Nat]
        /\ \A k \in 0 .. MaxSeasons : cache'[k] \in {cache[k], Ranking!Nothing}
    BY <1>2, <1>3, <2>1
  <2>3. ReadIsSound' /\ Alone(Ranking!NoClosing)
    BY <1>3, <2>1 DEF SeasonInv, ReadIsSound, Alone
  <2> QED BY <1>2, <1>3, <2>1, <2>2, <2>3, CommandKeeps
<1> QED BY <1>4, <1>5, <1>6, <1>7

\* A season is closed by its id: uncrossed, by its own ranking.
LEMMA CloseKeeps ==
  ASSUME SeasonBounds, SeasonInv, NEW a \in Admins, Ranking!closeActive(a)
  PROVE  SeasonInv'
<1> DEFINE c == closing[a]
           new == [ended |-> TRUE, champions |-> c.top,
                   crossed |-> c.read # c.season \/ c.last # c.season]
           next == [Ranking!NoClosing EXCEPT !.step = "last"]
<1>1. /\ Last \in Nat /\ DOMAIN seasons = 1 .. Last
  BY TheActiveSeason DEF SeasonInv
<1>2. /\ c \in Closing /\ c.step = "close" /\ c.season \in DOMAIN seasons
      /\ closing \in [Admins -> Closing] /\ seasons \in Seq(Seasons)
      /\ (c.read = c.season /\ c.last = c.season => RankingOf(matches, c.top, c.season))
  BY DEF Ranking!closeActive, SeasonInv, SeasonTypes, ToCloseRight
<1>3. /\ seasons' = [seasons EXCEPT ![c.season] = new] /\ closing' = [closing EXCEPT ![a] = next]
      /\ UNCHANGED <<matches, cache, reading, overlapped>>
  BY DEF Ranking!closeActive
<1>4. /\ new \in Seasons /\ new.ended /\ new.champions = c.top
      /\ (~new.crossed => c.read = c.season /\ c.last = c.season)
      /\ (c.read = c.season /\ c.last = c.season => ~new.crossed)
  BY <1>2 DEF Seasons, Closing
<1>5. next \in Closing /\ next.step = "last"
  BY DEF Closing, Ranking!NoClosing, Ranking!Nothing
<1> DEFINE s == c.season
<1>6. /\ closing' \in [Admins -> Closing] /\ closing'[a] = next
      /\ \A b \in Admins \ {a} : closing'[b] = closing[b]
  <2> HIDE DEF next
  <2> QED BY <1>2, <1>3, <1>5
<1>7. /\ seasons' \in Seq(Seasons) /\ Last' = Last /\ DOMAIN seasons' = DOMAIN seasons
      /\ seasons'[s] = new /\ \A k \in DOMAIN seasons \ {s} : seasons'[k] = seasons[k]
  <2>1. s \in DOMAIN seasons /\ seasons' = [seasons EXCEPT ![s] = new]
    BY <1>2, <1>3
  <2> HIDE DEF new, s
  <2> QED BY <1>2, <1>4, <2>1 DEF Last
<1>8. s \in DOMAIN seasons /\ (c.read = s /\ c.last = s => RankingOf(matches, c.top, s))
  BY <1>2
<1> HIDE DEF new, next, s
<1>9. SeasonTypes' /\ DatesArePast' /\ KeptIsSound' /\ ReadIsSound'
  BY <1>3, <1>6, <1>7 DEF SeasonInv, SeasonTypes, DatesArePast, KeptIsSound, ReadIsSound
<1>10. AsItRead' /\ ToCloseRight'
  BY <1>3, <1>5, <1>6, <1>7 DEF SeasonInv, AsItRead, ToCloseRight
<1>11. ClosedRight'
  <2> SUFFICES ASSUME NEW k \in DOMAIN seasons, ~seasons'[k].crossed
               PROVE  RankingOf(matches, seasons'[k].champions, k)
    BY <1>3, <1>7 DEF ClosedRight
  <2>1. CASE k = s
    BY <1>4, <1>7, <1>8, <2>1 DEF s
  <2>2. CASE k # s
    BY <1>7, <2>2 DEF SeasonInv, ClosedRight
  <2> QED BY <2>1, <2>2
<1>12. ASSUME ~overlapped'
       PROVE  /\ \A b, d \in Admins : closing'[b].step # "none" /\ closing'[d].step # "none" => b = d
              /\ \A b \in Admins : Alone(closing[b])'
              /\ \A k \in DOMAIN seasons' : ~seasons'[k].crossed /\ (k < Last' => seasons'[k].ended)
  <2>1. /\ \A b \in Admins : closing[b].step # "none" => b = a
        /\ s = Last /\ c.last = Last /\ c.read = Last
        /\ \A k \in DOMAIN seasons : ~seasons[k].crossed /\ (k < Last => seasons[k].ended)
    BY <1>2, <1>3, <1>12 DEF SeasonInv, OneAtATime, Alone, s
  <2>2. ~new.crossed
    BY <1>4, <2>1 DEF s
  <2>3. \A k \in DOMAIN seasons' : ~seasons'[k].crossed /\ seasons'[k].ended
    BY <1>1, <1>4, <1>7, <2>1, <2>2
  <2>4. Ranking!Open' = {}
    BY <2>3 DEF Ranking!Open
  <2>5. \A b, d \in Admins : closing'[b].step # "none" /\ closing'[d].step # "none" => b = d
    BY <1>6, <2>1
  <2>6. \A b \in Admins : Alone(closing[b])'
    BY <1>5, <1>6, <2>1, <2>4 DEF Alone
  <2> QED BY <2>3, <2>5, <2>6
<1>13. OneAtATime'
  BY <1>12 DEF OneAtATime
<1> QED BY <1>9, <1>10, <1>11, <1>13 DEF SeasonInv

\* A new season begins after all there were, or the number is taken.
LEMMA SeasonBegins ==
  ASSUME SeasonBounds, SeasonInv, NEW a \in Admins, Ranking!startNext(a)
  PROVE  SeasonInv'
<1>1. /\ Last \in Nat /\ DOMAIN seasons = 1 .. Last /\ Last < MaxSeasons /\ closing[a].step = "open"
      /\ closing \in [Admins -> Closing] /\ seasons \in Seq(Seasons)
      /\ UNCHANGED <<matches, cache, reading, overlapped>>
  BY TheActiveSeason DEF SeasonInv, SeasonTypes, Ranking!startNext, Last
<1>2. Ranking!NoClosing \in Closing /\ Ranking!NoClosing.step = "none"
  BY DEF Ranking!NoClosing, Closing, Ranking!Nothing
<1>3. CASE closing[a].last = Len(seasons)
  <2> DEFINE new == [ended |-> FALSE, champions |-> Ranking!Nothing, crossed |-> FALSE]
             next == [Ranking!NoClosing EXCEPT !.step = "forget"]
  <2>1. seasons' = Append(seasons, new) /\ closing' = [closing EXCEPT ![a] = next]
    BY <1>3 DEF Ranking!startNext
  <2>2. new \in Seasons /\ new.champions = Ranking!Nothing /\ ~new.crossed
    BY DEF Seasons, Ranking!Nothing
  <2>3. next \in Closing /\ next.step = "forget"
    BY DEF Closing, Ranking!NoClosing, Ranking!Nothing
  <2> HIDE DEF new, next
  <2>4. /\ seasons' \in Seq(Seasons) /\ Last' = Last + 1 /\ DOMAIN seasons' = 1 .. Last + 1
        /\ seasons'[Last + 1] = new /\ \A k \in DOMAIN seasons : seasons'[k] = seasons[k]
    BY <1>1, <2>1, <2>2 DEF Last
  <2>5. /\ closing' \in [Admins -> Closing] /\ closing'[a] = next
        /\ \A b \in Admins \ {a} : closing'[b] = closing[b]
    BY <1>1, <2>1, <2>3
  <2>6. SeasonTypes' /\ KeptIsSound' /\ ReadIsSound'
    BY <1>1, <2>4, <2>5 DEF SeasonInv, SeasonTypes, KeptIsSound, ReadIsSound
  <2>7. DatesArePast'
    <3>1. \A m \in DOMAIN matches : matches[m].date \in Nat
      <4>1. matches \in Seq(CustomMatch)
        BY DEF SeasonInv, SeasonTypes
      <4>2. \A m \in DOMAIN matches : matches[m] \in CustomMatch
        BY <4>1
      <4> QED BY <4>2 DEF CustomMatch
    <3> QED BY <1>1, <2>4, <3>1 DEF SeasonInv, DatesArePast, SeasonBounds
  <2>8. AsItRead' /\ ToCloseRight'
    BY <1>1, <2>3, <2>4, <2>5 DEF SeasonInv, AsItRead, ToCloseRight
  <2>9. ClosedRight'
    <3> SUFFICES ASSUME NEW k \in DOMAIN seasons', ~seasons'[k].crossed
                 PROVE  RankingOf(matches, seasons'[k].champions, k)
      BY <1>1 DEF ClosedRight
    <3>1. CASE k \in DOMAIN seasons
      BY <2>4, <3>1 DEF SeasonInv, ClosedRight
    <3>2. CASE k \notin DOMAIN seasons
      <4>1. k = Last + 1
        BY <1>1, <2>4, <3>2
      <4> QED BY <2>2, <2>4, <4>1 DEF RankingOf
    <3> QED BY <3>1, <3>2
  <2>10. ASSUME ~overlapped'
         PROVE  /\ \A b, d \in Admins : closing'[b].step # "none" /\ closing'[d].step # "none" => b = d
                /\ \A b \in Admins : Alone(closing[b])'
                /\ \A k \in DOMAIN seasons' : ~seasons'[k].crossed /\ (k < Last' => seasons'[k].ended)
    <3>1. /\ \A b \in Admins : closing[b].step # "none" => b = a
          /\ Ranking!Open = {} /\ \A k \in DOMAIN seasons : ~seasons[k].crossed
      BY <1>1, <2>10 DEF SeasonInv, OneAtATime, Alone
    <3>2. \A k \in DOMAIN seasons : seasons[k].ended
      BY <3>1 DEF Ranking!Open
    <3>3. \A k \in DOMAIN seasons' : ~seasons'[k].crossed /\ (k < Last' => seasons'[k].ended)
      BY <1>1, <2>2, <2>4, <3>1, <3>2
    <3>4. \A b, d \in Admins : closing'[b].step # "none" /\ closing'[d].step # "none" => b = d
      BY <2>5, <3>1
    <3>5. \A b \in Admins : closing'[b].step \in {"none", "forget"}
      BY <2>3, <2>5, <3>1
    <3>6. \A b \in Admins : Alone(closing[b])'
      BY <3>5 DEF Alone
    <3> QED BY <3>3, <3>4, <3>6
  <2>11. OneAtATime'
    BY <2>10 DEF OneAtATime
  <2> QED BY <2>6, <2>7, <2>8, <2>9, <2>11 DEF SeasonInv
<1>4. CASE closing[a].last # Len(seasons)
  <2>1. closing' = [closing EXCEPT ![a] = Ranking!NoClosing] /\ UNCHANGED seasons
    BY <1>4 DEF Ranking!startNext
  <2>2. /\ reading' \in [Readers -> Reading] /\ cache' \in [0 .. MaxSeasons -> SUBSET Nat]
        /\ overlapped' \in BOOLEAN /\ ReadIsSound' /\ Alone(Ranking!NoClosing)
    BY <1>1, <1>2 DEF SeasonInv, SeasonTypes, ReadIsSound, Alone
  <2> QED BY <1>1, <1>2, <2>1, <2>2, CommandKeeps
<1> QED BY <1>3, <1>4

LEMMA SeasonRestarts ==
  ASSUME SeasonBounds, SeasonInv, Ranking!Restart
  PROVE  SeasonInv'
<1>1. /\ Ranking!Nothing \in SUBSET Nat /\ Ranking!NoReading \in Reading
      /\ ReadSound(matches, Ranking!NoReading)
      /\ Ranking!NoClosing \in Closing /\ Ranking!NoClosing.step = "none"
  BY DEF Ranking!NoReading, Reading, Ranking!Nothing, SeasonBounds, ReadSound, Ranking!NoClosing, Closing
<1>2. /\ cache' = [start \in DOMAIN cache |-> Ranking!Nothing]
      /\ reading' = [c \in DOMAIN reading |-> Ranking!NoReading]
      /\ closing' = [a \in Admins |-> Ranking!NoClosing]
      /\ UNCHANGED <<seasons, matches, overlapped>>
  BY DEF Ranking!Restart
<1>3. /\ cache' \in [0 .. MaxSeasons -> SUBSET Nat] /\ reading' \in [Readers -> Reading]
      /\ closing' \in [Admins -> Closing]
      /\ \A k \in 0 .. MaxSeasons : cache'[k] = Ranking!Nothing
      /\ \A c \in Readers : reading'[c] = Ranking!NoReading
      /\ \A a \in Admins : closing'[a] = Ranking!NoClosing
  BY <1>1, <1>2 DEF SeasonInv, SeasonTypes
<1>4. Last' = Last
  BY <1>2 DEF Last
<1>5. SeasonTypes' /\ DatesArePast' /\ ClosedRight'
  BY <1>2, <1>3, <1>4 DEF SeasonInv, SeasonTypes, DatesArePast, ClosedRight
<1>6. KeptIsSound' /\ ReadIsSound'
  BY <1>1, <1>2, <1>3 DEF KeptIsSound, ReadIsSound, Since
<1>7. AsItRead' /\ ToCloseRight'
  BY <1>1, <1>3 DEF AsItRead, ToCloseRight
<1>8. OneAtATime'
  BY <1>1, <1>2, <1>3, <1>4 DEF SeasonInv, OneAtATime, Alone
<1> QED BY <1>5, <1>6, <1>7, <1>8 DEF SeasonInv

LEMMA SeasonInit ==
  ASSUME SeasonBounds
  PROVE  Ranking!Init => SeasonInv
<1> SUFFICES ASSUME Ranking!Init  PROVE SeasonInv
  OBVIOUS
<1>1. /\ Ranking!Nothing \in SUBSET Nat /\ Ranking!NoReading \in Reading
      /\ ReadSound(matches, Ranking!NoReading)
      /\ Ranking!NoClosing \in Closing /\ Ranking!NoClosing.step = "none"
  BY DEF Ranking!NoReading, Reading, Ranking!Nothing, SeasonBounds, ReadSound, Ranking!NoClosing, Closing
<1>2. /\ seasons = <<>> /\ matches = <<>> /\ overlapped = FALSE
      /\ cache = [k \in 0 .. MaxSeasons |-> Ranking!Nothing]
      /\ reading = [c \in Readers |-> Ranking!NoReading]
      /\ closing = [a \in Admins |-> Ranking!NoClosing]
  BY DEF Ranking!Init, Readers
<1>3. SeasonTypes
  <2>1. seasons \in Seq(Seasons) /\ matches \in Seq(CustomMatch)
    BY <1>2
  <2> QED BY <1>1, <1>2, <2>1 DEF SeasonTypes
<1>4. Last = 0 /\ DOMAIN seasons = {} /\ DOMAIN matches = {}
  BY <1>2 DEF Last
<1>5. DatesArePast /\ ClosedRight /\ ToCloseRight /\ AsItRead
  BY <1>1, <1>2, <1>4 DEF DatesArePast, ClosedRight, ToCloseRight, AsItRead, SeasonBounds
<1>6. KeptIsSound /\ ReadIsSound
  BY <1>1, <1>2 DEF KeptIsSound, ReadIsSound, Since
<1>7. OneAtATime
  BY <1>1, <1>2, <1>4 DEF OneAtATime, Alone
<1> QED BY <1>3, <1>5, <1>6, <1>7 DEF SeasonInv

LEMMA SeasonStep ==
  ASSUME SeasonBounds
  PROVE  SeasonInv /\ [Ranking!Next]_Ranking!vars => SeasonInv'
<1> SUFFICES ASSUME SeasonInv, [Ranking!Next]_Ranking!vars  PROVE SeasonInv'
  OBVIOUS
<1>1. CASE UNCHANGED Ranking!vars
  <2>1. UNCHANGED <<seasons, matches, cache, reading, closing, overlapped>>
    BY <1>1 DEF Ranking!vars
  <2>2. /\ cache' \in [0 .. MaxSeasons -> SUBSET Nat] /\ reading' \in [Readers -> Reading]
        /\ KeptIsSound' /\ ReadIsSound' /\ AsItRead'
    BY <2>1 DEF SeasonInv, SeasonTypes, KeptIsSound, ReadIsSound, AsItRead
  <2> QED BY <2>1, <2>2, ReadersKeep
<1> QED BY <1>1, MatchesKeep, RankingKeeps, CommandsKeep, CloseKeeps, SeasonBegins, SeasonRestarts
        DEF Ranking!Next

\* Whoever closes a season with the ranking read for it closes it with its own champions.
LEMMA SeasonShows == SeasonInv => Ranking!ChampionsAreOfTheirSeason
<1> SUFFICES ASSUME SeasonInv  PROVE Ranking!ChampionsAreOfTheirSeason
  OBVIOUS
<1>1. \A k \in DOMAIN seasons : seasons[k].crossed => overlapped
  BY DEF SeasonInv, OneAtATime
<1> QED BY <1>1 DEF SeasonInv, ClosedRight, RankingOf, Ranking!ChampionsAreOfTheirSeason
-----------------------------------------------------------------------------
(* A match of the house starts with two whole teams.                         *)

\* It counts as the theorems on sets do.
LEMMA SameCounts ==
  ASSUME NEW S
  PROVE  League!Cardinality(S) = Cardinality(S)
  BY Zenon DEF Cardinality, League!Cardinality

LeagueBounds == DOMAIN LeagueHandlers \in SUBSET (Nat \ {0}) /\ Score \in [Queuers -> Int]

Entry == [user : Queuers, side : League!Sides \cup {League!Free}]

\* Everybody is in the queue once.
Once(q) == \A i, j \in DOMAIN q : q[i].user = q[j].user => i = j
Queued(q, n) == q \in Seq(Entry) /\ Len(q) <= 2 * n /\ Once(q)

Request == [op : {"idle", "go", "clear", "undo", "deal", "start", "split", "finish", "cancel", "clean"},
            gone : SUBSET Queuers, blue : SUBSET Queuers, red : SUBSET Queuers]

Whole(q, n) == \A side \in League!Sides : Cardinality(League!Team(q, side)) = n

\* Two teams apart by no more than the score of one player.
Balanced(q) ==
  (\A u \in League!Users(q) : Score[u] >= 0) =>
    \E best \in League!Users(q) :
      LET blue == League!Strength(League!Team(q, "blue"))
          red  == League!Strength(League!Team(q, "red"))
      IN blue - red <= Score[best] /\ red - blue <= Score[best]

\* A full queue of two whole teams, balanced where the format asks for it.
Ready(q, n, f) == Whole(q, n) /\ Len(q) = 2 * n /\ (f = "BALANCEADO" => Balanced(q))

\* Whoever the teams of r reach, they are a balanced draw of a full queue of them.
Deals(r, n) ==
  \A q : Queued(q, n) /\ Len(q) = 2 * n /\ League!Users(q) \in SUBSET (r.blue \cup r.red)
         => Balanced(League!InTeams(q, r))

\* A match already played has the queue it was created with, and nobody asks for anything.
AllIdle == \A h \in League!Active : pending[h] = League!Idle
QueueInv ==
  /\ perTeam \in Nat \ {0} /\ pending \in [League!Active -> Request]
  /\ Queued(queue, perTeam) \/ (status = "FINISHED" /\ AllIdle)
  /\ status = "none" => queue = <<>> /\ AllIdle

\* A full queue in which nobody is without a side has been drawn as it is now.
DrawnAsItIs ==
  /\ status = "WAITING" /\ format = "BALANCEADO" /\ Len(queue) = 2 * perTeam
  /\ \A i \in DOMAIN queue : queue[i].side # League!Free
  => Balanced(queue)

\* What the request r has read still stands, unless it was crossed.
Upheld(r, q, n, f, x) ==
  /\ r.op \in {"undo", "deal"} /\ f = "BALANCEADO" => Deals(r, n)
  /\ r.op = "start" /\ ~x => Ready(q, n, f)
  /\ r.op = "split" /\ ~x => f = "LIVRE" /\ Ready(League!InTeams(q, r), n, f)
PendingInv == \A h \in League!Active : Upheld(pending[h], queue, perTeam, format, crossed)

OnIsReady == status = "STARTED" /\ ~crossed => Ready(queue, perTeam, format)

LeagueInv == QueueInv /\ DrawnAsItIs /\ PendingInv /\ OnIsReady

LEMMA OneToOne ==
  ASSUME NEW S, NEW T, NEW f \in [S -> T], \A x, y \in S : f[x] = f[y] => x = y,
         \A y \in T : \E x \in S : f[x] = y
  PROVE  ExistsBijection(S, T)
<1>1. f \in Bijection(S, T)
  BY DEF Bijection, Injection, Surjection, IsInjective
<1> QED BY <1>1 DEF ExistsBijection

LEMMA UpTo ==
  ASSUME NEW n \in Nat
  PROVE  /\ IsFiniteSet(1..n) /\ Cardinality(1..n) = n
         /\ Cardinality(n + 1 .. 2 * n) = n
<1> DEFINE a == n + 1
           b == 2 * n
<1>1. a \in Int /\ b \in Int /\ b - a + 1 = n /\ (a > b => n = 0)
  OBVIOUS
<1> HIDE DEF a, b
<1>2. Cardinality(a .. b) = IF a > b THEN 0 ELSE b - a + 1
  BY <1>1, FS_Interval
<1>3. Cardinality(a .. b) = n
  BY <1>1, <1>2
<1>4. IsFiniteSet(1..n) /\ Cardinality(1..n) = n
  BY FS_Interval
<1> QED BY <1>3, <1>4 DEF a, b

\* The part of a queue that is on a side.
Part(q, side) == {j \in DOMAIN q : q[j].side = side}

\* A team is as large as its part of the queue.
LEMMA TeamIsItsPart ==
  ASSUME NEW q \in Seq(Entry), Once(q), NEW side
  PROVE  /\ IsFiniteSet(Part(q, side)) /\ Cardinality(Part(q, side)) \in Nat
         /\ Cardinality(League!Team(q, side)) = Cardinality(Part(q, side))
<1> DEFINE part == {j \in DOMAIN q : q[j].side = side}
           team == {q[i].user : i \in part}
           f == [j \in part |-> q[j].user]
<1>1. IsFiniteSet(part)
  <2>1. IsFiniteSet(1..Len(q)) /\ part \in SUBSET (1..Len(q))
    BY FS_Interval
  <2> QED BY <2>1, FS_Subset
<1>2. League!Team(q, side) = team
  BY DEF League!Team
<1>4. ExistsBijection(part, team)
  <2>1. f \in [part -> team]
    OBVIOUS
  <2>2. \A i, j \in part : f[i] = f[j] => i = j
    BY DEF Once
  <2>3. \A u \in team : \E i \in part : f[i] = u
    OBVIOUS
  <2> HIDE DEF f, part, team
  <2> QED BY <2>1, <2>2, <2>3, OneToOne
<1> HIDE DEF part, f, team
<1>5. Cardinality(team) = Cardinality(part)
  BY <1>1, <1>4, FS_Bijection
<1>6. Cardinality(part) \in Nat
  BY <1>1, FS_CardinalityType
<1> QED BY <1>1, <1>2, <1>5, <1>6 DEF part, team, Part

\* A queue with room for two teams, in which both are complete, has no one over.
LEMMA CompleteIsWhole ==
  ASSUME perTeam \in Nat, NEW q, Queued(q, perTeam), League!Complete(q)
  PROVE  /\ \A side \in League!Sides : Cardinality(League!Team(q, side)) = perTeam
         /\ Len(q) = League!maxPlayers /\ \A i \in DOMAIN q : q[i].side # League!Free
<1>1. /\ IsFiniteSet(Part(q, "blue")) /\ Cardinality(Part(q, "blue")) \in Nat
      /\ Cardinality(League!Team(q, "blue")) = Cardinality(Part(q, "blue"))
      /\ IsFiniteSet(Part(q, "red")) /\ Cardinality(Part(q, "red")) \in Nat
      /\ Cardinality(League!Team(q, "red")) = Cardinality(Part(q, "red"))
  BY TeamIsItsPart DEF Queued
<1>2. /\ Part(q, "blue") \cap Part(q, "red") = {}
      /\ Part(q, "blue") \cup Part(q, "red") \in SUBSET (1..Len(q)) /\ Len(q) \in Nat
  BY DEF Queued, Part
<1>3. Len(q) <= 2 * perTeam
  BY DEF Queued, League!maxPlayers
<1>4. Cardinality(Part(q, "blue")) >= perTeam /\ Cardinality(Part(q, "red")) >= perTeam
  BY <1>1, SameCounts DEF League!Complete, League!Sides
<1> DEFINE blue == Part(q, "blue")
           red  == Part(q, "red")
<1>5. Cardinality(blue \cup red) = Cardinality(blue) + Cardinality(red)
  <2>1. IsFiniteSet(blue) /\ IsFiniteSet(red) /\ blue \cap red = {} /\ Cardinality(blue) \in Nat
        /\ Cardinality(red) \in Nat
    BY <1>1, <1>2
  <2> HIDE DEF blue, red
  <2>2. Cardinality(blue \cup red)
          = Cardinality(blue) + Cardinality(red) - Cardinality(blue \cap red)
    BY <2>1, FS_Union
  <2> QED BY <2>1, <2>2, FS_EmptySet
<1>6. Cardinality(blue \cup red) <= Len(q)
  <2>1. blue \cup red \in SUBSET (1..Len(q)) /\ Len(q) \in Nat
    BY <1>2
  <2>2. IsFiniteSet(1..Len(q)) /\ Cardinality(1..Len(q)) = Len(q)
    BY <2>1, UpTo
  <2> HIDE DEF blue, red
  <2>3. Cardinality(blue \cup red) <= Cardinality(1..Len(q))
    BY <2>1, <2>2, FS_Subset
  <2> QED BY <2>2, <2>3
<1>7. /\ Cardinality(Part(q, "blue")) = perTeam
      /\ Cardinality(Part(q, "red")) = perTeam
  <2>1. /\ Cardinality(blue) \in Nat /\ Cardinality(red) \in Nat
        /\ Cardinality(blue) >= perTeam /\ Cardinality(red) >= perTeam
    BY <1>1, <1>4
  <2> HIDE DEF blue, red
  <2>2. Cardinality(blue) = perTeam /\ Cardinality(red) = perTeam
    BY <1>2, <1>3, <1>5, <1>6, <2>1
  <2> QED BY <2>2 DEF blue, red
<1>8. Len(q) = 2 * perTeam /\ blue \cup red = 1..Len(q)
  <2>1. Cardinality(blue) = perTeam /\ Cardinality(red) = perTeam
    BY <1>7
  <2>2. blue \cup red \in SUBSET (1..Len(q)) /\ Len(q) \in Nat
    BY <1>2
  <2> HIDE DEF blue, red
  <2>3. Len(q) = 2 * perTeam /\ Cardinality(blue \cup red) = Len(q)
    BY <1>3, <1>5, <1>6, <2>1, <2>2
  <2>4. IsFiniteSet(1..Len(q)) /\ Cardinality(1..Len(q)) = Len(q)
    BY <2>2, UpTo
  <2> QED BY <2>2, <2>3, <2>4, FS_Subset
<1>9. \A i \in DOMAIN q : q[i].side # League!Free
  <2>1. \A i \in 1..Len(q) : q[i].side \in {"blue", "red"}
    BY <1>8 DEF Part
  <2>2. DOMAIN q = 1..Len(q)
    BY DEF Queued
  <2> QED BY <2>1, <2>2 DEF League!Free
<1> QED BY <1>1, <1>7, <1>8, <1>9 DEF League!Sides, League!maxPlayers

\* A full queue cut in two makes two whole teams.
LEMMA HalvesAreWhole ==
  ASSUME perTeam \in Nat, NEW q, Queued(q, perTeam), Len(q) >= League!maxPlayers, NEW halves,
         halves.blue = League!Users(SubSeq(q, 1, perTeam)),
         halves.red = League!Users(SubSeq(q, perTeam + 1, Len(q)))
  PROVE  LET r == League!InTeams(q, halves) IN Whole(r, perTeam) /\ Len(r) = 2 * perTeam
<1> DEFINE r == League!InTeams(q, halves)
<1>1. /\ q \in Seq(Entry) /\ Len(q) = 2 * perTeam /\ DOMAIN q = 1 .. 2 * perTeam
  BY DEF Queued, League!maxPlayers
<1>2. \A i \in DOMAIN q : q[i] \in Entry
  BY <1>1
<1>a. \A i \in 1 .. perTeam : q[i].user \in halves.blue
  <2> DEFINE h == SubSeq(q, 1, perTeam)
  <2>1. Len(h) = perTeam /\ DOMAIN h = 1 .. perTeam /\ \A i \in 1 .. perTeam : h[i] = q[i]
    BY <1>1
  <2> QED BY <2>1 DEF League!Users
<1>b. \A u \in halves.blue : \E i \in 1 .. perTeam : u = q[i].user
  <2> DEFINE h == SubSeq(q, 1, perTeam)
  <2>1. Len(h) = perTeam /\ DOMAIN h = 1 .. perTeam /\ \A i \in 1 .. perTeam : h[i] = q[i]
    BY <1>1
  <2> QED BY <2>1 DEF League!Users
<1>c. \A i \in perTeam + 1 .. 2 * perTeam : q[i].user \in halves.red
  <2> DEFINE h == SubSeq(q, perTeam + 1, Len(q))
  <2>1. Len(h) = perTeam /\ DOMAIN h = 1 .. perTeam
    BY <1>1
  <2>2. \A j \in 1 .. perTeam : h[j] = q[j + perTeam]
    BY <1>1
  <2> HIDE DEF h
  <2>3. \A i \in perTeam + 1 .. 2 * perTeam : i - perTeam \in 1 .. perTeam /\ h[i - perTeam] = q[i]
    BY <1>1, <2>2
  <2> QED BY <2>1, <2>3 DEF League!Users, h
<1>d. \A i \in DOMAIN q : q[i].user \in halves.blue \equiv i <= perTeam
  <2>1. \A i, j \in DOMAIN q : q[i].user = q[j].user => i = j
    BY DEF Queued, Once
  <2>2. \A i \in 1 .. perTeam : i \in DOMAIN q /\ i <= perTeam
    BY <1>1
  <2>3. \A i \in DOMAIN q : i <= perTeam => i \in 1 .. perTeam
    BY <1>1
  <2>4. ASSUME NEW i \in DOMAIN q, q[i].user \in halves.blue  PROVE i <= perTeam
    <3>1. PICK j \in 1 .. perTeam : q[i].user = q[j].user
      BY <1>b, <2>4
    <3>2. i = j
      BY <2>1, <2>2, <2>4, <3>1
    <3> QED BY <2>2, <3>2
  <2> QED BY <1>a, <2>3, <2>4
<1>3. \A i \in DOMAIN q : /\ r[i] \in Entry /\ r[i].user = q[i].user
                          /\ r[i].side = IF i <= perTeam THEN "blue" ELSE "red"
  <2> SUFFICES ASSUME NEW i \in DOMAIN q
               PROVE  /\ r[i] \in Entry /\ r[i].user = q[i].user
                      /\ r[i].side = IF i <= perTeam THEN "blue" ELSE "red"
    OBVIOUS
  <2>1. CASE i <= perTeam
    <3>0. q[i].user \in halves.blue
      BY <1>d, <2>1
    <3>1. r[i] = [q[i] EXCEPT !.side = "blue"]
      BY <3>0 DEF League!InTeams, League!SideIn
    <3> QED BY <1>2, <2>1, <3>1 DEF Entry, League!Sides
  <2>2. CASE ~(i <= perTeam)
    <3>1. q[i].user \in halves.red /\ q[i].user \notin halves.blue
      BY <1>1, <1>c, <1>d, <2>2
    <3>2. r[i] = [q[i] EXCEPT !.side = "red"]
      BY <3>1 DEF League!InTeams, League!SideIn
    <3> QED BY <1>2, <2>2, <3>2 DEF Entry, League!Sides
  <2> QED BY <2>1, <2>2
<1>0. DOMAIN r = DOMAIN q
  BY DEF League!InTeams
<1> HIDE DEF r
<1>4. r \in Seq(Entry) /\ Len(r) = 2 * perTeam /\ DOMAIN r = 1 .. 2 * perTeam
  <2>1. r = [i \in 1 .. 2 * perTeam |-> r[i]]
    BY <1>1 DEF r, League!InTeams
  <2> QED BY <1>0, <1>1, <1>3, <2>1, IsASeq
<1>5. Once(r)
  BY <1>1, <1>3, <1>4 DEF Once, Queued
<1>6. /\ Part(r, "blue") = 1 .. perTeam
      /\ Part(r, "red") = perTeam + 1 .. 2 * perTeam
  BY <1>1, <1>3, <1>4 DEF Part
<1>7. /\ Cardinality(1 .. perTeam) = perTeam
      /\ Cardinality(perTeam + 1 .. 2 * perTeam) = perTeam
  BY UpTo
<1>8. \A side \in League!Sides : Cardinality(League!Team(r, side)) = perTeam
  BY <1>4, <1>5, <1>6, <1>7, TeamIsItsPart DEF League!Sides
<1> QED BY <1>4, <1>8 DEF Whole, r

\* A sequence without one of its entries: those behind it move up.
LEMMA OneLess ==
  ASSUME NEW S, NEW s \in Seq(S), NEW at \in 1 .. Len(s)
  PROVE  /\ League!RemoveAt(s, at) \in Seq(S) /\ Len(League!RemoveAt(s, at)) = Len(s) - 1
         /\ \A i \in DOMAIN League!RemoveAt(s, at) :
              League!RemoveAt(s, at)[i] = IF i < at THEN s[i] ELSE s[i + 1]
<1> DEFINE n == Len(s)
           head == SubSeq(s, 1, at - 1)
           tail == SubSeq(s, at + 1, n)
<1>1. n \in Nat /\ at \in 1 .. n /\ League!RemoveAt(s, at) = head \o tail
  BY DEF League!RemoveAt
<1>2. /\ head \in Seq(S) /\ Len(head) = at - 1
      /\ \A i \in 1 .. at - 1 : head[i] = s[i]
  OBVIOUS
<1>3. tail \in Seq(S) /\ Len(tail) = n - at
  <2>1. \A i \in at + 1 .. n : s[i] \in S
    OBVIOUS
  <2>2. tail \in Seq(S) /\ Len(tail) = IF at + 1 <= n THEN n - (at + 1) + 1 ELSE 0
    BY <1>1, <2>1, SubSeqProperties
  <2> QED BY <1>1, <2>2
<1>4. \A i \in 1 .. n - at : tail[i] = s[i + at]
  <2>1. SUFFICES ASSUME NEW i \in 1 .. n - at  PROVE tail[i] = s[i + at]
    OBVIOUS
  <2>2. tail[i] = s[at + 1 + i - 1]
    BY <1>1
  <2>3. at + 1 + i - 1 = i + at
    BY <1>1
  <2> QED BY <2>2, <2>3
<1> HIDE DEF head, tail, n
<1>5. /\ head \o tail \in Seq(S) /\ Len(head \o tail) = n - 1
      /\ DOMAIN (head \o tail) = 1 .. n - 1
  <2>1. head \o tail \in Seq(S) /\ Len(head \o tail) = Len(head) + Len(tail)
    <3>1. \A u, v \in Seq(S) : u \o v \in Seq(S) /\ Len(u \o v) = Len(u) + Len(v)
      OBVIOUS
    <3> QED BY <1>2, <1>3, <3>1
  <2> QED BY <1>1, <1>2, <1>3, <2>1
<1>6. ASSUME NEW i \in 1 .. n - 1  PROVE (head \o tail)[i] = IF i < at THEN s[i] ELSE s[i + 1]
  <2>1. CASE i < at
    BY <1>1, <1>2, <1>3, <2>1
  <2>2. CASE ~(i < at)
    <3>1. (head \o tail)[i] = tail[i - (at - 1)] /\ i - (at - 1) \in 1 .. n - at
      BY <1>1, <1>2, <1>3, <2>2
    <3>2. i - (at - 1) + at = i + 1
      BY <1>1
    <3> QED BY <1>4, <2>2, <3>1, <3>2
  <2> QED BY <2>1, <2>2
<1> QED BY <1>1, <1>5, <1>6 DEF n

\* Other sides of the same queue.
LEMMA Resided ==
  ASSUME NEW q, Queued(q, perTeam), NEW r, DOMAIN r = DOMAIN q, r = [i \in DOMAIN q |-> r[i]],
         \A i \in DOMAIN q : \E side \in League!Sides
           \cup {League!Free} : r[i] = [q[i] EXCEPT !.side = side]
  PROVE  Queued(r, perTeam)
<1>1. q \in Seq(Entry) /\ \A i \in DOMAIN q : q[i] \in Entry
  BY DEF Queued
<1>2. \A i \in DOMAIN q : r[i] \in Entry /\ r[i].user = q[i].user
  BY <1>1 DEF Entry
<1>3. r \in Seq(Entry) /\ Len(r) = Len(q)
  BY <1>1, <1>2, IsASeq
<1> QED BY <1>2, <1>3 DEF Queued, Once

\* The strength of a team is the sum of the scores.
LEMMA StrengthIsTheSum ==
  ASSUME NEW S  PROVE League!Strength(S) = Sum(Score, S)
  BY DEF League!Strength, League!FoldSet, League!MapThenFoldSet, Sum, SumOf, SumFrom, Picked, Rest

\* Teams that are apart by d, with c more players on one side than on the other, the last
\* of them worth x, all of them at most m: d is no more than m, and would be no more if
\* the shorter side were filled up with players of the last one's worth.
Near(d, c, x, m) == d <= m /\ (c >= 0 => d + c * x <= m)

\* The next player goes to the side that is lighter or cannot fill up.
LEMMA NearStays ==
  ASSUME NEW d \in Int, NEW c \in Int, NEW x \in Int, NEW y \in Int, NEW m \in Int,
         0 <= y, y <= x, x <= m, Near(d, c, x, m), Near(0 - d, 0 - c, x, m), d >= 0 \/ c <= -1
  PROVE  Near(d - y, c + 1, y, m) /\ Near(y - d, 0 - c - 1, y, m)
<1>1. ASSUME NEW k \in Int, k >= 0
      PROVE  /\ k * y \in Int /\ k * x \in Int /\ k * y <= k * x
             /\ (k + 1) * y = k * y + y /\ (k - 1) * y = k * y - y /\ k >= 1 => x <= k * x
  <2> DEFINE s == x - y
  <2>1. s \in Nat /\ k \in Nat /\ k * s \in Nat /\ x = y + s
    BY <1>1
  <2>2. k * (y + s) = k * y + k * s
    BY <2>1
  <2>3. k >= 1 => k - 1 \in Nat /\ (k - 1) * x \in Nat /\ (k - 1) * x = k * x - x
    BY <2>1
  <2>4. k * y \in Int /\ k * x \in Int /\ (k + 1) * y = k * y + y /\ (k - 1) * y = k * y - y
    OBVIOUS
  <2>5. k * x = k * y + k * s
    BY <2>1, <2>2
  <2> HIDE DEF s
  <2>6. k * y <= k * x
    BY <2>1, <2>4, <2>5
  <2>7. k >= 1 => x <= k * x
    BY <2>3, <2>4
  <2> QED BY <2>4, <2>6, <2>7
<1>2. Near(d - y, c + 1, y, m)
  <2>1. d - y <= m
    BY DEF Near
  <2>2. CASE c >= 0
    <3> DEFINE a == c * y
               b == c * x
    <3>1. a \in Int /\ b \in Int /\ a <= b /\ (c + 1) * y = a + y /\ d + b <= m
      BY <1>1, <2>2 DEF Near
    <3> HIDE DEF a, b
    <3>2. (d - y) + (c + 1) * y <= m
      BY <3>1
    <3> QED BY <2>1, <3>2 DEF Near
  <2>3. CASE c = -1
    BY <2>1, <2>3 DEF Near
  <2>4. CASE c < -1
    BY <2>1, <2>4 DEF Near
  <2> QED BY <2>2, <2>3, <2>4
<1>3. Near(y - d, 0 - c - 1, y, m)
  <2> DEFINE k == 0 - c
  <2>0. k \in Int /\ Near(0 - d, k, x, m)
    OBVIOUS
  <2>1. CASE k >= 1
    <3> DEFINE a == k * y
               b == k * x
    <3>1. a \in Int /\ b \in Int /\ a <= b /\ (k - 1) * y = a - y /\ x <= b /\ 0 - d + b <= m
      BY <1>1, <2>0, <2>1 DEF Near
    <3> HIDE DEF a, b, k
    <3>2. y - d <= m /\ (y - d) + (k - 1) * y <= m
      BY <3>1
    <3> QED BY <3>2 DEF Near, k
  <2>2. CASE k < 1
    <3>1. d >= 0 /\ ~(0 - c - 1 >= 0)
      BY <2>2
    <3> QED BY <3>1 DEF Near
  <2> QED BY <2>0, <2>1, <2>2
<1> QED BY <1>2, <1>3

Teams(users) == [blue: SUBSET users, red: SUBSET users]

\* balancedSplit places one player.
Placed(t, u) ==
  LET blueFull == League!Cardinality(t.blue) >= perTeam
      redFull  == League!Cardinality(t.red) >= perTeam
  IN IF ~blueFull /\ (redFull \/ League!Strength(t.blue) <= League!Strength(t.red))
     THEN [t EXCEPT !.blue = @ \cup {u}] ELSE [t EXCEPT !.red = @ \cup {u}]

\* balancedSplit places one after the other: F has the teams after each of them.
Places(F, r, n) ==
  /\ League!balancedSplit(r) = F[1..n]
  /\ F[{}] = [blue |-> {}, red |-> {}]
  /\ \A k \in 1..n : F[1..k] = Placed(F[1 .. k-1], r[k])

LEMMA SplitPlaces ==
  ASSUME NEW users, NEW n \in Nat, NEW r \in [1..n -> users]
  PROVE  \E F : Places(F, r, n)
<1> DEFINE S == DOMAIN r
           none == [blue |-> {}, red |-> {}]
           V == Teams(users)
           pick == [s \in SUBSET S |-> League!Max(s)]
           step == [p \in S \X V |-> Placed(p[2], r[p[1]])]
           From(f) == [s \in SUBSET S |-> IF s = {} THEN none
                                         ELSE Placed(f[s \ {League!Max(s)}], r[League!Max(s)])]
           F == CHOOSE f : f = From(f)
<1>0. S = 1..n /\ \A T : League!Max(T) = Largest(T)
  BY DEF League!Max, Largest
<1>1. IsFiniteSet(S) /\ \A s \in SUBSET S : s # {} => pick[s] \in s
  <2>1. IsFiniteSet(1..n)
    BY FS_Interval
  <2>2. \A s \in SUBSET (1..n) : s # {} => Largest(s) \in s
    BY HasLargest
  <2> QED BY <1>0, <2>1, <2>2
<1>2. none \in V /\ step \in [S \X V -> V]
  <2>1. none \in V
    BY DEF Teams
  <2>2. ASSUME NEW t \in V, NEW u \in users  PROVE Placed(t, u) \in V
    BY DEF Teams, Placed
  <2>3. \A p \in S \X V : p[2] \in V /\ r[p[1]] \in users
    OBVIOUS
  <2> HIDE DEF V
  <2> QED BY <2>1, <2>2, <2>3
<1>3. PICK f : Takes(f, S, V, pick, none, step)
  <2> HIDE DEF pick, step, S, V, none
  <2> QED BY <1>1, <1>2, Recursion, Zenon
<1>4. ASSUME NEW s \in SUBSET S, s # {}  PROVE f[s] = Placed(f[s \ {League!Max(s)}], r[League!Max(s)])
  <2>1. pick[s] = League!Max(s) /\ League!Max(s) \in S /\ s \ {League!Max(s)} \in SUBSET S
    BY <1>1, <1>4
  <2> DEFINE x == League!Max(s)
  <2> HIDE DEF pick, x
  <2>2. f[s] = step[<<x, f[s \ {x}]>>] /\ f[s \ {x}] \in V
    BY <1>3, <1>4, <2>1 DEF Takes, x
  <2>3. step[<<x, f[s \ {x}]>>] = Placed(f[s \ {x}], r[x])
    <3> DEFINE p == <<x, f[s \ {x}]>>
    <3>1. p \in S \X V /\ p[1] = x /\ p[2] = f[s \ {x}]
      BY <2>1, <2>2 DEF x
    <3> HIDE DEF p, V
    <3> QED BY <3>1 DEF p
  <2> QED BY <2>2, <2>3 DEF x
<1>5. f = From(f)
  <2>1. f = [s \in SUBSET S |-> f[s]] /\ f[{}] = none
    BY <1>3 DEF Takes
  <2> HIDE DEF none, S
  <2> QED BY <1>4, <2>1
<1>6. F = From(F)
  <2> HIDE DEF From
  <2> QED BY <1>5
<1>7. League!balancedSplit(r) = F[S]
  BY DEF League!balancedSplit, League!FoldLeft, League!MapThenFoldSet, Placed
<1> HIDE DEF F
<1>8. F[{}] = none
  BY <1>6
<1>9. ASSUME NEW k \in 1..n  PROVE F[1..k] = Placed(F[1 .. k-1], r[k])
  <2>1. k \in Nat /\ k > 0
    OBVIOUS
  <2>2. Largest(1..k) = k
    BY <2>1, HasLargest
  <2>3. (1..k) \ {k} = 1 .. k-1 /\ 1..k \in SUBSET (1..n) /\ 1..k # {}
    <3>1. \A x \in 1..k : x # k => x \in 1 .. k-1
      BY <2>1
    <3>2. \A x \in 1 .. k-1 : x \in 1..k /\ x # k
      BY <2>1
    <3>3. 1..k \in SUBSET (1..n) /\ k \in 1..k
      BY <2>1
    <3> QED BY <3>1, <3>2, <3>3
  <2> QED BY <1>0, <1>6, <2>2, <2>3
<1> QED BY <1>0, <1>7, <1>8, <1>9 DEF Places

\* A ranking of the users: each once, from the best down.
Ranked(r, users) ==
  /\ r \in [1 .. Cardinality(users) -> users]
  /\ \A i, j \in DOMAIN r : r[i] = r[j] => i = j
  /\ \A i, j \in DOMAIN r : i < j => Score[r[i]] >= Score[r[j]]

\* The teams after k players of a ranking.
Fair(t, r, k) ==
  LET m == Score[r[1]]
      x == IF k = 0 THEN m ELSE Score[r[k]]
      b == Sum(Score, t.blue)
      d == Sum(Score, t.red)
      c == Cardinality(t.blue)
      e == Cardinality(t.red)
  IN /\ IsFiniteSet(t.blue) /\ IsFiniteSet(t.red) /\ t.blue \cap t.red = {}
     /\ t.blue \in SUBSET {r[i] : i \in 1..k} /\ t.red \in SUBSET {r[i] : i \in 1..k}
     /\ b \in Int /\ d \in Int /\ c \in Nat /\ e \in Nat
     /\ c <= perTeam /\ e <= perTeam /\ c + e = k
     /\ Near(d - b, c - e, x, m) /\ Near(b - d, e - c, x, m)

\* A player more in a team.
LEMMA OneMore ==
  ASSUME NEW S, IsFiniteSet(S), NEW u, u \notin S, \A x \in S \cup {u} : Score[x] \in Int
  PROVE  /\ IsFiniteSet(S \cup {u}) /\ Cardinality(S \cup {u}) = Cardinality(S) + 1
         /\ Sum(Score, S \cup {u}) = Score[u] + Sum(Score, S)
<1> DEFINE T == S \cup {u}
<1>1. IsFiniteSet(T) /\ Cardinality(T) = Cardinality(S) + 1
  BY FS_AddElement
<1>2. T \ {u} = S /\ u \in T
  OBVIOUS
<1> HIDE DEF T
<1>3. \A x \in T : Sum(Score, T) = Score[x] + Sum(Score, T \ {x})
  <2>1. \A x \in T : Score[x] \in Int
    BY DEF T
  <2> QED BY <1>1, <2>1, SumTakesOut
<1> QED BY <1>1, <1>2, <1>3 DEF T

\* Placing the next one.
LEMMA PlacingIsFair ==
  ASSUME perTeam \in Nat \ {0}, NEW users, NEW r, Ranked(r, users),
         Cardinality(users) = 2 * perTeam,
         \A u \in users : Score[u] \in Nat,
         NEW k \in 1 .. 2 * perTeam, NEW t \in Teams(users), Fair(t, r, k - 1)
  PROVE  Fair(Placed(t, r[k]), r, k) /\ Placed(t, r[k]) \in Teams(users)
<1> DEFINE u == r[k]
           m == Score[r[1]]
           x == IF k - 1 = 0 THEN m ELSE Score[r[k - 1]]
           y == Score[u]
           b == Sum(Score, t.blue)
           d == Sum(Score, t.red)
           c == Cardinality(t.blue)
           e == Cardinality(t.red)
<1>1. /\ k \in Nat /\ 1 <= k /\ k <= 2 * perTeam /\ 1 \in DOMAIN r /\ k \in DOMAIN r
      /\ (k - 1 # 0 => k - 1 \in DOMAIN r)
      /\ u \in users /\ \A i \in DOMAIN r : r[i] \in users
  BY DEF Ranked
<1>2. u \notin {r[i] : i \in 1..(k - 1)}
  <2>1. \A i \in 1..(k - 1) : i \in DOMAIN r /\ i # k
    BY <1>1 DEF Ranked
  <2> QED BY <1>1, <2>1 DEF Ranked
<1>3. y \in Nat /\ x \in Nat /\ m \in Nat /\ y <= x /\ x <= m
  <2>1. y \in Nat /\ m \in Nat /\ (k - 1 # 0 => Score[r[k - 1]] \in Nat)
    BY <1>1
  <2>2. k - 1 # 0 => y <= Score[r[k - 1]]
    BY <1>1 DEF Ranked
  <2>3. k - 1 # 0 => Score[r[k - 1]] <= m
    BY <1>1 DEF Ranked
  <2>4. CASE k - 1 = 0
    <3>1. k = 1
      BY <1>1, <2>4
    <3> QED BY <2>1, <3>1
  <2> QED BY <2>1, <2>2, <2>3, <2>4
<1>4. /\ IsFiniteSet(t.blue) /\ IsFiniteSet(t.red) /\ t.blue \cap t.red = {}
      /\ t.blue \in SUBSET {r[i] : i \in 1..(k - 1)} /\ t.red \in SUBSET {r[i] : i \in 1..(k - 1)}
      /\ b \in Int /\ d \in Int /\ c \in Nat /\ e \in Nat
      /\ c <= perTeam /\ e <= perTeam /\ c + e = k - 1
      /\ Near(d - b, c - e, x, m) /\ Near(b - d, e - c, x, m)
  BY DEF Fair
<1>5. t.blue \in SUBSET users /\ t.red \in SUBSET users /\ t = [blue |-> t.blue, red |-> t.red]
  BY DEF Teams
<1>6. /\ u \notin t.blue /\ u \notin t.red
      /\ \A s \in t.blue \cup {u} : Score[s] \in Int
      /\ \A s \in t.red \cup {u} : Score[s] \in Int
  BY <1>1, <1>2, <1>4, <1>5
<1>7. /\ \A i \in 1..(k - 1) : r[i] \in {r[j] : j \in 1..k}
      /\ u \in {r[j] : j \in 1..k}
  BY <1>1
<1>8. k # 0
  BY <1>1
<1> HIDE DEF u, x, y, m, b, c, d, e
<1>9. CASE ~(c >= perTeam) /\ (e >= perTeam \/ b <= d)
  <2> DEFINE T == t.blue \cup {u}
  <2>1. Placed(t, u) = [blue |-> T, red |-> t.red]
    BY <1>5, <1>9, SameCounts, StrengthIsTheSum DEF Placed, b, c, d, e
  <2>2. IsFiniteSet(T) /\ Cardinality(T) = c + 1 /\ Sum(Score, T) = y + b
    BY <1>4, <1>6, OneMore DEF b, c, y
  <2>3. T \cap t.red = {} /\ T \in SUBSET users
    BY <1>1, <1>4, <1>5, <1>6
  <2>4. T \in SUBSET {r[i] : i \in 1..k} /\ t.red \in SUBSET {r[i] : i \in 1..k}
    BY <1>4, <1>7
  <2>5. Near((d - b) - y, (c - e) + 1, y, m) /\ Near(y - (d - b), 0 - (c - e) - 1, y, m)
    <3>1. 0 - (d - b) = b - d /\ 0 - (c - e) = e - c
      BY <1>4
    <3>2. d - b >= 0 \/ c - e <= -1
      BY <1>4, <1>9
    <3>3. d - b \in Int /\ c - e \in Int
      BY <1>4
    <3> QED BY <1>3, <1>4, <3>1, <3>2, <3>3, NearStays
  <2>6. (d - b) - y = d - (y + b) /\ (c - e) + 1 = (c + 1) - e
    BY <1>3, <1>4
  <2>7. y - (d - b) = (y + b) - d /\ 0 - (c - e) - 1 = e - (c + 1)
    BY <1>3, <1>4
  <2>8. /\ y + b \in Int /\ c + 1 \in Nat /\ c + 1 <= perTeam /\ (c + 1) + e = k
    BY <1>1, <1>3, <1>4, <1>9
  <2> DEFINE w == Placed(t, u)
  <2>9. w.blue = T /\ w.red = t.red /\ w \in Teams(users)
    BY <1>5, <2>1, <2>3 DEF Teams
  <2> HIDE DEF w, T
  <2>10. Fair(w, r, k)
    BY <1>4, <1>8, <2>2, <2>3, <2>4, <2>5, <2>6, <2>7, <2>8, <2>9 DEF Fair, m, y, u, d, e
  <2> QED BY <2>9, <2>10 DEF w, u
<1>10. CASE ~(~(c >= perTeam) /\ (e >= perTeam \/ b <= d))
  <2> DEFINE T == t.red \cup {u}
  <2>1. Placed(t, u) = [blue |-> t.blue, red |-> T]
    BY <1>5, <1>10, SameCounts, StrengthIsTheSum DEF Placed, b, c, d, e
  <2>2. IsFiniteSet(T) /\ Cardinality(T) = e + 1 /\ Sum(Score, T) = y + d
    BY <1>4, <1>6, OneMore DEF d, e, y
  <2>3. t.blue \cap T = {} /\ T \in SUBSET users
    BY <1>1, <1>4, <1>5, <1>6
  <2>4. T \in SUBSET {r[i] : i \in 1..k} /\ t.blue \in SUBSET {r[i] : i \in 1..k}
    BY <1>4, <1>7
  <2>5. Near((b - d) - y, (e - c) + 1, y, m) /\ Near(y - (b - d), 0 - (e - c) - 1, y, m)
    <3>1. 0 - (b - d) = d - b /\ 0 - (e - c) = c - e
      BY <1>4
    <3>2. b - d >= 0 \/ e - c <= -1
      BY <1>1, <1>4, <1>10
    <3>3. b - d \in Int /\ e - c \in Int
      BY <1>4
    <3> QED BY <1>3, <1>4, <3>1, <3>2, <3>3, NearStays
  <2>6. (b - d) - y = b - (y + d) /\ (e - c) + 1 = (e + 1) - c
    BY <1>3, <1>4
  <2>7. y - (b - d) = (y + d) - b /\ 0 - (e - c) - 1 = c - (e + 1)
    BY <1>3, <1>4
  <2>8. /\ y + d \in Int /\ e + 1 \in Nat /\ e + 1 <= perTeam /\ c + (e + 1) = k
    BY <1>1, <1>3, <1>4, <1>10
  <2> DEFINE w == Placed(t, u)
  <2>9. w.red = T /\ w.blue = t.blue /\ w \in Teams(users)
    BY <1>5, <2>1, <2>3 DEF Teams
  <2> HIDE DEF w, T
  <2>10. Fair(w, r, k)
    BY <1>4, <1>8, <2>2, <2>3, <2>4, <2>5, <2>6, <2>7, <2>8, <2>9 DEF Fair, m, y, u, b, c
  <2> QED BY <2>9, <2>10 DEF w, u
<1> QED BY <1>9, <1>10

\* A ranking makes two whole teams that are apart by no more than the best one's score.
LEMMA SplitIsFair ==
  ASSUME perTeam \in Nat \ {0}, NEW users, NEW r, Ranked(r, users), IsFiniteSet(users),
         Cardinality(users) = 2 * perTeam, \A u \in users : Score[u] \in Nat
  PROVE  LET t == League!balancedSplit(r) IN
         /\ t.blue \in SUBSET users /\ t.red = users \ t.blue
         /\ r[1] \in users
         /\ League!Strength(t.blue) - League!Strength(t.red) <= Score[r[1]]
         /\ League!Strength(t.red) - League!Strength(t.blue) <= Score[r[1]]
<1> DEFINE n == 2 * perTeam
           none == [blue |-> {}, red |-> {}]
<1>1. n \in Nat /\ n > 0 /\ r \in [1..n -> users] /\ r[1] \in users
  BY DEF Ranked
<1>2. PICK F : Places(F, r, n)
  <2> HIDE DEF n
  <2> QED BY <1>1, SplitPlaces, Zenon
<1> DEFINE Good == {k \in Nat : k <= n => Fair(F[1..k], r, k) /\ F[1..k] \in Teams(users)}
<1>3. 0 \in Good
  <2>1. 1..0 = {} /\ IsFiniteSet({}) /\ Cardinality({}) = 0
    BY FS_EmptySet
  <2>2. Sum(Score, {}) = 0
    <3>1. \A x \in {} : Score[x] \in Int
      OBVIOUS
    <3> QED BY <2>1, <3>1, SumTakesOut
  <2>3. Score[r[1]] \in Nat
    BY <1>1
  <2>4. Near(0 - 0, 0 - 0, Score[r[1]], Score[r[1]])
    BY <2>3 DEF Near
  <2>5. Fair(none, r, 0) /\ none \in Teams(users)
    BY <2>1, <2>2, <2>4 DEF Fair, Teams
  <2> QED BY <1>2, <2>1, <2>5 DEF Places
<1>4. ASSUME NEW j \in Good  PROVE j + 1 \in Good
  <2>1. SUFFICES ASSUME j + 1 <= n  PROVE Fair(F[1..(j + 1)], r, j + 1) /\ F[1..(j + 1)] \in Teams(users)
    OBVIOUS
  <2> DEFINE k == j + 1
  <2>2. k \in 1..n /\ k - 1 = j /\ j <= n
    BY <2>1
  <2>3. Fair(F[1..j], r, k - 1) /\ F[1..j] \in Teams(users) /\ F[1..k] = Placed(F[1..j], r[k])
    BY <1>2, <2>2 DEF Places
  <2> HIDE DEF k
  <2>4. Fair(F[1..k], r, k) /\ F[1..k] \in Teams(users)
    BY <2>2, <2>3, PlacingIsFair
  <2> QED BY <2>4 DEF k
<1>5. Good = Nat
  <2>1. Good \in SUBSET Nat
    OBVIOUS
  <2> HIDE DEF Good
  <2> QED BY <1>3, <1>4, <2>1, Induction
<1> DEFINE t == League!balancedSplit(r)
<1>6. Fair(t, r, n) /\ t \in Teams(users)
  BY <1>1, <1>2, <1>5 DEF Places
<1> HIDE DEF t, n
<1>7. /\ t.blue \in SUBSET users /\ t.red \in SUBSET (users \ t.blue)
      /\ Cardinality(t.blue) = perTeam /\ Cardinality(t.red) = perTeam
      /\ Sum(Score, t.blue) - Sum(Score, t.red) <= Score[r[1]]
      /\ Sum(Score, t.red) - Sum(Score, t.blue) <= Score[r[1]]
  <2>1. t.blue \in SUBSET users /\ t.red \in SUBSET users /\ t.blue \cap t.red = {}
    BY <1>6 DEF Fair, Teams
  <2>2. Cardinality(t.blue) = perTeam /\ Cardinality(t.red) = perTeam
    BY <1>6 DEF Fair, n
  <2>3. /\ Sum(Score, t.blue) - Sum(Score, t.red) <= Score[r[1]]
        /\ Sum(Score, t.red) - Sum(Score, t.blue) <= Score[r[1]]
    BY <1>6 DEF Fair, Near
  <2> QED BY <2>1, <2>2, <2>3
<1>8. t.red = users \ t.blue
  <2>1. IsFiniteSet(t.blue) /\ IsFiniteSet(users \ t.blue)
    BY <1>7, FS_Subset, FS_Difference
  <2>2. Cardinality(users \ t.blue) = Cardinality(users) - Cardinality(users \cap t.blue)
    BY FS_Difference
  <2>3. users \cap t.blue = t.blue
    BY <1>7
  <2>4. Cardinality(users \ t.blue) = Cardinality(t.red)
    <3>1. Cardinality(users \ t.blue) = 2 * perTeam - perTeam
      BY <1>7, <2>2, <2>3
    <3>2. 2 * perTeam - perTeam = perTeam
      OBVIOUS
    <3> QED BY <1>7, <3>1, <3>2
  <2> QED BY <1>7, <2>1, <2>4, FS_Subset
<1> QED BY <1>1, <1>7, <1>8, StrengthIsTheSum DEF t

\* The users of a full queue are two teams of them.
LEMMA UsersOfAQueue ==
  ASSUME NEW q, Queued(q, perTeam)
  PROVE  /\ IsFiniteSet(League!Users(q)) /\ Cardinality(League!Users(q)) = Len(q)
         /\ League!Users(q) \in SUBSET Queuers
<1> DEFINE n == Len(q)
           users == League!Users(q)
           f == [i \in 1..n |-> q[i].user]
<1>1. n \in Nat /\ DOMAIN q = 1..n /\ \A i \in 1..n : q[i] \in Entry
  BY DEF Queued
<1>2. users = {q[i].user : i \in 1..n}
  BY <1>1 DEF League!Users
<1>3. ExistsBijection(1..n, users)
  <2>1. f \in [1..n -> users] /\ \A u \in users : \E i \in 1..n : f[i] = u
    BY <1>2
  <2>2. \A i, j \in 1..n : f[i] = f[j] => i = j
    BY <1>1 DEF Queued, Once
  <2> DEFINE S == 1..n
  <2>3. f \in [S -> users] /\ (\A i, j \in S : f[i] = f[j] => i = j)
        /\ \A u \in users : \E i \in S : f[i] = u
    BY <2>1, <2>2
  <2> HIDE DEF f, users, S
  <2>4. ExistsBijection(S, users)
    BY <2>3, OneToOne
  <2> QED BY <2>4 DEF S
<1>4. IsFiniteSet(1..n) /\ Cardinality(1..n) = n
  BY <1>1, UpTo
<1> HIDE DEF n
<1>5. IsFiniteSet(users) /\ Cardinality(users) = n
  BY <1>3, <1>4, FS_Bijection
<1>6. users \in SUBSET Queuers
  BY <1>1, <1>2 DEF Entry
<1> QED BY <1>5, <1>6 DEF n

\* draw: a full queue of a balanced match.
LEMMA DrawIsBalanced ==
  ASSUME LeagueBounds, perTeam \in Nat \ {0}, NEW q, Queued(q, perTeam), Len(q) = League!maxPlayers,
         format = "BALANCEADO", NEW sides \in League!Draws(League!Users(q))
  PROVE  Balanced(League!InTeams(q, sides))
<1> DEFINE users == League!Users(q)
           drawn == League!InTeams(q, sides)
<1>1. /\ IsFiniteSet(users) /\ Cardinality(users) = 2 * perTeam
      /\ users \in SUBSET Queuers /\ perTeam \in Nat \ {0}
  BY UsersOfAQueue DEF League!maxPlayers, LeagueBounds
<1>2. PICK r : Ranked(r, users) /\ sides = League!balancedSplit(r)
  <2>1. PICK r \in League!SetToSeqs(users) : /\ \A i, j \in DOMAIN r : i < j => Score[r[i]] >= Score[r[j]]
                                            /\ sides = League!balancedSplit(r)
    BY DEF League!Draws
  <2>2. r \in [1..Cardinality(users) -> users] /\ \A i, j \in DOMAIN r : i # j => r[i] # r[j]
    BY <2>1, SameCounts DEF League!SetToSeqs
  <2> HIDE DEF users
  <2> QED BY <2>1, <2>2 DEF Ranked
<1>3. League!Users(drawn) = users
  BY DEF League!Users, League!InTeams
<1>4. SUFFICES ASSUME \A u \in users : Score[u] >= 0
               PROVE  \E best \in users :
                        LET blue == League!Strength(League!Team(drawn, "blue"))
                            red  == League!Strength(League!Team(drawn, "red"))
                        IN blue - red <= Score[best] /\ red - blue <= Score[best]
  BY <1>3 DEF Balanced
<1>5. \A u \in users : Score[u] \in Nat
  BY <1>1, <1>4 DEF LeagueBounds
<1>6. /\ sides.blue \in SUBSET users /\ sides.red = users \ sides.blue /\ r[1] \in users
      /\ League!Strength(sides.blue) - League!Strength(sides.red) <= Score[r[1]]
      /\ League!Strength(sides.red) - League!Strength(sides.blue) <= Score[r[1]]
  <2> HIDE DEF users
  <2> QED BY <1>1, <1>2, <1>5, SplitIsFair
<1>7. League!Team(drawn, "blue") = sides.blue /\ League!Team(drawn, "red") = sides.red
  <2>1. DOMAIN drawn = DOMAIN q /\ \A i \in DOMAIN q :
          /\ drawn[i].user = q[i].user
          /\ drawn[i].side = IF q[i].user \in sides.blue THEN "blue" ELSE "red"
    <3>1. \A i \in DOMAIN q : q[i] \in Entry /\ q[i].user \in users
      BY DEF Queued, League!Users
    <3>2. \A i \in DOMAIN q : q[i].user \in sides.red \equiv q[i].user \notin sides.blue
      BY <1>6, <3>1
    <3> HIDE DEF users
    <3> QED BY <3>1, <3>2 DEF League!InTeams, League!SideIn, Entry
  <2>2. users = {q[i].user : i \in DOMAIN q}
    BY DEF League!Users
  <2> HIDE DEF drawn, users
  <2>3. League!Team(drawn, "blue") = {u \in users : u \in sides.blue}
    BY <2>1, <2>2 DEF League!Team
  <2>4. League!Team(drawn, "red") = {u \in users : u \notin sides.blue}
    BY <2>1, <2>2 DEF League!Team
  <2> QED BY <1>6, <2>3, <2>4
<1> HIDE DEF drawn, users
<1> QED BY <1>6, <1>7

\* The teams of a draw are of the users it was made of.
LEMMA DrawsAreOfTheUsers ==
  ASSUME NEW q, Queued(q, perTeam), NEW sides \in League!Draws(League!Users(q))
  PROVE  sides.blue \in SUBSET League!Users(q) /\ sides.red \in SUBSET League!Users(q)
<1> DEFINE users == League!Users(q)
<1>0. Cardinality(users) \in Nat
  BY UsersOfAQueue DEF Queued
<1>1. CASE format = "BALANCEADO"
  <2>1. PICK r \in League!SetToSeqs(users) : /\ \A i, j \in DOMAIN r : i < j => Score[r[i]] >= Score[r[j]]
                                            /\ sides = League!balancedSplit(r)
    BY <1>1 DEF League!Draws
  <2>2. r \in [1..Cardinality(users) -> users]
    BY <2>1, SameCounts DEF League!SetToSeqs
  <2> HIDE DEF users
  <2>3. PICK F : Places(F, r, Cardinality(users))
    BY <1>0, <2>2, SplitPlaces, Zenon
  <2> DEFINE n == Cardinality(users)
             Good == {k \in Nat : k <= n => F[1..k] \in Teams(users)}
  <2>4. 0 \in Good
    <3>1. 1..0 = {}
      OBVIOUS
    <3> QED BY <1>0, <2>3, <3>1 DEF Places, Teams
  <2>5. ASSUME NEW j \in Good  PROVE j + 1 \in Good
    <3>1. SUFFICES ASSUME j + 1 <= n  PROVE F[1..(j + 1)] \in Teams(users)
      OBVIOUS
    <3> DEFINE k == j + 1
    <3>2. k \in 1..n /\ k - 1 = j /\ j <= n
      BY <1>0, <3>1
    <3>3. F[1..j] \in Teams(users) /\ F[1..k] = Placed(F[1..j], r[k]) /\ r[k] \in users
      BY <2>2, <2>3, <3>2 DEF Places
    <3> HIDE DEF k
    <3>4. F[1..k] \in Teams(users)
      BY <3>3 DEF Teams, Placed
    <3> QED BY <3>4 DEF k
  <2>6. Good = Nat
    <3>1. Good \in SUBSET Nat
      OBVIOUS
    <3> HIDE DEF Good
    <3> QED BY <2>4, <2>5, <3>1, Induction
  <2>7. sides \in Teams(users)
    BY <1>0, <2>1, <2>3, <2>6 DEF Places
  <2> QED BY <2>7 DEF Teams, users
<1>2. CASE format # "BALANCEADO"
  <2>1. PICK b \in League!kSubset(perTeam, users) : sides = [blue |-> b, red |-> users \ b]
    BY <1>2 DEF League!Draws
  <2>2. b \in SUBSET users
    BY <2>1 DEF League!kSubset
  <2> QED BY <2>1, <2>2
<1> QED BY <1>1, <1>2

\* The same draw for any full queue of the same users.
LEMMA DrawDeals ==
  ASSUME LeagueBounds, perTeam \in Nat \ {0}, NEW old, Queued(old, perTeam), Len(old) = League!maxPlayers,
         format = "BALANCEADO", NEW sides \in League!Draws(League!Users(old)),
         NEW r, r.blue = sides.blue, r.red = sides.red
  PROVE  Deals(r, perTeam)
<1>1. SUFFICES ASSUME NEW q, Queued(q, perTeam), Len(q) = 2 * perTeam,
                      League!Users(q) \in SUBSET (r.blue \cup r.red)
               PROVE  Balanced(League!InTeams(q, r))
  BY DEF Deals
<1>2. League!Users(q) \in SUBSET League!Users(old)
  BY <1>1, DrawsAreOfTheUsers
<1>3. League!Users(q) = League!Users(old)
  <2>1. /\ IsFiniteSet(League!Users(q)) /\ Cardinality(League!Users(q)) = Len(q)
        /\ IsFiniteSet(League!Users(old)) /\ Cardinality(League!Users(old)) = Len(old)
    BY <1>1, UsersOfAQueue
  <2>2. Cardinality(League!Users(q)) = Cardinality(League!Users(old))
    BY <1>1, <2>1 DEF League!maxPlayers
  <2> QED BY <1>2, <2>1, <2>2, FS_Subset
<1>4. Balanced(League!InTeams(q, sides))
  BY <1>1, <1>3, DrawIsBalanced DEF League!maxPlayers
<1>5. League!InTeams(q, r) = League!InTeams(q, sides)
  BY DEF League!InTeams, League!SideIn
<1> QED BY <1>4, <1>5

\* Teams given to a queue: the same users, whatever teams they had.
LEMMA InTeamsKeeps ==
  ASSUME NEW n, NEW q, Queued(q, n), NEW a, NEW r, r = League!InTeams(q, a)
  PROVE  /\ Queued(r, n) /\ Len(r) = Len(q) /\ DOMAIN r = DOMAIN q
         /\ \A i \in DOMAIN q : r[i].user = q[i].user
         /\ \A b : League!InTeams(r, b) = League!InTeams(q, b)
<1>1. q \in Seq(Entry) /\ \A i \in DOMAIN q : q[i] \in Entry
  BY DEF Queued
<1>2. DOMAIN r = DOMAIN q /\ \A i \in DOMAIN q : \E side \in League!Sides \cup {League!Free} :
        r[i] = [q[i] EXCEPT !.side = side]
  BY DEF League!InTeams, League!SideIn, League!Sides
<1>3. \A i \in DOMAIN q : r[i] \in Entry /\ r[i].user = q[i].user
  BY <1>1, <1>2 DEF Entry
<1>4. r = [i \in DOMAIN q |-> r[i]]
  BY DEF League!InTeams
<1>5. r \in Seq(Entry) /\ Len(r) = Len(q)
  BY <1>1, <1>3, <1>4, IsASeq
<1>6. Queued(r, n)
  BY <1>2, <1>3, <1>5 DEF Queued, Once
<1>7. ASSUME NEW b  PROVE League!InTeams(r, b) = League!InTeams(q, b)
  <2>1. \A i \in DOMAIN q : \A side : [r[i] EXCEPT !.side = side] = [q[i] EXCEPT !.side = side]
    BY <1>1, <1>3 DEF Entry
  <2>2. League!InTeams(q, b) = [i \in DOMAIN q |-> [q[i] EXCEPT !.side = League!SideIn(b, q[i].user)]]
    BY DEF League!InTeams
  <2>3. League!InTeams(r, b) = [i \in DOMAIN q |-> [r[i] EXCEPT !.side = League!SideIn(b, q[i].user)]]
    BY <1>2, <1>3 DEF League!InTeams
  <2> DEFINE Given(i) == [q[i] EXCEPT !.side = League!SideIn(b, q[i].user)]
             Kept(i)  == [r[i] EXCEPT !.side = League!SideIn(b, q[i].user)]
  <2>4. \A i \in DOMAIN q : Kept(i) = Given(i)
    BY <2>1, Zenon
  <2>5. League!InTeams(q, b) = [i \in DOMAIN q |-> Given(i)]
    BY <2>2
  <2>6. League!InTeams(r, b) = [i \in DOMAIN q |-> Kept(i)]
    BY <2>3
  <2> HIDE DEF Given, Kept
  <2> QED BY <2>4, <2>5, <2>6
<1> QED BY <1>2, <1>3, <1>5, <1>6, <1>7

\* A request without the row of a player who is gone still deals fairly.
LEMMA WithoutStands ==
  ASSUME NEW r \in Request, NEW u, NEW n, r.op \in {"undo", "deal"} => Deals(r, n)
  PROVE  /\ League!Without(r, u) \in Request
         /\ League!Without(r, u).op \in {r.op, "idle"}
         /\ League!Without(r, u).op \in {"undo", "deal"} => Deals(League!Without(r, u), n)
<1>1. CASE u \in r.gone
  BY <1>1 DEF League!Without, League!Idle, Request
<1>2. CASE u \notin r.gone
  <2> DEFINE w == League!Without(r, u)
  <2>1. w = [r EXCEPT !.blue = @ \ {u}, !.red = @ \ {u}]
    BY <1>2 DEF League!Without
  <2>2. w \in Request /\ w.op = r.op /\ w.blue = r.blue \ {u} /\ w.red = r.red \ {u}
    BY <2>1 DEF Request
  <2>3. ASSUME w.op \in {"undo", "deal"}, NEW q, Queued(q, n), Len(q) = 2 * n,
               League!Users(q) \in SUBSET (w.blue \cup w.red)
        PROVE  Balanced(League!InTeams(q, w))
    <3>1. u \notin League!Users(q) /\ League!Users(q) \in SUBSET (r.blue \cup r.red)
      BY <2>2, <2>3
    <3>2. League!InTeams(q, w) = League!InTeams(q, r)
      BY <2>2, <3>1 DEF League!InTeams, League!SideIn, League!Users
    <3> QED BY <2>2, <2>3, <3>1, <3>2 DEF Deals
  <2> QED BY <2>2, <2>3 DEF Deals
<1> QED BY <1>1, <1>2

LEMMA LeagueInit == ASSUME LeagueBounds, League!Init PROVE LeagueInv
<1>1. <<>> \in Seq(Entry) /\ Len(<<>>) = 0 /\ DOMAIN <<>> = {}
  OBVIOUS
<1>2. League!Idle \in Request /\ League!Idle.op = "idle"
  BY DEF League!Idle, Request
<1>3. QueueInv
  BY <1>1, <1>2 DEF LeagueBounds, League!Init, QueueInv, AllIdle, Queued, Once
<1>4. PendingInv
  BY <1>2 DEF League!Init, PendingInv, Upheld
<1> QED BY <1>3, <1>4 DEF League!Init, LeagueInv, DrawnAsItIs, OnIsReady

\* A request reads a match that is not over.
LEMMA ReadKeeps ==
  ASSUME LeagueInv, NEW h \in League!Active, NEW r \in Request, League!Reads(h, r), UNCHANGED crossed,
         status \in {"WAITING", "STARTED", "EXPIRED"}, Upheld(r, queue, perTeam, format, crossed)
  PROVE  LeagueInv'
<1>1. /\ UNCHANGED <<status, perTeam, format, queue>> /\ League!Active' = League!Active
      /\ pending' = [pending EXCEPT ![h] = r]
  BY DEF League!Reads, League!Active
<1>2. QueueInv'
  BY <1>1 DEF LeagueInv, QueueInv, AllIdle
<1>3. PendingInv'
  <2>1. \A g \in League!Active : pending'[g] = IF g = h THEN r ELSE pending[g]
    BY <1>1 DEF LeagueInv, QueueInv
  <2>2. \A g \in League!Active : Upheld(pending'[g], queue, perTeam, format, crossed)
    BY <2>1 DEF LeagueInv, PendingInv
  <2> QED BY <1>1, <2>2 DEF PendingInv
<1> QED BY <1>1, <1>2, <1>3 DEF LeagueInv, DrawnAsItIs, OnIsReady

\* A request ends: nobody else's is touched.
LEMMA EndKeeps ==
  ASSUME QueueInv, PendingInv, NEW h \in League!Active, NEW q, NEW n, NEW f, NEW x,
         NEW after, after = [pending EXCEPT ![h] = League!Idle],
         \A g \in League!Active : Upheld(pending[g], q, n, f, x)
  PROVE  /\ after \in [League!Active -> Request]
         /\ \A g \in League!Active : Upheld(after[g], q, n, f, x)
<1>1. League!Idle \in Request /\ League!Idle.op = "idle"
  BY DEF League!Idle, Request
<1>2. \A g \in League!Active : after[g] = IF g = h THEN League!Idle ELSE pending[g]
  BY DEF QueueInv
<1>3. after \in [League!Active -> Request]
  BY <1>1 DEF QueueInv
<1>4. Upheld(League!Idle, q, n, f, x)
  BY <1>1 DEF Upheld
<1> QED BY <1>2, <1>3, <1>4

\* A join finds nobody starting: the queue is not full.
LEMMA JoinKeeps ==
  ASSUME LeagueInv, NEW u \in Queuers, League!join(u)  PROVE LeagueInv'
<1>1. /\ Queued(queue, perTeam) /\ Len(queue) < League!maxPlayers /\ u \notin League!Users(queue)
      /\ queue' = Append(queue, [user |-> u, side |-> League!Free]) /\ status = "WAITING"
      /\ UNCHANGED <<status, perTeam, format, pending, crossed>> /\ League!Active' = League!Active
      /\ perTeam \in Nat \ {0}
  BY DEF League!join, LeagueInv, QueueInv, League!Active
<1>2. /\ queue \in Seq(Entry) /\ [user |-> u, side |-> League!Free] \in Entry /\ Len(queue) \in Nat
  BY <1>1 DEF Queued, Entry
<1>3. /\ queue' \in Seq(Entry) /\ Len(queue') = Len(queue) + 1
      /\ \A i \in DOMAIN queue : i # Len(queue) + 1 /\ queue'[i] = queue[i]
      /\ queue'[Len(queue) + 1].user = u /\ queue'[Len(queue) + 1].side = League!Free
      /\ DOMAIN queue' = DOMAIN queue \cup {Len(queue) + 1}
  BY <1>1, <1>2
<1>4. Once(queue')
  BY <1>1, <1>3 DEF Queued, Once, League!Users
<1>5. Len(queue') <= 2 * perTeam
  BY <1>1, <1>2, <1>3 DEF League!maxPlayers
<1>6. QueueInv'
  BY <1>1, <1>3, <1>4, <1>5 DEF LeagueInv, QueueInv, Queued
<1>7. ASSUME NEW g \in League!Active  PROVE Upheld(pending[g], queue', perTeam, format, crossed)
  <2>1. Upheld(pending[g], queue, perTeam, format, crossed)
    BY DEF LeagueInv, PendingInv
  <2>2. Len(League!InTeams(queue, pending[g])) = Len(queue)
    BY <1>1, InTeamsKeeps
  <2> QED BY <1>1, <1>2, <2>1, <2>2 DEF Upheld, Ready, League!maxPlayers
<1>8. PendingInv'
  BY <1>1, <1>7 DEF PendingInv
<1>9. DrawnAsItIs'
  BY <1>3 DEF DrawnAsItIs
<1> QED BY <1>1, <1>6, <1>8, <1>9 DEF LeagueInv, OnIsReady

\* A row goes, and the match is crossed if somebody was starting it.
LEMMA RowKeeps ==
  ASSUME LeagueBounds, LeagueInv, NEW h \in League!Active, League!rowDeleted(h)  PROVE LeagueInv'
<1>1. PICK i \in DOMAIN queue : /\ queue' = League!RemoveAt(queue, i)
                               /\ pending' = [g \in League!Active |->
                                                League!Without(pending[g], queue[i].user)]
  BY DEF League!rowDeleted
<1>2. /\ pending[h].op = "go" /\ UNCHANGED <<status, perTeam, format>>
      /\ crossed' = (crossed \/ League!Starting) /\ League!Active' = League!Active
  BY DEF League!rowDeleted, League!Active
<1>3. Queued(queue, perTeam) /\ perTeam \in Nat \ {0} /\ pending \in [League!Active -> Request]
      /\ status # "none"
  BY <1>2 DEF LeagueInv, QueueInv, AllIdle, League!Idle
<1>4. /\ queue \in Seq(Entry) /\ i \in 1..Len(queue) /\ Len(queue) \in Nat
  BY <1>1, <1>3 DEF Queued
<1>5. /\ queue' \in Seq(Entry) /\ Len(queue') = Len(queue) - 1
      /\ \A j \in DOMAIN queue' : queue'[j] = IF j < i THEN queue[j] ELSE queue[j + 1]
  BY <1>1, <1>4, OneLess
<1>6. \A j \in DOMAIN queue' : (IF j < i THEN j ELSE j + 1) \in DOMAIN queue
  BY <1>4, <1>5
<1>7. Once(queue')
  <2>1. SUFFICES ASSUME NEW j \in DOMAIN queue', NEW k \in DOMAIN queue',
                        queue'[j].user = queue'[k].user
                 PROVE  j = k
    BY DEF Once
  <2>2. (IF j < i THEN j ELSE j + 1) = (IF k < i THEN k ELSE k + 1)
    BY <1>3, <1>5, <1>6, <2>1 DEF Queued, Once
  <2> QED BY <1>4, <1>5, <2>2
<1>8. Len(queue') < 2 * perTeam
  BY <1>3, <1>4, <1>5 DEF Queued
<1>9. ASSUME NEW g \in League!Active
      PROVE  /\ League!Without(pending[g], queue[i].user) \in Request
             /\ Upheld(League!Without(pending[g], queue[i].user), queue', perTeam, format, crossed')
  <2> DEFINE r == pending[g]
             w == League!Without(r, queue[i].user)
  <2>1. r \in Request /\ Upheld(r, queue, perTeam, format, crossed)
    BY <1>3 DEF LeagueInv, PendingInv
  <2>2. CASE r.op \in {"start", "split"}
    <3>1. w \in Request /\ w.op \in {r.op, "idle"}
      BY <2>1, <2>2, WithoutStands
    <3>2. crossed'
      BY <1>2, <2>2 DEF League!Starting
    <3> QED BY <2>2, <3>1, <3>2 DEF Upheld
  <2>3. CASE r.op \notin {"start", "split"} /\ format = "BALANCEADO"
    <3>1. r.op \in {"undo", "deal"} => Deals(r, perTeam)
      BY <2>1, <2>3 DEF Upheld
    <3>2. /\ w \in Request /\ w.op \in {r.op, "idle"}
          /\ w.op \in {"undo", "deal"} => Deals(w, perTeam)
      BY <2>1, <3>1, WithoutStands
    <3> QED BY <2>3, <3>2 DEF Upheld
  <2>4. CASE r.op \notin {"start", "split"} /\ format # "BALANCEADO"
    <3>1. w \in Request /\ w.op \in {r.op, "idle"}
      BY <2>1 DEF League!Without, League!Idle, Request
    <3> QED BY <2>4, <3>1 DEF Upheld
  <2> QED BY <2>2, <2>3, <2>4
<1>10. QueueInv'
  BY <1>1, <1>2, <1>3, <1>5, <1>7, <1>8, <1>9 DEF QueueInv, Queued
<1>11. PendingInv'
  BY <1>1, <1>2, <1>9 DEF PendingInv
<1>12. DrawnAsItIs'
  <2>1. Len(queue') # 2 * perTeam'
    BY <1>2, <1>3, <1>5, <1>8
  <2> QED BY <2>1 DEF DrawnAsItIs
<1>13. OnIsReady'
  BY <1>2 DEF OnIsReady, League!Starting
<1> QED BY <1>10, <1>11, <1>12, <1>13 DEF LeagueInv

\* Who draws reads a queue, and its teams are of it.
LEMMA DrawKeeps ==
  ASSUME LeagueBounds, LeagueInv, NEW h \in League!Active, League!draw(h)  PROVE LeagueInv'
<1>1. /\ status = "WAITING" /\ UNCHANGED crossed /\ Queued(queue, perTeam)
      /\ perTeam \in Nat \ {0} /\ Len(queue) \in Nat /\ Len(queue) <= 2 * perTeam
  BY DEF League!draw, LeagueInv, QueueInv, Queued
<1>2. CASE Len(queue) < League!maxPlayers
  <2> DEFINE r == [League!Idle EXCEPT !.op = "clear"]
  <2>1. League!Reads(h, r)
    BY <1>2 DEF League!draw
  <2>2. r \in Request /\ r.op = "clear"
    BY DEF League!Idle, Request
  <2>3. Upheld(r, queue, perTeam, format, crossed)
    BY <2>2 DEF Upheld
  <2> HIDE DEF r
  <2> QED BY <1>1, <2>1, <2>2, <2>3, ReadKeeps
<1>3. CASE ~(Len(queue) < League!maxPlayers)
  <2>1. PICK sides \in League!Draws(League!Users(queue)), o \in {"undo", "deal"} :
          League!Reads(h, [op |-> o, gone |-> {}, blue |-> sides.blue, red |-> sides.red])
    BY <1>3 DEF League!draw
  <2> DEFINE r == [op |-> o, gone |-> {}, blue |-> sides.blue, red |-> sides.red]
  <2>2. sides.blue \in SUBSET Queuers /\ sides.red \in SUBSET Queuers
    BY <1>1, DrawsAreOfTheUsers, UsersOfAQueue
  <2>3. r \in Request /\ r.op \in {"undo", "deal"} /\ r.blue = sides.blue /\ r.red = sides.red
    BY <2>2 DEF Request
  <2>4. League!Reads(h, r)
    BY <2>1
  <2> HIDE DEF r
  <2>5. Len(queue) = League!maxPlayers
    BY <1>1, <1>3 DEF League!maxPlayers
  <2>6. format = "BALANCEADO" => Deals(r, perTeam)
    BY <1>1, <2>3, <2>5, DrawDeals
  <2>7. Upheld(r, queue, perTeam, format, crossed)
    BY <2>3, <2>6 DEF Upheld
  <2> QED BY <1>1, <2>3, <2>4, <2>7, ReadKeeps
<1> QED BY <1>2, <1>3

\* A draw writes: the match is crossed if somebody was starting it.
LEMMA DrawWrites ==
  ASSUME LeagueInv, NEW h \in League!Active, NEW r \in Request, Queued(queue, perTeam),
         Queued(queue', perTeam), status # "none", pending' = [pending EXCEPT ![h] = r],
         r.op \in {"undo", "deal"} /\ format = "BALANCEADO" => Deals(r, perTeam),
         r.op \notin {"start", "split"}, UNCHANGED <<status, perTeam, format>>,
         crossed' = (crossed \/ League!Starting), DrawnAsItIs'
  PROVE  LeagueInv'
<1>1. League!Active' = League!Active /\ pending \in [League!Active -> Request]
  BY DEF League!Active, LeagueInv, QueueInv
<1>2. QueueInv'
  BY <1>1 DEF LeagueInv, QueueInv
<1>3. ASSUME NEW g \in League!Active  PROVE Upheld(pending'[g], queue', perTeam, format, crossed')
  <2>1. CASE g = h
    BY <1>1, <2>1 DEF Upheld
  <2>2. CASE g # h
    <3>1. pending'[g] = pending[g] /\ Upheld(pending[g], queue, perTeam, format, crossed)
      BY <1>1, <2>2 DEF LeagueInv, PendingInv
    <3>2. pending[g].op \in {"start", "split"} => crossed'
      BY DEF League!Starting
    <3> QED BY <3>1, <3>2 DEF Upheld
  <2> QED BY <2>1, <2>2
<1>4. PendingInv'
  BY <1>1, <1>3 DEF PendingInv
<1>5. OnIsReady'
  BY DEF OnIsReady, League!Starting
<1> QED BY <1>2, <1>4, <1>5 DEF LeagueInv

LEMMA UndoneKeeps ==
  ASSUME LeagueInv, NEW h \in League!Active, League!undone(h)  PROVE LeagueInv'
<1>1. /\ pending[h].op \in {"undo", "clear"} /\ UNCHANGED <<status, perTeam, format>>
      /\ queue' = [i \in DOMAIN queue |-> [queue[i] EXCEPT !.side = League!Free]]
      /\ crossed' = (crossed \/ League!Starting) /\ perTeam \in Nat \ {0}
      /\ pending \in [League!Active -> Request] /\ pending[h] \in Request
  BY DEF League!undone, LeagueInv, QueueInv
<1>2. Queued(queue, perTeam) /\ status # "none"
  BY <1>1 DEF LeagueInv, QueueInv, AllIdle, League!Idle
<1>3. Queued(queue', perTeam)
  BY <1>1, <1>2, Resided
<1> DEFINE r == IF pending[h].op = "undo" THEN [pending[h] EXCEPT !.op = "deal"] ELSE League!Idle
<1>4. pending' = [pending EXCEPT ![h] = r]
  BY DEF League!undone
<1>5. /\ r \in Request /\ r.op \in {"deal", "idle"}
      /\ r.op = "deal" => pending[h].op = "undo" /\ r.blue = pending[h].blue /\ r.red = pending[h].red
  BY <1>1 DEF League!Idle, Request
<1>6. pending[h].op = "undo" /\ format = "BALANCEADO" => Deals(pending[h], perTeam)
  BY DEF LeagueInv, PendingInv, Upheld
<1> HIDE DEF r
<1>7. r.op = "deal" /\ format = "BALANCEADO" => Deals(r, perTeam)
  <2>1. ASSUME r.op = "deal"  PROVE \A q : League!InTeams(q, r) = League!InTeams(q, pending[h])
    BY <1>5, <2>1 DEF League!InTeams, League!SideIn
  <2> QED BY <1>5, <1>6, <2>1 DEF Deals
<1>8. DrawnAsItIs'
  <2>1. ASSUME Len(queue') = 2 * perTeam'  PROVE \E i \in DOMAIN queue' : queue'[i].side = League!Free
    <3>1. 1 \in DOMAIN queue'
      BY <1>1, <1>3, <2>1 DEF Queued
    <3>2. queue'[1] = [queue[1] EXCEPT !.side = League!Free] /\ queue[1] \in Entry
      BY <1>1, <1>2, <3>1 DEF Queued
    <3> QED BY <3>1, <3>2 DEF Entry
  <2> QED BY <2>1 DEF DrawnAsItIs
<1> QED BY <1>1, <1>2, <1>3, <1>4, <1>5, <1>7, <1>8, DrawWrites

LEMMA DealtKeeps ==
  ASSUME LeagueInv, NEW h \in League!Active, League!dealt(h)  PROVE LeagueInv'
<1>1. /\ pending[h].op = "deal" /\ UNCHANGED <<status, perTeam, format>>
      /\ queue' = League!InTeams(queue, pending[h])
      /\ crossed' = (crossed \/ League!Starting) /\ perTeam \in Nat \ {0}
      /\ pending' = [pending EXCEPT ![h] = League!Idle]
  BY DEF League!dealt, League!Writes, LeagueInv, QueueInv
<1>2. Queued(queue, perTeam) /\ status # "none"
  BY <1>1 DEF LeagueInv, QueueInv, AllIdle, League!Idle
<1>3. /\ Queued(queue', perTeam) /\ Len(queue') = Len(queue) /\ DOMAIN queue' = DOMAIN queue
      /\ \A i \in DOMAIN queue : queue'[i].user = queue[i].user
  BY <1>1, <1>2, InTeamsKeeps
<1>4. League!Idle \in Request /\ League!Idle.op = "idle"
  BY DEF League!Idle, Request
<1>5. format = "BALANCEADO" => Deals(pending[h], perTeam)
  BY <1>1 DEF LeagueInv, PendingInv, Upheld
<1>6. ASSUME \A i \in DOMAIN queue' : queue'[i].side # League!Free
      PROVE  League!Users(queue) \in SUBSET (pending[h].blue \cup pending[h].red)
  <2>1. ASSUME NEW i \in DOMAIN queue  PROVE queue[i].user \in pending[h].blue \cup pending[h].red
    <3>1. /\ queue[i] \in Entry
          /\ queue'[i] = [queue[i] EXCEPT !.side = League!SideIn(pending[h], queue[i].user)]
      BY <1>1, <1>2, <2>1 DEF League!InTeams, Queued
    <3>2. queue'[i].side # League!Free
      BY <1>3, <1>6, <2>1
    <3> QED BY <3>1, <3>2 DEF Entry, League!SideIn
  <2> QED BY <2>1 DEF League!Users
<1>7. DrawnAsItIs'
  BY <1>1, <1>2, <1>3, <1>5, <1>6 DEF DrawnAsItIs, Deals
<1> QED BY <1>1, <1>2, <1>3, <1>4, <1>7, DrawWrites

LEMMA StartKeeps ==
  ASSUME LeagueBounds, LeagueInv, NEW h \in League!Active, League!start(h)  PROVE LeagueInv'
<1>1. /\ status = "WAITING" /\ UNCHANGED crossed /\ Queued(queue, perTeam)
      /\ perTeam \in Nat \ {0} /\ Len(queue) >= League!maxPlayers
  BY DEF League!start, LeagueInv, QueueInv
<1>2. CASE League!Complete(queue) /\ League!Reads(h, [League!Idle EXCEPT !.op = "start"])
  <2> DEFINE r == [League!Idle EXCEPT !.op = "start"]
  <2>1. r \in Request /\ r.op = "start" /\ League!Reads(h, r)
    BY <1>2 DEF League!Idle, Request
  <2> HIDE DEF r
  <2>2. /\ Whole(queue, perTeam) /\ Len(queue) = 2 * perTeam
        /\ \A i \in DOMAIN queue : queue[i].side # League!Free
    BY <1>1, <1>2, CompleteIsWhole DEF Whole, League!maxPlayers
  <2>3. Ready(queue, perTeam, format)
    BY <1>1, <2>2 DEF LeagueInv, DrawnAsItIs, Ready
  <2>4. Upheld(r, queue, perTeam, format, crossed)
    BY <2>1, <2>3 DEF Upheld
  <2> QED BY <1>1, <2>1, <2>4, ReadKeeps
<1>3. ASSUME format = "LIVRE",
             League!Reads(h, [op |-> "split", gone |-> {},
               blue |-> League!Users(SubSeq(queue, 1, perTeam)),
               red  |-> League!Users(SubSeq(queue, perTeam + 1, Len(queue)))])
      PROVE  LeagueInv'
  <2> DEFINE r == [op |-> "split", gone |-> {},
                   blue |-> League!Users(SubSeq(queue, 1, perTeam)),
                   red  |-> League!Users(SubSeq(queue, perTeam + 1, Len(queue)))]
  <2>1. League!Reads(h, r)
    BY <1>3
  <2>2. /\ queue \in Seq(Entry) /\ Len(queue) = 2 * perTeam
    BY <1>1 DEF Queued, League!maxPlayers
  <2>3. ASSUME NEW s \in Seq(Entry)  PROVE League!Users(s) \in SUBSET Queuers
    <3>1. \A i \in DOMAIN s : s[i] \in Entry
      OBVIOUS
    <3> QED BY <3>1 DEF League!Users, Entry
  <2>4. /\ SubSeq(queue, 1, perTeam) \in Seq(Entry)
        /\ SubSeq(queue, perTeam + 1, Len(queue)) \in Seq(Entry)
    BY <1>1, <2>2
  <2>5. r \in Request /\ r.op = "split" /\ r.blue = League!Users(SubSeq(queue, 1, perTeam))
        /\ r.red = League!Users(SubSeq(queue, perTeam + 1, Len(queue)))
    BY <2>3, <2>4 DEF Request
  <2> HIDE DEF r
  <2>6. LET q == League!InTeams(queue, r) IN Whole(q, perTeam) /\ Len(q) = 2 * perTeam
    BY <1>1, <2>5, HalvesAreWhole
  <2>7. Upheld(r, queue, perTeam, format, crossed)
    BY <1>3, <2>5, <2>6 DEF Upheld, Ready
  <2> QED BY <1>1, <2>1, <2>5, <2>7, ReadKeeps
<1> QED BY <1>2, <1>3 DEF League!start

\* STARTED is written: of what the start has read, unless it was crossed.
LEMMA StartedKeeps ==
  ASSUME LeagueInv, NEW h \in League!Active, League!started(h)  PROVE LeagueInv'
<1>1. /\ status' = "STARTED" /\ UNCHANGED <<perTeam, format, crossed>> /\ League!Active' = League!Active
      /\ pending' = [pending EXCEPT ![h] = League!Idle] /\ perTeam \in Nat \ {0}
      /\ pending[h].op \in {"start", "split"}
  BY DEF League!started, League!Writes, League!Active, LeagueInv, QueueInv
<1>2. Queued(queue, perTeam)
  BY <1>1 DEF LeagueInv, QueueInv, AllIdle, League!Idle
<1>3. \A g \in League!Active : Upheld(pending[g], queue, perTeam, format, crossed)
  BY DEF LeagueInv, PendingInv
<1>4. CASE pending[h].op = "start" /\ UNCHANGED queue
  <2>1. ~crossed => Ready(queue, perTeam, format)
    BY <1>3, <1>4 DEF Upheld
  <2>2. /\ pending' \in [League!Active -> Request]
        /\ \A g \in League!Active : Upheld(pending'[g], queue, perTeam, format, crossed)
    BY <1>1, <1>3, EndKeeps DEF LeagueInv
  <2> QED BY <1>1, <1>2, <1>4, <2>1, <2>2 DEF LeagueInv, QueueInv, PendingInv, OnIsReady, DrawnAsItIs
<1>5. CASE pending[h].op = "split" /\ queue' = League!InTeams(queue, pending[h])
  <2>1. ~crossed => format = "LIVRE" /\ Ready(queue', perTeam, format)
    BY <1>3, <1>5 DEF Upheld
  <2>2. Queued(queue', perTeam) /\ \A b : League!InTeams(queue', b) = League!InTeams(queue, b)
    BY <1>2, <1>5, InTeamsKeeps
  <2>3. \A g \in League!Active : Upheld(pending[g], queue', perTeam, format, crossed)
    BY <1>3, <2>1, <2>2 DEF Upheld
  <2>4. /\ pending' \in [League!Active -> Request]
        /\ \A g \in League!Active : Upheld(pending'[g], queue', perTeam, format, crossed)
    BY <1>1, <2>3, EndKeeps DEF LeagueInv
  <2> QED BY <1>1, <2>1, <2>2, <2>4 DEF LeagueInv, QueueInv, PendingInv, OnIsReady, DrawnAsItIs
<1> QED BY <1>4, <1>5 DEF League!started, League!Writes

\* FINISHED or EXPIRED is written over whatever the match has become.
LEMMA OverKeeps ==
  ASSUME LeagueInv, NEW h \in League!Active, status' \in {"FINISHED", "EXPIRED"},
         pending[h].op \in {"finish", "cancel"}, pending' = [pending EXCEPT ![h] = League!Idle],
         UNCHANGED <<perTeam, format, queue, crossed>>
  PROVE  LeagueInv'
<1>1. League!Active' = League!Active /\ perTeam \in Nat \ {0} /\ Queued(queue, perTeam)
  BY DEF League!Active, LeagueInv, QueueInv, AllIdle, League!Idle
<1>2. \A g \in League!Active : Upheld(pending[g], queue, perTeam, format, crossed)
  BY DEF LeagueInv, PendingInv
<1>3. /\ pending' \in [League!Active -> Request]
      /\ \A g \in League!Active : Upheld(pending'[g], queue, perTeam, format, crossed)
  BY <1>2, EndKeeps DEF LeagueInv
<1> QED BY <1>1, <1>3 DEF LeagueInv, QueueInv, PendingInv, OnIsReady, DrawnAsItIs

\* A match that is created, or deleted, has nobody asking.
LEMMA AllAnew ==
  ASSUME LeagueInv, AllIdle', UNCHANGED perTeam,
         pending' = [h \in League!Active |-> League!Idle] \/ pending' = pending,
         \/ status' \in {"WAITING", "gone"} /\ queue' = <<>>
         \/ status' = "FINISHED"
  PROVE  LeagueInv'
<1>1. League!Active' = League!Active /\ perTeam \in Nat \ {0} /\ pending \in [League!Active -> Request]
  BY DEF League!Active, LeagueInv, QueueInv
<1>2. League!Idle \in Request /\ League!Idle.op = "idle"
  BY DEF League!Idle, Request
<1>3. <<>> \in Seq(Entry) /\ Len(<<>>) = 0 /\ DOMAIN <<>> = {}
  OBVIOUS
<1>4. Queued(<<>>, perTeam)
  BY <1>1, <1>3 DEF Queued, Once
<1>5. QueueInv'
  BY <1>1, <1>2, <1>4 DEF QueueInv
<1>6. PendingInv'
  BY <1>1, <1>2 DEF PendingInv, AllIdle, Upheld
<1>7. DrawnAsItIs' /\ OnIsReady'
  BY <1>1, <1>3 DEF DrawnAsItIs, OnIsReady
<1> QED BY <1>5, <1>6, <1>7 DEF LeagueInv

LEMMA LeagueStep ==
  ASSUME LeagueBounds, LeagueInv, [League!Next]_League!vars  PROVE LeagueInv'
<1>1. ASSUME NEW f \in QueueModes, League!createOnline(f)  PROVE LeagueInv'
  <2>1. AllIdle /\ queue = <<>>
    BY <1>1 DEF League!createOnline, LeagueInv, QueueInv
  <2> QED BY <1>1, <2>1, AllAnew DEF League!createOnline, AllIdle, League!Active
<1>2. ASSUME NEW f, NEW sides, League!create(f, sides)  PROVE LeagueInv'
  <2>1. AllIdle
    BY <1>2 DEF League!create, LeagueInv, QueueInv
  <2> QED BY <1>2, <2>1, AllAnew DEF League!create, AllIdle, League!Active
<1>3. ASSUME League!Deleted  PROVE LeagueInv'
  BY <1>3, AllAnew DEF League!Deleted, AllIdle, League!Active
<1>4. ASSUME NEW h \in League!Active, NEW u \in Queuers, League!AsksToGo(h, u)  PROVE LeagueInv'
  <2> DEFINE r == [League!Idle EXCEPT !.op = "go", !.gone = {u}]
  <2>1. r \in Request /\ r.op = "go"
    BY DEF League!Idle, Request
  <2>2. League!Reads(h, r) /\ UNCHANGED crossed /\ status = "WAITING"
    BY <1>4 DEF League!AsksToGo
  <2> HIDE DEF r
  <2>3. Upheld(r, queue, perTeam, format, crossed)
    BY <2>1 DEF Upheld
  <2> QED BY <2>1, <2>2, <2>3, ReadKeeps
<1>5. ASSUME NEW h \in League!Active, NEW o \in {"finish", "cancel", "clean"},
             League!Reads(h, [League!Idle EXCEPT !.op = o]), UNCHANGED crossed,
             status \in {"WAITING", "STARTED", "EXPIRED"}
      PROVE  LeagueInv'
  <2> DEFINE r == [League!Idle EXCEPT !.op = o]
  <2>1. r \in Request /\ r.op = o
    BY DEF League!Idle, Request
  <2>2. League!Reads(h, r)
    BY <1>5
  <2> HIDE DEF r
  <2>3. Upheld(r, queue, perTeam, format, crossed)
    BY <2>1 DEF Upheld
  <2> QED BY <1>5, <2>1, <2>2, <2>3, ReadKeeps
<1>6. ASSUME NEW h \in League!Active, NEW side,
             League!finish(h) \/ League!finished(h, side) \/ League!cancel(h) \/ League!cancelled(h)
               \/ League!cleanExpiredLobbies(h) \/ League!cleaned(h)
      PROVE  LeagueInv'
  <2>1. CASE League!finish(h) \/ League!cancel(h) \/ League!cleanExpiredLobbies(h)
    BY <1>5, <2>1 DEF League!finish, League!cancel, League!cleanExpiredLobbies
  <2>2. CASE League!finished(h, side) \/ League!cancelled(h)
    BY <2>2, OverKeeps DEF League!finished, League!cancelled, League!Writes
  <2>3. CASE League!cleaned(h)
    BY <1>3, <2>3 DEF League!cleaned
  <2> QED BY <1>6, <2>1, <2>2, <2>3
<1>7. CASE League!remove
  BY <1>3, <1>7 DEF League!remove
<1>8. CASE UNCHANGED <<status, perTeam, format, queue, pending, crossed>>
  BY <1>8 DEF LeagueInv, QueueInv, AllIdle, League!Active, DrawnAsItIs, PendingInv, OnIsReady
<1>9. (\E side \in League!Sides : League!update(side)) \/ UNCHANGED League!vars
        => UNCHANGED <<status, perTeam, format, queue, pending, crossed>>
  BY DEF League!update, League!vars
<1> QED BY <1>1, <1>2, <1>4, <1>6, <1>7, <1>8, <1>9, JoinKeeps, RowKeeps, DrawKeeps, UndoneKeeps,
           DealtKeeps, StartKeeps, StartedKeeps DEF League!Next, League!leave, League!kickPlayer

\* Both halves of what is asked of the teams of a match that is on.
LEMMA LeagueShows == LeagueInv => League!TeamsAreWhole /\ League!TeamsAreBalanced
<1> SUFFICES ASSUME LeagueInv  PROVE League!TeamsAreWhole /\ League!TeamsAreBalanced
  OBVIOUS
<1>1. status = "STARTED" /\ ~crossed => Whole(queue, perTeam) /\ (format = "BALANCEADO" => Balanced(queue))
  BY DEF LeagueInv, OnIsReady, Ready
<1> QED BY <1>1, SameCounts DEF League!TeamsAreWhole, League!TeamsAreBalanced, Balanced, Whole
-----------------------------------------------------------------------------
(* The line-up of a squad nobody lined up.                                   *)

\* Among takes one player in, or leaves him out.
Added(chosen, p, S) == IF p \in S THEN Append(chosen, p) ELSE chosen

\* Among asks one after the other: F has those chosen after each of them.
Chooses(F, s, n, S) ==
  /\ Football!Among(s, S) = F[1..n]
  /\ F[{}] = <<>>
  /\ \A k \in 1..n : F[1..k] = Added(F[1 .. k-1], s[k], S)

LEMMA AmongChooses ==
  ASSUME NEW T, NEW n \in Nat, NEW r \in [1..n -> T], NEW A
  PROVE  \E F : Chooses(F, r, n, A)
<1> DEFINE S == DOMAIN r
           V == Seq(T)
           pick == [s \in SUBSET S |-> Football!Max(s)]
           step == [p \in S \X V |-> Added(p[2], r[p[1]], A)]
           From(f) == [s \in SUBSET S |-> IF s = {} THEN <<>>
                         ELSE Added(f[s \ {Football!Max(s)}], r[Football!Max(s)], A)]
           F == CHOOSE f : f = From(f)
<1>0. S = 1..n /\ \A U : Football!Max(U) = Largest(U)
  BY DEF Football!Max, Largest
<1>1. IsFiniteSet(S) /\ \A s \in SUBSET S : s # {} => pick[s] \in s
  <2>1. IsFiniteSet(1..n)
    BY FS_Interval
  <2>2. \A s \in SUBSET (1..n) : s # {} => Largest(s) \in s
    BY HasLargest
  <2> QED BY <1>0, <2>1, <2>2
<1>2. <<>> \in V /\ step \in [S \X V -> V]
  <2>1. ASSUME NEW t \in Seq(T), NEW u \in T  PROVE Added(t, u, A) \in Seq(T)
    BY DEF Added
  <2>2. \A p \in S \X V : p[2] \in V /\ r[p[1]] \in T
    OBVIOUS
  <2>3. <<>> \in V
    OBVIOUS
  <2>4. \A p \in S \X V : Added(p[2], r[p[1]], A) \in V
    BY <2>1, <2>2
  <2> HIDE DEF V
  <2> QED BY <2>3, <2>4
<1>3. PICK f : Takes(f, S, V, pick, <<>>, step)
  <2> HIDE DEF pick, step, S, V
  <2> QED BY <1>1, <1>2, Recursion, Zenon
<1>4. ASSUME NEW s \in SUBSET S, s # {}
      PROVE  f[s] = Added(f[s \ {Football!Max(s)}], r[Football!Max(s)], A)
  <2>1. pick[s] = Football!Max(s) /\ Football!Max(s) \in S /\ s \ {Football!Max(s)} \in SUBSET S
    BY <1>1, <1>4
  <2> DEFINE x == Football!Max(s)
  <2> HIDE DEF pick, x
  <2>2. f[s] = step[<<x, f[s \ {x}]>>] /\ f[s \ {x}] \in V
    BY <1>3, <1>4, <2>1 DEF Takes, x
  <2>3. step[<<x, f[s \ {x}]>>] = Added(f[s \ {x}], r[x], A)
    <3> DEFINE p == <<x, f[s \ {x}]>>
    <3>1. p \in S \X V /\ p[1] = x /\ p[2] = f[s \ {x}]
      BY <2>1, <2>2 DEF x
    <3> HIDE DEF p, V
    <3> QED BY <3>1 DEF p
  <2> QED BY <2>2, <2>3 DEF x
<1>5. f = From(f)
  <2>1. f = [s \in SUBSET S |-> f[s]] /\ f[{}] = <<>>
    BY <1>3 DEF Takes
  <2> HIDE DEF S
  <2> QED BY <1>4, <2>1
<1>6. F = From(F)
  <2> HIDE DEF From
  <2> QED BY <1>5
<1>7. Football!Among(r, A) = F[S]
  BY DEF Football!Among, Football!FoldLeft, Football!MapThenFoldSet, Added
<1> HIDE DEF F
<1>8. F[{}] = <<>>
  BY <1>6
<1>9. ASSUME NEW k \in 1..n  PROVE F[1..k] = Added(F[1 .. k-1], r[k], A)
  <2>1. k \in Nat /\ k > 0
    OBVIOUS
  <2>2. Largest(1..k) = k
    BY <2>1, HasLargest
  <2>3. (1..k) \ {k} = 1 .. k-1 /\ 1..k \in SUBSET (1..n) /\ 1..k # {}
    <3>1. \A x \in 1..k : x # k => x \in 1 .. k-1
      BY <2>1
    <3>2. \A x \in 1 .. k-1 : x \in 1..k /\ x # k
      BY <2>1
    <3>3. 1..k \in SUBSET (1..n) /\ k \in 1..k
      BY <2>1
    <3> QED BY <3>1, <3>2, <3>3
  <2> QED BY <1>0, <1>6, <2>2, <2>3
<1> QED BY <1>0, <1>7, <1>8, <1>9 DEF Chooses

Members(s) == {s[i] : i \in DOMAIN s}
Distinct(s) == \A i, j \in DOMAIN s : s[i] = s[j] => i = j

\* p comes before q in the squad.
Before(s, p, q) == \E i, j \in DOMAIN s : i < j /\ s[i] = p /\ s[j] = q

\* c has the first k of s that are in A, in the order of s.
FirstOnes(c, s, k, A, T) ==
  /\ c \in Seq(T)
  /\ \A i \in DOMAIN c : \E j \in 1..k : c[i] = s[j] /\ s[j] \in A
  /\ \A j \in 1..k : s[j] \in A => \E i \in DOMAIN c : c[i] = s[j]
  /\ \A i, j \in DOMAIN c : i < j => Before(s, c[i], c[j])

LEMMA OneMoreChosen ==
  ASSUME NEW T, NEW s \in Seq(T), NEW k \in 1 .. Len(s), NEW A, NEW c, FirstOnes(c, s, k - 1, A, T)
  PROVE  FirstOnes(Added(c, s[k], A), s, k, A, T)
<1>0. /\ k \in Nat /\ k > 0 /\ Len(s) \in Nat /\ DOMAIN s = 1 .. Len(s) /\ k \in DOMAIN s
      /\ c \in Seq(T) /\ Len(c) \in Nat /\ DOMAIN c = 1 .. Len(c) /\ s[k] \in T
      /\ 1..k = (1 .. k-1) \cup {k} /\ \A j \in 1 .. k-1 : j < k /\ j \in DOMAIN s
  BY DEF FirstOnes
<1>1. CASE s[k] \notin A
  <2>1. Added(c, s[k], A) = c
    BY <1>1 DEF Added
  <2>2. \A j \in 1..k : s[j] \in A => j \in 1 .. k-1
    BY <1>0, <1>1
  <2>3. \A i \in 1 .. k-1 : i \in 1..k
    BY <1>0
  <2> QED BY <2>1, <2>2, <2>3 DEF FirstOnes
<1>2. CASE s[k] \in A
  <2> DEFINE d == Append(c, s[k])
             n == Len(c) + 1
  <2>1. /\ Added(c, s[k], A) = d /\ d \in Seq(T) /\ DOMAIN d = DOMAIN c \cup {n} /\ n \in Nat
        /\ d[n] = s[k] /\ \A i \in DOMAIN c : d[i] = c[i] /\ i < n /\ i \in Nat
    BY <1>0, <1>2 DEF Added
  <2> HIDE DEF d, n
  <2>2. \A i \in DOMAIN d : \E j \in 1..k : d[i] = s[j] /\ s[j] \in A
    <3>1. ASSUME NEW i \in DOMAIN c  PROVE \E j \in 1..k : d[i] = s[j] /\ s[j] \in A
      BY <1>0, <2>1 DEF FirstOnes
    <3> QED BY <1>0, <1>2, <2>1, <3>1
  <2>3. \A j \in 1..k : s[j] \in A => \E i \in DOMAIN d : d[i] = s[j]
    <3>1. ASSUME NEW j \in 1 .. k-1, s[j] \in A  PROVE \E i \in DOMAIN d : d[i] = s[j]
      BY <2>1, <3>1 DEF FirstOnes
    <3> QED BY <1>0, <2>1, <3>1
  <2>4. ASSUME NEW i \in DOMAIN d, NEW j \in DOMAIN d, i < j  PROVE Before(s, d[i], d[j])
    <3>1. i \in DOMAIN c
      BY <2>1, <2>4
    <3>2. CASE j \in DOMAIN c
      BY <2>1, <2>4, <3>1, <3>2 DEF FirstOnes
    <3>3. CASE j = n
      <4>1. PICK m \in 1 .. k-1 : c[i] = s[m]
        BY <3>1 DEF FirstOnes
      <4> QED BY <1>0, <2>1, <3>1, <3>3, <4>1 DEF Before
    <3> QED BY <2>1, <3>2, <3>3
  <2> QED BY <2>1, <2>2, <2>3, <2>4 DEF FirstOnes
<1> QED BY <1>1, <1>2

LEMMA AmongIsInOrder ==
  ASSUME NEW T, NEW s \in Seq(T), NEW A
  PROVE  FirstOnes(Football!Among(s, A), s, Len(s), A, T)
<1>0. Len(s) \in Nat /\ s \in [1 .. Len(s) -> T]
  OBVIOUS
<1>1. PICK F : Chooses(F, s, Len(s), A)
  BY <1>0, AmongChooses, Zenon
<1> DEFINE Sound == {k \in Nat : k <= Len(s) => FirstOnes(F[1..k], s, k, A, T)}
<1>2. 0 \in Sound
  <2>1. F[1..0] = <<>> /\ 1..0 = {}
    BY <1>1 DEF Chooses
  <2>2. FirstOnes(<<>>, s, 0, A, T)
    BY <2>1 DEF FirstOnes
  <2> QED BY <2>1, <2>2
<1>3. ASSUME NEW k \in Sound  PROVE k + 1 \in Sound
  <2>1. SUFFICES ASSUME k + 1 <= Len(s)  PROVE FirstOnes(F[1 .. k+1], s, k + 1, A, T)
    OBVIOUS
  <2>2. k \in Nat /\ (k + 1) - 1 = k /\ k + 1 \in 1 .. Len(s)
    BY <1>0, <2>1
  <2>3. FirstOnes(F[1..k], s, k, A, T)
    BY <1>0, <1>3, <2>1, <2>2
  <2>4. F[1 .. k+1] = Added(F[1..k], s[k + 1], A)
    BY <1>1, <2>2 DEF Chooses
  <2> QED BY <2>2, <2>3, <2>4, OneMoreChosen
<1>4. Sound = Nat
  <2>1. Sound \in SUBSET Nat
    OBVIOUS
  <2> HIDE DEF Sound
  <2> QED BY <1>2, <1>3, <2>1, Induction
<1>5. FirstOnes(F[1 .. Len(s)], s, Len(s), A, T)
  BY <1>0, <1>4
<1> QED BY <1>1, <1>5 DEF Chooses

\* Those of a squad that has everybody once.
LEMMA AmongASquad ==
  ASSUME NEW T, NEW s \in Seq(T), Distinct(s), NEW A
  PROVE  LET c == Football!Among(s, A)
         IN /\ c \in Seq(T) /\ Distinct(c) /\ Members(c) = Members(s) \cap A
            /\ \A i, j \in DOMAIN c : i < j => Before(s, c[i], c[j])
<1> DEFINE c == Football!Among(s, A)
<1>1. FirstOnes(c, s, Len(s), A, T) /\ DOMAIN s = 1 .. Len(s)
  BY AmongIsInOrder
<1> HIDE DEF c
<1>2. c \in Seq(T) /\ \A i, j \in DOMAIN c : i < j => Before(s, c[i], c[j])
  BY <1>1 DEF FirstOnes
<1>3. Members(c) = Members(s) \cap A
  <2>1. \A i \in DOMAIN c : c[i] \in A /\ \E j \in DOMAIN s : c[i] = s[j]
    BY <1>1, Zenon DEF FirstOnes
  <2>2. \A j \in DOMAIN s : s[j] \in A => \E i \in DOMAIN c : s[j] = c[i]
    BY <1>1, Zenon DEF FirstOnes
  <2>3. Members(c) \subseteq Members(s) \cap A
    BY <2>1 DEF Members
  <2>4. Members(s) \cap A \subseteq Members(c)
    BY <2>2 DEF Members
  <2> QED BY <2>3, <2>4
<1>4. Distinct(c)
  <2>1. SUFFICES ASSUME NEW i \in DOMAIN c, NEW j \in DOMAIN c, c[i] = c[j], i < j  PROVE FALSE
    <3>1. DOMAIN c \in SUBSET Int
      BY <1>2
    <3> QED BY <3>1 DEF Distinct
  <2>2. PICK k, l \in DOMAIN s : k < l /\ s[k] = c[i] /\ s[l] = c[j]
    BY <1>2, <2>1 DEF Before
  <2>3. k = l /\ k \in Int
    BY <2>1, <2>2 DEF Distinct
  <2> QED BY <2>2, <2>3
<1> QED BY <1>2, <1>3, <1>4 DEF c

LEMMA ForemostAre ==
  ASSUME NEW T, NEW s \in Seq(T), NEW n \in Nat
  PROVE  LET f == Football!Foremost(s, n)
         IN /\ f \in Seq(T) /\ Len(f) = Football!Least(n, Len(s)) /\ Len(f) \in Nat
            /\ DOMAIN f = {i \in DOMAIN s : i <= n}
            /\ \A i \in DOMAIN f : f[i] = s[i]
<1> DEFINE m == Football!Least(n, Len(s))
<1>1. m \in Nat /\ m <= Len(s) /\ Len(s) \in Nat /\ DOMAIN s = 1 .. Len(s)
      /\ 1..m = {i \in 1 .. Len(s) : i <= n}
  BY DEF Football!Least
<1> HIDE DEF m
<1>2. LET f == SubSeq(s, 1, m) IN /\ f \in Seq(T) /\ Len(f) = m /\ DOMAIN f = 1..m
                                   /\ \A i \in 1..m : f[i] = s[i]
  BY <1>1
<1> QED BY <1>1, <1>2 DEF m, Football!Foremost

\* Players of s, each once, those of a line in the order of s.
InOrder(x, s, T) ==
  /\ x \in Seq(T) /\ Distinct(x) /\ Members(x) \subseteq Members(s)
  /\ \A i, j \in DOMAIN x : i < j /\ LineOf[x[i]] = LineOf[x[j]] => Before(s, x[i], x[j])

\* Nobody of y has to come before one of x.
Follows(x, y, s) ==
  \A u \in Members(x), v \in Members(y) : u # v /\ (LineOf[u] = LineOf[v] => Before(s, u, v))

Joined(x, y) == x \o y

\* x and y one after the other, the players of both.
InOneOrder(x, y, s, T) ==
  InOrder(Joined(x, y), s, T) /\ Members(Joined(x, y)) = Members(x) \cup Members(y)

LEMMA OrderedAfter ==
  ASSUME NEW T, NEW s, NEW x, NEW y, InOrder(x, s, T), InOrder(y, s, T), Follows(x, y, s)
  PROVE  InOneOrder(x, y, s, T)
<1> DEFINE z == Joined(x, y)
           m == Len(x)
           n == Len(y)
<1>1. /\ x \in Seq(T) /\ y \in Seq(T) /\ m \in Nat /\ n \in Nat /\ DOMAIN x = 1..m /\ DOMAIN y = 1..n
      /\ z \in Seq(T) /\ DOMAIN z = 1 .. m + n
      /\ \A i \in 1..m : z[i] = x[i]
      /\ \A i \in 1..n : z[m + i] = y[i]
  BY DEF InOrder, Joined
<1> HIDE DEF z, m, n
<1>2. \A k \in DOMAIN z : k \in 1..m \/ (k \in Int /\ k > m /\ k - m \in 1..n /\ z[k] = y[k - m])
  <2>1. ASSUME NEW k \in 1 .. m + n, k > m  PROVE k - m \in 1..n /\ z[k] = y[k - m]
    <3>1. k - m \in 1..n /\ m + (k - m) = k
      BY <1>1, <2>1
    <3> QED BY <1>1, <3>1
  <2> QED BY <1>1, <2>1
<1>3. Members(z) = Members(x) \cup Members(y)
  <2>1. Members(z) \subseteq Members(x) \cup Members(y)
    BY <1>1, <1>2 DEF Members
  <2>2. Members(x) \subseteq Members(z)
    BY <1>1 DEF Members
  <2>3. ASSUME NEW i \in 1..n  PROVE y[i] \in Members(z)
    <3>1. m + i \in DOMAIN z
      BY <1>1
    <3> QED BY <1>1, <3>1 DEF Members
  <2>4. Members(y) \subseteq Members(z)
    BY <1>1, <2>3 DEF Members
  <2> QED BY <2>1, <2>2, <2>4
<1>4. ASSUME NEW i \in DOMAIN z, NEW j \in DOMAIN z, i < j
      PROVE  z[i] # z[j] /\ (LineOf[z[i]] = LineOf[z[j]] => Before(s, z[i], z[j]))
  <2>1. CASE i \in 1..m /\ j \in 1..m
    <3>1. i # j /\ z[i] = x[i] /\ z[j] = x[j] /\ i \in DOMAIN x /\ j \in DOMAIN x
      BY <1>1, <1>4, <2>1
    <3> QED BY <1>4, <3>1 DEF InOrder, Distinct
  <2>2. CASE i \in 1..m /\ j \notin 1..m
    <3>1. z[i] \in Members(x) /\ z[j] \in Members(y)
      BY <1>1, <1>2, <2>2 DEF Members
    <3> QED BY <3>1 DEF Follows
  <2>3. CASE i \notin 1..m
    <3>1. /\ i > m /\ i - m \in DOMAIN y /\ z[i] = y[i - m] /\ i \in Int
          /\ j > m /\ j - m \in DOMAIN y /\ z[j] = y[j - m] /\ j \in Int
      BY <1>1, <1>2, <1>4, <2>3
    <3>2. i - m < j - m /\ i - m # j - m
      BY <1>1, <1>4, <3>1
    <3> QED BY <3>1, <3>2 DEF InOrder, Distinct
  <2> QED BY <2>1, <2>2, <2>3
<1>5. DOMAIN z \in SUBSET Int
  BY <1>1
<1>6. Distinct(z)
  BY <1>4, <1>5 DEF Distinct
<1>7. Members(x) \subseteq Members(s) /\ Members(y) \subseteq Members(s)
  BY DEF InOrder
<1> QED BY <1>1, <1>3, <1>4, <1>6, <1>7 DEF InOneOrder, InOrder, z

\* The players a line-up takes for a line: in the order of the squad, and nobody of the line
\* who comes before one of them is left.
LEMMA TakenForALine ==
  ASSUME Quota \in [{"GK", "DEF", "MID", "ATT"} -> Nat], NEW s \in Seq(Football!Players), Distinct(s),
         NEW line \in {"GK", "DEF", "MID", "ATT"}
  PROVE  LET x == Football!take(s, line)
         IN /\ InOrder(x, s, Football!Players)
            /\ \A u \in Members(x) : LineOf[u] = line
            /\ \A u \in Members(x), v \in Members(s) \ Members(x) :
                 LineOf[v] = line => Before(s, u, v)
            /\ Quota[line] > 0 => \A v \in Members(s) : LineOf[v] = line => Members(x) # {}
<1> DEFINE P == Football!Players
           A == {p \in P : LineOf[p] = line}
           c == Football!Among(s, A)
           q == Quota[line]
           x == Football!Foremost(c, q)
<1>1. /\ c \in Seq(P) /\ Distinct(c) /\ Members(c) = Members(s) \cap A
      /\ \A i, j \in DOMAIN c : i < j => Before(s, c[i], c[j])
  <2> HIDE DEF P, A
  <2> QED BY AmongASquad DEF P
<1>2. q \in Nat /\ Football!take(s, line) = x
  BY DEF Football!take
<1>3. Members(s) \subseteq P
  BY DEF Members
<1> HIDE DEF c, q, x, P
<1>4. /\ x \in Seq(P) /\ DOMAIN x = {i \in DOMAIN c : i <= q} /\ \A i \in DOMAIN x : x[i] = c[i]
  <2>1. c \in Seq(P) /\ q \in Nat
    BY <1>1, <1>2
  <2>2. LET f == Football!Foremost(c, q)
        IN /\ f \in Seq(P) /\ DOMAIN f = {i \in DOMAIN c : i <= q}
           /\ \A i \in DOMAIN f : f[i] = c[i]
    BY <2>1, ForemostAre, Zenon
  <2> QED BY <2>2 DEF x
<1>5. DOMAIN c = 1 .. Len(c) /\ Len(c) \in Nat
  BY <1>1
<1>6. Members(x) \subseteq Members(c)
  BY <1>4 DEF Members
<1>7. \A u \in Members(x) : LineOf[u] = line
  BY <1>1, <1>6
<1>8. InOrder(x, s, P)
  BY <1>1, <1>4, <1>6 DEF InOrder, Distinct
<1>9. ASSUME NEW u \in Members(x), NEW v \in Members(s) \ Members(x), LineOf[v] = line
      PROVE  Before(s, u, v)
  <2>1. v \in Members(c)
    BY <1>1, <1>3, <1>9
  <2>2. PICK i \in DOMAIN x : u = x[i]
    BY DEF Members
  <2>3. PICK j \in DOMAIN c : v = c[j]
    BY <2>1 DEF Members
  <2>4. j \notin DOMAIN x
    BY <1>4, <2>3 DEF Members
  <2>5. i < j /\ i \in DOMAIN c /\ u = c[i]
    BY <1>2, <1>4, <1>5, <2>2, <2>4
  <2> QED BY <1>1, <2>3, <2>5
<1>10. ASSUME q > 0, NEW v \in Members(s), LineOf[v] = line  PROVE Members(x) # {}
  <2>1. v \in Members(c)
    BY <1>1, <1>3, <1>10
  <2>2. 1 \in DOMAIN c
    BY <1>5, <2>1 DEF Members
  <2>3. 1 \in DOMAIN x
    BY <1>2, <1>4, <1>10, <2>2
  <2> QED BY <2>3 DEF Members
<1> QED BY <1>2, <1>7, <1>8, <1>9, <1>10 DEF P, q

\* The four lines in their order, then the others: everybody once.
AllInOrder(s) ==
  LET byLine == Football!take(s, "GK") \o Football!take(s, "DEF") \o Football!take(s, "MID")
                  \o Football!take(s, "ATT")
  IN byLine \o Football!Among(s, Football!Players \ Football!ToSet(byLine))

LEMMA EverybodyInOrder ==
  ASSUME Quota \in [{"GK", "DEF", "MID", "ATT"} -> Nat], NEW s \in Seq(Football!Players), Distinct(s)
  PROVE  /\ InOrder(AllInOrder(s), s, Football!Players) /\ Members(AllInOrder(s)) = Members(s)
         /\ Quota["GK"] > 0 => \A v \in Members(s) : LineOf[v] = "GK" =>
              1 \in DOMAIN AllInOrder(s) /\ LineOf[AllInOrder(s)[1]] = "GK"
<1> DEFINE P == Football!Players
           g == Football!take(s, "GK")
           d == Football!take(s, "DEF")
           m == Football!take(s, "MID")
           a == Football!take(s, "ATT")
           b == Joined(Joined(Joined(g, d), m), a)
           o == Football!Among(s, P \ Football!ToSet(b))
<1>1. InOrder(g, s, P) /\ InOrder(d, s, P) /\ InOrder(m, s, P) /\ InOrder(a, s, P)
  BY TakenForALine
<1>2. /\ \A u \in Members(g) : LineOf[u] = "GK"
      /\ \A u \in Members(d) : LineOf[u] = "DEF"
      /\ \A u \in Members(m) : LineOf[u] = "MID"
      /\ \A u \in Members(a) : LineOf[u] = "ATT"
  BY TakenForALine
<1>3. ASSUME NEW u \in Members(g) \cup Members(d) \cup Members(m) \cup Members(a),
             NEW v \in Members(s), LineOf[u] = LineOf[v],
             v \notin Members(g) \cup Members(d) \cup Members(m) \cup Members(a)
      PROVE  Before(s, u, v)
  BY <1>2, <1>3, TakenForALine
<1>4. Quota["GK"] > 0 => \A v \in Members(s) : LineOf[v] = "GK" => Members(g) # {}
  BY TakenForALine
<1>5. AllInOrder(s) = Joined(b, o)
  BY Zenon DEF AllInOrder, Joined
<1>6. Football!ToSet(b) = Members(b)
  BY DEF Football!ToSet, Members
<1> HIDE DEF g, d, m, a, P
<1>7. InOrder(Joined(g, d), s, P) /\ Members(Joined(g, d)) = Members(g) \cup Members(d)
  <2>1. Follows(g, d, s)
    BY <1>2 DEF Follows
  <2>2. InOneOrder(g, d, s, P)
    BY <1>1, <2>1, OrderedAfter
  <2> QED BY <2>2 DEF InOneOrder
<1>8. /\ InOrder(Joined(Joined(g, d), m), s, P)
      /\ Members(Joined(Joined(g, d), m)) = Members(g) \cup Members(d) \cup Members(m)
  <2>1. Follows(Joined(g, d), m, s)
    BY <1>2, <1>7 DEF Follows
  <2>2. InOneOrder(Joined(g, d), m, s, P)
    BY <1>1, <1>7, <2>1, OrderedAfter
  <2> QED BY <1>7, <2>2 DEF InOneOrder
<1>9. /\ InOrder(b, s, P)
      /\ Members(b) = Members(g) \cup Members(d) \cup Members(m) \cup Members(a)
  <2>1. Follows(Joined(Joined(g, d), m), a, s)
    BY <1>2, <1>8 DEF Follows
  <2>2. InOneOrder(Joined(Joined(g, d), m), a, s, P)
    BY <1>1, <1>8, <2>1, OrderedAfter
  <2> QED BY <1>8, <2>2 DEF InOneOrder, b
<1>10. /\ o \in Seq(P) /\ Distinct(o) /\ Members(o) = Members(s) \ Members(b)
       /\ \A i, j \in DOMAIN o : i < j => Before(s, o[i], o[j])
  <2>1. Members(s) \subseteq P
    BY DEF Members, P
  <2>2. Members(s) \cap (P \ Members(b)) = Members(s) \ Members(b)
    BY <2>1
  <2> DEFINE A == P \ Members(b)
  <2>3. o = Football!Among(s, A)
    BY <1>6
  <2> HIDE DEF A, b, o
  <2>4. /\ o \in Seq(P) /\ Distinct(o) /\ Members(o) = Members(s) \cap A
        /\ \A i, j \in DOMAIN o : i < j => Before(s, o[i], o[j])
    BY <2>3, AmongASquad DEF P
  <2> QED BY <2>2, <2>4 DEF A
<1> HIDE DEF b, o
<1>11. InOrder(o, s, P)
  BY <1>10 DEF InOrder
<1>12. Follows(b, o, s)
  BY <1>3, <1>9, <1>10 DEF Follows
<1>13. InOrder(Joined(b, o), s, P) /\ Members(Joined(b, o)) = Members(b) \cup Members(o)
  <2>1. InOneOrder(b, o, s, P)
    BY <1>9, <1>11, <1>12, OrderedAfter
  <2> QED BY <2>1 DEF InOneOrder
<1>14. Members(Joined(b, o)) = Members(s)
  <2>1. Members(b) \subseteq Members(s)
    BY <1>9 DEF InOrder
  <2> QED BY <1>10, <1>13, <2>1
<1>15. ASSUME NEW u \in Members(g)  PROVE 1 \in DOMAIN Joined(b, o) /\ LineOf[Joined(b, o)[1]] = "GK"
  <2>1. /\ g \in Seq(P) /\ d \in Seq(P) /\ m \in Seq(P) /\ a \in Seq(P) /\ o \in Seq(P)
    BY <1>1, <1>10 DEF InOrder
  <2>2. 1 \in DOMAIN g /\ g[1] \in Members(g)
    BY <2>1 DEF Members
  <2>3. 1 \in DOMAIN Joined(g, d) /\ Joined(g, d)[1] = g[1] /\ Joined(g, d) \in Seq(P)
    BY <2>1, <2>2 DEF Joined
  <2>4. /\ 1 \in DOMAIN Joined(Joined(g, d), m) /\ Joined(Joined(g, d), m)[1] = g[1]
        /\ Joined(Joined(g, d), m) \in Seq(P)
    BY <2>1, <2>3 DEF Joined
  <2>5. 1 \in DOMAIN b /\ b[1] = g[1] /\ b \in Seq(P)
    BY <2>1, <2>4 DEF b, Joined
  <2>6. 1 \in DOMAIN Joined(b, o) /\ Joined(b, o)[1] = g[1]
    BY <2>1, <2>5 DEF Joined
  <2> QED BY <1>2, <2>2, <2>6
<1> QED BY <1>4, <1>5, <1>13, <1>14, <1>15 DEF P

LEMMA MembersCounted ==
  ASSUME NEW T, NEW s \in Seq(T), Distinct(s)
  PROVE  Cardinality(Members(s)) = Len(s)
<1>1. s \in [1 .. Len(s) -> Members(s)] /\ Len(s) \in Nat /\ DOMAIN s = 1 .. Len(s)
  BY DEF Members
<1>2. ExistsBijection(1 .. Len(s), Members(s))
  <2>1. \A x, y \in 1 .. Len(s) : s[x] = s[y] => x = y
    BY <1>1 DEF Distinct
  <2>2. \A y \in Members(s) : \E x \in 1 .. Len(s) : s[x] = y
    BY <1>1 DEF Members
  <2> QED BY <1>1, <2>1, <2>2, OneToOne
<1>3. IsFiniteSet(1 .. Len(s)) /\ Cardinality(1 .. Len(s)) = Len(s)
  BY <1>1, UpTo
<1> QED BY <1>2, <1>3, FS_Bijection

LEMMA WorldCounts ==
  ASSUME NEW S
  PROVE  Football!Cardinality(S) = Cardinality(S)
  BY Zenon DEF Cardinality, Football!Cardinality

\* A line takes what there is of it, goalkeepers one at least, and a line-up has players.
LineupBounds ==
  /\ Quota \in [{"GK", "DEF", "MID", "ATT"} -> Nat] /\ Quota["GK"] > 0 /\ LINEUP_SIZE \in Nat \ {0}
  /\ \A t \in Football!Teams : Squads[t] \in Seq(Football!Players) /\ Distinct(Squads[t])

LEMMA StrongestOfASquad ==
  ASSUME LineupBounds, NEW s \in Seq(Football!Players), Distinct(s)
  PROVE  LET lineup == Football!ToSet(Football!autoLineup(s))
         IN /\ Cardinality(lineup) = Football!Least(LINEUP_SIZE, Len(s))
            /\ \A p \in Members(s) \ lineup :
                 /\ LineOf[p] = "GK" => \E q \in lineup : LineOf[q] = "GK"
                 /\ \A q \in lineup : LineOf[q] = LineOf[p] => Before(s, q, p)
<1> DEFINE P == Football!Players
           all == AllInOrder(s)
           n == LINEUP_SIZE
           f == Football!Foremost(all, n)
<1>1. InOrder(all, s, P) /\ Members(all) = Members(s)
  BY EverybodyInOrder DEF LineupBounds
<1>2. \A v \in Members(s) : LineOf[v] = "GK" => 1 \in DOMAIN all /\ LineOf[all[1]] = "GK"
  BY EverybodyInOrder DEF LineupBounds
<1>3. Football!ToSet(Football!autoLineup(s)) = Members(f)
  BY Zenon DEF Football!autoLineup, AllInOrder, Football!ToSet, Members
<1>4. n \in Nat \ {0}
  BY DEF LineupBounds
<1> HIDE DEF all, n, P, f
<1>5. all \in Seq(P) /\ Distinct(all) /\ DOMAIN all \in SUBSET Int
  BY <1>1 DEF InOrder
<1>6. /\ f \in Seq(P) /\ Len(f) = Football!Least(n, Len(all))
      /\ DOMAIN f = {i \in DOMAIN all : i <= n}
      /\ \A i \in DOMAIN f : f[i] = all[i]
  <2>1. n \in Nat
    BY <1>4
  <2>2. LET g == Football!Foremost(all, n)
        IN /\ g \in Seq(P) /\ Len(g) = Football!Least(n, Len(all))
           /\ DOMAIN g = {i \in DOMAIN all : i <= n}
           /\ \A i \in DOMAIN g : g[i] = all[i]
    BY <1>5, <2>1, ForemostAre, Zenon
  <2> QED BY <2>2, Zenon DEF f
<1>7. Distinct(f)
  BY <1>5, <1>6 DEF Distinct
<1>8. Cardinality(Members(f)) = Football!Least(n, Len(s))
  <2>1. Len(all) = Cardinality(Members(all))
    BY <1>5, MembersCounted
  <2>2. Len(s) = Cardinality(Members(s))
    BY MembersCounted
  <2>3. Cardinality(Members(f)) = Len(f)
    BY <1>6, <1>7, MembersCounted
  <2>4. Len(all) = Len(s)
    BY <1>1, <2>1, <2>2
  <2> QED BY <1>6, <2>3, <2>4
<1>9. ASSUME NEW p \in Members(s) \ Members(f), LineOf[p] = "GK"
      PROVE  \E q \in Members(f) : LineOf[q] = "GK"
  <2>1. 1 \in DOMAIN all /\ LineOf[all[1]] = "GK"
    BY <1>2, <1>9
  <2>2. 1 \in DOMAIN f
    BY <1>4, <1>6, <2>1
  <2> QED BY <1>6, <2>1, <2>2 DEF Members
<1>10. ASSUME NEW p \in Members(s) \ Members(f), NEW q \in Members(f), LineOf[q] = LineOf[p]
       PROVE  Before(s, q, p)
  <2>1. PICK i \in DOMAIN f : q = f[i]
    BY DEF Members
  <2>2. PICK j \in DOMAIN all : p = all[j]
    BY <1>1 DEF Members
  <2>3. j \notin DOMAIN f
    BY <1>6, <2>2 DEF Members
  <2>4. i \in DOMAIN all /\ q = all[i] /\ i < j
    BY <1>4, <1>5, <1>6, <2>1, <2>2, <2>3
  <2> QED BY <1>1, <1>10, <2>2, <2>4 DEF InOrder
<1> QED BY <1>3, <1>8, <1>9, <1>10 DEF n

\* autoLineup and the round of the base: the strongest play, whoever is on a roster.
LEMMA TheStrongestPlay ==
  ASSUME LineupBounds
  PROVE  Football!StrongestPlay
<1> SUFFICES ASSUME NEW t \in Football!Teams
             PROVE  LET squad == Football!Free(t)
                        lineup == Football!ToSet(Football!autoLineup(squad)) IN
                    /\ Football!Cardinality(lineup) = Football!Least(LINEUP_SIZE, Len(squad))
                    /\ \A p \in Football!ToSet(squad) \ lineup :
                         /\ LineOf[p] = "GK" => \E q \in lineup : LineOf[q] = "GK"
                         /\ \A q \in lineup : LineOf[q] = LineOf[p]
                              => Football!Strength(t, q) < Football!Strength(t, p)
  BY DEF Football!StrongestPlay, Football!eligible
<1> DEFINE P == Football!Players
           whole == Squads[t]
           s == Football!Free(t)
           lineup == Football!ToSet(Football!autoLineup(s))
<1>1. whole \in Seq(P) /\ Distinct(whole)
  BY DEF LineupBounds
<1>2. /\ s \in Seq(P) /\ Distinct(s)
      /\ \A i, j \in DOMAIN s : i < j => Before(whole, s[i], s[j])
  <2> HIDE DEF P, whole
  <2> QED BY <1>1, AmongASquad DEF Football!Free, whole
<1>3. Football!ToSet(s) = Members(s)
  BY DEF Football!ToSet, Members
<1> HIDE DEF s, whole
<1>4. /\ Cardinality(lineup) = Football!Least(LINEUP_SIZE, Len(s))
      /\ \A p \in Members(s) \ lineup :
           /\ LineOf[p] = "GK" => \E q \in lineup : LineOf[q] = "GK"
           /\ \A q \in lineup : LineOf[q] = LineOf[p] => Before(s, q, p)
  BY <1>2, StrongestOfASquad
<1>5. ASSUME NEW p, NEW q, Before(s, q, p)
      PROVE  Football!Strength(t, q) < Football!Strength(t, p)
  <2>1. PICK i, j \in DOMAIN whole : i < j /\ whole[i] = q /\ whole[j] = p
    BY <1>2, <1>5 DEF Before
  <2>2. ASSUME NEW k \in DOMAIN whole
        PROVE  Football!Strength(t, whole[k]) = k
    BY <1>1 DEF Distinct, Football!Strength, whole
  <2> QED BY <2>1, <2>2
<1> HIDE DEF lineup
<1>6. Football!Cardinality(lineup) = Cardinality(lineup)
  BY WorldCounts
<1> QED BY <1>3, <1>4, <1>5, <1>6 DEF s, lineup
-----------------------------------------------------------------------------
(* What is drawn for a player is explained by his ratings.                   *)

WorldBounds == Ratings \subseteq Nat

Careers == [form: Football!MIN_FORM .. Football!MAX_FORM, avg: Nat, played: Nat, level: Int,
  worst: Nat, best: Nat]

\* The average of a row lies among the ratings it stands for.
Explained(r) == r.worst <= r.avg /\ r.avg <= r.best

\* A row that was read before: what it has seen, the row has seen now.
SeenBefore(r, now) == r.played > 0 =>
  now.played > 0 /\ now.worst <= r.worst /\ r.best <= now.best

WorldInv ==
  /\ player \in [Football!Players -> Careers]
  /\ \A p \in Football!Players : Explained(player[p])
  /\ {"pairs", "rows", "on"} \subseteq DOMAIN job
  /\ job.on => /\ job.rows \in [Football!Players -> Careers]
               /\ \A p \in Football!Players : /\ Explained(job.rows[p])
                                               /\ SeenBefore(job.rows[p], player[p])

LEMMA Products ==
  ASSUME NEW d \in Nat, NEW x \in Int, NEW y \in Int, x <= y
  PROVE  d * x <= d * y
  OBVIOUS

\* The rounded average of as many ratings as were counted lies among them.
LEMMA AverageIsBetween ==
  ASSUME NEW avg \in Nat, NEW n \in Nat \ {0}, NEW rating \in Nat, NEW lo \in Nat, NEW hi \in Nat,
         lo <= avg, avg <= hi, lo <= rating, rating <= hi
  PROVE  /\ Football!Round(avg * n + rating, n + 1) \in Nat
         /\ lo <= Football!Round(avg * n + rating, n + 1)
            /\ Football!Round(avg * n + rating, n + 1) <= hi
<1> DEFINE d == n + 1
           s == avg * n + rating
           q == (2 * s + d) \div (2 * d)
<1>1. d \in Nat \ {0} /\ s \in Nat /\ 2 * d \in Nat \ {0} /\ 2 * s + d \in Nat
  OBVIOUS
<1>2. lo * d <= s /\ s <= hi * d
  <2>1. n * lo <= n * avg /\ n * avg <= n * hi
    BY Products
  <2>2. lo * d = n * lo + lo /\ hi * d = n * hi + hi /\ avg * n = n * avg
    OBVIOUS
  <2>3. n * lo \in Nat /\ n * avg \in Nat /\ n * hi \in Nat
    OBVIOUS
  <2> QED BY <2>1, <2>2, <2>3
<1> HIDE DEF d, s
<1>3. \A m \in Nat, e \in Nat \ {0} : /\ m \div e \in Nat
                                      /\ e * (m \div e) <= m /\ m < e * (m \div e) + e
  OBVIOUS
<1>4. q \in Nat /\ 2 * d * q <= 2 * s + d /\ 2 * s + d < 2 * d * q + 2 * d
  BY <1>1, <1>3
<1> HIDE DEF q
<1>5. lo <= q
  <2>1. SUFFICES ASSUME q + 1 <= lo  PROVE FALSE
    BY <1>4
  <2>2. d * (q + 1) <= d * lo
    BY <1>1, <1>4, <2>1, Products
  <2> QED BY <1>1, <1>2, <1>4, <2>2
<1>6. q <= hi
  <2>1. SUFFICES ASSUME hi + 1 <= q  PROVE FALSE
    BY <1>4
  <2>2. d * (hi + 1) <= d * q
    BY <1>1, <1>4, <2>1, Products
  <2> QED BY <1>1, <1>2, <1>4, <2>2
<1> QED BY <1>4, <1>5, <1>6 DEF q, s, d, Football!Round

LEMMA FormStays ==
  ASSUME NEW form \in Football!MIN_FORM .. Football!MAX_FORM, NEW rating \in Nat
  PROVE  Football!nextForm(form, rating) \in Football!MIN_FORM .. Football!MAX_FORM
<1>1. Football!FormStep(form, rating) \in Int
  BY DEF Football!FormStep
<1> HIDE DEF Football!FormStep
<1> QED BY <1>1 DEF Football!nextForm, Football!Least, Football!Most, Football!MIN_FORM,
           Football!MAX_FORM

\* What a match adds keeps the average explained, from whatever earlier row.
LEMMA MatchExplains ==
  ASSUME NEW p \in Football!Players, player \in [Football!Players -> Careers], Explained(player[p]),
         NEW row \in Careers, Explained(row), SeenBefore(row, player[p]), NEW rating \in Nat
  PROVE  LET new == Football!progressOf(p, row, rating)
         IN new \in Careers /\ Explained(new) /\ SeenBefore(row, new)
<1> DEFINE new == Football!progressOf(p, row, rating)
           now == player[p]
<1>0. now \in Careers
  OBVIOUS
<1>1. /\ now.played \in Nat /\ now.worst \in Nat /\ now.best \in Nat /\ now.level \in Int
      /\ row.played \in Nat /\ row.worst \in Nat /\ row.best \in Nat /\ row.level \in Int
      /\ row.avg \in Nat /\ row.form \in Football!MIN_FORM .. Football!MAX_FORM
  BY <1>0 DEF Careers
<1>2. /\ new.worst = IF now.played = 0 THEN rating ELSE Football!Least(now.worst, rating)
      /\ new.best = Football!Most(now.best, rating) /\ new.played = now.played + 1
      /\ new.avg = Football!nextRatingAvg(row.avg, row.played, rating)
      /\ new.form = Football!nextForm(row.form, rating)
      /\ \/ new.level = now.level
         \/ \E change \in {-1, 1} : new.level = Football!Least(99, Football!Most(1, row.level + change))
      /\ new = [form |-> new.form, avg |-> new.avg, played |-> new.played, level |-> new.level,
                worst |-> new.worst, best |-> new.best]
  BY DEF Football!progressOf, Football!attributeChange
<1> HIDE DEF new, now
<1>3. new.worst \in Nat /\ new.best \in Nat /\ new.worst <= rating /\ rating <= new.best
  BY <1>1, <1>2 DEF Football!Least, Football!Most
<1>4. SeenBefore(row, new)
  BY <1>1, <1>2 DEF SeenBefore, Football!Least, Football!Most, now
<1>5. new.avg \in Nat /\ new.worst <= new.avg /\ new.avg <= new.best
  <2>1. CASE row.played = 0
    BY <1>2, <1>3, <2>1 DEF Football!nextRatingAvg
  <2>2. CASE row.played # 0
    <3>1. new.worst <= row.worst /\ row.best <= new.best
      BY <1>1, <1>4, <2>2 DEF SeenBefore
    <3>2. new.worst <= row.avg /\ row.avg <= new.best
      BY <1>1, <1>3, <3>1 DEF Explained
    <3>3. row.played \in Nat \ {0}
      BY <1>1, <2>2
    <3>4. new.avg = Football!Round(row.avg * row.played + rating, row.played + 1)
      BY <1>2, <2>2 DEF Football!nextRatingAvg
    <3>5. /\ row.avg \in Nat /\ new.worst \in Nat /\ new.best \in Nat
          /\ new.worst <= rating /\ rating <= new.best
      BY <1>1, <1>3
    <3>6. LET avg == Football!Round(row.avg * row.played + rating, row.played + 1)
          IN avg \in Nat /\ new.worst <= avg /\ avg <= new.best
      BY <3>2, <3>3, <3>5, AverageIsBetween
    <3> QED BY <3>4, <3>6
  <2> QED BY <2>1, <2>2
<1>6. new.form \in Football!MIN_FORM .. Football!MAX_FORM /\ new.level \in Int /\ new.played \in Nat
  <2>1. new.form \in Football!MIN_FORM .. Football!MAX_FORM
    BY <1>1, <1>2, FormStays
  <2>2. new.level \in Int /\ new.played \in Nat
    BY <1>1, <1>2 DEF Football!Least, Football!Most
  <2> QED BY <2>1, <2>2
<1>7. new \in Careers
  BY <1>2, <1>3, <1>5, <1>6 DEF Careers
<1> QED BY <1>4, <1>5, <1>7 DEF new, Explained

LEMMA WorldInit == Football!Init => WorldInv
  BY DEF Football!Init, WorldInv, Careers, Explained, Football!NoJob, Football!MIN_FORM,
     Football!MAX_FORM

LEMMA WorldStep == ASSUME WorldBounds, WorldInv, [Football!Next]_Football!vars PROVE WorldInv'
<1>1. CASE Football!tick
  <2>1. /\ UNCHANGED player /\ job'.rows = player
        /\ {"pairs", "rows", "on"} \subseteq DOMAIN job'
    BY <1>1 DEF Football!tick
  <2> QED BY <2>1 DEF WorldInv, SeenBefore, Careers
<1>2. CASE Football!playMatch
  <2>1. PICK players : \E rating \in [players -> Ratings] :
          player' = [p \in Football!Players |->
                       IF p \in DOMAIN rating THEN Football!progressOf(p, job.rows[p], rating[p])
                                             ELSE player[p]]
    BY <1>2 DEF Football!playMatch, Football!simulateMatch, Football!ratePlayers
  <2>2. PICK rating \in [players -> Ratings] :
          player' = [p \in Football!Players |->
                       IF p \in DOMAIN rating THEN Football!progressOf(p, job.rows[p], rating[p])
                                             ELSE player[p]]
    BY <2>1
  <2>3. /\ job.on /\ job'.on = job.on /\ job'.rows = job.rows
        /\ {"pairs", "rows", "on"} \subseteq DOMAIN job'
    BY <1>2 DEF Football!playMatch, WorldInv
  <2>4. ASSUME NEW p \in Football!Players
        PROVE  /\ player'[p] \in Careers /\ Explained(player'[p])
               /\ SeenBefore(job.rows[p], player'[p])
    <3>1. CASE p \in DOMAIN rating
      <4>1. player'[p] = Football!progressOf(p, job.rows[p], rating[p]) /\ rating[p] \in Nat
        BY <2>2, <3>1 DEF WorldBounds
      <4>2. job.rows[p] \in Careers /\ Explained(job.rows[p]) /\ SeenBefore(job.rows[p], player[p])
        BY <2>3 DEF WorldInv
      <4>3. player \in [Football!Players -> Careers] /\ Explained(player[p])
        BY DEF WorldInv
      <4> QED BY <4>1, <4>2, <4>3, MatchExplains
    <3>2. CASE p \notin DOMAIN rating
      <4>1. player'[p] = player[p]
        BY <2>2, <3>2
      <4> QED BY <2>3, <4>1 DEF WorldInv
    <3> QED BY <3>1, <3>2
  <2>5. player' \in [Football!Players -> Careers]
    BY <2>2, <2>4
  <2> QED BY <2>3, <2>4, <2>5 DEF WorldInv
<1>3. CASE Football!finishRound \/ Football!roundFails
  BY <1>3 DEF Football!finishRound, Football!roundFails, Football!NoJob, WorldInv
<1>4. CASE Football!DayPasses \/ Football!Drafted \/ UNCHANGED Football!vars
  BY <1>4 DEF Football!DayPasses, Football!Drafted, Football!vars, WorldInv
<1> QED BY <1>1, <1>2, <1>3, <1>4 DEF Football!Next

\* Both halves of what is asked of the round of the base.
LEMMA WorldShows == ASSUME LineupBounds, WorldInv PROVE Football!ProgressIsEarned
<1>1. Football!RatingsExplain
  BY DEF WorldInv, Careers, Explained, Football!RatingsExplain
<1> QED BY <1>1, TheStrongestPlay DEF Football!ProgressIsEarned
-----------------------------------------------------------------------------
(* The plan of a draft.                                                      *)

\* Days of the week count from 0, and a raise is a percentage of whole points.
PlanBounds == WeekdayChoices \subseteq SUBSET (0..6) /\ Percents \subseteq Nat

\* A league has two rosters or more and a bid is whole; nothing else is said of the inputs.
PlanInv ==
  /\ draft \in [rosterCount: Nat \ {0, 1}, rosterSize: Nat, orderType: {"SNAKE", "LINEAR"}]
  /\ calendar \in [from: 0..6, late: BOOLEAN, weekdays: SUBSET (0..6)]
  /\ auction \in [currentBid: Nat, percent: Nat]

LEMMA PlanInit == DraftPlan!Init => PlanInv
BY DEF DraftPlan!Init, DraftPlan!Draft0, DraftPlan!Calendar0, DraftPlan!Auction0, PlanInv

LEMMA PlanStep == ASSUME PlanBounds, PlanInv, [DraftPlan!Next]_DraftPlan!vars PROVE PlanInv'
<1>2. CASE DraftPlan!TryDraft
  <2>1. draft' \in [rosterCount: Nat \ {0, 1}, rosterSize: Nat, orderType: {"SNAKE", "LINEAR"}]
    BY <1>2 DEF DraftPlan!TryDraft, DraftPlan!Drafts
  <2> QED BY <1>2, <2>1 DEF DraftPlan!TryDraft, PlanInv
<1>3. CASE DraftPlan!TryCalendar
  <2>1. calendar' \in [from: 0..6, late: BOOLEAN, weekdays: SUBSET (0..6)]
    <3>1. \A w \in WeekdayChoices : w \in SUBSET (0..6)
      BY Zenon DEF PlanBounds
    <3>2. calendar' \in [from: 0..6, late: BOOLEAN, weekdays: WeekdayChoices]
      BY <1>3 DEF DraftPlan!TryCalendar, DraftPlan!Calendars
    <3> QED BY <3>1, <3>2
  <2>2. PICK n \in 2..MaxRosters : draft' = [draft EXCEPT !.rosterCount = n]
    BY <1>3 DEF DraftPlan!TryCalendar
  <2>3. n \in Nat \ {0, 1}
    OBVIOUS
  <2> QED BY <1>3, <2>1, <2>2, <2>3 DEF DraftPlan!TryCalendar, PlanInv
<1>4. CASE DraftPlan!TryAuction
  <2>1. auction' \in [currentBid: Nat, percent: Nat]
    <3>1. \A p \in Percents : p \in Nat
      BY Zenon DEF PlanBounds
    <3>2. auction' \in [currentBid: 0..MaxBid, percent: Percents]
      BY <1>4 DEF DraftPlan!TryAuction, DraftPlan!Auctions
    <3> QED BY <3>1, <3>2
  <2> QED BY <1>4, <2>1 DEF DraftPlan!TryAuction, PlanInv
<1>5. CASE DraftPlan!Return
  BY <1>5, PlanInit DEF DraftPlan!Return, DraftPlan!Draft0, DraftPlan!Calendar0, DraftPlan!Auction0, PlanInv
<1>6. CASE UNCHANGED DraftPlan!vars
  BY <1>6 DEF DraftPlan!vars, PlanInv
<1> QED BY <1>2, <1>3, <1>4, <1>5, <1>6 DEF DraftPlan!Next

LEMMA Dividing ==
  ASSUME NEW n \in Nat \ {0}, NEW q \in Nat, NEW x \in 0 .. n-1
  PROVE  q * n + x \in Nat /\ (q * n + x) \div n = q /\ (q * n + x) % n = x
<1>1. q * n \in Nat
  OBVIOUS
<1> QED BY <1>1

LEMMA Divided ==
  ASSUME NEW n \in Nat \ {0}, NEW m \in Nat
  PROVE  /\ m \div n \in Nat /\ m % n \in 0 .. n-1
         /\ m = (m \div n) * n + (m % n)
OBVIOUS

LEMMA Larger ==
  ASSUME NEW n \in Nat \ {0}, NEW q \in Nat, NEW s \in Nat, q + 1 <= s
  PROVE  q * n + n <= s * n
OBVIOUS

\* A number below n * s is in one of s rows of n, and every place of a row is one below.
LEMMA Rows ==
  ASSUME NEW n \in Nat \ {0}, NEW s \in Nat
  PROVE  /\ \A m \in 0 .. n * s - 1 : /\ m \div n \in 0 .. s-1 /\ m % n \in 0 .. n-1
                                     /\ m = (m \div n) * n + (m % n)
         /\ \A q \in 0 .. s-1, x \in 0 .. n-1 :
              q * n + x \in 0 .. n * s - 1 /\ (q * n + x) \div n = q /\ (q * n + x) % n = x
<1>0. n * s \in Nat /\ n * s = s * n
  OBVIOUS
<1>1. ASSUME NEW m \in 0 .. n * s - 1
      PROVE  m \div n \in 0 .. s-1 /\ m % n \in 0 .. n-1 /\ m = (m \div n) * n + (m % n)
  <2> DEFINE q == m \div n
             x == m % n
  <2>1. q \in Nat /\ x \in 0 .. n-1 /\ m = q * n + x
    <3>1. m \in Nat
      BY <1>0
    <3> QED BY <3>1, Divided
  <2> HIDE DEF q, x
  <2>2. q * n \in Nat /\ m < s * n
    BY <1>0, <2>1
  <2>3. ASSUME q >= s  PROVE FALSE
    <3>1. q - s \in Nat /\ q * n = s * n + (q - s) * n
      BY <2>1, <2>3
    <3>2. (q - s) * n \in Nat
      BY <3>1
    <3> QED BY <1>0, <2>1, <2>2, <3>1, <3>2
  <2>4. q \in 0 .. s-1
    BY <2>1, <2>3
  <2> QED BY <2>1, <2>4 DEF q, x
<1>2. ASSUME NEW q \in 0 .. s-1, NEW x \in 0 .. n-1
      PROVE  q * n + x \in 0 .. n * s - 1 /\ (q * n + x) \div n = q /\ (q * n + x) % n = x
  <2>1. q \in Nat /\ q + 1 <= s /\ q * n \in Nat
    OBVIOUS
  <2>2. q * n + n <= s * n
    BY <2>1, Larger
  <2>3. q * n + x \in 0 .. n * s - 1
    BY <1>0, <2>1, <2>2
  <2>4. (q * n + x) \div n = q /\ (q * n + x) % n = x
    BY <2>1, Dividing
  <2> QED BY <2>3, <2>4
<1> QED BY <1>1, <1>2

\* Every roster picks once in a round, and over two rounds of a snake all wait alike.
LEMMA TheOrderIsFair ==
  ASSUME PlanInv  PROVE DraftPlan!OrderIsFair
<1> DEFINE n == draft.rosterCount
           s == draft.rosterSize
           Of(m) == DraftPlan!pickCoordinate(m, n, draft.orderType)
           Turns(q) == draft.orderType = "SNAKE" /\ (q + 1) % 2 = 0
<1>1. n \in Nat \ {0} /\ s \in Nat
  BY DEF PlanInv
<1>2. \A m : DraftPlan!PickAt(m) = Of(m)
  BY DEF DraftPlan!PickAt
<1>3. \A m : /\ Of(m).round = m \div n + 1 /\ Of(m).indexInRound = m % n
             /\ Of(m).rosterIndex = IF Turns(m \div n) THEN n - 1 - (m % n) ELSE m % n
  BY DEF DraftPlan!pickCoordinate
<1>4. DraftPlan!TotalPicks = n * s /\ DraftPlan!Indexes = 0 .. n-1
  BY DEF DraftPlan!TotalPicks, DraftPlan!Indexes
<1> HIDE DEF n, s, Of
<1>5. ASSUME NEW i \in 0 .. n-1, NEW lap \in 1..s
      PROVE  \E m \in 0 .. n*s - 1 :
               /\ Of(m).rosterIndex = i /\ Of(m).round = lap
               /\ \A k \in 0 .. n*s - 1 : Of(k).rosterIndex = i /\ Of(k).round = lap => k = m
  <2> DEFINE q == lap - 1
             x == IF Turns(q) THEN n - 1 - i ELSE i
             m == q * n + x
  <2>1. q \in 0 .. s-1 /\ x \in 0 .. n-1 /\ q + 1 = lap
    BY <1>1
  <2>2. m \in 0 .. n*s - 1 /\ m \div n = q /\ m % n = x
    <3> HIDE DEF q, x
    <3> QED BY <1>1, <2>1, Rows
  <2>3. (IF Turns(q) THEN n - 1 - x ELSE x) = i
    BY <1>1
  <2> HIDE DEF Turns, q, x
  <2>4. Of(m).rosterIndex = i /\ Of(m).round = lap
    BY <1>3, <2>1, <2>2, <2>3
  <2>5. ASSUME NEW k \in 0 .. n*s - 1, Of(k).rosterIndex = i, Of(k).round = lap  PROVE k = m
    <3>1. k \div n \in 0 .. s-1 /\ k % n \in 0 .. n-1 /\ k = (k \div n) * n + (k % n)
      BY <1>1, Rows
    <3> DEFINE u == k \div n
               y == k % n
    <3>2. u + 1 = lap /\ i = IF Turns(u) THEN n - 1 - y ELSE y
      BY <1>3, <2>5
    <3>3. u \in 0 .. s-1 /\ y \in 0 .. n-1 /\ k = u * n + y
      BY <3>1
    <3> HIDE DEF u, y
    <3>4. u = q /\ y = x
      BY <1>1, <2>1, <3>2, <3>3 DEF q, x
    <3> QED BY <3>3, <3>4
  <2> HIDE DEF m
  <2> QED BY <2>2, <2>4, <2>5
<1>6. ASSUME draft.orderType = "SNAKE", NEW m \in 0 .. n*s - 1, NEW k \in 0 .. n*s - 1,
             Of(m).rosterIndex = Of(k).rosterIndex, Of(k).round = Of(m).round + 1
      PROVE  Of(m).indexInRound + Of(k).indexInRound = n - 1
  <2> DEFINE u == m \div n
             v == k \div n
             y == m % n
             z == k % n
  <2>1. u \in Nat /\ v \in Nat /\ y \in 0 .. n-1 /\ z \in 0 .. n-1
    <3>1. ASSUME NEW l \in 0 .. n*s - 1  PROVE l \div n \in 0 .. s-1 /\ l % n \in 0 .. n-1
      BY <1>1, Rows
    <3> QED BY <3>1
  <2>2. v + 1 = u + 2 /\ Of(m).indexInRound = y /\ Of(k).indexInRound = z
    BY <1>3, <1>6, <2>1
  <2>3. (IF Turns(u) THEN n - 1 - y ELSE y) = (IF Turns(v) THEN n - 1 - z ELSE z)
    BY <1>3, <1>6
  <2> HIDE DEF u, v, y, z
  <2>4. v = u + 1 /\ (Turns(u) <=> (u + 1) % 2 = 0) /\ (Turns(v) <=> (v + 1) % 2 = 0)
    BY <1>6, <2>1, <2>2
  <2>5. Turns(u) <=> ~Turns(v)
    BY <2>1, <2>4
  <2> HIDE DEF Turns
  <2> QED BY <1>1, <2>1, <2>2, <2>3, <2>5
<1>7. \A i \in 0 .. n-1, lap \in 1..s :
        \E m \in DraftPlan!PicksOf(i) :
           /\ DraftPlan!PickAt(m).round = lap
           /\ \A k \in DraftPlan!PicksOf(i) : DraftPlan!PickAt(k).round = lap => k = m
  BY <1>2, <1>4, <1>5 DEF DraftPlan!PicksOf
<1> QED BY <1>2, <1>4, <1>6, <1>7 DEF DraftPlan!OrderIsFair, n, s

LEMMA Halving ==
  ASSUME NEW n \in Nat
  PROVE  n \div 2 \in 0..n /\ (n = 2 * (n \div 2) \/ n = 2 * (n \div 2) + 1)
OBVIOUS

\* The circle method with an odd number N of places that turn and one that does not: who
\* stands at place p in round r.
Stands(N, r, p) == IF p = 0 THEN 0 ELSE IF p > r THEN p - r ELSE p - r + N

\* Where the rotation of the code puts the place it starts from.
LEMMA Turning ==
  ASSUME NEW N \in Nat \ {0}, NEW r \in 0 .. N-1, NEW p \in 1..N
  PROVE  1 + ((p - 1 - r) % N) = Stands(N, r, p)
<1>1. CASE p > r
  <2>1. p - 1 - r \in 0 .. N-1
    BY <1>1
  <2>2. 0 * N + (p - 1 - r) = p - 1 - r /\ 0 \in Nat
    BY <2>1
  <2>3. (p - 1 - r) % N = p - 1 - r
    BY <2>1, <2>2, Dividing
  <2> QED BY <1>1, <2>1, <2>3 DEF Stands
<1>2. CASE ~(p > r)
  <2> DEFINE x == p - 1 - r
  <2>1. x \in Int /\ x + N \in 0 .. N-1 /\ x < 0
    BY <1>2
  <2>2. x % N = x + N
    <3> HIDE DEF x
    <3>1. x % N \in 0 .. N-1 /\ x = N * (x \div N) + (x % N) /\ x \div N \in Int
      BY <2>1
    <3> DEFINE q == x \div N
               y == x % N
    <3>2. y \in 0 .. N-1 /\ x = N * q + y /\ q \in Int
      BY <3>1
    <3> HIDE DEF q, y
    <3>3. CASE q >= 0
      <4>1. N * q >= 0
        BY <3>2, <3>3
      <4> QED BY <2>1, <3>2, <4>1
    <3>4. CASE q <= -2
      <4>1. N * q <= N * (-2)
        BY <3>2, <3>4
      <4> QED BY <2>1, <3>2, <4>1
    <3>5. CASE q = -1
      BY <2>1, <3>2, <3>5 DEF y
    <3> QED BY <3>2, <3>3, <3>4, <3>5
  <2> QED BY <1>2, <2>1, <2>2 DEF Stands
<1> QED BY <1>1, <1>2

\* In a round nobody stands at two places.
LEMMA StandsOnce ==
  ASSUME NEW N \in Nat \ {0}, NEW r \in 0 .. N-1
  PROVE  /\ \A p \in 0..N : Stands(N, r, p) \in 0..N
         /\ \A p, q \in 0..N : Stands(N, r, p) = Stands(N, r, q) => p = q
BY DEF Stands

\* i and j stand opposite each other: at p and at N - p.
Opposite(N, r, p, i, j) == \/ Stands(N, r, p) = i /\ Stands(N, r, N - p) = j
                           \/ Stands(N, r, p) = j /\ Stands(N, r, N - p) = i

\* Every two meet, in a round that the sum of their numbers says,
LEMMA EverybodyIsOpposite ==
  ASSUME NEW h \in Nat, NEW N, N = 2 * h + 1, NEW i \in 0..N, NEW j \in 0..N, i < j
  PROVE  \E r \in 0 .. N-1, p \in 0..h : Opposite(N, r, p, i, j)
<1>0. N \in Nat
  OBVIOUS
<1>1. CASE i = 0
  <2> DEFINE r == N - j
  <2>1. r \in 0 .. N-1 /\ 0 \in 0..h /\ Opposite(N, r, 0, i, j)
    BY <1>0, <1>1 DEF Opposite, Stands
  <2> QED BY <2>1
<1>2. CASE i > 0
  <2> DEFINE Other(a, r) == IF a + r > N THEN a + r - N ELSE a + r
  <2>1. ASSUME NEW r \in 0 .. N-1, Other(i, r) + Other(j, r) = N
        PROVE  \E p \in 0..h : Opposite(N, r, p, i, j)
    <3> DEFINE p == Other(i, r)
               q == Other(j, r)
    <3>1. p \in 1..N /\ q \in 1..N /\ p + q = N /\ Stands(N, r, p) = i /\ Stands(N, r, q) = j
      BY <1>0, <1>2, <2>1 DEF Stands
    <3> HIDE DEF p, q
    <3>2. p = N - q /\ q = N - p /\ (p \in 0..h \/ q \in 0..h)
      BY <1>0, <3>1
    <3> QED BY <3>1, <3>2 DEF Opposite
  <2>2. PICK q \in 0..N : i + j = 2 * q \/ i + j = 2 * q + 1
    <3> DEFINE s == i + j
               q == s \div 2
    <3>1. s \in Nat /\ s <= 2 * N
      BY <1>0
    <3> HIDE DEF s
    <3>2. q \in 0..s /\ (s = 2 * q \/ s = 2 * q + 1)
      BY <3>1, Halving
    <3> HIDE DEF q
    <3>3. q \in 0..N
      BY <1>0, <3>1, <3>2
    <3> QED BY <3>2, <3>3 DEF s
  <2> DEFINE r == IF i + j = 2 * q THEN N - q ELSE IF q <= h THEN h - q ELSE N + h - q
  <2>3. r \in 0 .. N-1 /\ Other(i, r) + Other(j, r) = N
    <3>1. CASE i + j = 2 * q
      BY <1>0, <1>2, <2>2, <3>1
    <3>2. CASE i + j = 2 * q + 1 /\ q <= h
      BY <1>0, <1>2, <2>2, <3>2
    <3>3. CASE i + j = 2 * q + 1 /\ q > h
      BY <1>0, <1>2, <2>2, <3>3
    <3> QED BY <2>2, <3>1, <3>2, <3>3
  <2> HIDE DEF r
  <2> QED BY <2>1, <2>3
<1> QED BY <1>0, <1>1, <1>2

\* and they meet no more.
LEMMA OppositeOnce ==
  ASSUME NEW h \in Nat, NEW N, N = 2 * h + 1, NEW i \in 0..N, NEW j \in 0..N, i < j,
         NEW r \in 0 .. N-1, NEW p \in 0..h, NEW t \in 0 .. N-1, NEW q \in 0..h,
         Opposite(N, r, p, i, j), Opposite(N, t, q, i, j)
  PROVE  r = t /\ p = q
<1>1. p = 0 => Stands(N, r, p) = 0 /\ Stands(N, r, N - p) = N - r
  BY DEF Stands
<1>2. q = 0 => Stands(N, t, q) = 0 /\ Stands(N, t, N - q) = N - t
  BY DEF Stands
<1>3. p > 0 => Stands(N, r, p) > 0 /\ Stands(N, r, N - p) > 0
  BY DEF Stands
<1>4. q > 0 => Stands(N, t, q) > 0 /\ Stands(N, t, N - q) > 0
  BY DEF Stands
<1>5. CASE i = 0
  BY <1>1, <1>2, <1>3, <1>4, <1>5 DEF Opposite
<1>6. CASE i > 0
  <2>1. p > 0 /\ q > 0
    BY <1>1, <1>2, <1>6 DEF Opposite
  <2> DEFINE a == Stands(N, r, p)
             b == Stands(N, r, N - p)
             c == Stands(N, t, q)
             d == Stands(N, t, N - q)
  <2>2. (a = c /\ b = d) \/ (a = d /\ b = c)
    BY DEF Opposite
  <2>3. /\ (a = p - r \/ a = p - r + N) /\ (b = N - p - r \/ b = N - p - r + N)
        /\ (c = q - t \/ c = q - t + N) /\ (d = N - q - t \/ d = N - q - t + N)
    BY <2>1 DEF Stands
  <2> HIDE DEF a, b, c, d
  <2>4. r = t
    <3>1. a + b = c + d
      BY <2>2, <2>3
    <3> QED BY <2>3, <3>1
  <2> QED BY <2>1, <2>2, <2>3, <2>4
<1> QED BY <1>5, <1>6

\* Where the fixtures of a round robin come from.
Fixture(n, r, p) ==
  LET N == DraftPlan!Places(n) - 1
      first == DraftPlan!IndexAt(n, Stands(N, r, p))
      second == DraftPlan!IndexAt(n, Stands(N, r, N - p))
  IN [round |-> r + 1, home |-> IF r % 2 = 1 THEN second ELSE first,
                       away |-> IF r % 2 = 1 THEN first ELSE second]

RoundRobin(n, h) ==
  /\ DraftPlan!Places(n) - 1 = 2 * h + 1
  /\ n = 2 * h + 2 \/ (n = 2 * h + 1 /\ h > 0)
  /\ DraftPlan!roundRobinPairs(n) =
       {f \in {Fixture(n, r, p) : r \in 0 .. 2 * h, p \in 0..h} : f.home # -1 /\ f.away # -1}

\* Every round of a round robin pairs the places of the circle method.
LEMMA FixturesOfARoundRobin ==
  ASSUME NEW n \in Nat, n >= 2
  PROVE  \E h \in Nat : RoundRobin(n, h)
<1>1. PICK h \in Nat : n = 2 * h + 2 \/ (n = 2 * h + 1 /\ h > 0)
  <2> DEFINE q == n \div 2
  <2>1. q \in Nat /\ (n = 2 * q \/ n = 2 * q + 1)
    BY Halving
  <2> HIDE DEF q
  <2>2. CASE n = 2 * q
    <3>1. q - 1 \in Nat /\ n = 2 * (q - 1) + 2
      BY <2>1, <2>2
    <3> QED BY <3>1
  <2>3. CASE n = 2 * q + 1
    <3>1. q > 0
      BY <2>1, <2>3
    <3> QED BY <2>1, <2>3, <3>1
  <2> QED BY <2>1, <2>2, <2>3
<1> DEFINE N == 2 * h + 1
<1>2. DraftPlan!Places(n) = N + 1
  BY <1>1 DEF DraftPlan!Places
<1>3. N \in Nat \ {0} /\ N - 1 = 2 * h /\ (N + 1) - 1 = N /\ (N + 1) - 2 = 2 * h
      /\ ((N + 1) \div 2) - 1 = h
  BY <1>1
<1> HIDE DEF N
<1>4. ASSUME NEW r \in 0 .. 2 * h, NEW p \in 0..N
      PROVE  DraftPlan!lineup(n, r, p) = DraftPlan!IndexAt(n, Stands(N, r, p))
  <2>1. CASE p = 0
    BY <2>1 DEF DraftPlan!lineup, Stands
  <2>2. CASE p # 0
    <3>1. 1 + ((p - 1 - r) % N) = Stands(N, r, p)
      BY <1>3, <2>2, Turning
    <3>2. DraftPlan!Places(n) - 1 = N
      BY <1>2, <1>3
    <3> QED BY <2>2, <3>1, <3>2 DEF DraftPlan!lineup
  <2> QED BY <2>1, <2>2
<1> DEFINE m == DraftPlan!Places(n)
           At(r, p) == [round |-> r + 1,
             home |-> IF r % 2 = 1 THEN DraftPlan!lineup(n, r, m - 1 - p) ELSE DraftPlan!lineup(n, r, p),
             away |-> IF r % 2 = 1 THEN DraftPlan!lineup(n, r, p) ELSE DraftPlan!lineup(n, r, m - 1 - p)]
<1>5. ASSUME NEW r \in 0 .. 2 * h, NEW p \in 0..h  PROVE At(r, p) = Fixture(n, r, p)
  <2>1. m - 1 - p = N - p /\ p \in 0..N /\ N - p \in 0..N
    BY <1>2, <1>3
  <2> QED BY <1>2, <1>3, <1>4, <2>1 DEF Fixture
<1>6. m - 2 = 2 * h /\ m \div 2 - 1 = h
  BY <1>2, <1>3
<1>7. DraftPlan!roundRobinPairs(n) =
        {f \in {Fixture(n, r, p) : r \in 0 .. 2 * h, p \in 0..h} : f.home # -1 /\ f.away # -1}
  <2>1. DraftPlan!roundRobinPairs(n) =
          {f \in {At(r, p) : r \in 0 .. m - 2, p \in 0 .. m \div 2 - 1} : f.home # -1 /\ f.away # -1}
    BY DEF DraftPlan!roundRobinPairs, DraftPlan!Bye
  <2> HIDE DEF At, m
  <2>2. {At(r, p) : r \in 0 .. m - 2, p \in 0 .. m \div 2 - 1} =
          {Fixture(n, r, p) : r \in 0 .. 2 * h, p \in 0..h}
    BY <1>5, <1>6
  <2> QED BY <2>1, <2>2
<1>8. DraftPlan!Places(n) - 1 = 2 * h + 1
  BY <1>2, <1>3 DEF N
<1>9. RoundRobin(n, h)
  BY <1>1, <1>7, <1>8 DEF RoundRobin
<1> QED BY <1>9, Zenon

LEMMA DraftCardinality == \A S : DraftPlan!Cardinality(S) = Cardinality(S)
BY Zenon DEF DraftPlan!Cardinality, Cardinality

\* Every two rosters meet once, nobody plays twice in a round, no round could be saved.
LEMMA EverybodyMeets ==
  ASSUME PlanInv  PROVE DraftPlan!EverybodyMeetsOnce
<1> DEFINE n == draft.rosterCount
<1>1. n \in Nat /\ n >= 2
  BY DEF PlanInv
<1>2. DraftPlan!Indexes = 0 .. n-1 /\ DraftPlan!Pairs = DraftPlan!roundRobinPairs(n)
  BY DEF DraftPlan!Indexes, DraftPlan!Pairs
<1> HIDE DEF n
<1>0. PICK h \in Nat : RoundRobin(n, h)
  BY <1>1, FixturesOfARoundRobin
<1>3. /\ DraftPlan!Places(n) - 1 = 2 * h + 1
      /\ n = 2 * h + 2 \/ (n = 2 * h + 1 /\ h > 0)
      /\ DraftPlan!roundRobinPairs(n) =
           {f \in {Fixture(n, r, p) : r \in 0 .. 2 * h, p \in 0..h} : f.home # -1 /\ f.away # -1}
  BY <1>0 DEF RoundRobin
<1> DEFINE N == 2 * h + 1
           Index(x) == IF x < n THEN x ELSE -1
           R == 0 .. N-1
<1>4. /\ N \in Nat \ {0} /\ N - 1 = 2 * h /\ \A r \in R : r \in 0 .. 2 * h /\ r \in Int
      /\ \A p \in 0..h : p \in 0..N /\ N - p \in 0..N /\ p \in Int
  BY <1>3
<1>5. ASSUME NEW r \in R, NEW p \in 0..h
      PROVE  /\ Fixture(n, r, p).round = r + 1
             /\ LET f == Fixture(n, r, p)
                    a == Index(Stands(N, r, p))
                    b == Index(Stands(N, r, N - p))
                IN (f.home = a /\ f.away = b) \/ (f.home = b /\ f.away = a)
  <2> DEFINE a == Index(Stands(N, r, p))
             b == Index(Stands(N, r, N - p))
  <2>1. Fixture(n, r, p) = [round |-> r + 1, home |-> IF r % 2 = 1 THEN b ELSE a,
                                            away |-> IF r % 2 = 1 THEN a ELSE b]
    BY <1>3, Zenon DEF Fixture, DraftPlan!IndexAt, DraftPlan!Bye
  <2>2. CASE r % 2 = 1
    BY <2>1, <2>2
  <2>3. CASE ~(r % 2 = 1)
    BY <2>1, <2>3
  <2> QED BY <2>2, <2>3
<1>6. ASSUME NEW i \in 0 .. n-1, NEW j \in 0 .. n-1, i < j
      PROVE  Cardinality({f \in DraftPlan!Pairs : {f.home, f.away} = {i, j}}) = 1
  <2>1. i \in 0..N /\ j \in 0..N
    BY <1>1, <1>3
  <2>2. ASSUME NEW r \in R, NEW p \in 0..h
        PROVE  LET f == Fixture(n, r, p) IN {f.home, f.away} = {i, j} <=> Opposite(N, r, p, i, j)
    <3>1. Stands(N, r, p) \in 0..N /\ Stands(N, r, N - p) \in 0..N
      BY <1>4, StandsOnce
    <3>2. \A x \in 0..N : (Index(x) = i <=> x = i) /\ (Index(x) = j <=> x = j)
      BY <1>1, <1>6
    <3> DEFINE f == Fixture(n, r, p)
               u == Stands(N, r, p)
               v == Stands(N, r, N - p)
    <3>3. (Index(u) = i <=> u = i) /\ (Index(u) = j <=> u = j)
          /\ (Index(v) = i <=> v = i) /\ (Index(v) = j <=> v = j)
      BY <3>1, <3>2
    <3>4. (f.home = Index(u) /\ f.away = Index(v)) \/ (f.home = Index(v) /\ f.away = Index(u))
      BY <1>5
    <3>5. Opposite(N, r, p, i, j) <=> (u = i /\ v = j) \/ (u = j /\ v = i)
      BY DEF Opposite
    <3> HIDE DEF Index, N, R, u, v, f
    <3>6. {f.home, f.away} = {i, j}
            <=> (f.home = i /\ f.away = j) \/ (f.home = j /\ f.away = i)
      BY <1>6
    <3> QED BY <3>3, <3>4, <3>5, <3>6 DEF f
  <2> HIDE DEF Index, N, R
  <2>3. PICK r \in R, p \in 0..h : Opposite(N, r, p, i, j)
    BY <1>6, <2>1, EverybodyIsOpposite DEF N, R
  <2> DEFINE f == Fixture(n, r, p)
             S == {g \in DraftPlan!Pairs : {g.home, g.away} = {i, j}}
  <2>4. f \in S
    <3>1. {f.home, f.away} = {i, j}
      BY <2>2, <2>3
    <3>2. f.home # -1 /\ f.away # -1
      BY <1>1, <3>1
    <3>3. f \in {Fixture(n, t, q) : t \in 0 .. 2 * h, q \in 0..h}
      BY <1>4, <2>3
    <3> HIDE DEF f
    <3> QED BY <1>2, <1>3, <3>1, <3>2, <3>3
  <2>5. ASSUME NEW g \in S  PROVE g = f
    <3>1. PICK t \in R, q \in 0..h : g = Fixture(n, t, q)
      BY <1>2, <1>3, <1>4 DEF R
    <3>2. Opposite(N, t, q, i, j)
      BY <2>2, <3>1
    <3>3. r = t /\ p = q
      BY <1>6, <2>1, <2>3, <3>2, OppositeOnce DEF N, R
    <3> QED BY <3>1, <3>3
  <2>6. S = {f}
    <3> HIDE DEF S, f
    <3> QED BY <2>4, <2>5
  <2> HIDE DEF f
  <2> QED BY <2>6, FS_Singleton
<1>7. ASSUME NEW f \in DraftPlan!Pairs, NEW g \in DraftPlan!Pairs, f.round = g.round, f # g
      PROVE  {f.home, f.away} \cap {g.home, g.away} = {}
  <2>1. PICK r \in R, p \in 0..h : f = Fixture(n, r, p)
    BY <1>2, <1>3, <1>4
  <2>2. PICK t \in R, q \in 0..h : g = Fixture(n, t, q)
    BY <1>2, <1>3, <1>4
  <2>3. r = t
    BY <1>4, <1>5, <1>7, <2>1, <2>2
  <2>4. p # q
    BY <1>7, <2>1, <2>2, <2>3
  <2>5. p # N - q /\ N - p # q /\ N - p # N - q
    BY <2>4
  <2>6. f.home # -1 /\ f.away # -1
    BY <1>2, <1>3
  <2>7. \A u, v \in 0..N : Stands(N, r, u) = Stands(N, r, v) => u = v
    BY <1>4, StandsOnce
  <2>8. \A x, y : Index(x) = Index(y) /\ Index(x) # -1 => x = y
    OBVIOUS
  <2> HIDE DEF Index, N, R
  <2> QED BY <1>4, <1>5, <2>1, <2>2, <2>3, <2>4, <2>5, <2>6, <2>7, <2>8
<1>8. {f.round : f \in DraftPlan!Pairs} = 1 .. (n - (IF n % 2 = 0 THEN 1 ELSE 0))
  <2>1. n - (IF n % 2 = 0 THEN 1 ELSE 0) = N
    BY <1>1, <1>3
  <2>2. ASSUME NEW f \in DraftPlan!Pairs  PROVE f.round \in 1..N
    <3>1. PICK r \in R, p \in 0..h : f = Fixture(n, r, p)
      BY <1>2, <1>3, <1>4
    <3>2. f.round = r + 1
      BY <1>5, <3>1
    <3> QED BY <1>4, <3>2
  <2>3. ASSUME NEW k \in 1..N  PROVE \E f \in DraftPlan!Pairs : f.round = k
    <3> DEFINE r == k - 1
               p == IF n = 2 * h + 1 /\ r = 0 THEN 1 ELSE 0
    <3>1. r \in R /\ p \in 0..h /\ r + 1 = k
      BY <1>3
    <3>2. Index(Stands(N, r, p)) # -1 /\ Index(Stands(N, r, N - p)) # -1
      <4>1. CASE n = 2 * h + 1 /\ r = 0
        BY <1>3, <4>1 DEF Stands
      <4>2. CASE n = 2 * h + 1 /\ r # 0
        BY <1>3, <3>1, <4>2 DEF Stands
      <4>3. CASE n = 2 * h + 2
        BY <1>3, <3>1, <4>3 DEF Stands
      <4> QED BY <1>3, <4>1, <4>2, <4>3
    <3> HIDE DEF r, p, Index, R, N
    <3>3. Fixture(n, r, p).home # -1 /\ Fixture(n, r, p).away # -1 /\ Fixture(n, r, p).round = k
      BY <1>5, <3>1, <3>2
    <3>4. Fixture(n, r, p) \in DraftPlan!Pairs
      BY <1>2, <1>3, <1>4, <3>1, <3>3
    <3> QED BY <3>3, <3>4
  <2> HIDE DEF N
  <2> QED BY <2>1, <2>2, <2>3
<1>9. ASSUME NEW i \in 0 .. n-1, NEW j \in 0 .. n-1, i # j
      PROVE  Cardinality({f \in DraftPlan!Pairs : {f.home, f.away} = {i, j}}) = 1
  <2>1. CASE i < j
    BY <1>6, <2>1
  <2>2. CASE j < i
    <3>1. {i, j} = {j, i}
      OBVIOUS
    <3> QED BY <1>6, <2>2, <3>1
  <2> QED BY <1>1, <1>9, <2>1, <2>2
<1>10. \A i, j \in DraftPlan!Indexes :
         i # j => DraftPlan!Cardinality({f \in DraftPlan!Pairs : {f.home, f.away} = {i, j}}) = 1
  BY <1>2, <1>9, DraftCardinality
<1>11. \A f, g \in DraftPlan!Pairs :
         f.round = g.round /\ f # g => {f.home, f.away} \cap {g.home, g.away} = {}
  BY <1>7
<1> QED BY <1>8, <1>10, <1>11 DEF DraftPlan!EverybodyMeetsOnce, n

\* The next bid is the least that covers the raise.
LEMMA TheBidIsLeast ==
  ASSUME PlanInv  PROVE DraftPlan!MinimumBidIsLeast
<1> DEFINE c == auction.currentBid
           x == auction.percent * c
           up == (c * auction.percent + 100 - 1) \div 100
           least == c + (IF up > 1 THEN up ELSE 1)
<1>1. c \in Nat /\ auction.percent \in Nat
  BY DEF PlanInv
<1>2. x \in Nat /\ c * auction.percent = x
  BY <1>1
<1>3. up \in Nat /\ 100 * up >= x /\ (up > 0 => 100 * (up - 1) < x)
  <2> HIDE DEF x, c
  <2> QED BY <1>2
<1>4. DraftPlan!minimumBid(c, 1, 1, auction.percent) = least
  BY DEF DraftPlan!minimumBid, DraftPlan!bidStep, DraftPlan!CeilDiv
<1>5. least > c /\ 100 * (least - c) >= x
      /\ \A amount \in c .. least - 1 : ~(amount > c /\ 100 * (amount - c) >= x)
  <2> HIDE DEF x, up, c
  <2> QED BY <1>1, <1>2, <1>3
<1> HIDE DEF least, x, up
<1> QED BY <1>4, <1>5 DEF DraftPlan!MinimumBidIsLeast, x, c

\* The cursor of the match days after one day more.
Visited(dates, day, count, allowed) ==
  IF Len(dates) < count /\ day % 7 \in allowed THEN Append(dates, day) ELSE dates

\* F has the match days after each of n days from the first.
Walks(F, first, n, count, allowed, dates) ==
  /\ dates = F[1..n]
  /\ F[{}] = <<>>
  /\ \A k \in 1..n : F[1..k] = Visited(F[1 .. k-1], first + k - 1, count, allowed)

\* The fold of the match days visits them one by one.
LEMMA DaysAreWalked ==
  ASSUME NEW from \in Nat, NEW late \in BOOLEAN, NEW weekdays, NEW count \in Nat
  PROVE  \E F : Walks(F, DraftPlan!firstDay(from, late), 7 * count, count,
                      IF weekdays = {} THEN {0, 3} ELSE weekdays,
                      DraftPlan!nextMatchDates(from, late, weekdays, count))
<1> DEFINE n == 7 * count
           first == DraftPlan!firstDay(from, late)
           A == IF weekdays = {} THEN {0, 3} ELSE weekdays
           r == [i \in 1..n |-> first + i - 1]
           S == DOMAIN r
           V == Seq(Int)
           pick == [s \in SUBSET S |-> DraftPlan!Max(s)]
           step == [p \in S \X V |-> Visited(p[2], r[p[1]], count, A)]
           From(f) == [s \in SUBSET S |-> IF s = {} THEN <<>>
                         ELSE Visited(f[s \ {DraftPlan!Max(s)}], r[DraftPlan!Max(s)], count, A)]
           F == CHOOSE f : f = From(f)
<1>0. /\ S = 1..n /\ n \in Nat /\ first \in Nat /\ \A U : DraftPlan!Max(U) = Largest(U)
      /\ \A i \in 1..n : r[i] = first + i - 1 /\ r[i] \in Int
  BY DEF DraftPlan!Max, Largest, DraftPlan!firstDay
<1>1. IsFiniteSet(S) /\ \A s \in SUBSET S : s # {} => pick[s] \in s
  <2>1. IsFiniteSet(1..n)
    BY <1>0, FS_Interval
  <2>2. \A s \in SUBSET (1..n) : s # {} => Largest(s) \in s
    BY <1>0, HasLargest
  <2> QED BY <1>0, <2>1, <2>2
<1>2. <<>> \in V /\ step \in [S \X V -> V]
  <2>1. ASSUME NEW t \in Seq(Int), NEW u \in Int  PROVE Visited(t, u, count, A) \in Seq(Int)
    BY DEF Visited
  <2>2. \A p \in S \X V : p[2] \in V /\ r[p[1]] \in Int
    BY <1>0
  <2>3. <<>> \in V
    OBVIOUS
  <2>4. \A p \in S \X V : Visited(p[2], r[p[1]], count, A) \in V
    <3> HIDE DEF A, r
    <3> QED BY <2>1, <2>2
  <2> HIDE DEF V, A, r
  <2> QED BY <2>3, <2>4
<1>3. PICK f : Takes(f, S, V, pick, <<>>, step)
  <2> HIDE DEF pick, step, S, V
  <2> QED BY <1>1, <1>2, Recursion, Zenon
<1>4. ASSUME NEW s \in SUBSET S, s # {}
      PROVE  f[s] = Visited(f[s \ {DraftPlan!Max(s)}], r[DraftPlan!Max(s)], count, A)
  <2>1. pick[s] = DraftPlan!Max(s) /\ DraftPlan!Max(s) \in S /\ s \ {DraftPlan!Max(s)} \in SUBSET S
    BY <1>1, <1>4
  <2> DEFINE x == DraftPlan!Max(s)
  <2> HIDE DEF pick, x
  <2>2. f[s] = step[<<x, f[s \ {x}]>>] /\ f[s \ {x}] \in V
    BY <1>3, <1>4, <2>1 DEF Takes, x
  <2>3. step[<<x, f[s \ {x}]>>] = Visited(f[s \ {x}], r[x], count, A)
    <3> DEFINE p == <<x, f[s \ {x}]>>
    <3>1. p \in S \X V /\ p[1] = x /\ p[2] = f[s \ {x}]
      BY <2>1, <2>2 DEF x
    <3> HIDE DEF p, V, A, r
    <3> QED BY <3>1 DEF p
  <2> QED BY <2>2, <2>3 DEF x
<1>5. f = From(f)
  <2>1. f = [s \in SUBSET S |-> f[s]] /\ f[{}] = <<>>
    BY <1>3 DEF Takes
  <2> HIDE DEF S
  <2> QED BY <1>4, <2>1
<1>6. F = From(F)
  <2> HIDE DEF From
  <2> QED BY <1>5
<1>7. DraftPlan!nextMatchDates(from, late, weekdays, count) = F[S]
  BY DEF DraftPlan!nextMatchDates, DraftPlan!FoldLeft, DraftPlan!MapThenFoldSet, Visited
<1> HIDE DEF F
<1>8. F[{}] = <<>>
  BY <1>6
<1>9. ASSUME NEW k \in 1..n  PROVE F[1..k] = Visited(F[1 .. k-1], first + k - 1, count, A)
  <2>1. k \in Nat /\ k > 0
    BY <1>0
  <2>2. Largest(1..k) = k
    BY <2>1, HasLargest
  <2>3. (1..k) \ {k} = 1 .. k-1 /\ 1..k \in SUBSET (1..n) /\ 1..k # {}
    <3>1. \A x \in 1..k : x # k => x \in 1 .. k-1
      BY <2>1
    <3>2. \A x \in 1 .. k-1 : x \in 1..k /\ x # k
      BY <2>1
    <3>3. 1..k \in SUBSET (1..n) /\ k \in 1..k
      BY <1>0, <2>1
    <3> QED BY <3>1, <3>2, <3>3
  <2>4. F[1..k] = Visited(F[(1..k) \ {Largest(1..k)}], r[Largest(1..k)], count, A)
    <3> HIDE DEF r, A, n
    <3> QED BY <1>0, <1>6, <2>3
  <2> HIDE DEF A, r, first, n
  <2> QED BY <1>0, <2>2, <2>3, <2>4
<1> HIDE DEF n, first, A
<1>10. Walks(F, first, n, count, A, DraftPlan!nextMatchDates(from, late, weekdays, count))
  BY <1>0, <1>7, <1>8, <1>9, Zenon DEF Walks
<1> QED BY <1>10, Zenon DEF n, first, A

OpenOn(x, allowed) == x % 7 \in allowed

\* After k days the dates are the first allowed ones, in order, count of them at most; while
\* there are fewer, no allowed day was left out, and a weekday w that is allowed has had its
\* day as often as it came.
Walked(d, k, first, count, allowed, w) ==
  /\ d \in Seq(Nat) /\ Len(d) <= count
  /\ \A i \in DOMAIN d : first <= d[i] /\ d[i] < first + k /\ OpenOn(d[i], allowed)
  /\ \A i, j \in DOMAIN d : i < j => d[i] < d[j]
  /\ \A x \in Nat : first <= x /\ x < first + k /\ OpenOn(x, allowed)
                    => (Len(d) = count /\ x > d[count]) \/ \E i \in DOMAIN d : d[i] = x
  /\ Len(d) < count => ((w - first) % 7) + 7 * Len(d) >= k

\* A day visited keeps what was said of the days before it.
LEMMA OneDayMore ==
  ASSUME NEW first \in Nat, NEW count \in Nat \ {0}, NEW allowed, NEW w \in allowed,
         allowed \subseteq 0..6, NEW k \in Nat, NEW d, Walked(d, k, first, count, allowed, w)
  PROVE  Walked(Visited(d, first + k, count, allowed), k + 1, first, count, allowed, w)
<1> DEFINE day == first + k
           n == Len(d)
           e == Visited(d, day, count, allowed)
<1>00. d \in Seq(Nat) /\ n \in Nat /\ n <= count /\ DOMAIN d = 1..n /\ day \in Nat
  BY DEF Walked
<1>01. first + (k + 1) = day + 1 /\ first <= day /\ \A x \in Nat : x < day + 1 => x < day \/ x = day
  OBVIOUS
<1>0. /\ \A i \in 1..n : d[i] \in Nat /\ first <= d[i] /\ d[i] < day /\ OpenOn(d[i], allowed)
      /\ \A i, j \in 1..n : i < j => d[i] < d[j]
      /\ \A x \in Nat : first <= x /\ x < day /\ OpenOn(x, allowed)
                    => (n = count /\ x > d[count]) \/ \E i \in 1..n : d[i] = x
  <2>1. \A i \in 1..n : d[i] \in Nat
    BY <1>00
  <2> QED BY <1>00, <2>1, Zenon DEF Walked
<1>02. Walked(d, k, first, count, allowed, w)
  OBVIOUS
<1> SUFFICES Walked(e, k + 1, first, count, allowed, w)
  OBVIOUS
<1> HIDE DEF n, day
<1>1. CASE n = count
  <2>1. e = d
    BY <1>1 DEF Visited, n
  <2>2. d[count] < day /\ d[count] \in Nat
    BY <1>00, <1>0, <1>1
  <2>3. \A x \in Nat : first <= x /\ x < first + (k + 1) /\ OpenOn(x, allowed)
                    => (n = count /\ x > d[count]) \/ \E i \in 1..n : d[i] = x
    BY <1>00, <1>01, <1>0, <1>1, <2>2
  <2>4. \A i \in 1..n : first <= d[i] /\ d[i] < first + (k + 1) /\ OpenOn(d[i], allowed)
    <3>1. \A x \in Nat : x < day => x < first + (k + 1)
      BY <1>00, <1>01
    <3> QED BY <1>0, <3>1
  <2>5. ~(n < count)
    BY <1>00, <1>1
  <2>6. Walked(d, k + 1, first, count, allowed, w)
    BY <1>00, <1>0, <2>3, <2>4, <2>5, Zenon DEF Walked, n
  <2> QED BY <2>1, <2>6
<1>2. CASE n < count /\ ~OpenOn(day, allowed)
  <2>1. e = d
    BY <1>2 DEF Visited, OpenOn
  <2>2. ((w - first) % 7) + 7 * n >= k + 1
    <3> DEFINE a == (w - first) % 7
    <3>1. w \in 0..6 /\ a + 7 * n >= k
      BY <1>02, <1>2 DEF Walked, n
    <3>2. a \in 0..6 /\ (first + a) % 7 = w
      BY <3>1
    <3> HIDE DEF a
    <3>3. ASSUME a + 7 * n = k  PROVE FALSE
      <4>1. (first + (a + 7 * n)) % 7 = (first + a) % 7
        BY <1>00, <3>2
      <4>2. day % 7 = w
        BY <3>2, <3>3, <4>1 DEF day
      <4> QED BY <1>2, <4>2 DEF OpenOn
    <3>4. a + 7 * n >= k + 1
      BY <1>00, <3>1, <3>2, <3>3
    <3> QED BY <3>4 DEF a
  <2>3. \A x \in Nat : first <= x /\ x < first + (k + 1) /\ OpenOn(x, allowed)
                    => \E i \in 1..n : d[i] = x
    <3>1. n # count
      BY <1>00, <1>2
    <3> QED BY <1>00, <1>01, <1>0, <1>2, <3>1
  <2>4. \A i \in 1..n : first <= d[i] /\ d[i] < first + (k + 1) /\ OpenOn(d[i], allowed)
    <3>1. \A x \in Nat : x < day => x < first + (k + 1)
      BY <1>00, <1>01
    <3> QED BY <1>0, <3>1
  <2>5. Walked(d, k + 1, first, count, allowed, w)
    BY <1>00, <1>0, <2>2, <2>3, <2>4, Zenon DEF Walked, n
  <2> QED BY <2>1, <2>5
<1>3. CASE n < count /\ OpenOn(day, allowed)
  <2>1. e = Append(d, day)
    BY <1>3 DEF Visited, OpenOn, n
  <2>2. /\ e \in Seq(Nat) /\ Len(e) = n + 1 /\ DOMAIN e = 1 .. n+1 /\ e[n + 1] = day
        /\ \A i \in 1..n : e[i] = d[i]
    <3> HIDE DEF e
    <3> QED BY <1>00, <2>1 DEF n
  <2>3. \A i \in 1 .. n+1 : i \in 1..n \/ i = n + 1
    BY <1>00
  <2> HIDE DEF e
  <2>4. \A i \in 1 .. n+1 : first <= e[i] /\ e[i] < first + (k + 1) /\ OpenOn(e[i], allowed)
    <3>1. \A x \in Nat : x < day \/ x = day => x < first + (k + 1)
      BY <1>00, <1>01
    <3> QED BY <1>00, <1>01, <1>0, <1>3, <2>2, <2>3, <3>1
  <2>5. ASSUME NEW i \in 1 .. n+1, NEW j \in 1 .. n+1, i < j  PROVE e[i] < e[j]
    <3>1. i \in 1..n
      BY <1>00, <2>5
    <3> QED BY <1>0, <2>2, <2>3, <2>5, <3>1
  <2>6. ASSUME NEW x \in Nat, first <= x, x < first + (k + 1), OpenOn(x, allowed)
        PROVE  \E i \in 1 .. n+1 : e[i] = x
    <3>1. CASE x = day
      BY <1>00, <2>2, <3>1
    <3>2. CASE x < day
      <4>0. n # count
        BY <1>00, <1>3
      <4>1. PICK i \in 1..n : d[i] = x
        BY <1>0, <2>6, <3>2, <4>0
      <4>2. i \in 1 .. n+1
        BY <1>00
      <4> QED BY <2>2, <4>1, <4>2
    <3> QED BY <1>01, <2>6, <3>1, <3>2
  <2>7. ((w - first) % 7) + 7 * (n + 1) >= k + 1
    <3> DEFINE a == (w - first) % 7
    <3>1. a \in 0..6 /\ a + 7 * n >= k
      BY <1>02, <1>3 DEF Walked, n
    <3> HIDE DEF a
    <3>2. a + 7 * (n + 1) >= k + 1
      BY <1>00, <3>1
    <3> QED BY <3>2 DEF a
  <2>8. n + 1 <= count
    BY <1>00, <1>3
  <2>9. /\ \A i \in DOMAIN e : first <= e[i] /\ e[i] < first + (k + 1) /\ OpenOn(e[i], allowed)
        /\ \A i, j \in DOMAIN e : i < j => e[i] < e[j]
        /\ \A x \in Nat : first <= x /\ x < first + (k + 1) /\ OpenOn(x, allowed)
                       => \E i \in DOMAIN e : e[i] = x
    BY <2>2, <2>4, <2>5, <2>6
  <2> QED BY <2>2, <2>7, <2>8, <2>9, Zenon DEF Walked
<1> QED BY <1>00, <1>1, <1>2, <1>3

\* The weekdays of the calendar, and dates that have a day for every round.
WeekdaysOf(weekdays) == IF weekdays = {} THEN {0, 3} ELSE weekdays
Seasoned(first, count, allowed, dates) ==
  \E w \in allowed : Walked(dates, 7 * count, first, count, allowed, w) /\ Len(dates) = count

\* Within a week for each round there is a day for each.
LEMMA DaysOfASeason ==
  ASSUME NEW from \in Nat, NEW late \in BOOLEAN, NEW weekdays \in SUBSET (0..6),
         NEW count \in Nat \ {0}
  PROVE  Seasoned(DraftPlan!firstDay(from, late), count, WeekdaysOf(weekdays),
                  DraftPlan!nextMatchDates(from, late, weekdays, count))
<1> DEFINE n == 7 * count
           first == DraftPlan!firstDay(from, late)
           A == IF weekdays = {} THEN {0, 3} ELSE weekdays
           dates == DraftPlan!nextMatchDates(from, late, weekdays, count)
<1>0. first \in Nat /\ n \in Nat
  BY DEF DraftPlan!firstDay
<1>1. PICK w \in A : A \subseteq 0..6
  <2>1. A \subseteq 0..6 /\ A # {}
    OBVIOUS
  <2> QED BY <2>1
<1>2. PICK F : Walks(F, first, n, count, A, dates)
  BY DaysAreWalked, Zenon
<1> HIDE DEF n, first, A, dates
<1> DEFINE S == {k \in Nat : k <= n => Walked(F[1..k], k, first, count, A, w)}
<1>3. 0 \in S
  <2>1. F[1..0] = <<>>
    <3>1. 1..0 = {}
      OBVIOUS
    <3> QED BY <1>2, <3>1 DEF Walks
  <2> DEFINE d == <<>>
  <2>2. d \in Seq(Nat) /\ Len(d) = 0 /\ DOMAIN d = {} /\ 0 <= count
    OBVIOUS
  <2>3. ((w - first) % 7) + 7 * 0 >= 0 /\ \A x \in Nat : ~(first <= x /\ x < first + 0)
    <3>1. w \in Int
      BY <1>1
    <3> QED BY <1>0, <3>1
  <2> HIDE DEF d
  <2>4. Walked(d, 0, first, count, A, w)
    BY <2>2, <2>3 DEF Walked
  <2> QED BY <2>1, <2>4 DEF d
<1>4. ASSUME NEW k \in S  PROVE k + 1 \in S
  <2> SUFFICES ASSUME k + 1 <= n
               PROVE  Walked(F[1 .. k+1], k + 1, first, count, A, w)
    OBVIOUS
  <2>1. k \in Nat /\ k <= n /\ k + 1 \in 1..n /\ first + (k + 1) - 1 = first + k /\ (k + 1) - 1 = k
    BY <1>0
  <2>2. Walked(F[1..k], k, first, count, A, w)
    BY <2>1
  <2>3. F[1 .. k+1] = Visited(F[1..k], first + k, count, A)
    BY <1>2, <2>1 DEF Walks
  <2> QED BY <1>0, <1>1, <2>1, <2>2, <2>3, OneDayMore
<1>5. S = Nat
  <2>1. S \in SUBSET Nat
    OBVIOUS
  <2> HIDE DEF S
  <2> QED BY <1>3, <1>4, <2>1, Induction
<1>6. Walked(dates, n, first, count, A, w)
  <2>1. dates = F[1..n]
    BY <1>2 DEF Walks
  <2>2. n \in S
    BY <1>0, <1>5
  <2> QED BY <1>0, <2>1, <2>2
<1>7. Len(dates) = count
  <2> DEFINE a == (w - first) % 7
             l == Len(dates)
  <2>1. a \in 0..6
    <3>1. w \in Int
      BY <1>1
    <3> QED BY <1>0, <3>1
  <2>2. l \in Nat /\ l <= count /\ (l < count => a + 7 * l >= n)
    BY <1>6 DEF Walked
  <2> HIDE DEF a, l
  <2>3. l = count
    BY <2>1, <2>2 DEF n
  <2> QED BY <2>3 DEF l
<1>8. Seasoned(first, count, A, dates)
  BY <1>1, <1>6, <1>7, Zenon DEF Seasoned, n
<1> QED BY <1>8, Zenon DEF first, A, dates, WeekdaysOf

\* The rounds have the days the calendar allows, all of them from the first on.
LEMMA TheSeasonFits ==
  ASSUME PlanInv  PROVE DraftPlan!SeasonFitsTheCalendar
<1> DEFINE c == calendar
           played == {f.round : f \in DraftPlan!Pairs}
           rounds == CHOOSE k \in played : \A f \in DraftPlan!Pairs : f.round <= k
           N == draft.rosterCount - (IF draft.rosterCount % 2 = 0 THEN 1 ELSE 0)
           dates == DraftPlan!nextMatchDates(c.from, c.late, c.weekdays, rounds)
           allowed == IF c.weekdays = {} THEN {0, 3} ELSE c.weekdays
           first == DraftPlan!firstDay(c.from, c.late)
           possible == {d \in c.from .. dates[rounds] : d % 7 \in allowed /\ (d > c.from \/ ~c.late)}
<1>1. played = 1..N
  BY EverybodyMeets DEF DraftPlan!EverybodyMeetsOnce
<1>2. N \in Nat \ {0}
  <2>1. draft.rosterCount \in Nat /\ draft.rosterCount >= 2
    BY DEF PlanInv
  <2> QED BY <2>1
<1>3. rounds = N
  <2> HIDE DEF N
  <2>1. \A f \in DraftPlan!Pairs : f.round \in 1..N
    BY <1>1
  <2>2. N \in played /\ \A f \in DraftPlan!Pairs : f.round <= N
    BY <1>1, <1>2, <2>1
  <2>3. \A k \in played : (\A f \in DraftPlan!Pairs : f.round <= k) => k = N
    <3>1. \E f \in DraftPlan!Pairs : f.round = N
      BY <2>2
    <3> QED BY <1>1, <1>2, <3>1
  <2> HIDE DEF played
  <2> QED BY <2>2, <2>3
<1>4. c.from \in Nat /\ c.late \in BOOLEAN /\ c.weekdays \in SUBSET (0..6)
  BY DEF PlanInv
<1>5. rounds \in Nat \ {0}
  BY <1>2, <1>3
<1> HIDE DEF c, rounds, N
<1>6. PICK w \in allowed : Walked(dates, 7 * rounds, first, rounds, allowed, w) /\ Len(dates) = rounds
  <2>1. Seasoned(first, rounds, WeekdaysOf(c.weekdays), dates)
    BY <1>4, <1>5, DaysOfASeason
  <2> HIDE DEF first, dates
  <2> QED BY <2>1, Zenon DEF Seasoned, WeekdaysOf
<1> HIDE DEF dates, allowed
<1>7. /\ dates \in Seq(Nat) /\ DOMAIN dates = 1..rounds /\ rounds \in 1..rounds
      /\ \A i \in 1..rounds : dates[i] \in Nat
  BY <1>5, <1>6 DEF Walked
<1>8. /\ \A i \in 1..rounds : first <= dates[i] /\ dates[i] < first + 7 * rounds /\ OpenOn(dates[i], allowed)
      /\ \A i, j \in 1..rounds : i < j => dates[i] < dates[j]
      /\ \A x \in Nat : first <= x /\ x < first + 7 * rounds /\ OpenOn(x, allowed)
                     => x > dates[rounds] \/ \E i \in 1..rounds : dates[i] = x
  BY <1>6, <1>7, Zenon DEF Walked
<1>9. first \in Nat /\ \A x \in Nat : first <= x <=> c.from <= x /\ (x > c.from \/ ~c.late)
  BY <1>4 DEF DraftPlan!firstDay
<1> HIDE DEF first
<1>10. ASSUME NEW k \in 1..rounds  PROVE dates[k] \in possible
  <2>1. dates[k] \in Nat /\ dates[rounds] \in Nat /\ first <= dates[k] /\ OpenOn(dates[k], allowed)
    BY <1>7, <1>8
  <2>2. dates[k] <= dates[rounds]
    <3>1. k < rounds \/ k = rounds
      BY <1>5
    <3> QED BY <1>7, <1>8, <2>1, <3>1
  <2>3. c.from <= dates[k] /\ (dates[k] > c.from \/ ~c.late)
    BY <1>9, <2>1
  <2> QED BY <1>4, <2>1, <2>2, <2>3 DEF OpenOn
<1>11. ASSUME NEW x \in possible  PROVE \E k \in 1..rounds : dates[k] = x
  <2>1. dates[rounds] \in Nat /\ dates[rounds] < first + 7 * rounds /\ 7 * rounds \in Nat
    BY <1>5, <1>7, <1>8
  <2>2. x \in Nat /\ c.from <= x /\ x <= dates[rounds] /\ OpenOn(x, allowed) /\ (x > c.from \/ ~c.late)
    BY <1>4, <1>7 DEF OpenOn
  <2>3. first <= x /\ x < first + 7 * rounds /\ ~(x > dates[rounds])
    BY <1>9, <2>1, <2>2
  <2> QED BY <1>8, <2>2, <2>3
<1>12. {dates[k] : k \in 1..rounds} = possible
  <2> HIDE DEF possible
  <2> QED BY <1>10, <1>11
<1>13. \A k \in 1 .. rounds - 1 : dates[k] < dates[k + 1]
  <2>1. \A k \in 1 .. rounds - 1 : k \in 1..rounds /\ k + 1 \in 1..rounds /\ k < k + 1
    BY <1>5
  <2> QED BY <1>8, <2>1
<1> QED BY <1>6, <1>12, <1>13, Zenon DEF DraftPlan!SeasonFitsTheCalendar, dates, rounds, c, allowed

\* What is asked of the plan of a draft, for every number of rosters and every calendar.
LEMMA PlanShows ==
  PlanInv => /\ DraftPlan!OrderIsFair /\ DraftPlan!EverybodyMeetsOnce
             /\ DraftPlan!SeasonFitsTheCalendar /\ DraftPlan!MinimumBidIsLeast
BY TheOrderIsFair, EverybodyMeets, TheSeasonFits, TheBidIsLeast
=============================================================================
