---------------------------- MODULE DraftRoomProofs -----------------------------
(* Theorems of DraftRoom: the squads and the picks of a draft, for every number of *)
(* rosters, players, people and requests in flight.  First the order of the picks  *)
(* (draft-order.ts), for any number of rosters and any size of the squads.         *)
EXTENDS DraftRoom, FiniteSetTheorems, TLAPS

LEMMA Division ==
  ASSUME NEW n \in Nat \ {0}, NEW m \in Int
  PROVE  /\ m \div n \in Int /\ m % n \in 0 .. n - 1
         /\ m = (m \div n) * n + (m % n)
OBVIOUS

LEMMA DivisionIsUnique ==
  ASSUME NEW n \in Nat \ {0}, NEW q \in Int, NEW j \in 0 .. n - 1
  PROVE  (q * n + j) \div n = q /\ (q * n + j) % n = j
OBVIOUS

\* What the remainder is up to one turn of the circle away.
LEMMA Residue ==
  ASSUME NEW n \in Nat \ {0}, NEW x \in Int, -n <= x, x < 2 * n
  PROVE  /\ x % n \in 0 .. n - 1
         /\ x % n = IF x < 0 THEN x + n ELSE IF x < n THEN x ELSE x - n
<1>1. CASE x < 0
  <2>1. x = (-1) * n + (x + n) /\ x + n \in 0 .. n - 1
    BY <1>1
  <2> QED
    BY <1>1, <2>1, DivisionIsUnique
<1>2. CASE 0 <= x /\ x < n
  BY <1>2
<1>3. CASE n <= x
  <2>1. x = 1 * n + (x - n) /\ x - n \in 0 .. n - 1
    BY <1>3
  <2> QED
    BY <1>3, <2>1, DivisionIsUnique
<1> QED
  BY <1>1, <1>2, <1>3
-----------------------------------------------------------------------------
(* The picks                                                                      *)

\* The pick of the roster with a given index in a given round, counted from 0.
PickOf(i, round, count, orderType) ==
  round * count + (IF orderType = "SNAKE" /\ (round + 1) % 2 = 0 THEN count - 1 - i ELSE i)

LEMMA PickOfCoordinate ==
  ASSUME NEW n \in Nat \ {0}, NEW i \in 0 .. n - 1, NEW round \in Nat, NEW type
  PROVE  LET at == pickCoordinate(PickOf(i, round, n, type), n, type) IN
         at.rosterIndex = i /\ at.round = round + 1
<1> DEFINE j == IF type = "SNAKE" /\ (round + 1) % 2 = 0 THEN n - 1 - i ELSE i
<1>1. j \in 0 .. n - 1
  OBVIOUS
<1> HIDE DEF j
<1>2. (round * n + j) \div n = round /\ (round * n + j) % n = j
  BY <1>1, DivisionIsUnique
<1>3. PickOf(i, round, n, type) = round * n + j
  BY DEF PickOf, j
<1> QED
  BY <1>2, <1>3 DEF pickCoordinate, j

LEMMA CoordinateOfPick ==
  ASSUME NEW n \in Nat \ {0}, NEW k \in Nat, NEW type
  PROVE  LET at == pickCoordinate(k, n, type) IN
         /\ at.rosterIndex \in 0 .. n - 1 /\ at.indexInRound \in 0 .. n - 1
         /\ k \div n \in Nat /\ at.round = (k \div n) + 1
         /\ PickOf(at.rosterIndex, k \div n, n, type) = k
<1> DEFINE q == k \div n
           j == k % n
<1>1. q \in Int /\ j \in 0 .. n - 1 /\ k = q * n + j
  BY Division
<1>2. q \in Nat
  OBVIOUS
<1> HIDE DEF q, j
<1> DEFINE i == IF type = "SNAKE" /\ (q + 1) % 2 = 0 THEN n - 1 - j ELSE j
<1>3. pickCoordinate(k, n, type) = [round |-> q + 1, indexInRound |-> j, rosterIndex |-> i]
  BY DEF pickCoordinate, q, j
<1>4. i \in 0 .. n - 1
  BY <1>1
<1>5. PickOf(i, q, n, type) = k
  BY <1>1, <1>2 DEF PickOf
<1> QED
  BY <1>1, <1>2, <1>3, <1>4, <1>5 DEF q

\* The picks of the roster with a given index: as many as there are rounds.
TurnsOf(i, count, size, orderType) ==
  {k \in 0 .. count * size - 1 : pickCoordinate(k, count, orderType).rosterIndex = i}

LEMMA EqualShares ==
  ASSUME NEW n \in Nat \ {0}, NEW size \in Nat, NEW i \in 0 .. n - 1, NEW type
  PROVE  IsFiniteSet(TurnsOf(i, n, size, type)) /\ Cardinality(TurnsOf(i, n, size, type)) = size
<1> DEFINE K == {k \in 0 .. n * size - 1 : pickCoordinate(k, n, type).rosterIndex = i}
           f == [round \in 0 .. size - 1 |-> PickOf(i, round, n, type)]
<1>1. ASSUME NEW round \in 0 .. size - 1
      PROVE  PickOf(i, round, n, type) \in 0 .. n * size - 1
  <2> DEFINE j == IF type = "SNAKE" /\ (round + 1) % 2 = 0 THEN n - 1 - i ELSE i
  <2>1. j \in 0 .. n - 1 /\ PickOf(i, round, n, type) = round * n + j
    BY DEF PickOf
  <2> HIDE DEF j
  <2>2. round * n >= 0 /\ (round + 1) * n <= size * n /\ (round + 1) * n = round * n + n
    OBVIOUS
  <2> QED
    BY <2>1, <2>2
<1>2. f \in [0 .. size - 1 -> K]
  BY <1>1, PickOfCoordinate
<1>3. \A r, s \in 0 .. size - 1 : f[r] = f[s] => r = s
  <2> SUFFICES ASSUME NEW r \in 0 .. size - 1, NEW s \in 0 .. size - 1, f[r] = f[s] PROVE r = s
    OBVIOUS
  <2>1. pickCoordinate(f[r], n, type).round = r + 1 /\ pickCoordinate(f[s], n, type).round = s + 1
    BY PickOfCoordinate
  <2> QED
    BY <2>1
<1>4. \A k \in K : \E r \in 0 .. size - 1 : f[r] = k
  <2> SUFFICES ASSUME NEW k \in 0 .. n * size - 1, pickCoordinate(k, n, type).rosterIndex = i
               PROVE  \E r \in 0 .. size - 1 : f[r] = k
    OBVIOUS
  <2>1. k \div n \in 0 .. size - 1
    OBVIOUS
  <2>2. PickOf(i, k \div n, n, type) = k
    BY CoordinateOfPick
  <2> QED
    BY <2>1, <2>2
<1> HIDE DEF f, K
<1>5. f \in Bijection(0 .. size - 1, K)
  BY <1>2, <1>3, <1>4 DEF Bijection, Injection, Surjection, IsInjective
<1>6. IsFiniteSet(0 .. size - 1) /\ Cardinality(0 .. size - 1) = size
  BY FS_Interval
<1> QED
  BY <1>5, <1>6, FS_Bijection DEF ExistsBijection, K, TurnsOf
-----------------------------------------------------------------------------
(* The circle method.  Seats are numbered from 0 to Places - 1; with an odd       *)
(* number of teams the last seat is the bye.                                      *)

Seat(last, round, place) == IF place = 0 THEN 0 ELSE 1 + ((place - 1 - round) % last)

LEMMA PlacesAreEven ==
  ASSUME NEW n \in Nat, n >= 2
  PROVE  \E h \in Nat : /\ Places(n) = 2 * h + 2 /\ Places(n) \div 2 = h + 1
                        /\ n \in {2 * h + 1, 2 * h + 2}
<1>1. CASE n % 2 = 1
  <2>1. n = 2 * (n \div 2) + 1 /\ n \div 2 \in Nat
    BY <1>1
  <2> DEFINE h == n \div 2
  <2>2. Places(n) = 2 * h + 2
    BY <1>1, <2>1 DEF Places
  <2> HIDE DEF h
  <2>3. h \in Nat /\ (2 * h + 2) \div 2 = h + 1
    BY <2>1 DEF h
  <2> QED
    BY <2>1, <2>2, <2>3 DEF h
<1>2. CASE n % 2 = 0
  <2>1. n = 2 * (n \div 2) /\ n \div 2 \in Nat /\ n \div 2 >= 1
    BY <1>2
  <2> DEFINE h == (n \div 2) - 1
  <2>2. Places(n) = 2 * h + 2
    BY <1>2, <2>1 DEF Places
  <2>3. h \in Nat
    BY <2>1
  <2> HIDE DEF h
  <2>4. (2 * h + 2) \div 2 = h + 1
    BY <2>3
  <2> QED
    BY <2>1, <2>2, <2>3, <2>4 DEF h
<1> QED
  BY <1>1, <1>2

LEMMA SeatValue ==
  ASSUME NEW M \in Nat \ {0}, NEW round \in 0 .. M - 1, NEW place \in 0 .. M
  PROVE  /\ Seat(M, round, place) \in 0 .. M
         /\ place = 0 => Seat(M, round, place) = 0
         /\ place # 0 =>
              Seat(M, round, place) = IF place <= round THEN place - round + M ELSE place - round
<1>1. CASE place # 0
  <2> DEFINE x == place - 1 - round
  <2>1. x \in Int /\ -M <= x /\ x < M /\ x < 2 * M
    BY <1>1
  <2> HIDE DEF x
  <2>2. x % M = IF x < 0 THEN x + M ELSE x
    BY <2>1, Residue
  <2>3. Seat(M, round, place) = 1 + (x % M)
    BY <1>1 DEF Seat, x
  <2> QED
    BY <1>1, <2>2, <2>3 DEF x
<1> QED
  BY <1>1 DEF Seat

\* The two seats of a pair, in either order.
Meet(M, round, pair, i, j) ==
  \/ Seat(M, round, pair) = i /\ Seat(M, round, M - pair) = j
  \/ Seat(M, round, pair) = j /\ Seat(M, round, M - pair) = i

LEMMA SeatsMeet ==
  ASSUME NEW h \in Nat, NEW M, M = 2 * h + 1, NEW i \in 0 .. M, NEW j \in 0 .. M, i # j
  PROVE  \E round \in 0 .. M - 1, pair \in 0 .. h : Meet(M, round, pair, i, j)
<1>1. M \in Nat \ {0}
  OBVIOUS
<1>2. ASSUME NEW b \in 1 .. M
      PROVE  \E round \in 0 .. M - 1, pair \in 0 .. h : Meet(M, round, pair, 0, b)
  <2>1. M - b \in 0 .. M - 1 /\ 0 \in 0 .. h /\ M \in 0 .. M /\ M # 0
    BY <1>1
  <2>2. Seat(M, M - b, 0) = 0
    BY DEF Seat
  <2>3. Seat(M, M - b, M) = IF M <= M - b THEN M - (M - b) + M ELSE M - (M - b)
    BY <1>1, <2>1, SeatValue
  <2>4. Seat(M, M - b, M - 0) = b
    BY <1>1, <2>1, <2>3
  <2> QED
    BY <2>1, <2>2, <2>4 DEF Meet
<1>3. ASSUME NEW a \in 1 .. M, NEW b \in 1 .. M, a # b
      PROVE  \E round \in 0 .. M - 1, pair \in 0 .. h : Meet(M, round, pair, a, b)
  <2>1. \E round \in 0 .. M - 1 : \E c \in {1, 2, 3} : a + b + 2 * round = c * M
    <3>1. CASE (a + b) % 2 = 0
      <4>1. (a + b) \div 2 \in 1 .. M /\ a + b = 2 * ((a + b) \div 2)
        BY <3>1, <1>3
      <4>2. M - ((a + b) \div 2) \in 0 .. M - 1 /\ a + b + 2 * (M - ((a + b) \div 2)) = 2 * M
        BY <4>1
      <4> QED
        BY <4>2
    <3>2. CASE (a + b) % 2 = 1
      <4>1. a + b = 2 * ((a + b) \div 2) + 1 /\ (a + b) \div 2 \in 1 .. M - 1
        BY <3>2, <1>3
      <4> DEFINE s == (a + b) \div 2
      <4>2. CASE s <= h
        <5>1. h - s \in 0 .. M - 1 /\ a + b + 2 * (h - s) = 1 * M
          BY <4>1, <4>2
        <5> QED
          BY <5>1
      <4>3. CASE s > h
        <5>1. h + M - s \in 0 .. M - 1 /\ a + b + 2 * (h + M - s) = 3 * M
          BY <4>1, <4>3
        <5> QED
          BY <5>1
      <4> QED
        BY <4>1, <4>2, <4>3
    <3> QED
      BY <1>3, <3>1, <3>2
  <2>2. PICK round \in 0 .. M - 1, c \in {1, 2, 3} : a + b + 2 * round = c * M
    BY <2>1
  <2> DEFINE At(x) == IF x + round <= M THEN x + round ELSE x + round - M
  <2>3. ASSUME NEW x \in 1 .. M
        PROVE  At(x) \in 1 .. M /\ Seat(M, round, At(x)) = x
    <3>1. At(x) \in 1 .. M /\ At(x) # 0 /\ At(x) \in 0 .. M
      BY <1>1
    <3>2. \A p \in 0 .. M : p # 0 => Seat(M, round, p) = IF p <= round THEN p - round + M ELSE p - round
      BY <1>1, SeatValue
    <3> QED
      BY <1>1, <3>1, <3>2
  <2>4. At(a) + At(b) = M
    BY <1>3, <2>2
  <2>5. At(a) \in 1 .. M /\ At(b) \in 1 .. M /\ Seat(M, round, At(a)) = a /\ Seat(M, round, At(b)) = b
    BY <1>3, <2>3
  <2> HIDE DEF At
  <2>6. CASE At(a) <= h
    <3>1. At(a) \in 0 .. h /\ M - At(a) = At(b)
      BY <2>4, <2>5, <2>6
    <3>2. Meet(M, round, At(a), a, b)
      BY <2>5, <3>1 DEF Meet
    <3> QED
      BY <3>1, <3>2
  <2>7. CASE At(a) > h
    <3>1. At(b) \in 0 .. h /\ M - At(b) = At(a)
      BY <2>4, <2>5, <2>7
    <3>2. Meet(M, round, At(b), a, b)
      BY <2>5, <3>1 DEF Meet
    <3> QED
      BY <3>1, <3>2
  <2> QED
    BY <2>5, <2>6, <2>7
<1>4. CASE i = 0 \/ j = 0
  <2>1. PICK b \in 1 .. M : {i, j} = {0, b} /\ ((i = 0 /\ j = b) \/ (i = b /\ j = 0))
    BY <1>1, <1>4
  <2> QED
    BY <1>2, <2>1 DEF Meet
<1>5. CASE i # 0 /\ j # 0
  BY <1>1, <1>3, <1>5
<1> QED
  BY <1>4, <1>5

LEMMA SeatIsTakenOnce ==
  ASSUME NEW M \in Nat \ {0}, NEW round \in 0 .. M - 1, NEW p \in 0 .. M, NEW q \in 0 .. M,
         Seat(M, round, p) = Seat(M, round, q)
  PROVE  p = q
<1> DEFINE A == Seat(M, round, p)
           B == Seat(M, round, q)
<1>1. /\ p = 0 => A = 0
      /\ p # 0 => A = IF p <= round THEN p - round + M ELSE p - round
  BY SeatValue
<1>2. /\ q = 0 => B = 0
      /\ q # 0 => B = IF q <= round THEN q - round + M ELSE q - round
  BY SeatValue
<1>3. A = B
  OBVIOUS
<1> HIDE DEF A, B
<1> QED
  BY <1>1, <1>2, <1>3

LEMMA SeatsMeetOnce ==
  ASSUME NEW h \in Nat, NEW M, M = 2 * h + 1, NEW i, NEW j,
         NEW r \in 0 .. M - 1, NEW p \in 0 .. h, Meet(M, r, p, i, j),
         NEW s \in 0 .. M - 1, NEW q \in 0 .. h, Meet(M, s, q, i, j)
  PROVE  r = s /\ p = q
<1>1. /\ p \in 0 .. M /\ M - p \in 0 .. M /\ q \in 0 .. M /\ M - q \in 0 .. M
      /\ M - p # 0 /\ M - q # 0 /\ M \in Nat \ {0}
  OBVIOUS
<1> DEFINE A == Seat(M, r, p)
           B == Seat(M, r, M - p)
           C == Seat(M, s, q)
           D == Seat(M, s, M - q)
<1>2. /\ A \in 0 .. M /\ (p = 0 => A = 0)
      /\ p # 0 => A = IF p <= r THEN p - r + M ELSE p - r
  BY <1>1, SeatValue
<1>3. B \in 0 .. M /\ B = IF M - p <= r THEN M - p - r + M ELSE M - p - r
  BY <1>1, SeatValue
<1>4. /\ C \in 0 .. M /\ (q = 0 => C = 0)
      /\ q # 0 => C = IF q <= s THEN q - s + M ELSE q - s
  BY <1>1, SeatValue
<1>5. D \in 0 .. M /\ D = IF M - q <= s THEN M - q - s + M ELSE M - q - s
  BY <1>1, SeatValue
<1>6. (A = C /\ B = D) \/ (A = D /\ B = C)
  BY DEF Meet
<1> HIDE DEF A, B, C, D
<1>7. p = 0 <=> q = 0
  BY <1>1, <1>2, <1>3, <1>4, <1>5, <1>6
<1>8. CASE p = 0
  BY <1>1, <1>2, <1>3, <1>4, <1>5, <1>6, <1>7, <1>8
<1>9. CASE p # 0
  <2>1. A + B = C + D
    BY <1>2, <1>3, <1>4, <1>5, <1>6
  <2>2. r = s
    BY <1>2, <1>3, <1>4, <1>5, <1>7, <1>9, <2>1
  <2> QED
    BY <1>2, <1>3, <1>4, <1>5, <1>6, <1>7, <1>9, <2>2
<1> QED
  BY <1>8, <1>9

-----------------------------------------------------------------------------
(* The fixtures                                                                   *)

\* Seats are lined up, the last one being the bye when the teams are odd.
LEMMA LineupIsASeat ==
  ASSUME NEW n \in Nat, n >= 2, NEW M, M = Places(n) - 1,
         NEW round \in 0 .. M - 1, NEW place \in 0 .. M
  PROVE  lineup(n, round, place) = IF Seat(M, round, place) < n THEN Seat(M, round, place) ELSE Bye
BY DEF lineup, Seat, IndexAt

Home(M, round, pair) == IF round % 2 = 1 THEN Seat(M, round, M - pair) ELSE Seat(M, round, pair)
Away(M, round, pair) == IF round % 2 = 1 THEN Seat(M, round, pair) ELSE Seat(M, round, M - pair)

LEMMA FixturesAreSeats ==
  ASSUME NEW n \in Nat, n >= 2, NEW h \in Nat, NEW M, M = 2 * h + 1,
         Places(n) = 2 * h + 2, Places(n) \div 2 = h + 1, NEW f
  PROVE  f \in roundRobinPairs(n) <=>
           \E round \in 0 .. M - 1, pair \in 0 .. h :
             /\ f = [round |-> round + 1, home |-> Home(M, round, pair), away |-> Away(M, round, pair)]
             /\ Home(M, round, pair) \in 0 .. n - 1 /\ Away(M, round, pair) \in 0 .. n - 1
<1>1. M = Places(n) - 1 /\ M \in Nat \ {0} /\ Places(n) - 2 = M - 1 /\ Places(n) \div 2 - 1 = h
  OBVIOUS
<1> DEFINE First(round, pair)  == lineup(n, round, pair)
           Second(round, pair) == lineup(n, round, Places(n) - 1 - pair)
           Fixture(round, pair) ==
             [round |-> round + 1,
              home  |-> IF round % 2 = 1 THEN Second(round, pair) ELSE First(round, pair),
              away  |-> IF round % 2 = 1 THEN First(round, pair) ELSE Second(round, pair)]
<1>2. roundRobinPairs(n) = {g \in {Fixture(round, pair) : round \in 0 .. M - 1, pair \in 0 .. h} :
                              g.home # Bye /\ g.away # Bye}
  BY <1>1 DEF roundRobinPairs
<1>3. ASSUME NEW round \in 0 .. M - 1, NEW pair \in 0 .. h
      PROVE  LET a == Seat(M, round, pair)
                 b == Seat(M, round, M - pair)
             IN /\ a \in 0 .. M /\ b \in 0 .. M
                /\ First(round, pair) = (IF a < n THEN a ELSE Bye)
                /\ Second(round, pair) = (IF b < n THEN b ELSE Bye)
  <2>1. pair \in 0 .. M /\ M - pair \in 0 .. M /\ Places(n) - 1 - pair = M - pair
    BY <1>1
  <2>2. First(round, pair) = IF Seat(M, round, pair) < n THEN Seat(M, round, pair) ELSE Bye
    BY <1>1, <2>1, LineupIsASeat
  <2>3. Second(round, pair) = IF Seat(M, round, M - pair) < n THEN Seat(M, round, M - pair) ELSE Bye
    BY <1>1, <2>1, LineupIsASeat
  <2>4. Seat(M, round, pair) \in 0 .. M /\ Seat(M, round, M - pair) \in 0 .. M
    BY <1>1, <2>1, SeatValue
  <2> QED
    BY <2>2, <2>3, <2>4
<1> HIDE DEF First, Second
<1>4. ASSUME NEW round \in 0 .. M - 1, NEW pair \in 0 .. h
      PROVE  /\ Fixture(round, pair).home # Bye /\ Fixture(round, pair).away # Bye <=>
                Home(M, round, pair) \in 0 .. n - 1 /\ Away(M, round, pair) \in 0 .. n - 1
             /\ Fixture(round, pair).home # Bye /\ Fixture(round, pair).away # Bye =>
                Fixture(round, pair) =
                  [round |-> round + 1, home |-> Home(M, round, pair), away |-> Away(M, round, pair)]
  <2> DEFINE a == Seat(M, round, pair)
             b == Seat(M, round, M - pair)
  <2>1. /\ a \in 0 .. M /\ b \in 0 .. M
        /\ First(round, pair) = (IF a < n THEN a ELSE Bye)
        /\ Second(round, pair) = (IF b < n THEN b ELSE Bye)
    BY <1>3
  <2>2. /\ Home(M, round, pair) = (IF round % 2 = 1 THEN b ELSE a)
        /\ Away(M, round, pair) = (IF round % 2 = 1 THEN a ELSE b)
    BY DEF Home, Away
  <2>3. /\ Fixture(round, pair).home =
             (IF round % 2 = 1 THEN Second(round, pair) ELSE First(round, pair))
        /\ Fixture(round, pair).away =
             (IF round % 2 = 1 THEN First(round, pair) ELSE Second(round, pair))
        /\ Fixture(round, pair) = [round |-> round + 1, home |-> Fixture(round, pair).home,
                                   away |-> Fixture(round, pair).away]
    OBVIOUS
  <2> HIDE DEF a, b, Fixture
  <2>4. First(round, pair) # Bye <=> a \in 0 .. n - 1
    BY <1>1, <2>1 DEF Bye
  <2>5. Second(round, pair) # Bye <=> b \in 0 .. n - 1
    BY <1>1, <2>1 DEF Bye
  <2>6. /\ First(round, pair) # Bye => First(round, pair) = a
        /\ Second(round, pair) # Bye => Second(round, pair) = b
    BY <2>1
  <2>7. CASE round % 2 = 1
    BY <2>2, <2>3, <2>4, <2>5, <2>6, <2>7
  <2>8. CASE round % 2 # 1
    BY <2>2, <2>3, <2>4, <2>5, <2>6, <2>8
  <2> QED
    BY <2>7, <2>8
<1> HIDE DEF Fixture
<1>5. ASSUME f \in roundRobinPairs(n)
      PROVE  \E round \in 0 .. M - 1, pair \in 0 .. h :
             /\ f = [round |-> round + 1, home |-> Home(M, round, pair), away |-> Away(M, round, pair)]
             /\ Home(M, round, pair) \in 0 .. n - 1 /\ Away(M, round, pair) \in 0 .. n - 1
  <2>1. PICK round \in 0 .. M - 1, pair \in 0 .. h :
          f = Fixture(round, pair) /\ f.home # Bye /\ f.away # Bye
    BY <1>2, <1>5
  <2> QED
    BY <1>4, <2>1
<1>6. ASSUME NEW round \in 0 .. M - 1, NEW pair \in 0 .. h,
             f = [round |-> round + 1, home |-> Home(M, round, pair), away |-> Away(M, round, pair)],
             Home(M, round, pair) \in 0 .. n - 1, Away(M, round, pair) \in 0 .. n - 1
      PROVE  f \in roundRobinPairs(n)
  <2>1. f = Fixture(round, pair) /\ f.home # Bye /\ f.away # Bye
    BY <1>4, <1>6
  <2> QED
    BY <1>2, <2>1
<1> QED
  BY <1>5, <1>6

\* Every two teams have one fixture.
LEMMA TeamsMeetOnce ==
  ASSUME NEW n \in Nat, n >= 2, NEW i \in 0 .. n - 1, NEW j \in 0 .. n - 1, i # j
  PROVE  \E f \in roundRobinPairs(n) :
           \A g \in roundRobinPairs(n) : {g.home, g.away} = {i, j} <=> g = f
<1>1. PICK h \in Nat : Places(n) = 2 * h + 2 /\ Places(n) \div 2 = h + 1
                       /\ n \in {2 * h + 1, 2 * h + 2}
  BY PlacesAreEven
<1> DEFINE M == 2 * h + 1
           Game(round, pair) ==
             [round |-> round + 1, home |-> Home(M, round, pair), away |-> Away(M, round, pair)]
<1>2. i \in 0 .. M /\ j \in 0 .. M
  BY <1>1
<1> HIDE DEF M
<1>3. M = 2 * h + 1
  BY DEF M
<1>4. PICK r \in 0 .. M - 1, p \in 0 .. h : Meet(M, r, p, i, j)
  BY <1>2, <1>3, SeatsMeet
<1>5. {Home(M, r, p), Away(M, r, p)} = {i, j}
  BY <1>4 DEF Home, Away, Meet
<1>6. Game(r, p) \in roundRobinPairs(n)
  <2>1. Home(M, r, p) \in 0 .. n - 1 /\ Away(M, r, p) \in 0 .. n - 1
    BY <1>5
  <2> QED
    BY <1>1, <1>3, <2>1, FixturesAreSeats
<1>7. ASSUME NEW g \in roundRobinPairs(n), {g.home, g.away} = {i, j} PROVE g = Game(r, p)
  <2>1. PICK s \in 0 .. M - 1, q \in 0 .. h : g = Game(s, q)
    BY <1>1, <1>3, FixturesAreSeats
  <2>2. {Home(M, s, q), Away(M, s, q)} = {i, j}
    BY <1>7, <2>1
  <2>3. Meet(M, s, q, i, j)
    BY <2>2 DEF Home, Away, Meet
  <2>4. s = r /\ q = p
    BY <1>3, <1>4, <2>3, SeatsMeetOnce
  <2> QED
    BY <2>1, <2>4
<1>8. {Game(r, p).home, Game(r, p).away} = {i, j}
  BY <1>5
<1> HIDE DEF Game
<1> QED
  BY <1>6, <1>7, <1>8

\* Nobody plays twice in a round.
LEMMA TeamsPlayOncePerRound ==
  ASSUME NEW n \in Nat, n >= 2, NEW f \in roundRobinPairs(n), NEW g \in roundRobinPairs(n),
         NEW i, i \in {f.home, f.away}, i \in {g.home, g.away}, f.round = g.round
  PROVE  f = g
<1>1. PICK h \in Nat : Places(n) = 2 * h + 2 /\ Places(n) \div 2 = h + 1
  BY PlacesAreEven
<1> DEFINE M == 2 * h + 1
           Game(round, pair) ==
             [round |-> round + 1, home |-> Home(M, round, pair), away |-> Away(M, round, pair)]
<1> HIDE DEF M
<1>2. M = 2 * h + 1 /\ M \in Nat \ {0}
  BY DEF M
<1>3. PICK r \in 0 .. M - 1, p \in 0 .. h : f = Game(r, p)
  BY <1>1, <1>2, FixturesAreSeats
<1>4. PICK s \in 0 .. M - 1, q \in 0 .. h : g = Game(s, q)
  BY <1>1, <1>2, FixturesAreSeats
<1>5. r = s
  BY <1>3, <1>4
<1>6. PICK x \in {p, M - p} : Seat(M, r, x) = i
  BY <1>3 DEF Home, Away
<1>7. PICK y \in {q, M - q} : Seat(M, r, y) = i
  BY <1>4, <1>5 DEF Home, Away
<1>8. x \in 0 .. M /\ y \in 0 .. M
  BY <1>2, <1>6, <1>7
<1>9. x = y
  BY <1>2, <1>6, <1>7, <1>8, SeatIsTakenOnce
<1>10. p = q
  BY <1>2, <1>6, <1>7, <1>9
<1> QED
  BY <1>3, <1>4, <1>5, <1>10

LEMMA FixturesAreTyped ==
  ASSUME NEW n \in Nat, n >= 2, NEW f \in roundRobinPairs(n)
  PROVE  /\ f.home \in 0 .. n - 1 /\ f.away \in 0 .. n - 1 /\ f.round \in Nat
         /\ f = [round |-> f.round, home |-> f.home, away |-> f.away]
<1>1. PICK h \in Nat : Places(n) = 2 * h + 2 /\ Places(n) \div 2 = h + 1
  BY PlacesAreEven
<1> DEFINE M == 2 * h + 1
<1> HIDE DEF M
<1>2. M = 2 * h + 1 /\ M \in Nat \ {0}
  BY DEF M
<1>3. PICK r \in 0 .. M - 1, p \in 0 .. h :
        /\ f = [round |-> r + 1, home |-> Home(M, r, p), away |-> Away(M, r, p)]
        /\ Home(M, r, p) \in 0 .. n - 1 /\ Away(M, r, p) \in 0 .. n - 1
  BY <1>1, <1>2, FixturesAreSeats
<1> QED
  BY <1>3
-----------------------------------------------------------------------------
(* The room.                                                                   *)

\* The columns the picks and the squads depend on.
RowsTyped ==
  /\ rosters \in [Rosters -> RosterRow]
  /\ owner \in [Players -> Rosters \cup {None, "gone"}]
  /\ picks \subseteq PickRow /\ currentPickNumber \in Nat
  /\ req \in [Workers -> Request]

LEMMA InLeagueCounts ==
  /\ IsFiniteSet(InLeague) /\ InLeague \subseteq Rosters
  /\ rosterCount \in Nat /\ totalPicks \in Nat
<1>1. InLeague \subseteq Rosters /\ IsFiniteSet(Rosters)
  BY RoomAssumption DEF InLeague
<1>2. IsFiniteSet(InLeague) /\ Cardinality(InLeague) \in Nat
  BY <1>1, FS_Subset, FS_CardinalityType
<1> QED
  BY <1>1, <1>2, RoomAssumption DEF rosterCount, totalPicks

LEMMA TurnInLeague ==
  /\ \A i : AtIndex(i) \subseteq InLeague
  /\ onTheClock \subseteq InLeague
  /\ \A n : Turn(n) \subseteq InLeague
BY DEF AtIndex, Turn, onTheClock

LEMMA InFlight ==
  ASSUME RowsTyped, NEW w \in Workers
  PROVE  /\ Serving(w, "join") => req[w].user \in Users /\ req[w].target \in Rosters \cup {None}
                                  /\ req[w].count \in Nat
         /\ Serving(w, "addVacant") => req[w].count \in Nat
         /\ Serving(w, "leave") => req[w].roster \in Rosters
         /\ Serving(w, "ready") => req[w].roster \in Rosters /\ req[w].flag \in BOOLEAN
         /\ Serving(w, "open") => req[w].rosters \subseteq Rosters
         /\ Serving(w, "pick") => req[w].number \in Nat /\ req[w].roster \in Rosters
                                  /\ req[w].player \in Players /\ req[w].total \in Nat
         /\ Serving(w, "removePlayer") => req[w].player \in Players
BY DEF RowsTyped, Serving, Request, Idle

LEMMA OpenTyped == OpenRequest \in Request
BY InLeagueCounts DEF OpenRequest, Request

LEMMA PickTyped ==
  ASSUME currentPickNumber \in Nat, NEW r \in InLeague, NEW p \in Players
  PROVE  PickRequest(r, p) \in Request
BY InLeagueCounts DEF PickRequest, Request

LEMMA CheckFills ==
  ASSUME RowsTyped, NEW w \in Workers, Check(w)
  PROVE  \E q \in Request : Receive(w, q)
<1> USE InLeagueCounts, TurnInLeague
<1>1. CASE joinCheck(w)
  <2>1. PICK u \in Users, target \in Vacant \cup {None} :
          Receive(w, [op |-> "join", user |-> u, target |-> target, count |-> rosterCount])
    BY <1>1 DEF joinCheck
  <2>2. [op |-> "join", user |-> u, target |-> target, count |-> rosterCount] \in Request
    BY DEF Request, Vacant
  <2> QED
    BY <2>1, <2>2
<1>2. CASE addVacantRostersCheck(w)
  <2>1. [op |-> "addVacant", count |-> rosterCount] \in Request
    BY DEF Request
  <2> QED
    BY <1>2, <2>1 DEF addVacantRostersCheck
<1>3. CASE leaveCheck(w)
  <2>1. PICK r \in Rosters : Receive(w, [op |-> "leave", roster |-> r])
    BY <1>3 DEF leaveCheck, Owned
  <2>2. [op |-> "leave", roster |-> r] \in Request
    BY DEF Request
  <2> QED
    BY <2>1, <2>2
<1>4. CASE setReadyCheck(w)
  <2>1. PICK r \in Rosters, flag \in BOOLEAN : Receive(w, [op |-> "ready", roster |-> r, flag |-> flag])
    BY <1>4 DEF setReadyCheck, Owned
  <2>2. [op |-> "ready", roster |-> r, flag |-> flag] \in Request
    BY DEF Request
  <2> QED
    BY <2>1, <2>2
<1>5. CASE openScheduledCheck(w) \/ startDraftCheck(w)
  BY <1>5, OpenTyped DEF openScheduledCheck, startDraftCheck
<1>6. CASE pickCheck(w) \/ autoPickCheck(w)
  <2>1. PICK r \in InLeague, p \in Players : Receive(w, PickRequest(r, p))
    BY <1>6 DEF pickCheck, autoPickCheck, Pool
  <2> QED
    BY <2>1, PickTyped DEF RowsTyped
<1>7. CASE removePlayerCheck(w)
  <2>1. PICK p \in Players : Receive(w, [op |-> "removePlayer", player |-> p])
    BY <1>7 DEF removePlayerCheck, Pool
  <2>2. [op |-> "removePlayer", player |-> p] \in Request
    BY DEF Request
  <2> QED
    BY <2>1, <2>2
<1> QED
  BY <1>1, <1>2, <1>3, <1>4, <1>5, <1>6, <1>7 DEF Check

LEMMA CommitKeepsRows ==
  ASSUME RowsTyped, NEW w \in Workers, Commit(w)
  PROVE  RowsTyped'
<1> USE DEF RowsTyped
<1> DEFINE Freed == req' \in [Workers -> Request]
<1>1. Reply(w) => Freed
  BY DEF Reply, Request
<1>2. CASE joinCommit(w)
  <2>1. Reply(w) /\ UNCHANGED <<owner, picks, currentPickNumber>>
    BY <1>2 DEF joinCommit, room
  <2>2. req[w].user \in Users /\ req[w].count \in Nat
    BY <1>2, InFlight DEF joinCommit
  <2>3. rosters' \in [Rosters -> RosterRow]
    <3>1. CASE req[w].target # None
      BY <1>2, <2>2, <3>1 DEF joinCommit, RosterRow
    <3>2. CASE req[w].target = None
      <4> DEFINE new == [state |-> "row", user |-> req[w].user, draftOrder |-> req[w].count + 1,
                         ready |-> FALSE]
      <4>1. new \in RosterRow
        BY <2>2 DEF RosterRow
      <4>2. PICK r \in Rosters : rosters' = [rosters EXCEPT ![r] = new]
        BY <1>2, <3>2 DEF joinCommit
      <4> QED
        BY <4>1, <4>2
    <3> QED
      BY <3>1, <3>2
  <2> QED
    BY <1>1, <2>1, <2>3
<1>3. CASE addVacantRostersCommit(w)
  <2>1. Reply(w) /\ UNCHANGED <<owner, picks, currentPickNumber>>
    BY <1>3 DEF addVacantRostersCommit, room
  <2>2. req[w].count \in Nat
    BY <1>3, InFlight DEF addVacantRostersCommit
  <2> DEFINE new == [state |-> "row", user |-> None, draftOrder |-> req[w].count + 1,
                     ready |-> FALSE]
  <2>3. new \in RosterRow
    BY <2>2 DEF RosterRow
  <2>4. PICK r \in Rosters : rosters' = [rosters EXCEPT ![r] = new]
    BY <1>3 DEF addVacantRostersCommit, NoRoster
  <2> QED
    BY <1>1, <2>1, <2>3, <2>4
<1>4. CASE leaveCommit(w)
  <2>1. Reply(w) /\ picks' \subseteq picks /\ currentPickNumber' = currentPickNumber
    BY <1>4 DEF leaveCommit
  <2>2. rosters' \in [Rosters -> RosterRow]
    BY <1>4 DEF leaveCommit, RosterRow, NoRoster
  <2>3. owner' \in [Players -> Rosters \cup {None, "gone"}]
    BY <1>4 DEF leaveCommit
  <2> QED
    BY <1>1, <2>1, <2>2, <2>3
<1>5. CASE setReadyCommit(w)
  <2>1. UNCHANGED <<owner, picks, currentPickNumber>> /\ req' = [req EXCEPT ![w] = [op |-> "look"]]
    BY <1>5 DEF setReadyCommit, room
  <2>2. req[w].flag \in BOOLEAN
    BY <1>5, InFlight DEF setReadyCommit
  <2>3. rosters' \in [Rosters -> RosterRow]
    BY <1>5, <2>2 DEF setReadyCommit, RosterRow
  <2> QED
    BY <2>1, <2>3 DEF Request
<1>6. CASE lookAtRoom(w)
  <2>1. UNCHANGED <<rosters, owner, picks, currentPickNumber>>
    BY <1>6 DEF lookAtRoom, room
  <2>2. Idle \in Request /\ OpenRequest \in Request
    BY OpenTyped DEF Request
  <2> QED
    BY <1>6, <2>1, <2>2 DEF lookAtRoom
<1>7. CASE openDraftCommit(w)
  <2>1. Reply(w) /\ UNCHANGED <<owner, picks>> /\ currentPickNumber' = 0
    BY <1>7 DEF openDraftCommit
  <2> DEFINE n == Cardinality(req[w].rosters)
  <2>2. PICK order \in [req[w].rosters -> 1 .. n] :
          rosters' = [r \in Rosters |-> IF r \in req[w].rosters
                        THEN [rosters[r] EXCEPT !.draftOrder = order[r], !.ready = FALSE]
                        ELSE rosters[r]]
    BY <1>7 DEF openDraftCommit
  <2>3. \A r \in req[w].rosters : order[r] \in Nat
    <3>1. 1 .. n \subseteq Nat
      OBVIOUS
    <3> QED
      BY <3>1
  <2>4. rosters' \in [Rosters -> RosterRow]
    BY <2>2, <2>3 DEF RosterRow
  <2> QED
    BY <1>1, <2>1, <2>4
<1>8. CASE pickCommit(w)
  <2> DEFINE q == req[w]
  <2>1. q.number \in Nat /\ q.roster \in Rosters /\ q.player \in Players
    BY <1>8, InFlight DEF pickCommit
  <2>2. /\ Reply(w) /\ rosters' = rosters /\ currentPickNumber' = q.number + 1
        /\ picks' = picks \cup {[number |-> q.number, roster |-> q.roster, player |-> q.player]}
        /\ owner' = [owner EXCEPT ![q.player] = q.roster]
    BY <1>8 DEF pickCommit
  <2> QED
    BY <1>1, <2>1, <2>2 DEF PickRow
<1>9. CASE removePlayerCommit(w)
  <2>1. /\ Reply(w) /\ picks' \subseteq picks /\ UNCHANGED <<rosters, currentPickNumber>>
        /\ owner' = [owner EXCEPT ![req[w].player] = "gone"]
    BY <1>9 DEF removePlayerCommit
  <2> QED
    BY <1>1, <2>1
<1> QED
  BY <1>2, <1>3, <1>4, <1>5, <1>6, <1>7, <1>8, <1>9 DEF Commit

LEMMA StepKeepsRows ==
  ASSUME RowsTyped, [Next]_vars
  PROVE  RowsTyped'
<1>1. CASE \E w \in Workers : Check(w)
  <2>1. PICK w \in Workers, q \in Request : Receive(w, q)
    BY <1>1, CheckFills
  <2> QED
    BY <2>1 DEF Receive, RowsTyped, room
<1>2. CASE \E w \in Workers : Commit(w)
  BY <1>2, CommitKeepsRows
<1>3. CASE \E w \in Workers : rollback(w)
  BY <1>3 DEF rollback, Reply, RowsTyped, room, Request
<1>4. CASE startsNow \/ deadlinePasses \/ UNCHANGED vars
  BY <1>4 DEF startsNow, deadlinePasses, RowsTyped, room, vars
<1> QED
  BY <1>1, <1>2, <1>3, <1>4 DEF Next
-----------------------------------------------------------------------------
LEMMA CommitKeepsSquads ==
  ASSUME RowsTyped, SquadsAreTheirPicks, NEW w \in Workers, Commit(w)
  PROVE  SquadsAreTheirPicks'
<1> USE RoomAssumption
<1>1. CASE leaveCommit(w)
  <2> DEFINE gone == req[w].roster
  <2>1. /\ gone \in Rosters
        /\ owner' = [p \in Players |-> IF owner[p] = gone THEN None ELSE owner[p]]
        /\ picks' = {k \in picks : k.roster # gone}
        /\ rosters' = [rosters EXCEPT ![gone] = [NoRoster EXCEPT !.state = "deleted"]]
    BY <1>1, InFlight DEF leaveCommit
  <2>2. \A r \in Rosters, p \in Players :
          owner'[p] = r <=> \E k \in picks' : k.roster = r /\ k.player = p
    BY <2>1 DEF SquadsAreTheirPicks
  <2>3. \A k \in picks' : k.roster \in InLeague'
    BY <2>1 DEF SquadsAreTheirPicks, InLeague, RowsTyped, PickRow
  <2> QED
    BY <2>1, <2>2, <2>3 DEF SquadsAreTheirPicks
<1>2. CASE pickCommit(w)
  <2> DEFINE q == req[w]
             new == [number |-> q.number, roster |-> q.roster, player |-> q.player]
  <2>1. /\ q.roster \in InLeague /\ q.player \in Players /\ q.roster \in Rosters
        /\ \A k \in picks : k.number # q.number /\ k.player # q.player
        /\ picks' = picks \cup {new}
        /\ owner' = [owner EXCEPT ![q.player] = q.roster] /\ rosters' = rosters
    BY <1>2, InFlight DEF pickCommit, pickRowFits, InLeague
  <2>2. ASSUME NEW r \in Rosters, NEW p \in Players
        PROVE  owner'[p] = r <=> \E k \in picks' : k.roster = r /\ k.player = p
    <3>1. new.roster = q.roster /\ new.player = q.player
      OBVIOUS
    <3> HIDE DEF new
    <3>2. owner[p] = r <=> \E k \in picks : k.roster = r /\ k.player = p
      BY DEF SquadsAreTheirPicks
    <3>3. owner'[p] = IF p = q.player THEN q.roster ELSE owner[p]
      BY <2>1 DEF RowsTyped
    <3>4. CASE p = q.player
      BY <2>1, <3>1, <3>3, <3>4
    <3>5. CASE p # q.player
      BY <2>1, <3>1, <3>2, <3>3, <3>5
    <3> QED
      BY <3>4, <3>5
  <2>3. \A j, k \in picks' : j.number = k.number \/ j.player = k.player => j = k
    BY <2>1 DEF SquadsAreTheirPicks
  <2>4. \A k \in picks' : k.roster \in InLeague'
    BY <2>1 DEF SquadsAreTheirPicks, InLeague
  <2> QED
    BY <2>2, <2>3, <2>4 DEF SquadsAreTheirPicks
<1>3. CASE removePlayerCommit(w)
  <2> DEFINE gone == req[w].player
  <2>1. /\ gone \in Players /\ owner' = [owner EXCEPT ![gone] = "gone"]
        /\ picks' = {k \in picks : k.player # gone} /\ rosters' = rosters
    BY <1>3, InFlight DEF removePlayerCommit
  <2>2. \A r \in Rosters, p \in Players :
          owner'[p] = r <=> \E k \in picks' : k.roster = r /\ k.player = p
    BY <2>1 DEF SquadsAreTheirPicks, RowsTyped
  <2> QED
    BY <2>1, <2>2 DEF SquadsAreTheirPicks, InLeague
<1>4. CASE joinCommit(w) \/ addVacantRostersCommit(w) \/ setReadyCommit(w) \/ lookAtRoom(w)
           \/ openDraftCommit(w)
  <2>1. UNCHANGED <<owner, picks>>
    BY <1>4 DEF joinCommit, addVacantRostersCommit, setReadyCommit, lookAtRoom, openDraftCommit, room
  <2>2. InLeague \subseteq InLeague'
    <3>1. CASE joinCommit(w)
      BY <3>1 DEF joinCommit, RowsTyped, RosterRow, InLeague
    <3>2. CASE addVacantRostersCommit(w)
      BY <3>2 DEF addVacantRostersCommit, RowsTyped, RosterRow, InLeague
    <3>3. CASE setReadyCommit(w)
      BY <3>3 DEF setReadyCommit, RowsTyped, RosterRow, InLeague
    <3>4. CASE lookAtRoom(w)
      BY <3>4 DEF lookAtRoom, InLeague
    <3>5. CASE openDraftCommit(w)
      <4>1. PICK order : rosters' = [r \in Rosters |-> IF r \in req[w].rosters
                        THEN [rosters[r] EXCEPT !.draftOrder = order[r], !.ready = FALSE]
                        ELSE rosters[r]]
        BY <3>5 DEF openDraftCommit
      <4> QED
        BY <4>1 DEF RowsTyped, RosterRow, InLeague
    <3> QED
      BY <1>4, <3>1, <3>2, <3>3, <3>4, <3>5
  <2> QED
    BY <2>1, <2>2 DEF SquadsAreTheirPicks
<1> QED
  BY <1>1, <1>2, <1>3, <1>4 DEF Commit

\* Of the other steps none touches the rosters, the squads or the picks.
LEMMA OnlyCommitsWrite ==
  ASSUME [Next]_vars, ~ \E w \in Workers : Commit(w)
  PROVE  UNCHANGED <<status, currentPickNumber, rosters, owner, picks, fixtures>>
BY DEF Next, Check, vars, room, rollback, startsNow, deadlinePasses, joinCheck,
       addVacantRostersCheck, leaveCheck, setReadyCheck, openScheduledCheck, startDraftCheck,
       pickCheck, autoPickCheck, removePlayerCheck, Receive

\* However many requests race, numbers and players are picked once and the squads are
\* what the picks say.
THEOREM PicksMakeTheSquads == Spec => []SquadsAreTheirPicks
<1>1. Init => RowsTyped /\ SquadsAreTheirPicks
  BY RoomAssumption DEF Init, RowsTyped, SquadsAreTheirPicks, NoRoster, RosterRow, Request
<1>2. RowsTyped /\ SquadsAreTheirPicks /\ [Next]_vars => RowsTyped' /\ SquadsAreTheirPicks'
  <2> SUFFICES ASSUME RowsTyped, SquadsAreTheirPicks, [Next]_vars
               PROVE  SquadsAreTheirPicks'
    BY StepKeepsRows
  <2>1. CASE \E w \in Workers : Commit(w)
    BY <2>1, CommitKeepsSquads
  <2>2. CASE ~ \E w \in Workers : Commit(w)
    BY <2>2, OnlyCommitsWrite DEF SquadsAreTheirPicks, InLeague
  <2> QED
    BY <2>1, <2>2
<1> QED
  BY <1>1, <1>2, PTL DEF Spec
-----------------------------------------------------------------------------
(* With one request at a time the picks follow the order that was drawn.           *)

\* Every roster of the league has a place of its own.
Drawn ==
  /\ rosterCount >= 2
  /\ \A r \in InLeague : rosters[r].draftOrder \in 1 .. rosterCount
  /\ \A r, s \in InLeague : rosters[r].draftOrder = rosters[s].draftOrder => r = s

\* The picks made so far are the first ones, each of the roster whose turn it was.
PicksSoFar ==
  /\ Drawn
  /\ \A k \in picks : k.number < currentPickNumber /\ k.roster \in Turn(k.number)
  /\ \A n \in 0 .. currentPickNumber - 1 : \E k \in picks : k.number = n

\* How far the league has come, and what the request in flight has read of it.
Stages ==
  /\ status \in {"SETUP", "DRAFTING", "ACTIVE"}
  /\ status = "SETUP" => picks = {}
  /\ status # "SETUP" => PicksSoFar
  /\ status = "DRAFTING" => currentPickNumber < totalPicks
  /\ status = "ACTIVE" => currentPickNumber = totalPicks /\ fixtures = Season

SetupOps == {"join", "addVacant", "leave", "ready", "look", "open"}
UpToDate(q) ==
  /\ q.op \in SetupOps => status = "SETUP"
  /\ q.op = "open" => q.rosters = InLeague /\ rosterCount >= 2
  /\ q.op = "pick" => /\ status = "DRAFTING" /\ q.number = currentPickNumber
                      /\ q.total = totalPicks /\ q.roster \in Turn(currentPickNumber)
  /\ q.op = "removePlayer" => owner[q.player] = None

InOrder == Stages /\ \A w \in Workers : UpToDate(req[w])

\* An injection into as many places fills every one of them.
LEMMA PlacesAreFilled ==
  ASSUME NEW S, IsFiniteSet(S), NEW n \in Nat, Cardinality(S) = n, NEW order \in [S -> 1 .. n],
         \A r, s \in S : order[r] = order[s] => r = s, NEW k \in 0 .. n
  PROVE  /\ k # 0 => \E r \in S : order[r] = k
         /\ Cardinality({s \in S : order[s] <= k}) = k
<1>1. \A m \in Nat : IsFiniteSet(1 .. m) /\ Cardinality(1 .. m) = m
  BY FS_Interval
<1>2. order \in Injection(S, 1 .. n)
  BY DEF Injection, IsInjective
<1>3. order \in Surjection(S, 1 .. n)
  BY <1>1, <1>2, FS_Injection
<1>4. \A m \in 1 .. n : \E r \in S : order[r] = m
  BY <1>3 DEF Surjection
<1> DEFINE A == {s \in S : order[s] <= k}
           f == [s \in A |-> order[s]]
<1>5. f \in Injection(A, 1 .. k)
  BY DEF Injection, IsInjective
<1>6. f \in Surjection(A, 1 .. k)
  <2>1. \A m \in 1 .. k : \E r \in A : f[r] = m
    BY <1>4
  <2> QED
    BY <1>5, <2>1 DEF Injection, Surjection
<1>7. k \in Nat /\ IsFiniteSet(1 .. k) /\ Cardinality(1 .. k) = k
  BY <1>1
<1> HIDE DEF f, A
<1>8. Cardinality(A) = k
  BY <1>5, <1>6, <1>7, FS_Injection
<1> QED
  BY <1>4, <1>8 DEF A

LEMMA IndexIsPlace ==
  ASSUME RowsTyped, Drawn, NEW i \in 0 .. rosterCount - 1
  PROVE  \E r \in InLeague : rosters[r].draftOrder = i + 1 /\ AtIndex(i) = {r}
<1> DEFINE n == rosterCount
           order == [r \in InLeague |-> rosters[r].draftOrder]
<1>1. /\ IsFiniteSet(InLeague) /\ n \in Nat /\ Cardinality(InLeague) = n
      /\ order \in [InLeague -> 1 .. n] /\ \A r, s \in InLeague : order[r] = order[s] => r = s
  BY InLeagueCounts DEF Drawn, rosterCount
<1> DEFINE UpTo(k) == Cardinality({s \in InLeague : order[s] <= k})
<1> HIDE DEF n, order
<1>2. \A k \in 0 .. n : (k # 0 => \E r \in InLeague : order[r] = k) /\ UpTo(k) = k
  BY <1>1, PlacesAreFilled
<1>3. i \in 0 .. n - 1 /\ i + 1 \in 0 .. n /\ i + 1 # 0
  BY <1>1 DEF n
<1>4. PICK r \in InLeague : order[r] = i + 1
  <2> HIDE DEF UpTo
  <2> QED
    BY <1>2, <1>3
<1>5. ASSUME NEW s \in InLeague
      PROVE  /\ Cardinality({t \in InLeague : rosters[t].draftOrder < rosters[s].draftOrder}) = order[s] - 1
             /\ Cardinality({t \in InLeague : rosters[t].draftOrder <= rosters[s].draftOrder}) = order[s]
  <2>1. order[s] \in 1 .. n /\ \A t \in InLeague : order[t] \in 1 .. n /\ order[t] = rosters[t].draftOrder
    BY <1>1 DEF order
  <2>2. {t \in InLeague : rosters[t].draftOrder < rosters[s].draftOrder}
          = {t \in InLeague : order[t] <= order[s] - 1}
    BY <2>1
  <2>3. {t \in InLeague : rosters[t].draftOrder <= rosters[s].draftOrder}
          = {t \in InLeague : order[t] <= order[s]}
    BY <2>1
  <2>4. order[s] \in 0 .. n /\ order[s] - 1 \in 0 .. n
    BY <1>1, <2>1
  <2>5. UpTo(order[s]) = order[s] /\ UpTo(order[s] - 1) = order[s] - 1
    BY <1>2, <2>4
  <2> QED
    BY <2>2, <2>3, <2>5
<1>6. \A s \in InLeague : s \in AtIndex(i) <=> order[s] = i + 1
  <2> TAKE s \in InLeague
  <2>1. order[s] \in 1 .. n
    BY <1>1
  <2>2. s \in AtIndex(i) <=> order[s] - 1 <= i /\ order[s] > i
    BY <1>5 DEF AtIndex
  <2> QED
    BY <1>1, <1>3, <2>1, <2>2
<1>7. AtIndex(i) = {r}
  BY <1>1, <1>4, <1>6 DEF AtIndex
<1> QED
  BY <1>4, <1>7 DEF order

LEMMA TurnIsPlace ==
  ASSUME RowsTyped, Drawn, NEW n \in Nat, NEW r \in InLeague
  PROVE  r \in Turn(n) <=>
           rosters[r].draftOrder = pickCoordinate(n, rosterCount, OrderType).rosterIndex + 1
<1> DEFINE i == pickCoordinate(n, rosterCount, OrderType).rosterIndex
<1>1. rosterCount \in Nat \ {0}
  BY InLeagueCounts DEF Drawn
<1>2. i \in 0 .. rosterCount - 1
  BY <1>1, CoordinateOfPick
<1> HIDE DEF i
<1>3. PICK s \in InLeague : rosters[s].draftOrder = i + 1 /\ AtIndex(i) = {s}
  BY <1>2, IndexIsPlace
<1>4. Turn(n) = {s}
  BY <1>3 DEF Turn, i
<1> QED
  BY <1>3, <1>4 DEF Drawn, i

\* What a roster has picked are its turns among the picks so far.
LEMMA SharesOfPicks ==
  ASSUME RowsTyped, SquadsAreTheirPicks, PicksSoFar, currentPickNumber <= totalPicks,
         NEW r \in InLeague
  PROVE  LET Rows == {k \in picks : k.roster = r} IN
         /\ IsFiniteSet(Rows) /\ Cardinality(Rows) <= RosterSize
         /\ currentPickNumber = totalPicks => Cardinality(Rows) = RosterSize
<1> DEFINE n == rosterCount
           i == rosters[r].draftOrder - 1
           K == TurnsOf(i, n, RosterSize, OrderType)
           Rows == {k \in picks : k.roster = r}
           f == [k \in Rows |-> k.number]
<1>1. /\ n \in Nat \ {0} /\ i \in 0 .. n - 1 /\ RosterSize \in Nat \ {0}
      /\ totalPicks = n * RosterSize /\ currentPickNumber \in Nat
  BY InLeagueCounts, RoomAssumption DEF PicksSoFar, Drawn, totalPicks, RowsTyped
<1>2. \A m \in Nat : r \in Turn(m) <=> pickCoordinate(m, n, OrderType).rosterIndex = i
  <2> TAKE m \in Nat
  <2> DEFINE c == pickCoordinate(m, n, OrderType).rosterIndex
             d == rosters[r].draftOrder
  <2>1. r \in Turn(m) <=> d = c + 1
    BY TurnIsPlace DEF PicksSoFar
  <2>2. c \in 0 .. n - 1
    BY <1>1, CoordinateOfPick
  <2>3. d \in Int /\ i = d - 1
    BY DEF PicksSoFar, Drawn
  <2> HIDE DEF c, d, n, i
  <2>4. r \in Turn(m) <=> c = i
    BY <1>1, <2>1, <2>2, <2>3
  <2> QED
    BY <2>4 DEF c
<1>3. IsFiniteSet(K) /\ Cardinality(K) = RosterSize
  <2> HIDE DEF n, i
  <2>1. n \in Nat \ {0} /\ i \in 0 .. n - 1 /\ RosterSize \in Nat
    BY <1>1
  <2> QED
    BY <2>1, EqualShares
<1> HIDE DEF i
<1>4. ASSUME NEW k \in Rows PROVE k.number \in K
  <2>1. k \in picks /\ k.number \in Nat /\ k.number < currentPickNumber /\ r \in Turn(k.number)
    BY DEF PicksSoFar, RowsTyped, PickRow
  <2>2. k.number \in 0 .. n * RosterSize - 1
    BY <1>1, <2>1
  <2> QED
    BY <1>2, <2>1, <2>2 DEF TurnsOf
<1>5. f \in Injection(Rows, K)
  <2>1. \A j, k \in Rows : j.number = k.number => j = k
    BY DEF SquadsAreTheirPicks
  <2> HIDE DEF K, Rows
  <2> QED
    BY <1>4, <2>1 DEF Injection, IsInjective
<1>6. ASSUME currentPickNumber = totalPicks
      PROVE  f \in Surjection(Rows, K)
  <2>1. ASSUME NEW m \in K PROVE \E k \in Rows : f[k] = m
    <3>1. m \in Nat /\ m \in 0 .. currentPickNumber - 1 /\ r \in Turn(m)
      BY <1>1, <1>2, <1>6 DEF TurnsOf
    <3>2. PICK k \in picks : k.number = m
      BY <3>1 DEF PicksSoFar
    <3>3. k.roster \in Turn(m) /\ k.roster \in InLeague
      BY <3>2, TurnInLeague DEF PicksSoFar
    <3>4. /\ rosters[r].draftOrder = pickCoordinate(m, n, OrderType).rosterIndex + 1
          /\ rosters[k.roster].draftOrder = pickCoordinate(m, n, OrderType).rosterIndex + 1
      BY <3>1, <3>3, TurnIsPlace DEF PicksSoFar
    <3>5. k.roster = r
      BY <3>3, <3>4 DEF PicksSoFar, Drawn
    <3> QED
      BY <3>2, <3>5
  <2> HIDE DEF K, Rows
  <2> QED
    BY <1>4, <2>1 DEF Surjection
<1> HIDE DEF f, K, n
<1>7. IsFiniteSet(Rows) /\ Cardinality(Rows) <= RosterSize
  BY <1>3, <1>5, FS_Injection
<1>8. currentPickNumber = totalPicks => Cardinality(Rows) = RosterSize
  BY <1>3, <1>5, <1>6, FS_Injection
<1> QED
  BY <1>7, <1>8

LEMMA SquadsFit ==
  ASSUME RowsTyped, SquadsAreTheirPicks, Stages, NEW r \in Rosters
  PROVE  Cardinality(Squad(r)) <= RosterSize
<1>0. RosterSize \in Nat \ {0}
  BY RoomAssumption
<1>1. CASE status = "SETUP" \/ r \notin InLeague
  <2>1. Squad(r) = {}
    BY <1>1 DEF Squad, SquadsAreTheirPicks, Stages
  <2> QED
    BY <1>0, <2>1, FS_EmptySet
<1>2. CASE status # "SETUP" /\ r \in InLeague
  <2> DEFINE Rows == {k \in picks : k.roster = r}
             f == [p \in Squad(r) |-> CHOOSE k \in Rows : k.player = p]
  <2>1. PicksSoFar /\ currentPickNumber <= totalPicks
    BY <1>2, InLeagueCounts DEF Stages, RowsTyped
  <2>2. IsFiniteSet(Rows) /\ Cardinality(Rows) <= RosterSize
    BY <1>2, <2>1, SharesOfPicks
  <2>3. \A p \in Squad(r) : \E k \in Rows : k.player = p
    BY DEF Squad, SquadsAreTheirPicks
  <2> HIDE DEF Rows
  <2>4. f \in Injection(Squad(r), Rows)
    BY <2>3 DEF Injection, IsInjective
  <2> HIDE DEF f
  <2>5. IsFiniteSet(Squad(r)) /\ Cardinality(Squad(r)) <= Cardinality(Rows)
    BY <2>2, <2>4, FS_Injection
  <2>6. Cardinality(Squad(r)) \in Nat /\ Cardinality(Rows) \in Nat
    BY <2>2, <2>5, FS_CardinalityType
  <2> QED
    BY <1>0, <2>2, <2>5, <2>6
<1> QED
  BY <1>1, <1>2

\* The fixtures of the season are the circle's, played by the rosters in draft order.
LEMMA SeasonOfPlaces ==
  ASSUME RowsTyped, Drawn, fixtures = Season
  PROVE  SeasonIsFair
<1> DEFINE n == rosterCount
           At(i) == CHOOSE r \in AtIndex(i) : TRUE
           Game(f) == [round |-> f.round, home |-> At(f.home), away |-> At(f.away)]
<1>1. n \in Nat /\ n >= 2
  BY InLeagueCounts DEF Drawn
<1>2. fixtures = {Game(f) : f \in roundRobinPairs(n)}
  BY DEF Season
<1>3. \A i \in 0 .. n - 1 : At(i) \in InLeague /\ rosters[At(i)].draftOrder = i + 1
  BY IndexIsPlace
<1>4. \A r \in InLeague : /\ rosters[r].draftOrder - 1 \in 0 .. n - 1
                          /\ r = At(rosters[r].draftOrder - 1)
  <2> TAKE r \in InLeague
  <2> DEFINE i == rosters[r].draftOrder - 1
  <2>1. i \in 0 .. n - 1 /\ rosters[r].draftOrder = i + 1
    BY <1>1 DEF Drawn
  <2> HIDE DEF i
  <2>2. At(i) \in InLeague /\ rosters[At(i)].draftOrder = i + 1
    BY <1>3, <2>1
  <2> QED
    BY <2>1, <2>2 DEF Drawn, i
<1>5. \A i, j \in 0 .. n - 1 : At(i) = At(j) => i = j
  <2> TAKE i, j \in 0 .. n - 1
  <2>1. rosters[At(i)].draftOrder = i + 1 /\ rosters[At(j)].draftOrder = j + 1
    BY <1>3
  <2> HIDE DEF At
  <2> QED
    BY <2>1
<1> HIDE DEF n, At
<1>6. ASSUME NEW r \in InLeague, NEW s \in InLeague, r # s
      PROVE  Cardinality({f \in fixtures : {f.home, f.away} = {r, s}}) = 1
  <2>1. PICK i \in 0 .. n - 1, j \in 0 .. n - 1 : r = At(i) /\ s = At(j)
    BY <1>4
  <2>2. PICK f \in roundRobinPairs(n) :
          \A g \in roundRobinPairs(n) : {g.home, g.away} = {i, j} <=> g = f
    <3>1. i # j
      BY <1>6, <2>1
    <3> QED
      BY <1>1, <3>1, TeamsMeetOnce
  <2>3. \A g \in roundRobinPairs(n) : g.home \in 0 .. n - 1 /\ g.away \in 0 .. n - 1
    BY <1>1, FixturesAreTyped
  <2>4. \A g \in roundRobinPairs(n) :
          {Game(g).home, Game(g).away} = {r, s} <=> {g.home, g.away} = {i, j}
    <3> TAKE g \in roundRobinPairs(n)
    <3>1. g.home \in 0 .. n - 1 /\ g.away \in 0 .. n - 1
      BY <2>3
    <3>2. At(g.home) = At(i) <=> g.home = i
      BY <1>5, <3>1
    <3>3. At(g.home) = At(j) <=> g.home = j
      BY <1>5, <3>1
    <3>4. At(g.away) = At(i) <=> g.away = i
      BY <1>5, <3>1
    <3>5. At(g.away) = At(j) <=> g.away = j
      BY <1>5, <3>1
    <3> QED
      BY <2>1, <3>2, <3>3, <3>4, <3>5
  <2> HIDE DEF Game
  <2>5. {x \in fixtures : {x.home, x.away} = {r, s}} = {Game(f)}
    <3>1. Game(f) \in fixtures /\ {Game(f).home, Game(f).away} = {r, s}
      BY <1>2, <2>2, <2>4
    <3>2. ASSUME NEW x \in fixtures, {x.home, x.away} = {r, s} PROVE x = Game(f)
      <4>1. PICK g \in roundRobinPairs(n) : x = Game(g)
        BY <1>2
      <4>2. {g.home, g.away} = {i, j}
        BY <2>4, <3>2, <4>1
      <4> QED
        BY <2>2, <4>1, <4>2
    <3> QED
      BY <3>1, <3>2
  <2> QED
    BY <2>5, FS_Singleton
<1>7. \A r \in InLeague : \A f, g \in fixtures :
        r \in {f.home, f.away} \cap {g.home, g.away} /\ f.round = g.round => f = g
  <2> SUFFICES ASSUME NEW r \in InLeague, NEW f \in fixtures, NEW g \in fixtures,
                      r \in {f.home, f.away} \cap {g.home, g.away}, f.round = g.round
               PROVE  f = g
    OBVIOUS
  <2>1. PICK a \in roundRobinPairs(n), b \in roundRobinPairs(n) : f = Game(a) /\ g = Game(b)
    BY <1>2
  <2>2. /\ a.home \in 0 .. n - 1 /\ a.away \in 0 .. n - 1
        /\ b.home \in 0 .. n - 1 /\ b.away \in 0 .. n - 1
    BY <1>1, FixturesAreTyped
  <2>3. PICK i \in {a.home, a.away} : r = At(i)
    BY <2>1
  <2>4. PICK j \in {b.home, b.away} : r = At(j)
    BY <2>1
  <2>5. i = j
    BY <1>5, <2>2, <2>3, <2>4
  <2>6. a.round = b.round
    BY <2>1
  <2>7. a = b
    BY <1>1, <2>3, <2>4, <2>5, <2>6, TeamsPlayOncePerRound
  <2> QED
    BY <2>1, <2>7
<1> QED
  BY <1>6, <1>7 DEF SeasonIsFair

LEMMA SameLeague ==
  ASSUME rosters' = rosters
  PROVE  /\ InLeague' = InLeague /\ rosterCount' = rosterCount /\ totalPicks' = totalPicks
         /\ Season' = Season /\ (Drawn' <=> Drawn) /\ \A n : Turn(n)' = Turn(n)
BY DEF InLeague, rosterCount, totalPicks, Season, AtIndex, Drawn, Turn

LEMMA SameStage ==
  ASSUME Stages, UNCHANGED <<status, currentPickNumber, rosters, picks, fixtures>>
  PROVE  Stages'
BY SameLeague DEF Stages, PicksSoFar

LEMMA StillUpToDate ==
  ASSUME NEW q, UpToDate(q), UNCHANGED <<status, currentPickNumber, rosters, owner>>
  PROVE  UpToDate(q)'
BY SameLeague DEF UpToDate

\* What a handler has just read is up to date.
LEMMA CheckReads ==
  ASSUME RowsTyped, InOrder, NEW w \in Workers, Check(w)
  PROVE  /\ UNCHANGED <<status, currentPickNumber, rosters, owner, picks, fixtures>>
         /\ UpToDate(req[w])'
<1> DEFINE Done == /\ UNCHANGED <<status, currentPickNumber, rosters, owner, picks, fixtures>>
                   /\ UpToDate(req[w])'
<1>1. \A q : Receive(w, q) /\ UpToDate(q) => Done
  <2> TAKE q
  <2> HAVE Receive(w, q) /\ UpToDate(q)
  <2>1. /\ UNCHANGED <<status, currentPickNumber, rosters, owner, picks, fixtures>>
        /\ req'[w] = q
    BY DEF Receive, room, RowsTyped
  <2> QED
    BY <2>1, SameLeague DEF UpToDate
<1> SUFFICES Done
  OBVIOUS
<1> HIDE DEF Done
<1>2. CASE joinCheck(w)
  <2>1. PICK u, target : Receive(w, [op |-> "join", user |-> u, target |-> target, count |-> rosterCount])
    BY <1>2 DEF joinCheck
  <2> DEFINE q == [op |-> "join", user |-> u, target |-> target, count |-> rosterCount]
  <2>2. Receive(w, q) /\ UpToDate(q)
    BY <1>2, <2>1 DEF joinCheck, UpToDate, SetupOps
  <2> HIDE DEF q
  <2> QED
    BY <1>1, <2>2
<1>3. CASE addVacantRostersCheck(w)
  <2> DEFINE q == [op |-> "addVacant", count |-> rosterCount]
  <2>1. Receive(w, q) /\ UpToDate(q)
    BY <1>3 DEF addVacantRostersCheck, UpToDate, SetupOps
  <2> HIDE DEF q
  <2> QED
    BY <1>1, <2>1
<1>4. CASE leaveCheck(w)
  <2>1. PICK r : status = "SETUP" /\ Receive(w, [op |-> "leave", roster |-> r])
    BY <1>4 DEF leaveCheck
  <2> DEFINE q == [op |-> "leave", roster |-> r]
  <2>2. Receive(w, q) /\ UpToDate(q)
    BY <2>1 DEF UpToDate, SetupOps
  <2> HIDE DEF q
  <2> QED
    BY <1>1, <2>2
<1>5. CASE setReadyCheck(w)
  <2>1. PICK r, flag : status = "SETUP" /\ Receive(w, [op |-> "ready", roster |-> r, flag |-> flag])
    BY <1>5 DEF setReadyCheck
  <2> DEFINE q == [op |-> "ready", roster |-> r, flag |-> flag]
  <2>2. Receive(w, q) /\ UpToDate(q)
    BY <2>1 DEF UpToDate, SetupOps
  <2> HIDE DEF q
  <2> QED
    BY <1>1, <2>2
<1>6. CASE openScheduledCheck(w) \/ startDraftCheck(w)
  <2>1. Receive(w, OpenRequest) /\ status = "SETUP" /\ rosterCount >= 2
    BY <1>6 DEF openScheduledCheck, startDraftCheck, canOpen, enoughPlayers
  <2>2. UpToDate(OpenRequest)
    BY <2>1 DEF OpenRequest, UpToDate, SetupOps
  <2> QED
    BY <1>1, <2>1, <2>2
<1>7. CASE pickCheck(w) \/ autoPickCheck(w)
  <2>1. PICK r \in onTheClock, p \in Players : status = "DRAFTING" /\ Receive(w, PickRequest(r, p))
    BY <1>7 DEF pickCheck, autoPickCheck, Pool
  <2>2. r \in Turn(currentPickNumber)
    BY <2>1 DEF onTheClock
  <2>3. UpToDate(PickRequest(r, p))
    BY <2>1, <2>2 DEF PickRequest, UpToDate, SetupOps
  <2> QED
    BY <1>1, <2>1, <2>3
<1>8. CASE removePlayerCheck(w)
  <2>1. PICK p \in Pool : Receive(w, [op |-> "removePlayer", player |-> p])
    BY <1>8 DEF removePlayerCheck
  <2> DEFINE q == [op |-> "removePlayer", player |-> p]
  <2>2. Receive(w, q) /\ UpToDate(q)
    BY <2>1 DEF Pool, UpToDate, SetupOps
  <2> HIDE DEF q
  <2> QED
    BY <1>1, <2>2
<1> QED
  BY <1>2, <1>3, <1>4, <1>5, <1>6, <1>7, <1>8 DEF Check

\* Drawing lots gives every roster of the league a place of its own.
LEMMA OpeningDraws ==
  ASSUME RowsTyped, InOrder, NEW w \in Workers, openDraftCommit(w)
  PROVE  InLeague' = InLeague /\ Drawn'
<1>1. req[w].rosters = InLeague /\ rosterCount >= 2
  BY DEF openDraftCommit, InOrder, UpToDate, Serving
<1> DEFINE S == req[w].rosters
<1>2. PICK order \in [S -> 1 .. Cardinality(S)] :
        /\ \A r, s \in S : order[r] = order[s] => r = s
        /\ rosters' = [r \in Rosters |-> IF r \in S
                         THEN [rosters[r] EXCEPT !.draftOrder = order[r], !.ready = FALSE]
                         ELSE rosters[r]]
  BY DEF openDraftCommit
<1>3. S = InLeague /\ Cardinality(S) = rosterCount
  BY <1>1 DEF rosterCount
<1> HIDE DEF S
<1>4. \A r \in InLeague : order[r] \in 1 .. rosterCount
  BY <1>2, <1>3
<1>5. \A r \in Rosters : /\ rosters'[r].state = rosters[r].state
                         /\ r \in InLeague => rosters'[r].draftOrder = order[r]
  BY <1>2, <1>3 DEF RowsTyped, RosterRow
<1>6. InLeague' = InLeague
  BY <1>5 DEF InLeague
<1>7. rosterCount' = rosterCount /\ InLeague \subseteq Rosters
  BY <1>6 DEF rosterCount, InLeague
<1>8. \A r \in InLeague' : rosters'[r].draftOrder = order[r]
  BY <1>5, <1>6, <1>7
<1>9. \A r, s \in InLeague' : rosters'[r].draftOrder = rosters'[s].draftOrder => r = s
  <2> TAKE r, s \in InLeague'
  <2> HAVE rosters'[r].draftOrder = rosters'[s].draftOrder
  <2>1. order[r] = order[s] /\ r \in S /\ s \in S
    BY <1>3, <1>6, <1>8
  <2> QED
    BY <1>2, <2>1
<1>10. \A r \in InLeague' : rosters'[r].draftOrder \in 1 .. rosterCount'
  BY <1>4, <1>6, <1>7, <1>8
<1>11. rosterCount' >= 2
  BY <1>1, <1>7
<1> QED
  BY <1>6, <1>9, <1>10, <1>11 DEF Drawn

LEMMA CommitInOrder ==
  ASSUME RowsTyped, SquadsAreTheirPicks, InOrder, NEW w \in Workers, Commit(w)
  PROVE  Stages' /\ UpToDate(req[w])'
<1>0. req \in [Workers -> Request] /\ Stages /\ UpToDate(req[w])
  BY DEF RowsTyped, InOrder
<1>1. Reply(w) => UpToDate(req[w])'
  BY <1>0 DEF Reply, UpToDate, Serving, Idle, SetupOps
<1>2. CASE joinCommit(w) \/ addVacantRostersCommit(w) \/ leaveCommit(w)
  <2>1. status = "SETUP" /\ status' = status /\ picks' \subseteq picks /\ Reply(w)
    BY <1>0, <1>2 DEF joinCommit, addVacantRostersCommit, leaveCommit, room, UpToDate, Serving,
                      SetupOps
  <2>2. Stages'
    BY <1>0, <2>1 DEF Stages
  <2> QED
    BY <1>1, <2>1, <2>2
<1>3. CASE setReadyCommit(w)
  <2>1. status = "SETUP" /\ status' = status /\ picks' = picks /\ req'[w] = [op |-> "look"]
    BY <1>0, <1>3 DEF setReadyCommit, room, UpToDate, Serving, SetupOps
  <2> QED
    BY <1>0, <2>1 DEF Stages, UpToDate, Serving
<1>4. CASE lookAtRoom(w)
  <2>1. /\ status = "SETUP" /\ status' = status /\ picks' = picks /\ rosters' = rosters
        /\ req'[w] = IF LiveStart /\ everyoneReady /\ canOpen THEN OpenRequest ELSE Idle
    BY <1>0, <1>4 DEF lookAtRoom, room, UpToDate, Serving, SetupOps
  <2>2. Stages'
    BY <1>0, <2>1 DEF Stages
  <2>3. CASE LiveStart /\ everyoneReady /\ canOpen
    <3>1. req'[w].op = "open" /\ req'[w].rosters = InLeague /\ rosterCount >= 2
      BY <2>1, <2>3 DEF OpenRequest, canOpen, enoughPlayers
    <3> QED
      BY <2>1, <2>2, <3>1, SameLeague DEF UpToDate, Serving
  <2>4. CASE ~(LiveStart /\ everyoneReady /\ canOpen)
    BY <2>1, <2>2, <2>4 DEF UpToDate, Serving, Idle, SetupOps
  <2> QED
    BY <2>3, <2>4
<1>5. CASE openDraftCommit(w)
  <2>1. /\ status = "SETUP" /\ rosterCount >= 2 /\ status' = "DRAFTING" /\ picks' = picks
        /\ currentPickNumber' = 0 /\ Reply(w)
    BY <1>0, <1>5 DEF openDraftCommit, UpToDate, Serving, SetupOps
  <2>2. picks' = {} /\ InLeague' = InLeague /\ Drawn'
    BY <1>0, <1>5, <2>1, OpeningDraws DEF Stages
  <2>3. currentPickNumber' < totalPicks'
    BY <2>1, <2>2, InLeagueCounts, RoomAssumption DEF totalPicks, rosterCount
  <2>4. PicksSoFar'
    BY <2>1, <2>2 DEF PicksSoFar
  <2> QED
    BY <1>1, <2>1, <2>3, <2>4 DEF Stages
<1>6. CASE pickCommit(w)
  <2> DEFINE q == req[w]
             new == [number |-> q.number, roster |-> q.roster, player |-> q.player]
             done == currentPickNumber + 1 >= totalPicks
  <2>1. /\ status = "DRAFTING" /\ q.number = currentPickNumber /\ q.total = totalPicks
        /\ q.roster \in Turn(currentPickNumber)
    BY <1>0, <1>6 DEF pickCommit, UpToDate, Serving
  <2>2. /\ picks' = picks \cup {new} /\ rosters' = rosters /\ Reply(w)
        /\ currentPickNumber' = currentPickNumber + 1
        /\ status' = (IF done THEN "ACTIVE" ELSE "DRAFTING")
        /\ fixtures' = (IF done THEN Season ELSE fixtures)
    BY <1>6, <2>1 DEF pickCommit
  <2>3. /\ PicksSoFar /\ currentPickNumber < totalPicks
        /\ currentPickNumber \in Nat /\ totalPicks \in Nat
    BY <1>0, <2>1, InLeagueCounts DEF Stages, RowsTyped
  <2>4. /\ new.number = currentPickNumber /\ new.roster \in Turn(currentPickNumber)
    BY <2>1
  <2> HIDE DEF new
  <2>5. \A k \in picks : k.number \in Nat
    BY DEF RowsTyped, PickRow
  <2>6. \A k \in picks' : k.number < currentPickNumber' /\ k.roster \in Turn(k.number)'
    BY <2>2, <2>3, <2>4, <2>5, SameLeague DEF PicksSoFar
  <2>7. \A n \in 0 .. currentPickNumber' - 1 : \E k \in picks' : k.number = n
    <3> TAKE n \in 0 .. currentPickNumber' - 1
    <3>1. n = currentPickNumber \/ n \in 0 .. currentPickNumber - 1
      BY <2>2, <2>3
    <3> QED
      BY <2>2, <2>3, <2>4, <3>1 DEF PicksSoFar
  <2>8. PicksSoFar'
    BY <2>2, <2>3, <2>6, <2>7, SameLeague DEF PicksSoFar
  <2>9. Stages'
    <3>1. CASE done
      BY <2>2, <2>3, <2>8, <3>1, SameLeague DEF Stages
    <3>2. CASE ~done
      BY <2>2, <2>3, <2>8, <3>2, SameLeague DEF Stages
    <3> QED
      BY <3>1, <3>2
  <2> QED
    BY <1>1, <2>2, <2>9
<1>7. CASE removePlayerCommit(w)
  <2> DEFINE p == req[w].player
  <2>1. /\ p \in Players /\ owner[p] = None /\ Reply(w) /\ picks' = {k \in picks : k.player # p}
        /\ UNCHANGED <<status, currentPickNumber, rosters, fixtures>>
    BY <1>0, <1>7, InFlight DEF removePlayerCommit, UpToDate, Serving
  <2>2. \A k \in picks : k.roster \in Rosters /\ k.player \in Players
    BY DEF RowsTyped, PickRow
  <2>3. picks' = picks
    BY <2>1, <2>2, RoomAssumption DEF SquadsAreTheirPicks
  <2> QED
    BY <1>0, <1>1, <2>1, <2>3, SameStage
<1> QED
  BY <1>2, <1>3, <1>4, <1>5, <1>6, <1>7 DEF Commit

\* With one request at a time the picks are those of the rosters on the clock, and the
\* draft ends with full squads and a season in which every two meet once.
THEOREM PicksInOrder ==
  ASSUME \A v, w \in Workers : v = w
  PROVE  Spec => []PicksFollowTheOrder
<1> DEFINE Inv == RowsTyped /\ SquadsAreTheirPicks /\ InOrder
<1>1. Init => Inv
  <2>1. Init => RowsTyped /\ SquadsAreTheirPicks
    BY RoomAssumption DEF Init, RowsTyped, SquadsAreTheirPicks, NoRoster, RosterRow, Request
  <2>2. Init => InOrder
    BY DEF Init, InOrder, Stages, UpToDate, Serving, SetupOps, Idle
  <2> QED
    BY <2>1, <2>2
<1>2. Inv /\ [Next]_vars => Inv'
  <2> SUFFICES ASSUME Inv, [Next]_vars PROVE Inv'
    OBVIOUS
  <2>1. RowsTyped'
    BY StepKeepsRows
  <2>2. CASE \E w \in Workers : Commit(w)
    <3>1. PICK w \in Workers : Commit(w)
      BY <2>2
    <3>2. SquadsAreTheirPicks'
      BY <3>1, CommitKeepsSquads
    <3>3. Stages' /\ UpToDate(req[w])'
      BY <3>1, CommitInOrder
    <3> QED
      BY <2>1, <3>2, <3>3 DEF InOrder
  <2>3. CASE ~ \E w \in Workers : Commit(w)
    <3>1. UNCHANGED <<status, currentPickNumber, rosters, owner, picks, fixtures>>
      BY <2>3, OnlyCommitsWrite
    <3>2. Stages' /\ SquadsAreTheirPicks'
      BY <3>1, SameStage DEF InOrder, SquadsAreTheirPicks, InLeague
    <3>3. CASE \E w \in Workers : Check(w)
      <4>1. PICK w \in Workers : Check(w)
        BY <3>3
      <4>2. UpToDate(req[w])'
        BY <4>1, CheckReads
      <4> QED
        BY <2>1, <3>2, <4>2 DEF InOrder
    <3>4. CASE \E w \in Workers : rollback(w)
      <4>1. PICK w \in Workers : req' = [req EXCEPT ![w] = Idle]
        BY <3>4 DEF rollback, Reply
      <4>2. UpToDate(req[w])'
        BY <4>1 DEF RowsTyped, UpToDate, Serving, Idle, SetupOps
      <4> QED
        BY <2>1, <3>2, <4>2 DEF InOrder
    <3>5. CASE startsNow \/ deadlinePasses \/ UNCHANGED vars
      <4>1. req' = req
        BY <3>5 DEF startsNow, deadlinePasses, vars
      <4>2. \A w \in Workers : UpToDate(req[w])'
        BY <3>1, <4>1, SameLeague DEF InOrder, UpToDate, Serving
      <4> QED
        BY <2>1, <3>2, <4>2 DEF InOrder
    <3> QED
      BY <2>3, <3>3, <3>4, <3>5 DEF Next
  <2> QED
    BY <2>2, <2>3
<1>3. Inv => PicksFollowTheOrder
  <2> SUFFICES ASSUME Inv PROVE PicksFollowTheOrder
    OBVIOUS
  <2>1. Stages
    BY DEF InOrder
  <2>2. PicksAreInTurn
    BY <2>1, SquadsFit DEF Stages, PicksSoFar, PicksAreInTurn
  <2>3. ASSUME status = "ACTIVE" PROVE EveryRosterIsComplete /\ SeasonIsFair
    <3>1. PicksSoFar /\ currentPickNumber = totalPicks /\ fixtures = Season
      BY <2>1, <2>3 DEF Stages
    <3>2. SeasonIsFair
      BY <3>1, SeasonOfPlaces DEF PicksSoFar
    <3>3. EveryRosterIsComplete
      BY <3>1, SharesOfPicks, InLeagueCounts DEF EveryRosterIsComplete
    <3> QED
      BY <3>2, <3>3
  <2> QED
    BY <2>2, <2>3 DEF PicksFollowTheOrder
<1> QED
  BY <1>1, <1>2, <1>3, PTL DEF Spec
=============================================================================
