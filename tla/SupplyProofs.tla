----------------------------- MODULE SupplyProofs -----------------------------
(***************************************************************************)
(* Theorems about the emission schedule as the API presents it (Emission,  *)
(* Fees, Supply), for every schedule the assumptions allow: the payout     *)
(* calendar, the mints left to the users, the withheld shares, the search  *)
(* for the expansions, the closed forms, the burn and its history, and the *)
(* price of the next expansion.  Whole numbers and sums come first.        *)
(***************************************************************************)
EXTENDS Supply, FiniteSetTheorems, WellFoundedInduction, TLAPS

-----------------------------------------------------------------------------
(* Whole numbers.                                                          *)

\* Division by a positive number, as the prover knows it.
LEMMA Quotient ==
    ASSUME NEW n \in Int, NEW d \in Int, d > 0
    PROVE  n - (n % d) = d * (n \div d)
OBVIOUS

\* Quotient and remainder.
LEMMA DivMod ==
    ASSUME NEW n \in Nat, NEW d \in Nat \ {0}
    PROVE  \E q \in Nat, r \in 0..(d - 1) : q = n \div d /\ r = n % d /\ n = d * q + r
<1>1. PICK q \in Nat, r \in 0..(d - 1) : q = n \div d /\ r = n % d
  OBVIOUS
<1>2. n - r = d * q
  BY <1>1, Quotient
<1>3. PICK m \in Int : m = d * q
  OBVIOUS
<1>4. n = m + r
  BY <1>2, <1>3
<1>. QED
  BY <1>1, <1>3, <1>4

\* There is only one quotient and one remainder.
LEMMA Unique ==
    ASSUME NEW d \in Nat \ {0}, NEW q \in Nat, NEW r \in Nat, r < d
    PROVE  (d*q + r) \div d = q /\ (d*q+r) % d = r
OBVIOUS

\* The remainder counts up to the divisor, where the quotient grows.
LEMMA ModStep ==
    ASSUME NEW n \in Nat, NEW d \in Nat \ {0}
    PROVE  \/ n % d < d - 1 /\ (n + 1) % d = (n % d) + 1 /\ (n + 1) \div d = n \div d
           \/ n % d = d - 1 /\ (n + 1) % d = 0 /\ (n + 1) \div d = n \div d + 1
<1>1. PICK q \in Nat, r \in 0..(d - 1) : q = n \div d /\ r = n % d /\ n = d * q + r
  BY DivMod
<1>2. CASE r < d - 1
  <2>1. n + 1 = d * q + (r + 1) /\ r + 1 \in Nat /\ r + 1 < d
    BY <1>1, <1>2
  <2>2. (n + 1) \div d = q /\ (n + 1) % d = r + 1
    BY <2>1, Unique
  <2>. QED
    BY <1>1, <1>2, <2>2
<1>3. CASE r = d - 1
  <2>0. d * (q + 1) = d * q + d
    OBVIOUS
  <2>1. n + 1 = d * (q + 1) + 0 /\ q + 1 \in Nat /\ 0 < d
    BY <1>1, <1>3, <2>0
  <2>2. (n + 1) \div d = q + 1 /\ (n + 1) % d = 0
    BY <2>1, Unique
  <2>. QED
    BY <1>1, <1>3, <2>2
<1>. QED
  BY <1>2, <1>3

\* The quotient grows at the multiples of the divisor.
LEMMA QuotientStep ==
    ASSUME NEW n \in Nat, NEW d \in Nat \ {0}
    PROVE  /\ (n + 1) % d = 0 => (n + 1) \div d = n \div d + 1
           /\ (n + 1) % d # 0 => (n + 1) \div d = n \div d
<1>1. n % d \in Nat
  BY DivMod
<1>2. \/ (n + 1) % d = (n % d) + 1 /\ (n + 1) \div d = n \div d
      \/ (n + 1) % d = 0 /\ (n + 1) \div d = n \div d + 1
  BY ModStep, Zenon
<1>3. PICK r \in Nat : r = n % d
  BY <1>1
<1>4. \/ (n + 1) % d = r + 1 /\ (n + 1) \div d = n \div d
      \/ (n + 1) % d = 0 /\ (n + 1) \div d = n \div d + 1
  BY <1>2, <1>3, Zenon
<1>5. r + 1 # 0
  OBVIOUS
<1>. QED
  BY <1>4, <1>5, Zenon

\* A multiple of a multiple is a multiple.
LEMMA ModOfMultiple ==
    ASSUME NEW n \in Nat, NEW d \in Nat \ {0}, NEW e \in Nat \ {0}, e % d = 0, n % e = 0
    PROVE  n % d = 0
<1>1. PICK q \in Nat : n = e * q + 0
  BY DivMod
<1>2. PICK p \in Nat : e = d * p + 0
  BY DivMod
<1>3. n = d * (p * q) + 0 /\ p * q \in Nat
  <2>1. p * q \in Nat
    OBVIOUS
  <2>2. (d * p) * q = d * (p * q)
    OBVIOUS
  <2>3. n = e * q /\ e = d * p
    BY <1>1, <1>2
  <2>4. n = d * (p * q)
    BY <2>2, <2>3
  <2>5. d * (p * q) + 0 = d * (p * q)
    BY <2>1
  <2>. QED
    BY <2>1, <2>4, <2>5
<1>4. QED
  BY <1>3, Unique

\* The first multiple above n.
LEMMA NextMultiple ==
    ASSUME NEW n \in Nat, NEW d \in Nat \ {0}
    PROVE  \E next \in Nat : /\ next = (n \div d + 1) * d
                             /\ next >= n + 1
                             /\ next = n + 1 <=> (n + 1) % d = 0
<1>1. PICK q \in Nat, r \in 0..(d - 1) : q = n \div d /\ r = n % d /\ n = d * q + r
  BY DivMod
<1>2. PICK m \in Nat : m = d * q
  OBVIOUS
<1>3. (q + 1) * d = m + d
  BY <1>2
<1>4. n = m + r
  BY <1>1, <1>2
<1>5. (n + 1) % d = 0 <=> r = d - 1
  <2>1. \/ r < d - 1 /\ (n + 1) % d = r + 1
        \/ r = d - 1 /\ (n + 1) % d = 0
    BY <1>1, ModStep, Zenon
  <2>. QED
    BY <2>1
<1>6. (n \div d + 1) * d = m + d
  <2>1. (n \div d + 1) * d = (q + 1) * d
    BY <1>1, Zenon
  <2>. QED
    BY <1>3, <2>1, Zenon
<1>7. m + d >= n + 1 /\ (m + d = n + 1 <=> r = d - 1)
  BY <1>4
<1>. QED
  BY <1>5, <1>6, <1>7

\* Quotients of nothing and of one.
LEMMA Small ==
    ASSUME NEW d \in Nat \ {0}
    PROVE  /\ 0 \div d = 0 /\ 0 % d = 0
           /\ d # 1 => 1 \div d = 0 /\ 1 % d = 1
<1>1. d * 0 + 0 = 0 /\ d * 0 + 1 = 1
  OBVIOUS
<1>2. (d * 0 + 0) \div d = 0 /\ (d * 0 + 0) % d = 0
  BY Unique
<1>3. d # 1 => 1 < d
  OBVIOUS
<1>4. d # 1 => (d * 0 + 1) \div d = 0 /\ (d * 0 + 1) % d = 1
  BY <1>3, Unique
<1>. QED
  BY <1>1, <1>2, <1>4

-----------------------------------------------------------------------------
(* Sums.  SumFunctionOnSet adds up in an order that CHOOSE determines: the *)
(* facts here free its uses from that order.                               *)

LEMMA LeastOf ==
    ASSUME NEW T \in SUBSET Nat, T # {}
    PROVE  \E n \in T : \A m \in T : n <= m
<1>1. \E n \in T : \A m \in T : ~(<<m, n>> \in OpToRel(<, Nat))
  BY NatLessThanWellFounded, WFMin, Zenon
<1>2. PICK n \in T : \A m \in T : ~(<<m, n>> \in OpToRel(<, Nat))
  BY <1>1, Zenon
<1>3. \A m \in T : ~(m < n)
  BY <1>2 DEF OpToRel
<1>. QED
  BY <1>3

Pick(s) == CHOOSE x \in s : TRUE

Added(f, s, sums) == IF s = {} THEN 0 ELSE f[Pick(s)] + sums[s \ {Pick(s)}]

\* The recursion behind SumFunctionOnSet(f, S), on all subsets of S.
Sums(f, S, sums) == sums = [s \in SUBSET S |-> Added(f, s, sums)]

LEMMA OneLess ==
    ASSUME NEW s, IsFiniteSet(s), NEW x \in s
    PROVE  /\ IsFiniteSet(s \ {x})
           /\ Cardinality(s) \in Nat /\ Cardinality(s \ {x}) \in Nat
           /\ Cardinality(s \ {x}) = Cardinality(s) - 1
BY FS_RemoveElement, FS_CardinalityType

LEMMA Picked ==
    ASSUME NEW s, s # {}
    PROVE  Pick(s) \in s
BY DEF Pick

LEMMA SumsExist ==
    ASSUME NEW f, NEW S, IsFiniteSet(S)
    PROVE  \E sums : Sums(f, S, sums)
<1>. DEFINE Sized(n) == {s \in SUBSET S : Cardinality(s) <= n}
            Upto(n, sums) == sums = [s \in Sized(n) |-> Added(f, s, sums)]
            Missing == {n \in Nat : ~\E sums : Upto(n, sums)}
<1>1. \A s \in SUBSET S : IsFiniteSet(s) /\ Cardinality(s) \in Nat /\ Cardinality(s) <= Cardinality(S)
  BY FS_Subset, FS_CardinalityType
<1>2. \E sums : Upto(0, sums)
  <2>1. \A s \in Sized(0) : s = {}
    BY <1>1, FS_EmptySet
  <2>. DEFINE sums == [s \in Sized(0) |-> 0]
  <2>2. \A s \in Sized(0) : Added(f, s, sums) = 0
    BY <2>1 DEF Added
  <2>. QED  BY <2>2
<1>3. ASSUME NEW n \in Nat, \E sums : Upto(n, sums)
      PROVE  \E sums : Upto(n + 1, sums)
  <2>1. PICK sums : Upto(n, sums)
    BY <1>3
  <2>. DEFINE more == [s \in Sized(n + 1) |-> Added(f, s, sums)]
  <2>2. ASSUME NEW s \in Sized(n + 1)
        PROVE  Added(f, s, sums) = Added(f, s, more)
    <3>1. CASE s = {}
      BY <3>1 DEF Added
    <3>2. CASE s # {}
      <4>1. s \ {Pick(s)} \in Sized(n)
        BY <1>1, <3>2, OneLess, Picked
      <4>2. s \ {Pick(s)} \in Sized(n + 1)
        BY <1>1, <4>1
      <4>3. sums[s \ {Pick(s)}] = Added(f, s \ {Pick(s)}, sums)
        BY <2>1, <4>1
      <4>4. more[s \ {Pick(s)}] = Added(f, s \ {Pick(s)}, sums)
        BY <4>2
      <4>. QED  BY <3>2, <4>3, <4>4 DEF Added
    <3>. QED  BY <3>1, <3>2
  <2>3. Upto(n + 1, more)
    BY <2>2
  <2>. QED  BY <2>3
<1>4. Missing = {}
  <2>. SUFFICES ASSUME Missing # {} PROVE FALSE
    OBVIOUS
  <2>1. PICK n \in Missing : \A m \in Missing : n <= m
    BY LeastOf
  <2>. HIDE DEF Upto
  <2>2. n \in Nat /\ n # 0 /\ ~\E sums : Upto(n, sums)
    BY <1>2, <2>1
  <2>3. PICK m \in Nat : n = m + 1
    <3>1. n - 1 \in Nat /\ n = (n - 1) + 1
      BY <2>2
    <3>. QED  BY <3>1
  <2>4. m \notin Missing
    BY <2>1, <2>3
  <2>5. \E sums : Upto(m + 1, sums)
    BY <1>3, <2>4
  <2>. QED  BY <2>2, <2>3, <2>5, Zenon
<1>5. Cardinality(S) \in Nat
  BY FS_CardinalityType
<1>6. PICK sums : Upto(Cardinality(S), sums)
  BY <1>4, <1>5
<1>7. Sized(Cardinality(S)) = SUBSET S
  BY <1>1
<1>. QED
  BY <1>6, <1>7 DEF Sums

LEMMA SumsAgree ==
    ASSUME NEW f, NEW g, NEW S, NEW T \in SUBSET S, IsFiniteSet(S),
           \A x \in T : f[x] = g[x],
           NEW sums, Sums(f, S, sums), NEW less, Sums(g, T, less)
    PROVE  \A s \in SUBSET T : sums[s] = less[s]
<1>. DEFINE Wrong == {n \in Nat : \E s \in SUBSET T : Cardinality(s) = n /\ sums[s] # less[s]}
<1>1. \A s \in SUBSET T : IsFiniteSet(s) /\ Cardinality(s) \in Nat
  BY FS_Subset, FS_CardinalityType
<1>. SUFFICES ASSUME Wrong # {} PROVE FALSE
  BY <1>1
<1>2. PICK n \in Wrong : \A m \in Wrong : n <= m
  BY LeastOf
<1>3. PICK s \in SUBSET T : Cardinality(s) = n /\ sums[s] # less[s]
  BY <1>2
<1>4. sums[s] = Added(f, s, sums) /\ less[s] = Added(g, s, less)
  BY DEF Sums
<1>5. s # {}
  BY <1>3, <1>4 DEF Added
<1>6. /\ Pick(s) \in T /\ s \ {Pick(s)} \in SUBSET T
      /\ Cardinality(s \ {Pick(s)}) = n - 1 /\ n - 1 \in Nat
  BY <1>1, <1>3, <1>5, OneLess, Picked
<1>7. sums[s \ {Pick(s)}] = less[s \ {Pick(s)}]
  BY <1>2, <1>6
<1>8. Added(f, s, sums) = Added(g, s, less)
  BY <1>5, <1>6, <1>7 DEF Added
<1>. QED
  BY <1>3, <1>4, <1>8

LEMMA SumIsOfSums ==
    ASSUME NEW f, NEW S, IsFiniteSet(S)
    PROVE  \E sums : Sums(f, S, sums) /\ SumFunctionOnSet(f, S) = sums[S]
<1>. DEFINE sums == CHOOSE j : j = [s \in SUBSET S |->
                IF s = {} THEN 0
                ELSE f[CHOOSE x \in s : TRUE] + j[s \ {CHOOSE x \in s : TRUE}]]
<1>1. Sums(f, S, sums)
  <2>1. \E j : j = [s \in SUBSET S |->
                IF s = {} THEN 0
                ELSE f[CHOOSE x \in s : TRUE] + j[s \ {CHOOSE x \in s : TRUE}]]
    <3>1. \E j : Sums(f, S, j)
      BY SumsExist
    <3>. QED  BY <3>1, Zenon DEF Sums, Added, Pick
  <2>2. sums = [s \in SUBSET S |->
                IF s = {} THEN 0
                ELSE f[CHOOSE x \in s : TRUE] + sums[s \ {CHOOSE x \in s : TRUE}]]
    BY <2>1, Zenon
  <2>. QED  BY <2>2, Zenon DEF Sums, Added, Pick
<1>2. SumFunctionOnSet(f, S) = sums[S]
  BY Zenon DEF SumFunctionOnSet, FoldFunctionOnSet, MapThenFoldSet
<1>. QED
  BY <1>1, <1>2, Zenon

LEMMA SumOfNone ==
    ASSUME NEW f
    PROVE  SumFunctionOnSet(f, {}) = 0
<1>1. IsFiniteSet({})
  BY FS_EmptySet
<1>2. PICK sums : Sums(f, {}, sums) /\ SumFunctionOnSet(f, {}) = sums[{}]
  BY <1>1, SumIsOfSums
<1>. QED
  BY <1>2 DEF Sums, Added

LEMMA SumOfSame ==
    ASSUME NEW f, NEW g, NEW S, IsFiniteSet(S), \A x \in S : f[x] = g[x]
    PROVE  SumFunctionOnSet(f, S) = SumFunctionOnSet(g, S)
<1>1. PICK sums : Sums(f, S, sums) /\ SumFunctionOnSet(f, S) = sums[S]
  BY SumIsOfSums
<1>2. PICK same : Sums(g, S, same) /\ SumFunctionOnSet(g, S) = same[S]
  BY SumIsOfSums
<1>3. sums[S] = same[S]
  <2>1. S \in SUBSET S
    OBVIOUS
  <2>2. \A s \in SUBSET S : sums[s] = same[s]
    BY <1>1, <1>2, <2>1, SumsAgree
  <2>. QED  BY <2>1, <2>2
<1>. QED
  BY <1>1, <1>2, <1>3

LEMMA SumPicks ==
    ASSUME NEW f, NEW S, IsFiniteSet(S), S # {}
    PROVE  SumFunctionOnSet(f, S) = f[Pick(S)] + SumFunctionOnSet(f, S \ {Pick(S)})
<1>. DEFINE rest == S \ {Pick(S)}
<1>1. PICK sums : Sums(f, S, sums) /\ SumFunctionOnSet(f, S) = sums[S]
  BY SumIsOfSums
<1>2. IsFiniteSet(rest) /\ rest \in SUBSET S
  BY OneLess, Picked
<1>3. PICK less : Sums(f, rest, less) /\ SumFunctionOnSet(f, rest) = less[rest]
  BY <1>2, SumIsOfSums
<1>4. sums[rest] = less[rest]
  BY <1>1, <1>2, <1>3, SumsAgree
<1>5. sums[S] = Added(f, S, sums)
  BY <1>1 DEF Sums
<1>. QED
  BY <1>1, <1>3, <1>4, <1>5 DEF Added

LEMMA SumType ==
    ASSUME NEW f, NEW S, IsFiniteSet(S), \A x \in S : f[x] \in Int
    PROVE  SumFunctionOnSet(f, S) \in Int
<1>. DEFINE Wrong == {n \in Nat : \E s \in SUBSET S :
                          Cardinality(s) = n /\ SumFunctionOnSet(f, s) \notin Int}
<1>1. \A s \in SUBSET S : IsFiniteSet(s) /\ Cardinality(s) \in Nat
  BY FS_Subset, FS_CardinalityType
<1>. SUFFICES ASSUME Wrong # {} PROVE FALSE
  BY <1>1
<1>2. PICK n \in Wrong : \A m \in Wrong : n <= m
  BY LeastOf
<1>3. PICK s \in SUBSET S : Cardinality(s) = n /\ SumFunctionOnSet(f, s) \notin Int
  BY <1>2
<1>4. s # {}
  BY <1>3, SumOfNone
<1>5. /\ Pick(s) \in S /\ s \ {Pick(s)} \in SUBSET S
      /\ Cardinality(s \ {Pick(s)}) = n - 1 /\ n - 1 \in Nat
  BY <1>1, <1>3, <1>4, OneLess, Picked
<1>6. SumFunctionOnSet(f, s \ {Pick(s)}) \in Int
  BY <1>2, <1>5
<1>7. SumFunctionOnSet(f, s) = f[Pick(s)] + SumFunctionOnSet(f, s \ {Pick(s)})
  BY <1>1, <1>4, SumPicks
<1>. QED
  BY <1>3, <1>5, <1>6, <1>7

\* Any member may be added last.
LEMMA SumWithout ==
    ASSUME NEW f, NEW S, IsFiniteSet(S), \A y \in S : f[y] \in Int, NEW x \in S
    PROVE  SumFunctionOnSet(f, S) = f[x] + SumFunctionOnSet(f, S \ {x})
<1>. DEFINE Right(s) == \A y \in s : SumFunctionOnSet(f, s) = f[y] + SumFunctionOnSet(f, s \ {y})
            Wrong == {n \in Nat : \E s \in SUBSET S : Cardinality(s) = n /\ ~Right(s)}
<1>1. \A s \in SUBSET S : IsFiniteSet(s) /\ Cardinality(s) \in Nat
  BY FS_Subset, FS_CardinalityType
<1>. SUFFICES ASSUME Wrong # {} PROVE FALSE
  BY <1>1
<1>2. PICK n \in Wrong : \A m \in Wrong : n <= m
  BY LeastOf
<1>3. PICK s \in SUBSET S : Cardinality(s) = n /\ ~Right(s)
  BY <1>2
<1>4. PICK y \in s : SumFunctionOnSet(f, s) # f[y] + SumFunctionOnSet(f, s \ {y})
  BY <1>3
<1>5. SumFunctionOnSet(f, s) = f[Pick(s)] + SumFunctionOnSet(f, s \ {Pick(s)})
  BY <1>1, SumPicks
<1>6. Pick(s) # y /\ Pick(s) \in s
  BY <1>4, <1>5 DEF Pick
<1>. DEFINE both == s \ {y, Pick(s)}
<1>7. \A z \in s : /\ s \ {z} \in SUBSET S /\ n - 1 \in Nat
                   /\ Cardinality(s \ {z}) = n - 1
  <2>1. n \in Nat
    BY <1>2
  <2>2. \A z \in s : Cardinality(s \ {z}) = n - 1 /\ Cardinality(s \ {z}) \in Nat
    BY <1>1, <1>3, OneLess
  <2>. QED  BY <2>1, <2>2
<1>8. \A z \in s : Right(s \ {z})
  BY <1>2, <1>7
<1>9. SumFunctionOnSet(f, s \ {Pick(s)}) = f[y] + SumFunctionOnSet(f, both)
  <2>1. y \in s \ {Pick(s)} /\ (s \ {Pick(s)}) \ {y} = both
    BY <1>6
  <2>. QED  BY <1>6, <1>8, <2>1
<1>10. SumFunctionOnSet(f, s \ {y}) = f[Pick(s)] + SumFunctionOnSet(f, both)
  <2>1. Pick(s) \in s \ {y} /\ (s \ {y}) \ {Pick(s)} = both
    BY <1>6
  <2>. QED  BY <1>8, <2>1
<1>11. SumFunctionOnSet(f, both) \in Int /\ f[y] \in Int /\ f[Pick(s)] \in Int
  BY <1>1, <1>6, SumType
<1>. QED
  BY <1>4, <1>5, <1>9, <1>10, <1>11
-----------------------------------------------------------------------------
(* The payout calendar.                                                    *)

LEMMA ScheduleConstants ==
    /\ LastLegacy \in Nat /\ Activation = LastLegacy + 1 /\ Activation <= LegacyDevEnd
    /\ LegacyDevEnd \in Nat /\ DevEnd \in Nat /\ DevEnd >= LastLegacy
    /\ LegacyDay \in Nat \ {0} /\ V2Day \in Nat \ {0} /\ V2Day > 1
    /\ Interval \in Nat \ {0} /\ Interval % V2Day = 0
    /\ ShareDenominator \in Nat \ {0}
<1>1. PICK rest \in Nat : rest = Duration - LastLegacy * LegacyTime
  BY EmissionAssumption DEF LastLegacy
<1>2. PICK q \in Nat : q = rest \div V2Time
  BY EmissionAssumption, DivMod
<1>3. DevEnd = LastLegacy + q
  BY <1>1, <1>2 DEF DevEnd
<1>. QED
  BY <1>3, EmissionAssumption DEF LastLegacy

\* Before the fork a payout is due at every multiple of the legacy day.
LEMMA LegacyPayouts ==
    ASSUME NEW h \in Nat, h < LastLegacy
    PROVE  /\ ~V2Active(h + 1)
           /\ PayoutDue(h + 1) <=> (h + 1) % LegacyDay = 0
<1>1. ~V2Active(h + 1) /\ DevActive(h + 1)
  BY ScheduleConstants DEF V2Active, DevActive
<1>2. PayoutDays(h + 1) = IF (h + 1) % LegacyDay = 0 THEN LegacyDay ELSE 0
  BY <1>1 DEF PayoutDays
<1>. QED
  BY <1>1, <1>2, ScheduleConstants DEF PayoutDue

\* From the fork on the days are counted from the last legacy block: a full day every V2Day
\* blocks up to the end of the allocation, and what is left of one there.
LEMMA V2Payouts ==
    ASSUME NEW k \in Nat, NEW h \in Nat, h = LastLegacy + k, DevEnd # Activation
    PROVE  /\ V2Active(h + 1)
           /\ DevActive(h + 1) <=> h < DevEnd
           /\ PayoutDays(h + 1) =
                IF h < DevEnd /\ ((k + 1) % V2Day = 0 \/ h + 1 = DevEnd)
                  THEN IF (k + 1) % V2Day = 0 THEN V2Day ELSE (k + 1) % V2Day
                  ELSE 0
<1>1. V2Active(h + 1) /\ (DevActive(h + 1) <=> h < DevEnd)
  BY ScheduleConstants DEF V2Active, DevActive
<1>2. (h + 1) - LastLegacy = k + 1
  BY ScheduleConstants
<1>3. h + 1 = Activation => k + 1 = 1
  BY ScheduleConstants
<1>4. 1 % V2Day = 1
  BY ScheduleConstants, Small
<1>5. CASE h + 1 = Activation
  <2>1. PayoutDays(h + 1) = 0
    BY <1>1, <1>5 DEF PayoutDays
  <2>2. (k + 1) % V2Day # 0
    BY <1>3, <1>4, <1>5
  <2>. QED
    BY <1>1, <1>5, <2>1, <2>2
<1>6. CASE h + 1 # Activation
  BY <1>1, <1>2, <1>6 DEF PayoutDays
<1>. QED
  BY <1>5, <1>6

\* A payout is due there exactly where a day is full, or at the end.
LEMMA V2PayoutsDue ==
    ASSUME NEW k \in Nat, NEW h \in Nat, h = LastLegacy + k, DevEnd # Activation
    PROVE  PayoutDue(h + 1) <=> h < DevEnd /\ ((k + 1) % V2Day = 0 \/ h + 1 = DevEnd)
<1>1. PICK m \in Nat : m = (k + 1) % V2Day
  BY ScheduleConstants, DivMod
<1>. QED
  BY <1>1, V2Payouts, ScheduleConstants DEF PayoutDue

\* next_development_payout_height names the next block exactly when a payout is due in it.
LEMMA NextIsNamed ==
    ASSUME NEW h \in Nat, DevEnd # Activation
    PROVE  PayoutDue(h + 1) <=> NextPayoutHeight(h) = h + 1
<1>1. CASE h < LastLegacy
  <2>1. PICK legacy \in Nat : /\ legacy = (h \div LegacyDay + 1) * LegacyDay
                              /\ legacy >= h + 1
                              /\ legacy = h + 1 <=> (h + 1) % LegacyDay = 0
    BY NextMultiple, ScheduleConstants
  <2>2. PayoutDue(h + 1) <=> legacy = h + 1
    BY <1>1, <2>1, LegacyPayouts
  <2>3. CASE legacy < Activation
    BY <1>1, <2>1, <2>2, <2>3 DEF NextPayoutHeight
  <2>4. CASE ~(legacy < Activation)
    <3>1. legacy # h + 1
      BY <1>1, <2>1, <2>4, ScheduleConstants
    <3>2. PICK next \in Nat : next = (0 \div V2Day + 1) * V2Day /\ next >= 0 + 1
      BY NextMultiple, ScheduleConstants
    <3>3. Greater(h, LastLegacy) - LastLegacy = 0
      BY <1>1, ScheduleConstants DEF Greater
    <3>4. NextPayoutHeight(h) = IF LastLegacy + next <= DevEnd THEN LastLegacy + next
                                ELSE IF h < DevEnd /\ FinalPartialPayoutBlocks # 0 THEN DevEnd
                                ELSE NoHeight
      BY <2>1, <2>4, <3>2, <3>3 DEF NextPayoutHeight
    <3>5. DevEnd = LastLegacy => FinalPartialPayoutBlocks = 0
      <4>1. DevEnd = LastLegacy => DevEnd - LastLegacy = 0
        BY ScheduleConstants
      <4>. QED
        BY <4>1, Small, ScheduleConstants DEF FinalPartialPayoutBlocks
    <3>. QED
      BY <1>1, <2>2, <3>1, <3>2, <3>4, <3>5, ScheduleConstants DEF NoHeight
  <2>. QED
    BY <2>3, <2>4
<1>2. CASE h >= LastLegacy
  <2>1. PICK k \in Nat : h = LastLegacy + k
    <3>1. h - LastLegacy \in Nat /\ h = LastLegacy + (h - LastLegacy)
      BY <1>2, ScheduleConstants
    <3>. QED
      BY <3>1
  <2>2. PICK next \in Nat : /\ next = (k \div V2Day + 1) * V2Day
                            /\ next >= k + 1
                            /\ next = k + 1 <=> (k + 1) % V2Day = 0
    BY NextMultiple, ScheduleConstants
  <2>3. Greater(h, LastLegacy) - LastLegacy = k
    BY <1>2, <2>1, ScheduleConstants DEF Greater
  <2>4. NextPayoutHeight(h) = IF LastLegacy + next <= DevEnd THEN LastLegacy + next
                              ELSE IF h < DevEnd /\ FinalPartialPayoutBlocks # 0 THEN DevEnd
                              ELSE NoHeight
    <3>1. ~(h < LastLegacy)
      BY <1>2, ScheduleConstants
    <3>. QED
      BY <2>2, <2>3, <3>1 DEF NextPayoutHeight
  <2>5. PayoutDue(h + 1) <=> h < DevEnd /\ (next = k + 1 \/ h + 1 = DevEnd)
    BY <2>1, <2>2, V2PayoutsDue
  <2>6. h + 1 = DevEnd /\ next # k + 1 => FinalPartialPayoutBlocks # 0
    <3>1. h + 1 = DevEnd => DevEnd - LastLegacy = k + 1
      BY <2>1, ScheduleConstants
    <3>. QED
      BY <2>2, <3>1 DEF FinalPartialPayoutBlocks
  <2>. QED
    BY <2>1, <2>2, <2>4, <2>5, <2>6, ScheduleConstants DEF NoHeight
<1>. QED
  BY <1>1, <1>2, ScheduleConstants

LEMMA RegularPayouts ==
    ASSUME NEW h \in Nat
    PROVE  RegularPayoutsIn(Activation, h) =
             IF Lesser(h, DevEnd) < Activation THEN 0
             ELSE (Lesser(h, DevEnd) - LastLegacy) \div V2Day
<1> DEFINE hi == Lesser(h, DevEnd)
<1>1. Greater(Activation, Activation) = Activation
  BY DEF Greater
<1>2. (Activation - LastLegacy + V2Day - 1) \div V2Day = 1
  <2>1. Activation - LastLegacy + V2Day - 1 = V2Day * 1 + 0
    BY ScheduleConstants
  <2>2. (V2Day * 1 + 0) \div V2Day = 1
    BY ScheduleConstants, Unique
  <2>. QED
    BY <2>1, <2>2
<1>3. hi \in Nat
  BY ScheduleConstants DEF Lesser
<1>4. CASE hi < Activation
  BY <1>1, <1>4 DEF RegularPayoutsIn
<1>5. CASE ~(hi < Activation)
  <2>1. PICK q \in Nat : q = (hi - LastLegacy) \div V2Day
    <3>1. hi - LastLegacy \in Nat
      BY <1>3, <1>5, ScheduleConstants
    <3>. QED
      BY <3>1, DivMod, ScheduleConstants
  <2>2. RegularPayoutsIn(Activation, h) = Greater(q + 1 - 1, 0)
    BY <1>1, <1>2, <1>5, <2>1 DEF RegularPayoutsIn
  <2>3. Greater(q + 1 - 1, 0) = q
    BY DEF Greater
  <2>. QED
    BY <1>5, <2>1, <2>2, <2>3
<1>. QED
  BY <1>4, <1>5

\* development_payout_blocks_up_to, with the regular payouts of v2 written out.
LEMMA PayoutBlocks ==
    ASSUME NEW h \in Nat
    PROVE  \E legacy \in Nat, regular \in Nat, final \in {0, 1} :
             /\ legacy = Lesser(h, LastLegacy) \div LegacyDay
             /\ regular = IF Lesser(h, DevEnd) < Activation THEN 0
                          ELSE (Lesser(h, DevEnd) - LastLegacy) \div V2Day
             /\ final = IF FinalPartialPayoutBlocks # 0 /\ h >= DevEnd THEN 1 ELSE 0
             /\ PayoutBlocksUpTo(h) = legacy + regular + final
<1>1. PICK legacy \in Nat : legacy = Lesser(h, LastLegacy) \div LegacyDay
  <2>1. Lesser(h, LastLegacy) \in Nat
    BY ScheduleConstants DEF Lesser
  <2>. QED
    BY <2>1, DivMod, ScheduleConstants
<1>2. PICK regular \in Nat : regular = IF Lesser(h, DevEnd) < Activation THEN 0
                                       ELSE (Lesser(h, DevEnd) - LastLegacy) \div V2Day
  <2>1. CASE Lesser(h, DevEnd) < Activation
    BY <2>1
  <2>2. CASE ~(Lesser(h, DevEnd) < Activation)
    <3>1. Lesser(h, DevEnd) - LastLegacy \in Nat
      BY <2>2, ScheduleConstants DEF Lesser
    <3>. QED
      BY <2>2, <3>1, DivMod, ScheduleConstants
  <2>. QED
    BY <2>1, <2>2
<1>. QED
  BY <1>1, <1>2, RegularPayouts DEF PayoutBlocksUpTo

\* None before the first block.
LEMMA NoPayoutAtGenesis == PayoutBlocksUpTo(0) = 0
<1>1. PICK legacy \in Nat, regular \in Nat, final \in {0, 1} :
             /\ legacy = Lesser(0, LastLegacy) \div LegacyDay
             /\ regular = IF Lesser(0, DevEnd) < Activation THEN 0
                          ELSE (Lesser(0, DevEnd) - LastLegacy) \div V2Day
             /\ final = IF FinalPartialPayoutBlocks # 0 /\ 0 >= DevEnd THEN 1 ELSE 0
             /\ PayoutBlocksUpTo(0) = legacy + regular + final
  BY PayoutBlocks
<1>2. Lesser(0, LastLegacy) = 0 /\ Lesser(0, DevEnd) = 0
  BY ScheduleConstants DEF Lesser
<1>3. legacy = 0 /\ regular = 0
  BY <1>1, <1>2, Small, ScheduleConstants
<1>4. 0 >= DevEnd => DevEnd - LastLegacy = 0
  BY ScheduleConstants
<1>5. final = 0
  BY <1>1, <1>4, Small, ScheduleConstants DEF FinalPartialPayoutBlocks
<1>. QED
  BY <1>1, <1>3, <1>5

\* The closed form counts the payouts one by one.
LEMMA PayoutsCounted ==
    ASSUME NEW h \in Nat, DevEnd # Activation
    PROVE  /\ PayoutBlocksUpTo(h) \in Nat
           /\ PayoutBlocksUpTo(h + 1) = PayoutBlocksUpTo(h) + (IF PayoutDue(h + 1) THEN 1 ELSE 0)
<1>1. PICK legacy \in Nat, regular \in Nat, final \in {0, 1} :
             /\ legacy = Lesser(h, LastLegacy) \div LegacyDay
             /\ regular = IF Lesser(h, DevEnd) < Activation THEN 0
                          ELSE (Lesser(h, DevEnd) - LastLegacy) \div V2Day
             /\ final = IF FinalPartialPayoutBlocks # 0 /\ h >= DevEnd THEN 1 ELSE 0
             /\ PayoutBlocksUpTo(h) = legacy + regular + final
  BY PayoutBlocks
<1>2. PICK legacy1 \in Nat, regular1 \in Nat, final1 \in {0, 1} :
             /\ legacy1 = Lesser(h + 1, LastLegacy) \div LegacyDay
             /\ regular1 = IF Lesser(h + 1, DevEnd) < Activation THEN 0
                           ELSE (Lesser(h + 1, DevEnd) - LastLegacy) \div V2Day
             /\ final1 = IF FinalPartialPayoutBlocks # 0 /\ h + 1 >= DevEnd THEN 1 ELSE 0
             /\ PayoutBlocksUpTo(h + 1) = legacy1 + regular1 + final1
  BY PayoutBlocks
<1>3. CASE h < LastLegacy
  <2>1. Lesser(h, LastLegacy) = h /\ Lesser(h + 1, LastLegacy) = h + 1
    BY <1>3, ScheduleConstants DEF Lesser
  <2>2. legacy1 = IF (h + 1) % LegacyDay = 0 THEN legacy + 1 ELSE legacy
    <3>1. legacy = h \div LegacyDay /\ legacy1 = (h + 1) \div LegacyDay
      BY <1>1, <1>2, <2>1, Zenon
    <3>2. /\ (h + 1) % LegacyDay = 0 => legacy1 = legacy + 1
          /\ (h + 1) % LegacyDay # 0 => legacy1 = legacy
      BY <3>1, QuotientStep, ScheduleConstants, Zenon
    <3>. QED
      BY <3>2
  <2>3. regular = 0 /\ regular1 = 0
    <3>1. Lesser(h, DevEnd) < Activation /\ Lesser(h + 1, DevEnd) < Activation
      BY <1>3, ScheduleConstants DEF Lesser
    <3>. QED
      BY <1>1, <1>2, <3>1
  <2>4. final = 0 /\ final1 = 0
    <3>1. ~(h >= DevEnd)
      BY <1>3, ScheduleConstants
    <3>2. h + 1 >= DevEnd => DevEnd - LastLegacy = 0
      BY <1>3, ScheduleConstants
    <3>. QED
      BY <1>1, <1>2, <3>1, <3>2, Small, ScheduleConstants DEF FinalPartialPayoutBlocks
  <2>5. PayoutDue(h + 1) <=> (h + 1) % LegacyDay = 0
    BY <1>3, LegacyPayouts
  <2>. QED
    BY <1>1, <1>2, <2>2, <2>3, <2>4, <2>5
<1>4. CASE ~(h < LastLegacy)
  <2>1. PICK k \in Nat : h = LastLegacy + k
    <3>1. h - LastLegacy \in Nat /\ h = LastLegacy + (h - LastLegacy)
      BY <1>4, ScheduleConstants
    <3>. QED
      BY <3>1
  <2>2. legacy1 = legacy
    <3>1. Lesser(h, LastLegacy) = LastLegacy /\ Lesser(h + 1, LastLegacy) = LastLegacy
      BY <1>4, ScheduleConstants DEF Lesser
    <3>. QED
      BY <1>1, <1>2, <3>1
  <2>3. PayoutDue(h + 1) <=> h < DevEnd /\ ((k + 1) % V2Day = 0 \/ h + 1 = DevEnd)
    BY <2>1, V2PayoutsDue
  <2>4. CASE ~(h < DevEnd)
    <3>1. Lesser(h, DevEnd) = DevEnd /\ Lesser(h + 1, DevEnd) = DevEnd
      BY <2>4, ScheduleConstants DEF Lesser
    <3>2. regular1 = regular
      BY <1>1, <1>2, <3>1
    <3>3. h >= DevEnd /\ h + 1 >= DevEnd
      BY <2>4, ScheduleConstants
    <3>4. final1 = final
      BY <1>1, <1>2, <3>3
    <3>. QED
      BY <1>1, <1>2, <2>2, <2>3, <2>4, <3>2, <3>4
  <2>5. CASE h < DevEnd
    <3>1. Lesser(h, DevEnd) = h /\ Lesser(h + 1, DevEnd) = h + 1
      BY <2>5, ScheduleConstants DEF Lesser
    <3>2. ~(h + 1 < Activation) /\ (h < Activation <=> k = 0)
      BY <2>1, ScheduleConstants
    <3>3. h - LastLegacy = k /\ (h + 1) - LastLegacy = k + 1
      BY <2>1, ScheduleConstants
    <3>4. regular1 = (k + 1) \div V2Day
      <4>1. ~(Lesser(h + 1, DevEnd) < Activation) /\ Lesser(h + 1, DevEnd) - LastLegacy = k + 1
        BY <2>1, <3>1, ScheduleConstants
      <4>. QED
        BY <1>2, <4>1, Zenon
    <3>5. regular = k \div V2Day
      BY <1>1, <3>1, <3>2, <3>3, Small, ScheduleConstants
    <3>6. /\ (k + 1) % V2Day = 0 => regular1 = regular + 1
          /\ (k + 1) % V2Day # 0 => regular1 = regular
      <4>1. /\ (k + 1) % V2Day = 0 => (k + 1) \div V2Day = k \div V2Day + 1
            /\ (k + 1) % V2Day # 0 => (k + 1) \div V2Day = k \div V2Day
        BY QuotientStep, ScheduleConstants
      <4>. QED
        BY <3>4, <3>5, <4>1, Zenon
    <3>7. final = 0
      <4>1. ~(h >= DevEnd)
        BY <2>5, ScheduleConstants
      <4>. QED
        BY <1>1, <4>1
    <3>8. final1 = 1 <=> (k + 1) % V2Day # 0 /\ h + 1 = DevEnd
      <4>1. h + 1 >= DevEnd <=> h + 1 = DevEnd
        BY <2>5, ScheduleConstants
      <4>2. h + 1 = DevEnd => DevEnd - LastLegacy = k + 1
        BY <2>1, ScheduleConstants
      <4>3. h + 1 = DevEnd => FinalPartialPayoutBlocks = (k + 1) % V2Day
        BY <4>2, Zenon DEF FinalPartialPayoutBlocks
      <4>4. final1 = IF FinalPartialPayoutBlocks # 0 /\ h + 1 >= DevEnd THEN 1 ELSE 0
        BY <1>2, Zenon
      <4>. QED
        BY <4>1, <4>3, <4>4
    <3>. QED
      BY <1>1, <1>2, <2>2, <2>3, <2>5, <3>6, <3>7, <3>8
  <2>. QED
    BY <2>4, <2>5
<1>. QED
  BY <1>3, <1>4

-----------------------------------------------------------------------------
(* Every reachable state.                                                  *)

\* The headers state sizes.
SizesInv == slots \in Seq(Nat)

\* A block makes the chain one longer; the node's figures move only with a block.
LEMMA ChainGrows ==
    ASSUME SizesInv, [Next]_vars
    PROVE  /\ SizesInv'
           /\ \/ UNCHANGED node
              \/ tip' = tip + 1 /\ NodeMines
<1>1. CASE NodeMines
  <2>1. PICK logSlots \in {LogSlots, LogSlots + 1}, newActive \in ActiveCounts,
             tx \in Transactions \cup {NoTransaction} : Block(logSlots, newActive, tx)
    BY <1>1 DEF NodeMines
  <2>2. LogSlots \in Nat
    BY EmissionAssumption DEF SizesInv, LogSlots, tip
  <2>3. slots' = Append(slots, logSlots) /\ logSlots \in Nat
    BY <2>1, <2>2 DEF Block
  <2>. QED
    BY <1>1, <2>3 DEF SizesInv, tip
<1>2. CASE UNCHANGED node
  BY <1>2 DEF SizesInv, node
<1>. QED
  BY <1>1, <1>2 DEF Next, Ask, vars

LEMMA SizesHold == Spec => []SizesInv
<1>1. Init => SizesInv
  BY DEF Init, SizesInv
<1>2. SizesInv /\ [Next]_vars => SizesInv'
  BY ChainGrows
<1>. QED
  BY <1>1, <1>2, PTL DEF Spec

\* NextPayoutIsNext: with every block the chain grows by, the height announced before is that
\* block's exactly if it pays (next_development_payout_height against payout_due).
THEOREM NextPayoutIsNextHolds ==
    ASSUME DevEnd # Activation
    PROVE  Spec => NextPayoutIsNext
<1>1. SizesInv /\ [Next]_vars
        => [tip' > tip => (PayoutDue(tip') <=> NextPayoutHeight(tip) = tip')]_vars
  <2>. SUFFICES ASSUME SizesInv, [Next]_vars, tip' > tip
                PROVE  PayoutDue(tip') <=> NextPayoutHeight(tip) = tip'
    OBVIOUS
  <2>1. tip \in Nat
    BY DEF SizesInv, tip
  <2>2. tip' = tip + 1
    <3>1. UNCHANGED node => tip' = tip
      BY DEF node, tip
    <3>. QED
      BY <2>1, <3>1, ChainGrows
  <2>. QED
    BY <2>1, <2>2, NextIsNamed
<1>. QED
  BY <1>1, SizesHold, PTL DEF Spec, NextPayoutIsNext

\* Every block mints one coinbase output, a payout two more, a transaction its outputs.
MintsInv ==
    /\ SizesInv
    /\ created \in Nat
    /\ alloc = tip + 2 * PayoutBlocksUpTo(tip) + created

LEMMA MintsInit == Init => MintsInv
<1>. SUFFICES ASSUME Init PROVE MintsInv
  OBVIOUS
<1>1. slots = <<>> /\ tip = 0 /\ alloc = 0 /\ created = 0
  BY DEF Init, tip
<1>2. PayoutBlocksUpTo(tip) = 0
  BY <1>1, NoPayoutAtGenesis
<1>. QED
  BY <1>1, <1>2 DEF MintsInv, SizesInv

LEMMA MintsStep ==
    ASSUME DevEnd # Activation
    PROVE  MintsInv /\ [Next]_vars => MintsInv'
<1>. SUFFICES ASSUME MintsInv, [Next]_vars PROVE MintsInv'
  OBVIOUS
<1>1. SizesInv' /\ tip \in Nat
  BY ChainGrows DEF MintsInv, SizesInv, tip
<1>2. CASE UNCHANGED node
  BY <1>1, <1>2 DEF MintsInv, node, tip
<1>3. CASE tip' = tip + 1 /\ NodeMines
  <2>1. PICK logSlots \in {LogSlots, LogSlots + 1}, newActive \in ActiveCounts,
             tx \in Transactions \cup {NoTransaction} : Block(logSlots, newActive, tx)
    BY <1>3 DEF NodeMines
  <2>2. tx.outputs \in Nat
    BY SupplyAssumption DEF NoTransaction
  <2>3. PICK h \in Nat : h = tip
    BY <1>1
  <2>4. /\ alloc' = alloc + 1 + (IF PayoutDue(h + 1) THEN 2 ELSE 0) + tx.outputs
        /\ created' = created + tx.outputs
    BY <2>1, <2>3 DEF Block
  <2>5. PICK paid \in Nat : paid = PayoutBlocksUpTo(h)
    BY PayoutsCounted
  <2>6. PayoutBlocksUpTo(tip') = paid + (IF PayoutDue(h + 1) THEN 1 ELSE 0)
    BY <1>3, <2>3, <2>5, PayoutsCounted
  <2>7. alloc = h + 2 * paid + created /\ created \in Nat
    BY <2>3, <2>5 DEF MintsInv
  <2>8. alloc' = tip' + 2 * PayoutBlocksUpTo(tip') + created' /\ created' \in Nat
    BY <1>3, <2>2, <2>3, <2>4, <2>6, <2>7
  <2>. QED
    BY <1>1, <2>8 DEF MintsInv
<1>. QED
  BY <1>2, <1>3, ChainGrows DEF MintsInv

\* UserMintsAreTheUsers: alloc_counter less the coinbases and the payouts of the closed form
\* (user_mints) is what transactions created, at every height.
THEOREM UserMintsAreTheUsersHolds ==
    ASSUME DevEnd # Activation
    PROVE  Spec => []UserMintsAreTheUsers
<1>1. MintsInv => UserMintsAreTheUsers
  <2>. SUFFICES ASSUME MintsInv PROVE UserMintsAreTheUsers
    OBVIOUS
  <2>1. tip \in Nat /\ PayoutBlocksUpTo(tip) \in Nat
    BY PayoutsCounted DEF MintsInv, SizesInv, tip
  <2>. QED
    BY <2>1 DEF MintsInv, UserMintsAreTheUsers, UserMints
<1>2. MintsInv /\ [Next]_vars => MintsInv'
  BY MintsStep
<1>. QED
  BY <1>1, <1>2, MintsInit, PTL DEF Spec

-----------------------------------------------------------------------------
(* The withheld shares.                                                    *)

\* One fund's share of a v2 block.
ShareOf(h) == Rewards[Tier(h)] \div ShareDenominator

LEMMA ShareIsNat ==
    ASSUME NEW h \in Nat, h >= Activation
    PROVE  ShareOf(h) \in Nat
<1>1. PICK q \in Nat : q = (h - Activation) \div Interval
  <2>1. h - Activation \in Nat
    BY ScheduleConstants
  <2>. QED
    BY <2>1, DivMod, ScheduleConstants
<1>2. Len(Rewards) \in Nat /\ Len(Rewards) >= 1
  BY EmissionAssumption
<1>3. Tier(h) \in 1..Len(Rewards)
  BY <1>1, <1>2 DEF Tier, Lesser
<1>4. PICK reward \in Nat : reward = Rewards[Tier(h)]
  BY <1>3, EmissionAssumption
<1>. QED
  BY <1>4, DivMod, ScheduleConstants DEF ShareOf

\* Within a day of v2 the tier does not change.
LEMMA SameTier ==
    ASSUME NEW k \in Nat, NEW h \in Nat, h = LastLegacy + k, k % V2Day # 0
    PROVE  ShareOf(h + 1) = ShareOf(h)
<1>1. k # 0
  BY Small, ScheduleConstants
<1>2. PICK j \in Nat : k = j + 1
  <2>1. k - 1 \in Nat /\ k = (k - 1) + 1
    BY <1>1
  <2>. QED
    BY <2>1
<1>3. (j + 1) % Interval # 0
  BY <1>2, ModOfMultiple, ScheduleConstants
<1>4. (j + 1) \div Interval = j \div Interval
  BY <1>3, QuotientStep, ScheduleConstants
<1>5. h - Activation = j /\ (h + 1) - Activation = j + 1
  BY <1>2, ScheduleConstants
<1>6. PICK q \in Nat : q = j \div Interval /\ q = (j + 1) \div Interval
  BY <1>4, DivMod, ScheduleConstants
<1>7. Tier(h + 1) = Tier(h)
  <2>1. (h - Activation) \div Interval = q /\ ((h + 1) - Activation) \div Interval = q
    BY <1>5, <1>6
  <2>2. Tier(h) = Lesser(q + 1, Len(Rewards)) /\ Tier(h + 1) = Lesser(q + 1, Len(Rewards))
    BY <2>1 DEF Tier
  <2>. QED
    BY <2>1, <2>2
<1>. QED
  BY <1>7, Zenon DEF ShareOf

\* What is withheld and not paid out yet is the shares of the day that has begun.
WithheldInv ==
    /\ SizesInv
    /\ unpaid = IF tip < Activation \/ tip >= DevEnd THEN 0
                ELSE 2 * ShareOf(tip) * ((tip - LastLegacy) % V2Day)

LEMMA WithheldInit == Init => WithheldInv
<1>. SUFFICES ASSUME Init PROVE WithheldInv
  OBVIOUS
<1>1. slots = <<>> /\ tip = 0 /\ unpaid = 0
  BY DEF Init, tip
<1>2. tip < Activation
  BY <1>1, ScheduleConstants
<1>. QED
  BY <1>1, <1>2 DEF WithheldInv, SizesInv

\* What unpaid becomes with the first block after h = LastLegacy + k.
LEMMA WithheldBlock ==
    ASSUME NEW k \in Nat, NEW h \in Nat, h = LastLegacy + k, NEW before \in Int,
           NEW logSlots, DevEnd # Activation,
           before = IF h < Activation \/ h >= DevEnd THEN 0 ELSE 2 * ShareOf(h) * (k % V2Day)
    PROVE  before + Withheld(h + 1, logSlots) - Payout(h + 1, logSlots)
             = IF h + 1 >= DevEnd THEN 0 ELSE 2 * ShareOf(h + 1) * ((k + 1) % V2Day)
<1>1. PICK share \in Nat : share = ShareOf(h + 1)
  BY ShareIsNat, ScheduleConstants
<1>2. ShareEach(h + 1, logSlots) = share
  BY <1>1, V2Payouts DEF ShareEach, ShareOf, BlockRewardAt
<1>3. CASE ~(h < DevEnd)
  <2>1. PayoutDays(h + 1) = 0 /\ ~DevActive(h + 1)
    BY <1>3, V2Payouts
  <2>2. Payout(h + 1, logSlots) = 2 * share * 0 /\ Withheld(h + 1, logSlots) = 0
    BY <1>2, <2>1 DEF Payout, Withheld
  <2>3. before = 0 /\ h + 1 >= DevEnd
    BY <1>3, ScheduleConstants
  <2>4. 2 * share * 0 = 0
    BY <1>1
  <2>. QED
    BY <2>2, <2>3, <2>4
<1>4. CASE h < DevEnd
  <2>1. PICK r \in 0..(V2Day - 1) : r = k % V2Day
    BY DivMod, ScheduleConstants
  <2>2. PICK r1 \in Nat : r1 = (k + 1) % V2Day
    BY DivMod, ScheduleConstants
  <2>3. \/ r1 = r + 1
        \/ r = V2Day - 1 /\ r1 = 0
    BY <2>1, <2>2, ModStep, ScheduleConstants, Zenon
  <2>4. before = 2 * share * r
    <3>1. CASE r = 0
      <4>1. before = 0
        <5>1. CASE h < Activation
          BY <5>1
        <5>2. CASE ~(h < Activation)
          <6>1. PICK old \in Nat : old = ShareOf(h)
            BY <5>2, ShareIsNat, ScheduleConstants
          <6>2. before = 2 * old * 0
            BY <1>4, <2>1, <3>1, <5>2, <6>1, ScheduleConstants
          <6>. QED
            BY <6>2
        <5>. QED
          BY <5>1, <5>2
      <4>. QED
        BY <3>1, <4>1
    <3>2. CASE r # 0
      <4>1. k # 0
        BY <2>1, <3>2, Small, ScheduleConstants
      <4>2. ~(h < Activation \/ h >= DevEnd)
        BY <1>4, <4>1, ScheduleConstants
      <4>3. ShareOf(h) = share
        BY <1>1, <2>1, <3>2, SameTier
      <4>4. before = 2 * ShareOf(h) * (k % V2Day)
        BY <4>2
      <4>. QED
        BY <2>1, <4>3, <4>4, Zenon
    <3>. QED
      BY <3>1, <3>2
  <2>5. Withheld(h + 1, logSlots) = 2 * share
    BY <1>2, <1>4, V2Payouts DEF Withheld
  <2>6. PICK days \in Nat : days = PayoutDays(h + 1)
                            /\ days = IF r1 = 0 \/ h + 1 = DevEnd
                                        THEN IF r1 = 0 THEN V2Day ELSE r1 ELSE 0
    <3>1. PayoutDays(h + 1) = IF r1 = 0 \/ h + 1 = DevEnd
                                THEN IF r1 = 0 THEN V2Day ELSE r1 ELSE 0
      <4>1. PayoutDays(h + 1) =
              IF h < DevEnd /\ ((k + 1) % V2Day = 0 \/ h + 1 = DevEnd)
                THEN IF (k + 1) % V2Day = 0 THEN V2Day ELSE (k + 1) % V2Day ELSE 0
        BY V2Payouts
      <4>. QED
        BY <1>4, <2>2, <4>1, Zenon
    <3>. QED
      BY <3>1, <2>2, ScheduleConstants
  <2>7. Payout(h + 1, logSlots) = 2 * share * days
    BY <1>2, <2>6 DEF Payout
  <2>8. 2 * share * r + 2 * share = 2 * share * (r + 1)
    BY <1>1, <2>1
  <2>9. CASE r1 = 0 \/ h + 1 = DevEnd
    <3>1. days = r + 1
      BY <2>3, <2>6, <2>9, ScheduleConstants
    <3>2. before + Withheld(h + 1, logSlots) - Payout(h + 1, logSlots) = 0
      <4>1. PICK all \in Nat : all = 2 * share * (r + 1)
        BY <1>1, <2>1
      <4>. QED
        BY <2>4, <2>5, <2>7, <2>8, <3>1, <4>1
    <3>3. 2 * share * 0 = 0
      BY <1>1
    <3>. QED
      BY <1>1, <1>4, <2>2, <2>9, <3>2, <3>3, ScheduleConstants
  <2>10. CASE ~(r1 = 0 \/ h + 1 = DevEnd)
    <3>1. days = 0 /\ r1 = r + 1 /\ ~(h + 1 >= DevEnd)
      BY <1>4, <2>3, <2>6, <2>10, ScheduleConstants
    <3>2. Payout(h + 1, logSlots) = 0
      BY <1>1, <2>7, <3>1
    <3>3. before + Withheld(h + 1, logSlots) - Payout(h + 1, logSlots) = 2 * share * r1
      <4>1. PICK all \in Nat : all = 2 * share * (r + 1)
        BY <1>1, <2>1
      <4>. QED
        BY <2>4, <2>5, <2>8, <3>1, <3>2, <4>1
    <3>. QED
      BY <1>1, <2>2, <3>1, <3>3, Zenon
  <2>. QED
    BY <2>9, <2>10
<1>. QED
  BY <1>3, <1>4

LEMMA WithheldStep ==
    ASSUME DevEnd # Activation
    PROVE  WithheldInv /\ [Next]_vars => WithheldInv'
<1>. SUFFICES ASSUME WithheldInv, [Next]_vars PROVE WithheldInv'
  OBVIOUS
<1>1. SizesInv' /\ tip \in Nat
  BY ChainGrows DEF WithheldInv, SizesInv, tip
<1>2. CASE UNCHANGED node
  BY <1>1, <1>2 DEF WithheldInv, node, tip
<1>3. CASE tip' = tip + 1 /\ NodeMines
  <2>1. PICK logSlots \in {LogSlots, LogSlots + 1}, newActive \in ActiveCounts,
             tx \in Transactions \cup {NoTransaction} : Block(logSlots, newActive, tx)
    BY <1>3 DEF NodeMines
  <2>2. PICK h \in Nat : h = tip
    BY <1>1
  <2>3. unpaid' = IF V2Active(h + 1)
                    THEN unpaid + Withheld(h + 1, logSlots) - Payout(h + 1, logSlots) ELSE 0
    BY <2>1, <2>2 DEF Block
  <2>4. CASE h < LastLegacy
    <3>1. unpaid' = 0 /\ h + 1 < Activation
      BY <2>3, <2>4, LegacyPayouts, ScheduleConstants
    <3>. QED
      BY <1>1, <1>3, <2>2, <3>1 DEF WithheldInv
  <2>5. CASE ~(h < LastLegacy)
    <3>1. PICK k \in Nat : h = LastLegacy + k
      <4>1. h - LastLegacy \in Nat /\ h = LastLegacy + (h - LastLegacy)
        BY <2>5, ScheduleConstants
      <4>. QED
        BY <4>1
    <3>2. h - LastLegacy = k /\ (h + 1) - LastLegacy = k + 1
      BY <3>1, ScheduleConstants
    <3>3. unpaid = IF h < Activation \/ h >= DevEnd THEN 0 ELSE 2 * ShareOf(h) * (k % V2Day)
      BY <2>2, <3>2 DEF WithheldInv
    <3>4. unpaid \in Int
      <4>1. CASE h < Activation \/ h >= DevEnd
        BY <3>3, <4>1
      <4>2. CASE ~(h < Activation \/ h >= DevEnd)
        <5>1. PICK share \in Nat, r \in Nat : share = ShareOf(h) /\ r = k % V2Day
          BY <4>2, ShareIsNat, DivMod, ScheduleConstants
        <5>2. unpaid = 2 * share * r
          BY <3>3, <4>2, <5>1, Zenon
        <5>. QED
          BY <5>2
      <4>. QED
        BY <4>1, <4>2
    <3>5. unpaid' = IF h + 1 >= DevEnd THEN 0 ELSE 2 * ShareOf(h + 1) * ((k + 1) % V2Day)
      BY <2>3, <3>1, <3>3, <3>4, V2Payouts, WithheldBlock
    <3>6. ~(h + 1 < Activation) /\ tip' = h + 1 /\ tip' - LastLegacy = k + 1
      BY <1>3, <2>2, <2>5, <3>2, ScheduleConstants
    <3>. QED
      BY <1>1, <3>5, <3>6 DEF WithheldInv
  <2>. QED
    BY <2>4, <2>5
<1>. QED
  BY <1>2, <1>3, ChainGrows DEF WithheldInv

\* WithheldIsPaid: payouts never run ahead of what was withheld, and with the last block of
\* the allocation nothing is left over (payout_each, withheld_each, final partial day).
THEOREM WithheldIsPaidHolds ==
    ASSUME DevEnd # Activation
    PROVE  Spec => []WithheldIsPaid
<1>1. WithheldInv => WithheldIsPaid
  <2>. SUFFICES ASSUME WithheldInv PROVE WithheldIsPaid
    OBVIOUS
  <2>1. tip \in Nat
    BY DEF WithheldInv, SizesInv, tip
  <2>2. CASE tip < Activation \/ tip >= DevEnd
    BY <2>2 DEF WithheldInv, WithheldIsPaid
  <2>3. CASE ~(tip < Activation \/ tip >= DevEnd)
    <3>1. tip >= Activation /\ tip - LastLegacy \in Nat /\ ~(tip >= DevEnd)
      BY <2>1, <2>3, ScheduleConstants
    <3>2. PICK share \in Nat, r \in Nat : share = ShareOf(tip) /\ r = (tip - LastLegacy) % V2Day
      BY <2>1, <3>1, ShareIsNat, DivMod, ScheduleConstants
    <3>3. unpaid = 2 * share * r
      BY <2>3, <3>2, Zenon DEF WithheldInv
    <3>4. 2 * share * r >= 0
      BY <3>2
    <3>. QED
      BY <3>1, <3>3, <3>4 DEF WithheldIsPaid
  <2>. QED
    BY <2>2, <2>3
<1>2. WithheldInv /\ [Next]_vars => WithheldInv'
  BY WithheldStep
<1>. QED
  BY <1>1, <1>2, WithheldInit, PTL DEF Spec

-----------------------------------------------------------------------------
(* The subsidy that halves and the capacity that doubles: what a function  *)
(* that starts at base and goes on by next is, for any number of steps.    *)

Upon(base, next, run, k) == IF k = 0 THEN base ELSE next[run[k - 1]]

RunTo(base, next, n, run) == run = [k \in 0..n |-> Upon(base, next, run, k)]

LEMMA RunsExist ==
    ASSUME NEW base, NEW next, NEW n \in Nat
    PROVE  \E run : RunTo(base, next, n, run)
<1>. DEFINE Missing == {m \in Nat : ~\E run : RunTo(base, next, m, run)}
<1>1. \E run : RunTo(base, next, 0, run)
  <2>. DEFINE none == [k \in 0..0 |-> base]
  <2>1. \A k \in 0..0 : Upon(base, next, none, k) = base
    BY DEF Upon
  <2>2. none = [k \in 0..0 |-> Upon(base, next, none, k)]
    BY <2>1
  <2>. QED  BY <2>2 DEF RunTo
<1>2. ASSUME NEW m \in Nat, \E run : RunTo(base, next, m, run)
      PROVE  \E run : RunTo(base, next, m + 1, run)
  <2>1. PICK run : RunTo(base, next, m, run)
    BY <1>2
  <2>. DEFINE more == [k \in 0..(m + 1) |-> Upon(base, next, run, k)]
  <2>2. ASSUME NEW k \in 0..(m + 1)
        PROVE  Upon(base, next, run, k) = Upon(base, next, more, k)
    <3>1. CASE k = 0
      BY <3>1 DEF Upon
    <3>2. CASE k # 0
      <4>1. k - 1 \in 0..m /\ k - 1 \in 0..(m + 1)
        BY <3>2
      <4>2. run[k - 1] = more[k - 1]
        BY <2>1, <4>1 DEF RunTo
      <4>. QED  BY <3>2, <4>2 DEF Upon
    <3>. QED  BY <3>1, <3>2
  <2>3. more = [k \in 0..(m + 1) |-> Upon(base, next, more, k)]
    BY <2>2
  <2>. QED  BY <2>3 DEF RunTo
<1>. SUFFICES ASSUME Missing # {} PROVE FALSE
  OBVIOUS
<1>3. PICK m \in Missing : \A l \in Missing : m <= l
  BY LeastOf
<1>4. m # 0
  BY <1>1, <1>3
<1>5. PICK l \in Nat : m = l + 1
  <2>1. m - 1 \in Nat /\ m = (m - 1) + 1
    BY <1>4
  <2>. QED  BY <2>1
<1>6. l \notin Missing
  BY <1>3, <1>5
<1>7. \E run : RunTo(base, next, l + 1, run)
  BY <1>2, <1>6
<1>8. ~\E run : RunTo(base, next, m, run)
  BY <1>3
<1>. QED
  BY <1>5, <1>7, <1>8, Zenon

LEMMA RunsAgree ==
    ASSUME NEW base, NEW next, NEW m \in Nat, NEW n \in Nat, m <= n,
           NEW less, RunTo(base, next, m, less), NEW more, RunTo(base, next, n, more)
    PROVE  \A k \in 0..m : less[k] = more[k]
<1>. DEFINE Wrong == {k \in 0..m : less[k] # more[k]}
<1>. SUFFICES ASSUME Wrong # {} PROVE FALSE
  OBVIOUS
<1>1. PICK k \in Wrong : \A l \in Wrong : k <= l
  <2>1. Wrong \in SUBSET Nat
    OBVIOUS
  <2>. QED  BY <2>1, LeastOf
<1>2. less[k] = Upon(base, next, less, k) /\ more[k] = Upon(base, next, more, k)
  <2>1. k \in 0..m /\ k \in 0..n
    BY <1>1
  <2>2. \A l \in 0..m : less[l] = Upon(base, next, less, l)
    BY DEF RunTo
  <2>3. \A l \in 0..n : more[l] = Upon(base, next, more, l)
    BY DEF RunTo
  <2>. QED  BY <2>1, <2>2, <2>3
<1>3. k # 0
  BY <1>1, <1>2 DEF Upon
<1>4. k - 1 \in 0..m /\ k - 1 \notin Wrong
  BY <1>1, <1>3
<1>. QED
  BY <1>1, <1>2, <1>3, <1>4 DEF Upon

LEMMA RunExists ==
    ASSUME NEW S, NEW base \in S, NEW next \in [S -> S]
    PROVE  \E run \in [Nat -> S] : \A k \in Nat : run[k] = Upon(base, next, run, k)
<1>. DEFINE To(n) == CHOOSE run : RunTo(base, next, n, run)
            whole == [k \in Nat |-> To(k)[k]]
<1>1. \A n \in Nat : RunTo(base, next, n, To(n))
  BY RunsExist
<1>. HIDE DEF To
<1>2. ASSUME NEW k \in Nat
      PROVE  whole[k] = Upon(base, next, whole, k)
  <2>1. To(k)[k] = Upon(base, next, To(k), k)
    BY <1>1 DEF RunTo
  <2>2. CASE k = 0
    BY <2>1, <2>2 DEF Upon
  <2>3. CASE k # 0
    <3>1. k - 1 \in Nat /\ k - 1 <= k /\ k - 1 \in 0..(k - 1)
      BY <2>3
    <3>2. To(k - 1)[k - 1] = To(k)[k - 1]
      BY <1>1, <3>1, RunsAgree
    <3>. QED  BY <2>1, <2>3, <3>1, <3>2 DEF Upon
  <2>. QED  BY <2>2, <2>3
<1>3. \A k \in Nat : whole[k] \in S
  <2>. DEFINE Wrong == {k \in Nat : whole[k] \notin S}
  <2>. SUFFICES ASSUME Wrong # {} PROVE FALSE
    OBVIOUS
  <2>1. PICK k \in Wrong : \A l \in Wrong : k <= l
    BY LeastOf
  <2>. HIDE DEF whole
  <2>2. whole[k] = Upon(base, next, whole, k)
    BY <1>2, <2>1
  <2>3. k # 0
    BY <2>1, <2>2 DEF Upon
  <2>4. k - 1 \in Nat /\ whole[k - 1] \in S
    BY <2>1, <2>3
  <2>. QED  BY <2>1, <2>2, <2>3, <2>4 DEF Upon
<1>4. whole \in [Nat -> S]
  BY <1>3
<1>. QED
  BY <1>2, <1>4

LEMMA HalvedIsNat == \A k \in Nat : Halved[k] \in Nat
<1>. DEFINE next == [x \in Nat |-> x \div 2]
            All(f) == f = [k \in Nat |-> IF k = 0 THEN BaseReward ELSE f[k - 1] \div 2]
<1>1. next \in [Nat -> Nat] /\ BaseReward \in Nat
  BY EmissionAssumption
<1>2. PICK run \in [Nat -> Nat] : \A k \in Nat : run[k] = Upon(BaseReward, next, run, k)
  <2>1. \A n \in [Nat -> Nat] :
           \E run \in [Nat -> Nat] : \A k \in Nat : run[k] = Upon(BaseReward, n, run, k)
    BY <1>1, RunExists
  <2>. HIDE DEF next
  <2>. QED  BY <1>1, <2>1, Zenon
<1>3. ASSUME NEW k \in Nat
      PROVE  run[k] = IF k = 0 THEN BaseReward ELSE run[k - 1] \div 2
  <2>1. CASE k = 0
    BY <1>2, <2>1 DEF Upon
  <2>2. CASE k # 0
    <3>1. run[k - 1] \in Nat
      BY <2>2
    <3>2. run[k] = next[run[k - 1]]
      BY <1>2, <2>2 DEF Upon
    <3>. QED  BY <2>2, <3>1, <3>2
  <2>. QED  BY <2>1, <2>2
<1>4. All(run)
  <2>1. run = [k \in Nat |-> run[k]]
    OBVIOUS
  <2>. QED  BY <1>3, <2>1
<1>5. All(Halved)
  <2>1. Halved = CHOOSE f : All(f)
    BY DEF Halved
  <2>. QED  BY <1>4, <2>1
<1>6. \A k \in Nat : Halved[k] = IF k = 0 THEN BaseReward ELSE Halved[k - 1] \div 2
  BY <1>5
<1>. DEFINE Wrong == {k \in Nat : Halved[k] \notin Nat}
<1>. SUFFICES ASSUME Wrong # {} PROVE FALSE
  OBVIOUS
<1>7. PICK k \in Wrong : \A l \in Wrong : k <= l
  BY LeastOf
<1>8. k # 0
  BY <1>6, <1>7, EmissionAssumption
<1>9. k - 1 \in Nat /\ Halved[k - 1] \in Nat
  BY <1>7, <1>8
<1>10. Halved[k - 1] \div 2 \in Nat
  BY <1>9
<1>. QED
  BY <1>6, <1>7, <1>8, <1>10

LEMMA CapacityIsPositive == \A k \in Nat : Capacity[k] \in Nat \ {0}
<1>. DEFINE next == [x \in Nat |-> 2 * x]
            All(f) == f = [k \in Nat |-> IF k = 0 THEN 1 ELSE 2 * f[k - 1]]
<1>1. next \in [Nat -> Nat] /\ 1 \in Nat
  OBVIOUS
<1>2. PICK run \in [Nat -> Nat] : \A k \in Nat : run[k] = Upon(1, next, run, k)
  <2>1. \A n \in [Nat -> Nat] :
           \E run \in [Nat -> Nat] : \A k \in Nat : run[k] = Upon(1, n, run, k)
    BY <1>1, RunExists
  <2>. HIDE DEF next
  <2>. QED  BY <1>1, <2>1, Zenon
<1>3. ASSUME NEW k \in Nat
      PROVE  run[k] = IF k = 0 THEN 1 ELSE 2 * run[k - 1]
  <2>1. CASE k = 0
    BY <1>2, <2>1 DEF Upon
  <2>2. CASE k # 0
    <3>1. run[k - 1] \in Nat
      BY <2>2
    <3>2. run[k] = next[run[k - 1]]
      BY <1>2, <2>2 DEF Upon
    <3>. QED  BY <2>2, <3>1, <3>2
  <2>. QED  BY <2>1, <2>2
<1>4. All(run)
  <2>1. run = [k \in Nat |-> run[k]]
    OBVIOUS
  <2>. QED  BY <1>3, <2>1
<1>5. All(Capacity)
  <2>1. Capacity = CHOOSE f : All(f)
    BY DEF Capacity
  <2>. QED  BY <1>4, <2>1
<1>6. \A k \in Nat : Capacity[k] = IF k = 0 THEN 1 ELSE 2 * Capacity[k - 1]
  BY <1>5
<1>. DEFINE Wrong == {k \in Nat : Capacity[k] \notin Nat \ {0}}
<1>. SUFFICES ASSUME Wrong # {} PROVE FALSE
  OBVIOUS
<1>7. PICK k \in Wrong : \A l \in Wrong : k <= l
  BY LeastOf
<1>8. k # 0
  BY <1>6, <1>7
<1>9. k - 1 \in Nat /\ Capacity[k - 1] \in Nat \ {0}
  BY <1>7, <1>8
<1>10. 2 * Capacity[k - 1] \in Nat \ {0}
  BY <1>9
<1>. QED
  BY <1>6, <1>7, <1>8, <1>10

\* However often the state expands, the subsidy is a number.
LEMMA BlockRewardIsNat ==
    ASSUME NEW logSlots \in Nat, logSlots >= LogSlotsGenesis
    PROVE  BlockReward(logSlots) \in Nat
<1>1. logSlots - LogSlotsGenesis \in Nat
  BY EmissionAssumption
<1>. QED
  BY <1>1, HalvedIsNat, EmissionAssumption DEF BlockReward, Greater

-----------------------------------------------------------------------------
(* The heights at which the state expanded.                                *)

\* The sizes in the headers never shrink.
GrowsInv ==
    /\ SizesInv
    /\ \A h \in 1..tip : slots[h] >= LogSlotsGenesis
    /\ \A g, h \in 1..tip : g <= h => slots[g] <= slots[h]

\* The first height of at least this size.
FirstAt(level, h) ==
    /\ h \in 1..tip /\ slots[h] >= level
    /\ \A g \in 1..(h - 1) : slots[g] < level

\* What the binary search finds between a and b: the first of at least this size, or b.
Between(level, a, b, h) ==
    /\ h \in a..b
    /\ h = b \/ slots[h] >= level
    /\ \A g \in a..(h - 1) : slots[g] < level

LEMMA BetweenExists ==
    ASSUME GrowsInv, NEW level \in Nat, NEW a \in 1..tip, NEW b \in 1..tip, a <= b
    PROVE  \E h \in a..b : Between(level, a, b, h)
<1>0. tip \in Nat /\ \A h \in 1..tip : slots[h] \in Nat
  BY DEF GrowsInv, SizesInv, tip
<1>. DEFINE Large == {h \in a..b : h = b \/ slots[h] >= level}
<1>1. Large \in SUBSET Nat /\ b \in Large
  BY <1>0
<1>2. PICK h \in Large : \A g \in Large : h <= g
  BY <1>1, LeastOf
<1>3. \A g \in a..(h - 1) : slots[g] < level
  <2>. SUFFICES ASSUME NEW g \in a..(h - 1) PROVE slots[g] < level
    OBVIOUS
  <2>1. g \in a..b /\ g # b /\ g < h /\ slots[g] \in Nat
    BY <1>0, <1>2
  <2>2. g \notin Large
    BY <1>2, <2>1
  <2>. QED  BY <2>1, <2>2
<1>. QED
  BY <1>2, <1>3 DEF Between

LEMMA BetweenUnique ==
    ASSUME GrowsInv, NEW level \in Nat, NEW a \in 1..tip, NEW b \in 1..tip, a <= b,
           NEW h, NEW g, Between(level, a, b, h), Between(level, a, b, g)
    PROVE  h = g
<1>0. tip \in Nat /\ \A j \in 1..tip : slots[j] \in Nat
  BY DEF GrowsInv, SizesInv, tip
<1>1. h \in a..b /\ g \in a..b /\ slots[h] \in Nat /\ slots[g] \in Nat
  BY <1>0 DEF Between
<1>2. ~(h < g)
  BY <1>0, <1>1 DEF Between
<1>3. ~(g < h)
  BY <1>0, <1>1 DEF Between
<1>. QED
  BY <1>1, <1>2, <1>3

\* One look at the middle.
LEMMA BetweenHalves ==
    ASSUME GrowsInv, NEW level \in Nat, NEW a \in 1..tip, NEW b \in 1..tip, a < b,
           NEW mid, mid = a + (b - a) \div 2
    PROVE  /\ mid \in 1..tip /\ mid + 1 \in 1..tip /\ a <= mid /\ mid < b
           /\ \A h : slots[mid] >= level /\ Between(level, a, mid, h) => Between(level, a, b, h)
           /\ \A h : ~(slots[mid] >= level) /\ Between(level, mid + 1, b, h) => Between(level, a, b, h)
<1>0. tip \in Nat /\ \A j \in 1..tip : slots[j] \in Nat
  BY DEF GrowsInv, SizesInv, tip
<1>1. mid \in Int /\ a <= mid /\ mid < b
  <2>1. PICK d \in Nat : d = b - a /\ d > 0
    <3>1. b - a \in Nat /\ b - a > 0
      BY <1>0
    <3>. QED  BY <3>1
  <2>2. d \div 2 \in Nat /\ d \div 2 < d
    BY <2>1
  <2>. QED  BY <1>0, <2>1, <2>2
<1>2. mid \in 1..tip /\ mid + 1 \in 1..tip
  BY <1>0, <1>1
<1>3. ASSUME NEW h, slots[mid] >= level, Between(level, a, mid, h)
      PROVE  Between(level, a, b, h)
  BY <1>0, <1>1, <1>2, <1>3 DEF Between
<1>4. ASSUME NEW h, ~(slots[mid] >= level), Between(level, mid + 1, b, h)
      PROVE  Between(level, a, b, h)
  <2>1. h \in a..b /\ (h = b \/ slots[h] >= level) /\ \A g \in (mid + 1)..(h - 1) : slots[g] < level
    BY <1>0, <1>1, <1>2, <1>4 DEF Between
  <2>2. \A g \in a..mid : slots[g] < level
    <3>. SUFFICES ASSUME NEW g \in a..mid PROVE slots[g] < level
      OBVIOUS
    <3>1. g \in 1..tip /\ g <= mid
      BY <1>0, <1>2
    <3>2. slots[g] <= slots[mid] /\ slots[g] \in Nat /\ slots[mid] \in Nat
      BY <1>0, <1>2, <3>1 DEF GrowsInv
    <3>. QED  BY <1>4, <3>2
  <2>3. \A g \in a..(h - 1) : g \in a..mid \/ g \in (mid + 1)..(h - 1)
    BY <1>0, <1>1
  <2>. QED  BY <2>1, <2>2, <2>3 DEF Between
<1>. QED
  BY <1>1, <1>2, <1>3, <1>4

\* The binary search of expansion_heights finds the first height of a size.
LEMMA FirstWithIsFirst ==
    ASSUME GrowsInv, NEW level \in Nat, NEW from \in 1..tip, NEW h,
           FirstAt(level, h), from <= h
    PROVE  FirstWith(level, from) = h
<1>0. tip \in Nat /\ \A j \in 1..tip : slots[j] \in Nat
  BY DEF GrowsInv, SizesInv, tip
<1>. DEFINE Ranges == (1..tip) \X (1..tip)
            Mid(r) == r[1] + (r[2] - r[1]) \div 2
            Step(f, r) == IF r[1] >= r[2] THEN r[1]
                          ELSE IF slots[Mid(r)] >= level THEN f[<<r[1], Mid(r)>>]
                          ELSE f[<<Mid(r) + 1, r[2]>>]
            Searches(f) == f = [r \in Ranges |-> Step(f, r)]
            found == [r \in Ranges |->
                         IF r[1] >= r[2] THEN r[1]
                         ELSE CHOOSE i \in r[1]..r[2] : Between(level, r[1], r[2], i)]
<1>1. \A a, b \in 1..tip : a <= b => Between(level, a, b, found[<<a, b>>])
  <2>. SUFFICES ASSUME NEW a \in 1..tip, NEW b \in 1..tip, a <= b
                PROVE  Between(level, a, b, found[<<a, b>>])
    OBVIOUS
  <2>1. CASE a = b
    <3>1. found[<<a, b>>] = a
      BY <2>1
    <3>. QED  BY <1>0, <2>1, <3>1 DEF Between
  <2>2. CASE a # b
    <3>1. found[<<a, b>>] = CHOOSE i \in a..b : Between(level, a, b, i)
      BY <1>0, <2>2
    <3>. QED  BY <3>1, BetweenExists
  <2>. QED  BY <2>1, <2>2
<1>2. \A a, b \in 1..tip : a > b => found[<<a, b>>] = a
  BY <1>0
<1>. HIDE DEF found
<1>3. ASSUME NEW r \in Ranges
      PROVE  Step(found, r) = IF r[1] >= r[2] THEN r[1] ELSE found[r]
  <2>1. CASE r[1] >= r[2]
    BY <2>1
  <2>2. CASE ~(r[1] >= r[2])
    <3>. DEFINE a == r[1]
                b == r[2]
                mid == Mid(r)
    <3>1. a \in 1..tip /\ b \in 1..tip /\ a < b /\ r = <<a, b>> /\ a <= b
      BY <1>0, <2>2
    <3>2. /\ mid \in 1..tip /\ mid + 1 \in 1..tip /\ a <= mid /\ mid < b
          /\ \A i : slots[mid] >= level /\ Between(level, a, mid, i) => Between(level, a, b, i)
          /\ \A i : ~(slots[mid] >= level) /\ Between(level, mid + 1, b, i) => Between(level, a, b, i)
      BY <3>1, BetweenHalves
    <3>3. Between(level, a, b, found[<<a, b>>])
      BY <1>1, <3>1
    <3>4. CASE slots[mid] >= level
      <4>1. Between(level, a, b, found[<<a, mid>>])
        BY <1>1, <3>1, <3>2, <3>4
      <4>2. found[<<a, mid>>] = found[<<a, b>>]
        BY <3>1, <3>3, <4>1, BetweenUnique
      <4>. QED  BY <2>2, <3>1, <3>4, <4>2
    <3>5. CASE ~(slots[mid] >= level)
      <4>1. mid + 1 <= b
        BY <1>0, <3>1, <3>2
      <4>2. Between(level, a, b, found[<<mid + 1, b>>])
        BY <1>1, <3>1, <3>2, <3>5, <4>1
      <4>3. found[<<mid + 1, b>>] = found[<<a, b>>]
        BY <3>1, <3>3, <4>2, BetweenUnique
      <4>. QED  BY <2>2, <3>1, <3>5, <4>3
    <3>. QED  BY <3>4, <3>5
  <2>. QED  BY <2>1, <2>2
<1>4. Searches(found)
  <2>1. \A r \in Ranges : found[r] = Step(found, r)
    BY <1>3 DEF found
  <2>2. found = [r \in Ranges |-> found[r]]
    BY DEF found
  <2>. QED  BY <2>1, <2>2
<1>. DEFINE search == CHOOSE f : Searches(f)
<1>5. Searches(search)
  BY <1>4
<1>6. FirstWith(level, from) = search[<<from, tip>>]
  BY Zenon DEF FirstWith
<1>. HIDE DEF search
<1>7. \A a, b \in 1..tip : a <= b => Between(level, a, b, search[<<a, b>>])
  <2>. DEFINE Wrong == {n \in Nat : \E a, b \in 1..tip : /\ a <= b /\ b - a = n
                                                        /\ ~Between(level, a, b, search[<<a, b>>])}
  <2>1. \A a, b \in 1..tip : a <= b => b - a \in Nat
    BY <1>0
  <2>. SUFFICES ASSUME Wrong # {} PROVE FALSE
    BY <2>1
  <2>2. PICK n \in Wrong : \A m \in Wrong : n <= m
    BY LeastOf
  <2>3. PICK a \in 1..tip, b \in 1..tip :
           a <= b /\ b - a = n /\ ~Between(level, a, b, search[<<a, b>>])
    BY <2>2
  <2>4. search[<<a, b>>] = Step(search, <<a, b>>)
    BY <1>5
  <2>5. a # b
    <3>. SUFFICES ASSUME a = b PROVE FALSE
      OBVIOUS
    <3>1. search[<<a, b>>] = a
      BY <1>0, <2>4
    <3>. QED  BY <1>0, <2>3, <3>1 DEF Between
  <2>6. a < b
    BY <1>0, <2>3, <2>5
  <2>. DEFINE mid == a + (b - a) \div 2
  <2>7. /\ mid \in 1..tip /\ mid + 1 \in 1..tip /\ a <= mid /\ mid < b
        /\ \A i : slots[mid] >= level /\ Between(level, a, mid, i) => Between(level, a, b, i)
        /\ \A i : ~(slots[mid] >= level) /\ Between(level, mid + 1, b, i) => Between(level, a, b, i)
    BY <2>6, BetweenHalves
  <2>8. search[<<a, b>>] = IF slots[mid] >= level THEN search[<<a, mid>>] ELSE search[<<mid + 1, b>>]
    BY <1>0, <2>4, <2>6
  <2>. HIDE DEF mid
  <2>9. mid - a \notin Wrong /\ mid - a \in Nat /\ b - (mid + 1) \notin Wrong /\ b - (mid + 1) \in Nat
        /\ mid + 1 <= b
    <3>1. /\ mid - a \in Nat /\ b - (mid + 1) \in Nat /\ mid + 1 <= b
          /\ mid - a < n /\ b - (mid + 1) < n /\ n \in Nat
      BY <1>0, <2>3, <2>7
    <3>2. \A m \in Nat : m < n => m \notin Wrong
      <4>. HIDE DEF Wrong
      <4>. QED  BY <2>2, <3>1
    <3>. QED  BY <3>1, <3>2
  <2>10. Between(level, a, mid, search[<<a, mid>>])
    BY <2>7, <2>9
  <2>11. Between(level, mid + 1, b, search[<<mid + 1, b>>])
    BY <2>7, <2>9
  <2>. QED  BY <2>3, <2>7, <2>8, <2>10, <2>11
<1>8. Between(level, from, tip, search[<<from, tip>>])
  BY <1>0, <1>7 DEF FirstAt
<1>9. Between(level, from, tip, h)
  BY <1>0 DEF Between, FirstAt
<1>. QED
  BY <1>0, <1>6, <1>8, <1>9, BetweenUnique

\* expansion_heights, as a list of first heights.
ExpansionsAre(heights) ==
    /\ heights \in Seq(1..tip)
    /\ Len(heights) = LogSlots - LogSlotsGenesis
    /\ \A i \in 1..Len(heights) : FirstAt(LogSlotsGenesis + i, heights[i])

LEMMA FirstAtExists ==
    ASSUME GrowsInv, NEW level \in (LogSlotsGenesis + 1)..LogSlots
    PROVE  \E h \in 1..tip : FirstAt(level, h)
<1>0. /\ tip \in Nat /\ LogSlotsGenesis \in Nat
      /\ \A j \in 1..tip : slots[j] \in Nat
  BY EmissionAssumption DEF GrowsInv, SizesInv, tip
<1>1. tip # 0 /\ LogSlots = slots[tip] /\ tip \in 1..tip
  BY <1>0 DEF LogSlots
<1>2. level \in Nat /\ slots[tip] >= level
  BY <1>0, <1>1
<1>3. PICK h \in 1..tip : Between(level, 1, tip, h)
  BY <1>0, <1>1, <1>2, BetweenExists
<1>. QED
  BY <1>0, <1>2, <1>3 DEF Between, FirstAt

LEMMA FirstAtUnique ==
    ASSUME GrowsInv, NEW level \in Nat, NEW g, NEW h, FirstAt(level, g), FirstAt(level, h)
    PROVE  g = h
<1>0. tip \in Nat /\ \A j \in 1..tip : slots[j] \in Nat
  BY DEF GrowsInv, SizesInv, tip
<1>1. g \in 1..tip /\ h \in 1..tip /\ slots[g] \in Nat /\ slots[h] \in Nat
  BY <1>0 DEF FirstAt
<1>2. ~(g < h) /\ ~(h < g)
  BY <1>0, <1>1 DEF FirstAt
<1>. QED
  BY <1>1, <1>2

LEMMA FirstAtAscends ==
    ASSUME GrowsInv, NEW level \in Nat, NEW g, NEW h, FirstAt(level, g), FirstAt(level + 1, h)
    PROVE  g <= h
<1>0. tip \in Nat /\ \A j \in 1..tip : slots[j] \in Nat
  BY DEF GrowsInv, SizesInv, tip
<1>1. g \in 1..tip /\ h \in 1..tip /\ slots[g] \in Nat /\ slots[h] \in Nat
  BY <1>0 DEF FirstAt
<1>2. ~(h < g)
  BY <1>0, <1>1 DEF FirstAt
<1>. QED
  BY <1>1, <1>2

LEMMA ListFromFunction ==
    ASSUME NEW S, NEW n \in Nat, NEW f \in [1..n -> S]
    PROVE  f \in Seq(S) /\ Len(f) = n
OBVIOUS

\* The search starts for each size where the last one was found.
LEMMA SearchIsRight == GrowsInv => ExpansionsAre(SearchExpansions)
<1>. SUFFICES ASSUME GrowsInv PROVE ExpansionsAre(SearchExpansions)
  OBVIOUS
<1>0. /\ tip \in Nat /\ LogSlotsGenesis \in Nat /\ LogSlots \in Nat
      /\ \A j \in 1..tip : slots[j] \in Nat
  BY EmissionAssumption DEF GrowsInv, SizesInv, tip, LogSlots
<1>1. LogSlots >= LogSlotsGenesis
  BY <1>0 DEF GrowsInv, LogSlots
<1>. DEFINE Levels == (LogSlotsGenesis + 1)..LogSlots
            From(f, level) == IF level = LogSlotsGenesis + 1 THEN 1 ELSE f[level - 1]
            Finds(f) == f = [level \in Levels |-> FirstWith(level, From(f, level))]
            known == [level \in Levels |-> CHOOSE h \in 1..tip : FirstAt(level, h)]
<1>2. \A level \in Levels : FirstAt(level, known[level])
  BY FirstAtExists
<1>. HIDE DEF known
<1>3. ASSUME NEW f, NEW level \in Levels,
             level # LogSlotsGenesis + 1 => FirstAt(level - 1, f[level - 1])
      PROVE  FirstWith(level, From(f, level)) = known[level]
  <2>1. level \in Nat /\ FirstAt(level, known[level])
    BY <1>0, <1>2
  <2>2. From(f, level) \in 1..tip /\ From(f, level) <= known[level]
    <3>1. CASE level = LogSlotsGenesis + 1
      BY <1>0, <2>1, <3>1 DEF FirstAt
    <3>2. CASE level # LogSlotsGenesis + 1
      <4>1. level - 1 \in Nat /\ (level - 1) + 1 = level
        BY <1>0
      <4>2. FirstAt((level - 1) + 1, known[level])
        BY <2>1, <4>1
      <4>3. f[level - 1] <= known[level]
        BY <1>3, <3>2, <4>1, <4>2, FirstAtAscends
      <4>. QED  BY <1>3, <3>2, <4>3 DEF FirstAt
    <3>. QED  BY <3>1, <3>2
  <2>. HIDE DEF From
  <2>. QED  BY <2>1, <2>2, FirstWithIsFirst
<1>4. Finds(known)
  <2>1. ASSUME NEW level \in Levels
        PROVE  known[level] = FirstWith(level, From(known, level))
    <3>1. level # LogSlotsGenesis + 1 => FirstAt(level - 1, known[level - 1])
      BY <1>0, <1>2
    <3>. QED  BY <1>3, <3>1
  <2>2. known = [level \in Levels |-> known[level]]
    BY DEF known
  <2>. QED  BY <2>1, <2>2
<1>. DEFINE first == CHOOSE f : Finds(f)
<1>5. Finds(first)
  BY <1>4
<1>6. SearchExpansions = [i \in 1..(LogSlots - LogSlotsGenesis) |-> first[LogSlotsGenesis + i]]
  BY Zenon DEF SearchExpansions
<1>. HIDE DEF first
<1>7. \A level \in Levels : FirstAt(level, first[level])
  <2>. DEFINE Wrong == {level \in Levels : ~FirstAt(level, first[level])}
  <2>. SUFFICES ASSUME Wrong # {} PROVE FALSE
    OBVIOUS
  <2>1. Wrong \in SUBSET Nat
    BY <1>0
  <2>2. PICK level \in Wrong : \A other \in Wrong : level <= other
    BY <2>1, LeastOf
  <2>3. level # LogSlotsGenesis + 1 => level - 1 \in Levels /\ level - 1 \notin Wrong
    BY <1>0, <2>2
  <2>4. first[level] = FirstWith(level, From(first, level))
    BY <1>5, <2>2
  <2>5. first[level] = known[level]
    BY <1>3, <2>2, <2>3, <2>4
  <2>. QED  BY <1>2, <2>2, <2>5
<1>. DEFINE n == LogSlots - LogSlotsGenesis
<1>8. n \in Nat /\ \A i \in 1..n : LogSlotsGenesis + i \in Levels
  BY <1>0, <1>1
<1>9. \A i \in 1..n : SearchExpansions[i] = first[LogSlotsGenesis + i]
  BY <1>6
<1>10. \A i \in 1..n : FirstAt(LogSlotsGenesis + i, SearchExpansions[i])
  BY <1>7, <1>8, <1>9
<1>11. \A i \in 1..n : SearchExpansions[i] \in 1..tip
  BY <1>10 DEF FirstAt
<1>12. SearchExpansions \in [1..n -> 1..tip]
  BY <1>6, <1>11
<1>13. SearchExpansions \in Seq(1..tip) /\ Len(SearchExpansions) = n
  <2>. HIDE DEF n
  <2>. QED  BY <1>8, <1>12, ListFromFunction
<1>. QED
  BY <1>10, <1>13 DEF ExpansionsAre

-----------------------------------------------------------------------------
(* Sums that change in one place.                                          *)

LEMMA SumOneChanged ==
    ASSUME NEW S, IsFiniteSet(S), NEW f \in [S -> Int], NEW g \in [S -> Int], NEW x \in S,
           \A y \in S \ {x} : f[y] = g[y]
    PROVE  /\ SumFunction(f) \in Int
           /\ SumFunction(g) = SumFunction(f) + (g[x] - f[x])
<1>1. IsFiniteSet(S \ {x})
  BY FS_RemoveElement
<1>2. SumFunctionOnSet(f, S \ {x}) = SumFunctionOnSet(g, S \ {x})
  BY <1>1, SumOfSame
<1>3. /\ SumFunction(f) = f[x] + SumFunctionOnSet(f, S \ {x})
      /\ SumFunction(g) = g[x] + SumFunctionOnSet(g, S \ {x})
  <2>1. DOMAIN f = S /\ DOMAIN g = S /\ \A y \in S : f[y] \in Int /\ g[y] \in Int
    OBVIOUS
  <2>. QED  BY <2>1, SumWithout DEF SumFunction
<1>4. SumFunctionOnSet(f, S \ {x}) \in Int
  BY <1>1, SumType
<1>. QED
  BY <1>2, <1>3, <1>4

LEMMA SumOneMore ==
    ASSUME NEW n \in Nat, NEW f \in [1..n -> Int], NEW g \in [1..(n + 1) -> Int],
           \A i \in 1..n : g[i] = f[i]
    PROVE  /\ SumFunction(f) \in Int
           /\ SumFunction(g) = SumFunction(f) + g[n + 1]
<1>1. IsFiniteSet(1..n) /\ IsFiniteSet(1..(n + 1))
  BY FS_Interval
<1>2. (1..(n + 1)) \ {n + 1} = 1..n /\ n + 1 \in 1..(n + 1)
  OBVIOUS
<1>3. \A i \in 1..(n + 1) : g[i] \in Int
  OBVIOUS
<1>4. SumFunctionOnSet(g, 1..(n + 1)) = g[n + 1] + SumFunctionOnSet(g, (1..(n + 1)) \ {n + 1})
  BY <1>1, <1>2, <1>3, SumWithout
<1>5. SumFunctionOnSet(g, 1..n) = SumFunctionOnSet(f, 1..n)
  BY <1>1, SumOfSame
<1>6. SumFunctionOnSet(f, 1..n) \in Int
  BY <1>1, SumType
<1>7. SumFunction(f) = SumFunctionOnSet(f, 1..n) /\ SumFunction(g) = SumFunctionOnSet(g, 1..(n + 1))
  BY Zenon DEF SumFunction
<1>8. SumFunctionOnSet(g, 1..(n + 1)) = g[n + 1] + SumFunctionOnSet(f, 1..n)
  BY <1>2, <1>4, <1>5, Zenon
<1>. QED
  BY <1>6, <1>7, <1>8

-----------------------------------------------------------------------------
(* What the legacy blocks mint.                                            *)

Amounts == [miner : Int, development : Int]

\* What was minted, and a block's share on top.
Further(split, miner, development) ==
    [miner |-> split.miner + miner, development |-> split.development + development]

LEMMA NothingFurther ==
    ASSUME NEW split \in Amounts
    PROVE  Further(split, 0, 0) = split
<1>1. PICK m \in Int, d \in Int : split = [miner |-> m, development |-> d]
  BY DEF Amounts
<1>. QED
  BY <1>1 DEF Further

LegacyShare(logSlots) == BlockReward(logSlots) \div ShareDenominator

\* A legacy block's miner and payout.
LegacyMiner(logSlots) == BlockReward(logSlots) - 2 * LegacyShare(logSlots)
LegacyPayout(height, logSlots) ==
    IF height % LegacyDay = 0 THEN 2 * LegacyShare(logSlots) * LegacyDay ELSE 0

LEMMA LegacyAmounts ==
    ASSUME NEW logSlots \in Nat, logSlots >= LogSlotsGenesis
    PROVE  /\ LegacyShare(logSlots) \in Nat /\ LegacyMiner(logSlots) \in Int
           /\ LegacyDay \in Nat \ {0}
           /\ 2 * LegacyShare(logSlots) * LegacyDay \in Nat
<1>1. LegacyShare(logSlots) \in Nat
  BY BlockRewardIsNat, DivMod, ScheduleConstants, EmissionAssumption DEF LegacyShare
<1>2. LegacyMiner(logSlots) \in Int
  BY <1>1, BlockRewardIsNat DEF LegacyMiner
<1>3. LegacyDay \in Nat \ {0}
  BY ScheduleConstants
<1>. QED
  BY <1>1, <1>2, <1>3

\* One size of the state, a block further.
LEMMA LegacyRangeGrows ==
    ASSUME NEW from \in Nat \ {0}, NEW to \in Nat, from <= to + 1,
           NEW logSlots \in Nat, logSlots >= LogSlotsGenesis
    PROVE  \E miner, development \in Int :
              /\ LegacyRange(from, to, logSlots) = [miner |-> miner, development |-> development]
              /\ LegacyRange(from, to + 1, logSlots)
                   = [ miner       |-> miner + LegacyMiner(logSlots),
                       development |-> development + LegacyPayout(to + 1, logSlots) ]
<1>1. PICK s \in Nat, m \in Int, D \in Nat \ {0} :
         s = LegacyShare(logSlots) /\ m = LegacyMiner(logSlots) /\ D = LegacyDay
  BY LegacyAmounts
<1>2. PICK a \in Nat, b \in Nat, c \in Nat :
         a = (from - 1) \div D /\ b = to \div D /\ c = (to + 1) \div D
  <2>1. from - 1 \in Nat /\ to + 1 \in Nat
    OBVIOUS
  <2>. QED  BY <2>1, DivMod
<1>3. c = b + IF (to + 1) % D = 0 THEN 1 ELSE 0
  <2>1. /\ (to + 1) % D = 0 => (to + 1) \div D = to \div D + 1
        /\ (to + 1) % D # 0 => (to + 1) \div D = to \div D
    BY QuotientStep
  <2>2. /\ (to + 1) % D = 0 => c = b + 1
        /\ (to + 1) % D # 0 => c = b
    BY <1>2, <2>1, Zenon
  <2>3. c = b => c = b + 0
    BY <1>2
  <2>. QED  BY <2>2, <2>3, Zenon
<1>4. PICK n \in Nat : n = to + 1 - from
  <2>1. to + 1 - from \in Nat
    OBVIOUS
  <2>. QED  BY <2>1
<1>5. LegacyRange(from, to + 1, logSlots) =
        [miner |-> (n + 1) * m, development |-> (c - a) * 2 * s * D]
  <2>1. ~(to + 1 < from) /\ (to + 1) - from + 1 = n + 1
    BY <1>4
  <2>. QED  BY <1>1, <1>2, <2>1 DEF LegacyRange, LegacyShare, LegacyMiner
<1>6. LegacyRange(from, to, logSlots) = [miner |-> n * m, development |-> (b - a) * 2 * s * D]
  <2>1. CASE to < from
    <3>1. n = 0 /\ from - 1 = to
      BY <1>4, <2>1
    <3>2. b - a = 0
      BY <1>2, <3>1
    <3>3. n * m = 0 /\ (b - a) * 2 * s * D = 0
      BY <1>1, <3>1, <3>2
    <3>. QED  BY <2>1, <3>3 DEF LegacyRange, NothingMinted
  <2>2. CASE ~(to < from)
    <3>1. to - from + 1 = n
      BY <1>4
    <3>. QED  BY <1>1, <1>2, <2>2, <3>1 DEF LegacyRange, LegacyShare, LegacyMiner
  <2>. QED  BY <2>1, <2>2
<1>7. (n + 1) * m = n * m + m
  BY <1>1, <1>4
<1>8. (c - a) * 2 * s * D = (b - a) * 2 * s * D + LegacyPayout(to + 1, logSlots)
  <2>1. PICK p \in Nat : p = 2 * s * D
    BY <1>1
  <2>2. \A k \in Int : k * 2 * s * D = k * p
    BY <1>1, <2>1
  <2>3. PICK k \in Int : k = b - a
    <3>1. b - a \in Int
      BY <1>2
    <3>. QED  BY <3>1
  <2>4. c - a = k + IF (to + 1) % D = 0 THEN 1 ELSE 0
    BY <1>2, <1>3, <2>3
  <2>5. (k + 1) * p = k * p + p /\ k * p \in Int
    BY <2>1, <2>3
  <2>6. CASE (to + 1) % D = 0
    <3>1. c - a = k + 1 /\ LegacyPayout(to + 1, logSlots) = p
      BY <1>1, <2>1, <2>4, <2>6 DEF LegacyPayout
    <3>2. (c - a) * 2 * s * D = (k + 1) * p /\ (b - a) * 2 * s * D = k * p
      <4>1. k + 1 \in Int
        BY <2>3
      <4>. QED  BY <2>2, <2>3, <3>1, <4>1, Zenon
    <3>. QED  BY <2>5, <3>1, <3>2, Zenon
  <2>7. CASE (to + 1) % D # 0
    <3>1. c - a = k /\ LegacyPayout(to + 1, logSlots) = 0
      BY <1>1, <2>3, <2>4, <2>7 DEF LegacyPayout
    <3>2. (c - a) * 2 * s * D = k * p /\ (b - a) * 2 * s * D = k * p
      BY <2>2, <2>3, <3>1, Zenon
    <3>. QED  BY <2>5, <3>1, <3>2
  <2>. QED  BY <2>6, <2>7
<1>9. n * m \in Int /\ (b - a) * 2 * s * D \in Int
  BY <1>1, <1>2, <1>4
<1>. QED
  BY <1>1, <1>5, <1>6, <1>7, <1>8, <1>9

LEMMA LegacyRangeType ==
    ASSUME NEW from \in Nat \ {0}, NEW to \in Int,
           NEW logSlots \in Nat, logSlots >= LogSlotsGenesis
    PROVE  \E miner, development \in Int :
              LegacyRange(from, to, logSlots) = [miner |-> miner, development |-> development]
<1>1. CASE to < from
  BY <1>1 DEF LegacyRange, NothingMinted
<1>2. CASE ~(to < from)
  <2>1. PICK l \in Nat : to = l + 1 /\ from <= l + 1
    <3>1. to - 1 \in Nat /\ to = (to - 1) + 1 /\ from <= (to - 1) + 1
      BY <1>2
    <3>. QED  BY <3>1
  <2>2. PICK miner \in Int, development \in Int :
           /\ LegacyRange(from, l, logSlots) = [miner |-> miner, development |-> development]
           /\ LegacyRange(from, l + 1, logSlots)
                = [ miner       |-> miner + LegacyMiner(logSlots),
                    development |-> development + LegacyPayout(l + 1, logSlots) ]
    BY <2>1, LegacyRangeGrows
  <2>3. miner + LegacyMiner(logSlots) \in Int /\ development + LegacyPayout(l + 1, logSlots) \in Int
    BY LegacyAmounts DEF LegacyPayout
  <2>. QED  BY <2>1, <2>2, <2>3
<1>. QED
  BY <1>1, <1>2

LEMMA SizeBounds ==
    ASSUME NEW h \in Nat, NEW heights \in Seq(Nat \ {0}), NEW i \in 1..(Len(heights) + 1)
    PROVE  /\ SizeFirst(i, heights) \in Nat \ {0} /\ SizeLast(i, h, heights) \in Int
           /\ LogSlotsGenesis + i - 1 \in Nat /\ LogSlotsGenesis + i - 1 >= LogSlotsGenesis
<1>1. Len(heights) \in Nat /\ \A j \in 1..Len(heights) : heights[j] \in Nat \ {0}
  OBVIOUS
<1>2. SizeFirst(i, heights) \in Nat \ {0}
  <2>1. i # 1 => i - 1 \in 1..Len(heights)
    BY <1>1
  <2>. QED  BY <1>1, <2>1 DEF SizeFirst
<1>3. SizeLast(i, h, heights) \in Int
  <2>1. ~(i > Len(heights)) => i \in 1..Len(heights)
    BY <1>1
  <2>. QED  BY <1>1, <2>1 DEF SizeLast, Lesser
<1>. QED
  BY <1>1, <1>2, <1>3, EmissionAssumption

LEMMA SizeRangeType ==
    ASSUME NEW h \in Nat, NEW heights \in Seq(Nat \ {0}), NEW i \in 1..(Len(heights) + 1)
    PROVE  /\ SizeRange(i, h, heights).miner \in Int
           /\ SizeRange(i, h, heights).development \in Int
<1>1. PICK miner \in Int, development \in Int :
         SizeRange(i, h, heights) = [miner |-> miner, development |-> development]
  BY SizeBounds, LegacyRangeType DEF SizeRange
<1>. QED
  BY <1>1

\* A block that leaves the state as large as it was lengthens the last range.
LEMMA LegacyExtends ==
    ASSUME NEW h \in Nat, NEW heights \in Seq(1..h)
    PROVE  /\ LegacyUpTo(h, heights) \in Amounts
           /\ LegacyUpTo(h + 1, heights)
                = Further(LegacyUpTo(h, heights), LegacyMiner(LogSlotsGenesis + Len(heights)),
                          LegacyPayout(h + 1, LogSlotsGenesis + Len(heights)))
<1>. DEFINE n == Len(heights)
            S == 1..(n + 1)
            G == LogSlotsGenesis + n
            m0 == [i \in S |-> SizeRange(i, h, heights).miner]
            m1 == [i \in S |-> SizeRange(i, h + 1, heights).miner]
            d0 == [i \in S |-> SizeRange(i, h, heights).development]
            d1 == [i \in S |-> SizeRange(i, h + 1, heights).development]
<1>1. /\ n \in Nat /\ n + 1 \in S /\ G \in Nat /\ G >= LogSlotsGenesis
      /\ \A i \in 1..n : heights[i] \in 1..h
      /\ heights \in Seq(Nat \ {0}) /\ h + 1 \in Nat
  BY EmissionAssumption
<1>2. IsFiniteSet(S)
  BY <1>1, FS_Interval
<1>3. \A i \in S : m0[i] \in Int /\ m1[i] \in Int /\ d0[i] \in Int /\ d1[i] \in Int
  <2>1. \A g \in {h, h + 1}, i \in S : SizeRange(i, g, heights).miner \in Int
                                        /\ SizeRange(i, g, heights).development \in Int
    <3>. HIDE DEF m0, m1, d0, d1
    <3>. QED  BY <1>1, SizeRangeType
  <2>. QED  BY <2>1
<1>4. ASSUME NEW i \in S \ {n + 1}
      PROVE  SizeRange(i, h + 1, heights) = SizeRange(i, h, heights)
  <2>1. i \in 1..n /\ ~(i > n)
    BY <1>1
  <2>2. SizeLast(i, h + 1, heights) = SizeLast(i, h, heights)
    BY <1>1, <2>1 DEF SizeLast, Lesser
  <2>. QED  BY <2>2 DEF SizeRange
<1>5. PICK miner \in Int, development \in Int :
         /\ SizeRange(n + 1, h, heights) = [miner |-> miner, development |-> development]
         /\ SizeRange(n + 1, h + 1, heights)
              = [ miner       |-> miner + LegacyMiner(G),
                  development |-> development + LegacyPayout(h + 1, G) ]
  <2>1. SizeLast(n + 1, h, heights) = h /\ SizeLast(n + 1, h + 1, heights) = h + 1
    BY <1>1 DEF SizeLast
  <2>2. PICK from \in Nat \ {0} : from = SizeFirst(n + 1, heights) /\ from <= h + 1
    BY <1>1 DEF SizeFirst
  <2>3. LogSlotsGenesis + (n + 1) - 1 = G
    BY <1>1, EmissionAssumption
  <2>4. /\ SizeRange(n + 1, h, heights) = LegacyRange(from, h, G)
        /\ SizeRange(n + 1, h + 1, heights) = LegacyRange(from, h + 1, G)
    BY <2>1, <2>2, <2>3, Zenon DEF SizeRange
  <2>5. PICK miner \in Int, development \in Int :
           /\ LegacyRange(from, h, G) = [miner |-> miner, development |-> development]
           /\ LegacyRange(from, h + 1, G)
                = [ miner       |-> miner + LegacyMiner(G),
                    development |-> development + LegacyPayout(h + 1, G) ]
    <3>. HIDE DEF G
    <3>. QED  BY <1>1, <2>2, LegacyRangeGrows
  <2>. QED  BY <2>4, <2>5, Zenon
<1>6. /\ SumFunction(m0) \in Int /\ SumFunction(m1) = SumFunction(m0) + (m1[n + 1] - m0[n + 1])
      /\ SumFunction(d0) \in Int /\ SumFunction(d1) = SumFunction(d0) + (d1[n + 1] - d0[n + 1])
  <2>1. /\ m0 \in [S -> Int] /\ m1 \in [S -> Int] /\ d0 \in [S -> Int] /\ d1 \in [S -> Int]
        /\ \A i \in S \ {n + 1} : m0[i] = m1[i] /\ d0[i] = d1[i]
    BY <1>3, <1>4
  <2>2. n + 1 \in S
    BY <1>1
  <2>. HIDE DEF m0, m1, d0, d1, S
  <2>3. SumFunction(m0) \in Int /\ SumFunction(m1) = SumFunction(m0) + (m1[n + 1] - m0[n + 1])
    BY <1>2, <2>1, <2>2, SumOneChanged
  <2>4. SumFunction(d0) \in Int /\ SumFunction(d1) = SumFunction(d0) + (d1[n + 1] - d0[n + 1])
    BY <1>2, <2>1, <2>2, SumOneChanged
  <2>. QED  BY <2>3, <2>4
<1>7. m1[n + 1] - m0[n + 1] = LegacyMiner(G) /\ d1[n + 1] - d0[n + 1] = LegacyPayout(h + 1, G)
  <2>1. LegacyMiner(G) \in Int /\ LegacyPayout(h + 1, G) \in Int
    BY <1>1, LegacyAmounts DEF LegacyPayout
  <2>. QED  BY <1>1, <1>5, <2>1
<1>8. /\ LegacyUpTo(h, heights) = [miner |-> SumFunction(m0), development |-> SumFunction(d0)]
      /\ LegacyUpTo(h + 1, heights) = [miner |-> SumFunction(m1), development |-> SumFunction(d1)]
  BY DEF LegacyUpTo
<1>. HIDE DEF m0, m1, d0, d1, S
<1>. QED
  BY <1>6, <1>7, <1>8 DEF Amounts, Further

\* A range added behind the others.
LEMMA LegacyOneMore ==
    ASSUME NEW h \in Nat, NEW next \in Nat, NEW heights \in Seq(Nat \ {0}), NEW x \in Nat \ {0},
           \A i \in 1..(Len(heights) + 1) :
              SizeRange(i, next, Append(heights, x)) = SizeRange(i, h, heights)
    PROVE  LET more == SizeRange(Len(heights) + 2, next, Append(heights, x)) IN
           /\ LegacyUpTo(h, heights) \in Amounts
           /\ LegacyUpTo(next, Append(heights, x))
                = Further(LegacyUpTo(h, heights), more.miner, more.development)
<1>. DEFINE n == Len(heights) + 1
            all == Append(heights, x)
            m0 == [i \in 1..n |-> SizeRange(i, h, heights).miner]
            m1 == [i \in 1..(n + 1) |-> SizeRange(i, next, all).miner]
            d0 == [i \in 1..n |-> SizeRange(i, h, heights).development]
            d1 == [i \in 1..(n + 1) |-> SizeRange(i, next, all).development]
<1>1. n \in Nat /\ Len(all) + 1 = n + 1 /\ all \in Seq(Nat \ {0}) /\ n + 1 = Len(heights) + 2
  OBVIOUS
<1>2. /\ \A i \in 1..n : /\ SizeRange(i, h, heights).miner \in Int
                         /\ SizeRange(i, h, heights).development \in Int
      /\ \A i \in 1..(n + 1) : /\ SizeRange(i, next, all).miner \in Int
                               /\ SizeRange(i, next, all).development \in Int
  <2>. HIDE DEF all
  <2>. QED  BY <1>1, SizeRangeType
<1>3. /\ m0 \in [1..n -> Int] /\ m1 \in [1..(n + 1) -> Int]
      /\ d0 \in [1..n -> Int] /\ d1 \in [1..(n + 1) -> Int]
  BY <1>2
<1>4. \A i \in 1..n : i \in 1..(n + 1) /\ m1[i] = m0[i] /\ d1[i] = d0[i]
  <2>1. \A i \in 1..n : i \in 1..(n + 1)
    BY <1>1
  <2>. HIDE DEF n
  <2>2. \A i \in 1..n : SizeRange(i, next, all) = SizeRange(i, h, heights)
    BY DEF n
  <2>. QED  BY <2>1, <2>2
<1>5. /\ LegacyUpTo(h, heights) = [miner |-> SumFunction(m0), development |-> SumFunction(d0)]
      /\ LegacyUpTo(next, all) = [miner |-> SumFunction(m1), development |-> SumFunction(d1)]
  BY <1>1, Zenon DEF LegacyUpTo
<1>6. /\ SumFunction(m0) \in Int /\ SumFunction(m1) = SumFunction(m0) + m1[n + 1]
      /\ SumFunction(d0) \in Int /\ SumFunction(d1) = SumFunction(d0) + d1[n + 1]
  <2>. HIDE DEF m0, m1, d0, d1, n
  <2>1. SumFunction(m0) \in Int /\ SumFunction(m1) = SumFunction(m0) + m1[n + 1]
    BY <1>1, <1>3, <1>4, SumOneMore
  <2>2. SumFunction(d0) \in Int /\ SumFunction(d1) = SumFunction(d0) + d1[n + 1]
    BY <1>1, <1>3, <1>4, SumOneMore
  <2>. QED  BY <2>1, <2>2
<1>7. n + 1 \in 1..(n + 1)
  BY <1>1
<1>8. /\ m1[n + 1] = SizeRange(Len(heights) + 2, next, all).miner
      /\ d1[n + 1] = SizeRange(Len(heights) + 2, next, all).development
      /\ m1[n + 1] \in Int /\ d1[n + 1] \in Int
  BY <1>1, <1>3, <1>7
<1>. HIDE DEF m0, m1, d0, d1, all, n
<1>. QED
  BY <1>5, <1>6, <1>8 DEF all, Amounts, Further

\* A block that expands the state begins a range.
LEMMA LegacyExpands ==
    ASSUME NEW h \in Nat, NEW heights \in Seq(1..h)
    PROVE  LET size == LogSlotsGenesis + (Len(heights) + 1) IN
           /\ LegacyUpTo(h, heights) \in Amounts
           /\ LegacyUpTo(h + 1, Append(heights, h + 1))
                = Further(LegacyUpTo(h, heights), LegacyMiner(size), LegacyPayout(h + 1, size))
<1>. DEFINE n == Len(heights)
            all == Append(heights, h + 1)
            size == LogSlotsGenesis + (n + 1)
<1>1. /\ n \in Nat /\ Len(all) = n + 1 /\ all[n + 1] = h + 1
      /\ \A i \in 1..n : heights[i] \in 1..h /\ all[i] = heights[i]
      /\ heights \in Seq(Nat \ {0}) /\ h + 1 \in Nat \ {0} /\ h + 1 \in Nat
      /\ size \in Nat /\ size >= LogSlotsGenesis
  <2>1. /\ n \in Nat /\ Len(all) = n + 1 /\ all[n + 1] = h + 1
        /\ \A i \in 1..n : heights[i] \in 1..h /\ all[i] = heights[i]
    OBVIOUS
  <2>2. heights \in Seq(Nat \ {0}) /\ h + 1 \in Nat \ {0} /\ h + 1 \in Nat
    OBVIOUS
  <2>3. size \in Nat /\ size >= LogSlotsGenesis
    BY <2>1, EmissionAssumption
  <2>. QED  BY <2>1, <2>2, <2>3
<1>2. ASSUME NEW i \in 1..(n + 1)
      PROVE  SizeRange(i, h + 1, all) = SizeRange(i, h, heights)
  <2>1. SizeFirst(i, all) = SizeFirst(i, heights)
    <3>1. i # 1 => i - 1 \in 1..n
      BY <1>1
    <3>. QED  BY <1>1, <3>1 DEF SizeFirst
  <2>2. SizeLast(i, h + 1, all) = SizeLast(i, h, heights)
    <3>1. CASE i \in 1..n
      BY <1>1, <3>1 DEF SizeLast, Lesser
    <3>2. CASE i = n + 1
      <4>1. SizeLast(i, h + 1, all) = Lesser((h + 1) - 1, h + 1)
        BY <1>1, <3>2 DEF SizeLast
      <4>2. SizeLast(i, h, heights) = h
        BY <1>1, <3>2 DEF SizeLast
      <4>. QED  BY <4>1, <4>2 DEF Lesser
    <3>. QED  BY <1>1, <3>1, <3>2
  <2>. QED  BY <2>1, <2>2, Zenon DEF SizeRange
<1>3. SizeRange(n + 2, h + 1, all) = [ miner |-> LegacyMiner(size),
                                       development |-> LegacyPayout(h + 1, size) ]
  <2>1. SizeFirst(n + 2, all) = h + 1 /\ SizeLast(n + 2, h + 1, all) = h + 1
    BY <1>1 DEF SizeFirst, SizeLast
  <2>2. LogSlotsGenesis + (n + 2) - 1 = size
    BY <1>1, EmissionAssumption
  <2>3. SizeRange(n + 2, h + 1, all) = LegacyRange(h + 1, h + 1, size)
    BY <2>1, <2>2, Zenon DEF SizeRange
  <2>4. PICK miner \in Int, development \in Int :
           /\ LegacyRange(h + 1, h, size) = [miner |-> miner, development |-> development]
           /\ LegacyRange(h + 1, h + 1, size)
                = [ miner       |-> miner + LegacyMiner(size),
                    development |-> development + LegacyPayout(h + 1, size) ]
    <3>. HIDE DEF size
    <3>1. h + 1 \in Nat \ {0} /\ h \in Nat /\ h + 1 <= h + 1
      BY <1>1
    <3>. QED  BY <1>1, <3>1, LegacyRangeGrows
  <2>5. miner = 0 /\ development = 0
    <3>1. LegacyRange(h + 1, h, size) = NothingMinted
      BY DEF LegacyRange
    <3>. QED  BY <2>4, <3>1 DEF NothingMinted
  <2>6. LegacyMiner(size) \in Int /\ LegacyPayout(h + 1, size) \in Int
    BY <1>1, LegacyAmounts DEF LegacyPayout
  <2>. QED  BY <2>3, <2>4, <2>5, <2>6
<1>4. /\ LegacyUpTo(h, heights) \in Amounts
      /\ LegacyUpTo(h + 1, all)
           = Further(LegacyUpTo(h, heights), SizeRange(n + 2, h + 1, all).miner,
                     SizeRange(n + 2, h + 1, all).development)
  BY <1>1, <1>2, LegacyOneMore
<1>. QED
  BY <1>3, <1>4

\* The state's growth after the legacy era does not count.
LEMMA LegacyPast ==
    ASSUME NEW h \in Nat, NEW heights \in Seq(Nat \ {0}), NEW x \in Nat \ {0}, x > h
    PROVE  LegacyUpTo(h, Append(heights, x)) = LegacyUpTo(h, heights)
<1>. DEFINE n == Len(heights)
            all == Append(heights, x)
<1>1. /\ n \in Nat /\ Len(all) = n + 1 /\ all[n + 1] = x
      /\ \A i \in 1..n : heights[i] \in Nat /\ all[i] = heights[i]
  OBVIOUS
<1>2. ASSUME NEW i \in 1..(n + 1)
      PROVE  SizeRange(i, h, all) = SizeRange(i, h, heights)
  <2>1. SizeFirst(i, all) = SizeFirst(i, heights)
    <3>1. i # 1 => i - 1 \in 1..n
      BY <1>1
    <3>. QED  BY <1>1, <3>1 DEF SizeFirst
  <2>2. SizeLast(i, h, all) = SizeLast(i, h, heights)
    <3>1. CASE i \in 1..n
      BY <1>1, <3>1 DEF SizeLast, Lesser
    <3>2. CASE i = n + 1
      <4>1. SizeLast(i, h, all) = Lesser(x - 1, h)
        BY <1>1, <3>2 DEF SizeLast
      <4>2. SizeLast(i, h, heights) = h
        BY <1>1, <3>2 DEF SizeLast
      <4>. QED  BY <4>1, <4>2 DEF Lesser
    <3>. QED  BY <1>1, <3>1, <3>2
  <2>. QED  BY <2>1, <2>2, Zenon DEF SizeRange
<1>3. SizeRange(n + 2, h, all) = NothingMinted
  <2>1. SizeFirst(n + 2, all) = x /\ SizeLast(n + 2, h, all) = h
    BY <1>1 DEF SizeFirst, SizeLast
  <2>. QED  BY <2>1 DEF SizeRange, LegacyRange
<1>4. /\ LegacyUpTo(h, heights) \in Amounts
      /\ LegacyUpTo(h, all)
           = Further(LegacyUpTo(h, heights), SizeRange(n + 2, h, all).miner,
                     SizeRange(n + 2, h, all).development)
  BY <1>1, <1>2, LegacyOneMore
<1>5. SizeRange(n + 2, h, all).miner = 0 /\ SizeRange(n + 2, h, all).development = 0
  BY <1>3 DEF NothingMinted
<1>. HIDE DEF all, n
<1>6. LegacyUpTo(h, all) = LegacyUpTo(h, heights)
  BY <1>4, <1>5, NothingFurther
<1>. QED
  BY <1>6 DEF all

\* Before the first block nothing was minted.
LEMMA LegacyAtGenesis == LegacyUpTo(0, <<>>) = NothingMinted
<1>. DEFINE m == [i \in 1..1 |-> SizeRange(i, 0, <<>>).miner]
            d == [i \in 1..1 |-> SizeRange(i, 0, <<>>).development]
            none == [i \in 1..0 |-> 0]
<1>1. SizeRange(1, 0, <<>>) = NothingMinted
  BY DEF SizeRange, SizeFirst, SizeLast, LegacyRange
<1>2. m[1] = 0 /\ d[1] = 0 /\ m \in [1..1 -> Int] /\ d \in [1..1 -> Int] /\ none \in [1..0 -> Int]
  BY <1>1 DEF NothingMinted
<1>3. SumFunction(none) = 0
  <2>1. DOMAIN none = {}
    OBVIOUS
  <2>. QED  BY <2>1, SumOfNone DEF SumFunction
<1>4. SumFunction(m) = 0 /\ SumFunction(d) = 0
  <2>. HIDE DEF m, d, none
  <2>1. /\ 0 \in Nat /\ 0 + 1 = 1
        /\ m \in [1..(0 + 1) -> Int] /\ d \in [1..(0 + 1) -> Int]
        /\ \A i \in 1..0 : m[i] = none[i] /\ d[i] = none[i]
    BY <1>2
  <2>2. SumFunction(m) = SumFunction(none) + m[0 + 1]
    BY <1>2, <2>1, SumOneMore
  <2>3. SumFunction(d) = SumFunction(none) + d[0 + 1]
    BY <1>2, <2>1, SumOneMore
  <2>. QED  BY <1>2, <1>3, <2>1, <2>2, <2>3
<1>5. LegacyUpTo(0, <<>>) = [miner |-> SumFunction(m), development |-> SumFunction(d)]
  <2>1. 1..(Len(<<>>) + 1) = 1..1
    OBVIOUS
  <2>. QED  BY <2>1, Zenon DEF LegacyUpTo
<1>. QED
  BY <1>4, <1>5 DEF NothingMinted

-----------------------------------------------------------------------------
(* What the blocks after the fork mint.                                    *)

LEMMA TiersType ==
    /\ Len(Rewards) \in Nat \ {0} /\ DOMAIN Rewards = 1..Len(Rewards)
    /\ \A t \in 1..Len(Rewards) :
          /\ Rewards[t] \in Nat /\ Rewards[t] \div ShareDenominator \in Nat
          /\ TierFirst(t) \in Nat /\ TierFirst(t) >= Activation
          /\ TierFirst(t + 1) = TierFirst(t) + Interval
<1>1. Rewards \in Seq(Nat) /\ Rewards # <<>>
  BY EmissionAssumption
<1>2. Len(Rewards) \in Nat \ {0} /\ DOMAIN Rewards = 1..Len(Rewards)
  BY <1>1
<1>3. ASSUME NEW t \in 1..Len(Rewards)
      PROVE  /\ Rewards[t] \in Nat /\ Rewards[t] \div ShareDenominator \in Nat
             /\ TierFirst(t) \in Nat /\ TierFirst(t) >= Activation
             /\ TierFirst(t + 1) = TierFirst(t) + Interval
  <2>1. Rewards[t] \in Nat
    BY <1>1
  <2>2. Rewards[t] \div ShareDenominator \in Nat
    BY <2>1, DivMod, ScheduleConstants
  <2>3. PICK k \in Nat, i \in Nat, p \in Nat : t = k + 1 /\ i = Interval /\ p = k * i
    <3>1. t - 1 \in Nat /\ t = (t - 1) + 1 /\ Interval \in Nat
      BY <1>2, ScheduleConstants
    <3>. QED  BY <3>1
  <2>4. (t - 1) * Interval = p /\ ((t + 1) - 1) * Interval = p + i
    <3>1. t - 1 = k /\ (t + 1) - 1 = k + 1 /\ (k + 1) * i = p + i
      BY <2>3
    <3>. QED  BY <2>3, <3>1, Zenon
  <2>5. TierFirst(t) = Activation + p /\ TierFirst(t + 1) = Activation + (p + i)
    BY <2>4, Zenon DEF TierFirst
  <2>6. PICK before \in Nat : before = p
    BY <2>3
  <2>7. TierFirst(t) = Activation + before /\ TierFirst(t + 1) = Activation + (before + Interval)
    BY <2>3, <2>5, <2>6, Zenon
  <2>8. Activation \in Nat /\ Interval \in Nat
    BY ScheduleConstants
  <2>9. TierFirst(t) \in Nat /\ TierFirst(t) >= Activation /\ TierFirst(t + 1) = TierFirst(t) + Interval
    BY <2>7, <2>8
  <2>. QED  BY <2>1, <2>2, <2>9
<1>. QED
  BY <1>2, <1>3

\* The regular payouts that come before a tier.
PayoutsBefore(t) == (t - 1) * (Interval \div V2Day)

LEMMA TierFirstIsAfterPayouts ==
    ASSUME NEW t \in 1..Len(Rewards)
    PROVE  /\ PayoutsBefore(t) \in Nat
           /\ TierFirst(t) = LastLegacy + 1 + V2Day * PayoutsBefore(t)
<1>1. PICK d \in Nat \ {0}, m \in Nat, i \in Nat, k \in Nat :
         d = V2Day /\ m = Interval \div V2Day /\ i = Interval /\ i = d * m /\ k = t - 1
  <2>1. PICK q \in Nat, r \in 0..(V2Day - 1) :
           q = Interval \div V2Day /\ r = Interval % V2Day /\ Interval = V2Day * q + r
    BY DivMod, ScheduleConstants
  <2>2. Interval = V2Day * q
    BY <2>1, ScheduleConstants
  <2>3. t - 1 \in Nat
    BY TiersType
  <2>. QED  BY <2>1, <2>2, <2>3, ScheduleConstants
<1>2. PayoutsBefore(t) = k * m
  BY <1>1, Zenon DEF PayoutsBefore
<1>3. (t - 1) * Interval = k * (d * m) /\ k * (d * m) = d * (k * m) /\ k * m \in Nat
  <2>1. k \in Nat /\ d \in Nat /\ m \in Nat
    BY <1>1
  <2>2. k * (d * m) = d * (k * m) /\ k * m \in Nat
    BY <2>1
  <2>3. (t - 1) * Interval = k * (d * m)
    BY <1>1, Zenon
  <2>. QED  BY <2>2, <2>3, Zenon
<1>4. TierFirst(t) = Activation + k * (d * m)
  BY <1>3, Zenon DEF TierFirst
<1>5. d * (k * m) = V2Day * PayoutsBefore(t)
  BY <1>1, <1>2, Zenon
<1>6. PICK p \in Nat : p = d * (k * m) /\ p = k * (d * m)
  BY <1>1, <1>3
<1>7. p = V2Day * PayoutsBefore(t) /\ TierFirst(t) = Activation + p
  BY <1>4, <1>5, <1>6, Zenon
<1>8. TierFirst(t) = LastLegacy + 1 + p
  BY <1>7, <1>6, ScheduleConstants
<1>. QED
  BY <1>2, <1>3, <1>7, <1>8, Zenon

LEMMA Distribute ==
    ASSUME NEW a \in Nat, NEW b \in Nat
    PROVE  a * (b + 1) = a * b + a /\ b + 1 \in Nat
OBVIOUS

LEMMA ProductOrder ==
    ASSUME NEW a \in Nat, NEW b \in Nat, NEW i \in Nat
    PROVE  /\ a * i \in Nat /\ b * i \in Nat
           /\ a <= b => a * i <= b * i
           /\ a < b => a * i + i <= b * i
<1>1. a * i \in Nat /\ b * i \in Nat
  OBVIOUS
<1>2. ASSUME a <= b PROVE a * i <= b * i
  <2>1. PICK e \in Nat : b = a + e
    <3>1. b - a \in Nat /\ b = a + (b - a)
      BY <1>2
    <3>. QED  BY <3>1
  <2>2. b * i = a * i + e * i /\ e * i \in Nat
    BY <2>1
  <2>. QED  BY <1>1, <2>2
<1>3. ASSUME a < b PROVE a * i + i <= b * i
  <2>1. PICK e \in Nat : b = a + 1 + e
    <3>1. b - (a + 1) \in Nat /\ b = a + 1 + (b - (a + 1))
      BY <1>3
    <3>. QED  BY <3>1
  <2>2. b * i = a * i + i + e * i /\ e * i \in Nat
    BY <2>1
  <2>. QED  BY <1>1, <2>2
<1>. QED
  BY <1>1, <1>2, <1>3

\* Within a tier every day ends with a payout.
LEMMA RegularInTier ==
    ASSUME NEW t \in 1..Len(Rewards), NEW k \in Nat, NEW g \in Nat, g = LastLegacy + k,
           TierFirst(t) <= g + 1, g <= DevEnd
    PROVE  RegularPayoutsIn(TierFirst(t), g) = k \div V2Day - PayoutsBefore(t)
<1>1. PICK d \in Nat \ {0}, c \in Nat, F \in Nat, p \in Nat :
         /\ d = V2Day /\ c = PayoutsBefore(t) /\ F = TierFirst(t) /\ p = d * c
         /\ F = LastLegacy + 1 + p /\ F >= Activation
  <2>1. V2Day * PayoutsBefore(t) \in Nat
    BY TierFirstIsAfterPayouts, ScheduleConstants
  <2>. QED  BY <2>1, TierFirstIsAfterPayouts, TiersType, ScheduleConstants
<1>2. PICK q \in Nat, r \in 0..(d - 1) : q = k \div d /\ r = k % d /\ k = d * q + r
  BY DivMod
<1>3. k >= p
  BY <1>1, ScheduleConstants
<1>4. q >= c
  <2>1. SUFFICES ASSUME q < c PROVE FALSE
    BY <1>1, <1>2
  <2>2. q * d + d <= c * d /\ q * d \in Nat /\ c * d \in Nat
    BY <1>1, <1>2, <2>1, ProductOrder
  <2>3. q * d = d * q /\ c * d = d * c
    BY <1>1, <1>2
  <2>4. PICK m \in Nat : m = d * q /\ m + d <= p /\ k = m + r
    BY <1>1, <1>2, <2>2, <2>3, Zenon
  <2>. QED  BY <1>2, <1>3, <2>4
<1>5. Lesser(g, DevEnd) = g /\ Greater(F, Activation) = F
  BY <1>1, ScheduleConstants DEF Lesser, Greater
<1>6. (F - LastLegacy + d - 1) \div d = c + 1
  <2>0. d * (c + 1) = p + d /\ p \in Nat /\ d \in Nat \ {0} /\ c + 1 \in Nat
    <3>1. d * (c + 1) = d * c + d /\ c + 1 \in Nat
      BY <1>1, Distribute
    <3>. QED  BY <1>1, <3>1, Zenon
  <2>a. F = LastLegacy + 1 + p /\ LastLegacy \in Nat
    BY <1>1, ScheduleConstants
  <2>b. F - LastLegacy + d - 1 = p + d
    BY <2>0, <2>a
  <2>1. F - LastLegacy + d - 1 = d * (c + 1) + 0
    BY <2>0, <2>b
  <2>2. (d * (c + 1) + 0) \div d = c + 1
    <3>1. 0 \in Nat /\ 0 < d
      BY <2>0
    <3>. QED  BY <2>0, <3>1, Unique
  <2>. QED  BY <2>1, <2>2, Zenon
<1>7. (g - LastLegacy) \div d = q
  <2>1. g - LastLegacy = k
    BY ScheduleConstants
  <2>. QED  BY <1>2, <2>1, Zenon
<1>8. RegularPayoutsIn(F, g) = IF g < F THEN 0 ELSE Greater(q + 1 - (c + 1), 0)
  BY <1>1, <1>5, <1>6, <1>7, Zenon DEF RegularPayoutsIn
<1>9. CASE g < F
  <2>1. k = d * c + 0
    BY <1>1, <1>9, ScheduleConstants
  <2>2. (d * c + 0) \div d = c
    BY <1>1, Unique
  <2>3. q = c
    BY <1>2, <2>1, <2>2, Zenon
  <2>. QED  BY <1>1, <1>2, <1>8, <1>9, <2>3
<1>10. CASE ~(g < F)
  <2>0. q \in Nat /\ c \in Nat
    BY <1>1, <1>2
  <2>1. Greater(q + 1 - (c + 1), 0) = q - c
    BY <2>0, <1>4 DEF Greater
  <2>2. RegularPayoutsIn(F, g) = q - c
    BY <1>8, <1>10, <2>1
  <2>. QED  BY <1>1, <1>2, <2>2, Zenon
<1>. QED
  BY <1>9, <1>10

\* Where the next block stands among the tiers.
LEMMA TierPlace ==
    ASSUME NEW k \in Nat, NEW h \in Nat, h = LastLegacy + k, NEW t \in 1..Len(Rewards)
    PROVE  /\ Tier(h + 1) \in 1..Len(Rewards)
           /\ t < Tier(h + 1) => t # Len(Rewards) /\ TierFirst(t) + Interval <= h + 1
           /\ t > Tier(h + 1) => TierFirst(t) > h + 1
           /\ t = Tier(h + 1) => /\ TierFirst(t) <= h + 1
                                 /\ t # Len(Rewards) => h + 1 < TierFirst(t) + Interval
<1>1. PICK i \in Nat \ {0}, T \in Nat \ {0}, s \in Nat :
         i = Interval /\ T = Len(Rewards) /\ t = s + 1
  <2>1. t - 1 \in Nat /\ t = (t - 1) + 1
    BY TiersType
  <2>. QED  BY <2>1, TiersType, ScheduleConstants
<1>2. PICK q \in Nat, r \in 0..(i - 1) : q = k \div i /\ r = k % i /\ k = i * q + r
  BY DivMod
<1>a. s \in Nat /\ q \in Nat /\ i \in Nat
  <2>1. q \in Nat
    BY <1>2
  <2>. QED  BY <1>1, <2>1
<1>3. PICK x \in Nat, y \in Nat : x = s * i /\ y = q * i /\ k = y + r
  <2>1. s * i \in Nat /\ q * i \in Nat /\ i * q = q * i
    BY <1>a
  <2>. QED  BY <1>2, <2>1
<1>4. TierFirst(t) = Activation + x
  <2>1. t - 1 = s
    BY <1>1
  <2>. QED  BY <1>1, <1>3, <2>1, Zenon DEF TierFirst
<1>5. Tier(h + 1) = Lesser(q + 1, T)
  <2>1. (h + 1) - Activation = k
    BY ScheduleConstants
  <2>. QED  BY <1>1, <1>2, <2>1, Zenon DEF Tier
<1>b. /\ s <= q => s * i <= q * i
      /\ s < q => s * i + i <= q * i
      /\ q < s => q * i + i <= s * i
  BY <1>a, ProductOrder
<1>c. q < s <=> s > q
  BY <1>a
<1>6. s <= q => x <= y
  BY <1>3, <1>b, Zenon
<1>7. s < q => x + i <= y
  BY <1>3, <1>b, Zenon
<1>8. s > q => y + i <= x
  BY <1>3, <1>b, <1>c, Zenon
<1>9. /\ i \in Nat \ {0} /\ T \in Nat \ {0} /\ s \in Nat /\ q \in Nat /\ r \in 0..(i - 1)
      /\ x \in Nat /\ y \in Nat /\ k = y + r /\ i = Interval /\ T = Len(Rewards) /\ t = s + 1
      /\ t \in 1..T /\ Activation = LastLegacy + 1 /\ LastLegacy \in Nat
  BY <1>1, <1>2, <1>3, ScheduleConstants
<1>10. Tier(h + 1) \in 1..T
  BY <1>5, <1>9 DEF Lesser
<1>11. ASSUME t < Tier(h + 1) PROVE t # Len(Rewards) /\ TierFirst(t) + Interval <= h + 1
  <2>1. s < q /\ t # T
    BY <1>5, <1>9, <1>11 DEF Lesser
  <2>. QED  BY <1>4, <1>7, <1>9, <2>1
<1>12. ASSUME t > Tier(h + 1) PROVE TierFirst(t) > h + 1
  <2>1. s > q
    BY <1>5, <1>9, <1>12 DEF Lesser
  <2>. QED  BY <1>4, <1>8, <1>9, <2>1
<1>13. ASSUME t = Tier(h + 1)
       PROVE  /\ TierFirst(t) <= h + 1
              /\ t # Len(Rewards) => h + 1 < TierFirst(t) + Interval
  <2>1. s <= q /\ (t # T => s = q)
    BY <1>5, <1>9, <1>13 DEF Lesser
  <2>2. s = q => x = y
    BY <1>3, Zenon
  <2>. QED  BY <1>4, <1>6, <1>9, <2>1, <2>2
<1>. QED
  BY <1>9, <1>10, <1>11, <1>12, <1>13

\* The other tiers are complete, or have not begun.
LEMMA OtherTiersStay ==
    ASSUME NEW k \in Nat, NEW h \in Nat, h = LastLegacy + k, NEW t \in 1..Len(Rewards),
           t # Tier(h + 1)
    PROVE  V2TierRange(t, Activation, h + 1) = V2TierRange(t, Activation, h)
<1>1. PICK F \in Nat, T \in Nat \ {0}, i \in Nat \ {0} :
         F = TierFirst(t) /\ F >= Activation /\ T = Len(Rewards) /\ i = Interval
         /\ TierFirst(t + 1) = F + i
  BY TiersType, ScheduleConstants
<1>2. Greater(F, Activation) = F
  BY <1>1, ScheduleConstants DEF Greater
<1>3. CASE t < Tier(h + 1)
  <2>1. t # T /\ F + i <= h + 1
    BY <1>1, <1>3, TierPlace
  <2>2. Lesser((F + i) - 1, h + 1) = (F + i) - 1 /\ Lesser((F + i) - 1, h) = (F + i) - 1
    BY <1>1, <2>1 DEF Lesser
  <2>. QED  BY <1>1, <2>1, <2>2, Zenon DEF V2TierRange
<1>4. CASE t > Tier(h + 1)
  <2>1. F > h + 1
    BY <1>1, <1>4, TierPlace
  <2>2. PICK last \in Int : last < F /\ last = IF t = T THEN h + 1 ELSE Lesser((F + i) - 1, h + 1)
    BY <1>1, <2>1 DEF Lesser
  <2>3. PICK before \in Int : before < F /\ before = IF t = T THEN h ELSE Lesser((F + i) - 1, h)
    BY <1>1, <2>1 DEF Lesser
  <2>4. V2TierRange(t, Activation, h + 1) = NothingMinted
    BY <1>1, <1>2, <2>2, Zenon DEF V2TierRange
  <2>5. V2TierRange(t, Activation, h) = NothingMinted
    BY <1>1, <1>2, <2>3, Zenon DEF V2TierRange
  <2>. QED  BY <2>4, <2>5, Zenon
<1>. QED
  <2>1. Tier(h + 1) \in Int /\ t \in Int
    BY TierPlace
  <2>. QED  BY <1>3, <1>4, <2>1

\* The blocks of a tier that give to the allocation, and those paid for, up to a height.
TierDev(t, g) == Greater(Lesser(g, DevEnd) - TierFirst(t) + 1, 0)
TierPaid(t, g) ==
    V2Day * RegularPayoutsIn(TierFirst(t), g)
        + IF DevEnd \in TierFirst(t)..g THEN FinalPartialPayoutBlocks ELSE 0

LEMMA RegularType ==
    ASSUME NEW F \in Nat, F >= Activation, NEW g \in Nat, g >= LastLegacy
    PROVE  RegularPayoutsIn(F, g) \in Int
<1>1. Greater(F, Activation) = F
  BY ScheduleConstants DEF Greater
<1>2. PICK hi \in Nat : hi = Lesser(g, DevEnd) /\ hi >= LastLegacy
  BY ScheduleConstants DEF Lesser
<1>3. PICK a \in Nat : a = (hi - LastLegacy) \div V2Day
  <2>1. hi - LastLegacy \in Nat
    BY <1>2, ScheduleConstants
  <2>. QED  BY <2>1, DivMod, ScheduleConstants
<1>4. PICK b \in Nat : b = (F - LastLegacy + V2Day - 1) \div V2Day
  <2>1. F - LastLegacy + V2Day - 1 \in Nat
    BY ScheduleConstants
  <2>. QED  BY <2>1, DivMod, ScheduleConstants
<1>5. RegularPayoutsIn(F, g) = IF hi < F THEN 0 ELSE Greater(a + 1 - b, 0)
  BY <1>1, <1>2, <1>3, <1>4, Zenon DEF RegularPayoutsIn
<1>. QED
  BY <1>3, <1>4, <1>5 DEF Greater

\* What a block adds to both.
LEMMA TierDevStep ==
    ASSUME NEW t \in 1..Len(Rewards), NEW h \in Nat, TierFirst(t) <= h + 1
    PROVE  /\ TierDev(t, h) \in Nat
           /\ TierDev(t, h + 1) = TierDev(t, h) + IF h < DevEnd THEN 1 ELSE 0
<1>1. PICK F \in Nat : F = TierFirst(t)
  BY TiersType
<1>. QED
  BY <1>1, ScheduleConstants DEF TierDev, Lesser, Greater

LEMMA TierPaidStep ==
    ASSUME NEW t \in 1..Len(Rewards), NEW k \in Nat, NEW h \in Nat, h = LastLegacy + k,
           TierFirst(t) <= h + 1, DevEnd # Activation
    PROVE  /\ TierPaid(t, h) \in Int /\ PayoutDays(h + 1) \in Nat
           /\ TierPaid(t, h + 1) = TierPaid(t, h) + PayoutDays(h + 1)
<1>1. PICK F \in Nat, d \in Nat \ {0} : F = TierFirst(t) /\ F >= Activation /\ d = V2Day
  BY TiersType, ScheduleConstants
<1>2. PICK fin \in Nat : fin = FinalPartialPayoutBlocks
  <2>1. DevEnd - LastLegacy \in Nat
    BY ScheduleConstants
  <2>. QED  BY <2>1, DivMod, ScheduleConstants DEF FinalPartialPayoutBlocks
<1>3. PICK r0 \in Int : r0 = RegularPayoutsIn(F, h)
  BY <1>1, RegularType, ScheduleConstants
<1>4. PICK days \in Nat :
         /\ days = PayoutDays(h + 1)
         /\ days = IF h < DevEnd /\ ((k + 1) % d = 0 \/ h + 1 = DevEnd)
                     THEN IF (k + 1) % d = 0 THEN d ELSE (k + 1) % d
                     ELSE 0
  <2>1. (k + 1) % d \in Nat
    BY <1>1, DivMod
  <2>2. PayoutDays(h + 1) = IF h < DevEnd /\ ((k + 1) % d = 0 \/ h + 1 = DevEnd)
                              THEN IF (k + 1) % d = 0 THEN d ELSE (k + 1) % d
                              ELSE 0
    <3>1. PayoutDays(h + 1) = IF h < DevEnd /\ ((k + 1) % V2Day = 0 \/ h + 1 = DevEnd)
                                THEN IF (k + 1) % V2Day = 0 THEN V2Day ELSE (k + 1) % V2Day
                                ELSE 0
      BY V2Payouts
    <3>. QED  BY <1>1, <3>1, Zenon
  <2>. QED  BY <1>1, <2>1, <2>2
<1>5. TierPaid(t, h) = d * r0 + IF DevEnd \in F..h THEN fin ELSE 0
  BY <1>1, <1>2, <1>3, Zenon DEF TierPaid
<1>6. d * r0 \in Int
  BY <1>1, <1>3
<1>7. CASE ~(h < DevEnd)
  <2>1. RegularPayoutsIn(F, h + 1) = r0
    <3>1. Lesser(h + 1, DevEnd) = DevEnd /\ Lesser(h, DevEnd) = DevEnd
      BY <1>7, ScheduleConstants DEF Lesser
    <3>. QED  BY <1>3, <3>1, Zenon DEF RegularPayoutsIn
  <2>2. TierPaid(t, h + 1) = d * r0 + IF DevEnd \in F..(h + 1) THEN fin ELSE 0
    BY <1>1, <1>2, <2>1, Zenon DEF TierPaid
  <2>3. DevEnd \in F..(h + 1) <=> DevEnd \in F..h
    BY <1>1, <1>7, ScheduleConstants
  <2>4. days = 0
    BY <1>4, <1>7
  <2>5. PICK before \in Int : before = d * r0
    BY <1>6
  <2>. QED  BY <1>2, <1>4, <1>5, <2>2, <2>3, <2>4, <2>5
<1>8. CASE h < DevEnd
  <2>1. PICK q \in Nat, q1 \in Nat, m \in Nat :
           q = k \div d /\ q1 = (k + 1) \div d /\ m = (k + 1) % d
    <3>1. k \div d \in Nat
      BY <1>1, DivMod
    <3>2. (k + 1) \div d \in Nat /\ (k + 1) % d \in Nat
      BY <1>1, DivMod
    <3>. QED  BY <3>1, <3>2
  <2>2. (m = 0 => q1 = q + 1) /\ (m # 0 => q1 = q)
    BY <1>1, <2>1, QuotientStep, Zenon
  <2>3. PICK c \in Nat : c = PayoutsBefore(t)
    BY TierFirstIsAfterPayouts
  <2>4. r0 = q - c
    <3>1. h <= DevEnd
      BY <1>8, ScheduleConstants
    <3>2. RegularPayoutsIn(TierFirst(t), h) = k \div V2Day - PayoutsBefore(t)
      BY <3>1, RegularInTier
    <3>. QED  BY <1>1, <1>3, <2>1, <2>3, <3>2, Zenon
  <2>5. RegularPayoutsIn(F, h + 1) = q1 - c
    <3>1. k + 1 \in Nat /\ h + 1 \in Nat /\ h + 1 = LastLegacy + (k + 1)
          /\ TierFirst(t) <= (h + 1) + 1 /\ h + 1 <= DevEnd
      BY <1>1, <1>8, ScheduleConstants
    <3>2. RegularPayoutsIn(TierFirst(t), h + 1) = (k + 1) \div V2Day - PayoutsBefore(t)
      BY <3>1, RegularInTier
    <3>. QED  BY <1>1, <2>1, <2>3, <3>2, Zenon
  <2>6. TierPaid(t, h + 1) = d * (q1 - c) + IF DevEnd \in F..(h + 1) THEN fin ELSE 0
    BY <1>1, <1>2, <2>5, Zenon DEF TierPaid
  <2>7. DevEnd = h + 1 => fin = m
    <3>1. DevEnd = h + 1 => DevEnd - LastLegacy = k + 1
      BY ScheduleConstants
    <3>. QED  BY <1>1, <1>2, <2>1, <3>1, Zenon DEF FinalPartialPayoutBlocks
  <2>8. PICK before \in Int, after \in Int :
           before = d * (q - c) /\ after = d * (q1 - c)
           /\ (m = 0 => after = before + d) /\ (m # 0 => after = before)
    <3>1. q - c \in Int /\ q1 - c \in Int /\ (m = 0 => q1 - c = (q - c) + 1)
      BY <2>1, <2>2, <2>3
    <3>2. \A x \in Int : d * x \in Int /\ d * (x + 1) = d * x + d
      BY <1>1
    <3>3. m = 0 => d * (q1 - c) = d * (q - c) + d
      BY <3>1, <3>2, Zenon
    <3>4. m # 0 => d * (q1 - c) = d * (q - c)
      BY <2>2, Zenon
    <3>5. d * (q - c) \in Int /\ d * (q1 - c) \in Int
      BY <3>1, <3>2
    <3>. QED  BY <3>3, <3>4, <3>5
  <2>9. days = IF m = 0 \/ h + 1 = DevEnd THEN IF m = 0 THEN d ELSE m ELSE 0
    BY <1>4, <1>8, <2>1, Zenon
  <2>10. DevEnd \notin F..h /\ (DevEnd \in F..(h + 1) <=> DevEnd = h + 1)
    BY <1>1, <1>8, ScheduleConstants
  <2>11. TierPaid(t, h) = before
    <3>1. TierPaid(t, h) = d * (q - c) + 0
      BY <1>5, <2>4, <2>10, Zenon
    <3>. QED  BY <2>8, <3>1
  <2>12. TierPaid(t, h + 1) = after + IF DevEnd = h + 1 THEN fin ELSE 0
    BY <2>6, <2>8, <2>10, Zenon
  <2>13. m \in Nat /\ d \in Nat /\ days \in Nat
    BY <1>1, <1>4, <2>1
  <2>14. after + (IF DevEnd = h + 1 THEN fin ELSE 0) = before + days
    BY <1>2, <2>7, <2>8, <2>9, <2>13
  <2>15. PayoutDays(h + 1) = days
    BY <1>4, Zenon
  <2>16. TierPaid(t, h + 1) = before + days
    BY <2>12, <2>14, Zenon
  <2>17. before \in Int
    BY <2>8
  <2>. QED  BY <2>11, <2>13, <2>15, <2>16, <2>17, Zenon
<1>. QED
  BY <1>7, <1>8, ScheduleConstants

\* A tier that has begun and is not over.
LEMMA TierRange ==
    ASSUME NEW t \in 1..Len(Rewards), NEW g \in Nat, g >= LastLegacy, TierFirst(t) <= g + 1,
           t # Len(Rewards) => g < TierFirst(t) + Interval
    PROVE  LET share == Rewards[t] \div ShareDenominator IN
           V2TierRange(t, Activation, g) =
             [ miner       |-> (g - TierFirst(t) + 1) * Rewards[t] - TierDev(t, g) * 2 * share,
               development |-> 2 * share * TierPaid(t, g) ]
<1>1. PICK F \in Nat, T \in Nat \ {0}, i \in Nat \ {0}, s \in Nat, R \in Nat :
         F = TierFirst(t) /\ F >= Activation /\ T = Len(Rewards) /\ i = Interval
         /\ TierFirst(t + 1) = F + i /\ s = Rewards[t] \div ShareDenominator /\ R = Rewards[t]
  BY TiersType, ScheduleConstants
<1>2. Greater(F, Activation) = F
  BY <1>1, ScheduleConstants DEF Greater
<1>3. (IF t = T THEN g ELSE Lesser((F + i) - 1, g)) = g
  BY <1>1 DEF Lesser
<1>4. V2TierRange(t, Activation, g) =
        IF g < F THEN NothingMinted
        ELSE [ miner       |-> (g - F + 1) * R - TierDev(t, g) * 2 * s,
               development |-> 2 * s * TierPaid(t, g) ]
  BY <1>1, <1>2, <1>3, Zenon DEF V2TierRange, TierDev, TierPaid
<1>5. CASE ~(g < F)
  BY <1>1, <1>4, <1>5, Zenon
<1>6. CASE g < F
  <2>1. g - F + 1 = 0
    BY <1>1, <1>6
  <2>2. TierDev(t, g) = 0
    BY <1>1, <1>6, ScheduleConstants DEF TierDev, Lesser, Greater
  <2>3. TierPaid(t, g) = 0
    <3>1. RegularPayoutsIn(F, g) = 0
      <4>1. Lesser(g, DevEnd) < F
        BY <1>1, <1>6, ScheduleConstants DEF Lesser
      <4>. QED  BY <1>2, <4>1, Zenon DEF RegularPayoutsIn
    <3>2. DevEnd \notin F..g
      BY <1>1, <1>6, ScheduleConstants
    <3>3. TierPaid(t, g) = V2Day * 0 + 0
      BY <1>1, <3>1, <3>2, Zenon DEF TierPaid
    <3>. QED  BY <3>3, ScheduleConstants
  <2>4. 0 * R - 0 * 2 * s = 0 /\ 2 * s * 0 = 0
    BY <1>1
  <2>5. (g - F + 1) * R - TierDev(t, g) * 2 * s = 0 /\ 2 * s * TierPaid(t, g) = 0
    BY <2>1, <2>2, <2>3, <2>4, Zenon
  <2>6. V2TierRange(t, Activation, g) = [miner |-> 0, development |-> 0]
    BY <1>4, <1>6, Zenon DEF NothingMinted
  <2>. QED  BY <1>1, <2>5, <2>6, Zenon
<1>. QED
  BY <1>5, <1>6

\* The tier of the next block takes it in.
LEMMA OwnTierGrows ==
    ASSUME NEW k \in Nat, NEW h \in Nat, h = LastLegacy + k, NEW t \in 1..Len(Rewards),
           t = Tier(h + 1), DevEnd # Activation, NEW logSlots
    PROVE  /\ MinerSubsidy(h + 1, logSlots) \in Int /\ Payout(h + 1, logSlots) \in Int
           /\ V2TierRange(t, Activation, h) \in Amounts
           /\ V2TierRange(t, Activation, h + 1)
                = Further(V2TierRange(t, Activation, h),
                          MinerSubsidy(h + 1, logSlots), Payout(h + 1, logSlots))
<1>1. PICK F \in Nat, s \in Nat, R \in Nat :
         F = TierFirst(t) /\ s = Rewards[t] \div ShareDenominator /\ R = Rewards[t]
  BY TiersType
<1>2. /\ F <= h + 1
      /\ t # Len(Rewards) => h + 1 < F + Interval
  BY <1>1, TierPlace
<1>3. PICK n \in Nat : n = h - F + 1
  <2>1. h - F + 1 \in Nat
    BY <1>1, <1>2
  <2>. QED  BY <2>1
<1>4. PICK dev \in Nat, e \in {0, 1} :
         dev = TierDev(t, h) /\ TierDev(t, h + 1) = dev + e /\ (e = 1 <=> h < DevEnd)
  <2>1. /\ TierDev(t, h) \in Nat
        /\ TierDev(t, h + 1) = TierDev(t, h) + IF h < DevEnd THEN 1 ELSE 0
    BY <1>1, <1>2, TierDevStep
  <2>. QED  BY <2>1
<1>5. PICK paid \in Int, days \in Nat :
         paid = TierPaid(t, h) /\ TierPaid(t, h + 1) = paid + days /\ days = PayoutDays(h + 1)
  BY <1>1, <1>2, TierPaidStep
<1>6. V2TierRange(t, Activation, h)
        = [miner |-> n * R - dev * 2 * s, development |-> 2 * s * paid]
  <2>1. h >= LastLegacy /\ TierFirst(t) <= h + 1
        /\ (t # Len(Rewards) => h < TierFirst(t) + Interval)
    BY <1>1, <1>2, ScheduleConstants
  <2>2. V2TierRange(t, Activation, h) =
          [ miner       |-> (h - TierFirst(t) + 1) * Rewards[t]
                               - TierDev(t, h) * 2 * (Rewards[t] \div ShareDenominator),
            development |-> 2 * (Rewards[t] \div ShareDenominator) * TierPaid(t, h) ]
    BY <2>1, TierRange
  <2>. QED  BY <1>1, <1>3, <1>4, <1>5, <2>2, Zenon
<1>7. V2TierRange(t, Activation, h + 1)
        = [miner |-> (n + 1) * R - (dev + e) * 2 * s, development |-> 2 * s * (paid + days)]
  <2>1. h + 1 >= LastLegacy /\ TierFirst(t) <= (h + 1) + 1 /\ h + 1 \in Nat
        /\ (t # Len(Rewards) => h + 1 < TierFirst(t) + Interval)
    BY <1>1, <1>2, ScheduleConstants
  <2>2. V2TierRange(t, Activation, h + 1) =
          [ miner       |-> ((h + 1) - TierFirst(t) + 1) * Rewards[t]
                               - TierDev(t, h + 1) * 2 * (Rewards[t] \div ShareDenominator),
            development |-> 2 * (Rewards[t] \div ShareDenominator) * TierPaid(t, h + 1) ]
    BY <2>1, TierRange
  <2>3. (h + 1) - F + 1 = n + 1
    BY <1>1, <1>3
  <2>. QED  BY <1>1, <1>4, <1>5, <2>2, <2>3, Zenon
<1>8. MinerSubsidy(h + 1, logSlots) = R - e * 2 * s
  <2>1. V2Active(h + 1) /\ (DevActive(h + 1) <=> h < DevEnd)
    BY V2Payouts
  <2>2. BlockRewardAt(h + 1, logSlots) = R /\ ShareEach(h + 1, logSlots) = s
    BY <1>1, <2>1, Zenon DEF BlockRewardAt, ShareEach
  <2>3. MinerSubsidy(h + 1, logSlots) = R - (IF h < DevEnd THEN 2 * s ELSE 0)
    BY <2>1, <2>2, Zenon DEF MinerSubsidy, Withheld
  <2>4. (IF h < DevEnd THEN 2 * s ELSE 0) = e * 2 * s
    <3>1. 1 * 2 * s = 2 * s /\ 0 * 2 * s = 0
      BY <1>1
    <3>. QED  BY <1>4, <3>1
  <2>. QED  BY <2>3, <2>4, Zenon
<1>9. Payout(h + 1, logSlots) = 2 * s * days
  <2>1. V2Active(h + 1)
    BY V2Payouts
  <2>2. ShareEach(h + 1, logSlots) = s
    BY <1>1, <2>1, Zenon DEF BlockRewardAt, ShareEach
  <2>. QED  BY <1>5, <2>2, Zenon DEF Payout
<1>t. n \in Int /\ R \in Int /\ dev \in Int /\ s \in Int /\ paid \in Int /\ days \in Int /\ e \in Int
  <2>1. n \in Int
    BY <1>3
  <2>2. R \in Int /\ s \in Int
    BY <1>1
  <2>3. dev \in Int
    BY <1>4
  <2>4. e \in Int
    BY <1>4
  <2>5. paid \in Int /\ days \in Int
    BY <1>5
  <2>. QED  BY <2>1, <2>2, <2>3, <2>4, <2>5
<1>10. /\ n * R - dev * 2 * s \in Int /\ 2 * s * paid \in Int /\ 2 * s * days \in Int
       /\ R - e * 2 * s \in Int
  <2>. QED  BY <1>t
<1>11. (n + 1) * R - (dev + e) * 2 * s = (n * R - dev * 2 * s) + (R - e * 2 * s)
  <2>2. (n + 1) * R = n * R + R /\ (dev + e) * 2 * s = dev * 2 * s + e * 2 * s
        /\ n * R \in Int /\ dev * 2 * s \in Int /\ e * 2 * s \in Int
    BY <1>t
  <2>. QED  BY <1>t, <2>2
<1>12. 2 * s * (paid + days) = 2 * s * paid + 2 * s * days
  <2>1. PICK m \in Nat : m = 2 * s
    BY <1>1
  <2>2. m * (paid + days) = m * paid + m * days
    BY <1>5, <2>1
  <2>. QED  BY <2>1, <2>2, Zenon
<1>13. V2TierRange(t, Activation, h + 1)
         = [ miner       |-> (n * R - dev * 2 * s) + (R - e * 2 * s),
             development |-> 2 * s * paid + 2 * s * days ]
  BY <1>7, <1>11, <1>12, Zenon
<1>14. PICK m0 \in Int, d0 \in Int, m \in Int, d \in Int :
          m0 = n * R - dev * 2 * s /\ d0 = 2 * s * paid /\ m = R - e * 2 * s /\ d = 2 * s * days
  BY <1>10
<1>15. /\ V2TierRange(t, Activation, h) = [miner |-> m0, development |-> d0]
       /\ V2TierRange(t, Activation, h + 1) = [miner |-> m0 + m, development |-> d0 + d]
       /\ MinerSubsidy(h + 1, logSlots) = m /\ Payout(h + 1, logSlots) = d
  BY <1>6, <1>8, <1>9, <1>13, <1>14, Zenon
<1>. QED
  <2>1. m0 \in Int /\ d0 \in Int /\ m \in Int /\ d \in Int
    OBVIOUS
  <2>. QED  BY <1>15, <2>1 DEF Amounts, Further

LEMMA TierType ==
    ASSUME NEW t \in 1..Len(Rewards), NEW h \in Nat
    PROVE  V2TierRange(t, Activation, h) \in Amounts
<1>1. PICK F \in Nat, T \in Nat \ {0}, i \in Nat \ {0}, s \in Nat, R \in Nat :
         F = TierFirst(t) /\ F >= Activation /\ T = Len(Rewards) /\ i = Interval
         /\ TierFirst(t + 1) = F + i /\ s = Rewards[t] \div ShareDenominator /\ R = Rewards[t]
  BY TiersType, ScheduleConstants
<1>2. Greater(F, Activation) = F
  BY <1>1, ScheduleConstants DEF Greater
<1>3. PICK last \in Int : last = IF t = T THEN h ELSE Lesser((F + i) - 1, h)
  BY <1>1 DEF Lesser
<1>4. PICK fin \in Int : fin = IF DevEnd \in F..last THEN FinalPartialPayoutBlocks ELSE 0
  <2>1. DevEnd - LastLegacy \in Nat
    BY ScheduleConstants
  <2>2. FinalPartialPayoutBlocks \in Int
    BY <2>1, DivMod, ScheduleConstants DEF FinalPartialPayoutBlocks
  <2>. QED  BY <2>2
<1>5. CASE last < F
  <2>1. V2TierRange(t, Activation, h) = NothingMinted
    BY <1>1, <1>2, <1>3, <1>5, Zenon DEF V2TierRange
  <2>. QED  BY <2>1 DEF NothingMinted, Amounts
<1>6. CASE ~(last < F)
  <2>1. last \in Nat /\ last >= LastLegacy
    BY <1>1, <1>6, ScheduleConstants
  <2>2. PICK reg \in Int : reg = RegularPayoutsIn(F, last)
    BY <1>1, <2>1, RegularType
  <2>3. PICK dev \in Int : dev = Greater(Lesser(last, DevEnd) - F + 1, 0)
    BY <1>1, ScheduleConstants DEF Lesser, Greater
  <2>4. V2TierRange(t, Activation, h) =
          [ miner       |-> (last - F + 1) * R - dev * 2 * s,
            development |-> 2 * s * (V2Day * reg + fin) ]
    BY <1>1, <1>2, <1>3, <1>4, <1>6, <2>2, <2>3, Zenon DEF V2TierRange
  <2>5. R \in Int /\ s \in Int /\ F \in Int /\ V2Day \in Int
    BY <1>1, ScheduleConstants
  <2>6. (last - F + 1) * R - dev * 2 * s \in Int
    BY <2>5
  <2>7. 2 * s * (V2Day * reg + fin) \in Int
    BY <2>5
  <2>. QED  BY <2>4, <2>6, <2>7 DEF Amounts
<1>. QED
  BY <1>5, <1>6

\* A block after the fork adds what it mints.
LEMMA V2Grows ==
    ASSUME NEW h \in Nat, h >= LastLegacy, DevEnd # Activation, NEW logSlots
    PROVE  /\ MinerSubsidy(h + 1, logSlots) \in Int /\ Payout(h + 1, logSlots) \in Int
           /\ V2Between(Activation, h) \in Amounts
           /\ V2Between(Activation, h + 1)
                = Further(V2Between(Activation, h),
                          MinerSubsidy(h + 1, logSlots), Payout(h + 1, logSlots))
<1>. DEFINE S == DOMAIN Rewards
            m0 == [t \in S |-> V2TierRange(t, Activation, h).miner]
            m1 == [t \in S |-> V2TierRange(t, Activation, h + 1).miner]
            d0 == [t \in S |-> V2TierRange(t, Activation, h).development]
            d1 == [t \in S |-> V2TierRange(t, Activation, h + 1).development]
<1>1. PICK k \in Nat : h = LastLegacy + k
  <2>1. h - LastLegacy \in Nat /\ h = LastLegacy + (h - LastLegacy)
    BY ScheduleConstants
  <2>. QED  BY <2>1
<1>2. S = 1..Len(Rewards) /\ IsFiniteSet(S)
  BY TiersType, FS_Interval
<1>3. PICK x \in S : x = Tier(h + 1)
  <2>1. 1 \in 1..Len(Rewards)
    BY TiersType
  <2>. QED  BY <1>1, <1>2, <2>1, TierPlace
<1>4. /\ MinerSubsidy(h + 1, logSlots) \in Int /\ Payout(h + 1, logSlots) \in Int
      /\ V2TierRange(x, Activation, h) \in Amounts
      /\ V2TierRange(x, Activation, h + 1)
           = Further(V2TierRange(x, Activation, h),
                     MinerSubsidy(h + 1, logSlots), Payout(h + 1, logSlots))
  BY <1>1, <1>2, <1>3, OwnTierGrows
<1>5. \A t \in S \ {x} : V2TierRange(t, Activation, h + 1) = V2TierRange(t, Activation, h)
  BY <1>1, <1>2, <1>3, OtherTiersStay
<1>6. /\ m0 \in [S -> Int] /\ m1 \in [S -> Int] /\ d0 \in [S -> Int] /\ d1 \in [S -> Int]
      /\ \A t \in S \ {x} : m0[t] = m1[t] /\ d0[t] = d1[t]
  <2>1. \A t \in S : /\ V2TierRange(t, Activation, h) \in Amounts
                     /\ V2TierRange(t, Activation, h + 1) \in Amounts
    BY <1>2, TierType
  <2>2. \A t \in S : /\ V2TierRange(t, Activation, h).miner \in Int
                     /\ V2TierRange(t, Activation, h).development \in Int
                     /\ V2TierRange(t, Activation, h + 1).miner \in Int
                     /\ V2TierRange(t, Activation, h + 1).development \in Int
    BY <2>1 DEF Amounts
  <2>. QED  BY <1>5, <2>2
<1>7. /\ m0[x] \in Int /\ m1[x] = m0[x] + MinerSubsidy(h + 1, logSlots)
      /\ d0[x] \in Int /\ d1[x] = d0[x] + Payout(h + 1, logSlots)
  BY <1>4, <1>6 DEF Further
<1>8. /\ V2Between(Activation, h) = [miner |-> SumFunction(m0), development |-> SumFunction(d0)]
      /\ V2Between(Activation, h + 1) = [miner |-> SumFunction(m1), development |-> SumFunction(d1)]
  BY DEF V2Between
<1>. HIDE DEF m0, m1, d0, d1, S
<1>9. SumFunction(m0) \in Int /\ SumFunction(m1) = SumFunction(m0) + (m1[x] - m0[x])
  BY <1>2, <1>6, SumOneChanged
<1>10. SumFunction(d0) \in Int /\ SumFunction(d1) = SumFunction(d0) + (d1[x] - d0[x])
  BY <1>2, <1>6, SumOneChanged
<1>11. /\ SumFunction(m1) = SumFunction(m0) + MinerSubsidy(h + 1, logSlots)
       /\ SumFunction(d1) = SumFunction(d0) + Payout(h + 1, logSlots)
  BY <1>4, <1>7, <1>9, <1>10
<1>. QED
  BY <1>4, <1>8, <1>9, <1>10, <1>11 DEF Amounts, Further

LEMMA SumOfNothing ==
    ASSUME NEW S, IsFiniteSet(S), NEW f, \A x \in S : f[x] = 0
    PROVE  SumFunctionOnSet(f, S) = 0
<1>. DEFINE Wrong == {n \in Nat : \E s \in SUBSET S :
                          Cardinality(s) = n /\ SumFunctionOnSet(f, s) # 0}
<1>1. \A s \in SUBSET S : IsFiniteSet(s) /\ Cardinality(s) \in Nat
  BY FS_Subset, FS_CardinalityType
<1>. SUFFICES ASSUME Wrong # {} PROVE FALSE
  BY <1>1
<1>2. PICK n \in Wrong : \A m \in Wrong : n <= m
  BY LeastOf
<1>3. PICK s \in SUBSET S : Cardinality(s) = n /\ SumFunctionOnSet(f, s) # 0
  BY <1>2
<1>4. s # {}
  BY <1>3, SumOfNone
<1>5. /\ Pick(s) \in S /\ s \ {Pick(s)} \in SUBSET S
      /\ Cardinality(s \ {Pick(s)}) = n - 1 /\ n - 1 \in Nat
  BY <1>1, <1>3, <1>4, OneLess, Picked
<1>6. SumFunctionOnSet(f, s \ {Pick(s)}) = 0
  BY <1>2, <1>5
<1>7. SumFunctionOnSet(f, s) = f[Pick(s)] + SumFunctionOnSet(f, s \ {Pick(s)})
  BY <1>1, <1>4, SumPicks
<1>. QED
  BY <1>3, <1>5, <1>6, <1>7

\* Before the fork nothing is minted after it.
LEMMA V2AtFork == V2Between(Activation, LastLegacy) = NothingMinted
<1>. DEFINE S == DOMAIN Rewards
            m == [t \in S |-> V2TierRange(t, Activation, LastLegacy).miner]
            d == [t \in S |-> V2TierRange(t, Activation, LastLegacy).development]
<1>1. S = 1..Len(Rewards) /\ IsFiniteSet(S)
  BY TiersType, FS_Interval
<1>2. ASSUME NEW t \in S PROVE V2TierRange(t, Activation, LastLegacy) = NothingMinted
  <2>1. PICK F \in Nat, T \in Nat \ {0}, i \in Nat \ {0} :
           F = TierFirst(t) /\ F >= Activation /\ T = Len(Rewards) /\ i = Interval
           /\ TierFirst(t + 1) = F + i
    BY <1>1, TiersType, ScheduleConstants
  <2>2. Greater(F, Activation) = F
    BY <2>1, ScheduleConstants DEF Greater
  <2>3. PICK last \in Int : last < F /\ last = IF t = T THEN LastLegacy ELSE Lesser((F + i) - 1, LastLegacy)
    BY <2>1, ScheduleConstants DEF Lesser
  <2>. QED  BY <2>1, <2>2, <2>3, Zenon DEF V2TierRange
<1>3. \A t \in S : m[t] = 0 /\ d[t] = 0
  BY <1>2 DEF NothingMinted
<1>4. DOMAIN m = S /\ DOMAIN d = S
  OBVIOUS
<1>5. V2Between(Activation, LastLegacy)
        = [miner |-> SumFunction(m), development |-> SumFunction(d)]
  BY DEF V2Between
<1>. HIDE DEF m, d, S
<1>6. SumFunctionOnSet(m, S) = 0 /\ SumFunctionOnSet(d, S) = 0
  BY <1>1, <1>3, SumOfNothing
<1>7. SumFunction(m) = 0 /\ SumFunction(d) = 0
  BY <1>4, <1>6, Zenon DEF SumFunction
<1>. QED
  BY <1>5, <1>7, Zenon DEF NothingMinted

-----------------------------------------------------------------------------
(* A block more.                                                           *)

LEMMA LegacyType ==
    ASSUME NEW h \in Nat, NEW heights \in Seq(Nat \ {0})
    PROVE  LegacyUpTo(h, heights) \in Amounts
<1>. DEFINE S == 1..(Len(heights) + 1)
            m == [i \in S |-> SizeRange(i, h, heights).miner]
            d == [i \in S |-> SizeRange(i, h, heights).development]
<1>1. IsFiniteSet(S)
  BY FS_Interval
<1>2. \A i \in S : m[i] \in Int /\ d[i] \in Int
  BY SizeRangeType
<1>3. DOMAIN m = S /\ DOMAIN d = S
  OBVIOUS
<1>4. LegacyUpTo(h, heights) = [miner |-> SumFunction(m), development |-> SumFunction(d)]
  BY DEF LegacyUpTo
<1>. HIDE DEF m, d, S
<1>5. SumFunctionOnSet(m, S) \in Int /\ SumFunctionOnSet(d, S) \in Int
  BY <1>1, <1>2, SumType
<1>6. SumFunction(m) \in Int /\ SumFunction(d) \in Int
  BY <1>3, <1>5, Zenon DEF SumFunction
<1>. QED
  BY <1>4, <1>6 DEF Amounts

\* A legacy block is one of the allocation.
LEMMA LegacyBlock ==
    ASSUME NEW h \in Nat, h < LastLegacy, NEW logSlots
    PROVE  /\ MinerSubsidy(h + 1, logSlots) = LegacyMiner(logSlots)
           /\ Payout(h + 1, logSlots) = 2 * LegacyShare(logSlots) * PayoutDays(h + 1)
           /\ PayoutDays(h + 1) = IF (h + 1) % LegacyDay = 0 THEN LegacyDay ELSE 0
<1>1. ~V2Active(h + 1)
  BY ScheduleConstants DEF V2Active
<1>2. DevActive(h + 1)
  <2>1. h + 1 \in 1..LegacyDevEnd
    BY ScheduleConstants
  <2>. QED  BY <1>1, <2>1 DEF DevActive
<1>3. ShareEach(h + 1, logSlots) = LegacyShare(logSlots)
  BY <1>1, Zenon DEF ShareEach, BlockRewardAt, LegacyShare
<1>. QED
  BY <1>1, <1>2, <1>3, Zenon
     DEF MinerSubsidy, Withheld, BlockRewardAt, LegacyMiner, Payout, PayoutDays

LEMMA LegacyBlockPays ==
    ASSUME NEW h \in Nat, h < LastLegacy, NEW logSlots \in Nat, logSlots >= LogSlotsGenesis
    PROVE  Payout(h + 1, logSlots) = LegacyPayout(h + 1, logSlots)
<1>1. PICK s \in Nat : s = LegacyShare(logSlots)
  BY LegacyAmounts
<1>2. 2 * s * 0 = 0
  BY <1>1
<1>3. /\ Payout(h + 1, logSlots) = 2 * LegacyShare(logSlots) * PayoutDays(h + 1)
      /\ PayoutDays(h + 1) = IF (h + 1) % LegacyDay = 0 THEN LegacyDay ELSE 0
  BY LegacyBlock
<1>4. CASE (h + 1) % LegacyDay = 0
  BY <1>3, <1>4, Zenon DEF LegacyPayout
<1>5. CASE (h + 1) % LegacyDay # 0
  BY <1>1, <1>2, <1>3, <1>5, Zenon DEF LegacyPayout
<1>. QED
  BY <1>4, <1>5

\* After the fork only the height counts.
LEMMA EmittedAfterFork ==
    ASSUME NEW h \in Nat, h >= LastLegacy, NEW heights \in Seq(Nat \ {0}),
           DevEnd # Activation, NEW logSlots
    PROVE  /\ EmittedSplitUpTo(h, heights) \in Amounts
           /\ EmittedSplitUpTo(h + 1, heights)
                = Further(EmittedSplitUpTo(h, heights),
                          MinerSubsidy(h + 1, logSlots), Payout(h + 1, logSlots))
<1>1. PICK a \in Int, b \in Int : LegacyUpTo(LastLegacy, heights) = [miner |-> a, development |-> b]
  BY LegacyType, ScheduleConstants DEF Amounts
<1>2. PICK m \in Int, p \in Int : m = MinerSubsidy(h + 1, logSlots) /\ p = Payout(h + 1, logSlots)
  BY V2Grows
<1>3. V2Between(Activation, h) \in Amounts
  BY V2Grows
<1>4. PICK c \in Int, d \in Int : V2Between(Activation, h) = [miner |-> c, development |-> d]
  BY <1>3 DEF Amounts
<1>5. V2Between(Activation, h + 1) = [miner |-> c + m, development |-> d + p]
  <2>1. V2Between(Activation, h + 1)
          = Further(V2Between(Activation, h), MinerSubsidy(h + 1, logSlots), Payout(h + 1, logSlots))
    BY V2Grows
  <2>. QED  BY <1>2, <1>4, <2>1 DEF Further
<1>6. Lesser(h, LastLegacy) = LastLegacy /\ Lesser(h + 1, LastLegacy) = LastLegacy /\ V2Active(h + 1)
  BY ScheduleConstants DEF Lesser, V2Active
<1>7. EmittedSplitUpTo(h + 1, heights) = [miner |-> a + (c + m), development |-> b + (d + p)]
  BY <1>1, <1>5, <1>6 DEF EmittedSplitUpTo
<1>8. EmittedSplitUpTo(h, heights) = [miner |-> a + c, development |-> b + d]
  <2>1. CASE V2Active(h)
    BY <1>1, <1>4, <1>6, <2>1 DEF EmittedSplitUpTo
  <2>2. CASE ~V2Active(h)
    <3>1. h = LastLegacy
      BY <2>2, ScheduleConstants DEF V2Active
    <3>2. V2Between(Activation, h) = NothingMinted
      BY <3>1, V2AtFork
    <3>3. c = 0 /\ d = 0
      BY <1>4, <3>2 DEF NothingMinted
    <3>4. EmittedSplitUpTo(h, heights) = [miner |-> a, development |-> b]
      BY <1>1, <1>6, <2>2 DEF EmittedSplitUpTo
    <3>. QED  BY <3>3, <3>4
  <2>. QED  BY <2>1, <2>2
<1>9. a + (c + m) = (a + c) + m /\ b + (d + p) = (b + d) + p /\ a + c \in Int /\ b + d \in Int
  OBVIOUS
<1>10. PICK x \in Int, y \in Int : x = a + c /\ y = b + d
  BY <1>9
<1>11. EmittedSplitUpTo(h + 1, heights) = [miner |-> x + m, development |-> y + p]
  BY <1>7, <1>9, <1>10, Zenon
<1>. QED
  BY <1>2, <1>8, <1>10, <1>11 DEF Further, Amounts

\* A block of the size the last had.
LEMMA EmittedExtends ==
    ASSUME NEW h \in Nat, NEW heights \in Seq(1..h), DevEnd # Activation,
           NEW logSlots, logSlots = LogSlotsGenesis + Len(heights)
    PROVE  /\ EmittedSplitUpTo(h, heights) \in Amounts
           /\ EmittedSplitUpTo(h + 1, heights)
                = Further(EmittedSplitUpTo(h, heights),
                          MinerSubsidy(h + 1, logSlots), Payout(h + 1, logSlots))
<1>1. logSlots \in Nat /\ logSlots >= LogSlotsGenesis
  BY EmissionAssumption
<1>2. CASE h < LastLegacy
  <2>1. /\ Lesser(h, LastLegacy) = h /\ Lesser(h + 1, LastLegacy) = h + 1
        /\ ~V2Active(h) /\ ~V2Active(h + 1)
    BY <1>2, ScheduleConstants DEF Lesser, V2Active
  <2>2. /\ EmittedSplitUpTo(h, heights) = LegacyUpTo(h, heights)
        /\ EmittedSplitUpTo(h + 1, heights) = LegacyUpTo(h + 1, heights)
    BY <2>1, Zenon DEF EmittedSplitUpTo
  <2>3. /\ LegacyUpTo(h, heights) \in Amounts
        /\ LegacyUpTo(h + 1, heights)
             = Further(LegacyUpTo(h, heights), LegacyMiner(logSlots), LegacyPayout(h + 1, logSlots))
    BY LegacyExtends
  <2>4. /\ MinerSubsidy(h + 1, logSlots) = LegacyMiner(logSlots)
        /\ Payout(h + 1, logSlots) = LegacyPayout(h + 1, logSlots)
    BY <1>1, <1>2, LegacyBlock, LegacyBlockPays
  <2>. QED  BY <2>2, <2>3, <2>4, Zenon
<1>3. CASE h >= LastLegacy
  <2>1. heights \in Seq(Nat \ {0})
    OBVIOUS
  <2>. QED  BY <1>3, <2>1, EmittedAfterFork
<1>. QED
  BY <1>2, <1>3, ScheduleConstants

\* A block at which the state expanded.
LEMMA EmittedExpands ==
    ASSUME NEW h \in Nat, NEW heights \in Seq(1..h), DevEnd # Activation,
           NEW logSlots, logSlots = LogSlotsGenesis + (Len(heights) + 1)
    PROVE  EmittedSplitUpTo(h + 1, Append(heights, h + 1))
             = Further(EmittedSplitUpTo(h, heights),
                       MinerSubsidy(h + 1, logSlots), Payout(h + 1, logSlots))
<1>1. logSlots \in Nat /\ logSlots >= LogSlotsGenesis
  BY EmissionAssumption
<1>2. CASE h < LastLegacy
  <2>1. /\ Lesser(h, LastLegacy) = h /\ Lesser(h + 1, LastLegacy) = h + 1
        /\ ~V2Active(h) /\ ~V2Active(h + 1)
    BY <1>2, ScheduleConstants DEF Lesser, V2Active
  <2>2. /\ EmittedSplitUpTo(h, heights) = LegacyUpTo(h, heights)
        /\ EmittedSplitUpTo(h + 1, Append(heights, h + 1))
             = LegacyUpTo(h + 1, Append(heights, h + 1))
    BY <2>1, Zenon DEF EmittedSplitUpTo
  <2>3. LegacyUpTo(h + 1, Append(heights, h + 1))
          = Further(LegacyUpTo(h, heights), LegacyMiner(logSlots), LegacyPayout(h + 1, logSlots))
    BY LegacyExpands
  <2>4. /\ MinerSubsidy(h + 1, logSlots) = LegacyMiner(logSlots)
        /\ Payout(h + 1, logSlots) = LegacyPayout(h + 1, logSlots)
    BY <1>1, <1>2, LegacyBlock, LegacyBlockPays
  <2>. QED  BY <2>2, <2>3, <2>4, Zenon
<1>3. CASE h >= LastLegacy
  <2>1. heights \in Seq(Nat \ {0}) /\ h + 1 \in Nat \ {0} /\ h + 1 > LastLegacy /\ LastLegacy \in Nat
    BY <1>3, ScheduleConstants
  <2>2. LegacyUpTo(LastLegacy, Append(heights, h + 1)) = LegacyUpTo(LastLegacy, heights)
    BY <2>1, LegacyPast
  <2>3. Lesser(h + 1, LastLegacy) = LastLegacy
    BY <1>3, ScheduleConstants DEF Lesser
  <2>4. EmittedSplitUpTo(h + 1, Append(heights, h + 1)) = EmittedSplitUpTo(h + 1, heights)
    BY <2>2, <2>3, Zenon DEF EmittedSplitUpTo
  <2>5. EmittedSplitUpTo(h + 1, heights)
          = Further(EmittedSplitUpTo(h, heights),
                    MinerSubsidy(h + 1, logSlots), Payout(h + 1, logSlots))
    BY <1>3, <2>1, EmittedAfterFork
  <2>. QED  BY <2>4, <2>5, Zenon
<1>. QED
  BY <1>2, <1>3, ScheduleConstants

LEMMA EmittedAtGenesis == EmittedSplitUpTo(0, <<>>) = NothingMinted
<1>1. Lesser(0, LastLegacy) = 0 /\ ~V2Active(0)
  BY ScheduleConstants DEF Lesser, V2Active
<1>. QED
  BY <1>1, LegacyAtGenesis, Zenon DEF EmittedSplitUpTo

-----------------------------------------------------------------------------
(* Target seconds.                                                         *)

LegacyUntil(h) == Lesser(h, LastLegacy)

LEMMA SecondsBetween ==
    ASSUME NEW a \in Nat, NEW b \in Nat, a <= b
    PROVE  \E x \in Nat, y \in Nat :
              /\ x = LegacyUntil(b) - LegacyUntil(a)
              /\ y = b - a - x
              /\ TargetSeconds(a, b) = x * LegacyTime + y * V2Time
<1>1. PICK x \in Nat, y \in Nat : x = LegacyUntil(b) - LegacyUntil(a) /\ y = b - a - x
  <2>1. LegacyUntil(b) - LegacyUntil(a) \in Nat /\ b - a - (LegacyUntil(b) - LegacyUntil(a)) \in Nat
    BY ScheduleConstants DEF LegacyUntil, Lesser
  <2>. QED  BY <2>1
<1>2. CASE a < b
  <2>1. Greater(Lesser(b, LastLegacy) - a, 0) = x
    BY <1>1, <1>2, ScheduleConstants DEF LegacyUntil, Lesser, Greater
  <2>2. ~(b <= a)
    BY <1>2
  <2>3. TargetSeconds(a, b) = x * LegacyTime + (b - a - x) * V2Time
    BY <2>1, <2>2, Zenon DEF TargetSeconds
  <2>. QED  BY <1>1, <2>3
<1>3. CASE a = b
  <2>1. x = 0 /\ y = 0
    <3>1. LegacyUntil(b) \in Nat
      BY ScheduleConstants DEF LegacyUntil, Lesser
    <3>2. x = 0
      BY <1>1, <1>3, <3>1
    <3>. QED  BY <1>1, <1>3, <3>2
  <2>2. TargetSeconds(a, b) = 0
    BY <1>3 DEF TargetSeconds
  <2>3. 0 * LegacyTime + 0 * V2Time = 0
    BY EmissionAssumption
  <2>4. x * LegacyTime + y * V2Time = 0
    BY <2>1, <2>3, Zenon
  <2>. QED  BY <1>1, <2>2, <2>4
<1>. QED
  BY <1>2, <1>3

LEMMA LegacyUntilType ==
    ASSUME NEW h \in Nat
    PROVE  LegacyUntil(h) \in Nat /\ LegacyUntil(h) <= h /\ LegacyUntil(0) = 0
BY ScheduleConstants DEF LegacyUntil, Lesser

LEMMA SecondsFromGenesis ==
    ASSUME NEW b \in Nat
    PROVE  \E x \in Nat, y \in Nat :
              /\ x = LegacyUntil(b) - LegacyUntil(0)
              /\ y = b - 0 - x
              /\ TargetSeconds(0, b) = x * LegacyTime + y * V2Time
<1>1. 0 \in Nat /\ 0 <= b
  OBVIOUS
<1>. QED
  BY <1>1, SecondsBetween

\* The seconds to a height and from it on are the seconds to the tip.
LEMMA SecondsAdd ==
    ASSUME NEW a \in Nat, NEW b \in Nat, a <= b
    PROVE  TargetSeconds(0, a) + TargetSeconds(a, b) = TargetSeconds(0, b)
<1>1. PICK la \in Nat, lb \in Nat : la = LegacyUntil(a) /\ lb = LegacyUntil(b) /\ LegacyUntil(0) = 0
  BY LegacyUntilType
<1>2. PICK s \in Nat, v \in Nat : s = LegacyTime /\ v = V2Time
  BY EmissionAssumption
<1>3. PICK x0 \in Nat, y0 \in Nat :
         /\ x0 = LegacyUntil(a) - LegacyUntil(0)
         /\ y0 = a - 0 - x0
         /\ TargetSeconds(0, a) = x0 * LegacyTime + y0 * V2Time
  BY SecondsFromGenesis, Zenon
<1>4. PICK x1 \in Nat, y1 \in Nat :
         /\ x1 = LegacyUntil(b) - LegacyUntil(a)
         /\ y1 = b - a - x1
         /\ TargetSeconds(a, b) = x1 * LegacyTime + y1 * V2Time
  BY SecondsBetween
<1>5. PICK x2 \in Nat, y2 \in Nat :
         /\ x2 = LegacyUntil(b) - LegacyUntil(0)
         /\ y2 = b - 0 - x2
         /\ TargetSeconds(0, b) = x2 * LegacyTime + y2 * V2Time
  BY SecondsFromGenesis, Zenon
<1>6. x2 = x0 + x1 /\ y2 = y0 + y1
  <2>1. x0 = la - 0 /\ x1 = lb - la /\ x2 = lb - 0
    BY <1>1, <1>3, <1>4, <1>5, Zenon
  <2>2. y0 = a - 0 - x0 /\ y1 = b - a - x1 /\ y2 = b - 0 - x2
    BY <1>3, <1>4, <1>5, Zenon
  <2>. QED  BY <2>1, <2>2
<1>7. /\ (x0 + x1) * s = x0 * s + x1 * s /\ (y0 + y1) * v = y0 * v + y1 * v
      /\ x0 * s \in Nat /\ x1 * s \in Nat /\ y0 * v \in Nat /\ y1 * v \in Nat
  OBVIOUS
<1>8. PICK p0 \in Nat, p1 \in Nat, q0 \in Nat, q1 \in Nat :
         /\ p0 = x0 * s /\ p1 = x1 * s /\ q0 = y0 * v /\ q1 = y1 * v
         /\ (x0 + x1) * s = p0 + p1 /\ (y0 + y1) * v = q0 + q1
  BY <1>7
<1>9. /\ TargetSeconds(0, a) = p0 + q0 /\ TargetSeconds(a, b) = p1 + q1
      /\ TargetSeconds(0, b) = (p0 + p1) + (q0 + q1)
  BY <1>2, <1>3, <1>4, <1>5, <1>6, <1>8, Zenon
<1>. QED
  BY <1>9

LEMMA SecondsOfBlock ==
    ASSUME NEW h \in Nat
    PROVE  TargetSeconds(h, h + 1) = BlockTimeAt(h + 1) /\ BlockTimeAt(h + 1) \in Nat
<1>1. PICK x \in Nat, y \in Nat :
              /\ x = LegacyUntil(h + 1) - LegacyUntil(h)
              /\ y = (h + 1) - h - x
              /\ TargetSeconds(h, h + 1) = x * LegacyTime + y * V2Time
  <2>1. h + 1 \in Nat /\ h <= h + 1
    OBVIOUS
  <2>. QED  BY <2>1, SecondsBetween
<1>2. PICK s \in Nat, v \in Nat : s = LegacyTime /\ v = V2Time
  BY EmissionAssumption
<1>3. 1 * s + 0 * v = s /\ 0 * s + 1 * v = v
  OBVIOUS
<1>4. CASE h < LastLegacy
  <2>1. x = 1 /\ y = 0 /\ ~V2Active(h + 1)
    BY <1>1, <1>4, ScheduleConstants DEF LegacyUntil, Lesser, V2Active
  <2>2. TargetSeconds(h, h + 1) = s /\ BlockTimeAt(h + 1) = s
    BY <1>1, <1>2, <1>3, <2>1, Zenon DEF BlockTimeAt
  <2>. QED  BY <2>2
<1>5. CASE h >= LastLegacy
  <2>1. x = 0 /\ y = 1 /\ V2Active(h + 1)
    BY <1>1, <1>5, ScheduleConstants DEF LegacyUntil, Lesser, V2Active
  <2>2. TargetSeconds(h, h + 1) = v /\ BlockTimeAt(h + 1) = v
    BY <1>1, <1>2, <1>3, <2>1, Zenon DEF BlockTimeAt
  <2>. QED  BY <2>2
<1>. QED
  BY <1>4, <1>5, ScheduleConstants

-----------------------------------------------------------------------------
(* The chain grows.                                                        *)

LEMMA LastIsLargest ==
    ASSUME GrowsInv
    PROVE  /\ tip \in Nat /\ LogSlots \in Nat /\ LogSlots >= LogSlotsGenesis
           /\ LogSlotsGenesis \in Nat
           /\ \A h \in 1..tip : slots[h] \in Nat /\ slots[h] <= LogSlots
<1>1. tip \in Nat /\ LogSlotsGenesis \in Nat /\ \A h \in 1..tip : slots[h] \in Nat
  BY EmissionAssumption DEF GrowsInv, SizesInv, tip
<1>2. CASE tip = 0
  BY <1>1, <1>2 DEF LogSlots
<1>3. CASE tip # 0
  <2>1. tip \in 1..tip
    BY <1>1, <1>3
  <2>. QED  BY <1>1, <1>3, <2>1 DEF LogSlots, GrowsInv
<1>. QED
  BY <1>2, <1>3

LEMMA GrowsBlock ==
    ASSUME GrowsInv, NEW logSlots \in {LogSlots, LogSlots + 1}, slots' = Append(slots, logSlots)
    PROVE  /\ GrowsInv' /\ tip' = tip + 1 /\ LogSlots' = logSlots
           /\ slots'[tip + 1] = logSlots /\ \A h \in 1..tip : slots'[h] = slots[h]
<1>1. /\ tip \in Nat /\ LogSlots \in Nat /\ LogSlots >= LogSlotsGenesis /\ LogSlotsGenesis \in Nat
      /\ \A h \in 1..tip : slots[h] \in Nat /\ slots[h] <= LogSlots
  BY LastIsLargest
<1>0. tip \in Nat
  BY <1>1
<1>2. logSlots \in Nat /\ logSlots >= LogSlots
  BY <1>1
<1>3. /\ slots \in Seq(Nat) /\ slots' \in Seq(Nat) /\ Len(slots') = tip + 1
      /\ slots'[tip + 1] = logSlots /\ \A h \in 1..tip : slots'[h] = slots[h]
  BY <1>2 DEF GrowsInv, SizesInv, tip
<1>4. tip' = tip + 1 /\ SizesInv'
  BY <1>3 DEF tip, SizesInv
<1>5. LogSlots' = logSlots
  BY <1>1, <1>3, <1>4 DEF LogSlots
<1>6. \A h \in 1..(tip + 1) : slots'[h] >= LogSlotsGenesis
  <2>. TAKE h \in 1..(tip + 1)
  <2>1. CASE h \in 1..tip
    BY <1>3, <2>1 DEF GrowsInv
  <2>2. CASE h = tip + 1
    BY <1>1, <1>2, <1>3, <2>2
  <2>3. h \in 1..tip \/ h = tip + 1
    BY <1>0
  <2>. QED  BY <2>1, <2>2, <2>3, Zenon
<1>7. \A g, h \in 1..(tip + 1) : g <= h => slots'[g] <= slots'[h]
  <2>. SUFFICES ASSUME NEW g \in 1..(tip + 1), NEW h \in 1..(tip + 1), g <= h
                PROVE  slots'[g] <= slots'[h]
    OBVIOUS
  <2>1. CASE h \in 1..tip
    <3>1. g \in 1..tip
      BY <1>1, <2>1
    <3>. QED  BY <1>3, <2>1, <3>1 DEF GrowsInv
  <2>2. CASE h = tip + 1 /\ g \in 1..tip
    BY <1>1, <1>2, <1>3, <2>2
  <2>3. CASE h = tip + 1 /\ g = tip + 1
    BY <1>2, <1>3, <2>3
  <2>4. (g \in 1..tip \/ g = tip + 1) /\ (h \in 1..tip \/ h = tip + 1)
    BY <1>0
  <2>. QED  BY <2>1, <2>2, <2>3, <2>4, Zenon
<1>. QED
  BY <1>3, <1>4, <1>5, <1>6, <1>7 DEF GrowsInv

LEMMA SameList ==
    ASSUME NEW S, NEW s \in Seq(S), NEW t \in Seq(S), Len(s) = Len(t),
           \A i \in 1..Len(s) : s[i] = t[i]
    PROVE  s = t
OBVIOUS

\* FirstAt of any list of sizes.
FirstOf(sizes, level, a) == sizes[a] >= level /\ \A g \in 1..(a - 1) : sizes[g] < level

LEMMA FirstsAgree ==
    ASSUME NEW f, NEW n \in Nat, \A h \in 1..n : f[h] \in Nat, NEW level \in Nat,
           NEW a \in 1..n, FirstOf(f, level, a), NEW b \in 1..n, FirstOf(f, level, b)
    PROVE  a = b
<1>1. f[a] \in Nat /\ f[b] \in Nat
  OBVIOUS
<1>2. ~(a < b)
  BY <1>1 DEF FirstOf
<1>3. ~(b < a)
  BY <1>1 DEF FirstOf
<1>. QED
  BY <1>2, <1>3

\* The list of the chain that is one block longer.
LEMMA ExpansionsGrow ==
    ASSUME GrowsInv, NEW logSlots \in {LogSlots, LogSlots + 1}, slots' = Append(slots, logSlots)
    PROVE  /\ SearchExpansions \in Seq(1..tip) /\ Len(SearchExpansions) = LogSlots - LogSlotsGenesis
           /\ SearchExpansions' = IF logSlots = LogSlots THEN SearchExpansions
                                  ELSE Append(SearchExpansions, tip + 1)
<1>. DEFINE old == SearchExpansions
            new == SearchExpansions'
            all == IF logSlots = LogSlots THEN old ELSE Append(old, tip + 1)
<1>1. /\ GrowsInv' /\ tip' = tip + 1 /\ LogSlots' = logSlots
      /\ slots'[tip + 1] = logSlots /\ \A h \in 1..tip : slots'[h] = slots[h]
  BY GrowsBlock
<1>2. /\ tip \in Nat /\ LogSlots \in Nat /\ LogSlots >= LogSlotsGenesis /\ LogSlotsGenesis \in Nat
      /\ \A h \in 1..tip : slots[h] \in Nat /\ slots[h] <= LogSlots
  BY LastIsLargest
<1>0. tip \in Nat /\ LogSlots \in Nat /\ LogSlotsGenesis \in Nat
  BY <1>2
<1>3. (GrowsInv => ExpansionsAre(SearchExpansions))'
  BY SearchIsRight, PTL
<1>4. /\ old \in Seq(1..tip) /\ Len(old) = LogSlots - LogSlotsGenesis
      /\ \A i \in 1..Len(old) : FirstAt(LogSlotsGenesis + i, old[i])
  BY SearchIsRight DEF ExpansionsAre
<1>5. /\ new \in Seq(1..(tip + 1)) /\ Len(new) = logSlots - LogSlotsGenesis
      /\ \A i \in 1..Len(new) : /\ new[i] \in 1..(tip + 1)
                                /\ slots'[new[i]] >= LogSlotsGenesis + i
                                /\ \A g \in 1..(new[i] - 1) : slots'[g] < LogSlotsGenesis + i
  BY <1>1, <1>3 DEF ExpansionsAre, FirstAt
<1>. HIDE DEF old, new
<1>6. all \in Seq(1..(tip + 1)) /\ Len(all) = Len(new)
  <2>1. old \in Seq(1..(tip + 1))
    BY <1>2, <1>4
  <2>2. tip + 1 \in 1..(tip + 1)
    BY <1>2
  <2>3. Append(old, tip + 1) \in Seq(1..(tip + 1)) /\ Len(Append(old, tip + 1)) = Len(old) + 1
    BY <2>1, <2>2
  <2>4. logSlots # LogSlots => logSlots = LogSlots + 1
    OBVIOUS
  <2>5. CASE logSlots = LogSlots
    <3>1. all = old /\ Len(old) = Len(new)
      BY <1>4, <1>5, <2>5, Zenon
    <3>. QED  BY <2>1, <3>1, Zenon
  <2>6. CASE logSlots # LogSlots
    <3>1. all = Append(old, tip + 1)
      BY <2>6
    <3>2. Len(old) + 1 = Len(new)
      BY <1>0, <1>4, <1>5, <2>4, <2>6
    <3>. QED  BY <2>3, <3>1, <3>2, Zenon
  <2>. QED  BY <2>5, <2>6
<1>7. ASSUME NEW i \in 1..Len(new) PROVE all[i] = new[i]
  <2>1. PICK level \in Nat : level = LogSlotsGenesis + i /\ level <= logSlots
    BY <1>2, <1>5
  <2>2. PICK b \in 1..(tip + 1) : /\ b = new[i] /\ slots'[b] >= level
                                  /\ \A g \in 1..(b - 1) : slots'[g] < level
    BY <1>5, <2>1
  <2>3. PICK a \in 1..(tip + 1) : /\ a = all[i] /\ slots'[a] >= level
                                  /\ \A g \in 1..(a - 1) : slots'[g] < level
    <3>1. CASE i \in 1..Len(old)
      <4>1. all[i] = old[i]
        BY <1>2, <1>4, <3>1
      <4>2. FirstAt(level, old[i])
        BY <1>4, <2>1, <3>1
      <4>3. PICK a \in 1..tip : a = old[i] /\ slots[a] >= level
                                /\ \A g \in 1..(a - 1) : slots[g] < level
        BY <4>2 DEF FirstAt
      <4>4. a \in 1..(tip + 1) /\ \A g \in 1..(a - 1) : g \in 1..tip
        BY <1>2
      <4>. QED  BY <1>1, <4>1, <4>3, <4>4
    <3>2. CASE i \notin 1..Len(old)
      <4>1. logSlots = LogSlots + 1 /\ i = Len(old) + 1 /\ level = logSlots
        BY <1>2, <1>4, <1>5, <2>1, <3>2
      <4>2. all[i] = tip + 1
        <5>1. all = Append(old, tip + 1)
          BY <1>0, <4>1
        <5>2. Append(old, tip + 1)[Len(old) + 1] = tip + 1
          BY <1>4
        <5>. QED  BY <4>1, <5>1, <5>2, Zenon
      <4>3. \A g \in 1..tip : slots'[g] < level
        BY <1>1, <1>2, <4>1
      <4>4. tip + 1 \in 1..(tip + 1) /\ (tip + 1) - 1 = tip /\ slots'[tip + 1] >= level
        BY <1>1, <1>2, <2>1, <4>1
      <4>. QED  BY <4>2, <4>3, <4>4
    <3>. QED  BY <3>1, <3>2
  <2>4. \A h \in 1..(tip + 1) : slots'[h] \in Nat
    <3>1. logSlots \in Nat
      BY <1>2
    <3>2. \A h \in 1..(tip + 1) : h \in 1..tip \/ h = tip + 1
      BY <1>2
    <3>. QED  BY <1>1, <1>2, <3>1, <3>2
  <2>5. tip + 1 \in Nat /\ level \in Nat
    BY <1>0, <2>1
  <2>6. a \in 1..(tip + 1) /\ b \in 1..(tip + 1)
    BY <2>2, <2>3, Zenon
  <2>7. FirstOf(slots', level, a) /\ FirstOf(slots', level, b)
    BY <2>2, <2>3, Zenon DEF FirstOf
  <2>8. a = b
    BY <2>4, <2>5, <2>6, <2>7, FirstsAgree
  <2>. QED  BY <2>2, <2>3, <2>8, Zenon
<1>8. all = new
  <2>1. \A i \in 1..Len(all) : all[i] = new[i]
    BY <1>6, <1>7
  <2>. HIDE DEF all
  <2>. QED  BY <1>5, <1>6, <2>1, SameList
<1>. QED
  BY <1>4, <1>8 DEF old, new, all

LEMMA ExpansionsStay ==
    ASSUME GrowsInv, slots' = slots
    PROVE  GrowsInv' /\ SearchExpansions' = SearchExpansions
<1>. DEFINE old == SearchExpansions
            new == SearchExpansions'
<1>1. tip' = tip /\ LogSlots' = LogSlots /\ GrowsInv'
  BY DEF GrowsInv, SizesInv, tip, LogSlots
<1>2. (GrowsInv => ExpansionsAre(SearchExpansions))'
  BY SearchIsRight, PTL
<1>3. /\ old \in Seq(1..tip) /\ Len(old) = LogSlots - LogSlotsGenesis
      /\ \A i \in 1..Len(old) : FirstAt(LogSlotsGenesis + i, old[i])
  BY SearchIsRight DEF ExpansionsAre
<1>4. /\ new \in Seq(1..tip) /\ Len(new) = LogSlots - LogSlotsGenesis
      /\ \A i \in 1..Len(new) : FirstAt(LogSlotsGenesis + i, new[i])
  BY <1>1, <1>2 DEF ExpansionsAre, FirstAt
<1>. HIDE DEF old, new
<1>5. \A i \in 1..Len(old) : old[i] = new[i]
  <2>. SUFFICES ASSUME NEW i \in 1..Len(old) PROVE old[i] = new[i]
    OBVIOUS
  <2>1. LogSlotsGenesis + i \in Nat
    BY <1>3, EmissionAssumption
  <2>2. FirstAt(LogSlotsGenesis + i, old[i]) /\ FirstAt(LogSlotsGenesis + i, new[i])
    BY <1>3, <1>4
  <2>. QED  BY <2>1, <2>2, FirstAtUnique
<1>6. old = new
  BY <1>3, <1>4, <1>5, SameList
<1>. QED
  BY <1>1, <1>6 DEF old, new

\* What the closed forms say of the chain.
ClosedInv ==
    /\ GrowsInv
    /\ clock = TargetSeconds(0, tip)
    /\ minted = EmittedSplitUpTo(tip, SearchExpansions)

LEMMA ClosedInit == Init => ClosedInv
<1>. SUFFICES ASSUME Init PROVE ClosedInv
  OBVIOUS
<1>1. slots = <<>> /\ tip = 0 /\ clock = 0 /\ minted = NothingMinted /\ LogSlots = LogSlotsGenesis
  BY DEF Init, tip, LogSlots, NothingMinted
<1>2. GrowsInv
  BY <1>1 DEF GrowsInv, SizesInv
<1>3. SearchExpansions = <<>>
  <2>1. SearchExpansions \in Seq(1..tip) /\ Len(SearchExpansions) = LogSlots - LogSlotsGenesis
    BY <1>2, SearchIsRight DEF ExpansionsAre
  <2>2. Len(SearchExpansions) = 0
    BY <1>1, <2>1, EmissionAssumption
  <2>. QED  BY <2>1, <2>2
<1>4. TargetSeconds(0, 0) = 0
  BY DEF TargetSeconds
<1>. QED
  BY <1>1, <1>2, <1>3, <1>4, EmittedAtGenesis, Zenon DEF ClosedInv

LEMMA ClosedStep ==
    ASSUME DevEnd # Activation
    PROVE  ClosedInv /\ [Next]_vars => ClosedInv'
<1>. SUFFICES ASSUME ClosedInv, [Next]_vars PROVE ClosedInv'
  OBVIOUS
<1>1. CASE UNCHANGED node
  <2>1. /\ slots' = slots /\ tip' = tip /\ clock' = clock /\ minted' = minted /\ GrowsInv /\ GrowsInv'
    BY <1>1 DEF ClosedInv, GrowsInv, SizesInv, node, tip
  <2>2. SearchExpansions' = SearchExpansions
    BY <2>1, ExpansionsStay
  <2>. QED  BY <2>1, <2>2, Zenon DEF ClosedInv
<1>2. CASE NodeMines
  <2>1. PICK logSlots \in {LogSlots, LogSlots + 1}, newActive \in ActiveCounts,
             tx \in Transactions \cup {NoTransaction} : Block(logSlots, newActive, tx)
    BY <1>2 DEF NodeMines
  <2>2. slots' = Append(slots, logSlots) /\ GrowsInv
    BY <2>1 DEF Block, ClosedInv
  <2>3. GrowsInv' /\ tip' = tip + 1
    BY <2>2, GrowsBlock
  <2>4. PICK h \in Nat : h = tip
    BY <2>2, LastIsLargest
  <2>5. clock' = TargetSeconds(0, tip')
    <3>1. clock' = clock + BlockTimeAt(h + 1) /\ clock = TargetSeconds(0, h)
      BY <2>1, <2>4 DEF Block, ClosedInv
    <3>2. TargetSeconds(h, h + 1) = BlockTimeAt(h + 1)
      BY SecondsOfBlock
    <3>3. TargetSeconds(0, h) + TargetSeconds(h, h + 1) = TargetSeconds(0, h + 1)
      <4>1. h + 1 \in Nat /\ h <= h + 1
        OBVIOUS
      <4>. QED  BY <4>1, SecondsAdd
    <3>. QED  BY <2>3, <2>4, <3>1, <3>2, <3>3, Zenon
  <2>6. PICK heights \in Seq(1..h) :
           /\ heights = SearchExpansions /\ Len(heights) = LogSlots - LogSlotsGenesis
           /\ SearchExpansions' = IF logSlots = LogSlots THEN heights ELSE Append(heights, h + 1)
    BY <2>2, <2>4, ExpansionsGrow
  <2>7. minted = EmittedSplitUpTo(h, heights)
    BY <2>4, <2>6, Zenon DEF ClosedInv
  <2>8. minted' = Further(minted, MinerSubsidy(h + 1, logSlots), Payout(h + 1, logSlots))
    BY <2>1, <2>4, Zenon DEF Block, Further
  <2>9. LogSlots = LogSlotsGenesis + Len(heights)
    BY <2>2, <2>6, LastIsLargest
  <2>10. CASE logSlots = LogSlots
    <3>1. EmittedSplitUpTo(h + 1, heights)
                = Further(EmittedSplitUpTo(h, heights),
                          MinerSubsidy(h + 1, logSlots), Payout(h + 1, logSlots))
      BY <2>9, <2>10, EmittedExtends
    <3>. QED  BY <2>3, <2>4, <2>5, <2>6, <2>7, <2>8, <2>10, <3>1, Zenon DEF ClosedInv
  <2>11. CASE logSlots # LogSlots
    <3>1. logSlots = LogSlotsGenesis + (Len(heights) + 1)
      <4>1. logSlots = LogSlots + 1 /\ Len(heights) \in Nat /\ LogSlotsGenesis \in Nat
        BY <2>11, EmissionAssumption
      <4>. QED  BY <2>9, <4>1
    <3>2. EmittedSplitUpTo(h + 1, Append(heights, h + 1))
                = Further(EmittedSplitUpTo(h, heights),
                          MinerSubsidy(h + 1, logSlots), Payout(h + 1, logSlots))
      BY <3>1, EmittedExpands
    <3>. QED  BY <2>3, <2>4, <2>5, <2>6, <2>7, <2>8, <2>11, <3>2, Zenon DEF ClosedInv
  <2>. QED  BY <2>10, <2>11
<1>. QED
  BY <1>1, <1>2 DEF Next, Ask, vars

LEMMA ClosedHolds ==
    ASSUME DevEnd # Activation
    PROVE  Spec => []ClosedInv
<1>1. ClosedInv /\ [Next]_vars => ClosedInv'
  BY ClosedStep
<1>. QED
  BY <1>1, ClosedInit, PTL DEF Spec

\* ClosedFormIsTheSum: what emitted_split_up_to and target_seconds_between compute from the tip
\* and the expansions the binary search finds is what the blocks minted and took, at every
\* height of every chain.
THEOREM ClosedFormIsTheSumHolds ==
    ASSUME DevEnd # Activation
    PROVE  Spec => []ClosedFormIsTheSum
<1>1. ClosedInv => ClosedFormIsTheSum
  <2>. SUFFICES ASSUME ClosedInv PROVE ClosedFormIsTheSum
    OBVIOUS
  <2>1. PICK n \in Nat : n = tip
    BY LastIsLargest DEF ClosedInv
  <2>2. \A height \in 0..n : height \in Nat /\ height <= n
    OBVIOUS
  <2>3. \A height \in 0..n : TargetSeconds(0, height) + TargetSeconds(height, n) = TargetSeconds(0, n)
    BY <2>2, SecondsAdd
  <2>. QED  BY <2>1, <2>3, Zenon DEF ClosedInv, ClosedFormIsTheSum
<1>. QED
  BY <1>1, ClosedHolds, PTL

-----------------------------------------------------------------------------
(* Circulation and burn.                                                   *)

LEMMA BurnedIsNat ==
    ASSUME NEW inputs \in Nat, NEW outputs \in Nat, NEW at, NEW logSlots
    PROVE  Burned(inputs, outputs, at, logSlots) \in Nat
<1>1. PressureMultiplier(at, logSlots) \in {1, 2, 4, 8}
  BY DEF PressureMultiplier
<1>2. Above(outputs, inputs) \in Nat
  BY DEF Above
<1>3. PICK m \in Nat, a \in Nat, b \in Nat :
         m = PressureMultiplier(at, logSlots) /\ a = Above(outputs, inputs) /\ b = StateGrowthFeeBase
  BY <1>1, <1>2, FeesAssumption
<1>4. b * m * a \in Nat
  BY <1>3
<1>. QED
  BY <1>3, <1>4, Zenon DEF Burned

\* The coinbase takes of a paid fee all but the burn.
LEMMA ClaimIsTheRest ==
    ASSUME NEW tx \in Transactions, NEW at, NEW logSlots
    PROVE  LET fee  == RequiredTotal(tx.inputs, tx.outputs, at, logSlots) + tx.tip
               burn == Burned(tx.inputs, tx.outputs, at, logSlots)
           IN  /\ fee \in Nat /\ burn \in Nat
               /\ ToMiner(fee, tx.inputs, tx.outputs, at, logSlots) \in Nat
               /\ ToMiner(fee, tx.inputs, tx.outputs, at, logSlots) = fee - burn
<1>1. tx.inputs \in Nat /\ tx.outputs \in Nat /\ tx.tip \in Nat
  BY SupplyAssumption
<1>2. PICK burn \in Nat : burn = Burned(tx.inputs, tx.outputs, at, logSlots)
  BY <1>1, BurnedIsNat
<1>3. PICK rest \in Nat : rest = MinFeeBase + FeePerInput * tx.inputs + FeePerOutput * tx.outputs
  <2>1. FeePerInput * tx.inputs \in Nat /\ FeePerOutput * tx.outputs \in Nat
    BY <1>1, FeesAssumption
  <2>. QED  BY <2>1, FeesAssumption
<1>4. RequiredTotal(tx.inputs, tx.outputs, at, logSlots) = rest + burn
  BY <1>2, <1>3, Zenon DEF RequiredTotal
<1>5. PICK fee \in Nat : /\ fee = RequiredTotal(tx.inputs, tx.outputs, at, logSlots) + tx.tip
                         /\ fee >= burn
  BY <1>1, <1>4
<1>6. ToMiner(fee, tx.inputs, tx.outputs, at, logSlots) = Above(fee, burn)
  BY <1>2, Zenon DEF ToMiner
<1>7. Above(fee, burn) = fee - burn /\ fee - burn \in Nat
  BY <1>5 DEF Above
<1>8. ToMiner(fee, tx.inputs, tx.outputs, at, logSlots) = fee - burn
      /\ ToMiner(fee, tx.inputs, tx.outputs, at, logSlots) \in Nat
  BY <1>6, <1>7, Zenon
<1>. QED
  BY <1>2, <1>5, <1>8

\* What a block says of its money, whichever it is.
LEMMA MoneyOfBlock ==
    ASSUME NEW logSlots, NEW newActive,
           NEW tx \in Transactions \cup {NoTransaction}, Block(logSlots, newActive, tx)
    PROVE  \E fee, claim, burn \in Nat :
              /\ claim = fee - burn
              /\ circulating' = circulating + MinerSubsidy(tip + 1, logSlots)
                                  + Payout(tip + 1, logSlots) - fee + claim
              /\ burned' = burned + burn
              /\ records' = IF tip + 1 < FirstRecorded THEN records
                            ELSE Append(records, [ fees   |-> fee,
                                                   reward |-> MinerSubsidy(tip + 1, logSlots) + claim,
                                                   burned |-> burned' ])
<1>1. CASE tx = NoTransaction
  <2>1. 0 \in Nat /\ 0 = 0 - 0
    OBVIOUS
  <2>. QED  BY <1>1, <2>1, Zenon DEF Block
<1>2. CASE tx # NoTransaction
  <2>1. tx \in Transactions
    BY <1>2
  <2>2. PICK fee \in Nat, claim \in Nat, burn \in Nat :
           /\ fee = RequiredTotal(tx.inputs, tx.outputs, active, LogSlots) + tx.tip
           /\ burn = Burned(tx.inputs, tx.outputs, active, LogSlots)
           /\ claim = ToMiner(fee, tx.inputs, tx.outputs, active, LogSlots)
           /\ claim = fee - burn
    BY <2>1, ClaimIsTheRest
  <2>3. /\ circulating' = circulating + MinerSubsidy(tip + 1, logSlots)
                            + Payout(tip + 1, logSlots) - fee + claim
        /\ burned' = burned + burn
        /\ records' = IF tip + 1 < FirstRecorded THEN records
                      ELSE Append(records, [ fees   |-> fee,
                                             reward |-> MinerSubsidy(tip + 1, logSlots) + claim,
                                             burned |-> burned' ])
    BY <1>2, <2>2, Zenon DEF Block
  <2>. QED  BY <2>2, <2>3
<1>. QED
  BY <1>1, <1>2

\* A block's subsidy and payout are amounts of the chain.
LEMMA AmountsOfBlock ==
    ASSUME NEW h \in Nat, NEW logSlots \in Nat, logSlots >= LogSlotsGenesis, DevEnd # Activation
    PROVE  MinerSubsidy(h + 1, logSlots) \in Int /\ Payout(h + 1, logSlots) \in Int
<1>1. CASE h < LastLegacy
  <2>1. LegacyMiner(logSlots) \in Int /\ LegacyPayout(h + 1, logSlots) \in Int
    BY LegacyAmounts DEF LegacyPayout
  <2>. QED  BY <1>1, <2>1, LegacyBlock, LegacyBlockPays
<1>2. CASE h >= LastLegacy
  BY <1>2, V2Grows
<1>. QED
  BY <1>1, <1>2, ScheduleConstants

\* Circulating is what was minted and not burned, and expansions once found for a size stay.
BurnInv ==
    /\ ClosedInv
    /\ burned \in Nat
    /\ circulating = minted.miner + minted.development - burned
    /\ cache # NoAnswer =>
          /\ cache.cachedFor \in Nat /\ cache.cachedFor <= LogSlots
          /\ cache.cachedFor = LogSlots => cache.heights = SearchExpansions

LEMMA MintedType ==
    ASSUME ClosedInv, DevEnd # Activation
    PROVE  minted \in Amounts
<1>1. SearchExpansions \in Seq(1..tip) /\ tip \in Nat
  BY SearchIsRight, LastIsLargest DEF ClosedInv, ExpansionsAre
<1>2. EmittedSplitUpTo(tip, SearchExpansions) \in Amounts
  BY <1>1, EmittedExtends
<1>. QED
  BY <1>2 DEF ClosedInv

LEMMA BurnInit == Init => BurnInv
<1>. SUFFICES ASSUME Init PROVE BurnInv
  OBVIOUS
<1>1. ClosedInv
  BY ClosedInit
<1>2. burned = 0 /\ circulating = 0 /\ minted.miner = 0 /\ minted.development = 0 /\ cache = NoAnswer
  BY DEF Init
<1>. QED
  BY <1>1, <1>2 DEF BurnInv

LEMMA BurnStep ==
    ASSUME DevEnd # Activation
    PROVE  BurnInv /\ [Next]_vars => BurnInv'
<1>. SUFFICES ASSUME BurnInv, [Next]_vars PROVE BurnInv'
  OBVIOUS
<1>1. ClosedInv /\ ClosedInv' /\ GrowsInv
  BY ClosedStep DEF BurnInv, ClosedInv
<1>2. CASE NodeMines
  <2>1. PICK logSlots \in {LogSlots, LogSlots + 1}, newActive \in ActiveCounts,
             tx \in Transactions \cup {NoTransaction} : Block(logSlots, newActive, tx)
    BY <1>2 DEF NodeMines
  <2>2. slots' = Append(slots, logSlots) /\ cache' = cache
    BY <2>1 DEF Block
  <2>3. PICK h \in Nat : h = tip
    BY <1>1, LastIsLargest
  <2>4. logSlots \in Nat /\ logSlots >= LogSlotsGenesis /\ LogSlots \in Nat
    BY <1>1, LastIsLargest
  <2>5. PICK m \in Int, p \in Int : m = MinerSubsidy(h + 1, logSlots) /\ p = Payout(h + 1, logSlots)
    BY <2>4, AmountsOfBlock
  <2>6. PICK a \in Int, b \in Int : minted = [miner |-> a, development |-> b]
    BY <1>1, MintedType DEF Amounts
  <2>7. minted' = [miner |-> a + m, development |-> b + p]
    BY <2>1, <2>3, <2>5, <2>6 DEF Block
  <2>8. PICK fee \in Nat, claim \in Nat, burn \in Nat :
           /\ claim = fee - burn
           /\ circulating' = circulating + m + p - fee + claim
           /\ burned' = burned + burn
    <3>1. PICK fee \in Nat, claim \in Nat, burn \in Nat :
              /\ claim = fee - burn
              /\ circulating' = circulating + MinerSubsidy(tip + 1, logSlots)
                                  + Payout(tip + 1, logSlots) - fee + claim
              /\ burned' = burned + burn
              /\ records' = IF tip + 1 < FirstRecorded THEN records
                            ELSE Append(records, [ fees   |-> fee,
                                                   reward |-> MinerSubsidy(tip + 1, logSlots) + claim,
                                                   burned |-> burned' ])
      BY <2>1, MoneyOfBlock
    <3>. QED  BY <2>3, <2>5, <3>1, Zenon
  <2>9. PICK d \in Nat : d = burned /\ circulating = a + b - d
    BY <2>6 DEF BurnInv
  <2>10. burned' \in Nat /\ circulating' = minted'.miner + minted'.development - burned'
    <3>1. minted'.miner = a + m /\ minted'.development = b + p
      BY <2>7
    <3>. QED  BY <2>8, <2>9, <3>1
  <2>11. cache # NoAnswer =>
            /\ cache.cachedFor \in Nat /\ cache.cachedFor <= LogSlots
            /\ cache.cachedFor = LogSlots => cache.heights = SearchExpansions
    BY DEF BurnInv
  <2>12. LogSlots' = logSlots
    BY <1>1, <2>2, GrowsBlock
  <2>13. logSlots = LogSlots => SearchExpansions' = SearchExpansions
    BY <1>1, <2>2, ExpansionsGrow
  <2>14. cache' # NoAnswer =>
            /\ cache'.cachedFor \in Nat /\ cache'.cachedFor <= LogSlots'
            /\ cache'.cachedFor = LogSlots' => cache'.heights = SearchExpansions'
    <3>1. CASE logSlots = LogSlots
      BY <2>2, <2>11, <2>12, <2>13, <3>1, Zenon
    <3>2. CASE logSlots = LogSlots + 1
      <4>1. \A n \in Nat : n <= LogSlots => n <= LogSlots + 1 /\ n # LogSlots + 1
        BY <2>4
      <4>. QED  BY <2>2, <2>11, <2>12, <3>2, <4>1, Zenon
    <3>. QED  BY <3>1, <3>2
  <2>. QED  BY <1>1, <2>10, <2>14 DEF BurnInv
<1>3. CASE Ask
  <2>1. /\ UNCHANGED node /\ cache' = [cachedFor |-> LogSlots, heights |-> ExpansionHeights]
        /\ ExpansionHeights = SearchExpansions
    BY <1>3, Zenon DEF Ask, ExpansionHeights, BurnInv
  <2>2. /\ slots' = slots /\ LogSlots' = LogSlots /\ burned' = burned
        /\ circulating' = circulating /\ minted' = minted
    BY <2>1 DEF node, LogSlots, tip
  <2>3. SearchExpansions' = SearchExpansions
    BY <1>1, <2>2, ExpansionsStay
  <2>4. cache'.cachedFor = LogSlots' /\ cache'.heights = SearchExpansions'
    BY <2>1, <2>2, <2>3
  <2>5. LogSlots' \in Nat /\ LogSlots' <= LogSlots'
    BY <1>1, <2>2, LastIsLargest
  <2>. QED  BY <1>1, <2>2, <2>4, <2>5 DEF BurnInv
<1>4. CASE UNCHANGED vars
  <2>1. /\ slots' = slots /\ LogSlots' = LogSlots /\ burned' = burned
        /\ circulating' = circulating /\ minted' = minted /\ cache' = cache
    BY <1>4 DEF vars, node, LogSlots, tip
  <2>2. SearchExpansions' = SearchExpansions
    BY <1>1, <2>1, ExpansionsStay
  <2>. QED  BY <1>1, <2>1, <2>2 DEF BurnInv
<1>. QED
  BY <1>2, <1>3, <1>4 DEF Next

LEMMA BurnHolds ==
    ASSUME DevEnd # Activation
    PROVE  Spec => []BurnInv
<1>1. BurnInv /\ [Next]_vars => BurnInv'
  BY BurnStep
<1>. QED
  BY <1>1, BurnInit, PTL DEF Spec

LEMMA BurnShownIs ==
    ASSUME BurnInv, DevEnd # Activation
    PROVE  BurnShown = burned
<1>1. ExpansionHeights = SearchExpansions
  BY Zenon DEF ExpansionHeights, BurnInv
<1>2. PICK a \in Int, b \in Int : minted = [miner |-> a, development |-> b]
  BY MintedType DEF Amounts, BurnInv
<1>3. EmittedSplitUpTo(tip, ExpansionHeights) = minted
  BY <1>1, Zenon DEF BurnInv, ClosedInv
<1>4. EmittedUpTo(tip, ExpansionHeights) = a + b
  BY <1>2, <1>3 DEF EmittedUpTo
<1>5. circulating = a + b - burned /\ burned \in Nat
  BY <1>2 DEF BurnInv
<1>6. BurnShown = (a + b) - (a + b - burned)
  BY <1>4, <1>5, Zenon DEF BurnShown
<1>. QED
  BY <1>5, <1>6

\* BurnShownIsBurned: what stats and economics show as burned (the closed form's issue, with the
\* expansions kept from an earlier request of the same size, less the node's circulating supply)
\* is what fees have burned since genesis.
THEOREM BurnShownIsBurnedHolds ==
    ASSUME DevEnd # Activation
    PROVE  Spec => []BurnShownIsBurned
<1>1. BurnInv => BurnShownIsBurned
  BY BurnShownIs DEF BurnShownIsBurned
<1>. QED
  BY <1>1, BurnHolds, PTL

-----------------------------------------------------------------------------
(* The history of the burn.                                                *)

RecordType == [fees : Nat, reward : Int, burned : Nat]

\* The blocks of a set above a height.
Higher(S, h) == {g \in S : g > h}

\* From each block of the archive on, the blocks above it burned what was burned since, however
\* they are divided into those a request read and those it did not.
HistoryInv ==
    /\ BurnInv
    /\ records \in Seq(RecordType)
    /\ Len(records) = IF tip < FirstRecorded THEN 0 ELSE tip - FirstRecorded + 1
    /\ \A h \in RecordedHeights : \A read \in SUBSET RecordedHeights :
          /\ SumFunctionOnSet(BurnOf, Higher(read, h)) \in Nat
          /\ SumFunctionOnSet(BurnOf, Higher(read, h))
               + SumFunctionOnSet(BurnOf, Higher(RecordedHeights \ read, h))
             = burned - RecordOf(h).burned
    /\ Len(records) # 0 => records[Len(records)].burned = burned
    /\ \A h \in FirstRecorded + 1..tip :
          BurnOf[h] = RecordOf(h).burned - RecordOf(h - 1).burned

LEMMA RecordsAreThere ==
    ASSUME HistoryInv, NEW g \in RecordedHeights
    PROVE  /\ tip \in Nat /\ FirstRecorded \in Nat \ {0} /\ g \in Nat \ {0} /\ g \in 1..tip
           /\ g - FirstRecorded + 1 \in 1..Len(records) /\ RecordOf(g) \in RecordType
<1>1. tip \in Nat /\ FirstRecorded \in Nat \ {0}
  BY LastIsLargest, SupplyAssumption DEF HistoryInv, BurnInv, ClosedInv
<1>2. g \in Nat /\ g >= FirstRecorded /\ g <= tip /\ ~(tip < FirstRecorded)
  BY <1>1 DEF RecordedHeights
<1>3. g - FirstRecorded + 1 \in 1..Len(records)
  <2>1. Len(records) = tip - FirstRecorded + 1
    BY <1>2, Zenon DEF HistoryInv
  <2>. QED  BY <1>1, <1>2, <2>1
<1>4. RecordOf(g) \in RecordType
  BY <1>3 DEF RecordOf, HistoryInv
<1>. QED
  BY <1>1, <1>2, <1>3, <1>4

\* The tip's record is the last.
LEMMA LastRecord ==
    ASSUME HistoryInv, tip \in RecordedHeights
    PROVE  RecordOf(tip).burned = burned
<1>1. tip \in Nat /\ FirstRecorded \in Nat \ {0} /\ tip - FirstRecorded + 1 \in 1..Len(records)
  BY RecordsAreThere
<1>2. Len(records) = tip - FirstRecorded + 1
  BY <1>1 DEF HistoryInv
<1>. QED
  BY <1>1, <1>2 DEF HistoryInv, RecordOf

LEMMA BurnOfType ==
    ASSUME HistoryInv, DevEnd # Activation, NEW g \in RecordedHeights
    PROVE  BurnOf[g] \in Int
<1>1. g \in 1..tip /\ tip \in Nat /\ RecordOf(g) \in RecordType
  BY RecordsAreThere
<1>2. slots[g] \in Nat /\ slots[g] >= LogSlotsGenesis
  BY <1>1, LastIsLargest DEF HistoryInv, BurnInv, ClosedInv, GrowsInv
<1>3. PICK h \in Nat : g = h + 1
  <2>1. g - 1 \in Nat /\ g = (g - 1) + 1
    BY <1>1
  <2>. QED  BY <2>1
<1>4. MinerSubsidy(g, slots[g]) \in Int
  BY <1>2, <1>3, AmountsOfBlock
<1>5. PICK r \in RecordType : r = RecordOf(g)
  BY <1>1
<1>6. r.fees \in Int /\ r.reward \in Int
  BY DEF RecordType
<1>7. BurnedInBlock(g, r) \in Int
  BY <1>4, <1>6 DEF BurnedInBlock, Greater
<1>8. BurnOf[g] = BurnedInBlock(g, RecordOf(g))
  BY DEF BurnOf
<1>. QED
  BY <1>5, <1>7, <1>8

LEMMA HistoryInit == Init => HistoryInv
<1>. SUFFICES ASSUME Init PROVE HistoryInv
  OBVIOUS
<1>1. BurnInv
  BY BurnInit
<1>2. tip = 0 /\ records = <<>> /\ FirstRecorded \in Nat \ {0}
  BY SupplyAssumption DEF Init, tip
<1>3. RecordedHeights = {} /\ FirstRecorded + 1..tip = {} /\ tip < FirstRecorded
  BY <1>2 DEF RecordedHeights
<1>4. records \in Seq(RecordType) /\ Len(records) = 0
  BY <1>2
<1>. QED
  BY <1>1, <1>2, <1>3, <1>4 DEF HistoryInv

\* The chain and the records stand still.
LEMMA HistoryStays ==
    ASSUME HistoryInv, BurnInv', slots' = slots, records' = records, burned' = burned
    PROVE  HistoryInv'
<1>1. tip' = tip /\ RecordedHeights' = RecordedHeights
  BY DEF tip, RecordedHeights
<1>2. \A g : RecordOf(g)' = RecordOf(g)
  BY DEF RecordOf
<1>3. BurnOf' = BurnOf
  BY <1>1 DEF BurnOf, BurnedInBlock, RecordOf
<1>4. \A h \in RecordedHeights' : \A read \in SUBSET RecordedHeights' :
          /\ SumFunctionOnSet(BurnOf', Higher(read, h)) \in Nat
          /\ SumFunctionOnSet(BurnOf', Higher(read, h))
               + SumFunctionOnSet(BurnOf', Higher(RecordedHeights' \ read, h))
             = burned' - RecordOf(h)'.burned
  BY <1>1, <1>2, <1>3, Zenon DEF HistoryInv
<1>5. Len(records') # 0 => records'[Len(records')].burned = burned'
  BY DEF HistoryInv
<1>6. ASSUME NEW h \in FirstRecorded + 1..tip'
      PROVE  BurnOf'[h] = RecordOf(h)'.burned - RecordOf(h - 1)'.burned
  BY <1>1, <1>2, <1>3, <1>6, Zenon DEF HistoryInv
<1>. QED
  BY <1>1, <1>4, <1>5, <1>6 DEF HistoryInv, Higher

\* A block below the first recorded one leaves no record.
LEMMA HistoryNotYet ==
    ASSUME HistoryInv, BurnInv', tip' = tip + 1, tip + 1 < FirstRecorded, records' = records
    PROVE  HistoryInv'
<1>1. tip \in Nat /\ FirstRecorded \in Nat \ {0}
  BY LastIsLargest, SupplyAssumption DEF HistoryInv, BurnInv, ClosedInv
<1>2. RecordedHeights' = {} /\ FirstRecorded + 1..tip' = {}
  BY <1>1 DEF RecordedHeights
<1>3. Len(records) = 0 /\ tip' < FirstRecorded /\ ~(tip' >= FirstRecorded)
  BY <1>1 DEF HistoryInv
<1>. QED
  BY <1>2, <1>3 DEF HistoryInv

\* A block of the archive is one more block above each of the earlier ones, read or not.
LEMMA HistoryBlock ==
    ASSUME HistoryInv, BurnInv', DevEnd # Activation,
           NEW logSlots \in Nat, slots' = Append(slots, logSlots), tip + 1 >= FirstRecorded,
           NEW fee \in Nat, NEW claim \in Nat, NEW burn \in Nat, claim = fee - burn,
           NEW m \in Int, m = MinerSubsidy(tip + 1, logSlots), burned' = burned + burn,
           records' = Append(records, [fees |-> fee, reward |-> m + claim, burned |-> burned'])
    PROVE  HistoryInv'
<1>. DEFINE R == RecordedHeights
            new == [fees |-> fee, reward |-> m + claim, burned |-> burned']
            f == BurnOf
            g == BurnOf'
<1>1. /\ tip \in Nat /\ FirstRecorded \in Nat \ {0} /\ burned \in Nat /\ burned' \in Nat
      /\ slots \in Seq(Nat) /\ Len(slots) = tip /\ records \in Seq(RecordType)
  BY LastIsLargest, SupplyAssumption DEF HistoryInv, BurnInv, ClosedInv, GrowsInv, SizesInv, tip
<1>n. PICK n \in Nat : n = tip
  BY <1>1
<1>2. tip' = n + 1 /\ slots'[n + 1] = logSlots /\ \A h \in 1..n : slots'[h] = slots[h]
  BY <1>1, <1>n DEF tip
<1>3. Len(records) = (n + 1) - FirstRecorded /\ n + 1 >= FirstRecorded
  BY <1>1, <1>n DEF HistoryInv
<1>4. new \in RecordType
  BY <1>1 DEF RecordType
<1>5. /\ records' \in Seq(RecordType) /\ Len(records') = Len(records) + 1
      /\ records'[Len(records) + 1] = new
      /\ \A i \in 1..Len(records) : records'[i] = records[i]
  <2>. HIDE DEF new
  <2>1. records' = Append(records, new)
    BY DEF new
  <2>. QED  BY <1>1, <1>4, <2>1
<1>6. /\ R = FirstRecorded..n /\ RecordedHeights' = FirstRecorded..(n + 1)
      /\ n + 1 \in RecordedHeights' /\ n + 1 \notin R
      /\ \A h : h \in RecordedHeights' <=> h \in R \/ h = n + 1
  BY <1>1, <1>n, <1>2, <1>3 DEF RecordedHeights
<1>7. RecordOf(n + 1)' = new
  <2>1. (n + 1) - FirstRecorded + 1 = Len(records) + 1
    BY <1>1, <1>3
  <2>. QED  BY <1>5, <2>1 DEF RecordOf
<1>8. ASSUME NEW h \in R
      PROVE  RecordOf(h)' = RecordOf(h) /\ slots'[h] = slots[h] /\ h \in 1..n /\ RecordOf(h) \in RecordType
  <2>1. h - FirstRecorded + 1 \in 1..Len(records) /\ h \in 1..n /\ RecordOf(h) \in RecordType
    BY <1>n, RecordsAreThere
  <2>2. records'[h - FirstRecorded + 1] = records[h - FirstRecorded + 1]
    BY <1>5, <2>1
  <2>3. RecordOf(h)' = RecordOf(h)
    BY <2>2, Zenon DEF RecordOf
  <2>. QED  BY <1>2, <2>1, <2>3
<1>9. \A h \in R : g[h] = f[h] /\ f[h] \in Int
  <2>. SUFFICES ASSUME NEW h \in R PROVE g[h] = f[h] /\ f[h] \in Int
    OBVIOUS
  <2>1. f[h] = BurnedInBlock(h, RecordOf(h)) /\ g[h] = BurnedInBlock(h, RecordOf(h))'
    BY <1>6 DEF BurnOf
  <2>2. BurnedInBlock(h, RecordOf(h))' = BurnedInBlock(h, RecordOf(h))
    BY <1>8, Zenon DEF BurnedInBlock
  <2>. QED  BY <2>1, <2>2, BurnOfType
<1>10. g[n + 1] = burn
  <2>1. g[n + 1] = BurnedInBlock(n + 1, RecordOf(n + 1))'
    BY <1>6 DEF BurnOf
  <2>2. BurnedInBlock(n + 1, RecordOf(n + 1))' = Greater(new.fees - (new.reward - m), 0)
    <3>1. MinerSubsidy(n + 1, slots'[n + 1]) = m
      BY <1>n, <1>2
    <3>. HIDE DEF new
    <3>. QED  BY <1>7, <3>1, Zenon DEF BurnedInBlock
  <2>3. Greater(new.fees - (new.reward - m), 0) = burn
    <3>1. new.fees = fee /\ new.reward = m + claim
      BY DEF new
    <3>2. Greater(fee - ((m + claim) - m), 0) = burn
      BY DEF Greater
    <3>. QED  BY <3>1, <3>2, Zenon
  <2>. QED  BY <2>1, <2>2, <2>3, Zenon
<1>. HIDE DEF f, g, new, R
<1>11. \A h \in R \cup {n + 1} : g[h] \in Int
  BY <1>9, <1>10
<1>12. ASSUME NEW h \in R, NEW S \in SUBSET RecordedHeights'
       PROVE  /\ SumFunctionOnSet(f, Higher(S \ {n + 1}, h)) \in Nat
              /\ SumFunctionOnSet(g, Higher(S, h)) =
                   (IF n + 1 \in S THEN burn ELSE 0) + SumFunctionOnSet(f, Higher(S \ {n + 1}, h))
  <2>. DEFINE all == Higher(S, h)
              old == Higher(S \ {n + 1}, h)
  <2>1. S \ {n + 1} \in SUBSET R /\ n + 1 > h
    BY <1>6, <1>8
  <2>2. SumFunctionOnSet(f, old) \in Nat
    BY <2>1 DEF f, R, HistoryInv
  <2>3. old = all \ {n + 1} /\ (n + 1 \in S <=> n + 1 \in all) /\ old \subseteq R
        /\ all \subseteq FirstRecorded..(n + 1) /\ all \subseteq R \cup {n + 1}
    BY <1>6, <2>1 DEF Higher
  <2>4. IsFiniteSet(all) /\ IsFiniteSet(old)
    <3>1. IsFiniteSet(FirstRecorded..(n + 1))
      BY <1>1, FS_Interval
    <3>2. old \subseteq all
      BY <2>3
    <3>. QED  BY <2>3, <3>1, <3>2, FS_Subset
  <2>. HIDE DEF all, old
  <2>5. SumFunctionOnSet(g, old) = SumFunctionOnSet(f, old)
    <3>1. \A j \in old : g[j] = f[j]
      BY <1>9, <2>3
    <3>. QED  BY <2>4, <3>1, SumOfSame
  <2>6. CASE n + 1 \in S
    <3>1. \A j \in all : g[j] \in Int
      BY <1>11, <2>3
    <3>2. \A x \in all : SumFunctionOnSet(g, all) = g[x] + SumFunctionOnSet(g, all \ {x})
      BY <2>4, <3>1, SumWithout
    <3>3. SumFunctionOnSet(g, all) = g[n + 1] + SumFunctionOnSet(g, old)
      BY <2>3, <2>6, <3>2, Zenon
    <3>4. SumFunctionOnSet(g, all) = burn + SumFunctionOnSet(f, old)
      BY <1>10, <2>5, <3>3, Zenon
    <3>. QED  BY <2>2, <2>6, <3>4, Zenon DEF all, old
  <2>7. CASE n + 1 \notin S
    <3>1. all = old
      BY <2>3, <2>7
    <3>2. SumFunctionOnSet(g, all) = 0 + SumFunctionOnSet(f, old)
      BY <2>2, <2>5, <3>1
    <3>. QED  BY <2>2, <2>7, <3>2, Zenon DEF all, old
  <2>. QED  BY <2>6, <2>7
<1>14. ASSUME NEW h \in RecordedHeights', NEW read \in SUBSET RecordedHeights'
       PROVE  /\ SumFunctionOnSet(g, Higher(read, h)) \in Nat
              /\ SumFunctionOnSet(g, Higher(read, h))
                   + SumFunctionOnSet(g, Higher(RecordedHeights' \ read, h))
                 = burned' - RecordOf(h)'.burned
  <2>. DEFINE rest == RecordedHeights' \ read
  <2>1. rest \in SUBSET RecordedHeights'
    OBVIOUS
  <2>2. CASE h = n + 1
    <3>1. Higher(read, h) = {} /\ Higher(rest, h) = {}
      <4>1. \A j \in RecordedHeights' : ~(j > h)
        <5>1. \A j \in FirstRecorded..(n + 1) : ~(j > n + 1)
          BY <1>1
        <5>. QED  BY <1>6, <2>2, <5>1, Zenon
      <4>2. \A S \in SUBSET RecordedHeights' : Higher(S, h) = {}
        BY <4>1, Zenon DEF Higher
      <4>. QED  BY <2>1, <4>2, Zenon
    <3>2. SumFunctionOnSet(g, {}) = 0
      BY SumOfNone
    <3>3. RecordOf(h)' = new /\ new.burned = burned'
      BY <1>7, <2>2 DEF new
    <3>4. burned' - burned' = 0 + 0
      BY <1>1
    <3>5. 0 \in Nat
      OBVIOUS
    <3>. HIDE DEF rest
    <3>6. /\ SumFunctionOnSet(g, Higher(read, h)) \in Nat
          /\ SumFunctionOnSet(g, Higher(read, h)) + SumFunctionOnSet(g, Higher(rest, h))
             = burned' - RecordOf(h)'.burned
      BY <3>1, <3>2, <3>3, <3>4, <3>5, Zenon
    <3>. QED  BY <3>6 DEF rest
  <2>3. CASE h \in R
    <3>. DEFINE a == SumFunctionOnSet(f, Higher(read \ {n + 1}, h))
                b == SumFunctionOnSet(f, Higher(rest \ {n + 1}, h))
    <3>1. /\ a \in Nat
          /\ SumFunctionOnSet(g, Higher(read, h)) = (IF n + 1 \in read THEN burn ELSE 0) + a
      BY <1>12, <2>3
    <3>2. /\ b \in Nat
          /\ SumFunctionOnSet(g, Higher(rest, h)) = (IF n + 1 \in rest THEN burn ELSE 0) + b
      BY <1>12, <2>1, <2>3
    <3>3. n + 1 \in rest <=> n + 1 \notin read
      BY <1>6
    <3>4. a + b = burned - RecordOf(h).burned
      <4>1. read \ {n + 1} \in SUBSET R /\ rest \ {n + 1} = R \ (read \ {n + 1})
        BY <1>6
      <4>. QED  BY <2>3, <4>1 DEF f, R, HistoryInv
    <3>5. RecordOf(h)' = RecordOf(h) /\ RecordOf(h).burned \in Nat
      BY <1>8, <2>3 DEF RecordType
    <3>. HIDE DEF a, b, rest
    <3>6. PICK r \in Nat : r = RecordOf(h).burned
      BY <3>5
    <3>7. PICK u \in Nat, v \in Nat :
                /\ u = (IF n + 1 \in read THEN burn ELSE 0)
                /\ v = (IF n + 1 \in rest THEN burn ELSE 0)
                /\ u + v = burn
      BY <3>3
    <3>8. u + a \in Nat /\ (u + a) + (v + b) = burned' - r
      <4>1. a \in Nat /\ b \in Nat
        BY <3>1, <3>2
      <4>2. a + b = burned - r
        BY <3>4, <3>6, Zenon
      <4>3. burned' = burned + burn
        OBVIOUS
      <4>. QED  BY <1>1, <3>7, <4>1, <4>2, <4>3
    <3>9. /\ SumFunctionOnSet(g, Higher(read, h)) \in Nat
          /\ SumFunctionOnSet(g, Higher(read, h)) + SumFunctionOnSet(g, Higher(rest, h))
             = burned' - RecordOf(h)'.burned
      BY <3>1, <3>2, <3>5, <3>6, <3>7, <3>8, Zenon
    <3>. QED  BY <3>9 DEF rest
  <2>. QED  BY <1>6, <2>2, <2>3
<1>15. records'[Len(records')].burned = burned'
  <2>1. new.burned = burned'
    BY DEF new
  <2>. QED  BY <1>5, <2>1, Zenon
<1>16. ASSUME NEW h \in FirstRecorded + 1..tip'
       PROVE  g[h] = RecordOf(h)'.burned - RecordOf(h - 1)'.burned
  <2>1. h \in FirstRecorded + 1..n \/ h = n + 1
    BY <1>1, <1>2
  <2>2. h - 1 \in R
    BY <1>1, <1>2, <1>6
  <2>3. RecordOf(h - 1)' = RecordOf(h - 1)
    BY <1>8, <2>2
  <2>4. CASE h \in FirstRecorded + 1..n
    <3>1. h \in R
      BY <1>1, <1>6, <2>4
    <3>2. f[h] = RecordOf(h).burned - RecordOf(h - 1).burned
      BY <1>n, <2>4 DEF f, HistoryInv
    <3>3. g[h] = f[h] /\ RecordOf(h)' = RecordOf(h)
      BY <1>8, <1>9, <3>1
    <3>. QED  BY <2>3, <3>2, <3>3, Zenon
  <2>5. CASE h = n + 1
    <3>1. RecordOf(h - 1) = RecordOf(tip) /\ tip \in RecordedHeights
      BY <1>n, <2>2, <2>5 DEF R
    <3>2. RecordOf(h - 1)'.burned = burned
      BY <2>3, <3>1, LastRecord
    <3>3. RecordOf(h)'.burned = burned'
      BY <1>7, <2>5 DEF new
    <3>4. burn = burned' - burned
      BY <1>1
    <3>. QED  BY <1>10, <2>5, <3>2, <3>3, <3>4, Zenon
  <2>. QED  BY <2>1, <2>4, <2>5
<1>13. Len(records') = IF tip' < FirstRecorded THEN 0 ELSE tip' - FirstRecorded + 1
  <2>1. ~(tip' < FirstRecorded)
    BY <1>1, <1>2, <1>3
  <2>2. Len(records') = ((n + 1) - FirstRecorded) + 1
    BY <1>3, <1>5, Zenon
  <2>3. Len(records') = tip' - FirstRecorded + 1
    BY <1>2, <2>2, Zenon
  <2>. QED  BY <2>1, <2>3, Zenon
<1>17. /\ \A h \in RecordedHeights' : \A read \in SUBSET RecordedHeights' :
               /\ SumFunctionOnSet(BurnOf', Higher(read, h)) \in Nat
               /\ SumFunctionOnSet(BurnOf', Higher(read, h))
                    + SumFunctionOnSet(BurnOf', Higher(RecordedHeights' \ read, h))
                  = burned' - RecordOf(h)'.burned
       /\ \A h \in FirstRecorded + 1..tip' :
               BurnOf'[h] = RecordOf(h)'.burned - RecordOf(h - 1)'.burned
  BY <1>14, <1>16 DEF g
<1>. QED
  BY <1>5, <1>13, <1>15, <1>17 DEF HistoryInv, Higher

LEMMA HistoryGrows ==
    ASSUME DevEnd # Activation
    PROVE  HistoryInv /\ [Next]_vars => HistoryInv'
<1>. SUFFICES ASSUME HistoryInv, [Next]_vars PROVE HistoryInv'
  OBVIOUS
<1>1. BurnInv' /\ GrowsInv
  BY BurnStep DEF HistoryInv, BurnInv, ClosedInv
<1>2. CASE UNCHANGED node
  <2>1. slots' = slots /\ records' = records /\ burned' = burned
    BY <1>2 DEF node
  <2>. QED  BY <1>1, <2>1, HistoryStays
<1>3. CASE NodeMines
  <2>1. PICK logSlots \in {LogSlots, LogSlots + 1}, newActive \in ActiveCounts,
             tx \in Transactions \cup {NoTransaction} : Block(logSlots, newActive, tx)
    BY <1>3 DEF NodeMines
  <2>2. slots' = Append(slots, logSlots)
    BY <2>1 DEF Block
  <2>3. /\ tip \in Nat /\ tip' = tip + 1 /\ FirstRecorded \in Nat
        /\ logSlots \in Nat /\ logSlots >= LogSlotsGenesis
    <3>1. LogSlots \in Nat /\ LogSlots >= LogSlotsGenesis /\ tip \in Nat /\ LogSlotsGenesis \in Nat
      BY <1>1, LastIsLargest
    <3>2. tip' = tip + 1
      BY <1>1, <2>2, GrowsBlock
    <3>. QED  BY <3>1, <3>2, SupplyAssumption
  <2>4. PICK fee \in Nat, claim \in Nat, burn \in Nat :
              /\ claim = fee - burn
              /\ circulating' = circulating + MinerSubsidy(tip + 1, logSlots)
                                  + Payout(tip + 1, logSlots) - fee + claim
              /\ burned' = burned + burn
              /\ records' = IF tip + 1 < FirstRecorded THEN records
                            ELSE Append(records, [ fees   |-> fee,
                                                   reward |-> MinerSubsidy(tip + 1, logSlots) + claim,
                                                   burned |-> burned' ])
    BY <2>1, MoneyOfBlock
  <2>5. PICK m \in Int : m = MinerSubsidy(tip + 1, logSlots)
    BY <2>3, AmountsOfBlock
  <2>6. CASE tip + 1 < FirstRecorded
    <3>1. records' = records
      BY <2>4, <2>6
    <3>. QED  BY <1>1, <2>3, <2>6, <3>1, HistoryNotYet
  <2>7. CASE ~(tip + 1 < FirstRecorded)
    <3>1. records' = Append(records, [fees |-> fee, reward |-> m + claim, burned |-> burned'])
      BY <2>4, <2>5, <2>7, Zenon
    <3>2. tip + 1 >= FirstRecorded
      BY <2>3, <2>7
    <3>3. claim = fee - burn /\ burned' = burned + burn
      BY <2>4
    <3>. QED  BY <1>1, <2>2, <2>3, <2>5, <3>1, <3>2, <3>3, HistoryBlock
  <2>. QED  BY <2>6, <2>7
<1>. QED
  BY <1>2, <1>3 DEF Next, Ask, vars

\* Where a measured burn is shown, what it was is on record.
LEMMA MeasuredIsRecorded ==
    ASSUME HistoryInv, NEW read \in Readings, NEW height \in Measured(read), height # tip
    PROVE  height \in RecordedHeights
<1>1. tip \in Nat /\ FirstRecorded \in Nat \ {0}
  BY LastIsLargest, SupplyAssumption DEF HistoryInv, BurnInv, ClosedInv
<1>2. PICK g \in read : g <= height
  BY DEF Measured
<1>3. height \in 0..tip /\ g \in FirstRecorded..tip
  BY <1>1 DEF Measured, Samples, Readings, RecordedHeights
<1>. QED
  BY <1>1, <1>2, <1>3 DEF RecordedHeights

\* HistoryMissesOnlyTheUnread: the burn get_economics shows for a sampled height, worked out
\* from the tip's figure back through whatever recorded blocks burn_by_block found, is what had
\* been burned by then and what the blocks above it that it did not find burned.
THEOREM HistoryMissesOnlyTheUnreadHolds ==
    ASSUME DevEnd # Activation
    PROVE  Spec => []HistoryMissesOnlyTheUnread
<1>1. HistoryInv => HistoryMissesOnlyTheUnread
  <2>. SUFFICES ASSUME HistoryInv, NEW read \in Readings, NEW height \in Measured(read)
                PROVE  HistoryBurn(height, read) =
                         BurnedBy(height) + SumFunctionOnSet(BurnedSince, Unread(height, read))
    BY DEF HistoryMissesOnlyTheUnread
  <2>1. /\ BurnShown = burned /\ burned \in Nat /\ tip \in Nat /\ FirstRecorded \in Nat
        /\ read \in SUBSET RecordedHeights
    BY BurnShownIs, LastIsLargest, SupplyAssumption DEF HistoryInv, BurnInv, ClosedInv, Readings
  <2>2. HistoryBurn(height, read) =
          Greater(burned - SumFunctionOnSet(BurnOf, Higher(read, height)), 0)
    BY <2>1, Zenon DEF HistoryBurn, Higher
  <2>3. Unread(height, read) = Higher(RecordedHeights \ read, height)
    BY DEF Unread, Higher
  <2>4. CASE height = tip
    <3>1. Higher(read, height) = {} /\ Higher(RecordedHeights \ read, height) = {}
      <4>1. \A g \in RecordedHeights : ~(g > height)
        BY <2>1, <2>4 DEF RecordedHeights
      <4>. QED  BY <2>1, <4>1, Zenon DEF Higher
    <3>2. \A F : SumFunctionOnSet(F, {}) = 0
      BY SumOfNone
    <3>3. Greater(burned - 0, 0) = burned + 0
      BY <2>1 DEF Greater
    <3>4. BurnedBy(height) = burned
      BY <2>4 DEF BurnedBy
    <3>. QED  BY <2>2, <2>3, <3>1, <3>2, <3>3, <3>4, Zenon
  <2>5. CASE height # tip
    <3>1. height \in RecordedHeights /\ height \in FirstRecorded..tip
      BY <2>5, MeasuredIsRecorded DEF RecordedHeights
    <3>2. PICK r \in Nat : r = RecordOf(height).burned /\ r = BurnedBy(height)
      BY <2>5, <3>1, RecordsAreThere DEF RecordType, BurnedBy
    <3>3. PICK a \in Nat : a = SumFunctionOnSet(BurnOf, Higher(read, height))
      BY <2>1, <3>1 DEF HistoryInv
    <3>4. RecordedHeights \ read \in SUBSET RecordedHeights
      OBVIOUS
    <3>5. PICK b \in Nat : b = SumFunctionOnSet(BurnOf, Higher(RecordedHeights \ read, height))
      BY <3>1, <3>4 DEF HistoryInv
    <3>6. a + b = burned - r
      BY <2>1, <3>1, <3>2, <3>3, <3>5 DEF HistoryInv
    <3>7. b = SumFunctionOnSet(BurnedSince, Unread(height, read))
      <4>1. ASSUME NEW g \in Unread(height, read)
            PROVE  BurnOf[g] = BurnedSince[g]
        <5>1. g \in FirstRecorded + 1..tip /\ g \in RecordedHeights /\ g - 1 \in RecordedHeights
              /\ g - 1 # tip
          BY <2>1, <3>1 DEF Unread, RecordedHeights
        <5>2. BurnOf[g] = RecordOf(g).burned - RecordOf(g - 1).burned
          BY <5>1 DEF HistoryInv
        <5>3. BurnedBy(g) = RecordOf(g).burned
          <6>1. tip \in RecordedHeights
            BY <2>1, <5>1 DEF RecordedHeights
          <6>. QED  BY <6>1, LastRecord DEF BurnedBy
        <5>4. BurnedBy(g - 1) = RecordOf(g - 1).burned
          BY <5>1 DEF BurnedBy
        <5>5. BurnedSince[g] = BurnedBy(g) - BurnedBy(g - 1)
          BY <5>1 DEF BurnedSince
        <5>. QED  BY <5>2, <5>3, <5>4, <5>5, Zenon
      <4>2. IsFiniteSet(Unread(height, read))
        <5>1. IsFiniteSet(FirstRecorded..tip)
          BY <2>1, FS_Interval
        <5>2. Unread(height, read) \subseteq FirstRecorded..tip
          BY DEF Unread, RecordedHeights
        <5>. QED  BY <5>1, <5>2, FS_Subset
      <4>3. SumFunctionOnSet(BurnOf, Unread(height, read))
              = SumFunctionOnSet(BurnedSince, Unread(height, read))
        BY <4>1, <4>2, SumOfSame
      <4>. QED  BY <2>3, <3>5, <4>3, Zenon
    <3>8. Greater(burned - a, 0) = r + b
      BY <2>1, <3>6 DEF Greater
    <3>. QED  BY <2>2, <3>2, <3>3, <3>7, <3>8, Zenon
  <2>. QED  BY <2>4, <2>5
<1>2. HistoryInv /\ [Next]_vars => HistoryInv'
  BY HistoryGrows
<1>. QED
  BY <1>1, <1>2, HistoryInit, PTL DEF Spec

-----------------------------------------------------------------------------
(* The tiers of the fee.                                                   *)

\* A quotient rounded up is at most n where the product is.
LEMMA RoundedUp ==
    ASSUME NEW x \in Nat, NEW d \in Nat \ {0}, NEW n \in Nat
    PROVE  (x + (d - 1)) \div d <= n <=> x <= d * n
<1>1. PICK q \in Nat, r \in 0..(d - 1) :
         q = (x + (d - 1)) \div d /\ r = (x + (d - 1)) % d /\ x + (d - 1) = d * q + r
  <2>1. x + (d - 1) \in Nat
    OBVIOUS
  <2>. QED  BY <2>1, DivMod
<1>2. PICK p \in Nat, s \in Nat : p = d * q /\ s = d * n
  <2>1. d * q \in Nat /\ d * n \in Nat
    OBVIOUS
  <2>. QED  BY <2>1
<1>3. ASSUME q <= n PROVE x <= s
  <2>1. q * d <= n * d /\ q * d = d * q /\ n * d = d * n
    BY <1>3, ProductOrder
  <2>2. p <= s
    BY <1>2, <2>1, Zenon
  <2>3. x + (d - 1) = p + r
    BY <1>1, <1>2, Zenon
  <2>4. x <= p
    BY <1>1, <1>2, <2>3
  <2>. QED  BY <1>2, <2>2, <2>4
<1>4. ASSUME ~(q <= n) PROVE ~(x <= s)
  <2>1. n * d + d <= q * d /\ q * d = d * q /\ n * d = d * n
    <3>1. n < q
      BY <1>4
    <3>. QED  BY <3>1, ProductOrder
  <2>2. s + d <= p
    BY <1>2, <2>1, Zenon
  <2>3. x + (d - 1) = p + r
    BY <1>1, <1>2, Zenon
  <2>. QED  BY <1>1, <1>2, <2>2, <2>3
<1>5. q <= n <=> x <= s
  BY <1>3, <1>4
<1>. QED
  BY <1>1, <1>2, <1>5, Zenon

LEMMA RoundedDown ==
    ASSUME NEW x \in Nat, NEW d \in Nat \ {0}, NEW n \in Nat
    PROVE  n <= x \div d <=> d * n <= x
<1>1. PICK q \in Nat, r \in 0..(d - 1) : q = x \div d /\ r = x % d /\ x = d * q + r
  BY DivMod
<1>2. PICK p \in Nat, s \in Nat : p = d * q /\ s = d * n
  <2>1. d * q \in Nat /\ d * n \in Nat
    OBVIOUS
  <2>. QED  BY <2>1
<1>3. x = p + r
  BY <1>1, <1>2, Zenon
<1>4. ASSUME n <= q PROVE s <= x
  <2>1. n * d <= q * d /\ q * d = d * q /\ n * d = d * n
    BY <1>4, ProductOrder
  <2>2. s <= p
    BY <1>2, <2>1, Zenon
  <2>. QED  BY <1>1, <1>2, <1>3, <2>2
<1>5. ASSUME ~(n <= q) PROVE ~(s <= x)
  <2>1. q * d + d <= n * d /\ q * d = d * q /\ n * d = d * n
    <3>1. q < n
      BY <1>5
    <3>. QED  BY <3>1, ProductOrder
  <2>2. p + d <= s
    BY <1>2, <2>1, Zenon
  <2>. QED  BY <1>1, <1>2, <1>3, <2>2
<1>6. n <= q <=> s <= x
  BY <1>4, <1>5
<1>. QED
  BY <1>1, <1>2, <1>6, Zenon

LEMMA RoundedBoth ==
    ASSUME NEW x \in Nat, NEW k \in Nat, NEW n \in Nat,
           NEW c \in Nat \ {0}, NEW d \in Nat \ {0}, x = c * k
    PROVE  (x + (d - 1)) \div d <= n <=> k <= (n * d) \div c
<1>1. PICK y \in Nat : y = n * d /\ y = d * n
  <2>1. n * d \in Nat /\ n * d = d * n
    OBVIOUS
  <2>. QED  BY <2>1
<1>2. (x + (d - 1)) \div d <= n <=> x <= d * n
  BY RoundedUp
<1>3. k <= y \div c <=> c * k <= y
  BY RoundedDown
<1>. QED
  BY <1>1, <1>2, <1>3, Zenon

\* The threshold shown is the first number of live slots of this occupancy.
LEMMA ThresholdIsOccupancy ==
    ASSUME NEW capacity \in Nat \ {0}, NEW bps \in Nat, NEW n \in Nat
    PROVE  PressureThreshold(bps, capacity) <= n <=> bps <= (n * 10000) \div capacity
<1>1. PICK x \in Nat : x = capacity * bps
  <2>1. capacity * bps \in Nat
    OBVIOUS
  <2>. QED  BY <2>1
<1>2. PICK d \in Nat \ {0} : d = 10000
  OBVIOUS
<1>3. (x + (d - 1)) \div d <= n <=> bps <= (n * d) \div capacity
  BY <1>1, RoundedBoth
<1>4. PressureThreshold(bps, capacity) = (x + 9999) \div 10000
  BY <1>1 DEF PressureThreshold
<1>5. d - 1 = 9999
  BY <1>2
<1>. QED
  BY <1>2, <1>3, <1>4, <1>5

LEMMA ThresholdType ==
    ASSUME NEW capacity \in Nat \ {0}, NEW bps \in Nat
    PROVE  PressureThreshold(bps, capacity) \in Nat
<1>1. capacity * bps + 9999 \in Nat
  OBVIOUS
<1>. QED
  BY <1>1, DivMod DEF PressureThreshold

LEMMA MultiplierByThreshold ==
    ASSUME NEW logSlots \in Nat, NEW n \in Nat
    PROVE  LET capacity == Capacity[logSlots]
               at(bps) == PressureThreshold(bps, capacity) <= n
           IN  PressureMultiplier(n, logSlots) =
                 IF at(9000) THEN 8 ELSE IF at(7500) THEN 4 ELSE IF at(5000) THEN 2 ELSE 1
<1>1. PICK c \in Nat \ {0} : c = Capacity[logSlots]
  BY CapacityIsPositive
<1>2. PICK q \in Nat : q = (n * 10000) \div c
  <2>1. n * 10000 \in Nat
    OBVIOUS
  <2>. QED  BY <2>1, DivMod
<1>3. OccupancyBps(n, logSlots) = q
  BY <1>1, <1>2 DEF OccupancyBps
<1>4. \A bps \in Nat : PressureThreshold(bps, c) <= n <=> bps <= q
  <2>1. \A bps \in Nat : PressureThreshold(bps, c) <= n <=> bps <= (n * 10000) \div c
    BY ThresholdIsOccupancy
  <2>. QED  BY <1>2, <2>1
<1>5. /\ PressureThreshold(9000, c) <= n <=> q >= 9000
      /\ PressureThreshold(7500, c) <= n <=> q >= 7500
      /\ PressureThreshold(5000, c) <= n <=> q >= 5000
  BY <1>4
<1>6. PressureMultiplier(n, logSlots) =
        IF q >= 9000 THEN 8 ELSE IF q >= 7500 THEN 4 ELSE IF q >= 5000 THEN 2 ELSE 1
  BY <1>3 DEF PressureMultiplier
<1>7. PressureMultiplier(n, logSlots) =
        IF PressureThreshold(9000, c) <= n THEN 8
        ELSE IF PressureThreshold(7500, c) <= n THEN 4
        ELSE IF PressureThreshold(5000, c) <= n THEN 2 ELSE 1
  BY <1>5, <1>6
<1>. QED
  BY <1>1, <1>7

LEMMA ThresholdsRise ==
    ASSUME NEW capacity \in Nat \ {0}, NEW n \in Nat
    PROVE  /\ PressureThreshold(9000, capacity) <= n => PressureThreshold(7500, capacity) <= n
           /\ PressureThreshold(7500, capacity) <= n => PressureThreshold(5000, capacity) <= n
<1>1. PICK q \in Nat : q = (n * 10000) \div capacity
  <2>1. n * 10000 \in Nat
    OBVIOUS
  <2>. QED  BY <2>1, DivMod
<1>2. \A bps \in Nat : PressureThreshold(bps, capacity) <= n <=> bps <= q
  <2>1. \A bps \in Nat : PressureThreshold(bps, capacity) <= n <=> bps <= (n * 10000) \div capacity
    BY ThresholdIsOccupancy
  <2>. QED  BY <1>1, <2>1
<1>. QED
  BY <1>2

-----------------------------------------------------------------------------
(* The price of the slots up to the next expansion.                        *)

\* A price below slot b that changes once, at slot T.
ChangesOnce(price, T, b, p, q) == \A n \in 0..(b - 1) : price[n] = IF n < T THEN p ELSE q

LEMMA SumOfTwoPrices ==
    ASSUME NEW p \in Nat, NEW q \in Nat, NEW T \in Nat, NEW b \in Nat, T <= b,
           NEW price, ChangesOnce(price, T, b, p, q), NEW a \in Nat
    PROVE  SumFunctionOnSet(price, a..(b - 1))
             = p * Greater(T - a, 0) + q * Greater(b - Greater(a, T), 0)
<1>. DEFINE Right(i) == SumFunctionOnSet(price, i..(b - 1))
                          = p * Greater(T - i, 0) + q * Greater(b - Greater(i, T), 0)
            Wrong == {m \in Nat : \E i \in Nat : i + m = b /\ ~Right(i)}
<1>0. \A n \in 0..(b - 1) : price[n] = IF n < T THEN p ELSE q
  BY DEF ChangesOnce
<1>1. p * 0 = 0 /\ q * 0 = 0
  OBVIOUS
<1>2. ASSUME NEW i \in Nat, i >= b PROVE Right(i)
  <2>1. i..(b - 1) = {}
    BY <1>2
  <2>2. Greater(T - i, 0) = 0 /\ Greater(b - Greater(i, T), 0) = 0
    BY <1>2 DEF Greater
  <2>3. SumFunctionOnSet(price, i..(b - 1)) = 0
    BY <2>1, SumOfNone, Zenon
  <2>4. p * Greater(T - i, 0) + q * Greater(b - Greater(i, T), 0) = 0 + 0
    BY <1>1, <2>2, Zenon
  <2>. QED  BY <2>3, <2>4
<1>3. SUFFICES Wrong = {}
  <2>1. CASE a >= b
    BY <1>2, <2>1
  <2>2. CASE a < b
    <3>1. b - a \in Nat /\ a + (b - a) = b
      BY <2>2
    <3>2. b - a \notin Wrong
      BY <1>3
    <3>3. Right(a)
      <4>. HIDE DEF Right
      <4>. QED  BY <3>1, <3>2
    <3>. QED  BY <3>3
  <2>. QED  BY <2>1, <2>2
<1>4. SUFFICES ASSUME Wrong # {} PROVE FALSE
  OBVIOUS
<1>5. PICK m \in Wrong : \A k \in Wrong : m <= k
  BY <1>4, LeastOf
<1>6. PICK i \in Nat : i + m = b /\ ~Right(i)
  BY <1>5
<1>7. m \in Nat /\ i < b
  <2>. HIDE DEF Right
  <2>. QED  BY <1>2, <1>5, <1>6
<1>8. Right(i + 1)
  <2>. HIDE DEF Right
  <2>1. m - 1 \in Nat /\ (i + 1) + (m - 1) = b /\ i + 1 \in Nat
    BY <1>6, <1>7
  <2>2. m - 1 \notin Wrong
    BY <1>5, <1>7
  <2>. QED  BY <2>1, <2>2
<1>9. SumFunctionOnSet(price, i..(b - 1)) = price[i] + SumFunctionOnSet(price, (i + 1)..(b - 1))
  <2>1. IsFiniteSet(i..(b - 1)) /\ i \in i..(b - 1)
    BY <1>7, FS_Interval
  <2>2. \A n \in i..(b - 1) : price[n] \in Int
    BY <1>0, <1>7
  <2>3. (i..(b - 1)) \ {i} = (i + 1)..(b - 1)
    BY <1>7
  <2>4. SumFunctionOnSet(price, i..(b - 1))
          = price[i] + SumFunctionOnSet(price, (i..(b - 1)) \ {i})
    BY <2>1, <2>2, SumWithout
  <2>. QED  BY <2>3, <2>4, Zenon
<1>10. PICK u \in Nat, v \in Nat :
          u = Greater(T - (i + 1), 0) /\ v = Greater(b - Greater(i + 1, T), 0)
  <2>1. i + 1 \in Nat /\ i + 1 <= b
    BY <1>7
  <2>2. T - (i + 1) \in Int /\ b - (i + 1) \in Nat /\ b - T \in Nat
    BY <2>1
  <2>3. Greater(T - (i + 1), 0) \in Nat
    BY <2>2 DEF Greater
  <2>4. b - Greater(i + 1, T) \in Nat
    BY <2>2 DEF Greater
  <2>5. Greater(b - Greater(i + 1, T), 0) \in Nat
    BY <2>4 DEF Greater
  <2>. QED  BY <2>3, <2>5
<1>11. SumFunctionOnSet(price, (i + 1)..(b - 1)) = p * u + q * v
  BY <1>8, <1>10, Zenon
<1>12. CASE i < T
  <2>1. price[i] = p
    BY <1>0, <1>7, <1>12
  <2>2. Greater(T - i, 0) = u + 1 /\ Greater(b - Greater(i, T), 0) = v
    BY <1>7, <1>10, <1>12 DEF Greater
  <2>3. p * (u + 1) = p * u + p
    BY Distribute
  <2>4. p + (p * u + q * v) = p * u + p + q * v
    <3>1. p * u \in Nat /\ q * v \in Nat
      OBVIOUS
    <3>. QED  BY <3>1
  <2>5. Right(i)
    BY <1>9, <1>11, <2>1, <2>2, <2>3, <2>4, Zenon
  <2>. QED  BY <1>6, <2>5
<1>13. CASE ~(i < T)
  <2>1. price[i] = q
    BY <1>0, <1>7, <1>13
  <2>2. Greater(T - i, 0) = u /\ Greater(b - Greater(i, T), 0) = v + 1
    BY <1>7, <1>10, <1>13 DEF Greater
  <2>3. q * (v + 1) = q * v + q
    BY Distribute
  <2>4. q + (p * u + q * v) = p * u + (q * v + q)
    <3>1. p * u \in Nat /\ q * v \in Nat
      OBVIOUS
    <3>. QED  BY <3>1
  <2>5. Right(i)
    BY <1>9, <1>11, <2>1, <2>2, <2>3, <2>4, Zenon
  <2>. QED  BY <1>6, <2>5
<1>. QED
  BY <1>12, <1>13

LEMMA ThresholdByProduct ==
    ASSUME NEW capacity \in Nat \ {0}, NEW bps \in Nat, NEW n \in Nat
    PROVE  PressureThreshold(bps, capacity) <= n <=> capacity * bps <= 10000 * n
<1>1. PICK x \in Nat : x = capacity * bps
  <2>1. capacity * bps \in Nat
    OBVIOUS
  <2>. QED  BY <2>1
<1>2. PICK d \in Nat \ {0} : d = 10000
  OBVIOUS
<1>3. (x + (d - 1)) \div d <= n <=> x <= d * n
  BY RoundedUp
<1>4. PressureThreshold(bps, capacity) = (x + 9999) \div 10000
  BY <1>1 DEF PressureThreshold
<1>5. d - 1 = 9999
  BY <1>2
<1>. QED
  BY <1>1, <1>2, <1>3, <1>4, <1>5

\* Three quarters of the state, where it expands.
Goal(capacity) == (capacity \div 4) * 3
Half(capacity) == PressureThreshold(5000, capacity)
ThreeQuarters(capacity) == PressureThreshold(7500, capacity)
NineTenths(capacity) == PressureThreshold(9000, capacity)

LEMMA GoalType ==
    ASSUME NEW capacity \in Nat \ {0}
    PROVE  /\ Goal(capacity) \in Nat /\ 4 * Goal(capacity) <= 3 * capacity
           /\ Half(capacity) \in Nat \ {0}
           /\ ThreeQuarters(capacity) \in Nat /\ ThreeQuarters(capacity) >= Goal(capacity)
           /\ NineTenths(capacity) \in Nat /\ NineTenths(capacity) >= Goal(capacity)
<1>1. PICK q \in Nat, r \in 0..3 : q = capacity \div 4 /\ capacity = 4 * q + r
  BY DivMod
<1>2. Goal(capacity) = q * 3
  BY <1>1 DEF Goal
<1>3. Goal(capacity) \in Nat /\ 4 * Goal(capacity) <= 3 * capacity
  BY <1>1, <1>2
<1>4. Half(capacity) \in Nat \ {0}
  <2>1. ~(capacity * 5000 <= 10000 * 0)
    OBVIOUS
  <2>2. ~(PressureThreshold(5000, capacity) <= 0)
    BY <2>1, ThresholdByProduct
  <2>3. PressureThreshold(5000, capacity) \in Nat
    BY ThresholdType
  <2>. QED  BY <2>2, <2>3 DEF Half
<1>5. PICK t \in Nat : t = PressureThreshold(7500, capacity)
  BY ThresholdType
<1>6. capacity * 7500 <= 10000 * t
  BY <1>5, ThresholdByProduct
<1>7. PICK u \in Nat : u = PressureThreshold(9000, capacity)
  BY ThresholdType
<1>8. capacity * 9000 <= 10000 * u
  BY <1>7, ThresholdByProduct
<1>. QED
  BY <1>3, <1>4, <1>5, <1>6, <1>7, <1>8 DEF ThreeQuarters, NineTenths

\* Below the expansion a slot costs the base, or twice of it from half on.
LEMMA TwoPrices ==
    ASSUME SizesInv, NEW capacity, capacity = Capacity[LogSlots],
           NEW n \in Nat, n < Goal(capacity)
    PROVE  FeePerSlot(n) = IF n < Half(capacity) THEN StateGrowthFeeBase
                           ELSE 2 * StateGrowthFeeBase
<1>1. LogSlots \in Nat
  BY EmissionAssumption DEF SizesInv, LogSlots, tip
<1>2. capacity \in Nat \ {0}
  BY <1>1, CapacityIsPositive
<1>3. PressureMultiplier(n, LogSlots) =
        IF PressureThreshold(9000, capacity) <= n THEN 8
        ELSE IF PressureThreshold(7500, capacity) <= n THEN 4
        ELSE IF PressureThreshold(5000, capacity) <= n THEN 2 ELSE 1
  BY <1>1, MultiplierByThreshold
<1>4. PressureMultiplier(n, LogSlots) = IF n < Half(capacity) THEN 1 ELSE 2
  <2>1. PICK g \in Nat, h \in Nat, t \in Nat, u \in Nat :
           /\ g = Goal(capacity) /\ h = Half(capacity)
           /\ t = ThreeQuarters(capacity) /\ t >= g
           /\ u = NineTenths(capacity) /\ u >= g
    BY <1>2, GoalType, Zenon
  <2>2. /\ PressureThreshold(5000, capacity) = h
        /\ PressureThreshold(7500, capacity) = t
        /\ PressureThreshold(9000, capacity) = u
    BY <2>1 DEF Half, ThreeQuarters, NineTenths
  <2>3. ~(t <= n) /\ ~(u <= n)
    BY <2>1
  <2>. QED  BY <1>3, <2>1, <2>2, <2>3
<1>5. Above(1, 0) = 1
  BY DEF Above
<1>6. FeePerSlot(n) = StateGrowthFeeBase * PressureMultiplier(n, LogSlots) * 1
  BY <1>5, Zenon DEF FeePerSlot, Burned
<1>. QED
  BY <1>4, <1>6, FeesAssumption

\* The band after the one that begins at b, and what the bands cost together.
Following(bounds, b) == CHOOSE c \in bounds : b < c /\ \A d \in bounds : b < d => c <= d
BandCost(bounds, b) == BandFee(b) * Greater(Following(bounds, b) - Greater(active, b), 0)

LEMMA FollowingIs ==
    ASSUME NEW bounds \in SUBSET Nat, NEW b \in Nat, NEW c \in bounds, b < c,
           \A d \in bounds : b < d => c <= d
    PROVE  Following(bounds, b) = c
<1>1. \A e \in bounds : (b < e /\ \A d \in bounds : b < d => e <= d) => e = c
  OBVIOUS
<1>. QED
  BY <1>1 DEF Following

LEMMA BandsOfMinBurn ==
    ASSUME NEW capacity \in Nat \ {0}
    PROVE  LET goal   == Goal(capacity)
               bounds == {0} \cup {goal} \cup
                         (IF Half(capacity) < goal THEN {Half(capacity)} ELSE {})
           IN  MinBurn(capacity)
                 = SumFunction([b \in bounds \ {goal} |-> BandCost(bounds, b)])
<1>. DEFINE starts == {0} \cup {PressureThreshold(t[1], capacity) : t \in PressureTiers}
            bounds0 == {b \in starts : b < Goal(capacity)} \cup {Goal(capacity)}
            bounds == {0} \cup {Goal(capacity)} \cup
                         (IF Half(capacity) < Goal(capacity) THEN {Half(capacity)} ELSE {})
<1>1. starts = {0, Half(capacity), ThreeQuarters(capacity), NineTenths(capacity)}
  <2>1. {t[1] : t \in PressureTiers} = {5000, 7500, 9000}
    BY DEF PressureTiers
  <2>2. starts = {0} \cup {PressureThreshold(bps, capacity) : bps \in {t[1] : t \in PressureTiers}}
    OBVIOUS
  <2>. QED  BY <2>1, <2>2 DEF Half, ThreeQuarters, NineTenths
<1>2. bounds0 = bounds
  <2>1. PICK g \in Nat, h \in Nat, t \in Nat, u \in Nat :
           /\ g = Goal(capacity) /\ h = Half(capacity)
           /\ t = ThreeQuarters(capacity) /\ t >= g
           /\ u = NineTenths(capacity) /\ u >= g
    BY GoalType, Zenon
  <2>2. starts = {0, h, t, u}
    BY <1>1, <2>1
  <2>. HIDE DEF starts
  <2>3. bounds0 = {b \in {0, h, t, u} : b < g} \cup {g}
    BY <2>1, <2>2
  <2>4. bounds = {0} \cup {g} \cup (IF h < g THEN {h} ELSE {})
    BY <2>1
  <2>5. \A b : b \in bounds0 <=> b \in bounds
    BY <2>1, <2>3, <2>4
  <2>. QED  BY <2>5
<1>3. MinBurn(capacity) = SumFunction([b \in bounds0 \ {Goal(capacity)} |-> BandCost(bounds0, b)])
  BY DEF MinBurn, BandCost, Following, Goal
<1>. QED
  BY <1>2, <1>3, Zenon

\* The bands: up to half at the base, from there to the expansion at twice of it.
LEMMA MinBurnIs ==
    ASSUME SizesInv, active \in Nat, NEW capacity, capacity = Capacity[LogSlots]
    PROVE  LET goal == Goal(capacity)
               half == Lesser(Half(capacity), goal)
           IN  MinBurn(capacity)
                 = StateGrowthFeeBase * Greater(half - active, 0)
                     + (2 * StateGrowthFeeBase) * Greater(goal - Greater(active, half), 0)
<1>1. capacity \in Nat \ {0}
  <2>1. LogSlots \in Nat
    BY EmissionAssumption DEF SizesInv, LogSlots, tip
  <2>. QED  BY <2>1, CapacityIsPositive
<1>2. PICK g \in Nat, h \in Nat \ {0} : g = Goal(capacity) /\ h = Half(capacity)
  BY <1>1, GoalType, Zenon
<1>3. PICK p \in Nat, q \in Nat : p = StateGrowthFeeBase /\ q = 2 * StateGrowthFeeBase
  BY FeesAssumption
<1>. DEFINE bounds == {0} \cup {g} \cup (IF h < g THEN {h} ELSE {})
            D == bounds \ {g}
            f == [b \in D |-> BandCost(bounds, b)]
            T == Lesser(h, g)
<1>4. MinBurn(capacity) = SumFunctionOnSet(f, D)
  <2>1. MinBurn(capacity) = SumFunction(f)
    BY <1>1, <1>2, BandsOfMinBurn, Zenon
  <2>2. SumFunction(f) = SumFunctionOnSet(f, D)
    BY Zenon DEF SumFunction
  <2>. QED  BY <2>1, <2>2, Zenon
<1>5. \A n \in Nat : n < g => BandFee(n) = IF n < h THEN p ELSE q
  BY <1>2, <1>3, TwoPrices DEF BandFee
<1>6. p * 0 = 0 /\ q * 0 = 0
  OBVIOUS
<1>7. SUFFICES SumFunctionOnSet(f, D)
                 = p * Greater(T - active, 0) + q * Greater(g - Greater(active, T), 0)
  BY <1>2, <1>3, <1>4, Zenon
<1>8. CASE g = 0
  <2>1. D = {} /\ T = 0
    BY <1>8 DEF Lesser
  <2>2. SumFunctionOnSet(f, D) = 0
    BY <2>1, SumOfNone, Zenon
  <2>3. Greater(T - active, 0) = 0 /\ Greater(g - Greater(active, T), 0) = 0
    BY <1>8, <2>1 DEF Greater
  <2>4. p * Greater(T - active, 0) + q * Greater(g - Greater(active, T), 0) = 0 + 0
    BY <1>6, <2>3, Zenon
  <2>. QED  BY <2>2, <2>4
<1>9. CASE g > 0 /\ ~(h < g)
  <2>1. D = {0} /\ T = g /\ bounds = {0, g}
    BY <1>9 DEF Lesser
  <2>2. Following(bounds, 0) = g
    BY <1>9, <2>1, FollowingIs
  <2>3. BandFee(0) = p
    BY <1>5, <1>9
  <2>4. f[0] = p * Greater(g - Greater(active, 0), 0)
    <3>1. f[0] = BandCost(bounds, 0)
      BY <2>1
    <3>. QED  BY <2>2, <2>3, <3>1, Zenon DEF BandCost
  <2>5. Greater(active, 0) = active
    BY DEF Greater
  <2>6. PICK u \in Nat : u = Greater(g - active, 0)
    <3>1. Greater(g - active, 0) \in Nat
      BY DEF Greater
    <3>. QED  BY <3>1
  <2>7. f[0] = p * u /\ p * u \in Nat
    <3>1. p * u \in Nat
      OBVIOUS
    <3>. QED  BY <2>4, <2>5, <2>6, <3>1, Zenon
  <2>8. SumFunctionOnSet(f, D) = p * u + 0
    <3>1. IsFiniteSet({0}) /\ {0} \ {0} = {}
      BY FS_Singleton
    <3>2. \A y \in {0} : f[y] \in Int
      BY <2>7
    <3>3. SumFunctionOnSet(f, {0}) = f[0] + SumFunctionOnSet(f, {0} \ {0})
      <4>. HIDE DEF f
      <4>. QED  BY <3>1, <3>2, SumWithout
    <3>4. SumFunctionOnSet(f, {}) = 0
      BY SumOfNone
    <3>. QED  BY <2>1, <2>7, <3>1, <3>3, <3>4, Zenon
  <2>9. Greater(g - Greater(active, T), 0) = 0
    BY <2>1 DEF Greater
  <2>. QED  BY <1>6, <2>1, <2>6, <2>8, <2>9, Zenon
<1>10. CASE g > 0 /\ h < g
  <2>1. D = {0, h} /\ T = h /\ bounds = {0, h, g}
    BY <1>10 DEF Lesser
  <2>2. Following(bounds, 0) = h /\ Following(bounds, h) = g
    <3>1. \A d \in bounds : 0 < d => h <= d
      BY <1>10, <2>1
    <3>2. \A d \in bounds : h < d => g <= d
      BY <1>10, <2>1
    <3>3. bounds \in SUBSET Nat /\ h \in bounds /\ g \in bounds /\ 0 < h /\ 0 \in Nat /\ h \in Nat
      BY <2>1
    <3>. HIDE DEF bounds
    <3>4. Following(bounds, 0) = h
      BY <3>1, <3>3, FollowingIs
    <3>5. Following(bounds, h) = g
      BY <1>10, <3>2, <3>3, FollowingIs
    <3>. QED  BY <3>4, <3>5
  <2>3. BandFee(0) = p /\ BandFee(h) = q
    BY <1>5, <1>10
  <2>4. Greater(active, 0) = active
    BY DEF Greater
  <2>5. PICK u \in Nat, v \in Nat :
           u = Greater(h - active, 0) /\ v = Greater(g - Greater(active, h), 0)
    <3>1. Greater(h - active, 0) \in Nat
      BY DEF Greater
    <3>2. Greater(active, h) \in Nat
      BY DEF Greater
    <3>3. Greater(g - Greater(active, h), 0) \in Nat
      BY <3>2 DEF Greater
    <3>. QED  BY <3>1, <3>3
  <2>6. f[0] = p * u /\ f[h] = q * v /\ p * u \in Nat /\ q * v \in Nat
    <3>1. f[0] = BandCost(bounds, 0) /\ f[h] = BandCost(bounds, h)
      BY <2>1
    <3>2. p * u \in Nat /\ q * v \in Nat
      OBVIOUS
    <3>. QED  BY <2>2, <2>3, <2>4, <2>5, <3>1, <3>2, Zenon DEF BandCost
  <2>7. SumFunctionOnSet(f, D) = p * u + (q * v + 0)
    <3>. HIDE DEF f
    <3>1. /\ IsFiniteSet({0, h}) /\ {0, h} \ {0} = {h}
          /\ IsFiniteSet({h}) /\ {h} \ {h} = {}
      <4>1. IsFiniteSet({h}) /\ IsFiniteSet({h} \cup {0})
        BY FS_Singleton, FS_AddElement
      <4>2. {h} \cup {0} = {0, h} /\ {0, h} \ {0} = {h} /\ {h} \ {h} = {}
        OBVIOUS
      <4>. QED  BY <4>1, <4>2, Zenon
    <3>2. \A y \in {0, h} : f[y] \in Int
      BY <2>6
    <3>3. SumFunctionOnSet(f, {0, h}) = f[0] + SumFunctionOnSet(f, {0, h} \ {0})
      BY <3>1, <3>2, SumWithout
    <3>4. SumFunctionOnSet(f, {h}) = f[h] + SumFunctionOnSet(f, {h} \ {h})
      BY <3>1, <3>2, SumWithout
    <3>5. SumFunctionOnSet(f, {}) = 0
      BY SumOfNone
    <3>. QED  BY <2>1, <2>6, <3>1, <3>3, <3>4, <3>5, Zenon
  <2>8. p * u + (q * v + 0) = p * u + q * v
    BY <2>6
  <2>. QED  BY <2>1, <2>5, <2>7, <2>8, Zenon
<1>. QED
  BY <1>8, <1>9, <1>10

-----------------------------------------------------------------------------

OccupiedInv == SizesInv /\ active \in Nat

LEMMA OccupiedInit == Init => OccupiedInv
BY DEF Init, OccupiedInv, SizesInv

LEMMA OccupiedStep == OccupiedInv /\ [Next]_vars => OccupiedInv'
<1>. SUFFICES ASSUME OccupiedInv, [Next]_vars PROVE OccupiedInv'
  OBVIOUS
<1>1. SizesInv'
  BY ChainGrows DEF OccupiedInv
<1>2. CASE NodeMines
  <2>1. PICK logSlots \in {LogSlots, LogSlots + 1}, newActive \in ActiveCounts,
             tx \in Transactions \cup {NoTransaction} : Block(logSlots, newActive, tx)
    BY <1>2 DEF NodeMines
  <2>2. active' = newActive
    BY <2>1 DEF Block
  <2>3. newActive \in Nat
    BY <2>1, SupplyAssumption
  <2>. QED  BY <1>1, <2>2, <2>3 DEF OccupiedInv
<1>3. CASE UNCHANGED node
  BY <1>1, <1>3 DEF OccupiedInv, node
<1>. QED
  BY <1>2, <1>3, ChainGrows DEF OccupiedInv

LEMMA PressureFollows == OccupiedInv => PressureIsExact
<1>. SUFFICES ASSUME OccupiedInv PROVE PressureIsExact
  OBVIOUS
<1>1. SizesInv /\ active \in Nat
  BY DEF OccupiedInv
<1>2. LogSlots \in Nat
  BY <1>1, EmissionAssumption DEF SizesInv, LogSlots, tip
<1>3. PICK capacity \in Nat \ {0} : capacity = Capacity[LogSlots]
  BY <1>2, CapacityIsPositive
<1>4. ASSUME NEW t \in PressureTiers, NEW n \in 0..capacity
      PROVE  PressureThreshold(t[1], capacity) <= n <=> PressureMultiplier(n, LogSlots) >= t[2]
  <2>1. PressureMultiplier(n, LogSlots) =
          IF PressureThreshold(9000, capacity) <= n THEN 8
          ELSE IF PressureThreshold(7500, capacity) <= n THEN 4
          ELSE IF PressureThreshold(5000, capacity) <= n THEN 2 ELSE 1
    BY <1>2, <1>3, MultiplierByThreshold
  <2>2. /\ PressureThreshold(9000, capacity) <= n => PressureThreshold(7500, capacity) <= n
        /\ PressureThreshold(7500, capacity) <= n => PressureThreshold(5000, capacity) <= n
    BY ThresholdsRise
  <2>3. t \in {<<5000, 2>>, <<7500, 4>>, <<9000, 8>>}
    BY DEF PressureTiers
  <2>4. CASE t = <<5000, 2>>
    <3>1. t[1] = 5000 /\ t[2] = 2
      BY <2>4
    <3>. QED  BY <2>1, <2>2, <3>1
  <2>5. CASE t = <<7500, 4>>
    <3>1. t[1] = 7500 /\ t[2] = 4
      BY <2>5
    <3>. QED  BY <2>1, <2>2, <3>1
  <2>6. CASE t = <<9000, 8>>
    <3>1. t[1] = 9000 /\ t[2] = 8
      BY <2>6
    <3>. QED  BY <2>1, <2>2, <3>1
  <2>. QED  BY <2>3, <2>4, <2>5, <2>6
<1>. DEFINE g == Goal(capacity)
            T == Lesser(Half(capacity), g)
            p == StateGrowthFeeBase
            missing == active..(g - 1)
            fees == [n \in missing |-> FeePerSlot(n)]
<1>5. MinBurn(capacity) = p * Greater(T - active, 0) + (2 * p) * Greater(g - Greater(active, T), 0)
  BY <1>1, <1>3, MinBurnIs
<1>6. SumFunction(fees) = p * Greater(T - active, 0) + (2 * p) * Greater(g - Greater(active, T), 0)
  <2>1. g \in Nat /\ Half(capacity) \in Nat /\ T \in Nat /\ T <= g
    BY GoalType DEF Lesser
  <2>2. PICK q \in Nat : p \in Nat /\ q = 2 * p
    BY FeesAssumption
  <2>. DEFINE price == [n \in 0..(g - 1) |-> FeePerSlot(n)]
  <2>3. ChangesOnce(price, T, g, p, q)
    <3>. SUFFICES ASSUME NEW n \in 0..(g - 1)
                  PROVE  price[n] = IF n < T THEN p ELSE q
      BY DEF ChangesOnce
    <3>1. n \in Nat /\ n < g
      BY <2>1
    <3>2. FeePerSlot(n) = IF n < Half(capacity) THEN p ELSE 2 * p
      BY <1>1, <1>3, <3>1, TwoPrices
    <3>3. n < T <=> n < Half(capacity)
      BY <2>1, <3>1 DEF Lesser
    <3>. QED  BY <2>2, <3>2, <3>3
  <2>4. \A n \in missing : fees[n] = price[n]
    BY <1>1, <2>1
  <2>5. IsFiniteSet(missing)
    BY <1>1, <2>1, FS_Interval
  <2>6. SumFunction(fees) = SumFunctionOnSet(fees, missing)
    BY Zenon DEF SumFunction
  <2>. HIDE DEF price, fees, T, p, g
  <2>7. SumFunctionOnSet(fees, missing) = SumFunctionOnSet(price, missing)
    BY <2>4, <2>5, SumOfSame
  <2>8. SumFunctionOnSet(price, active..(g - 1))
          = p * Greater(T - active, 0) + q * Greater(g - Greater(active, T), 0)
    <3>1. T \in Nat /\ g \in Nat /\ T <= g /\ p \in Nat
      BY <2>1, <2>2
    <3>2. \A a \in Nat : SumFunctionOnSet(price, a..(g - 1))
                            = p * Greater(T - a, 0) + q * Greater(g - Greater(a, T), 0)
      BY <2>3, <3>1, SumOfTwoPrices
    <3>. QED  BY <1>1, <3>2, Zenon
  <2>. QED  BY <2>2, <2>6, <2>7, <2>8, Zenon
<1>7. MinBurn(capacity) = SumFunction(fees)
  BY <1>5, <1>6, Zenon
<1>8. PressureIsExact <=>
        /\ \A t \in PressureTiers, n \in 0..capacity :
              PressureThreshold(t[1], capacity) <= n <=> PressureMultiplier(n, LogSlots) >= t[2]
        /\ MinBurn(capacity) = SumFunction(fees)
  BY <1>3, Zenon DEF PressureIsExact, Goal
<1>. QED
  BY <1>4, <1>7, <1>8, Zenon

\* The thresholds shown are where the multiplier changes, and the least burn to the next
\* expansion (min_burn_bands) is what creating the missing slots one by one would burn.
THEOREM PressureIsExactHolds == Spec => []PressureIsExact
<1>1. Init => OccupiedInv
  BY OccupiedInit
<1>2. OccupiedInv /\ [Next]_vars => OccupiedInv'
  BY OccupiedStep
<1>3. OccupiedInv => PressureIsExact
  BY PressureFollows
<1>. QED
  BY <1>1, <1>2, <1>3, PTL DEF Spec

-----------------------------------------------------------------------------
(* Types.                                                                  *)

LEMMA RewardIsNat ==
    ASSUME NEW h \in Nat \ {0}, NEW logSlots \in Nat, logSlots >= LogSlotsGenesis
    PROVE  BlockRewardAt(h, logSlots) \in Nat
<1>1. CASE V2Active(h)
  <2>1. h \in Nat /\ h >= Activation
    BY <1>1 DEF V2Active
  <2>2. h - Activation \in Nat /\ Interval \in Nat \ {0}
    BY <2>1, EmissionAssumption
  <2>3. PICK q \in Nat : q = (h - Activation) \div Interval
    BY <2>2, DivMod
  <2>4. Tier(h) \in 1..Len(Rewards)
    BY <2>3, TiersType DEF Tier, Lesser
  <2>5. Rewards[Tier(h)] \in Nat
    BY <2>4, TiersType
  <2>. QED  BY <1>1, <2>5, Zenon DEF BlockRewardAt
<1>2. CASE ~V2Active(h)
  BY <1>2, BlockRewardIsNat, Zenon DEF BlockRewardAt
<1>. QED
  BY <1>1, <1>2

\* No subsidy is smaller than the shares taken of it.
LEMMA AmountsAreNat ==
    ASSUME NEW h \in Nat \ {0}, NEW logSlots \in Nat, logSlots >= LogSlotsGenesis
    PROVE  /\ MinerSubsidy(h, logSlots) \in Nat /\ Payout(h, logSlots) \in Nat
           /\ Withheld(h, logSlots) \in Nat
<1>1. PICK R \in Nat, d \in Nat \ {0, 1} : R = BlockRewardAt(h, logSlots) /\ d = ShareDenominator
  BY RewardIsNat, EmissionAssumption
<1>2. PICK s \in Nat, r \in 0..(d - 1) : s = R \div d /\ r = R % d /\ R = d * s + r
  BY <1>1, DivMod
<1>3. ShareEach(h, logSlots) = s
  BY <1>1, <1>2, Zenon DEF ShareEach
<1>4. 2 * s <= R
  <2>1. 2 * s <= d * s /\ 2 * s \in Nat /\ d * s \in Nat
    <3>1. 2 <= d /\ 2 \in Nat /\ d \in Nat
      BY <1>1
    <3>. QED  BY <1>2, <3>1, ProductOrder
  <2>2. PICK m \in Nat, n \in Nat : m = 2 * s /\ n = d * s /\ m <= n
    BY <2>1
  <2>3. R = n + r
    BY <1>2, <2>2, Zenon
  <2>4. r \in Nat
    BY <1>1, <1>2
  <2>. QED  BY <2>2, <2>3, <2>4
<1>5. Withheld(h, logSlots) \in Nat /\ Withheld(h, logSlots) <= R
  <2>1. Withheld(h, logSlots) = IF DevActive(h) THEN 2 * s ELSE 0
    BY <1>3, Zenon DEF Withheld
  <2>2. 2 * s \in Nat
    BY <1>2
  <2>. QED  BY <1>1, <1>4, <2>1, <2>2
<1>6. MinerSubsidy(h, logSlots) \in Nat
  <2>1. MinerSubsidy(h, logSlots) = R - Withheld(h, logSlots)
    BY <1>1, Zenon DEF MinerSubsidy
  <2>. QED  BY <1>1, <1>5, <2>1
<1>7. PICK days \in Nat : days = PayoutDays(h)
  <2>1. LegacyDay \in Nat /\ V2Day \in Nat
    BY EmissionAssumption
  <2>2. CASE h >= Activation
    <3>1. h - LastLegacy \in Nat
      BY <2>2, ScheduleConstants
    <3>2. (h - LastLegacy) % V2Day \in Nat
      BY <3>1, DivMod, ScheduleConstants
    <3>3. V2Active(h)
      BY <2>2 DEF V2Active
    <3>. QED  BY <2>1, <3>2, <3>3 DEF PayoutDays
  <2>3. CASE ~(h >= Activation)
    <3>1. ~V2Active(h)
      BY <2>3 DEF V2Active
    <3>. QED  BY <2>1, <3>1 DEF PayoutDays
  <2>. QED  BY <2>2, <2>3
<1>8. Payout(h, logSlots) \in Nat
  <2>1. 2 * s * days \in Nat
    BY <1>2, <1>7
  <2>. QED  BY <1>3, <1>7, <2>1, Zenon DEF Payout
<1>. QED
  BY <1>5, <1>6, <1>8

TypesInv == STypeOK /\ GrowsInv

\* A transaction takes its fee from what circulates.
LEMMA FundedBlock ==
    ASSUME NEW logSlots, NEW newActive,
           NEW tx \in Transactions \cup {NoTransaction}, Block(logSlots, newActive, tx),
           tx # NoTransaction =>
               RequiredTotal(tx.inputs, tx.outputs, active, LogSlots) + tx.tip <= circulating,
           circulating \in Nat
    PROVE  \E fee, claim, burn \in Nat :
              /\ fee <= circulating
              /\ circulating' = circulating + MinerSubsidy(tip + 1, logSlots)
                                  + Payout(tip + 1, logSlots) - fee + claim
              /\ burned' = burned + burn
              /\ records' = IF tip + 1 < FirstRecorded THEN records
                            ELSE Append(records, [ fees   |-> fee,
                                                   reward |-> MinerSubsidy(tip + 1, logSlots) + claim,
                                                   burned |-> burned' ])
<1>1. CASE tx = NoTransaction
  <2>1. 0 \in Nat /\ 0 <= circulating
    OBVIOUS
  <2>. QED  BY <1>1, <2>1, Zenon DEF Block
<1>2. CASE tx # NoTransaction
  <2>1. tx \in Transactions
    BY <1>2
  <2>2. PICK fee \in Nat, claim \in Nat, burn \in Nat :
           /\ fee = RequiredTotal(tx.inputs, tx.outputs, active, LogSlots) + tx.tip
           /\ burn = Burned(tx.inputs, tx.outputs, active, LogSlots)
           /\ claim = ToMiner(fee, tx.inputs, tx.outputs, active, LogSlots)
           /\ claim = fee - burn
    BY <2>1, ClaimIsTheRest
  <2>3. /\ fee <= circulating
        /\ circulating' = circulating + MinerSubsidy(tip + 1, logSlots)
                            + Payout(tip + 1, logSlots) - fee + claim
        /\ burned' = burned + burn
        /\ records' = IF tip + 1 < FirstRecorded THEN records
                      ELSE Append(records, [ fees   |-> fee,
                                             reward |-> MinerSubsidy(tip + 1, logSlots) + claim,
                                             burned |-> burned' ])
    BY <1>2, <2>2, Zenon DEF Block
  <2>. QED  BY <2>2, <2>3
<1>. QED
  BY <1>1, <1>2

LEMMA LongerSeq ==
    ASSUME NEW m \in Nat, NEW n \in Nat, m <= n, NEW s \in Seq(1..m)
    PROVE  s \in Seq(1..n)
OBVIOUS

LEMMA SupplyTypesInit == Init => TypesInv
<1>. SUFFICES ASSUME Init PROVE TypesInv
  OBVIOUS
<1>1. GrowsInv
  BY DEF Init, GrowsInv, SizesInv, tip
<1>2. STypeOK
  BY DEF Init, STypeOK
<1>. QED
  BY <1>1, <1>2 DEF TypesInv

LEMMA SupplyTypesBlock ==
    ASSUME TypesInv, NEW logSlots \in {LogSlots, LogSlots + 1}, NEW newActive \in ActiveCounts,
           NEW tx \in Transactions \cup {NoTransaction}, Block(logSlots, newActive, tx),
           tx # NoTransaction =>
               RequiredTotal(tx.inputs, tx.outputs, active, LogSlots) + tx.tip <= circulating
    PROVE  TypesInv'
<1>1. GrowsInv /\ STypeOK
  BY DEF TypesInv
<1>2. /\ slots' = Append(slots, logSlots) /\ active' = newActive /\ cache' = cache
      /\ clock' = clock + BlockTimeAt(tip + 1)
  BY DEF Block
<1>3. PICK h \in Nat : h = tip
  BY <1>1, LastIsLargest
<1>4. logSlots \in Nat /\ logSlots >= LogSlotsGenesis
  BY <1>1, LastIsLargest
<1>5. PICK m \in Nat, p \in Nat, k \in Nat :
         m = MinerSubsidy(h + 1, logSlots) /\ p = Payout(h + 1, logSlots)
         /\ k = Withheld(h + 1, logSlots)
  <2>1. h + 1 \in Nat \ {0}
    OBVIOUS
  <2>. QED  BY <1>4, <2>1, AmountsAreNat
<1>6. GrowsInv' /\ tip' = h + 1
  BY <1>1, <1>2, <1>3, GrowsBlock
<1>7. slots' \in Seq(Nat)
  BY <1>6 DEF GrowsInv, SizesInv
<1>8. active' \in Nat
  <2>1. newActive \in Nat
    BY SupplyAssumption
  <2>. QED  BY <1>2, <2>1
<1>9. clock' \in Nat
  <2>1. BlockTimeAt(tip + 1) \in Nat
    BY EmissionAssumption DEF BlockTimeAt
  <2>. QED  BY <1>1, <1>2, <2>1 DEF STypeOK
<1>10. minted' \in [miner : Nat, development : Nat]
  <2>1. minted' = [miner |-> minted.miner + m, development |-> minted.development + p]
    BY <1>3, <1>5, Zenon DEF Block
  <2>2. minted.miner \in Nat /\ minted.development \in Nat
    BY <1>1 DEF STypeOK
  <2>. QED  BY <2>1, <2>2
<1>11. unpaid' \in Int
  <2>1. unpaid' = IF V2Active(h + 1) THEN unpaid + k - p ELSE 0
    BY <1>3, <1>5, Zenon DEF Block
  <2>2. unpaid \in Int
    BY <1>1 DEF STypeOK
  <2>. QED  BY <2>1, <2>2
<1>12. PICK fee \in Nat, claim \in Nat, burn \in Nat :
          /\ fee <= circulating
          /\ circulating' = circulating + m + p - fee + claim
          /\ burned' = burned + burn
          /\ records' = IF h + 1 < FirstRecorded THEN records
                        ELSE Append(records, [ fees |-> fee, reward |-> m + claim, burned |-> burned' ])
  <2>1. circulating \in Nat
    BY <1>1 DEF STypeOK
  <2>2. PICK fee \in Nat, claim \in Nat, burn \in Nat :
              /\ fee <= circulating
              /\ circulating' = circulating + MinerSubsidy(tip + 1, logSlots)
                                  + Payout(tip + 1, logSlots) - fee + claim
              /\ burned' = burned + burn
              /\ records' = IF tip + 1 < FirstRecorded THEN records
                            ELSE Append(records, [ fees   |-> fee,
                                                   reward |-> MinerSubsidy(tip + 1, logSlots) + claim,
                                                   burned |-> burned' ])
    BY <2>1, FundedBlock
  <2>. QED  BY <1>3, <1>5, <2>2, Zenon
<1>13. circulating' \in Nat /\ burned' \in Nat
  <2>1. circulating \in Nat /\ burned \in Nat
    BY <1>1 DEF STypeOK
  <2>. QED  BY <1>12, <2>1
<1>14. records' \in Seq([fees : Nat, reward : Nat, burned : Nat])
  <2>1. records \in Seq([fees : Nat, reward : Nat, burned : Nat])
    BY <1>1 DEF STypeOK
  <2>2. [fees |-> fee, reward |-> m + claim, burned |-> burned']
           \in [fees : Nat, reward : Nat, burned : Nat]
    BY <1>13
  <2>3. CASE h + 1 < FirstRecorded
    BY <1>12, <2>1, <2>3, Zenon
  <2>4. CASE ~(h + 1 < FirstRecorded)
    <3>1. records' = Append(records, [fees |-> fee, reward |-> m + claim, burned |-> burned'])
      BY <1>12, <2>4, Zenon
    <3>2. \A x \in [fees : Nat, reward : Nat, burned : Nat] :
             Append(records, x) \in Seq([fees : Nat, reward : Nat, burned : Nat])
      BY <2>1
    <3>. QED  BY <2>2, <3>1, <3>2, Zenon
  <2>. QED  BY <2>3, <2>4
<1>15. alloc' \in Nat /\ created' \in Nat
  <2>1. tx.outputs \in Nat
    BY SupplyAssumption DEF NoTransaction
  <2>2. alloc \in Nat /\ created \in Nat
    BY <1>1 DEF STypeOK
  <2>3. alloc' = alloc + 1 + (IF PayoutDue(h + 1) THEN 2 ELSE 0) + tx.outputs
        /\ created' = created + tx.outputs
    BY <1>3, Zenon DEF Block
  <2>. QED  BY <2>1, <2>2, <2>3
<1>16. cache' = NoAnswer \/ (cache'.cachedFor \in Nat /\ cache'.heights \in Seq(1..tip'))
  <2>1. cache = NoAnswer \/ (cache.cachedFor \in Nat /\ cache.heights \in Seq(1..h))
    BY <1>1, <1>3 DEF STypeOK
  <2>2. \A s \in Seq(1..h) : s \in Seq(1..(h + 1))
    <3>1. h + 1 \in Nat /\ h <= h + 1
      OBVIOUS
    <3>. QED  BY <3>1, LongerSeq
  <2>. QED  BY <1>2, <1>6, <2>1, <2>2, Zenon
<1>. QED
  BY <1>6, <1>7, <1>8, <1>9, <1>10, <1>11, <1>13, <1>14, <1>15, <1>16 DEF TypesInv, STypeOK

LEMMA SupplyTypesStep == TypesInv /\ [Next]_vars => TypesInv'
<1>. SUFFICES ASSUME TypesInv, [Next]_vars PROVE TypesInv'
  OBVIOUS
<1>1. CASE NodeMines
  BY <1>1, SupplyTypesBlock DEF NodeMines
<1>2. CASE Ask
  <2>1. /\ UNCHANGED node /\ cache' = [cachedFor |-> LogSlots, heights |-> ExpansionHeights]
    BY <1>2 DEF Ask
  <2>2. LogSlots \in Nat /\ GrowsInv /\ GrowsInv'
    <3>1. slots' = slots
      BY <2>1 DEF node
    <3>. QED  BY <3>1, LastIsLargest, ExpansionsStay DEF TypesInv
  <2>3. SearchExpansions \in Seq(1..tip)
    BY <2>2, SearchIsRight DEF ExpansionsAre
  <2>4. ExpansionHeights \in Seq(1..tip)
    BY <2>3 DEF ExpansionHeights, TypesInv, STypeOK
  <2>5. cache'.cachedFor \in Nat /\ cache'.heights \in Seq(1..tip')
    BY <2>1, <2>2, <2>4 DEF node, tip
  <2>. QED  BY <2>1, <2>2, <2>5 DEF TypesInv, STypeOK, node
<1>3. CASE UNCHANGED vars
  <2>1. GrowsInv'
    BY <1>3, ExpansionsStay DEF TypesInv, vars, node
  <2>. QED  BY <1>3, <2>1 DEF TypesInv, STypeOK, vars, node, tip
<1>. QED
  BY <1>1, <1>2, <1>3 DEF Next

\* Amounts stay amounts: no block mints less than nothing, fees are paid out of what
\* circulates, and the heights the API keeps are heights of the chain.
THEOREM SupplyTypeCorrect == Spec => []STypeOK
<1>1. TypesInv => STypeOK
  BY DEF TypesInv
<1>. QED
  BY <1>1, SupplyTypesInit, SupplyTypesStep, PTL DEF Spec

\* The binary searches of expansion_heights, each begun where the one before it ended, find
\* for every size the chain reached the first block of at least this size.
THEOREM ExpansionSearchIsRight == Spec => []ExpansionsAre(SearchExpansions)
<1>1. TypesInv => ExpansionsAre(SearchExpansions)
  BY SearchIsRight DEF TypesInv
<1>. QED
  BY <1>1, SupplyTypesInit, SupplyTypesStep, PTL DEF Spec
===============================================================================
