----------------------------- MODULE ChainProofs -----------------------------
(***************************************************************************)
(* What the levels of the compressor promise: the lengths they keep bound  *)
(* the chains of their heads, so that no group it compresses is further    *)
(* from the root of its chain than the sizes of the levels add up to,      *)
(* whichever bases get_delta falls back to.                                *)
(*                                                                         *)
(* The argument is one about sums: placing a group on a level lets the     *)
(* chain of the level grow by one, and nothing below it changes.           *)
(***************************************************************************)
EXTENDS CompressorProofs

-----------------------------------------------------------------------------
\* The sums of the lengths, or of the sizes, are defined.
LEMMA ReachExists ==
  ASSUME NEW ns \in Seq(Nat)
  PROVE  \E f : f = [i \in 1 .. Len(ns) + 1 |->
                       IF i > Len(ns) THEN 1 ELSE ns[i] + f[i + 1]]
<1> DEFINE L == Len(ns)
           From(n) == {i \in 1 .. L + 1 : i + n > L + 1}
           Step(f, i) == IF i > L THEN 1 ELSE ns[i] + f[i + 1]
           Sol(n) == \E f : f = [i \in From(n) |-> Step(f, i)]
           Bad == {n \in Nat : ~ Sol(n)}
<1>1. L \in Nat
  OBVIOUS
<1>2. Bad = {}
  <2>1. SUFFICES ASSUME Bad # {} PROVE FALSE
    OBVIOUS
  <2>2. PICK n \in Bad : \A m \in Bad : n =< m
    <3>1. Bad \in SUBSET Nat /\ Bad # {}
      BY <2>1
    <3> HIDE DEF Bad
    <3>2. QED BY <3>1, MinNat
  <2>3. n # 0
    <3>1. From(0) = {}
      BY <1>1
    <3>2. ASSUME NEW f, f = [i \in {} |-> 0] PROVE f = [i \in From(0) |-> Step(f, i)]
      BY <3>1, <3>2
    <3>3. Sol(0)
      BY <3>2
    <3>4. QED BY <3>3
  <2>4. n \in Nat /\ n - 1 \in Nat /\ n - 1 < n
    BY <2>3
  <2>5. Sol(n - 1)
    <3>1. n - 1 \notin Bad
      <4> HIDE DEF Bad
      <4> QED BY <2>2, <2>4
    <3> HIDE DEF Sol
    <3>2. QED BY <3>1, <2>4
  <2>6. PICK f : f = [i \in From(n - 1) |-> Step(f, i)]
    BY <2>5
  <2> HIDE DEF L
  <2> DEFINE h == [i \in From(n) |-> IF i \in From(n - 1) THEN f[i] ELSE Step(f, i)]
  <2>7. \A i \in From(n) : h[i] = Step(h, i)
    <3>1. SUFFICES ASSUME NEW i \in From(n) PROVE h[i] = Step(h, i)
      OBVIOUS
    <3>2. h[i] = Step(f, i)
      BY <2>6
    <3>3. ~ (i > L) => h[i + 1] = f[i + 1]
      <4>1. ASSUME ~ (i > L) PROVE i + 1 \in From(n) /\ i + 1 \in From(n - 1)
        BY <1>1, <2>4, <4>1
      <4> HIDE DEF From
      <4>2. QED BY <4>1
    <3>4. QED BY <3>2, <3>3
  <2>8. h = [i \in From(n) |-> Step(h, i)]
    <3>1. h = [i \in From(n) |-> h[i]]
      OBVIOUS
    <3> HIDE DEF h, Step, From
    <3>2. QED BY <2>7, <3>1
  <2>9. Sol(n)
    <3> HIDE DEF h, Step, From
    <3> QED BY <2>8
  <2>10. QED BY <2>9
<1>3. Sol(L + 1)
  <2>1. L + 1 \in Nat
    BY <1>1
  <2> HIDE DEF Sol, L
  <2>2. QED BY <1>2, <2>1
<1>4. From(L + 1) = 1 .. L + 1
  <2> HIDE DEF L
  <2> QED BY <1>1
<1>5. QED BY <1>3, <1>4

\* A sum is one number more than the next.
LEMMA ReachSolves ==
  ASSUME NEW ns \in Seq(Nat)
  PROVE  \A i \in 1 .. Len(ns) + 1 :
           Reach(ns)[i] = IF i > Len(ns) THEN 1 ELSE ns[i] + Reach(ns)[i + 1]
<1> DEFINE F == CHOOSE f : f = [i \in 1 .. Len(ns) + 1 |->
                       IF i > Len(ns) THEN 1 ELSE ns[i] + f[i + 1]]
<1>1. Reach(ns) = F
  BY DEF Reach
<1>2. F = [i \in 1 .. Len(ns) + 1 |-> IF i > Len(ns) THEN 1 ELSE ns[i] + F[i + 1]]
  BY ReachExists
<1> HIDE DEF F
<1>3. \A i \in 1 .. Len(ns) + 1 : F[i] = IF i > Len(ns) THEN 1 ELSE ns[i] + F[i + 1]
  BY <1>2
<1>4. QED BY <1>1, <1>3

\* The sums are positive.
LEMMA ReachPositive ==
  ASSUME NEW ns \in Seq(Nat)
  PROVE  \A i \in 1 .. Len(ns) + 1 : Reach(ns)[i] \in Nat /\ Reach(ns)[i] >= 1
<1> DEFINE L == Len(ns)
           R(i) == Reach(ns)[i]
           Ok(i) == R(i) \in Nat /\ R(i) >= 1
           Bad == {n \in Nat : n =< L /\ ~ Ok(L + 1 - n)}
<1>1. L \in Nat /\ \A i \in 1 .. L : ns[i] \in Nat
  OBVIOUS
<1>2. \A i \in 1 .. L + 1 : R(i) = IF i > L THEN 1 ELSE ns[i] + R(i + 1)
  BY ReachSolves
<1>3. Bad = {}
  <2> HIDE DEF L, R
  <2>1. SUFFICES ASSUME Bad # {} PROVE FALSE
    OBVIOUS
  <2>2. PICK n \in Bad : \A m \in Bad : n =< m
    <3>1. Bad \in SUBSET Nat /\ Bad # {}
      BY <2>1
    <3> HIDE DEF Bad
    <3>2. QED BY <3>1, MinNat
  <2> DEFINE i == L + 1 - n
  <2>3. n \in Nat /\ n =< L /\ ~ Ok(i)
    BY <2>2
  <2>4. i \in 1 .. L + 1
    BY <1>1, <2>3
  <2>5. n # 0
    <3>1. L + 1 > L
      BY <1>1
    <3>2. ASSUME n = 0 PROVE i = L + 1
      BY <1>1, <3>2
    <3>3. R(L + 1) = 1
      BY <1>1, <1>2, <3>1
    <3>4. QED BY <2>3, <3>2, <3>3
  <2>6. n - 1 \in Nat /\ n - 1 < n /\ n - 1 =< L /\ L + 1 - (n - 1) = i + 1 /\ i \in 1 .. L
    BY <1>1, <2>3, <2>5
  <2>7. Ok(i + 1)
    <3>1. n - 1 \notin Bad
      <4> HIDE DEF Bad, i
      <4> QED BY <2>2, <2>3, <2>6
    <3> HIDE DEF Ok, i
    <3>2. QED BY <2>6, <3>1
  <2>8. R(i) = ns[i] + R(i + 1) /\ ns[i] \in Nat
    <3> HIDE DEF i
    <3>1. ~ (i > L)
      BY <1>1, <2>6
    <3>2. QED BY <1>1, <1>2, <2>4, <2>6, <3>1
  <2>9. Ok(i)
    <3> HIDE DEF i
    <3>1. QED BY <2>7, <2>8
  <2>10. QED BY <2>3, <2>9
<1>4. ASSUME NEW i \in 1 .. L + 1 PROVE Ok(i)
  <2> HIDE DEF L, Ok
  <2>1. L + 1 - i \in Nat /\ L + 1 - i =< L /\ L + 1 - (L + 1 - i) = i
    BY <1>1
  <2>2. L + 1 - i \notin Bad
    BY <1>3
  <2>3. QED BY <2>1, <2>2
<1>5. QED BY <1>4

\* Larger numbers, or more of them, have larger sums.
LEMMA ReachGrows ==
  ASSUME NEW ns \in Seq(Nat), NEW ms \in Seq(Nat), Len(ns) =< Len(ms),
         NEW first \in 1 .. Len(ns) + 1,
         \A j \in 1 .. Len(ns) : j >= first => ns[j] =< ms[j]
  PROVE  Reach(ns)[first] =< Reach(ms)[first]
<1> DEFINE L == Len(ns)
           M == Len(ms)
           R(i) == Reach(ns)[i]
           S(i) == Reach(ms)[i]
           Bad == {n \in Nat : n =< L + 1 - first /\ ~ (R(L + 1 - n) =< S(L + 1 - n))}
<1>1. /\ L \in Nat /\ M \in Nat /\ L =< M
      /\ \A j \in 1 .. L : ns[j] \in Nat
      /\ \A j \in 1 .. M : ms[j] \in Nat
  OBVIOUS
<1>2. /\ \A i \in 1 .. L + 1 : R(i) = IF i > L THEN 1 ELSE ns[i] + R(i + 1)
      /\ \A i \in 1 .. M + 1 : S(i) = IF i > M THEN 1 ELSE ms[i] + S(i + 1)
      /\ \A i \in 1 .. L + 1 : R(i) \in Nat
      /\ \A i \in 1 .. M + 1 : S(i) \in Nat /\ S(i) >= 1
  BY ReachSolves, ReachPositive
<1>3. first \in 1 .. L + 1 /\ \A j \in 1 .. L : j >= first => ns[j] =< ms[j]
  OBVIOUS
<1> HIDE DEF L, M, R, S
<1>4. Bad = {}
  <2>1. SUFFICES ASSUME Bad # {} PROVE FALSE
    OBVIOUS
  <2>2. PICK n \in Bad : \A m \in Bad : n =< m
    <3>1. Bad \in SUBSET Nat /\ Bad # {}
      BY <2>1
    <3> HIDE DEF Bad
    <3>2. QED BY <3>1, MinNat
  <2> DEFINE i == L + 1 - n
  <2>3. n \in Nat /\ n =< L + 1 - first /\ ~ (R(i) =< S(i))
    BY <2>2
  <2>4. i \in 1 .. L + 1 /\ i >= first
    BY <1>1, <1>3, <2>3
  <2>5. n # 0
    <3>1. ASSUME n = 0 PROVE i = L + 1 /\ L + 1 > L
      BY <1>1, <3>1
    <3> HIDE DEF i
    <3>2. ASSUME n = 0 PROVE R(i) = 1 /\ i \in 1 .. M + 1
      BY <1>1, <1>2, <2>4, <3>1, <3>2
    <3>3. QED BY <1>2, <2>3, <3>2
  <2>6. /\ n - 1 \in Nat /\ n - 1 < n /\ n - 1 =< L + 1 - first
        /\ L + 1 - (n - 1) = i + 1 /\ i \in 1 .. L
    BY <1>1, <1>3, <2>3, <2>5
  <2>7. R(i + 1) =< S(i + 1)
    <3>1. n - 1 \notin Bad
      <4> HIDE DEF Bad, i
      <4> QED BY <2>2, <2>3, <2>6
    <3> HIDE DEF i
    <3>2. QED BY <2>6, <3>1
  <2> HIDE DEF i
  <2>8. /\ ~ (i > L) /\ ~ (i > M) /\ i \in 1 .. M /\ i \in 1 .. M + 1
        /\ i + 1 \in 1 .. L + 1 /\ i + 1 \in 1 .. M + 1
    BY <1>1, <2>6
  <2>9. /\ R(i) = ns[i] + R(i + 1) /\ S(i) = ms[i] + S(i + 1)
        /\ ns[i] \in Nat /\ ms[i] \in Nat /\ ns[i] =< ms[i]
        /\ R(i + 1) \in Nat /\ S(i + 1) \in Nat
    BY <1>1, <1>2, <1>3, <2>4, <2>6, <2>8
  <2>10. R(i) =< S(i)
    <3>1. \A a, b, c, d \in Nat : a =< b /\ c =< d => a + c =< b + d
      OBVIOUS
    <3>2. ns[i] + R(i + 1) =< ms[i] + S(i + 1)
      BY <2>7, <2>9, <3>1
    <3>3. QED BY <2>9, <3>2
  <2>11. QED BY <2>3, <2>10
<1>5. L + 1 - first \in Nat /\ L + 1 - (L + 1 - first) = first
  BY <1>1, <1>3
<1>6. L + 1 - first \notin Bad
  BY <1>4
<1>7. R(first) =< S(first)
  BY <1>5, <1>6
<1>8. QED BY <1>7 DEF R, S

\* The sums fall from one position to the next.
LEMMA ReachFalls ==
  ASSUME NEW ns \in Seq(Nat), NEW i \in 1 .. Len(ns) + 1, NEW k \in 1 .. Len(ns) + 1, i =< k
  PROVE  Reach(ns)[i] >= Reach(ns)[k]
<1> DEFINE L == Len(ns)
           R(j) == Reach(ns)[j]
           Bad == {n \in Nat : n + i =< L + 1 /\ ~ (R(i) >= R(n + i))}
<1>1. L \in Nat /\ \A j \in 1 .. L : ns[j] \in Nat
  OBVIOUS
<1>2. /\ \A j \in 1 .. L + 1 : R(j) = IF j > L THEN 1 ELSE ns[j] + R(j + 1)
      /\ \A j \in 1 .. L + 1 : R(j) \in Nat
  BY ReachSolves, ReachPositive
<1>3. i \in 1 .. L + 1 /\ k \in 1 .. L + 1
  OBVIOUS
<1> HIDE DEF L, R
<1>4. Bad = {}
  <2>1. SUFFICES ASSUME Bad # {} PROVE FALSE
    OBVIOUS
  <2>2. PICK n \in Bad : \A m \in Bad : n =< m
    <3>1. Bad \in SUBSET Nat /\ Bad # {}
      BY <2>1
    <3> HIDE DEF Bad
    <3>2. QED BY <3>1, MinNat
  <2>3. n \in Nat /\ n + i =< L + 1 /\ ~ (R(i) >= R(n + i))
    BY <2>2
  <2>4. n # 0
    <3>1. ASSUME n = 0 PROVE n + i = i
      BY <1>3, <3>1
    <3>2. R(i) >= R(i)
      BY <1>2, <1>3
    <3>3. QED BY <2>3, <3>1, <3>2
  <2> DEFINE j == n - 1 + i
  <2>5. n - 1 \in Nat /\ n - 1 < n /\ j \in 1 .. L /\ j + 1 = n + i /\ j =< L + 1
    BY <1>1, <1>3, <2>3, <2>4
  <2>6. R(i) >= R(j)
    <3>1. n - 1 \notin Bad
      <4> HIDE DEF Bad, j
      <4> QED BY <2>2, <2>3, <2>5
    <3>2. QED BY <2>5, <3>1
  <2> HIDE DEF j
  <2>7. /\ R(j) = ns[j] + R(j + 1) /\ ns[j] \in Nat
        /\ R(j) \in Nat /\ R(j + 1) \in Nat /\ R(i) \in Nat
    <3>1. ~ (j > L) /\ j \in 1 .. L + 1 /\ j + 1 \in 1 .. L + 1
      BY <1>1, <2>5
    <3>2. QED BY <1>1, <1>2, <1>3, <2>5, <3>1
  <2>8. R(i) >= R(j + 1)
    BY <2>6, <2>7
  <2>9. QED BY <2>3, <2>5, <2>8
<1>5. k - i \in Nat /\ k - i + i = k /\ k =< L + 1
  BY <1>1, <1>3
<1>6. k - i \notin Bad
  BY <1>4
<1>7. R(i) >= R(k)
  BY <1>5, <1>6
<1>8. QED BY <1>7 DEF R

-----------------------------------------------------------------------------
\* The numbers the sums are over.
Lengths(ls) == [j \in DOMAIN ls |-> Excess(ls[j].len)]
Sizes(ls)   == [j \in DOMAIN ls |-> Excess(ls[j].max)]

LEMMA NumbersType ==
  ASSUME NEW ls \in Seq(Level)
  PROVE  /\ Lengths(ls) \in Seq(Nat) /\ Len(Lengths(ls)) = Len(ls)
         /\ Sizes(ls) \in Seq(Nat) /\ Len(Sizes(ls)) = Len(ls)
         /\ DOMAIN ls = 1 .. Len(ls) /\ Len(ls) \in Nat
<1>1. Len(ls) \in Nat /\ DOMAIN ls = 1 .. Len(ls)
  OBVIOUS
<1>2. ASSUME NEW j \in DOMAIN ls PROVE Excess(ls[j].len) \in Nat /\ Excess(ls[j].max) \in Nat
  <2>1. ls[j] \in Level
    OBVIOUS
  <2>2. ls[j].len \in Nat /\ ls[j].max \in Nat
    BY <2>1 DEF Level
  <2>3. QED BY <2>2 DEF Excess
<1>3. Lengths(ls) \in [1 .. Len(ls) -> Nat] /\ Sizes(ls) \in [1 .. Len(ls) -> Nat]
  BY <1>1, <1>2 DEF Lengths, Sizes
<1> DEFINE a == Lengths(ls)
           b == Sizes(ls)
           n == Len(ls)
<1> HIDE DEF a, b, n
<1>4. ASSUME NEW s \in [1 .. n -> Nat] PROVE s \in Seq(Nat) /\ Len(s) = n
  <2>1. n \in Nat
    BY <1>1 DEF n
  <2>2. QED BY <2>1
<1>5. a \in Seq(Nat) /\ Len(a) = n /\ b \in Seq(Nat) /\ Len(b) = n
  BY <1>3, <1>4 DEF a, b, n
<1>6. QED BY <1>1, <1>5 DEF a, b, n

\* What a length says of a head, and how it compares with the size: a level
\* of size 0 is for ever of length 1, once it has a head.
ChainLevel(level) ==
  /\ level.head = NoGroup <=> level.len = 0
  /\ Excess(level.len) =< Excess(level.max)

ChainLevels(ls) == \A i \in DOMAIN ls : ChainLevel(ls[i])

\* A level keeps to this whatever is placed on it.
LEMMA PlaceChainLevels ==
  ASSUME NEW ls \in Seq(Level), NEW g \in Groups, ChainLevels(ls)
  PROVE  ChainLevels(Place(ls, g))
<1>1. SUFFICES ASSUME NEW i \in DOMAIN ls PROVE ChainLevel(Place(ls, g)[i])
  BY DEF ChainLevels, Place
<1>2. /\ ls[i] \in [max : Nat, len : Nat, head : OptGroup]
      /\ ChainLevel(ls[i])
  <2>1. ls[i] \in Level
    OBVIOUS
  <2>2. QED BY <2>1 DEF Level, ChainLevels
<1>3. CASE Visited(ls, i)
  <2>1. Place(ls, g)[i] = Update(ls[i], g, HasSpace(ls[i]))
    BY <1>3 DEF Place
  <2>2. g # NoGroup
    BY NoGroupAssumption DEF Groups
  <2>3. QED BY <1>2, <2>1, <2>2 DEF Update, HasSpace, ChainLevel, Excess
<1>4. CASE ~ Visited(ls, i)
  BY <1>2, <1>4 DEF Place
<1>5. QED BY <1>3, <1>4

\* Sums from a level on depend on the levels from there on only.
LEMMA SameAllowed ==
  ASSUME NEW ls \in Seq(Level), NEW ms \in Seq(Level), Len(ls) = Len(ms),
         NEW i \in 1 .. Len(ls) + 1,
         \A j \in DOMAIN ls : j >= i => ms[j] = ls[j]
  PROVE  Reach(Lengths(ms))[i] = Reach(Lengths(ls))[i]
<1>1. \A j \in 1 .. Len(ls) : j >= i => Lengths(ms)[j] = Lengths(ls)[j]
  BY NumbersType DEF Lengths
<1>2. /\ Lengths(ls) \in Seq(Nat) /\ Len(Lengths(ls)) = Len(ls)
      /\ Lengths(ms) \in Seq(Nat) /\ Len(Lengths(ms)) = Len(ls)
      /\ Len(ls) \in Nat
  BY NumbersType
<1> DEFINE a == Lengths(ls)
           b == Lengths(ms)
           n == Len(ls)
<1>3. \A j \in 1 .. n : j >= i => b[j] =< a[j] /\ a[j] =< b[j]
  <2>1. \A j \in 1 .. n : a[j] \in Nat
    BY <1>2
  <2>2. QED BY <1>1, <2>1
<1>4. i \in 1 .. n + 1
  OBVIOUS
<1> HIDE DEF a, b, n
<1>5. a \in Seq(Nat) /\ Len(a) = n /\ b \in Seq(Nat) /\ Len(b) = n /\ n \in Nat
  BY <1>2 DEF a, b, n
<1>6. Reach(a)[i] =< Reach(b)[i] /\ Reach(b)[i] =< Reach(a)[i]
  <2>1. /\ i \in 1 .. Len(a) + 1 /\ i \in 1 .. Len(b) + 1
        /\ Len(a) =< Len(b) /\ Len(b) =< Len(a)
    BY <1>4, <1>5
  <2>2. \A j \in 1 .. Len(a) : j >= i => a[j] =< b[j]
    BY <1>3, <1>5
  <2>3. \A j \in 1 .. Len(b) : j >= i => b[j] =< a[j]
    BY <1>3, <1>5
  <2>4. Reach(a)[i] =< Reach(b)[i]
    BY <1>5, <2>1, <2>2, ReachGrows
  <2>5. Reach(b)[i] =< Reach(a)[i]
    BY <1>5, <2>1, <2>3, ReachGrows
  <2>6. QED BY <2>4, <2>5
<1>7. Reach(a)[i] \in Nat /\ Reach(b)[i] \in Nat
  BY <1>4, <1>5, ReachPositive
<1>8. QED BY <1>6, <1>7 DEF a, b

\* Placing a group: the levels it does not reach keep what they allow; those
\* it is the new head of allow one more than the level of the head it should
\* follow from.
LEMMA PlaceAllows ==
  ASSUME NEW ls \in Seq(Level), NEW g \in Groups, ChainLevels(ls)
  PROVE  /\ \A i \in DOMAIN ls : ~ Visited(ls, i) =>
              /\ Place(ls, g)[i] = ls[i]
              /\ AllowedLength(Place(ls, g), i) = AllowedLength(ls, i)
         /\ \A i \in DOMAIN ls : Visited(ls, i) =>
              /\ Place(ls, g)[i].head = g
              /\ Candidate(ls) # NoGroup =>
                   \E k \in DOMAIN ls :
                     /\ ls[k].head = Candidate(ls)
                     /\ AllowedLength(Place(ls, g), i) >= 1 + AllowedLength(ls, k)
<1> DEFINE placed == Place(ls, g)
           n      == Len(ls)
<1>1. /\ placed \in Seq(Level)
      /\ DOMAIN placed = DOMAIN ls
      /\ \A i \in DOMAIN ls :
           placed[i] = IF Visited(ls, i) THEN Update(ls[i], g, HasSpace(ls[i])) ELSE ls[i]
  BY PlaceHeads DEF Place
<1>2. n \in Nat /\ DOMAIN ls = 1 .. n /\ Len(placed) = n
  <2> HIDE DEF placed
  <2>1. n \in Nat /\ DOMAIN ls = 1 .. n
    OBVIOUS
  <2>2. Len(placed) \in Nat /\ DOMAIN placed = 1 .. Len(placed)
    BY <1>1
  <2>3. QED BY <1>1, <2>1, <2>2
<1> HIDE DEF placed
<1>3. ASSUME NEW i \in 1 .. n + 1, \A j \in DOMAIN ls : j >= i => ~ Visited(ls, j)
      PROVE  Reach(Lengths(placed))[i] = Reach(Lengths(ls))[i]
  <2>1. \A j \in DOMAIN ls : j >= i => placed[j] = ls[j]
    BY <1>1, <1>3
  <2>2. QED BY <1>1, <1>2, <2>1, SameAllowed
<1>4. ASSUME NEW i \in DOMAIN ls, NEW j \in DOMAIN ls, i =< j, Visited(ls, j)
      PROVE  Visited(ls, i)
  BY <1>2, <1>4 DEF Visited
<1>5. ASSUME NEW i \in DOMAIN ls, ~ Visited(ls, i)
      PROVE  placed[i] = ls[i] /\ AllowedLength(placed, i) = AllowedLength(ls, i)
  <2>1. \A j \in DOMAIN ls : j >= i => ~ Visited(ls, j)
    BY <1>2, <1>4, <1>5
  <2>2. i \in 1 .. n + 1
    BY <1>2
  <2>3. Reach(Lengths(placed))[i] = Reach(Lengths(ls))[i]
    BY <1>3, <2>1, <2>2
  <2>4. QED BY <1>1, <1>5, <2>3 DEF AllowedLength, Lengths
<1>6. ASSUME NEW i \in DOMAIN ls, Visited(ls, i)
      PROVE  placed[i].head = g
  BY <1>1, <1>6 DEF Update
<1>7. ASSUME NEW i \in DOMAIN ls, Visited(ls, i), Candidate(ls) # NoGroup
      PROVE  \E k \in DOMAIN ls :
               /\ ls[k].head = Candidate(ls)
               /\ AllowedLength(placed, i) >= 1 + AllowedLength(ls, k)
  <2>1. PICK k \in Chosen(ls) : Candidate(ls) = ls[k].head
    BY <1>7 DEF Candidate
  <2>2. k \in DOMAIN ls /\ HasSpace(ls[k]) /\ Visited(ls, k)
    BY <2>1 DEF Chosen
  <2>3. i =< k
    BY <1>2, <1>7, <2>2 DEF Visited
  <2>4. \A j \in DOMAIN ls : j >= k + 1 => ~ Visited(ls, j)
    BY <1>2, <2>2 DEF Visited
  <2>5. k \in 1 .. n /\ k \in 1 .. n + 1 /\ i \in 1 .. n + 1 /\ k + 1 \in 1 .. n + 1 /\ ~ (k > n)
    BY <1>2, <2>2
  <2>6. Reach(Lengths(placed))[k + 1] = Reach(Lengths(ls))[k + 1]
    BY <1>3, <2>4, <2>5
  <2>7. /\ ls[k].len \in Nat /\ ls[k].len >= 1
        /\ placed[k].len = ls[k].len + 1
    <3>1. ls[k] \in Level
      BY <2>2
    <3>2. ls[k].len # 0
      BY <1>7, <2>1, <2>2 DEF ChainLevels, ChainLevel
    <3>3. QED BY <1>1, <2>2, <3>1, <3>2 DEF Level, Update
  <2>8. Lengths(placed)[k] = ls[k].len /\ Lengths(ls)[k] = ls[k].len - 1
    BY <1>1, <2>2, <2>7 DEF Lengths, Excess
  <2>9. /\ Lengths(ls) \in Seq(Nat) /\ Len(Lengths(ls)) = n
        /\ Lengths(placed) \in Seq(Nat) /\ Len(Lengths(placed)) = n
    BY <1>1, <1>2, NumbersType
  <2> DEFINE a == Lengths(ls)
             b == Lengths(placed)
  <2> HIDE DEF a, b, n
  <2>10. a \in Seq(Nat) /\ Len(a) = n /\ b \in Seq(Nat) /\ Len(b) = n
    BY <2>9 DEF a, b
  <2>11. /\ Reach(a)[k] = a[k] + Reach(a)[k + 1]
         /\ Reach(b)[k] = b[k] + Reach(b)[k + 1]
    BY <2>5, <2>10, ReachSolves
  <2>12. Reach(a)[k + 1] \in Nat /\ Reach(b)[k + 1] = Reach(a)[k + 1]
    BY <2>5, <2>6, <2>10, ReachPositive DEF a, b
  <2>13. Reach(b)[k] = 1 + Reach(a)[k]
    BY <2>7, <2>8, <2>11, <2>12 DEF a, b
  <2>14. Reach(b)[i] >= Reach(b)[k]
    BY <2>3, <2>5, <2>10, ReachFalls
  <2>15. Reach(b)[i] >= 1 + Reach(a)[k]
    BY <2>13, <2>14
  <2>16. AllowedLength(placed, i) >= 1 + AllowedLength(ls, k)
    BY <2>15 DEF a, b, AllowedLength, Lengths
  <2>17. QED BY <2>1, <2>2, <2>16
<1>8. QED BY <1>5, <1>6, <1>7 DEF placed

\* What the lengths allow is within what the sizes allow, and placing a group
\* leaves the sizes alone.
LEMMA AllowedWithin ==
  ASSUME NEW ls \in Seq(Level), ChainLevels(ls)
  PROVE  /\ MaxChain(ls) \in Nat /\ MaxChain(ls) >= 1
         /\ \A i \in DOMAIN ls :
              /\ AllowedLength(ls, i) \in Nat /\ AllowedLength(ls, i) >= 1
              /\ AllowedLength(ls, i) =< MaxChain(ls)
<1> DEFINE a == Lengths(ls)
           b == Sizes(ls)
           n == Len(ls)
<1>1. /\ a \in Seq(Nat) /\ Len(a) = n /\ b \in Seq(Nat) /\ Len(b) = n
      /\ n \in Nat /\ DOMAIN ls = 1 .. n
  BY NumbersType
<1>2. \A j \in 1 .. n : a[j] =< b[j]
  BY <1>1 DEF Lengths, Sizes, ChainLevels, ChainLevel
<1>3. /\ MaxChain(ls) = Reach(b)[1]
      /\ \A i \in DOMAIN ls : AllowedLength(ls, i) = Reach(a)[i]
  BY DEF MaxChain, AllowedLength, Lengths, Sizes
<1> HIDE DEF a, b, n
<1>4. 1 \in 1 .. n + 1
  BY <1>1
<1>5. Reach(b)[1] \in Nat /\ Reach(b)[1] >= 1
  BY <1>1, <1>4, ReachPositive
<1>6. ASSUME NEW i \in 1 .. n
      PROVE  Reach(a)[i] \in Nat /\ Reach(a)[i] >= 1 /\ Reach(a)[i] =< Reach(b)[1]
  <2>1. i \in 1 .. n + 1 /\ 1 =< i
    BY <1>1
  <2>2. Reach(a)[i] \in Nat /\ Reach(a)[i] >= 1 /\ Reach(b)[i] \in Nat
    BY <1>1, <2>1, ReachPositive
  <2>3. Reach(a)[i] =< Reach(b)[i]
    <3>1. Len(a) =< Len(b) /\ i \in 1 .. Len(a) + 1
      BY <1>1, <2>1
    <3>2. \A j \in 1 .. Len(a) : j >= i => a[j] =< b[j]
      BY <1>1, <1>2
    <3>3. QED BY <1>1, <3>1, <3>2, ReachGrows
  <2>4. Reach(b)[1] >= Reach(b)[i]
    <3>1. 1 \in 1 .. Len(b) + 1 /\ i \in 1 .. Len(b) + 1
      BY <1>1, <1>4, <2>1
    <3>2. QED BY <1>1, <2>1, <3>1, ReachFalls
  <2>5. QED BY <1>5, <2>2, <2>3, <2>4
<1>7. QED BY <1>1, <1>3, <1>5, <1>6

LEMMA PlaceMaxChain ==
  ASSUME NEW ls \in Seq(Level), NEW g \in Groups
  PROVE  MaxChain(Place(ls, g)) = MaxChain(ls)
<1>1. DOMAIN Place(ls, g) = DOMAIN ls
  BY DEF Place
<1>2. \A i \in DOMAIN ls : Place(ls, g)[i].max = ls[i].max
  BY DEF Place, Update
<1> DEFINE placed == Place(ls, g)
<1> HIDE DEF placed
<1>3. DOMAIN placed = DOMAIN ls /\ \A i \in DOMAIN ls : placed[i].max = ls[i].max
  BY <1>1, <1>2 DEF placed
<1>4. [j \in DOMAIN placed |-> Excess(placed[j].max)] = [j \in DOMAIN ls |-> Excess(ls[j].max)]
  BY <1>3
<1>5. QED BY <1>4 DEF MaxChain, placed

-----------------------------------------------------------------------------
\* Heads the run has not come to yet: the current group, while get_delta looks
\* for its base, or groups the run will copy before all that it compresses.
HeadsToCome ==
  \A i \in DOMAIN levels :
    levels[i].head \in Todo =>
      \/ base # NoGroup /\ levels[i].head = Current
      \/ /\ \A h \in DOMAIN orig : orig[h].in_range => levels[i].head < h
         /\ ChainLength(orig)[levels[i].head] =< AllowedLength(levels, i)

\* The current group would do on any of the bases that get_delta tries.
BaseBound ==
  base # NoGroup =>
    /\ DOMAIN levels # {} /\ levels[1].head = Current
    /\ base \in DOMAIN newMap =>
         \A i \in DOMAIN levels :
           levels[i].head = Current =>
             1 + ChainLength(newMap)[base] =< AllowedLength(levels, i)

ChainInv ==
  /\ ChainLevels(levels)
  /\ LengthsBoundChains
  /\ ChainsBounded
  /\ HeadsToCome
  /\ BaseBound

\* A new row gives its group a chain, and no other chain changes.
LEMMA InsertChains ==
  ASSUME Inv, Todo # {}, NEW entry, RowIsRight(entry)
  PROVE  LET map == Insert(newMap, Current, entry)
         IN  /\ \A g \in DOMAIN newMap : ChainLength(map)[g] = ChainLength(newMap)[g]
             /\ ChainLength(map)[Current] =
                  IF entry.prev = NoGroup THEN 1 ELSE 1 + ChainLength(newMap)[entry.prev]
<1> DEFINE map == Insert(newMap, Current, entry)
<1>1. Current \notin DOMAIN newMap
  BY CurrentLeast DEF Inv, Todo
<1>2. /\ IsGroupMap(map) /\ WellFormed(map)
      /\ DOMAIN map = DOMAIN newMap \cup {Current}
  BY InsertKeeps
<1>3. map[Current] = entry /\ \A g \in DOMAIN newMap : map[g] = newMap[g]
  BY <1>1 DEF Insert
<1>4. IsGroupMap(newMap) /\ WellFormed(newMap)
  BY DEF Inv, TypeOK
<1>5. entry.prev # NoGroup => entry.prev \in DOMAIN newMap
  BY DEF RowIsRight
<1> HIDE DEF map
<1>6. HasRows(map) /\ HasRows(newMap)
  BY <1>2, <1>4, EntriesAreRows
<1>7. \A g \in DOMAIN newMap : ChainLength(map)[g] = ChainLength(newMap)[g]
  <2>1. \A g \in DOMAIN newMap :
          /\ map[g].prev = newMap[g].prev
          /\ newMap[g].prev # NoGroup => newMap[g].prev \in DOMAIN newMap
    BY <1>3, <1>4 DEF WellFormed
  <2>2. DOMAIN newMap \subseteq DOMAIN map
    BY <1>2
  <2>3. QED BY <1>2, <1>4, <1>6, <2>1, <2>2, PartChains
<1>8. ChainLength(map)[Current] =
        IF entry.prev = NoGroup THEN 1 ELSE 1 + ChainLength(map)[entry.prev]
  BY <1>2, <1>3, <1>6, ChainSolves
<1>9. QED BY <1>5, <1>7, <1>8 DEF map

\* A step that stores the current group with a chain that its levels allow.
LEMMA FinishChains ==
  ASSUME Inv, ChainInv, Todo # {}, NEW entry, RowIsRight(entry),
         newMap' = Insert(newMap, Current, entry),
         orig' = orig, base' = NoGroup,
         ChainLevels(levels'), DOMAIN levels' = DOMAIN levels,
         MaxChain(levels') = MaxChain(levels),
         \A i \in DOMAIN levels :
           IF levels'[i].head = Current
           THEN ChainLength(newMap')[Current] =< AllowedLength(levels', i)
           ELSE /\ levels'[i].head = levels[i].head
                /\ AllowedLength(levels', i) = AllowedLength(levels, i),
         entry.in_range => ChainLength(newMap')[Current] =< MaxChain(levels)
  PROVE  ChainInv'
<1>1. /\ DOMAIN newMap' = DOMAIN newMap \cup {Current}
      /\ \A g \in DOMAIN newMap : ChainLength(newMap')[g] = ChainLength(newMap)[g]
  BY InsertKeeps, InsertChains
<1>2. /\ Todo' = Todo \ {Current}
      /\ Current \notin DOMAIN newMap
  BY <1>1, CurrentLeast DEF Todo, Inv
<1>3. newMap'[Current] = entry /\ \A g \in DOMAIN newMap : newMap'[g] = newMap[g]
  BY <1>2 DEF Insert
<1>4. LengthsBoundChains'
  BY <1>1 DEF ChainInv, LengthsBoundChains
<1>5. ChainsBounded'
  BY <1>1, <1>3 DEF ChainInv, ChainsBounded
<1>6. HeadsToCome'
  BY <1>2 DEF ChainInv, HeadsToCome
<1>7. BaseBound'
  BY DEF BaseBound
<1>8. QED BY <1>4, <1>5, <1>6, <1>7 DEF ChainInv

\* The levels the current group is placed on allow its chain, as a full state
\* or as a delta from the candidate.
LEMMA PlaceBounds ==
  ASSUME Inv, ChainInv, InRange,
         NEW prev, prev # NoGroup => prev = Candidate(levels) /\ prev \in DOMAIN newMap,
         NEW length,
         length = IF prev = NoGroup THEN 1 ELSE 1 + ChainLength(newMap)[prev]
  PROVE  LET placed == Place(levels, Current)
         IN  /\ ChainLevels(placed)
             /\ DOMAIN placed = DOMAIN levels
             /\ MaxChain(placed) = MaxChain(levels)
             /\ \A i \in DOMAIN levels :
                  IF placed[i].head = Current
                  THEN length =< AllowedLength(placed, i)
                  ELSE /\ placed[i].head = levels[i].head
                       /\ AllowedLength(placed, i) = AllowedLength(levels, i)
             /\ length =< MaxChain(levels)
<1> DEFINE placed == Place(levels, Current)
<1>1. levels \in Seq(Level) /\ ChainLevels(levels) /\ Current \in Groups
  BY CurrentLeast DEF Inv, TypeOK, ChainInv, InRange, AtGroup
<1>2. /\ placed \in Seq(Level) /\ ChainLevels(placed) /\ DOMAIN placed = DOMAIN levels
      /\ MaxChain(placed) = MaxChain(levels)
  BY <1>1, PlaceHeads, PlaceChainLevels, PlaceMaxChain DEF Place
<1>3. /\ \A i \in DOMAIN levels : ~ Visited(levels, i) =>
           /\ placed[i] = levels[i]
           /\ AllowedLength(placed, i) = AllowedLength(levels, i)
      /\ \A i \in DOMAIN levels : Visited(levels, i) =>
           /\ placed[i].head = Current
           /\ Candidate(levels) # NoGroup =>
                \E k \in DOMAIN levels :
                  /\ levels[k].head = Candidate(levels)
                  /\ AllowedLength(placed, i) >= 1 + AllowedLength(levels, k)
  BY <1>1, PlaceAllows
<1> HIDE DEF placed
<1>4. /\ \A i \in DOMAIN levels :
           /\ AllowedLength(placed, i) \in Nat /\ AllowedLength(placed, i) >= 1
           /\ AllowedLength(placed, i) =< MaxChain(levels)
           /\ AllowedLength(levels, i) \in Nat
      /\ MaxChain(levels) \in Nat /\ MaxChain(levels) >= 1
  BY <1>1, <1>2, AllowedWithin
<1>5. ASSUME NEW g \in DOMAIN newMap PROVE ChainLength(newMap)[g] \in Nat
  BY EntriesAreRows, ChainPositive DEF Inv, TypeOK
<1>6. ASSUME NEW i \in DOMAIN levels, Visited(levels, i)
      PROVE  length =< AllowedLength(placed, i)
  <2>1. CASE prev = NoGroup
    BY <1>4, <2>1
  <2>2. CASE prev # NoGroup
    <3>1. PICK k \in DOMAIN levels :
            /\ levels[k].head = prev
            /\ AllowedLength(placed, i) >= 1 + AllowedLength(levels, k)
      BY <1>3, <1>6, <2>2
    <3>2. ChainLength(newMap)[prev] =< AllowedLength(levels, k)
      BY <2>2, <3>1 DEF ChainInv, LengthsBoundChains
    <3>3. QED BY <1>4, <1>5, <2>2, <3>1, <3>2
  <2>3. QED BY <2>1, <2>2
<1>7. ASSUME NEW i \in DOMAIN levels, ~ Visited(levels, i)
      PROVE  placed[i].head # Current
  <2>1. placed[i].head = levels[i].head
    BY <1>3, <1>7
  <2>2. CASE levels[i].head = NoGroup
    BY <1>1, <2>1, <2>2, NoGroupAssumption DEF Groups
  <2>3. CASE levels[i].head # NoGroup
    <3>1. levels[i].head \in Heads(levels)
      BY <2>3 DEF Heads
    <3>2. levels[i].head < Current
      BY <3>1, CurrentLeast DEF InRange, AtGroup, Inv, HeadsBelow
    <3>3. Current \in Nat
      BY CurrentLeast DEF InRange, AtGroup, Inv
    <3>4. QED BY <2>1, <3>2, <3>3
  <2>4. QED BY <2>2, <2>3
<1>8. length =< MaxChain(levels)
  <2>1. CASE prev = NoGroup
    BY <1>4, <2>1
  <2>2. CASE prev # NoGroup
    <3>1. Chosen(levels) # {}
      BY <2>2 DEF Candidate
    <3>2. DOMAIN levels # {}
      BY <3>1 DEF Chosen
    <3>3. 1 \in DOMAIN levels
      BY <1>1, <3>2, NumbersType
    <3>4. Visited(levels, 1)
      BY DEF Visited
    <3>5. length =< AllowedLength(placed, 1)
      BY <1>6, <3>3, <3>4
    <3>6. length \in Nat
      BY <1>5, <2>2
    <3>7. QED BY <1>4, <3>3, <3>5, <3>6
  <2>3. QED BY <2>1, <2>2
<1>9. \A i \in DOMAIN levels :
        IF placed[i].head = Current
        THEN length =< AllowedLength(placed, i)
        ELSE /\ placed[i].head = levels[i].head
             /\ AllowedLength(placed, i) = AllowedLength(levels, i)
  BY <1>3, <1>6, <1>7
<1>10. QED BY <1>2, <1>8, <1>9 DEF placed

\* A step keeps what the lengths and the sizes promise.
LEMMA NextChains ==
  ASSUME Inv, CopiesKept, ChainInv, Next
  PROVE  ChainInv'
<1> USE DEF AtGroup, InRange, AtBase, Finish
<1>1. ASSUME NEW g \in DOMAIN newMap
      PROVE  ChainLength(newMap)[g] \in Nat /\ ChainLength(newMap)[g] >= 1
  BY EntriesAreRows, ChainPositive DEF Inv, TypeOK
<1>2. /\ MaxChain(levels) \in Nat /\ MaxChain(levels) >= 1
      /\ \A i \in DOMAIN levels : AllowedLength(levels, i) \in Nat /\ AllowedLength(levels, i) >= 1
  BY AllowedWithin DEF ChainInv, Inv, TypeOK
<1>3. ASSUME InRange, NEW entry, RowIsRight(entry), Finish(entry),
             orig' = orig, base' = NoGroup, levels' = Place(levels, Current),
             entry.prev # NoGroup => entry.prev = Candidate(levels)
      PROVE  ChainInv'
  <2>1. entry.prev # NoGroup => entry.prev \in DOMAIN newMap
    BY <1>3 DEF RowIsRight
  <2>2. ChainLength(newMap')[Current] =
          IF entry.prev = NoGroup THEN 1 ELSE 1 + ChainLength(newMap)[entry.prev]
    BY <1>3, InsertChains
  <2> DEFINE length == IF entry.prev = NoGroup THEN 1 ELSE 1 + ChainLength(newMap)[entry.prev]
  <2>3. length = IF entry.prev = NoGroup THEN 1 ELSE 1 + ChainLength(newMap)[entry.prev]
    OBVIOUS
  <2> HIDE DEF length
  <2>4. /\ ChainLevels(levels')
        /\ DOMAIN levels' = DOMAIN levels
        /\ MaxChain(levels') = MaxChain(levels)
        /\ \A i \in DOMAIN levels :
             IF levels'[i].head = Current
             THEN length =< AllowedLength(levels', i)
             ELSE /\ levels'[i].head = levels[i].head
                  /\ AllowedLength(levels', i) = AllowedLength(levels, i)
        /\ length =< MaxChain(levels)
    BY <1>3, <2>1, <2>3, PlaceBounds
  <2>5. QED BY <1>3, <2>2, <2>3, <2>4, FinishChains
<1>4. CASE CopyOutOfRange
  <2>1. RowIsRight(orig[Current]) /\ orig' = orig /\ levels' = levels /\ base' = NoGroup
    BY <1>4, KeptRow DEF CopyOutOfRange
  <2>2. ASSUME NEW i \in DOMAIN levels, levels[i].head = Current
        PROVE  ChainLength(newMap')[Current] =< AllowedLength(levels, i)
    <3>1. Current \in Todo
      BY <1>4, CurrentLeast DEF CopyOutOfRange, Inv
    <3>2. /\ \A h \in DOMAIN orig : orig[h].in_range => Current < h
          /\ ChainLength(orig)[Current] =< AllowedLength(levels, i)
      BY <1>4, <2>2, <3>1 DEF ChainInv, HeadsToCome, CopyOutOfRange
    <3>3. CopiesKept' /\ Inv'
      BY <1>4, NextCopies, NextInv
    <3> DEFINE part == {g \in DOMAIN newMap' : \A h \in DOMAIN orig : orig[h].in_range => g < h}
    <3>4. /\ DOMAIN newMap' \subseteq DOMAIN orig
          /\ IsGroupMap(newMap') /\ WellFormed(newMap')
          /\ IsGroupMap(orig) /\ WellFormed(orig)
      BY <2>1, <3>3 DEF Inv, TypeOK, Prefix
    <3>5. DOMAIN orig \subseteq Nat
      BY <3>4, MaxGroupAssumption DEF IsGroupMap, Groups
    <3>6. \A g \in part : /\ newMap'[g].prev = orig[g].prev
                          /\ orig[g].prev # NoGroup => orig[g].prev \in part
      <4>1. SUFFICES ASSUME NEW g \in part
                     PROVE  /\ newMap'[g].prev = orig[g].prev
                            /\ orig[g].prev # NoGroup => orig[g].prev \in part
        OBVIOUS
      <4>2. ~ orig[g].in_range
        BY <3>4, <3>5
      <4>3. newMap'[g] = orig[g]
        BY <2>1, <3>3, <4>2 DEF CopiesKept
      <4>4. orig[g].prev # NoGroup => orig[g].prev \in DOMAIN newMap' /\ orig[g].prev < g
        BY <3>4, <4>3 DEF WellFormed
      <4>5. QED BY <3>4, <3>5, <4>3, <4>4
    <3>7. Current \in part
      <4>1. DOMAIN newMap' = DOMAIN newMap \cup {Current}
        BY <1>4 DEF CopyOutOfRange, Insert
      <4>2. QED BY <3>2, <4>1
    <3>8. part \subseteq DOMAIN newMap' /\ part \subseteq DOMAIN orig
      BY <3>4
    <3> HIDE DEF part
    <3>9. ChainLength(newMap')[Current] = ChainLength(orig)[Current]
      BY <3>4, <3>6, <3>7, <3>8, EntriesAreRows, PartChains
    <3>10. QED BY <3>2, <3>9
  <2>3. ChainLevels(levels)
    BY DEF ChainInv
  <2>4. QED BY <1>4, <2>1, <2>2, <2>3, FinishChains DEF CopyOutOfRange
<1>5. CASE KeepEntry
  <2>1. RowIsRight(Entry(orig[Current].prev, orig[Current].delta))
    BY <1>5, KeptRow DEF KeepEntry
  <2>2. QED BY <1>3, <1>5, <2>1 DEF KeepEntry, Entry
<1>6. CASE StoreFull
  <2>1. RowIsRight(Entry(NoGroup, Original[Current]))
    BY <1>6, FullRow DEF StoreFull
  <2>2. QED BY <1>3, <1>6, <2>1 DEF StoreFull, Entry
<1>7. CASE StartDelta
  <2> DEFINE prev == Candidate(levels)
  <2>1. prev # NoGroup /\ base' = prev /\ base = NoGroup
    BY <1>7 DEF StartDelta
  <2>2. levels' = Place(levels, Current) /\ orig' = orig /\ newMap' = newMap
    BY <1>7 DEF StartDelta
  <2>3. Todo' = Todo /\ Current' = Current
    BY <2>2 DEF Todo, Current
  <2>4. Current \in Todo
    BY <1>7, CurrentLeast DEF StartDelta, Inv
  <2>5. /\ ChainLevels(levels') /\ DOMAIN levels' = DOMAIN levels
        /\ MaxChain(levels') = MaxChain(levels)
        /\ \A i \in DOMAIN levels :
             levels'[i].head # Current =>
               /\ levels'[i].head = levels[i].head
               /\ AllowedLength(levels', i) = AllowedLength(levels, i)
    <3>1. InRange
      BY <1>7 DEF StartDelta
    <3>2. QED BY <2>2, <3>1, PlaceBounds
  <2>6. prev \in DOMAIN newMap =>
          \A i \in DOMAIN levels :
            levels'[i].head = Current =>
              1 + ChainLength(newMap)[prev] =< AllowedLength(levels', i)
    <3>1. SUFFICES ASSUME prev \in DOMAIN newMap, NEW i \in DOMAIN levels,
                          levels'[i].head = Current
                   PROVE  1 + ChainLength(newMap)[prev] =< AllowedLength(levels', i)
      OBVIOUS
    <3>2. InRange
      BY <1>7 DEF StartDelta
    <3> DEFINE length == 1 + ChainLength(newMap)[prev]
    <3>3. length = IF prev = NoGroup THEN 1 ELSE 1 + ChainLength(newMap)[prev]
      BY <2>1
    <3>4. prev = Candidate(levels)
      OBVIOUS
    <3> HIDE DEF length, prev
    <3>5. \A j \in DOMAIN levels :
            IF levels'[j].head = Current
            THEN length =< AllowedLength(levels', j)
            ELSE /\ levels'[j].head = levels[j].head
                 /\ AllowedLength(levels', j) = AllowedLength(levels, j)
      BY <2>2, <3>1, <3>2, <3>3, <3>4, PlaceBounds
    <3>6. QED BY <3>1, <3>5 DEF length
  <2>7. DOMAIN levels # {} /\ levels'[1].head = Current
    <3>1. Chosen(levels) # {}
      BY <2>1 DEF Candidate
    <3>2. DOMAIN levels # {}
      BY <3>1 DEF Chosen
    <3>3. 1 \in DOMAIN levels
      BY <3>2, NumbersType DEF Inv, TypeOK
    <3>4. Visited(levels, 1)
      BY DEF Visited
    <3>5. QED BY <2>2, <3>2, <3>3, <3>4 DEF Place, Update
  <2> HIDE DEF prev
  <2>8. LengthsBoundChains'
    BY <2>2, <2>4, <2>5 DEF ChainInv, LengthsBoundChains, Todo
  <2>9. ChainsBounded'
    BY <2>2, <2>5 DEF ChainInv, ChainsBounded
  <2>10. HeadsToCome'
    BY <2>1, <2>2, <2>3, <2>5 DEF ChainInv, HeadsToCome
  <2>11. BaseBound'
    BY <2>1, <2>2, <2>3, <2>5, <2>6, <2>7 DEF BaseBound
  <2>12. QED BY <2>5, <2>8, <2>9, <2>10, <2>11 DEF ChainInv
<1>8. ASSUME AtBase, NEW entry, RowIsRight(entry), Finish(entry),
             orig' = orig, base' = NoGroup, levels' = levels,
             entry.prev \in {NoGroup, base}
      PROVE  ChainInv'
  <2>1. Todo # {} /\ (entry.prev # NoGroup => entry.prev \in DOMAIN newMap)
    BY <1>8 DEF Inv, HeadsBelow, RowIsRight
  <2>2. ChainLength(newMap')[Current] =
          IF entry.prev = NoGroup THEN 1 ELSE 1 + ChainLength(newMap)[base]
    BY <1>8, <2>1, InsertChains
  <2>3. ASSUME NEW i \in DOMAIN levels, levels[i].head = Current
        PROVE  ChainLength(newMap')[Current] =< AllowedLength(levels, i)
    BY <1>2, <1>8, <2>1, <2>2, <2>3 DEF ChainInv, BaseBound
  <2>4. ChainLength(newMap')[Current] =< MaxChain(levels)
    <3>1. 1 \in DOMAIN levels /\ levels[1].head = Current
      BY <1>8, NumbersType DEF ChainInv, BaseBound, Inv, TypeOK
    <3>2. ChainLength(newMap')[Current] =< AllowedLength(levels, 1)
      BY <2>3, <3>1
    <3>3. AllowedLength(levels, 1) =< MaxChain(levels)
      BY <3>1, AllowedWithin DEF ChainInv, Inv, TypeOK
    <3>4. ChainLength(newMap')[Current] \in Nat
      BY <1>1, <1>8, <2>1, <2>2
    <3>5. QED BY <1>2, <3>1, <3>2, <3>3, <3>4
  <2>5. ChainLevels(levels)
    BY DEF ChainInv
  <2>6. QED BY <1>8, <2>1, <2>3, <2>4, <2>5, FinishChains
<1>9. CASE UseBase
  <2>1. RowIsRight(Entry(base, DeltaFrom(Original[base], Original[Current])))
    BY <1>9, DeltaRow DEF UseBase
  <2>2. QED BY <1>8, <1>9, <2>1 DEF UseBase, Entry
<1>10. CASE ForcedReset
  <2>1. RowIsRight(Entry(NoGroup, Original[Current]))
    BY <1>10, FullRow DEF ForcedReset, Inv, HeadsBelow
  <2>2. QED BY <1>8, <1>10, <2>1 DEF ForcedReset, Entry
<1>11. CASE WalkUp
  <2>1. base \in DOMAIN newMap /\ base # NoGroup /\ newMap[base].prev # NoGroup
    BY <1>11, BaseStored DEF WalkUp
  <2>2. newMap[base].prev \in DOMAIN newMap
    BY <2>1 DEF Inv, WellFormed
  <2>3. ChainLength(newMap)[base] = 1 + ChainLength(newMap)[newMap[base].prev]
    BY <2>1, EntriesAreRows, ChainSolves DEF Inv, TypeOK
  <2>4. /\ UNCHANGED <<orig, levels, newMap>> /\ base' = newMap[base].prev
        /\ Todo' = Todo /\ Current' = Current
    BY <1>11 DEF WalkUp, Todo, Current
  <2>5. BaseBound'
    <3>1. ASSUME NEW i \in DOMAIN levels, levels[i].head = Current
          PROVE  1 + ChainLength(newMap)[newMap[base].prev] =< AllowedLength(levels, i)
      <4>1. 1 + ChainLength(newMap)[base] =< AllowedLength(levels, i)
        BY <2>1, <3>1 DEF ChainInv, BaseBound
      <4>2. ChainLength(newMap)[newMap[base].prev] \in Nat
        BY <1>1, <2>2
      <4>3. QED BY <1>2, <2>3, <4>1, <4>2
    <3>2. QED BY <2>1, <2>2, <2>4, <3>1 DEF ChainInv, BaseBound
  <2>6. HeadsToCome'
    BY <2>1, <2>4 DEF ChainInv, HeadsToCome
  <2>7. QED BY <2>4, <2>5, <2>6 DEF ChainInv, LengthsBoundChains, ChainsBounded
<1>12. CASE MissingBase
  BY <1>12 DEF MissingBase, ChainInv, LengthsBoundChains, ChainsBounded, HeadsToCome, BaseBound,
               Todo, Current
<1>13. QED
  BY <1>4, <1>5, <1>6, <1>7, <1>9, <1>10, <1>11, <1>12 DEF Next

\* A step that changes nothing, too.
LEMMA StepChains == Inv /\ CopiesKept /\ ChainInv /\ [Next]_vars => CopiesKept' /\ ChainInv'
<1> SUFFICES ASSUME Inv, CopiesKept, ChainInv, [Next]_vars PROVE CopiesKept' /\ ChainInv'
  OBVIOUS
<1>1. CASE Next
  BY <1>1, NextCopies, NextChains
<1>2. CASE UNCHANGED vars
  BY <1>2 DEF vars, CopiesKept, ChainInv, LengthsBoundChains, ChainsBounded, HeadsToCome,
              BaseBound, Todo, Current
<1>3. QED BY <1>1, <1>2

\* What a level allows is a number.
LEMMA AllowedNumber ==
  ASSUME NEW ls \in Seq(Level), NEW i \in DOMAIN ls
  PROVE  AllowedLength(ls, i) \in Nat
<1>1. Lengths(ls) \in Seq(Nat) /\ i \in 1 .. Len(Lengths(ls)) + 1
  BY NumbersType
<1>2. Reach(Lengths(ls))[i] \in Nat
  BY <1>1, ReachPositive
<1>3. QED BY <1>2 DEF AllowedLength, Lengths

\* A new row is in range if its group was.
RangeKept == \A g \in DOMAIN newMap : orig[g].in_range => newMap[g].in_range

LEMMA NextRange ==
  ASSUME RangeKept, Next
  PROVE  RangeKept'
<1>1. orig' = orig
  BY DEF Next, CopyOutOfRange, KeepEntry, StoreFull, StartDelta, UseBase, WalkUp, ForcedReset,
         MissingBase
<1>2. \/ newMap' = newMap
      \/ \E entry : /\ newMap' = Insert(newMap, Current, entry)
                    /\ orig[Current].in_range => entry.in_range
  BY DEF Next, CopyOutOfRange, KeepEntry, StoreFull, StartDelta, UseBase, WalkUp, ForcedReset,
         MissingBase, Finish, Entry
<1>3. ASSUME NEW entry, newMap' = Insert(newMap, Current, entry),
             orig[Current].in_range => entry.in_range
      PROVE  RangeKept'
  BY <1>1, <1>3 DEF Insert, RangeKept
<1>4. QED BY <1>1, <1>2, <1>3 DEF RangeKept

\* A level whose head is not in the map keeps it, and what it allows.
LEMMA OtherHeads ==
  ASSUME Inv, ChainInv, Next
  PROVE  /\ DOMAIN levels' = DOMAIN levels
         /\ \A i \in DOMAIN levels :
              levels'[i].head \notin DOMAIN orig =>
                /\ levels'[i].head = levels[i].head
                /\ AllowedLength(levels', i) = AllowedLength(levels, i)
<1>1. CASE levels' = levels
  BY <1>1
<1>2. CASE levels' = Place(levels, Current) /\ Todo # {}
  <2>1. levels \in Seq(Level) /\ ChainLevels(levels) /\ Current \in Groups /\ Current \in DOMAIN orig
    BY <1>2, CurrentLeast DEF Inv, TypeOK, IsGroupMap, Todo, ChainInv
  <2>2. DOMAIN levels' = DOMAIN levels
    BY <1>2 DEF Place
  <2>3. \A i \in DOMAIN levels : Visited(levels, i) => levels'[i].head = Current
    BY <1>2, <2>1, PlaceAllows
  <2>4. \A i \in DOMAIN levels : ~ Visited(levels, i) =>
          levels'[i] = levels[i] /\ AllowedLength(levels', i) = AllowedLength(levels, i)
    BY <1>2, <2>1, PlaceAllows
  <2>5. QED BY <2>1, <2>2, <2>3, <2>4
<1>3. QED
  BY <1>1, <1>2
     DEF Next, CopyOutOfRange, KeepEntry, StoreFull, StartDelta, UseBase, WalkUp, ForcedReset,
         MissingBase, Finish, InRange, AtGroup

\* Levels that replace the first ones of others: what is allowed may grow.
LEMMA WrittenAllows ==
  ASSUME NEW info \in Seq(Level), NEW old \in Seq(Level)
  PROVE  LET new == info \o SubSeq(old, Len(info) + 1, Len(old))
         IN  /\ new \in Seq(Level)
             /\ \A i \in DOMAIN new :
                  \/ /\ i \in DOMAIN info /\ new[i] = info[i]
                     /\ AllowedLength(info, i) =< AllowedLength(new, i)
                  \/ /\ i \in DOMAIN old /\ new[i] = old[i]
                     /\ AllowedLength(old, i) =< AllowedLength(new, i)
<1> DEFINE tail == SubSeq(old, Len(info) + 1, Len(old))
           new  == info \o tail
           n    == Len(info)
           m    == Len(old)
<1>1. n \in Nat /\ m \in Nat /\ DOMAIN info = 1 .. n /\ DOMAIN old = 1 .. m
  OBVIOUS
<1>2. /\ tail \in Seq(Level)
      /\ Len(tail) = IF n < m THEN m - n ELSE 0
      /\ \A i \in 1 .. Len(tail) : tail[i] = old[n + i]
  BY <1>1
<1> HIDE DEF tail
<1>3. /\ new \in Seq(Level)
      /\ Len(new) = n + Len(tail)
      /\ DOMAIN new = 1 .. Len(new)
      /\ \A i \in 1 .. n : new[i] = info[i]
      /\ \A i \in n + 1 .. Len(new) : new[i] = tail[i - n]
  BY <1>2
<1> HIDE DEF new, n, m
<1>4. /\ Len(new) = IF n < m THEN m ELSE n
      /\ n =< Len(new) /\ Len(new) \in Nat
      /\ \A i \in n + 1 .. Len(new) : i \in 1 .. m /\ new[i] = old[i] /\ Len(new) = m
  <2>1. /\ Len(new) = IF n < m THEN m ELSE n
        /\ n =< Len(new) /\ Len(new) \in Nat
    BY <1>1, <1>2, <1>3
  <2>2. ASSUME NEW i \in n + 1 .. Len(new)
        PROVE  i \in 1 .. m /\ new[i] = old[i] /\ Len(new) = m
    <3>1. i - n \in 1 .. Len(tail) /\ n + (i - n) = i
      BY <1>1, <1>2, <1>3, <2>2
    <3>2. new[i] = tail[i - n] /\ tail[i - n] = old[n + (i - n)]
      BY <1>2, <1>3, <2>2, <3>1
    <3>3. i \in 1 .. m /\ Len(new) = m
      BY <1>1, <2>1, <2>2
    <3>4. QED BY <3>1, <3>2, <3>3
  <2>3. QED BY <2>1, <2>2
<1>5. /\ Lengths(new) \in Seq(Nat) /\ Len(Lengths(new)) = Len(new)
      /\ Lengths(info) \in Seq(Nat) /\ Len(Lengths(info)) = n
      /\ Lengths(old) \in Seq(Nat) /\ Len(Lengths(old)) = m
  BY <1>3, NumbersType DEF n, m
<1>6. ASSUME NEW i \in 1 .. n
      PROVE  AllowedLength(info, i) =< AllowedLength(new, i)
  <2> DEFINE a == Lengths(info)
             b == Lengths(new)
  <2>1. \A j \in 1 .. n : a[j] = b[j] /\ a[j] \in Nat
    <3>1. \A j \in 1 .. n : j \in DOMAIN info /\ j \in DOMAIN new /\ info[j] = new[j]
      BY <1>1, <1>3, <1>4
    <3>2. \A j \in 1 .. n : a[j] \in Nat
      BY <1>5
    <3>3. QED BY <3>1, <3>2 DEF Lengths
  <2>2. a \in Seq(Nat) /\ b \in Seq(Nat) /\ Len(a) = n /\ Len(a) =< Len(b) /\ i \in 1 .. Len(a) + 1
    BY <1>1, <1>4, <1>5
  <2> HIDE DEF a, b
  <2>3. \A j \in 1 .. Len(a) : j >= i => a[j] =< b[j]
    BY <2>1, <2>2
  <2>4. Reach(a)[i] =< Reach(b)[i]
    BY <2>2, <2>3, ReachGrows
  <2>5. QED BY <2>4 DEF a, b, AllowedLength, Lengths
<1>7. ASSUME NEW i \in n + 1 .. Len(new)
      PROVE  AllowedLength(old, i) =< AllowedLength(new, i)
  <2> DEFINE a == Lengths(old)
             b == Lengths(new)
  <2>1. i \in 1 .. m /\ Len(new) = m
    BY <1>4
  <2>2. \A j \in 1 .. m : j >= i => a[j] = b[j] /\ a[j] \in Nat
    <3>1. \A j \in 1 .. m : j >= i => j \in n + 1 .. Len(new)
      BY <1>1, <2>1
    <3>2. \A j \in 1 .. m : j >= i => old[j] = new[j] /\ j \in DOMAIN old /\ j \in DOMAIN new
      BY <1>1, <1>3, <1>4, <2>1, <3>1
    <3>3. \A j \in 1 .. m : a[j] \in Nat
      BY <1>5
    <3>4. QED BY <3>2, <3>3 DEF Lengths
  <2>3. a \in Seq(Nat) /\ b \in Seq(Nat) /\ Len(a) = m /\ Len(b) = m /\ i \in 1 .. Len(a) + 1
    BY <1>1, <1>5, <2>1
  <2> HIDE DEF a, b
  <2>4. \A j \in 1 .. Len(a) : j >= i => a[j] =< b[j]
    BY <2>2, <2>3
  <2>5. Len(a) =< Len(b)
    BY <1>1, <2>3
  <2>6. Reach(a)[i] =< Reach(b)[i]
    BY <2>3, <2>4, <2>5, ReachGrows
  <2>7. QED BY <2>6 DEF a, b, AllowedLength, Lengths
<1>8. \A i \in DOMAIN new : i \in 1 .. n \/ i \in n + 1 .. Len(new)
  BY <1>1, <1>3, <1>4
<1>9. QED BY <1>1, <1>3, <1>4, <1>6, <1>7, <1>8 DEF new, tail, n, m

\* The levels of a call say no less of the chains of their heads than is true
\* of the map.
CallsBoundChains ==
  \A call \in Calls :
    /\ ChainLevels(call.levels)
    /\ \A i \in DOMAIN call.levels :
         call.levels[i].head \in DOMAIN call.map =>
           ChainLength(call.map)[call.levels[i].head] =< AllowedLength(call.levels, i)

\* A legal call starts with lengths that bound the chains.
LEMMA CallChains ==
  ASSUME newMap = <<>>, base = NoGroup, levels \in Seq(Level), ChainLevels(levels),
         \A head \in Heads(levels), g \in DOMAIN orig : orig[g].in_range => head < g,
         DOMAIN orig \subseteq Groups,
         \A i \in DOMAIN levels :
           levels[i].head \in DOMAIN orig =>
             ChainLength(orig)[levels[i].head] =< AllowedLength(levels, i)
  PROVE  CopiesKept /\ ChainInv
<1>1. DOMAIN newMap = {}
  OBVIOUS
<1>2. CopiesKept /\ LengthsBoundChains /\ ChainsBounded /\ BaseBound
  BY <1>1 DEF CopiesKept, LengthsBoundChains, ChainsBounded, BaseBound
<1>3. HeadsToCome
  <2>1. SUFFICES ASSUME NEW i \in DOMAIN levels, levels[i].head \in DOMAIN orig
                 PROVE  /\ \A h \in DOMAIN orig : orig[h].in_range => levels[i].head < h
                        /\ ChainLength(orig)[levels[i].head] =< AllowedLength(levels, i)
    BY DEF HeadsToCome, Todo
  <2>2. levels[i].head # NoGroup
    BY <2>1, NoGroupAssumption DEF Groups
  <2>3. levels[i].head \in Heads(levels)
    BY <2>1, <2>2 DEF Heads
  <2>4. QED BY <2>1, <2>3
<1>4. QED BY <1>2, <1>3 DEF ChainInv

LEMMA InitChains ==
  ASSUME CallsBoundChains, Init
  PROVE  CopiesKept /\ ChainInv
<1>1. PICK call \in Calls : orig = call.map /\ levels = call.levels
  BY DEF Init
<1>2. /\ IsGroupMap(orig)
      /\ levels \in Seq(Level)
      /\ \A head \in Heads(levels), g \in DOMAIN orig : orig[g].in_range => head < g
  BY <1>1, CallsAssumption
<1>3. /\ ChainLevels(levels)
      /\ \A i \in DOMAIN levels :
           levels[i].head \in DOMAIN orig =>
             ChainLength(orig)[levels[i].head] =< AllowedLength(levels, i)
  BY <1>1 DEF CallsBoundChains
<1>4. QED BY <1>2, <1>3, CallChains DEF Init, IsGroupMap

\* The lengths the levels keep bound the chains of their heads, for every map,
\* whichever bases get_delta falls back to, if they did when the run started
\* (Level::update, create_new_tree, get_delta of src/compressor.rs).
THEOREM LengthsAreBounds ==
  ASSUME CallsBoundChains
  PROVE  Spec => []LengthsBoundChains
<1>1. Init => CopiesKept /\ ChainInv
  BY InitChains
<1>2. ChainInv => LengthsBoundChains
  BY DEF ChainInv
<1>3. QED BY <1>1, <1>2, StepChains, InvIsInvariant, PTL DEF Spec

\* No group that was compressed is further from the root of its chain than the
\* sizes of the levels add up to ("the sum of the sizes is the upper bound on
\* number of iterations", the help of -l in src/lib.rs).
THEOREM SizesBoundChains ==
  ASSUME CallsBoundChains
  PROVE  Spec => []ChainsBounded
<1>1. Init => CopiesKept /\ ChainInv
  BY InitChains
<1>2. ChainInv => ChainsBounded
  BY DEF ChainInv
<1>3. QED BY <1>1, <1>2, StepChains, InvIsInvariant, PTL DEF Spec
=============================================================================
