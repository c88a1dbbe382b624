------------------------ MODULE VelocityWindowProofs ------------------------
(***************************************************************************)
(* What both policy accounts' proofs need of the payments window: sums over*)
(* finite sets, and that payments held in slots which still count are no   *)
(* more, and add up to no more, than the window's summary says.            *)
(***************************************************************************)
EXTENDS VelocityWindow, FiniteSetTheorems, TLAPS

(* g gives the total weight of every subset of S.                          *)
IsTotal(w, S, g) ==
    /\ g \in [SUBSET S -> Int]
    /\ g[{}] = 0
    /\ \A s \in SUBSET S : \A x \in s : g[s] = w[x] + g[s \ {x}]

Total(w, S) == (CHOOSE g : IsTotal(w, S, g))[S]

(* Among sets of members of a finite set, one has no other within it.      *)
LEMMA SmallestSet ==
    ASSUME NEW S, IsFiniteSet(S), NEW B \in SUBSET (SUBSET S), B # {}
    PROVE  \E m \in B : \A b \in B : b \subseteq m => b = m
<1> DEFINE R == StrictSubsetOrdering(S)
           F == FiniteSubsetsOf(S)
<1>1. IsWellFoundedOn(R, F)
  BY FS_StrictSubsetOrderingWellFounded
<1>2. B \subseteq F
  <2>1. \A b \in B : b \in SUBSET S /\ IsFiniteSet(b)
    BY FS_Subset
  <2>2. QED
    BY <2>1 DEF FiniteSubsetsOf
<1> HIDE DEF R, F
<1>3. PICK m \in B : \A b \in B : <<b, m>> \notin R
  BY <1>1, <1>2, WFMin
<1>4. ASSUME NEW b \in B, b \subseteq m, b # m PROVE FALSE
  <2>1. <<b, m>> \in R
    BY <1>4 DEF R, StrictSubsetOrdering
  <2>2. QED
    BY <1>3, <2>1
<1>5. QED
  BY <1>4

LEMMA TotalExists ==
    ASSUME NEW S, IsFiniteSet(S), NEW w, \A x \in S : w[x] \in Int
    PROVE  \E g : IsTotal(w, S, g)
<1> SUFFICES ASSUME ~ \E g : IsTotal(w, S, g) PROVE FALSE
  OBVIOUS
<1> DEFINE B == {s \in SUBSET S : ~ \E g : IsTotal(w, s, g)}
<1>1. B \in SUBSET (SUBSET S) /\ S \in B
  OBVIOUS
<1>2. PICK m \in B : \A b \in B : b \subseteq m => b = m
  <2> HIDE DEF B
  <2>1. QED
    BY <1>1, SmallestSet
<1>3. m # {}
  <2> DEFINE zero == [s \in SUBSET {} |-> 0]
  <2>1. IsTotal(w, {}, zero)
    BY DEF IsTotal
  <2>2. QED
    BY <1>2, <2>1
<1>4. PICK x \in m : TRUE
  BY <1>3
<1>5. PICK g : IsTotal(w, m \ {x}, g)
  <2>1. m \ {x} \in SUBSET S /\ m \ {x} \subseteq m /\ m \ {x} # m
    BY <1>4
  <2>2. QED
    BY <1>2, <2>1
<1> DEFINE h == [s \in SUBSET m |-> IF x \in s THEN w[x] + g[s \ {x}] ELSE g[s]]
<1>6. \A s \in SUBSET (m \ {x}) : g[s] \in Int
  BY <1>5 DEF IsTotal
<1>7. w[x] \in Int
  BY <1>2
<1>8. h \in [SUBSET m -> Int]
  <2>1. ASSUME NEW s \in SUBSET m PROVE h[s] \in Int
    <3>1. CASE x \in s
      <4>1. s \ {x} \in SUBSET (m \ {x})
        OBVIOUS
      <4>2. QED
        BY <1>6, <1>7, <3>1, <4>1
    <3>2. CASE x \notin s
      BY <1>6, <3>2
    <3>3. QED
      BY <3>1, <3>2
  <2>2. QED
    BY <2>1
<1>9. h[{}] = 0
  BY <1>5 DEF IsTotal
<1>10. ASSUME NEW s \in SUBSET m, NEW y \in s PROVE h[s] = w[y] + h[s \ {y}]
  <2>1. CASE y = x
    <3>1. s \ {y} \in SUBSET m /\ x \notin s \ {y}
      BY <2>1
    <3>2. h[s \ {y}] = g[s \ {y}]
      BY <3>1
    <3>3. QED
      BY <2>1, <3>2
  <2>2. CASE y # x /\ x \in s
    <3>1. s \ {y} \in SUBSET m /\ x \in s \ {y}
      BY <2>2
    <3>2. h[s \ {y}] = w[x] + g[(s \ {y}) \ {x}]
      BY <3>1
    <3>3. s \ {x} \in SUBSET (m \ {x}) /\ y \in s \ {x}
      BY <2>2
    <3>4. g[s \ {x}] = w[y] + g[(s \ {x}) \ {y}]
      BY <1>5, <3>3 DEF IsTotal
    <3>5. (s \ {x}) \ {y} = (s \ {y}) \ {x}
      OBVIOUS
    <3>6. (s \ {x}) \ {y} \in SUBSET (m \ {x})
      OBVIOUS
    <3>7. g[(s \ {x}) \ {y}] \in Int /\ w[y] \in Int
      BY <1>2, <1>6, <3>6
    <3>8. h[s] = w[x] + g[s \ {x}]
      BY <2>2
    <3>9. h[s \ {y}] = w[x] + g[(s \ {x}) \ {y}]
      BY <3>2, <3>5
    <3> DEFINE rest == g[(s \ {x}) \ {y}]
               hs == h[s]
               hy == h[s \ {y}]
    <3>10. /\ hs = w[x] + (w[y] + rest) /\ hy = w[x] + rest
           /\ rest \in Int /\ w[x] \in Int /\ w[y] \in Int
      BY <1>7, <3>4, <3>7, <3>8, <3>9
    <3> HIDE DEF rest, hs, hy
    <3>11. hs = w[y] + hy
      BY <3>10
    <3> USE DEF hs, hy
    <3>12. QED
      BY <3>11
  <2>3. CASE x \notin s
    <3>1. s \in SUBSET (m \ {x}) /\ s \ {y} \in SUBSET m /\ x \notin s \ {y}
      BY <2>3
    <3>2. g[s] = w[y] + g[s \ {y}]
      BY <1>5, <3>1 DEF IsTotal
    <3>3. QED
      BY <2>3, <3>1, <3>2
  <2>4. QED
    BY <2>1, <2>2, <2>3
<1>11. IsTotal(w, m, h)
  <2> HIDE DEF h
  <2>1. QED
    BY <1>8, <1>9, <1>10 DEF IsTotal
<1>12. QED
  BY <1>2, <1>11

(* A total does not depend on what the members are called.                 *)
LEMMA Renamed ==
    ASSUME NEW S, IsFiniteSet(S), NEW w, NEW g, IsTotal(w, S, g),
           NEW T, NEW v, NEW h, IsTotal(v, T, h),
           NEW f \in [S -> T], \A x, y \in S : f[x] = f[y] => x = y,
           \A x \in S : w[x] = v[f[x]]
    PROVE  \A s \in SUBSET S : g[s] = h[{f[x] : x \in s}]
<1> DEFINE image(s) == {f[x] : x \in s}
           B == {s \in SUBSET S : g[s] # h[image(s)]}
<1> SUFFICES ASSUME B # {} PROVE FALSE
  OBVIOUS
<1>1. PICK m \in B : \A b \in B : b \subseteq m => b = m
  <2>1. B \in SUBSET (SUBSET S)
    OBVIOUS
  <2> HIDE DEF B
  <2>2. QED
    BY <2>1, SmallestSet
<1>2. m # {}
  <2>1. image({}) = {}
    OBVIOUS
  <2>2. QED
    BY <1>1, <2>1 DEF IsTotal
<1>3. PICK x \in m : TRUE
  BY <1>2
<1>4. g[m] = w[x] + g[m \ {x}]
  BY <1>1 DEF IsTotal
<1>5. image(m) \in SUBSET T /\ f[x] \in image(m)
  BY <1>1
<1>6. h[image(m)] = v[f[x]] + h[image(m) \ {f[x]}]
  BY <1>5 DEF IsTotal
<1>7. image(m) \ {f[x]} = image(m \ {x})
  BY <1>1
<1>8. m \ {x} \in SUBSET S /\ m \ {x} \notin B
  BY <1>1, <1>3
<1>9. g[m \ {x}] = h[image(m \ {x})]
  BY <1>8
<1>10. w[x] = v[f[x]]
  BY <1>1
<1>11. g[m] # h[image(m)]
  BY <1>1
<1>12. QED
  BY <1>4, <1>6, <1>7, <1>9, <1>10, <1>11

LEMMA OneTotal ==
    ASSUME NEW S, IsFiniteSet(S), NEW w, NEW g, IsTotal(w, S, g),
           NEW v, NEW h, IsTotal(v, S, h), \A x \in S : w[x] = v[x]
    PROVE  g[S] = h[S]
<1> DEFINE f == [x \in S |-> x]
<1>1. /\ f \in [S -> S]
      /\ \A x, y \in S : f[x] = f[y] => x = y
      /\ \A x \in S : w[x] = v[f[x]]
  OBVIOUS
<1>2. {f[x] : x \in S} = S
  OBVIOUS
<1> HIDE DEF f
<1>3. \A s \in SUBSET S : g[s] = h[{f[x] : x \in s}]
  BY <1>1, Renamed
<1>4. QED
  BY <1>2, <1>3

LEMMA TotalIs ==
    ASSUME NEW S, IsFiniteSet(S), NEW w, NEW g, IsTotal(w, S, g)
    PROVE  \A s \in SUBSET S : Total(w, s) = g[s]
<1> SUFFICES ASSUME NEW s \in SUBSET S PROVE Total(w, s) = g[s]
  OBVIOUS
<1> DEFINE k == [u \in SUBSET s |-> g[u]]
           h == CHOOSE i : IsTotal(w, s, i)
<1>1. IsTotal(w, s, k)
  BY DEF IsTotal
<1>2. IsTotal(w, s, h)
  BY <1>1
<1>3. IsFiniteSet(s)
  BY FS_Subset
<1>4. k[s] = g[s]
  OBVIOUS
<1> HIDE DEF h, k
<1>5. k[s] = h[s]
  BY <1>1, <1>2, <1>3, OneTotal
<1>6. QED
  BY <1>4, <1>5 DEF Total, h

(* The total of a finite set: nothing of nothing, and one member more.     *)
LEMMA TotalOf ==
    ASSUME NEW S, IsFiniteSet(S), NEW w, \A x \in S : w[x] \in Int
    PROVE  /\ Total(w, S) \in Int
           /\ S = {} => Total(w, S) = 0
           /\ \A x \in S : Total(w, S) = w[x] + Total(w, S \ {x})
<1>1. PICK g : IsTotal(w, S, g)
  BY TotalExists
<1>2. \A s \in SUBSET S : Total(w, s) = g[s]
  BY <1>1, TotalIs
<1>3. Total(w, S) = g[S] /\ \A x \in S : Total(w, S \ {x}) = g[S \ {x}]
  BY <1>2
<1>4. QED
  BY <1>1, <1>3 DEF IsTotal

LEMMA TotalAdds ==
    ASSUME NEW S, IsFiniteSet(S), NEW w, \A x \in S : w[x] \in Int, NEW y, y \notin S,
           w[y] \in Int
    PROVE  Total(w, S \cup {y}) = Total(w, S) + w[y]
<1> DEFINE T == S \cup {y}
<1>1. IsFiniteSet(T)
  BY FS_AddElement
<1>2. Total(w, T) = w[y] + Total(w, T \ {y})
  <2>1. y \in T /\ \A x \in T : w[x] \in Int
    OBVIOUS
  <2> HIDE DEF T
  <2>2. QED
    BY <1>1, <2>1, TotalOf
<1>3. T \ {y} = S
  OBVIOUS
<1>4. Total(w, S) \in Int
  BY TotalOf
<1>5. Total(w, T) = w[y] + Total(w, S)
  BY <1>2, <1>3
<1> HIDE DEF T
<1>6. Total(w, T) = Total(w, S) + w[y]
  BY <1>4, <1>5
<1> USE DEF T
<1>7. QED
  BY <1>6

(* Same weights, same total.                                               *)
LEMMA TotalRenamed ==
    ASSUME NEW S, IsFiniteSet(S), NEW w, \A x \in S : w[x] \in Int,
           NEW T, IsFiniteSet(T), NEW v, \A x \in T : v[x] \in Int,
           NEW f \in [S -> T], \A x, y \in S : f[x] = f[y] => x = y,
           \A x \in S : w[x] = v[f[x]]
    PROVE  Total(w, S) = Total(v, {f[x] : x \in S})
<1>1. PICK g : IsTotal(w, S, g)
  BY TotalExists
<1>2. PICK h : IsTotal(v, T, h)
  BY TotalExists
<1>3. \A s \in SUBSET S : g[s] = h[{f[x] : x \in s}]
  BY <1>1, <1>2, Renamed
<1>4. {f[x] : x \in S} \in SUBSET T
  OBVIOUS
<1>5. Total(w, S) = g[S] /\ Total(v, {f[x] : x \in S}) = h[{f[x] : x \in S}]
  BY <1>1, <1>2, <1>4, TotalIs
<1>6. QED
  BY <1>3, <1>5

LEMMA TotalSame ==
    ASSUME NEW S, IsFiniteSet(S), NEW w, \A x \in S : w[x] \in Int,
           NEW v, \A x \in S : w[x] = v[x]
    PROVE  Total(w, S) = Total(v, S)
<1> DEFINE f == [x \in S |-> x]
<1>1. f \in [S -> S] /\ \A x \in S : f[x] = x
  OBVIOUS
<1>2. {f[x] : x \in S} = S
  OBVIOUS
<1> HIDE DEF f
<1>3. \A x \in S : v[x] \in Int
  OBVIOUS
<1>4. QED
  BY <1>1, <1>2, <1>3, TotalRenamed

(* Weights that are not negative only add.                                 *)
LEMMA TotalGrows ==
    ASSUME NEW S, IsFiniteSet(S), NEW w, \A x \in S : w[x] \in Int /\ w[x] >= 0,
           NEW T \in SUBSET S
    PROVE  Total(w, T) <= Total(w, S)
<1> DEFINE B == {s \in SUBSET S : T \subseteq s /\ Total(w, T) > Total(w, s)}
<1> SUFFICES ASSUME S \in B PROVE FALSE
  <2>1. Total(w, S) \in Int /\ Total(w, T) \in Int
    BY TotalOf, FS_Subset
  <2>2. QED
    BY <2>1
<1>1. PICK m \in B : \A b \in B : b \subseteq m => b = m
  <2>1. B \in SUBSET (SUBSET S)
    OBVIOUS
  <2> HIDE DEF B
  <2>2. QED
    BY <2>1, SmallestSet
<1>2. \A s \in SUBSET S : IsFiniteSet(s) /\ Total(w, s) \in Int
  <2>1. ASSUME NEW s \in SUBSET S PROVE IsFiniteSet(s) /\ Total(w, s) \in Int
    <3>1. IsFiniteSet(s) /\ \A x \in s : w[x] \in Int
      BY FS_Subset
    <3>2. QED
      BY <3>1, TotalOf
  <2>2. QED
    BY <2>1
<1>3. m # T
  BY <1>1, <1>2
<1>4. PICK x \in m : x \notin T
  BY <1>1, <1>3
<1>5. m \ {x} \in SUBSET S /\ T \subseteq m \ {x} /\ m \ {x} \notin B
  BY <1>1, <1>4
<1>6. Total(w, m \ {x}) >= Total(w, T)
  BY <1>2, <1>5
<1>7. Total(w, m) = w[x] + Total(w, m \ {x})
  <2>1. IsFiniteSet(m) /\ \A y \in m : w[y] \in Int
    BY <1>1, <1>2
  <2>2. QED
    BY <1>4, <2>1, TotalOf
<1>8. w[x] \in Int /\ w[x] >= 0 /\ Total(w, T) > Total(w, m)
  BY <1>1, <1>4
<1>9. Total(w, m \ {x}) \in Int /\ Total(w, T) \in Int
  BY <1>2, <1>5
<1>10. QED
  BY <1>6, <1>7, <1>8, <1>9

-----------------------------------------------------------------------------
(* The sums of the model, which take a set's members in CHOOSE's order.    *)
Choosing(w, S, g) ==
    g = [s \in SUBSET S |->
            IF s = {} THEN 0
            ELSE w[CHOOSE x \in s : TRUE] + g[s \ {CHOOSE x \in s : TRUE}]]

LEMMA TotalChosen ==
    ASSUME NEW S, NEW w, NEW g, IsTotal(w, S, g)
    PROVE  Choosing(w, S, g)
<1>1. ASSUME NEW s \in SUBSET S
      PROVE  g[s] = IF s = {} THEN 0
                    ELSE w[CHOOSE x \in s : TRUE] + g[s \ {CHOOSE x \in s : TRUE}]
  <2>1. CASE s = {}
    BY <2>1 DEF IsTotal
  <2>2. CASE s # {}
    <3>1. (CHOOSE x \in s : TRUE) \in s
      BY <2>2
    <3>2. QED
      BY <2>2, <3>1 DEF IsTotal
  <2>3. QED
    BY <2>1, <2>2
<1>2. g = [s \in SUBSET S |-> g[s]]
  BY DEF IsTotal
<1>3. QED
  BY <1>1, <1>2 DEF Choosing

LEMMA ChosenIsTotal ==
    ASSUME NEW S, IsFiniteSet(S), NEW w, \A x \in S : w[x] \in Int, NEW g, Choosing(w, S, g)
    PROVE  g[S] = Total(w, S)
<1>1. PICK h : IsTotal(w, S, h)
  BY TotalExists
<1> DEFINE B == {s \in SUBSET S : g[s] # h[s]}
<1> SUFFICES ASSUME B # {} PROVE FALSE
  <2>1. S \notin B => g[S] = h[S]
    OBVIOUS
  <2>2. Total(w, S) = h[S]
    BY <1>1, TotalIs
  <2>3. QED
    BY <2>1, <2>2
<1>2. PICK m \in B : \A b \in B : b \subseteq m => b = m
  <2>1. B \in SUBSET (SUBSET S)
    OBVIOUS
  <2> HIDE DEF B
  <2>2. QED
    BY <2>1, SmallestSet
<1>3. m # {}
  BY <1>1, <1>2 DEF IsTotal, Choosing
<1> DEFINE x == CHOOSE y \in m : TRUE
<1>4. x \in m
  BY <1>3
<1>5. g[m] = w[x] + g[m \ {x}]
  BY <1>2, <1>3 DEF Choosing
<1> HIDE DEF x
<1>6. h[m] = w[x] + h[m \ {x}]
  BY <1>1, <1>2, <1>4 DEF IsTotal
<1>7. m \ {x} \in SUBSET S /\ m \ {x} \notin B
  BY <1>2, <1>4
<1>8. QED
  BY <1>2, <1>5, <1>6, <1>7

(* What payments paid, and what slots say.                                 *)
PaidTotal(p, S) == LET amount_of(i) == p[i].challenge.amount IN MapThenSumSet(amount_of, S)

AmountTotal(p, S) == LET amount_of(i) == p[i].amount IN MapThenSumSet(amount_of, S)

LEMMA PaidTotalIs ==
    ASSUME NEW S, IsFiniteSet(S), NEW p, NEW w,
           \A i \in S : w[i] = p[i].challenge.amount /\ w[i] \in Int
    PROVE  PaidTotal(p, S) = Total(w, S)
<1> DEFINE Sums(g) == g = [s \in SUBSET S |->
                IF s = {} THEN 0
                ELSE p[CHOOSE x \in s : TRUE].challenge.amount
                     + g[s \ {CHOOSE x \in s : TRUE}]]
<1>1. ASSUME NEW g PROVE Sums(g) <=> Choosing(w, S, g)
  <2>1. ASSUME NEW s \in SUBSET S, s # {}
        PROVE  w[CHOOSE x \in s : TRUE] = p[CHOOSE x \in s : TRUE].challenge.amount
    <3>1. (CHOOSE x \in s : TRUE) \in S
      BY <2>1
    <3>2. QED
      BY <3>1
  <2>2. QED
    BY <2>1 DEF Choosing
<1> DEFINE h == CHOOSE g : Sums(g)
<1>2. \E g : Sums(g)
  <2> HIDE DEF Sums
  <2>1. PICK g : IsTotal(w, S, g)
    BY TotalExists
  <2>2. Choosing(w, S, g)
    BY <2>1, TotalChosen
  <2>3. QED
    BY <1>1, <2>2
<1>3. PaidTotal(p, S) = h[S]
  BY Zenon DEF PaidTotal, MapThenSumSet, MapThenFoldSet
<1> HIDE DEF Sums
<1>4. Sums(h)
  BY <1>2, Zenon
<1> HIDE DEF h
<1>5. Choosing(w, S, h)
  BY <1>1, <1>4
<1>6. QED
  BY <1>3, <1>5, ChosenIsTotal

LEMMA AmountTotalIs ==
    ASSUME NEW S, IsFiniteSet(S), NEW p, NEW w,
           \A i \in S : w[i] = p[i].amount /\ w[i] \in Int
    PROVE  AmountTotal(p, S) = Total(w, S)
<1> DEFINE Sums(g) == g = [s \in SUBSET S |->
                IF s = {} THEN 0
                ELSE p[CHOOSE x \in s : TRUE].amount + g[s \ {CHOOSE x \in s : TRUE}]]
<1>1. ASSUME NEW g PROVE Sums(g) <=> Choosing(w, S, g)
  <2>1. ASSUME NEW s \in SUBSET S, s # {}
        PROVE  w[CHOOSE x \in s : TRUE] = p[CHOOSE x \in s : TRUE].amount
    <3>1. (CHOOSE x \in s : TRUE) \in S
      BY <2>1
    <3>2. QED
      BY <3>1
  <2>2. QED
    BY <2>1 DEF Choosing
<1> DEFINE h == CHOOSE g : Sums(g)
<1>2. \E g : Sums(g)
  <2> HIDE DEF Sums
  <2>1. PICK g : IsTotal(w, S, g)
    BY TotalExists
  <2>2. Choosing(w, S, g)
    BY <2>1, TotalChosen
  <2>3. QED
    BY <1>1, <2>2
<1>3. AmountTotal(p, S) = h[S]
  BY Zenon DEF AmountTotal, MapThenSumSet, MapThenFoldSet
<1> HIDE DEF Sums
<1>4. Sums(h)
  BY <1>2, Zenon
<1> HIDE DEF h
<1>5. Choosing(w, S, h)
  BY <1>1, <1>4
<1>6. QED
  BY <1>3, <1>5, ChosenIsTotal

LEMMA PaidTotalAdds ==
    ASSUME NEW S, IsFiniteSet(S), NEW p, \A i \in S : p[i].challenge.amount \in Int,
           NEW y, y \notin S, p[y].challenge.amount \in Int
    PROVE  /\ PaidTotal(p, S) \in Int
           /\ PaidTotal(p, S \cup {y}) = PaidTotal(p, S) + p[y].challenge.amount
<1> DEFINE T == S \cup {y}
           w == [i \in T |-> p[i].challenge.amount]
<1>1. IsFiniteSet(T)
  BY FS_AddElement
<1>2. /\ \A i \in T : w[i] = p[i].challenge.amount /\ w[i] \in Int
      /\ \A i \in S : w[i] = p[i].challenge.amount /\ w[i] \in Int
      /\ w[y] = p[y].challenge.amount /\ w[y] \in Int
  OBVIOUS
<1> HIDE DEF w
<1>3. PaidTotal(p, S) = Total(w, S)
  BY <1>2, PaidTotalIs
<1>4. PaidTotal(p, T) = Total(w, T)
  <2> HIDE DEF T
  <2>1. QED
    BY <1>1, <1>2, PaidTotalIs
<1>5. Total(w, S) \in Int
  BY <1>2, TotalOf
<1>6. Total(w, T) = Total(w, S) + w[y]
  BY <1>2, TotalAdds
<1>7. QED
  BY <1>2, <1>3, <1>4, <1>5, <1>6

LEMMA PaidTotalSame ==
    ASSUME NEW S, IsFiniteSet(S), NEW p, NEW q, \A i \in S : p[i].challenge.amount \in Int,
           \A i \in S : q[i] = p[i]
    PROVE  PaidTotal(q, S) = PaidTotal(p, S) /\ PaidTotal(p, S) \in Int
<1> DEFINE w == [i \in S |-> p[i].challenge.amount]
<1>1. /\ \A i \in S : w[i] = p[i].challenge.amount /\ w[i] \in Int
      /\ \A i \in S : w[i] = q[i].challenge.amount /\ w[i] \in Int
  OBVIOUS
<1> HIDE DEF w
<1>2. PaidTotal(p, S) = Total(w, S) /\ PaidTotal(q, S) = Total(w, S)
  BY <1>1, PaidTotalIs
<1>3. QED
  BY <1>1, <1>2, TotalOf

-----------------------------------------------------------------------------
(* The summary is the total of the amounts that still count.               *)
LEMMA WindowSummary ==
    ASSUME NEW list, IsFiniteSet(DOMAIN list),
           \A k \in DOMAIN list : list[k].amount \in Int,
           NEW config, NEW t, NEW v,
           \A k \in counting(list, config, t) : v[k] = list[k].amount
    PROVE  /\ IsFiniteSet(counting(list, config, t))
           /\ \A k \in counting(list, config, t) : v[k] \in Int /\ v[k] >= 0
           /\ summarize(list, config, t).tx_count = Cardinality(counting(list, config, t))
           /\ summarize(list, config, t).tx_count \in Nat
           /\ summarize(list, config, t).total_amount = Total(v, counting(list, config, t))
           /\ summarize(list, config, t).total_amount \in Int
<1> DEFINE live == counting(list, config, t)
<1>1. live \subseteq DOMAIN list
  BY DEF counting
<1>3. IsFiniteSet(live)
  BY <1>1, FS_Subset
<1>4. /\ summarize(list, config, t).tx_count = Cardinality(live)
      /\ summarize(list, config, t).total_amount = AmountTotal(list, live)
  BY DEF summarize, AmountTotal
<1>5. \A k \in live : list[k].amount > 0
  BY DEF counting, counts, is_used
<1> HIDE DEF live
<1>6. \A k \in live : v[k] = list[k].amount
  BY DEF live
<1>7. \A k \in live : v[k] \in Int /\ v[k] >= 0
  BY <1>1, <1>5, <1>6
<1>8. AmountTotal(list, live) = Total(v, live)
  BY <1>3, <1>6, <1>7, AmountTotalIs
<1>9. Total(v, live) \in Int
  BY <1>3, <1>7, TotalOf
<1>10. Cardinality(live) \in Nat
  BY <1>3, FS_CardinalityType
<1> USE DEF live
<1>11. QED
  BY <1>3, <1>4, <1>7, <1>8, <1>9, <1>10

(* Payments of which each is in a slot that still counts, with nonces that *)
(* tell them apart, are within what the window's summary says.             *)
LEMMA WindowHeld ==
    ASSUME NEW list, IsFiniteSet(DOMAIN list),
           \A k \in DOMAIN list : list[k].amount \in Int,
           NEW config, NEW t, NEW p, NEW W, IsFiniteSet(W),
           \A j \in W : \E k \in DOMAIN list :
               /\ counts(list[k], config, t)
               /\ list[k].nonce = p[j].challenge.nonce
               /\ list[k].amount = p[j].challenge.amount,
           \A i, j \in W : p[i].challenge.nonce = p[j].challenge.nonce => i = j
    PROVE  /\ summarize(list, config, t).tx_count \in Nat
           /\ summarize(list, config, t).total_amount \in Int
           /\ Cardinality(W) <= summarize(list, config, t).tx_count
           /\ PaidTotal(p, W) <= summarize(list, config, t).total_amount
<1> DEFINE live == counting(list, config, t)
           f == [j \in W |-> CHOOSE k \in DOMAIN list :
                    /\ counts(list[k], config, t)
                    /\ list[k].nonce = p[j].challenge.nonce
                    /\ list[k].amount = p[j].challenge.amount]
           w == [j \in W |-> p[j].challenge.amount]
           v == [k \in live |-> list[k].amount]
<1>1. /\ IsFiniteSet(live)
      /\ \A k \in live : v[k] = list[k].amount /\ v[k] \in Int /\ v[k] >= 0
      /\ summarize(list, config, t).tx_count = Cardinality(live)
      /\ summarize(list, config, t).tx_count \in Nat
      /\ summarize(list, config, t).total_amount = Total(v, live)
      /\ summarize(list, config, t).total_amount \in Int
  <2>1. \A k \in live : v[k] = list[k].amount
    OBVIOUS
  <2> HIDE DEF v, f, w
  <2>2. /\ IsFiniteSet(live)
        /\ \A k \in live : v[k] \in Int /\ v[k] >= 0
    BY <2>1, WindowSummary
  <2>3. /\ summarize(list, config, t).tx_count = Cardinality(live)
        /\ summarize(list, config, t).tx_count \in Nat
    BY <2>2, FS_CardinalityType DEF summarize
  <2>4. /\ summarize(list, config, t).total_amount = Total(v, live)
        /\ summarize(list, config, t).total_amount \in Int
    BY <2>1, WindowSummary
  <2>5. QED
    BY <2>1, <2>2, <2>3, <2>4
<1>2. ASSUME NEW j \in W
      PROVE  /\ f[j] \in live
             /\ list[f[j]].nonce = p[j].challenge.nonce
             /\ list[f[j]].amount = p[j].challenge.amount
  <2>1. \E k \in DOMAIN list :
            /\ counts(list[k], config, t)
            /\ list[k].nonce = p[j].challenge.nonce
            /\ list[k].amount = p[j].challenge.amount
    OBVIOUS
  <2>2. /\ f[j] \in DOMAIN list
        /\ counts(list[f[j]], config, t)
        /\ list[f[j]].nonce = p[j].challenge.nonce
        /\ list[f[j]].amount = p[j].challenge.amount
    BY <2>1
  <2>3. QED
    BY <2>2 DEF counting
<1>3. f \in [W -> live]
  <2>1. DOMAIN f = W /\ f = [j \in W |-> f[j]]
    OBVIOUS
  <2> HIDE DEF f
  <2>2. QED
    BY <1>2, <2>1
<1> HIDE DEF f
<1>4. \A i, j \in W : f[i] = f[j] => i = j
  BY <1>2
<1>5. \A j \in W : w[j] = p[j].challenge.amount /\ w[j] \in Int /\ w[j] = v[f[j]]
  BY <1>1, <1>2
<1> HIDE DEF live, v, w
<1>6. PaidTotal(p, W) = Total(w, W)
  BY <1>5, PaidTotalIs
<1>7. Total(w, W) \in Int
  BY <1>5, TotalOf
<1>8. Total(w, W) = Total(v, {f[j] : j \in W})
  BY <1>1, <1>3, <1>4, <1>5, TotalRenamed
<1>9. {f[j] : j \in W} \in SUBSET live
  BY <1>3
<1>10. Total(v, {f[j] : j \in W}) <= Total(v, live)
  BY <1>1, <1>9, TotalGrows
<1>11. Cardinality(W) <= Cardinality(live)
  <2>1. f \in Injection(W, live)
    BY <1>3, <1>4 DEF Injection, IsInjective
  <2>2. QED
    BY <1>1, <2>1, FS_Injection
<1>12. QED
  BY <1>1, <1>6, <1>7, <1>8, <1>10, <1>11

(* While the window is below its count there is a slot that is free.       *)
LEMMA SlotFree ==
    ASSUME NEW n \in Nat, NEW list, DOMAIN list = 1..n, NEW config, NEW t,
           summarize(list, config, t).tx_count < config.max_tx_count,
           config.max_tx_count \in Nat, config.max_tx_count <= n
    PROVE  \E k \in DOMAIN list : ~counts(list[k], config, t)
<1> SUFFICES ASSUME \A k \in DOMAIN list : counts(list[k], config, t) PROVE FALSE
  OBVIOUS
<1>1. counting(list, config, t) = 1..n
  BY DEF counting
<1>2. Cardinality(1..n) = n
  BY FS_Interval
<1>3. QED
  BY <1>1, <1>2 DEF summarize
=============================================================================
