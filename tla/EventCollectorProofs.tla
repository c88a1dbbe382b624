------------------------- MODULE EventCollectorProofs -------------------------
(***************************************************************************)
(* The collector, for any number of collections side by side, any page,    *)
(* scan and window, any setting, and any failures: nothing is lost in      *)
(* silence but what a first run was not told of.  The argument: whatever   *)
(* place is in the row, or was when a run began (PlaceGood), or a run has  *)
(* reached (RunGood), all events up to it are in the database, on the page *)
(* the run holds, or in a ledger that was or will be reported or left out. *)
(* A row's last_ledger lies before every event still to be read, so the    *)
(* ledgers named when the cursor has left the window are all that were     *)
(* lost.                                                                   *)
(***************************************************************************)
EXTENDS EventCollector, FiniteSetTheorems, TLAPS

Active  == {"health", "first", "page", "next", "write"}
Reading == {"first", "page", "next", "write"}
Pages   == [events : SUBSET Nat, latest : Nat]
Places  == [cursor : Nat, last_ledger : Nat]
RunStates == [step : Active \cup {"none", "over"}, previous : Places, cursor : Nat,
              last_ledger : Nat, gap : SUBSET Nat, skipped : SUBSET Nat, page : Pages]

Shape ==
    /\ latest \in Nat
    /\ events \subseteq Nat
    /\ \A e \in events : CREATED <= cursorLedger(e) /\ cursorLedger(e) <= latest
    /\ collector_state.cursor \in Nat /\ collector_state.last_ledger \in Nat
    /\ run \in [Runs -> RunStates]

(* The ledgers given up, in words or without.                              *)
gone == reported \cup unasked

(* All events up to a place were seen, or are in ledgers known to be lost. *)
AllRead(evs, cursor, lost, seen) ==
    \A e \in evs : e <= cursor => e \in seen \/ cursorLedger(e) \in lost

EndsLedger(position) == \E l \in Nat : position = end_of(l)

window_start(at) == end_of(oldestLedger(at) - 1)

(* What a row says of the place where its run stopped.                     *)
PlaceGood(row, at, evs, seen, lost) ==
    /\ row.cursor <= end_of(at)
    /\ row.last_ledger <= cursorLedger(row.cursor)
    /\ row.cursor = 0 <=> row.last_ledger = 0
    /\ \A e \in evs : e > row.cursor => cursorLedger(e) > row.last_ledger
    /\ AllRead(evs, row.cursor, lost, seen)

(* A first run that has chosen where to start, and asked for nothing yet.  *)
IsFirst(r) == r.step = "first" /\ r.previous.cursor = 0

(* What a run under way has done up to where it is.                        *)
RunGood(r, at, evs, seen, lost) ==
    r.step \in Active =>
        /\ CREATED <= at
        /\ PlaceGood(r.previous, at, evs, seen, lost)
        /\ r.step = "health" => r.previous.cursor = 0 /\ r.last_ledger = 0
        /\ r.step \in Reading => r.last_ledger <= cursorLedger(r.cursor)
        /\ IsFirst(r) =>
              \A l \in Nat : CREATED <= l /\ l <= cursorLedger(r.cursor) => l \in r.gap \cup r.skipped
        /\ r.step \in Reading /\ ~IsFirst(r) =>
              /\ r.cursor <= end_of(at)
              /\ AllRead(evs, r.cursor, lost \cup r.gap \cup r.skipped, seen \cup r.page.events)
        /\ r.step # "page" => r.page.events = {}
        /\ r.step = "first" /\ r.previous.cursor # 0 =>
              r.cursor = r.previous.cursor /\ r.gap = {} /\ r.skipped = {}
        /\ r.step \in {"page", "next", "write"} \/ IsFirst(r) => r.cursor >= window_start(at)
        /\ r.step = "page" =>
              /\ r.page.events \subseteq evs
              /\ \A e \in r.page.events : e <= r.cursor
              /\ Cardinality(r.page.events) < PAGE => EndsLedger(r.cursor)
              /\ CREATED <= r.page.latest
        /\ r.step = "write" =>
              /\ CREATED <= r.page.latest /\ r.page.latest <= cursorLedger(r.cursor)
              /\ EndsLedger(r.cursor)

IInv ==
    /\ Shape
    /\ PlaceGood(collector_state, latest, events, chain_events, gone)
    /\ \A c \in Runs : RunGood(run[c], latest, events, chain_events, gone)

-----------------------------------------------------------------------------
(* Every set of naturals has a smallest member, and a bounded one a largest.*)
LEMMA SmallestOf ==
    ASSUME NEW S \in SUBSET Nat, S # {}
    PROVE  \E m \in S : \A x \in S : m <= x
<1> DEFINE R == StrictSubsetOrdering(Nat)
           F == FiniteSubsetsOf(Nat)
           T == {0..n : n \in S}
<1>1. IsWellFoundedOn(R, F)
  BY FS_StrictSubsetOrderingWellFounded
<1>2. T \subseteq F
  <2>1. \A n \in S : 0..n \in SUBSET Nat /\ IsFiniteSet(0..n)
    BY FS_Interval
  <2>2. QED
    BY <2>1 DEF FiniteSubsetsOf
<1>3. T # {}
  OBVIOUS
<1> HIDE DEF R, F, T
<1>4. PICK t \in T : \A u \in T : <<u, t>> \notin R
  BY <1>1, <1>2, <1>3, WFMin
<1>5. PICK m \in S : t = 0..m
  BY <1>4 DEF T
<1>6. ASSUME NEW x \in S, x < m
      PROVE  FALSE
  <2>1. 0..x \in T /\ 0..x \subseteq 0..m /\ 0..x # 0..m
    BY <1>6 DEF T
  <2>2. <<0..x, 0..m>> \in R
    BY <2>1 DEF R, StrictSubsetOrdering
  <2>3. QED
    BY <1>4, <1>5, <2>1, <2>2
<1>7. QED
  BY <1>6

LEMMA LargestOf ==
    ASSUME NEW S \in SUBSET Nat, S # {}, NEW b \in Nat, \A x \in S : x <= b
    PROVE  Max(S) \in S /\ \A x \in S : x <= Max(S)
<1> DEFINE T == {b - x : x \in S}
<1>1. T \in SUBSET Nat /\ T # {}
  <2>1. \A x \in S : b - x \in Nat
    OBVIOUS
  <2>2. QED
    BY <2>1
<1>2. PICK t \in T : \A u \in T : t <= u
  BY <1>1, SmallestOf
<1>3. PICK m \in S : t = b - m
  BY <1>2
<1>4. \A x \in S : x <= m
  BY <1>2, <1>3
<1>5. \E y \in S : \A x \in S : y >= x
  BY <1>4
<1>6. Max(S) \in S /\ \A x \in S : Max(S) >= x
  BY <1>5 DEF Max
<1>7. QED
  BY <1>6

LEMMA MaxOfTwo == \A a, b \in Int : Max({a, b}) = IF a >= b THEN a ELSE b
<1> SUFFICES ASSUME NEW a \in Int, NEW b \in Int PROVE Max({a, b}) = IF a >= b THEN a ELSE b
  OBVIOUS
<1>1. \E y \in {a, b} : \A x \in {a, b} : y >= x
  OBVIOUS
<1>2. Max({a, b}) \in {a, b} /\ \A x \in {a, b} : Max({a, b}) >= x
  BY <1>1 DEF Max
<1>3. QED
  BY <1>2

LEMMA MinOfTwo == \A a, b \in Int : Min({a, b}) = IF a <= b THEN a ELSE b
<1> SUFFICES ASSUME NEW a \in Int, NEW b \in Int PROVE Min({a, b}) = IF a <= b THEN a ELSE b
  OBVIOUS
<1>1. \E y \in {a, b} : \A x \in {a, b} : y <= x
  OBVIOUS
<1>2. Min({a, b}) \in {a, b} /\ \A x \in {a, b} : Min({a, b}) <= x
  BY <1>1 DEF Min
<1>3. QED
  BY <1>2

(* Positions and ledgers: what lies up to the end of a ledger.             *)
LEMMA Times == \A a, b \in Nat : a <= b => a * PLACES <= b * PLACES
BY CollectorAssumption

LEMMA Product == \A a, b \in Nat : a * b \in Nat
OBVIOUS

LEMMA Parts ==
    ASSUME NEW e \in Nat
    PROVE  /\ cursorLedger(e) \in Nat
           /\ cursorLedger(e) * PLACES <= e /\ e <= cursorLedger(e) * PLACES + PLACES - 1
<1>1. PLACES \in Nat /\ PLACES > 0
  BY CollectorAssumption
<1>2. QED
  BY <1>1, Z3 DEF cursorLedger

LEMMA Position ==
    ASSUME NEW l \in Nat, NEW i \in 0..(PLACES - 1)
    PROVE  cursorLedger(l * PLACES + i) = l
BY CollectorAssumption, Z3 DEF cursorLedger

LEMMA InLedger ==
    ASSUME NEW e \in Nat, NEW l \in Nat
    PROVE  e <= end_of(l) <=> cursorLedger(e) <= l
<1>1. PLACES \in Nat /\ PLACES > 0
  BY CollectorAssumption
<1> DEFINE q == cursorLedger(e)
<1>2. q \in Nat /\ q * PLACES <= e /\ e <= q * PLACES + PLACES - 1
  BY Parts
<1> HIDE DEF q
<1>3. CASE q <= l
  <2>1. q * PLACES <= l * PLACES
    BY <1>2, <1>3, Times
  <2>2. q * PLACES \in Nat /\ l * PLACES \in Nat
    BY <1>1, <1>2
  <2>3. QED
    BY <1>1, <1>2, <1>3, <2>1, <2>2 DEF end_of, q
<1>4. CASE l + 1 <= q
  <2>1. (l + 1) * PLACES <= q * PLACES
    BY <1>2, <1>4, Times
  <2>2. (l + 1) * PLACES = l * PLACES + PLACES
    BY <1>1
  <2>3. q * PLACES \in Nat /\ l * PLACES \in Nat
    BY <1>1, <1>2
  <2>4. QED
    BY <1>1, <1>2, <1>4, <2>1, <2>2, <2>3 DEF end_of, q
<1>5. QED
  BY <1>2, <1>3, <1>4
LEMMA EndOf ==
    ASSUME NEW l \in Nat
    PROVE  end_of(l) \in Nat /\ cursorLedger(end_of(l)) = l /\ end_of(l) < end_of(l + 1)
<1>1. PLACES \in Nat /\ PLACES - 1 \in 0..(PLACES - 1) /\ PLACES > 0
  BY CollectorAssumption
<1>2. l * PLACES \in Nat /\ (l + 1) * PLACES = l * PLACES + PLACES
  BY <1>1
<1>3. end_of(l) = l * PLACES + (PLACES - 1)
  BY <1>1, <1>2 DEF end_of
<1>4. QED
  BY <1>1, <1>2, <1>3, Position DEF end_of

LEMMA EndsInOrder ==
    ASSUME NEW k \in Nat, NEW l \in Nat, k <= l
    PROVE  end_of(k) <= end_of(l)
BY EndOf, InLedger

LEMMA LedgersInOrder ==
    ASSUME NEW e \in Nat, NEW f \in Nat, e <= f
    PROVE  cursorLedger(e) <= cursorLedger(f)
<1> DEFINE l == cursorLedger(f)
<1>1. l \in Nat /\ f <= end_of(l) /\ end_of(l) \in Nat
  BY Parts, InLedger, EndOf
<1> HIDE DEF l
<1>2. QED
  BY <1>1, InLedger DEF l

LEMMA Oldest ==
    ASSUME NEW at \in Nat, at >= 1
    PROVE  /\ oldestLedger(at) \in 1..at
           /\ window_start(at) \in Nat /\ window_start(at) <= end_of(at)
           /\ oldestLedger(at) - 1 \in Nat
<1>1. oldestLedger(at) = IF at > WINDOW THEN at - WINDOW + 1 ELSE 1
  BY DEF oldestLedger
<1>2. oldestLedger(at) \in 1..at /\ oldestLedger(at) - 1 \in Nat /\ oldestLedger(at) - 1 <= at
  BY <1>1, CollectorAssumption
<1>3. QED
  BY <1>2, EndOf, EndsInOrder DEF window_start

(* A page is a run of the first events, and full or all of them.           *)
LEMMA FirstFew ==
    ASSUME NEW S \in SUBSET Nat, NEW b \in Nat, \A e \in S : e <= b, NEW n \in Nat, n > 0
    PROVE  /\ first_few(S, n) \subseteq S
           /\ Cardinality(first_few(S, n)) # n => first_few(S, n) = S
           /\ Cardinality(first_few(S, n)) = n =>
                 /\ Max(first_few(S, n)) \in first_few(S, n)
                 /\ \A e \in first_few(S, n) : e <= Max(first_few(S, n))
                 /\ \A e \in S : e <= Max(first_few(S, n)) => e \in first_few(S, n)
<1> DEFINE F == first_few(S, n)
           below(x) == {d \in S : d < x}
<1>1. F \subseteq S /\ \A e \in S : e \in F <=> Cardinality(below(e)) < n
  BY DEF first_few
<1>2. IsFiniteSet(S) /\ IsFiniteSet(F) /\ Cardinality(F) \in Nat
  <2>1. IsFiniteSet(S)
    BY FS_BoundedSetOfNaturals
  <2>2. QED
    BY <1>1, <2>1, FS_Subset, FS_CardinalityType
<1>3. \A x : IsFiniteSet(below(x)) /\ Cardinality(below(x)) \in Nat
  <2>1. \A x : below(x) \in SUBSET S
    OBVIOUS
  <2>2. QED
    BY <1>2, <2>1, FS_Subset, FS_CardinalityType
<1>4. ASSUME NEW x \in S, NEW y \in S, x <= y
      PROVE  Cardinality(below(x)) <= Cardinality(below(y))
  <2>1. below(x) \in SUBSET below(y)
    <3>1. \A d \in S : d \in Nat /\ (d < x => d < y)
      BY <1>4
    <3>2. QED
      BY <3>1
  <2>2. QED
    BY <1>3, <2>1, FS_Subset
<1> HIDE DEF F, below
<1>5. ASSUME F # {}
      PROVE  /\ Max(F) \in F /\ \A e \in F : e <= Max(F)
             /\ \A e \in S : e <= Max(F) => e \in F
  <2>1. Max(F) \in F /\ \A e \in F : e <= Max(F)
    BY <1>1, <1>5, LargestOf
  <2>2. ASSUME NEW e \in S, e <= Max(F)
        PROVE  e \in F
    <3>1. Cardinality(below(e)) <= Cardinality(below(Max(F)))
      BY <1>1, <1>4, <2>1, <2>2
    <3>2. Cardinality(below(Max(F))) < n
      BY <1>1, <2>1
    <3>3. QED
      BY <1>1, <1>3, <3>1, <3>2
  <2>3. QED
    BY <2>1, <2>2
<1>6. Cardinality(F) <= n
  <2>1. CASE F = {}
    BY <2>1, FS_EmptySet
  <2>2. CASE F # {}
    <3> DEFINE m == Max(F)
    <3>1. m \in F /\ \A e \in F : e <= m
      BY <1>5, <2>2
    <3> HIDE DEF m
    <3>2. F \subseteq below(m) \cup {m}
      BY <1>1, <3>1 DEF below
    <3>3. m \notin below(m) /\ Cardinality(below(m)) < n
      BY <1>1, <3>1 DEF below
    <3>4. /\ IsFiniteSet(below(m) \cup {m})
          /\ Cardinality(below(m) \cup {m}) = Cardinality(below(m)) + 1
      BY <1>3, <3>3, FS_AddElement
    <3>5. Cardinality(F) <= Cardinality(below(m) \cup {m})
      BY <3>2, <3>4, FS_Subset
    <3>6. QED
      BY <1>2, <1>3, <3>3, <3>4, <3>5
  <2>3. QED
    BY <2>1, <2>2
<1>7. ASSUME Cardinality(F) < n
      PROVE  F = S
  <2> SUFFICES ASSUME S \ F # {} PROVE FALSE
    BY <1>1
  <2>1. PICK e \in S \ F : \A x \in S \ F : e <= x
    <3>1. S \ F \in SUBSET Nat
      OBVIOUS
    <3>2. QED
      BY <3>1, SmallestOf
  <2>2. below(e) \subseteq F
    <3>1. \A d \in S : d \in Nat /\ e \in Nat
      BY <2>1
    <3>2. \A d \in S : d < e => d \in F
      BY <2>1, <3>1
    <3>3. QED
      BY <3>2 DEF below
  <2>3. Cardinality(below(e)) <= Cardinality(F)
    BY <1>2, <2>2, FS_Subset
  <2>4. QED
    BY <1>1, <1>2, <1>3, <1>7, <2>1, <2>3
<1>8. Cardinality(F) = n => F # {}
  BY FS_EmptySet
<1>9. QED
  BY <1>1, <1>2, <1>5, <1>6, <1>7, <1>8 DEF F

(* What a node answers: all events between the place it answers from and   *)
(* the place it has reached.                                               *)
LEMMA Answer ==
    ASSUME Shape, latest >= 1, NEW p \in Nat, p <= end_of(latest)
    PROVE  /\ answer_from(p).latest = latest
           /\ answer_from(p).events \subseteq events
           /\ answer_from(p).cursor \in Nat
           /\ window_start(latest) <= answer_from(p).cursor
           /\ answer_from(p).cursor <= end_of(latest)
           /\ p <= answer_from(p).cursor
           /\ \A e \in answer_from(p).events : e <= answer_from(p).cursor
           /\ \A e \in events : /\ p < e /\ window_start(latest) < e
                                /\ e <= answer_from(p).cursor
                                => e \in answer_from(p).events
           /\ Cardinality(answer_from(p).events) < PAGE => EndsLedger(answer_from(p).cursor)
<1> DEFINE start == window_start(latest)
           from  == Max({p, start})
           scan  == end_of(cursorLedger(from + 1) + SCAN - 1)
           last  == Max({from, end_of(latest)})
           until == Min({scan, last})
           set   == {e \in events : from < e /\ e <= until}
           found == first_few(set, PAGE)
           cursor == IF Cardinality(found) = PAGE THEN Max(found) ELSE until
<1>1. answer_from(p) = [events |-> found, latest |-> latest, cursor |-> cursor]
  BY DEF answer_from, window_start
<1>2. latest \in Nat /\ start \in Nat /\ start <= end_of(latest) /\ end_of(latest) \in Nat
  BY Oldest, EndOf DEF Shape
<1>3. from \in Nat /\ from = (IF p >= start THEN p ELSE start) /\ from <= end_of(latest)
  BY <1>2, MaxOfTwo
<1> HIDE DEF start, from
<1>4. last = end_of(latest)
  BY <1>2, <1>3, MaxOfTwo
<1>5. scan \in Nat /\ from < scan /\ EndsLedger(scan)
  <2> DEFINE l == cursorLedger(from + 1)
             k == l + SCAN - 1
  <2>1. l \in Nat
    BY <1>3, Parts
  <2>2. from + 1 <= end_of(l) /\ end_of(l) \in Nat
    BY <1>3, <2>1, InLedger, EndOf
  <2>3. k \in Nat /\ l <= k
    BY <2>1, CollectorAssumption
  <2>4. end_of(l) <= end_of(k) /\ end_of(k) \in Nat
    BY <2>1, <2>3, EndsInOrder, EndOf
  <2> HIDE DEF l, k
  <2>5. scan = end_of(k)
    BY DEF k, l
  <2>6. QED
    BY <1>3, <2>2, <2>3, <2>4, <2>5 DEF EndsLedger
<1> HIDE DEF scan, last
<1>6. until \in Nat /\ from <= until /\ until <= end_of(latest) /\ EndsLedger(until)
  <2>1. until = IF scan <= last THEN scan ELSE last
    BY <1>2, <1>4, <1>5, MinOfTwo
  <2>2. EndsLedger(last)
    BY <1>2, <1>4 DEF EndsLedger
  <2>3. QED
    BY <1>2, <1>3, <1>4, <1>5, <2>1, <2>2
<1> HIDE DEF until
<1>7. /\ found \subseteq set
      /\ Cardinality(found) # PAGE => found = set
      /\ Cardinality(found) = PAGE =>
            /\ Max(found) \in found
            /\ \A e \in found : e <= Max(found)
            /\ \A e \in set : e <= Max(found) => e \in found
  <2>1. set \in SUBSET Nat /\ \A e \in set : e <= until
    BY DEF Shape
  <2>2. PAGE \in Nat /\ PAGE > 0
    BY CollectorAssumption
  <2> HIDE DEF set
  <2>3. QED
    BY <1>6, <2>1, <2>2, FirstFew
<1>8. \A e \in set : e \in events /\ e \in Nat /\ from < e /\ e <= until
  BY DEF Shape
<1>9. \A e \in events : from < e /\ e <= until => e \in set
  OBVIOUS
<1> HIDE DEF set, found
<1>10. /\ cursor \in Nat /\ from <= cursor /\ cursor <= until
       /\ \A e \in found : e <= cursor
       /\ \A e \in events : from < e /\ e <= cursor => e \in found
       /\ Cardinality(found) < PAGE => EndsLedger(cursor)
  <2>1. CASE Cardinality(found) = PAGE
    <3>1. cursor = Max(found)
      BY <2>1
    <3>2. cursor \in found /\ cursor \in set
      BY <1>7, <2>1, <3>1
    <3>3. ~(Cardinality(found) < PAGE)
      BY <2>1, CollectorAssumption
    <3> HIDE DEF cursor
    <3>4. \A e \in events : from < e /\ e <= cursor => e \in set
      BY <1>6, <1>8, <1>9, <3>2 DEF Shape
    <3>5. QED
      BY <1>3, <1>6, <1>7, <1>8, <2>1, <3>1, <3>2, <3>3, <3>4
  <2>2. CASE Cardinality(found) # PAGE
    BY <1>3, <1>6, <1>7, <1>8, <1>9, <2>2
  <2>3. QED
    BY <2>1, <2>2
<1> HIDE DEF cursor
<1>11. \A e \in events : p < e /\ start < e => from < e
  BY <1>3
<1>12. found \subseteq events
  BY <1>7, <1>8
<1>13. p <= from /\ start <= from
  BY <1>2, <1>3
<1>14. /\ p <= cursor /\ start <= cursor /\ cursor <= end_of(latest)
  BY <1>2, <1>3, <1>6, <1>10, <1>13
<1>15. QED
  BY <1>1, <1>10, <1>11, <1>12, <1>14 DEF start

-----------------------------------------------------------------------------
(* What was read or reported stays so, whoever goes on.                    *)
LEMMA PlaceKept ==
    ASSUME NEW row, NEW at, NEW evs, NEW seen, NEW lost, NEW more, NEW named,
           PlaceGood(row, at, evs, seen, lost), seen \subseteq more, lost \subseteq named
    PROVE  PlaceGood(row, at, evs, more, named)
BY DEF PlaceGood, AllRead

LEMMA RunKept ==
    ASSUME NEW r, NEW at, NEW evs, NEW seen, NEW lost, NEW more, NEW named,
           RunGood(r, at, evs, seen, lost), seen \subseteq more, lost \subseteq named
    PROVE  RunGood(r, at, evs, more, named)
<1>1. r.step \in Active => PlaceGood(r.previous, at, evs, more, named)
  BY PlaceKept DEF RunGood
<1>2. r.step \in Reading /\ ~IsFirst(r) =>
         AllRead(evs, r.cursor, named \cup r.gap \cup r.skipped, more \cup r.page.events)
  BY DEF RunGood, AllRead, Reading, Active
<1>3. QED
  BY <1>1, <1>2 DEF RunGood, Reading, Active

(* A ledger closes: its events lie behind no place there is.               *)
LEMMA PlaceClosed ==
    ASSUME NEW at \in Nat, NEW evs \in SUBSET Nat, NEW new \in SUBSET Nat, NEW seen, NEW lost,
           \A e \in new : cursorLedger(e) = at + 1,
           NEW row, row.cursor \in Nat, row.last_ledger \in Nat,
           PlaceGood(row, at, evs, seen, lost)
    PROVE  PlaceGood(row, at + 1, evs \cup new, seen, lost)
<1>1. end_of(at) \in Nat /\ end_of(at + 1) \in Nat /\ end_of(at) < end_of(at + 1)
  BY EndOf
<1>2. \A e \in new : e > end_of(at)
  BY <1>1, InLedger
<1>3. cursorLedger(row.cursor) \in Nat /\ cursorLedger(row.cursor) <= at
  BY Parts, InLedger DEF PlaceGood
<1>4. row.cursor <= end_of(at + 1)
  BY <1>1 DEF PlaceGood
<1>5. \A e \in new : e > row.cursor /\ cursorLedger(e) > row.last_ledger
  BY <1>1, <1>2, <1>3 DEF PlaceGood
<1>6. AllRead(evs \cup new, row.cursor, lost, seen)
  BY <1>5 DEF PlaceGood, AllRead
<1>7. QED
  BY <1>4, <1>5, <1>6 DEF PlaceGood

LEMMA RunClosed ==
    ASSUME NEW at \in Nat, NEW evs \in SUBSET Nat, NEW new \in SUBSET Nat, NEW seen, NEW lost,
           \A e \in new : cursorLedger(e) = at + 1,
           NEW r \in RunStates, RunGood(r, at, evs, seen, lost),
           r.step \in {"page", "next", "write"} \/ IsFirst(r) => r.cursor >= window_start(at + 1)
    PROVE  RunGood(r, at + 1, evs \cup new, seen, lost)
<1> SUFFICES ASSUME r.step \in Active
             PROVE  RunGood(r, at + 1, evs \cup new, seen, lost)
  BY DEF RunGood
<1>1. end_of(at) \in Nat /\ end_of(at + 1) \in Nat /\ end_of(at) < end_of(at + 1)
  BY EndOf
<1>2. \A e \in new : e > end_of(at)
  BY <1>1, InLedger
<1>3. CREATED <= at + 1
  BY CollectorAssumption DEF RunGood
<1>4. PlaceGood(r.previous, at + 1, evs \cup new, seen, lost)
  <2>1. r.previous.cursor \in Nat /\ r.previous.last_ledger \in Nat
    BY DEF RunStates, Places
  <2>2. QED
    BY <2>1, PlaceClosed DEF RunGood
<1>5. r.step \in Reading /\ ~IsFirst(r) =>
         /\ r.cursor <= end_of(at + 1)
         /\ AllRead(evs \cup new, r.cursor, lost \cup r.gap \cup r.skipped, seen \cup r.page.events)
  <2> SUFFICES ASSUME r.step \in Reading, ~IsFirst(r)
               PROVE  /\ r.cursor <= end_of(at + 1)
                      /\ AllRead(evs \cup new, r.cursor, lost \cup r.gap \cup r.skipped,
                                 seen \cup r.page.events)
    OBVIOUS
  <2>1. r.cursor \in Nat /\ r.cursor <= end_of(at)
    BY DEF RunGood, RunStates
  <2>2. \A e \in new : ~(e <= r.cursor)
    <3>1. \A e \in new : e \in Nat
      OBVIOUS
    <3>2. QED
      BY <1>1, <1>2, <2>1, <3>1
  <2>3. QED
    BY <1>1, <2>1, <2>2 DEF RunGood, AllRead
<1>6. r.step = "page" => r.page.events \subseteq evs \cup new
  BY DEF RunGood
<1>7. QED
  BY <1>3, <1>4, <1>5, <1>6 DEF RunGood

LEMMA CloseKeeps ==
    ASSUME IInv, Close
    PROVE  IInv'
<1>1. /\ latest' = latest + 1 /\ UNCHANGED <<chain_events, collector_state, run, gone>>
      /\ \A c \in Runs : ~outpaced(c, latest + 1)
  BY DEF Close, history, gone
<1>2. PICK n \in 0..(PLACES - 1) :
         /\ latest' < CREATED => n = 0
         /\ events' = events \cup {latest' * PLACES + i : i \in 0..(n - 1)}
  BY DEF Close
<1> DEFINE new == {latest' * PLACES + i : i \in 0..(n - 1)}
<1>3. latest \in Nat /\ latest' \in Nat /\ events \in SUBSET Nat
  BY <1>1 DEF IInv, Shape
<1>4. new \in SUBSET Nat /\ \A e \in new : cursorLedger(e) = latest' /\ CREATED <= latest'
  <2>1. ASSUME NEW i \in 0..(n - 1)
        PROVE  /\ latest' * PLACES + i \in Nat
               /\ cursorLedger(latest' * PLACES + i) = latest'
               /\ CREATED <= latest'
    <3>1. PLACES \in Nat /\ PLACES > 1 /\ CREATED \in Nat
      BY CollectorAssumption
    <3>2. n \in Nat /\ n <= PLACES - 1 /\ i \in Nat /\ i <= n - 1
      BY <3>1
    <3>3. i \in 0..(PLACES - 1) /\ n # 0
      BY <3>1, <3>2
    <3>4. latest' * PLACES \in Nat
      BY <1>3, <3>1, Product
    <3>5. cursorLedger(latest' * PLACES + i) = latest'
      BY <1>3, <3>3, Position
    <3>6. CREATED <= latest'
      BY <1>2, <1>3, <3>1, <3>3
    <3>7. QED
      BY <3>2, <3>4, <3>5, <3>6
  <2>2. QED
    BY <2>1
<1>5. events' = events \cup new
  BY <1>2
<1> HIDE DEF new
<1>6. Shape'
  <2>1. \A e \in events' : CREATED <= cursorLedger(e) /\ cursorLedger(e) <= latest'
    <3>1. \A e \in events : cursorLedger(e) \in Nat /\ CREATED <= cursorLedger(e)
                            /\ cursorLedger(e) <= latest
      BY Parts DEF IInv, Shape
    <3>2. QED
      BY <1>1, <1>3, <1>4, <1>5, <3>1
  <2>2. QED
    BY <1>1, <1>3, <1>4, <1>5, <2>1 DEF IInv, Shape
<1>7. PlaceGood(collector_state, latest', events', chain_events, gone)
  BY <1>1, <1>3, <1>4, <1>5, PlaceClosed DEF IInv, Shape
<1>8. \A c \in Runs : RunGood(run[c], latest', events', chain_events, gone)
  <2> SUFFICES ASSUME NEW c \in Runs
               PROVE  RunGood(run[c], latest', events', chain_events, gone)
    OBVIOUS
  <2>1. run[c] \in RunStates /\ RunGood(run[c], latest, events, chain_events, gone)
    BY DEF IInv, Shape
  <2>2. run[c].step \in {"page", "next", "write"} \/ IsFirst(run[c])
            => run[c].cursor >= window_start(latest + 1)
    <3>1. window_start(latest + 1) \in Nat /\ run[c].cursor \in Nat
      BY <1>3, <2>1, Oldest DEF RunStates
    <3>2. QED
      BY <1>1, <3>1 DEF outpaced, window_start, IsFirst
  <2>3. QED
    BY <1>1, <1>3, <1>4, <1>5, <2>1, <2>2, RunClosed
<1>9. QED
  BY <1>1, <1>6, <1>7, <1>8 DEF IInv

-----------------------------------------------------------------------------
(* A run goes on by itself: what there is to read stays.                   *)
LEMMA RunMoves ==
    ASSUME IInv, NEW c \in Runs, NEW h \in RunStates, run' = [run EXCEPT ![c] = h],
           UNCHANGED <<latest, events>>,
           chain_events \subseteq chain_events', gone \subseteq gone',
           RunGood(h, latest, events, chain_events', gone'),
           collector_state'.cursor \in Nat, collector_state'.last_ledger \in Nat,
           PlaceGood(collector_state', latest, events, chain_events', gone')
    PROVE  IInv'
<1>1. /\ run' \in [Runs -> RunStates] /\ run'[c] = h
      /\ \A q \in Runs : q # c => run'[q] = run[q]
  BY DEF IInv, Shape
<1>2. Shape'
  BY <1>1 DEF IInv, Shape
<1>3. \A q \in Runs : RunGood(run'[q], latest, events, chain_events', gone')
  <2>1. \A q \in Runs : RunGood(run[q], latest, events, chain_events, gone)
    BY DEF IInv
  <2>2. \A q \in Runs : RunGood(run[q], latest, events, chain_events', gone')
    BY <2>1, RunKept
  <2>3. QED
    BY <1>1, <2>2
<1>4. QED
  BY <1>2, <1>3 DEF IInv

LEMMA Blank ==
    /\ not_running \in RunStates
    /\ \A c \in Runs :
          LET h == [not_running EXCEPT !.step = IF c \in ByHand THEN "over" ELSE "none"]
          IN  h \in RunStates /\ h.step \notin Active
BY DEF not_running, RunStates, Places, Pages, Active

(* A run that ends leaves the row as it was, or with a good place.         *)
LEMMA OverKeeps ==
    ASSUME IInv, NEW c \in Runs, over(c), UNCHANGED <<latest, events, chain_events>>,
           gone \subseteq gone',
           collector_state'.cursor \in Nat, collector_state'.last_ledger \in Nat,
           PlaceGood(collector_state', latest, events, chain_events, gone')
    PROVE  IInv'
<1> DEFINE h == [not_running EXCEPT !.step = IF c \in ByHand THEN "over" ELSE "none"]
<1>1. h \in RunStates /\ h.step \notin Active
  BY Blank
<1>2. run' = [run EXCEPT ![c] = h]
  BY DEF over, becomes
<1> HIDE DEF h
<1>3. RunGood(h, latest, events, chain_events', gone')
  BY <1>1 DEF RunGood
<1>4. QED
  BY <1>1, <1>2, <1>3, RunMoves

(* The row of a run that fails: the place it found.                        *)
LEMMA PreviousIsGood ==
    ASSUME IInv, NEW c \in Runs, run[c].step \in Active, keep_place(c)
    PROVE  /\ collector_state'.cursor \in Nat /\ collector_state'.last_ledger \in Nat
           /\ PlaceGood(collector_state', latest, events, chain_events, gone)
<1>1. /\ run[c] \in RunStates
      /\ PlaceGood(run[c].previous, latest, events, chain_events, gone)
  BY DEF IInv, Shape, RunGood
<1>2. /\ collector_state'.cursor = run[c].previous.cursor
      /\ collector_state'.last_ledger = run[c].previous.last_ledger
  BY DEF keep_place
<1>3. run[c].previous.cursor \in Nat /\ run[c].previous.last_ledger \in Nat
  BY <1>1 DEF RunStates, Places
<1>4. QED
  BY <1>1, <1>2, <1>3 DEF PlaceGood

LEMMA FailKeeps ==
    ASSUME IInv, NEW c \in Runs, fail(c)
    PROVE  IInv'
<1>1. /\ UNCHANGED <<latest, events, chain_events, gone>>
      /\ over(c) /\ run[c].step \notin {"none", "over"}
      /\ keep_place(c) \/ UNCHANGED collector_state
  BY DEF fail, history, gone
<1>2. run[c].step \in Active
  BY <1>1 DEF IInv, Shape, RunStates
<1>3. /\ collector_state'.cursor \in Nat /\ collector_state'.last_ledger \in Nat
      /\ PlaceGood(collector_state', latest, events, chain_events, gone)
  BY <1>1, <1>2, PreviousIsGood DEF IInv, Shape
<1>4. QED
  BY <1>1, <1>3, OverKeeps

LEMMA RefusedKeeps ==
    ASSUME IInv, NEW c \in Runs, refused(c)
    PROVE  IInv'
BY PreviousIsGood, OverKeeps DEF refused, Active, history, gone

LEMMA BeginKeeps ==
    ASSUME IInv, NEW c \in Runs, begin(c)
    PROVE  IInv'
<1> DEFINE row == collector_state
           h == started(row)
<1>1. /\ UNCHANGED <<latest, events, chain_events, collector_state, gone>>
      /\ latest >= CREATED /\ run' = [run EXCEPT ![c] = h]
  BY DEF begin, becomes, history, gone
<1>2. /\ row.cursor \in Nat /\ row.last_ledger \in Nat
      /\ PlaceGood(row, latest, events, chain_events, gone)
  BY DEF IInv, Shape
<1>3. /\ h \in RunStates
      /\ h.step = IF row.cursor = 0 THEN "health" ELSE "first"
      /\ h.previous.cursor = row.cursor /\ h.previous.last_ledger = row.last_ledger
      /\ h.cursor = row.cursor /\ h.last_ledger = row.last_ledger
      /\ h.gap = {} /\ h.skipped = {} /\ h.page.events = {}
  BY <1>2 DEF started, not_running, RunStates, Places, Pages, Active
<1> HIDE DEF h
<1>4. PlaceGood(h.previous, latest, events, chain_events, gone)
  BY <1>2, <1>3 DEF PlaceGood
<1>5. AllRead(events, h.cursor, gone \cup h.gap \cup h.skipped, chain_events \cup h.page.events)
  BY <1>2, <1>3 DEF PlaceGood, AllRead
<1>6. h.cursor <= end_of(latest) /\ h.last_ledger <= cursorLedger(h.cursor)
  BY <1>2, <1>3 DEF PlaceGood
<1>7. CREATED <= latest
  BY <1>1, CollectorAssumption DEF IInv, Shape
<1>8. h.step = "health" => h.previous.cursor = 0 /\ h.last_ledger = 0
  BY <1>2, <1>3 DEF PlaceGood
<1>9. RunGood(h, latest, events, chain_events, gone)
  <2>1. ~IsFirst(h)
    BY <1>3 DEF IsFirst
  <2>2. QED
    BY <1>3, <1>4, <1>5, <1>6, <1>7, <1>8, <2>1 DEF RunGood
<1>10. QED
  BY <1>1, <1>2, <1>3, <1>9, RunMoves

(* The first run: what lies before its start is named, or left out.        *)
LEMMA GetHealthKeeps ==
    ASSUME IInv, NEW c \in Runs, getHealth(c)
    PROVE  IInv'
<1> DEFINE oldest == oldestLedger(latest)
<1>1. PICK deployed \in Settings :
         /\ run[c].step = "health"
         /\ LET start == Max({oldest + 1, deployed})
                gap   == first_gap(deployed, oldest)
            IN  becomes(c, [run[c] EXCEPT !.step = "first", !.cursor = end_of(start - 1),
                               !.gap = gap, !.skipped = left_out(deployed, start, gap)])
         /\ UNCHANGED <<latest, events, chain_events, collector_state, failures, history>>
  BY DEF getHealth
<1> DEFINE start == Max({oldest + 1, deployed})
           gap == first_gap(deployed, oldest)
           skipped == left_out(deployed, start, gap)
           upto == start - 1
           h == [run[c] EXCEPT !.step = "first", !.cursor = end_of(upto),
                               !.gap = gap, !.skipped = skipped]
<1>2. /\ UNCHANGED <<latest, events, chain_events, collector_state, gone>>
      /\ run' = [run EXCEPT ![c] = h]
  BY <1>1 DEF becomes, history, gone
<1>3. run[c] \in RunStates /\ RunGood(run[c], latest, events, chain_events, gone)
  BY DEF IInv, Shape
<1>4. /\ latest \in Nat /\ latest >= 1 /\ CREATED \in Nat /\ CREATED >= 1 /\ CREATED <= latest
      /\ oldest \in 1..latest /\ oldest - 1 \in Nat /\ deployed \in Nat
  <2>1. /\ latest \in Nat /\ latest >= 1 /\ CREATED \in Nat /\ CREATED >= 1
        /\ CREATED <= latest /\ deployed \in Nat
    BY <1>1, <1>3, CollectorAssumption DEF IInv, Shape, RunGood, Active
  <2>2. QED
    BY <2>1, Oldest
<1> HIDE DEF oldest
<1>5. /\ start = (IF oldest + 1 >= deployed THEN oldest + 1 ELSE deployed)
      /\ upto \in Nat /\ oldest - 1 <= upto
  BY <1>4, MaxOfTwo
<1> HIDE DEF start
<1>6. gap \in SUBSET Nat /\ skipped \in SUBSET Nat
  BY <1>4, <1>5 DEF first_gap, left_out
<1>7. \A l \in Nat : CREATED <= l /\ l <= upto => l \in gap \cup skipped
  BY <1>4, <1>5 DEF first_gap, left_out
<1> HIDE DEF upto, gap, skipped
<1>8. end_of(upto) \in Nat /\ cursorLedger(end_of(upto)) = upto
      /\ window_start(latest) <= end_of(upto)
  BY <1>4, <1>5, EndOf, EndsInOrder DEF window_start, oldest
<1>9. /\ h \in RunStates /\ h.step = "first" /\ h.cursor = end_of(upto)
      /\ h.gap = gap /\ h.skipped = skipped
      /\ h.previous = run[c].previous /\ h.last_ledger = run[c].last_ledger
      /\ h.page = run[c].page
  BY <1>3, <1>6, <1>8 DEF RunStates, Active
<1> HIDE DEF h
<1>10. h.previous.cursor = 0 /\ h.last_ledger = 0 /\ h.page.events = {} /\ IsFirst(h)
  BY <1>1, <1>3, <1>9 DEF RunGood, Active, IsFirst
<1>11. PlaceGood(h.previous, latest, events, chain_events, gone)
  BY <1>1, <1>3, <1>9 DEF RunGood, Active
<1>12. RunGood(h, latest, events, chain_events, gone)
  BY <1>4, <1>5, <1>7, <1>8, <1>9, <1>10, <1>11 DEF RunGood
<1>13. QED
  BY <1>2, <1>9, <1>12, RunMoves DEF IInv, Shape

(* A page: what it skips has left the window, and is in the run's gap.     *)
LEMMA GetEventsKeeps ==
    ASSUME IInv, NEW c \in Runs, getEvents(c)
    PROVE  IInv'
<1> DEFINE r == run[c]
           a == answer_from(r.cursor)
           oldest == oldestLedger(latest)
           gap == IF r.step = "first" THEN gap_of(r.previous, oldest, r.gap) ELSE r.gap
           page == [events |-> a.events, latest |-> a.latest]
           h == [r EXCEPT !.step = "page", !.cursor = a.cursor, !.page = page, !.gap = gap]
<1>1. /\ UNCHANGED <<latest, events, chain_events, collector_state, gone>>
      /\ r.step \in {"first", "next"}
  BY DEF getEvents, history, gone
<1>2. r \in RunStates /\ RunGood(r, latest, events, chain_events, gone)
  BY DEF IInv, Shape
<1>3. run' = [run EXCEPT ![c] = h]
  <2>1. run' = [run EXCEPT ![c] = [r EXCEPT
              !.step = "page",
              !.cursor = a.cursor,
              !.page = [events |-> a.events, latest |-> a.latest],
              !.gap = IF r.step = "first" THEN gap_of(r.previous, oldestLedger(latest), @) ELSE @]]
    BY DEF getEvents, becomes
  <2>2. QED
    BY <1>2, <2>1 DEF RunStates
<1> HIDE DEF r
<1>4. /\ latest \in Nat /\ latest >= 1 /\ CREATED \in Nat /\ CREATED <= latest
      /\ r.cursor \in Nat /\ r.cursor <= end_of(latest)
      /\ r.previous.cursor \in Nat /\ r.previous.last_ledger \in Nat /\ r.gap \in SUBSET Nat
      /\ r.last_ledger \in Nat /\ events \in SUBSET Nat
  <2>1. r.cursor < end_of(latest) \/ ~IsFirst(r)
    <3>1. ~starts_late(r)
      BY DEF getEvents, r
    <3>2. end_of(latest) \in Nat /\ r.cursor \in Nat
      BY <1>2, EndOf DEF IInv, Shape, RunStates
    <3>3. QED
      BY <3>1, <3>2 DEF starts_late, IsFirst
  <2>2. QED
    BY <1>1, <1>2, <2>1, EndOf, CollectorAssumption
       DEF IInv, Shape, RunGood, Active, Reading, RunStates, Places
<1>5. /\ a.latest = latest /\ a.events \subseteq events
      /\ a.cursor \in Nat /\ window_start(latest) <= a.cursor /\ a.cursor <= end_of(latest)
      /\ r.cursor <= a.cursor
      /\ \A e \in a.events : e <= a.cursor
      /\ \A e \in events :
            r.cursor < e /\ window_start(latest) < e /\ e <= a.cursor => e \in a.events
      /\ Cardinality(a.events) < PAGE => EndsLedger(a.cursor)
  BY <1>4, Answer DEF IInv
<1>6. oldest \in 1..latest /\ oldest - 1 \in Nat /\ window_start(latest) \in Nat
  BY <1>4, Oldest
<1> HIDE DEF a, oldest
<1>7. gap \in SUBSET Nat
  <2>1. (r.previous.last_ledger + 1)..(oldest - 1) \in SUBSET Nat
    BY <1>4, <1>6
  <2>2. QED
    BY <1>4, <2>1 DEF gap_of
<1>8. /\ page \in Pages /\ page.events = a.events /\ page.latest = latest
  BY <1>4, <1>5 DEF Pages
<1> HIDE DEF page, gap
<1>9. /\ h \in RunStates /\ h.step = "page" /\ h.cursor = a.cursor /\ h.page = page
      /\ h.gap = gap /\ h.skipped = r.skipped
      /\ h.previous = r.previous /\ h.last_ledger = r.last_ledger
  BY <1>2, <1>5, <1>7, <1>8 DEF RunStates, Active
<1> HIDE DEF h
<1>10. r.gap \subseteq gap
  <2>1. CASE r.step = "next"
    BY <2>1 DEF gap
  <2>2. CASE r.step = "first" /\ r.previous.cursor = 0
    <3>1. r.previous.last_ledger = 0
      BY <1>2, <2>2 DEF RunGood, PlaceGood, Active
    <3>2. QED
      BY <2>2, <3>1 DEF gap, gap_of
  <2>3. CASE r.step = "first" /\ r.previous.cursor # 0
    BY <1>2, <2>3 DEF RunGood, Active
  <2>4. QED
    BY <1>1, <2>1, <2>2, <2>3
<1>11. ASSUME NEW e \in events, r.cursor < e, e <= window_start(latest)
       PROVE  cursorLedger(e) \in gap
  <2>1. e \in Nat /\ cursorLedger(e) \in Nat /\ cursorLedger(e) <= oldest - 1
    BY <1>4, <1>6, <1>11, Parts, InLedger DEF window_start, oldest
  <2>2. r.step = "first" /\ r.previous.cursor # 0
    BY <1>1, <1>2, <1>4, <1>6, <1>11, <2>1 DEF RunGood, Active, IsFirst
  <2>3. r.cursor = r.previous.cursor
    BY <1>2, <2>2 DEF RunGood, Active
  <2>4. r.previous.last_ledger < cursorLedger(e) /\ r.previous.last_ledger # 0
    BY <1>2, <1>4, <1>11, <2>1, <2>2, <2>3 DEF RunGood, PlaceGood, Active
  <2>5. QED
    BY <1>4, <1>6, <2>1, <2>2, <2>4 DEF gap, gap_of
<1>12. AllRead(events, h.cursor, gone \cup h.gap \cup h.skipped, chain_events \cup h.page.events)
  <2> SUFFICES ASSUME NEW e \in events, e <= a.cursor
               PROVE  e \in chain_events \cup a.events \/ cursorLedger(e) \in gone \cup gap \cup r.skipped
    BY <1>8, <1>9 DEF AllRead
  <2>1. CASE e <= r.cursor
    <3>1. r.page.events = {}
      BY <1>1, <1>2 DEF RunGood, Active
    <3>2. e \in chain_events \/ cursorLedger(e) \in gone \cup r.gap \cup r.skipped
      <4>1. CASE IsFirst(r)
        <5>1. e \in Nat /\ cursorLedger(e) \in Nat /\ CREATED <= cursorLedger(e)
          BY Parts DEF IInv, Shape
        <5>2. cursorLedger(e) <= cursorLedger(r.cursor)
          BY <1>4, <2>1, <5>1, LedgersInOrder
        <5>3. QED
          BY <1>1, <1>2, <4>1, <5>1, <5>2 DEF RunGood, Active
      <4>2. CASE ~IsFirst(r)
        BY <1>1, <1>2, <2>1, <3>1, <4>2 DEF RunGood, AllRead, Active, Reading
      <4>3. QED
        BY <4>1, <4>2
    <3>3. QED
      BY <1>10, <3>2
  <2>2. CASE r.cursor < e /\ e <= window_start(latest)
    BY <1>11, <2>2
  <2>3. CASE r.cursor < e /\ window_start(latest) < e
    BY <1>5, <2>3
  <2>4. QED
    BY <1>4, <1>6, <2>1, <2>2, <2>3
<1>13. h.last_ledger <= cursorLedger(h.cursor)
  <2>1. r.last_ledger <= cursorLedger(r.cursor)
    BY <1>1, <1>2 DEF RunGood, Active, Reading
  <2>2. cursorLedger(r.cursor) <= cursorLedger(a.cursor)
        /\ cursorLedger(r.cursor) \in Nat /\ cursorLedger(a.cursor) \in Nat
    BY <1>4, <1>5, LedgersInOrder, Parts
  <2>3. QED
    BY <1>4, <1>9, <2>1, <2>2
<1>14. PlaceGood(h.previous, latest, events, chain_events, gone)
  BY <1>1, <1>2, <1>9 DEF RunGood, Active
<1>15. RunGood(h, latest, events, chain_events, gone)
  <2>1. ~IsFirst(h)
    BY <1>9 DEF IsFirst
  <2>2. QED
    BY <1>4, <1>5, <1>6, <1>8, <1>9, <1>12, <1>13, <1>14, <2>1 DEF RunGood
<1>16. QED
  BY <1>1, <1>3, <1>9, <1>15, RunMoves DEF IInv, Shape

LEMMA UpsertKeeps ==
    ASSUME IInv, NEW c \in Runs, upsert(c)
    PROVE  IInv'
<1> DEFINE r == run[c]
           ledgers == {r.last_ledger} \cup {cursorLedger(e) : e \in r.page.events}
           page == [events |-> {}, latest |-> IF caught_up(r) THEN r.page.latest ELSE 0]
           h == [r EXCEPT !.step = IF caught_up(r) THEN "write" ELSE "next",
                          !.page = page, !.last_ledger = Max(ledgers)]
<1>1. /\ UNCHANGED <<latest, events, collector_state, gone>>
      /\ r.step = "page" /\ chain_events' = chain_events \cup r.page.events
  BY DEF upsert, history, gone
<1>2. r \in RunStates /\ RunGood(r, latest, events, chain_events, gone)
  BY DEF IInv, Shape
<1>3. run' = [run EXCEPT ![c] = h]
  <2>1. run' = [run EXCEPT ![c] = [r EXCEPT
              !.step = IF caught_up(r) THEN "write" ELSE "next",
              !.page = [events |-> {}, latest |-> IF caught_up(r) THEN @.latest ELSE 0],
              !.last_ledger = Max({@} \cup {cursorLedger(e) : e \in r.page.events})]]
    BY DEF upsert, becomes
  <2>2. QED
    BY <1>2, <2>1 DEF RunStates
<1> HIDE DEF r
<1>4. /\ CREATED <= latest /\ r.cursor \in Nat /\ r.cursor <= end_of(latest)
      /\ r.last_ledger \in Nat /\ r.last_ledger <= cursorLedger(r.cursor)
      /\ cursorLedger(r.cursor) \in Nat
      /\ AllRead(events, r.cursor, gone \cup r.gap \cup r.skipped, chain_events \cup r.page.events)
      /\ r.cursor >= window_start(latest)
      /\ \A e \in r.page.events : e \in Nat /\ e <= r.cursor
      /\ r.page.latest \in Nat /\ CREATED <= r.page.latest
      /\ Cardinality(r.page.events) < PAGE => EndsLedger(r.cursor)
      /\ PlaceGood(r.previous, latest, events, chain_events, gone)
  BY <1>1, <1>2, Parts DEF RunGood, IsFirst, Active, Reading, RunStates, Pages, IInv, Shape
<1>5. Max(ledgers) \in Nat /\ Max(ledgers) <= cursorLedger(r.cursor)
  <2>1. \A e \in r.page.events :
           cursorLedger(e) \in Nat /\ cursorLedger(e) <= cursorLedger(r.cursor)
    <3> SUFFICES ASSUME NEW e \in r.page.events
                 PROVE  cursorLedger(e) \in Nat /\ cursorLedger(e) <= cursorLedger(r.cursor)
      OBVIOUS
    <3> DEFINE l == cursorLedger(r.cursor)
    <3>1. e \in Nat /\ e <= r.cursor /\ l \in Nat
      BY <1>4
    <3>2. r.cursor <= end_of(l) /\ end_of(l) \in Nat
      BY <1>4, <3>1, InLedger, EndOf
    <3> HIDE DEF l
    <3>3. e <= end_of(l)
      BY <1>4, <3>1, <3>2
    <3>4. QED
      BY <3>1, <3>3, InLedger, Parts DEF l
  <2>2. ledgers \in SUBSET Nat /\ ledgers # {}
        /\ \A l \in ledgers : l <= cursorLedger(r.cursor)
    BY <1>4, <2>1
  <2> HIDE DEF ledgers
  <2>3. QED
    BY <1>4, <2>2, LargestOf
<1> HIDE DEF ledgers
<1>6. page \in Pages /\ page.events = {} /\ (caught_up(r) => page.latest = r.page.latest)
  BY <1>4 DEF Pages
<1> HIDE DEF page
<1>7. /\ h \in RunStates /\ h.step = (IF caught_up(r) THEN "write" ELSE "next")
      /\ h.cursor = r.cursor /\ h.page = page /\ h.last_ledger = Max(ledgers)
      /\ h.gap = r.gap /\ h.skipped = r.skipped /\ h.previous = r.previous
  BY <1>2, <1>5, <1>6 DEF RunStates, Active
<1> HIDE DEF h
<1>8. AllRead(events, h.cursor, gone \cup h.gap \cup h.skipped, chain_events' \cup h.page.events)
  BY <1>1, <1>4, <1>6, <1>7 DEF AllRead
<1>9. caught_up(r) => EndsLedger(r.cursor) /\ r.page.latest <= cursorLedger(r.cursor)
  BY <1>4 DEF caught_up
<1>10. /\ PlaceGood(h.previous, latest, events, chain_events', gone)
       /\ PlaceGood(collector_state, latest, events, chain_events', gone)
  BY <1>1, <1>4, <1>7, PlaceKept DEF IInv
<1>11. RunGood(h, latest, events, chain_events', gone)
  <2>1. ~IsFirst(h)
    BY <1>7 DEF IsFirst
  <2>2. QED
    BY <1>4, <1>5, <1>6, <1>7, <1>8, <1>9, <1>10, <2>1 DEF RunGood
<1>12. QED
  BY <1>1, <1>3, <1>7, <1>10, <1>11, RunMoves DEF IInv, Shape

(* The row's new place: the end of a ledger, and nothing before it lost    *)
(* that is not named.                                                      *)
LEMMA WriteStateKeeps ==
    ASSUME IInv, NEW c \in Runs, writeState(c)
    PROVE  IInv'
<1> DEFINE r == run[c]
           ledger == IF r.last_ledger # 0 THEN r.last_ledger ELSE r.page.latest
           at == cursorLedger(r.cursor)
<1>1. /\ UNCHANGED <<latest, events, chain_events>>
      /\ r.step = "write" /\ over(c) /\ gone' = gone \cup r.gap \cup r.skipped
      /\ collector_state'.cursor = r.cursor /\ collector_state'.last_ledger = ledger
  BY DEF writeState, gone
<1>2. r \in RunStates /\ RunGood(r, latest, events, chain_events, gone)
  BY DEF IInv, Shape
<1> HIDE DEF r
<1>3. /\ r.cursor \in Nat /\ r.cursor <= end_of(latest) /\ at \in Nat
      /\ r.last_ledger \in Nat /\ r.last_ledger <= at
      /\ r.page.latest \in Nat /\ CREATED <= r.page.latest /\ r.page.latest <= at
      /\ EndsLedger(r.cursor) /\ r.page.events = {}
      /\ AllRead(events, r.cursor, gone \cup r.gap \cup r.skipped, chain_events \cup r.page.events)
      /\ CREATED \in Nat /\ CREATED >= 1
  BY <1>1, <1>2, CollectorAssumption, Parts
     DEF RunGood, IsFirst, Active, Reading, RunStates, Pages
<1>4. ledger \in Nat /\ ledger >= 1 /\ ledger <= at
  BY <1>3
<1> HIDE DEF ledger
<1>5. r.cursor # 0
  <2>1. cursorLedger(0) <= 0
    BY EndOf, InLedger
  <2>2. QED
    BY <1>3, <1>4, <2>1
<1>6. \A e \in events : e > r.cursor => cursorLedger(e) > ledger
  <2> SUFFICES ASSUME NEW e \in events, e > r.cursor
               PROVE  cursorLedger(e) > ledger
    OBVIOUS
  <2>1. r.cursor = end_of(at)
    BY <1>3, EndOf DEF EndsLedger
  <2>2. e \in Nat /\ cursorLedger(e) \in Nat
    BY Parts DEF IInv, Shape
  <2> HIDE DEF at
  <2>3. ~(e <= end_of(at))
    BY <1>3, <2>1, <2>2
  <2>4. ~(cursorLedger(e) <= at)
    BY <1>3, <2>2, <2>3, InLedger
  <2>5. QED
    BY <1>3, <1>4, <2>2, <2>4
<1>7. AllRead(events, r.cursor, gone', chain_events)
  BY <1>1, <1>3 DEF AllRead
<1>8. PlaceGood(collector_state', latest, events, chain_events, gone')
  BY <1>1, <1>3, <1>4, <1>5, <1>6, <1>7 DEF PlaceGood
<1>9. QED
  BY <1>1, <1>3, <1>4, <1>8, OverKeeps

-----------------------------------------------------------------------------
LEMMA InitEstablishes == CollectorInit => IInv
<1> SUFFICES ASSUME CollectorInit PROVE IInv
  OBVIOUS
<1>1. /\ latest = 0 /\ events = {} /\ run = [c \in Runs |-> not_running]
      /\ collector_state.cursor = 0 /\ collector_state.last_ledger = 0
  BY DEF CollectorInit
<1>2. Shape
  BY <1>1, Blank DEF Shape
<1>3. PlaceGood(collector_state, latest, events, chain_events, gone)
  <2>1. end_of(0) \in Nat /\ cursorLedger(0) \in Nat
    BY EndOf, Parts
  <2>2. QED
    BY <1>1, <2>1 DEF PlaceGood, AllRead
<1>4. \A c \in Runs : run[c].step \notin Active
  BY <1>1 DEF not_running, Active
<1>5. QED
  BY <1>2, <1>3, <1>4 DEF IInv, RunGood

LEMMA NextKeeps == IInv /\ [CollectorNext]_collector => IInv'
<1> SUFFICES ASSUME IInv, [CollectorNext]_collector PROVE IInv'
  OBVIOUS
<1>1. CASE UNCHANGED collector
  BY <1>1 DEF collector, history, gone, IInv, Shape
<1>2. ASSUME NEW c \in Runs, begin(c) \/ collect(c) \/ fail(c) \/ refused(c)
      PROVE  IInv'
  BY <1>2, BeginKeeps, GetHealthKeeps, GetEventsKeeps, UpsertKeeps, WriteStateKeeps,
     FailKeeps, RefusedKeeps DEF collect
<1>3. QED
  BY <1>1, <1>2, CloseKeeps DEF CollectorNext

(* What the steps keep: up to every place that a row or a run holds,       *)
(* everything was read, or is in a ledger that is or will be named, or was *)
(* left out by a first run for want of the right setting.                  *)
THEOREM InductiveInvariant == CollectorSpec => []IInv
BY InitEstablishes, NextKeeps, PTL DEF CollectorSpec

(* Whatever lies behind the cursor is in the database, in a ledger some    *)
(* run named as lost, or before the start of a first run that was not told *)
(* rightly of the deployment: side by side, through failures and a moving  *)
(* window, whatever POLICY_DEPLOY_LEDGER says.                             *)
THEOREM NoLossUnreported == CollectorSpec => []LossIsReported
<1>1. IInv => LossIsReported
  BY DEF IInv, PlaceGood, AllRead, LossIsReported, gone
<1>2. QED
  BY <1>1, InductiveInvariant, PTL

(* A first run that is told of the account's first ledger, or of one       *)
(* before it, leaves nothing out: every loss is named.                     *)
Told == unasked = {} /\ \A c \in Runs : run[c].skipped = {}

LEMMA ToldKeeps ==
    ASSUME Settings \subseteq 1..CREATED, IInv, Told, [CollectorNext]_collector
    PROVE  Told'
<1>1. run \in [Runs -> RunStates]
  BY DEF IInv, Shape
<1>2. ASSUME NEW c \in Runs, NEW h, run' = [run EXCEPT ![c] = h], h.skipped = {},
             unasked' = unasked \cup run[c].skipped \/ UNCHANGED unasked
      PROVE  Told'
  BY <1>1, <1>2 DEF Told
<1>3. not_running.skipped = {}
  BY DEF not_running
<1>4. ASSUME NEW c \in Runs, over(c),
             unasked' = unasked \cup run[c].skipped \/ UNCHANGED unasked
      PROVE  Told'
  <2>1. [not_running EXCEPT !.step = IF c \in ByHand THEN "over" ELSE "none"].skipped = {}
    BY DEF not_running
  <2>2. QED
    BY <1>2, <1>4, <2>1 DEF over, becomes
<1>5. CASE UNCHANGED <<run, unasked>>
  BY <1>5 DEF Told
<1>6. ASSUME NEW c \in Runs, begin(c)
      PROVE  Told'
  <2>1. started(collector_state).skipped = {}
    BY DEF started, not_running
  <2>2. QED
    BY <1>2, <1>6, <2>1 DEF begin, becomes, history
<1>7. ASSUME NEW c \in Runs, getHealth(c)
      PROVE  Told'
  <2>1. PICK deployed \in Settings :
           /\ UNCHANGED unasked
           /\ LET start == Max({oldestLedger(latest) + 1, deployed})
                  gap   == first_gap(deployed, oldestLedger(latest))
              IN  run' = [run EXCEPT ![c] = [run[c] EXCEPT !.step = "first",
                             !.cursor = end_of(start - 1), !.gap = gap,
                             !.skipped = left_out(deployed, start, gap)]]
    BY <1>7 DEF getHealth, becomes, history
  <2>2. \A start, gap : left_out(deployed, start, gap) = {}
    BY DEF left_out
  <2>3. run[c] \in RunStates
    BY <1>1
  <2> DEFINE start == Max({oldestLedger(latest) + 1, deployed})
             gap == first_gap(deployed, oldestLedger(latest))
             h == [run[c] EXCEPT !.step = "first", !.cursor = end_of(start - 1), !.gap = gap,
                                 !.skipped = left_out(deployed, start, gap)]
  <2>4. run' = [run EXCEPT ![c] = h] /\ UNCHANGED unasked
    BY <2>1
  <2> HIDE DEF start, gap
  <2>5. h.skipped = left_out(deployed, start, gap)
    BY <2>3 DEF RunStates
  <2> HIDE DEF h
  <2>6. QED
    BY <1>2, <2>2, <2>4, <2>5
<1>8. ASSUME NEW c \in Runs, getEvents(c) \/ upsert(c)
      PROVE  Told'
  <2>1. run'[c].skipped = run[c].skipped /\ UNCHANGED unasked
        /\ \A d \in Runs : d # c => run'[d] = run[d]
    BY <1>1, <1>8 DEF getEvents, upsert, becomes, history, RunStates
  <2>2. QED
    BY <2>1 DEF Told
<1>9. ASSUME NEW c \in Runs, writeState(c) \/ fail(c) \/ refused(c)
      PROVE  Told'
  BY <1>4, <1>9 DEF writeState, fail, refused, history
<1>10. CASE UNCHANGED collector
  BY <1>5, <1>10 DEF collector, history
<1>11. CASE Close
  BY <1>5, <1>11 DEF Close, history
<1>12. QED
  BY <1>6, <1>7, <1>8, <1>9, <1>10, <1>11 DEF CollectorNext, collect

(* Where POLICY_DEPLOY_LEDGER is set, and not to a ledger after the        *)
(* account's first, every event behind the cursor is in the database or in *)
(* a ledger some run named as lost.                                        *)
THEOREM NoLossWhenTold ==
    ASSUME Settings \subseteq 1..CREATED
    PROVE  CollectorSpec =>
              [](\A e \in events : e <= collector_state.cursor =>
                    e \in chain_events \/ cursorLedger(e) \in reported)
<1>1. CollectorInit => Told
  BY DEF CollectorInit, Told, not_running
<1>2. IInv /\ Told /\ [CollectorNext]_collector => Told'
  BY ToldKeeps
<1>3. CollectorSpec => []Told
  BY <1>1, <1>2, InductiveInvariant, PTL DEF CollectorSpec
<1>4. LossIsReported /\ Told =>
         \A e \in events : e <= collector_state.cursor =>
            e \in chain_events \/ cursorLedger(e) \in reported
  BY DEF LossIsReported, Told
<1>5. QED
  BY <1>3, <1>4, NoLossUnreported, PTL
=============================================================================
