-------------------------- MODULE RateLimiterProofs --------------------------
(***************************************************************************)
(* The rate limiter, for any window, allowance and callers.  The argument: *)
(* a count in memory is exact: it is the number of the caller's requests   *)
(* let through in the window it is of (inWindow), and of those in a        *)
(* window's length before it there are no more than the allowance either   *)
(* (before).  Whoever was pruned is past their window, so nothing that     *)
(* still matters is forgotten; and the table's row, which is never pruned, *)
(* says the same as the memory wherever the two are asked.                 *)
(***************************************************************************)
EXTENDS RateLimiter, FiniteSetTheorems, SequenceTheorems, TLAPS

Entry == [caller : Callers, at : Nat, allowed : BOOLEAN, database : BOOLEAN]

(* The requests of a caller that were let through.                         *)
mine(c) == {i \in DOMAIN log : log[i].caller = c /\ log[i].allowed}

(* Those in the window that ends at a time, and in the length before it.   *)
inWindow(c, end) == {i \in mine(c) : log[i].at + windowMs >= end}
before(c, end) ==
    {i \in mine(c) : /\ log[i].at + windowMs < end
                     /\ log[i].at + windowMs + windowMs >= end}

(* No request is of a later time.                                          *)
Logged ==
    /\ log \in Seq(Entry)
    /\ \A i \in DOMAIN log : log[i].at \in Nat /\ log[i].at <= clock

Shape ==
    /\ clock \in Nat
    /\ Logged
    /\ \A c \in DOMAIN memory : /\ memory[c].count \in 1..max
                                /\ memory[c].resetAt \in Nat
                                /\ windowMs <= memory[c].resetAt
                                /\ memory[c].resetAt <= clock + windowMs

(* A count in memory is of the caller's window, and exact.                 *)
CountsAreExact ==
    \A c \in DOMAIN memory :
        /\ Cardinality(inWindow(c, memory[c].resetAt)) = memory[c].count
        /\ Cardinality(before(c, memory[c].resetAt)) <= max
        /\ \A i \in mine(c) : log[i].at <= memory[c].resetAt

(* Who is not in memory has not used up the last window's length.          *)
UnknownAreWithin ==
    \A c \in Callers \ DOMAIN memory :
        /\ Cardinality(inWindow(c, clock)) <= max
        /\ \A i \in mine(c) : log[i].at < clock

(* Any stretch of a window's length, not only one a request begins.        *)
NoStretchOverTwice ==
    \A c \in Callers : \A a \in Nat :
        Cardinality(passed(c, a, a + windowMs)) <= 2 * max

(* The table counts on where the memory stops, and keeps what it prunes.   *)
RowsFollow ==
    /\ \A c \in DOMAIN memory :
          /\ c \in DOMAIN rows
          /\ rows[c].resetAt = memory[c].resetAt
          /\ rows[c].count <= max => rows[c].count = memory[c].count
          /\ rows[c].count > max => memory[c].count = max
    /\ \A c \in DOMAIN rows :
          /\ rows[c].count \in Nat /\ rows[c].resetAt \in Nat
          /\ c \notin DOMAIN memory => rows[c].resetAt < clock

IInv ==
    /\ Shape
    /\ CountsAreExact
    /\ UnknownAreWithin
    /\ NoStretchOverTwice
    /\ RefusedOnlyOverTheLimit
    /\ RowsFollow
    /\ StoresAgree

-----------------------------------------------------------------------------
(* What prune and the two stores do.                                       *)
LEMMA Pruned ==
    ASSUME NEW counts, NEW now
    PROVE  /\ DOMAIN prune(counts, now) \subseteq DOMAIN counts
           /\ \A d \in DOMAIN prune(counts, now) : prune(counts, now)[d] = counts[d]
           /\ \A d \in DOMAIN counts \ DOMAIN prune(counts, now) : ~(now <= counts[d].resetAt)
BY DEF prune, Restrict

(* A request begins a window of its own, ...                               *)
Renews(c) ==
    /\ c \notin DOMAIN memory \/ clock > memory[c].resetAt
    /\ memory' = put(prune(memory, clock), c, 1, clock + windowMs)
    /\ rows' = put(rows, c, 1, clock + windowMs)
    /\ log' = Append(log, [caller |-> c, at |-> clock, allowed |-> TRUE, database |-> TRUE])

(* ... is counted in one that is open, ...                                 *)
Counts(c) ==
    /\ c \in DOMAIN memory /\ clock <= memory[c].resetAt /\ memory[c].count < max
    /\ memory' = put(memory, c, memory[c].count + 1, memory[c].resetAt)
    /\ rows' = put(rows, c, rows[c].count + 1, rows[c].resetAt)
    /\ log' = Append(log, [caller |-> c, at |-> clock, allowed |-> TRUE, database |-> TRUE])

(* ... or finds it used up.                                                *)
Refuses(c) ==
    /\ c \in DOMAIN memory /\ clock <= memory[c].resetAt /\ memory[c].count = max
    /\ memory' = memory
    /\ rows' = put(rows, c, rows[c].count + 1, rows[c].resetAt)
    /\ log' = Append(log, [caller |-> c, at |-> clock, allowed |-> FALSE, database |-> FALSE])

LEMMA ThreeAnswers ==
    ASSUME IInv, NEW c \in Callers, rateLimit(c)
    PROVE  UNCHANGED clock /\ (Renews(c) \/ Counts(c) \/ Refuses(c))
<1> USE RateLimitAssumption
<1>1. clock \in Nat /\ UNCHANGED clock
  <2>1. clock \in Nat
    BY DEF IInv, Shape
  <2>2. UNCHANGED clock
    BY DEF rateLimit
  <2>3. QED
    BY <2>1, <2>2
<1>2. CASE c \notin DOMAIN memory \/ clock > memory[c].resetAt
  <2>1. ~(c \in DOMAIN rows /\ rows[c].resetAt >= clock)
    BY <1>1, <1>2 DEF IInv, RowsFollow, Shape
  <2>2. /\ database_hit(rows, c, clock).allowed = TRUE
        /\ database_hit(rows, c, clock).counts = put(rows, c, 1, clock + windowMs)
    <3>1. /\ database_hit(rows, c, clock).allowed = (0 + 1 <= max)
          /\ database_hit(rows, c, clock).counts = put(rows, c, 0 + 1, clock + windowMs)
      BY <2>1 DEF database_hit
    <3>2. 0 + 1 <= max
      OBVIOUS
    <3>3. database_hit(rows, c, clock).allowed = TRUE
      BY <3>1, <3>2, Zenon
    <3>4. QED
      BY <3>1, <3>3
  <2>3. /\ memory_hit(memory, c, clock).allowed = TRUE
        /\ memory_hit(memory, c, clock).counts = put(prune(memory, clock), c, 1, clock + windowMs)
    BY <1>2 DEF memory_hit
  <2>4. QED
    BY <1>1, <1>2, <2>2, <2>3 DEF rateLimit, Renews
<1>3. CASE c \in DOMAIN memory /\ ~(clock > memory[c].resetAt)
  <2>1. /\ memory[c].resetAt \in Nat /\ memory[c].count \in 1..max
        /\ c \in DOMAIN rows /\ rows[c].resetAt = memory[c].resetAt /\ rows[c].count \in Nat
        /\ rows[c].count <= max => rows[c].count = memory[c].count
        /\ rows[c].count > max => memory[c].count = max
    BY <1>3 DEF IInv, RowsFollow, Shape
  <2>2. clock <= memory[c].resetAt
    BY <1>1, <1>3, <2>1
  <2>3. /\ database_hit(rows, c, clock).allowed = (rows[c].count + 1 <= max)
        /\ database_hit(rows, c, clock).counts = put(rows, c, rows[c].count + 1, rows[c].resetAt)
    BY <1>1, <2>1, <2>2 DEF database_hit
  <2>4. CASE memory[c].count >= max
    <3>1. memory[c].count = max
      BY <2>1, <2>4
    <3>4. ~(rows[c].count + 1 <= max)
      BY <2>1, <3>1
    <3>2. memory_hit(memory, c, clock) = [allowed |-> FALSE, counts |-> memory]
      BY <1>3, <2>4 DEF memory_hit
    <3>5. /\ memory_hit(memory, c, clock).allowed = FALSE
          /\ memory_hit(memory, c, clock).counts = memory
      BY <3>2
    <3>7. database_hit(rows, c, clock).allowed = FALSE
      <4>1. (rows[c].count + 1 <= max) = FALSE
        BY <3>4
      <4>2. QED
        BY <2>3, <4>1
    <3>6. memory' = memory /\ rows' = put(rows, c, rows[c].count + 1, rows[c].resetAt)
      BY <2>3, <3>5 DEF rateLimit
    <3>8. log' = Append(log, [caller |-> c, at |-> clock,
                              allowed |-> FALSE, database |-> FALSE])
      BY <3>5, <3>7, Zenon DEF rateLimit
    <3>9. QED
      BY <1>1, <1>3, <2>2, <3>1, <3>6, <3>8 DEF Refuses
  <2>5. CASE ~(memory[c].count >= max)
    <3>1. memory[c].count < max /\ rows[c].count + 1 <= max
      BY <2>1, <2>5
    <3>2. /\ memory_hit(memory, c, clock).allowed = TRUE
          /\ memory_hit(memory, c, clock).counts
               = put(memory, c, memory[c].count + 1, memory[c].resetAt)
      BY <1>3, <2>5 DEF memory_hit
    <3>3. QED
      BY <1>1, <1>3, <2>2, <2>3, <3>1, <3>2 DEF rateLimit, Counts
  <2>6. QED
    BY <2>4, <2>5
<1>4. QED
  BY <1>2, <1>3

-----------------------------------------------------------------------------
(* Of the log: what a request added to it changes.                         *)
LEMMA Finite ==
    ASSUME log \in Seq(Entry), NEW c
    PROVE  /\ IsFiniteSet(DOMAIN log)
           /\ mine(c) \subseteq DOMAIN log
           /\ \A S \in SUBSET mine(c) : IsFiniteSet(S) /\ Cardinality(S) \in Nat
<1>1. DOMAIN log = 1..Len(log) /\ Len(log) \in Nat
  OBVIOUS
<1>2. IsFiniteSet(DOMAIN log)
  BY <1>1, FS_Interval
<1>3. mine(c) \subseteq DOMAIN log
  BY DEF mine
<1>4. \A S \in SUBSET mine(c) : IsFiniteSet(S) /\ Cardinality(S) \in Nat
  BY <1>2, <1>3, FS_Subset, FS_CardinalityType
<1>5. QED
  BY <1>2, <1>3, <1>4

LEMMA Appended ==
    ASSUME clock \in Nat, Logged, UNCHANGED clock, NEW c \in Callers, NEW b \in BOOLEAN,
           log' = Append(log, [caller |-> c, at |-> clock, allowed |-> b, database |-> b])
    PROVE  /\ Logged'
           /\ Len(log) + 1 \notin DOMAIN log
           /\ DOMAIN log' = DOMAIN log \cup {Len(log) + 1}
           /\ \A i \in DOMAIN log : log'[i] = log[i]
           /\ log'[Len(log) + 1] =
                 [caller |-> c, at |-> clock, allowed |-> b, database |-> b]
<1> DEFINE e == [caller |-> c, at |-> clock, allowed |-> b, database |-> b]
<1>1. e \in Entry
  BY DEF Entry
<1> HIDE DEF e
<1>2. log' = Append(log, e) /\ log \in Seq(Entry)
  BY DEF e, Logged
<1>3. /\ log' \in Seq(Entry)
      /\ Len(log) + 1 \notin DOMAIN log
      /\ DOMAIN log' = DOMAIN log \cup {Len(log) + 1}
      /\ \A i \in DOMAIN log : log'[i] = log[i]
      /\ log'[Len(log) + 1] = e
  BY <1>1, <1>2
<1>4. e.at = clock
  BY DEF e
<1>5. Logged'
  BY <1>3, <1>4 DEF Logged
<1>6. QED
  BY <1>3, <1>5 DEF e

(* Of one that was let through.                                            *)
LEMMA LetThrough ==
    ASSUME clock \in Nat, Logged, UNCHANGED clock, NEW c \in Callers,
           log' = Append(log, [caller |-> c, at |-> clock, allowed |-> TRUE, database |-> TRUE])
    PROVE  /\ \A d : d # c => mine(d)' = mine(d)
           /\ mine(c)' = mine(c) \cup {Len(log) + 1}
<1>1. /\ DOMAIN log' = DOMAIN log \cup {Len(log) + 1}
      /\ \A i \in DOMAIN log : log'[i] = log[i]
      /\ log'[Len(log) + 1] =
            [caller |-> c, at |-> clock, allowed |-> TRUE, database |-> TRUE]
  BY Appended
<1>2. log'[Len(log) + 1].caller = c /\ log'[Len(log) + 1].allowed
  BY <1>1
<1>3. QED
  BY <1>1, <1>2 DEF mine

(* Of one that was not.                                                    *)
LEMMA HeldBack ==
    ASSUME clock \in Nat, Logged, UNCHANGED clock, NEW c \in Callers,
           log' = Append(log, [caller |-> c, at |-> clock, allowed |-> FALSE, database |-> FALSE])
    PROVE  \A d : mine(d)' = mine(d)
<1>1. /\ DOMAIN log' = DOMAIN log \cup {Len(log) + 1}
      /\ \A i \in DOMAIN log : log'[i] = log[i]
      /\ log'[Len(log) + 1] =
            [caller |-> c, at |-> clock, allowed |-> FALSE, database |-> FALSE]
  BY Appended
<1>2. ~log'[Len(log) + 1].allowed
  BY <1>1
<1>3. QED
  BY <1>1, <1>2 DEF mine

(* The requests a caller had let through stay so, where they were.         *)
Kept(d) == mine(d)' = mine(d) /\ \A i \in mine(d) : log'[i] = log[i]

LEMMA KeptWindows ==
    ASSUME NEW d, Kept(d), NEW end
    PROVE  /\ inWindow(d, end)' = inWindow(d, end)
           /\ before(d, end)' = before(d, end)
           /\ \A a, b : passed(d, a, b)' = passed(d, a, b)
<1>3. ASSUME NEW a, NEW b PROVE passed(d, a, b)' = passed(d, a, b)
  <2>1. passed(d, a, b) = {i \in mine(d) : log[i].at \in a..b}
    BY DEF passed, mine
  <2>2. passed(d, a, b)' = {i \in mine(d)' : log'[i].at \in a..b}
    BY DEF passed, mine
  <2>3. QED
    BY <2>1, <2>2 DEF Kept
<1>4. inWindow(d, end)' = inWindow(d, end) /\ before(d, end)' = before(d, end)
  BY DEF Kept, inWindow, before
<1>5. QED
  BY <1>3, <1>4

(* A caller past their window, or never seen, has used up no more than the *)
(* allowance of the window's length that ends now.                         *)
LEMMA PastTheirWindow ==
    ASSUME Shape, CountsAreExact, UnknownAreWithin, NEW d \in Callers,
           d \notin DOMAIN memory \/ ~(clock <= memory[d].resetAt)
    PROVE  /\ Cardinality(inWindow(d, clock)) <= max
           /\ \A i \in mine(d) : log[i].at < clock
<1> USE RateLimitAssumption
<1>1. CASE d \notin DOMAIN memory
  BY <1>1 DEF UnknownAreWithin
<1>2. CASE d \in DOMAIN memory /\ ~(clock <= memory[d].resetAt)
  <2>1. /\ clock \in Nat /\ memory[d].resetAt \in Nat /\ memory[d].count \in 1..max
        /\ memory[d].resetAt < clock
    BY <1>2 DEF Shape
  <2>2. \A i \in mine(d) : log[i].at \in Nat
    BY DEF mine, Logged, Shape
  <2>3. inWindow(d, clock) \subseteq inWindow(d, memory[d].resetAt)
    BY <2>1, <2>2 DEF inWindow
  <2>4. inWindow(d, memory[d].resetAt) \in SUBSET mine(d)
    BY DEF inWindow
  <2>5. Cardinality(inWindow(d, clock)) <= Cardinality(inWindow(d, memory[d].resetAt))
    BY <2>3, <2>4, Finite, FS_Subset DEF Logged, Shape
  <2>6. /\ Cardinality(inWindow(d, clock)) \in Nat
        /\ Cardinality(inWindow(d, memory[d].resetAt)) = memory[d].count
    BY <1>2, <2>3, <2>4, Finite DEF Logged, Shape, CountsAreExact
  <2>7. Cardinality(inWindow(d, clock)) <= max
    BY <2>1, <2>5, <2>6
  <2>8. \A i \in mine(d) : log[i].at < clock
    BY <1>2, <2>1, <2>2 DEF CountsAreExact
  <2>9. QED
    BY <2>7, <2>8
<1>3. QED
  BY <1>1, <1>2

(* A caller with a count in memory keeps within twice the allowance in     *)
(* every stretch that is not over.                                         *)
CountedWithinTwice ==
    \A c \in Callers \cap DOMAIN memory : \A a \in Nat :
        clock <= a + windowMs => Cardinality(passed(c, a, a + windowMs)) <= 2 * max

LEMMA WithinTwice == Shape /\ CountsAreExact => CountedWithinTwice
<1> USE RateLimitAssumption
<1> SUFFICES ASSUME Shape, CountsAreExact, NEW c \in Callers, c \in DOMAIN memory,
                    NEW a \in Nat, clock <= a + windowMs,
                    NEW end, end = memory[c].resetAt
             PROVE  Cardinality(passed(c, a, a + windowMs)) <= 2 * max
  BY DEF CountedWithinTwice
<1>1. end \in Nat /\ end <= clock + windowMs /\ clock \in Nat
  BY DEF Shape
<1>2. passed(c, a, a + windowMs) \subseteq inWindow(c, end) \cup before(c, end)
  <2> SUFFICES ASSUME NEW i \in passed(c, a, a + windowMs), i \notin inWindow(c, end)
               PROVE  i \in before(c, end)
    OBVIOUS
  <2>1. i \in mine(c) /\ log[i].at \in Nat /\ a <= log[i].at
    BY DEF passed, mine, Logged, Shape
  <2>2. log[i].at + windowMs < end
    BY <1>1, <2>1 DEF inWindow
  <2>3. end <= log[i].at + windowMs + windowMs
    BY <1>1, <2>1
  <2>4. QED
    BY <2>1, <2>2, <2>3 DEF before
<1>3. inWindow(c, end) \in SUBSET mine(c) /\ before(c, end) \in SUBSET mine(c)
  BY DEF inWindow, before
<1>4. /\ IsFiniteSet(inWindow(c, end)) /\ IsFiniteSet(before(c, end))
      /\ Cardinality(inWindow(c, end)) \in Nat /\ Cardinality(before(c, end)) \in Nat
  BY <1>3, Finite DEF Logged, Shape
<1>5. inWindow(c, end) \cap before(c, end) \in SUBSET mine(c)
  BY <1>3
<1>6. /\ IsFiniteSet(inWindow(c, end) \cup before(c, end))
      /\ Cardinality(inWindow(c, end) \cup before(c, end)) =
           Cardinality(inWindow(c, end)) + Cardinality(before(c, end))
             - Cardinality(inWindow(c, end) \cap before(c, end))
      /\ Cardinality(inWindow(c, end) \cap before(c, end)) \in Nat
  BY <1>4, <1>5, FS_Union, Finite DEF Logged, Shape
<1>7. /\ Cardinality(passed(c, a, a + windowMs)) \in Nat
      /\ Cardinality(passed(c, a, a + windowMs))
            <= Cardinality(inWindow(c, end) \cup before(c, end))
  BY <1>2, <1>6, FS_Subset, FS_CardinalityType
<1>8. Cardinality(inWindow(c, end)) <= max /\ Cardinality(before(c, end)) <= max
  BY DEF CountsAreExact, Shape
<1>9. QED
  BY <1>4, <1>6, <1>7, <1>8

MineAreFinite == \A c : \A S \in SUBSET mine(c) : IsFiniteSet(S) /\ Cardinality(S) \in Nat

LEMMA FiniteSets == Logged => MineAreFinite
BY Finite DEF Logged, MineAreFinite

LEMMA InTwice ==
    ASSUME IInv, Shape', CountsAreExact', UNCHANGED clock, NEW c \in Callers, c \in DOMAIN memory',
           log' = Append(log, [caller |-> c, at |-> clock, allowed |-> TRUE, database |-> TRUE])
    PROVE  NoStretchOverTwice'
<1>1. Shape /\ NoStretchOverTwice /\ Logged /\ clock \in Nat
  BY DEF IInv, Shape
<1>2. /\ \A i \in DOMAIN log : log'[i] = log[i]
      /\ log'[Len(log) + 1] =
            [caller |-> c, at |-> clock, allowed |-> TRUE, database |-> TRUE]
  BY <1>1, Appended
<1>3. /\ \A d : d # c => mine(d)' = mine(d)
      /\ mine(c)' = mine(c) \cup {Len(log) + 1}
  BY <1>1, LetThrough
<1>4. ASSUME NEW d \in Callers, NEW a \in Nat
      PROVE  Cardinality(passed(d, a, a + windowMs)') <= 2 * max
  <2>1. CASE d # c
    <3>1. Kept(d)
      BY <1>2, <1>3, <2>1 DEF Kept, mine
    <3>2. passed(d, a, a + windowMs)' = passed(d, a, a + windowMs)
      BY <3>1, KeptWindows
    <3>3. QED
      BY <1>1, <3>2 DEF NoStretchOverTwice
  <2>2. CASE d = c /\ clock <= a + windowMs
    <3>1. CountedWithinTwice'
      BY WithinTwice, PTL
    <3>2. clock' <= a + windowMs
      BY <2>2
    <3>3. QED
      BY <2>2, <3>1, <3>2 DEF CountedWithinTwice
  <2>3. CASE d = c /\ ~(clock <= a + windowMs)
    <3>1. passed(d, a, a + windowMs) = {i \in mine(d) : log[i].at \in a..(a + windowMs)}
      BY DEF passed, mine
    <3>2. passed(d, a, a + windowMs)' = {i \in mine(d)' : log'[i].at \in a..(a + windowMs)}
      BY DEF passed, mine
    <3>3. log'[Len(log) + 1].at \notin a..(a + windowMs)
      BY <1>1, <1>2, <2>3, RateLimitAssumption
    <3>4. passed(d, a, a + windowMs)' = passed(d, a, a + windowMs)
      <4>1. mine(d) \subseteq DOMAIN log /\ mine(d)' = mine(d) \cup {Len(log) + 1}
        BY <1>3, <2>3 DEF mine
      <4>2. \A i \in mine(d)' : log'[i].at \in a..(a + windowMs) <=>
                                i \in mine(d) /\ log[i].at \in a..(a + windowMs)
        BY <1>2, <3>3, <4>1
      <4>3. QED
        BY <3>1, <3>2, <4>1, <4>2
    <3>5. QED
      BY <1>1, <3>4 DEF NoStretchOverTwice
  <2>4. QED
    BY <2>1, <2>2, <2>3
<1>5. QED
  BY <1>4 DEF NoStretchOverTwice

(* A caller has used up the allowance at a time.                           *)
UsedUp(c, time) ==
    Cardinality(passed(c, IF time < windowMs THEN 0 ELSE time - windowMs, time)) >= max

LEMMA AnswersKept ==
    ASSUME IInv, UNCHANGED clock, NEW c \in Callers, NEW b \in BOOLEAN,
           log' = Append(log, [caller |-> c, at |-> clock, allowed |-> b, database |-> b]),
           \A d : mine(d) \subseteq mine(d)', ~b => UsedUp(c, clock)
    PROVE  RefusedOnlyOverTheLimit' /\ StoresAgree'
<1>1. /\ Logged /\ clock \in Nat /\ RefusedOnlyOverTheLimit /\ StoresAgree
      /\ max \in Nat
  BY RateLimitAssumption DEF IInv, Shape
<1>2. /\ Logged'
      /\ DOMAIN log' = DOMAIN log \cup {Len(log) + 1}
      /\ \A i \in DOMAIN log : log'[i] = log[i]
      /\ log'[Len(log) + 1] = [caller |-> c, at |-> clock, allowed |-> b, database |-> b]
  BY <1>1, Appended
<1>3. MineAreFinite /\ MineAreFinite'
  <2>1. MineAreFinite
    BY <1>1, FiniteSets
  <2>2. MineAreFinite'
    BY <1>2, FiniteSets, PTL
  <2>3. QED
    BY <2>1, <2>2
<1>4. ASSUME NEW d, NEW time \in Nat, UsedUp(d, time) PROVE UsedUp(d, time)'
  <2> DEFINE from == IF time < windowMs THEN 0 ELSE time - windowMs
  <2> HIDE DEF from
  <2>1. passed(d, from, time) = {i \in mine(d) : log[i].at \in from..time}
    BY DEF passed, mine
  <2>2. passed(d, from, time)' = {i \in mine(d)' : log'[i].at \in from..time}
    BY DEF passed, mine, from
  <2>3. mine(d) \subseteq DOMAIN log
    BY DEF mine
  <2>4. passed(d, from, time) \subseteq passed(d, from, time)'
    BY <1>2, <2>1, <2>2, <2>3
  <2>5. /\ passed(d, from, time)' \in SUBSET (mine(d)')
        /\ passed(d, from, time) \in SUBSET mine(d)
    BY <2>1, <2>2
  <2>6. Cardinality(passed(d, from, time)') \in Nat /\ IsFiniteSet(passed(d, from, time)')
    BY <1>3, <2>5 DEF MineAreFinite
  <2>7. Cardinality(passed(d, from, time)) \in Nat
    BY <1>3, <2>5 DEF MineAreFinite
  <2>8. Cardinality(passed(d, from, time)) <= Cardinality(passed(d, from, time)')
    BY <2>4, <2>6, FS_Subset
  <2>9. Cardinality(passed(d, from, time)') >= max
    BY <1>1, <1>4, <2>6, <2>7, <2>8 DEF UsedUp, from
  <2>10. QED
    BY <2>9 DEF UsedUp, from
<1>5. ASSUME NEW i \in DOMAIN log', ~log'[i].allowed,
             NEW d, d = log'[i].caller, NEW time, time = log'[i].at
      PROVE  UsedUp(d, time)'
  <2>1. CASE i \in DOMAIN log
    <3>1. time \in Nat /\ log[i].caller = d /\ log[i].at = time /\ ~log[i].allowed
      BY <1>1, <1>2, <1>5, <2>1 DEF Logged
    <3>2. UsedUp(d, time)
      BY <1>1, <2>1, <3>1 DEF RefusedOnlyOverTheLimit, UsedUp
    <3>3. QED
      BY <1>4, <3>1, <3>2
  <2>2. CASE i = Len(log) + 1
    <3>1. d = c /\ time = clock /\ ~b
      BY <1>2, <1>5, <2>2
    <3>2. QED
      BY <1>1, <1>4, <3>1
  <2>3. QED
    BY <1>2, <2>1, <2>2
<1>6. RefusedOnlyOverTheLimit'
  BY <1>5 DEF RefusedOnlyOverTheLimit, UsedUp, passed
<1>7. StoresAgree'
  BY <1>1, <1>2 DEF StoresAgree
<1>8. QED
  BY <1>6, <1>7

LEMMA RenewsKeeps ==
    ASSUME IInv, NEW c \in Callers, UNCHANGED clock, Renews(c)
    PROVE  IInv'
<1> USE RateLimitAssumption
<1>1. /\ Logged /\ Shape /\ CountsAreExact /\ UnknownAreWithin /\ RowsFollow
      /\ clock \in Nat /\ windowMs \in Nat
  BY DEF IInv, Shape
<1>2. /\ Logged'
      /\ Len(log) + 1 \notin DOMAIN log
      /\ DOMAIN log' = DOMAIN log \cup {Len(log) + 1}
      /\ \A i \in DOMAIN log : log'[i] = log[i]
      /\ log'[Len(log) + 1] = [caller |-> c, at |-> clock, allowed |-> TRUE, database |-> TRUE]
  BY <1>1, Appended DEF Renews
<1>3. /\ \A d : d # c => mine(d)' = mine(d)
      /\ mine(c)' = mine(c) \cup {Len(log) + 1}
  BY <1>1, LetThrough DEF Renews
<1>4. /\ c \in DOMAIN memory'
      /\ memory'[c].count = 1 /\ memory'[c].resetAt = clock + windowMs
      /\ \A d \in DOMAIN memory' : d # c => d \in DOMAIN memory /\ memory'[d] = memory[d]
      /\ \A d \in DOMAIN memory \ DOMAIN memory' : ~(clock <= memory[d].resetAt)
  <2> DEFINE kept == prune(memory, clock)
             end  == clock + windowMs
  <2>1. memory' = put(kept, c, 1, end)
    BY DEF Renews
  <2>2. /\ DOMAIN kept \subseteq DOMAIN memory
        /\ \A d \in DOMAIN kept : kept[d] = memory[d]
        /\ \A d \in DOMAIN memory \ DOMAIN kept : ~(clock <= memory[d].resetAt)
    BY Pruned
  <2> HIDE DEF kept, end
  <2>3. /\ DOMAIN memory' = DOMAIN kept \cup {c}
        /\ memory'[c].count = 1 /\ memory'[c].resetAt = end
        /\ \A d \in DOMAIN kept : d # c => memory'[d] = kept[d]
    BY <2>1 DEF put
  <2>4. QED
    BY <2>2, <2>3 DEF end
<1>5. /\ Cardinality(inWindow(c, clock)) <= max
      /\ \A i \in mine(c) : log[i].at < clock
  <2>1. c \notin DOMAIN memory \/ ~(clock <= memory[c].resetAt)
    BY <1>1 DEF Renews, Shape
  <2>2. QED
    BY <1>1, <2>1, PastTheirWindow
<1>6. \A d : d # c => Kept(d)
  BY <1>2, <1>3 DEF Kept, mine
<1>7. Shape'
  BY <1>1, <1>2, <1>4 DEF Shape
<1>8. CountsAreExact'
  <2> SUFFICES ASSUME NEW d \in DOMAIN memory', NEW end, end = memory'[d].resetAt
               PROVE  /\ Cardinality(inWindow(d, end)') = memory'[d].count
                      /\ Cardinality(before(d, end)') <= max
                      /\ \A i \in mine(d)' : log'[i].at <= end
    BY DEF CountsAreExact, inWindow, before
  <2>1. CASE d # c
    <3>1. /\ inWindow(d, end)' = inWindow(d, end)
          /\ before(d, end)' = before(d, end)
      BY <1>6, <2>1, KeptWindows
    <3>2. d \in DOMAIN memory /\ memory'[d] = memory[d] /\ end = memory[d].resetAt
      BY <1>4, <2>1
    <3>3. \A i \in mine(d)' : log'[i].at <= end
      BY <1>1, <1>6, <2>1, <3>2 DEF Kept, CountsAreExact
    <3>4. QED
      BY <1>1, <3>1, <3>2, <3>3 DEF CountsAreExact
  <2>2. CASE d = c
    <3>1. end = clock + windowMs /\ memory'[d].count = 1
      BY <1>4, <2>2
    <3>2. /\ mine(c) \subseteq DOMAIN log /\ log'[Len(log) + 1].at = clock
          /\ \A i \in mine(c) : log'[i] = log[i] /\ log[i].at \in Nat /\ log[i].at < clock
      BY <1>1, <1>2, <1>5 DEF mine, Logged
    <3>3. inWindow(d, end)' = {Len(log) + 1}
      <4>1. inWindow(d, end)' = {i \in mine(d)' : log'[i].at + windowMs >= end}
        BY DEF inWindow
      <4>2. \A i \in mine(d)' : log'[i].at + windowMs >= end <=> i = Len(log) + 1
        BY <1>1, <1>2, <1>3, <2>2, <3>1, <3>2
      <4>3. Len(log) + 1 \in mine(d)'
        BY <1>3, <2>2
      <4>4. QED
        BY <4>1, <4>2, <4>3
    <3>4. before(d, end)' \subseteq inWindow(d, clock)
      <4>1. ASSUME NEW i \in before(d, end)'
            PROVE  i \in inWindow(d, clock)
        <5>1. /\ i \in mine(d)' /\ log'[i].at + windowMs < end
              /\ log'[i].at + windowMs + windowMs >= end
          BY DEF before
        <5>2. i # Len(log) + 1
          BY <1>1, <3>1, <3>2, <5>1
        <5>3. i \in mine(c) /\ log'[i] = log[i] /\ log[i].at \in Nat
          BY <1>3, <2>2, <3>2, <5>1, <5>2
        <5>4. log[i].at + windowMs >= clock
          BY <1>1, <3>1, <5>1, <5>3
        <5>5. QED
          BY <2>2, <5>3, <5>4 DEF inWindow
      <4>2. QED
        BY <4>1
    <3>5. inWindow(d, clock) \in SUBSET mine(d)
      BY DEF inWindow
    <3>6. /\ Cardinality(before(d, end)') \in Nat /\ Cardinality(inWindow(d, clock)) \in Nat
          /\ Cardinality(before(d, end)') <= Cardinality(inWindow(d, clock))
      <4>1. IsFiniteSet(inWindow(d, clock))
        BY <1>1, <3>5, FiniteSets DEF MineAreFinite
      <4>2. QED
        BY <3>4, <4>1, FS_Subset, FS_CardinalityType
    <3>7. Cardinality(before(d, end)') <= max
      BY <1>5, <2>2, <3>6
    <3>8. Cardinality(inWindow(d, end)') = 1
      BY <3>3, FS_Singleton
    <3>9. \A i \in mine(d)' : log'[i].at <= end
      BY <1>1, <1>3, <2>2, <3>1, <3>2
    <3>10. QED
      BY <3>1, <3>7, <3>8, <3>9
  <2>3. QED
    BY <2>1, <2>2
<1>9. UnknownAreWithin'
  <2> SUFFICES ASSUME NEW d \in Callers \ DOMAIN memory'
               PROVE  /\ Cardinality(inWindow(d, clock)') <= max
                      /\ \A i \in mine(d)' : log'[i].at < clock
    BY DEF UnknownAreWithin, inWindow
  <2>1. d # c /\ (d \notin DOMAIN memory \/ ~(clock <= memory[d].resetAt))
    BY <1>4
  <2>2. /\ Cardinality(inWindow(d, clock)) <= max
        /\ \A i \in mine(d) : log[i].at < clock
    BY <1>1, <2>1, PastTheirWindow
  <2>3. inWindow(d, clock)' = inWindow(d, clock)
    BY <1>6, <2>1 DEF Kept, inWindow
  <2>4. \A i \in mine(d)' : log'[i].at < clock
    BY <1>6, <2>1, <2>2 DEF Kept
  <2>5. QED
    BY <2>2, <2>3, <2>4
<1>10. NoStretchOverTwice'
  BY <1>4, <1>7, <1>8, InTwice DEF Renews
<1>11. RefusedOnlyOverTheLimit' /\ StoresAgree'
  <2>1. \A d : mine(d) \subseteq mine(d)'
    BY <1>3
  <2>2. QED
    BY <2>1, AnswersKept DEF Renews
<1>12. RowsFollow'
  <2>1. /\ DOMAIN rows' = DOMAIN rows \cup {c}
        /\ rows'[c].count = 1 /\ rows'[c].resetAt = clock + windowMs
        /\ \A d \in DOMAIN rows : d # c => rows'[d] = rows[d]
    <3> DEFINE end == clock + windowMs
    <3>1. rows' = put(rows, c, 1, end)
      BY DEF Renews
    <3> HIDE DEF end
    <3>2. /\ DOMAIN rows' = DOMAIN rows \cup {c}
          /\ rows'[c].count = 1 /\ rows'[c].resetAt = end
          /\ \A d \in DOMAIN rows : d # c => rows'[d] = rows[d]
      BY <3>1 DEF put
    <3>3. QED
      BY <3>2 DEF end
  <2>2. \A d \in DOMAIN memory' :
          /\ d \in DOMAIN rows'
          /\ rows'[d].resetAt = memory'[d].resetAt
          /\ rows'[d].count <= max => rows'[d].count = memory'[d].count
          /\ rows'[d].count > max => memory'[d].count = max
    BY <1>1, <1>4, <2>1 DEF RowsFollow
  <2>3. \A d \in DOMAIN rows' : rows'[d].count \in Nat /\ rows'[d].resetAt \in Nat
    BY <1>1, <2>1 DEF RowsFollow
  <2>4. ASSUME NEW d \in DOMAIN rows', d \notin DOMAIN memory'
        PROVE  rows'[d].resetAt < clock
    <3>1. d # c /\ d \in DOMAIN rows /\ rows'[d] = rows[d]
      BY <1>4, <2>1, <2>4
    <3>2. CASE d \in DOMAIN memory
      <4>1. ~(clock <= memory[d].resetAt) /\ rows[d].resetAt = memory[d].resetAt
            /\ memory[d].resetAt \in Nat
        BY <1>1, <1>4, <2>4, <3>2 DEF RowsFollow, Shape
      <4>2. QED
        BY <1>1, <3>1, <4>1
    <3>3. CASE d \notin DOMAIN memory
      BY <1>1, <3>1, <3>3 DEF RowsFollow
    <3>4. QED
      BY <3>2, <3>3
  <2>5. QED
    BY <2>2, <2>3, <2>4 DEF RowsFollow
<1>13. QED
  BY <1>7, <1>8, <1>9, <1>10, <1>11, <1>12 DEF IInv

(* The table's count of an open window goes on past the allowance.         *)
LEMMA RowCounted ==
    ASSUME RowsFollow, NEW c, c \in DOMAIN memory,
           rows' = put(rows, c, rows[c].count + 1, rows[c].resetAt)
    PROVE  /\ DOMAIN rows' = DOMAIN rows
           /\ rows[c].count \in Nat
           /\ rows'[c].count = rows[c].count + 1 /\ rows'[c].resetAt = rows[c].resetAt
           /\ \A d \in DOMAIN rows : d # c => rows'[d] = rows[d]
<1>1. c \in DOMAIN rows /\ rows[c].count \in Nat
  BY DEF RowsFollow
<1> SUFFICES ASSUME NEW n, n = rows[c].count + 1, NEW end, end = rows[c].resetAt
             PROVE  /\ DOMAIN rows' = DOMAIN rows
                    /\ rows'[c].count = n /\ rows'[c].resetAt = end
                    /\ \A d \in DOMAIN rows : d # c => rows'[d] = rows[d]
  BY <1>1
<1>2. rows' = put(rows, c, n, end)
  OBVIOUS
<1>3. QED
  BY <1>1, <1>2 DEF put

LEMMA CountsKeeps ==
    ASSUME IInv, NEW c \in Callers, UNCHANGED clock, Counts(c)
    PROVE  IInv'
<1> USE RateLimitAssumption
<1>1. /\ Logged /\ Shape /\ CountsAreExact /\ UnknownAreWithin /\ RowsFollow
      /\ clock \in Nat /\ windowMs \in Nat /\ MineAreFinite
  BY FiniteSets DEF IInv, Shape
<1>2. /\ Logged'
      /\ Len(log) + 1 \notin DOMAIN log
      /\ DOMAIN log' = DOMAIN log \cup {Len(log) + 1}
      /\ \A i \in DOMAIN log : log'[i] = log[i]
      /\ log'[Len(log) + 1] = [caller |-> c, at |-> clock, allowed |-> TRUE, database |-> TRUE]
  BY <1>1, Appended DEF Counts
<1>3. /\ \A d : d # c => mine(d)' = mine(d)
      /\ mine(c)' = mine(c) \cup {Len(log) + 1}
  BY <1>1, LetThrough DEF Counts
<1>4. /\ c \in DOMAIN memory /\ DOMAIN memory' = DOMAIN memory
      /\ memory[c].count \in 1..max /\ memory[c].count < max
      /\ memory[c].resetAt \in Nat /\ clock <= memory[c].resetAt
      /\ memory'[c].count = memory[c].count + 1 /\ memory'[c].resetAt = memory[c].resetAt
      /\ \A d \in DOMAIN memory : d # c => memory'[d] = memory[d]
  <2>1. /\ c \in DOMAIN memory
        /\ memory[c].count \in 1..max /\ memory[c].count < max
        /\ memory[c].resetAt \in Nat /\ clock <= memory[c].resetAt
    BY <1>1 DEF Counts, Shape
  <2> SUFFICES ASSUME NEW n, n = memory[c].count + 1, NEW end, end = memory[c].resetAt
               PROVE  /\ DOMAIN memory' = DOMAIN memory
                      /\ memory'[c].count = n /\ memory'[c].resetAt = end
                      /\ \A d \in DOMAIN memory : d # c => memory'[d] = memory[d]
    BY <2>1
  <2>2. memory' = put(memory, c, n, end)
    BY DEF Counts
  <2>3. QED
    BY <2>1, <2>2 DEF put
<1>5. \A d : d # c => Kept(d)
  BY <1>2, <1>3 DEF Kept, mine
<1>6. Shape'
  BY <1>1, <1>2, <1>4 DEF Shape
<1>7. CountsAreExact'
  <2> SUFFICES ASSUME NEW d \in DOMAIN memory, NEW end, end = memory'[d].resetAt
               PROVE  /\ Cardinality(inWindow(d, end)') = memory'[d].count
                      /\ Cardinality(before(d, end)') <= max
                      /\ \A i \in mine(d)' : log'[i].at <= end
    BY <1>4 DEF CountsAreExact, inWindow, before
  <2>1. end = memory[d].resetAt
    BY <1>4
  <2>2. CASE d # c
    <3>1. /\ inWindow(d, end)' = inWindow(d, end)
          /\ before(d, end)' = before(d, end)
      BY <1>5, <2>2, KeptWindows
    <3>2. memory'[d] = memory[d]
      BY <1>4, <2>2
    <3>3. \A i \in mine(d)' : log'[i].at <= end
      BY <1>1, <1>5, <2>1, <2>2 DEF Kept, CountsAreExact
    <3>4. QED
      BY <1>1, <2>1, <3>1, <3>2, <3>3 DEF CountsAreExact
  <2>3. CASE d = c
    <3>1. /\ mine(c) \subseteq DOMAIN log /\ log'[Len(log) + 1].at = clock
          /\ \A i \in mine(c) : log'[i] = log[i] /\ log[i].at \in Nat /\ log[i].at <= end
      BY <1>1, <1>2, <2>1, <2>3 DEF mine, Logged, CountsAreExact
    <3>2. end \in Nat /\ end <= clock + windowMs
      BY <1>1, <1>4, <2>1, <2>3 DEF Shape
    <3>3. inWindow(d, end)' = inWindow(d, end) \cup {Len(log) + 1}
      <4>1. inWindow(d, end)' = {i \in mine(d)' : log'[i].at + windowMs >= end}
        BY DEF inWindow
      <4>2. log'[Len(log) + 1].at + windowMs >= end
        BY <1>1, <3>1, <3>2
      <4>3. QED
        BY <1>3, <2>3, <3>1, <4>1, <4>2 DEF inWindow
    <3>4. before(d, end)' = before(d, end)
      <4>1. before(d, end)' = {i \in mine(d)' : /\ log'[i].at + windowMs < end
                                               /\ log'[i].at + windowMs + windowMs >= end}
        BY DEF before
      <4>2. ~(log'[Len(log) + 1].at + windowMs < end)
        BY <1>1, <3>1, <3>2
      <4>3. QED
        BY <1>3, <2>3, <3>1, <4>1, <4>2 DEF before
    <3>5. /\ IsFiniteSet(inWindow(d, end)) /\ Len(log) + 1 \notin inWindow(d, end)
          /\ Cardinality(inWindow(d, end)) = memory[c].count
      BY <1>1, <1>2, <2>1, <2>3, <3>1 DEF MineAreFinite, inWindow, CountsAreExact
    <3>6. Cardinality(inWindow(d, end)') = memory[c].count + 1
      <4>1. Cardinality(inWindow(d, end) \cup {Len(log) + 1}) = Cardinality(inWindow(d, end)) + 1
        BY <3>5, FS_AddElement
      <4>2. QED
        BY <3>3, <3>5, <4>1
    <3>7. Cardinality(before(d, end)') <= max
      BY <1>1, <2>1, <3>4 DEF CountsAreExact
    <3>8. \A i \in mine(d)' : log'[i].at <= end
      BY <1>3, <1>4, <2>1, <2>3, <3>1
    <3>9. QED
      BY <1>4, <2>3, <3>6, <3>7, <3>8
  <2>4. QED
    BY <2>2, <2>3
<1>8. UnknownAreWithin'
  <2> SUFFICES ASSUME NEW d \in Callers \ DOMAIN memory
               PROVE  /\ Cardinality(inWindow(d, clock)') <= max
                      /\ \A i \in mine(d)' : log'[i].at < clock
    BY <1>4 DEF UnknownAreWithin, inWindow
  <2>1. Kept(d)
    BY <1>4, <1>5
  <2>2. inWindow(d, clock)' = inWindow(d, clock)
    BY <2>1 DEF Kept, inWindow
  <2>3. QED
    BY <1>1, <2>1, <2>2 DEF Kept, UnknownAreWithin
<1>9. NoStretchOverTwice'
  BY <1>4, <1>6, <1>7, InTwice DEF Counts
<1>10. RefusedOnlyOverTheLimit' /\ StoresAgree'
  <2>1. \A d : mine(d) \subseteq mine(d)'
    BY <1>3
  <2>2. QED
    BY <2>1, AnswersKept DEF Counts
<1>11. RowsFollow'
  <2>1. /\ DOMAIN rows' = DOMAIN rows
        /\ rows[c].count \in Nat
        /\ rows'[c].count = rows[c].count + 1 /\ rows'[c].resetAt = rows[c].resetAt
        /\ \A d \in DOMAIN rows : d # c => rows'[d] = rows[d]
    BY <1>1, <1>4, RowCounted DEF Counts
  <2>2. QED
    BY <1>1, <1>4, <2>1 DEF RowsFollow
<1>12. QED
  BY <1>6, <1>7, <1>8, <1>9, <1>10, <1>11 DEF IInv

LEMMA RefusesKeeps ==
    ASSUME IInv, NEW c \in Callers, UNCHANGED clock, Refuses(c)
    PROVE  IInv'
<1> USE RateLimitAssumption
<1>1. /\ Logged /\ Shape /\ CountsAreExact /\ UnknownAreWithin /\ RowsFollow /\ NoStretchOverTwice
      /\ clock \in Nat /\ windowMs \in Nat /\ MineAreFinite
  BY FiniteSets DEF IInv, Shape
<1>2. /\ Logged'
      /\ \A i \in DOMAIN log : log'[i] = log[i]
      /\ UNCHANGED memory
  BY <1>1, Appended DEF Refuses
<1>3. \A d : Kept(d)
  <2>1. \A d : mine(d)' = mine(d)
    BY <1>1, HeldBack DEF Refuses
  <2>2. QED
    BY <1>2, <2>1 DEF Kept, mine
<1>4. Shape'
  BY <1>1, <1>2 DEF Shape
<1>5. CountsAreExact'
  <2> SUFFICES ASSUME NEW d \in DOMAIN memory, NEW end, end = memory[d].resetAt
               PROVE  /\ Cardinality(inWindow(d, end)') = memory[d].count
                      /\ Cardinality(before(d, end)') <= max
                      /\ \A i \in mine(d)' : log'[i].at <= end
    BY <1>2 DEF CountsAreExact, inWindow, before
  <2>1. /\ inWindow(d, end)' = inWindow(d, end)
        /\ before(d, end)' = before(d, end)
    BY <1>3, KeptWindows
  <2>2. QED
    BY <1>1, <1>3, <2>1 DEF Kept, CountsAreExact
<1>6. UnknownAreWithin'
  <2> SUFFICES ASSUME NEW d \in Callers \ DOMAIN memory
               PROVE  /\ Cardinality(inWindow(d, clock)') <= max
                      /\ \A i \in mine(d)' : log'[i].at < clock
    BY <1>2 DEF UnknownAreWithin, inWindow
  <2>1. inWindow(d, clock)' = inWindow(d, clock)
    BY <1>3 DEF Kept, inWindow
  <2>2. QED
    BY <1>1, <1>3, <2>1 DEF Kept, UnknownAreWithin
<1>7. NoStretchOverTwice'
  <2> SUFFICES ASSUME NEW d \in Callers, NEW a \in Nat
               PROVE  Cardinality(passed(d, a, a + windowMs)') <= 2 * max
    BY DEF NoStretchOverTwice
  <2>1. passed(d, a, a + windowMs)' = passed(d, a, a + windowMs)
    BY <1>3, KeptWindows
  <2>2. QED
    BY <1>1, <2>1 DEF NoStretchOverTwice
<1>8. UsedUp(c, clock)
  <2> DEFINE from == IF clock < windowMs THEN 0 ELSE clock - windowMs
  <2> SUFFICES ASSUME NEW end, end = memory[c].resetAt
               PROVE  UsedUp(c, clock)
    OBVIOUS
  <2>1. /\ end \in Nat /\ clock <= end /\ c \in DOMAIN memory
        /\ Cardinality(inWindow(c, end)) = max
    BY <1>1 DEF Refuses, Shape, CountsAreExact
  <2>2. inWindow(c, end) \subseteq passed(c, from, clock)
    <3> SUFFICES ASSUME NEW i \in inWindow(c, end)
                 PROVE  i \in passed(c, from, clock)
      OBVIOUS
    <3>1. /\ i \in DOMAIN log /\ log[i].caller = c /\ log[i].allowed
          /\ log[i].at \in Nat /\ log[i].at <= clock /\ log[i].at + windowMs >= end
      BY <1>1 DEF inWindow, mine, Logged
    <3>2. log[i].at \in from..clock
      BY <1>1, <2>1, <3>1
    <3>3. QED
      BY <3>1, <3>2 DEF passed
  <2>3. passed(c, from, clock) \in SUBSET mine(c)
    BY DEF passed, mine
  <2> HIDE DEF from
  <2>4. /\ IsFiniteSet(passed(c, from, clock))
        /\ Cardinality(passed(c, from, clock)) \in Nat
    BY <1>1, <2>3 DEF MineAreFinite
  <2>5. Cardinality(inWindow(c, end)) <= Cardinality(passed(c, from, clock))
    BY <2>2, <2>4, FS_Subset
  <2>6. Cardinality(passed(c, from, clock)) >= max
    BY <2>1, <2>4, <2>5
  <2>7. QED
    BY <2>6 DEF UsedUp, from
<1>9. RefusedOnlyOverTheLimit' /\ StoresAgree'
  <2>1. \A d : mine(d) \subseteq mine(d)'
    BY <1>3 DEF Kept
  <2>2. QED
    BY <1>8, <2>1, AnswersKept DEF Refuses
<1>10. RowsFollow'
  <2>1. /\ DOMAIN rows' = DOMAIN rows
        /\ rows[c].count \in Nat
        /\ rows'[c].count = rows[c].count + 1 /\ rows'[c].resetAt = rows[c].resetAt
        /\ \A d \in DOMAIN rows : d # c => rows'[d] = rows[d]
    BY <1>1, RowCounted DEF Refuses
  <2>2. c \in DOMAIN memory /\ memory[c].count = max
    BY DEF Refuses
  <2>3. QED
    BY <1>1, <1>2, <2>1, <2>2 DEF RowsFollow
<1>11. QED
  BY <1>4, <1>5, <1>6, <1>7, <1>9, <1>10 DEF IInv

(* As time passes, no count changes; who is not in memory has less to show.*)
LEMMA LaterKeeps ==
    ASSUME IInv, Later
    PROVE  IInv'
<1> USE RateLimitAssumption
<1>1. /\ Logged /\ Shape /\ CountsAreExact /\ UnknownAreWithin /\ RowsFollow /\ NoStretchOverTwice
      /\ clock \in Nat /\ windowMs \in Nat /\ MineAreFinite
      /\ clock' = clock + 1 /\ UNCHANGED <<memory, rows, log>>
  BY FiniteSets DEF IInv, Shape, Later
<1>2. Shape'
  BY <1>1 DEF Shape, Logged
<1>3. CountsAreExact'
  BY <1>1 DEF CountsAreExact, inWindow, before, mine
<1>4. UnknownAreWithin'
  <2> SUFFICES ASSUME NEW d \in Callers \ DOMAIN memory
               PROVE  /\ Cardinality(inWindow(d, clock + 1)) <= max
                      /\ \A i \in mine(d) : log[i].at < clock + 1
    BY <1>1 DEF UnknownAreWithin, inWindow, mine
  <2>1. \A i \in mine(d) : log[i].at \in Nat
    BY <1>1 DEF mine, Logged
  <2>2. inWindow(d, clock + 1) \subseteq inWindow(d, clock)
    BY <1>1, <2>1 DEF inWindow
  <2>3. inWindow(d, clock) \in SUBSET mine(d) /\ inWindow(d, clock + 1) \in SUBSET mine(d)
    BY DEF inWindow
  <2>4. /\ IsFiniteSet(inWindow(d, clock)) /\ Cardinality(inWindow(d, clock)) \in Nat
        /\ Cardinality(inWindow(d, clock + 1)) \in Nat
    BY <1>1, <2>3 DEF MineAreFinite
  <2>5. Cardinality(inWindow(d, clock + 1)) <= Cardinality(inWindow(d, clock))
    BY <2>2, <2>4, FS_Subset
  <2>6. Cardinality(inWindow(d, clock)) <= max
    BY <1>1 DEF UnknownAreWithin
  <2>7. Cardinality(inWindow(d, clock + 1)) <= max
    BY <2>4, <2>5, <2>6
  <2>8. QED
    BY <1>1, <2>1, <2>7 DEF UnknownAreWithin
<1>5. NoStretchOverTwice'
  BY <1>1 DEF NoStretchOverTwice, passed
<1>6. RefusedOnlyOverTheLimit' /\ StoresAgree'
  BY <1>1 DEF IInv, RefusedOnlyOverTheLimit, StoresAgree, passed
<1>7. RowsFollow'
  BY <1>1 DEF RowsFollow
<1>8. QED
  BY <1>2, <1>3, <1>4, <1>5, <1>6, <1>7 DEF IInv

LEMMA InitHolds == LimiterInit => IInv
<1> USE RateLimitAssumption
<1> SUFFICES ASSUME LimiterInit PROVE IInv
  OBVIOUS
<1>1. clock = 0 /\ DOMAIN memory = {} /\ DOMAIN rows = {} /\ log = << >> /\ DOMAIN log = {}
  BY DEF LimiterInit
<1>2. Shape
  BY <1>1 DEF Shape, Logged
<1>3. \A c, a, b : inWindow(c, a) = {} /\ mine(c) = {} /\ passed(c, a, b) = {}
  BY <1>1 DEF inWindow, mine, passed
<1>4. Cardinality({}) = 0
  BY FS_EmptySet
<1>5. CountsAreExact /\ RowsFollow /\ RefusedOnlyOverTheLimit /\ StoresAgree
  BY <1>1 DEF CountsAreExact, RowsFollow, RefusedOnlyOverTheLimit, StoresAgree
<1>6. UnknownAreWithin
  BY <1>3, <1>4 DEF UnknownAreWithin
<1>7. NoStretchOverTwice
  BY <1>3, <1>4 DEF NoStretchOverTwice
<1>8. QED
  BY <1>2, <1>5, <1>6, <1>7 DEF IInv

THEOREM InductiveInvariant == LimiterSpec => []IInv
<1>1. IInv /\ [LimiterNext]_limiter => IInv'
  <2> SUFFICES ASSUME IInv, [LimiterNext]_limiter PROVE IInv'
    OBVIOUS
  <2>1. ASSUME NEW c \in Callers, rateLimit(c) PROVE IInv'
    BY <2>1, ThreeAnswers, RenewsKeeps, CountsKeeps, RefusesKeeps
  <2>2. CASE Later
    BY <2>2, LaterKeeps
  <2>3. CASE UNCHANGED limiter
    BY <2>3 DEF limiter, IInv, Shape, Logged, CountsAreExact, UnknownAreWithin, NoStretchOverTwice,
       RefusedOnlyOverTheLimit, RowsFollow, StoresAgree, inWindow, before, mine, passed
  <2>4. QED
    BY <2>1, <2>2, <2>3 DEF LimiterNext
<1>2. QED
  BY <1>1, InitHolds, PTL DEF LimiterSpec

(* A refusal (memoryStore) means the allowance was used within a window's  *)
(* length, for every window, allowance and number of tracked callers.      *)
THEOREM RefusalsAreDue == LimiterSpec => []RefusedOnlyOverTheLimit
<1>1. IInv => RefusedOnlyOverTheLimit
  BY DEF IInv
<1>2. QED
  BY <1>1, InductiveInvariant, PTL

(* Fixed windows, pruned or not, let through at most twice the allowance in*)
(* any stretch of a window's length.                                       *)
THEOREM NeverOverTwice == LimiterSpec => []AtMostTwiceTheLimit
<1>1. IInv => AtMostTwiceTheLimit
  <2> SUFFICES ASSUME IInv, NEW i \in DOMAIN log
               PROVE  Cardinality(passed(log[i].caller, log[i].at, log[i].at + windowMs)) <= 2 * max
    BY DEF AtMostTwiceTheLimit
  <2>1. log[i] \in Entry
    BY DEF IInv, Shape, Logged
  <2>2. log[i].caller \in Callers /\ log[i].at \in Nat
    BY <2>1 DEF Entry
  <2>3. QED
    BY <2>2 DEF IInv, NoStretchOverTwice
<1>2. QED
  BY <1>1, InductiveInvariant, PTL

(* memoryStore and hit_rate_limit answer every request alike.              *)
THEOREM StoresAgreed == LimiterSpec => []StoresAgree
<1>1. IInv => StoresAgree
  BY DEF IInv
<1>2. QED
  BY <1>1, InductiveInvariant, PTL
=============================================================================
