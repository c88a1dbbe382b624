----------------------------- MODULE RateLimiter -----------------------------
(***************************************************************************)
(* The rate limit before the routers (backend/src/lib/rate-limit.ts), with *)
(* its counts in memory and in the database (hit_rate_limit of             *)
(* scripts/supabase-migration-002.sql), both asked about the same requests.*)
(* A read is not counted, and while a store cannot be reached requests go  *)
(* through: these change nothing and are not steps.                        *)
(***************************************************************************)
EXTENDS Naturals, FiniteSets, Functions, Sequences

CONSTANTS
    windowMs, max,
    MAX_TRACKED_CALLERS,
    Callers,
    MaxRequests, MaxClock   \* bounds

ASSUME RateLimitAssumption ==
    /\ windowMs \in Nat /\ max \in Nat \ {0} /\ MAX_TRACKED_CALLERS \in Nat

VARIABLES
    clock,
    memory,    \* memoryStore's counts: how many of each caller, until when
    rows,      \* the table rate_limits, the same
    log        \* the requests counted: whose, when, and whether each store let it pass

limiter == <<clock, memory, rows, log>>

put(counts, caller, count, resetAt) ==
    [c \in DOMAIN counts \cup {caller} |->
        IF c = caller THEN [count |-> count, resetAt |-> resetAt] ELSE counts[c]]

(* prune: only when there are too many, and only who is past the window.   *)
prune(counts, now) ==
    IF Cardinality(DOMAIN counts) < MAX_TRACKED_CALLERS THEN counts
    ELSE Restrict(counts, {c \in DOMAIN counts : now <= counts[c].resetAt})

(* A bug: a window is never renewed.                                       *)
memory_hit_once(counts, caller, now) ==
    IF caller \notin DOMAIN counts
    THEN [allowed |-> TRUE, counts |-> put(prune(counts, now), caller, 1, now + windowMs)]
    ELSE IF counts[caller].count >= max THEN [allowed |-> FALSE, counts |-> counts]
    ELSE [allowed |-> TRUE,
          counts |-> put(counts, caller, counts[caller].count + 1, counts[caller].resetAt)]

(* A bug: the length of the window is left out.                            *)
memory_hit_short(counts, caller, now) ==
    IF caller \notin DOMAIN counts \/ now > counts[caller].resetAt
    THEN [allowed |-> TRUE, counts |-> put(prune(counts, now), caller, 1, now)]
    ELSE IF counts[caller].count >= max THEN [allowed |-> FALSE, counts |-> counts]
    ELSE [allowed |-> TRUE,
          counts |-> put(counts, caller, counts[caller].count + 1, counts[caller].resetAt)]

(* memoryStore: a refused request is not counted.                          *)
memory_hit(counts, caller, now) ==
    IF caller \notin DOMAIN counts \/ now > counts[caller].resetAt
    THEN [allowed |-> TRUE, counts |-> put(prune(counts, now), caller, 1, now + windowMs)]
    ELSE IF counts[caller].count >= max THEN [allowed |-> FALSE, counts |-> counts]
    ELSE [allowed |-> TRUE,
          counts |-> put(counts, caller, counts[caller].count + 1, counts[caller].resetAt)]

(* A bug: every request begins a window anew.                              *)
database_hit_sliding(counts, caller, now) ==
    LET old == IF caller \in DOMAIN counts /\ counts[caller].resetAt >= now
               THEN counts[caller].count ELSE 0
    IN  [allowed |-> old + 1 <= max, counts |-> put(counts, caller, old + 1, now + windowMs)]

(* hit_rate_limit: every request is counted, and judged by the count.      *)
database_hit(counts, caller, now) ==
    LET row == IF caller \in DOMAIN counts /\ counts[caller].resetAt >= now
               THEN counts[caller] ELSE [count |-> 0, resetAt |-> now + windowMs]
    IN  [allowed |-> row.count + 1 <= max,
         counts |-> put(counts, caller, row.count + 1, row.resetAt)]

LimiterInit == clock = 0 /\ memory = << >> /\ rows = << >> /\ log = << >>

(* rateLimit: a request that is counted.                                   *)
rateLimit(caller) ==
    LET in_memory == memory_hit(memory, caller, clock)
        in_database == database_hit(rows, caller, clock)
    IN  /\ Len(log) < MaxRequests
        /\ memory' = in_memory.counts
        /\ rows' = in_database.counts
        /\ log' = Append(log, [caller |-> caller, at |-> clock, allowed |-> in_memory.allowed,
                               database |-> in_database.allowed])
        /\ UNCHANGED clock

Later == clock < MaxClock /\ clock' = clock + 1 /\ UNCHANGED <<memory, rows, log>>

LimiterNext == (\E caller \in Callers : rateLimit(caller)) \/ Later

LimiterSpec == LimiterInit /\ [][LimiterNext]_limiter

-----------------------------------------------------------------------------
(* What the limit promises.                                                *)

(* The requests of a caller let through from one time to another.          *)
passed(caller, from, to) ==
    {i \in DOMAIN log : log[i].caller = caller /\ log[i].allowed /\ log[i].at \in from..to}

(* Nobody is refused who did not use up the allowance within a window's    *)
(* length, even if they ask at its very end.                               *)
RefusedOnlyOverTheLimit ==
    \A i \in DOMAIN log : ~log[i].allowed =>
        LET earliest == IF log[i].at < windowMs THEN 0 ELSE log[i].at - windowMs
        IN  Cardinality(passed(log[i].caller, earliest, log[i].at)) >= max

(* However the requests fall around the edge of a window, and whatever was *)
(* pruned, no stretch of a window's length lets through more than twice the*)
(* allowance.                                                              *)
AtMostTwiceTheLimit ==
    \A i \in DOMAIN log :
        Cardinality(passed(log[i].caller, log[i].at, log[i].at + windowMs)) <= 2 * max

(* The two stores judge every request alike, though one counts the requests*)
(* it refuses and never prunes, and the other does the opposite.           *)
StoresAgree == \A i \in DOMAIN log : log[i].allowed = log[i].database
=============================================================================
