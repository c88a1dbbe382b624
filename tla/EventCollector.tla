--------------------------- MODULE EventCollector ---------------------------
(***************************************************************************)
(* The collector of the account's events (backend/src/ops/collector.ts,    *)
(* started by the cron or by hand over ops-routes.ts): it copies what an   *)
(* RPC node still holds into the database, page by page, and remembers     *)
(* where it stopped.                                                       *)
(*                                                                         *)
(* A position is what an event's id and a cursor are: a ledger's number in *)
(* the upper part and a place in the ledger in the lower, the last of which*)
(* ends the ledger.  Position 0 and ledger 0 are the null of the database. *)
(***************************************************************************)
EXTENDS Integers, FiniteSetsExt

CONSTANTS
    Runs,             \* collections that may be under way at once
    ByHand,           \* those among them that are started once, not by the cron
    PLACES,           \* places in a ledger (2^32)
    PAGE, SCAN,       \* the events and the ledgers of one answer, at most
    WINDOW,           \* the ledgers a node holds
    CREATED,          \* the ledger the account was deployed in
    Settings,         \* what POLICY_DEPLOY_LEDGER may say of it; 0 when it is not set
    MaxLedger, MaxFailures  \* bounds

ASSUME CollectorAssumption ==
    /\ ByHand \subseteq Runs
    /\ PLACES \in Nat \ {0, 1} /\ PAGE \in Nat \ {0} /\ SCAN \in Nat \ {0}
    /\ WINDOW \in Nat \ {0} /\ CREATED \in Nat \ {0} /\ Settings \subseteq Nat
    /\ MaxLedger \in Nat /\ MaxFailures \in Nat

VARIABLES
    latest,           \* the last ledger that closed
    events,           \* the events the account emitted
    chain_events,     \* those in the database
    collector_state,  \* the collector's row
    run,              \* each collection: how far it is and what it holds
    failures,
    reported,         \* history: the ledgers some last_error named as lost
    unasked           \* history: those left out unnamed, for want of the right setting

history   == <<reported, unasked>>
collector == <<latest, events, chain_events, collector_state, run, failures, history>>

cursorLedger(cursor) == cursor \div PLACES
end_of(ledger)       == ledger * PLACES + PLACES - 1

(* The first ledger the node still holds.                                  *)
oldestLedger(at) == IF at > WINDOW THEN at - WINDOW + 1 ELSE 1

not_running ==
    [step |-> "none", previous |-> [cursor |-> 0, last_ledger |-> 0], cursor |-> 0,
     last_ledger |-> 0, gap |-> {}, skipped |-> {}, page |-> [events |-> {}, latest |-> 0]]

CollectorInit ==
    /\ latest = 0
    /\ events = {} /\ chain_events = {}
    /\ collector_state = [cursor |-> 0, last_ledger |-> 0, last_error |-> "none"]
    /\ run = [c \in Runs |-> not_running]
    /\ failures = 0 /\ reported = {} /\ unasked = {}

becomes(c, r) == run' = [run EXCEPT ![c] = r]
over(c) == becomes(c, [not_running EXCEPT !.step = IF c \in ByHand THEN "over" ELSE "none"])

-----------------------------------------------------------------------------
(* The node.                                                               *)

(* Ledgers no run will miss: a run takes seconds and a window days, so what*)
(* a run has yet to read does not leave the window under it, but for one   *)
(* ledger between its two first calls.                                     *)
outpaced(c, at) ==
    /\ \/ run[c].step \in {"page", "next", "write"}
       \/ run[c].step = "first" /\ run[c].previous.cursor = 0
    /\ run[c].cursor < end_of(oldestLedger(at) - 1)

(* A ledger closes, with events of the account from its deployment on.     *)
Close ==
    /\ latest < MaxLedger
    /\ \A c \in Runs : ~outpaced(c, latest + 1)
    /\ latest' = latest + 1
    /\ \E n \in 0..(PLACES - 1) :
          /\ latest' < CREATED => n = 0
          /\ events' = events \cup {latest' * PLACES + i : i \in 0..(n - 1)}
    /\ UNCHANGED <<chain_events, collector_state, run, failures, history>>

first_few(set, n) == {e \in set : Cardinality({d \in set : d < e}) < n}

in_range(position) == position >= end_of(oldestLedger(latest) - 1)

(* A first run may be told to start at a ledger that has not closed.       *)
starts_late(r) == r.step = "first" /\ r.previous.cursor = 0 /\ r.cursor >= end_of(latest)

(* What the node answers to getEvents: the events after a position, in a   *)
(* bounded range of ledgers, and the position it reached.                  *)
answer_from(position) ==
    LET from  == Max({position, end_of(oldestLedger(latest) - 1)})
        until == Min({end_of(cursorLedger(from + 1) + SCAN - 1), Max({from, end_of(latest)})})
        found == first_few({e \in events : from < e /\ e <= until}, PAGE)
    IN  [events |-> found, latest |-> latest,
         cursor |-> IF Cardinality(found) = PAGE THEN Max(found) ELSE until]

-----------------------------------------------------------------------------
(* The collection: collect.                                                *)

started(row) ==
    [not_running EXCEPT !.step = IF row.cursor = 0 THEN "health" ELSE "first",
                        !.previous = [cursor |-> row.cursor, last_ledger |-> row.last_ledger],
                        !.cursor = row.cursor, !.last_ledger = row.last_ledger]

(* A bug: after a failure somebody has to clear the row first.             *)
begin_if_clean(c) ==
    /\ run[c].step = "none" /\ latest >= CREATED
    /\ collector_state.last_error # "failed"
    /\ becomes(c, started(collector_state))
    /\ UNCHANGED <<latest, events, chain_events, collector_state, failures, history>>

(* There is an account, and its row is read.                               *)
begin(c) ==
    /\ run[c].step = "none" /\ latest >= CREATED
    /\ becomes(c, started(collector_state))
    /\ UNCHANGED <<latest, events, chain_events, collector_state, failures, history>>

(* What a first run leaves out and does not name: nothing, when it knows   *)
(* of the account's first ledger.                                          *)
left_out(deployed, start, gap) ==
    IF deployed \in 1..CREATED THEN {} ELSE (CREATED..(start - 1)) \ gap

(* What it names: told of a deployment that has left the window.           *)
first_gap(deployed, oldest) ==
    IF deployed # 0 /\ deployed <= oldest THEN deployed..oldest ELSE {}

(* The first run starts where POLICY_DEPLOY_LEDGER says, or one ledger     *)
(* after the oldest the node holds if that is later, or it is not set.     *)
getHealth(c) ==
    \E deployed \in Settings :
        LET oldest == oldestLedger(latest)
            start  == Max({oldest + 1, deployed})
            gap    == first_gap(deployed, oldest)
        IN  /\ run[c].step = "health"
            /\ becomes(c, [run[c] EXCEPT !.step = "first", !.cursor = end_of(start - 1), !.gap = gap,
                              !.skipped = left_out(deployed, start, gap)])
            /\ UNCHANGED <<latest, events, chain_events, collector_state, failures, history>>

(* A bug: what is before the window is taken for read.                     *)
gap_of_none(previous, oldest, gap) == gap

(* The ledgers that left the window since the last event.                  *)
gap_of(previous, oldest, gap) ==
    IF previous.last_ledger # 0 /\ oldest > previous.last_ledger + 1
    THEN (previous.last_ledger + 1)..(oldest - 1)
    ELSE gap

(* An answer; a node asked for what it no longer holds may answer from what*)
(* it has, or refuse.                                                      *)
getEvents(c) ==
    /\ run[c].step \in {"first", "next"} /\ ~starts_late(run[c])
    /\ \E page \in {answer_from(run[c].cursor)} :
          becomes(c, [run[c] EXCEPT
              !.step = "page",
              !.cursor = page.cursor,
              !.page = [events |-> page.events, latest |-> page.latest],
              !.gap = IF run[c].step = "first"
                      THEN gap_of(run[c].previous, oldestLedger(latest), @) ELSE @])
    /\ UNCHANGED <<latest, events, chain_events, collector_state, failures, history>>

(* A page that is not full and has reached the latest ledger is the last.  *)
caught_up(r) ==
    /\ Cardinality(r.page.events) < PAGE
    /\ cursorLedger(r.cursor) >= r.page.latest

upsert(c) ==
    /\ run[c].step = "page"
    /\ chain_events' = chain_events \cup run[c].page.events
    /\ becomes(c, [run[c] EXCEPT
          !.step = IF caught_up(run[c]) THEN "write" ELSE "next",
          !.page = [events |-> {}, latest |-> IF caught_up(run[c]) THEN @.latest ELSE 0],
          !.last_ledger = Max({@} \cup {cursorLedger(e) : e \in run[c].page.events})])
    /\ UNCHANGED <<latest, events, collector_state, failures, history>>

(* writeState, at the end of the run.                                      *)
writeState(c) ==
    /\ run[c].step = "write"
    /\ collector_state' =
          [cursor |-> run[c].cursor,
           last_ledger |-> IF run[c].last_ledger # 0 THEN run[c].last_ledger ELSE run[c].page.latest,
           last_error |-> IF run[c].gap # {} THEN "gap" ELSE "none"]
    /\ reported' = reported \cup run[c].gap
    /\ unasked' = unasked \cup run[c].skipped
    /\ over(c)
    /\ UNCHANGED <<latest, events, chain_events, failures>>

(* A bug: the row keeps the place a failed run had reached.                *)
keep_place_reached(c) ==
    collector_state' = [cursor |-> run[c].cursor, last_ledger |-> run[c].last_ledger,
                        last_error |-> "failed"]

(* The catch: the row is left where the run found it, or not written.      *)
keep_place(c) ==
    collector_state' = [cursor |-> run[c].previous.cursor,
                        last_ledger |-> run[c].previous.last_ledger, last_error |-> "failed"]

(* A call fails, or the process ends.                                      *)
fail(c) ==
    /\ run[c].step \notin {"none", "over"}
    /\ failures < MaxFailures
    /\ failures' = failures + 1
    /\ keep_place(c) \/ UNCHANGED collector_state
    /\ over(c)
    /\ UNCHANGED <<latest, events, chain_events, history>>

(* The node refuses a place it no longer holds, or not yet.                *)
refused(c) ==
    /\ run[c].step \in {"first", "next"}
    /\ ~in_range(run[c].cursor) \/ starts_late(run[c])
    /\ keep_place(c)
    /\ over(c)
    /\ UNCHANGED <<latest, events, chain_events, failures, history>>

collect(c) == getHealth(c) \/ getEvents(c) \/ upsert(c) \/ writeState(c)

CollectorNext ==
    \/ Close
    \/ \E c \in Runs : begin(c) \/ collect(c) \/ fail(c) \/ refused(c)

(* The cron starts runs for ever, and calls return: some run goes on.      *)
CollectorFairness ==
    WF_collector(\E c \in Runs : begin(c) \/ collect(c) \/ refused(c))

CollectorSpec == CollectorInit /\ [][CollectorNext]_collector /\ CollectorFairness

-----------------------------------------------------------------------------
(* What must hold.                                                         *)

(* known-limitations.md: a collector that stops for too long leaves a gap, *)
(* which is reported.  Whatever lies behind the cursor is in the database, *)
(* or in a ledger some run named as lost: through failed pages, runs side  *)
(* by side that write the row in any order, and a window that moved on.    *)
(* Only the ledgers before the start of a first run whose                  *)
(* POLICY_DEPLOY_LEDGER was not set, or too late, go without a word.       *)
LossIsReported ==
    \A e \in events : e <= collector_state.cursor =>
        e \in chain_events \/ cursorLedger(e) \in reported \cup unasked

(* The cursor fell out of the window: a node that refuses it is asked for  *)
(* the same place by every later run.                                      *)
Behind == collector_state.cursor # 0 /\ ~in_range(collector_state.cursor)

(* The collector catches up, again and again, whatever fails for a time:   *)
(* each event is collected, unless it leaves the window first, or the      *)
(* cursor has fallen out of it.                                            *)
CatchesUp ==
    []<>\/ Behind
        \/ \A e \in events : \/ e \in chain_events
                             \/ cursorLedger(e) \in reported \cup unasked
                             \/ cursorLedger(e) < oldestLedger(latest)

(* collector.ts: a gap is what 'had left the RPC window before they were   *)
(* read'; nothing the run before had left behind its cursor.               *)
GapsWereUnread ==
    \A c \in Runs : \A ledger \in run[c].gap : ledger > cursorLedger(run[c].previous.cursor)
=============================================================================
