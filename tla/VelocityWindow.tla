--------------------------- MODULE VelocityWindow ---------------------------
(***************************************************************************)
(* The record of recent payments of the Soroban account, as pure operators *)
(* (contracts/payment_policy/src/velocity.rs).  A fixed list of slots is   *)
(* at once the sliding velocity window, the memory that refuses a replayed *)
(* challenge, and the store of the proofs of intent not yet announced.     *)
(*                                                                         *)
(* Times are integers in an arbitrary unit, amounts integers in the token's*)
(* unit.  A slot's hashes and merchant key are all functions of the signed *)
(* challenge; challenge_hash stands for the three of them.                 *)
(***************************************************************************)
EXTENDS Integers, FiniteSets, FiniteSetsExt

CONSTANTS
    MAX_CHALLENGE_LIFETIME,  \* the longest a merchant challenge may stay valid
    MAX_TRACKED_PAYMENTS,    \* the most slots an account may be created with
    ZeroNonce,               \* the 32 zero bytes of an empty slot
    ZeroHash

ASSUME LifetimeAssumption == MAX_CHALLENGE_LIFETIME \in Nat \ {0}
ASSUME TrackedAssumption  == MAX_TRACKED_PAYMENTS \in Nat \ {0}

(* VelocityConfig: the spending limits of an account.                      *)
VelocityConfig == [max_payment_amount : Int, max_tx_count : Nat,
                   max_total_amount : Int, window_size : Nat]

empty_slot == [timestamp |-> 0, amount |-> 0, nonce |-> ZeroNonce,
               challenge_hash |-> ZeroHash, froze_account |-> FALSE,
               published |-> FALSE]

(* A bug: one slot too few.                                                *)
create_slots_short(capacity) == [i \in 1..(capacity - 1) |-> empty_slot]

(* The slots of a new account: one for each payment its window may hold.   *)
create_slots(capacity) == [i \in 1..capacity |-> empty_slot]

is_used(slot) == slot.amount > 0

(* A bug: a payment stops counting one unit of time early.                 *)
counts_short(slot, config, t) ==
    is_used(slot) /\ t - slot.timestamp < config.window_size - 1

(* A payment counts for window_size after it was made.  The subtraction    *)
(* saturates in the code; here a negative difference is below the window   *)
(* too, because a valid window is positive.                                *)
counts(slot, config, t) ==
    is_used(slot) /\ t - slot.timestamp < config.window_size

counting(slots, config, t) == {i \in DOMAIN slots : counts(slots[i], config, t)}

(* A bug: the total is of the payments' number, not of their amounts.      *)
summarize_count_only(slots, config, t) ==
    LET live == counting(slots, config, t)
    IN  [tx_count |-> Cardinality(live), total_amount |-> Cardinality(live)]

(* The window at time t.  window_start is only reported, never used.       *)
summarize(slots, config, t) ==
    LET live == counting(slots, config, t)
        amount_of(i) == slots[i].amount
    IN  [tx_count     |-> Cardinality(live),
         total_amount |-> MapThenSumSet(amount_of, live)]

(* A bug: no nonce is ever looked for.                                     *)
nonce_spent_never(slots, nonce) == FALSE

nonce_spent(slots, nonce) ==
    \E i \in DOMAIN slots : is_used(slots[i]) /\ slots[i].nonce = nonce

(* Whether the window has room for one more payment of this amount.        *)
fits(slots, config, t, amount) ==
    LET before == summarize(slots, config, t)
    IN  /\ before.tx_count < config.max_tx_count
        /\ before.total_amount + amount <= config.max_total_amount

(* A bug: only the number of payments fills a window.                      *)
fills_by_count(slots, config, t, amount) ==
    summarize(slots, config, t).tx_count + 1 >= config.max_tx_count

(* Whether that payment reaches one of the two limits, which freezes.      *)
fills(slots, config, t, amount) ==
    LET before == summarize(slots, config, t)
    IN  \/ before.tx_count + 1 >= config.max_tx_count
        \/ before.total_amount + amount >= config.max_total_amount

(* The slot a payment goes to: the first whose payment no longer counts.   *)
is_free(slots, config, t, i) ==
    /\ ~counts(slots[i], config, t)
    /\ \A j \in 1..(i - 1) : counts(slots[j], config, t)

(* is_valid, with the bounds of both limits and of the window.             *)
is_valid(config) ==
    /\ config.max_payment_amount > 0
    /\ config.max_total_amount > 0
    /\ config.max_payment_amount <= config.max_total_amount
    /\ config.max_tx_count > 0
    /\ config.max_tx_count <= MAX_TRACKED_PAYMENTS
    /\ config.window_size >= MAX_CHALLENGE_LIFETIME

(* Whether every limit stays or tightens.  A shorter window loosens.       *)
only_reduces(current, next) ==
    /\ next.max_payment_amount <= current.max_payment_amount
    /\ next.max_tx_count <= current.max_tx_count
    /\ next.max_total_amount <= current.max_total_amount
    /\ next.window_size >= current.window_size
=============================================================================
