---------------------------- MODULE PaymentPolicy ----------------------------
(***************************************************************************)
(* The Soroban policy account (contracts/payment_policy/src/lib.rs): a     *)
(* smart account that holds a balance, lets a delegated agent pay approved *)
(* merchants within velocity limits, and answers to its owner's passkey.   *)
(*                                                                         *)
(* Every action is one transaction that succeeds.  A transaction that is   *)
(* refused, or whose token transfer fails, unwinds everything it wrote, so *)
(* it is a stuttering step.  Many transactions may share one ledger, hence *)
(* one timestamp: only Tick advances the clock.                            *)
(***************************************************************************)
EXTENDS VelocityWindow, PolicyAuthorization

CONSTANTS
    Nonces, Merchants, Agents, Addresses, Tokens,
    Asset,        \* the one token the account pays in
    NoSigner,     \* the agent signer has been revoked
    Challenges,   \* the challenges merchants ever sign
    Batches,      \* the batches of calls the agent ever asks to authorize
    Configs,      \* the limits an account is created with, or asked to reduce to
    Deposits,     \* the amounts the account may be funded with
    MaxFunded,    \* bound: what is deposited of each token, in all
    MaxTime       \* bound: the last ledger timestamp

Challenge == [nonce : Nonces, amount : Int, expiry : Nat, merchant : Merchants,
              recipient : Addresses, asset : Tokens]

ASSUME ChallengesAssumption == Challenges \subseteq Challenge
ASSUME ConfigsAssumption == Configs \subseteq VelocityConfig
ASSUME BatchesAssumption ==
    \A batch \in Batches : Len(batch) \in Nat /\ DOMAIN batch = 1..Len(batch)
ASSUME SignerAssumption == NoSigner \notin Agents
ASSUME BoundsAssumption == /\ MaxTime \in Nat
                           /\ MaxFunded \in [Tokens -> Nat]
                           /\ Deposits \subseteq Nat \ {0}

VARIABLES
    now,               \* the ledger timestamp
    frozen,            \* Frozen
    agent_signer,      \* AgentSigner
    merchants,         \* the Merchant entries
    velocity_config,   \* VelocityConfig
    slots,             \* Payments
    balance,           \* what the account holds of each token
    \* history, not in the account's storage
    creation_config,   \* the limits the account was created with
    payments,          \* every payment made: its challenge and its time
    funded, recovered, \* what was deposited, and what went to the recovery address
    announced,         \* how often each challenge's ProofOfIntent was emitted
    owner_stopped      \* the owner froze the account and has not restored it since

limits  == <<velocity_config, creation_config>>
funds   == <<balance, funded, recovered>>
history == <<payments, announced, owner_stopped>>
vars == <<now, frozen, agent_signer, merchants, slots, limits, funds, history>>

PaymentRecord == [timestamp : Nat, amount : Int, nonce : Nonces \cup {ZeroNonce},
                  challenge_hash : Challenges \cup {ZeroHash},
                  froze_account : BOOLEAN, published : BOOLEAN]

(* The account's storage and its history are well typed: one slot for each *)
(* payment the creation limits allow, valid limits, known keys.            *)
TypeOK ==
    /\ now \in Nat
    /\ frozen \in BOOLEAN
    /\ agent_signer \in Agents \cup {NoSigner}
    /\ merchants \subseteq Merchants
    /\ velocity_config \in VelocityConfig /\ is_valid(velocity_config)
    /\ creation_config \in VelocityConfig /\ is_valid(creation_config)
    /\ slots \in [1..creation_config.max_tx_count -> PaymentRecord]
    /\ payments \in Seq([challenge : Challenges, at : Nat])
    /\ announced \in [Challenges -> Nat]
    /\ owner_stopped \in BOOLEAN

(* The constructor: any valid limits, not frozen, no merchant, empty slots.*)
(* The recovery address is fixed, and is not the account's own.            *)
Init ==
    /\ now = 1
    /\ frozen = FALSE
    /\ agent_signer \in Agents
    /\ merchants = {}
    /\ velocity_config \in {config \in Configs : is_valid(config)}
    /\ creation_config = velocity_config
    /\ slots = create_slots(velocity_config.max_tx_count)
    /\ balance = [t \in Tokens |-> 0]
    /\ funded = [t \in Tokens |-> 0]
    /\ recovered = [t \in Tokens |-> 0]
    /\ payments = << >>
    /\ announced = [c \in Challenges |-> 0]
    /\ owner_stopped = FALSE

-----------------------------------------------------------------------------
(* Owner actions, each authorized by the passkey in a transaction of its   *)
(* own.  None of them looks at the frozen flag but recover_funds.          *)

freeze_payments ==
    /\ frozen' = TRUE
    /\ owner_stopped' = TRUE
    /\ UNCHANGED <<now, agent_signer, merchants, slots, limits, funds, payments, announced>>

(* A bug: restoring hands out a fresh budget.                              *)
restore_payments_clearing ==
    /\ frozen' = FALSE
    /\ slots' = create_slots(creation_config.max_tx_count)
    /\ owner_stopped' = FALSE
    /\ UNCHANGED <<now, agent_signer, merchants, limits, funds, payments, announced>>

restore_payments ==
    /\ frozen' = FALSE
    /\ owner_stopped' = FALSE
    /\ UNCHANGED <<now, agent_signer, merchants, slots, limits, funds, payments, announced>>

revoke_agent_signer ==
    /\ agent_signer # NoSigner
    /\ agent_signer' = NoSigner
    /\ UNCHANGED <<now, frozen, merchants, slots, limits, funds, history>>

set_agent_signer(new_signer) ==
    /\ agent_signer' = new_signer
    /\ UNCHANGED <<now, frozen, merchants, slots, limits, funds, history>>

add_merchant(merchant) ==
    /\ merchants' = merchants \cup {merchant}
    /\ UNCHANGED <<now, frozen, agent_signer, slots, limits, funds, history>>

remove_merchant(merchant) ==
    /\ merchants' = merchants \ {merchant}
    /\ UNCHANGED <<now, frozen, agent_signer, slots, limits, funds, history>>

(* A bug: the slots are cut to the new count, the last ones forgotten.     *)
reduce_limits_resizing(config) ==
    /\ is_valid(config)
    /\ only_reduces(velocity_config, config)
    /\ velocity_config' = config
    /\ slots' = [i \in 1..config.max_tx_count |-> slots[i]]
    /\ UNCHANGED <<now, frozen, agent_signer, merchants, creation_config, funds, history>>

reduce_limits(config) ==
    /\ is_valid(config)
    /\ only_reduces(velocity_config, config)
    /\ velocity_config' = config
    /\ UNCHANGED <<now, frozen, agent_signer, merchants, slots, creation_config, funds,
                   history>>

recover_funds(token) ==
    /\ frozen
    /\ balance[token] > 0
    /\ recovered' = [recovered EXCEPT ![token] = @ + balance[token]]
    /\ balance' = [balance EXCEPT ![token] = 0]
    /\ UNCHANGED <<now, frozen, agent_signer, merchants, slots, limits, funded, history>>

-----------------------------------------------------------------------------
(* The agent path.                                                         *)

(* A bug: a challenge may expire as late as the merchant likes.            *)
challenge_not_expired(expiry, t) == expiry # 0 /\ t <= expiry

(* A challenge is alive until its expiry, that moment included, and may    *)
(* not expire later than the longest lifetime from now.                    *)
challenge_is_live(expiry, t) ==
    /\ expiry # 0
    /\ t <= expiry
    /\ expiry - t <= MAX_CHALLENGE_LIFETIME

(* The checks on a payment before it is recorded, in the code's order.  A  *)
(* signature over other bytes than these aborts, so a challenge not signed *)
(* by its merchant, or not by this agent, does not reach them.             *)
check_payment_authorization(signer, c, batch) ==
    /\ path_allowed("Agent", batch)
    /\ ~frozen
    /\ signer = agent_signer
    /\ c.merchant \in merchants
    /\ c.asset = Asset
    /\ c.amount > 0
    /\ c.amount <= velocity_config.max_payment_amount
    /\ challenge_is_live(c.expiry, now)
    /\ check_settlement(c, batch)

(* What the transfers of an authorized batch move of a token, from here and*)
(* to here: the token contract moves each one's amount.                    *)
transfers(batch, token) ==
    {k \in DOMAIN batch : batch[k].contract = token /\ batch[k].fn_name = "transfer"}

sum_of(batch, ks) == LET amount_of(k) == batch[k].amount IN MapThenSumSet(amount_of, ks)

sent(batch, token) == sum_of(batch, {k \in transfers(batch, token) : batch[k].from = This})

received(batch, token) == sum_of(batch, {k \in transfers(batch, token) : batch[k].to = This})

(* A bug: the record does not say that its payment froze the account.      *)
record_without_flag(c, i) ==
    /\ slots' = [slots EXCEPT ![i] =
           [timestamp |-> now, amount |-> c.amount, nonce |-> c.nonce, challenge_hash |-> c,
            froze_account |-> FALSE, published |-> FALSE]]
    /\ frozen' = (frozen \/ fills(slots, velocity_config, now, c.amount))

(* record: the payment takes slot i, and freezes the account if it fills   *)
(* the window.                                                             *)
record(c, i) ==
    LET filled == fills(slots, velocity_config, now, c.amount)
    IN  /\ slots' = [slots EXCEPT ![i] =
               [timestamp |-> now, amount |-> c.amount, nonce |-> c.nonce,
                challenge_hash |-> c, froze_account |-> filled, published |-> FALSE]]
        /\ frozen' = (frozen \/ filled)

(* A payment: authorized, recorded, and its transfer made, in one          *)
(* transaction.                                                            *)
pay(signer, c, batch) ==
    /\ check_payment_authorization(signer, c, batch)
    /\ ~nonce_spent(slots, c.nonce)
    /\ fits(slots, velocity_config, now, c.amount)
    /\ \E i \in DOMAIN slots : is_free(slots, velocity_config, now, i) /\ record(c, i)
    /\ \A t \in Tokens : sent(batch, t) <= balance[t]
    /\ balance' = [t \in Tokens |-> balance[t] - sent(batch, t) + received(batch, t)]
    /\ payments' = Append(payments, [challenge |-> c, at |-> now])
    /\ UNCHANGED <<now, agent_signer, merchants, limits, funded, recovered, announced,
                   owner_stopped>>

-----------------------------------------------------------------------------
(* What anyone may do.                                                     *)

(* A bug: the slot is not marked, so a proof may be announced again.       *)
mark_published_forgetting(i) == UNCHANGED slots

mark_published(i) == slots' = [slots EXCEPT ![i].published = TRUE]

holds_nonce(slot, nonce) == is_used(slot) /\ slot.nonce = nonce

(* Announce the proof of the payment in the first slot with this nonce,    *)
(* and with it the freeze it caused, whatever has happened since.          *)
publish_proof(nonce) ==
    \E i \in DOMAIN slots :
        /\ holds_nonce(slots[i], nonce)
        /\ \A j \in 1..(i - 1) : ~holds_nonce(slots[j], nonce)
        /\ ~slots[i].published
        /\ mark_published(i)
        /\ announced' = [announced EXCEPT ![slots[i].challenge_hash] = @ + 1]
        /\ UNCHANGED <<now, frozen, agent_signer, merchants, limits, funds, payments,
                       owner_stopped>>

(* Someone sends the account tokens.                                       *)
deposit(token, amount) ==
    /\ funded[token] + amount <= MaxFunded[token]
    /\ funded' = [funded EXCEPT ![token] = @ + amount]
    /\ balance' = [balance EXCEPT ![token] = @ + amount]
    /\ UNCHANGED <<now, frozen, agent_signer, merchants, slots, limits, recovered, history>>

(* A ledger closes with a later timestamp.                                 *)
Tick ==
    /\ now < MaxTime
    /\ now' = now + 1
    /\ UNCHANGED <<frozen, agent_signer, merchants, slots, limits, funds, history>>

OwnerAction ==
    \/ freeze_payments
    \/ restore_payments
    \/ revoke_agent_signer
    \/ \E a \in Agents : set_agent_signer(a)
    \/ \E m \in Merchants : add_merchant(m) \/ remove_merchant(m)
    \/ \E config \in Configs : reduce_limits(config)
    \/ \E t \in Tokens : recover_funds(t)

AgentAction == \E a \in Agents, c \in Challenges, batch \in Batches : pay(a, c, batch)

Next ==
    \/ OwnerAction
    \/ AgentAction
    \/ \E n \in Nonces : publish_proof(n)
    \/ \E t \in Tokens, amount \in Deposits : deposit(t, amount)
    \/ Tick

Spec == Init /\ [][Next]_vars

-----------------------------------------------------------------------------
(* What must hold.                                                         *)

(* The account still holds the record of its i-th payment.                 *)
held(i) ==
    \E k \in DOMAIN slots :
        /\ is_used(slots[k])
        /\ slots[k].nonce = payments[i].challenge.nonce
        /\ slots[k].challenge_hash = payments[i].challenge
        /\ slots[k].amount = payments[i].challenge.amount
        /\ slots[k].timestamp = payments[i].at

(* The payments made in the window of the creation limits that the i-th    *)
(* payment ends.                                                           *)
window_ending(i) ==
    {j \in 1..i : payments[i].at - payments[j].at < creation_config.window_size}

(* No payment is forgotten while it counts toward the limits the account   *)
(* was created with, whatever slots were reused, limits reduced, freezes   *)
(* lifted or keys changed in between.                                      *)
RecentPaymentsHeld ==
    \A i \in DOMAIN payments :
        now - payments[i].at < creation_config.window_size => held(i)

(* A challenge has expired by the time the account forgets the payment     *)
(* that spent it (velocity.rs, the module's comment).                      *)
ForgottenHaveExpired ==
    \A i \in DOMAIN payments : held(i) \/ now > payments[i].challenge.expiry

(* A challenge is paid at most once, though its merchant's signature stays *)
(* good for as long as it lives and the agent may sign it again.           *)
ChallengePaidOnce ==
    \A i, j \in DOMAIN payments :
        payments[i].challenge = payments[j].challenge => i = j

(* Where the module's comment is wrong, it is wrong by one moment: only if *)
(* the window is exactly as long as the challenge lived may it be paid     *)
(* again, only in the very moment it expires, and so never a third time.   *)
PaidAgainOnlyAsItExpires ==
    \A i, j \in DOMAIN payments :
        i < j /\ payments[i].challenge = payments[j].challenge =>
            /\ payments[j].at = payments[j].challenge.expiry
            /\ payments[j].at - payments[i].at = creation_config.window_size
            /\ creation_config.window_size = MAX_CHALLENGE_LIFETIME

(* The limits of creation are a ceiling for as long as the account exists: *)
(* no window of their length ever held more payments than they allow.      *)
CountCeiling ==
    \A i \in DOMAIN payments :
        Cardinality(window_ending(i)) <= creation_config.max_tx_count

(* ... nor payments that add up to more than they allow.                   *)
TotalCeiling ==
    \A i \in DOMAIN payments :
        LET amount_of(j) == payments[j].challenge.amount
        IN  MapThenSumSet(amount_of, window_ending(i)) <= creation_config.max_total_amount

(* record's comment: there is always a free slot while the window is below *)
(* its limit, so the payment is never refused for want of one, even after  *)
(* the limits were reduced below the number of slots.                      *)
FreeSlotUnderLimit ==
    summarize(slots, velocity_config, now).tx_count < velocity_config.max_tx_count
        => \E i \in DOMAIN slots : ~counts(slots[i], velocity_config, now)

(* Money leaves the account in two ways only: by the payments it recorded, *)
(* to the last unit, in the asset, to the recipient agreed, and by         *)
(* recovery.                                                               *)
FundsAccountedFor ==
    \A t \in Tokens :
        LET leaving == {i \in DOMAIN payments :
                           t = Asset /\ payments[i].challenge.recipient # This}
            paid(i) == payments[i].challenge.amount
        IN  /\ balance[t] >= 0
            /\ funded[t] = balance[t] + recovered[t] + MapThenSumSet(paid, leaving)

(* publish_proof only ever announces what happened, and only once: never   *)
(* more proofs of a challenge than payments of it.                         *)
ProofsTellTheTruth ==
    \A c \in Challenges :
        announced[c] <= Cardinality({i \in DOMAIN payments : payments[i].challenge = c})

(* A freeze the owner did not ask for is never silent for good: while it   *)
(* lasts, the account holds the record of the payment that caused it, the  *)
(* last one, and the record says so, whether its proof was announced, and  *)
(* the freeze with it, or still waits for it.                              *)
StopCanBeAnnounced ==
    frozen /\ ~owner_stopped =>
        \E k \in DOMAIN slots :
            /\ is_used(slots[k]) /\ slots[k].froze_account
            /\ payments # << >>
            /\ slots[k].nonce = payments[Len(payments)].challenge.nonce
            /\ slots[k].timestamp = payments[Len(payments)].at

(* velocity.rs, counts: a payment counts for exactly the window after it   *)
(* was made, whatever happens in between; so it is held that long.         *)
CountsForItsWholeWindow ==
    \A i \in DOMAIN payments :
        now - payments[i].at < velocity_config.window_size => held(i)

(* The account keeps the mandate it was created with.                      *)
Mandate == INSTANCE SpendingMandate WITH
    clock <- now, mandate <- creation_config, spent <- payments, stopped <- frozen
KeepsMandate == Mandate!Spec
=============================================================================
