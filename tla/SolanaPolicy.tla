---------------------------- MODULE SolanaPolicy ----------------------------
(***************************************************************************)
(* The policy account as a Solana program (solana/programs/beaver402_policy*)
(* /src): the same payments window as the Soroban account, but the program *)
(* has to find out for itself who agreed to what, by reading the other     *)
(* instructions of its transaction.                                        *)
(*                                                                         *)
(* Every action is one transaction that succeeds; a refused one unwinds all*)
(* it wrote, the owner's counter included.  A challenge stands for its own *)
(* hash, and an owner action's challenge for the bytes it is hashed from.  *)
(***************************************************************************)
EXTENDS VelocityWindow, Sequences, Functions

CONSTANTS
    MAX_OWNER_VALIDITY,  \* the furthest ahead an owner's deadline may lie
    MAX_MERCHANTS,       \* what the merchant list has room for
    Merchants, Agents, Addresses, Nonces,
    Digests,             \* of the HTTP requests that terms are for
    This,                \* the policy account's address
    NoSigner,            \* the default key: no agent
    NoArg,               \* the argument of an action that takes none
    Challenges,          \* what merchants sign
    Forged,              \* terms somebody made up: no merchant signed them
    Configs,             \* limits asked for at creation or later
    Layouts,             \* the shapes of the transactions submitted
    Signings,            \* what the passkey is asked: an action, its argument, a deadline,
                         \* and whether it checked who was there
    Deposits, MaxSigned, MaxFunded, MaxTime  \* bounds

Terms == Challenges \cup Forged

ASSUME SolanaAssumption ==
    /\ MAX_OWNER_VALIDITY \in Nat /\ MAX_MERCHANTS \in Nat \ {0}
    /\ Terms \subseteq [nonce : Nonces, amount : Nat, expiry : Nat, merchant : Merchants,
                        recipient : Addresses, request_digest : Digests]
    /\ Configs \subseteq VelocityConfig
    /\ NoSigner \notin Agents
    /\ \A s \in Signings : s.valid_until \in Nat /\ s.user_verified \in BOOLEAN
    /\ Deposits \subseteq Nat \ {0}

VARIABLES
    now,           \* Clock::unix_timestamp
    frozen, agent_signer, owner_nonce,
    merchants,     \* merchants[..merchant_count]
    limits, slots,
    vault,         \* the balance of the vault
    \* history, not in the account
    creation_limits,
    payments,      \* the payments made: terms and time
    signed,        \* the assertions the owner's passkey has made
    executed,      \* the owner actions that succeeded, in order
    funded, recovered

money   == <<vault, funded, recovered>>
config  == <<limits, creation_limits>>
vars == <<now, frozen, agent_signer, owner_nonce, merchants, config, slots, money, payments,
          signed, executed>>

zeroed_slot == [timestamp |-> 0, amount |-> 0, nonce |-> ZeroNonce,
                challenge_hash |-> ZeroHash, froze_account |-> FALSE]

PaymentRecord == [timestamp : Nat, amount : Nat, nonce : Nonces \cup {ZeroNonce},
                  challenge_hash : Terms \cup {ZeroHash}, froze_account : BOOLEAN]

(* The account is well typed: always all the slots, a list that fits.      *)
TypeOK ==
    /\ now \in Nat /\ frozen \in BOOLEAN /\ owner_nonce \in Nat
    /\ agent_signer \in Agents \cup {NoSigner}
    /\ merchants \in Seq(Merchants) /\ Len(merchants) <= MAX_MERCHANTS
    /\ limits \in VelocityConfig /\ is_valid(limits)
    /\ creation_limits \in VelocityConfig
    /\ slots \in [1..MAX_TRACKED_PAYMENTS -> PaymentRecord]
    /\ vault \in Nat

(* initialize: the list and the slots start out zeroed.                    *)
Init ==
    /\ now = 1
    /\ frozen = FALSE
    /\ agent_signer \in Agents
    /\ owner_nonce = 0
    /\ merchants = << >>
    /\ limits \in {c \in Configs : is_valid(c)}
    /\ creation_limits = limits
    /\ slots = [i \in 1..MAX_TRACKED_PAYMENTS |-> zeroed_slot]
    /\ vault = 0 /\ funded = 0 /\ recovered = 0
    /\ payments = << >> /\ executed = << >>
    /\ signed = {}

-----------------------------------------------------------------------------
(* Reading the transaction.  A layout gives the program of each of its     *)
(* instructions, and of its precompile instruction how many signatures it  *)
(* verifies and whether the bytes it verified are its own.                 *)

(* What the backend submits: a compute limit, the merchant's or owner's    *)
(* signature for the precompile with its bytes beside it, one policy call. *)
submitted == [programs |-> <<"compute_budget", "precompile", "policy">>,
              signatures |-> 1, inside |-> TRUE]

of_program(layout, program) ==
    {k \in DOMAIN layout.programs : layout.programs[k] = program}

(* A bug: what the offsets point at is read without asking where it lies.  *)
verified_by_precompile_anywhere(layout) ==
    /\ Cardinality(of_program(layout, "precompile")) = 1
    /\ Cardinality(of_program(layout, "policy")) = 1
    /\ of_program(layout, "other") = {}
    /\ layout.signatures = 1

verified_by_precompile(layout) ==
    /\ Cardinality(of_program(layout, "precompile")) = 1
    /\ Cardinality(of_program(layout, "policy")) = 1
    /\ of_program(layout, "other") = {}
    /\ layout.signatures = 1
    /\ layout.inside

(* What the runtime lets through: bytes of the precompile's own instruction*)
(* are verified; bytes that only lie there are anything.                   *)
precompile_passes(layout, genuine) == layout.inside => genuine

-----------------------------------------------------------------------------
(* Owner actions.                                                          *)

(* A bug: the counter is left out of what the passkey signs.               *)
challenge_uncounted(action, arg, nonce, valid_until) ==
    [action |-> action, arg |-> arg, nonce |-> 0, valid_until |-> valid_until]

(* What the passkey signs: this program, this account, the action with its *)
(* arguments, the counter and the deadline.                                *)
challenge(action, arg, nonce, valid_until) ==
    [action |-> action, arg |-> arg, nonce |-> nonce, valid_until |-> valid_until]

(* The owner's passkey answers a challenge prepared for the account as it  *)
(* is now; nothing says the assertion is submitted before another one.     *)
sign(s) ==
    /\ Cardinality(signed) < MaxSigned
    /\ signed' = signed \cup
           {[challenge |-> challenge(s.action, s.arg, owner_nonce, s.valid_until),
             valid_until |-> s.valid_until, user_verified |-> s.user_verified]}
    /\ UNCHANGED <<now, frozen, agent_signer, owner_nonce, merchants, config, slots, money,
                   payments, executed>>

(* What a transaction may present: an assertion the passkey made, or one   *)
(* somebody made up, which has no signature.                               *)
Assertions ==
    signed \cup
    {[challenge |-> challenge(s.action, s.arg, owner_nonce, s.valid_until),
      valid_until |-> s.valid_until, user_verified |-> TRUE] : s \in Signings}

(* authorize: the deadline, the transaction's layout, the owner's key, the *)
(* verified user, and this very action's challenge at the current counter. *)
authorize(action, arg, proof, layout) ==
    /\ now <= proof.valid_until
    /\ proof.valid_until - now <= MAX_OWNER_VALIDITY
    /\ proof.challenge = challenge(action, arg, owner_nonce, proof.valid_until)
    /\ proof.user_verified
    /\ verified_by_precompile(layout)
    /\ owner_nonce' = owner_nonce + 1
    /\ executed' = Append(executed, [action |-> action, arg |-> arg, at |-> now])

freeze_payments(proof, layout) ==
    /\ authorize("freeze_payments", NoArg, proof, layout)
    /\ frozen' = TRUE
    /\ UNCHANGED <<now, agent_signer, merchants, config, slots, money, payments, signed>>

restore_payments(proof, layout) ==
    /\ authorize("restore_payments", NoArg, proof, layout)
    /\ frozen' = FALSE
    /\ UNCHANGED <<now, agent_signer, merchants, config, slots, money, payments, signed>>

revoke_agent_signer(proof, layout) ==
    /\ authorize("revoke_agent_signer", NoArg, proof, layout)
    /\ agent_signer # NoSigner
    /\ agent_signer' = NoSigner
    /\ UNCHANGED <<now, frozen, merchants, config, slots, money, payments, signed>>

set_agent_signer(pubkey, proof, layout) ==
    /\ authorize("set_agent_signer", pubkey, proof, layout)
    /\ pubkey # NoSigner
    /\ agent_signer' = pubkey
    /\ UNCHANGED <<now, frozen, merchants, config, slots, money, payments, signed>>

(* Adding a merchant that is there already changes nothing.                *)
add_merchant(pubkey, proof, layout) ==
    /\ authorize("add_merchant", pubkey, proof, layout)
    /\ \/ pubkey \in Range(merchants) /\ UNCHANGED merchants
       \/ /\ pubkey \notin Range(merchants)
          /\ Len(merchants) < MAX_MERCHANTS
          /\ merchants' = Append(merchants, pubkey)
    /\ UNCHANGED <<now, frozen, agent_signer, config, slots, money, payments, signed>>

(* The list without entry k: the last one takes its place.                 *)
swap_removed(list, k) ==
    SubSeq([list EXCEPT ![k] = list[Len(list)]], 1, Len(list) - 1)

(* A bug: the last entry goes, whichever was named.                        *)
remove_merchant_last(pubkey, proof, layout) ==
    /\ authorize("remove_merchant", pubkey, proof, layout)
    /\ \/ pubkey \notin Range(merchants) /\ UNCHANGED merchants
       \/ \E k \in DOMAIN merchants :
             /\ merchants[k] = pubkey
             /\ merchants' = SubSeq(merchants, 1, Len(merchants) - 1)
    /\ UNCHANGED <<now, frozen, agent_signer, config, slots, money, payments, signed>>

remove_merchant(pubkey, proof, layout) ==
    /\ authorize("remove_merchant", pubkey, proof, layout)
    /\ \/ pubkey \notin Range(merchants) /\ UNCHANGED merchants
       \/ \E k \in DOMAIN merchants :
             merchants[k] = pubkey /\ merchants' = swap_removed(merchants, k)
    /\ UNCHANGED <<now, frozen, agent_signer, config, slots, money, payments, signed>>

reduce_limits(next, proof, layout) ==
    /\ authorize("reduce_limits", next, proof, layout)
    /\ is_valid(next)
    /\ only_reduces(limits, next)
    /\ limits' = next
    /\ UNCHANGED <<now, frozen, agent_signer, merchants, creation_limits, slots, money,
                   payments, signed>>

(* The whole vault goes to the recovery address of the creation.           *)
recover_funds(proof, layout) ==
    /\ authorize("recover_funds", NoArg, proof, layout)
    /\ frozen
    /\ vault > 0
    /\ recovered' = recovered + vault
    /\ vault' = 0
    /\ UNCHANGED <<now, frozen, agent_signer, merchants, config, slots, funded, payments,
                   signed>>

OwnerAction ==
    \E proof \in Assertions, layout \in Layouts :
        /\ precompile_passes(layout, proof \in signed)
        /\ \/ freeze_payments(proof, layout)
           \/ restore_payments(proof, layout)
           \/ revoke_agent_signer(proof, layout)
           \/ recover_funds(proof, layout)
           \/ \E agent \in Agents \cup {NoSigner} : set_agent_signer(agent, proof, layout)
           \/ \E m \in Merchants : add_merchant(m, proof, layout)
           \/ \E m \in Merchants : remove_merchant(m, proof, layout)
           \/ \E next \in Configs : reduce_limits(next, proof, layout)

-----------------------------------------------------------------------------
(* Payments.                                                               *)

(* A bug: a nonce may come again.                                          *)
record_again(c) ==
    LET filled == fills(slots, limits, now, c.amount)
    IN  /\ fits(slots, limits, now, c.amount)
        /\ \E i \in DOMAIN slots :
              /\ is_free(slots, limits, now, i)
              /\ slots' = [slots EXCEPT ![i] =
                     [timestamp |-> now, amount |-> c.amount, nonce |-> c.nonce,
                      challenge_hash |-> c, froze_account |-> filled]]
        /\ frozen' = (frozen \/ filled)

(* record: refused for a spent nonce or a full window; the payment takes   *)
(* the first free slot and freezes the account if it fills the window.     *)
record(c) ==
    LET filled == fills(slots, limits, now, c.amount)
    IN  /\ ~nonce_spent(slots, c.nonce)
        /\ fits(slots, limits, now, c.amount)
        /\ \E i \in DOMAIN slots :
              /\ is_free(slots, limits, now, i)
              /\ slots' = [slots EXCEPT ![i] =
                     [timestamp |-> now, amount |-> c.amount, nonce |-> c.nonce,
                      challenge_hash |-> c, froze_account |-> filled]]
        /\ frozen' = (frozen \/ filled)

(* A bug: a payment to the account itself leaves the books.                *)
transfer_checked_out(c) == c.amount <= vault /\ vault' = vault - c.amount

(* The transfer: from the vault to the recipient's token account, which is *)
(* the vault itself when the recipient is the policy account.              *)
transfer_checked(c) ==
    /\ c.amount <= vault
    /\ vault' = IF c.recipient = This THEN vault ELSE vault - c.amount

pay(agent, c, layout) ==
    /\ ~frozen
    /\ agent_signer # NoSigner
    /\ agent = agent_signer
    /\ c.merchant \in Range(merchants)
    /\ c.amount > 0
    /\ c.amount <= limits.max_payment_amount
    /\ c.expiry # 0 /\ now <= c.expiry
    /\ c.expiry - now <= MAX_CHALLENGE_LIFETIME
    /\ verified_by_precompile(layout)
    /\ record(c)
    /\ transfer_checked(c)
    /\ payments' = Append(payments, [challenge |-> c, at |-> now])
    /\ UNCHANGED <<now, agent_signer, owner_nonce, merchants, config, funded, recovered,
                   signed, executed>>

AgentAction ==
    \E agent \in Agents, c \in Terms, layout \in Layouts :
        precompile_passes(layout, c \in Challenges) /\ pay(agent, c, layout)

(* Someone sends the vault tokens.                                         *)
deposit(amount) ==
    /\ funded + amount <= MaxFunded
    /\ vault' = vault + amount
    /\ funded' = funded + amount
    /\ UNCHANGED <<now, frozen, agent_signer, owner_nonce, merchants, config, slots, recovered,
                   payments, signed, executed>>

Tick ==
    /\ now < MaxTime
    /\ now' = now + 1
    /\ UNCHANGED <<frozen, agent_signer, owner_nonce, merchants, config, slots, money, payments,
                   signed, executed>>

Next ==
    \/ \E s \in Signings : sign(s)
    \/ OwnerAction
    \/ AgentAction
    \/ \E amount \in Deposits : deposit(amount)
    \/ Tick

Spec == Init /\ [][Next]_vars

-----------------------------------------------------------------------------
(* What must hold.                                                         *)

(* owner.rs: an assertion authorizes exactly one call.  The i-th action the*)
(* account carried out is one the passkey signed, its user verified, for   *)
(* that action and those arguments, after i-1 others and before its        *)
(* deadline: no assertion is used twice or for something else.             *)
CallsWereSigned ==
    /\ owner_nonce = Len(executed)
    /\ \A i \in DOMAIN executed : \E a \in signed :
          LET c == a.challenge
          IN  /\ a.user_verified
              /\ <<c.action, c.arg>> = <<executed[i].action, executed[i].arg>>
              /\ c.nonce = i - 1
              /\ executed[i].at <= a.valid_until

(* introspection.rs: the bytes read are the bytes verified.  Whatever a    *)
(* transaction looks like, the terms paid are terms a merchant signed.     *)
PaymentsWereSigned == \A i \in DOMAIN payments : payments[i].challenge \in Challenges

(* When each merchant was last added or removed by the owner.              *)
decisions(m) == {i \in DOMAIN executed :
    executed[i].arg = m /\ executed[i].action \in {"add_merchant", "remove_merchant"}}

(* The list, with its swaps and its limit, holds exactly the merchants the *)
(* owner last decided to add, each once.                                   *)
MerchantsAreTheOwners ==
    /\ IsInjective(merchants)
    /\ \A m \in Merchants :
          m \in Range(merchants) <=>
              \E i \in decisions(m) : /\ \A j \in decisions(m) : j <= i
                                      /\ executed[i].action = "add_merchant"

(* Money leaves the vault by the payments recorded and by recovery only.   *)
FundsAccountedFor ==
    LET leaving == {i \in DOMAIN payments : payments[i].challenge.recipient # This}
        amount_of(i) == payments[i].challenge.amount
    IN  funded = vault + recovered + MapThenSumSet(amount_of, leaving)

(* The program keeps the mandate of its creation, as the Soroban account   *)
(* does.                                                                   *)
Mandate == INSTANCE SpendingMandate WITH
    clock <- now, mandate <- creation_limits, spent <- payments, stopped <- frozen,
    Challenges <- Terms
KeepsMandate == Mandate!Spec
=============================================================================
