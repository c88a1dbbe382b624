------------------------- MODULE PaymentPolicyProofs -------------------------
(***************************************************************************)
(* What PaymentPolicy guarantees for every set of challenges, limits, keys *)
(* and clocks.  The argument: the limits only ever tighten, so the slot of *)
(* a payment is not reused while the payment is inside the window agreed   *)
(* at creation (RecentPaymentsHeld).  While it holds the record, the       *)
(* account refuses its nonce; and by the time it may have lost it, the     *)
(* challenge has expired.  A record per payment also bounds the payments   *)
(* of a window by the number of slots.                                     *)
(***************************************************************************)
EXTENDS PaymentPolicy, VelocityWindowProofs, FiniteSetTheorems, SequenceTheorems, TLAPS

(* The limits in force are never looser than those of creation.            *)
LimitsOnlyTighten == only_reduces(creation_config, velocity_config)

(* Every payment was made while its challenge lived, and not in the future.*)
PaymentsWereLive ==
    \A i \in DOMAIN payments :
        /\ payments[i].at <= now
        /\ payments[i].challenge.amount > 0
        /\ challenge_is_live(payments[i].challenge.expiry, payments[i].at)

(* Payments closer together than the window differ in their nonce.         *)
NoncesDifferInWindow ==
    \A i, j \in DOMAIN payments :
        /\ i < j
        /\ payments[j].at - payments[i].at < creation_config.window_size
        => payments[i].challenge.nonce # payments[j].challenge.nonce

IInv ==
    /\ TypeOK
    /\ LimitsOnlyTighten
    /\ PaymentsWereLive
    /\ RecentPaymentsHeld
    /\ NoncesDifferInWindow

-----------------------------------------------------------------------------
(* A record of a slot and of a payment have the fields their types say.    *)
LEMMA SlotType ==
    ASSUME TypeOK, NEW k \in DOMAIN slots
    PROVE  /\ slots[k] \in PaymentRecord
           /\ slots[k].timestamp \in Nat
           /\ slots[k].amount \in Int
BY DEF TypeOK, PaymentRecord

LEMMA PaymentType ==
    ASSUME TypeOK, NEW i \in DOMAIN payments
    PROVE  /\ payments[i].challenge \in Challenges
           /\ payments[i].challenge \in Challenge
           /\ payments[i].at \in Nat
<1>1. payments \in Seq([challenge : Challenges, at : Nat])
  BY DEF TypeOK
<1>2. payments[i] \in [challenge : Challenges, at : Nat]
  BY <1>1, ElementOfSeq, LenProperties
<1>3. QED
  BY <1>2, ChallengesAssumption

LEMMA LimitsType ==
    ASSUME TypeOK
    PROVE  /\ now \in Nat
           /\ velocity_config.window_size \in Nat
           /\ creation_config.window_size \in Nat
           /\ creation_config.max_tx_count \in Nat
<1>1. velocity_config \in VelocityConfig /\ creation_config \in VelocityConfig /\ now \in Nat
  BY DEF TypeOK
<1>2. QED
  BY <1>1 DEF VelocityConfig

(* What one payment does to the storage: it takes one slot, whose payment  *)
(* no longer counts, and its nonce was in none.                            *)
LEMMA PayStep ==
    ASSUME TypeOK, NEW a \in Agents, NEW c \in Challenges, NEW batch \in Batches,
           pay(a, c, batch)
    PROVE  /\ c \in Challenge
           /\ c.amount > 0
           /\ challenge_is_live(c.expiry, now)
           /\ \A k \in DOMAIN slots : is_used(slots[k]) => slots[k].nonce # c.nonce
           /\ payments' = Append(payments, [challenge |-> c, at |-> now])
           /\ \E i \in DOMAIN slots, filled \in BOOLEAN :
                 /\ ~counts(slots[i], velocity_config, now)
                 /\ slots' = [slots EXCEPT ![i] =
                        [timestamp |-> now, amount |-> c.amount, nonce |-> c.nonce,
                         challenge_hash |-> c, froze_account |-> filled,
                         published |-> FALSE]]
                 /\ frozen' = (frozen \/ filled)
           /\ UNCHANGED <<now, agent_signer, merchants, limits, announced, owner_stopped>>
<1>1. PICK i \in DOMAIN slots : is_free(slots, velocity_config, now, i) /\ record(c, i)
  BY DEF pay
<1>2. fills(slots, velocity_config, now, c.amount) \in BOOLEAN
  BY DEF fills
<1>3. ~counts(slots[i], velocity_config, now)
  BY <1>1 DEF is_free
<1>4. \E j \in DOMAIN slots, filled \in BOOLEAN :
          /\ ~counts(slots[j], velocity_config, now)
          /\ slots' = [slots EXCEPT ![j] =
                 [timestamp |-> now, amount |-> c.amount, nonce |-> c.nonce,
                  challenge_hash |-> c, froze_account |-> filled, published |-> FALSE]]
          /\ frozen' = (frozen \/ filled)
  BY <1>1, <1>2, <1>3 DEF record
<1>5. c \in Challenge
  BY ChallengesAssumption
<1>6. QED
  BY <1>4, <1>5 DEF pay, check_payment_authorization, nonce_spent

-----------------------------------------------------------------------------
(* The account's storage stays well typed.                                 *)
THEOREM TypeCorrect == Spec => []TypeOK
<1>1. Init => TypeOK
  <2> SUFFICES ASSUME Init PROVE TypeOK
    OBVIOUS
  <2>1. velocity_config \in VelocityConfig /\ is_valid(velocity_config)
    BY ConfigsAssumption DEF Init
  <2>2. slots \in [1..creation_config.max_tx_count -> PaymentRecord]
    BY DEF Init, create_slots, empty_slot, PaymentRecord
  <2>3. payments \in Seq([challenge : Challenges, at : Nat])
    BY DEF Init
  <2>4. QED
    BY <2>1, <2>2, <2>3 DEF Init, TypeOK
<1>2. TypeOK /\ [Next]_vars => TypeOK'
  <2> SUFFICES ASSUME TypeOK, [Next]_vars PROVE TypeOK'
    OBVIOUS
  <2>1. CASE freeze_payments
    BY <2>1 DEF TypeOK, freeze_payments, limits
  <2>2. CASE restore_payments
    BY <2>2 DEF TypeOK, restore_payments, limits
  <2>3. CASE revoke_agent_signer
    BY <2>3 DEF TypeOK, revoke_agent_signer, limits, history
  <2>4. ASSUME NEW a \in Agents, set_agent_signer(a) PROVE TypeOK'
    BY <2>4 DEF TypeOK, set_agent_signer, limits, history
  <2>5. ASSUME NEW m \in Merchants, add_merchant(m) \/ remove_merchant(m) PROVE TypeOK'
    BY <2>5 DEF TypeOK, add_merchant, remove_merchant, limits, history
  <2>6. ASSUME NEW config \in Configs, reduce_limits(config) PROVE TypeOK'
    BY <2>6, ConfigsAssumption DEF TypeOK, reduce_limits, history
  <2>7. ASSUME NEW t \in Tokens, recover_funds(t) PROVE TypeOK'
    BY <2>7 DEF TypeOK, recover_funds, limits, history
  <2>8. ASSUME NEW a \in Agents, NEW c \in Challenges, NEW batch \in Batches, pay(a, c, batch)
        PROVE  TypeOK'
    <3>1. PICK i \in DOMAIN slots, filled \in BOOLEAN :
             /\ slots' = [slots EXCEPT ![i] =
                    [timestamp |-> now, amount |-> c.amount, nonce |-> c.nonce,
                     challenge_hash |-> c, froze_account |-> filled, published |-> FALSE]]
             /\ frozen' = (frozen \/ filled)
      BY <2>8, PayStep
    <3>2. [timestamp |-> now, amount |-> c.amount, nonce |-> c.nonce, challenge_hash |-> c,
           froze_account |-> filled, published |-> FALSE] \in PaymentRecord
      <4>1. c.amount \in Int /\ c.nonce \in Nonces
        BY <2>8, PayStep DEF Challenge
      <4>2. QED
        BY <4>1 DEF PaymentRecord, TypeOK
    <3>3. payments' \in Seq([challenge : Challenges, at : Nat])
      <4>1. [challenge |-> c, at |-> now] \in [challenge : Challenges, at : Nat]
        BY DEF TypeOK
      <4>2. payments' = Append(payments, [challenge |-> c, at |-> now])
        BY <2>8, PayStep
      <4>3. QED
        BY <4>1, <4>2 DEF TypeOK
    <3>4. QED
      BY <2>8, <3>1, <3>2, <3>3, PayStep DEF TypeOK, limits
  <2>9. ASSUME NEW n \in Nonces, publish_proof(n) PROVE TypeOK'
    <3>1. PICK i \in DOMAIN slots :
             /\ mark_published(i)
             /\ announced' = [announced EXCEPT ![slots[i].challenge_hash] = @ + 1]
             /\ UNCHANGED <<now, frozen, agent_signer, merchants, limits, funds, payments,
                            owner_stopped>>
      BY <2>9 DEF publish_proof
    <3>2. slots' \in [1..creation_config.max_tx_count -> PaymentRecord]
      BY <3>1 DEF mark_published, TypeOK, PaymentRecord
    <3>3. announced' \in [Challenges -> Nat]
      <4> DEFINE h == slots[i].challenge_hash
      <4>1. announced \in [Challenges -> Nat] /\ announced' = [announced EXCEPT ![h] = @ + 1]
        BY <3>1 DEF TypeOK
      <4> HIDE DEF h
      <4>2. ASSUME NEW c \in Challenges PROVE announced'[c] \in Nat
        BY <4>1
      <4>3. announced' = [c \in Challenges |-> announced'[c]]
        BY <4>1
      <4>4. QED
        BY <4>2, <4>3
    <3>4. QED
      BY <3>1, <3>2, <3>3 DEF TypeOK, limits
  <2>10. ASSUME NEW t \in Tokens, NEW amount \in Deposits, deposit(t, amount) PROVE TypeOK'
    BY <2>10 DEF TypeOK, deposit, limits, history
  <2>11. CASE Tick
    BY <2>11 DEF TypeOK, Tick, limits, history
  <2>12. CASE UNCHANGED vars
    BY <2>12 DEF TypeOK, vars, limits, history
  <2>13. QED
    BY <2>1, <2>2, <2>3, <2>4, <2>5, <2>6, <2>7, <2>8, <2>9, <2>10, <2>11, <2>12
       DEF Next, OwnerAction, AgentAction
<1>3. QED
  BY <1>1, <1>2, PTL DEF Spec

-----------------------------------------------------------------------------
(* Any other step leaves the payments alone, and every slot's record too   *)
(* but for its published mark; time only advances.                         *)
LEMMA QuietStep ==
    ASSUME TypeOK, [Next]_vars,
           ~ \E a \in Agents, c \in Challenges, batch \in Batches : pay(a, c, batch)
    PROVE  /\ payments' = payments
           /\ creation_config' = creation_config
           /\ now' \in Nat
           /\ now <= now'
           /\ DOMAIN slots' = DOMAIN slots
           /\ \A k \in DOMAIN slots :
                 /\ slots'[k].timestamp = slots[k].timestamp
                 /\ slots'[k].amount = slots[k].amount
                 /\ slots'[k].nonce = slots[k].nonce
                 /\ slots'[k].challenge_hash = slots[k].challenge_hash
<1> DEFINE Quiet ==
      /\ payments' = payments
      /\ creation_config' = creation_config
      /\ now' \in Nat
      /\ now <= now'
      /\ DOMAIN slots' = DOMAIN slots
      /\ \A k \in DOMAIN slots :
            /\ slots'[k].timestamp = slots[k].timestamp
            /\ slots'[k].amount = slots[k].amount
            /\ slots'[k].nonce = slots[k].nonce
            /\ slots'[k].challenge_hash = slots[k].challenge_hash
<1>1. now \in Nat
  BY DEF TypeOK
<1>2. CASE UNCHANGED <<payments, creation_config, now, slots>>
  BY <1>1, <1>2
<1>3. CASE OwnerAction
  <2>1. UNCHANGED <<payments, creation_config, now, slots>>
    BY <1>3 DEF OwnerAction, freeze_payments, restore_payments, revoke_agent_signer,
                set_agent_signer, add_merchant, remove_merchant, reduce_limits,
                recover_funds, limits, history
  <2>2. QED
    BY <1>2, <2>1
<1>4. CASE \E t \in Tokens, amount \in Deposits : deposit(t, amount)
  <2>1. UNCHANGED <<payments, creation_config, now, slots>>
    BY <1>4 DEF deposit, limits, history
  <2>2. QED
    BY <1>2, <2>1
<1>5. CASE Tick
  BY <1>1, <1>5 DEF Tick, limits, history
<1>6. ASSUME NEW n \in Nonces, publish_proof(n) PROVE Quiet
  <2>1. PICK i \in DOMAIN slots : mark_published(i)
    BY <1>6 DEF publish_proof
  <2>2. UNCHANGED <<payments, creation_config, now>>
    BY <1>6 DEF publish_proof, limits
  <2>3. QED
    BY <1>1, <2>1, <2>2 DEF mark_published, TypeOK, PaymentRecord
<1>7. CASE UNCHANGED vars
  <2>1. UNCHANGED <<payments, creation_config, now, slots>>
    BY <1>7 DEF vars, limits, history
  <2>2. QED
    BY <1>2, <2>1
<1>8. QED
  BY <1>3, <1>4, <1>5, <1>6, <1>7 DEF Next, AgentAction

(* The limits in force only ever tighten.                                  *)
LEMMA LimitsStep ==
    ASSUME TypeOK, LimitsOnlyTighten, [Next]_vars
    PROVE  LimitsOnlyTighten'
<1>1. ASSUME NEW config \in Configs, reduce_limits(config) PROVE LimitsOnlyTighten'
  <2>1. config \in VelocityConfig
    BY ConfigsAssumption
  <2>2. QED
    BY <1>1, <2>1 DEF LimitsOnlyTighten, reduce_limits, only_reduces, TypeOK, VelocityConfig
<1>2. ASSUME UNCHANGED limits PROVE LimitsOnlyTighten'
  BY <1>2 DEF LimitsOnlyTighten, limits
<1>3. QED
  BY <1>1, <1>2 DEF Next, OwnerAction, AgentAction, freeze_payments, restore_payments,
     revoke_agent_signer, set_agent_signer, add_merchant, remove_merchant, recover_funds,
     pay, publish_proof, deposit, Tick, vars

(* A payment appended to the history keeps the others where they were.     *)
LEMMA AppendPayment ==
    ASSUME TypeOK, NEW c \in Challenges,
           payments' = Append(payments, [challenge |-> c, at |-> now])
    PROVE  /\ Len(payments) \in Nat
           /\ DOMAIN payments = 1..Len(payments)
           /\ DOMAIN payments' = 1..(Len(payments) + 1)
           /\ \A i \in DOMAIN payments : payments'[i] = payments[i]
           /\ payments'[Len(payments) + 1] = [challenge |-> c, at |-> now]
<1>1. payments \in Seq([challenge : Challenges, at : Nat])
  BY DEF TypeOK
<1>2. [challenge |-> c, at |-> now] \in [challenge : Challenges, at : Nat]
  BY DEF TypeOK
<1>3. QED
  BY <1>1, <1>2, LenProperties, AppendProperties

(* The time a payment was made, and what it paid, never change.            *)
LEMMA LiveStep ==
    ASSUME TypeOK, PaymentsWereLive, [Next]_vars
    PROVE  PaymentsWereLive'
<1>1. CASE \E a \in Agents, c \in Challenges, batch \in Batches : pay(a, c, batch)
  <2>1. PICK a \in Agents, c \in Challenges, batch \in Batches : pay(a, c, batch)
    BY <1>1
  <2>2. /\ payments' = Append(payments, [challenge |-> c, at |-> now])
        /\ now' = now
        /\ c.amount > 0
        /\ challenge_is_live(c.expiry, now)
    BY <2>1, PayStep
  <2>3. now \in Nat
    BY DEF TypeOK
  <2>4. QED
    BY <2>2, <2>3, AppendPayment DEF PaymentsWereLive
<1>2. CASE ~ \E a \in Agents, c \in Challenges, batch \in Batches : pay(a, c, batch)
  <2>1. payments' = payments /\ now' \in Nat /\ now <= now' /\ now \in Nat
    BY <1>2, QuietStep DEF TypeOK
  <2>2. \A i \in DOMAIN payments : payments[i].at \in Nat
    BY PaymentType
  <2>3. QED
    BY <2>1, <2>2 DEF PaymentsWereLive
<1>3. QED
  BY <1>1, <1>2

(* A payment inside the window agreed at creation keeps its slot: what is  *)
(* reused no longer counts under limits at least as tight.                 *)
LEMMA HeldStep ==
    ASSUME TypeOK, TypeOK', LimitsOnlyTighten, RecentPaymentsHeld, [Next]_vars
    PROVE  RecentPaymentsHeld'
<1>1. CASE \E a \in Agents, c \in Challenges, batch \in Batches : pay(a, c, batch)
  <2>1. PICK a \in Agents, c \in Challenges, batch \in Batches : pay(a, c, batch)
    BY <1>1
  <2>2. /\ c \in Challenge
        /\ c.amount > 0
        /\ payments' = Append(payments, [challenge |-> c, at |-> now])
        /\ UNCHANGED <<now, velocity_config, creation_config>>
    BY <2>1, PayStep DEF limits
  <2>3. PICK s \in DOMAIN slots, filled \in BOOLEAN :
          /\ ~counts(slots[s], velocity_config, now)
          /\ slots' = [slots EXCEPT ![s] =
                 [timestamp |-> now, amount |-> c.amount, nonce |-> c.nonce,
                  challenge_hash |-> c, froze_account |-> filled, published |-> FALSE]]
    BY <2>1, PayStep
  <2>4. DOMAIN slots' = DOMAIN slots
    BY <2>3
  <2>5. ASSUME NEW i \in DOMAIN payments',
               now' - payments'[i].at < creation_config'.window_size
        PROVE  held(i)'
    <3>1. CASE i = Len(payments) + 1
      <4>1. payments'[i] = [challenge |-> c, at |-> now]
        BY <2>2, <3>1, AppendPayment
      <4>2. slots'[s] = [timestamp |-> now, amount |-> c.amount, nonce |-> c.nonce,
                         challenge_hash |-> c, froze_account |-> filled,
                         published |-> FALSE]
        BY <2>3
      <4>3. QED
        BY <2>2, <2>4, <4>1, <4>2 DEF held, is_used
    <3>2. CASE i # Len(payments) + 1
      <4>1. i \in DOMAIN payments /\ payments'[i] = payments[i]
        BY <2>2, <3>2, AppendPayment
      <4>2. held(i)
        BY <2>2, <2>5, <4>1 DEF RecentPaymentsHeld
      <4>3. PICK k \in DOMAIN slots :
              /\ is_used(slots[k])
              /\ slots[k].nonce = payments[i].challenge.nonce
              /\ slots[k].challenge_hash = payments[i].challenge
              /\ slots[k].amount = payments[i].challenge.amount
              /\ slots[k].timestamp = payments[i].at
        BY <4>2 DEF held
      <4>4. counts(slots[k], velocity_config, now)
        <5>1. now - payments[i].at < creation_config.window_size
          BY <2>2, <2>5, <4>1
        <5>2. creation_config.window_size <= velocity_config.window_size
          BY DEF LimitsOnlyTighten, only_reduces
        <5>3. /\ now \in Int /\ payments[i].at \in Int
              /\ creation_config.window_size \in Int
              /\ velocity_config.window_size \in Int
          BY <4>1, PaymentType, LimitsType
        <5>4. QED
          BY <4>3, <5>1, <5>2, <5>3 DEF counts
      <4>5. k # s /\ slots'[k] = slots[k]
        BY <2>3, <4>4
      <4>6. QED
        BY <2>4, <4>1, <4>3, <4>5 DEF held
    <3>3. QED
      BY <3>1, <3>2
  <2>6. QED
    BY <2>5 DEF RecentPaymentsHeld
<1>2. CASE ~ \E a \in Agents, c \in Challenges, batch \in Batches : pay(a, c, batch)
  <2>1. /\ payments' = payments /\ creation_config' = creation_config
        /\ now <= now' /\ now' \in Nat /\ now \in Nat
        /\ DOMAIN slots' = DOMAIN slots
        /\ \A k \in DOMAIN slots :
              /\ slots'[k].timestamp = slots[k].timestamp
              /\ slots'[k].amount = slots[k].amount
              /\ slots'[k].nonce = slots[k].nonce
              /\ slots'[k].challenge_hash = slots[k].challenge_hash
    BY <1>2, QuietStep DEF TypeOK
  <2>2. ASSUME NEW i \in DOMAIN payments, held(i) PROVE held(i)'
    BY <2>1, <2>2 DEF held, is_used
  <2>3. ASSUME NEW i \in DOMAIN payments,
               now' - payments[i].at < creation_config.window_size
        PROVE  now - payments[i].at < creation_config.window_size
    BY <2>1, <2>3, PaymentType, LimitsType
  <2>4. QED
    BY <2>1, <2>2, <2>3 DEF RecentPaymentsHeld
<1>3. QED
  BY <1>1, <1>2

(* The nonce of a payment is refused for as long as the payment is held.   *)
LEMMA NonceStep ==
    ASSUME TypeOK, RecentPaymentsHeld, NoncesDifferInWindow, [Next]_vars
    PROVE  NoncesDifferInWindow'
<1>1. CASE \E a \in Agents, c \in Challenges, batch \in Batches : pay(a, c, batch)
  <2>1. PICK a \in Agents, c \in Challenges, batch \in Batches : pay(a, c, batch)
    BY <1>1
  <2>2. /\ payments' = Append(payments, [challenge |-> c, at |-> now])
        /\ UNCHANGED <<now, creation_config>>
        /\ \A k \in DOMAIN slots : is_used(slots[k]) => slots[k].nonce # c.nonce
    BY <2>1, PayStep DEF limits
  <2>3. ASSUME NEW i \in DOMAIN payments,
               now - payments[i].at < creation_config.window_size
        PROVE  payments[i].challenge.nonce # c.nonce
    BY <2>2, <2>3 DEF RecentPaymentsHeld, held
  <2>4. ASSUME NEW i \in DOMAIN payments', NEW j \in DOMAIN payments', i < j,
               payments'[j].at - payments'[i].at < creation_config'.window_size
        PROVE  payments'[i].challenge.nonce # payments'[j].challenge.nonce
    <3>1. i \in DOMAIN payments /\ payments'[i] = payments[i]
      BY <2>2, <2>4, AppendPayment
    <3>2. CASE j = Len(payments) + 1
      <4>1. payments'[j] = [challenge |-> c, at |-> now]
        BY <2>2, <3>2, AppendPayment
      <4>2. QED
        BY <2>2, <2>3, <2>4, <3>1, <4>1
    <3>3. CASE j # Len(payments) + 1
      <4>1. j \in DOMAIN payments /\ payments'[j] = payments[j]
        BY <2>2, <3>3, AppendPayment
      <4>2. QED
        BY <2>2, <2>4, <3>1, <4>1 DEF NoncesDifferInWindow
    <3>4. QED
      BY <3>2, <3>3
  <2>5. QED
    BY <2>4 DEF NoncesDifferInWindow
<1>2. CASE ~ \E a \in Agents, c \in Challenges, batch \in Batches : pay(a, c, batch)
  <2>1. payments' = payments /\ creation_config' = creation_config
    BY <1>2, QuietStep
  <2>2. QED
    BY <2>1 DEF NoncesDifferInWindow
<1>3. QED
  BY <1>1, <1>2

-----------------------------------------------------------------------------
(* The inductive invariant: storage well typed, limits tightening only,    *)
(* every recent payment held in a slot, nonces not repeated in a window.   *)
THEOREM InductiveInvariant == Spec => []IInv
<1>1. Init => LimitsOnlyTighten /\ PaymentsWereLive /\ RecentPaymentsHeld /\ NoncesDifferInWindow
  <2> SUFFICES ASSUME Init
               PROVE  /\ LimitsOnlyTighten /\ PaymentsWereLive
                      /\ RecentPaymentsHeld /\ NoncesDifferInWindow
    OBVIOUS
  <2>1. DOMAIN payments = {}
    BY DEF Init
  <2>2. velocity_config \in VelocityConfig /\ creation_config = velocity_config
    BY ConfigsAssumption DEF Init
  <2>3. LimitsOnlyTighten
    BY <2>2 DEF LimitsOnlyTighten, only_reduces, VelocityConfig
  <2>4. QED
    BY <2>1, <2>3 DEF PaymentsWereLive, RecentPaymentsHeld, NoncesDifferInWindow
<1>2. /\ TypeOK /\ TypeOK'
      /\ LimitsOnlyTighten /\ PaymentsWereLive /\ RecentPaymentsHeld /\ NoncesDifferInWindow
      /\ [Next]_vars
      => (LimitsOnlyTighten /\ PaymentsWereLive /\ RecentPaymentsHeld /\ NoncesDifferInWindow)'
  BY LimitsStep, LiveStep, HeldStep, NonceStep
<1>3. QED
  BY <1>1, <1>2, TypeCorrect, PTL DEF Spec, IInv

(* The consequences for the payments made, in any reachable state.         *)
LEMMA ExpiredWhenForgotten ==
    ASSUME IInv, creation_config.window_size > MAX_CHALLENGE_LIFETIME
    PROVE  ForgottenHaveExpired
<1>1. SUFFICES ASSUME NEW i \in DOMAIN payments, ~held(i)
               PROVE  now > payments[i].challenge.expiry
  BY DEF ForgottenHaveExpired
<1>2. now - payments[i].at >= creation_config.window_size
  BY <1>1, PaymentType, LimitsType DEF IInv, RecentPaymentsHeld
<1>3. payments[i].challenge.expiry - payments[i].at <= MAX_CHALLENGE_LIFETIME
  BY DEF IInv, PaymentsWereLive, challenge_is_live
<1>4. payments[i].challenge.expiry \in Nat
  BY PaymentType DEF IInv, Challenge
<1>5. QED
  BY <1>2, <1>3, <1>4, LifetimeAssumption, PaymentType, LimitsType DEF IInv

LEMMA OnceWhenRemembered ==
    ASSUME IInv, creation_config.window_size > MAX_CHALLENGE_LIFETIME
    PROVE  ChallengePaidOnce
<1>1. ASSUME NEW i \in DOMAIN payments, NEW j \in DOMAIN payments, i < j,
             payments[i].challenge = payments[j].challenge
      PROVE  FALSE
  <2>1. /\ payments[j].at <= payments[i].challenge.expiry
        /\ payments[i].challenge.expiry - payments[i].at <= MAX_CHALLENGE_LIFETIME
    BY <1>1 DEF IInv, PaymentsWereLive, challenge_is_live
  <2>2. /\ payments[i].challenge.expiry \in Nat
        /\ payments[i].at \in Nat /\ payments[j].at \in Nat
    BY PaymentType DEF IInv, Challenge
  <2>3. payments[j].at - payments[i].at < creation_config.window_size
    BY <2>1, <2>2, LifetimeAssumption, LimitsType DEF IInv
  <2>4. QED
    BY <1>1, <2>3 DEF IInv, NoncesDifferInWindow
<1>2. DOMAIN payments \subseteq Int
  BY LenProperties DEF IInv, TypeOK
<1>3. QED
  BY <1>1, <1>2 DEF ChallengePaidOnce

(* Whatever the window: the nonce was refused while the first payment was  *)
(* inside it, and that is until the challenge expires or the moment before.*)
LEMMA AgainOnlyAtTheEnd ==
    ASSUME IInv
    PROVE  PaidAgainOnlyAsItExpires
<1> SUFFICES ASSUME NEW i \in DOMAIN payments, NEW j \in DOMAIN payments, i < j,
                    payments[i].challenge = payments[j].challenge
             PROVE  /\ payments[j].at = payments[j].challenge.expiry
                    /\ payments[j].at - payments[i].at = creation_config.window_size
                    /\ creation_config.window_size = MAX_CHALLENGE_LIFETIME
  BY DEF PaidAgainOnlyAsItExpires
<1>1. /\ payments[j].at <= payments[j].challenge.expiry
      /\ payments[j].challenge.expiry - payments[i].at <= MAX_CHALLENGE_LIFETIME
  BY DEF IInv, PaymentsWereLive, challenge_is_live
<1>2. ~(payments[j].at - payments[i].at < creation_config.window_size)
  BY DEF IInv, NoncesDifferInWindow
<1>3. creation_config.window_size >= MAX_CHALLENGE_LIFETIME
  BY DEF IInv, TypeOK, is_valid
<1>4. /\ payments[j].challenge.expiry \in Nat
      /\ payments[i].at \in Nat /\ payments[j].at \in Nat
  BY PaymentType DEF IInv, Challenge
<1>5. QED
  BY <1>1, <1>2, <1>3, <1>4, LifetimeAssumption, LimitsType DEF IInv

(* The payments that count toward the limits agreed at creation.           *)
recent == {j \in DOMAIN payments : now - payments[j].at < creation_config.window_size}

(* They are in slots that still count under limits at least as tight, so   *)
(* they are within what summarize says, and the next one within what fits  *)
(* allows.                                                                 *)
LEMMA RecentWithin ==
    ASSUME IInv
    PROVE  /\ IsFiniteSet(DOMAIN payments) /\ IsFiniteSet(recent)
           /\ Cardinality(recent) \in Nat /\ PaidTotal(payments, recent) \in Int
           /\ summarize(slots, velocity_config, now).tx_count \in Nat
           /\ summarize(slots, velocity_config, now).total_amount \in Int
           /\ Cardinality(recent) <= summarize(slots, velocity_config, now).tx_count
           /\ PaidTotal(payments, recent)
                  <= summarize(slots, velocity_config, now).total_amount
<1>1. IsFiniteSet(DOMAIN payments) /\ IsFiniteSet(DOMAIN slots) /\ DOMAIN payments \subseteq Int
  <2>1. DOMAIN payments = 1..Len(payments) /\ Len(payments) \in Nat
    BY LenProperties DEF IInv, TypeOK
  <2>2. DOMAIN slots = 1..creation_config.max_tx_count /\ creation_config.max_tx_count \in Nat
    BY LimitsType DEF IInv, TypeOK
  <2>3. IsFiniteSet(1..Len(payments)) /\ IsFiniteSet(1..creation_config.max_tx_count)
    BY <2>1, <2>2, FS_Interval
  <2>4. QED
    BY <2>1, <2>2, <2>3
<1>2. IsFiniteSet(recent) /\ recent \subseteq DOMAIN payments
  <2>1. recent \subseteq DOMAIN payments
    BY DEF recent
  <2>2. QED
    BY <1>1, <2>1, FS_Subset
<1>3. \A k \in DOMAIN slots : slots[k].amount \in Int
  BY SlotType DEF IInv
<1>4. \A j \in DOMAIN payments : payments[j].challenge.amount \in Int
  BY PaymentType DEF IInv, Challenge
<1>5. ASSUME NEW j \in recent
      PROVE  \E k \in DOMAIN slots :
                /\ counts(slots[k], velocity_config, now)
                /\ slots[k].nonce = payments[j].challenge.nonce
                /\ slots[k].amount = payments[j].challenge.amount
  <2>1. j \in DOMAIN payments /\ now - payments[j].at < creation_config.window_size
    BY DEF recent
  <2>2. held(j)
    BY <2>1 DEF IInv, RecentPaymentsHeld
  <2>3. /\ now \in Nat /\ payments[j].at \in Nat /\ creation_config.window_size \in Nat
        /\ velocity_config.window_size \in Nat
        /\ creation_config.window_size <= velocity_config.window_size
    BY <2>1, PaymentType, LimitsType DEF IInv, LimitsOnlyTighten, only_reduces
  <2>4. now - payments[j].at < velocity_config.window_size
    BY <2>1, <2>3
  <2>5. QED
    BY <2>2, <2>4 DEF held, counts
<1>6. ASSUME NEW i \in recent, NEW j \in recent,
             payments[i].challenge.nonce = payments[j].challenge.nonce
      PROVE  i = j
  <2>1. ASSUME NEW x \in recent, NEW y \in recent, x < y
        PROVE  payments[x].challenge.nonce # payments[y].challenge.nonce
    <3>1. /\ payments[x].at \in Nat /\ payments[y].at \in Nat
          /\ now \in Nat /\ creation_config.window_size \in Nat
      BY PaymentType, LimitsType DEF IInv, recent
    <3>2. payments[y].at <= now /\ now - payments[x].at < creation_config.window_size
      BY DEF IInv, PaymentsWereLive, recent
    <3>3. payments[y].at - payments[x].at < creation_config.window_size
      BY <3>1, <3>2
    <3>4. QED
      BY <2>1, <3>3 DEF IInv, NoncesDifferInWindow, recent
  <2>2. i \in Int /\ j \in Int
    BY <1>1, <1>2
  <2>3. QED
    BY <1>6, <2>1, <2>2
<1>7. /\ summarize(slots, velocity_config, now).tx_count \in Nat
      /\ summarize(slots, velocity_config, now).total_amount \in Int
      /\ Cardinality(recent) <= summarize(slots, velocity_config, now).tx_count
      /\ PaidTotal(payments, recent)
             <= summarize(slots, velocity_config, now).total_amount
  BY <1>1, <1>2, <1>3, <1>5, <1>6, WindowHeld
<1>8. PaidTotal(payments, recent) \in Int
  <2>1. \A j \in recent : payments[j].challenge.amount \in Int
    BY <1>2, <1>4
  <2>2. QED
    BY <1>2, <2>1, PaidTotalSame
<1>9. Cardinality(recent) \in Nat
  BY <1>2, FS_CardinalityType
<1>10. QED
  BY <1>1, <1>2, <1>7, <1>8, <1>9

LEMMA PayWithin ==
    ASSUME IInv, NEW a \in Agents, NEW c \in Challenges, NEW batch \in Batches,
           pay(a, c, batch)
    PROVE  /\ c.amount \in 1..creation_config.max_payment_amount
           /\ Cardinality(recent) + 1 <= creation_config.max_tx_count
           /\ PaidTotal(payments, recent) + c.amount <= creation_config.max_total_amount
           /\ \/ Cardinality(recent) + 1 = creation_config.max_tx_count
              \/ PaidTotal(payments, recent) + c.amount = creation_config.max_total_amount
              => frozen' = TRUE
<1> DEFINE before == summarize(slots, velocity_config, now)
           n == before.tx_count
           total == before.total_amount
           size == Cardinality(recent)
           sum == PaidTotal(payments, recent)
<1>1. /\ n \in Nat /\ total \in Int /\ size \in Nat /\ sum \in Int
      /\ size <= n /\ sum <= total
  BY RecentWithin
<1>2. /\ velocity_config \in VelocityConfig /\ creation_config \in VelocityConfig
      /\ c \in Challenge
  BY ChallengesAssumption DEF IInv, TypeOK
<1>3. /\ velocity_config.max_tx_count <= creation_config.max_tx_count
      /\ velocity_config.max_total_amount <= creation_config.max_total_amount
      /\ velocity_config.max_payment_amount <= creation_config.max_payment_amount
  BY DEF IInv, LimitsOnlyTighten, only_reduces
<1>4. /\ c.amount > 0 /\ c.amount <= velocity_config.max_payment_amount
      /\ n < velocity_config.max_tx_count
      /\ total + c.amount <= velocity_config.max_total_amount
  BY DEF pay, check_payment_authorization, fits
<1>5. /\ velocity_config.max_tx_count \in Nat /\ creation_config.max_tx_count \in Nat
      /\ velocity_config.max_total_amount \in Int /\ creation_config.max_total_amount \in Int
      /\ velocity_config.max_payment_amount \in Int
      /\ creation_config.max_payment_amount \in Int
      /\ c.amount \in Int
  BY <1>2 DEF VelocityConfig, Challenge
<1>6. n + 1 >= velocity_config.max_tx_count
      \/ total + c.amount >= velocity_config.max_total_amount
      => frozen' = TRUE
  BY DEF pay, record, fills
<1> HIDE DEF n, total, size, sum
<1>7. /\ c.amount \in 1..creation_config.max_payment_amount
      /\ size + 1 <= creation_config.max_tx_count
      /\ sum + c.amount <= creation_config.max_total_amount
  BY <1>1, <1>3, <1>4, <1>5
<1>8. ASSUME \/ size + 1 = creation_config.max_tx_count
             \/ sum + c.amount = creation_config.max_total_amount
      PROVE  frozen' = TRUE
  BY <1>1, <1>3, <1>4, <1>5, <1>6, <1>8
<1> USE DEF size, sum
<1>9. QED
  BY <1>7, <1>8
(* One more payment: the window it ends is the recent ones and itself.     *)
LEMMA PayWindow ==
    ASSUME IInv, NEW a \in Agents, NEW c \in Challenges, NEW batch \in Batches,
           pay(a, c, batch), NEW n, n = Len(payments) + 1
    PROVE  /\ window_ending(n)' = recent \cup {n}
           /\ n \notin recent
           /\ \A i \in DOMAIN payments :
                 /\ window_ending(i)' = window_ending(i)
                 /\ window_ending(i) \subseteq DOMAIN payments
<1>1. /\ payments' = Append(payments, [challenge |-> c, at |-> now])
      /\ UNCHANGED <<now, creation_config>>
  BY PayStep DEF IInv, limits
<1>2. /\ Len(payments) \in Nat
      /\ DOMAIN payments = 1..Len(payments)
      /\ DOMAIN payments' = 1..(Len(payments) + 1)
      /\ \A i \in DOMAIN payments : payments'[i] = payments[i]
      /\ payments'[Len(payments) + 1] = [challenge |-> c, at |-> now]
  BY <1>1, AppendPayment DEF IInv
<1>3. now \in Nat /\ creation_config.window_size \in Nat /\ creation_config.window_size > 0
  <2>1. creation_config.window_size >= MAX_CHALLENGE_LIFETIME
    BY DEF IInv, TypeOK, is_valid
  <2>2. QED
    BY <2>1, LimitsType, LifetimeAssumption DEF IInv
<1>4. ASSUME NEW i \in DOMAIN payments
      PROVE  window_ending(i)' = window_ending(i) /\ window_ending(i) \subseteq DOMAIN payments
  BY <1>1, <1>2 DEF window_ending
<1>5. n \notin recent
  BY <1>2 DEF recent
<1>6. ASSUME NEW j \in 1..n PROVE j \in window_ending(n)' <=> j \in recent \cup {n}
  <2>1. CASE j = n
    BY <1>1, <1>2, <1>3, <2>1 DEF window_ending
  <2>2. CASE j # n
    <3>1. j \in DOMAIN payments /\ payments'[j] = payments[j]
      BY <1>2, <2>2
    <3>2. payments'[n].at = now
      BY <1>2
    <3>3. QED
      BY <1>1, <2>2, <3>1, <3>2 DEF window_ending, recent
  <2>3. QED
    BY <2>1, <2>2
<1>7. window_ending(n)' \subseteq 1..n /\ recent \cup {n} \subseteq 1..n
  BY <1>2 DEF window_ending, recent
<1>8. QED
  BY <1>4, <1>5, <1>6, <1>7

(* What the two ceilings say, in one formula.                              *)
Ceiling == \A i \in DOMAIN payments :
    /\ Cardinality(window_ending(i)) <= creation_config.max_tx_count
    /\ PaidTotal(payments, window_ending(i)) <= creation_config.max_total_amount

LEMMA CeilingStep ==
    ASSUME IInv, Ceiling, [Next]_vars
    PROVE  Ceiling'
<1>1. CASE \E a \in Agents, c \in Challenges, batch \in Batches : pay(a, c, batch)
  <2>1. PICK a \in Agents, c \in Challenges, batch \in Batches : pay(a, c, batch)
    BY <1>1
  <2>2. /\ payments' = Append(payments, [challenge |-> c, at |-> now])
        /\ UNCHANGED <<now, creation_config>>
    BY <2>1, PayStep DEF IInv, limits
  <2>3. /\ Len(payments) \in Nat
        /\ DOMAIN payments = 1..Len(payments)
        /\ DOMAIN payments' = 1..(Len(payments) + 1)
        /\ \A i \in DOMAIN payments : payments'[i] = payments[i]
        /\ payments'[Len(payments) + 1] = [challenge |-> c, at |-> now]
    BY <2>2, AppendPayment DEF IInv
  <2>4. /\ IsFiniteSet(DOMAIN payments) /\ IsFiniteSet(recent)
        /\ Cardinality(recent) \in Nat
    BY RecentWithin
  <2>5. \A j \in DOMAIN payments : payments[j].challenge.amount \in Int
    BY PaymentType DEF IInv, Challenge
  <2>6. ASSUME NEW i \in DOMAIN payments
        PROVE  /\ Cardinality(window_ending(i)') <= creation_config'.max_tx_count
               /\ PaidTotal(payments', window_ending(i)') <= creation_config'.max_total_amount
    <3>1. window_ending(i)' = window_ending(i) /\ window_ending(i) \subseteq DOMAIN payments
      BY <2>1, PayWindow
    <3>2. IsFiniteSet(window_ending(i))
      BY <2>4, <3>1, FS_Subset
    <3>3. PaidTotal(payments', window_ending(i)) = PaidTotal(payments, window_ending(i))
      BY <2>3, <2>5, <3>1, <3>2, PaidTotalSame
    <3>4. QED
      BY <2>2, <3>1, <3>3 DEF Ceiling
  <2>7. ASSUME NEW n, n = Len(payments) + 1
        PROVE  /\ Cardinality(window_ending(n)') <= creation_config'.max_tx_count
               /\ PaidTotal(payments', window_ending(n)') <= creation_config'.max_total_amount
    <3>1. window_ending(n)' = recent \cup {n} /\ n \notin recent
      BY <2>1, <2>7, PayWindow
    <3>2. Cardinality(recent \cup {n}) = Cardinality(recent) + 1
      BY <2>4, <3>1, FS_AddElement
    <3>3. recent \subseteq DOMAIN payments
      BY DEF recent
    <3>4. /\ \A j \in recent : payments'[j].challenge.amount \in Int
          /\ payments'[n].challenge.amount = c.amount /\ c.amount \in Int
      BY <2>3, <2>5, <2>7, <3>3, ChallengesAssumption DEF Challenge
    <3>5. PaidTotal(payments', recent \cup {n}) = PaidTotal(payments', recent) + c.amount
      BY <2>4, <3>1, <3>4, PaidTotalAdds
    <3>6. PaidTotal(payments', recent) = PaidTotal(payments, recent)
      BY <2>3, <2>4, <2>5, <3>3, PaidTotalSame
    <3>7. /\ Cardinality(recent) + 1 <= creation_config.max_tx_count
          /\ PaidTotal(payments, recent) + c.amount <= creation_config.max_total_amount
      BY <2>1, PayWithin
    <3>8. QED
      BY <2>2, <3>1, <3>2, <3>5, <3>6, <3>7
  <2>8. QED
    BY <2>3, <2>6, <2>7 DEF Ceiling
<1>2. CASE ~ \E a \in Agents, c \in Challenges, batch \in Batches : pay(a, c, batch)
  <2>1. payments' = payments /\ creation_config' = creation_config
    BY <1>2, QuietStep DEF IInv
  <2>2. QED
    BY <2>1 DEF Ceiling, window_ending
<1>3. QED
  BY <1>1, <1>2

LEMMA CeilingHolds == Spec => []Ceiling
<1>1. Init => Ceiling
  BY DEF Init, Ceiling
<1>2. QED
  BY <1>1, CeilingStep, InductiveInvariant, PTL DEF Spec

-----------------------------------------------------------------------------
(* Whatever slots are reused, limits reduced, freezes lifted and keys      *)
(* changed, a payment is remembered while it counts (velocity.rs, counts). *)
THEOREM RecentRemembered == Spec => []RecentPaymentsHeld
<1>1. IInv => RecentPaymentsHeld
  BY DEF IInv
<1>2. QED
  BY <1>1, InductiveInvariant, PTL

(* An account created with a window longer than the longest challenge      *)
(* forgets no challenge before it expires (velocity.rs, lines 7-10).       *)
THEOREM ForgottenOnlyExpired ==
    Spec => [](creation_config.window_size > MAX_CHALLENGE_LIFETIME => ForgottenHaveExpired)
<1>1. IInv => (creation_config.window_size > MAX_CHALLENGE_LIFETIME => ForgottenHaveExpired)
  BY ExpiredWhenForgotten
<1>2. QED
  BY <1>1, InductiveInvariant, PTL

(* Such an account pays a challenge at most once (lib.rs, lines 45-48).    *)
THEOREM PaidAtMostOnce ==
    Spec => [](creation_config.window_size > MAX_CHALLENGE_LIFETIME => ChallengePaidOnce)
<1>1. IInv => (creation_config.window_size > MAX_CHALLENGE_LIFETIME => ChallengePaidOnce)
  BY OnceWhenRemembered
<1>2. QED
  BY <1>1, InductiveInvariant, PTL

(* An account with any window the contract accepts pays a challenge again  *)
(* in one case only: its window is exactly as long as the challenge lived, *)
(* and this is the moment the challenge expires.                           *)
THEOREM AgainOnlyAsItExpires == Spec => []PaidAgainOnlyAsItExpires
<1>1. IInv => PaidAgainOnlyAsItExpires
  BY AgainOnlyAtTheEnd
<1>2. QED
  BY <1>1, InductiveInvariant, PTL

(* And so no account ever pays a challenge a third time.                   *)
THEOREM NeverAThirdTime ==
    Spec => [](\A c \in Challenges, i, j, k \in DOMAIN payments :
                  i < j /\ j < k =>
                      ~(/\ payments[i].challenge = c /\ payments[j].challenge = c
                        /\ payments[k].challenge = c))
<1>1. IInv => \A c \in Challenges, i, j, k \in DOMAIN payments :
                 i < j /\ j < k =>
                     ~(/\ payments[i].challenge = c /\ payments[j].challenge = c
                       /\ payments[k].challenge = c)
  <2> SUFFICES ASSUME IInv, NEW c \in Challenges, NEW i \in DOMAIN payments,
                      NEW j \in DOMAIN payments, NEW k \in DOMAIN payments, i < j, j < k,
                      payments[i].challenge = c, payments[j].challenge = c,
                      payments[k].challenge = c
               PROVE  FALSE
    OBVIOUS
  <2>1. /\ payments[j].at = c.expiry /\ payments[k].at = c.expiry
        /\ payments[k].at - payments[j].at = MAX_CHALLENGE_LIFETIME
    BY AgainOnlyAtTheEnd DEF PaidAgainOnlyAsItExpires
  <2>2. payments[j].at \in Nat
    BY PaymentType DEF IInv
  <2>3. QED
    BY <2>1, <2>2, LifetimeAssumption
<1>2. QED
  BY <1>1, InductiveInvariant, PTL

(* No window of the length agreed at creation ever holds more payments     *)
(* than agreed at creation (lib.rs, reduce_limits: "a ceiling for as long  *)
(* as it exists").                                                         *)
THEOREM CountWithinCeiling == Spec => []CountCeiling
<1>1. Ceiling => CountCeiling
  BY DEF Ceiling, CountCeiling
<1>2. QED
  BY <1>1, CeilingHolds, PTL

(* ... nor payments that add up to more than agreed at creation.           *)
THEOREM TotalWithinCeiling == Spec => []TotalCeiling
<1>1. Ceiling => TotalCeiling
  BY DEF Ceiling, TotalCeiling, PaidTotal
<1>2. QED
  BY <1>1, CeilingHolds, PTL

(* The account never refuses a payment for want of a slot: limits are      *)
(* reduced, slots are not, so below the count one is free (velocity.rs,    *)
(* record's comment).                                                      *)
THEOREM SlotForEveryPayment == Spec => []FreeSlotUnderLimit
<1>1. IInv => FreeSlotUnderLimit
  <2> SUFFICES ASSUME IInv,
                      summarize(slots, velocity_config, now).tx_count
                          < velocity_config.max_tx_count
               PROVE  \E i \in DOMAIN slots : ~counts(slots[i], velocity_config, now)
    BY DEF FreeSlotUnderLimit
  <2>1. /\ DOMAIN slots = 1..creation_config.max_tx_count
        /\ creation_config.max_tx_count \in Nat
        /\ velocity_config.max_tx_count \in Nat
        /\ velocity_config.max_tx_count <= creation_config.max_tx_count
    BY DEF IInv, TypeOK, VelocityConfig, LimitsOnlyTighten, only_reduces
  <2>2. QED
    BY <2>1, SlotFree
<1>2. QED
  BY <1>1, InductiveInvariant, PTL

(* A freeze the owner did not ask for is never silent for good: the record *)
(* of the last payment tells of it while it lasts (lib.rs, publish_proof). *)
THEOREM StopAnnounceable == Spec => []StopCanBeAnnounced
<1>1. Init => StopCanBeAnnounced
  BY DEF Init, StopCanBeAnnounced
<1>2. TypeOK /\ StopCanBeAnnounced /\ [Next]_vars => StopCanBeAnnounced'
  <2> SUFFICES ASSUME TypeOK, StopCanBeAnnounced, [Next]_vars PROVE StopCanBeAnnounced'
    OBVIOUS
  <2>1. CASE freeze_payments \/ restore_payments
    BY <2>1 DEF freeze_payments, restore_payments, StopCanBeAnnounced
  <2>2. CASE UNCHANGED <<frozen, slots, payments, owner_stopped>>
    BY <2>2 DEF StopCanBeAnnounced
  <2>3. ASSUME NEW a \in Agents, NEW c \in Challenges, NEW batch \in Batches, pay(a, c, batch)
        PROVE  StopCanBeAnnounced'
    <3>1. ~frozen /\ c.amount > 0
      BY <2>3 DEF pay, check_payment_authorization
    <3>2. PICK i \in DOMAIN slots, filled \in BOOLEAN :
             /\ slots' = [slots EXCEPT ![i] =
                    [timestamp |-> now, amount |-> c.amount, nonce |-> c.nonce,
                     challenge_hash |-> c, froze_account |-> filled, published |-> FALSE]]
             /\ frozen' = (frozen \/ filled)
      BY <2>3, PayStep
    <3>3. CASE ~filled
      BY <3>1, <3>2, <3>3 DEF StopCanBeAnnounced
    <3>4. CASE filled
      <4>1. /\ i \in DOMAIN slots'
            /\ slots'[i] = [timestamp |-> now, amount |-> c.amount, nonce |-> c.nonce,
                            challenge_hash |-> c, froze_account |-> TRUE, published |-> FALSE]
        BY <3>2, <3>4
      <4>2. is_used(slots'[i]) /\ slots'[i].froze_account
        BY <3>1, <4>1 DEF is_used
      <4>3. /\ payments' # << >>
            /\ payments'[Len(payments')] = [challenge |-> c, at |-> now]
        <5>1. payments \in Seq([challenge : Challenges, at : Nat])
          BY DEF TypeOK
        <5>2. payments' = Append(payments, [challenge |-> c, at |-> now])
          BY <2>3, PayStep
        <5>3. [challenge |-> c, at |-> now] \in [challenge : Challenges, at : Nat]
          BY DEF TypeOK
        <5>4. QED
          BY <5>1, <5>2, <5>3, AppendProperties
      <4>4. /\ slots'[i].nonce = payments'[Len(payments')].challenge.nonce
            /\ slots'[i].timestamp = payments'[Len(payments')].at
        BY <4>1, <4>3
      <4>5. QED
        BY <4>1, <4>2, <4>3, <4>4, Zenon DEF StopCanBeAnnounced
    <3>5. QED
      BY <3>3, <3>4
  <2>4. ASSUME NEW n \in Nonces, publish_proof(n) PROVE StopCanBeAnnounced'
    <3>1. PICK i \in DOMAIN slots :
             /\ slots' = [slots EXCEPT ![i].published = TRUE]
             /\ UNCHANGED <<frozen, payments, owner_stopped>>
      BY <2>4 DEF publish_proof, mark_published
    <3>2. ASSUME NEW k \in DOMAIN slots
          PROVE  /\ k \in DOMAIN slots'
                 /\ slots'[k].amount = slots[k].amount
                 /\ slots'[k].froze_account = slots[k].froze_account
                 /\ slots'[k].nonce = slots[k].nonce
                 /\ slots'[k].timestamp = slots[k].timestamp
      BY <3>1, SlotType DEF PaymentRecord
    <3>3. QED
      BY <3>1, <3>2 DEF StopCanBeAnnounced, is_used
  <2>5. QED
    BY <2>1, <2>2, <2>3, <2>4 DEF Next, OwnerAction, AgentAction, revoke_agent_signer,
       set_agent_signer, add_merchant, remove_merchant, reduce_limits, recover_funds, deposit,
       Tick, vars, history
<1>3. QED
  BY <1>1, <1>2, TypeCorrect, PTL DEF Spec

-----------------------------------------------------------------------------
(* Proofs of intent.  What was announced of a challenge, and what its slots*)
(* may still announce, are together no more than its payments: a payment   *)
(* brings one slot, and announcing takes one from it.                      *)
unannounced(c) == {k \in DOMAIN slots :
    is_used(slots[k]) /\ ~slots[k].published /\ slots[k].challenge_hash = c}

payments_of(c) == {i \in DOMAIN payments : payments[i].challenge = c}

Truth == \A c \in Challenges :
    announced[c] + Cardinality(unannounced(c)) <= Cardinality(payments_of(c))

LEMMA ProofSets ==
    ASSUME TypeOK, NEW c
    PROVE  /\ IsFiniteSet(unannounced(c)) /\ Cardinality(unannounced(c)) \in Nat
           /\ IsFiniteSet(payments_of(c)) /\ Cardinality(payments_of(c)) \in Nat
<1>1. /\ DOMAIN payments = 1..Len(payments) /\ Len(payments) \in Nat
      /\ DOMAIN slots = 1..creation_config.max_tx_count
      /\ creation_config.max_tx_count \in Nat
  BY LenProperties, LimitsType DEF TypeOK
<1>2. IsFiniteSet(1..Len(payments)) /\ IsFiniteSet(1..creation_config.max_tx_count)
  BY <1>1, FS_Interval
<1>3. unannounced(c) \subseteq DOMAIN slots /\ payments_of(c) \subseteq DOMAIN payments
  BY DEF unannounced, payments_of
<1>4. IsFiniteSet(unannounced(c)) /\ IsFiniteSet(payments_of(c))
  BY <1>1, <1>2, <1>3, FS_Subset
<1>5. QED
  BY <1>4, FS_CardinalityType

LEMMA TruthStep ==
    ASSUME TypeOK, Truth, [Next]_vars
    PROVE  Truth'
<1>1. ASSUME NEW a \in Agents, NEW d \in Challenges, NEW batch \in Batches, pay(a, d, batch)
      PROVE  Truth'
  <2>1. /\ payments' = Append(payments, [challenge |-> d, at |-> now])
        /\ announced' = announced
    BY <1>1, PayStep
  <2>2. PICK s \in DOMAIN slots, filled \in BOOLEAN :
          slots' = [slots EXCEPT ![s] =
              [timestamp |-> now, amount |-> d.amount, nonce |-> d.nonce,
               challenge_hash |-> d, froze_account |-> filled, published |-> FALSE]]
    BY <1>1, PayStep
  <2>3. /\ DOMAIN slots' = DOMAIN slots
        /\ slots'[s].challenge_hash = d
        /\ \A k \in DOMAIN slots : k # s => slots'[k] = slots[k]
    BY <2>2
  <2>4. /\ Len(payments) \in Nat
        /\ DOMAIN payments = 1..Len(payments)
        /\ DOMAIN payments' = 1..(Len(payments) + 1)
        /\ \A i \in DOMAIN payments : payments'[i] = payments[i]
        /\ payments'[Len(payments) + 1] = [challenge |-> d, at |-> now]
    BY <2>1, AppendPayment
  <2> DEFINE n == Len(payments) + 1
  <2>5. ASSUME NEW c \in Challenges, c # d
        PROVE  announced'[c] + Cardinality(unannounced(c)') <= Cardinality(payments_of(c)')
    <3>1. payments_of(c)' = payments_of(c)
      <4>1. \A i \in DOMAIN payments' : i \in payments_of(c)' <=> i \in payments_of(c)
        BY <2>4, <2>5 DEF payments_of
      <4>2. QED
        BY <2>4, <4>1 DEF payments_of
    <3>2. unannounced(c)' \subseteq unannounced(c)
      BY <2>3, <2>5 DEF unannounced
    <3>3. Cardinality(unannounced(c)') <= Cardinality(unannounced(c))
          /\ Cardinality(unannounced(c)') \in Nat
      BY <3>2, ProofSets, FS_Subset, FS_CardinalityType
    <3>4. announced[c] \in Nat /\ Cardinality(unannounced(c)) \in Nat
          /\ Cardinality(payments_of(c)) \in Nat
      BY ProofSets DEF TypeOK
    <3>5. QED
      BY <2>1, <3>1, <3>3, <3>4 DEF Truth
  <2>6. announced'[d] + Cardinality(unannounced(d)') <= Cardinality(payments_of(d)')
    <3>1. payments_of(d)' = payments_of(d) \cup {n} /\ n \notin payments_of(d)
      BY <2>4 DEF payments_of
    <3>2. Cardinality(payments_of(d)') = Cardinality(payments_of(d)) + 1
      BY <3>1, ProofSets, FS_AddElement
    <3>3. unannounced(d)' \subseteq unannounced(d) \cup {s}
      BY <2>3 DEF unannounced
    <3>4. /\ IsFiniteSet(unannounced(d) \cup {s})
          /\ Cardinality(unannounced(d) \cup {s}) <= Cardinality(unannounced(d)) + 1
          /\ Cardinality(unannounced(d) \cup {s}) \in Nat
      <4>1. IsFiniteSet(unannounced(d)) /\ Cardinality(unannounced(d)) \in Nat
        BY ProofSets
      <4>2. IsFiniteSet(unannounced(d) \cup {s})
        BY <4>1, FS_AddElement
      <4>3. CASE s \in unannounced(d)
        <5>1. unannounced(d) \cup {s} = unannounced(d)
          BY <4>3
        <5>2. QED
          BY <4>1, <5>1
      <4>4. CASE s \notin unannounced(d)
        BY <4>1, <4>4, FS_AddElement
      <4>5. QED
        BY <4>2, <4>3, <4>4, FS_CardinalityType
    <3>5. Cardinality(unannounced(d)') <= Cardinality(unannounced(d) \cup {s})
          /\ Cardinality(unannounced(d)') \in Nat
      BY <3>3, <3>4, FS_Subset, FS_CardinalityType
    <3>6. announced[d] \in Nat /\ Cardinality(unannounced(d)) \in Nat
          /\ Cardinality(payments_of(d)) \in Nat
      BY ProofSets DEF TypeOK
    <3>7. announced[d] + Cardinality(unannounced(d)) <= Cardinality(payments_of(d))
      BY DEF Truth
    <3>8. QED
      BY <2>1, <3>2, <3>4, <3>5, <3>6, <3>7
  <2>7. QED
    BY <2>5, <2>6 DEF Truth
<1>2. ASSUME NEW nonce \in Nonces, publish_proof(nonce) PROVE Truth'
  <2>1. PICK s \in DOMAIN slots :
          /\ is_used(slots[s]) /\ ~slots[s].published
          /\ slots' = [slots EXCEPT ![s].published = TRUE]
          /\ announced' = [announced EXCEPT ![slots[s].challenge_hash] = @ + 1]
          /\ payments' = payments
    BY <1>2 DEF publish_proof, mark_published, holds_nonce
  <2>2. /\ DOMAIN slots' = DOMAIN slots
        /\ slots'[s].published = TRUE
        /\ \A k \in DOMAIN slots :
              /\ slots'[k].amount = slots[k].amount
              /\ slots'[k].challenge_hash = slots[k].challenge_hash
              /\ k # s => slots'[k] = slots[k]
    BY <2>1, SlotType DEF PaymentRecord
  <2>3. ASSUME NEW c \in Challenges
        PROVE  announced'[c] + Cardinality(unannounced(c)') <= Cardinality(payments_of(c)')
    <3>1. payments_of(c)' = payments_of(c)
      BY <2>1 DEF payments_of
    <3>2. announced[c] \in Nat /\ Cardinality(unannounced(c)) \in Nat
          /\ Cardinality(payments_of(c)) \in Nat
          /\ announced[c] + Cardinality(unannounced(c)) <= Cardinality(payments_of(c))
      BY ProofSets DEF TypeOK, Truth
    <3>3. CASE slots[s].challenge_hash = c
      <4>1. announced'[c] = announced[c] + 1
        BY <2>1, <3>3 DEF TypeOK
      <4>2. s \in unannounced(c) /\ unannounced(c)' = unannounced(c) \ {s}
        BY <2>1, <2>2, <3>3 DEF unannounced, is_used
      <4>3. Cardinality(unannounced(c)') = Cardinality(unannounced(c)) - 1
        BY <4>2, ProofSets, FS_RemoveElement
      <4>4. QED
        BY <3>1, <3>2, <4>1, <4>3
    <3>4. CASE slots[s].challenge_hash # c
      <4>1. announced'[c] = announced[c]
        BY <2>1, <3>4 DEF TypeOK
      <4>2. unannounced(c)' = unannounced(c)
        BY <2>1, <2>2, <3>4 DEF unannounced, is_used
      <4>3. QED
        BY <3>1, <3>2, <4>1, <4>2
    <3>5. QED
      BY <3>3, <3>4
  <2>4. QED
    BY <2>3 DEF Truth
<1>3. CASE UNCHANGED <<slots, payments, announced>>
  BY <1>3 DEF Truth, unannounced, payments_of
<1>4. QED
  BY <1>1, <1>2, <1>3 DEF Next, OwnerAction, AgentAction, freeze_payments, restore_payments,
     revoke_agent_signer, set_agent_signer, add_merchant, remove_merchant, reduce_limits,
     recover_funds, deposit, Tick, vars, history

(* publish_proof, which anyone may call at any time, never announces a     *)
(* payment that was not made, nor one payment twice (lib.rs,               *)
(* publish_proof).                                                         *)
THEOREM AnnouncedWasPaid == Spec => []ProofsTellTheTruth
<1>1. Init => Truth
  <2> SUFFICES ASSUME Init, NEW c \in Challenges
               PROVE  announced[c] + Cardinality(unannounced(c)) <= Cardinality(payments_of(c))
    BY DEF Truth
  <2>1. announced[c] = 0 /\ payments_of(c) = {} /\ unannounced(c) = {}
    BY DEF Init, unannounced, payments_of, create_slots, empty_slot, is_used
  <2>2. QED
    BY <2>1, FS_EmptySet
<1>2. TypeOK /\ Truth => ProofsTellTheTruth
  <2> SUFFICES ASSUME TypeOK, Truth, NEW c \in Challenges
               PROVE  announced[c] <= Cardinality({i \in DOMAIN payments :
                                                      payments[i].challenge = c})
    BY DEF ProofsTellTheTruth
  <2>1. announced[c] \in Nat /\ Cardinality(unannounced(c)) \in Nat
        /\ Cardinality(payments_of(c)) \in Nat
        /\ announced[c] + Cardinality(unannounced(c)) <= Cardinality(payments_of(c))
    BY ProofSets DEF TypeOK, Truth
  <2>2. announced[c] <= Cardinality(payments_of(c))
    BY <2>1
  <2>3. QED
    BY <2>2 DEF payments_of
<1>3. QED
  BY <1>1, <1>2, TruthStep, TypeCorrect, PTL DEF Spec

-----------------------------------------------------------------------------
(* The books.  An agreed settlement is one transfer, so what it moves is   *)
(* its amount, of the agreed asset, out of the account and, if it pays the *)
(* account itself, back into it.                                           *)
LEMMA SettlementMoves ==
    ASSUME NEW c \in Challenges, NEW batch \in Batches, check_settlement(c, batch), NEW t
    PROVE  /\ sent(batch, t) = IF t = c.asset THEN c.amount ELSE 0
           /\ received(batch, t) =
                  IF t = c.asset /\ c.recipient = This THEN c.amount ELSE 0
<1>1. DOMAIN batch = {1} /\ is_agreed_transfer(c, batch[1])
  BY BatchesAssumption DEF check_settlement
<1>2. c.amount \in Int
  BY ChallengesAssumption DEF Challenge
<1>3. transfers(batch, t) = IF t = c.asset THEN {1} ELSE {}
  BY <1>1 DEF transfers, is_agreed_transfer
<1>4. ASSUME NEW ks \in SUBSET {1}
      PROVE  sum_of(batch, ks) = IF ks = {1} THEN c.amount ELSE 0
  <2> DEFINE w == [k \in {1} |-> c.amount]
  <2>1. IsFiniteSet({1})
    BY FS_Singleton
  <2>2. IsFiniteSet(ks)
    BY <2>1, FS_Subset
  <2>3. /\ \A k \in ks : w[k] = batch[k].amount /\ w[k] \in Int
        /\ \A k \in {1} : w[k] \in Int
        /\ w[1] = c.amount
    BY <1>1, <1>2 DEF is_agreed_transfer
  <2> HIDE DEF w
  <2>4. sum_of(batch, ks) = AmountTotal(batch, ks)
    BY DEF sum_of, AmountTotal
  <2>5. AmountTotal(batch, ks) = Total(w, ks)
    BY <2>2, <2>3, AmountTotalIs
  <2>6. Total(w, {}) = 0
    BY FS_EmptySet, TotalOf
  <2>7. 1 \notin {} /\ {} \cup {1} = {1} /\ \A k \in {} : w[k] \in Int
    OBVIOUS
  <2>8. Total(w, {} \cup {1}) = Total(w, {}) + w[1]
    BY <2>3, <2>7, FS_EmptySet, TotalAdds
  <2>9. Total(w, {1}) = c.amount
    BY <1>2, <2>3, <2>6, <2>7, <2>8
  <2>10. ks = {} \/ ks = {1}
    OBVIOUS
  <2>11. QED
    BY <2>4, <2>5, <2>6, <2>9, <2>10
<1>5. {k \in transfers(batch, t) : batch[k].from = This} = IF t = c.asset THEN {1} ELSE {}
  BY <1>1, <1>3 DEF is_agreed_transfer
<1>6. {k \in transfers(batch, t) : batch[k].to = This}
          = IF t = c.asset /\ c.recipient = This THEN {1} ELSE {}
  BY <1>1, <1>3 DEF is_agreed_transfer
<1>7. sum_of(batch, {}) = 0 /\ sum_of(batch, {1}) = c.amount
  BY <1>4
<1>8. QED
  BY <1>5, <1>6, <1>7 DEF sent, received

leaving(t) == {i \in DOMAIN payments : t = Asset /\ payments[i].challenge.recipient # This}

Books == \A t \in Tokens :
    /\ balance[t] >= 0
    /\ funded[t] = balance[t] + recovered[t] + PaidTotal(payments, leaving(t))

FundsType ==
    /\ balance \in [Tokens -> Int] /\ funded \in [Tokens -> Int]
    /\ recovered \in [Tokens -> Int]

LEMMA Leaving ==
    ASSUME TypeOK, NEW t
    PROVE  /\ IsFiniteSet(leaving(t)) /\ leaving(t) \subseteq DOMAIN payments
           /\ PaidTotal(payments, leaving(t)) \in Int
           /\ \A i \in leaving(t) : payments[i].challenge.amount \in Int
<1>1. DOMAIN payments = 1..Len(payments) /\ Len(payments) \in Nat
  BY LenProperties DEF TypeOK
<1>2. IsFiniteSet(1..Len(payments))
  BY <1>1, FS_Interval
<1>3. leaving(t) \subseteq DOMAIN payments
  BY DEF leaving
<1>4. IsFiniteSet(leaving(t))
  BY <1>1, <1>2, <1>3, FS_Subset
<1>5. \A i \in leaving(t) : payments[i].challenge.amount \in Int
  BY <1>3, PaymentType DEF Challenge
<1>6. PaidTotal(payments, leaving(t)) \in Int
  BY <1>4, <1>5, PaidTotalSame
<1>7. QED
  BY <1>3, <1>4, <1>5, <1>6

LEMMA BooksStep ==
    ASSUME TypeOK, FundsType, Books, [Next]_vars
    PROVE  FundsType' /\ Books'
<1>1. ASSUME NEW a \in Agents, NEW c \in Challenges, NEW batch \in Batches, pay(a, c, batch)
      PROVE  FundsType' /\ Books'
  <2>1. /\ payments' = Append(payments, [challenge |-> c, at |-> now])
        /\ \A t \in Tokens : sent(batch, t) <= balance[t]
        /\ balance' = [t \in Tokens |-> balance[t] - sent(batch, t) + received(batch, t)]
        /\ UNCHANGED <<funded, recovered>>
        /\ check_settlement(c, batch)
        /\ c.asset = Asset /\ c.amount > 0 /\ c.amount \in Int
    BY <1>1, ChallengesAssumption DEF pay, check_payment_authorization, Challenge
  <2>2. /\ Len(payments) \in Nat
        /\ DOMAIN payments = 1..Len(payments)
        /\ DOMAIN payments' = 1..(Len(payments) + 1)
        /\ \A i \in DOMAIN payments : payments'[i] = payments[i]
        /\ payments'[Len(payments) + 1] = [challenge |-> c, at |-> now]
    BY <2>1, AppendPayment
  <2> DEFINE n == Len(payments) + 1
  <2>3. ASSUME NEW t \in Tokens
        PROVE  /\ balance'[t] \in Int /\ balance'[t] >= 0
               /\ funded'[t] = balance'[t] + recovered'[t]
                                   + PaidTotal(payments', leaving(t)')
    <3> DEFINE out == IF t = Asset /\ c.recipient # This THEN c.amount ELSE 0
               paid == PaidTotal(payments, leaving(t))
    <3>1. /\ sent(batch, t) = IF t = Asset THEN c.amount ELSE 0
          /\ received(batch, t) = IF t = Asset /\ c.recipient = This THEN c.amount ELSE 0
      BY <2>1, SettlementMoves
    <3>2. /\ balance[t] \in Int /\ balance[t] >= 0 /\ funded[t] \in Int
          /\ recovered[t] \in Int
          /\ funded[t] = balance[t] + recovered[t] + paid
      BY DEF FundsType, Books
    <3>3. balance'[t] = balance[t] - out /\ balance'[t] >= 0 /\ out \in Int
      <4>1. /\ balance'[t] = balance[t] - sent(batch, t) + received(batch, t)
            /\ sent(batch, t) <= balance[t]
        BY <2>1
      <4>2. QED
        BY <2>1, <3>1, <3>2, <4>1
    <3>4. /\ IsFiniteSet(leaving(t)) /\ leaving(t) \subseteq DOMAIN payments
          /\ paid \in Int
          /\ \A i \in leaving(t) : payments[i].challenge.amount \in Int
      BY Leaving
    <3>5. PaidTotal(payments', leaving(t)) = paid
      BY <2>2, <3>4, PaidTotalSame
    <3>6. PaidTotal(payments', leaving(t)') = paid + out
      <4>1. CASE t = Asset /\ c.recipient # This
        <5>1. leaving(t)' = leaving(t) \cup {n} /\ n \notin leaving(t)
          BY <2>2, <4>1 DEF leaving
        <5>2. /\ \A i \in leaving(t) : payments'[i].challenge.amount \in Int
              /\ payments'[n].challenge.amount = c.amount
              /\ payments'[n].challenge.amount \in Int
          BY <2>1, <2>2, <3>4
        <5>3. PaidTotal(payments', leaving(t) \cup {n})
                  = PaidTotal(payments', leaving(t)) + payments'[n].challenge.amount
          BY <3>4, <5>1, <5>2, PaidTotalAdds
        <5>4. QED
          BY <3>5, <4>1, <5>1, <5>2, <5>3
      <4>2. CASE ~(t = Asset /\ c.recipient # This)
        <5>1. \A i \in DOMAIN payments' : i \in leaving(t)' <=> i \in leaving(t)
          BY <2>2, <4>2 DEF leaving
        <5>2. leaving(t)' \subseteq DOMAIN payments' /\ leaving(t) \subseteq DOMAIN payments'
          BY <2>2 DEF leaving
        <5>3. leaving(t)' = leaving(t)
          BY <5>1, <5>2
        <5>4. QED
          BY <3>4, <3>5, <4>2, <5>3
      <4>3. QED
        BY <4>1, <4>2
    <3> HIDE DEF out, paid
    <3>7. QED
      BY <2>1, <3>2, <3>3, <3>4, <3>6
  <2>4. balance' \in [Tokens -> Int]
    <3>1. balance' = [t \in Tokens |-> balance'[t]]
      BY <2>1
    <3>2. QED
      BY <2>3, <3>1
  <2>5. QED
    BY <2>1, <2>3, <2>4 DEF FundsType, Books
<1>2. ASSUME NEW t \in Tokens, recover_funds(t) PROVE FundsType' /\ Books'
  <2>1. /\ recovered' = [recovered EXCEPT ![t] = recovered[t] + balance[t]]
        /\ balance' = [balance EXCEPT ![t] = 0]
        /\ UNCHANGED <<funded, payments>>
    BY <1>2 DEF recover_funds, history
  <2>2. \A u \in Tokens : leaving(u)' = leaving(u) /\ PaidTotal(payments, leaving(u)) \in Int
    BY <2>1, Leaving DEF leaving
  <2>3. FundsType'
    BY <2>1 DEF FundsType
  <2>4. ASSUME NEW u \in Tokens
        PROVE  /\ balance'[u] >= 0
               /\ funded'[u] = balance'[u] + recovered'[u]
                                   + PaidTotal(payments', leaving(u)')
    <3> DEFINE paid == PaidTotal(payments, leaving(u))
    <3>1. /\ balance[u] \in Int /\ funded[u] \in Int /\ recovered[u] \in Int /\ paid \in Int
          /\ balance[u] >= 0 /\ funded[u] = balance[u] + recovered[u] + paid
      BY <2>2 DEF FundsType, Books
    <3>2. funded'[u] = funded[u] /\ PaidTotal(payments', leaving(u)') = paid
      BY <2>1, <2>2
    <3>3. /\ u = t => balance'[u] = 0 /\ recovered'[u] = recovered[u] + balance[u]
          /\ u # t => balance'[u] = balance[u] /\ recovered'[u] = recovered[u]
      BY <2>1 DEF FundsType
    <3> HIDE DEF paid
    <3>4. QED
      BY <3>1, <3>2, <3>3
  <2>5. QED
    BY <2>3, <2>4 DEF Books
<1>3. ASSUME NEW t \in Tokens, NEW amount \in Deposits, deposit(t, amount)
      PROVE  FundsType' /\ Books'
  <2>1. /\ funded' = [funded EXCEPT ![t] = funded[t] + amount]
        /\ balance' = [balance EXCEPT ![t] = balance[t] + amount]
        /\ UNCHANGED <<recovered, payments>>
        /\ amount \in Nat
    BY <1>3, BoundsAssumption DEF deposit, history
  <2>2. \A u \in Tokens : leaving(u)' = leaving(u) /\ PaidTotal(payments, leaving(u)) \in Int
    BY <2>1, Leaving DEF leaving
  <2>3. FundsType'
    BY <2>1 DEF FundsType
  <2>4. ASSUME NEW u \in Tokens
        PROVE  /\ balance'[u] >= 0
               /\ funded'[u] = balance'[u] + recovered'[u]
                                   + PaidTotal(payments', leaving(u)')
    <3> DEFINE paid == PaidTotal(payments, leaving(u))
    <3>1. /\ balance[u] \in Int /\ funded[u] \in Int /\ recovered[u] \in Int /\ paid \in Int
          /\ balance[u] >= 0 /\ funded[u] = balance[u] + recovered[u] + paid
      BY <2>2 DEF FundsType, Books
    <3>2. recovered'[u] = recovered[u] /\ PaidTotal(payments', leaving(u)') = paid
      BY <2>1, <2>2
    <3>3. /\ u = t => balance'[u] = balance[u] + amount /\ funded'[u] = funded[u] + amount
          /\ u # t => balance'[u] = balance[u] /\ funded'[u] = funded[u]
      BY <2>1 DEF FundsType
    <3> HIDE DEF paid
    <3>4. QED
      BY <2>1, <3>1, <3>2, <3>3
  <2>5. QED
    BY <2>3, <2>4 DEF Books
<1>4. CASE UNCHANGED <<balance, funded, recovered, payments>>
  <2>1. FundsType'
    BY <1>4 DEF FundsType
  <2>2. Books'
    BY <1>4 DEF Books, leaving
  <2>3. QED
    BY <2>1, <2>2
<1>5. QED
  BY <1>1, <1>2, <1>3, <1>4 DEF Next, OwnerAction, AgentAction, freeze_payments,
     restore_payments, revoke_agent_signer, set_agent_signer, add_merchant, remove_merchant,
     reduce_limits, publish_proof, Tick, vars, funds, history

(* Whatever batches the agent asks for and whoever deposits, the balance   *)
(* is the deposits less recoveries and recorded payments, to the last unit *)
(* (lib.rs, check_settlement and recover_funds).                           *)
THEOREM BooksBalance == Spec => []FundsAccountedFor
<1>1. Init => FundsType /\ Books
  <2> SUFFICES ASSUME Init PROVE FundsType /\ Books
    OBVIOUS
  <2>1. FundsType
    BY DEF Init, FundsType
  <2>2. PaidTotal(payments, {}) = 0
    <3> DEFINE w == [i \in {} |-> 0]
    <3>1. IsFiniteSet({})
      BY FS_EmptySet
    <3>2. PaidTotal(payments, {}) = Total(w, {})
      BY <3>1, PaidTotalIs
    <3>3. Total(w, {}) = 0
      BY <3>1, TotalOf
    <3>4. QED
      BY <3>2, <3>3
  <2>3. ASSUME NEW t \in Tokens
        PROVE  /\ balance[t] >= 0
               /\ funded[t] = balance[t] + recovered[t] + PaidTotal(payments, leaving(t))
    <3>1. leaving(t) = {}
      BY DEF Init, leaving
    <3>2. balance[t] = 0 /\ funded[t] = 0 /\ recovered[t] = 0
      BY DEF Init
    <3>3. QED
      BY <2>2, <3>1, <3>2
  <2>4. QED
    BY <2>1, <2>3 DEF Books
<1>2. Books => FundsAccountedFor
  BY DEF Books, FundsAccountedFor, PaidTotal, leaving
<1>3. QED
  BY <1>1, <1>2, BooksStep, TypeCorrect, PTL DEF Spec

-----------------------------------------------------------------------------
(* The mandate.  A window longer than any challenge lives is what keeps a  *)
(* challenge from being paid again.                                        *)
LongWindow == creation_config.window_size > MAX_CHALLENGE_LIFETIME

LEMMA NotPaidBefore ==
    ASSUME IInv, LongWindow, NEW a \in Agents, NEW c \in Challenges, NEW batch \in Batches,
           pay(a, c, batch)
    PROVE  \A i \in DOMAIN payments : payments[i].challenge # c
<1> SUFFICES ASSUME NEW i \in DOMAIN payments, payments[i].challenge = c PROVE FALSE
  OBVIOUS
<1>1. /\ challenge_is_live(c.expiry, now)
      /\ \A k \in DOMAIN slots : is_used(slots[k]) => slots[k].nonce # c.nonce
  BY PayStep DEF IInv
<1>2. challenge_is_live(c.expiry, payments[i].at)
  BY DEF IInv, PaymentsWereLive
<1>3. /\ now \in Nat /\ payments[i].at \in Nat /\ creation_config.window_size \in Nat
      /\ c.expiry \in Nat
  BY PaymentType, LimitsType, ChallengesAssumption DEF IInv, Challenge
<1>4. now - payments[i].at < creation_config.window_size
  BY <1>1, <1>2, <1>3, LifetimeAssumption DEF challenge_is_live, LongWindow
<1>5. QED
  BY <1>1, <1>4 DEF IInv, RecentPaymentsHeld, held

LEMMA PayIsMandated ==
    ASSUME IInv, TypeOK', LongWindow, NEW a \in Agents, NEW c \in Challenges,
           NEW batch \in Batches, pay(a, c, batch)
    PROVE  Mandate!Pay(c)
<1> SUFFICES ASSUME NEW n, n = Len(payments) + 1 PROVE Mandate!Pay(c)
  OBVIOUS
<1> DEFINE s == Append(payments, [challenge |-> c, at |-> now])
<1>1. payments' = s /\ UNCHANGED <<now, creation_config>> /\ c \in Challenge
  BY PayStep DEF IInv, limits
<1>2. /\ Len(payments) \in Nat
      /\ DOMAIN payments = 1..Len(payments)
      /\ DOMAIN s = 1..n
      /\ \A i \in DOMAIN payments : s[i] = payments[i]
      /\ s[n] = [challenge |-> c, at |-> now]
  BY <1>1, AppendPayment DEF IInv
<1>3. Len(s) = n
  BY AppendProperties DEF IInv, TypeOK
<1> HIDE DEF s
<1>4. Mandate!LastWindow(s) = recent \cup {n} /\ n \notin recent
  <2>1. window_ending(n)' = recent \cup {n} /\ n \notin recent
    BY PayWindow
  <2>2. window_ending(n)' = {j \in 1..n : s[n].at - s[j].at < creation_config.window_size}
    BY <1>1 DEF window_ending
  <2>3. Mandate!LastWindow(s) = {j \in 1..n : s[n].at - s[j].at < creation_config.window_size}
    BY <1>2, <1>3 DEF Mandate!LastWindow
  <2>4. QED
    BY <2>1, <2>2, <2>3
<1>5. /\ IsFiniteSet(recent) /\ recent \subseteq DOMAIN payments
      /\ Cardinality(recent) \in Nat
  BY RecentWithin DEF recent
<1>6. Mandate!LastCount(s) = Cardinality(recent) + 1
  <2>1. Mandate!LastCount(s) = Cardinality(recent \cup {n})
    BY <1>4 DEF Mandate!LastCount, Mandate!Cardinality, Cardinality
  <2>2. QED
    BY <1>4, <1>5, <2>1, FS_AddElement
<1>7. Mandate!LastTotal(s) = PaidTotal(payments, recent) + c.amount
  <2>1. Mandate!LastTotal(s) = PaidTotal(s, recent \cup {n})
    BY <1>4 DEF Mandate!LastTotal, Mandate!MapThenSumSet, Mandate!MapThenFoldSet,
                PaidTotal, MapThenSumSet, MapThenFoldSet
  <2>2. /\ \A i \in recent : payments[i].challenge.amount \in Int
        /\ \A i \in recent : s[i].challenge.amount \in Int
        /\ \A i \in recent : s[i] = payments[i]
        /\ s[n].challenge.amount = c.amount
        /\ s[n].challenge.amount \in Int
    BY <1>1, <1>2, <1>5, PaymentType DEF IInv, Challenge
  <2>3. PaidTotal(s, recent \cup {n}) = PaidTotal(s, recent) + s[n].challenge.amount
    BY <1>4, <1>5, <2>2, PaidTotalAdds
  <2>4. PaidTotal(s, recent) = PaidTotal(payments, recent)
    BY <1>5, <2>2, PaidTotalSame
  <2>5. QED
    BY <2>1, <2>2, <2>3, <2>4
<1>8. /\ c.amount \in 1..creation_config.max_payment_amount
      /\ Cardinality(recent) + 1 <= creation_config.max_tx_count
      /\ PaidTotal(payments, recent) + c.amount <= creation_config.max_total_amount
      /\ \/ Cardinality(recent) + 1 = creation_config.max_tx_count
         \/ PaidTotal(payments, recent) + c.amount = creation_config.max_total_amount
         => frozen' = TRUE
  BY PayWithin
<1>9. \A i \in DOMAIN payments : payments[i].challenge # c
  BY NotPaidBefore
<1>10. ~frozen /\ now <= c.expiry /\ frozen' \in BOOLEAN
  BY DEF pay, check_payment_authorization, challenge_is_live, TypeOK
<1> USE DEF s
<1>11. QED
  BY <1>1, <1>6, <1>7, <1>8, <1>9, <1>10 DEF Mandate!Pay

(* An account created with a window longer than any challenge lives keeps  *)
(* the mandate it was created with, whatever its slots, keys, merchants,   *)
(* batches and later limits (lib.rs and velocity.rs together).             *)
THEOREM MandateKept == Spec /\ []LongWindow => KeepsMandate
<1>1. Init => Mandate!Init
  BY DEF Init, Mandate!Init
<1>2. IInv /\ TypeOK' /\ LongWindow /\ [Next]_vars => [Mandate!Next]_(Mandate!vars)
  <2> SUFFICES ASSUME IInv, TypeOK', LongWindow, [Next]_vars
               PROVE  Mandate!Next \/ UNCHANGED Mandate!vars
    OBVIOUS
  <2>1. ASSUME NEW a \in Agents, NEW c \in Challenges, NEW batch \in Batches, pay(a, c, batch)
        PROVE  Mandate!Next
    BY <2>1, PayIsMandated DEF Mandate!Next
  <2>2. CASE UNCHANGED <<now, creation_config, payments>>
    <3>1. frozen' \in BOOLEAN
      BY DEF TypeOK
    <3>2. QED
      BY <2>2, <3>1 DEF Mandate!Next, Mandate!Decide
  <2>3. CASE Tick
    BY <2>3 DEF Tick, limits, history, Mandate!Next, Mandate!Wait
  <2>4. QED
    BY <2>1, <2>2, <2>3 DEF Next, OwnerAction, AgentAction, freeze_payments,
       restore_payments, revoke_agent_signer, set_agent_signer, add_merchant, remove_merchant,
       reduce_limits, recover_funds, publish_proof, deposit, vars, limits, history
<1>3. IInv => TypeOK
  BY DEF IInv
<1>4. QED
  BY <1>1, <1>2, <1>3, InductiveInvariant, PTL DEF Spec, KeepsMandate, Mandate!Spec
=============================================================================
