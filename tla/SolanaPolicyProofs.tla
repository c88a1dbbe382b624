------------------------- MODULE SolanaPolicyProofs -------------------------
(***************************************************************************)
(* What SolanaPolicy guarantees for every set of terms, limits, keys,      *)
(* transaction layouts and clocks.  Who agreed: the program reads only     *)
(* what the precompile verified, and what it verifies of an owner's        *)
(* assertion names the counter, so the i-th action is one signed after i-1 *)
(* others.  What is paid: as for the Soroban account, a payment's slot is  *)
(* not reused while the payment counts toward the limits of creation.      *)
(***************************************************************************)
EXTENDS SolanaPayment, VelocityWindowProofs, FiniteSetTheorems, SequenceTheorems, TLAPS

Actions == {"freeze_payments", "restore_payments", "revoke_agent_signer", "recover_funds",
            "set_agent_signer", "add_merchant", "remove_merchant", "reduce_limits"}
Args    == {NoArg, NoSigner} \cup Agents \cup Merchants \cup Configs
Call    == [action : Actions, arg : Args, at : Nat]
Payment == [challenge : Terms, at : Nat]

(* The account and its history, well typed.                                *)
Shape ==
    /\ TypeOK
    /\ is_valid(creation_limits)
    /\ funded \in Nat /\ recovered \in Nat
    /\ executed \in Seq(Call)
    /\ payments \in Seq(Payment)

-----------------------------------------------------------------------------
(* One call more, one payment more: the others stay where they were.       *)
LEMMA OneMore ==
    ASSUME NEW Kind, NEW list \in Seq(Kind), NEW x \in Kind
    PROVE  /\ Len(list) \in Nat
           /\ DOMAIN list = 1..Len(list)
           /\ Append(list, x) \in Seq(Kind)
           /\ Len(Append(list, x)) = Len(list) + 1
           /\ DOMAIN Append(list, x) = 1..(Len(list) + 1)
           /\ \A i \in DOMAIN list : Append(list, x)[i] = list[i]
           /\ Append(list, x)[Len(list) + 1] = x
BY LenProperties, AppendProperties

LEMMA TermsType ==
    ASSUME NEW c \in Terms
    PROVE  /\ c.amount \in Nat /\ c.expiry \in Nat /\ c.nonce \in Nonces
           /\ c.merchant \in Merchants
BY SolanaAssumption

LEMMA LimitsType ==
    ASSUME NEW l \in VelocityConfig
    PROVE  /\ l.max_payment_amount \in Int /\ l.max_tx_count \in Nat
           /\ l.max_total_amount \in Int /\ l.window_size \in Nat
BY DEF VelocityConfig

LEMMA SlotType ==
    ASSUME TypeOK, NEW k \in DOMAIN slots
    PROVE  /\ k \in 1..MAX_TRACKED_PAYMENTS
           /\ slots[k] \in PaymentRecord
           /\ slots[k].timestamp \in Nat /\ slots[k].amount \in Nat
BY DEF TypeOK, PaymentRecord

LEMMA PaymentType ==
    ASSUME Shape, NEW i \in DOMAIN payments
    PROVE  /\ payments[i].challenge \in Terms
           /\ payments[i].challenge.amount \in Nat /\ payments[i].challenge.expiry \in Nat
           /\ payments[i].at \in Nat
<1>1. payments[i] \in Payment
  BY ElementOfSeq, LenProperties DEF Shape
<1>2. QED
  BY <1>1, TermsType DEF Payment

(* An action that succeeds was signed: what is read lies inside what the   *)
(* precompile verified, so no made-up assertion passes.                    *)
LEMMA Authorized ==
    ASSUME NEW proof, NEW layout, precompile_passes(layout, proof \in signed),
           NEW action, NEW arg, authorize(action, arg, proof, layout)
    PROVE  /\ proof \in signed /\ proof.user_verified /\ now <= proof.valid_until
           /\ proof.challenge = challenge(action, arg, owner_nonce, proof.valid_until)
           /\ owner_nonce' = owner_nonce + 1
           /\ executed' = Append(executed, [action |-> action, arg |-> arg, at |-> now])
BY DEF precompile_passes, authorize, verified_by_precompile

(* What every owner action does to the account, beside its own effect.     *)
Called(action, arg) ==
    /\ action \in Actions /\ arg \in Args
    /\ owner_nonce' = owner_nonce + 1
    /\ executed' = Append(executed, [action |-> action, arg |-> arg, at |-> now])
    /\ \E proof \in signed :
          /\ proof.user_verified /\ now <= proof.valid_until
          /\ proof.challenge = challenge(action, arg, owner_nonce, proof.valid_until)
    /\ UNCHANGED <<now, creation_limits, slots, funded, payments, signed>>
    /\ action # "reduce_limits" => UNCHANGED limits
    /\ action \notin {"add_merchant", "remove_merchant"} => UNCHANGED merchants

(* The owner's actions, one by one.                                        *)
Effect(action, arg) ==
    \/ /\ action \in {"freeze_payments", "restore_payments"}
       /\ frozen' = (action = "freeze_payments")
       /\ UNCHANGED <<agent_signer, money>>
    \/ /\ action \in {"revoke_agent_signer", "set_agent_signer"}
       /\ agent_signer' \in Agents \cup {NoSigner}
       /\ UNCHANGED <<frozen, money>>
    \/ /\ action = "recover_funds"
       /\ recovered' = recovered + vault /\ vault' = 0
       /\ UNCHANGED <<frozen, agent_signer>>
    \/ /\ action = "add_merchant" /\ arg \in Merchants
       /\ \/ arg \in Range(merchants) /\ UNCHANGED merchants
          \/ /\ arg \notin Range(merchants) /\ Len(merchants) < MAX_MERCHANTS
             /\ merchants' = Append(merchants, arg)
       /\ UNCHANGED <<frozen, agent_signer, money>>
    \/ /\ action = "remove_merchant" /\ arg \in Merchants
       /\ \/ arg \notin Range(merchants) /\ UNCHANGED merchants
          \/ \E k \in DOMAIN merchants :
                merchants[k] = arg /\ merchants' = swap_removed(merchants, k)
       /\ UNCHANGED <<frozen, agent_signer, money>>
    \/ /\ action = "reduce_limits" /\ arg \in Configs
       /\ is_valid(arg) /\ only_reduces(limits, arg) /\ limits' = arg
       /\ UNCHANGED <<frozen, agent_signer, money>>

LEMMA OwnerSteps ==
    ASSUME OwnerAction
    PROVE  \E action, arg : Called(action, arg) /\ Effect(action, arg)
<1>1. PICK proof \in Assertions, layout \in Layouts :
        /\ precompile_passes(layout, proof \in signed)
        /\ \/ freeze_payments(proof, layout)
           \/ restore_payments(proof, layout)
           \/ revoke_agent_signer(proof, layout)
           \/ recover_funds(proof, layout)
           \/ \E agent \in Agents \cup {NoSigner} : set_agent_signer(agent, proof, layout)
           \/ \E m \in Merchants : add_merchant(m, proof, layout)
           \/ \E m \in Merchants : remove_merchant(m, proof, layout)
           \/ \E next \in Configs : reduce_limits(next, proof, layout)
  BY DEF OwnerAction
<1>2. ASSUME freeze_payments(proof, layout)
      PROVE  Called("freeze_payments", NoArg) /\ Effect("freeze_payments", NoArg)
  BY <1>1, <1>2, Authorized DEF freeze_payments, Called, Effect, Actions, Args, config, money
<1>3. ASSUME restore_payments(proof, layout)
      PROVE  Called("restore_payments", NoArg) /\ Effect("restore_payments", NoArg)
  BY <1>1, <1>3, Authorized DEF restore_payments, Called, Effect, Actions, Args, config, money
<1>4. ASSUME revoke_agent_signer(proof, layout)
      PROVE  Called("revoke_agent_signer", NoArg) /\ Effect("revoke_agent_signer", NoArg)
  BY <1>1, <1>4, Authorized DEF revoke_agent_signer, Called, Effect, Actions, Args, config,
     money
<1>5. ASSUME recover_funds(proof, layout)
      PROVE  Called("recover_funds", NoArg) /\ Effect("recover_funds", NoArg)
  BY <1>1, <1>5, Authorized DEF recover_funds, Called, Effect, Actions, Args, config, money
<1>6. ASSUME NEW agent \in Agents \cup {NoSigner}, set_agent_signer(agent, proof, layout)
      PROVE  Called("set_agent_signer", agent) /\ Effect("set_agent_signer", agent)
  BY <1>1, <1>6, Authorized DEF set_agent_signer, Called, Effect, Actions, Args, config, money
<1>7. ASSUME NEW m \in Merchants, add_merchant(m, proof, layout)
      PROVE  Called("add_merchant", m) /\ Effect("add_merchant", m)
  BY <1>1, <1>7, Authorized DEF add_merchant, Called, Effect, Actions, Args, config, money
<1>8. ASSUME NEW m \in Merchants, remove_merchant(m, proof, layout)
      PROVE  Called("remove_merchant", m) /\ Effect("remove_merchant", m)
  BY <1>1, <1>8, Authorized DEF remove_merchant, Called, Effect, Actions, Args, config, money
<1>9. ASSUME NEW next \in Configs, reduce_limits(next, proof, layout)
      PROVE  Called("reduce_limits", next) /\ Effect("reduce_limits", next)
  BY <1>1, <1>9, Authorized DEF reduce_limits, Called, Effect, Actions, Args, config, money
<1>10. QED
  BY <1>1, <1>2, <1>3, <1>4, <1>5, <1>6, <1>7, <1>8, <1>9

(* What a payment does: its terms are signed, it takes one slot whose      *)
(* payment no longer counts, and its nonce was in none.                    *)
Paid(c) ==
    /\ c \in Challenges /\ c \in Terms
    /\ ~frozen /\ c.amount > 0 /\ c.amount <= limits.max_payment_amount
    /\ c.expiry # 0 /\ now <= c.expiry /\ c.expiry - now <= MAX_CHALLENGE_LIFETIME
    /\ \A k \in DOMAIN slots : is_used(slots[k]) => slots[k].nonce # c.nonce
    /\ fits(slots, limits, now, c.amount)
    /\ frozen' = (frozen \/ fills(slots, limits, now, c.amount))
    /\ \E s \in DOMAIN slots, filled \in BOOLEAN :
          /\ ~counts(slots[s], limits, now)
          /\ slots' = [slots EXCEPT ![s] =
                 [timestamp |-> now, amount |-> c.amount, nonce |-> c.nonce,
                  challenge_hash |-> c, froze_account |-> filled]]
    /\ c.amount <= vault
    /\ vault' = IF c.recipient = This THEN vault ELSE vault - c.amount
    /\ payments' = Append(payments, [challenge |-> c, at |-> now])
    /\ UNCHANGED <<now, agent_signer, owner_nonce, merchants, config, funded, recovered,
                   signed, executed>>

LEMMA PaySteps ==
    ASSUME NEW agent, NEW c \in Terms, NEW layout,
           precompile_passes(layout, c \in Challenges), pay(agent, c, layout)
    PROVE  c \in Challenges /\ Paid(c)
<1>1. c \in Challenges
  BY DEF precompile_passes, pay, verified_by_precompile
<1>2. fills(slots, limits, now, c.amount) \in BOOLEAN
  BY DEF fills
<1>3. \E s \in DOMAIN slots, filled \in BOOLEAN :
          /\ ~counts(slots[s], limits, now)
          /\ slots' = [slots EXCEPT ![s] =
                 [timestamp |-> now, amount |-> c.amount, nonce |-> c.nonce,
                  challenge_hash |-> c, froze_account |-> filled]]
  BY <1>2 DEF pay, record, is_free
<1>4. QED
  BY <1>1, <1>3 DEF pay, record, transfer_checked, nonce_spent, Paid

LEMMA AgentSteps ==
    ASSUME AgentAction
    PROVE  \E c \in Challenges : Paid(c)
BY PaySteps DEF AgentAction

(* Every step is one of these.                                             *)
Unmoved == UNCHANGED <<frozen, agent_signer, owner_nonce, merchants, limits, creation_limits,
                       slots, payments, executed, recovered>>

Other ==
    /\ Unmoved
    /\ \/ /\ now' \in Nat /\ now <= now'
          /\ signed \subseteq signed' /\ UNCHANGED <<vault, funded>>
       \/ \E amount \in Deposits :
             /\ vault' = vault + amount /\ funded' = funded + amount
             /\ UNCHANGED <<now, signed>>

LEMMA Steps ==
    ASSUME now \in Nat, [Next]_vars
    PROVE  \/ \E action, arg : Called(action, arg) /\ Effect(action, arg)
           \/ \E c \in Challenges : Paid(c)
           \/ Other
<1>1. CASE OwnerAction
  BY <1>1, OwnerSteps
<1>2. CASE AgentAction
  BY <1>2, AgentSteps
<1>3. ASSUME NEW s \in Signings, sign(s) PROVE Other
  BY <1>3 DEF sign, Other, Unmoved, config, money
<1>4. ASSUME NEW amount \in Deposits, deposit(amount) PROVE Other
  BY <1>4 DEF deposit, Other, Unmoved, config
<1>5. CASE Tick
  BY <1>5 DEF Tick, Other, Unmoved, config, money
<1>6. CASE UNCHANGED vars
  BY <1>6 DEF vars, Other, Unmoved, config, money
<1>7. QED
  BY <1>1, <1>2, <1>3, <1>4, <1>5, <1>6 DEF Next

-----------------------------------------------------------------------------
(* The merchant list.  Removing an entry puts the last one in its place.   *)
LEMMA SwapRemoved ==
    ASSUME NEW list \in Seq(Merchants), NEW k \in DOMAIN list
    PROVE  /\ swap_removed(list, k) \in Seq(Merchants)
           /\ DOMAIN list = 1..Len(list) /\ Len(list) \in Nat
           /\ Len(swap_removed(list, k)) = Len(list) - 1
           /\ DOMAIN swap_removed(list, k) = 1..(Len(list) - 1)
           /\ \A i \in 1..(Len(list) - 1) :
                 swap_removed(list, k)[i] = IF i = k THEN list[Len(list)] ELSE list[i]
<1> DEFINE n == Len(list)
           moved == [list EXCEPT ![k] = list[n]]
<1>1. n \in Nat /\ DOMAIN list = 1..n /\ k \in 1..n /\ n \in 1..n
  BY LenProperties
<1>2. list[n] \in Merchants
  BY <1>1, ElementOfSeq
<1>3. moved \in Seq(Merchants) /\ Len(moved) = n
  BY <1>1, <1>2, ExceptSeq
<1>4. \A i \in 1..n : moved[i] = IF i = k THEN list[n] ELSE list[i]
  BY <1>1
<1> HIDE DEF moved
<1>5. /\ SubSeq(moved, 1, n - 1) \in Seq(Merchants)
      /\ Len(SubSeq(moved, 1, n - 1)) = n - 1
      /\ \A i \in 1..(n - 1) : SubSeq(moved, 1, n - 1)[i] = moved[i]
  BY <1>1, <1>3
<1>6. DOMAIN SubSeq(moved, 1, n - 1) = 1..(n - 1)
  BY <1>5, LenProperties
<1>7. swap_removed(list, k) = SubSeq(moved, 1, n - 1)
  BY DEF swap_removed, moved
<1>8. \A i \in 1..(n - 1) : i \in 1..n
  BY <1>1
<1>9. QED
  BY <1>1, <1>4, <1>5, <1>6, <1>7, <1>8

(* The account and its history stay well typed.                            *)
LEMMA InitShape == Init => Shape
<1> SUFFICES ASSUME Init PROVE Shape
  OBVIOUS
<1>1. limits \in VelocityConfig /\ is_valid(limits) /\ creation_limits = limits
  BY SolanaAssumption DEF Init
<1>2. zeroed_slot \in PaymentRecord
  BY DEF zeroed_slot, PaymentRecord
<1>3. slots \in [1..MAX_TRACKED_PAYMENTS -> PaymentRecord]
  BY <1>2 DEF Init
<1>4. << >> \in Seq(Merchants) /\ << >> \in Seq(Call) /\ << >> \in Seq(Payment) /\ Len(<< >>) = 0
  BY EmptySeq
<1>5. /\ executed \in Seq(Call) /\ payments \in Seq(Payment)
      /\ merchants \in Seq(Merchants) /\ Len(merchants) <= MAX_MERCHANTS
  BY <1>4, SolanaAssumption DEF Init
<1>6. /\ now \in Nat /\ frozen \in BOOLEAN /\ owner_nonce \in Nat
      /\ agent_signer \in Agents \cup {NoSigner}
      /\ vault \in Nat /\ funded \in Nat /\ recovered \in Nat
  BY DEF Init
<1>7. QED
  BY <1>1, <1>3, <1>5, <1>6 DEF Shape, TypeOK

LEMMA ShapeStep ==
    ASSUME Shape, [Next]_vars
    PROVE  Shape'
<1> USE DEF Shape, TypeOK
<1>0. now \in Nat
  OBVIOUS
<1>1. ASSUME NEW action, NEW arg, Called(action, arg), Effect(action, arg) PROVE Shape'
  <2>1. executed' \in Seq(Call)
    <3>1. [action |-> action, arg |-> arg, at |-> now] \in Call
      BY <1>1 DEF Called, Call
    <3>2. QED
      BY <1>1, <3>1, OneMore DEF Called
  <2>2. /\ now' \in Nat /\ owner_nonce' \in Nat /\ creation_limits' \in VelocityConfig
        /\ is_valid(creation_limits)' /\ funded' \in Nat /\ payments' \in Seq(Payment)
        /\ slots' \in [1..MAX_TRACKED_PAYMENTS -> PaymentRecord]
    BY <1>1 DEF Called, is_valid
  <2>3. frozen' \in BOOLEAN /\ agent_signer' \in Agents \cup {NoSigner}
    BY <1>1 DEF Effect
  <2>4. vault' \in Nat /\ recovered' \in Nat
    BY <1>1 DEF Effect, money
  <2>5. limits' \in VelocityConfig /\ is_valid(limits)'
    <3>1. CASE action = "reduce_limits"
      BY <1>1, <3>1, SolanaAssumption DEF Effect, is_valid
    <3>2. CASE action # "reduce_limits"
      BY <1>1, <3>2 DEF Called, is_valid
    <3>3. QED
      BY <3>1, <3>2
  <2>6. merchants' \in Seq(Merchants) /\ Len(merchants') <= MAX_MERCHANTS
    <3>1. CASE UNCHANGED merchants
      BY <3>1
    <3>2. CASE /\ arg \in Merchants /\ Len(merchants) < MAX_MERCHANTS
               /\ merchants' = Append(merchants, arg)
      BY <3>2, OneMore, SolanaAssumption
    <3>3. ASSUME NEW k \in DOMAIN merchants, merchants' = swap_removed(merchants, k)
          PROVE  merchants' \in Seq(Merchants) /\ Len(merchants') <= MAX_MERCHANTS
      BY <3>3, SwapRemoved, SolanaAssumption
    <3>4. QED
      BY <1>1, <3>1, <3>2, <3>3 DEF Called, Effect
  <2>7. QED
    BY <2>1, <2>2, <2>3, <2>4, <2>5, <2>6
<1>2. ASSUME NEW c \in Challenges, Paid(c) PROVE Shape'
  <2>1. c.amount \in Nat /\ c.nonce \in Nonces /\ c \in Terms
    BY <1>2, TermsType DEF Paid
  <2>2. slots' \in [1..MAX_TRACKED_PAYMENTS -> PaymentRecord]
    <3>1. PICK s \in DOMAIN slots, filled \in BOOLEAN :
            slots' = [slots EXCEPT ![s] =
                [timestamp |-> now, amount |-> c.amount, nonce |-> c.nonce,
                 challenge_hash |-> c, froze_account |-> filled]]
      BY <1>2 DEF Paid
    <3>2. [timestamp |-> now, amount |-> c.amount, nonce |-> c.nonce,
           challenge_hash |-> c, froze_account |-> filled] \in PaymentRecord
      BY <2>1 DEF PaymentRecord
    <3>3. QED
      BY <3>1, <3>2
  <2>3. payments' \in Seq(Payment)
    <3>1. [challenge |-> c, at |-> now] \in Payment
      BY <2>1 DEF Payment
    <3>2. QED
      BY <1>2, <3>1, OneMore DEF Paid
  <2>4. vault' \in Nat
    BY <1>2, <2>1 DEF Paid
  <2>5. frozen' \in BOOLEAN
    BY <1>2 DEF Paid, fills
  <2>6. /\ now' = now /\ owner_nonce' = owner_nonce /\ agent_signer' = agent_signer
        /\ merchants' = merchants /\ limits' = limits /\ creation_limits' = creation_limits
        /\ funded' = funded /\ recovered' = recovered /\ executed' = executed
    BY <1>2 DEF Paid, config
  <2>7. QED
    BY <2>2, <2>3, <2>4, <2>5, <2>6 DEF is_valid
<1>3. CASE Other
  <2>1. now' \in Nat /\ vault' \in Nat /\ funded' \in Nat
    BY <1>3, SolanaAssumption DEF Other
  <2>2. QED
    BY <1>3, <2>1 DEF Other, Unmoved, is_valid
<1>4. QED
  BY <1>0, <1>1, <1>2, <1>3, Steps

(* The account stays well typed, whatever transactions are submitted: all  *)
(* its slots, valid limits, a merchant list that fits (state.rs).          *)
LEMMA Shaped == Spec => []Shape
BY InitShape, ShapeStep, PTL DEF Spec

THEOREM TypeCorrect == Spec => []TypeOK
<1>1. Shape => TypeOK
  BY DEF Shape
<1>2. QED
  BY <1>1, Shaped, PTL

-----------------------------------------------------------------------------
(* Who agreed.                                                             *)

(* The i-th call is one that an assertion in the set was made for.         *)
SignedFor(call, i, assertions) ==
    \E a \in assertions :
        LET c == a.challenge
        IN  /\ a.user_verified
            /\ <<c.action, c.arg>> = <<call.action, call.arg>>
            /\ c.nonce = i - 1
            /\ call.at <= a.valid_until

LEMMA CallsStep ==
    ASSUME Shape, CallsWereSigned, [Next]_vars
    PROVE  CallsWereSigned'
<1>1. /\ owner_nonce = Len(executed)
      /\ \A i \in DOMAIN executed : SignedFor(executed[i], i, signed)
  BY DEF CallsWereSigned, SignedFor
<1>2. ASSUME NEW action, NEW arg, Called(action, arg) PROVE CallsWereSigned'
  <2> DEFINE call == [action |-> action, arg |-> arg, at |-> now]
             n == Len(executed) + 1
  <2>1. call \in Call
    BY <1>2 DEF Called, Call, Shape, TypeOK
  <2>2. executed' = Append(executed, call) /\ signed' = signed /\ owner_nonce' = owner_nonce + 1
    BY <1>2 DEF Called
  <2>3. /\ Len(executed) \in Nat /\ DOMAIN executed = 1..Len(executed)
        /\ Len(executed') = n /\ DOMAIN executed' = 1..n
        /\ \A i \in DOMAIN executed : executed'[i] = executed[i]
        /\ executed'[n] = call
    BY <2>1, <2>2, OneMore DEF Shape
  <2>4. SignedFor(call, n, signed)
    <3>1. PICK proof \in signed :
            /\ proof.user_verified /\ now <= proof.valid_until
            /\ proof.challenge = challenge(action, arg, owner_nonce, proof.valid_until)
      BY <1>2 DEF Called
    <3>2. n - 1 = owner_nonce
      BY <1>1, <2>3
    <3>3. /\ proof.challenge.action = call.action /\ proof.challenge.arg = call.arg
          /\ proof.challenge.nonce = n - 1 /\ call.at = now
      BY <3>1, <3>2 DEF challenge
    <3>4. QED
      BY <3>1, <3>3 DEF SignedFor
  <2>5. \A i \in DOMAIN executed' : SignedFor(executed'[i], i, signed')
    <3> HIDE DEF call
    <3>1. QED
      BY <1>1, <2>2, <2>3, <2>4
  <2>6. owner_nonce' = Len(executed')
    BY <1>1, <2>2, <2>3
  <2>7. QED
    BY <2>5, <2>6 DEF CallsWereSigned, SignedFor
<1>3. CASE UNCHANGED <<owner_nonce, executed>> /\ signed \subseteq signed'
  BY <1>3 DEF CallsWereSigned
<1>4. QED
  BY <1>2, <1>3, Steps DEF Paid, Other, Unmoved, Shape, TypeOK

(* An assertion authorizes exactly one call, the one it was made for       *)
(* (owner.rs, authorize).                                                  *)
THEOREM EveryCallSigned == Spec => []CallsWereSigned
<1>1. Init => CallsWereSigned
  BY DEF Init, CallsWereSigned
<1>2. QED
  BY <1>1, CallsStep, Shaped, PTL DEF Spec

(* Whatever a transaction looks like, its payment's terms are signed by    *)
(* the merchant (introspection.rs, verified_by_precompile).                *)
THEOREM EveryPaymentSigned == Spec => []PaymentsWereSigned
<1>1. Init => PaymentsWereSigned
  BY DEF Init, PaymentsWereSigned
<1>2. Shape /\ PaymentsWereSigned /\ [Next]_vars => PaymentsWereSigned'
  <2> SUFFICES ASSUME Shape, PaymentsWereSigned, [Next]_vars PROVE PaymentsWereSigned'
    OBVIOUS
  <2>1. ASSUME NEW c \in Challenges, Paid(c) PROVE PaymentsWereSigned'
    <3>1. [challenge |-> c, at |-> now] \in Payment
      BY <2>1 DEF Paid, Payment, Shape, TypeOK
    <3>2. payments' = Append(payments, [challenge |-> c, at |-> now])
      BY <2>1 DEF Paid
    <3>3. /\ DOMAIN payments' = 1..(Len(payments) + 1)
          /\ DOMAIN payments = 1..Len(payments) /\ Len(payments) \in Nat
          /\ \A i \in DOMAIN payments : payments'[i] = payments[i]
          /\ payments'[Len(payments) + 1] = [challenge |-> c, at |-> now]
      BY <3>1, <3>2, OneMore DEF Shape
    <3>4. ASSUME NEW i \in DOMAIN payments' PROVE payments'[i].challenge \in Challenges
      BY <3>3 DEF PaymentsWereSigned
    <3>5. QED
      BY <3>4 DEF PaymentsWereSigned
  <2>2. CASE UNCHANGED payments
    BY <2>2 DEF PaymentsWereSigned
  <2>3. QED
    BY <2>1, <2>2, Steps DEF Called, Other, Unmoved, Shape, TypeOK
<1>3. QED
  BY <1>1, <1>2, Shaped, PTL DEF Spec

-----------------------------------------------------------------------------
(* The merchants the owner wants: those whose last decision is to add them.*)
Decisions(m, calls) == {i \in DOMAIN calls :
    calls[i].arg = m /\ calls[i].action \in {"add_merchant", "remove_merchant"}}

LastAdded(m, calls) ==
    \E i \in Decisions(m, calls) : /\ \A j \in Decisions(m, calls) : j <= i
                                   /\ calls[i].action = "add_merchant"

(* A call more changes what is wanted of its own merchant only.            *)
LEMMA LastAddedStep ==
    ASSUME NEW calls \in Seq(Call), NEW call \in Call, NEW m
    PROVE  LastAdded(m, Append(calls, call)) <=>
               IF call.arg = m /\ call.action \in {"add_merchant", "remove_merchant"}
               THEN call.action = "add_merchant"
               ELSE LastAdded(m, calls)
<1> DEFINE more == Append(calls, call)
           n == Len(calls) + 1
<1>1. /\ Len(calls) \in Nat /\ DOMAIN calls = 1..Len(calls)
      /\ DOMAIN more = 1..n
      /\ \A i \in DOMAIN calls : more[i] = calls[i]
      /\ more[n] = call
  BY OneMore
<1> HIDE DEF more
<1>2. CASE call.arg = m /\ call.action \in {"add_merchant", "remove_merchant"}
  <2>1. n \in Decisions(m, more) /\ \A j \in Decisions(m, more) : j <= n
    BY <1>1, <1>2 DEF Decisions
  <2>2. \A i \in Decisions(m, more) : (\A j \in Decisions(m, more) : j <= i) => i = n
    BY <1>1, <2>1 DEF Decisions
  <2>3. LastAdded(m, more) <=> call.action = "add_merchant"
    BY <1>1, <2>1, <2>2 DEF LastAdded
  <2>4. QED
    BY <1>2, <2>3 DEF more
<1>3. CASE ~(call.arg = m /\ call.action \in {"add_merchant", "remove_merchant"})
  <2>1. \A i \in DOMAIN more : i \in Decisions(m, more) <=> i \in Decisions(m, calls)
    BY <1>1, <1>3 DEF Decisions
  <2>2. Decisions(m, more) \subseteq DOMAIN more /\ Decisions(m, calls) \subseteq DOMAIN more
    BY <1>1 DEF Decisions
  <2>3. Decisions(m, more) = Decisions(m, calls)
    BY <2>1, <2>2
  <2>4. \A i \in Decisions(m, calls) : more[i] = calls[i]
    BY <1>1 DEF Decisions
  <2>5. LastAdded(m, more) <=> LastAdded(m, calls)
    BY <2>3, <2>4 DEF LastAdded
  <2>6. QED
    BY <1>3, <2>5 DEF more
<1>4. QED
  BY <1>2, <1>3

(* A list as a set: what an append adds and a swap removes.                *)
Once(list) == \A i, j \in DOMAIN list : list[i] = list[j] => i = j

LEMMA AppendedOnce ==
    ASSUME NEW list \in Seq(Merchants), NEW m \in Merchants, Once(list), m \notin Range(list)
    PROVE  /\ Once(Append(list, m))
           /\ Range(Append(list, m)) = Range(list) \cup {m}
<1> DEFINE more == Append(list, m)
           n == Len(list) + 1
<1>1. /\ Len(list) \in Nat /\ DOMAIN list = 1..Len(list)
      /\ DOMAIN more = 1..n
      /\ \A i \in DOMAIN list : more[i] = list[i]
      /\ more[n] = m
  BY OneMore
<1> HIDE DEF more
<1>2. \A i \in DOMAIN list : list[i] # m
  BY DEF Range
<1>3. Once(more)
  <2>1. ASSUME NEW i \in 1..n, NEW j \in 1..n, more[i] = more[j] PROVE i = j
    <3>1. CASE i = n /\ j = n
      BY <3>1
    <3>2. CASE i = n /\ j # n
      BY <1>1, <1>2, <2>1, <3>2
    <3>3. CASE i # n /\ j = n
      BY <1>1, <1>2, <2>1, <3>3
    <3>4. CASE i # n /\ j # n
      <4>1. i \in DOMAIN list /\ j \in DOMAIN list
        BY <1>1, <3>4
      <4>2. QED
        BY <1>1, <2>1, <4>1 DEF Once
    <3>5. QED
      BY <3>1, <3>2, <3>3, <3>4
  <2>2. QED
    BY <1>1, <2>1 DEF Once
<1>4. Range(more) = Range(list) \cup {m}
  <2>1. ASSUME NEW x \in Range(more) PROVE x \in Range(list) \cup {m}
    BY <1>1 DEF Range
  <2>2. ASSUME NEW x \in Range(list) PROVE x \in Range(more)
    BY <1>1 DEF Range
  <2>3. m \in Range(more)
    BY <1>1 DEF Range
  <2>4. QED
    BY <2>1, <2>2, <2>3
<1>5. QED
  BY <1>3, <1>4 DEF more

LEMMA RemovedOnce ==
    ASSUME NEW list \in Seq(Merchants), Once(list), NEW k \in DOMAIN list
    PROVE  /\ Once(swap_removed(list, k))
           /\ Range(swap_removed(list, k)) = Range(list) \ {list[k]}
<1> DEFINE less == swap_removed(list, k)
           n == Len(list)
<1>1. /\ DOMAIN list = 1..n /\ n \in Nat /\ DOMAIN less = 1..(n - 1)
      /\ \A i \in 1..(n - 1) : less[i] = IF i = k THEN list[n] ELSE list[i]
  BY SwapRemoved
<1> HIDE DEF less
<1>2. \A i \in 1..(n - 1) : less[i] = list[IF i = k THEN n ELSE i]
  BY <1>1
<1>3. Once(less)
  <2>1. ASSUME NEW i \in 1..(n - 1), NEW j \in 1..(n - 1), less[i] = less[j] PROVE i = j
    <3>1. /\ (IF i = k THEN n ELSE i) \in DOMAIN list
          /\ (IF j = k THEN n ELSE j) \in DOMAIN list
      BY <1>1
    <3>2. (IF i = k THEN n ELSE i) = (IF j = k THEN n ELSE j)
      BY <1>2, <2>1, <3>1 DEF Once
    <3>3. QED
      BY <1>1, <3>2
  <2>2. QED
    BY <1>1, <2>1 DEF Once
<1>4. ASSUME NEW i \in 1..(n - 1) PROVE less[i] \in Range(list) \ {list[k]}
  <2>1. (IF i = k THEN n ELSE i) \in DOMAIN list /\ (IF i = k THEN n ELSE i) # k
    BY <1>1
  <2>2. QED
    BY <1>2, <2>1 DEF Once, Range
<1>5. ASSUME NEW i \in DOMAIN list, list[i] # list[k] PROVE list[i] \in Range(less)
  <2>1. CASE i = n
    <3>1. k \in 1..(n - 1) /\ less[k] = list[n]
      BY <1>1, <1>5, <2>1
    <3>2. QED
      BY <1>1, <2>1, <3>1 DEF Range
  <2>2. CASE i # n
    <3>1. i \in 1..(n - 1) /\ less[i] = list[i]
      BY <1>1, <1>5, <2>2
    <3>2. QED
      BY <1>1, <3>1 DEF Range
  <2>3. QED
    BY <2>1, <2>2
<1>6. Range(less) = Range(list) \ {list[k]}
  <2>1. \A x \in Range(less) : \E i \in 1..(n - 1) : x = less[i]
    BY <1>1 DEF Range
  <2>2. \A x \in Range(list) : \E i \in DOMAIN list : x = list[i]
    BY DEF Range
  <2>3. QED
    BY <1>4, <1>5, <2>1, <2>2
<1>7. QED
  BY <1>3, <1>6 DEF less

(* The list holds each merchant once, and exactly those wanted.            *)
Wanted == Once(merchants) /\ \A m \in Merchants : m \in Range(merchants) <=> LastAdded(m, executed)

LEMMA WantedStep ==
    ASSUME Shape, Wanted, [Next]_vars
    PROVE  Wanted'
<1>1. ASSUME NEW action, NEW arg, Called(action, arg), Effect(action, arg) PROVE Wanted'
  <2> DEFINE call == [action |-> action, arg |-> arg, at |-> now]
             decided == action \in {"add_merchant", "remove_merchant"}
  <2>1. call \in Call /\ executed \in Seq(Call) /\ merchants \in Seq(Merchants)
    BY <1>1 DEF Called, Call, Shape, TypeOK
  <2>2. executed' = Append(executed, call)
    BY <1>1 DEF Called
  <2>3. ASSUME NEW m
        PROVE  LastAdded(m, executed') <=>
                  IF arg = m /\ decided THEN action = "add_merchant"
                  ELSE LastAdded(m, executed)
    <3>1. call.arg = arg /\ call.action = action
      OBVIOUS
    <3> HIDE DEF call
    <3>2. QED
      BY <2>1, <2>2, <3>1, LastAddedStep
  <2>4. CASE ~decided
    <3>1. UNCHANGED merchants
      BY <1>1, <2>4 DEF Called
    <3>2. QED
      BY <2>3, <2>4, <3>1 DEF Wanted
  <2>5. CASE action = "add_merchant"
    <3>1. arg \in Merchants
          /\ \/ arg \in Range(merchants) /\ UNCHANGED merchants
             \/ arg \notin Range(merchants) /\ merchants' = Append(merchants, arg)
      BY <1>1, <2>5 DEF Effect
    <3>2. Once(merchants') /\ Range(merchants') = Range(merchants) \cup {arg}
      BY <2>1, <3>1, AppendedOnce DEF Wanted
    <3>3. QED
      BY <2>3, <2>5, <3>2 DEF Wanted
  <2>6. CASE action = "remove_merchant"
    <3>1. \/ arg \notin Range(merchants) /\ UNCHANGED merchants
          \/ \E k \in DOMAIN merchants :
                merchants[k] = arg /\ merchants' = swap_removed(merchants, k)
      BY <1>1, <2>6 DEF Effect
    <3>2. Once(merchants') /\ Range(merchants') = Range(merchants) \ {arg}
      BY <2>1, <3>1, RemovedOnce DEF Wanted
    <3>3. QED
      BY <2>3, <2>6, <3>2 DEF Wanted
  <2>7. QED
    BY <2>4, <2>5, <2>6
<1>2. CASE UNCHANGED <<merchants, executed>>
  BY <1>2 DEF Wanted
<1>3. QED
  BY <1>1, <1>2, Steps DEF Paid, Other, Unmoved, Shape, TypeOK

(* The fixed array of merchants, with its swaps and its limit, is the set  *)
(* the owner decided on (state.rs, add_merchant and remove_merchant).      *)
THEOREM ListIsTheOwners == Spec => []MerchantsAreTheOwners
<1>1. Init => Wanted
  BY DEF Init, Wanted, Once, Range, LastAdded, Decisions
<1>2. Wanted => MerchantsAreTheOwners
  BY DEF Wanted, Once, MerchantsAreTheOwners, LastAdded, Decisions, decisions, IsInjective
<1>3. QED
  BY <1>1, <1>2, WantedStep, Shaped, PTL DEF Spec

-----------------------------------------------------------------------------
(* The books: what the payments to others than the vault add up to.        *)
leaving == {i \in DOMAIN payments : payments[i].challenge.recipient # This}

Books == funded = vault + recovered + PaidTotal(payments, leaving)

LEMMA Leaving ==
    ASSUME Shape
    PROVE  /\ IsFiniteSet(DOMAIN payments) /\ DOMAIN payments \subseteq Int
           /\ IsFiniteSet(leaving) /\ leaving \subseteq DOMAIN payments
           /\ PaidTotal(payments, leaving) \in Int
           /\ \A i \in leaving : payments[i].challenge.amount \in Int
<1>1. DOMAIN payments = 1..Len(payments) /\ Len(payments) \in Nat
  BY LenProperties DEF Shape
<1>2. IsFiniteSet(1..Len(payments))
  BY <1>1, FS_Interval
<1>3. leaving \subseteq DOMAIN payments
  BY DEF leaving
<1>4. IsFiniteSet(leaving)
  BY <1>1, <1>2, <1>3, FS_Subset
<1>5. \A i \in leaving : payments[i].challenge.amount \in Int
  BY <1>3, PaymentType
<1>6. PaidTotal(payments, leaving) \in Int
  BY <1>4, <1>5, PaidTotalSame
<1>7. QED
  BY <1>1, <1>2, <1>3, <1>4, <1>5, <1>6

(* One payment more: the others stay, the new one is what was paid now.    *)
LEMMA PaymentAppended ==
    ASSUME Shape, NEW c \in Challenges, Paid(c)
    PROVE  /\ payments' = Append(payments, [challenge |-> c, at |-> now])
           /\ Len(payments) \in Nat
           /\ DOMAIN payments = 1..Len(payments)
           /\ DOMAIN payments' = 1..(Len(payments) + 1)
           /\ Len(payments') = Len(payments) + 1
           /\ \A i \in DOMAIN payments : payments'[i] = payments[i]
           /\ payments'[Len(payments) + 1] = [challenge |-> c, at |-> now]
           /\ now \in Nat /\ c.amount \in Nat /\ c.expiry \in Nat
<1>1. c \in Terms /\ payments' = Append(payments, [challenge |-> c, at |-> now])
  BY DEF Paid
<1>2. now \in Nat /\ [challenge |-> c, at |-> now] \in Payment
  BY <1>1 DEF Payment, Shape, TypeOK
<1>3. QED
  BY <1>1, <1>2, OneMore, TermsType DEF Shape

LEMMA PaymentMore ==
    ASSUME Shape, NEW c \in Challenges, Paid(c), NEW n, n = Len(payments) + 1
    PROVE  /\ DOMAIN payments' = DOMAIN payments \cup {n}
           /\ n \notin DOMAIN payments
           /\ \A i \in DOMAIN payments : payments'[i] = payments[i]
           /\ payments'[n].challenge = c /\ payments'[n].at = now
           /\ c.amount \in Nat /\ c.expiry \in Nat
<1>1. /\ Len(payments) \in Nat
      /\ DOMAIN payments = 1..Len(payments)
      /\ DOMAIN payments' = 1..(Len(payments) + 1)
      /\ \A i \in DOMAIN payments : payments'[i] = payments[i]
      /\ payments'[n] = [challenge |-> c, at |-> now]
      /\ c.amount \in Nat /\ c.expiry \in Nat
  BY PaymentAppended
<1>2. DOMAIN payments' = DOMAIN payments \cup {n} /\ n \notin DOMAIN payments
  BY <1>1
<1>3. QED
  BY <1>1, <1>2

LEMMA BooksStep ==
    ASSUME Shape, Books, [Next]_vars
    PROVE  Books'
<1> DEFINE paid == PaidTotal(payments, leaving)
<1>1. /\ vault \in Nat /\ funded \in Nat /\ recovered \in Nat /\ paid \in Int
      /\ funded = vault + recovered + paid
  BY Leaving DEF Shape, TypeOK, Books
<1>2. ASSUME NEW c \in Challenges, Paid(c) PROVE Books'
  <2>1. /\ vault' = IF c.recipient = This THEN vault ELSE vault - c.amount
        /\ UNCHANGED <<funded, recovered>>
        /\ c.amount \in Nat
    BY <1>2, PaymentAppended DEF Paid
  <2>2. /\ IsFiniteSet(leaving) /\ leaving \subseteq DOMAIN payments
        /\ \A i \in leaving : payments[i].challenge.amount \in Int
    BY Leaving
  <2> SUFFICES ASSUME NEW n, n = Len(payments) + 1 PROVE Books'
    OBVIOUS
  <2>3. /\ DOMAIN payments' = DOMAIN payments \cup {n} /\ n \notin DOMAIN payments
        /\ \A i \in DOMAIN payments : payments'[i] = payments[i]
        /\ payments'[n].challenge = c
    BY <1>2, PaymentMore
  <2>4. PaidTotal(payments', leaving) = paid
    BY <2>2, <2>3, PaidTotalSame
  <2>5. leaving' = leaving \cup (IF c.recipient = This THEN {} ELSE {n})
    <3>1. ASSUME NEW i \in DOMAIN payments PROVE i \in leaving' <=> i \in leaving
      BY <2>3 DEF leaving
    <3>2. n \in leaving' <=> c.recipient # This
      BY <2>3 DEF leaving
    <3>3. leaving' \subseteq DOMAIN payments \cup {n}
      BY <2>3 DEF leaving
    <3>4. QED
      BY <2>2, <3>1, <3>2, <3>3
  <2>6. CASE c.recipient = This
    <3>1. leaving' = leaving
      BY <2>5, <2>6
    <3>2. QED
      BY <1>1, <2>1, <2>4, <2>6, <3>1 DEF Books
  <2>7. CASE c.recipient # This
    <3>1. leaving' = leaving \cup {n} /\ n \notin leaving
      BY <2>2, <2>3, <2>5, <2>7
    <3>2. /\ \A i \in leaving : payments'[i].challenge.amount \in Int
          /\ payments'[n].challenge.amount = c.amount
      BY <2>2, <2>3
    <3>3. PaidTotal(payments', leaving \cup {n})
              = PaidTotal(payments', leaving) + c.amount
      BY <2>1, <2>2, <3>1, <3>2, PaidTotalAdds
    <3>4. QED
      BY <1>1, <2>1, <2>4, <2>7, <3>1, <3>3 DEF Books
  <2>8. QED
    BY <2>6, <2>7
<1>3. CASE UNCHANGED payments /\ funded' = vault' + recovered' + paid
  <2>1. leaving' = leaving
    BY <1>3 DEF leaving
  <2>2. QED
    BY <1>3, <2>1 DEF Books
<1>4. ASSUME NEW action, NEW arg, Called(action, arg), Effect(action, arg) PROVE Books'
  <2>1. UNCHANGED <<payments, funded>>
    BY <1>4 DEF Called
  <2>2. vault' + recovered' = vault + recovered
    BY <1>1, <1>4 DEF Effect, money
  <2>3. vault' \in Nat /\ recovered' \in Nat
    BY <1>1, <1>4 DEF Effect, money
  <2> HIDE DEF paid
  <2>4. funded' = vault' + recovered' + paid
    BY <1>1, <2>1, <2>2, <2>3
  <2>5. QED
    BY <1>3, <2>1, <2>4
<1>5. CASE Other
  <2>1. UNCHANGED <<payments, recovered>>
    BY <1>5 DEF Other, Unmoved
  <2>2. \/ UNCHANGED <<vault, funded>>
        \/ \E amount \in Nat : vault' = vault + amount /\ funded' = funded + amount
    BY <1>5, SolanaAssumption DEF Other
  <2> HIDE DEF paid
  <2>3. funded' = vault' + recovered' + paid
    BY <1>1, <2>1, <2>2
  <2>4. QED
    BY <1>3, <2>1, <2>3
<1>6. QED
  BY <1>2, <1>4, <1>5, Steps DEF Shape, TypeOK

(* Whoever pays whom, the vault itself included, the vault holds what it   *)
(* was sent less recoveries and recorded payments (lib.rs, pay).           *)
THEOREM BooksBalance == Spec => []FundsAccountedFor
<1>1. Init => Books
  <2> SUFFICES ASSUME Init PROVE Books
    OBVIOUS
  <2>1. leaving = {} /\ IsFiniteSet({})
    BY FS_EmptySet DEF Init, leaving
  <2>2. PaidTotal(payments, {}) = 0
    <3> DEFINE w == [i \in {} |-> 0]
    <3>1. PaidTotal(payments, {}) = Total(w, {}) /\ Total(w, {}) = 0
      BY <2>1, PaidTotalIs, TotalOf
    <3>2. QED
      BY <3>1
  <2>3. funded = 0 /\ vault = 0 /\ recovered = 0
    BY DEF Init
  <2>4. QED
    BY <2>1, <2>2, <2>3 DEF Books
<1>2. Books => FundsAccountedFor
  BY DEF Books, FundsAccountedFor, PaidTotal, leaving
<1>3. QED
  BY <1>1, <1>2, BooksStep, Shaped, PTL DEF Spec

-----------------------------------------------------------------------------
(* The mandate: as for the Soroban account, limits only tighten, so a slot *)
(* is not reused while its payment counts under those of creation.         *)
LimitsOnlyTighten == only_reduces(creation_limits, limits)

PaymentsWereLive == \A i \in DOMAIN payments :
    /\ payments[i].at <= now
    /\ payments[i].challenge.amount > 0
    /\ payments[i].at <= payments[i].challenge.expiry
    /\ payments[i].challenge.expiry - payments[i].at <= MAX_CHALLENGE_LIFETIME

(* The slot list has the payment.                                          *)
held(i) == \E k \in DOMAIN slots :
    /\ is_used(slots[k])
    /\ slots[k].nonce = payments[i].challenge.nonce
    /\ slots[k].amount = payments[i].challenge.amount
    /\ slots[k].timestamp = payments[i].at

recent == {j \in DOMAIN payments : now - payments[j].at < creation_limits.window_size}

RecentPaymentsHeld == \A i \in recent : held(i)

NoncesDifferInWindow == \A i, j \in recent :
    payments[i].challenge.nonce = payments[j].challenge.nonce => i = j

Remembers ==
    LimitsOnlyTighten /\ PaymentsWereLive /\ RecentPaymentsHeld /\ NoncesDifferInWindow

LEMMA RememberedStep ==
    ASSUME Shape, Remembers, [Next]_vars
    PROVE  Remembers'
<1>1. /\ now \in Nat /\ \A i \in DOMAIN payments : payments[i].at \in Nat
      /\ limits.window_size \in Nat /\ creation_limits.window_size \in Nat
      /\ creation_limits.window_size <= limits.window_size
  BY PaymentType, LimitsType DEF Shape, TypeOK, Remembers, LimitsOnlyTighten, only_reduces
<1>2. ASSUME NEW c \in Challenges, Paid(c) PROVE Remembers'
  <2> SUFFICES ASSUME NEW n, n = Len(payments) + 1 PROVE Remembers'
    OBVIOUS
  <2>1. /\ DOMAIN payments' = DOMAIN payments \cup {n} /\ n \notin DOMAIN payments
        /\ \A i \in DOMAIN payments : payments'[i] = payments[i]
        /\ payments'[n].challenge = c /\ payments'[n].at = now
        /\ c.amount \in Nat /\ c.expiry \in Nat
    BY <1>2, PaymentMore
  <2>2. /\ UNCHANGED <<now, limits, creation_limits>>
        /\ c.amount > 0 /\ now <= c.expiry /\ c.expiry - now <= MAX_CHALLENGE_LIFETIME
        /\ \A k \in DOMAIN slots : is_used(slots[k]) => slots[k].nonce # c.nonce
    BY <1>2 DEF Paid, config
  <2>3. PICK s \in DOMAIN slots, filled \in BOOLEAN :
          /\ ~counts(slots[s], limits, now)
          /\ slots' = [slots EXCEPT ![s] =
                 [timestamp |-> now, amount |-> c.amount, nonce |-> c.nonce,
                  challenge_hash |-> c, froze_account |-> filled]]
    BY <1>2 DEF Paid
  <2>4. LimitsOnlyTighten'
    BY <2>2 DEF Remembers, LimitsOnlyTighten
  <2>5. PaymentsWereLive'
    BY <1>1, <2>1, <2>2 DEF Remembers, PaymentsWereLive
  <2>6. /\ \A i \in recent' : i = n \/ i \in recent
        /\ recent \subseteq DOMAIN payments
    BY <2>1, <2>2 DEF recent
  <2>7. held(n)'
    <3>1. slots'[s] = [timestamp |-> now, amount |-> c.amount, nonce |-> c.nonce,
                       challenge_hash |-> c, froze_account |-> filled] /\ s \in DOMAIN slots'
      BY <2>3
    <3>2. QED
      BY <2>1, <2>2, <3>1 DEF held, is_used
  <2>8. ASSUME NEW i \in recent PROVE held(i)'
    <3>1. i \in DOMAIN payments /\ payments'[i] = payments[i] /\ held(i)
      BY <2>1 DEF recent, Remembers, RecentPaymentsHeld
    <3>2. PICK k \in DOMAIN slots :
            /\ is_used(slots[k])
            /\ slots[k].nonce = payments[i].challenge.nonce
            /\ slots[k].amount = payments[i].challenge.amount
            /\ slots[k].timestamp = payments[i].at
      BY <3>1 DEF held
    <3>3. now - payments[i].at < limits.window_size
      BY <1>1, <3>1 DEF recent
    <3>4. k # s
      BY <2>3, <3>2, <3>3 DEF counts
    <3>5. slots'[k] = slots[k] /\ k \in DOMAIN slots'
      BY <2>3, <3>4
    <3>6. QED
      BY <3>1, <3>2, <3>5 DEF held
  <2>9. RecentPaymentsHeld'
    BY <2>6, <2>7, <2>8 DEF RecentPaymentsHeld
  <2>10. ASSUME NEW i \in recent
         PROVE  /\ payments'[i].challenge.nonce # c.nonce
                /\ payments'[i] = payments[i]
    <3>1. payments'[i] = payments[i] /\ held(i)
      BY <2>1 DEF recent, Remembers, RecentPaymentsHeld
    <3>2. QED
      BY <2>2, <3>1 DEF held
  <2>11. NoncesDifferInWindow'
    <3> SUFFICES ASSUME NEW i \in recent', NEW j \in recent',
                        payments'[i].challenge.nonce = payments'[j].challenge.nonce
                 PROVE  i = j
      BY DEF NoncesDifferInWindow
    <3>1. CASE i \in recent /\ j \in recent
      BY <2>10, <3>1 DEF Remembers, NoncesDifferInWindow
    <3>2. QED
      BY <2>1, <2>6, <2>10, <3>1
  <2>12. QED
    BY <2>4, <2>5, <2>9, <2>11 DEF Remembers
<1>3. ASSUME UNCHANGED <<slots, payments, creation_limits>>, now' \in Nat, now <= now'
      PROVE  (PaymentsWereLive /\ RecentPaymentsHeld /\ NoncesDifferInWindow)'
  <2>1. PaymentsWereLive'
    BY <1>1, <1>3 DEF Remembers, PaymentsWereLive
  <2>2. recent' \subseteq recent
    BY <1>1, <1>3 DEF recent
  <2>3. \A i : held(i)' <=> held(i)
    BY <1>3 DEF held, is_used
  <2>4. RecentPaymentsHeld'
    BY <2>2, <2>3 DEF Remembers, RecentPaymentsHeld
  <2>5. NoncesDifferInWindow'
    BY <1>3, <2>2 DEF Remembers, NoncesDifferInWindow
  <2>6. QED
    BY <2>1, <2>4, <2>5
<1>4. ASSUME NEW action, NEW arg, Called(action, arg), Effect(action, arg) PROVE Remembers'
  <2>1. UNCHANGED <<slots, payments, creation_limits>> /\ now' = now
    BY <1>4 DEF Called
  <2>2. LimitsOnlyTighten'
    <3>1. CASE UNCHANGED limits
      BY <2>1, <3>1 DEF Remembers, LimitsOnlyTighten
    <3>2. CASE arg \in Configs /\ only_reduces(limits, arg) /\ limits' = arg
      <4>1. /\ arg \in VelocityConfig /\ limits \in VelocityConfig
            /\ creation_limits \in VelocityConfig
        BY <3>2, SolanaAssumption DEF Shape, TypeOK
      <4>2. QED
        BY <2>1, <3>2, <4>1 DEF Remembers, LimitsOnlyTighten, only_reduces, VelocityConfig
    <3>3. QED
      BY <1>4, <3>1, <3>2 DEF Called, Effect
  <2>3. QED
    BY <1>1, <1>3, <2>1, <2>2 DEF Remembers
<1>5. CASE Other
  <2>1. UNCHANGED <<slots, payments, creation_limits, limits>> /\ now' \in Nat /\ now <= now'
    BY <1>1, <1>5 DEF Other, Unmoved
  <2>2. LimitsOnlyTighten'
    BY <2>1 DEF Remembers, LimitsOnlyTighten
  <2>3. QED
    BY <1>3, <2>1, <2>2 DEF Remembers
<1>6. QED
  BY <1>1, <1>2, <1>4, <1>5, Steps

LEMMA Remembered == Spec => []Remembers
<1>1. Init => Remembers
  <2> SUFFICES ASSUME Init PROVE Remembers
    OBVIOUS
  <2>1. limits \in VelocityConfig /\ creation_limits = limits /\ DOMAIN payments = {}
    BY SolanaAssumption DEF Init
  <2>2. LimitsOnlyTighten
    BY <2>1 DEF LimitsOnlyTighten, only_reduces, VelocityConfig
  <2>3. QED
    BY <2>1, <2>2 DEF Remembers, PaymentsWereLive, RecentPaymentsHeld, NoncesDifferInWindow,
       recent
<1>2. QED
  BY <1>1, RememberedStep, Shaped, PTL DEF Spec

(* What counts under the limits of creation is within what the window says.*)
LEMMA RecentWithin ==
    ASSUME Shape, Remembers
    PROVE  /\ IsFiniteSet(recent) /\ recent \subseteq DOMAIN payments
           /\ Cardinality(recent) \in Nat /\ PaidTotal(payments, recent) \in Int
           /\ summarize(slots, limits, now).tx_count \in Nat
           /\ summarize(slots, limits, now).total_amount \in Int
           /\ Cardinality(recent) <= summarize(slots, limits, now).tx_count
           /\ PaidTotal(payments, recent) <= summarize(slots, limits, now).total_amount
<1>1. IsFiniteSet(DOMAIN slots)
  <2>1. DOMAIN slots = 1..MAX_TRACKED_PAYMENTS /\ MAX_TRACKED_PAYMENTS \in Nat
    BY TrackedAssumption DEF Shape, TypeOK
  <2>2. IsFiniteSet(1..MAX_TRACKED_PAYMENTS)
    BY <2>1, FS_Interval
  <2>3. QED
    BY <2>1, <2>2
<1>2. IsFiniteSet(recent) /\ recent \subseteq DOMAIN payments
  <2>1. recent \subseteq DOMAIN payments
    BY DEF recent
  <2>2. QED
    BY <2>1, Leaving, FS_Subset
<1>3. \A k \in DOMAIN slots : slots[k].amount \in Int
  BY SlotType DEF Shape
<1>4. \A j \in recent : payments[j].challenge.amount \in Int
  BY <1>2, PaymentType
<1>5. ASSUME NEW j \in recent
      PROVE  \E k \in DOMAIN slots :
                /\ counts(slots[k], limits, now)
                /\ slots[k].nonce = payments[j].challenge.nonce
                /\ slots[k].amount = payments[j].challenge.amount
  <2>1. held(j) /\ now - payments[j].at < creation_limits.window_size
    BY DEF recent, Remembers, RecentPaymentsHeld
  <2>2. /\ now \in Nat /\ payments[j].at \in Nat /\ creation_limits.window_size \in Nat
        /\ limits.window_size \in Nat /\ creation_limits.window_size <= limits.window_size
    BY <1>2, PaymentType, LimitsType DEF Shape, TypeOK, Remembers, LimitsOnlyTighten,
       only_reduces
  <2>3. now - payments[j].at < limits.window_size
    BY <2>1, <2>2
  <2>4. QED
    BY <2>1, <2>3 DEF held, counts
<1>6. \A i, j \in recent : payments[i].challenge.nonce = payments[j].challenge.nonce => i = j
  BY DEF Remembers, NoncesDifferInWindow
<1>7. /\ summarize(slots, limits, now).tx_count \in Nat
      /\ summarize(slots, limits, now).total_amount \in Int
      /\ Cardinality(recent) <= summarize(slots, limits, now).tx_count
      /\ PaidTotal(payments, recent) <= summarize(slots, limits, now).total_amount
  BY <1>1, <1>2, <1>3, <1>5, <1>6, WindowHeld
<1>8. PaidTotal(payments, recent) \in Int
  BY <1>2, <1>4, PaidTotalSame
<1>9. QED
  BY <1>2, <1>7, <1>8, FS_CardinalityType

LEMMA PayWithin ==
    ASSUME Shape, Remembers, NEW c \in Challenges, Paid(c)
    PROVE  /\ c.amount \in 1..creation_limits.max_payment_amount
           /\ Cardinality(recent) + 1 <= creation_limits.max_tx_count
           /\ PaidTotal(payments, recent) + c.amount <= creation_limits.max_total_amount
           /\ \/ Cardinality(recent) + 1 = creation_limits.max_tx_count
              \/ PaidTotal(payments, recent) + c.amount = creation_limits.max_total_amount
              => frozen' = TRUE
<1> DEFINE n == summarize(slots, limits, now).tx_count
           total == summarize(slots, limits, now).total_amount
           size == Cardinality(recent)
           sum == PaidTotal(payments, recent)
<1>1. /\ n \in Nat /\ total \in Int /\ size \in Nat /\ sum \in Int
      /\ size <= n /\ sum <= total
  BY RecentWithin
<1>2. limits \in VelocityConfig /\ creation_limits \in VelocityConfig /\ c \in Terms
  BY DEF Shape, TypeOK, Paid
<1>3. /\ limits.max_tx_count <= creation_limits.max_tx_count
      /\ limits.max_total_amount <= creation_limits.max_total_amount
      /\ limits.max_payment_amount <= creation_limits.max_payment_amount
  BY DEF Remembers, LimitsOnlyTighten, only_reduces
<1>4. /\ c.amount > 0 /\ c.amount <= limits.max_payment_amount
      /\ n < limits.max_tx_count
      /\ total + c.amount <= limits.max_total_amount
  BY DEF Paid, fits
<1>5. /\ limits.max_tx_count \in Nat /\ creation_limits.max_tx_count \in Nat
      /\ limits.max_total_amount \in Int /\ creation_limits.max_total_amount \in Int
      /\ limits.max_payment_amount \in Int /\ creation_limits.max_payment_amount \in Int
      /\ c.amount \in Int
  BY <1>2, LimitsType, TermsType
<1>6. n + 1 >= limits.max_tx_count \/ total + c.amount >= limits.max_total_amount
      => frozen' = TRUE
  BY DEF Paid, fills
<1> HIDE DEF n, total, size, sum
<1>7. /\ c.amount \in 1..creation_limits.max_payment_amount
      /\ size + 1 <= creation_limits.max_tx_count
      /\ sum + c.amount <= creation_limits.max_total_amount
  BY <1>1, <1>3, <1>4, <1>5
<1>8. ASSUME \/ size + 1 = creation_limits.max_tx_count
             \/ sum + c.amount = creation_limits.max_total_amount
      PROVE  frozen' = TRUE
  BY <1>1, <1>3, <1>4, <1>5, <1>6, <1>8
<1> USE DEF size, sum
<1>9. QED
  BY <1>7, <1>8

(* A window longer than any challenge lives is what keeps a challenge from *)
(* being paid again.                                                       *)
LongWindow == creation_limits.window_size > MAX_CHALLENGE_LIFETIME

LEMMA NotPaidBefore ==
    ASSUME Shape, Remembers, LongWindow, NEW c \in Challenges, Paid(c)
    PROVE  \A i \in DOMAIN payments : payments[i].challenge # c
<1> SUFFICES ASSUME NEW i \in DOMAIN payments, payments[i].challenge = c PROVE FALSE
  OBVIOUS
<1>1. /\ now <= c.expiry
      /\ \A k \in DOMAIN slots : is_used(slots[k]) => slots[k].nonce # c.nonce
  BY DEF Paid
<1>2. c.expiry - payments[i].at <= MAX_CHALLENGE_LIFETIME
  BY DEF Remembers, PaymentsWereLive
<1>3. /\ now \in Nat /\ payments[i].at \in Nat /\ creation_limits.window_size \in Nat
      /\ c.expiry \in Nat
  BY PaymentType, LimitsType DEF Shape, TypeOK
<1>4. i \in recent
  BY <1>1, <1>2, <1>3, LifetimeAssumption DEF LongWindow, recent
<1>5. QED
  BY <1>1, <1>4 DEF Remembers, RecentPaymentsHeld, held

LEMMA PayIsMandated ==
    ASSUME Shape, Shape', Remembers, LongWindow, NEW c \in Challenges, Paid(c)
    PROVE  Mandate!Pay(c)
<1> SUFFICES ASSUME NEW n, n = Len(payments) + 1 PROVE Mandate!Pay(c)
  OBVIOUS
<1> DEFINE s == Append(payments, [challenge |-> c, at |-> now])
<1>1. /\ payments' = s /\ UNCHANGED <<now, creation_limits>>
      /\ c.amount \in Nat /\ now \in Nat /\ creation_limits.window_size \in Nat
  BY PaymentAppended, LimitsType DEF Paid, config, Shape, TypeOK
<1>2. /\ DOMAIN s = DOMAIN payments \cup {n} /\ n \notin DOMAIN payments
      /\ \A i \in DOMAIN payments : s[i] = payments[i]
      /\ s[n].challenge = c /\ s[n].at = now
      /\ Len(s) = n
  <2>1. /\ DOMAIN payments' = DOMAIN payments \cup {n} /\ n \notin DOMAIN payments
        /\ \A i \in DOMAIN payments : payments'[i] = payments[i]
        /\ payments'[n].challenge = c /\ payments'[n].at = now
    BY PaymentMore
  <2>2. Len(payments') = n
    BY PaymentAppended
  <2> HIDE DEF s
  <2>3. QED
    BY <1>1, <2>1, <2>2
<1> HIDE DEF s
<1>3. Mandate!LastWindow(s) = recent \cup {n} /\ n \notin recent
  <2>1. creation_limits.window_size > 0
    BY <1>1, LifetimeAssumption DEF LongWindow
  <2>2. recent \subseteq DOMAIN payments
    BY DEF recent
  <2>3. ASSUME NEW j \in DOMAIN s PROVE j \in Mandate!LastWindow(s) <=> j \in recent \cup {n}
    <3>1. j \in Mandate!LastWindow(s) <=> now - s[j].at < creation_limits.window_size
      BY <1>2 DEF Mandate!LastWindow
    <3>2. CASE j = n
      BY <1>1, <1>2, <2>1, <3>1, <3>2
    <3>3. CASE j # n
      BY <1>2, <3>1, <3>3 DEF recent
    <3>4. QED
      BY <3>2, <3>3
  <2>4. Mandate!LastWindow(s) \subseteq DOMAIN s
    BY DEF Mandate!LastWindow
  <2>5. recent \cup {n} \subseteq DOMAIN s /\ n \notin recent
    BY <1>2, <2>2
  <2>6. QED
    BY <2>3, <2>4, <2>5
<1>4. /\ IsFiniteSet(recent) /\ recent \subseteq DOMAIN payments
      /\ Cardinality(recent) \in Nat
  BY RecentWithin
<1>5. Mandate!LastCount(s) = Cardinality(recent) + 1
  <2>1. Mandate!LastCount(s) = Cardinality(recent \cup {n})
    BY <1>3 DEF Mandate!LastCount, Mandate!Cardinality, Cardinality
  <2>2. QED
    BY <1>3, <1>4, <2>1, FS_AddElement
<1>6. Mandate!LastTotal(s) = PaidTotal(payments, recent) + c.amount
  <2>1. Mandate!LastTotal(s) = PaidTotal(s, recent \cup {n})
    BY <1>3 DEF Mandate!LastTotal, Mandate!MapThenSumSet, Mandate!MapThenFoldSet,
                PaidTotal, MapThenSumSet, MapThenFoldSet
  <2>2. /\ \A i \in recent : payments[i].challenge.amount \in Int
        /\ \A i \in recent : s[i] = payments[i]
    BY <1>2, <1>4, PaymentType
  <2>3. /\ \A i \in recent : s[i].challenge.amount \in Int
        /\ s[n].challenge.amount = c.amount /\ s[n].challenge.amount \in Int
    BY <1>1, <1>2, <2>2
  <2>4. PaidTotal(s, recent \cup {n}) = PaidTotal(s, recent) + s[n].challenge.amount
    BY <1>3, <1>4, <2>3, PaidTotalAdds
  <2>5. PaidTotal(s, recent) = PaidTotal(payments, recent)
    BY <1>4, <2>2, PaidTotalSame
  <2>6. QED
    BY <2>1, <2>3, <2>4, <2>5
<1>7. /\ c.amount \in 1..creation_limits.max_payment_amount
      /\ Cardinality(recent) + 1 <= creation_limits.max_tx_count
      /\ PaidTotal(payments, recent) + c.amount <= creation_limits.max_total_amount
      /\ \/ Cardinality(recent) + 1 = creation_limits.max_tx_count
         \/ PaidTotal(payments, recent) + c.amount = creation_limits.max_total_amount
         => frozen' = TRUE
  BY PayWithin
<1>8. \A i \in DOMAIN payments : payments[i].challenge # c
  BY NotPaidBefore
<1>9. ~frozen /\ now <= c.expiry /\ frozen' \in BOOLEAN
  BY DEF Paid, Shape, TypeOK
<1> USE DEF s
<1>10. QED
  BY <1>1, <1>5, <1>6, <1>7, <1>8, <1>9 DEF Mandate!Pay

(* An account created with a window longer than any challenge lives keeps  *)
(* the mandate it was created with, whatever transactions are submitted    *)
(* (velocity.rs, record, under the checks of lib.rs, pay).                 *)
THEOREM MandateKept == Spec /\ []LongWindow => KeepsMandate
<1>1. Init => Mandate!Init
  BY DEF Init, Mandate!Init
<1>2. Shape /\ Shape' /\ Remembers /\ LongWindow /\ [Next]_vars => [Mandate!Next]_(Mandate!vars)
  <2> SUFFICES ASSUME Shape, Shape', Remembers, LongWindow, [Next]_vars
               PROVE  Mandate!Next \/ UNCHANGED Mandate!vars
    OBVIOUS
  <2>1. ASSUME NEW c \in Challenges, Paid(c) PROVE Mandate!Next
    BY <2>1, PayIsMandated DEF Mandate!Next, Terms
  <2>2. CASE UNCHANGED <<now, creation_limits, payments>>
    <3>1. frozen' \in BOOLEAN
      BY DEF Shape, TypeOK
    <3>2. QED
      BY <2>2, <3>1 DEF Mandate!Next, Mandate!Decide
  <2>3. CASE Tick
    BY <2>3 DEF Tick, config, Mandate!Next, Mandate!Wait
  <2>4. CASE OwnerAction
    BY <2>2, <2>4, OwnerSteps DEF Called
  <2>5. CASE AgentAction
    BY <2>1, <2>5, AgentSteps
  <2>6. QED
    BY <2>2, <2>3, <2>4, <2>5 DEF Next, sign, deposit, vars, config
<1>3. QED
  BY <1>1, <1>2, Shaped, Remembered, PTL DEF Spec, KeepsMandate, Mandate!Spec

-----------------------------------------------------------------------------
(* What the mandate comes to, for every payment there ever was, and with   *)
(* any limits the program accepts.  It pays a challenge again in one case  *)
(* only, as the Soroban account does: the window is exactly as long as the *)
(* challenge lived, and this is the moment it expires.                     *)
PaidAgainOnlyAsItExpires ==
    \A i, j \in DOMAIN payments :
        i < j /\ payments[i].challenge = payments[j].challenge =>
            /\ payments[j].at = payments[j].challenge.expiry
            /\ payments[j].at - payments[i].at = creation_limits.window_size
            /\ creation_limits.window_size = MAX_CHALLENGE_LIFETIME

(* A challenge paid before: its nonce would still be refused were it in the*)
(* window, and it would have expired were it not there for a moment.       *)
LEMMA AgainAtTheEnd ==
    ASSUME Shape, Remembers, NEW c \in Challenges, Paid(c),
           NEW i \in DOMAIN payments, payments[i].challenge = c
    PROVE  /\ now = c.expiry
           /\ now - payments[i].at = creation_limits.window_size
           /\ creation_limits.window_size = MAX_CHALLENGE_LIFETIME
<1>1. /\ now <= c.expiry
      /\ \A k \in DOMAIN slots : is_used(slots[k]) => slots[k].nonce # c.nonce
  BY DEF Paid
<1>2. c.expiry - payments[i].at <= MAX_CHALLENGE_LIFETIME
  BY DEF Remembers, PaymentsWereLive
<1>3. i \notin recent
  BY <1>1 DEF Remembers, RecentPaymentsHeld, held
<1>4. ~(now - payments[i].at < creation_limits.window_size)
  BY <1>3 DEF recent
<1>5. creation_limits.window_size >= MAX_CHALLENGE_LIFETIME
  BY DEF Shape, is_valid
<1>6. /\ now \in Nat /\ payments[i].at \in Nat /\ creation_limits.window_size \in Nat
      /\ c.expiry \in Nat
  BY PaymentType, LimitsType DEF Shape, TypeOK
<1>7. QED
  BY <1>1, <1>2, <1>4, <1>5, <1>6, LifetimeAssumption

LEMMA PaidAgainStep ==
    ASSUME Shape, Remembers, PaidAgainOnlyAsItExpires, [Next]_vars
    PROVE  PaidAgainOnlyAsItExpires'
<1>1. ASSUME NEW c \in Challenges, Paid(c)
      PROVE  PaidAgainOnlyAsItExpires'
  <2>1. PICK n : n = Len(payments) + 1
    OBVIOUS
  <2>2. /\ DOMAIN payments' = DOMAIN payments \cup {n}
        /\ \A i \in DOMAIN payments : payments'[i] = payments[i]
        /\ payments'[n].challenge = c /\ payments'[n].at = now
        /\ \A i \in DOMAIN payments : i \in Int /\ i < n
        /\ n \in Int /\ creation_limits' = creation_limits
    <3>1. DOMAIN payments = 1..Len(payments) /\ Len(payments) \in Nat
      BY LenProperties DEF Shape
    <3>2. QED
      BY <1>1, <2>1, <3>1, PaymentMore DEF Paid, config
  <2> SUFFICES ASSUME NEW i \in DOMAIN payments', NEW j \in DOMAIN payments', i < j,
                      payments'[i].challenge = payments'[j].challenge
               PROVE  /\ payments'[j].at = payments'[j].challenge.expiry
                      /\ payments'[j].at - payments'[i].at = creation_limits.window_size
                      /\ creation_limits.window_size = MAX_CHALLENGE_LIFETIME
    BY <2>2 DEF PaidAgainOnlyAsItExpires
  <2>3. i \in DOMAIN payments /\ payments'[i] = payments[i]
    BY <2>2
  <2>4. CASE j = n
    BY <1>1, <2>2, <2>3, <2>4, AgainAtTheEnd
  <2>5. CASE j \in DOMAIN payments
    BY <2>2, <2>3, <2>5 DEF PaidAgainOnlyAsItExpires
  <2>6. QED
    BY <2>2, <2>4, <2>5
<1>2. CASE UNCHANGED <<payments, creation_limits>>
  BY <1>2 DEF PaidAgainOnlyAsItExpires
<1>3. QED
  BY <1>1, <1>2, Steps DEF Called, Other, Unmoved, Shape, TypeOK

(* The program pays a challenge again only in the moment it expires, and   *)
(* only if its window is the shortest allowed (velocity.rs of the program).*)
THEOREM AgainOnlyAsItExpires == Spec => []PaidAgainOnlyAsItExpires
<1>1. Init => PaidAgainOnlyAsItExpires
  BY DEF Init, PaidAgainOnlyAsItExpires
<1>2. QED
  BY <1>1, PaidAgainStep, Shaped, Remembered, PTL DEF Spec

(* With a longer window it pays each challenge at most once.               *)
THEOREM PaidAtMostOnce ==
    Spec => [](LongWindow => \A i, j \in DOMAIN payments :
                                payments[i].challenge = payments[j].challenge => i = j)
<1>1. Shape /\ PaidAgainOnlyAsItExpires =>
         (LongWindow => \A i, j \in DOMAIN payments :
                           payments[i].challenge = payments[j].challenge => i = j)
  <2> SUFFICES ASSUME Shape, PaidAgainOnlyAsItExpires, LongWindow,
                      NEW i \in DOMAIN payments, NEW j \in DOMAIN payments,
                      payments[i].challenge = payments[j].challenge
               PROVE  i = j
    OBVIOUS
  <2>1. creation_limits.window_size # MAX_CHALLENGE_LIFETIME
    BY LifetimeAssumption, LimitsType DEF LongWindow, Shape, TypeOK
  <2>2. ~(i < j) /\ ~(j < i)
    BY <2>1 DEF PaidAgainOnlyAsItExpires
  <2>3. i \in Int /\ j \in Int
    BY LenProperties DEF Shape
  <2>4. QED
    BY <2>2, <2>3
<1>2. QED
  BY <1>1, AgainOnlyAsItExpires, Shaped, PTL

(* The payments in the window of the creation limits that the i-th ends.   *)
window_ending(i) ==
    {j \in 1..i : payments[i].at - payments[j].at < creation_limits.window_size}

WithinLimits(i) ==
    /\ Cardinality(window_ending(i)) <= creation_limits.max_tx_count
    /\ PaidTotal(payments, window_ending(i)) <= creation_limits.max_total_amount

EveryWindowWithin == \A i \in DOMAIN payments : WithinLimits(i)

LEMMA WindowStep ==
    ASSUME Shape, Remembers, EveryWindowWithin, [Next]_vars
    PROVE  EveryWindowWithin'
<1>1. DOMAIN payments = 1..Len(payments) /\ Len(payments) \in Nat
  BY LenProperties DEF Shape
<1>2. ASSUME NEW c \in Challenges, Paid(c)
      PROVE  EveryWindowWithin'
  <2> SUFFICES ASSUME NEW n, n = Len(payments) + 1 PROVE EveryWindowWithin'
    OBVIOUS
  <2>1. /\ DOMAIN payments' = DOMAIN payments \cup {n} /\ n \notin DOMAIN payments
        /\ \A i \in DOMAIN payments : payments'[i] = payments[i]
        /\ payments'[n].challenge = c /\ payments'[n].at = now
        /\ creation_limits' = creation_limits /\ c.amount \in Nat
    BY <1>2, PaymentMore DEF Paid, config
  <2>2. /\ IsFiniteSet(DOMAIN payments) /\ DOMAIN payments \subseteq Int
        /\ \A i \in DOMAIN payments : 1..i \subseteq DOMAIN payments
    BY <1>1, Leaving
  <2>3. ASSUME NEW i \in DOMAIN payments PROVE WithinLimits(i)'
    <3>1. window_ending(i)' = window_ending(i) /\ window_ending(i) \subseteq DOMAIN payments
      BY <2>1, <2>2 DEF window_ending
    <3>2. IsFiniteSet(window_ending(i))
      BY <2>2, <3>1, FS_Subset
    <3>3. \A j \in window_ending(i) :
             payments[j].challenge.amount \in Int /\ payments'[j] = payments[j]
      BY <2>1, <3>1, PaymentType
    <3>4. PaidTotal(payments', window_ending(i)) = PaidTotal(payments, window_ending(i))
      BY <3>2, <3>3, PaidTotalSame
    <3>5. QED
      BY <2>1, <3>1, <3>4 DEF EveryWindowWithin, WithinLimits
  <2>4. WithinLimits(n)'
    <3>1. /\ IsFiniteSet(recent) /\ recent \subseteq DOMAIN payments
          /\ Cardinality(recent) \in Nat /\ n \notin recent
      BY <2>1, RecentWithin
    <3>2. window_ending(n)' = recent \cup {n}
      <4>1. now \in Nat /\ creation_limits.window_size \in Nat
            /\ creation_limits.window_size > 0
        BY LimitsType, LifetimeAssumption DEF Shape, TypeOK, is_valid
      <4>2. 1..n = DOMAIN payments \cup {n}
        BY <1>1
      <4>3. window_ending(n)' = {j \in 1..n : now - payments'[j].at < creation_limits.window_size}
        BY <2>1 DEF window_ending
      <4>4. QED
        BY <2>1, <4>1, <4>2, <4>3 DEF recent
    <3>3. Cardinality(recent \cup {n}) = Cardinality(recent) + 1
      BY <3>1, FS_AddElement
    <3>4. \A j \in recent : /\ payments[j].challenge.amount \in Int
                            /\ payments'[j] = payments[j]
      BY <2>1, <3>1, PaymentType
    <3>5. PaidTotal(payments', recent) = PaidTotal(payments, recent)
      BY <3>1, <3>4, PaidTotalSame
    <3>6. PaidTotal(payments', recent \cup {n}) = PaidTotal(payments', recent) + c.amount
      BY <2>1, <3>1, <3>4, PaidTotalAdds
    <3>7. /\ Cardinality(recent) + 1 <= creation_limits.max_tx_count
          /\ PaidTotal(payments, recent) + c.amount <= creation_limits.max_total_amount
      BY <1>2, PayWithin
    <3>8. QED
      BY <2>1, <3>2, <3>3, <3>5, <3>6, <3>7 DEF WithinLimits
  <2>5. QED
    BY <2>1, <2>3, <2>4 DEF EveryWindowWithin
<1>3. CASE UNCHANGED <<payments, creation_limits>>
  BY <1>3 DEF EveryWindowWithin, WithinLimits, window_ending
<1>4. QED
  BY <1>2, <1>3, Steps DEF Called, Other, Unmoved, Shape, TypeOK

(* No window of the length agreed at creation ever holds more payments, or *)
(* a larger total, than agreed at creation, however slots were reused,     *)
(* limits reduced or freezes lifted in between (velocity.rs, record).      *)
THEOREM WindowsWithinLimits == Spec => []EveryWindowWithin
<1>1. Init => EveryWindowWithin
  BY DEF Init, EveryWindowWithin
<1>2. QED
  BY <1>1, WindowStep, Shaped, Remembered, PTL DEF Spec

-----------------------------------------------------------------------------
(* The merchant's side.  The transactions that come are made of the agents,*)
(* terms and layouts there are.                                            *)
LEMMA TransactionsMade ==
    ASSUME NEW tx \in Transactions
    PROVE  tx.pay.agent \in Agents /\ tx.pay.terms \in Terms /\ tx.layout \in Layouts
<1>1. ASSUME NEW b \in Built
      PROVE  b.pay.agent \in Agents /\ b.pay.terms \in Terms /\ b.layout \in Layouts
  BY <1>1, PaymentAssumption DEF Built, paymentTransaction, payInstruction
<1>2. ASSUME NEW b \in Built, tx \in altered(b)
      PROVE  tx.pay.agent \in Agents /\ tx.pay.terms \in Terms /\ tx.layout \in Layouts
  BY <1>1, <1>2 DEF altered, Built, paymentTransaction, payInstruction
<1>3. QED
  BY <1>1, <1>2 DEF Transactions

Stages == {"new", "submit", "poll", "settled", "refused"}

SettlementShape ==
    /\ step \in [Requests -> Stages]
    /\ presented \in [Requests -> Transactions \cup {NoTransaction}]
    /\ \A r \in Requests : step[r] \in {"submit", "poll", "settled"} =>
          presented[r] \in Transactions
    /\ pending \subseteq Transactions
    /\ landed \subseteq Transactions

(* What a step of the merchant's side leaves alone.                        *)
LEMMA MerchantOnly ==
    ASSUME SettlementStep, ~Land
    PROVE  UNCHANGED vars /\ UNCHANGED landed
BY DEF SettlementStep, present, submit, poll, Drop

LEMMA SettlementShapeStep ==
    ASSUME SettlementShape, [SettlementNext]_<<vars, settlement>>
    PROVE  SettlementShape'
<1> USE DEF SettlementShape
<1>1. ASSUME NEW r \in Requests, NEW tx \in Transactions, present(r, tx)
      PROVE  SettlementShape'
  BY <1>1 DEF present, goto, Stages
<1>2. ASSUME NEW r \in Requests, submit(r) PROVE SettlementShape'
  BY <1>2 DEF submit, goto, Stages
<1>3. ASSUME NEW r \in Requests, poll(r) PROVE SettlementShape'
  BY <1>3 DEF poll, goto, Stages
<1>4. CASE Land
  BY <1>4 DEF Land
<1>5. CASE Drop
  BY <1>5 DEF Drop
<1>6. CASE UNCHANGED settlement
  BY <1>6 DEF settlement
<1>7. QED
  BY <1>1, <1>2, <1>3, <1>4, <1>5, <1>6 DEF SettlementNext, SettlementStep

LEMMA SettlementShaped == SettlementSpec => []SettlementShape
<1>1. SettlementInit => SettlementShape
  BY DEF SettlementInit, SettlementShape, Stages
<1>2. QED
  BY <1>1, SettlementShapeStep, PTL DEF SettlementSpec

(* A payment that lands is one the program makes: what the precompile      *)
(* verified are its very terms.                                            *)
LEMMA LandPays ==
    ASSUME NEW tx \in Transactions, well_formed(tx),
           pay(tx.pay.agent, tx.pay.terms, tx.layout)
    PROVE  /\ AgentAction
           /\ tx.pay.terms \in Challenges /\ Paid(tx.pay.terms)
<1>1. tx.pay.agent \in Agents /\ tx.pay.terms \in Terms /\ tx.layout \in Layouts
  BY TransactionsMade
<1>2. precompile_passes(tx.layout, tx.pay.terms \in Challenges)
  BY DEF well_formed, verified_terms, precompile_passes, genuine
<1>3. QED
  BY <1>1, <1>2, PaySteps DEF AgentAction

(* For the program the merchant is one more who submits transactions.      *)
LEMMA SettlementIsAllowed == SettlementSpec => Spec
<1>1. SettlementShape /\ [SettlementNext]_<<vars, settlement>> => [Next]_vars
  <2> SUFFICES ASSUME SettlementShape, [SettlementNext]_<<vars, settlement>> PROVE [Next]_vars
    OBVIOUS
  <2>1. CASE Land
    BY <2>1, LandPays DEF Land, Next, SettlementShape
  <2>2. CASE SettlementStep /\ ~Land
    BY <2>2, MerchantOnly
  <2>3. CASE UNCHANGED <<vars, settlement>>
    BY <2>3
  <2>4. QED
    BY <2>1, <2>2, <2>3 DEF SettlementNext
<1>2. QED
  BY <1>1, SettlementShaped, PTL DEF SettlementSpec, Spec

-----------------------------------------------------------------------------
(* What the merchant takes up is bound to the request, and the terms that  *)
(* landed were paid, each in one transaction.                              *)
Bound(tx, r) ==
    LET c == tx.pay.terms
    IN  /\ c \in Challenges /\ c.merchant = Shop /\ c.request_digest = DigestOf[r]
        /\ c.amount = Price /\ c.recipient = ShopAddress

Settlements ==
    /\ \A r \in Requests : step[r] \in {"submit", "poll", "settled"} => Bound(presented[r], r)
    /\ \A r \in Requests : step[r] = "settled" => presented[r] \in landed
    /\ \A tx \in landed : \E i \in DOMAIN payments : payments[i].challenge = tx.pay.terms
    /\ \A t, u \in landed : t.pay.terms = u.pay.terms => t = u

(* Payments stay made.                                                     *)
LEMMA PaymentsStay ==
    ASSUME Shape, [Next]_vars
    PROVE  /\ DOMAIN payments \subseteq DOMAIN payments'
           /\ \A i \in DOMAIN payments : payments'[i] = payments[i]
<1>1. ASSUME NEW c \in Challenges, Paid(c)
      PROVE  /\ DOMAIN payments \subseteq DOMAIN payments'
             /\ \A i \in DOMAIN payments : payments'[i] = payments[i]
  <2>1. PICK n : n = Len(payments) + 1
    OBVIOUS
  <2>2. /\ DOMAIN payments' = DOMAIN payments \cup {n}
        /\ \A i \in DOMAIN payments : payments'[i] = payments[i]
    BY <1>1, <2>1, PaymentMore
  <2>3. QED
    BY <2>2
<1>2. CASE UNCHANGED payments
  BY <1>2
<1>3. QED
  BY <1>1, <1>2, Steps DEF Called, Other, Unmoved, Shape, TypeOK

LEMMA LandIsNew ==
    ASSUME Shape, Remembers, LongWindow, SettlementShape, Settlements, Land
    PROVE  Settlements'
<1>1. PICK tx \in pending :
        /\ tx \notin landed /\ well_formed(tx)
        /\ pay(tx.pay.agent, tx.pay.terms, tx.layout)
        /\ landed' = landed \cup {tx}
        /\ UNCHANGED <<step, presented>>
  BY DEF Land
<1>2. tx \in Transactions
  BY DEF SettlementShape
<1>3. tx.pay.terms \in Challenges /\ Paid(tx.pay.terms) /\ AgentAction
  BY <1>1, <1>2, LandPays
<1>4. \A i \in DOMAIN payments : payments[i].challenge # tx.pay.terms
  BY <1>3, NotPaidBefore
<1>5. \A u \in landed : u.pay.terms # tx.pay.terms
  BY <1>4 DEF Settlements
<1>6. \A t, u \in landed' : t.pay.terms = u.pay.terms => t = u
  BY <1>1, <1>5 DEF Settlements
<1>7. \A t \in landed' : \E i \in DOMAIN payments' : payments'[i].challenge = t.pay.terms
  <2>1. \A t \in landed : \E i \in DOMAIN payments' : payments'[i].challenge = t.pay.terms
    BY <1>3, PaymentsStay DEF Settlements, Next
  <2>2. \E i \in DOMAIN payments' : payments'[i].challenge = tx.pay.terms
    <3>1. PICK n : n = Len(payments) + 1
      OBVIOUS
    <3>2. DOMAIN payments' = DOMAIN payments \cup {n} /\ payments'[n].challenge = tx.pay.terms
      BY <1>3, <3>1, PaymentMore
    <3>3. QED
      BY <3>2
  <2>3. QED
    BY <1>1, <2>1, <2>2
<1>8. QED
  BY <1>1, <1>6, <1>7 DEF Settlements, Bound

LEMMA SettlementsStep ==
    ASSUME Shape, Remembers, LongWindow, SettlementShape, Settlements,
           [Next]_vars, [SettlementNext]_<<vars, settlement>>
    PROVE  Settlements'
<1>1. CASE Land
  BY <1>1, LandIsNew
<1>2. CASE UNCHANGED landed
  <2>1. /\ \A tx \in landed' : \E i \in DOMAIN payments' : payments'[i].challenge = tx.pay.terms
        /\ \A t, u \in landed' : t.pay.terms = u.pay.terms => t = u
    BY <1>2, PaymentsStay DEF Settlements
  <2> DEFINE Handled == /\ \A r \in Requests : step[r] \in {"submit", "poll", "settled"} =>
                                  Bound(presented[r], r)
                        /\ \A r \in Requests : step[r] = "settled" => presented[r] \in landed
  <2>2. Handled
    BY DEF Settlements
  <2>3. ASSUME NEW r \in Requests, NEW tx \in Transactions, present(r, tx) PROVE Handled'
    BY <1>2, <2>2, <2>3 DEF present, goto, taken, bindPaymentToRequest, Bound, SettlementShape
  <2>4. ASSUME NEW r \in Requests, submit(r) PROVE Handled'
    BY <1>2, <2>2, <2>4 DEF submit, goto, SettlementShape, Bound
  <2>5. ASSUME NEW r \in Requests, poll(r) PROVE Handled'
    BY <1>2, <2>2, <2>5 DEF poll, goto, SettlementShape, Bound
  <2>6. ASSUME UNCHANGED <<step, presented>> PROVE Handled'
    <3>1. step' = step /\ presented' = presented /\ landed' = landed
      BY <1>2, <2>6
    <3>2. \A r \in Requests : Bound(presented[r], r)' <=> Bound(presented[r], r)
      BY <3>1 DEF Bound
    <3>3. QED
      BY <2>2, <3>1, <3>2
  <2> HIDE DEF Handled
  <2>7. ~Land
    BY <1>2 DEF Land
  <2>8. Handled'
    BY <2>3, <2>4, <2>5, <2>6, <2>7
       DEF SettlementNext, SettlementStep, Drop, settlement
  <2> USE DEF Handled
  <2>9. QED
    BY <2>1, <2>8 DEF Settlements
<1>3. QED
  BY <1>1, <1>2, MerchantOnly DEF SettlementNext, settlement

(* With a window longer than any challenge lives, what the merchant takes  *)
(* for settled was paid to it for that very request, and once (merchant.ts,*)
(* settle; settlement.ts; and the program's record of nonces).             *)
THEOREM SettledWasPaid == SettlementSpec /\ []LongWindow => []SettledIsPaid
<1>1. Init /\ SettlementInit => Settlements
  BY DEF SettlementInit, Settlements
<1>2. Settlements => SettledIsPaid
  BY DEF Settlements, Bound, SettledIsPaid
<1>3. QED
  BY <1>1, <1>2, SettlementsStep, Shaped, Remembered, SettlementShaped, SettlementIsAllowed, PTL
     DEF SettlementSpec, Spec

(* Beside the merchant and whatever it is presented, the program keeps all *)
(* of its promises: every call and payment was signed, the list is the     *)
(* owner's, the books balance and no window exceeds the creation's limits. *)
THEOREM KeptBesideTheMerchant ==
    SettlementSpec => [](/\ CallsWereSigned
                         /\ PaymentsWereSigned
                         /\ MerchantsAreTheOwners
                         /\ FundsAccountedFor
                         /\ EveryWindowWithin
                         /\ PaidAgainOnlyAsItExpires)
BY SettlementIsAllowed, EveryCallSigned, EveryPaymentSigned, ListIsTheOwners, BooksBalance,
   WindowsWithinLimits, AgainOnlyAsItExpires, PTL

LEMMA SubmittedRead == one_payment(submitted) /\ verified_by_precompile(submitted)
<1>1. DOMAIN submitted.programs = {1, 2, 3}
  BY DEF submitted
<1>2. /\ of_program(submitted, "precompile") = {2}
      /\ of_program(submitted, "policy") = {3}
      /\ of_program(submitted, "other") = {}
  BY <1>1 DEF of_program, submitted
<1>3. Cardinality({2}) = 1 /\ Cardinality({3}) = 1
  BY FS_Singleton
<1>4. submitted.signatures = 1 /\ submitted.inside
  BY DEF submitted
<1>5. QED
  BY <1>2, <1>3, <1>4 DEF one_payment, verified_by_precompile

(* What the agent builds for the merchant's challenge, merchant and program*)
(* both read, also when the fee payer is who is paid (adapter.ts,          *)
(* paymentTransaction; settlement.ts, readSolanaPayment; the accounts and  *)
(* introspection.rs of the program).                                       *)
THEOREM AnswersRead == SettlementSpec => []AnswersAreRead
<1>1. AnswersAreRead
  <2> SUFFICES ASSUME NEW r \in Requests, NEW tx \in answers(r)
               PROVE  taken(tx, r) /\ well_formed(tx) /\ verified_by_precompile(tx.layout)
    BY DEF AnswersAreRead
  <2>1. PICK agent \in Agents \ {FeePayer}, b \in Blockhashes, c \in Challenges :
          /\ tx = paymentTransaction(c, agent, b)
          /\ c.merchant = Shop /\ c.recipient = ShopAddress /\ c.amount = Price
          /\ c.request_digest = DigestOf[r] /\ c.expiry # 0 /\ now <= c.expiry
    BY DEF answers, requirements
  <2>2. /\ ~tx.tables /\ tx.fee_payer = FeePayer /\ tx.layout = submitted
        /\ tx.signers = {agent}
        /\ tx.ed25519 = ed25519Instruction(c.merchant, c, c)
        /\ tx.pay = payInstruction(agent, This, c)
    BY <2>1 DEF paymentTransaction, requirements
  <2>3. /\ tx.pay.agent = agent /\ tx.pay.policy = This /\ tx.pay.mint = "usdc"
        /\ tx.pay.vault = associatedToken(This, "usdc")
        /\ tx.pay.recipient_token = associatedToken(c.recipient, "usdc")
        /\ tx.pay.terms = c
        /\ tx.ed25519.key = c.merchant /\ tx.ed25519.signature = c /\ tx.ed25519.message = c
    BY <2>2 DEF payInstruction, ed25519Instruction
  <2>4. readSolanaPayment(tx)
    BY <2>1, <2>2, <2>3, SubmittedRead, KeyAssumption DEF readSolanaPayment, plays_no_part
  <2>5. bindPaymentToRequest(tx, r)
    BY <2>1, <2>3 DEF bindPaymentToRequest
  <2>6. well_formed(tx)
    BY <2>2, <2>3 DEF well_formed, accounts_hold, precompile_passes, genuine, verified_terms
  <2>7. QED
    BY <2>2, <2>4, <2>5, <2>6, SubmittedRead DEF taken
<1>2. QED
  BY <1>1, PTL
=============================================================================
