---------------------------- MODULE MerchantGate ----------------------------
(***************************************************************************)
(* The merchant's paid API (backend/src/merchant/x402-merchant.ts): any    *)
(* number of HTTP requests handled at once by one process, each a handler  *)
(* that stops at every await; the facilitator and the Solana node it calls;*)
(* the ledger they settle on; and the record of settlements.               *)
(*                                                                         *)
(* A payment is the authorization a PAYMENT-SIGNATURE header carries; it   *)
(* settles at most once, in a transaction of its own, which stands for it  *)
(* on the ledger.  That transaction's hash can be written in several ways  *)
(* that the ledger reads alike and the record does not: a name is the      *)
(* transaction and a spelling.  A challenge stands for its nonce, drawn at *)
(* random.                                                                 *)
(***************************************************************************)
EXTENDS Naturals, FiniteSets

CONSTANTS
    Requests,           \* the HTTP requests with a payment that will be made
    Resources,
    ResourceOf,         \* the endpoint and body of each request
    Chains,             \* what the merchant sells on: "stellar", or that and "solana"
    Serials,            \* bound: the challenges the merchant signs, per chain
    Payments,           \* the payments that are ever presented
    NoPayment,
    Spellings,          \* the ways to write the hash of a transaction
    Canonical,          \* the one the merchant writes itself
    HonestFacilitator,  \* whether the facilitator says what happened
    DurableRecord,      \* whether a database is configured
    MaxRestarts         \* bound: how often the process restarts

Challenge == [serial : Serials, resource : Resources, chain : Chains]
Names     == [tx : Payments, as : Spellings]

ASSUME PaymentsAssumption ==
    /\ \A p \in Payments : p.challenge \in Challenge
    /\ NoPayment \notin Payments
ASSUME SpellingsAssumption == Canonical \in Spellings
ASSUME ResourceAssumption == ResourceOf \in [Requests -> Resources]
ASSUME FlagsAssumption ==
    HonestFacilitator \in BOOLEAN /\ DurableRecord \in BOOLEAN /\ MaxRestarts \in Nat

VARIABLES
    step,      \* where each request's handler stands
    payment,   \* the payment each request presented
    named,     \* the name of the transaction each request is said to have settled in
    signed,    \* the challenges the merchant signed
    expired,   \* those that expired
    pending,   \* payments submitted and neither settled nor dropped
    ledger,    \* payments settled
    recorded,  \* the settlements recorded: transaction, as spelled, and nonce
    proven,    \* the payments whose proof of intent was announced
    restarts

handlers == <<step, payment, named>>
world    == <<expired, pending, ledger>>
vars     == <<handlers, signed, world, recorded, proven, restarts>>

Waiting  == {"verify", "settle", "settling", "confirm", "submit", "poll", "record", "publish"}
Answered == {"asked", "refused", "released"}

(* The handlers, the ledger and the record are well typed.                 *)
TypeOK ==
    /\ step \in [Requests -> {"new", "gone"} \cup Waiting \cup Answered]
    /\ payment \in [Requests -> Payments \cup {NoPayment}]
    /\ named \in [Requests -> Names \cup {NoPayment}]
    /\ signed \subseteq Challenge /\ expired \subseteq Challenge
    /\ pending \subseteq Payments /\ ledger \subseteq Payments /\ proven \subseteq Payments
    /\ recorded \subseteq [tx : Names, nonce : Challenge]
    /\ restarts \in Nat

Init ==
    /\ step = [r \in Requests |-> "new"]
    /\ payment = [r \in Requests |-> NoPayment]
    /\ named = [r \in Requests |-> NoPayment]
    /\ signed = {} /\ expired = {} /\ pending = {} /\ ledger = {}
    /\ recorded = {} /\ proven = {}
    /\ restarts = 0

goto(r, s) == step' = [step EXCEPT ![r] = s]

-----------------------------------------------------------------------------
(* The ledger takes a payment whose challenge the merchant signed, which   *)
(* has not expired, and whose nonce the paying account has not spent.      *)
ledger_accepts(p) ==
    /\ p.challenge \in signed \ expired
    /\ \A q \in ledger : q.payer = p.payer => q.challenge # p.challenge

(* A submitted payment settles; on Solana it is its own proof of intent.   *)
Land ==
    \E p \in pending :
        /\ ledger_accepts(p)
        /\ ledger' = ledger \cup {p}
        /\ pending' = pending \ {p}
        /\ proven' = IF p.challenge.chain = "solana" THEN proven \cup {p} ELSE proven
        /\ UNCHANGED <<handlers, signed, expired, recorded, restarts>>

(* ... or never does: refused by the account, outbid, or lost.             *)
Drop ==
    \E p \in pending :
        /\ pending' = pending \ {p}
        /\ UNCHANGED <<handlers, signed, expired, ledger, recorded, proven, restarts>>

Expire ==
    \E c \in signed \ expired :
        /\ expired' = expired \cup {c}
        /\ UNCHANGED <<handlers, signed, pending, ledger, recorded, proven, restarts>>

-----------------------------------------------------------------------------
(* The answers that end a handler without the resource.                    *)

(* Sign a challenge for each chain, all over the same request.             *)
unused == {s \in Serials : \A c \in signed : c.serial # s}
sign(resource) ==
    \E s \in unused :
        signed' = signed \cup
            {[serial |-> s, resource |-> resource, chain |-> chain] : chain \in Chains}

(* 402 for a request without a payment.                                    *)
quote(resource) ==
    /\ sign(resource)
    /\ UNCHANGED <<handlers, world, recorded, proven, restarts>>

(* 402 again, for a payment that is not good.  Once the serials run out,   *)
(* the challenges in further answers are not followed.                     *)
ask(r) ==
    /\ goto(r, "asked")
    /\ sign(ResourceOf[r]) \/ (unused = {} /\ UNCHANGED signed)
    /\ UNCHANGED <<payment, named, world, recorded, proven, restarts>>

(* 409, 502, or 500 when a call throws.                                    *)
refuse(r) ==
    /\ goto(r, "refused")
    /\ UNCHANGED <<payment, named, signed, world, recorded, proven, restarts>>

(* A bug: the request the payment was authorized for is not compared.      *)
binds_any(p, r) == p.challenge \in signed \ expired

(* bindPaymentToRequest: the payment answers a challenge this merchant     *)
(* signed for this very request, and which has not expired.                *)
binds(p, r) ==
    /\ p.challenge \in signed \ expired
    /\ p.challenge.resource = ResourceOf[r]

(* A request with a payment arrives; everything up to the first await.  A  *)
(* payment that names other requirements than the merchant's is one whose  *)
(* challenge the merchant did not sign.                                    *)
arrive(r, p) ==
    /\ step[r] = "new"
    /\ \/ /\ binds(p, r)
          /\ payment' = [payment EXCEPT ![r] = p]
          /\ goto(r, IF p.challenge.chain = "solana" THEN "submit" ELSE "verify")
          /\ UNCHANGED <<named, signed, world, recorded, proven, restarts>>
       \/ ~binds(p, r) /\ ask(r)

-----------------------------------------------------------------------------
(* Stellar, through the facilitator.                                       *)

(* facilitator.verify: it simulates the payment.                           *)
verify(r) ==
    /\ step[r] = "verify"
    /\ \/ /\ HonestFacilitator => ledger_accepts(payment[r])
          /\ goto(r, "settle")
          /\ UNCHANGED <<payment, named, signed, world, recorded, proven, restarts>>
       \/ ask(r)
       \/ refuse(r)

(* facilitator.settle: it submits the payment ...                          *)
settle(r) ==
    /\ step[r] = "settle"
    /\ goto(r, "settling")
    /\ pending' = IF payment[r] \in ledger THEN pending ELSE pending \cup {payment[r]}
    /\ UNCHANGED <<payment, named, signed, expired, ledger, recorded, proven, restarts>>

(* ... and says what became of it, or the answer does not arrive.  A       *)
(* facilitator that is broken may name any transaction; any may write its  *)
(* hash as it likes.                                                       *)
settle_answer(r) ==
    /\ step[r] = "settling"
    /\ \/ \E name \in Names :
             /\ HonestFacilitator => name.tx = payment[r] /\ name.tx \in ledger
             /\ named' = [named EXCEPT ![r] = name]
             /\ goto(r, "confirm")
             /\ UNCHANGED <<payment, signed, world, recorded, proven, restarts>>
       \/ /\ HonestFacilitator => payment[r] \notin pending
          /\ ask(r)
       \/ refuse(r)

(* A bug: the facilitator's word is enough.                                *)
on_ledger_trusting(name, r) == TRUE

(* confirmSettlement: the ledger shows that transaction, however its hash  *)
(* is spelled, successful, with one transfer, of this merchant's token and *)
(* price, from this payer.                                                 *)
on_ledger(name, r) ==
    /\ name.tx \in ledger
    /\ name.tx.challenge.chain = "stellar"
    /\ name.tx.payer = payment[r].payer

(* The ledger confirms, or has not by the last attempt.                    *)
confirm(r) ==
    /\ step[r] = "confirm"
    /\ \/ /\ on_ledger(named[r], r)
          /\ goto(r, "record")
          /\ UNCHANGED <<payment, named, signed, world, recorded, proven, restarts>>
       \/ refuse(r)

-----------------------------------------------------------------------------
(* Solana, which the merchant settles itself.                              *)

(* A bug: a transaction the node knows already is taken for submitted.     *)
submit_known(r) ==
    /\ step[r] = "submit"
    /\ \/ /\ pending' = IF payment[r] \in ledger THEN pending ELSE pending \cup {payment[r]}
          /\ goto(r, "poll")
          /\ UNCHANGED <<payment, named, signed, expired, ledger, recorded, proven, restarts>>
       \/ refuse(r)

(* The node takes the transaction, unless it knows it already, or is not   *)
(* reached.                                                                *)
submit(r) ==
    /\ step[r] = "submit"
    /\ \/ /\ payment[r] \notin ledger
          /\ pending' = pending \cup {payment[r]}
          /\ goto(r, "poll")
          /\ UNCHANGED <<payment, named, signed, expired, ledger, recorded, proven, restarts>>
       \/ refuse(r)

(* The transaction is found, with the agreed transfer, or is not by the    *)
(* last attempt.  The merchant wrote its hash (the signature) itself.      *)
poll(r) ==
    /\ step[r] = "poll"
    /\ \/ /\ payment[r] \in ledger
          /\ named' = [named EXCEPT ![r] = [tx |-> payment[r], as |-> Canonical]]
          /\ goto(r, "record")
          /\ UNCHANGED <<payment, signed, world, recorded, proven, restarts>>
       \/ refuse(r)

-----------------------------------------------------------------------------
(* A bug: only the nonce is unique.                                        *)
is_new_nonce(name, nonce) == \A e \in recorded : e.nonce # nonce

(* The transaction's hash, as it is spelled, and the nonce are both unique *)
(* in the record.                                                          *)
is_new(name, nonce) == \A e \in recorded : e.tx # name /\ e.nonce # nonce

entry(r) == [tx |-> named[r], nonce |-> payment[r].challenge]

(* recordSettlement.  Only a database fails, before it stored the row or   *)
(* after.                                                                  *)
record(r) ==
    /\ step[r] = "record"
    /\ \/ /\ is_new(named[r], payment[r].challenge)
          /\ recorded' = recorded \cup {entry(r)}
          /\ \/ goto(r, IF payment[r].challenge.chain = "solana" THEN "released" ELSE "publish")
             \/ DurableRecord /\ goto(r, "refused")
          /\ UNCHANGED <<payment, named, signed, world, proven, restarts>>
       \/ /\ DurableRecord \/ ~is_new(named[r], payment[r].challenge)
          /\ refuse(r)

(* publishProof, tried once; then the resource, whether it worked or not.  *)
(* The account announces the proof of a payment it made, once.             *)
publish(r) ==
    /\ step[r] = "publish"
    /\ goto(r, "released")
    /\ \/ \E p \in ledger \ proven : /\ p.payer = payment[r].payer
                                     /\ p.challenge = payment[r].challenge
                                     /\ proven' = proven \cup {p}
       \/ UNCHANGED proven
    /\ UNCHANGED <<payment, named, signed, world, recorded, restarts>>

(* The process restarts: the requests under way get no answer, and what    *)
(* was recorded in memory is gone.                                         *)
Restart ==
    /\ restarts < MaxRestarts
    /\ restarts' = restarts + 1
    /\ step' = [r \in Requests |-> IF step[r] \in Waiting THEN "gone" ELSE step[r]]
    /\ recorded' = IF DurableRecord THEN recorded ELSE {}
    /\ UNCHANGED <<payment, named, signed, world, proven>>

Handle(r) ==
    verify(r) \/ settle(r) \/ settle_answer(r) \/ confirm(r) \/ submit(r) \/ poll(r)
    \/ record(r) \/ publish(r)

Next == \/ \E resource \in Resources : quote(resource)
        \/ \E r \in Requests, p \in Payments : arrive(r, p)
        \/ \E r \in Requests : Handle(r)
        \/ Land \/ Drop \/ Expire \/ Restart

Spec == Init /\ [][Next]_vars

-----------------------------------------------------------------------------
(* No settlement unlocks two resources, and nothing is released without a  *)
(* settlement the ledger shows, however the requests interleave, and across*)
(* restarts (x402-merchant.ts).                                            *)
Gate == INSTANCE Turnstile WITH
    Coins <- Payments, Customers <- Requests, NoCoin <- NoPayment,
    paid <- ledger, used <- [r \in Requests |-> IF step[r] = "released" THEN named[r].tx ELSE NoPayment]
KeepsTurnstile == Gate!Spec

(* What a record that lasts gives, whatever the facilitator says and       *)
(* however it spells a transaction (confirmSettlement, recordSettlement):  *)
(* a resource is released on a settlement of the account that presented    *)
(* the payment, no challenge unlocks two, and a settlement that unlocks two*)
(* was spelled in two ways.                                                *)
ReleasedOnSettlement ==
    /\ \A r \in Requests : step[r] = "released" =>
          named[r].tx \in ledger /\ named[r].tx.payer = payment[r].payer
    /\ \A r, q \in Requests : step[r] = "released" /\ step[q] = "released" /\ r # q =>
          /\ payment[r].challenge # payment[q].challenge
          /\ named[r].tx = named[q].tx => named[r].as # named[q].as

(* With an honest facilitator a resource is released for the payment that  *)
(* was presented, which settled and was authorized for that very request.  *)
ReleasedForItsRequest ==
    \A r \in Requests : step[r] = "released" =>
        /\ payment[r] \in ledger
        /\ payment[r].challenge.resource = ResourceOf[r]
=============================================================================
