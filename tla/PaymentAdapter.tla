--------------------------- MODULE PaymentAdapter ---------------------------
(***************************************************************************)
(* How the agent decides whether to pay what a 402 answer asks for         *)
(* (backend/src/adapter/x402-client.ts, multi-chain.ts, buyer-intent.ts and*)
(* chains/solana/adapter.ts): which chain, which checks before anything is *)
(* signed, and what the signed payment then moves.                         *)
(*                                                                         *)
(* An answer lists one offer per chain: the x402 requirements, and the     *)
(* challenge that says the same over the merchant's signature.  Either may *)
(* have been garbled, or belong to another request.                        *)
(***************************************************************************)
EXTENDS Sequences, Naturals

CONSTANT Preference   \* the agent's chains, in the order it prefers them

(* What the merchant charges, and the same with one field changed.         *)
Price      == [asset |-> "usdc", payTo |-> "shop", amount |-> 1]
OtherTerms == {[Price EXCEPT !.asset = "other"], [Price EXCEPT !.payTo = "other"],
               [Price EXCEPT !.amount = 2]}

(* What the merchant answers: for each of its challenges, the same terms in*)
(* the requirements and over its signature, with the fees sponsored; and a *)
(* challenge that is short, living no longer than MAX_CHALLENGE_LIFETIME.  *)
offer_of(c) == [chain |-> c.chain, requirements |-> Price, sponsored |-> TRUE,
                challenge |-> c, fields |-> Price, short |-> TRUE, signature |-> TRUE]

(* One offer in which one thing is not as the merchant made it.  Terms     *)
(* changed under the signature make it a signature of something else.  A   *)
(* challenge too long was changed so, or signed by a clock that runs ahead.*)
garbled(o, others) ==
    {[o EXCEPT !.requirements = t] : t \in OtherTerms}
    \cup {[o EXCEPT !.fields = t, !.signature = FALSE] : t \in OtherTerms}
    \cup {[o EXCEPT !.requirements = t, !.fields = t, !.signature = FALSE] : t \in OtherTerms}
    \cup {[o EXCEPT !.short = FALSE, !.signature = sound] : sound \in BOOLEAN}
    \cup {[o EXCEPT !.sponsored = FALSE], [o EXCEPT !.signature = FALSE]}
    \cup {[o EXCEPT !.challenge = c] : c \in others}

(* accepts and requirementsIn.                                             *)
accepts(required, chain) ==
    \E o \in required : o.chain = chain /\ o.requirements.asset = "usdc"

(* A bug: the chain the caller asked for is only a wish.                   *)
eligible_all(requested) == DOMAIN Preference

(* The places in the agent's preference that its caller leaves open.       *)
eligible(requested) == {i \in DOMAIN Preference : requested \in {"any", Preference[i]}}

(* MultiChainAdapter: the first eligible chain that the merchant offers.   *)
chosen(required, requested) ==
    {o \in required :
        \E i \in eligible(requested) :
            /\ o.chain = Preference[i]
            /\ accepts(required, Preference[i])
            /\ \A j \in eligible(requested) : j < i => ~accepts(required, Preference[j])}

(* describeDisagreement: the challenge and the requirements are of the same*)
(* payment.                                                                *)
agree(o) == o.fields = o.requirements

(* verifyChallengeIntentMatch: the request as the agent sent it is what the*)
(* challenge names.                                                        *)
matches(o, resource) == o.challenge.resource = resource

(* A bug: the request is taken from the challenge.                         *)
vetChallenge_unmatched(o, resource, expired) ==
    agree(o) /\ o.signature /\ o.challenge \notin expired /\ o.short

vetChallenge(o, resource, expired) ==
    /\ agree(o)
    /\ o.signature
    /\ matches(o, resource)
    /\ o.challenge \notin expired
    /\ o.short

(* The challenge is for this chain and in its USDC.                        *)
is_for(o, chain) == o.challenge.chain = chain /\ o.fields.asset = "usdc"

(* preparePayment up to the first await.  On Stellar the offer says that   *)
(* fees are sponsored; on Solana, which account pays them.                 *)
agrees_on_stellar(o, resource, expired) ==
    /\ o.chain = "stellar" /\ o.sponsored
    /\ is_for(o, "stellar")
    /\ vetChallenge(o, resource, expired)

agrees_on_solana(o, resource, expired) ==
    /\ o.chain = "solana" /\ o.sponsored
    /\ is_for(o, "solana")
    /\ vetChallenge(o, resource, expired)

agrees_to_pay(o, resource, expired) ==
    agrees_on_stellar(o, resource, expired) \/ agrees_on_solana(o, resource, expired)

(* What the signed payment moves: the requirements' terms on Stellar, the  *)
(* challenge's on Solana.                                                  *)
moved_by(o) == IF o.chain = "stellar" THEN o.requirements ELSE o.fields
=============================================================================
