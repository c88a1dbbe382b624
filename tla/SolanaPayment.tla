---------------------------- MODULE SolanaPayment ----------------------------
(***************************************************************************)
(* A payment on Solana between the agent, the merchant and the program     *)
(* (backend/src/chains/solana/adapter.ts, program.ts, merchant.ts and      *)
(* settlement.ts).  The agent builds the transaction and signs it; the     *)
(* merchant reads it, pays its fee and submits it; the program pays, or    *)
(* refuses, in the state the account is in by then; and the merchant       *)
(* confirms on the ledger what moved.                                      *)
(*                                                                         *)
(* Anyone may present anything: the transactions that come are those the   *)
(* agent builds, and the same with something changed.                      *)
(***************************************************************************)
EXTENDS SolanaPolicy, Integers

CONSTANTS
    Requests,       \* the HTTP requests with a payment that are made
    DigestOf,       \* of the endpoint and body of each
    Shop,           \* the merchant's key, as challenges name it
    FeePayer,       \* its address, which pays the fee
    ShopAddress,    \* where it is paid
    Price,
    Blockhashes,    \* what the agent may build a transaction on
    NoTransaction

ASSUME PaymentAssumption ==
    /\ DigestOf \in [Requests -> Digests]
    /\ Shop \in Merchants /\ ShopAddress \in Addresses /\ Price \in Nat \ {0}
    /\ submitted \in Layouts

VARIABLES
    step,       \* where the merchant's handler of each request stands
    presented,  \* the transaction each request it took up carries
    pending,    \* transactions the node passed on that did not execute yet
    landed      \* those that succeeded

settlement == <<step, presented, pending, landed>>

-----------------------------------------------------------------------------
(* Building.                                                               *)

(* The token account of an owner, by mint.                                 *)
associatedToken(owner, mint) == [owner |-> owner, mint |-> mint]

(* Accounts whose address is derived have no private key to pay fees with. *)
ASSUME KeyAssumption == FeePayer \notin {This, associatedToken(This, "usdc")}

(* The precompile's instruction: whose key, what the bytes beside it sign, *)
(* and the message they are verified against.                              *)
ed25519Instruction(key, signature, message) ==
    [key |-> key, signature |-> signature, message |-> message]

(* The program's: its accounts, and the terms that are its arguments.      *)
payInstruction(agent, policy, c) ==
    [agent |-> agent, policy |-> policy, mint |-> "usdc",
     vault |-> associatedToken(policy, "usdc"),
     recipient_token |-> associatedToken(c.recipient, "usdc"),
     terms |-> c]

(* What the merchant's 402 answer says of itself.                          *)
requirements == [amount |-> Price, payTo |-> ShopAddress, feePayer |-> FeePayer]

(* The payment of challenge c, signed by the agent and not by the fee payer*)
paymentTransaction(c, agent, blockhash) ==
    [fee_payer |-> requirements.feePayer, tables |-> FALSE, blockhash |-> blockhash,
     signers   |-> {agent}, layout |-> submitted,
     ed25519   |-> ed25519Instruction(c.merchant, c, c),
     pay       |-> payInstruction(agent, This, c)]

Built == {paymentTransaction(c, agent, b) : c \in Terms, agent \in Agents, b \in Blockhashes}

(* A built transaction with one thing changed.                             *)
altered(tx) ==
    {[tx EXCEPT !.fee_payer = This], [tx EXCEPT !.tables = TRUE], [tx EXCEPT !.signers = {}],
     [tx EXCEPT !.pay.mint = "other"], [tx EXCEPT !.pay.policy = FeePayer],
     [tx EXCEPT !.pay.vault = associatedToken(FeePayer, "usdc")],
     [tx EXCEPT !.pay.recipient_token = associatedToken(This, "usdc")]}
    \cup {[tx EXCEPT !.layout = layout] : layout \in Layouts}
    \cup {[tx EXCEPT !.pay.terms = c] : c \in Terms}
    \cup {[tx EXCEPT !.ed25519.message = c] : c \in Terms}

Transactions == Built \cup UNION {altered(tx) : tx \in Built}

-----------------------------------------------------------------------------
(* Executing.                                                              *)

(* Only a merchant's signature over the very message verifies.             *)
genuine(proof) ==
    /\ proof.signature \in Challenges
    /\ proof.key = proof.signature.merchant
    /\ proof.message = proof.signature

(* The account constraints: a policy account, its own token account and the*)
(* recipient's, in the asset of the account; and the agent signs.          *)
accounts_hold(tx) ==
    /\ tx.pay.policy = This
    /\ tx.pay.mint = "usdc"
    /\ tx.pay.vault = associatedToken(This, "usdc")
    /\ tx.pay.recipient_token = associatedToken(tx.pay.terms.recipient, "usdc")
    /\ tx.pay.agent \in tx.signers

(* What was verified is the challenge of these terms, with this key.       *)
verified_terms(tx) ==
    /\ tx.ed25519.key = tx.pay.terms.merchant
    /\ tx.ed25519.message = tx.pay.terms

well_formed(tx) ==
    /\ accounts_hold(tx)
    /\ precompile_passes(tx.layout, genuine(tx.ed25519))
    /\ verified_terms(tx)

(* A transaction executes at most once, and succeeds.                      *)
Land ==
    \E tx \in pending :
        /\ tx \notin landed
        /\ well_formed(tx)
        /\ pay(tx.pay.agent, tx.pay.terms, tx.layout)
        /\ landed' = landed \cup {tx}
        /\ pending' = pending \ {tx}
        /\ UNCHANGED <<step, presented>>

(* ... or fails, or never executes: its blockhash is too old by then.      *)
Drop ==
    \E tx \in pending :
        /\ pending' = pending \ {tx}
        /\ UNCHANGED <<vars, step, presented, landed>>

-----------------------------------------------------------------------------
(* The merchant.                                                           *)

(* The one layout it takes: compute budget, one precompile instruction with*)
(* one signature, one payment.  Where the signed bytes lie is left to the  *)
(* program.                                                                *)
one_payment(layout) ==
    /\ Cardinality(of_program(layout, "precompile")) = 1
    /\ Cardinality(of_program(layout, "policy")) = 1
    /\ of_program(layout, "other") = {}
    /\ layout.signatures = 1

(* A bug: the fee payer is kept out of the payment altogether.             *)
plays_no_part_at_all(key, payment) ==
    key \notin {payment.agent, payment.policy, payment.vault, payment.terms.recipient}

(* Whoever signs for the fee is not what the payment spends from, nor who  *)
(* authorizes it; it may be who is paid.                                   *)
plays_no_part(key, payment) == key \notin {payment.agent, payment.policy, payment.vault}

(* readSolanaPayment: one payment to this merchant, whose fee it pays,     *)
(* between the token accounts of payer and recipient, signed by the agent. *)
readSolanaPayment(tx) ==
    /\ ~tx.tables
    /\ tx.fee_payer = FeePayer
    /\ one_payment(tx.layout)
    /\ plays_no_part(FeePayer, tx.pay)
    /\ tx.pay.mint = "usdc"
    /\ tx.pay.terms.recipient = ShopAddress
    /\ tx.pay.recipient_token = associatedToken(ShopAddress, tx.pay.mint)
    /\ tx.pay.vault = associatedToken(tx.pay.policy, tx.pay.mint)
    /\ tx.pay.agent \in tx.signers
    /\ tx.ed25519.key = tx.pay.terms.merchant

(* A bug: the terms are its own, whichever request they were for.          *)
bindPaymentToRequest_any(tx, r) ==
    LET c == tx.pay.terms
    IN  /\ c.merchant = Shop /\ c.recipient = ShopAddress /\ c.amount = Price
        /\ c.expiry # 0 /\ now <= c.expiry
        /\ tx.ed25519.signature = c /\ c \in Challenges

(* bindPaymentToRequest: the merchant's own terms, not expired, for this   *)
(* very request, and its own signature over all of it.                     *)
bindPaymentToRequest(tx, r) ==
    LET c == tx.pay.terms
    IN  /\ c.merchant = Shop /\ c.recipient = ShopAddress /\ c.amount = Price
        /\ c.expiry # 0 /\ now <= c.expiry
        /\ c.request_digest = DigestOf[r]
        /\ tx.ed25519.signature = c /\ c \in Challenges

goto(r, s) == step' = [step EXCEPT ![r] = s]

taken(tx, r) == readSolanaPayment(tx) /\ bindPaymentToRequest(tx, r)

(* A request with a payment: read and bound before the first call outside. *)
present(r, tx) ==
    /\ step[r] = "new"
    /\ \/ /\ taken(tx, r)
          /\ presented' = [presented EXCEPT ![r] = tx]
          /\ goto(r, "submit")
       \/ ~taken(tx, r) /\ goto(r, "refused") /\ UNCHANGED presented
    /\ UNCHANGED <<vars, pending, landed>>

(* It signs as the fee payer and submits; a node that knows the transaction*)
(* or finds that it fails refuses it, and may be out of reach.             *)
submit(r) ==
    /\ step[r] = "submit"
    /\ \/ /\ presented[r] \notin landed
          /\ pending' = pending \cup {presented[r]}
          /\ goto(r, "poll")
       \/ goto(r, "refused") /\ UNCHANGED pending
    /\ UNCHANGED <<vars, presented, landed>>

(* What a transaction that succeeded did to the token balances.            *)
changes(tx) ==
    LET c == tx.pay.terms
    IN  IF c.recipient = This THEN {}
        ELSE {[account |-> associatedToken(This, "usdc"), by |-> -c.amount],
              [account |-> associatedToken(c.recipient, "usdc"), by |-> c.amount]}

(* confirmTransfer: two balances changed, the payer's down by the amount   *)
(* and the recipient's up.                                                 *)
confirmTransfer(tx) ==
    LET c == tx.pay.terms
    IN  changes(tx) = {[account |-> tx.pay.vault, by |-> -c.amount],
                       [account |-> tx.pay.recipient_token, by |-> c.amount]}

(* The transaction is found and did what was agreed; or it is not found by *)
(* the last attempt, or failed.                                            *)
poll(r) ==
    /\ step[r] = "poll"
    /\ \/ /\ presented[r] \in landed
          /\ confirmTransfer(presented[r])
          /\ goto(r, "settled")
       \/ goto(r, "refused")
    /\ UNCHANGED <<vars, presented, pending, landed>>

-----------------------------------------------------------------------------
SettlementInit ==
    /\ step = [r \in Requests |-> "new"]
    /\ presented = [r \in Requests |-> NoTransaction]
    /\ pending = {} /\ landed = {}

SettlementStep ==
    \/ \E r \in Requests, tx \in Transactions : present(r, tx)
    \/ \E r \in Requests : submit(r) \/ poll(r)
    \/ Land \/ Drop

SettlementNext == SettlementStep \/ (Next /\ UNCHANGED settlement)

SettlementSpec == Init /\ SettlementInit /\ [][SettlementNext]_<<vars, settlement>>

-----------------------------------------------------------------------------
(* What must hold.                                                         *)

(* merchant.ts, settle: what the merchant takes for settled was paid, out  *)
(* of the payer's vault to its own token account, at its price and under a *)
(* challenge it signed for that very request; and no other transaction was *)
(* settled with the same challenge, whatever is presented, in whichever    *)
(* order, and whatever becomes of the account in between.                  *)
SettledIsPaid ==
    \A r \in Requests : step[r] = "settled" =>
        LET c == presented[r].pay.terms
        IN  /\ c \in Challenges /\ c.merchant = Shop
            /\ c.request_digest = DigestOf[r]
            /\ c.amount = Price /\ c.recipient = ShopAddress
            /\ \E i \in DOMAIN payments : payments[i].challenge = c
            /\ \A s \in Requests :
                  step[s] = "settled" /\ presented[s].pay.terms = c => presented[s] = presented[r]

(* The transactions with which the agent answers what the merchant asked   *)
(* for request r, in time.                                                 *)
answers(r) ==
    {paymentTransaction(c, agent, b) : agent \in Agents \ {FeePayer}, b \in Blockhashes,
        c \in {c \in Challenges :
                  /\ c.merchant = Shop /\ c.recipient = requirements.payTo
                  /\ c.amount = requirements.amount /\ c.request_digest = DigestOf[r]
                  /\ c.expiry # 0 /\ now <= c.expiry}}

(* What adapter.ts builds, settlement.ts reads and the program does too:   *)
(* the merchant turns no such transaction down before it has tried it, and *)
(* where it is paid may be the account that pays the fee; and if the       *)
(* program refuses it, that is for the state the account is in.            *)
AnswersAreRead ==
    \A r \in Requests : \A tx \in answers(r) :
        taken(tx, r) /\ well_formed(tx) /\ verified_by_precompile(tx.layout)
=============================================================================
