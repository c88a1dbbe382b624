---------------------------- MODULE PaidExchange ----------------------------
(***************************************************************************)
(* An agent's paid calls (backend/src/agent/paid-fetch.ts, called by the   *)
(* agent route and reported by the MCP server) against the merchant of     *)
(* MerchantGate: ask for the price, have the account authorize a payment,  *)
(* ask again with it, and tell the caller whether it paid.  Other clients  *)
(* present whatever payments they have seen, at the same time.             *)
(***************************************************************************)
EXTENDS MerchantGate, PaymentAdapter

CONSTANT Calls   \* the paid requests that are the agent's; the others are not
ASSUME CallsAssumption == Calls \subseteq Requests

VARIABLES
    phase,     \* how far each call is, or what it reported
    offered,   \* the offers it was answered with; then the one it goes by
    requested, \* the chain its caller asked for, or "any"
    prepared,  \* the payment the account authorized for it
    authorized \* history: what the agent's key has signed for

agent == <<phase, offered, requested, prepared, authorized>>
gate  == vars

ExchangeInit ==
    /\ Init
    /\ phase = [c \in Calls |-> "new"]
    /\ offered = [c \in Calls |-> {}]
    /\ requested \in [Calls -> Chains \cup {"any"}]
    /\ prepared = [c \in Calls |-> NoPayment]
    /\ authorized = {}

becomes(c, p) == phase' = [phase EXCEPT ![c] = p]
goes_by(c, offers) == offered' = [offered EXCEPT ![c] = offers]

(* The call ends without a paid answer: the MCP server says "Payment did   *)
(* not go through".                                                        *)
give_up(c) ==
    /\ becomes(c, "not_through")
    /\ goes_by(c, {})
    /\ UNCHANGED <<requested, prepared, authorized, gate>>

(* The first fetch, answered 402: as the merchant meant it, or garbled in  *)
(* one offer.                                                              *)
first_fetch(c) ==
    /\ phase[c] = "new"
    /\ quote(ResourceOf[c])
    /\ LET meant == {offer_of(challenge) : challenge \in signed' \ signed}
       IN  \/ goes_by(c, meant)
           \/ \E o \in meant : \E g \in garbled(o, Challenge) :
                 /\ g.signature => g.challenge \in signed'
                 /\ goes_by(c, (meant \ {o}) \cup {g})
    /\ becomes(c, "quoted")
    /\ UNCHANGED <<requested, prepared, authorized>>

(* preparePayment on the chain chosen, up to its first await.              *)
prepare(c) ==
    /\ phase[c] = "quoted"
    /\ \/ \E o \in chosen(offered[c], requested[c]) :
             /\ agrees_to_pay(o, ResourceOf[c], expired)
             /\ becomes(c, "vetted")
             /\ goes_by(c, {o})
             /\ UNCHANGED <<requested, prepared, authorized, gate>>
       \/ /\ \A o \in chosen(offered[c], requested[c]) : ~agrees_to_pay(o, ResourceOf[c], expired)
          /\ give_up(c)

(* authorizedTransfer and authorizedPayment: the agent's key signs, and the*)
(* account, simulated, agrees or refuses; or a node does not answer.       *)
authorize(c) ==
    /\ phase[c] = "vetted"
    /\ \E o \in offered[c] :
          /\ authorized' = authorized \cup
                {[call |-> c, chain |-> o.chain, moves |-> moved_by(o), challenge |-> o.challenge]}
          /\ \/ \E p \in Payments :
                   /\ p.challenge = o.challenge
                   /\ ledger_accepts(p) /\ moved_by(o) = Price
                   /\ prepared' = [prepared EXCEPT ![c] = p]
                   /\ becomes(c, "prepared")
             \/ becomes(c, "not_through") /\ UNCHANGED prepared
    /\ goes_by(c, {})
    /\ UNCHANGED <<requested, gate>>

(* The second fetch carries the payment.                                   *)
second_fetch(c) ==
    /\ phase[c] = "prepared"
    /\ arrive(c, prepared[c])
    /\ becomes(c, "sent")
    /\ UNCHANGED <<offered, requested, prepared, authorized>>

(* A bug: any final answer is taken for the resource.                      *)
read_answer_any(c) ==
    /\ phase[c] = "sent"
    /\ step[c] \in Answered
    /\ becomes(c, "paid")
    /\ UNCHANGED <<offered, requested, prepared, authorized, gate>>

(* The answer: the resource with the settlement, or anything else.         *)
read_answer(c) ==
    /\ phase[c] = "sent"
    /\ \/ /\ step[c] = "released"
          /\ becomes(c, "paid")
          /\ UNCHANGED <<offered, requested, prepared, authorized, gate>>
       \/ step[c] \in {"asked", "refused"} /\ give_up(c)

(* No answer arrives: the connection broke, or the merchant restarted.     *)
lose_answer(c) == phase[c] = "sent" /\ give_up(c)

Agent(c) ==
    first_fetch(c) \/ prepare(c) \/ authorize(c) \/ second_fetch(c) \/ read_answer(c) \/ lose_answer(c)

Others(r) == \E p \in Payments : arrive(r, p) /\ UNCHANGED agent

Gateway == \/ \E r \in Requests : Handle(r) /\ UNCHANGED agent
           \/ Land /\ UNCHANGED agent
           \/ Drop /\ UNCHANGED agent
           \/ Expire /\ UNCHANGED agent
           \/ Restart /\ UNCHANGED agent

ExchangeNext ==
    \/ \E c \in Calls : Agent(c)
    \/ \E r \in Requests \ Calls : Others(r)
    \/ Gateway

ExchangeSpec == ExchangeInit /\ [][ExchangeNext]_<<gate, agent>>

-----------------------------------------------------------------------------
(* A call that reports it paid did: its own payment settled, and unlocked  *)
(* the resource it asked for and no other client's.                        *)
PaidIsTrue ==
    \A c \in Calls : phase[c] = "paid" =>
        /\ prepared[c] \in ledger
        /\ prepared[c].challenge.resource = ResourceOf[c]
        /\ \A r \in Requests \ {c} : step[r] = "released" => named[r].tx # prepared[c]

(* Nothing is signed that was not agreed: each use of the agent's key moves*)
(* the terms the merchant signed, for the request the agent made, on the   *)
(* chain its caller asked for; whatever came back as the merchant's answer.*)
OnlyAgreedIsSigned ==
    \A a \in authorized :
        /\ a.moves = Price
        /\ a.challenge \in signed
        /\ a.challenge.resource = ResourceOf[a.call]
        /\ a.challenge.chain = a.chain
        /\ requested[a.call] \in {"any", a.chain}

(* mcp/server.ts: when "Payment did not go through", no money moved.       *)
NotThroughIsUnpaid ==
    \A c \in Calls : phase[c] = "not_through" => prepared[c] \notin ledger
=============================================================================
