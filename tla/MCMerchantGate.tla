--------------------------- MODULE MCMerchantGate ---------------------------
(***************************************************************************)
(* Instances of MerchantGate for TLC: paid requests for two resources, two *)
(* challenges, one of which two payers may answer, and two spellings of a  *)
(* hash.  Solana, whose settlements no facilitator names, is left to       *)
(* MCPaidExchange.                                                         *)
(*                                                                         *)
(* With it, the collector of the account's events.  The two share no state *)
(* and one is explored while the other is new: the merchant while no ledger*)
(* has closed, the collector while no request has come.                    *)
(***************************************************************************)
EXTENDS MerchantGate, EventCollector

CONSTANTS r1, r2, r3, data, form, s1, s2, alice, bob, lower, upper, cron, hand

MCResourceOf == [r \in Requests |-> IF r = r3 THEN form ELSE data]

PaymentFor(payer, serial, resource, chain) ==
    [payer |-> payer,
     challenge |-> [serial |-> serial, resource |-> resource, chain |-> chain]]

MCPayments ==
    {PaymentFor(alice, s1, data, "stellar"), PaymentFor(bob, s1, data, "stellar"),
     PaymentFor(alice, s2, data, "stellar"), PaymentFor(alice, s1, form, "stellar"),
     PaymentFor(alice, s2, form, "stellar")}

MCInit == Init /\ CollectorInit

MCNext ==
    \/ latest = 0 /\ Next /\ UNCHANGED collector
    \/ Init /\ CollectorNext /\ UNCHANGED vars

MCSpec == MCInit /\ [][MCNext]_<<vars, collector>> /\ CollectorFairness
=============================================================================
