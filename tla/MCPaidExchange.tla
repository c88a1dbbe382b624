--------------------------- MODULE MCPaidExchange ---------------------------
(***************************************************************************)
(* Instances of PaidExchange for TLC: a call of the agent, and two more    *)
(* requests of other clients that present whatever payments there are.     *)
(***************************************************************************)
EXTENDS PaidExchange

CONSTANTS r1, r2, r3, data, form, s1, s2, alice, lower, upper

MCResourceOf == [r \in Requests |-> IF r = r3 THEN form ELSE data]

MCPayments ==
    {[payer |-> alice, challenge |-> c] : c \in [serial : Serials, resource : {data, form},
                                                chain : Chains]}
MCPreference == <<"stellar", "solana">>
=============================================================================
