--------------------------- MODULE MCSolanaPolicy ---------------------------
(***************************************************************************)
(* Instances of SolanaPolicy and SolanaPayment for TLC.                    *)
(*                                                                         *)
(* The program is explored with no merchant's request under way.  The      *)
(* merchant is, from accounts on which the owner has done nothing but add  *)
(* it, with payments and time going on beside it.                          *)
(***************************************************************************)
EXTENDS SolanaPayment, TLC

CONSTANTS n1, n2, m1, m2, a1, shop, data, form, b1, b2, r1, r2

Agreed(nonce, amount, expiry, recipient, digest) ==
    [nonce |-> nonce, amount |-> amount, expiry |-> expiry, merchant |-> m1,
     recipient |-> recipient, request_digest |-> digest]

(* Two challenges share a nonce; one pays the account itself.              *)
MCChallenges ==
    {Agreed(n1, 1, 3, shop, data), Agreed(n2, 2, 3, This, data), Agreed(n1, 1, 4, shop, form)}
MCForged == {Agreed(n2, 1, 4, shop, data)}

Limits(payment, count, total, window) ==
    [max_payment_amount |-> payment, max_tx_count |-> count,
     max_total_amount |-> total, window_size |-> window]
Tighter == Limits(1, 1, 1, 3)
MCConfigs == {Limits(2, 2, 3, 3), Tighter}

(* Every action, until time 3; and a freeze signed without the user.       *)
Signing(action, arg) ==
    [action |-> action, arg |-> arg, valid_until |-> 3, user_verified |-> TRUE]
MCSignings ==
    {Signing(action, NoArg) : action \in
        {"freeze_payments", "restore_payments", "revoke_agent_signer", "recover_funds"}}
    \cup {Signing("set_agent_signer", a1), Signing("reduce_limits", Tighter),
          Signing("add_merchant", m1), Signing("add_merchant", m2),
          Signing("remove_merchant", m1),
          [Signing("freeze_payments", NoArg) EXCEPT !.user_verified = FALSE]}

(* What the backend submits, the same with its bytes lying outside what was*)
(* verified, and one that would pay twice on one signature.                *)
MCLayouts ==
    {submitted,
     [submitted EXCEPT !.inside = FALSE],
     [submitted EXCEPT !.programs = <<"precompile", "policy", "policy">>]}

Alike == Permutations(Requests) \cup Permutations(Blockhashes)

MCDigestOf == [r \in Requests |-> data]

MCInit == Init /\ SettlementInit
MCNext ==
    \/ SettlementInit /\ Next /\ UNCHANGED settlement
    \/ /\ Len(executed) = 1 /\ Cardinality(signed) = 1 /\ merchants = <<m1>> /\ vault > 0
       /\ SettlementStep \/ ((AgentAction \/ Tick) /\ UNCHANGED settlement)

MCSpec == MCInit /\ [][MCNext]_<<vars, settlement>>
=============================================================================
