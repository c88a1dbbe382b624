------------------------ MODULE PolicyAuthorization ------------------------
(***************************************************************************)
(* What the account checks of the calls it is asked to authorize           *)
(* (contracts/payment_policy/src/lib.rs: __check_auth, count_owner_actions,*)
(* check_settlement), as pure operators.                                   *)
(*                                                                         *)
(* The host hands __check_auth the list of calls one signature covers, the *)
(* authorization contexts.  A context is a call of a function of a contract*)
(* with a transfer's arguments (ignored for the other functions), or the   *)
(* creation of a contract.                                                 *)
(***************************************************************************)
EXTENDS Integers, Sequences, FiniteSets

CONSTANTS This   \* the address of the account itself

(* The functions only the owner may authorize.                             *)
OWNER_ACTIONS == {"freeze_payments", "restore_payments", "revoke_agent_signer",
                  "set_agent_signer", "add_merchant", "remove_merchant",
                  "reduce_limits", "recover_funds"}

is_owner_action(context) ==
    /\ context.kind = "call"
    /\ context.contract = This
    /\ context.fn_name \in OWNER_ACTIONS

owner_contexts(contexts) == {k \in DOMAIN contexts : is_owner_action(contexts[k])}

count_owner_actions(contexts) == Cardinality(owner_contexts(contexts))

(* Which key may approve a batch: the owner a batch of owner actions only, *)
(* the agent a batch without any; a mixed batch is refused.                *)
path_allowed(signature, contexts) ==
    LET owner_actions == count_owner_actions(contexts)
        owner_path    == owner_actions > 0
    IN  /\ owner_path => owner_actions = Len(contexts)
        /\ signature = "Owner" <=> owner_path

is_agreed_transfer(terms, context) ==
    /\ context.kind = "call"
    /\ context.fn_name = "transfer"
    /\ context.contract = terms.asset
    /\ context.from = This
    /\ context.to = terms.recipient
    /\ context.amount = terms.amount

(* A bug: a second transfer may ride on an agreed one.                     *)
check_settlement_first_only(terms, contexts) ==
    /\ Len(contexts) > 0
    /\ is_agreed_transfer(terms, contexts[1])

(* The batch is exactly one transfer, the one both sides signed for.       *)
check_settlement(terms, contexts) ==
    /\ Len(contexts) = 1
    /\ \A k \in DOMAIN contexts : is_agreed_transfer(terms, contexts[k])
=============================================================================
