---------------------------- MODULE ControlPanel ----------------------------
(***************************************************************************)
(* What the owner sees and may press (frontend/src/App.tsx, with the       *)
(* requests of stellar-ops.ts), and what the server answers them with      *)
(* (readPolicyState, readSolanaPolicyState and publicConfig of             *)
(* policy-routes.ts).  One page, two chains, and as many refreshes on their*)
(* way as were begun: each asks for the configuration, the account, the    *)
(* payments and the merchant, one after the other, and reads the chosen    *)
(* chain anew at each request.                                             *)
(*                                                                         *)
(* An owner action is one step here between its press and its outcome;     *)
(* OwnerConsole is about what lies between.                                *)
(***************************************************************************)
EXTENDS Integers, FiniteSets

CONSTANTS
    Enabled,         \* the chains this deployment runs on
    MERCHANT_PUBKEY, \* whether the backend was told the merchant's key
    FirstAccounts,   \* what the accounts may be when the page is opened
    Texts,           \* what may be typed into the three fields of the form
    STELLAR_UNIT, SOLANA_UNIT,   \* the smallest units in one USDC
    Unknown,
    Together,        \* bound on the refreshes on their way at once
    Surprises        \* bound on what the owner presses or types, what fails, what others do

Options == {"stellar", "solana"}
Limits  == [maxPaymentAmount : Nat, maxTxCount : Nat, maxTotalAmount : Nat, windowSize : Nat]
Accounts == [frozen : BOOLEAN, agentSigner : BOOLEAN, merchant : BOOLEAN, limits : Limits]

ASSUME PanelAssumption ==
    /\ Enabled \subseteq Options
    /\ MERCHANT_PUBKEY \in BOOLEAN
    /\ FirstAccounts \subseteq [Options -> Accounts]
    /\ SOLANA_UNIT \in Nat \ {0} /\ STELLAR_UNIT \in Nat \ {0}
    /\ STELLAR_UNIT % SOLANA_UNIT = 0
    /\ Texts \subseteq [perPayment : Nat, count : Nat, total : Nat]
    /\ Unknown \notin Limits \cup Texts \cup BOOLEAN
    /\ Together \in Nat /\ Surprises \in Nat

VARIABLES
    deployments,  \* the account on each chain
    kept,         \* the server's cache of two reads on Stellar
    chain,        \* the chain the panel is looking at
    authenticated, policyState, transactions, merchantInfo, config, form,
    armed,        \* recoveryArmed and removalArmed
    loading,      \* the action under way, or how the last one ended
    refreshes,    \* the refreshes on their way
    begun, asked, \* how many refreshes there were, how often the state was asked for
    left,         \* how many surprises are left
    \* history
    newest,       \* the chain that was asked for last
    shown         \* the latest request whose answer was shown

server_vars  == <<deployments, kept>>
display_vars == <<policyState, transactions, merchantInfo, config, form, shown>>
press_vars   == <<chain, authenticated, armed, loading>>
panel        == <<server_vars, display_vars, press_vars, refreshes, begun, asked,
                left, newest>>

surprise == left > 0 /\ left' = left - 1

(* fetchPolicyState, when there is no answer; an account that is not       *)
(* deployed looks the same.                                                *)
not_connected ==
    [of |-> Unknown, frozen |-> FALSE, agentSigner |-> FALSE,
     merchantApproved |-> Unknown, limits |-> Unknown]

-----------------------------------------------------------------------------
(* What is displayed, of a state and with a choice of chain.               *)

(* The address is one of the chosen chain's.                               *)
deployed(state, c) == state.of = c
needsMerchant(state, c) == deployed(state, c) /\ state.merchantApproved = FALSE

(* The configuration names the chains, and the merchant if the backend was *)
(* told; the merchant's own endpoint is asked too, and counts on Stellar.  *)
multiChain  == config # Unknown /\ "solana" \in config.chains
merchantKey ==
    \/ config # Unknown /\ config.merchantPubkey /\ (chain = "solana" => multiChain)
    \/ chain = "stellar" /\ merchantInfo

(* Amounts as they are typed: the finest fraction either chain writes.     *)
formatExact(raw, c) == IF c = "solana" THEN raw * (STELLAR_UNIT \div SOLANA_UNIT) ELSE raw

toStroops(text, c) ==
    LET grain == STELLAR_UNIT \div SOLANA_UNIT
    IN  CASE c = "stellar"                       -> text
          [] c = "solana" /\ text % grain = 0    -> text \div grain
          [] c = "solana" /\ text % grain # 0    -> Unknown

(* LimitsForm: it is made with the limits of that moment, and keeps what is*)
(* in its fields for as long as there is a form.                           *)
LimitsForm(state, c) ==
    CASE needsMerchant(state, c) \/ state.limits = Unknown -> Unknown
      [] ~needsMerchant(state, c) /\ state.limits # Unknown /\ form # Unknown -> form
      [] ~needsMerchant(state, c) /\ state.limits # Unknown /\ form = Unknown ->
            [perPayment |-> formatExact(state.limits.maxPaymentAmount, c),
             count      |-> state.limits.maxTxCount,
             total      |-> formatExact(state.limits.maxTotalAmount, c)]

(* What the form would ask for: the window is left as it is.               *)
next ==
    [maxPaymentAmount |-> toStroops(form.perPayment, chain),
     maxTxCount       |-> form.count,
     maxTotalAmount   |-> toStroops(form.total, chain),
     windowSize       |-> policyState.limits.windowSize]

valid ==
    /\ next.maxPaymentAmount # Unknown /\ next.maxTotalAmount # Unknown
    /\ next.maxTxCount > 0 /\ next.maxPaymentAmount > 0
    /\ next.maxPaymentAmount <= next.maxTotalAmount

lower ==
    /\ valid
    /\ next.maxPaymentAmount <= policyState.limits.maxPaymentAmount
    /\ next.maxTxCount <= policyState.limits.maxTxCount
    /\ next.maxTotalAmount <= policyState.limits.maxTotalAmount

changedForm == form # Unknown /\ lower /\ next # policyState.limits

(* The controls on the page: a merchant that is not approved takes the     *)
(* place of all the others.                                                *)
approval == IF merchantKey THEN {"Approve merchant"} ELSE {}

command ==
    (IF policyState.frozen THEN {"Resume", "Recover"} ELSE {"Halt"})
    \cup (IF merchantKey THEN {"Remove merchant"} ELSE {})
    \cup (IF policyState.agentSigner THEN {"Revoke"} ELSE {"Reinstate"})
    \cup (IF changedForm THEN {"Lower limits"} ELSE {})

controls ==
    CASE ~authenticated -> {}
      [] authenticated /\ needsMerchant(policyState, chain)  -> approval
      [] authenticated /\ ~needsMerchant(policyState, chain) -> command

(* Those that are not disabled.                                            *)
offered == IF loading.step = "idle" THEN controls ELSE {}

-----------------------------------------------------------------------------
idle(result) == [step |-> "idle", result |-> result]

refresh(id) == [id |-> id, step |-> "config", asks |-> Unknown, number |-> 0,
                reading |-> not_connected]

(* refresh() is called, whatever else is on its way.                       *)
begin_refresh ==
    /\ Cardinality(refreshes) < Together
    /\ begun' = begun + 1
    /\ refreshes' = refreshes \cup {refresh(begun')}

moves_on(r, s) == refreshes' = (refreshes \ {r}) \cup {s} /\ UNCHANGED begun

nothing_kept == [merchant |-> {}, limits |-> {}]

(* The page opens with the chain it remembers, and refreshes.              *)
PanelInit ==
    /\ deployments \in FirstAccounts
    /\ kept = nothing_kept
    /\ chain \in Options
    /\ authenticated = FALSE
    /\ policyState = not_connected
    /\ transactions = Unknown /\ merchantInfo = FALSE /\ config = Unknown
    /\ form = Unknown
    /\ armed = [Recover |-> FALSE, Remove |-> FALSE]
    /\ loading = idle("none")
    /\ refreshes = {refresh(1)} /\ begun = 1 /\ asked = 0
    /\ left = Surprises
    /\ newest = Unknown /\ shown = 0

(* handleAuth, once the passkey was checked.                               *)
handleAuth ==
    /\ ~authenticated /\ authenticated' = TRUE
    /\ form' = LimitsForm(policyState, chain)
    /\ begin_refresh
    /\ UNCHANGED <<server_vars, policyState, transactions, merchantInfo, config, shown, chain,
                   armed, loading, asked, left, newest>>

(* A bug: the choice is made, and nothing is asked.                        *)
switchChain_quietly(option) ==
    /\ authenticated /\ multiChain
    /\ chain' = option
    /\ form' = LimitsForm(policyState, option)
    /\ surprise
    /\ UNCHANGED <<server_vars, policyState, transactions, merchantInfo, config, shown,
                   authenticated, armed, loading, refreshes, begun, asked, newest>>

(* The owner chooses a chain, at any time; what is armed stays armed.      *)
switchChain(option) ==
    /\ authenticated /\ multiChain
    /\ chain' = option
    /\ form' = LimitsForm(policyState, option)
    /\ begin_refresh
    /\ surprise
    /\ UNCHANGED <<server_vars, policyState, transactions, merchantInfo, config, shown,
                   authenticated, armed, loading, asked, newest>>

(* Something is typed into the form.                                       *)
type(text) ==
    /\ form # Unknown /\ form' = text
    /\ surprise
    /\ UNCHANGED <<server_vars, policyState, transactions, merchantInfo, config, shown,
                   press_vars, refreshes, begun, asked, newest>>

-----------------------------------------------------------------------------
(* An owner action: handleAction.                                          *)

(* What is prepared is of the chain, and has the limits, of this moment.   *)
runOwnerAction(action) ==
    [step |-> "passkey", action |-> action, chain |-> chain,
     limits |-> IF action = "Lower limits" THEN next ELSE Unknown]

handleAction(action) == loading' = runOwnerAction(action)

(* The two that take a second press.                                       *)
TakesTwo == [Recover |-> "Recover", Remove |-> "Remove merchant"]

arm(which) ==
    /\ TakesTwo[which] \in offered
    /\ armed' = [armed EXCEPT ![which] = ~@]
    /\ IF armed[which] THEN handleAction(TakesTwo[which]) ELSE UNCHANGED loading

press ==
    /\ \/ \E which \in DOMAIN TakesTwo : arm(which)
       \/ \E action \in offered \ {TakesTwo[which] : which \in DOMAIN TakesTwo} :
             handleAction(action) /\ UNCHANGED armed
    /\ surprise
    /\ UNCHANGED <<server_vars, display_vars, chain, authenticated, refreshes, begun, asked,
                   newest>>

(* only_reduces: what the account does not refuse.                         *)
only_reduces(new, old) ==
    /\ new.maxPaymentAmount <= old.maxPaymentAmount /\ new.maxTxCount <= old.maxTxCount
    /\ new.maxTotalAmount <= old.maxTotalAmount /\ new.windowSize >= old.windowSize

(* What an action makes of the account; nothing if it is refused.          *)
accepted(action, limits, a) ==
    CASE action = "Recover"      -> a.frozen
      [] action = "Lower limits" -> only_reduces(limits, a.limits)
      [] OTHER                   -> TRUE

effect(action, limits, a) ==
    CASE action \in {"Halt", "Resume"}      -> [a EXCEPT !.frozen = (action = "Halt")]
      [] action \in {"Revoke", "Reinstate"} -> [a EXCEPT !.agentSigner = (action = "Reinstate")]
      [] action \in {"Approve merchant", "Remove merchant"} ->
            [a EXCEPT !.merchant = (action = "Approve merchant")]
      [] action = "Lower limits"            -> [a EXCEPT !.limits = limits]
      [] action = "Recover"                 -> a

executes ==
    LET account == deployments[loading.chain]
    IN  /\ loading.chain = "solana" => "solana" \in Enabled
        /\ accepted(loading.action, loading.limits, account)
        /\ deployments' = [deployments EXCEPT ![loading.chain] =
                              effect(loading.action, loading.limits, account)]

(* The server's submit route, on success: invalidateCache on Stellar.      *)
forget == kept' = IF loading.chain = "stellar" THEN nothing_kept ELSE kept

(* A bug: the panel does not wait for its refresh.                         *)
confirm_at_once ==
    /\ loading.step = "passkey"
    /\ executes /\ forget
    /\ loading' = [step |-> "idle", result |-> "confirmed", after |-> asked]
    /\ begin_refresh
    /\ UNCHANGED <<display_vars, chain, authenticated, armed, asked, left, newest>>

(* It is confirmed, and the panel waits for a refresh.                     *)
confirm ==
    /\ loading.step = "passkey"
    /\ executes /\ forget
    /\ loading' = [step |-> "refresh", id |-> begun + 1, after |-> asked]
    /\ begin_refresh
    /\ UNCHANGED <<display_vars, chain, authenticated, armed, asked, left, newest>>

(* It failed, or was carried out and is not known to have been.            *)
fail ==
    /\ loading.step = "passkey"
    /\ executes \/ UNCHANGED deployments
    /\ loading' = idle("failed")
    /\ UNCHANGED <<kept, display_vars, chain, authenticated, armed, refreshes, begun, asked,
                   left, newest>>

(* The account changes by another hand: another page, or a payment that    *)
(* froze it.                                                               *)
elsewhere(c, action) ==
    /\ deployments' = [deployments EXCEPT ![c] = effect(action, Unknown, @)]
    /\ surprise
    /\ UNCHANGED <<kept, display_vars, press_vars, refreshes, begun, asked, newest>>

-----------------------------------------------------------------------------
(* A refresh, request by request.                                          *)

(* An answer is there, or there is none.                                   *)
arrives(good, bad) == (good /\ UNCHANGED left) \/ (bad /\ surprise)

publicConfig == [chains |-> Enabled, merchantPubkey |-> MERCHANT_PUBKEY]

(* The configuration arrives, and the account of the chain chosen by now is*)
(* asked for.                                                              *)
fetchConfig(r) ==
    /\ r.step = "config"
    /\ arrives(config' = publicConfig, config' = Unknown)
    /\ asked' = asked + 1
    /\ moves_on(r, [r EXCEPT !.step = IF chain = "solana" THEN "account" ELSE "is_frozen",
                             !.number = asked', !.reading.of = chain])
    /\ newest' = chain
    /\ UNCHANGED <<server_vars, policyState, transactions, merchantInfo, form, shown, press_vars>>

(* callContractView: the node's answer, or the default of a call that      *)
(* fails, is the next of the reading.                                      *)
callContractView(r, step, reading, default) ==
    arrives(moves_on(r, [r EXCEPT !.step = step, !.reading = reading]),
            moves_on(r, [r EXCEPT !.step = step, !.reading = default]))

(* A read that fails is not frozen.                                        *)
safeContractBool(r) ==
    /\ r.step = "is_frozen"
    /\ callContractView(r, "get_agent_signer",
          [r.reading EXCEPT !.frozen = deployments["stellar"].frozen], r.reading)
    /\ UNCHANGED kept

(* Or has no signer.                                                       *)
extractBytes(r) ==
    /\ r.step = "get_agent_signer"
    /\ callContractView(r, "is_merchant",
          [r.reading EXCEPT !.agentSigner = deployments["stellar"].agentSigner], r.reading)
    /\ UNCHANGED kept

(* cached: what was kept serves for as long as it does (OwnerConsole is    *)
(* about how long), or the answer is kept, a default too.                  *)
cached(key, answer, default) ==
    \/ kept[key] # {} /\ UNCHANGED <<kept, left>>
    \/ arrives(kept' = [kept EXCEPT ![key] = {answer}], kept' = [kept EXCEPT ![key] = {default}])

isMerchantApproved(r) ==
    /\ r.step = "is_merchant"
    /\ cached("merchant", MERCHANT_PUBKEY /\ deployments["stellar"].merchant, FALSE)
    /\ \E approved \in kept'.merchant :
          moves_on(r, [r EXCEPT !.step = "get_velocity_config",
                                !.reading.merchantApproved = approved])

readLimits(r) ==
    /\ r.step = "get_velocity_config"
    /\ cached("limits", deployments["stellar"].limits, Unknown)
    /\ \E limits \in kept'.limits :
          moves_on(r, [r EXCEPT !.step = "answered", !.reading.limits = limits])

(* readSolanaPolicyState: one read, which fails as a whole, and on a       *)
(* deployment that does not run there.                                     *)
readSolanaPolicyState(r) ==
    /\ r.step = "account"
    /\ LET a == deployments["solana"]
       IN  \/ /\ "solana" \in Enabled
              /\ callContractView(r, "answered",
                    [of |-> "solana", frozen |-> a.frozen, agentSigner |-> a.agentSigner,
                     merchantApproved |-> MERCHANT_PUBKEY /\ a.merchant, limits |-> a.limits],
                    not_connected)
           \/ /\ "solana" \notin Enabled
              /\ moves_on(r, [r EXCEPT !.step = "answered", !.reading = not_connected])
              /\ UNCHANGED left
    /\ UNCHANGED kept

(* readPolicyState, one call to the node after the other.  The window's    *)
(* state is read too, and is only displayed.                               *)
readPolicyState(r) ==
    /\ \/ safeContractBool(r) \/ extractBytes(r) \/ isMerchantApproved(r) \/ readLimits(r)
       \/ readSolanaPolicyState(r)
    /\ UNCHANGED <<deployments, display_vars, press_vars, asked, newest>>

(* The answer is shown, whichever request it is of and whichever chain is  *)
(* chosen; then the payments are asked for.                                *)
fetchPolicyState(r) ==
    /\ r.step = "answered"
    /\ arrives(policyState' = r.reading, policyState' = not_connected)
    /\ form' = IF authenticated THEN LimitsForm(policyState', chain) ELSE Unknown
    /\ shown' = IF r.number > shown THEN r.number ELSE shown
    /\ moves_on(r, [r EXCEPT !.step = "transactions", !.asks = chain])
    /\ UNCHANGED <<server_vars, transactions, merchantInfo, config, press_vars, asked, newest>>

(* The payments of a chain the deployment does not run on are Stellar's.   *)
log_of(c) == IF c \in Enabled THEN c ELSE "stellar"

(* The payments; before signing in, only if a session was kept.            *)
fetchTransactions(r) ==
    /\ r.step = "transactions"
    /\ \/ arrives(transactions' = log_of(r.asks), transactions' = Unknown)
       \/ ~authenticated /\ transactions' = Unknown /\ UNCHANGED left
    /\ moves_on(r, [r EXCEPT !.step = "merchant"])
    /\ UNCHANGED <<server_vars, policyState, merchantInfo, config, form, shown, press_vars,
                   asked, newest>>

(* The merchant, and the refresh is over; so is the action it was for.     *)
fetchMerchantInfo(r) ==
    /\ r.step = "merchant"
    /\ arrives(merchantInfo' = TRUE, merchantInfo' = FALSE)
    /\ refreshes' = refreshes \ {r}
    /\ loading' = IF loading.step = "refresh" /\ loading.id = r.id
                  THEN [step |-> "idle", result |-> "confirmed", after |-> loading.after]
                  ELSE loading
    /\ UNCHANGED <<server_vars, policyState, transactions, config, form, shown, chain,
                   authenticated, armed, begun, asked, newest>>

PanelNext ==
    \/ handleAuth
    \/ \E option \in Options : switchChain(option)
    \/ \E text \in Texts : type(text)
    \/ press
    \/ confirm \/ fail
    \/ \E c \in Options, action \in {"Halt", "Resume", "Revoke", "Remove merchant"} :
          elsewhere(c, action)
    \/ \E r \in refreshes :
          \/ fetchConfig(r) \/ readPolicyState(r) \/ fetchPolicyState(r)
          \/ fetchTransactions(r) \/ fetchMerchantInfo(r)

PanelSpec == PanelInit /\ [][PanelNext]_panel

-----------------------------------------------------------------------------
(* What must hold.                                                         *)

(* The panel turns to the chain its owner chose: whatever is on its way,   *)
(* the state was last asked for of that chain, or is about to be.          *)
NewestIsOfTheChoice ==
    newest = chain \/ \E r \in refreshes : r.step = "config"

(* When an action was confirmed and the panel is free again, an answer     *)
(* asked for after it was carried out has been shown, whichever chain is   *)
(* chosen meanwhile and in whatever order the answers came.                *)
ConfirmedIsShown ==
    loading.step = "idle" /\ loading.result = "confirmed" => shown > loading.after

(* The runbook's controls: once the chosen chain's account is shown, and no*)
(* action is under way, payments can be halted, and once they are, resumed *)
(* and the funds recovered.                                                *)
ControlsAreOffered ==
    authenticated /\ deployed(policyState, chain) /\ loading.step = "idle" =>
        (IF policyState.frozen THEN {"Resume", "Recover"} ELSE {"Halt"}) \subseteq offered
=============================================================================
