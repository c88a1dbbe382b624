---------------------------- MODULE OwnerConsole ----------------------------
(***************************************************************************)
(* The owner's panel after signing in: owner actions prepared, signed with *)
(* the passkey and submitted on either chain (policy/owner-actions.ts,     *)
(* chains/solana/owner-actions.ts, the routes of policy/policy-routes.ts,  *)
(* frontend/src/stellar-ops.ts and App.tsx), and the state of the account  *)
(* read through a cache that lives for a few seconds, one in each instance *)
(* of the serverless backend.                                              *)
(*                                                                         *)
(* Every await of a handler ends a step.  Any of them may fail: the session*)
(* has ended, a node does not answer, the account refuses.  The account is *)
(* what an action can set: whether the merchant is approved, the limits.   *)
(***************************************************************************)
EXTENDS OwnerSignature, FiniteSets, Functions

CONSTANTS
    Tabs,
    Repeats,       \* submit requests that arrive once more
    Servers,       \* instances of the backend
    Readers,       \* requests for the account's state
    Fields,        \* what is read through the cache: "merchant", "limits"
    CACHE_MS, MAX_READ,  \* how long an entry lives, and how long a read takes at most
    VALIDITY,      \* how long a prepared action may be carried out
    Actions,       \* what the owner does: sets a field to a value
    SignatureOf,   \* what the passkey answers: the numbers r and s
    NoCall, Nothing,
    MaxCalls       \* bound on the actions prepared

Chains   == {"stellar", "solana"}
Requests == Tabs \cup Repeats
Serials  == 1..MaxCalls
Calls    == [serial : Serials, chain : Chains, field : Fields, value : BOOLEAN, counter : Nat]
Assertions == [of : Calls, verified : BOOLEAN]

ASSUME ConsoleAssumption ==
    /\ Tabs \cap Repeats = {}
    /\ Actions \subseteq [field : Fields, value : BOOLEAN]
    /\ CACHE_MS \in Nat \ {0} /\ MAX_READ \in Nat /\ VALIDITY \in Nat /\ MaxCalls \in Nat
    /\ SignatureOf \in [Serials -> [r : 1..(CURVE_ORDER - 1), s : 1..(CURVE_ORDER - 1)]]

VARIABLES
    account,     \* on each chain, what each field is
    life,        \* how long each prepared action may still be carried out
    signed,      \* the assertions of the passkey: of which action, was a human verified
    executed,    \* the actions carried out, in order
    sequence,    \* the sequence number of the account that pays the fees on Stellar
    txs,         \* the transactions sent
    request,     \* each tab's action or repeated request: how far, and what it built
    cache, reads,   \* each instance's cache, and each read: what it was told
    \* history
    changed,     \* how long ago each field changed on Stellar
    invalidated  \* the actions whose success emptied each instance's cache

chain_vars == <<account, executed, sequence, txs, life, changed>>
owner_vars == <<signed, request>>
cache_vars == <<cache, reads, invalidated>>
vars       == <<chain_vars, owner_vars, cache_vars>>

LONGEST == MAX_READ + CACHE_MS

(* The records are of the right shape, and what is sent was signed.        *)
TypeOK ==
    /\ account \in [Chains -> [Fields -> BOOLEAN]]
    /\ life \in [Serials -> 0..(VALIDITY + 1)]
    /\ signed \subseteq Assertions
    /\ \A tx \in txs : tx.by \in signed /\ tx.status \in {"sent", "success", "failed"}
    /\ \A r \in Requests :
          /\ request[r].step \in {"none", "prompt", "submit", "send", "poll", "done", "failed"}
          /\ request[r].call \in Calls \cup {NoCall}
    /\ \A v \in Servers, f \in Fields : cache[v][f] # Nothing =>
          cache[v][f].value \in BOOLEAN \cup {Nothing} /\ cache[v][f].age \in 0..(CACHE_MS - 1)
    /\ changed \in [Fields -> 0..LONGEST]

nothing == [step |-> "none", call |-> NoCall, by |-> Nothing, sequence |-> 0]
no_read == [step |-> "none", server |-> Nothing, field |-> Nothing, value |-> Nothing,
            failed |-> FALSE, seen |-> 0, lasted |-> 0, raced |-> FALSE]
empty == [f \in Fields |-> Nothing]

Init ==
    /\ account \in [Chains -> {[f \in Fields |-> FALSE]}]
    /\ life = [s \in Serials |-> VALIDITY + 1]   \* not prepared yet
    /\ signed = {} /\ executed = << >> /\ txs = {}
    /\ sequence = 0
    /\ request = [r \in Requests |-> nothing]
    /\ cache = [v \in Servers |-> empty]
    /\ reads = [r \in Readers |-> no_read]
    /\ changed = [f \in Fields |-> LONGEST]
    /\ invalidated = [v \in Servers |-> {}]

moves(r, step) == request' = [request EXCEPT ![r].step = step]
ends(r, step) == request' = [request EXCEPT ![r] = [nothing EXCEPT !.step = step]]
carried_out(chain) == {i \in DOMAIN executed : executed[i].chain = chain}

-----------------------------------------------------------------------------
(* The tab: runOwnerAction.                                                *)

Resting == {"none", "done", "failed"}

(* prepareOwnerAction: the host, simulating the call, names a fresh nonce. *)
prepareOwnerAction(s, action) ==
    [serial |-> s, chain |-> "stellar", field |-> action.field, value |-> action.value,
     counter |-> 0]

(* prepareSolanaOwnerAction: the account's counter, as it is now.          *)
prepareSolanaOwnerAction(s, action) ==
    [serial |-> s, chain |-> "solana", field |-> action.field, value |-> action.value,
     counter |-> Cardinality(carried_out("solana"))]

(* The prepare request: the session is good, and the answer says what to   *)
(* sign.                                                                   *)
prepare(t) ==
    /\ request[t].step \in Resting
    /\ \E s \in Serials, action \in Actions :
          /\ life[s] > VALIDITY /\ \A u \in 1..(s - 1) : life[u] <= VALIDITY
          /\ life' = [life EXCEPT ![s] = VALIDITY]
          /\ \E call \in {prepareOwnerAction(s, action), prepareSolanaOwnerAction(s, action)} :
                request' = [request EXCEPT ![t] =
                                [nothing EXCEPT !.step = "prompt", !.call = call]]
    /\ UNCHANGED <<account, executed, sequence, txs, changed, signed, cache_vars>>

(* The passkey signs exactly what was prepared, and it is submitted; the   *)
(* authenticator says whether it verified who was there.                   *)
sign(t) ==
    /\ request[t].step = "prompt"
    /\ \E verified \in BOOLEAN :
          LET assertion == [of |-> request[t].call, verified |-> verified]
          IN  /\ signed' = signed \cup {assertion}
              /\ request' = [request EXCEPT ![t].step = "submit", ![t].by = assertion]
    /\ UNCHANGED <<chain_vars, cache_vars>>

(* The prompt is dismissed, or times out.                                  *)
dismiss(t) ==
    /\ request[t].step = "prompt"
    /\ ends(t, "failed")
    /\ UNCHANGED <<chain_vars, signed, cache_vars>>

-----------------------------------------------------------------------------
(* The server's submit requests.                                           *)

(* A request arrives once more, or with the assertion of another action.   *)
repeat(r) ==
    /\ request[r] = nothing
    /\ \E a, b \in signed :
          request' = [request EXCEPT ![r] =
                          [nothing EXCEPT !.step = "submit", !.call = a.of, !.by = b]]
    /\ UNCHANGED <<chain_vars, signed, cache_vars>>

(* A bug: any assertion of the owner's will do.                            *)
verify_passkey_any(call, assertion) == assertion.verified

(* verify_passkey, and authorize on Solana: a human was verified, and this *)
(* very action is what the assertion is of.                                *)
verify_passkey(call, assertion) == assertion.verified /\ assertion.of = call

(* What makes a prepared action good: the passkey's assertion, that it has *)
(* not run out, and that neither its nonce nor the counter has been used.  *)
proof_holds(call, assertion) ==
    /\ verify_passkey(call, assertion)
    /\ life[call.serial] > 0
    /\ IF call.chain = "stellar"
       THEN \A i \in DOMAIN executed : executed[i].serial # call.serial
       ELSE call.counter = Cardinality(carried_out("solana"))

(* buildOwnerSignature: each assertion's signature as it is submitted.     *)
raw_signature ==
    [s \in Serials |-> derToRawSignature([r |-> der(SignatureOf[s].r),
                                          s |-> der(SignatureOf[s].s)])]

(* submitOwnerAction up to the transaction: the fee account's sequence     *)
(* number, and a simulation that agrees.                                   *)
submitOwnerAction(r) ==
    /\ request[r].call.chain = "stellar"
    /\ proof_holds(request[r].call, request[r].by)
    /\ request' = [request EXCEPT ![r].step = "send", ![r].sequence = sequence]

(* verifySolanaOwnerAssertion only asks whose signature it is, so up to the*)
(* transaction nothing of the action is checked.                           *)
submitSolanaOwnerAction(r) ==
    request[r].call.chain = "solana" /\ moves(r, "send")

(* The submit request: the session, then one of the two; any read fails.   *)
submit(r) ==
    /\ request[r].step = "submit"
    /\ submitOwnerAction(r) \/ submitSolanaOwnerAction(r) \/ ends(r, "failed")
    /\ UNCHANGED <<chain_vars, signed, cache_vars>>

transaction(r) ==
    [call |-> request[r].call, by |-> request[r].by, sequence |-> request[r].sequence,
     signature |-> raw_signature[request[r].by.of.serial], status |-> "sent"]

(* sendTransaction on Stellar: refused if the sequence number is past.     *)
send_stellar(tx) == tx.call.chain = "stellar" /\ tx.sequence = sequence

(* sendTransaction on Solana: the node runs it first.                      *)
send_solana(tx) == tx.call.chain = "solana" /\ proof_holds(tx.call, tx.by)

(* The transaction is passed on; an error of the call may hide that it was.*)
send(r) ==
    /\ request[r].step = "send"
    /\ \/ /\ send_stellar(transaction(r)) \/ send_solana(transaction(r))
          /\ txs' = txs \cup {transaction(r)}
          /\ moves(r, "poll") \/ ends(r, "failed")
       \/ ends(r, "failed") /\ UNCHANGED txs
    /\ UNCHANGED <<account, executed, sequence, life, changed, signed, cache_vars>>

mine(r) == {tx \in txs : /\ tx.call = request[r].call /\ tx.by = request[r].by
                         /\ tx.sequence = request[r].sequence}

(* What the instance's reads have been answered already is from before.    *)
overtaken(v) ==
    [r \in Readers |-> IF reads[r].server = v /\ reads[r].step = "answered"
                       THEN [reads[r] EXCEPT !.raced = TRUE] ELSE reads[r]]

(* A bug: the cache keeps what it has.                                     *)
invalidateCache_keeping(v, call) ==
    IF call.chain = "stellar"
    THEN /\ UNCHANGED cache
         /\ reads' = overtaken(v)
         /\ invalidated' = [invalidated EXCEPT ![v] = @ \cup {call}]
    ELSE UNCHANGED cache_vars

(* invalidateCache, after an action on Stellar: of this instance alone.    *)
invalidateCache(v, call) ==
    IF call.chain = "stellar"
    THEN /\ cache' = [cache EXCEPT ![v] = empty]
         /\ reads' = overtaken(v)
         /\ invalidated' = [invalidated EXCEPT ![v] = @ \cup {call}]
    ELSE UNCHANGED cache_vars

(* In the instance that handled the request, whichever it was.             *)
confirmed(r, call) == ends(r, "done") /\ \E v \in Servers : invalidateCache(v, call)

(* A bug: a transaction that is not found in time is taken for done.       *)
poll_hopefully(r) ==
    /\ request[r].step = "poll"
    /\ \/ \E tx \in mine(r) :
             tx.status # "failed" /\ confirmed(r, tx.call)
       \/ ends(r, "failed") /\ UNCHANGED cache_vars
    /\ UNCHANGED <<chain_vars, signed>>

(* A bug: a transaction that is not found is waited for for ever.          *)
poll_forever(r) ==
    /\ request[r].step = "poll"
    /\ \E tx \in mine(r) :
          \/ tx.status = "success" /\ confirmed(r, tx.call)
          \/ tx.status = "failed" /\ ends(r, "failed") /\ UNCHANGED cache_vars
    /\ UNCHANGED <<chain_vars, signed>>

(* Polling: the transaction succeeded, or it failed, or was not found in   *)
(* thirty attempts.                                                        *)
poll(r) ==
    /\ request[r].step = "poll"
    /\ \/ \E tx \in mine(r) :
             tx.status = "success" /\ confirmed(r, tx.call)
       \/ ends(r, "failed") /\ UNCHANGED cache_vars
    /\ UNCHANGED <<chain_vars, signed>>

Handle(r) == submit(r) \/ send(r) \/ poll(r)

-----------------------------------------------------------------------------
(* The chains.                                                             *)

(* A transaction lands, whoever still waits for it: on Stellar only in the *)
(* turn of its sequence number.  It fails if its proof no longer holds.    *)
Land(tx) ==
    LET outcome == IF proof_holds(tx.call, tx.by) THEN "success" ELSE "failed"
    IN  /\ tx.status = "sent"
        /\ IF tx.call.chain = "stellar"
           THEN tx.sequence = sequence /\ sequence' = sequence + 1
           ELSE UNCHANGED sequence
        /\ txs' = (txs \ {tx}) \cup {[tx EXCEPT !.status = outcome]}
        /\ IF outcome = "success"
           THEN /\ account' = [account EXCEPT ![tx.call.chain][tx.call.field] = tx.call.value]
                /\ executed' = Append(executed, tx.call)
           ELSE UNCHANGED <<account, executed>>
        /\ changed' = [f \in Fields |-> IF account'["stellar"][f] # account["stellar"][f]
                                        THEN 0 ELSE changed[f]]
        /\ UNCHANGED <<life, owner_vars, cache_vars>>

-----------------------------------------------------------------------------
(* Reading the account's state: cached.                                    *)

(* A bug: an entry never grows old.                                        *)
aged_never(entry) == entry

(* An entry past its lifetime is as good as none.                          *)
aged(entry) ==
    IF entry = Nothing \/ entry.age + 1 = CACHE_MS THEN Nothing
    ELSE [entry EXCEPT !.age = @ + 1]

(* A miss, in the instance the request comes to; a hit answers at once and *)
(* changes nothing.                                                        *)
ask(r) ==
    /\ reads[r] = no_read
    /\ \E v \in Servers, f \in Fields :
          /\ cache[v][f] = Nothing
          /\ reads' = [reads EXCEPT ![r] =
                          [no_read EXCEPT !.step = "asked", !.server = v, !.field = f]]
    /\ UNCHANGED <<chain_vars, owner_vars, cache, invalidated>>

(* isMerchantApproved and readLimits answer a failure by a value: the      *)
(* merchant is not approved, there are no limits.                          *)
default(f) == IF f = "merchant" THEN FALSE ELSE Nothing

(* The node's answer, as of now, or a failure.                             *)
answer(r) ==
    /\ reads[r].step = "asked"
    /\ \E failed \in BOOLEAN :
          reads' = [reads EXCEPT ![r].step = "answered",
                                 ![r].value = IF failed THEN default(reads[r].field)
                                              ELSE account["stellar"][reads[r].field],
                                 ![r].failed = failed, ![r].seen = Len(executed)]
    /\ UNCHANGED <<chain_vars, owner_vars, cache, invalidated>>

(* It arrives, and is kept from now on, a failure's value like any other.  *)
store(r) ==
    /\ reads[r].step = "answered"
    /\ cache' = [cache EXCEPT ![reads[r].server][reads[r].field] =
                    [value |-> reads[r].value, age |-> 0, failed |-> reads[r].failed,
                     seen |-> reads[r].seen, raced |-> reads[r].raced]]
    /\ reads' = [reads EXCEPT ![r] = no_read]
    /\ UNCHANGED <<chain_vars, owner_vars, invalidated>>

(* An instance ends, and another takes its place: with it go its cache and *)
(* its reads.                                                              *)
recycle(v) ==
    /\ cache' = [cache EXCEPT ![v] = empty]
    /\ reads' = [r \in Readers |-> IF reads[r].server = v THEN no_read ELSE reads[r]]
    /\ UNCHANGED <<chain_vars, owner_vars, invalidated>>

(* Time passes, but no read takes longer than MAX_READ.                    *)
Tick ==
    /\ \A r \in Readers : reads[r].step # "none" => reads[r].lasted < MAX_READ
    /\ reads' = [r \in Readers |-> IF reads[r].step = "none" THEN reads[r]
                                   ELSE [reads[r] EXCEPT !.lasted = @ + 1]]
    /\ cache' = [v \in Servers |-> [f \in Fields |-> aged(cache[v][f])]]
    /\ life' = [s \in Serials |-> IF life[s] \in 1..VALIDITY THEN life[s] - 1 ELSE life[s]]
    /\ changed' = [f \in Fields |-> IF changed[f] < LONGEST THEN changed[f] + 1 ELSE LONGEST]
    /\ UNCHANGED <<account, executed, sequence, txs, owner_vars, invalidated>>

Next ==
    \/ \E t \in Tabs : prepare(t) \/ sign(t) \/ dismiss(t)
    \/ \E r \in Repeats : repeat(r)
    \/ \E r \in Requests : Handle(r)
    \/ \E tx \in txs : Land(tx)
    \/ \E r \in Readers : ask(r) \/ answer(r) \/ store(r)
    \/ \E v \in Servers : recycle(v)
    \/ Tick

(* The prompt is answered or times out, the handlers' awaits return, time  *)
(* passes; a transaction need not land.                                    *)
Fairness ==
    /\ \A t \in Tabs : WF_vars(sign(t) \/ dismiss(t))
    /\ \A r \in Requests : WF_vars(Handle(r))
    /\ \A r \in Readers : WF_vars(answer(r) \/ store(r))
    /\ WF_vars(Tick)

Spec == Init /\ [][Next]_vars /\ Fairness

-----------------------------------------------------------------------------
(* What must hold.                                                         *)

(* An assertion moves the account once: whatever is submitted twice or with*)
(* another action's assertion, lands late, or is prepared on top of another*)
(* action, none is carried out that the passkey did not sign for a verified*)
(* owner, and none a second time.                                          *)
EachAssertionOnce ==
    /\ \A i \in DOMAIN executed : [of |-> executed[i], verified |-> TRUE] \in signed
    /\ \A i, j \in DOMAIN executed : executed[i].serial = executed[j].serial => i = j

(* What is reported as confirmed was done: a request that ends well had its*)
(* own action carried out.  (One that fails may have been, too.)           *)
ConfirmedIsDone ==
    [][\A r \in Requests :
          request[r].step # "done" /\ request'[r].step = "done"
              => request[r].call \in Range(executed)]_vars

(* owner-signature.ts: an assertion the chain would accept is not spoiled  *)
(* on its way, whatever zeros its numbers lead with and whichever half of  *)
(* the curve s is on.                                                      *)
SignaturesSurvive ==
    \A tx \in txs : LET numbers == SignatureOf[tx.by.of.serial]
                    IN  verifies(tx.signature, numbers.r, numbers.s)

wrong(v, f) == cache[v][f] # Nothing /\ cache[v][f].value # account["stellar"][f]

(* Some action on the field, after that many, which the instance was not   *)
(* the one to see confirmed.                                               *)
unseen(v, f, seen) ==
    \E i \in DOMAIN executed :
        /\ i > seen
        /\ executed[i].chain = "stellar" /\ executed[i].field = f
        /\ executed[i] \notin invalidated[v]

(* After a confirmed action the panel shows the account as it is.  An entry*)
(* that is not the value of a failed read is wrong only since an action    *)
(* carried out after its read was answered, and whose confirmation did not *)
(* come by this instance; or when it was answered before an invalidation   *)
(* and kept after it.                                                      *)
ConfirmedIsSeen ==
    \A v \in Servers, f \in Fields :
        wrong(v, f) /\ ~cache[v][f].failed =>
            unseen(v, f, cache[v][f].seen) \/ cache[v][f].raced

(* Even then, and in every instance, such an entry is wrong for no longer  *)
(* than one read and one lifetime of the cache.  (The value of a failed    *)
(* read lasts one lifetime, too, but the next read may fail again.)        *)
StaleAtMostSoLong ==
    \A v \in Servers, f \in Fields :
        wrong(v, f) /\ ~cache[v][f].failed => changed[f] < LONGEST

(* Every action the owner begins is answered.                              *)
AttemptsEnd ==
    \A t \in Tabs : request[t].step \notin Resting ~> request[t].step \in Resting
=============================================================================
