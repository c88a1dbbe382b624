# A verification of Beaver402

TLA+ models of the parts of Beaver402 that decide where money goes and who is let in, checked with
TLC on small instances and, where it matters most, proved with TLAPS for every instance.

Beaver402 lets an agent pay for HTTP resources (x402, status 402) from an account that its owner
controls. The owner creates a *policy account* (a Soroban contract, or a PDA of a Solana program),
sets limits and allowed merchants, and delegates one key to the agent. The agent never holds the
money: the account accepts a payment only when the merchant and the agent both signed for exactly
the transfer being made, and only within limits that can never be loosened.

## 1. Inventory

| Part | State it keeps | Operations | What is hard |
|---|---|---|---|
| Soroban policy account, `contracts/payment_policy` | frozen flag, agent key, merchants, limits, a fixed list of payment slots | constructor, 8 owner actions, authorization of a payment, `publish_proof` | slots are reused and serve three purposes; limits change under recorded payments; batches of calls under one signature |
| Solana policy program, `solana/programs/beaver402_policy` | the same, and an owner nonce | the same without `publish_proof`, with signatures read from other instructions | the same; owner challenges prepared before another lands |
| Merchant middleware, `backend/src/merchant`, `chains/solana/{merchant,settlement}` | the record of settlements | answer 402, or verify, settle, confirm, record, announce, release | six awaits; concurrent requests; a facilitator that errs; crashes; timeouts |
| Agent's paid fetch, MCP tool, adapters: `backend/src/agent`, `mcp`, `adapter` | none between calls, a payment log | two fetches around a payment | what to report when the second answer is missing or bad |
| Owner actions and policy routes, `backend/src/policy` | a state cache in each instance of the backend | prepare, submit, read | a fill racing an invalidation, caches that are not told, failed reads kept; nonces |
| Passkeys and sessions, `backend/src/passkey`, `lib/sessions` | challenges remembered, signature counters | registration, login, owner assertions | concurrent ceremonies of one user |
| Rate limiter, `lib/rate-limit` | counters | admit | window boundaries, pruning, a failing store |
| Event collector and status, `backend/src/ops` | a cursor, stored events | collect, report | event retention, gaps, a first run that is not told where the account began |
| Encoding and hashing | none | pure | byte layouts, in three languages; DER signatures of any length |
| Frontend | a session, what a tab is busy with; the chosen chain, the state shown, the limits form, what is armed | sign in, owner action, switch chain, refresh | prompts and requests that are never answered; refreshes that overlap and whose answers arrive in any order |
| Scripts, configuration, HTTP application | none | | |

How they interact: a client calls the merchant, which answers 402 with a signed challenge per
chain. The adapter has the account authorize the challenge's transfer (simulating it), and the
client calls again with the authorization. On Stellar the merchant gives it to a facilitator, which
simulates and submits it; on Solana the merchant submits it itself. The chain runs the account's
`__check_auth`, which records the payment, and the token transfer, in one transaction. The merchant
looks for the transfer on the ledger, records it, asks the account to announce the proof of intent,
and releases the resource. Anyone may call `publish_proof`. The owner signs in with a passkey (a
ceremony over a challenge the server remembers), reads the account's state through a short-lived
cache, and changes the policy by an action prepared by the server, signed by the passkey and
submitted by the server. A cron copies the account's events from an RPC node into the database. The
rate limiter stands before the routes.

`PROJECT.json` lists the hazards by line, and each part with how far it is modelled. What makes each
modelled part correct:

- *account*, on either chain: the limits of creation are a ceiling for ever; a challenge is paid once
  and only while it lives; money leaves only by recorded payments and recovery; on Soroban, proofs
  tell the truth and a freeze is not silent;
- *Solana program*, besides: it believes only what a precompile verified in its own transaction, so
  every payment and owner action is one somebody signed, and each assertion is used once;
- *a payment on Solana*: adapter, merchant and program read one transaction in three places and two
  languages: what the merchant takes for settled was paid to it for that request, and it does not turn
  down what the agent builds for it;
- *merchant*: nothing is released without a settlement of its payer, one settlement unlocks one
  resource, and the resource is the one paid for; the last two as far as the facilitator is honest
  (with a lying one and two spellings of a hash the code does not keep the second: run `spelled`);
- *agent*: its key signs only what was agreed, whatever answer came back; a call that reports it paid
  did pay, for what it got; a call that reports its payment did not go through spent nothing (the
  code does not keep the last: run `unpaid`);
- *sign-in*: a session is earned by one assertion over one challenge; the owner is never locked out
  by a counter; every attempt ends;
- *owner actions*: an assertion moves the account once; what is confirmed was done; what the
  panel was truly told is out of date only for a bounded time;
- *the page*: it turns to the chain its owner chose, and shows what a confirmed action did; the controls
  of an incident are there when the account is shown (the code does not keep the last: run `hidden`);
- *rate limiter*: it refuses only who used up the allowance, and lets through at most twice of it;
- *collector*: what lies behind its cursor is stored or reported as lost, or lies before the start of
  a first run that was not told of the account's deployment; it catches up.

## 2. Modules

| Module | Models | Notes |
|---|---|---|
| `VelocityWindow` | `velocity.rs` of both chains | pure operators on the slots: `counts`, `summarize`, `fits`, `fills`, `is_free`, `is_valid`, `only_reduces` |
| `PolicyAuthorization` | `__check_auth`, `count_owner_actions`, `check_settlement` | pure operators on a batch of calls |
| `PaymentPolicy` | the Soroban contract's `lib.rs` | the account's storage, one action per entry point, extends the two above |
| `SolanaPolicy` | the Solana program: `lib.rs`, `owner.rs`, `introspection.rs`, `state.rs` | one action per instruction, and the passkey that signs |
| `SolanaPayment` | `chains/solana/{adapter,program,merchant,settlement}.ts`, the accounts of `pay` | the transaction the agent builds, the merchant reads, submits and confirms, and the program executes; extends `SolanaPolicy` |
| `SpendingMandate` | nothing: an abstraction | what an account promises its owner, with no slots, keys or allowlists; both accounts implement it |
| `MerchantGate` | `x402-merchant.ts`, `payment-binding.ts`, `challenge-signer.ts`, `settlement.ts`, `chains/solana/{merchant,settlement}.ts` | one action per await of the handler |
| `Turnstile` | nothing: an abstraction | paid coins, and customers let in on a coin each |
| `PaymentAdapter` | `x402-client.ts`, `multi-chain.ts`, `buyer-intent.ts`, `chains/solana/adapter.ts` | pure operators: which offer is chosen, what is checked before anything is signed, what the payment moves |
| `PaidExchange` | `paid-fetch.ts`, `mcp/server.ts` | the agent's calls, with `PaymentAdapter`, against `MerchantGate` and other clients |
| `PasskeyCeremony` | `webauthn-server.ts`, `passkey-routes.ts`, `sessions.ts`, `passkey-auth.ts` | both ceremonies from a tab's click to the session |
| `RateLimiter` | `rate-limit.ts`, `hit_rate_limit` of the migration | the two stores asked about the same requests |
| `OwnerSignature` | `owner-signature.ts` | pure operators: DER to the bytes the chains verify |
| `OwnerConsole` | both `owner-actions.ts`, `policy-routes.ts`, `passkey.rs`, `stellar-ops.ts`, part of `App.tsx` | prepare, sign, submit, send, poll; cached reads beside them |
| `ControlPanel` | `App.tsx`, the requests of `stellar-ops.ts`, the reads of `policy-routes.ts` | the page: chain switch, refreshes request by request, controls, limits form |
| `EventCollector` | `ops/collector.ts`, the start of a run in `ops-routes.ts` | one action per call of a run, and the node's window |
| `VelocityWindowProofs` | | lemmas: sums over finite sets, and payments held in slots against the window's summary |
| `PaymentPolicyProofs`, `SolanaPolicyProofs` | | theorems about the two accounts, and about `SolanaPayment` |
| `MerchantGateProofs` | | theorems about `MerchantGate` with a database and without, and about `PaidExchange` |
| `PasskeyCeremonyProofs`, `RateLimiterProofs`, `OwnerConsoleProofs`, `EventCollectorProofs` | | theorems about the module each is named for; `OwnerConsoleProofs` has `ControlPanel`'s too |
| `MC*` | | instances for TLC |

### The account

`now`, `frozen`, `agent_signer`, `merchants`, `velocity_config` and `slots` are the contract's
storage entries; `balance` is what the token contract holds for it. The other variables are
history: the limits of creation, every payment with its time, what came in and went out, how often
each proof was announced, and whether the owner asked for the present freeze. Every action is a
transaction that succeeds; a refused one unwinds and is a stuttering step. Several transactions
share a ledger, so only `Tick` moves the clock.

`pay` is the whole of one payment: `__check_auth` on the agent path, `velocity::record` (nonce,
limits, free slot, freeze) and the transfer, which fails when the balance does not cover it.
Signatures are not modelled: a challenge stands for its hash, so one signed over other fields is
another challenge; `MAX_CHALLENGE_LIFETIME` and `MAX_TRACKED_PAYMENTS` (900 and 16 in the code) are
constants. Amounts and times are unbounded integers: the code's `checked_add` and `saturating_sub`
refuse or saturate where these would go on, beyond any amount `is_valid` limits let through.

### The Solana program

The state is `PolicyAccount`'s, with all the slots from the start and a list of merchants that swaps
the last entry into a hole. What is different is authorization. A transaction has a *layout*: the
program of each instruction, how many signatures its precompile instruction verifies, and whether
the bytes it points at lie `inside` it. The runtime (`precompile_passes`) promises only that the
bytes pointed at inside are genuine; `verified_by_precompile` is what the program checks. `sign` is
the owner's passkey, which answers challenges over the counter of that moment; a transaction may
present any assertion that was made, or one that was made up. `pay` is signed by the agent as a
Solana signer, which the runtime checks.

### A payment on Solana

`SolanaPayment` puts that program beside the merchant who submits the payments. A transaction is a
record of what its readers look at: fee payer, lookup tables, who signed, the layout, the
precompile's instruction (key, what its signature signs, the message) and the program's (its
accounts, and the terms that are its arguments). `paymentTransaction` is what the adapter builds.
`readSolanaPayment` and `bindPaymentToRequest` are the merchant's reading, `well_formed` the
program's constraints, and `Land` is `pay` in the state the account is in by then; so each side's
checks stand as its own code has them. A request's `step` is its await, like in `MerchantGate`, from
`present` through `submit` to `poll`. `Transactions` is what may be presented: all that the agent
could build, and each of these with any one thing changed.

What is simpler than the code: merchant and cluster share one clock; a node's preflight may refuse
any transaction, and one that fails on the ledger leaves no more than one that was dropped; the
merchant does not look where the precompile's offsets point (nor does the code: that is the
program's to check). The record of settlements and the release are `MerchantGate`'s. `KeyAssumption`
says that the address that pays the fee is not one derived for an account, since those have no
private key.

### The merchant and the agent

A request's `step` is the await its handler stands at. `payment` is what it presented, `named` the
name of the transaction it is said to have settled in. On the ledger a transaction stands for the
payment it settles, since an authorization settles once; its *name* is the transaction and one of the
`Spellings` of its hash. `confirmSettlement` accepts either case (`settlement.ts:64`) and asks the node,
which reads all spellings alike (`on_ledger`); `recordSettlement` compares the text, so the record's
uniqueness is of names (`is_new`). The facilitator and the nodes are external. With
`HonestFacilitator` a positive answer is true at the moment it is given, in whatever spelling; without
it, `verify` may answer anything and `settle` may name any transaction. On Solana the merchant writes
the signature itself (`Canonical`). With `DurableRecord` the record is a database table and an insert
may fail, before or after it stored the row; without it the record is memory, and a `Restart` empties
it. Requests in progress at a restart get no answer (`gone`).

The models assume one merchant process when the record is in memory, and a Solana node that knows a
transaction already processed (it refuses it at preflight). How a Solana transaction and a transfer's
balance changes are read back (`readSolanaPayment`, `confirmTransfer`) is abstracted here to what they
decide; `SolanaPayment` has them field by field.

`PaidExchange` adds the agent's view: `phase` of each call, what it was `offered`, the chain its
caller `requested`, what it `prepared`, and as history what its key has `authorized`. The 402 answer is
the merchant's, or the same with one thing garbled (a field of the requirements, of the challenge,
both, the sponsoring, the signature, a challenge of another request). Other clients present any
payment there is. A call may lose its answer at any moment after it sent its payment.

### Signing in and the rate limit

`at` is how far a tab is, `handler` how far the server's finish request of it is; each call of the
database is a step that may fail before or after it took effect. `pending` is the user's one row of
`webauthn_challenges`, `stored` the credentials with the counters on record, `keys` the devices' own
counters. A finish request may arrive a second time (`repeat`). What `verifyRegistrationResponse` and
`verifyAuthenticationResponse` do is external, modelled as: the answer is over the challenge taken, by
a key on record, with a counter that rises (or stays 0). `RateLimiter` keeps both stores' counts for
the same requests, so that they can be compared.

### Owner actions

A prepared action is a record with a serial number (its nonce on Stellar, its place in `life`), the
chain, what it sets, and on Solana the program's counter. An assertion says which action it is of and
whether a human was verified. `submit`, `send` and `poll` are the server's awaits; a transaction that
was sent lands later or never (`Land`), on Stellar only in the turn of its fee account's sequence
number. The account is only what an action sets; `SolanaPolicy` and `PaymentPolicy` have the rest.

Each of the `Servers`, the instances of the serverless backend, has a cache of its own, and loses it
when its place is taken by another (`recycle`); any of them may handle any request. A cached read has
three steps, `ask`, `answer` and `store`, and an invalidation may fall between any two; it empties
the cache of the instance that saw the action confirmed and of no other. An `answer` may be a failure,
whose `default` (not approved, no limits) is kept like any value. As history, an entry says whether it
is such a default (`failed`), how many actions were carried out before its read was answered (`seen`),
and whether that was before an invalidation and kept after it (`raced`). The two properties about the
cache are about entries that are not defaults: of those the code promises nothing (`hidden` shows what
comes of one).

### The page

`ControlPanel` is the other side of `OwnerConsole`: what the owner sees and may press. `deployments` is
the account on each chain, `kept` the server's two cached reads, the other variables are React's
states. Up to `Together` `refreshes` are on their way; each asks for the configuration, the state, the
payments and the merchant in that order, and takes the chosen chain anew at every request. The state
of the Stellar account is read call by call, so it may mix moments; one that fails is its default.
`command`, `approval` and `controls` are the buttons the page draws, `offered` those that are not
disabled. An owner action is one step between its press and its outcome here, since `OwnerConsole`
has what lies between; it may be carried out and be reported as failed. What the window has
used, the payments' contents and all styling are displayed and decide nothing, and are left out.
Amounts are numbers of the finest fraction either chain writes.

### The collector

`CREATED` is the ledger the account was deployed in, `Settings` what `POLICY_DEPLOY_LEDGER` may say of
it, with 0 for a variable that is not set: `operating-guide.md:55` asks for it and nothing requires
it. A first run that is told rightly starts there, or reports what had left the node's window before;
one that is not told starts where the node does, and says nothing of what was before (`unasked`, a
history, collects those ledgers when such a run ends well). A position is a ledger's number and a
place in it, as in the node's cursors. A `run` holds what `collect` holds in its locals;
`collector_state` is the row. `fail` is a call that fails or a process
that ends, at any call, with or without the row put back; `refused` a node that is asked for a
position it no longer holds. While a run is under way the window moves only as far as what it has yet
to read (`outpaced`): a run takes seconds, a window days.

## 3. Runs

All runs say `CHECK_DEADLOCK FALSE`: the clocks, the challenges and the requests are bounded, and
the systems stop when they are used up.

| Run | Instance | Shows |
|---|---|---|
| `core` | lifetime 2, windows 3 and 4, up to 3 slots, 5 challenges over 3 nonces, 4 configurations of which one is invalid, time to 6 | the account's invariants, and that it implements `SpendingMandate` |
| `funds` | lifetime 2, windows 3 and 2, 2 tokens, 2 agents, 2 merchants, 9 challenges of which most fail one check, 9 batches that hide something, a balance too small for both good payments, time to 3 | accounting, proofs, freezes; and, where the window is only as long as a challenge may live, that one is paid again only as it expires |
| `widened` | window 3, then 4 | violated: a reused slot's payment does not count in the longer window |
| `program` | 2 merchants in a list with room for 2, 3 signed challenges and a forged one, 3 layouts, 10 things the passkey may sign, 3 assertions, window 3, time to 4; and the merchant: 2 requests, the same 3 challenges (one for another request) and the forged one, 2 blockhashes, 1 agent, the fee payer is who is paid, as on devnet | owner actions and payments are ones that were signed, once each; the list, the vault; `SpendingMandate` again; what is settled was paid for its request, and the agent's transactions are read |
| `gate` | Stellar only; 2 requests for different resources, 2 challenges, 5 payments of 2 payers, 2 spellings of a hash, any facilitator, a database, 1 restart; and the collector: 2 runs (the cron and one by hand), pages and windows of 2, the account deployed in ledger 2, the setting right or missing, 5 ledgers, 1 failure | the merchant releases on settlements only, once for a challenge and for a name; the collector loses nothing behind its start unreported and catches up |
| `spelled` | as `gate`, with no restart | violated: one settlement, named in two spellings, unlocks two resources |
| `gap` | the cron's run, 2 events an answer, no failure | violated: a run reports as lost, ledgers an earlier run had read |
| `exchange` | 3 requests, one of them the agent's, 8 payments, answers garbled in one place, an honest facilitator that spells a hash in either of 2 ways, both chains, memory, 1 restart | the merchant implements `Turnstile`; what is released is what was paid for; what the agent signs and reports |
| `unpaid` | 2 requests | violated: a call reports that its payment did not go through, and it settled |
| `login` | 2 tabs, a device that counts and one that does not, a repeated request, 2 challenges; and the limiter: 2 callers, 6 requests, window 2, allowance 2, room for 1 caller, time to 5 | sessions, counters, that attempts end; the limit's two bounds, and that both stores agree |
| `panel` | 1 tab, a repeated or crossed request, 2 instances of the backend and a reader of one of them, 2 actions on either chain the first an approval, lifetimes of 1; bytes of 4 values, 2 to a number, order 13; and the page: 2 refreshes at once, 2 surprises (a press, a text, a switch, a failure, another hand) | owner actions, their signatures, and the caches beside them; the page turns to the chain chosen and shows what was confirmed |
| `hidden` | the page, 3 surprises | violated: the controls that halt, resume and recover are not there |

`gate`, `login` and `panel` each explore two components that share no state, one while the other is
in its initial state. Each is then checked in all of its own behaviours, and the product of the two,
which could say nothing more, is not built. `program` is bounded in a like way, though its parts do
share the account: owner actions are explored with no request under way, and requests from accounts
in which the owner has only added the merchant, with payments, executions and time going on beside
them. Owner actions in between requests are covered by the theorem. Its symmetry exchanges requests
(both are for the same endpoint) and blockhashes, which nothing tells apart.

Why these bounds are enough for what is asked. The account's hazards need a slot to be reused: the
payments of a window that has room for 3 end, and others follow, within 6 units of time. Both limits
must be able to fill first, and limits be reduced in between. Two payments with one nonce and
different lives are needed for replay, and one more challenge to take the slot. The program's
merchant list needs to be full, and its first entry removed; three assertions are enough to prepare
two against one counter. A payment on Solana needs two requests that could share a challenge, a
challenge of another request, and two blockhashes, so that one challenge can be in two transactions.
For the merchant two requests are needed to compete for a settlement, a third in `exchange` so that
the agent's call competes with a client for the same resource and one for the other; one restart
divides the record in a before and an after. Two spellings are what a settlement needs to unlock
twice. `gate` leaves Solana to `exchange`: no facilitator names its settlements. A ceremony's
hazards are two of one user, and the same request twice. The limiter's are a window's two edges:
four requests on one caller, and another caller who makes it prune. The panel's are two actions, one
of which is submitted with the other's assertion, or overtakes a read, and an action confirmed by an
instance that is not the one read. Instances share nothing, so to read the second one too would only
repeat what the first shows (`MCNext` leaves it out); the theorem is about any number, all of them
read. The page's are two refreshes of which the older ends last, and an action with its refresh
while the owner switches. Signatures need numbers with a leading zero, with one byte more, and both
halves of the order. The collector needs a window that moves past the cursor, pages that fill (the
page in `gate` is two events) and scans that do not reach the end.

The passing runs between them take every action. The mutants in `PROJECT.json`, one per property,
are plausible bugs (an off-by-one in the window, a second transfer not looked at, offsets read
without asking where they point, a challenge left in its row, a counter left out of what is signed,
padding at the wrong end, a cache kept after an action, an entry that never expires, a cursor put
back too far, ...) and each makes TLC find the property violated.

### Fairness

Three runs check liveness, and none assumes that anybody begins anything, that a transaction lands, or
that a lost request comes again.

- `login`: an attempt that began goes on (`Attempt`), a prompt is dismissed or times out
  (`dismiss`), and the handlers' awaits return (`Handle`), with a result or an error. WebAuthn prompts
  time out in the browser, and every call of the database returns or throws. A tab that never begins
  has nothing to end.
- `panel`: the same for `sign` and `dismiss`, the server's handlers, the reads, and the clock. Polling
  ends after thirty attempts whatever the node says, so `AttemptsEnd` does not need `Land`.
- `gate`: weak fairness of the collector's runs together: the cron starts runs for ever, and some run
  goes on. It is not fairness of each, since a run may be cut off. Failures are finitely many
  (`MaxFailures`): a node that always fails is not caught up with. `CatchesUp` says again and again,
  not from some time on, since ledgers go on closing, and exempts a cursor that fell out of the
  node's window, where the code has no way back (`Behind`), and, like `LossIsReported`, what a first run
  left out for want of the right setting.

Where fairness is stated it is over actions that TLC sees enabled until they are taken, or over a
disjunction of what can end the wait, so weak fairness is enough everywhere.

### What the violations say

1. `spelled`: `settlement.ts` accepts a transaction's hash in either case of its letters, and the
   record compares it as text. A facilitator that settles one payment of an account and names that
   transaction for another of its payments, in the other case, gets both resources released for one
   settlement; the threat model says of a dishonest facilitator that it cannot. Comparing hashes in one
   case would close it: that is the hypothesis `OneSpelling` of `TurnstileKept`.
2. `widened`: `velocity.rs` says a payment counts for exactly the window "whatever happens in
   between"; lengthening the window after a slot was reused is an exception. The limits of creation
   are not affected (`RecentPaymentsHeld`, `CountCeiling`, `TotalCeiling`).
3. `hidden`: `App.tsx` draws the COMMAND section only while the backend's merchant is not known to be
   unapproved. After that merchant was removed (the runbook's first step when it is compromised), after
   one failed read of `is_merchant` that is cached as false, or with no merchant configured, the
   controls that halt, resume and recover are gone until the merchant is approved (again), although the
   account may have other merchants, or be halted and wait for its recovery.
4. `unpaid`: the MCP tool says "Payment did not go through" of payments that did.
5. `gap`: `last_ledger` is the ledger of the last *event*, and a gap is looked for from there. After a
   quiet stretch longer than the node's window the collector reports ledgers as lost that it had
   scanned. It is a false alarm: nothing is lost by it.

One more disagreement is not a run, as the authors know it (`docs/security/findings.md`, R2): with
`window_size` equal to `MAX_CHALLENGE_LIFETIME`, which `is_valid` accepts, a challenge that is paid 900
seconds before its expiry can be paid again in the second it expires, although the comments of
`velocity.rs` and the threat model say that it has expired by then. `PaidAgainOnlyAsItExpires`, in
`funds` with such a window and proved for every one, says that this is the only case;
`NeverAThirdTime` that it costs one payment and no further one.

## 4. Proofs

Every safety property the passing runs check is a theorem for every value of the constants. So are
the type invariants of the accounts, the merchant, the ceremonies and the owner actions, of which a
run checks the Soroban account's, which a slip in the code could break. The theorems rest on the
modules' named assumptions (lifetimes and capacities are positive, sets that the code enumerates are
finite, terms and limits have their types, `NoSigner` and the like are none of the values they stand
beside) and, where it is said, on a hypothesis about the setting:

- `DurableRecord`: the merchant's record is a database table;
- `HonestFacilitator`: a facilitator's positive answer is true when it is given;
- `OneSpelling`: a transaction's hash can be written in one way. The code does not see to it
  (`settlement.ts:64`), and `spelled` is what happens when there are two; only the theorems that allow
  any facilitator *and* claim one resource for a settlement need it;
- `Settings \subseteq 1..CREATED`: `POLICY_DEPLOY_LEDGER` is set, and not to a ledger after the
  account's first. Nothing in the code requires it; only `NoLossWhenTold` has it;
- `[]LongWindow`: the account was created with a window *longer* than the longest challenge lives.
  When the two are equal a challenge can be paid twice (R2, section 3). `LongWindow` speaks of a
  variable that only `Init` sets, so `[]` adds nothing but the convenience of naming it at each
  step.

**The Soroban account** (`PaymentPolicyProofs`). None of the properties is inductive alone.
`RecentPaymentsHeld` says a payment inside the window of creation is in a slot; to know that the slot
a new payment takes is not one of those, the window in force must not be shorter
(`LimitsOnlyTighten`). That a slot answers for one payment only needs `NoncesDifferInWindow`, and that
its time is not in the future `PaymentsWereLive`. From these (`InductiveInvariant`):

- `RecentRemembered`, and `CountWithinCeiling` by counting: the payments of a window map injectively
  to slots. `TotalWithinCeiling` is the same with weights, and `SlotForEveryPayment` the converse:
  a slot that is not free counts.
- `ForgottenOnlyExpired`, `PaidAtMostOnce`: under `LongWindow`.
- `AgainOnlyAsItExpires`, with no such hypothesis: the boundary of R2 is all that can go wrong. Two
  payments of one challenge are at least the creation's window apart, no challenge lives longer than
  that, and both were made while it lived; so the window is exactly its life, and the second payment
  falls in the moment of its expiry. A third would have to be as far again from the second
  (`NeverAThirdTime`).
- `StopAnnounceable`: the record of the payment that froze the account outlives the freeze.
- `AnnouncedWasPaid`, from `Truth`: of each challenge, the proofs announced and the slots that still
  hold it unannounced are together no more than its payments. The property alone forgets the slots.
- `BooksBalance`, from `Books`: the same accounting per token, with the payments summed over a set of
  indices rather than over the sequence.
- `MandateKept`: the refinement of `SpendingMandate`, under `LongWindow`. A `pay` maps to the
  mandate's payment, which asks that the limits of creation hold with it and that the challenge is
  new; both are what the theorems above say of the state before.

Sums are handled in `VelocityWindowProofs`. The provers cannot instantiate the library's induction
theorems, so that adding one element adds its weight is shown by a *least* set for which it fails: the
ordering of finite sets by inclusion is well founded (`FS_StrictSubsetOrderingWellFounded`), and a
well-founded relation has minimal elements.

**The Solana program** (`SolanaPolicyProofs`).

- `EveryCallSigned`: the i-th owner action was signed with that action and the counter i - 1, and the
  account's counter is the number of actions. It is inductive with `Shape`.
- `EveryPaymentSigned`: the layout's bytes are what the precompile verified.
- `ListIsTheOwners`, from `Wanted`: no merchant is listed twice, and one is listed if and only if the
  last decision about it was to add it. `remove_merchant` swaps the last entry into the hole, so that
  no other merchant goes with it needs both halves.
- `BooksBalance`, `MandateKept`, `AgainOnlyAsItExpires` and `PaidAtMostOnce`, along the same lines
  as the Soroban account's. `WindowsWithinLimits` says what the mandate comes to, with any limits
  the program accepts: the window that ends at any payment holds no more, in number and in value,
  than the creation allowed. A new payment's window is the one the mandate looks at, and a later
  payment is in no earlier one's window (`WindowStep`).
- With the merchant beside it, the program's steps are still its own (`SettlementIsAllowed`), so all
  of the above holds of `SettlementSpec` (`KeptBesideTheMerchant`). A transaction that landed is in
  `payments` under its terms and no two landed with the same challenge, and a request past its
  reading carries one that it bound (`Settlements`). That a second one does not land is
  `Remembered`, which needs `LongWindow`; a merchant that relied on the ledger alone would settle
  one challenge twice in the case of R2. Hence `SettledWasPaid`, for any number of requests, in any
  interleaving with owner actions.
- `AnswersRead`: reader and program agree with the builder, field by field. It needs `KeyAssumption`,
  and an agent whose key is not the one that pays the fee, which the reader refuses by intent.

**The merchant and the agent** (`MerchantGateProofs`), for any number of requests, payments and
restarts. There are three arguments:

- *with a database*, whatever the facilitator says and however it spells (`InductiveInvariant`): a
  handler past the record holds an entry of its own (`PastIsRecorded`, `PastIsAlone`: no two have a name
  or a challenge in common) for a transaction the ledger shows (`NamedIsSettled`). Hence
  `ReleasesSettled`. With one spelling a name *is* the transaction, hence `TurnstileKept`, the
  refinement: `Land` maps to `Pay`, the step that releases to `Admit`, everything else to a stutter.
- *with an honest facilitator*, and no database (`HonestInvariant`): a handler past the settlement
  holds its own payment (`NamedIsOwn`, `ForThisRequest`), and whatever it is still to publish or was
  released beside it is remembered or over (`PublishingIsRecorded`, `ReleasedIsRemembered`), though
  a restart forgets the record. Hence `ReleasedWasPaidFor` and `TurnstileKeptInMemory`, with any
  spellings. This is the proof that a memory record is safe as long as the facilitator is honest: a
  transaction that settled does not verify again.
- *the exchange*: `ExchangeRunsGate` shows that each of its steps is one of the merchant's or none,
  so the above holds beside the agent (`ExchangeKeepsTurnstile`); what a call sent it prepared, what
  it signed it vetted (`ExchangeInvariant`). Hence `OnlyAgreedSigned`, which does not need an honest
  facilitator, and `PaidWasTrue`, which does.

**Signing in** (`PasskeyCeremonyProofs`). A challenge is in the user's row, or with the one request
that took it out, or used for one session, and never two of these (`TakenByOne`); a handler at work
has an answer that a device gave (`AtWorkOnAnswer`). Hence `SessionsEarned`. A counter on record was
the device's own at some time (`StoredNotAhead`), hence `NotLockedOut`.

**The rate limiter** (`RateLimiterProofs`). A count in memory is *exactly* the number of the caller's
requests let through in its window, and in the window's length before it there were no more than the
allowance (`CountsAreExact`); a caller who is not in memory has no more than the allowance in the
length that ends now (`UnknownAreWithin`). Hence `RefusalsAreDue`, and `NeverOverTwice`, which is
shown for any stretch of a window's length and not only for one that a request begins
(`NoStretchOverTwice`). The table's row, which `hit_rate_limit` never prunes, goes on from
where the memory stops (`RowsFollow`), hence `StoresAgreed`.

**Owner actions** (`OwnerConsoleProofs`). A serial names one action (`SerialsAreOne`); one carried out
on Solana has a counter the account has passed (`CountersSpent`), one on Stellar a nonce that is
spent; so `AssertionsCountOnce`. A transaction in flight is of an action somebody submitted
(`TxsAreKnown`), and a confirmed one succeeded (`ConfirmedWereDone`), hence `ConfirmedWasDone`, an
action property. For what the panel shows, in any number of instances: an entry of a cache, or a read on
its way, that did not fail and says what is not so was answered before an action whose confirmation did
not come by its instance (`WrongIsUnseen`), and no longer ago than it has been there (`WrongIsRecent`);
hence `ConfirmedShows` and `StaleIsBounded`. A default of a failed read is outside both: it may be
wrong with nothing done, and be renewed by the next failure for as long as the node fails.

**The owner's signature** (`OwnerConsoleProofs`). `SignaturesReach`: of any pair of numbers the
passkey signs with, for any order, base and width, what `derToRawSignature` makes of its DER is a
raw signature that the chains verify. Three steps carry it. `Ascend` is induction over the naturals
up to a bound, for one given set rather than for a predicate, since the provers cannot instantiate
the library's rule: of the numbers not in the set there would be a least one (`SmallestOf`). By it
`power` is what its recursion says (`PowersTo`), and reading the digits from the left gives the
number divided by the power that is still missing, at every place (`Upto`), so the whole of them
gives the number (`NumberOfBytes`). `DerIs` says that DER holds the number, in at most one byte more
than the raw width; hence what `pad32` cuts off is a zero and what it puts in front are zeros
(`Padded`). `power` is a function with a table instead of `^` because the provers know nothing of
`^`.

**The page** (`OwnerConsoleProofs`, its last section), for any number of refreshes and surprises. A
refresh that is past its configuration has a number no greater than the requests so far, and the one an
action waits for is on its way, not yet asked or asked after the action, or has been shown
(`PageInv`). Hence `ConfirmedWasShown`; `TurnsToTheChoice` is inductive with the same facts, since
every switch begins a refresh that has not asked yet.

**The collector** (`EventCollectorProofs`), for any number of runs side by side. All events up to any
place that is in the row (`PlaceGood`), or that a run has reached (`RunGood`), are in the database, on
the page the run holds, or in a ledger that was or will be reported, or that a first run left out for
want of the right setting (`skipped`, `unasked`). The row's `last_ledger` lies before every event still
to be read; so what a run reports when its cursor fell out of the window is all that was lost. Hence
`NoLossUnreported`, for any settings; and where the setting is right nothing is left out (`Told`), hence
`NoLossWhenTold`, without the exemption.

Only model-checked:

- `EveryAttemptEnds`, `AttemptsEnd`, `CatchesUp`: liveness, which needs ENABLED of the actions.
- That the five claims of the violation runs fail is shown by TLC's counterexamples.

## 5. Not modelled, and why

- *Byte encodings and hashes* (canonical challenge, instructions, account decoding, precompile
  offsets): pinned by the repository's test vectors in three languages; a model would spell out
  strings. What the models take from them is that different contents have different encodings. The
  conversion of an owner's signature is modelled, because its input varies in length.
- *Cryptography*: a signature over something else, or by another key, does not exist.
- *Lifetime of the account's entries and code* (`extend_ttl`): rent the ledger keeps, which the
  contract only lengthens.
- *Confirmation depth on Solana, building the Stellar transaction, simulation details*: external, by
  what they decide.
- *A shared rate-limit store that cannot be reached*: the code lets the request through and counts
  nothing.
- *A request that is never answered*: the liveness properties assume that each ends, since nothing in
  the page ends it.
- *Which of two refreshes is shown last*: the code takes whichever arrives; the page's properties say
  what was asked for and shown, not that nothing older is shown after it.
- *Reads that only pass on* (status page, CSV, metrics, the window's usage, the payment log's rows):
  no state of their own.
- *Frontend layout*: what is displayed and decides nothing, the status page and the landing page.
- *Configuration, HTTP wiring, error wording, scripts, migrations, deployment*: run once or stateless.

## 6. Plan

Done: both accounts, the merchant, a Solana payment from its building to its confirmation, the agent's
exchange, sign-in, the limiter, owner actions with their signatures and their page, the collector; and
the theorems about all of them. Next, to widen what is modelled:

1. The agent route's guard and the facilitator's memory in `x402-merchant.ts`.
2. The status page and the scripts that set up an account (`solana-init.ts`, `rehearse.ts`), whose
   steps may be repeated after a failure.

Each new safety property is to be proved in the proof module of its component.
