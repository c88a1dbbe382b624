--------------------------- MODULE PasskeyCeremony ---------------------------
(***************************************************************************)
(* Signing in to the owner's panel (backend/src/passkey, lib/sessions.ts   *)
(* and frontend/src/passkey-auth.ts): a tab asks whether there is a passkey*)
(* and enrols one or asserts one; both ceremonies of a user share one      *)
(* pending challenge in the database.  One user, any number of tabs, and   *)
(* requests that are sent a second time.                                   *)
(*                                                                         *)
(* A challenge is a serial number; a passkey is named by the device and the*)
(* challenge it was made for.  A signature over another challenge or by    *)
(* another key does not exist.                                             *)
(***************************************************************************)
EXTENDS Naturals, FiniteSets, Functions

CONSTANTS
    Tabs,
    Devices,        \* the authenticators the user has at hand
    Counting,       \* the devices whose passkeys count their uses (others say 0)
    Repeats,        \* finish requests that arrive once more
    LIFETIME,       \* CHALLENGE_LIFETIME_MS
    NoAnswer, NoList,
    MaxChallenges   \* bound on ceremonies

Requests == Tabs \cup Repeats
Serials  == 1..MaxChallenges

ASSUME CeremonyAssumption ==
    /\ Counting \subseteq Devices
    /\ Tabs \cap Repeats = {}
    /\ IsFiniteSet(Tabs) /\ LIFETIME \in Nat \ {0} /\ MaxChallenges \in Nat

VARIABLES
    issued,     \* how many challenges the server made
    pending,    \* the row of webauthn_challenges: none, or a challenge and its life left
    stored,     \* the credentials table: each passkey's counter
    keys,       \* the passkeys on the devices: how often each was used
    answers,    \* what the devices have signed
    sessions,   \* each session issued: the answer it was issued for, and whether its
                \* row was written
    at,         \* how far each tab is
    offered,    \* what each tab was given: a challenge and the passkeys it names
    handler     \* each finish request: how far it is, its answer, the challenge it took

server == <<pending, stored, sessions>>
vars   == <<issued, server, keys, answers, at, offered, handler>>

Passkeys == [device : Devices, serial : 0..MaxChallenges]
Answers  == [kind : {"create", "get"}, key : Passkeys, serial : Serials, counter : Nat]
Idle     == {"idle", "signed_in", "failed"}

(* The tables hold what they should and nothing is named before it exists. *)
TypeOK ==
    /\ issued \in 0..MaxChallenges
    /\ \A c \in pending : c.serial \in 1..issued /\ c.life \in 0..LIFETIME
    /\ Cardinality(pending) <= 1
    /\ DOMAIN stored \subseteq DOMAIN keys /\ DOMAIN keys \subseteq Passkeys
    /\ Range(keys) \cup Range(stored) \subseteq Nat
    /\ answers \subseteq Answers
    /\ \A s \in sessions : s.answer \in answers /\ s.written \in BOOLEAN
    /\ \A t \in Tabs : at[t] \in Idle \cup {"enrol", "sign_in", "creating", "signing", "sent"}
    /\ \A r \in Requests : handler[r].step \in
          {"none", "take", "verify", "save", "update", "issue", "done", "refused"}

nothing == [step |-> "none", answer |-> NoAnswer, expected |-> 0]

(* Nobody is enrolled, or every device has a passkey already.              *)
Init ==
    /\ issued = 0 /\ pending = {}
    /\ \E enrolled \in {{}, Devices} :
          keys = [k \in {[device |-> d, serial |-> 0] : d \in enrolled} |-> 0]
    /\ stored = keys
    /\ answers = {} /\ sessions = {}
    /\ at = [t \in Tabs |-> "idle"]
    /\ offered = [t \in Tabs |-> NoList]
    /\ handler = [r \in Requests |-> nothing]

becomes(t, phase) == at' = [at EXCEPT ![t] = phase]
moves(r, step) == handler' = [handler EXCEPT ![r].step = step]
with(f, k, v) == [x \in DOMAIN f \cup {k} |-> IF x = k THEN v ELSE f[x]]

-----------------------------------------------------------------------------
(* The tab.                                                                *)

(* handleAuth: hasPasskey decides once; a read that fails says there is    *)
(* none (getUserCredentials answers [] then).                              *)
handleAuth(t) ==
    /\ at[t] \in Idle
    /\ issued + Cardinality({u \in Tabs : at[u] \in {"enrol", "sign_in"}}) < MaxChallenges
    /\ \/ DOMAIN stored # {} /\ becomes(t, "sign_in")
       \/ becomes(t, "enrol")
    /\ UNCHANGED <<issued, server, keys, answers, offered, handler>>

(* rememberChallenge: the row of this user, whoever's it was before.       *)
rememberChallenge(serial) == pending' = {[serial |-> serial, life |-> LIFETIME]}

(* start_registration and start_authentication: the passkeys on record,    *)
(* none if they cannot be read, and a new challenge.  What was read goes   *)
(* only to the browser, so reading and remembering are one step.  A        *)
(* challenge that cannot be stored ends the attempt.                       *)
start(t, from, to) ==
    /\ at[t] = from
    /\ issued' = issued + 1
    /\ \/ /\ rememberChallenge(issued')
          /\ \E listed \in {DOMAIN stored, {}} :
                offered' = [offered EXCEPT ![t] = [serial |-> issued', listed |-> listed]]
          /\ becomes(t, to)
       \/ becomes(t, "failed") /\ UNCHANGED <<pending, offered>>
    /\ UNCHANGED <<stored, sessions, keys, answers, handler>>

startRegistration(t)   == start(t, "enrol", "creating")
startAuthentication(t) == start(t, "sign_in", "signing")

uses(k) == IF k.device \in Counting THEN keys[k] + 1 ELSE 0

send(t, answer) ==
    /\ answers' = answers \cup {answer}
    /\ handler' = [handler EXCEPT ![t] = [nothing EXCEPT !.step = "take", !.answer = answer]]
    /\ becomes(t, "sent")

(* The prompt of startRegistration: a device that holds one of the passkeys*)
(* excluded refuses, any other makes one.                                  *)
create(t) ==
    /\ at[t] = "creating"
    /\ \E d \in Devices :
          LET key == [device |-> d, serial |-> offered[t].serial]
          IN  /\ \A k \in offered[t].listed : k.device # d
              /\ keys' = with(keys, key, 0)
              /\ send(t, [kind |-> "create", key |-> key, serial |-> offered[t].serial,
                          counter |-> 0])
    /\ UNCHANGED <<issued, server, offered>>

(* The prompt of startAuthentication: one of the allowed passkeys, or any  *)
(* when none are named.                                                    *)
assert(t) ==
    /\ at[t] = "signing"
    /\ \E k \in DOMAIN keys :
          /\ offered[t].listed = {} \/ k \in offered[t].listed
          /\ keys' = [keys EXCEPT ![k] = uses(k)]
          /\ send(t, [kind |-> "get", key |-> k, serial |-> offered[t].serial,
                      counter |-> uses(k)])
    /\ UNCHANGED <<issued, server, offered>>

(* The prompt is dismissed, times out, or has nothing to offer.            *)
dismiss(t) ==
    /\ at[t] \in {"creating", "signing"}
    /\ becomes(t, "failed")
    /\ UNCHANGED <<issued, server, keys, answers, offered, handler>>

(* The answer of the finish request arrives, or is lost on the way.        *)
hear(t) ==
    /\ at[t] = "sent"
    /\ handler[t].step \in {"done", "refused"}
    /\ \/ handler[t].step = "done" /\ becomes(t, "signed_in")
       \/ becomes(t, "failed")
    /\ handler' = [handler EXCEPT ![t] = nothing]
    /\ UNCHANGED <<issued, server, keys, answers, offered>>

-----------------------------------------------------------------------------
(* The server's finish requests, one step to each call of the database.    *)

(* The same request arrives once more.                                     *)
repeat(r) ==
    /\ handler[r] = nothing
    /\ \E a \in answers :
          handler' = [handler EXCEPT ![r] = [nothing EXCEPT !.step = "take", !.answer = a]]
    /\ UNCHANGED <<issued, server, keys, answers, at, offered>>

answered(r, step) == handler' = [handler EXCEPT ![r] = [nothing EXCEPT !.step = step]]
refuse(r) == answered(r, "refused")

(* A bug: what was taken stays.                                            *)
takeChallenge_keeping(r) ==
    /\ handler[r].step = "take"
    /\ \E c \in pending : c.life > 0 /\
          handler' = [handler EXCEPT ![r].step = "verify", ![r].expected = c.serial]
    /\ UNCHANGED <<issued, server, keys, answers, at, offered>>

(* takeChallenge: deleted and returned in one statement; one that is too   *)
(* old is gone too.  A failing statement may have deleted it or not.       *)
takeChallenge(r) ==
    /\ handler[r].step = "take"
    /\ \/ /\ pending' = {}
          /\ \/ \E c \in pending : c.life > 0 /\
                   handler' = [handler EXCEPT ![r].step = "verify", ![r].expected = c.serial]
             \/ refuse(r)
       \/ UNCHANGED pending /\ refuse(r)
    /\ UNCHANGED <<issued, stored, sessions, keys, answers, at, offered>>

(* verifyAuthenticationResponse: a counter that counts must go up.         *)
counter_rises(new, old) == new > old \/ (new = 0 /\ old = 0)

(* Checking the answer against the challenge taken and, for a sign-in, the *)
(* credential as it is on record now.                                      *)
verify(r) ==
    LET a == handler[r].answer
    IN  /\ handler[r].step = "verify"
        /\ \/ /\ a.serial = handler[r].expected
              /\ \/ a.kind = "create" /\ moves(r, "save")
                 \/ /\ a.kind = "get"
                    /\ a.key \in DOMAIN stored
                    /\ counter_rises(a.counter, stored[a.key])
                    /\ moves(r, "update")
           \/ refuse(r)
        /\ UNCHANGED <<issued, server, keys, answers, at, offered>>

(* A bug: the counter stored is the one to expect next.                    *)
write_next(r, step) ==
    LET a == handler[r].answer
    IN  /\ handler[r].step = step
        /\ \/ /\ stored' = with(stored, a.key, a.counter + 1)
              /\ moves(r, "issue") \/ refuse(r)
           \/ UNCHANGED stored /\ refuse(r)
        /\ UNCHANGED <<issued, pending, sessions, keys, answers, at, offered>>

(* A write of the credential's row; one that fails may have happened.      *)
write(r, step) ==
    LET a == handler[r].answer
    IN  /\ handler[r].step = step
        /\ \/ /\ stored' = with(stored, a.key, a.counter)
              /\ moves(r, "issue") \/ refuse(r)
           \/ UNCHANGED stored /\ refuse(r)
        /\ UNCHANGED <<issued, pending, sessions, keys, answers, at, offered>>

saveCredential(r)          == write(r, "save")
updateCredentialCounter(r) == write(r, "update")

(* A bug: an error of the database leaves the request without an answer.   *)
createSession_silent(r) ==
    /\ handler[r].step = "issue"
    /\ \/ /\ sessions' = sessions \cup {[answer |-> handler[r].answer, by |-> r,
                                           written |-> TRUE]}
          /\ answered(r, "done")
       \/ UNCHANGED sessions /\ handler' = [handler EXCEPT ![r] = nothing]
    /\ UNCHANGED <<issued, pending, stored, keys, answers, at, offered>>

(* createSession: the answer names the session whether or not its row was  *)
(* written.                                                                *)
createSession(r) ==
    /\ handler[r].step = "issue"
    /\ \E written \in BOOLEAN :
          sessions' = sessions \cup {[answer |-> handler[r].answer, by |-> r,
                                      written |-> written]}
    /\ answered(r, "done")
    /\ UNCHANGED <<issued, pending, stored, keys, answers, at, offered>>

Handle(r) ==
    takeChallenge(r) \/ verify(r) \/ saveCredential(r) \/ updateCredentialCounter(r)
    \/ createSession(r)

(* The pending challenge grows old.                                        *)
Tick ==
    /\ \E c \in pending : c.life > 0 /\ pending' = {[c EXCEPT !.life = @ - 1]}
    /\ UNCHANGED <<issued, stored, sessions, keys, answers, at, offered, handler>>

Attempt(t) ==
    startRegistration(t) \/ startAuthentication(t) \/ create(t) \/ assert(t) \/ hear(t)

Next ==
    \/ \E t \in Tabs : handleAuth(t) \/ Attempt(t) \/ dismiss(t)
    \/ \E r \in Repeats : repeat(r)
    \/ \E r \in Requests : Handle(r)
    \/ Tick

(* A page that began goes on, a prompt is answered or times out, and the   *)
(* server's awaits return; nobody has to begin, and nothing has to repeat. *)
Fairness ==
    /\ \A t \in Tabs : WF_vars(Attempt(t)) /\ WF_vars(dismiss(t))
    /\ \A r \in Requests : WF_vars(Handle(r))

Spec == Init /\ [][Next]_vars /\ Fairness

-----------------------------------------------------------------------------
(* What must hold.                                                         *)

(* sessions.ts: nobody gets a session they did not earn.  Every session was*)
(* issued for an answer by a passkey on record, and an answer or a         *)
(* challenge earns one session, however often its request arrives and      *)
(* whichever requests run at the same time.                                *)
SessionsWereEarned ==
    /\ \A s \in sessions : s.answer.key \in DOMAIN stored
    /\ \A s, u \in sessions : s.answer.serial = u.answer.serial => s = u

(* The counter on record is never ahead of the device's: whatever the order*)
(* the updates land in, the owner's next assertion still counts up.        *)
OwnerNotLockedOut ==
    \A k \in DOMAIN stored : counter_rises(uses(k), stored[k])

(* Every attempt ends: signed in, or told that it failed.                  *)
EveryAttemptEnds == \A t \in Tabs : at[t] \notin Idle ~> at[t] \in Idle
=============================================================================
