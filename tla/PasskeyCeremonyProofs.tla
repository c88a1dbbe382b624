----------------------- MODULE PasskeyCeremonyProofs -----------------------
(***************************************************************************)
(* Signing in, for any number of tabs, devices and repeated requests, with *)
(* a database that may fail at every call.  The argument: a challenge is in*)
(* the user's row, or with the one request that took it out, or was used   *)
(* for the one session; and never two of these (TakenByOne).  A counter on *)
(* record was the device's own at some time, and the device only counts up *)
(* (StoredNotAhead).                                                       *)
(***************************************************************************)
EXTENDS PasskeyCeremony, FiniteSetTheorems, TLAPS

Phases == Idle \cup {"enrol", "sign_in", "creating", "signing", "sent"}
Steps  == {"none", "take", "verify", "save", "update", "issue", "done", "refused"}
AtWork == {"take", "verify", "save", "update", "issue"}
Holds  == {"verify", "save", "update", "issue"}
Offers == [serial : Serials, listed : SUBSET Passkeys]
Handlers == [step : Steps, answer : Answers \cup {NoAnswer}, expected : 0..MaxChallenges]

(* The state's records and functions have the shapes their uses say.       *)
Shape ==
    /\ issued \in 0..MaxChallenges
    /\ pending \subseteq [serial : 1..issued, life : 0..LIFETIME]
    /\ Cardinality(pending) <= 1
    /\ keys \in [DOMAIN keys -> Nat] /\ DOMAIN keys \subseteq Passkeys
    /\ stored \in [DOMAIN stored -> Nat] /\ DOMAIN stored \subseteq DOMAIN keys
    /\ answers \subseteq Answers
    /\ sessions \subseteq [answer : answers, by : Requests, written : BOOLEAN]
    /\ at \in [Tabs -> Phases]
    /\ offered \in [Tabs -> Offers \cup {NoList}]
    /\ handler \in [Requests -> Handlers]

Starting == {u \in Tabs : at[u] \in {"enrol", "sign_in"}}

(* Every tab that is about to ask for a challenge will get one.            *)
RoomToStart == issued + Cardinality(Starting) <= MaxChallenges

(* A prompt is about a challenge of its own that no key was made for.      *)
PromptsAreFresh ==
    /\ \A t \in Tabs : at[t] \in {"creating", "signing"} =>
          offered[t] \in Offers /\ offered[t].serial <= issued
    /\ \A t \in Tabs : at[t] = "creating" =>
          \A k \in DOMAIN keys : k.serial # offered[t].serial
    /\ \A t, u \in Tabs : at[t] = "creating" /\ at[u] = "creating" /\ t # u =>
          offered[t].serial # offered[u].serial
    /\ \A k \in DOMAIN keys : k.serial <= issued

(* What was signed was signed by a key, which has counted up since.        *)
AnswersAreKeys ==
    /\ \A a \in answers : a.key \in DOMAIN keys /\ a.counter <= keys[a.key]
    /\ \A k \in DOMAIN keys : k.device \notin Counting => keys[k] = 0

(* A counter on record is the device's of now or of some time before.      *)
StoredNotAhead == \A k \in DOMAIN stored : stored[k] <= keys[k]

(* A request at work carries an answer, and past its check this answer is  *)
(* over the challenge taken and by a key on record.                        *)
AtWorkOnAnswer ==
    \A r \in Requests :
        /\ handler[r].step \in AtWork => handler[r].answer \in answers
        /\ handler[r].step \in {"save", "update", "issue"} =>
              handler[r].answer.serial = handler[r].expected
        /\ handler[r].step = "issue" => handler[r].answer.key \in DOMAIN stored

(* A challenge taken from the row is with one request, until it has earned *)
(* one session.                                                            *)
TakenByOne ==
    /\ \A r \in Requests : handler[r].step \in Holds =>
          /\ handler[r].expected \in 1..issued
          /\ \A c \in pending : c.serial # handler[r].expected
          /\ \A s \in sessions : s.answer.serial # handler[r].expected
    /\ \A r, q \in Requests :
          /\ handler[r].step \in Holds /\ handler[q].step \in Holds
          /\ handler[r].expected = handler[q].expected
          => r = q
    /\ \A s \in sessions : s.answer.serial <= issued
    /\ \A s \in sessions, c \in pending : s.answer.serial # c.serial

IInv ==
    /\ Shape
    /\ RoomToStart
    /\ PromptsAreFresh
    /\ AnswersAreKeys
    /\ StoredNotAhead
    /\ AtWorkOnAnswer
    /\ TakenByOne
    /\ SessionsWereEarned

-----------------------------------------------------------------------------
LEMMA Becomes ==
    ASSUME Shape, NEW t \in Tabs, NEW p \in Phases, becomes(t, p)
    PROVE  /\ at' \in [Tabs -> Phases]
           /\ at'[t] = p
           /\ \A u \in Tabs : u # t => at'[u] = at[u]
BY DEF becomes, Shape

(* Fewer tabs start, or as many: there is room for their challenges.       *)
LEMMA FewerStarting ==
    ASSUME RoomToStart, issued \in 0..MaxChallenges, issued' = issued,
           Starting' \subseteq Starting
    PROVE  RoomToStart'
<1>1. IsFiniteSet(Starting)
  BY CeremonyAssumption, FS_Subset DEF Starting
<1>2. /\ Cardinality(Starting') <= Cardinality(Starting)
      /\ Cardinality(Starting) \in Nat /\ Cardinality(Starting') \in Nat
  BY <1>1, FS_Subset, FS_CardinalityType
<1>3. QED
  BY <1>2, CeremonyAssumption DEF RoomToStart

(* A request that moves on with what it carries, to a step where it holds  *)
(* no more than before.                                                    *)
LEMMA HandlerMoves ==
    ASSUME IInv, NEW r \in Requests, NEW h \in Handlers,
           handler' = [handler EXCEPT ![r] = h],
           h.step \in AtWork => h.answer \in answers,
           h.step \in {"save", "update", "issue"} => h.answer.serial = h.expected,
           h.step = "issue" => h.answer.key \in DOMAIN stored,
           h.step \in Holds => handler[r].step \in Holds /\ h.expected = handler[r].expected,
           UNCHANGED <<issued, server, answers>>
    PROVE  /\ AtWorkOnAnswer' /\ TakenByOne' /\ SessionsWereEarned'
           /\ handler' \in [Requests -> Handlers]
<1>1. /\ handler' \in [Requests -> Handlers]
      /\ handler'[r] = h
      /\ \A q \in Requests : q # r => handler'[q] = handler[q]
  BY DEF IInv, Shape
<1>2. AtWorkOnAnswer'
  BY <1>1 DEF IInv, AtWorkOnAnswer, server
<1>3. TakenByOne'
  BY <1>1 DEF IInv, TakenByOne, server
<1>4. SessionsWereEarned'
  BY DEF IInv, SessionsWereEarned, server
<1>5. QED
  BY <1>1, <1>2, <1>3, <1>4

LEMMA HandleAuthKeeps ==
    ASSUME IInv, NEW t \in Tabs, handleAuth(t)
    PROVE  IInv'
<1>1. PICK p \in {"enrol", "sign_in"} : becomes(t, p)
  BY DEF handleAuth
<1>2. /\ at' \in [Tabs -> Phases] /\ at'[t] = p
      /\ \A u \in Tabs : u # t => at'[u] = at[u]
  BY <1>1, Becomes DEF IInv, Phases
<1>3. UNCHANGED <<issued, server, keys, answers, offered, handler>>
  BY DEF handleAuth
<1>4. Shape'
  BY <1>2, <1>3 DEF IInv, Shape, server
<1>5. RoomToStart'
  <2>1. IsFiniteSet(Starting)
    BY CeremonyAssumption, FS_Subset DEF Starting
  <2>2. Starting' = Starting \cup {t} /\ t \notin Starting
    BY <1>2 DEF Starting, handleAuth, Idle
  <2>3. Cardinality(Starting') = Cardinality(Starting) + 1
    BY <2>1, <2>2, FS_AddElement
  <2>4. issued + Cardinality(Starting) < MaxChallenges
    BY DEF handleAuth, Starting
  <2>5. QED
    BY <1>3, <2>1, <2>3, <2>4, FS_CardinalityType, CeremonyAssumption DEF RoomToStart, IInv, Shape
<1>6. PromptsAreFresh'
  BY <1>2, <1>3 DEF IInv, PromptsAreFresh
<1>7. QED
  BY <1>3, <1>4, <1>5, <1>6
     DEF IInv, AnswersAreKeys, StoredNotAhead, AtWorkOnAnswer, TakenByOne, SessionsWereEarned, server

(* A challenge is made: new, so nothing is about it yet.                   *)
LEMMA StartKeeps ==
    ASSUME IInv, NEW t \in Tabs, NEW from \in {"enrol", "sign_in"},
           NEW to \in {"creating", "signing"}, start(t, from, to)
    PROVE  IInv'
<1>1. /\ UNCHANGED <<stored, sessions, keys, answers, handler>>
      /\ at[t] = from /\ issued' = issued + 1
  BY DEF start
<1>2. PICK p \in {to, "failed"} : becomes(t, p)
  BY DEF start
<1>3. /\ at' \in [Tabs -> Phases] /\ at'[t] = p
      /\ \A u \in Tabs : u # t => at'[u] = at[u]
  BY <1>2, Becomes DEF IInv, Phases, Idle
<1>4. issued' \in 1..MaxChallenges /\ RoomToStart'
  <2>1. IsFiniteSet(Starting) /\ t \in Starting
    BY <1>1, CeremonyAssumption, FS_Subset DEF Starting
  <2>2. Starting' = Starting \ {t}
    BY <1>3 DEF Starting
  <2>3. Cardinality(Starting') = Cardinality(Starting) - 1
    BY <2>1, <2>2, FS_RemoveElement
  <2>4. Cardinality(Starting) \in Nat /\ Cardinality(Starting') \in Nat
    BY <2>1, <2>2, FS_CardinalityType, FS_Subset
  <2>5. QED
    BY <1>1, <2>3, <2>4, CeremonyAssumption DEF IInv, Shape, RoomToStart
<1>5. /\ \/ /\ pending' = {[serial |-> issued', life |-> LIFETIME]}
            /\ offered' \in [Tabs -> Offers \cup {NoList}]
            /\ offered'[t] \in Offers /\ offered'[t].serial = issued'
         \/ pending' = pending /\ offered' = offered /\ at'[t] = "failed"
      /\ \A u \in Tabs : u # t => offered'[u] = offered[u]
  <2>1. CASE pending' = pending /\ offered' = offered /\ becomes(t, "failed")
    BY <2>1, <1>3, Becomes DEF IInv, Phases, Idle
  <2>2. CASE /\ rememberChallenge(issued')
             /\ \E listed \in {DOMAIN stored, {}} :
                   offered' = [offered EXCEPT ![t] = [serial |-> issued', listed |-> listed]]
    <3>1. PICK listed \in {DOMAIN stored, {}} :
             offered' = [offered EXCEPT ![t] = [serial |-> issued', listed |-> listed]]
      BY <2>2
    <3>2. listed \subseteq Passkeys
      BY DEF IInv, Shape
    <3>3. [serial |-> issued', listed |-> listed] \in Offers
      BY <1>4, <3>2 DEF Offers, Serials
    <3>4. QED
      BY <2>2, <3>1, <3>3 DEF rememberChallenge, IInv, Shape
  <2>3. QED
    BY <2>1, <2>2 DEF start
<1>6. Shape'
  <2>1. pending' \subseteq [serial : 1..issued', life : 0..LIFETIME]
    <3>1. issued \in Nat /\ issued' = issued + 1 /\ LIFETIME \in 0..LIFETIME
      BY <1>1, CeremonyAssumption DEF IInv, Shape
    <3>2. pending \subseteq [serial : 1..issued', life : 0..LIFETIME]
      BY <3>1 DEF IInv, Shape
    <3>3. [serial |-> issued', life |-> LIFETIME] \in [serial : 1..issued', life : 0..LIFETIME]
      BY <3>1
    <3>4. QED
      BY <1>5, <3>2, <3>3
  <2>2. Cardinality(pending') <= 1
    <3> DEFINE c == [serial |-> issued', life |-> LIFETIME]
    <3>1. Cardinality({c}) = 1
      BY FS_Singleton
    <3>2. Cardinality(pending) <= 1
      BY DEF IInv, Shape
    <3> HIDE DEF c
    <3>3. pending' = {c} \/ pending' = pending
      BY <1>5 DEF c
    <3>4. QED
      BY <3>1, <3>2, <3>3
  <2>3. QED
    BY <1>1, <1>3, <1>4, <1>5, <2>1, <2>2, CeremonyAssumption DEF IInv, Shape
<1>7. PromptsAreFresh'
  <2>1. \A k \in DOMAIN keys : k.serial \in Nat /\ k.serial <= issued /\ k.serial # issued'
    BY <1>1, CeremonyAssumption DEF IInv, PromptsAreFresh, Shape, Passkeys
  <2>2. \A u \in Tabs : u # t /\ at'[u] \in {"creating", "signing"} =>
           /\ offered'[u] \in Offers /\ offered'[u].serial \in Nat
           /\ offered'[u].serial <= issued /\ offered'[u].serial # issued'
    BY <1>1, <1>3, <1>5, CeremonyAssumption DEF IInv, PromptsAreFresh, Shape, Offers, Serials
  <2>3. issued \in Nat /\ issued' = issued + 1
    BY <1>1, CeremonyAssumption DEF IInv, Shape
  <2>4. \A u \in Tabs : u # t => at'[u] = at[u] /\ offered'[u] = offered[u]
    BY <1>3, <1>5
  <2>5. at'[t] \in {"creating", "signing"} => offered'[t] \in Offers /\ offered'[t].serial = issued'
    BY <1>3, <1>5
  <2>6. QED
    BY <1>1, <2>1, <2>2, <2>3, <2>4, <2>5 DEF IInv, PromptsAreFresh
<1>8. TakenByOne'
  <2>1. \A n \in 1..issued : n # issued' /\ n \in 1..issued'
    BY <1>1, CeremonyAssumption DEF IInv, Shape
  <2>2. \A s \in sessions : s.answer.serial \in 1..issued
    BY CeremonyAssumption DEF IInv, TakenByOne, Shape, Answers, Serials
  <2>3. \A c \in pending' : c \in pending \/ c.serial = issued'
    BY <1>5
  <2>4. \A r \in Requests : handler[r].step \in Holds => handler[r].expected \in 1..issued
    BY DEF IInv, TakenByOne
  <2>5. QED
    BY <1>1, <2>1, <2>2, <2>3, <2>4 DEF IInv, TakenByOne
<1>9. QED
  BY <1>1, <1>4, <1>6, <1>7, <1>8
     DEF IInv, AnswersAreKeys, StoredNotAhead, AtWorkOnAnswer, SessionsWereEarned

(* A device answers: with a key it had, or with one made for the challenge *)
(* at the prompt.                                                          *)
LEMMA SendKeeps ==
    ASSUME IInv, NEW t \in Tabs, NEW a \in Answers, send(t, a),
           at[t] \in {"creating", "signing"},
           UNCHANGED <<issued, server, offered>>,
           keys' \in [DOMAIN keys' -> Nat],
           DOMAIN keys \subseteq DOMAIN keys', DOMAIN keys' \subseteq Passkeys,
           \A k \in DOMAIN keys : keys[k] <= keys'[k],
           a.key \in DOMAIN keys', a.counter <= keys'[a.key],
           \A k \in DOMAIN keys' : k.device \notin Counting => keys'[k] = 0,
           \A k \in DOMAIN keys' \ DOMAIN keys :
              k.serial = offered[t].serial /\ at[t] = "creating"
    PROVE  IInv'
<1>1. /\ at' \in [Tabs -> Phases] /\ at'[t] = "sent"
      /\ \A u \in Tabs : u # t => at'[u] = at[u]
  BY Becomes DEF send, IInv, Phases
<1>2. /\ answers' = answers \cup {a}
      /\ UNCHANGED <<issued, pending, stored, sessions, offered>>
  BY DEF send, server
<1>3. /\ handler' \in [Requests -> Handlers]
      /\ handler'[t].step = "take" /\ handler'[t].answer = a
      /\ \A q \in Requests : q # t => handler'[q] = handler[q]
  <2> DEFINE h == [nothing EXCEPT !.step = "take", !.answer = a]
  <2>1. nothing \in Handlers
    BY CeremonyAssumption DEF nothing, Handlers, Steps
  <2>2. h \in Handlers /\ h.step = "take" /\ h.answer = a
    BY <2>1 DEF Handlers, Steps
  <2>3. handler' = [handler EXCEPT ![t] = h] /\ t \in Requests
    BY DEF send, Requests
  <2> HIDE DEF h
  <2>4. QED
    BY <2>2, <2>3 DEF IInv, Shape
<1>4. Shape'
  BY <1>1, <1>2, <1>3 DEF IInv, Shape
<1>5. RoomToStart'
  <2>1. Starting' \subseteq Starting
    BY <1>1 DEF Starting
  <2>2. QED
    BY <1>2, <2>1, FewerStarting DEF IInv, Shape
<1>6. PromptsAreFresh'
  <2>1. \A u \in Tabs : at'[u] \in {"creating", "signing"} => u # t /\ at'[u] = at[u]
    BY <1>1
  <2>2. offered[t].serial <= issued
    BY DEF IInv, PromptsAreFresh
  <2>3. \A u \in Tabs : at'[u] = "creating" =>
            \A k \in DOMAIN keys' : k.serial # offered[u].serial
    BY <2>1 DEF IInv, PromptsAreFresh
  <2>4. \A k \in DOMAIN keys' : k.serial <= issued
    BY <2>2 DEF IInv, PromptsAreFresh
  <2>5. QED
    BY <1>2, <2>1, <2>3, <2>4 DEF IInv, PromptsAreFresh
<1>7. AnswersAreKeys'
  <2>1. \A b \in answers : b.key \in DOMAIN keys /\ b.counter \in Nat /\ b.counter <= keys[b.key]
    BY DEF IInv, AnswersAreKeys, Shape, Answers
  <2>2. \A k \in DOMAIN keys : keys[k] \in Nat /\ keys'[k] \in Nat
    BY DEF IInv, Shape
  <2>3. \A b \in answers : b.key \in DOMAIN keys' /\ b.counter <= keys'[b.key]
    BY <2>1, <2>2
  <2>4. QED
    BY <1>2, <2>3 DEF AnswersAreKeys
<1>8. StoredNotAhead'
  <2>1. \A k \in DOMAIN stored : stored[k] \in Nat /\ keys[k] \in Nat /\ keys'[k] \in Nat
    BY DEF IInv, Shape
  <2>2. QED
    BY <1>2, <2>1 DEF IInv, StoredNotAhead, Shape
<1>9. AtWorkOnAnswer'
  BY <1>2, <1>3 DEF IInv, AtWorkOnAnswer
<1>10. TakenByOne'
  BY <1>2, <1>3 DEF IInv, TakenByOne, Holds
<1>11. SessionsWereEarned'
  BY <1>2 DEF IInv, SessionsWereEarned
<1>12. QED
  BY <1>4, <1>5, <1>6, <1>7, <1>8, <1>9, <1>10, <1>11 DEF IInv

LEMMA CreateKeeps ==
    ASSUME IInv, NEW t \in Tabs, create(t)
    PROVE  IInv'
<1>1. PICK d \in Devices :
         /\ keys' = with(keys, [device |-> d, serial |-> offered[t].serial], 0)
         /\ send(t, [kind |-> "create", key |-> [device |-> d, serial |-> offered[t].serial],
                     serial |-> offered[t].serial, counter |-> 0])
  BY DEF create
<1> DEFINE key == [device |-> d, serial |-> offered[t].serial]
           a   == [kind |-> "create", key |-> key, serial |-> offered[t].serial, counter |-> 0]
<1>2. at[t] = "creating" /\ UNCHANGED <<issued, server, offered>>
  BY DEF create
<1>3. offered[t].serial \in Serials
  BY <1>2 DEF IInv, PromptsAreFresh, Offers
<1>4. key \in Passkeys /\ key.serial = offered[t].serial
  BY <1>3 DEF Passkeys, Serials
<1>5. a \in Answers /\ a.key = key /\ a.counter = 0
  BY <1>3, <1>4 DEF Answers
<1>6. send(t, a) /\ keys' = with(keys, key, 0)
  BY <1>1
<1> HIDE DEF key, a
<1>7. /\ DOMAIN keys' = DOMAIN keys \cup {key}
      /\ keys'[key] = 0
      /\ \A k \in DOMAIN keys : k # key => keys'[k] = keys[k]
      /\ keys' \in [DOMAIN keys' -> Nat]
  BY <1>6 DEF with, IInv, Shape
<1>8. key \notin DOMAIN keys
  BY <1>2, <1>4 DEF IInv, PromptsAreFresh
<1>9. \A k \in DOMAIN keys : keys[k] \in Nat
  BY DEF IInv, Shape
<1>10. QED
  BY <1>2, <1>4, <1>5, <1>6, <1>7, <1>8, <1>9, SendKeeps DEF IInv, AnswersAreKeys, Shape

LEMMA AssertKeeps ==
    ASSUME IInv, NEW t \in Tabs, assert(t)
    PROVE  IInv'
<1>1. PICK k \in DOMAIN keys :
         /\ keys' = [keys EXCEPT ![k] = uses(k)]
         /\ send(t, [kind |-> "get", key |-> k, serial |-> offered[t].serial, counter |-> uses(k)])
  BY DEF assert
<1> DEFINE a == [kind |-> "get", key |-> k, serial |-> offered[t].serial, counter |-> uses(k)]
<1>2. at[t] = "signing" /\ UNCHANGED <<issued, server, offered>>
  BY DEF assert
<1>3. offered[t].serial \in Serials
  BY <1>2 DEF IInv, PromptsAreFresh, Offers
<1>4. /\ keys[k] \in Nat /\ uses(k) \in Nat /\ keys[k] <= uses(k)
      /\ k.device \notin Counting => uses(k) = 0
  BY DEF uses, IInv, Shape, AnswersAreKeys
<1>5. a \in Answers /\ a.key = k /\ a.counter = uses(k)
  BY <1>3, <1>4 DEF Answers, IInv, Shape
<1>6. /\ DOMAIN keys' = DOMAIN keys
      /\ keys'[k] = uses(k)
      /\ \A j \in DOMAIN keys : j # k => keys'[j] = keys[j]
      /\ keys' \in [DOMAIN keys' -> Nat]
  BY <1>1, <1>4 DEF IInv, Shape
<1>7. \A j \in DOMAIN keys : keys[j] \in Nat /\ keys[j] <= keys'[j]
  BY <1>4, <1>6 DEF IInv, Shape
<1>8. send(t, a)
  BY <1>1
<1>9. \A j \in DOMAIN keys' : j.device \notin Counting => keys'[j] = 0
  BY <1>4, <1>6 DEF IInv, AnswersAreKeys
<1>10. DOMAIN keys' \subseteq Passkeys /\ a.counter <= keys'[a.key] /\ a.key \in DOMAIN keys'
  BY <1>4, <1>5, <1>6 DEF IInv, Shape
<1> HIDE DEF a
<1>11. QED
  BY <1>2, <1>5, <1>6, <1>7, <1>8, <1>9, <1>10, SendKeeps

LEMMA DismissKeeps ==
    ASSUME IInv, NEW t \in Tabs, dismiss(t)
    PROVE  IInv'
<1>1. /\ at' \in [Tabs -> Phases] /\ at'[t] = "failed"
      /\ \A u \in Tabs : u # t => at'[u] = at[u]
  BY Becomes DEF dismiss, IInv, Phases, Idle
<1>2. UNCHANGED <<issued, server, keys, answers, offered, handler>>
  BY DEF dismiss
<1>3. Shape'
  BY <1>1, <1>2 DEF IInv, Shape, server
<1>4. RoomToStart'
  <2>1. Starting' \subseteq Starting
    BY <1>1 DEF Starting
  <2>2. QED
    BY <1>2, <2>1, FewerStarting DEF IInv, Shape
<1>5. PromptsAreFresh'
  BY <1>1, <1>2 DEF IInv, PromptsAreFresh
<1>6. QED
  BY <1>2, <1>3, <1>4, <1>5
     DEF IInv, AnswersAreKeys, StoredNotAhead, AtWorkOnAnswer, TakenByOne, SessionsWereEarned, server

(* A request that carries nothing, or nothing any more.                    *)
LEMMA Blank ==
    /\ nothing \in Handlers /\ nothing.step = "none"
    /\ \A step \in Steps :
          /\ [nothing EXCEPT !.step = step] \in Handlers
          /\ [nothing EXCEPT !.step = step].step = step
BY CeremonyAssumption DEF nothing, Handlers, Steps

(* What a tab and its prompt know is left alone by the server's steps.     *)
LEMMA TabsKept ==
    ASSUME IInv, UNCHANGED <<issued, keys, at, offered>>
    PROVE  RoomToStart' /\ PromptsAreFresh'
BY DEF IInv, RoomToStart, Starting, PromptsAreFresh

LEMMA HearKeeps ==
    ASSUME IInv, NEW t \in Tabs, hear(t)
    PROVE  IInv'
<1>1. PICK p \in {"signed_in", "failed"} : becomes(t, p)
  BY DEF hear
<1>2. /\ at' \in [Tabs -> Phases] /\ at'[t] = p
      /\ \A u \in Tabs : u # t => at'[u] = at[u]
  BY <1>1, Becomes DEF IInv, Phases, Idle
<1>3. /\ UNCHANGED <<issued, server, keys, answers, offered>>
      /\ handler' = [handler EXCEPT ![t] = nothing] /\ t \in Requests
  BY DEF hear, Requests
<1>4. /\ AtWorkOnAnswer' /\ TakenByOne' /\ SessionsWereEarned'
      /\ handler' \in [Requests -> Handlers]
  BY <1>3, Blank, HandlerMoves DEF AtWork, Holds
<1>5. Shape'
  BY <1>2, <1>3, <1>4 DEF IInv, Shape, server
<1>6. RoomToStart'
  <2>1. Starting' \subseteq Starting
    BY <1>2 DEF Starting
  <2>2. QED
    BY <1>3, <2>1, FewerStarting DEF IInv, Shape
<1>7. PromptsAreFresh'
  BY <1>2, <1>3 DEF IInv, PromptsAreFresh
<1>8. QED
  BY <1>3, <1>4, <1>5, <1>6, <1>7 DEF IInv, AnswersAreKeys, StoredNotAhead, server

LEMMA RepeatKeeps ==
    ASSUME IInv, NEW r \in Repeats, repeat(r)
    PROVE  IInv'
<1>1. PICK a \in answers :
         handler' = [handler EXCEPT ![r] = [nothing EXCEPT !.step = "take", !.answer = a]]
  BY DEF repeat
<1> DEFINE h == [nothing EXCEPT !.step = "take", !.answer = a]
<1>2. h \in Handlers /\ h.step = "take" /\ h.answer = a
  BY Blank DEF IInv, Shape, Handlers, Steps
<1>3. handler' = [handler EXCEPT ![r] = h] /\ r \in Requests
  BY <1>1 DEF Requests
<1> HIDE DEF h
<1>4. UNCHANGED <<issued, server, keys, answers, at, offered>>
  BY DEF repeat
<1>5. /\ AtWorkOnAnswer' /\ TakenByOne' /\ SessionsWereEarned'
      /\ handler' \in [Requests -> Handlers]
  BY <1>2, <1>3, <1>4, HandlerMoves DEF Holds
<1>6. QED
  BY <1>4, <1>5, TabsKept DEF IInv, Shape, AnswersAreKeys, StoredNotAhead, server

(* The challenge leaves the row; at most this request holds it now.        *)
LEMMA TakeChallengeKeeps ==
    ASSUME IInv, NEW r \in Requests, takeChallenge(r)
    PROVE  IInv'
<1>1. /\ UNCHANGED <<issued, stored, sessions, keys, answers, at, offered>>
      /\ handler[r].step = "take" /\ pending' \in {{}, pending}
  BY DEF takeChallenge
<1>2. PICK h \in Handlers :
         /\ handler' = [handler EXCEPT ![r] = h]
         /\ \/ h.step = "refused"
            \/ /\ pending' = {} /\ h.step = "verify" /\ h.answer = handler[r].answer
               /\ \E c \in pending : h.expected = c.serial
  <2>1. CASE refuse(r)
    BY <2>1, Blank DEF refuse, answered, Steps
  <2>2. CASE /\ pending' = {}
             /\ \E c \in pending : c.life > 0 /\
                   handler' = [handler EXCEPT ![r].step = "verify", ![r].expected = c.serial]
    <3>1. PICK c \in pending :
             handler' = [handler EXCEPT ![r].step = "verify", ![r].expected = c.serial]
      BY <2>2
    <3> DEFINE h == [handler[r] EXCEPT !.step = "verify", !.expected = c.serial]
    <3>2. c.serial \in 0..MaxChallenges
      BY CeremonyAssumption DEF IInv, Shape
    <3>3. handler[r] \in Handlers
      BY DEF IInv, Shape
    <3>4. /\ h \in Handlers /\ h.step = "verify"
          /\ h.answer = handler[r].answer /\ h.expected = c.serial
      BY <3>2, <3>3 DEF Handlers, Steps
    <3>5. handler' = [handler EXCEPT ![r] = h]
      BY <3>1, <3>3 DEF IInv, Shape, Handlers
    <3> HIDE DEF h
    <3>6. QED
      BY <2>2, <3>4, <3>5
  <2>3. QED
    BY <2>1, <2>2 DEF takeChallenge
<1>3. /\ handler' \in [Requests -> Handlers] /\ handler'[r] = h
      /\ \A q \in Requests : q # r => handler'[q] = handler[q]
  BY <1>2 DEF IInv, Shape
<1>4. Shape'
  <2>1. pending' \subseteq pending /\ Cardinality(pending') <= 1
    <3>1. Cardinality(pending) <= 1
      BY DEF IInv, Shape
    <3>2. CASE pending' = {}
      BY <3>2, FS_EmptySet
    <3>3. CASE pending' = pending
      BY <3>1, <3>3
    <3>4. QED
      BY <1>1, <3>2, <3>3
  <2>2. QED
    BY <1>1, <1>3, <2>1 DEF IInv, Shape
<1>5. AtWorkOnAnswer'
  BY <1>1, <1>2, <1>3 DEF IInv, AtWorkOnAnswer, AtWork
<1>6. TakenByOne'
  <2>1. h.step = "verify" => h.expected \in 1..issued
    BY <1>2 DEF IInv, Shape
  <2>2. h.step = "verify" =>
           /\ \A q \in Requests : handler[q].step \in Holds => handler[q].expected # h.expected
           /\ \A s \in sessions : s.answer.serial # h.expected
    BY <1>2 DEF IInv, TakenByOne
  <2>3. h.step = "verify" => pending' = {}
    BY <1>2
  <2>4. h.step \in Holds => h.step = "verify"
    BY <1>2 DEF Holds
  <2>5. pending' \subseteq pending
    BY <1>1
  <2>6. QED
    BY <1>1, <1>3, <2>1, <2>2, <2>3, <2>4, <2>5 DEF IInv, TakenByOne
<1>7. QED
  BY <1>1, <1>4, <1>5, <1>6, TabsKept
     DEF IInv, AnswersAreKeys, StoredNotAhead, SessionsWereEarned

(* A step of a request changes where it is, and leaves what it carries.    *)
LEMMA Stepped ==
    ASSUME IInv, NEW r \in Requests, NEW step \in Steps
    PROVE  /\ [handler[r] EXCEPT !.step = step] \in Handlers
           /\ [handler[r] EXCEPT !.step = step].step = step
           /\ [handler[r] EXCEPT !.step = step].answer = handler[r].answer
           /\ [handler[r] EXCEPT !.step = step].expected = handler[r].expected
           /\ moves(r, step) => handler' = [handler EXCEPT ![r] = [handler[r] EXCEPT !.step = step]]
<1>1. handler[r] \in Handlers
  BY DEF IInv, Shape
<1>2. QED
  BY <1>1 DEF IInv, Shape, Handlers, moves

LEMMA VerifyKeeps ==
    ASSUME IInv, NEW r \in Requests, verify(r)
    PROVE  IInv'
<1>1. /\ UNCHANGED <<issued, server, keys, answers, at, offered>>
      /\ handler[r].step = "verify"
  BY DEF verify
<1>2. PICK h \in Handlers :
         /\ handler' = [handler EXCEPT ![r] = h]
         /\ \/ h.step = "refused"
            \/ /\ h.step \in {"save", "update"} /\ h.answer = handler[r].answer
               /\ h.expected = handler[r].expected /\ h.answer.serial = h.expected
  <2>1. CASE refuse(r)
    BY <2>1, Blank DEF refuse, answered, Steps
  <2>2. CASE /\ handler[r].answer.serial = handler[r].expected
             /\ moves(r, "save") \/ moves(r, "update")
    <3>1. PICK step \in {"save", "update"} : moves(r, step)
      BY <2>2
    <3> DEFINE h == [handler[r] EXCEPT !.step = step]
    <3>2. step \in Steps
      BY DEF Steps
    <3>3. /\ h \in Handlers /\ h.step = step /\ h.answer = handler[r].answer
          /\ h.expected = handler[r].expected /\ handler' = [handler EXCEPT ![r] = h]
      BY <3>1, <3>2, Stepped
    <3> HIDE DEF h
    <3>4. QED
      BY <2>2, <3>3
  <2>3. \/ refuse(r)
        \/ /\ handler[r].answer.serial = handler[r].expected
           /\ moves(r, "save") \/ moves(r, "update")
    BY DEF verify
  <2>4. QED
    BY <2>1, <2>2, <2>3
<1>3. /\ AtWorkOnAnswer' /\ TakenByOne' /\ SessionsWereEarned'
      /\ handler' \in [Requests -> Handlers]
  <2>1. handler[r].answer \in answers /\ handler[r].step \in Holds
    BY <1>1 DEF IInv, AtWorkOnAnswer, AtWork, Holds
  <2>2. QED
    BY <1>1, <1>2, <2>1, HandlerMoves DEF AtWork, Holds
<1>4. QED
  BY <1>1, <1>3, TabsKept DEF IInv, Shape, AnswersAreKeys, StoredNotAhead, server

(* The counter written is one the device has reached.                      *)
LEMMA WriteKeeps ==
    ASSUME IInv, NEW r \in Requests, NEW step \in {"save", "update"}, write(r, step)
    PROVE  IInv'
<1> DEFINE a == handler[r].answer
<1>1. /\ UNCHANGED <<issued, pending, sessions, keys, answers, at, offered>>
      /\ handler[r].step = step
  BY DEF write
<1>2. /\ a \in answers /\ a.serial = handler[r].expected
      /\ a.key \in DOMAIN keys /\ a.counter <= keys[a.key] /\ a.counter \in Nat
  BY <1>1 DEF IInv, AtWorkOnAnswer, AnswersAreKeys, AtWork, Shape, Answers
<1>3. stored' = with(stored, a.key, a.counter) \/ stored' = stored
  BY DEF write
<1>4. PICK h \in Handlers :
         /\ handler' = [handler EXCEPT ![r] = h]
         /\ \/ h.step = "refused"
            \/ /\ h.step = "issue" /\ h.answer = a /\ h.expected = handler[r].expected
               /\ stored' = with(stored, a.key, a.counter)
  <2>1. CASE refuse(r)
    BY <2>1, Blank DEF refuse, answered, Steps
  <2>2. CASE moves(r, "issue") /\ stored' = with(stored, a.key, a.counter)
    BY <2>2, Stepped DEF Steps
  <2>3. QED
    BY <2>1, <2>2 DEF write
<1> HIDE DEF a
<1>5. /\ stored' \in [DOMAIN stored' -> Nat]
      /\ DOMAIN stored \subseteq DOMAIN stored' /\ DOMAIN stored' \subseteq DOMAIN keys
      /\ stored' = with(stored, a.key, a.counter) => a.key \in DOMAIN stored'
      /\ \A k \in DOMAIN stored' : stored'[k] <= keys[k]
  <2>1. CASE stored' = stored
    <3>1. \A k \in DOMAIN stored : stored[k] <= keys[k]
      BY DEF IInv, StoredNotAhead
    <3>2. stored \in [DOMAIN stored -> Nat] /\ DOMAIN stored \subseteq DOMAIN keys
      BY DEF IInv, Shape
    <3>3. stored' = with(stored, a.key, a.counter) => a.key \in DOMAIN stored'
      BY DEF with
    <3>4. QED
      BY <2>1, <3>1, <3>2, <3>3
  <2>2. CASE stored' = with(stored, a.key, a.counter)
    <3>1. /\ DOMAIN stored' = DOMAIN stored \cup {a.key}
          /\ \A k \in DOMAIN stored' : stored'[k] = IF k = a.key THEN a.counter ELSE stored[k]
          /\ stored' = [k \in DOMAIN stored' |-> stored'[k]]
      BY <2>2 DEF with
    <3>2. \A k \in DOMAIN stored : stored[k] \in Nat /\ stored[k] <= keys[k] /\ k \in DOMAIN keys
      BY DEF IInv, Shape, StoredNotAhead
    <3>3. QED
      BY <1>2, <3>1, <3>2
  <2>3. QED
    BY <1>3, <2>1, <2>2
<1>6. /\ handler' \in [Requests -> Handlers] /\ handler'[r] = h
      /\ \A q \in Requests : q # r => handler'[q] = handler[q]
  BY <1>4 DEF IInv, Shape
<1>7. Shape'
  BY <1>1, <1>5, <1>6 DEF IInv, Shape
<1>8. AtWorkOnAnswer'
  BY <1>1, <1>2, <1>4, <1>5, <1>6 DEF IInv, AtWorkOnAnswer, AtWork
<1>9. TakenByOne'
  BY <1>1, <1>4, <1>6 DEF IInv, TakenByOne, Holds
<1>10. SessionsWereEarned'
  BY <1>1, <1>5 DEF IInv, SessionsWereEarned
<1>11. StoredNotAhead'
  BY <1>1, <1>5 DEF StoredNotAhead
<1>12. QED
  BY <1>1, <1>7, <1>8, <1>9, <1>10, <1>11, TabsKept DEF IInv, AnswersAreKeys

(* The challenge held is spent on the session: no other request holds it,  *)
(* no earlier session was issued for it.                                   *)
LEMMA CreateSessionKeeps ==
    ASSUME IInv, NEW r \in Requests, createSession(r)
    PROVE  IInv'
<1> DEFINE a == handler[r].answer
<1>1. /\ UNCHANGED <<issued, pending, stored, keys, answers, at, offered>>
      /\ handler[r].step = "issue"
  BY DEF createSession
<1>2. PICK written \in BOOLEAN :
         sessions' = sessions \cup {[answer |-> a, by |-> r, written |-> written]}
  BY DEF createSession
<1> DEFINE s == [answer |-> a, by |-> r, written |-> written]
<1>3. /\ a \in answers /\ a.serial = handler[r].expected /\ a.key \in DOMAIN stored
  BY <1>1 DEF IInv, AtWorkOnAnswer, AtWork
<1>4. /\ handler[r].expected \in 1..issued
      /\ \A c \in pending : c.serial # a.serial
      /\ \A u \in sessions : u.answer.serial # a.serial
      /\ \A q \in Requests : q # r /\ handler[q].step \in Holds => handler[q].expected # a.serial
  BY <1>1, <1>3 DEF IInv, TakenByOne, Holds
<1>5. /\ s.answer = a
      /\ s \in [answer : answers, by : Requests, written : BOOLEAN]
      /\ sessions' = sessions \cup {s}
  BY <1>2, <1>3
<1>6. /\ handler' \in [Requests -> Handlers] /\ handler'[r].step = "done"
      /\ \A q \in Requests : q # r => handler'[q] = handler[q]
  <2>1. "done" \in Steps /\ answered(r, "done")
    BY DEF Steps, createSession
  <2> DEFINE h == [nothing EXCEPT !.step = "done"]
  <2>2. h \in Handlers /\ h.step = "done"
    BY <2>1, Blank
  <2>3. handler' = [handler EXCEPT ![r] = h]
    BY <2>1 DEF answered
  <2> HIDE DEF h
  <2>4. QED
    BY <2>2, <2>3 DEF IInv, Shape
<1> HIDE DEF a, s
<1>7. Shape'
  BY <1>1, <1>5, <1>6 DEF IInv, Shape
<1>8. AtWorkOnAnswer'
  BY <1>1, <1>6 DEF IInv, AtWorkOnAnswer, AtWork
<1>9. TakenByOne'
  <2>1. a.serial <= issued
    BY <1>3, <1>4
  <2>2. \A u \in sessions' : u \in sessions \/ u.answer = a
    BY <1>5
  <2>3. \A q \in Requests : handler'[q].step \in Holds => q # r /\ handler'[q] = handler[q]
    BY <1>6 DEF Holds
  <2>4. QED
    BY <1>1, <1>4, <2>1, <2>2, <2>3 DEF IInv, TakenByOne
<1>10. SessionsWereEarned'
  <2>1. \A u \in sessions' : u \in sessions \/ u = s
    BY <1>5
  <2>2. QED
    BY <1>1, <1>3, <1>4, <1>5, <2>1 DEF IInv, SessionsWereEarned
<1>11. QED
  BY <1>1, <1>7, <1>8, <1>9, <1>10, TabsKept DEF IInv, AnswersAreKeys, StoredNotAhead

LEMMA TickKeeps ==
    ASSUME IInv, Tick
    PROVE  IInv'
<1>1. UNCHANGED <<issued, stored, sessions, keys, answers, at, offered, handler>>
  BY DEF Tick
<1>2. PICK c \in pending : c.life > 0 /\ pending' = {[c EXCEPT !.life = @ - 1]}
  BY DEF Tick
<1> DEFINE d == [c EXCEPT !.life = @ - 1]
<1>3. c.life \in Nat /\ LIFETIME \in Nat /\ c.life <= LIFETIME /\ c.life > 0
  BY <1>2, CeremonyAssumption DEF IInv, Shape
<1>4. d \in [serial : 1..issued, life : 0..LIFETIME] /\ d.serial = c.serial
  <2>1. c \in [serial : 1..issued, life : 0..LIFETIME] /\ c.life - 1 \in 0..LIFETIME
    BY <1>3 DEF IInv, Shape
  <2>2. QED
    BY <2>1
<1>5. pending' = {d}
  BY <1>2
<1> HIDE DEF d
<1>6. Cardinality(pending') <= 1
  BY <1>5, FS_Singleton
<1>7. Shape'
  BY <1>1, <1>4, <1>5, <1>6 DEF IInv, Shape
<1>8. TakenByOne'
  BY <1>1, <1>4, <1>5 DEF IInv, TakenByOne
<1>9. QED
  BY <1>1, <1>7, <1>8, TabsKept
     DEF IInv, AnswersAreKeys, StoredNotAhead, AtWorkOnAnswer, SessionsWereEarned

-----------------------------------------------------------------------------
LEMMA InitEstablishes == Init => IInv
<1> SUFFICES ASSUME Init PROVE IInv
  OBVIOUS
<1>1. PICK enrolled \in {{}, Devices} :
         keys = [k \in {[device |-> d, serial |-> 0] : d \in enrolled} |-> 0]
  BY DEF Init
<1>2. /\ issued = 0 /\ pending = {} /\ stored = keys /\ answers = {} /\ sessions = {}
      /\ at = [t \in Tabs |-> "idle"] /\ offered = [t \in Tabs |-> NoList]
      /\ handler = [r \in Requests |-> nothing]
  BY DEF Init
<1>3. /\ DOMAIN keys \subseteq Passkeys /\ keys \in [DOMAIN keys -> Nat]
      /\ \A k \in DOMAIN keys : k.serial = 0 /\ keys[k] = 0
  BY <1>1, CeremonyAssumption DEF Passkeys
<1>4. Shape
  <2>1. Cardinality(pending) <= 1
    BY <1>2, FS_EmptySet
  <2>2. "idle" \in Phases /\ 0 \in 0..MaxChallenges
    BY CeremonyAssumption DEF Phases, Idle
  <2>3. handler \in [Requests -> Handlers]
    BY <1>2, Blank
  <2>4. QED
    BY <1>2, <1>3, <2>1, <2>2, <2>3 DEF Shape
<1>5. RoomToStart
  <2>1. Starting = {}
    BY <1>2 DEF Starting
  <2>2. QED
    BY <1>2, <2>1, FS_EmptySet, CeremonyAssumption DEF RoomToStart
<1>6. PromptsAreFresh /\ AnswersAreKeys /\ StoredNotAhead
  BY <1>2, <1>3 DEF PromptsAreFresh, AnswersAreKeys, StoredNotAhead
<1>7. \A r \in Requests : handler[r].step = "none"
  BY <1>2, Blank
<1>8. AtWorkOnAnswer /\ TakenByOne /\ SessionsWereEarned
  BY <1>2, <1>7 DEF AtWorkOnAnswer, TakenByOne, SessionsWereEarned, AtWork, Holds
<1>9. QED
  BY <1>4, <1>5, <1>6, <1>8 DEF IInv

LEMMA NextKeeps == IInv /\ [Next]_vars => IInv'
<1> SUFFICES ASSUME IInv, [Next]_vars PROVE IInv'
  OBVIOUS
<1>1. ASSUME NEW t \in Tabs, handleAuth(t) \/ Attempt(t) \/ dismiss(t)
      PROVE  IInv'
  <2>1. CASE startRegistration(t)
    BY <2>1, StartKeeps DEF startRegistration
  <2>2. CASE startAuthentication(t)
    BY <2>2, StartKeeps DEF startAuthentication
  <2>3. QED
    BY <1>1, <2>1, <2>2, HandleAuthKeeps, CreateKeeps, AssertKeeps, HearKeeps, DismissKeeps DEF Attempt
<1>2. ASSUME NEW r \in Requests, Handle(r)
      PROVE  IInv'
  <2>1. CASE saveCredential(r)
    BY <2>1, WriteKeeps DEF saveCredential
  <2>2. CASE updateCredentialCounter(r)
    BY <2>2, WriteKeeps DEF updateCredentialCounter
  <2>3. QED
    BY <1>2, <2>1, <2>2, TakeChallengeKeeps, VerifyKeeps, CreateSessionKeeps DEF Handle
<1>3. CASE UNCHANGED vars
  BY <1>3 DEF vars, server, IInv, Shape, RoomToStart, Starting, PromptsAreFresh, AnswersAreKeys,
              StoredNotAhead, AtWorkOnAnswer, TakenByOne, SessionsWereEarned
<1>4. QED
  BY <1>1, <1>2, <1>3, RepeatKeeps, TickKeeps DEF Next

(* What the steps keep: a challenge is in the row, with one request, or    *)
(* spent on one session, and no counter on record is ahead of its device.  *)
THEOREM InductiveInvariant == Spec => []IInv
BY InitEstablishes, NextKeeps, PTL DEF Spec

(* The rows, the prompts and the requests keep their shape.                *)
THEOREM TypeCorrect == Spec => []TypeOK
<1>1. IInv => TypeOK
  <2> SUFFICES ASSUME IInv PROVE TypeOK
    OBVIOUS
  <2>1. Range(keys) \cup Range(stored) \subseteq Nat
    BY DEF IInv, Shape, Range
  <2>2. /\ \A t \in Tabs : at[t] \in Phases
        /\ \A r \in Requests : handler[r].step \in Steps
    BY DEF IInv, Shape, Handlers
  <2>3. QED
    BY <2>1, <2>2 DEF IInv, Shape, TypeOK, Phases, Steps
<1>2. QED
  BY <1>1, InductiveInvariant, PTL

(* An answer or a challenge earns one session, by a passkey on record,     *)
(* however its request is repeated or overtaken and whatever call fails.   *)
THEOREM SessionsEarned == Spec => []SessionsWereEarned
<1>1. IInv => SessionsWereEarned
  BY DEF IInv
<1>2. QED
  BY <1>1, InductiveInvariant, PTL

(* Updates of the counter may land in any order: the device's next         *)
(* assertion is above what is on record.                                   *)
THEOREM NotLockedOut == Spec => []OwnerNotLockedOut
<1>1. IInv => OwnerNotLockedOut
  <2> SUFFICES ASSUME IInv, NEW k \in DOMAIN stored
               PROVE  counter_rises(uses(k), stored[k])
    BY DEF OwnerNotLockedOut
  <2>1. stored[k] \in Nat /\ keys[k] \in Nat /\ stored[k] <= keys[k] /\ k \in DOMAIN keys
    BY DEF IInv, Shape, StoredNotAhead
  <2>2. k.device \notin Counting => keys[k] = 0
    BY <2>1 DEF IInv, AnswersAreKeys
  <2>3. QED
    BY <2>1, <2>2 DEF counter_rises, uses
<1>2. QED
  BY <1>1, InductiveInvariant, PTL
=============================================================================
