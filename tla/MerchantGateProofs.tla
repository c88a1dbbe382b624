------------------------- MODULE MerchantGateProofs -------------------------
(***************************************************************************)
(* The merchant keeps its turnstile, and the agent is told the truth, for  *)
(* any number of requests, payments and restarts.                          *)
(*                                                                         *)
(* 1. With a database, whatever the facilitator says: a handler past the   *)
(*    record holds an entry of its own, as the record takes neither a hash *)
(*    nor a nonce twice; and it got that far only with a transaction the   *)
(*    ledger shows.  If a hash can be spelled in one way only, that is the *)
(*    turnstile.                                                           *)
(* 2. With an honest facilitator, whatever is remembered and however a hash*)
(*    is spelled: a payment that settled does not get past verify or submit*)
(*    again, so a handler still at work beside a release is one the record *)
(*    knows of, by its nonce.                                              *)
(* 3. The agent's calls are requests like any other, so what holds of the  *)
(*    merchant holds beside them; what a call signs was vetted, and what   *)
(*    it was answered is its own request's answer.                         *)
(***************************************************************************)
EXTENDS PaidExchange, TLAPS

Past  == {"publish", "released"}
Steps == {"new", "gone"} \cup Waiting \cup Answered

(* A handler at work has a payment, which its request presented.           *)
AtWorkOnPayment ==
    \A r \in Requests : step[r] \in Waiting \cup {"released"} => payment[r] \in Payments

(* What is about to be recorded, or was, the ledger shows, and the account *)
(* that presented the payment paid it.                                     *)
NamedIsSettled ==
    \A r \in Requests :
        /\ step[r] \in {"confirm", "record"} \cup Past => named[r] \in Names
        /\ step[r] \in {"record"} \cup Past =>
              named[r].tx \in ledger /\ named[r].tx.payer = payment[r].payer

(* A handler past the record is in it.                                     *)
PastIsRecorded ==
    \A r \in Requests : step[r] \in Past => entry(r) \in recorded

(* ... and is the only one past it with its name or its nonce.             *)
PastIsAlone ==
    \A r, q \in Requests :
        /\ step[r] \in Past /\ step[q] \in Past
        /\ named[r] = named[q] \/ payment[r].challenge = payment[q].challenge
        => r = q

IInv ==
    /\ TypeOK
    /\ AtWorkOnPayment
    /\ NamedIsSettled
    /\ PastIsRecorded
    /\ PastIsAlone

-----------------------------------------------------------------------------
LEMMA Goto ==
    ASSUME TypeOK, NEW r \in Requests, NEW s \in Steps, goto(r, s)
    PROVE  /\ step' \in [Requests -> {"new", "gone"} \cup Waiting \cup Answered]
           /\ step'[r] = s
           /\ \A q \in Requests : q # r => step'[q] = step[q]
BY DEF goto, TypeOK, Steps

(* A handler that moves to a step before the record disturbs none of the   *)
(* others.                                                                 *)
LEMMA MoveKeeps ==
    ASSUME IInv, TypeOK', NEW r \in Requests, NEW s \in Steps \ ({"record"} \cup Past), goto(r, s),
           \A q \in Requests : q # r => payment'[q] = payment[q] /\ named'[q] = named[q],
           ledger' = ledger, recorded' = recorded,
           s \in Waiting => payment'[r] \in Payments,
           s = "confirm" => named'[r] \in Names
    PROVE  IInv'
<1>1. /\ step'[r] = s
      /\ \A q \in Requests : q # r => step'[q] = step[q]
  BY Goto DEF IInv
<1>2. s \notin {"record", "publish", "released"}
  BY DEF Past
<1>3. AtWorkOnPayment'
  BY <1>1, <1>2 DEF IInv, AtWorkOnPayment
<1>4. NamedIsSettled'
  BY <1>1, <1>2 DEF IInv, NamedIsSettled, Past
<1>5. PastIsRecorded'
  BY <1>1, <1>2 DEF IInv, PastIsRecorded, Past, entry
<1>6. PastIsAlone'
  BY <1>1, <1>2 DEF IInv, PastIsAlone, Past
<1>7. QED
  BY <1>3, <1>4, <1>5, <1>6 DEF IInv

(* When no handler moves, the invariant only asks that the ledger keeps    *)
(* what it shows, and the record what it holds.                            *)
LEMMA WorldKeeps ==
    ASSUME IInv, TypeOK', UNCHANGED handlers, ledger \subseteq ledger', recorded \subseteq recorded'
    PROVE  IInv'
BY DEF IInv, handlers, AtWorkOnPayment, NamedIsSettled, PastIsRecorded, PastIsAlone, entry

LEMMA SignKeepsType ==
    ASSUME TypeOK, NEW resource \in Resources, sign(resource)
    PROVE  (signed \subseteq Challenge)'
BY DEF TypeOK, sign, unused, Challenge

LEMMA AskKeeps ==
    ASSUME IInv, NEW r \in Requests, ask(r)
    PROVE  IInv'
<1>1. ResourceOf[r] \in Resources
  BY ResourceAssumption
<1>2. (signed \subseteq Challenge)'
  BY <1>1, SignKeepsType DEF ask, IInv, TypeOK
<1>3. goto(r, "asked") /\ UNCHANGED <<payment, named, world, recorded, proven, restarts>>
  BY DEF ask
<1>4. TypeOK'
  BY <1>2, <1>3, Goto DEF IInv, TypeOK, Steps, Answered, world
<1>5. QED
  BY <1>3, <1>4, MoveKeeps DEF Steps, Answered, Waiting, Past, world

LEMMA RefuseKeeps ==
    ASSUME IInv, NEW r \in Requests, goto(r, "refused"),
           UNCHANGED <<payment, named, signed, world, recorded, proven, restarts>>
    PROVE  IInv'
<1>1. TypeOK'
  BY Goto DEF IInv, TypeOK, Steps, Answered, world
<1>2. QED
  BY <1>1, MoveKeeps DEF Steps, Answered, Waiting, Past, world

-----------------------------------------------------------------------------
LEMMA ArriveKeeps ==
    ASSUME IInv, NEW r \in Requests, NEW p \in Payments, arrive(r, p)
    PROVE  IInv'
<1>1. CASE ask(r)
  BY <1>1, AskKeeps
<1>2. CASE ~ask(r)
  <2> DEFINE s == IF p.challenge.chain = "solana" THEN "submit" ELSE "verify"
  <2>1. /\ payment' = [payment EXCEPT ![r] = p]
        /\ goto(r, s)
        /\ UNCHANGED <<named, signed, world, recorded, proven, restarts>>
    BY <1>2 DEF arrive
  <2>2. s \in Steps \ ({"record"} \cup Past)
    BY DEF Steps, Waiting, Past
  <2>3. TypeOK'
    <3>1. (step \in [Requests -> {"new", "gone"} \cup Waiting \cup Answered])'
      BY <2>1, <2>2, Goto DEF IInv
    <3>2. QED
      BY <2>1, <3>1 DEF IInv, TypeOK, world
  <2>4. /\ payment'[r] \in Payments
        /\ \A q \in Requests : q # r => payment'[q] = payment[q] /\ named'[q] = named[q]
    BY <2>1 DEF IInv, TypeOK
  <2>5. ledger' = ledger /\ recorded' = recorded
    BY <2>1 DEF world
  <2>6. goto(r, s) /\ s # "confirm"
    BY <2>1
  <2> HIDE DEF s
  <2>7. QED
    BY <2>2, <2>3, <2>4, <2>5, <2>6, MoveKeeps
<1>3. QED
  BY <1>1, <1>2

LEMMA VerifyKeeps ==
    ASSUME IInv, NEW r \in Requests, verify(r)
    PROVE  IInv'
<1>1. CASE goto(r, "settle") /\ UNCHANGED <<payment, named, signed, world, recorded, proven, restarts>>
  <2>1. payment[r] \in Payments
    BY DEF IInv, AtWorkOnPayment, verify, Waiting
  <2>2. TypeOK'
    BY <1>1, Goto DEF IInv, TypeOK, Steps, Waiting, world
  <2>3. QED
    BY <1>1, <2>1, <2>2, MoveKeeps DEF Steps, Waiting, Past, world
<1>2. QED
  BY <1>1, AskKeeps, RefuseKeeps DEF verify, refuse

LEMMA SettleKeeps ==
    ASSUME IInv, NEW r \in Requests, settle(r)
    PROVE  IInv'
<1>1. payment[r] \in Payments
  BY DEF IInv, AtWorkOnPayment, settle, Waiting
<1>2. (step \in [Requests -> {"new", "gone"} \cup Waiting \cup Answered])'
  BY Goto DEF IInv, settle, Steps, Waiting
<1>3. (pending \subseteq Payments)'
  BY <1>1 DEF IInv, TypeOK, settle
<1>4. TypeOK'
  BY <1>2, <1>3 DEF IInv, TypeOK, settle
<1>5. QED
  BY <1>1, <1>4, MoveKeeps DEF settle, Steps, Waiting, Past

LEMMA SettleAnswerKeeps ==
    ASSUME IInv, NEW r \in Requests, settle_answer(r)
    PROVE  IInv'
<1>1. ASSUME NEW name \in Names,
             named' = [named EXCEPT ![r] = name],
             goto(r, "confirm"),
             UNCHANGED <<payment, signed, world, recorded, proven, restarts>>
      PROVE  IInv'
  <2>1. payment[r] \in Payments
    BY DEF IInv, AtWorkOnPayment, settle_answer, Waiting
  <2>2. (step \in [Requests -> {"new", "gone"} \cup Waiting \cup Answered])'
    BY <1>1, Goto DEF IInv, Steps, Waiting
  <2>3. TypeOK'
    BY <1>1, <2>2 DEF IInv, TypeOK, world
  <2>4. named'[r] \in Names /\ \A q \in Requests : q # r => named'[q] = named[q]
    BY <1>1 DEF IInv, TypeOK
  <2>5. QED
    BY <1>1, <2>1, <2>3, <2>4, MoveKeeps DEF Steps, Waiting, Past, world
<1>2. QED
  BY <1>1, AskKeeps, RefuseKeeps DEF settle_answer, refuse

(* A handler that goes on to the record names a transaction of the ledger. *)
LEMMA ToRecordKeeps ==
    ASSUME IInv, TypeOK', NEW r \in Requests, goto(r, "record"),
           \A q \in Requests : q # r => named'[q] = named[q],
           payment' = payment, ledger' = ledger, recorded' = recorded,
           payment[r] \in Payments, named'[r] \in Names, named'[r].tx \in ledger,
           named'[r].tx.payer = payment[r].payer
    PROVE  IInv'
<1>1. /\ step'[r] = "record"
      /\ \A q \in Requests : q # r => step'[q] = step[q]
  BY Goto DEF IInv, Steps, Waiting
<1>2. AtWorkOnPayment'
  BY <1>1 DEF IInv, AtWorkOnPayment
<1>3. NamedIsSettled'
  BY <1>1 DEF IInv, NamedIsSettled, Past
<1>4. PastIsRecorded'
  BY <1>1 DEF IInv, PastIsRecorded, Past, entry
<1>5. PastIsAlone'
  BY <1>1 DEF IInv, PastIsAlone, Past
<1>6. QED
  BY <1>2, <1>3, <1>4, <1>5 DEF IInv

LEMMA ConfirmKeeps ==
    ASSUME IInv, NEW r \in Requests, confirm(r)
    PROVE  IInv'
<1>1. CASE /\ on_ledger(named[r], r)
           /\ goto(r, "record")
           /\ UNCHANGED <<payment, named, signed, world, recorded, proven, restarts>>
  <2>1. payment[r] \in Payments
    BY DEF IInv, AtWorkOnPayment, confirm, Waiting
  <2>2. TypeOK'
    BY <1>1, Goto DEF IInv, TypeOK, Steps, Waiting, world
  <2>3. named[r] \in Names /\ named[r].tx \in ledger /\ named[r].tx.payer = payment[r].payer
    BY <1>1 DEF on_ledger, confirm, IInv, NamedIsSettled
  <2>4. QED
    BY <1>1, <2>1, <2>2, <2>3, ToRecordKeeps DEF world
<1>2. QED
  BY <1>1, RefuseKeeps DEF confirm, refuse

LEMMA SubmitKeeps ==
    ASSUME IInv, NEW r \in Requests, submit(r)
    PROVE  IInv'
<1>1. CASE ~refuse(r)
  <2>1. /\ pending' = pending \cup {payment[r]}
        /\ goto(r, "poll")
        /\ UNCHANGED <<payment, named, signed, expired, ledger, recorded, proven, restarts>>
    BY <1>1 DEF submit
  <2>2. payment[r] \in Payments
    BY DEF IInv, AtWorkOnPayment, submit, Waiting
  <2>3. (step \in [Requests -> {"new", "gone"} \cup Waiting \cup Answered])'
    BY <2>1, Goto DEF IInv, Steps, Waiting
  <2>4. TypeOK'
    BY <2>1, <2>2, <2>3 DEF IInv, TypeOK
  <2>5. QED
    BY <2>1, <2>2, <2>4, MoveKeeps DEF Steps, Waiting, Past
<1>2. QED
  BY <1>1, RefuseKeeps DEF refuse

LEMMA PollKeeps ==
    ASSUME IInv, NEW r \in Requests, poll(r)
    PROVE  IInv'
<1>1. CASE ~refuse(r)
  <2> DEFINE name == [tx |-> payment[r], as |-> Canonical]
  <2>1. /\ payment[r] \in ledger
        /\ named' = [named EXCEPT ![r] = name]
        /\ goto(r, "record")
        /\ UNCHANGED <<payment, signed, world, recorded, proven, restarts>>
    BY <1>1 DEF poll
  <2>0. name \in Names /\ name.tx = payment[r]
    BY <2>1, SpellingsAssumption DEF Names, IInv, TypeOK
  <2> HIDE DEF name
  <2>2. payment[r] \in Payments
    BY DEF IInv, AtWorkOnPayment, poll, Waiting
  <2>3. (step \in [Requests -> {"new", "gone"} \cup Waiting \cup Answered])'
    BY <2>1, Goto DEF IInv, Steps, Waiting
  <2>4. TypeOK'
    BY <2>0, <2>1, <2>2, <2>3 DEF IInv, TypeOK, world
  <2>5. /\ named'[r] = name
        /\ \A q \in Requests : q # r => named'[q] = named[q]
    BY <2>1 DEF IInv, TypeOK
  <2>6. QED
    BY <2>0, <2>1, <2>2, <2>4, <2>5, ToRecordKeeps DEF world
<1>2. QED
  BY <1>1, RefuseKeeps DEF refuse

-----------------------------------------------------------------------------
(* The record takes a name once and a nonce once, so the handler that      *)
(* records them is alone past the record with either.                      *)
LEMMA RecordKeeps ==
    ASSUME IInv, NEW r \in Requests, record(r)
    PROVE  IInv'
<1>1. ASSUME is_new(named[r], payment[r].challenge),
             recorded' = recorded \cup {entry(r)},
             NEW s \in {"publish", "released", "refused"}, goto(r, s),
             UNCHANGED <<payment, named, signed, world, proven, restarts>>
      PROVE  IInv'
  <2>1. /\ step'[r] = s
        /\ \A q \in Requests : q # r => step'[q] = step[q]
        /\ (step \in [Requests -> {"new", "gone"} \cup Waiting \cup Answered])'
    BY <1>1, Goto DEF IInv, Steps, Waiting, Answered
  <2>2. payment[r] \in Payments /\ named[r] \in Names
        /\ named[r].tx \in ledger /\ named[r].tx.payer = payment[r].payer
    BY DEF IInv, AtWorkOnPayment, NamedIsSettled, record, Waiting
  <2>3. entry(r) \in [tx : Names, nonce : Challenge]
    BY <2>2, PaymentsAssumption DEF IInv, TypeOK, entry
  <2>4. TypeOK'
    BY <1>1, <2>1, <2>3 DEF IInv, TypeOK, world
  <2>5. AtWorkOnPayment'
    BY <1>1, <2>1, <2>2 DEF IInv, AtWorkOnPayment
  <2>6. NamedIsSettled'
    BY <1>1, <2>1, <2>2 DEF IInv, NamedIsSettled, Past, world
  <2>7. PastIsRecorded'
    BY <1>1, <2>1 DEF IInv, PastIsRecorded, Past, entry
  <2>8. \A q \in Requests : step[q] \in Past =>
           named[q] # named[r] /\ payment[q].challenge # payment[r].challenge
    BY <1>1 DEF IInv, PastIsRecorded, is_new, entry
  <2>9. PastIsAlone'
    BY <1>1, <2>1, <2>8 DEF IInv, PastIsAlone, Past
  <2>10. QED
    BY <2>4, <2>5, <2>6, <2>7, <2>9 DEF IInv
<1>2. QED
  BY <1>1, RefuseKeeps DEF record, refuse

LEMMA PublishKeeps ==
    ASSUME IInv, NEW r \in Requests, publish(r)
    PROVE  IInv'
<1>1. /\ step[r] = "publish"
      /\ goto(r, "released")
      /\ UNCHANGED <<payment, named, signed, world, recorded, restarts>>
  BY DEF publish
<1>2. /\ step'[r] = "released"
      /\ \A q \in Requests : q # r => step'[q] = step[q]
      /\ (step \in [Requests -> {"new", "gone"} \cup Waiting \cup Answered])'
  BY <1>1, Goto DEF IInv, Steps, Answered
<1>3. (proven \subseteq Payments)'
  BY DEF IInv, TypeOK, publish
<1>4. TypeOK'
  BY <1>1, <1>2, <1>3 DEF IInv, TypeOK, world
<1>5. AtWorkOnPayment'
  BY <1>1, <1>2 DEF IInv, AtWorkOnPayment, Waiting
<1>6. NamedIsSettled'
  BY <1>1, <1>2 DEF IInv, NamedIsSettled, Past, world
<1>7. PastIsRecorded'
  BY <1>1, <1>2 DEF IInv, PastIsRecorded, Past, entry
<1>8. PastIsAlone'
  BY <1>1, <1>2 DEF IInv, PastIsAlone, Past
<1>9. QED
  BY <1>4, <1>5, <1>6, <1>7, <1>8 DEF IInv

LEMMA HandleKeeps ==
    ASSUME IInv, NEW r \in Requests, Handle(r)
    PROVE  IInv'
BY VerifyKeeps, SettleKeeps, SettleAnswerKeeps, ConfirmKeeps, SubmitKeeps, PollKeeps,
   RecordKeeps, PublishKeeps DEF Handle

LEMMA WorldStepKeeps ==
    ASSUME IInv, Land \/ Drop \/ Expire \/ \E resource \in Resources : quote(resource)
    PROVE  IInv'
<1>1. CASE Land
  <2>1. TypeOK'
    BY <1>1, PaymentsAssumption DEF Land, IInv, TypeOK, handlers
  <2>2. QED
    BY <1>1, <2>1, WorldKeeps DEF Land
<1>2. CASE Drop
  <2>1. TypeOK'
    BY <1>2 DEF Drop, IInv, TypeOK, handlers
  <2>2. QED
    BY <1>2, <2>1, WorldKeeps DEF Drop
<1>3. CASE Expire
  <2>1. TypeOK'
    BY <1>3 DEF Expire, IInv, TypeOK, handlers
  <2>2. QED
    BY <1>3, <2>1, WorldKeeps DEF Expire
<1>4. ASSUME NEW resource \in Resources, quote(resource)
      PROVE  IInv'
  <2>1. TypeOK'
    BY <1>4, SignKeepsType DEF quote, IInv, TypeOK, handlers, world
  <2>2. QED
    BY <1>4, <2>1, WorldKeeps DEF quote, world
<1>5. QED
  BY <1>1, <1>2, <1>3, <1>4

(* A restart ends the handlers at work and keeps what a database holds.    *)
LEMMA RestartKeeps ==
    ASSUME DurableRecord, IInv, Restart
    PROVE  IInv'
<1>1. /\ step' = [r \in Requests |-> IF step[r] \in Waiting THEN "gone" ELSE step[r]]
      /\ UNCHANGED <<payment, named, signed, world, recorded, proven>>
      /\ restarts' \in Nat
  BY DEF Restart, IInv, TypeOK
<1>2. \A r \in Requests : step'[r] \in Waiting \cup {"record"} \cup Past
                          => step'[r] = step[r] /\ step[r] = "released"
  BY <1>1 DEF Waiting, Past
<1>3. TypeOK'
  BY <1>1 DEF IInv, TypeOK, world
<1>4. AtWorkOnPayment'
  BY <1>1, <1>2 DEF IInv, AtWorkOnPayment, Past
<1>5. NamedIsSettled'
  BY <1>1, <1>2 DEF IInv, NamedIsSettled, Past, world
<1>6. PastIsRecorded'
  BY <1>1, <1>2 DEF IInv, PastIsRecorded, Past, entry
<1>7. PastIsAlone'
  BY <1>1, <1>2 DEF IInv, PastIsAlone, Past
<1>8. QED
  BY <1>3, <1>4, <1>5, <1>6, <1>7 DEF IInv

LEMMA InitHolds == Init => IInv
BY FlagsAssumption DEF Init, IInv, TypeOK, AtWorkOnPayment, NamedIsSettled, PastIsRecorded,
   PastIsAlone, Waiting, Past

LEMMA StepKeeps == DurableRecord /\ IInv /\ [Next]_vars => IInv'
<1> SUFFICES ASSUME DurableRecord, IInv, [Next]_vars PROVE IInv'
  OBVIOUS
<1>1. CASE UNCHANGED vars
  <2>1. TypeOK'
    BY <1>1 DEF IInv, TypeOK, vars, handlers, world
  <2>2. QED
    BY <1>1, <2>1, WorldKeeps DEF vars, world
<1>2. CASE \E r \in Requests, p \in Payments : arrive(r, p)
  BY <1>2, ArriveKeeps
<1>3. CASE \E r \in Requests : Handle(r)
  BY <1>3, HandleKeeps
<1>4. CASE Land \/ Drop \/ Expire \/ \E resource \in Resources : quote(resource)
  BY <1>4, WorldStepKeeps
<1>5. CASE Restart
  BY <1>5, RestartKeeps
<1>6. QED
  BY <1>1, <1>2, <1>3, <1>4, <1>5 DEF Next

(* A database keeps the invariant across every behaviour, restarts         *)
(* included.                                                               *)
THEOREM InductiveInvariant ==
    ASSUME DurableRecord
    PROVE  Spec => []IInv
<1>1. IInv /\ [Next]_vars => IInv'
  BY StepKeeps
<1>2. QED
  BY <1>1, InitHolds, PTL DEF Spec

-----------------------------------------------------------------------------
(* The refinement: a release admits a customer on a coin of its own, a     *)
(* settlement pays one, and every other step leaves the turnstile alone.   *)
(* All it needs of an invariant: of those past the record each has its own *)
(* transaction, and none of theirs is recorded again.                      *)
AloneOnTransaction ==
    \A r, q \in Requests :
        step[r] \in Past /\ step[q] \in Past /\ named[r].tx = named[q].tx => r = q

NotRecordedAgain ==
    \A r, q \in Requests :
        step[r] = "record" /\ step[q] \in Past /\ named[r].tx = named[q].tx
        => ~is_new(named[r], payment[r].challenge)

Sound == TypeOK /\ NamedIsSettled /\ AloneOnTransaction /\ NotRecordedAgain

(* What settlement.ts and the record would have to agree on: a hash is     *)
(* written in one way.                                                     *)
OneSpelling == \A a, b \in Spellings : a = b

LEMMA RecordedIsSound == OneSpelling /\ IInv => Sound
<1> SUFFICES ASSUME OneSpelling, IInv PROVE Sound
  OBVIOUS
<1>1. \A a, b \in Names : a.tx = b.tx => a = b
  BY DEF OneSpelling, Names
<1>2. AloneOnTransaction
  BY <1>1 DEF IInv, NamedIsSettled, PastIsAlone, AloneOnTransaction
<1>3. NotRecordedAgain
  <2> SUFFICES ASSUME NEW r \in Requests, NEW q \in Requests, step[r] = "record",
                      step[q] \in Past, named[r].tx = named[q].tx
               PROVE  ~is_new(named[r], payment[r].challenge)
    BY DEF NotRecordedAgain
  <2>1. named[r] = named[q]
    BY <1>1 DEF IInv, NamedIsSettled
  <2>2. entry(q) \in recorded /\ entry(q).tx = named[q]
    BY DEF IInv, PastIsRecorded, entry
  <2>3. QED
    BY <2>1, <2>2 DEF is_new
<1>4. QED
  BY <1>2, <1>3 DEF IInv, Sound

LEMMA InitIsTurnstile == Init => Gate!Init
BY DEF Init, Gate!Init

(* A step of the handler r that does not release it.                       *)
LEMMA NoRelease ==
    ASSUME TypeOK, NEW r \in Requests, NEW s \in Steps \ {"released"}, goto(r, s),
           step[r] # "released", ledger' = ledger,
           \A q \in Requests : q # r => named'[q] = named[q]
    PROVE  UNCHANGED Gate!vars
<1>1. /\ step'[r] = s
      /\ \A q \in Requests : q # r => step'[q] = step[q]
  BY Goto
<1>2. QED
  BY <1>1 DEF Gate!vars

(* The step that releases r.                                               *)
LEMMA Release ==
    ASSUME TypeOK, NEW r \in Requests, goto(r, "released"), step[r] # "released",
           named[r].tx \in ledger, ledger' = ledger, named' = named,
           \A q \in Requests : q # r /\ step[q] = "released" => named[q].tx # named[r].tx
    PROVE  Gate!Admit(r)
<1> DEFINE in == [q \in Requests |-> IF step[q] = "released" THEN named[q].tx ELSE NoPayment]
<1>1. /\ step'[r] = "released"
      /\ \A q \in Requests : q # r => step'[q] = step[q]
  BY Goto DEF Steps, Answered
<1>2. named[r].tx # NoPayment
  BY PaymentsAssumption DEF TypeOK
<1>3. in[r] = NoPayment /\ \A q \in Requests : in[q] # named[r].tx
  BY <1>2
<1>4. in' = [in EXCEPT ![r] = named[r].tx]
  BY <1>1
<1>5. QED
  BY <1>3, <1>4 DEF Gate!Admit

LEMMA LandPays ==
    ASSUME TypeOK, Land
    PROVE  Gate!Pay
<1>1. PICK p \in pending : ledger_accepts(p) /\ ledger' = ledger \cup {p}
  BY DEF Land
<1>2. p \in Payments \ ledger
  BY <1>1 DEF TypeOK, ledger_accepts
<1>3. QED
  BY <1>1, <1>2 DEF Land, Gate!Pay, handlers

LEMMA HandleTurns ==
    ASSUME Sound, NEW r \in Requests, Handle(r)
    PROVE  [Gate!Next]_(Gate!vars)
<1>0. TypeOK
  BY DEF Sound
<1>1. step[r] \in Waiting /\ step[r] # "released" /\ ledger' = ledger
  BY DEF Handle, verify, settle, settle_answer, confirm, submit, poll, record, publish,
         ask, refuse, world, Waiting
<1>2. \A q \in Requests : q # r => named'[q] = named[q]
  BY <1>0 DEF Handle, verify, settle, settle_answer, confirm, submit, poll, record, publish,
         ask, refuse, TypeOK
<1>3. ASSUME NEW s \in Steps \ {"released"}, goto(r, s)
      PROVE  [Gate!Next]_(Gate!vars)
  BY <1>0, <1>1, <1>2, <1>3, NoRelease
<1>4. CASE publish(r)
  <2>1. goto(r, "released") /\ named' = named
    BY <1>4 DEF publish
  <2>2. /\ named[r].tx \in ledger
        /\ \A q \in Requests : q # r /\ step[q] = "released" => named[q].tx # named[r].tx
    BY <1>4 DEF publish, Sound, NamedIsSettled, AloneOnTransaction, Past
  <2>3. Gate!Admit(r)
    BY <1>0, <1>1, <2>1, <2>2, Release
  <2>4. QED
    BY <2>3 DEF Gate!Next
<1>5. CASE record(r) /\ is_new(named[r], payment[r].challenge) /\ goto(r, "released")
  <2>1. step[r] = "record" /\ named' = named
    BY <1>5 DEF record, refuse
  <2>2. /\ named[r].tx \in ledger
        /\ \A q \in Requests : q # r /\ step[q] = "released" => named[q].tx # named[r].tx
    BY <1>5, <2>1 DEF Sound, NamedIsSettled, NotRecordedAgain, Past
  <2>3. Gate!Admit(r)
    BY <1>0, <1>1, <1>5, <2>1, <2>2, Release
  <2>4. QED
    BY <2>3 DEF Gate!Next
<1>6. CASE record(r) /\ ~(is_new(named[r], payment[r].challenge) /\ goto(r, "released"))
  <2>1. goto(r, "publish") \/ goto(r, "refused")
    BY <1>6 DEF record, refuse
  <2>2. QED
    BY <1>3, <2>1 DEF Steps, Waiting, Answered
<1>7. CASE verify(r) \/ settle(r) \/ settle_answer(r) \/ confirm(r) \/ submit(r) \/ poll(r)
  <2>1. \E s \in {"settle", "settling", "confirm", "record", "poll", "asked", "refused"} : goto(r, s)
    BY <1>7 DEF verify, settle, settle_answer, confirm, submit, poll, ask, refuse
  <2>2. QED
    BY <1>3, <2>1 DEF Steps, Waiting, Answered
<1>8. QED
  BY <1>4, <1>5, <1>6, <1>7 DEF Handle

LEMMA ArriveTurns ==
    ASSUME TypeOK, NEW r \in Requests, NEW p \in Payments, arrive(r, p)
    PROVE  UNCHANGED Gate!vars
<1>1. PICK s \in Steps \ {"released"} : goto(r, s)
  BY DEF arrive, ask, Steps, Waiting, Answered
<1>2. step[r] # "released" /\ ledger' = ledger /\ named' = named
  BY DEF arrive, ask, world
<1>3. QED
  BY <1>1, <1>2, NoRelease

LEMMA NextTurns == Sound /\ [Next]_vars => [Gate!Next]_(Gate!vars)
<1> SUFFICES ASSUME Sound, [Next]_vars PROVE [Gate!Next]_(Gate!vars)
  OBVIOUS
<1>0. TypeOK
  BY DEF Sound
<1>1. CASE UNCHANGED vars
  BY <1>1 DEF vars, handlers, world, Gate!vars
<1>2. CASE \E r \in Requests, p \in Payments : arrive(r, p)
  BY <1>0, <1>2, ArriveTurns
<1>3. CASE \E r \in Requests : Handle(r)
  BY <1>3, HandleTurns
<1>4. CASE Land
  BY <1>0, <1>4, LandPays DEF Gate!Next
<1>5. CASE Drop \/ Expire \/ \E resource \in Resources : quote(resource)
  BY <1>5 DEF Drop, Expire, quote, handlers, world, Gate!vars
<1>6. CASE Restart
  <2>1. /\ step' = [r \in Requests |-> IF step[r] \in Waiting THEN "gone" ELSE step[r]]
        /\ named' = named /\ ledger' = ledger
    BY <1>6 DEF Restart, world
  <2>2. \A r \in Requests : step'[r] = "released" <=> step[r] = "released"
    BY <2>1 DEF Waiting
  <2>3. QED
    BY <2>1, <2>2 DEF Gate!vars
<1>7. QED
  BY <1>1, <1>2, <1>3, <1>4, <1>5, <1>6 DEF Next

(* With a database, whatever the facilitator says and however it spells a  *)
(* hash: a release stands on a settlement of the account that presented the*)
(* payment, a challenge unlocks once, and a settlement that unlocks twice  *)
(* was named in two spellings (confirmSettlement, recordSettlement).       *)
THEOREM ReleasesSettled ==
    ASSUME DurableRecord
    PROVE  Spec => []ReleasedOnSettlement
<1>1. IInv => ReleasedOnSettlement
  <2> SUFFICES ASSUME IInv PROVE ReleasedOnSettlement
    OBVIOUS
  <2>1. \A r \in Requests : step[r] = "released" =>
           /\ named[r] \in Names /\ named[r].tx \in ledger
           /\ named[r].tx.payer = payment[r].payer
    BY DEF IInv, NamedIsSettled, Past
  <2>2. \A r, q \in Requests : step[r] = "released" /\ step[q] = "released" /\ r # q =>
           named[r] # named[q] /\ payment[r].challenge # payment[q].challenge
    BY DEF IInv, PastIsAlone, Past
  <2>3. \A a, b \in Names : a.tx = b.tx /\ a.as = b.as => a = b
    BY DEF Names
  <2>4. QED
    BY <2>1, <2>2, <2>3 DEF ReleasedOnSettlement
<1>2. QED
  BY <1>1, InductiveInvariant, PTL

(* With a database, and if a hash could be written in one way only, the    *)
(* merchant implements the turnstile: no settlement unlocks two resources  *)
(* and nothing is released without one, whatever the facilitator says and  *)
(* however often the process restarts.  settlement.ts accepts more.        *)
THEOREM TurnstileKept ==
    ASSUME DurableRecord, OneSpelling
    PROVE  Spec => KeepsTurnstile
<1>1. IInv /\ [Next]_vars => [Gate!Next]_(Gate!vars)
  BY NextTurns, RecordedIsSound
<1>2. QED
  BY <1>1, InitIsTurnstile, InductiveInvariant, PTL DEF Spec, KeepsTurnstile, Gate!Spec

-----------------------------------------------------------------------------
(* With an honest facilitator, and any record.  A handler past its check   *)
(* was checked before its payment settled, so when a restart forgets a     *)
(* settlement it also ends every handler that could be given it again.     *)
Checked == {"settle", "settling", "confirm", "poll", "record", "publish"}

(* A handler at work is at it for a payment of this very request.          *)
ForThisRequest ==
    \A r \in Requests : step[r] \in Waiting \cup {"released"} =>
        payment[r] \in Payments /\ payment[r].challenge.resource = ResourceOf[r]

(* The transaction a handler goes by is its own payment's, and settled.    *)
NamedIsOwn ==
    \A r \in Requests : step[r] \in {"confirm", "record"} \cup Past =>
        named[r] \in Names /\ named[r].tx = payment[r] /\ payment[r] \in ledger

PublishingIsRecorded == \A r \in Requests : step[r] = "publish" => entry(r) \in recorded

(* What was released is still in the record while another handler is past  *)
(* its check with the same payment.                                        *)
ReleasedIsRemembered ==
    \A r, q \in Requests :
        step[r] = "released" /\ step[q] \in Checked /\ payment[q] = payment[r]
        => entry(r) \in recorded

HonestInv ==
    /\ TypeOK
    /\ ForThisRequest
    /\ NamedIsOwn
    /\ PublishingIsRecorded
    /\ ReleasedIsRemembered
    /\ AloneOnTransaction

(* The steps of a handler, when what the facilitator says is true.         *)
Moves(r, s) ==
    \/ s \in {"asked", "refused"} /\ UNCHANGED named /\ recorded \subseteq recorded'
    \/ /\ \/ step[r] = "verify" /\ s = "settle" /\ payment[r] \notin ledger
          \/ step[r] = "settle" /\ s = "settling"
          \/ step[r] = "submit" /\ s = "poll" /\ payment[r] \notin ledger
          \/ step[r] = "confirm" /\ s = "record"
       /\ UNCHANGED <<named, recorded>>
    \/ /\ \/ step[r] = "settling" /\ s = "confirm"
          \/ step[r] = "poll" /\ s = "record"
       /\ payment[r] \in ledger
       /\ \E name \in Names : /\ name.tx = payment[r]
                              /\ named' = [named EXCEPT ![r] = name]
       /\ UNCHANGED recorded
    \/ /\ step[r] = "record" /\ s \in Past
       /\ is_new(named[r], payment[r].challenge)
       /\ recorded' = recorded \cup {entry(r)}
       /\ UNCHANGED named
    \/ step[r] = "publish" /\ s = "released" /\ UNCHANGED <<named, recorded>>

LEMMA HandleMoves ==
    ASSUME HonestFacilitator, TypeOK, NEW r \in Requests, Handle(r)
    PROVE  /\ step[r] \in Waiting
           /\ UNCHANGED <<payment, ledger, expired, restarts>>
           /\ \E s \in Steps : goto(r, s) /\ Moves(r, s)
<1> USE DEF Moves, Steps, Waiting, Answered, world
<1>1. ASSUME ask(r)
      PROVE  /\ goto(r, "asked") /\ Moves(r, "asked")
             /\ UNCHANGED <<payment, ledger, expired, restarts>>
  BY <1>1 DEF ask
<1>2. ASSUME refuse(r)
      PROVE  /\ goto(r, "refused") /\ Moves(r, "refused")
             /\ UNCHANGED <<payment, ledger, expired, restarts>>
  BY <1>2 DEF refuse
<1>3. CASE verify(r)
  BY <1>1, <1>2, <1>3 DEF verify, ledger_accepts
<1>4. CASE settle(r)
  BY <1>4 DEF settle
<1>5. CASE settle_answer(r)
  <2>1. ASSUME NEW name \in Names,
               HonestFacilitator => name.tx = payment[r] /\ name.tx \in ledger,
               named' = [named EXCEPT ![r] = name], goto(r, "confirm"),
               UNCHANGED <<payment, signed, world, recorded, proven, restarts>>
        PROVE  goto(r, "confirm") /\ Moves(r, "confirm")
    <3>1. name.tx = payment[r] /\ name.tx \in ledger /\ step[r] = "settling"
      BY <1>5, <2>1 DEF settle_answer
    <3>2. QED
      BY <2>1, <3>1
  <2>2. step[r] = "settling"
    BY <1>5 DEF settle_answer
  <2>3. CASE ask(r) \/ refuse(r)
    BY <1>1, <1>2, <2>2, <2>3
  <2>4. CASE ~(ask(r) \/ refuse(r))
    <3>1. PICK name \in Names :
            /\ HonestFacilitator => name.tx = payment[r] /\ name.tx \in ledger
            /\ named' = [named EXCEPT ![r] = name]
            /\ goto(r, "confirm")
            /\ UNCHANGED <<payment, signed, world, recorded, proven, restarts>>
      BY <1>5, <2>4 DEF settle_answer
    <3>2. goto(r, "confirm") /\ Moves(r, "confirm")
      BY <2>1, <3>1
    <3>3. QED
      BY <2>2, <3>1, <3>2
  <2>5. QED
    BY <2>3, <2>4
<1>6. CASE confirm(r)
  BY <1>2, <1>6 DEF confirm
<1>7. CASE submit(r)
  BY <1>2, <1>7 DEF submit
<1>8. CASE poll(r)
  <2>1. CASE refuse(r)
    BY <1>2, <1>8, <2>1 DEF poll
  <2>2. CASE ~refuse(r)
    <3> DEFINE name == [tx |-> payment[r], as |-> Canonical]
    <3>1. /\ step[r] = "poll" /\ payment[r] \in ledger
          /\ named' = [named EXCEPT ![r] = name]
          /\ goto(r, "record")
          /\ UNCHANGED <<payment, signed, world, recorded, proven, restarts>>
      BY <1>8, <2>2 DEF poll
    <3>2. name \in Names /\ name.tx = payment[r]
      BY <3>1, SpellingsAssumption DEF Names, TypeOK
    <3> HIDE DEF name
    <3>3. Moves(r, "record")
      BY <3>1, <3>2
    <3>4. QED
      BY <3>1, <3>3
  <2>3. QED
    BY <2>1, <2>2
<1>9. CASE record(r)
  <2>1. ASSUME ~refuse(r)
        PROVE  /\ is_new(named[r], payment[r].challenge)
               /\ recorded' = recorded \cup {entry(r)}
               /\ \E s \in Past \cup {"refused"} : goto(r, s)
               /\ step[r] = "record"
               /\ UNCHANGED <<payment, named, signed, world, proven, restarts>>
    BY <1>9, <2>1 DEF record, Past
  <2>2. QED
    BY <1>2, <1>9, <2>1 DEF record, Past
<1>10. CASE publish(r)
  BY <1>10 DEF publish
<1>11. QED
  BY <1>3, <1>4, <1>5, <1>6, <1>7, <1>8, <1>9, <1>10 DEF Handle

(* What holds of types needs neither a database nor an honest facilitator. *)
LEMMA TypeStep ==
    ASSUME TypeOK, AtWorkOnPayment, NamedIsSettled, [Next]_vars
    PROVE  TypeOK'
<1>1. ASSUME NEW r \in Requests, ask(r) PROVE TypeOK'
  <2>1. (signed \subseteq Challenge)'
    BY <1>1, SignKeepsType, ResourceAssumption DEF ask, TypeOK
  <2>2. (step \in [Requests -> {"new", "gone"} \cup Waiting \cup Answered])'
    BY <1>1, Goto DEF ask, Steps, Answered
  <2>3. QED
    BY <1>1, <2>1, <2>2 DEF ask, TypeOK, world
<1>2. ASSUME NEW r \in Requests, NEW s \in Steps, goto(r, s),
             payment' \in [Requests -> Payments \cup {NoPayment}],
             named' \in [Requests -> Names \cup {NoPayment}],
             pending' \subseteq Payments, recorded' \subseteq [tx : Names, nonce : Challenge],
             proven' \subseteq Payments, UNCHANGED <<signed, expired, ledger, restarts>>
      PROVE  TypeOK'
  <2>1. (step \in [Requests -> {"new", "gone"} \cup Waiting \cup Answered])'
    BY <1>2, Goto
  <2>2. QED
    BY <1>2, <2>1 DEF TypeOK
<1>3. ASSUME NEW r \in Requests, NEW p \in Payments, arrive(r, p) PROVE TypeOK'
  <2>1. CASE ask(r)
    BY <1>1, <2>1
  <2>2. CASE ~ask(r)
    <3> DEFINE s == IF p.challenge.chain = "solana" THEN "submit" ELSE "verify"
    <3>1. /\ payment' = [payment EXCEPT ![r] = p] /\ goto(r, s)
          /\ UNCHANGED <<named, signed, world, recorded, proven, restarts>>
      BY <1>3, <2>2 DEF arrive
    <3>2. s \in Steps
      BY DEF Steps, Waiting
    <3> HIDE DEF s
    <3>3. QED
      BY <1>2, <3>1, <3>2 DEF TypeOK, world
  <2>3. QED
    BY <2>1, <2>2
<1>4. ASSUME NEW r \in Requests, Handle(r) PROVE TypeOK'
  <2>1. payment[r] \in Payments
    BY <1>4 DEF AtWorkOnPayment, Waiting, Handle, verify, settle, settle_answer, confirm,
       submit, poll, record, publish
  <2>2. ASSUME NEW s \in Steps, goto(r, s),
               UNCHANGED <<payment, named, signed, world, recorded, proven, restarts>>
        PROVE  TypeOK'
    BY <1>2, <2>2 DEF TypeOK, world
  <2>3. CASE ask(r) \/ refuse(r)
    BY <1>1, <2>2, <2>3 DEF refuse, Steps, Answered
  <2>4. CASE ~(ask(r) \/ refuse(r)) /\ (verify(r) \/ confirm(r))
    BY <2>2, <2>4 DEF verify, confirm, Steps, Waiting
  <2>5. CASE settle(r)
    <3>1. "settling" \in Steps /\ pending' \subseteq Payments
      BY <2>1, <2>5 DEF settle, TypeOK, Steps, Waiting
    <3>2. QED
      BY <1>2, <2>5, <3>1 DEF settle, TypeOK
  <2>6. CASE ~(ask(r) \/ refuse(r)) /\ settle_answer(r)
    <3>1. PICK name \in Names :
            /\ named' = [named EXCEPT ![r] = name] /\ goto(r, "confirm")
            /\ UNCHANGED <<payment, signed, world, recorded, proven, restarts>>
      BY <2>6 DEF settle_answer
    <3>2. "confirm" \in Steps /\ named' \in [Requests -> Names \cup {NoPayment}]
      BY <3>1 DEF TypeOK, Steps, Waiting
    <3>3. QED
      BY <1>2, <3>1, <3>2 DEF TypeOK, world
  <2>7. CASE ~refuse(r) /\ submit(r)
    <3>1. "poll" \in Steps /\ pending' \subseteq Payments
      BY <2>1, <2>7 DEF submit, TypeOK, Steps, Waiting
    <3>2. QED
      BY <1>2, <2>7, <3>1 DEF submit, TypeOK
  <2>8. CASE ~refuse(r) /\ poll(r)
    <3>0. [tx |-> payment[r], as |-> Canonical] \in Names
      BY <2>1, SpellingsAssumption DEF Names
    <3>1. "record" \in Steps /\ named' \in [Requests -> Names \cup {NoPayment}]
      BY <2>8, <3>0 DEF poll, TypeOK, Steps, Waiting
    <3>2. QED
      BY <1>2, <2>8, <3>1 DEF poll, TypeOK, world
  <2>9. CASE ~refuse(r) /\ record(r)
    <3>1. /\ recorded' = recorded \cup {entry(r)}
          /\ \E s \in {"publish", "released", "refused"} : goto(r, s)
          /\ UNCHANGED <<payment, named, signed, world, proven, restarts>>
      BY <2>9 DEF record
    <3>2. named[r] \in Names
      BY <2>9 DEF record, NamedIsSettled
    <3>3. entry(r) \in [tx : Names, nonce : Challenge]
      BY <2>1, <3>2, PaymentsAssumption DEF entry
    <3>4. recorded' \subseteq [tx : Names, nonce : Challenge]
      BY <3>1, <3>3 DEF TypeOK
    <3>5. {"publish", "released", "refused"} \subseteq Steps
      BY DEF Steps, Waiting, Answered
    <3>6. QED
      BY <1>2, <3>1, <3>4, <3>5 DEF TypeOK, world
  <2>10. CASE publish(r)
    <3>1. "released" \in Steps /\ proven' \subseteq Payments
      BY <2>10 DEF publish, TypeOK, Steps, Answered
    <3>2. QED
      BY <1>2, <2>10, <3>1 DEF publish, TypeOK, world
  <2>11. QED
    BY <1>4, <2>3, <2>4, <2>5, <2>6, <2>7, <2>8, <2>9, <2>10 DEF Handle
<1>5. CASE Land \/ Drop \/ Expire \/ UNCHANGED vars
  BY <1>5, PaymentsAssumption DEF Land, Drop, Expire, vars, TypeOK, handlers, world
<1>6. ASSUME NEW resource \in Resources, quote(resource) PROVE TypeOK'
  BY <1>6, SignKeepsType DEF quote, TypeOK, handlers, world
<1>7. CASE Restart
  BY <1>7 DEF Restart, TypeOK, world
<1>8. QED
  BY <1>3, <1>4, <1>5, <1>6, <1>7 DEF Next

(* Whatever is configured, and whoever the facilitator is: a handler that  *)
(* works has its payment, and what it is about to record is on the ledger. *)
LEMMA WorkStep ==
    ASSUME TypeOK, AtWorkOnPayment, NamedIsSettled, [Next]_vars
    PROVE  AtWorkOnPayment' /\ NamedIsSettled'
<1>1. ASSUME NEW r \in Requests, NEW p \in Payments, arrive(r, p)
      PROVE  AtWorkOnPayment' /\ NamedIsSettled'
  <2>1. /\ UNCHANGED <<named, ledger>>
        /\ \A q \in Requests : q # r => payment'[q] = payment[q] /\ step'[q] = step[q]
        /\ \/ step'[r] = "asked"
           \/ step'[r] \in {"submit", "verify"} /\ payment'[r] = p
    BY <1>1 DEF arrive, ask, goto, TypeOK, world
  <2>2. QED
    BY <2>1 DEF AtWorkOnPayment, NamedIsSettled, Waiting, Past
<1>2. ASSUME NEW r \in Requests, Handle(r)
      PROVE  AtWorkOnPayment' /\ NamedIsSettled'
  <2>1. /\ step[r] \in Waiting
        /\ UNCHANGED <<payment, ledger>>
        /\ \A q \in Requests : q # r => named'[q] = named[q] /\ step'[q] = step[q]
    BY <1>2 DEF Handle, verify, settle, settle_answer, confirm, submit, poll, record, publish,
       ask, refuse, goto, TypeOK, Waiting, world
  <2>0. step[r] = "poll" => [tx |-> payment[r], as |-> Canonical] \in Names
    BY SpellingsAssumption DEF Names, AtWorkOnPayment, Waiting
  <2>2. \/ step'[r] \in {"asked", "refused", "settle", "settling", "poll"}
        \/ step'[r] = "confirm" /\ named'[r] \in Names
        \/ /\ step'[r] = "record" /\ named'[r] \in Names
           /\ named'[r].tx \in ledger /\ named'[r].tx.payer = payment[r].payer
        \/ /\ step[r] \in {"record", "publish"} /\ step'[r] \in Past
           /\ named'[r] = named[r]
    <3>1. CASE verify(r) \/ settle(r) \/ submit(r) \/ record(r) \/ publish(r)
      BY <3>1 DEF verify, settle, submit, record, publish, ask, refuse, goto, TypeOK, Past
    <3>2. CASE settle_answer(r)
      BY <3>2 DEF settle_answer, ask, refuse, goto, TypeOK
    <3>3. CASE confirm(r)
      BY <3>3 DEF confirm, refuse, goto, TypeOK, on_ledger, NamedIsSettled
    <3>4. CASE poll(r)
      <4>1. CASE refuse(r)
        BY <4>1 DEF refuse, goto, TypeOK
      <4>2. CASE ~refuse(r)
        <5> DEFINE name == [tx |-> payment[r], as |-> Canonical]
        <5>1. /\ payment[r] \in ledger /\ named' = [named EXCEPT ![r] = name]
              /\ goto(r, "record") /\ step[r] = "poll"
          BY <3>4, <4>2 DEF poll
        <5>2. name \in Names /\ name.tx = payment[r]
          BY <2>0, <5>1
        <5> HIDE DEF name
        <5>3. step'[r] = "record" /\ named'[r] = name
          BY <5>1 DEF goto, TypeOK
        <5>4. QED
          BY <5>1, <5>2, <5>3
      <4>3. QED
        BY <4>1, <4>2
    <3>5. QED
      BY <1>2, <3>1, <3>2, <3>3, <3>4 DEF Handle
  <2>3. AtWorkOnPayment'
    BY <2>1, <2>2 DEF AtWorkOnPayment, Past
  <2>4. NamedIsSettled'
    BY <2>1, <2>2 DEF NamedIsSettled, Past
  <2>5. QED
    BY <2>3, <2>4
<1>3. ASSUME UNCHANGED handlers, ledger \subseteq ledger'
      PROVE  AtWorkOnPayment' /\ NamedIsSettled'
  BY <1>3 DEF handlers, AtWorkOnPayment, NamedIsSettled
<1>4. CASE Restart
  BY <1>4 DEF Restart, world, AtWorkOnPayment, NamedIsSettled, Waiting, Past
<1>5. QED
  BY <1>1, <1>2, <1>3, <1>4 DEF Next, Land, Drop, Expire, quote, vars, world

(* The handlers, the ledger and the record keep their shape, with or       *)
(* without a database and whatever the facilitator says.                   *)
THEOREM TypeCorrect == Spec => []TypeOK
<1> DEFINE Work == TypeOK /\ AtWorkOnPayment /\ NamedIsSettled
<1>1. Init => Work
  BY FlagsAssumption DEF Init, TypeOK, AtWorkOnPayment, NamedIsSettled, Waiting, Past
<1>2. Work /\ [Next]_vars => Work'
  BY TypeStep, WorkStep
<1>3. QED
  BY <1>1, <1>2, PTL DEF Spec

LEMMA HonestHandle ==
    ASSUME HonestFacilitator, HonestInv, NEW r \in Requests, Handle(r)
    PROVE  (ForThisRequest /\ NamedIsOwn /\ PublishingIsRecorded /\ ReleasedIsRemembered
            /\ AloneOnTransaction)'
<1>1. PICK s \in Steps : goto(r, s) /\ Moves(r, s)
  BY HandleMoves DEF HonestInv
<1>2. step[r] \in Waiting /\ UNCHANGED <<payment, ledger>>
  BY HandleMoves DEF HonestInv
<1>3. TypeOK /\ step'[r] = s /\ \A q \in Requests : q # r => step'[q] = step[q]
  BY <1>1, Goto DEF HonestInv
<1>4. recorded \subseteq recorded'
  BY <1>1 DEF Moves
<1>5. \A q \in Requests : q # r => named'[q] = named[q]
  BY <1>1, <1>3 DEF Moves, TypeOK
<1>6. \A q \in Requests : entry(q) \in recorded /\ q # r => entry(q)' \in recorded'
  BY <1>2, <1>4, <1>5 DEF entry
<1>7. payment[r] \in Payments /\ payment[r].challenge.resource = ResourceOf[r]
  BY <1>2 DEF HonestInv, ForThisRequest
<1>8. ForThisRequest'
  BY <1>2, <1>3, <1>7 DEF HonestInv, ForThisRequest
<1>9. s \in {"confirm", "record"} \cup Past =>
         named'[r] \in Names /\ named'[r].tx = payment[r] /\ payment[r] \in ledger
  BY <1>1, <1>3 DEF Moves, HonestInv, NamedIsOwn, Past, TypeOK
<1>10. NamedIsOwn'
  BY <1>2, <1>3, <1>5, <1>9 DEF HonestInv, NamedIsOwn
<1>11. s \in Past => entry(r)' \in recorded'
  BY <1>1, <1>2, <1>3 DEF Moves, HonestInv, PublishingIsRecorded, entry, Past
<1>12. PublishingIsRecorded'
  BY <1>3, <1>6, <1>11 DEF HonestInv, PublishingIsRecorded, Past
<1>13. \A q \in Requests : step[q] = "released" => payment[q] \in ledger /\ q # r
  BY <1>2 DEF HonestInv, NamedIsOwn, Past, Waiting
<1>14. s \in Checked => step[r] \in Checked \/ payment[r] \notin ledger \/ step[r] = "poll"
  BY <1>1 DEF Moves, Checked, Past
<1>15. ReleasedIsRemembered'
  <2> SUFFICES ASSUME NEW a \in Requests, NEW b \in Requests, step'[a] = "released",
                      step'[b] \in Checked, payment'[b] = payment'[a]
               PROVE  entry(a)' \in recorded'
    BY DEF ReleasedIsRemembered
  <2>1. CASE a = r
    BY <1>3, <1>11, <2>1 DEF Past
  <2>2. CASE a # r /\ b # r
    BY <1>2, <1>3, <1>5, <1>6, <2>2 DEF HonestInv, ReleasedIsRemembered
  <2>3. CASE a # r /\ b = r
    <3>1. step[a] = "released" /\ payment[a] = payment[r] /\ payment[r] \in ledger
      BY <1>2, <1>3, <1>13, <2>3
    <3>2. step[r] \in Checked
      BY <1>3, <1>14, <2>3, <3>1 DEF Checked
    <3>3. entry(a) \in recorded
      BY <3>1, <3>2 DEF HonestInv, ReleasedIsRemembered
    <3>4. QED
      BY <1>6, <2>3, <3>3
  <2>4. QED
    BY <2>1, <2>2, <2>3
<1>16. s \in Past =>
          \A q \in Requests : q # r /\ step[q] \in Past => named[q].tx # named'[r].tx
  <2> SUFFICES ASSUME s \in Past, NEW q \in Requests, q # r, step[q] \in Past,
                      named[q].tx = named'[r].tx
               PROVE  FALSE
    OBVIOUS
  <2>1. named'[r] = named[r]
    BY <1>1 DEF Moves, Past
  <2>2. CASE step[r] = "publish"
    BY <2>1, <2>2 DEF HonestInv, AloneOnTransaction, Past
  <2>3. CASE step[r] # "publish"
    <3>1. step[r] = "record" /\ is_new(named[r], payment[r].challenge)
      BY <1>1, <2>3 DEF Moves, Past
    <3>2. payment[r] = payment[q]
      BY <2>1, <3>1 DEF HonestInv, NamedIsOwn
    <3>3. entry(q) \in recorded
      BY <3>1, <3>2 DEF HonestInv, PublishingIsRecorded, ReleasedIsRemembered, Past, Checked
    <3>4. QED
      BY <3>1, <3>2, <3>3 DEF is_new, entry
  <2>4. QED
    BY <2>2, <2>3
<1>17. AloneOnTransaction'
  BY <1>3, <1>5, <1>16 DEF HonestInv, AloneOnTransaction
<1>18. QED
  BY <1>8, <1>10, <1>12, <1>15, <1>17

LEMMA HonestStep ==
    ASSUME HonestFacilitator, HonestInv, [Next]_vars
    PROVE  HonestInv'
<1>1. TypeOK'
  BY TypeStep DEF HonestInv, AtWorkOnPayment, ForThisRequest, NamedIsSettled, NamedIsOwn
<1>2. CASE \E r \in Requests : Handle(r)
  BY <1>1, <1>2, HonestHandle DEF HonestInv
<1>3. ASSUME UNCHANGED <<handlers, recorded>>, ledger \subseteq ledger' PROVE HonestInv'
  BY <1>1, <1>3 DEF HonestInv, handlers, ForThisRequest, NamedIsOwn, PublishingIsRecorded,
     ReleasedIsRemembered, AloneOnTransaction, entry
<1>4. ASSUME NEW r \in Requests, NEW p \in Payments, arrive(r, p) PROVE HonestInv'
  <2>1. /\ step[r] = "new" /\ UNCHANGED <<named, ledger, recorded>>
        /\ \A q \in Requests : q # r => payment'[q] = payment[q] /\ step'[q] = step[q]
        /\ \/ step'[r] = "asked"
           \/ /\ step'[r] \in {"submit", "verify"} /\ payment'[r] = p
              /\ p.challenge.resource = ResourceOf[r]
    BY <1>4 DEF arrive, ask, binds, goto, HonestInv, TypeOK, world
  <2>2. ForThisRequest'
    BY <2>1 DEF HonestInv, ForThisRequest, Waiting
  <2>3. NamedIsOwn'
    BY <2>1 DEF HonestInv, NamedIsOwn, Past
  <2>4. PublishingIsRecorded' /\ AloneOnTransaction'
    BY <2>1 DEF HonestInv, PublishingIsRecorded, AloneOnTransaction, Past, entry
  <2>5. ReleasedIsRemembered'
    BY <2>1 DEF HonestInv, ReleasedIsRemembered, Checked, entry
  <2>6. QED
    BY <1>1, <2>2, <2>3, <2>4, <2>5 DEF HonestInv
<1>5. CASE Restart
  <2>1. /\ step' = [r \in Requests |-> IF step[r] \in Waiting THEN "gone" ELSE step[r]]
        /\ UNCHANGED <<payment, named, ledger>>
    BY <1>5 DEF Restart, world
  <2>2. \A r \in Requests : step'[r] \in Waiting \cup Past =>
            step'[r] = "released" /\ step[r] = "released"
    BY <2>1 DEF Waiting, Past
  <2>3. QED
    BY <1>1, <2>1, <2>2 DEF HonestInv, ForThisRequest, NamedIsOwn, PublishingIsRecorded,
       ReleasedIsRemembered, AloneOnTransaction, Checked, Past, Waiting
<1>6. QED
  BY <1>2, <1>3, <1>4, <1>5 DEF Next, Land, Drop, Expire, quote, vars, world

LEMMA HonestInit == Init => HonestInv
BY FlagsAssumption DEF Init, HonestInv, TypeOK, ForThisRequest, NamedIsOwn,
   PublishingIsRecorded, ReleasedIsRemembered, AloneOnTransaction, Waiting, Past, Checked

THEOREM HonestInvariant ==
    ASSUME HonestFacilitator
    PROVE  Spec => []HonestInv
<1>1. HonestInv /\ [Next]_vars => HonestInv'
  BY HonestStep
<1>2. QED
  BY <1>1, HonestInit, PTL DEF Spec

(* What is released was paid by the payment presented, which its owner     *)
(* authorized for this very request (bindPaymentToRequest), whatever the   *)
(* record forgets at a restart.                                            *)
THEOREM ReleasedWasPaidFor ==
    ASSUME HonestFacilitator
    PROVE  Spec => []ReleasedForItsRequest
<1>1. HonestInv => ReleasedForItsRequest
  BY DEF HonestInv, ForThisRequest, NamedIsOwn, ReleasedForItsRequest, Past
<1>2. QED
  BY <1>1, HonestInvariant, PTL

LEMMA HonestIsSound == HonestInv => Sound
<1> SUFFICES ASSUME HonestInv PROVE Sound
  OBVIOUS
<1>1. TypeOK /\ AloneOnTransaction /\ NamedIsSettled
  BY DEF HonestInv, NamedIsOwn, NamedIsSettled
<1>2. NotRecordedAgain
  <2> SUFFICES ASSUME NEW r \in Requests, NEW q \in Requests, step[r] = "record",
                      step[q] \in Past, named[r].tx = named[q].tx,
                      is_new(named[r], payment[r].challenge)
               PROVE  FALSE
    BY DEF NotRecordedAgain
  <2>1. payment[r] = payment[q]
    BY DEF HonestInv, NamedIsOwn
  <2>2. entry(q) \in recorded
    BY <2>1 DEF HonestInv, PublishingIsRecorded, ReleasedIsRemembered, Past, Checked
  <2>3. QED
    BY <2>1, <2>2 DEF is_new, entry
<1>3. QED
  BY <1>1, <1>2 DEF Sound

(* Without a database a restart forgets what was settled; with an honest   *)
(* facilitator the merchant still implements the turnstile, as it checks a *)
(* payment before it settles it (verify, submit).                          *)
THEOREM TurnstileKeptInMemory ==
    ASSUME HonestFacilitator
    PROVE  Spec => KeepsTurnstile
<1>1. HonestInv /\ [Next]_vars => [Gate!Next]_(Gate!vars)
  BY NextTurns, HonestIsSound
<1>2. QED
  BY <1>1, InitIsTurnstile, HonestInvariant, PTL DEF Spec, KeepsTurnstile, Gate!Spec

-----------------------------------------------------------------------------
(* The agent's calls, beside any other clients of the merchant.            *)
(* A call that was sent was sent with the payment its account authorized.  *)
SentIsPrepared ==
    \A c \in Calls :
        /\ phase[c] \in {"sent", "paid"} => step[c] # "new"
        /\ phase[c] = "sent" /\ step[c] \in Waiting \cup {"released"} => payment[c] = prepared[c]
        /\ phase[c] = "paid" => step[c] = "released" /\ payment[c] = prepared[c]

(* The terms of an offer that bears the merchant's signature are its own.  *)
SignedIsMeant ==
    \A c \in Calls : phase[c] \in {"quoted", "vetted"} =>
        \A o \in offered[c] : o.signature => o.fields = Price /\ o.challenge \in signed

(* The one offer a call goes on with was found in order.                   *)
VettedIsAgreed ==
    \A c \in Calls : phase[c] = "vetted" =>
        \A o \in offered[c] :
            /\ o.signature /\ o.fields = o.requirements
            /\ o.challenge.resource = ResourceOf[c]
            /\ o.challenge.chain = o.chain
            /\ requested[c] \in {"any", o.chain}

CallsType ==
    /\ DOMAIN phase = Calls /\ DOMAIN offered = Calls /\ DOMAIN prepared = Calls
    /\ \A c \in Calls : phase[c] = "prepared" => prepared[c] \in Payments

(* The merchant's steps in the exchange are steps of the merchant.         *)
LEMMA GateSteps ==
    ASSUME CallsType, [ExchangeNext]_<<gate, agent>>
    PROVE  [Next]_vars
<1>1. ASSUME NEW c \in Calls, Agent(c) PROVE [Next]_vars
  <2>1. CASE first_fetch(c)
    BY <2>1, CallsAssumption, ResourceAssumption DEF first_fetch, Next
  <2>2. CASE second_fetch(c)
    <3>1. c \in Requests /\ prepared[c] \in Payments /\ arrive(c, prepared[c])
      BY <2>2, CallsAssumption DEF second_fetch, CallsType
    <3>2. QED
      BY <3>1 DEF Next
  <2>3. CASE UNCHANGED gate
    BY <2>3 DEF gate
  <2>4. QED
    BY <1>1, <2>1, <2>2, <2>3 DEF Agent, prepare, authorize, read_answer, lose_answer, give_up
<1>2. ASSUME NEW r \in Requests \ Calls, Others(r) PROVE [Next]_vars
  BY <1>2 DEF Others, Next
<1>3. CASE Gateway
  BY <1>3 DEF Gateway, Next
<1>4. CASE UNCHANGED <<gate, agent>>
  BY <1>4 DEF gate
<1>5. QED
  BY <1>1, <1>2, <1>3, <1>4 DEF ExchangeNext

(* A call's own step moves its phase, and a step of the merchant moves no  *)
(* call.                                                                   *)
LEMMA OneCallMoves ==
    ASSUME CallsType, NEW c \in Calls, NEW p, becomes(c, p)
    PROVE  phase'[c] = p /\ DOMAIN phase' = Calls
           /\ \A d \in Calls : d # c => phase'[d] = phase[d]
BY DEF CallsType, becomes

(* What an offer may be once garbled: changed terms lose the signature.    *)
LEMMA GarbledOffers ==
    ASSUME NEW challenge, NEW others, NEW g \in garbled(offer_of(challenge), others)
    PROVE  g.signature => g.fields = Price
BY DEF garbled, offer_of

LEMMA SignedGrows ==
    ASSUME CallsType, [ExchangeNext]_<<gate, agent>>
    PROVE  signed \subseteq signed'
<1>1. [Next]_vars
  BY GateSteps
<1>2. QED
  BY <1>1 DEF Next, quote, sign, arrive, ask, Handle, verify, settle, settle_answer, confirm,
     submit, poll, record, publish, refuse, Land, Drop, Expire, Restart, vars

LEMMA MeantStep ==
    ASSUME CallsType, SignedIsMeant, VettedIsAgreed, [ExchangeNext]_<<gate, agent>>
    PROVE  CallsType' /\ SignedIsMeant' /\ VettedIsAgreed'
<1>1. signed \subseteq signed'
  BY SignedGrows
<1>2. ASSUME NEW c \in Calls, NEW p, becomes(c, p), p \notin {"quoted", "vetted"},
             requested' = requested, DOMAIN offered' = Calls, DOMAIN prepared' = Calls,
             \A d \in Calls : d # c => offered'[d] = offered[d] /\ prepared'[d] = prepared[d],
             p = "prepared" => prepared'[c] \in Payments
      PROVE  CallsType' /\ SignedIsMeant' /\ VettedIsAgreed'
  <2>1. phase'[c] = p /\ DOMAIN phase' = Calls /\ \A d \in Calls : d # c => phase'[d] = phase[d]
    BY <1>2, OneCallMoves
  <2>2. QED
    BY <1>1, <1>2, <2>1 DEF CallsType, SignedIsMeant, VettedIsAgreed
<1>3. ASSUME NEW c \in Calls, first_fetch(c)
      PROVE  CallsType' /\ SignedIsMeant' /\ VettedIsAgreed'
  <2> DEFINE meant == {offer_of(challenge) : challenge \in signed' \ signed}
  <2>1. /\ phase'[c] = "quoted" /\ DOMAIN phase' = Calls
        /\ \A d \in Calls : d # c => phase'[d] = phase[d]
        /\ UNCHANGED <<requested, prepared>>
    BY <1>3, OneCallMoves DEF first_fetch
  <2>2. \A o \in meant : o.fields = Price /\ o.challenge \in signed'
    BY DEF offer_of
  <2>3. ASSUME NEW o \in meant, NEW g \in garbled(o, Challenge),
               g.signature => g.challenge \in signed'
        PROVE  g.signature => g.fields = Price /\ g.challenge \in signed'
    BY <2>3, GarbledOffers
  <2> HIDE DEF meant
  <2>4. \/ offered' = [offered EXCEPT ![c] = meant]
        \/ \E o \in meant : \E g \in garbled(o, Challenge) :
              /\ g.signature => g.challenge \in signed'
              /\ offered' = [offered EXCEPT ![c] = (meant \ {o}) \cup {g}]
    BY <1>3 DEF first_fetch, goes_by, meant
  <2>5. /\ DOMAIN offered' = Calls
        /\ \A d \in Calls : d # c => offered'[d] = offered[d]
    BY <2>4 DEF CallsType
  <2>6. \A o \in offered'[c] : o.signature => o.fields = Price /\ o.challenge \in signed'
    BY <2>2, <2>3, <2>4 DEF CallsType
  <2>7. QED
    BY <1>1, <2>1, <2>5, <2>6 DEF CallsType, SignedIsMeant, VettedIsAgreed
<1>4. ASSUME NEW c \in Calls, prepare(c)
      PROVE  CallsType' /\ SignedIsMeant' /\ VettedIsAgreed'
  <2>1. CASE give_up(c)
    BY <1>2, <2>1 DEF give_up, goes_by, CallsType
  <2>2. CASE ~give_up(c)
    <3>1. PICK o \in chosen(offered[c], requested[c]) :
            /\ agrees_to_pay(o, ResourceOf[c], expired)
            /\ becomes(c, "vetted")
            /\ goes_by(c, {o})
            /\ UNCHANGED <<requested, prepared, authorized, gate>>
      BY <1>4, <2>2 DEF prepare
    <3>2. /\ phase'[c] = "vetted" /\ DOMAIN phase' = Calls
          /\ \A d \in Calls : d # c => phase'[d] = phase[d]
      BY <3>1, OneCallMoves
    <3>3. /\ DOMAIN offered' = Calls /\ offered'[c] = {o}
          /\ \A d \in Calls : d # c => offered'[d] = offered[d]
      BY <3>1 DEF goes_by, CallsType
    <3>4. o \in offered[c] /\ requested[c] \in {"any", o.chain}
      BY <3>1 DEF chosen, eligible
    <3>5. /\ o.signature /\ o.fields = o.requirements
          /\ o.challenge.resource = ResourceOf[c] /\ o.challenge.chain = o.chain
      BY <3>1 DEF agrees_to_pay, agrees_on_stellar, agrees_on_solana, is_for, vetChallenge, agree,
                 matches
    <3>6. phase[c] = "quoted"
      BY <1>4 DEF prepare
    <3>7. SignedIsMeant'
      BY <1>1, <3>2, <3>3, <3>4, <3>6 DEF SignedIsMeant
    <3>8. VettedIsAgreed'
      BY <3>1, <3>2, <3>3, <3>4, <3>5 DEF VettedIsAgreed
    <3>9. QED
      BY <3>1, <3>2, <3>3, <3>7, <3>8 DEF CallsType
  <2>3. QED
    BY <2>1, <2>2
<1>5. ASSUME NEW c \in Calls, authorize(c) \/ second_fetch(c) \/ read_answer(c) \/ lose_answer(c)
      PROVE  CallsType' /\ SignedIsMeant' /\ VettedIsAgreed'
  <2>1. /\ \E p : /\ becomes(c, p)
                  /\ p \notin {"quoted", "vetted"}
                  /\ p = "prepared" => prepared'[c] \in Payments
        /\ requested' = requested /\ DOMAIN offered' = Calls /\ DOMAIN prepared' = Calls
        /\ \A d \in Calls : d # c => offered'[d] = offered[d] /\ prepared'[d] = prepared[d]
    BY <1>5 DEF authorize, second_fetch, read_answer, lose_answer, give_up, goes_by, CallsType
  <2>2. PICK p : /\ becomes(c, p)
                 /\ p \notin {"quoted", "vetted"}
                 /\ p = "prepared" => prepared'[c] \in Payments
    BY <2>1
  <2>3. QED
    BY <1>2, <2>1, <2>2
<1>6. CASE UNCHANGED agent
  BY <1>1, <1>6 DEF agent, CallsType, SignedIsMeant, VettedIsAgreed
<1>7. QED
  BY <1>3, <1>4, <1>5, <1>6 DEF ExchangeNext, Agent, Others, Gateway

(* The merchant's step leaves the requests it does not handle as they were,*)
(* and takes none back to the start.                                       *)
LEMMA HandlersMove ==
    ASSUME TypeOK, NEW r \in Requests, Handle(r)
    PROVE  /\ step[r] \in Waiting
           /\ UNCHANGED payment
           /\ step'[r] \notin {"new"}
           /\ \A q \in Requests : q # r => step'[q] = step[q]
BY DEF Handle, verify, settle, settle_answer, confirm, submit, poll, record, publish,
   ask, refuse, goto, TypeOK, Waiting

LEMMA SentStep ==
    ASSUME TypeOK, CallsType, CallsType', SentIsPrepared, [ExchangeNext]_<<gate, agent>>
    PROVE  SentIsPrepared'
<1> USE CallsAssumption
<1>1. ASSUME NEW c \in Calls, UNCHANGED gate, NEW p, becomes(c, p),
             p \in {"sent", "paid"} => phase[c] = "sent" /\ p = "paid" /\ step[c] = "released",
             \A d \in Calls : d # c => prepared'[d] = prepared[d],
             p = "paid" => prepared'[c] = prepared[c]
      PROVE  SentIsPrepared'
  <2>1. phase'[c] = p /\ \A d \in Calls : d # c => phase'[d] = phase[d]
    BY <1>1, OneCallMoves
  <2>2. UNCHANGED <<step, payment>>
    BY <1>1 DEF gate, vars, handlers
  <2>3. QED
    BY <1>1, <2>1, <2>2 DEF SentIsPrepared
<1>2. ASSUME NEW c \in Calls, first_fetch(c) PROVE SentIsPrepared'
  <2>1. phase'[c] = "quoted" /\ \A d \in Calls : d # c => phase'[d] = phase[d]
    BY <1>2, OneCallMoves DEF first_fetch
  <2>2. UNCHANGED <<step, payment, prepared>>
    BY <1>2 DEF first_fetch, quote, handlers
  <2>3. QED
    BY <2>1, <2>2 DEF SentIsPrepared
<1>3. ASSUME NEW c \in Calls, give_up(c) PROVE SentIsPrepared'
  BY <1>1, <1>3 DEF give_up
<1>4. ASSUME NEW c \in Calls, prepare(c) PROVE SentIsPrepared'
  BY <1>1, <1>3, <1>4 DEF prepare
<1>5. ASSUME NEW c \in Calls, authorize(c) PROVE SentIsPrepared'
  <2>1. \E p : becomes(c, p) /\ p \notin {"sent", "paid"}
    BY <1>5 DEF authorize
  <2>2. UNCHANGED gate
    BY <1>5 DEF authorize
  <2>3. (\E p \in Payments : prepared' = [prepared EXCEPT ![c] = p]) \/ UNCHANGED prepared
    BY <1>5 DEF authorize
  <2>4. \A d \in Calls : d # c => prepared'[d] = prepared[d]
    BY <2>3 DEF CallsType
  <2>5. QED
    BY <1>1, <2>1, <2>2, <2>4
<1>6. ASSUME NEW c \in Calls, second_fetch(c) PROVE SentIsPrepared'
  <2>1. phase'[c] = "sent" /\ \A d \in Calls : d # c => phase'[d] = phase[d]
    BY <1>6, OneCallMoves DEF second_fetch
  <2>2. /\ step'[c] # "new" /\ UNCHANGED prepared
        /\ step'[c] \in Waiting \cup {"released"} => payment'[c] = prepared[c]
        /\ \A q \in Requests : q # c => payment'[q] = payment[q] /\ step'[q] = step[q]
    BY <1>6 DEF second_fetch, arrive, ask, goto, TypeOK, Waiting
  <2>3. QED
    BY <2>1, <2>2 DEF SentIsPrepared
<1>7. ASSUME NEW c \in Calls, read_answer(c) \/ lose_answer(c) PROVE SentIsPrepared'
  <2>1. CASE give_up(c)
    BY <1>3, <2>1
  <2>2. CASE ~give_up(c)
    <3>1. /\ phase[c] = "sent" /\ step[c] = "released" /\ becomes(c, "paid")
          /\ UNCHANGED <<prepared, gate>>
      BY <1>7, <2>2 DEF read_answer, lose_answer
    <3>2. QED
      BY <1>1, <3>1
  <2>3. QED
    BY <2>1, <2>2
<1>8. ASSUME NEW r \in Requests \ Calls, Others(r) PROVE SentIsPrepared'
  <2>1. UNCHANGED <<phase, prepared>>
        /\ \A q \in Requests : q # r => payment'[q] = payment[q] /\ step'[q] = step[q]
    BY <1>8 DEF Others, agent, arrive, ask, goto, TypeOK
  <2>2. QED
    BY <2>1 DEF SentIsPrepared
<1>9. CASE Gateway
  <2>1. ASSUME NEW r \in Requests, Handle(r), UNCHANGED agent PROVE SentIsPrepared'
    <3>1. /\ step[r] \in Waiting /\ UNCHANGED <<payment, phase, prepared>>
          /\ step'[r] # "new"
          /\ \A q \in Requests : q # r => step'[q] = step[q]
      BY <2>1, HandlersMove DEF agent
    <3>2. step[r] # "released"
      BY <3>1 DEF Waiting
    <3>3. \A c \in Calls : c = r \/ step'[c] = step[c]
      BY <3>1
    <3>4. QED
      BY <3>1, <3>2, <3>3 DEF SentIsPrepared
  <2>2. ASSUME UNCHANGED handlers, UNCHANGED agent PROVE SentIsPrepared'
    BY <2>2 DEF SentIsPrepared, agent, handlers
  <2>3. ASSUME Restart, UNCHANGED agent PROVE SentIsPrepared'
    <3>1. /\ \A r \in Requests : step'[r] = IF step[r] \in Waiting THEN "gone" ELSE step[r]
          /\ UNCHANGED <<payment, phase, prepared>>
      BY <2>3 DEF Restart, agent
    <3>2. QED
      BY <3>1 DEF SentIsPrepared, Waiting
  <2>4. QED
    BY <1>9, <2>1, <2>2, <2>3 DEF Gateway, Land, Drop, Expire, world
<1>10. CASE UNCHANGED <<gate, agent>>
  BY <1>10 DEF gate, agent, vars, handlers, SentIsPrepared
<1>11. QED
  BY <1>2, <1>4, <1>5, <1>6, <1>7, <1>8, <1>9, <1>10 DEF ExchangeNext, Agent

-----------------------------------------------------------------------------
(* What the exchange keeps, beside what its merchant does.                 *)
ExchangeInv ==
    /\ TypeOK /\ AtWorkOnPayment /\ NamedIsSettled
    /\ CallsType
    /\ SentIsPrepared
    /\ SignedIsMeant
    /\ VettedIsAgreed
    /\ OnlyAgreedIsSigned

LEMMA OnlyAgreedStep ==
    ASSUME ExchangeInv, CallsType', [ExchangeNext]_<<gate, agent>>
    PROVE  OnlyAgreedIsSigned'
<1>1. signed \subseteq signed'
  BY SignedGrows DEF ExchangeInv
<1>2. UNCHANGED requested
  BY DEF ExchangeNext, Agent, Others, Gateway, first_fetch, prepare, authorize, second_fetch,
     read_answer, lose_answer, give_up, agent
<1>3. CASE UNCHANGED authorized
  BY <1>1, <1>2, <1>3 DEF ExchangeInv, OnlyAgreedIsSigned
<1>4. ASSUME NEW c \in Calls, authorize(c) PROVE OnlyAgreedIsSigned'
  <2>1. PICK o \in offered[c] :
          authorized' = authorized \cup
              {[call |-> c, chain |-> o.chain, moves |-> moved_by(o), challenge |-> o.challenge]}
    BY <1>4 DEF authorize
  <2>2. phase[c] = "vetted"
    BY <1>4 DEF authorize
  <2>3. /\ o.fields = Price /\ o.requirements = Price /\ o.challenge \in signed
        /\ o.challenge.resource = ResourceOf[c] /\ o.challenge.chain = o.chain
        /\ requested[c] \in {"any", o.chain}
    BY <2>1, <2>2 DEF ExchangeInv, SignedIsMeant, VettedIsAgreed
  <2>4. moved_by(o) = Price
    BY <2>3 DEF moved_by
  <2>5. ASSUME NEW a \in authorized'
        PROVE  /\ a.moves = Price
               /\ a.challenge \in signed'
               /\ a.challenge.resource = ResourceOf[a.call]
               /\ a.challenge.chain = a.chain
               /\ requested'[a.call] \in {"any", a.chain}
    <3>1. CASE a \in authorized
      BY <1>1, <1>2, <3>1 DEF ExchangeInv, OnlyAgreedIsSigned
    <3>2. CASE a = [call |-> c, chain |-> o.chain, moves |-> moved_by(o), challenge |-> o.challenge]
      <4>1. a.call = c /\ a.chain = o.chain /\ a.moves = moved_by(o) /\ a.challenge = o.challenge
        BY <3>2
      <4>2. QED
        BY <1>1, <1>2, <2>3, <2>4, <4>1
    <3>3. QED
      BY <2>1, <2>5, <3>1, <3>2
  <2>6. QED
    BY <2>5 DEF OnlyAgreedIsSigned
<1>5. QED
  BY <1>3, <1>4 DEF ExchangeNext, Agent, Others, Gateway, first_fetch, prepare, second_fetch,
     read_answer, lose_answer, give_up, agent

LEMMA ExchangeStep ==
    ASSUME ExchangeInv, [ExchangeNext]_<<gate, agent>>
    PROVE  ExchangeInv' /\ [Next]_vars
<1>1. [Next]_vars
  BY GateSteps DEF ExchangeInv
<1>2. TypeOK' /\ AtWorkOnPayment' /\ NamedIsSettled'
  BY <1>1, TypeStep, WorkStep DEF ExchangeInv
<1>3. CallsType' /\ SignedIsMeant' /\ VettedIsAgreed'
  BY MeantStep DEF ExchangeInv
<1>4. SentIsPrepared'
  BY <1>3, SentStep DEF ExchangeInv
<1>5. OnlyAgreedIsSigned'
  BY <1>3, OnlyAgreedStep
<1>6. QED
  BY <1>1, <1>2, <1>3, <1>4, <1>5 DEF ExchangeInv

LEMMA ExchangeInitInv == ExchangeInit => ExchangeInv
BY FlagsAssumption
   DEF AtWorkOnPayment, NamedIsSettled, Waiting, Past, ExchangeInit, Init, ExchangeInv, TypeOK,
       CallsType, SentIsPrepared, SignedIsMeant, VettedIsAgreed, OnlyAgreedIsSigned

THEOREM ExchangeInvariant == ExchangeSpec => []ExchangeInv
<1>1. ExchangeInv /\ [ExchangeNext]_<<gate, agent>> => ExchangeInv'
  BY ExchangeStep
<1>2. QED
  BY <1>1, ExchangeInitInv, PTL DEF ExchangeSpec

(* Whatever the agent and the other clients do, the merchant is the one of *)
(* MerchantGate: what is proved of it holds in the exchange.               *)
THEOREM ExchangeRunsGate == ExchangeSpec => Spec
<1>1. ExchangeInit => Init
  BY DEF ExchangeInit
<1>2. ExchangeInv /\ [ExchangeNext]_<<gate, agent>> => [Next]_vars
  BY ExchangeStep
<1>3. QED
  BY <1>1, <1>2, ExchangeInvariant, PTL DEF ExchangeSpec, Spec

(* The agent beside other clients, with an honest facilitator, or a        *)
(* database and one spelling: no settlement unlocks two of their resources *)
(* and nothing is released without one, whichever calls break off and      *)
(* whoever presents a payment the agent has made                           *)
(* (createSettlementHandlers, createPaidFetch).                            *)
THEOREM ExchangeKeepsTurnstile ==
    ASSUME HonestFacilitator \/ (DurableRecord /\ OneSpelling)
    PROVE  ExchangeSpec => KeepsTurnstile
<1>1. CASE DurableRecord /\ OneSpelling
  BY <1>1, ExchangeRunsGate, TurnstileKept
<1>2. CASE HonestFacilitator
  BY <1>2, ExchangeRunsGate, TurnstileKeptInMemory
<1>3. QED
  BY <1>1, <1>2

(* The agent's key signs only for the terms the merchant signed, for the   *)
(* request made and on the chain asked for, whoever answers it and however *)
(* one of the offers was garbled (vetChallenge, MultiChainAdapter).        *)
THEOREM OnlyAgreedSigned == ExchangeSpec => []OnlyAgreedIsSigned
<1>1. ExchangeInv => OnlyAgreedIsSigned
  BY DEF ExchangeInv
<1>2. QED
  BY <1>1, ExchangeInvariant, PTL

(* A call that reports it paid did, and for its own request (createPaidFetch*)
(* and the merchant together), though the record may forget.               *)
THEOREM PaidWasTrue ==
    ASSUME HonestFacilitator
    PROVE  ExchangeSpec => []PaidIsTrue
<1>1. ExchangeInv /\ HonestInv => PaidIsTrue
  <2> SUFFICES ASSUME ExchangeInv, HonestInv, NEW c \in Calls, phase[c] = "paid"
               PROVE  /\ prepared[c] \in ledger
                      /\ prepared[c].challenge.resource = ResourceOf[c]
                      /\ \A r \in Requests \ {c} : step[r] = "released" => named[r].tx # prepared[c]
    BY DEF PaidIsTrue
  <2>1. c \in Requests /\ step[c] = "released" /\ payment[c] = prepared[c]
    BY CallsAssumption DEF ExchangeInv, SentIsPrepared
  <2>2. named[c].tx = payment[c] /\ payment[c] \in ledger
    BY <2>1 DEF HonestInv, NamedIsOwn, Past
  <2>3. payment[c].challenge.resource = ResourceOf[c]
    BY <2>1 DEF HonestInv, ForThisRequest
  <2>4. \A r \in Requests \ {c} : step[r] = "released" => named[r].tx # named[c].tx
    BY <2>1 DEF HonestInv, AloneOnTransaction, Past
  <2>5. QED
    BY <2>1, <2>2, <2>3, <2>4
<1>2. QED
  BY <1>1, ExchangeInvariant, ExchangeRunsGate, HonestInvariant, PTL
=============================================================================
