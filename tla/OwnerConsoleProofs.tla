-------------------------- MODULE OwnerConsoleProofs --------------------------
(***************************************************************************)
(* The owner's panel, for any number of tabs, repeated requests, readers,  *)
(* instances of the backend and actions.  The argument has two halves.  A  *)
(* serial names one action (SerialsAreOne), so an action carried out on    *)
(* Stellar is told by its nonce and one on Solana by a counter that has    *)
(* moved on (CountersSpent).  And whatever an instance's cache or a read on*)
(* its way says that is not so, and that is not the value of a failed read,*)
(* was said before an action this instance has not seen confirmed          *)
(* (WrongIsUnseen), and not longer ago than it has been there              *)
(* (WrongIsRecent).                                                        *)
(*                                                                         *)
(* The panel's page has an argument of its own (PageInv): its questions are*)
(* numbered in the order they were asked, and an action's own refresh asks *)
(* after the action was carried out.                                       *)
(***************************************************************************)
EXTENDS OwnerConsole, ControlPanel, Integers, FiniteSetTheorems, TLAPS

Working      == {"submit", "send", "poll"}
Steps        == {"none", "prompt", "done", "failed"} \cup Working
States       == [step : Steps, call : Calls \cup {NoCall}, by : Assertions \cup {Nothing},
                 sequence : Nat]
Transactions == [call : Calls, by : Assertions, sequence : Nat,
                 signature : {raw_signature[s] : s \in Serials},
                 status : {"sent", "success", "failed"}]
Values       == BOOLEAN \cup {Nothing}
Entries      == [value : Values, age : 0..(CACHE_MS - 1), failed : BOOLEAN, seen : Nat,
                 raced : BOOLEAN]
Reads        == [step : {"none", "asked", "answered"}, server : Servers \cup {Nothing},
                 field : Fields \cup {Nothing}, value : Values, failed : BOOLEAN, seen : Nat,
                 lasted : 0..MAX_READ, raced : BOOLEAN]
Caches       == [Servers -> [Fields -> Entries \cup {Nothing}]]

(* A read is of some field, in some instance.                              *)
Placed(read) == read.step # "none" => read.field \in Fields /\ read.server \in Servers

Shape ==
    /\ account \in [Chains -> [Fields -> BOOLEAN]]
    /\ life \in [Serials -> 0..(VALIDITY + 1)]
    /\ signed \subseteq Assertions
    /\ executed \in Seq(Calls)
    /\ sequence \in Nat
    /\ txs \subseteq Transactions
    /\ request \in [Requests -> States]
    /\ cache \in Caches
    /\ reads \in [Readers -> Reads]
    /\ \A r \in Readers : Placed(reads[r])
    /\ changed \in [Fields -> 0..LONGEST]
    /\ invalidated \in [Servers -> SUBSET Calls]

(* The actions the passkey has signed, verified or not.                    *)
Known(call) == \E a \in signed : a.of = call

(* At the prompt is an action that was prepared; past it, signed ones.     *)
RequestsAreKnown ==
    \A r \in Requests :
        /\ request[r].step = "prompt" =>
              request[r].call \in Calls /\ life[request[r].call.serial] <= VALIDITY
        /\ request[r].step \in Working => request[r].by \in signed /\ Known(request[r].call)

(* A serial names one action, whoever holds it.                            *)
SerialsAreOne ==
    /\ \A a \in signed : life[a.of.serial] <= VALIDITY
    /\ \A a, b \in signed : a.of.serial = b.of.serial => a.of = b.of
    /\ \A r \in Requests, a \in signed :
          request[r].step = "prompt" /\ request[r].call.serial = a.of.serial
              => request[r].call = a.of
    /\ \A r, q \in Requests :
          /\ request[r].step = "prompt" /\ request[q].step = "prompt"
          /\ request[r].call.serial = request[q].call.serial
          => request[r].call = request[q].call

(* What was sent is of signed actions; what succeeded was carried out.     *)
TxsAreKnown ==
    \A tx \in txs : /\ tx.by \in signed /\ Known(tx.call)
                    /\ tx.status = "success" => tx.call \in Range(executed)

(* The account has counted past every action carried out on Solana.        *)
CountersSpent ==
    \A i \in DOMAIN executed :
        executed[i].chain = "solana" => executed[i].counter < Cardinality(carried_out("solana"))

ConfirmedWereDone == \A v \in Servers : invalidated[v] \subseteq Range(executed)

Past(seen) == seen <= Len(executed)

(* What an answer says, of a field and after some actions, is so, or there *)
(* is an action of which the instance has not seen the confirmation.       *)
HeldUp(v, f, said) ==
    /\ Past(said.seen)
    /\ said.value # account["stellar"][f] /\ ~said.failed /\ ~said.raced
          => unseen(v, f, said.seen)

WrongIsUnseen ==
    /\ \A v \in Servers, f \in Fields :
          cache[v][f] # Nothing => HeldUp(v, f, cache[v][f])
    /\ \A r \in Readers :
          reads[r].step = "answered" => HeldUp(reads[r].server, reads[r].field, reads[r])

WrongIsRecent ==
    /\ \A v \in Servers, f \in Fields :
          /\ cache[v][f] # Nothing /\ ~cache[v][f].failed
          /\ cache[v][f].value # account["stellar"][f]
          => changed[f] <= MAX_READ + cache[v][f].age
    /\ \A r \in Readers :
          /\ reads[r].step = "answered" /\ ~reads[r].failed
          /\ reads[r].value # account["stellar"][reads[r].field]
          => changed[reads[r].field] <= reads[r].lasted

IInv ==
    /\ Shape
    /\ RequestsAreKnown
    /\ SerialsAreOne
    /\ TxsAreKnown
    /\ EachAssertionOnce
    /\ CountersSpent
    /\ ConfirmedWereDone
    /\ WrongIsUnseen
    /\ WrongIsRecent

-----------------------------------------------------------------------------
(* Parts of the invariant that a step leaves alone with their variables.   *)
LEMMA ChainKept ==
    ASSUME IInv, UNCHANGED <<txs, signed, executed>>
    PROVE  TxsAreKnown' /\ EachAssertionOnce' /\ CountersSpent'
BY DEF IInv, TxsAreKnown, Known, EachAssertionOnce, CountersSpent, carried_out

LEMMA ConsoleKept ==
    ASSUME IInv, UNCHANGED <<request, signed, life>>
    PROVE  RequestsAreKnown' /\ SerialsAreOne'
BY DEF IInv, RequestsAreKnown, SerialsAreOne, Known

LEMMA CacheKept ==
    ASSUME IInv, UNCHANGED <<account, executed, changed, cache, reads, invalidated>>
    PROVE  ConfirmedWereDone' /\ WrongIsUnseen' /\ WrongIsRecent'
BY DEF IInv, ConfirmedWereDone, WrongIsUnseen, WrongIsRecent, HeldUp, Past, unseen

(* A request that goes on with signed actions, or carries none any more.   *)
LEMMA RequestMoves ==
    ASSUME IInv, NEW r \in Requests, NEW h \in States,
           request' = [request EXCEPT ![r] = h], h.step # "prompt",
           h.step \in Working => h.by \in signed /\ Known(h.call),
           UNCHANGED <<signed, life>>
    PROVE  RequestsAreKnown' /\ SerialsAreOne' /\ request' \in [Requests -> States]
<1>1. /\ request' \in [Requests -> States]
      /\ request'[r] = h
      /\ \A q \in Requests : q # r => request'[q] = request[q]
  BY DEF IInv, Shape
<1>2. \A q \in Requests : request'[q].step = "prompt" => request'[q] = request[q]
  BY <1>1
<1>3. RequestsAreKnown'
  BY <1>1 DEF IInv, RequestsAreKnown, Known
<1>4. SerialsAreOne'
  BY <1>2 DEF IInv, SerialsAreOne
<1>5. QED
  BY <1>1, <1>3, <1>4

LEMMA Blank ==
    /\ nothing \in States /\ nothing.step = "none"
    /\ \A step \in Steps :
          /\ [nothing EXCEPT !.step = step] \in States
          /\ [nothing EXCEPT !.step = step].step = step
BY DEF nothing, States, Steps

(* A request that ends, and nothing else of it.                            *)
LEMMA EndsKeeps ==
    ASSUME IInv, NEW r \in Requests, NEW step \in {"done", "failed"}, ends(r, step),
           UNCHANGED <<signed, life>>
    PROVE  RequestsAreKnown' /\ SerialsAreOne' /\ request' \in [Requests -> States]
<1> DEFINE h == [nothing EXCEPT !.step = step]
<1>1. h \in States /\ h.step = step
  BY Blank DEF Steps
<1>2. request' = [request EXCEPT ![r] = h]
  BY DEF ends
<1> HIDE DEF h
<1>3. QED
  BY <1>1, <1>2, RequestMoves DEF Working

(* A request that goes on with what it carries.                            *)
LEMMA MovesKeeps ==
    ASSUME IInv, NEW r \in Requests, NEW step \in Working, moves(r, step),
           request[r].step \in Working, UNCHANGED <<signed, life>>
    PROVE  RequestsAreKnown' /\ SerialsAreOne' /\ request' \in [Requests -> States]
<1> DEFINE h == [request[r] EXCEPT !.step = step]
<1>1. request[r] \in States
  BY DEF IInv, Shape
<1>2. h \in States /\ h.step = step /\ h.by = request[r].by /\ h.call = request[r].call
  BY <1>1 DEF States, Steps
<1>3. request' = [request EXCEPT ![r] = h]
  BY DEF moves
<1>4. request[r].by \in signed /\ Known(request[r].call)
  BY DEF IInv, RequestsAreKnown
<1> HIDE DEF h
<1>5. QED
  BY <1>2, <1>3, <1>4, RequestMoves DEF Working

-----------------------------------------------------------------------------
(* A serial not prepared before names the new action, and nothing else.    *)
LEMMA PrepareKeeps ==
    ASSUME IInv, NEW t \in Tabs, prepare(t)
    PROVE  IInv'
<1>1. UNCHANGED <<account, executed, sequence, txs, changed, signed, cache, reads, invalidated>>
  BY DEF prepare, cache_vars
<1>2. PICK s \in Serials, action \in Actions :
         /\ life[s] > VALIDITY
         /\ life' = [life EXCEPT ![s] = VALIDITY]
         /\ \E call \in {prepareOwnerAction(s, action), prepareSolanaOwnerAction(s, action)} :
               request' = [request EXCEPT ![t] = [nothing EXCEPT !.step = "prompt", !.call = call]]
  BY DEF prepare
<1>3. PICK call \in {prepareOwnerAction(s, action), prepareSolanaOwnerAction(s, action)} :
         request' = [request EXCEPT ![t] = [nothing EXCEPT !.step = "prompt", !.call = call]]
  BY <1>2
<1>4. call \in Calls /\ call.serial = s
  <2>1. action.field \in Fields /\ action.value \in BOOLEAN
    BY ConsoleAssumption
  <2>2. Cardinality(carried_out("solana")) \in Nat
    <3>1. executed \in Seq(Calls)
      BY DEF IInv, Shape
    <3>2. DOMAIN executed = 1..Len(executed) /\ Len(executed) \in Nat
      BY <3>1
    <3>3. IsFiniteSet(DOMAIN executed)
      BY <3>2, FS_Interval
    <3>4. carried_out("solana") \subseteq DOMAIN executed
      BY DEF carried_out
    <3>5. QED
      BY <3>3, <3>4, FS_Subset, FS_CardinalityType
  <2>3. CASE call = prepareOwnerAction(s, action)
    BY <2>1, <2>3 DEF prepareOwnerAction, Calls, Chains
  <2>4. CASE call = prepareSolanaOwnerAction(s, action)
    BY <2>1, <2>2, <2>4 DEF prepareSolanaOwnerAction, Calls, Chains
  <2>5. QED
    BY <2>3, <2>4
<1> DEFINE h == [nothing EXCEPT !.step = "prompt", !.call = call]
<1>5. h \in States /\ h.step = "prompt" /\ h.call = call
  BY <1>4, Blank DEF States, Steps
<1>6. request' = [request EXCEPT ![t] = h] /\ t \in Requests
  BY <1>3 DEF Requests
<1> HIDE DEF h
<1>7. /\ request' \in [Requests -> States] /\ request'[t] = h
      /\ \A q \in Requests : q # t => request'[q] = request[q]
  BY <1>5, <1>6 DEF IInv, Shape
<1>8. /\ life' \in [Serials -> 0..(VALIDITY + 1)]
      /\ life'[s] = VALIDITY
      /\ \A u \in Serials : u # s => life'[u] = life[u]
  BY <1>2, ConsoleAssumption DEF IInv, Shape
<1>9. /\ \A a \in signed : a.of \in Calls /\ a.of.serial \in Serials /\ a.of.serial # s
      /\ \A q \in Requests : request[q].step = "prompt" =>
            request[q].call.serial \in Serials /\ request[q].call.serial # s
  <2>1. \A a \in signed : life[a.of.serial] <= VALIDITY /\ a.of \in Calls
    BY DEF IInv, SerialsAreOne, Shape, Assertions
  <2>2. \A q \in Requests : request[q].step = "prompt" =>
           request[q].call \in Calls /\ life[request[q].call.serial] <= VALIDITY
    BY DEF IInv, RequestsAreKnown
  <2>3. life[s] \in Nat /\ VALIDITY \in Nat /\ ~(life[s] <= VALIDITY)
    BY <1>2, ConsoleAssumption DEF IInv, Shape
  <2>4. QED
    BY <2>1, <2>2, <2>3 DEF Calls
<1>10. Shape'
  BY <1>1, <1>7, <1>8 DEF IInv, Shape
<1>11. RequestsAreKnown'
  <2>1. VALIDITY <= VALIDITY
    BY ConsoleAssumption
  <2>2. QED
    BY <1>1, <1>4, <1>5, <1>7, <1>8, <1>9, <2>1 DEF IInv, RequestsAreKnown, Known, Working
<1>12. SerialsAreOne'
  BY <1>1, <1>4, <1>5, <1>7, <1>8, <1>9 DEF IInv, SerialsAreOne
<1>13. QED
  BY <1>1, <1>10, <1>11, <1>12, ChainKept, CacheKept DEF IInv

LEMMA SignKeeps ==
    ASSUME IInv, NEW t \in Tabs, sign(t)
    PROVE  IInv'
<1>1. /\ UNCHANGED <<account, executed, sequence, txs, life, changed, cache, reads, invalidated>>
      /\ request[t].step = "prompt" /\ t \in Requests
  BY DEF sign, chain_vars, cache_vars, Requests
<1> DEFINE call == request[t].call
<1>2. PICK verified \in BOOLEAN :
         /\ signed' = signed \cup {[of |-> call, verified |-> verified]}
         /\ request' = [request EXCEPT ![t].step = "submit",
                                       ![t].by = [of |-> call, verified |-> verified]]
  BY DEF sign
<1> DEFINE a == [of |-> call, verified |-> verified]
<1>3. call \in Calls /\ life[call.serial] <= VALIDITY
  BY <1>1 DEF IInv, RequestsAreKnown
<1>4. a \in Assertions /\ a.of = call
  BY <1>3 DEF Assertions
<1> DEFINE h == [request[t] EXCEPT !.step = "submit", !.by = a]
<1>5. request[t] \in States
  BY <1>1 DEF IInv, Shape
<1>6. h \in States /\ h.step = "submit" /\ h.by = a /\ h.call = call
  BY <1>4, <1>5 DEF States, Steps, Working
<1>7. request' = [request EXCEPT ![t] = h] /\ signed' = signed \cup {a}
  BY <1>1, <1>2, <1>5 DEF IInv, Shape, States
<1>8. \A b \in signed : b.of.serial = call.serial => b.of = call
  BY <1>1 DEF IInv, SerialsAreOne
<1>9. \A q \in Requests :
         request[q].step = "prompt" /\ request[q].call.serial = call.serial
             => request[q].call = call
  BY <1>1 DEF IInv, SerialsAreOne
<1> HIDE DEF a, h, call
<1>10. /\ request' \in [Requests -> States] /\ request'[t] = h
       /\ \A q \in Requests : q # t => request'[q] = request[q]
  BY <1>1, <1>6, <1>7 DEF IInv, Shape
<1>11. Shape'
  BY <1>1, <1>4, <1>7, <1>10 DEF IInv, Shape
<1>12. RequestsAreKnown'
  <2>1. \A q \in Requests : q # t /\ request[q].step \in Working =>
           request[q].by \in signed' /\ \E b \in signed' : b.of = request[q].call
    BY <1>7 DEF IInv, RequestsAreKnown, Known
  <2>2. h.by \in signed' /\ \E b \in signed' : b.of = h.call
    BY <1>4, <1>6, <1>7
  <2>3. \A q \in Requests : request[q].step = "prompt" =>
           request[q].call \in Calls /\ life[request[q].call.serial] <= VALIDITY
    BY DEF IInv, RequestsAreKnown
  <2>4. QED
    BY <1>1, <1>6, <1>10, <2>1, <2>2, <2>3 DEF RequestsAreKnown, Known
<1>13. SerialsAreOne'
  <2>1. \A b \in signed' : b \in signed \/ b = a
    BY <1>7
  <2>2. \A q \in Requests : request'[q].step = "prompt" => q # t /\ request'[q] = request[q]
    BY <1>6, <1>10
  <2>3. QED
    BY <1>1, <1>3, <1>4, <1>8, <1>9, <2>1, <2>2 DEF IInv, SerialsAreOne
<1>14. TxsAreKnown' /\ EachAssertionOnce' /\ CountersSpent'
  BY <1>1, <1>7 DEF IInv, TxsAreKnown, Known, EachAssertionOnce, CountersSpent, carried_out
<1>15. QED
  BY <1>1, <1>11, <1>12, <1>13, <1>14, CacheKept DEF IInv

LEMMA DismissKeeps ==
    ASSUME IInv, NEW t \in Tabs, dismiss(t)
    PROVE  IInv'
<1>1. /\ UNCHANGED <<account, executed, sequence, txs, life, changed, signed>>
      /\ UNCHANGED <<cache, reads, invalidated>>
      /\ ends(t, "failed") /\ t \in Requests
  BY DEF dismiss, chain_vars, cache_vars, Requests
<1>2. RequestsAreKnown' /\ SerialsAreOne' /\ request' \in [Requests -> States]
  BY <1>1, EndsKeeps
<1>3. Shape'
  BY <1>1, <1>2 DEF IInv, Shape
<1>4. QED
  BY <1>1, <1>2, <1>3, ChainKept, CacheKept DEF IInv

LEMMA RepeatKeeps ==
    ASSUME IInv, NEW r \in Repeats, repeat(r)
    PROVE  IInv'
<1>1. /\ UNCHANGED <<account, executed, sequence, txs, life, changed, signed>>
      /\ UNCHANGED <<cache, reads, invalidated>> /\ r \in Requests
  BY DEF repeat, chain_vars, cache_vars, Requests
<1>2. PICK a \in signed, b \in signed :
         request' = [request EXCEPT ![r] = [nothing EXCEPT !.step = "submit", !.call = a.of,
                                                           !.by = b]]
  BY DEF repeat
<1>3. a \in Assertions /\ b \in Assertions /\ a.of \in Calls
  BY DEF IInv, Shape, Assertions
<1> DEFINE h == [nothing EXCEPT !.step = "submit", !.call = a.of, !.by = b]
<1>4. h \in States /\ h.step = "submit" /\ h.call = a.of /\ h.by = b
  BY <1>3, Blank DEF States, Steps, Working
<1>5. request' = [request EXCEPT ![r] = h]
  BY <1>2
<1> HIDE DEF h
<1>6. RequestsAreKnown' /\ SerialsAreOne' /\ request' \in [Requests -> States]
  <2>1. h.by \in signed /\ Known(h.call)
    BY <1>4 DEF Known
  <2>2. QED
    BY <1>1, <1>4, <1>5, <2>1, RequestMoves
<1>7. Shape'
  BY <1>1, <1>6 DEF IInv, Shape
<1>8. QED
  BY <1>1, <1>6, <1>7, ChainKept, CacheKept DEF IInv

LEMMA SubmitKeeps ==
    ASSUME IInv, NEW r \in Requests, submit(r)
    PROVE  IInv'
<1>1. /\ UNCHANGED <<account, executed, sequence, txs, life, changed, signed>>
      /\ UNCHANGED <<cache, reads, invalidated>>
      /\ request[r].step = "submit"
  BY DEF submit, chain_vars, cache_vars
<1>2. RequestsAreKnown' /\ SerialsAreOne' /\ request' \in [Requests -> States]
  <2>1. CASE submitOwnerAction(r)
    <3> DEFINE h == [request[r] EXCEPT !.step = "send", !.sequence = sequence]
    <3>1. request[r] \in States /\ sequence \in Nat
      BY DEF IInv, Shape
    <3>2. h \in States /\ h.step = "send" /\ h.by = request[r].by /\ h.call = request[r].call
      BY <3>1 DEF States, Steps, Working
    <3>3. request' = [request EXCEPT ![r] = h]
      BY <2>1, <3>1 DEF submitOwnerAction, IInv, Shape, States
    <3>4. request[r].by \in signed /\ Known(request[r].call)
      BY <1>1 DEF IInv, RequestsAreKnown, Working
    <3> HIDE DEF h
    <3>5. QED
      BY <1>1, <3>2, <3>3, <3>4, RequestMoves
  <2>2. CASE submitSolanaOwnerAction(r)
    BY <1>1, <2>2, MovesKeeps DEF submitSolanaOwnerAction, Working
  <2>3. CASE ends(r, "failed")
    BY <1>1, <2>3, EndsKeeps
  <2>4. QED
    BY <2>1, <2>2, <2>3 DEF submit
<1>3. Shape'
  BY <1>1, <1>2 DEF IInv, Shape
<1>4. QED
  BY <1>1, <1>2, <1>3, ChainKept, CacheKept DEF IInv

LEMMA TransactionIs ==
    ASSUME IInv, NEW r \in Requests, request[r].step \in Working
    PROVE  /\ transaction(r) \in Transactions
           /\ transaction(r).call = request[r].call
           /\ transaction(r).by = request[r].by
           /\ transaction(r).status = "sent"
<1>1. request[r].by \in signed /\ Known(request[r].call)
  BY DEF IInv, RequestsAreKnown
<1>2. request[r].call \in Calls /\ request[r].by \in Assertions
  BY <1>1 DEF IInv, Shape, Known, Assertions
<1>3. request[r].sequence \in Nat
  BY DEF IInv, Shape, States
<1>4. request[r].by.of.serial \in Serials
  BY <1>2 DEF Assertions, Calls
<1>5. QED
  BY <1>2, <1>3, <1>4 DEF transaction, Transactions

LEMMA SendKeeps ==
    ASSUME IInv, NEW r \in Requests, send(r)
    PROVE  IInv'
<1>1. /\ UNCHANGED <<account, executed, sequence, life, changed, signed>>
      /\ UNCHANGED <<cache, reads, invalidated>>
      /\ request[r].step = "send"
      /\ moves(r, "poll") \/ ends(r, "failed")
      /\ txs' = txs \cup {transaction(r)} \/ txs' = txs
  BY DEF send, cache_vars
<1>2. RequestsAreKnown' /\ SerialsAreOne' /\ request' \in [Requests -> States]
  BY <1>1, MovesKeeps, EndsKeeps DEF Working
<1> DEFINE tx == transaction(r)
<1>3. /\ tx \in Transactions /\ tx.status = "sent"
      /\ tx.by \in signed /\ Known(tx.call)
  BY <1>1, TransactionIs DEF Working, IInv, RequestsAreKnown
<1>4. txs' = txs \cup {tx} \/ txs' = txs
  BY <1>1
<1> HIDE DEF tx
<1>5. Shape'
  BY <1>1, <1>2, <1>3, <1>4 DEF IInv, Shape
<1>6. TxsAreKnown' /\ EachAssertionOnce' /\ CountersSpent'
  BY <1>1, <1>3, <1>4
     DEF IInv, TxsAreKnown, Known, EachAssertionOnce, CountersSpent, carried_out
<1>7. QED
  BY <1>1, <1>2, <1>5, <1>6, CacheKept DEF IInv

(* The instance's answered reads are marked, and nothing else changes.     *)
LEMMA Overtaken ==
    ASSUME IInv, NEW v \in Servers
    PROVE  /\ overtaken(v) \in [Readers -> Reads]
           /\ \A r \in Readers :
                 /\ overtaken(v)[r].step = reads[r].step
                 /\ overtaken(v)[r].server = reads[r].server
                 /\ overtaken(v)[r].field = reads[r].field
                 /\ overtaken(v)[r].value = reads[r].value
                 /\ overtaken(v)[r].failed = reads[r].failed
                 /\ overtaken(v)[r].seen = reads[r].seen
                 /\ overtaken(v)[r].lasted = reads[r].lasted
                 /\ reads[r].step = "answered" /\ reads[r].server = v => overtaken(v)[r].raced
                 /\ reads[r].server # v => overtaken(v)[r] = reads[r]
<1> SUFFICES ASSUME NEW r \in Readers
             PROVE  /\ overtaken(v)[r] \in Reads
                    /\ overtaken(v)[r].step = reads[r].step
                    /\ overtaken(v)[r].server = reads[r].server
                    /\ overtaken(v)[r].field = reads[r].field
                    /\ overtaken(v)[r].value = reads[r].value
                    /\ overtaken(v)[r].failed = reads[r].failed
                    /\ overtaken(v)[r].seen = reads[r].seen
                    /\ overtaken(v)[r].lasted = reads[r].lasted
                    /\ reads[r].step = "answered" /\ reads[r].server = v => overtaken(v)[r].raced
                    /\ reads[r].server # v => overtaken(v)[r] = reads[r]
  BY DEF overtaken
<1>1. reads[r] \in Reads
  BY DEF IInv, Shape
<1>2. overtaken(v)[r] = IF reads[r].server = v /\ reads[r].step = "answered"
                        THEN [reads[r] EXCEPT !.raced = TRUE] ELSE reads[r]
  BY DEF overtaken
<1>3. QED
  BY <1>1, <1>2 DEF Reads

(* What an instance says was confirmed was carried out, and everything it  *)
(* read before is gone or marked.                                          *)
LEMMA InvalidateKeeps ==
    ASSUME IInv, NEW v \in Servers, NEW call \in Range(executed), invalidateCache(v, call),
           UNCHANGED <<account, executed, changed>>
    PROVE  /\ ConfirmedWereDone' /\ WrongIsUnseen' /\ WrongIsRecent'
           /\ cache' \in Caches
           /\ reads' \in [Readers -> Reads]
           /\ \A r \in Readers : Placed(reads'[r])
           /\ invalidated' \in [Servers -> SUBSET Calls]
<1>1. CASE call.chain = "stellar"
  <2>1. /\ cache' = [cache EXCEPT ![v] = empty] /\ reads' = overtaken(v)
        /\ invalidated' = [invalidated EXCEPT ![v] = @ \cup {call}]
    BY <1>1 DEF invalidateCache
  <2>2. /\ \A f \in Fields : cache'[v][f] = Nothing
        /\ \A w \in Servers : w # v => cache'[w] = cache[w]
        /\ cache' \in Caches
    BY <2>1 DEF IInv, Shape, empty, Caches
  <2>3. call \in Calls
    BY DEF IInv, Shape, Range
  <2>4. /\ invalidated'[v] = invalidated[v] \cup {call}
        /\ \A w \in Servers : w # v => invalidated'[w] = invalidated[w]
        /\ invalidated' \in [Servers -> SUBSET Calls]
    BY <2>1, <2>3 DEF IInv, Shape
  <2>5. ConfirmedWereDone'
    BY <2>4 DEF IInv, ConfirmedWereDone
  <2>6. \A w \in Servers, f \in Fields :
           cache'[w][f] # Nothing => HeldUp(w, f, cache[w][f])' /\ cache'[w][f] = cache[w][f]
    <3> SUFFICES ASSUME NEW w \in Servers, NEW f \in Fields, cache'[w][f] # Nothing
                 PROVE  HeldUp(w, f, cache[w][f])' /\ cache'[w][f] = cache[w][f]
      OBVIOUS
    <3>1. w # v /\ cache'[w][f] = cache[w][f]
      BY <2>2
    <3>2. HeldUp(w, f, cache[w][f])
      BY <3>1 DEF IInv, WrongIsUnseen
    <3>3. QED
      BY <2>4, <3>1, <3>2 DEF HeldUp, Past, unseen
  <2>7. ASSUME NEW r \in Readers, reads'[r].step = "answered"
        PROVE  HeldUp(reads[r].server, reads[r].field, reads[r])'
    <3>1. /\ reads[r].step = "answered" /\ reads'[r].server = reads[r].server
          /\ reads'[r].field = reads[r].field /\ reads'[r].seen = reads[r].seen
          /\ reads[r].server = v => reads'[r].raced
          /\ reads[r].server # v => reads'[r] = reads[r]
      BY <2>1, <2>7, Overtaken
    <3>2. HeldUp(reads[r].server, reads[r].field, reads[r]) /\ reads[r].server \in Servers
      BY <3>1 DEF IInv, Shape, Placed, WrongIsUnseen
    <3>3. QED
      BY <2>1, <2>4, <3>1, <3>2 DEF HeldUp, Past, unseen
  <2>8. WrongIsUnseen'
    BY <2>6, <2>7 DEF WrongIsUnseen
  <2>9. WrongIsRecent'
    <3>1. \A w \in Servers, f \in Fields : cache'[w][f] # Nothing => cache'[w][f] = cache[w][f]
      BY <2>2
    <3>2. \A r \in Readers : /\ reads'[r].step = reads[r].step /\ reads'[r].field = reads[r].field
                             /\ reads'[r].value = reads[r].value
                             /\ reads'[r].failed = reads[r].failed
                             /\ reads'[r].lasted = reads[r].lasted
      BY <2>1, Overtaken
    <3>3. QED
      BY <3>1, <3>2 DEF IInv, WrongIsRecent
  <2>10. \A r \in Readers : Placed(reads'[r])
    <3>1. \A r \in Readers : /\ reads'[r].step = reads[r].step /\ reads'[r].field = reads[r].field
                             /\ reads'[r].server = reads[r].server
      BY <2>1, Overtaken
    <3>2. QED
      BY <3>1 DEF IInv, Shape, Placed
  <2>11. QED
    BY <2>1, <2>2, <2>4, <2>5, <2>8, <2>9, <2>10, Overtaken
<1>2. CASE call.chain # "stellar"
  <2>1. UNCHANGED <<cache, reads, invalidated>>
    BY <1>2 DEF invalidateCache, cache_vars
  <2>2. QED
    BY <2>1, CacheKept DEF IInv, Shape
<1>3. QED
  BY <1>1, <1>2

LEMMA PollKeeps ==
    ASSUME IInv, NEW r \in Requests, poll(r)
    PROVE  IInv'
<1>1. UNCHANGED <<account, executed, sequence, txs, life, changed, signed>>
  BY DEF poll, chain_vars
<1>2. /\ RequestsAreKnown' /\ SerialsAreOne'
      /\ request' \in [Requests -> States]
  BY <1>1, EndsKeeps DEF poll, confirmed
<1>3. /\ ConfirmedWereDone' /\ WrongIsUnseen' /\ WrongIsRecent'
      /\ cache' \in Caches
      /\ reads' \in [Readers -> Reads]
      /\ \A q \in Readers : Placed(reads'[q])
      /\ invalidated' \in [Servers -> SUBSET Calls]
  <2>1. CASE UNCHANGED cache_vars
    BY <1>1, <2>1, CacheKept DEF IInv, Shape, cache_vars
  <2>2. CASE \E tx \in mine(r) : tx.status = "success" /\ confirmed(r, tx.call)
    <3>1. PICK tx \in txs, v \in Servers : tx.status = "success" /\ invalidateCache(v, tx.call)
      BY <2>2 DEF mine, confirmed
    <3>2. tx.call \in Range(executed)
      BY <3>1 DEF IInv, TxsAreKnown
    <3>3. QED
      BY <1>1, <3>1, <3>2, InvalidateKeeps
  <2>3. QED
    BY <2>1, <2>2 DEF poll
<1>4. Shape'
  BY <1>1, <1>2, <1>3 DEF IInv, Shape
<1>5. QED
  BY <1>1, <1>2, <1>3, <1>4, ChainKept DEF IInv

-----------------------------------------------------------------------------
(* The transaction with its outcome: the rest of it stays.                 *)
LEMMA Settled ==
    ASSUME IInv, NEW tx \in txs, NEW outcome \in {"success", "failed"}
    PROVE  /\ [tx EXCEPT !.status = outcome] \in Transactions
           /\ [tx EXCEPT !.status = outcome].status = outcome
           /\ [tx EXCEPT !.status = outcome].call = tx.call
           /\ [tx EXCEPT !.status = outcome].by = tx.by
<1>1. tx \in Transactions
  BY DEF IInv, Shape
<1>2. QED
  BY <1>1 DEF Transactions

LEMMA LandFailedKeeps ==
    ASSUME IInv, NEW tx \in txs, Land(tx), ~proof_holds(tx.call, tx.by)
    PROVE  IInv'
<1> DEFINE after == [tx EXCEPT !.status = "failed"]
<1>1. /\ UNCHANGED <<account, executed, life, signed, request, cache, reads, invalidated>>
      /\ sequence' \in {sequence, sequence + 1}
      /\ txs' = (txs \ {tx}) \cup {after}
      /\ changed' = [f \in Fields |-> changed[f]]
  BY DEF Land, owner_vars, cache_vars
<1>2. /\ after \in Transactions /\ after.status = "failed"
      /\ after.call = tx.call /\ after.by = tx.by
  BY Settled
<1> HIDE DEF after
<1>3. changed' = changed
  BY <1>1 DEF IInv, Shape
<1>4. Shape'
  BY <1>1, <1>2, <1>3 DEF IInv, Shape
<1>5. TxsAreKnown' /\ EachAssertionOnce' /\ CountersSpent'
  BY <1>1, <1>2 DEF IInv, TxsAreKnown, Known, EachAssertionOnce, CountersSpent, carried_out
<1>6. QED
  BY <1>1, <1>3, <1>4, <1>5, ConsoleKept, CacheKept DEF IInv

(* The action of a good proof has not been carried out: on Stellar its     *)
(* nonce says so, on Solana the counter it was prepared at.                *)
LEMMA GoodIsNew ==
    ASSUME IInv, NEW tx \in txs, proof_holds(tx.call, tx.by)
    PROVE  /\ tx.call \in Calls
           /\ [of |-> tx.call, verified |-> TRUE] \in signed
           /\ \A i \in DOMAIN executed : executed[i].serial # tx.call.serial
<1>1. /\ tx.by \in signed /\ tx.by.verified /\ tx.by.of = tx.call /\ tx.by \in Assertions
  BY DEF IInv, TxsAreKnown, Shape, proof_holds, verify_passkey
<1>2. tx.by = [of |-> tx.by.of, verified |-> tx.by.verified] /\ tx.by.verified = TRUE
  BY <1>1 DEF Assertions
<1>3. tx.call \in Calls
  BY <1>1 DEF Assertions
<1>4. ASSUME NEW i \in DOMAIN executed, executed[i].serial = tx.call.serial
      PROVE  FALSE
  <2>1. tx.call.chain = "solana"
    BY <1>3, <1>4 DEF proof_holds, Calls, Chains
  <2>2. [of |-> executed[i], verified |-> TRUE] \in signed
    BY <1>4 DEF IInv, EachAssertionOnce
  <2>3. [of |-> executed[i], verified |-> TRUE].of = executed[i]
    OBVIOUS
  <2>4. executed[i] = tx.call
    BY <1>1, <1>4, <2>2, <2>3 DEF IInv, SerialsAreOne
  <2>5. tx.call.counter < Cardinality(carried_out("solana"))
    BY <2>1, <2>4 DEF IInv, CountersSpent
  <2>6. tx.call.counter = Cardinality(carried_out("solana"))
    BY <2>1 DEF proof_holds
  <2>7. tx.call.counter \in Nat
    BY <1>3 DEF Calls
  <2>8. QED
    BY <2>5, <2>6, <2>7
<1>5. QED
  BY <1>1, <1>2, <1>3, <1>4

(* The counter on Solana: one more for an action there, else what it was.  *)
LEMMA CounterMoves ==
    ASSUME IInv, NEW call \in Calls, executed' = Append(executed, call)
    PROVE  /\ Cardinality(carried_out("solana")) \in Nat
           /\ Cardinality(carried_out("solana"))' =
                  IF call.chain = "solana" THEN Cardinality(carried_out("solana")) + 1
                                           ELSE Cardinality(carried_out("solana"))
<1> DEFINE n == Len(executed)
           before == carried_out("solana")
<1>1. /\ n \in Nat /\ DOMAIN executed = 1..n /\ DOMAIN executed' = 1..(n + 1)
      /\ executed'[n + 1] = call /\ \A i \in 1..n : executed'[i] = executed[i]
  BY DEF IInv, Shape
<1>2. carried_out("solana")' =
         IF call.chain = "solana" THEN before \cup {n + 1} ELSE before
  BY <1>1 DEF carried_out
<1>3. IsFiniteSet(before) /\ n + 1 \notin before
  <2>1. before \subseteq 1..n
    BY <1>1 DEF carried_out
  <2>2. IsFiniteSet(1..n)
    <3>1. n \in Int
      BY <1>1
    <3> HIDE DEF n
    <3>2. QED
      BY <3>1, FS_Interval
  <2>3. QED
    BY <1>1, <2>1, <2>2, FS_Subset
<1> HIDE DEF before, n
<1>4. Cardinality(before \cup {n + 1}) = Cardinality(before) + 1 /\ Cardinality(before) \in Nat
  BY <1>3, FS_AddElement, FS_CardinalityType
<1>5. QED
  BY <1>2, <1>4 DEF before

(* An action is carried out: new, signed, and not confirmed yet.           *)
LEMMA LandDoneKeeps ==
    ASSUME IInv, NEW tx \in txs, Land(tx), proof_holds(tx.call, tx.by)
    PROVE  IInv'
<1> DEFINE after == [tx EXCEPT !.status = "success"]
           call == tx.call
           n == Len(executed)
<1>1. /\ UNCHANGED <<life, signed, request, cache, reads, invalidated>>
      /\ sequence' \in {sequence, sequence + 1}
      /\ txs' = (txs \ {tx}) \cup {after}
      /\ account' = [account EXCEPT ![call.chain][call.field] = call.value]
      /\ executed' = Append(executed, call)
      /\ changed' = [f \in Fields |-> IF account'["stellar"][f] # account["stellar"][f]
                                      THEN 0 ELSE changed[f]]
  BY DEF Land, owner_vars, cache_vars
<1>2. /\ after \in Transactions /\ after.status = "success"
      /\ after.call = call /\ after.by = tx.by
  BY Settled
<1>3. /\ call \in Calls /\ [of |-> call, verified |-> TRUE] \in signed
      /\ \A i \in DOMAIN executed : executed[i].serial # call.serial
  BY GoodIsNew
<1>4. tx.by \in signed /\ Known(call)
  BY DEF IInv, TxsAreKnown
<1>5. /\ n \in Nat /\ DOMAIN executed = 1..n /\ DOMAIN executed' = 1..(n + 1)
      /\ executed'[n + 1] = call /\ \A i \in 1..n : executed'[i] = executed[i]
      /\ executed' \in Seq(Calls)
  BY <1>1, <1>3 DEF IInv, Shape
<1> HIDE DEF after, call, n
<1>6. /\ account' \in [Chains -> [Fields -> BOOLEAN]]
      /\ call.chain = "solana" => account'["stellar"] = account["stellar"]
  BY <1>1, <1>3 DEF IInv, Shape, Calls, Chains
<1>7. Shape'
  <2>1. changed' \in [Fields -> 0..LONGEST]
    BY <1>1, ConsoleAssumption DEF IInv, Shape, LONGEST
  <2>2. txs' \subseteq Transactions
    BY <1>1, <1>2 DEF IInv, Shape
  <2>3. QED
    BY <1>1, <1>5, <1>6, <2>1, <2>2 DEF IInv, Shape
<1>8. TxsAreKnown'
  <2>1. \A c \in Range(executed) : c \in Range(executed')
    BY <1>5 DEF Range
  <2>2. call \in Range(executed')
    BY <1>5 DEF Range
  <2>3. \A other \in txs' : other \in txs \/ other = after
    BY <1>1
  <2>4. QED
    BY <1>1, <1>2, <1>4, <2>1, <2>2, <2>3 DEF IInv, TxsAreKnown, Known
<1>9. EachAssertionOnce'
  <2>1. ASSUME NEW i \in 1..(n + 1)
        PROVE  [of |-> executed'[i], verified |-> TRUE] \in signed
    <3>1. CASE i = n + 1
      BY <1>3, <1>5, <3>1
    <3>2. CASE i \in 1..n
      BY <1>5, <3>2 DEF IInv, EachAssertionOnce
    <3>3. QED
      BY <1>5, <3>1, <3>2
  <2>2. ASSUME NEW i \in 1..(n + 1), NEW j \in 1..(n + 1),
               executed'[i].serial = executed'[j].serial
        PROVE  i = j
    <3>1. CASE i \in 1..n /\ j \in 1..n
      BY <1>5, <2>2, <3>1 DEF IInv, EachAssertionOnce
    <3>2. CASE i = n + 1 \/ j = n + 1
      BY <1>3, <1>5, <2>2, <3>2
    <3>3. QED
      BY <1>5, <3>1, <3>2
  <2>3. QED
    BY <1>1, <1>5, <2>1, <2>2 DEF EachAssertionOnce
<1>10. CountersSpent'
  <2> DEFINE counted == Cardinality(carried_out("solana"))
  <2>1. counted \in Nat /\ counted' = IF call.chain = "solana" THEN counted + 1 ELSE counted
    BY <1>1, <1>3, CounterMoves
  <2>2. call.chain = "solana" => call.counter = counted
    BY DEF proof_holds, call
  <2>3. \A i \in DOMAIN executed : executed[i].chain = "solana" => executed[i].counter < counted
    BY DEF IInv, CountersSpent
  <2>4. \A i \in DOMAIN executed : executed[i].counter \in Nat
    <3>1. \A i \in DOMAIN executed : executed[i] \in Calls
      BY <1>5 DEF IInv, Shape
    <3>2. QED
      BY <3>1 DEF Calls
  <2> HIDE DEF counted
  <2>5. \A i \in DOMAIN executed' :
           executed'[i].chain = "solana" => executed'[i].counter < counted'
    <3> SUFFICES ASSUME NEW i \in 1..(n + 1), executed'[i].chain = "solana"
                 PROVE  executed'[i].counter < counted'
      BY <1>5
    <3>1. CASE i = n + 1
      BY <1>5, <2>1, <2>2, <3>1
    <3>2. CASE i \in 1..n
      BY <1>5, <2>1, <2>3, <2>4, <3>2
    <3>3. QED
      BY <1>5, <3>1, <3>2
  <2>6. QED
    BY <2>5 DEF CountersSpent, counted
<1>11. ConfirmedWereDone'
  BY <1>1, <1>5 DEF IInv, ConfirmedWereDone, Range
<1>12. Len(executed') = n + 1 /\ Len(executed) = n /\ n + 1 > n
  BY <1>1, <1>3, <1>5 DEF IInv, Shape
<1>13. WrongIsUnseen'
  <2>1. ASSUME NEW v \in Servers, NEW f \in Fields, NEW said, said.seen \in Nat, HeldUp(v, f, said)
        PROVE  HeldUp(v, f, said)'
    <3>1. Past(said.seen) /\ Past(said.seen)'
      BY <1>5, <1>12, <2>1 DEF HeldUp, Past
    <3>2. unseen(v, f, said.seen) => unseen(v, f, said.seen)'
      BY <1>1, <1>5 DEF unseen
    <3>3. CASE account'["stellar"][f] = account["stellar"][f]
      BY <2>1, <3>1, <3>2, <3>3 DEF HeldUp
    <3>4. CASE account'["stellar"][f] # account["stellar"][f]
      <4>1. call.chain = "stellar" /\ call.field = f
        BY <1>1, <1>3, <1>6, <3>4 DEF IInv, Shape, Calls, Chains
      <4>2. call \notin invalidated[v]
        BY <1>3 DEF IInv, ConfirmedWereDone, Range
      <4>3. n + 1 \in DOMAIN executed' /\ n + 1 > said.seen
        BY <1>5, <1>12, <2>1, <3>1 DEF Past
      <4>4. unseen(v, f, said.seen)'
        BY <1>1, <1>5, <4>1, <4>2, <4>3 DEF unseen
      <4>5. QED
        BY <3>1, <4>4 DEF HeldUp
    <3>5. QED
      BY <3>3, <3>4
  <2>2. \A v \in Servers, f \in Fields :
           cache[v][f] # Nothing => HeldUp(v, f, cache[v][f])'
    <3>1. \A v \in Servers, f \in Fields : cache[v][f] # Nothing => cache[v][f].seen \in Nat
      BY DEF IInv, Shape, Caches, Entries
    <3>2. QED
      BY <1>1, <2>1, <3>1 DEF IInv, WrongIsUnseen
  <2>3. \A r \in Readers :
           reads[r].step = "answered" => HeldUp(reads[r].server, reads[r].field, reads[r])'
    <3>1. \A r \in Readers : reads[r].seen \in Nat
      BY DEF IInv, Shape, Reads
    <3>2. \A r \in Readers :
             reads[r].step = "answered" => reads[r].server \in Servers /\ reads[r].field \in Fields
      BY DEF IInv, Shape, Placed
    <3>3. QED
      BY <1>1, <2>1, <3>1, <3>2 DEF IInv, WrongIsUnseen
  <2>4. QED
    BY <1>1, <2>2, <2>3 DEF WrongIsUnseen
<1>14. WrongIsRecent'
  <2>1. \A f \in Fields : \/ changed'[f] = 0
                          \/ /\ changed'[f] = changed[f]
                             /\ account'["stellar"][f] = account["stellar"][f]
    BY <1>1
  <2>2. /\ \A v \in Servers, f \in Fields : cache[v][f] # Nothing => cache[v][f].age \in Nat
        /\ \A r \in Readers : reads[r].lasted \in Nat
        /\ \A r \in Readers : reads[r].step # "none" => reads[r].field \in Fields
        /\ MAX_READ \in Nat
    BY ConsoleAssumption DEF IInv, Shape, Caches, Entries, Reads, Placed
  <2>3. \A v \in Servers, f \in Fields :
           /\ cache[v][f] # Nothing /\ ~cache[v][f].failed
           /\ cache[v][f].value # account'["stellar"][f]
           => changed'[f] <= MAX_READ + cache[v][f].age
    BY <2>1, <2>2 DEF IInv, WrongIsRecent
  <2>4. \A r \in Readers :
           /\ reads[r].step = "answered" /\ ~reads[r].failed
           /\ reads[r].value # account'["stellar"][reads[r].field]
           => changed'[reads[r].field] <= reads[r].lasted
    BY <2>1, <2>2 DEF IInv, WrongIsRecent
  <2>5. QED
    BY <1>1, <2>3, <2>4 DEF WrongIsRecent
<1>15. QED
  BY <1>1, <1>7, <1>8, <1>9, <1>10, <1>11, <1>13, <1>14, ConsoleKept DEF IInv

-----------------------------------------------------------------------------
(* A read that is new, or goes on with what it says.                       *)
LEMMA ReadMoves ==
    ASSUME IInv, NEW r \in Readers, NEW h \in Reads, reads' = [reads EXCEPT ![r] = h], Placed(h),
           h.step = "answered" => /\ HeldUp(h.server, h.field, h)
                                  /\ ~h.failed => h.value = account["stellar"][h.field],
           UNCHANGED <<account, executed, sequence, txs, life, changed, signed, request>>,
           UNCHANGED <<cache, invalidated>>
    PROVE  IInv'
<1>1. /\ reads' \in [Readers -> Reads] /\ reads'[r] = h
      /\ \A q \in Readers : q # r => reads'[q] = reads[q]
  BY DEF IInv, Shape
<1>2. Shape'
  BY <1>1 DEF IInv, Shape, Placed
<1>3. ConfirmedWereDone'
  BY DEF IInv, ConfirmedWereDone
<1>4. WrongIsUnseen'
  <2>1. \A v \in Servers, f \in Fields :
           cache'[v][f] # Nothing => HeldUp(v, f, cache[v][f])'
    BY DEF IInv, WrongIsUnseen, HeldUp, Past, unseen
  <2>2. ASSUME NEW q \in Readers, reads'[q].step = "answered"
        PROVE  HeldUp(reads[q].server, reads[q].field, reads[q])'
    <3>1. CASE q = r
      BY <1>1, <2>2, <3>1 DEF HeldUp, Past, unseen
    <3>2. CASE q # r
      BY <1>1, <2>2, <3>2 DEF IInv, WrongIsUnseen, HeldUp, Past, unseen
    <3>3. QED
      BY <3>1, <3>2
  <2>3. QED
    BY <2>1, <2>2 DEF WrongIsUnseen
<1>5. WrongIsRecent'
  BY <1>1 DEF IInv, WrongIsRecent
<1>6. QED
  BY <1>2, <1>3, <1>4, <1>5, ChainKept, ConsoleKept DEF IInv

LEMMA AskKeeps ==
    ASSUME IInv, NEW r \in Readers, ask(r)
    PROVE  IInv'
<1>1. PICK v \in Servers, f \in Fields :
         reads' = [reads EXCEPT ![r] = [no_read EXCEPT !.step = "asked", !.server = v, !.field = f]]
  BY DEF ask
<1> DEFINE h == [no_read EXCEPT !.step = "asked", !.server = v, !.field = f]
<1>2. h \in Reads /\ h.step = "asked" /\ h.field = f /\ h.server = v
  <2>1. no_read \in Reads
    BY ConsoleAssumption DEF no_read, Reads, Values
  <2>2. QED
    BY <2>1 DEF Reads
<1>3. reads' = [reads EXCEPT ![r] = h]
  BY <1>1
<1> HIDE DEF h
<1>4. QED
  BY <1>2, <1>3, ReadMoves DEF ask, chain_vars, owner_vars, Placed

(* What a node answers is so, unless the read fails.                       *)
LEMMA AnswerKeeps ==
    ASSUME IInv, NEW r \in Readers, answer(r)
    PROVE  IInv'
<1>1. PICK failed \in BOOLEAN :
         reads' = [reads EXCEPT ![r].step = "answered",
                                ![r].value = IF failed THEN default(reads[r].field)
                                             ELSE account["stellar"][reads[r].field],
                                ![r].failed = failed, ![r].seen = Len(executed)]
  BY DEF answer
<1>2. reads[r].step = "asked" /\ reads[r] \in Reads /\ reads[r].field \in Fields
      /\ reads[r].server \in Servers
  BY DEF answer, IInv, Shape, Placed
<1> DEFINE now == IF failed THEN default(reads[r].field) ELSE account["stellar"][reads[r].field]
           h == [reads[r] EXCEPT !.step = "answered", !.value = now, !.failed = failed,
                                 !.seen = Len(executed)]
<1>3. now \in Values /\ Len(executed) \in Nat
      /\ (~failed => now = account["stellar"][reads[r].field])
  <2>1. account["stellar"][reads[r].field] \in BOOLEAN
    BY <1>2 DEF IInv, Shape, Chains
  <2>2. default(reads[r].field) \in Values
    BY DEF default, Values
  <2>3. executed \in Seq(Calls)
    BY DEF IInv, Shape
  <2>4. now \in Values
    BY <2>1, <2>2 DEF Values
  <2>5. QED
    BY <2>3, <2>4
<1>4. reads' = [reads EXCEPT ![r] = h]
  BY <1>1, <1>2 DEF IInv, Shape, Reads
<1> HIDE DEF now
<1>5. /\ h \in Reads /\ h.step = "answered" /\ h.field = reads[r].field
      /\ h.server = reads[r].server /\ h.value = now /\ h.failed = failed
      /\ h.seen = Len(executed)
  BY <1>2, <1>3 DEF Reads
<1> HIDE DEF h
<1>6. HeldUp(h.server, h.field, h)
  BY <1>3, <1>5 DEF HeldUp, Past
<1>7. QED
  BY <1>2, <1>3, <1>4, <1>5, <1>6, ReadMoves DEF answer, chain_vars, owner_vars, Placed

(* The answer of a read becomes the entry, as wrong and as old as it is.   *)
LEMMA StoreKeeps ==
    ASSUME IInv, NEW r \in Readers, store(r)
    PROVE  IInv'
<1>1. /\ UNCHANGED <<account, executed, sequence, txs, life, changed, signed, request>>
      /\ UNCHANGED <<invalidated>> /\ reads[r].step = "answered"
      /\ reads' = [reads EXCEPT ![r] = no_read]
  BY DEF store, chain_vars, owner_vars
<1> DEFINE f == reads[r].field
           v == reads[r].server
           entry == [value |-> reads[r].value, age |-> 0, failed |-> reads[r].failed,
                     seen |-> reads[r].seen, raced |-> reads[r].raced]
<1>2. /\ reads[r] \in Reads /\ f \in Fields /\ v \in Servers
      /\ cache' = [cache EXCEPT ![v][f] = entry]
      /\ no_read \in Reads /\ no_read.step = "none"
  BY <1>1, ConsoleAssumption DEF IInv, Shape, Placed, store, no_read, Reads, Values
<1>3. /\ entry \in Entries /\ entry.value = reads[r].value /\ entry.age = 0
      /\ entry.failed = reads[r].failed /\ entry.seen = reads[r].seen
      /\ entry.raced = reads[r].raced
  BY <1>2, ConsoleAssumption DEF Entries, Reads
<1>4. /\ HeldUp(v, f, reads[r])
      /\ reads[r].value # account["stellar"][f] /\ ~reads[r].failed => changed[f] <= MAX_READ
  <2>1. reads[r].lasted \in 0..MAX_READ /\ changed[f] \in Nat
    BY <1>2, ConsoleAssumption DEF Reads, IInv, Shape, LONGEST
  <2>2. QED
    BY <1>1, <2>1, ConsoleAssumption DEF IInv, WrongIsUnseen, WrongIsRecent
<1> HIDE DEF entry, f, v
<1>5. /\ reads' \in [Readers -> Reads] /\ reads'[r].step = "none"
      /\ \A q \in Readers : q # r => reads'[q] = reads[q]
      /\ cache' \in Caches
      /\ cache'[v][f] = entry
      /\ \A w \in Servers, g \in Fields : w # v \/ g # f => cache'[w][g] = cache[w][g]
  BY <1>1, <1>2, <1>3 DEF IInv, Shape, Caches
<1>6. Shape'
  BY <1>1, <1>5 DEF IInv, Shape, Placed
<1>7. ConfirmedWereDone'
  BY <1>1 DEF IInv, ConfirmedWereDone
<1>8. WrongIsUnseen'
  <2>1. ASSUME NEW w \in Servers, NEW g \in Fields, cache'[w][g] # Nothing
        PROVE  HeldUp(w, g, cache[w][g])'
    <3>1. CASE w = v /\ g = f
      BY <1>1, <1>3, <1>4, <1>5, <3>1 DEF HeldUp, Past, unseen
    <3>2. CASE w # v \/ g # f
      <4>1. cache'[w][g] = cache[w][g]
        BY <1>5, <3>2
      <4>2. HeldUp(w, g, cache[w][g])
        BY <2>1, <4>1 DEF IInv, WrongIsUnseen
      <4>3. QED
        BY <1>1, <4>1, <4>2 DEF HeldUp, Past, unseen
    <3>3. QED
      BY <3>1, <3>2
  <2>2. ASSUME NEW q \in Readers, reads'[q].step = "answered"
        PROVE  HeldUp(reads[q].server, reads[q].field, reads[q])'
    <3>1. reads'[q] = reads[q]
      BY <1>5, <2>2
    <3>2. HeldUp(reads[q].server, reads[q].field, reads[q])
      BY <2>2, <3>1 DEF IInv, WrongIsUnseen
    <3>3. QED
      BY <1>1, <3>1, <3>2 DEF HeldUp, Past, unseen
  <2>3. QED
    BY <2>1, <2>2 DEF WrongIsUnseen
<1>9. WrongIsRecent'
  <2>1. MAX_READ + 0 = MAX_READ
    BY ConsoleAssumption
  <2>2. ASSUME NEW w \in Servers, NEW g \in Fields, cache'[w][g] # Nothing, ~cache'[w][g].failed,
               cache'[w][g].value # account'["stellar"][g]
        PROVE  changed'[g] <= MAX_READ + cache'[w][g].age
    <3>1. CASE w = v /\ g = f
      BY <1>1, <1>3, <1>4, <1>5, <2>1, <2>2, <3>1
    <3>2. CASE w # v \/ g # f
      <4>1. cache'[w][g] = cache[w][g]
        BY <1>5, <3>2
      <4>2. QED
        BY <1>1, <2>2, <4>1 DEF IInv, WrongIsRecent
    <3>3. QED
      BY <3>1, <3>2
  <2>3. QED
    BY <1>1, <1>5, <2>2 DEF IInv, WrongIsRecent
<1>10. QED
  BY <1>1, <1>6, <1>7, <1>8, <1>9, ChainKept, ConsoleKept DEF IInv

(* With an instance go its entries and its reads, and no others change.    *)
LEMMA RecycleKeeps ==
    ASSUME IInv, NEW v \in Servers, recycle(v)
    PROVE  IInv'
<1>1. /\ UNCHANGED <<account, executed, sequence, txs, life, changed, signed, request>>
      /\ UNCHANGED <<invalidated>>
      /\ cache' = [cache EXCEPT ![v] = empty]
      /\ reads' = [r \in Readers |-> IF reads[r].server = v THEN no_read ELSE reads[r]]
  BY DEF recycle, chain_vars, owner_vars
<1>2. no_read \in Reads /\ no_read.step = "none"
  BY ConsoleAssumption DEF no_read, Reads, Values
<1>3. /\ \A f \in Fields : cache'[v][f] = Nothing
      /\ \A w \in Servers : w # v => cache'[w] = cache[w]
      /\ cache' \in Caches
  BY <1>1 DEF IInv, Shape, empty, Caches
<1>4. /\ reads' \in [Readers -> Reads]
      /\ \A r \in Readers : reads'[r].step # "none" => reads'[r] = reads[r]
  BY <1>1, <1>2 DEF IInv, Shape
<1>5. Shape'
  BY <1>1, <1>3, <1>4 DEF IInv, Shape, Placed
<1>6. ConfirmedWereDone'
  BY <1>1 DEF IInv, ConfirmedWereDone
<1>7. WrongIsUnseen'
  <2>1. ASSUME NEW w \in Servers, NEW g \in Fields, cache'[w][g] # Nothing
        PROVE  HeldUp(w, g, cache[w][g])'
    <3>1. cache'[w][g] = cache[w][g]
      BY <1>3, <2>1
    <3>2. HeldUp(w, g, cache[w][g])
      BY <2>1, <3>1 DEF IInv, WrongIsUnseen
    <3>3. QED
      BY <1>1, <3>1, <3>2 DEF HeldUp, Past, unseen
  <2>2. ASSUME NEW q \in Readers, reads'[q].step = "answered"
        PROVE  HeldUp(reads[q].server, reads[q].field, reads[q])'
    <3>1. reads'[q] = reads[q]
      BY <1>4, <2>2
    <3>2. HeldUp(reads[q].server, reads[q].field, reads[q])
      BY <2>2, <3>1 DEF IInv, WrongIsUnseen
    <3>3. QED
      BY <1>1, <3>1, <3>2 DEF HeldUp, Past, unseen
  <2>3. QED
    BY <2>1, <2>2 DEF WrongIsUnseen
<1>8. WrongIsRecent'
  <2>1. \A w \in Servers, g \in Fields : cache'[w][g] # Nothing => cache'[w][g] = cache[w][g]
    BY <1>3
  <2>2. \A r \in Readers : reads'[r].step = "answered" => reads'[r] = reads[r]
    BY <1>4
  <2>3. QED
    BY <1>1, <2>1, <2>2 DEF IInv, WrongIsRecent
<1>9. QED
  BY <1>1, <1>5, <1>6, <1>7, <1>8, ChainKept, ConsoleKept DEF IInv

(* Everything grows older by the same.                                     *)
LEMMA TickKeeps ==
    ASSUME IInv, Tick
    PROVE  IInv'
<1>1. UNCHANGED <<account, executed, sequence, txs, signed, request, invalidated>>
  BY DEF Tick, owner_vars
<1>2. \A s \in Serials : life'[s] \in 0..(VALIDITY + 1) /\ (life[s] <= VALIDITY => life'[s] <= VALIDITY)
  <2> SUFFICES ASSUME NEW s \in Serials
               PROVE  /\ life'[s] \in 0..(VALIDITY + 1)
                      /\ life[s] <= VALIDITY => life'[s] <= VALIDITY
    OBVIOUS
  <2>1. life'[s] = IF life[s] \in 1..VALIDITY THEN life[s] - 1 ELSE life[s]
    BY DEF Tick
  <2>2. life[s] \in 0..(VALIDITY + 1) /\ VALIDITY \in Nat
    BY ConsoleAssumption DEF IInv, Shape
  <2>3. QED
    BY <2>1, <2>2
<1>3. \A r \in Readers :
         /\ reads'[r] \in Reads /\ reads'[r].step = reads[r].step
         /\ reads'[r].server = reads[r].server /\ reads'[r].field = reads[r].field
         /\ reads'[r].value = reads[r].value /\ reads'[r].failed = reads[r].failed
         /\ reads'[r].seen = reads[r].seen /\ reads'[r].raced = reads[r].raced
         /\ reads[r].step # "none" => reads'[r].lasted = reads[r].lasted + 1
  <2> SUFFICES ASSUME NEW r \in Readers
               PROVE  /\ reads'[r] \in Reads /\ reads'[r].step = reads[r].step
                      /\ reads'[r].server = reads[r].server /\ reads'[r].field = reads[r].field
                      /\ reads'[r].value = reads[r].value /\ reads'[r].failed = reads[r].failed
                      /\ reads'[r].seen = reads[r].seen /\ reads'[r].raced = reads[r].raced
                      /\ reads[r].step # "none" => reads'[r].lasted = reads[r].lasted + 1
    OBVIOUS
  <2>1. reads'[r] = IF reads[r].step = "none" THEN reads[r]
                    ELSE [reads[r] EXCEPT !.lasted = @ + 1]
    BY DEF Tick
  <2>2. reads[r] \in Reads
    BY DEF IInv, Shape
  <2>3. reads[r].step # "none" => reads[r].lasted + 1 \in 0..MAX_READ
    BY <2>2, ConsoleAssumption DEF Tick, Reads
  <2>4. QED
    BY <2>1, <2>2, <2>3 DEF Reads
<1>4. \A v \in Servers, f \in Fields :
         /\ cache'[v][f] \in Entries \cup {Nothing}
         /\ cache'[v][f] # Nothing =>
               /\ cache[v][f] # Nothing /\ cache'[v][f].age = cache[v][f].age + 1
               /\ cache'[v][f].value = cache[v][f].value /\ cache'[v][f].seen = cache[v][f].seen
               /\ cache'[v][f].failed = cache[v][f].failed
               /\ cache'[v][f].raced = cache[v][f].raced
  <2> SUFFICES ASSUME NEW v \in Servers, NEW f \in Fields
               PROVE  /\ cache'[v][f] \in Entries \cup {Nothing}
                      /\ cache'[v][f] # Nothing =>
                            /\ cache[v][f] # Nothing
                            /\ cache'[v][f].age = cache[v][f].age + 1
                            /\ cache'[v][f].value = cache[v][f].value
                            /\ cache'[v][f].seen = cache[v][f].seen
                            /\ cache'[v][f].failed = cache[v][f].failed
                            /\ cache'[v][f].raced = cache[v][f].raced
    OBVIOUS
  <2> DEFINE entry == cache[v][f]
  <2>1. cache'[v][f] = IF entry = Nothing \/ entry.age + 1 = CACHE_MS THEN Nothing
                       ELSE [entry EXCEPT !.age = @ + 1]
    BY DEF Tick, aged
  <2>2. entry # Nothing => entry \in Entries
    BY DEF IInv, Shape, Caches
  <2> HIDE DEF entry
  <2>3. CASE entry = Nothing \/ entry.age + 1 = CACHE_MS
    BY <2>1, <2>3
  <2>4. CASE ~(entry = Nothing \/ entry.age + 1 = CACHE_MS)
    <3>1. entry \in Entries /\ entry.age + 1 \in 0..(CACHE_MS - 1)
      BY <2>2, <2>4, ConsoleAssumption DEF Entries
    <3>2. cache'[v][f] = [entry EXCEPT !.age = @ + 1]
      BY <2>1, <2>4
    <3>3. QED
      BY <2>4, <3>1, <3>2 DEF Entries, entry
  <2>5. QED
    BY <2>3, <2>4
<1>5. \A f \in Fields :
         /\ changed'[f] = IF changed[f] < LONGEST THEN changed[f] + 1 ELSE LONGEST
         /\ changed[f] \in 0..LONGEST /\ LONGEST \in Nat /\ changed'[f] \in 0..LONGEST
  BY ConsoleAssumption DEF Tick, IInv, Shape, LONGEST
<1>6. Shape'
  <2>1. life' \in [Serials -> 0..(VALIDITY + 1)]
    BY <1>2 DEF Tick
  <2>2. reads' \in [Readers -> Reads] /\ \A r \in Readers : Placed(reads'[r])
    BY <1>3 DEF Tick, IInv, Shape, Placed
  <2>3. cache' \in Caches
    BY <1>4 DEF Tick, Caches
  <2>4. changed' \in [Fields -> 0..LONGEST]
    BY <1>5 DEF Tick
  <2>5. QED
    BY <1>1, <2>1, <2>2, <2>3, <2>4 DEF IInv, Shape
<1>7. RequestsAreKnown' /\ SerialsAreOne'
  <2>1. \A r \in Requests : request[r].step = "prompt" => request[r].call.serial \in Serials
    BY DEF IInv, RequestsAreKnown, Calls
  <2>2. \A a \in signed : a.of.serial \in Serials
    BY DEF IInv, Shape, Assertions, Calls
  <2>3. QED
    BY <1>1, <1>2, <2>1, <2>2 DEF IInv, RequestsAreKnown, SerialsAreOne, Known
<1>8. ConfirmedWereDone'
  BY <1>1 DEF IInv, ConfirmedWereDone
<1>9. WrongIsUnseen'
  <2>1. ASSUME NEW v \in Servers, NEW f \in Fields, cache'[v][f] # Nothing
        PROVE  HeldUp(v, f, cache[v][f])'
    <3>1. HeldUp(v, f, cache[v][f])
      BY <1>4, <2>1 DEF IInv, WrongIsUnseen
    <3>2. QED
      BY <1>1, <1>4, <2>1, <3>1 DEF HeldUp, Past, unseen
  <2>2. ASSUME NEW r \in Readers, reads'[r].step = "answered"
        PROVE  HeldUp(reads[r].server, reads[r].field, reads[r])'
    <3>1. HeldUp(reads[r].server, reads[r].field, reads[r])
      BY <1>3, <2>2 DEF IInv, WrongIsUnseen
    <3>2. QED
      BY <1>1, <1>3, <3>1 DEF HeldUp, Past, unseen
  <2>3. QED
    BY <2>1, <2>2 DEF WrongIsUnseen
<1>10. WrongIsRecent'
  <2>1. ASSUME NEW v \in Servers, NEW f \in Fields, cache'[v][f] # Nothing, ~cache'[v][f].failed,
               cache'[v][f].value # account'["stellar"][f]
        PROVE  changed'[f] <= MAX_READ + cache'[v][f].age
    <3>1. cache[v][f] # Nothing /\ ~cache[v][f].failed /\ cache[v][f].value # account["stellar"][f]
          /\ cache'[v][f].age = cache[v][f].age + 1
      BY <1>1, <1>4, <2>1
    <3>2. changed[f] <= MAX_READ + cache[v][f].age
      BY <3>1 DEF IInv, WrongIsRecent
    <3>3. cache[v][f].age \in Nat /\ MAX_READ \in Nat
      BY <3>1, ConsoleAssumption DEF IInv, Shape, Caches, Entries
    <3>4. QED
      BY <1>5, <3>1, <3>2, <3>3
  <2>2. ASSUME NEW r \in Readers, reads'[r].step = "answered", ~reads'[r].failed,
               reads'[r].value # account'["stellar"][reads'[r].field]
        PROVE  changed'[reads'[r].field] <= reads'[r].lasted
    <3>1. /\ reads[r].step = "answered" /\ ~reads[r].failed
          /\ reads[r].value # account["stellar"][reads[r].field]
          /\ reads'[r].lasted = reads[r].lasted + 1 /\ reads'[r].field = reads[r].field
      BY <1>1, <1>3, <2>2
    <3>2. changed[reads[r].field] <= reads[r].lasted
      BY <3>1 DEF IInv, WrongIsRecent
    <3>3. reads[r].lasted \in Nat /\ reads[r].field \in Fields
      BY <3>1 DEF IInv, Shape, Placed, Reads
    <3>4. QED
      BY <1>5, <3>1, <3>2, <3>3
  <2>3. QED
    BY <2>1, <2>2 DEF WrongIsRecent
<1>11. QED
  BY <1>1, <1>6, <1>7, <1>8, <1>9, <1>10, ChainKept DEF IInv

-----------------------------------------------------------------------------
LEMMA InitEstablishes == Init => IInv
<1> SUFFICES ASSUME Init PROVE IInv
  OBVIOUS
<1>1. /\ account \in [Chains -> {[f \in Fields |-> FALSE]}]
      /\ life = [s \in Serials |-> VALIDITY + 1] /\ signed = {} /\ executed = << >> /\ txs = {}
      /\ sequence = 0 /\ request = [r \in Requests |-> nothing]
      /\ cache = [v \in Servers |-> empty] /\ reads = [r \in Readers |-> no_read]
      /\ changed = [f \in Fields |-> LONGEST] /\ invalidated = [v \in Servers |-> {}]
  BY DEF Init
<1>2. /\ \A r \in Requests : request[r].step = "none"
      /\ request \in [Requests -> States]
  BY <1>1, Blank
<1>3. no_read \in Reads /\ no_read.step = "none"
  BY ConsoleAssumption DEF no_read, Reads, Values
<1>4. /\ reads \in [Readers -> Reads] /\ \A r \in Readers : reads[r].step = "none"
      /\ cache \in Caches /\ \A v \in Servers, f \in Fields : cache[v][f] = Nothing
  BY <1>1, <1>3 DEF empty, Caches
<1>5. Shape
  <2>1. life \in [Serials -> 0..(VALIDITY + 1)] /\ changed \in [Fields -> 0..LONGEST]
    BY <1>1, ConsoleAssumption DEF LONGEST
  <2>2. account \in [Chains -> [Fields -> BOOLEAN]]
    BY <1>1
  <2>3. executed \in Seq(Calls)
    BY <1>1
  <2>4. QED
    BY <1>1, <1>2, <1>4, <2>1, <2>2, <2>3 DEF Shape, Placed
<1>6. RequestsAreKnown /\ SerialsAreOne
  BY <1>1, <1>2 DEF RequestsAreKnown, SerialsAreOne, Working
<1>7. TxsAreKnown /\ EachAssertionOnce /\ CountersSpent /\ ConfirmedWereDone
  <2>1. DOMAIN executed = {}
    BY <1>1
  <2>2. QED
    BY <1>1, <2>1 DEF TxsAreKnown, EachAssertionOnce, CountersSpent, ConfirmedWereDone
<1>8. WrongIsUnseen /\ WrongIsRecent
  BY <1>4 DEF WrongIsUnseen, WrongIsRecent
<1>9. QED
  BY <1>5, <1>6, <1>7, <1>8 DEF IInv

LEMMA NextKeeps == IInv /\ [Next]_vars => IInv'
<1> SUFFICES ASSUME IInv, [Next]_vars PROVE IInv'
  OBVIOUS
<1>1. ASSUME NEW t \in Tabs, prepare(t) \/ sign(t) \/ dismiss(t)
      PROVE  IInv'
  BY <1>1, PrepareKeeps, SignKeeps, DismissKeeps
<1>2. ASSUME NEW r \in Requests, Handle(r)
      PROVE  IInv'
  BY <1>2, SubmitKeeps, SendKeeps, PollKeeps DEF Handle
<1>3. ASSUME NEW tx \in txs, Land(tx)
      PROVE  IInv'
  BY <1>3, LandDoneKeeps, LandFailedKeeps
<1>4. ASSUME NEW r \in Readers, ask(r) \/ answer(r) \/ store(r)
      PROVE  IInv'
  BY <1>4, AskKeeps, AnswerKeeps, StoreKeeps
<1>5. CASE UNCHANGED vars
  <2>1. /\ UNCHANGED <<account, executed, sequence, txs, life, changed, signed, request>>
        /\ UNCHANGED <<cache, reads, invalidated>>
    BY <1>5 DEF vars, chain_vars, owner_vars, cache_vars
  <2>2. Shape'
    BY <2>1 DEF IInv, Shape
  <2>3. QED
    BY <2>1, <2>2, ChainKept, ConsoleKept, CacheKept DEF IInv
<1>6. QED
  BY <1>1, <1>2, <1>3, <1>4, <1>5, RepeatKeeps, RecycleKeeps, TickKeeps DEF Next

(* What the steps keep: a serial names one action, the account has counted *)
(* past what was carried out, and what an instance's cache has wrong is the*)
(* value of a failed read, or was said before an action whose confirmation *)
(* this instance has not seen, or had overtake it, and not too long ago.   *)
THEOREM InductiveInvariant == Spec => []IInv
BY InitEstablishes, NextKeeps, PTL DEF Spec

(* The account, the requests, the cache and the reads keep their shape.    *)
THEOREM TypeCorrect == Spec => []TypeOK
<1>1. IInv => TypeOK
  <2> SUFFICES ASSUME IInv PROVE TypeOK
    OBVIOUS
  <2>1. \A tx \in txs : tx.by \in signed /\ tx.status \in {"sent", "success", "failed"}
    BY DEF IInv, Shape, TxsAreKnown, Transactions
  <2>2. \A r \in Requests : request[r].step \in Steps /\ request[r].call \in Calls \cup {NoCall}
    BY DEF IInv, Shape, States
  <2>3. \A v \in Servers, f \in Fields : cache[v][f] # Nothing =>
           cache[v][f].value \in BOOLEAN \cup {Nothing} /\ cache[v][f].age \in 0..(CACHE_MS - 1)
    BY DEF IInv, Shape, Caches, Entries, Values
  <2>4. QED
    BY <2>1, <2>2, <2>3 DEF IInv, Shape, TypeOK, Steps, Working
<1>2. QED
  BY <1>1, InductiveInvariant, PTL

(* No action is carried out without the verified owner's assertion of it,  *)
(* and none twice, on either chain.                                        *)
THEOREM AssertionsCountOnce == Spec => []EachAssertionOnce
<1>1. IInv => EachAssertionOnce
  BY DEF IInv
<1>2. QED
  BY <1>1, InductiveInvariant, PTL

(* After a confirmed action the panel shows the account as it is: whatever *)
(* an instance still has wrong is the value of a read that failed, or was  *)
(* kept although an invalidation had come by, or an action carried out     *)
(* since was confirmed by another instance or not at all.                  *)
THEOREM ConfirmedShows == Spec => []ConfirmedIsSeen
<1>1. IInv => ConfirmedIsSeen
  BY DEF IInv, WrongIsUnseen, HeldUp, ConfirmedIsSeen, wrong
<1>2. QED
  BY <1>1, InductiveInvariant, PTL

(* In no instance is an entry that is not the value of a failed read wrong *)
(* for longer than a read and a lifetime of the cache.                     *)
THEOREM StaleIsBounded == Spec => []StaleAtMostSoLong
<1>1. IInv => StaleAtMostSoLong
  <2> SUFFICES ASSUME IInv, NEW v \in Servers, NEW f \in Fields, wrong(v, f),
                      ~cache[v][f].failed
               PROVE  changed[f] < LONGEST
    BY DEF StaleAtMostSoLong
  <2>1. cache[v][f] # Nothing
    BY DEF wrong
  <2>2. changed[f] <= MAX_READ + cache[v][f].age
    BY <2>1 DEF IInv, WrongIsRecent, wrong
  <2>3. cache[v][f].age \in 0..(CACHE_MS - 1) /\ changed[f] \in Nat
    BY <2>1, ConsoleAssumption DEF IInv, Shape, Caches, Entries, LONGEST
  <2>4. QED
    BY <2>2, <2>3, ConsoleAssumption DEF LONGEST
<1>2. QED
  BY <1>1, InductiveInvariant, PTL

(* A request that is done now and was not: its polling found its           *)
(* transaction.                                                            *)
LEMMA OnlyPollEnds ==
    ASSUME IInv, [Next]_vars, NEW r \in Requests,
           request[r].step # "done", request'[r].step = "done"
    PROVE  \E tx \in mine(r) : tx.status = "success"
<1> DEFINE Ends(q, h) == request' = [request EXCEPT ![q] = h] => q = r /\ h.step = "done"
<1>1. \A q, h : Ends(q, h)
  BY DEF IInv, Shape
<1>2. \A q \in Requests, step \in Steps :
         moves(q, step) \/ ends(q, step) => q = r /\ step = "done"
  <2> SUFFICES ASSUME NEW q \in Requests, NEW step \in Steps, moves(q, step) \/ ends(q, step)
               PROVE  q = r /\ step = "done"
    OBVIOUS
  <2>1. CASE ends(q, step)
    BY <1>1, <2>1, Blank DEF ends
  <2>2. CASE moves(q, step)
    <3>1. request' = [request EXCEPT ![q] = [request[q] EXCEPT !.step = step]]
      BY <2>2 DEF moves
    <3>2. request[q] \in States
      BY DEF IInv, Shape
    <3>3. [request[q] EXCEPT !.step = step].step = step
      BY <3>2 DEF States
    <3>4. QED
      BY <1>1, <3>1, <3>3
  <2>3. QED
    BY <2>1, <2>2
<1>3. ~UNCHANGED request
  OBVIOUS
<1>4. \A t \in Tabs : ~prepare(t)
  <2> SUFFICES ASSUME NEW t \in Tabs, prepare(t) PROVE FALSE
    OBVIOUS
  <2>1. PICK call : request' = [request EXCEPT ![t] = [nothing EXCEPT !.step = "prompt", !.call = call]]
    BY DEF prepare
  <2> DEFINE h == [nothing EXCEPT !.step = "prompt", !.call = call]
  <2>2. h.step = "prompt"
    BY DEF nothing
  <2>3. Ends(t, h) /\ request' = [request EXCEPT ![t] = h]
    BY <1>1, <2>1
  <2> HIDE DEF h
  <2>4. QED
    BY <2>2, <2>3
<1>5. \A t \in Tabs : ~sign(t)
  <2> SUFFICES ASSUME NEW t \in Tabs, sign(t) PROVE FALSE
    OBVIOUS
  <2>1. PICK a : request' = [request EXCEPT ![t].step = "submit", ![t].by = a]
    BY DEF sign
  <2> DEFINE h == [request[t] EXCEPT !.step = "submit", !.by = a]
  <2>2. t \in Requests /\ request[t] \in States
    BY DEF IInv, Shape, Requests
  <2>3. h.step = "submit" /\ request' = [request EXCEPT ![t] = h]
    BY <2>1, <2>2 DEF IInv, Shape, States
  <2>4. Ends(t, h)
    BY <1>1
  <2> HIDE DEF h
  <2>5. QED
    BY <2>3, <2>4
<1>6. \A q \in Repeats : ~repeat(q)
  <2> SUFFICES ASSUME NEW q \in Repeats, repeat(q) PROVE FALSE
    OBVIOUS
  <2>1. PICK c, b : request' = [request EXCEPT ![q] = [nothing EXCEPT !.step = "submit", !.call = c, !.by = b]]
    BY DEF repeat
  <2> DEFINE h == [nothing EXCEPT !.step = "submit", !.call = c, !.by = b]
  <2>2. h.step = "submit"
    BY DEF nothing
  <2>3. Ends(q, h) /\ request' = [request EXCEPT ![q] = h]
    BY <1>1, <2>1
  <2> HIDE DEF h
  <2>4. QED
    BY <2>2, <2>3
<1>7. \A q \in Requests : ~submitOwnerAction(q)
  <2> SUFFICES ASSUME NEW q \in Requests, submitOwnerAction(q) PROVE FALSE
    OBVIOUS
  <2> DEFINE h == [request[q] EXCEPT !.step = "send", !.sequence = sequence]
  <2>1. request[q] \in States
    BY DEF IInv, Shape
  <2>2. h.step = "send" /\ request' = [request EXCEPT ![q] = h]
    BY <2>1 DEF submitOwnerAction, IInv, Shape, States
  <2>3. Ends(q, h)
    BY <1>1
  <2> HIDE DEF h
  <2>4. QED
    BY <2>2, <2>3
<1>8. \A q \in Requests : ~submit(q) /\ ~send(q)
  BY <1>2, <1>7 DEF submit, submitSolanaOwnerAction, send, Steps, Working
<1>9. \A t \in Tabs : ~dismiss(t)
  BY <1>2 DEF dismiss, Steps, Requests
<1>10. PICK q \in Requests : poll(q)
  BY <1>3, <1>4, <1>5, <1>6, <1>8, <1>9
     DEF Next, Handle, Land, ask, answer, store, recycle, Tick, vars, owner_vars
<1>11. ~ends(q, "failed") /\ (ends(q, "done") => q = r)
  BY <1>2 DEF Steps
<1>12. QED
  BY <1>10, <1>11 DEF poll, confirmed

(* A request is answered as done only for an action that was carried out.  *)
THEOREM ConfirmedWasDone == Spec => ConfirmedIsDone
<1>1. IInv /\ [Next]_vars =>
         \A r \in Requests : request[r].step # "done" /\ request'[r].step = "done"
                                 => request[r].call \in Range(executed)
  <2> SUFFICES ASSUME IInv, [Next]_vars, NEW r \in Requests,
                      request[r].step # "done", request'[r].step = "done"
               PROVE  request[r].call \in Range(executed)
    OBVIOUS
  <2>1. PICK tx \in mine(r) : tx.status = "success"
    BY OnlyPollEnds
  <2>2. QED
    BY <2>1 DEF mine, IInv, TxsAreKnown
<1>2. QED
  BY <1>1, InductiveInvariant, PTL DEF Spec, ConfirmedIsDone
-----------------------------------------------------------------------------
(* The signature.  A number's bytes are its digits: reading them back gives*)
(* the number (NumberOfBytes), DER's fewest bytes filled up to full width  *)
(* are its bytes in full width (Padded), and so what is submitted is what  *)
(* the passkey answered, s folded to the lower half (RawIs).               *)

(* A set of numbers has a smallest one.                                    *)
LEMMA SmallestOf ==
    ASSUME NEW S \in SUBSET Nat, S # {}
    PROVE  \E m \in S : \A x \in S : m <= x
<1> DEFINE R == StrictSubsetOrdering(Nat)
           F == FiniteSubsetsOf(Nat)
           T == {0..n : n \in S}
<1>1. IsWellFoundedOn(R, F)
  BY FS_StrictSubsetOrderingWellFounded
<1>2. T \subseteq F
  <2>1. \A n \in S : 0..n \in SUBSET Nat /\ IsFiniteSet(0..n)
    BY FS_Interval
  <2>2. QED
    BY <2>1 DEF FiniteSubsetsOf
<1>3. T # {}
  OBVIOUS
<1> HIDE DEF R, F, T
<1>4. PICK t \in T : \A u \in T : <<u, t>> \notin R
  BY <1>1, <1>2, <1>3, WFMin
<1>5. PICK m \in S : t = 0..m
  BY <1>4 DEF T
<1>6. ASSUME NEW x \in S, x < m
      PROVE  FALSE
  <2>1. 0..x \in T /\ 0..x \subseteq 0..m /\ 0..x # 0..m
    BY <1>6 DEF T
  <2>2. <<0..x, 0..m>> \in R
    BY <2>1 DEF R, StrictSubsetOrdering
  <2>3. QED
    BY <1>4, <1>5, <2>1, <2>2
<1>7. QED
  BY <1>6

(* A set that holds zero and, with a number below n, the next, holds all of*)
(* them up to n: induction, for a set.                                     *)
LEMMA Ascend ==
    ASSUME NEW n \in Nat, NEW S, 0 \in S, \A k \in 0..(n - 1) : k \in S => k + 1 \in S
    PROVE  \A k \in 0..n : k \in S
<1> DEFINE Rest == {k \in 0..n : k \notin S}
<1> SUFFICES ASSUME Rest # {} PROVE FALSE
  OBVIOUS
<1>1. Rest \in SUBSET Nat
  OBVIOUS
<1> HIDE DEF Rest
<1>2. PICK m \in Rest : \A x \in Rest : m <= x
  BY <1>1, SmallestOf
<1>3. m \in 0..n /\ m \notin S /\ m # 0
  BY <1>2 DEF Rest
<1>4. m - 1 \in 0..(n - 1) /\ ~(m <= m - 1)
  BY <1>3
<1>5. m - 1 \in S
  BY <1>2, <1>4 DEF Rest
<1>6. QED
  BY <1>3, <1>4, <1>5

(* Division with remainder.                                                *)
LEMMA Divided ==
    ASSUME NEW a \in Nat, NEW d \in Nat \ {0}
    PROVE  /\ a \div d \in Nat /\ a % d \in 0..(d - 1)
           /\ a = (a \div d) * d + (a % d)
OBVIOUS

(* Its quotient is the only one.                                           *)
LEMMA DividedOnce ==
    ASSUME NEW d \in Nat \ {0}, NEW q \in Nat, NEW r \in 0..(d - 1)
    PROVE  (q * d + r) \div d = q
<1> DEFINE a == q * d + r
<1>1. a \in Nat
  OBVIOUS
<1> DEFINE p == a \div d
           s == a % d
<1>2. p \in Nat /\ s \in 0..(d - 1) /\ q * d + r = p * d + s
  BY <1>1, Divided
<1> HIDE DEF a, p, s
<1>3. CASE p < q
  <2>1. q >= p + 1
    BY <1>2, <1>3
  <2>2. q * d >= (p + 1) * d
    BY <1>2, <2>1
  <2>3. (p + 1) * d = p * d + d
    BY <1>2
  <2>4. QED
    BY <1>2, <2>2, <2>3
<1>4. CASE p > q
  <2>1. p >= q + 1
    BY <1>2, <1>4
  <2>2. p * d >= (q + 1) * d
    BY <1>2, <2>1
  <2>3. (q + 1) * d = q * d + d
    BY <1>2
  <2>4. QED
    BY <1>2, <2>2, <2>3
<1>5. QED
  BY <1>2, <1>3, <1>4 DEF p, a

(* Dividing by a product is dividing twice.                                *)
LEMMA DividedTwice ==
    ASSUME NEW n \in Nat, NEW p \in Nat \ {0}, NEW b \in Nat \ {0}
    PROVE  n \div (b * p) = (n \div p) \div b
<1> DEFINE q == n \div p
           r == n % p
           s == q \div b
           t == q % b
<1>1. q \in Nat /\ r \in 0..(p - 1) /\ n = q * p + r
  BY Divided
<1>2. s \in Nat /\ t \in 0..(b - 1) /\ q = s * b + t
  BY <1>1, Divided
<1> HIDE DEF q, r, s, t
<1>3. n = s * (b * p) + (t * p + r)
  BY <1>1, <1>2
<1>4. t * p + r \in 0..(b * p - 1)
  <2>1. t * p <= (b - 1) * p
    BY <1>2
  <2>2. (b - 1) * p = b * p - p
    OBVIOUS
  <2>3. t * p \in Nat
    BY <1>2
  <2>4. QED
    BY <1>1, <2>1, <2>2, <2>3
<1>5. b * p \in Nat \ {0}
  OBVIOUS
<1>6. n \div (b * p) = s
  BY <1>2, <1>3, <1>4, <1>5, DividedOnce
<1>7. QED
  BY <1>6 DEF q, s

(* What defines power, and that there is such a function.                  *)
PowersTo(f, n) == f = [k \in 0..n |-> IF k = 0 THEN 1 ELSE BASE * f[k - 1]]

LEMMA PowersExist == \E f : PowersTo(f, WIDTH + 1)
<1> DEFINE S == {n \in Nat : \E f : PowersTo(f, n)}
<1>1. 0 \in S
  <2>1. PowersTo([k \in 0..0 |-> 1], 0)
    BY DEF PowersTo
  <2>2. QED
    BY <2>1
<1>2. ASSUME NEW n \in Nat, n \in S
      PROVE  n + 1 \in S
  <2>1. PICK f : PowersTo(f, n)
    BY <1>2
  <2> DEFINE g == [k \in 0..(n + 1) |-> IF k = n + 1 THEN BASE * f[n] ELSE f[k]]
  <2>2. ASSUME NEW k \in 0..(n + 1)
        PROVE  g[k] = IF k = 0 THEN 1 ELSE BASE * g[k - 1]
    <3>1. CASE k = n + 1
      BY <3>1
    <3>2. CASE k = 0
      BY <3>2, <2>1 DEF PowersTo
    <3>3. CASE k \in 1..n
      <4>1. k - 1 \in 0..n /\ k \in 0..n /\ k # n + 1 /\ k - 1 # n + 1 /\ k # 0
        BY <3>3
      <4>2. g[k] = f[k] /\ g[k - 1] = f[k - 1]
        BY <4>1
      <4>3. f[k] = BASE * f[k - 1]
        BY <2>1, <4>1 DEF PowersTo
      <4>4. QED
        BY <4>1, <4>2, <4>3
    <3>4. QED
      BY <3>1, <3>2, <3>3
  <2>3. PowersTo(g, n + 1)
    <3>1. g = [k \in 0..(n + 1) |-> g[k]]
      OBVIOUS
    <3> HIDE DEF g
    <3>2. QED
      BY <2>2, <3>1 DEF PowersTo
  <2>4. QED
    BY <2>3
<1>3. WIDTH + 1 \in Nat
  BY SignatureAssumption
<1> HIDE DEF S
<1>4. WIDTH + 1 \in S
  BY <1>1, <1>2, <1>3, Ascend
<1>5. QED
  BY <1>4 DEF S

(* power is what it is defined as.                                         *)
LEMMA Powers ==
    /\ power[0] = 1
    /\ \A k \in 0..WIDTH : power[k + 1] = BASE * power[k]
    /\ \A k \in 0..(WIDTH + 1) : power[k] \in Nat \ {0}
<1>1. PowersTo(power, WIDTH + 1)
  BY PowersExist DEF PowersTo, power
<1>2. power[0] = 1 /\ \A k \in 0..WIDTH : power[k + 1] = BASE * power[k]
  <2>1. ASSUME NEW f, PowersTo(f, WIDTH + 1)
        PROVE  f[0] = 1 /\ \A k \in 0..WIDTH : f[k + 1] = BASE * f[k]
    <3>1. \A k \in 0..(WIDTH + 1) : f[k] = IF k = 0 THEN 1 ELSE BASE * f[k - 1]
      BY <2>1 DEF PowersTo
    <3>2. \A k \in 0..WIDTH : k + 1 \in 0..(WIDTH + 1) /\ k + 1 # 0 /\ (k + 1) - 1 = k
      BY SignatureAssumption
    <3>3. 0 \in 0..(WIDTH + 1)
      BY SignatureAssumption
    <3>4. QED
      BY <3>1, <3>2, <3>3
  <2>2. QED
    BY <1>1, <2>1
<1> DEFINE S == {k \in 0..(WIDTH + 1) : power[k] \in Nat \ {0}}
<1>3. 0 \in S
  BY <1>2, SignatureAssumption
<1>4. ASSUME NEW k \in 0..(WIDTH + 1 - 1), k \in S
      PROVE  k + 1 \in S
  BY <1>2, <1>4, SignatureAssumption
<1> HIDE DEF S
<1>5. \A k \in 0..(WIDTH + 1) : k \in S
  BY <1>3, <1>4, Ascend, SignatureAssumption
<1>6. QED
  BY <1>2, <1>5 DEF S

(* More bytes have no fewer values.                                        *)
LEMMA PowersGrow ==
    ASSUME NEW j \in 0..(WIDTH + 1), NEW k \in j..(WIDTH + 1)
    PROVE  power[j] <= power[k]
<1> DEFINE S == {i \in Nat : j + i <= WIDTH + 1 => power[j] <= power[j + i]}
<1>1. 0 \in S
  BY Powers
<1>2. ASSUME NEW i \in 0..((k - j) - 1), i \in S
      PROVE  i + 1 \in S
  <2> SUFFICES ASSUME j + (i + 1) <= WIDTH + 1
               PROVE  power[j] <= power[j + (i + 1)]
    OBVIOUS
  <2>0. i \in Nat /\ j + i \in 0..WIDTH /\ (j + i) + 1 = j + (i + 1) /\ j + i \in 0..(WIDTH + 1)
    BY SignatureAssumption
  <2>1. power[j] <= power[j + i]
    BY <1>2, <2>0, SignatureAssumption
  <2>2. power[j + (i + 1)] = BASE * power[j + i]
    BY <2>0, Powers
  <2>3. power[j] \in Nat /\ power[j + i] \in Nat
    BY <2>0, Powers
  <2>4. BASE * power[j + i] >= power[j + i]
    BY <2>3, SignatureAssumption
  <2>5. QED
    BY <2>1, <2>2, <2>3, <2>4, SignatureAssumption
<1> HIDE DEF S
<1>3. k - j \in 0..(k - j)
  BY SignatureAssumption
<1>4. k - j \in S
  BY <1>1, <1>2, <1>3, Ascend
<1>5. QED
  BY <1>4, SignatureAssumption DEF S

(* One digit more: the quotient by a power is the next digit after the     *)
(* quotient by the next power.                                             *)
LEMMA Digit ==
    ASSUME NEW n \in Nat, NEW k \in 0..WIDTH
    PROVE  /\ n \div power[k] \in Nat
           /\ n \div power[k] = (n \div power[k + 1]) * BASE + ((n \div power[k]) % BASE)
<1>1. power[k] \in Nat \ {0} /\ power[k + 1] = BASE * power[k]
  BY Powers, SignatureAssumption
<1>2. n \div power[k] \in Nat
  BY <1>1, Divided
<1>3. n \div power[k + 1] = (n \div power[k]) \div BASE
  BY <1>1, DividedTwice, SignatureAssumption
<1>4. QED
  BY <1>2, <1>3, Divided, SignatureAssumption

(* So many bytes are asked for, so many there are.                         *)
LEMMA BytesLength ==
    ASSUME NEW n \in Nat, NEW w \in 1..(WIDTH + 1)
    PROVE  /\ Len(bytes(n, w)) = w /\ DOMAIN bytes(n, w) = 1..w
           /\ bytes(n, w) \in Seq(Nat)
<1>1. \A i \in 1..w : (n \div power[w - i]) % BASE \in Nat
  <2> SUFFICES ASSUME NEW i \in 1..w
               PROVE  (n \div power[w - i]) % BASE \in Nat
    OBVIOUS
  <2>1. w - i \in 0..WIDTH
    BY SignatureAssumption
  <2>2. n \div power[w - i] \in Nat
    BY <2>1, Digit
  <2>3. BASE \in Nat \ {0}
    BY SignatureAssumption
  <2>4. \A q \in Nat : q % BASE \in Nat
    BY <2>3, Divided
  <2>5. QED
    BY <2>2, <2>4
<1>2. bytes(n, w) \in [1..w -> Nat]
  BY <1>1 DEF bytes
<1>3. w \in Nat
  BY SignatureAssumption
<1>4. QED
  BY <1>2, <1>3

(* What defines the number so far, byte by byte.                           *)
Upto(f, b) == f = [k \in 0..Len(b) |-> IF k = 0 THEN 0 ELSE f[k - 1] * BASE + b[k]]

(* Read back, the bytes of a number that fits are that number.             *)
LEMMA NumberOfBytes ==
    ASSUME NEW w \in 1..(WIDTH + 1), NEW n \in Nat, n < power[w]
    PROVE  number(bytes(n, w)) = n
<1> DEFINE b == bytes(n, w)
           f == [k \in 0..w |-> n \div power[w - k]]
<1>1. Len(b) = w /\ \A k \in 1..w : b[k] = (n \div power[w - k]) % BASE
  BY BytesLength DEF bytes
<1> HIDE DEF b
<1>2. \A k \in 0..w : w - k \in 0..(WIDTH + 1)
  BY SignatureAssumption
<1>3. f[0] = 0
  <2>1. power[w] \in Nat \ {0}
    BY <1>2, Powers, SignatureAssumption
  <2>2. n = 0 * power[w] + n /\ n \in 0..(power[w] - 1)
    BY <2>1
  <2>3. n \div power[w] = 0
    BY <2>1, <2>2, DividedOnce
  <2>4. w - 0 = w /\ 0 \in 0..w
    BY SignatureAssumption
  <2>5. QED
    BY <2>3, <2>4
<1>4. ASSUME NEW k \in 1..w
      PROVE  f[k] = f[k - 1] * BASE + b[k]
  <2>1. w - k \in 0..WIDTH /\ (w - k) + 1 = w - (k - 1) /\ k - 1 \in 0..w /\ k \in 0..w
    BY SignatureAssumption
  <2>2. n \div power[w - k] = (n \div power[w - (k - 1)]) * BASE + ((n \div power[w - k]) % BASE)
    BY <2>1, Digit
  <2>3. QED
    BY <1>1, <2>1, <2>2
<1>5. f[w] = n
  <2>1. f[w] = n \div power[0]
    BY SignatureAssumption
  <2>2. n \div 1 = n
    OBVIOUS
  <2>3. QED
    BY <2>1, <2>2, Powers
<1>6. Upto(f, b)
  <2>1. f = [k \in 0..w |-> f[k]]
    OBVIOUS
  <2> HIDE DEF f
  <2>2. \A k \in 0..w : f[k] = IF k = 0 THEN 0 ELSE f[k - 1] * BASE + b[k]
    BY <1>3, <1>4, SignatureAssumption
  <2>3. QED
    BY <1>1, <2>1, <2>2 DEF Upto
<1> HIDE DEF f
<1>7. ASSUME NEW g, Upto(g, b)
      PROVE  g[w] = n
  <2> DEFINE S == {k \in 0..w : g[k] = f[k]}
  <2>1. 0 \in S
    BY <1>1, <1>6, <1>7, SignatureAssumption DEF Upto
  <2>2. ASSUME NEW k \in 0..(w - 1), k \in S
        PROVE  k + 1 \in S
    <3>1. k + 1 \in 0..w /\ k + 1 # 0 /\ (k + 1) - 1 = k
      BY SignatureAssumption
    <3>2. g[k + 1] = g[k] * BASE + b[k + 1] /\ f[k + 1] = f[k] * BASE + b[k + 1]
      BY <1>1, <1>6, <1>7, <3>1 DEF Upto
    <3>3. QED
      BY <2>2, <3>1, <3>2
  <2> HIDE DEF S
  <2>3. w \in S
    BY <2>1, <2>2, Ascend, SignatureAssumption
  <2>4. QED
    BY <1>5, <2>3 DEF S
<1>8. QED
  <2> DEFINE upto[k \in 0..Len(b)] == IF k = 0 THEN 0 ELSE upto[k - 1] * BASE + b[k]
  <2>1. number(b) = upto[Len(b)]
    BY DEF number
  <2>2. Upto(upto, b)
    BY <1>6 DEF Upto
  <2>3. QED
    BY <1>1, <1>7, <2>1, <2>2 DEF b

(* DER writes a number in bytes enough for it, at most one more than full  *)
(* width, and pad32 makes that its bytes in full width.                    *)
LEMMA DerIs ==
    ASSUME NEW n \in Nat, n < power[WIDTH]
    PROVE  \E w \in 1..(WIDTH + 1) : der(n) = bytes(n, w) /\ n < power[w]
<1> DEFINE fits(w) == 2 * n < power[w]
           enough == {w \in 1..(WIDTH + 1) : fits(w)}
           least(w) == fits(w) /\ \A v \in 1..(w - 1) : ~fits(v)
<1>1. WIDTH + 1 \in enough
  <2>1. power[WIDTH + 1] = BASE * power[WIDTH] /\ power[WIDTH] \in Nat
    BY Powers, SignatureAssumption
  <2>2. BASE * power[WIDTH] >= 2 * power[WIDTH]
    BY <2>1, SignatureAssumption
  <2>3. QED
    BY <2>1, <2>2, SignatureAssumption
<1>2. enough \in SUBSET Nat
  BY SignatureAssumption
<1>3. PICK m \in enough : \A w \in enough : m <= w
  <2> HIDE DEF enough
  <2>1. QED
    BY <1>1, <1>2, SmallestOf
<1>4. m \in 1..(WIDTH + 1) /\ least(m)
  <2>1. ASSUME NEW v \in 1..(m - 1) PROVE ~fits(v)
    <3>1. v \in 1..(WIDTH + 1) /\ ~(m <= v)
      BY <1>2, SignatureAssumption
    <3>2. QED
      BY <1>3, <3>1
  <2>2. QED
    BY <2>1
<1> DEFINE w == CHOOSE w \in 1..(WIDTH + 1) : least(w)
<1>5. w \in 1..(WIDTH + 1) /\ least(w)
  <2> HIDE DEF least
  <2>1. QED
    BY <1>4
<1>6. der(n) = bytes(n, w)
  BY DEF der
<1> HIDE DEF w
<1>7. power[w] \in Nat
  BY <1>5, Powers, SignatureAssumption
<1>8. QED
  BY <1>5, <1>6, <1>7

LEMMA Padded ==
    ASSUME NEW n \in Nat, n < power[WIDTH], NEW w \in 1..(WIDTH + 1), n < power[w]
    PROVE  pad32(bytes(n, w)) = bytes(n, WIDTH)
<1> DEFINE b == bytes(n, w)
           digit(k) == (n \div power[k]) % BASE
<1>1. /\ Len(b) = w /\ b \in Seq(Nat)
      /\ \A i \in 1..w : b[i] = digit(w - i)
  BY BytesLength DEF bytes
<1>2. bytes(n, WIDTH) = [i \in 1..WIDTH |-> digit(WIDTH - i)]
  BY DEF bytes
<1>3. ASSUME NEW k \in 0..WIDTH, n < power[k]
      PROVE  digit(k) = 0
  <2>1. power[k] \in Nat \ {0}
    BY Powers, SignatureAssumption
  <2>2. n = 0 * power[k] + n /\ n \in 0..(power[k] - 1)
    BY <1>3, <2>1
  <2>3. n \div power[k] = 0
    BY <2>1, <2>2, DividedOnce
  <2>4. 0 % BASE = 0
    BY SignatureAssumption
  <2>5. QED
    BY <2>3, <2>4
<1> HIDE DEF b, digit
<1> DEFINE trimmed == IF Len(b) > WIDTH /\ b[1] = 0 THEN Tail(b) ELSE b
           missing == WIDTH - Len(trimmed)
<1>4. pad32(b) = [i \in 1..WIDTH |-> IF i > missing THEN trimmed[i - missing] ELSE 0]
  BY DEF pad32
<1>5. CASE w = WIDTH + 1
  <2>1. b[1] = 0
    <3>1. 1 \in 1..w /\ w - 1 = WIDTH /\ WIDTH \in 0..WIDTH
      BY <1>5, SignatureAssumption
    <3>2. QED
      BY <1>1, <1>3, <3>1
  <2>2. trimmed = Tail(b)
    BY <1>1, <1>5, <2>1, SignatureAssumption
  <2>3. Len(trimmed) = WIDTH /\ missing = 0
    BY <1>1, <1>5, <2>2, SignatureAssumption
  <2>4. ASSUME NEW i \in 1..WIDTH
        PROVE  trimmed[i - missing] = digit(WIDTH - i)
    <3>1. i + 1 \in 1..w /\ w - (i + 1) = WIDTH - i
      BY <1>5, SignatureAssumption
    <3>2. Tail(b)[i] = b[i + 1]
      BY <1>1, <1>5, SignatureAssumption
    <3>3. QED
      BY <1>1, <2>2, <2>3, <3>1, <3>2
  <2>5. \A i \in 1..WIDTH : i > missing
    BY <2>3
  <2> HIDE DEF missing, trimmed
  <2>6. QED
    BY <1>2, <1>4, <2>4, <2>5 DEF b
<1>6. CASE w \in 1..WIDTH
  <2>1. trimmed = b /\ missing = WIDTH - w
    BY <1>1, <1>6, SignatureAssumption
  <2>2. ASSUME NEW i \in 1..WIDTH, i > missing
        PROVE  trimmed[i - missing] = digit(WIDTH - i)
    <3>1. i - missing \in 1..w /\ w - (i - missing) = WIDTH - i
      BY <2>1, <2>2, <1>6, SignatureAssumption
    <3>2. QED
      BY <1>1, <2>1, <3>1
  <2>3. ASSUME NEW i \in 1..WIDTH, ~(i > missing)
        PROVE  digit(WIDTH - i) = 0
    <3>1. WIDTH - i \in w..(WIDTH + 1) /\ WIDTH - i \in 0..WIDTH /\ w \in 0..(WIDTH + 1)
      BY <2>1, <2>3, <1>6, SignatureAssumption
    <3>2. power[w] <= power[WIDTH - i]
      BY <3>1, PowersGrow
    <3>3. power[w] \in Nat /\ power[WIDTH - i] \in Nat
      BY <3>1, Powers, SignatureAssumption
    <3>4. n < power[WIDTH - i]
      BY <3>2, <3>3
    <3>5. QED
      BY <1>3, <3>1, <3>4
  <2> HIDE DEF missing, trimmed
  <2>4. QED
    BY <1>2, <1>4, <2>2, <2>3 DEF b
<1>7. QED
  BY <1>5, <1>6, SignatureAssumption

(* Whatever zeros they lead with, numbers below the order arrive as their  *)
(* bytes in full width, s folded to the lower half.                        *)
LEMMA RawIs ==
    ASSUME NEW r \in 1..(CURVE_ORDER - 1), NEW s \in 1..(CURVE_ORDER - 1)
    PROVE  derToRawSignature([r |-> der(r), s |-> der(s)])
             = bytes(r, WIDTH) \o bytes(IF s <= HALF_ORDER THEN s ELSE CURVE_ORDER - s, WIDTH)
<1>1. /\ r \in Nat /\ r < power[WIDTH] /\ s \in Nat /\ s < power[WIDTH]
      /\ CURVE_ORDER - s \in Nat /\ CURVE_ORDER - s < power[WIDTH]
      /\ WIDTH \in 1..(WIDTH + 1)
  <2>1. power[WIDTH] \in Nat /\ CURVE_ORDER \in Nat /\ CURVE_ORDER <= power[WIDTH]
    BY Powers, SignatureAssumption
  <2>2. QED
    BY <2>1, SignatureAssumption
<1>2. pad32(der(r)) = bytes(r, WIDTH) /\ pad32(der(s)) = bytes(s, WIDTH)
  BY <1>1, DerIs, Padded
<1>3. number(der(s)) = s
  BY <1>1, DerIs, NumberOfBytes
<1>4. pad32(bytes(CURVE_ORDER - s, WIDTH)) = bytes(CURVE_ORDER - s, WIDTH)
  BY <1>1, Padded
<1>5. pad32(normalizeS(der(s)))
        = bytes(IF s <= HALF_ORDER THEN s ELSE CURVE_ORDER - s, WIDTH)
  BY <1>2, <1>3, <1>4 DEF normalizeS
<1>6. QED
  BY <1>2, <1>5 DEF derToRawSignature

(* So the chain reads back r, and s or its complement, the lower one.      *)
LEMMA RawVerifies ==
    ASSUME NEW r \in 1..(CURVE_ORDER - 1), NEW s \in 1..(CURVE_ORDER - 1)
    PROVE  verifies(derToRawSignature([r |-> der(r), s |-> der(s)]), r, s)
<1> DEFINE low == IF s <= HALF_ORDER THEN s ELSE CURVE_ORDER - s
           first == bytes(r, WIDTH)
           second == bytes(low, WIDTH)
           raw == first \o second
<1>1. /\ CURVE_ORDER \in Nat /\ power[WIDTH] \in Nat /\ CURVE_ORDER <= power[WIDTH]
      /\ WIDTH \in Nat \ {0} /\ WIDTH \in 1..(WIDTH + 1)
  BY Powers, SignatureAssumption
<1>2. /\ HALF_ORDER \in Nat
      /\ CURVE_ORDER = 2 * HALF_ORDER \/ CURVE_ORDER = 2 * HALF_ORDER + 1
  <2>1. CURVE_ORDER % 2 \in 0..1 /\ CURVE_ORDER = HALF_ORDER * 2 + (CURVE_ORDER % 2)
    BY <1>1, Divided DEF HALF_ORDER
  <2>2. HALF_ORDER \in Nat
    BY <1>1, Divided DEF HALF_ORDER
  <2>3. QED
    BY <2>1, <2>2
<1>3. low \in Nat /\ low < power[WIDTH] /\ low <= HALF_ORDER /\ low \in {s, CURVE_ORDER - s}
  BY <1>1, <1>2
<1>4. r \in Nat /\ r < power[WIDTH]
  BY <1>1
<1> HIDE DEF low
<1>5. /\ first \in Seq(Nat) /\ Len(first) = WIDTH
      /\ second \in Seq(Nat) /\ Len(second) = WIDTH
  BY <1>1, <1>3, <1>4, BytesLength
<1>6. number(first) = r /\ number(second) = low
  BY <1>1, <1>3, <1>4, NumberOfBytes
<1> HIDE DEF first, second
<1>7. Len(raw) = 2 * WIDTH /\ raw \in Seq(Nat)
  BY <1>1, <1>5
<1>8. SubSeq(raw, 1, WIDTH) = first
  BY <1>1, <1>5, <1>7
<1>9. SubSeq(raw, WIDTH + 1, 2 * WIDTH) = second
  BY <1>1, <1>5, <1>7
<1>10. derToRawSignature([r |-> der(r), s |-> der(s)]) = raw
  BY RawIs DEF first, second, low
<1> HIDE DEF raw
<1>11. QED
  BY <1>3, <1>6, <1>7, <1>8, <1>9, <1>10 DEF verifies

(* What is sent carries the passkey's own answer.                          *)
SignaturesAreAnswers ==
    \A tx \in txs : tx.signature = raw_signature[tx.by.of.serial]

LEMMA SignaturesNext ==
    IInv /\ SignaturesAreAnswers /\ [Next]_vars => SignaturesAreAnswers'
<1> SUFFICES ASSUME IInv, SignaturesAreAnswers, [Next]_vars PROVE SignaturesAreAnswers'
  OBVIOUS
<1>1. CASE UNCHANGED txs
  BY <1>1 DEF SignaturesAreAnswers, raw_signature, der, derToRawSignature
<1>2. ASSUME NEW r \in Requests, send(r)
      PROVE  SignaturesAreAnswers'
  <2>1. transaction(r).signature = raw_signature[transaction(r).by.of.serial]
    BY DEF transaction
  <2>2. txs' \subseteq txs \cup {transaction(r)}
    BY <1>2 DEF send
  <2>3. QED
    BY <2>1, <2>2 DEF SignaturesAreAnswers
<1>3. ASSUME NEW tx \in txs, Land(tx)
      PROVE  SignaturesAreAnswers'
  <2>1. PICK outcome \in {"success", "failed"} :
           txs' = (txs \ {tx}) \cup {[tx EXCEPT !.status = outcome]}
    BY <1>3 DEF Land
  <2>2. tx \in Transactions
    BY DEF IInv, Shape
  <2>3. /\ [tx EXCEPT !.status = outcome].signature = tx.signature
        /\ [tx EXCEPT !.status = outcome].by = tx.by
    BY <2>2 DEF Transactions
  <2>4. QED
    BY <2>1, <2>3 DEF SignaturesAreAnswers
<1>4. QED
  BY <1>1, <1>2, <1>3
     DEF Next, prepare, sign, dismiss, repeat, Handle, submit, poll, ask, answer, store,
         recycle, Tick, vars, chain_vars

(* Whatever zeros its numbers lead with and whichever half of the curve s  *)
(* is on, for bytes and a curve of any size: what is sent with an assertion*)
(* is a signature the chain takes for the one the passkey made.            *)
THEOREM SignaturesReach == Spec => []SignaturesSurvive
<1>1. Init => SignaturesAreAnswers
  BY DEF Init, SignaturesAreAnswers
<1>2. IInv /\ SignaturesAreAnswers => SignaturesSurvive
  <2> SUFFICES ASSUME IInv, SignaturesAreAnswers, NEW tx \in txs
               PROVE  verifies(tx.signature, SignatureOf[tx.by.of.serial].r,
                                             SignatureOf[tx.by.of.serial].s)
    BY DEF SignaturesSurvive
  <2> DEFINE n == tx.by.of.serial
             numbers == SignatureOf[n]
  <2>1. n \in Serials
    BY DEF IInv, Shape, Transactions, Assertions, Calls
  <2>2. numbers.r \in 1..(CURVE_ORDER - 1) /\ numbers.s \in 1..(CURVE_ORDER - 1)
    BY <2>1, ConsoleAssumption
  <2>3. tx.signature = derToRawSignature([r |-> der(numbers.r), s |-> der(numbers.s)])
    BY <2>1 DEF SignaturesAreAnswers, raw_signature
  <2>4. QED
    BY <2>2, <2>3, RawVerifies
<1>3. QED
  BY <1>1, <1>2, InductiveInvariant, SignaturesNext, PTL DEF Spec
-----------------------------------------------------------------------------
(* The page.  The number of a refresh is that of its question about the    *)
(* account; an action's own refresh is told by its id.                     *)

PanelSteps == {"config", "is_frozen", "get_agent_signer", "is_merchant", "get_velocity_config",
               "account", "answered", "transactions", "merchant"}

IsRefresh(r, ids, numbers) ==
    /\ {"id", "step", "asks", "number", "reading"} \subseteq DOMAIN r
    /\ r.step \in PanelSteps /\ r.id \in 1..ids /\ r.number \in 0..numbers

(* A refresh that has asked after number n; and whose answer was shown.    *)
AskedAfter(r, n, s) ==
    /\ r.step # "config" => r.number > n
    /\ r.step \in {"transactions", "merchant"} => s > n

PageInv ==
    /\ begun \in Nat /\ asked \in Nat /\ shown \in Nat
    /\ \A r \in refreshes : IsRefresh(r, begun, asked)
    /\ loading.step \in {"idle", "passkey", "refresh"}
    /\ loading.step = "refresh" =>
          /\ loading.id \in 1..begun /\ loading.after \in 0..asked
          /\ \A r \in refreshes : r.id = loading.id => AskedAfter(r, loading.after, shown)
    /\ loading.step = "idle" /\ loading.result = "confirmed" => loading.after \in Nat
    /\ ConfirmedIsShown

LEMMA PageInit == PanelInit => PageInv /\ NewestIsOfTheChoice
  BY DEF PanelInit, PageInv, IsRefresh, PanelSteps, refresh, idle, ConfirmedIsShown,
         NewestIsOfTheChoice

(* One more refresh, whatever is under way.                                *)
LEMMA BeginKeeps ==
  ASSUME PageInv, begin_refresh, UNCHANGED <<asked, shown>>,
         \/ UNCHANGED loading
         \/ loading' = [step |-> "refresh", id |-> begun + 1, after |-> asked]
  PROVE  PageInv' /\ \E r \in refreshes' : r.step = "config"
<1>1. begun' = begun + 1 /\ refreshes' = refreshes \cup {refresh(begun + 1)}
  BY DEF begin_refresh
<1>2. /\ refresh(begun + 1).step = "config" /\ refresh(begun + 1).id = begun + 1
      /\ IsRefresh(refresh(begun + 1), begun', asked')
  BY <1>1 DEF refresh, IsRefresh, PanelSteps, PageInv
<1>3. \A r \in refreshes : IsRefresh(r, begun', asked')
  BY <1>1 DEF IsRefresh, PageInv
<1>4. CASE UNCHANGED loading
  BY <1>1, <1>2, <1>3, <1>4 DEF PageInv, AskedAfter, ConfirmedIsShown
<1>5. CASE loading' = [step |-> "refresh", id |-> begun + 1, after |-> asked]
  <2>1. \A r \in refreshes : r.id # begun + 1
    BY DEF PageInv, IsRefresh
  <2>2. QED
    BY <1>1, <1>2, <1>3, <1>5, <2>1 DEF PageInv, AskedAfter, ConfirmedIsShown
<1>6. QED
  BY <1>1, <1>2, <1>4, <1>5

(* A refresh goes one step on.                                             *)
LEMMA MovesOnKeeps ==
  ASSUME PageInv, NEW r \in refreshes, NEW s, moves_on(r, s), UNCHANGED loading,
         asked' \in Nat, asked' >= asked, shown' \in Nat, shown' >= shown,
         s.id = r.id, s.step # "config", IsRefresh(s, begun', asked'),
         (s.number = r.number /\ r.step # "config") \/ s.number > asked,
         s.step \in {"transactions", "merchant"} =>
            r.step \in {"transactions", "merchant"} \/ shown' >= s.number
  PROVE  PageInv'
<1>1. refreshes' = (refreshes \ {r}) \cup {s} /\ begun' = begun
  BY DEF moves_on
<1>2. \A q \in refreshes' : IsRefresh(q, begun', asked')
  BY <1>1 DEF IsRefresh, PageInv
<1>3. ASSUME loading.step = "refresh"
      PROVE  /\ loading.id \in 1..begun /\ loading.after \in 0..asked'
             /\ \A q \in refreshes' : q.id = loading.id => AskedAfter(q, loading.after, shown')
  <2>1. loading.id \in 1..begun /\ loading.after \in 0..asked
    BY <1>3 DEF PageInv
  <2>2. \A q \in refreshes : q.id = loading.id => AskedAfter(q, loading.after, shown')
    BY <1>3, <2>1 DEF PageInv, AskedAfter
  <2>3. s.id = loading.id => AskedAfter(s, loading.after, shown')
    <3> SUFFICES ASSUME s.id = loading.id PROVE AskedAfter(s, loading.after, shown')
      OBVIOUS
    <3>1. AskedAfter(r, loading.after, shown)
      BY <1>3 DEF PageInv
    <3>2. s.number \in Nat /\ r.number \in Nat /\ loading.after \in Nat
      BY <2>1 DEF PageInv, IsRefresh
    <3>3. QED
      BY <2>1, <3>1, <3>2 DEF PageInv, AskedAfter
  <2>4. QED
    BY <1>1, <2>1, <2>2, <2>3 DEF PageInv
<1>4. ConfirmedIsShown'
  BY <1>1 DEF PageInv, ConfirmedIsShown
<1>5. QED
  BY <1>1, <1>2, <1>3, <1>4 DEF PageInv

(* The steps of a refresh, except its last.                                *)
LEMMA RefreshKeeps ==
  ASSUME PageInv, NEW r \in refreshes,
         fetchConfig(r) \/ readPolicyState(r) \/ fetchPolicyState(r) \/ fetchTransactions(r)
  PROVE  PageInv'
<1>1. IsRefresh(r, begun, asked)
  BY DEF PageInv
<1>2. CASE fetchConfig(r)
  <2> DEFINE s == [r EXCEPT !.step = IF chain = "solana" THEN "account" ELSE "is_frozen",
                            !.number = asked', !.reading.of = chain]
  <2>1. moves_on(r, s) /\ asked' = asked + 1 /\ UNCHANGED <<loading, shown>>
    BY <1>2 DEF fetchConfig, press_vars
  <2>2. /\ s.id = r.id /\ s.step \in {"account", "is_frozen"} /\ s.number = asked + 1
        /\ IsRefresh(s, begun', asked')
    BY <1>1, <2>1 DEF IsRefresh, PanelSteps, PageInv, moves_on
  <2> HIDE DEF s
  <2>3. QED
    BY <2>1, <2>2, MovesOnKeeps DEF PageInv
<1>3. CASE readPolicyState(r)
  <2>1. UNCHANGED <<loading, asked, shown>>
    BY <1>3 DEF readPolicyState, press_vars, display_vars
  <2>2. ASSUME NEW step \in {"get_agent_signer", "is_merchant", "get_velocity_config",
                             "answered"},
               NEW reading, moves_on(r, [r EXCEPT !.step = step, !.reading = reading]),
               r.step \in {"is_frozen", "get_agent_signer", "is_merchant",
                           "get_velocity_config", "account"}
        PROVE  PageInv'
    <3> DEFINE s == [r EXCEPT !.step = step, !.reading = reading]
    <3>1. s.id = r.id /\ s.step = step /\ s.number = r.number /\ IsRefresh(s, begun', asked')
      BY <1>1, <2>1, <2>2 DEF IsRefresh, PanelSteps, moves_on
    <3>2. moves_on(r, s)
      BY <2>2
    <3> HIDE DEF s
    <3>3. QED
      BY <2>1, <2>2, <3>1, <3>2, MovesOnKeeps DEF PageInv
  <2>3. CASE safeContractBool(r)
    BY <2>2, <2>3 DEF safeContractBool, callContractView, arrives
  <2>4. CASE extractBytes(r)
    BY <2>2, <2>4 DEF extractBytes, callContractView, arrives
  <2>5. CASE isMerchantApproved(r)
    <3>1. PICK approved \in kept'.merchant :
             moves_on(r, [r EXCEPT !.step = "get_velocity_config",
                                   !.reading.merchantApproved = approved])
      BY <2>5 DEF isMerchantApproved
    <3>2. moves_on(r, [r EXCEPT !.step = "get_velocity_config",
                   !.reading = [r.reading EXCEPT !.merchantApproved = approved]])
      BY <3>1
    <3>3. QED
      BY <2>2, <2>5, <3>2 DEF isMerchantApproved
  <2>6. CASE readLimits(r)
    <3>1. PICK limits \in kept'.limits :
             moves_on(r, [r EXCEPT !.step = "answered", !.reading.limits = limits])
      BY <2>6 DEF readLimits
    <3>2. moves_on(r, [r EXCEPT !.step = "answered",
                   !.reading = [r.reading EXCEPT !.limits = limits]])
      BY <3>1
    <3>3. QED
      BY <2>2, <2>6, <3>2 DEF readLimits
  <2>7. CASE readSolanaPolicyState(r)
    BY <2>2, <2>7 DEF readSolanaPolicyState, callContractView, arrives
  <2>8. QED
    BY <1>3, <2>3, <2>4, <2>5, <2>6, <2>7 DEF readPolicyState
<1>4. CASE fetchPolicyState(r)
  <2> DEFINE s == [r EXCEPT !.step = "transactions", !.asks = chain]
  <2>1. /\ moves_on(r, s) /\ UNCHANGED <<loading, asked>> /\ r.step = "answered"
        /\ shown' = IF r.number > shown THEN r.number ELSE shown
    BY <1>4 DEF fetchPolicyState, press_vars
  <2>2. s.id = r.id /\ s.step = "transactions" /\ s.number = r.number /\ IsRefresh(s, begun', asked')
    BY <1>1, <2>1 DEF IsRefresh, PanelSteps, moves_on
  <2>3. shown' \in Nat /\ shown' >= shown /\ shown' >= r.number
    BY <1>1, <2>1 DEF PageInv, IsRefresh
  <2> HIDE DEF s
  <2>4. QED
    BY <2>1, <2>2, <2>3, MovesOnKeeps DEF PageInv
<1>5. CASE fetchTransactions(r)
  <2> DEFINE s == [r EXCEPT !.step = "merchant"]
  <2>1. moves_on(r, s) /\ UNCHANGED <<loading, asked, shown>> /\ r.step = "transactions"
    BY <1>5 DEF fetchTransactions, press_vars
  <2>2. s.id = r.id /\ s.step = "merchant" /\ s.number = r.number /\ IsRefresh(s, begun', asked')
    BY <1>1, <2>1 DEF IsRefresh, PanelSteps, moves_on
  <2> HIDE DEF s
  <2>3. QED
    BY <2>1, <2>2, MovesOnKeeps DEF PageInv
<1>6. QED
  BY <1>2, <1>3, <1>4, <1>5

(* The last step of a refresh, and the end of the action it was for.       *)
LEMMA LastStepKeeps ==
  ASSUME PageInv, NEW r \in refreshes, fetchMerchantInfo(r)
  PROVE  PageInv'
<1>1. /\ refreshes' = refreshes \ {r} /\ UNCHANGED <<begun, asked, shown>>
      /\ r.step = "merchant" /\ IsRefresh(r, begun, asked)
  BY DEF fetchMerchantInfo, PageInv
<1>2. CASE loading.step = "refresh" /\ loading.id = r.id
  <2>1. loading' = [step |-> "idle", result |-> "confirmed", after |-> loading.after]
    BY <1>2 DEF fetchMerchantInfo
  <2>2. shown > loading.after /\ loading.after \in Nat
    BY <1>1, <1>2 DEF PageInv, AskedAfter
  <2>3. QED
    BY <1>1, <2>1, <2>2 DEF PageInv, IsRefresh, ConfirmedIsShown
<1>3. CASE ~(loading.step = "refresh" /\ loading.id = r.id)
  <2>1. loading' = loading
    BY <1>3 DEF fetchMerchantInfo
  <2>2. QED
    BY <1>1, <2>1 DEF PageInv, IsRefresh, AskedAfter, ConfirmedIsShown
<1>4. QED
  BY <1>2, <1>3

(* What the owner and others do without a refresh.                         *)
LEMMA PressKeeps ==
  ASSUME PageInv, UNCHANGED <<refreshes, begun, asked, shown>>,
         \/ UNCHANGED loading
         \/ loading'.step = "passkey"
         \/ loading' = idle("failed")
  PROVE  PageInv'
<1>1. CASE UNCHANGED loading
  BY <1>1 DEF PageInv, IsRefresh, AskedAfter, ConfirmedIsShown
<1>2. CASE loading'.step = "passkey"
  BY <1>2 DEF PageInv, IsRefresh, AskedAfter, ConfirmedIsShown
<1>3. CASE loading' = idle("failed")
  BY <1>3 DEF PageInv, IsRefresh, AskedAfter, ConfirmedIsShown, idle
<1>4. QED
  BY <1>1, <1>2, <1>3

LEMMA PageNext == PageInv /\ [PanelNext]_panel => PageInv'
<1> SUFFICES ASSUME PageInv, [PanelNext]_panel PROVE PageInv'
  OBVIOUS
<1>1. CASE handleAuth
  BY <1>1, BeginKeeps DEF handleAuth
<1>2. CASE \E option \in Options : switchChain(option)
  BY <1>2, BeginKeeps DEF switchChain
<1>3. CASE confirm
  BY <1>3, BeginKeeps DEF confirm, display_vars
<1>4. CASE \E text \in Texts : type(text)
  BY <1>4, PressKeeps DEF type, press_vars
<1>5. CASE press
  <2>1. UNCHANGED <<refreshes, begun, asked, shown>>
    BY <1>5 DEF press, display_vars
  <2>2. ASSUME NEW action, handleAction(action) PROVE loading'.step = "passkey"
    BY <2>2 DEF handleAction, runOwnerAction
  <2>3. CASE \E which \in DOMAIN TakesTwo : arm(which)
    BY <2>1, <2>2, <2>3, PressKeeps DEF arm
  <2>4. CASE \E action \in offered : handleAction(action)
    BY <2>1, <2>2, <2>4, PressKeeps
  <2>5. QED
    BY <1>5, <2>3, <2>4 DEF press
<1>6. CASE fail
  BY <1>6, PressKeeps DEF fail, display_vars
<1>7. CASE \E c \in Options, action \in {"Halt", "Resume", "Revoke", "Remove merchant"} :
              elsewhere(c, action)
  BY <1>7, PressKeeps DEF elsewhere, display_vars, press_vars
<1>8. CASE \E r \in refreshes : \/ fetchConfig(r) \/ readPolicyState(r) \/ fetchPolicyState(r)
                                \/ fetchTransactions(r) \/ fetchMerchantInfo(r)
  BY <1>8, RefreshKeeps, LastStepKeeps
<1>9. CASE UNCHANGED panel
  BY <1>9, PressKeeps DEF panel, display_vars, press_vars
<1>10. QED
  BY <1>1, <1>2, <1>3, <1>4, <1>5, <1>6, <1>7, <1>8, <1>9 DEF PanelNext

(* A refresh that has yet to ask is asked by nobody else.                  *)
LEMMA StillToAsk ==
  ASSUME NewestIsOfTheChoice, UNCHANGED <<chain, newest>>,
         \A r \in refreshes : r.step = "config" => r \in refreshes'
  PROVE  NewestIsOfTheChoice'
  BY DEF NewestIsOfTheChoice

LEMMA ChoiceNext ==
  PageInv /\ NewestIsOfTheChoice /\ [PanelNext]_panel => NewestIsOfTheChoice'
<1> SUFFICES ASSUME PageInv, NewestIsOfTheChoice, [PanelNext]_panel
             PROVE  NewestIsOfTheChoice'
  OBVIOUS
<1>1. CASE begin_refresh
  <2>1. refresh(begun') \in refreshes' /\ refresh(begun').step = "config"
    BY <1>1 DEF begin_refresh, refresh
  <2>2. QED
    BY <2>1 DEF NewestIsOfTheChoice
<1>2. CASE UNCHANGED <<chain, newest, refreshes>>
  BY <1>2, StillToAsk
<1>3. CASE \E r \in refreshes : fetchConfig(r)
  BY <1>3 DEF fetchConfig, press_vars, NewestIsOfTheChoice
<1>4. ASSUME NEW r \in refreshes,
             \/ readPolicyState(r) \/ fetchPolicyState(r)
             \/ fetchTransactions(r) \/ fetchMerchantInfo(r)
      PROVE  NewestIsOfTheChoice'
  <2>1. UNCHANGED <<chain, newest>> /\ r.step # "config"
    BY <1>4 DEF readPolicyState, safeContractBool, extractBytes, isMerchantApproved, readLimits,
                readSolanaPolicyState, fetchPolicyState, fetchTransactions, fetchMerchantInfo,
                press_vars
  <2>2. \A q \in refreshes : q # r => q \in refreshes'
    BY <1>4 DEF readPolicyState, safeContractBool, extractBytes, isMerchantApproved, readLimits,
                readSolanaPolicyState, callContractView, arrives, moves_on,
                fetchPolicyState, fetchTransactions, fetchMerchantInfo
  <2>3. QED
    BY <2>1, <2>2, StillToAsk
<1>5. QED
  BY <1>1, <1>2, <1>3, <1>4
     DEF PanelNext, handleAuth, switchChain, confirm, type, press, fail, elsewhere, press_vars,
         panel

(* Whatever is on its way when the owner chooses a chain, and in whatever  *)
(* order the answers come, the panel asks for that chain last.             *)
THEOREM TurnsToTheChoice == PanelSpec => []NewestIsOfTheChoice
<1>1. PanelInit => PageInv /\ NewestIsOfTheChoice
  BY PageInit
<1>2. (PageInv /\ NewestIsOfTheChoice) /\ [PanelNext]_panel => (PageInv /\ NewestIsOfTheChoice)'
  BY PageNext, ChoiceNext
<1>3. QED
  BY <1>1, <1>2, PTL DEF PanelSpec

(* An action is reported as confirmed once an answer asked for after it    *)
(* was shown.                                                              *)
THEOREM ConfirmedWasShown == PanelSpec => []ConfirmedIsShown
<1>1. PanelInit => PageInv
  BY PageInit
<1>2. PageInv /\ [PanelNext]_panel => PageInv'
  BY PageNext
<1>3. PageInv => ConfirmedIsShown
  BY DEF PageInv
<1>4. QED
  BY <1>1, <1>2, <1>3, PTL DEF PanelSpec
=============================================================================
