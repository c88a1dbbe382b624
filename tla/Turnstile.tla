------------------------------ MODULE Turnstile ------------------------------
(***************************************************************************)
(* What a merchant that sells access promises itself: every customer let   *)
(* in went in on a coin that was really paid, and no coin lets in two.     *)
(***************************************************************************)
CONSTANTS Coins, Customers, NoCoin

VARIABLES paid,   \* the coins paid, ever
          used    \* the coin each customer went in on, or NoCoin

vars == <<paid, used>>

Init == paid = {} /\ used = [c \in Customers |-> NoCoin]

Pay == \E coin \in Coins \ paid : paid' = paid \cup {coin} /\ UNCHANGED used

Admit(c) ==
    /\ used[c] = NoCoin
    /\ \E coin \in paid : /\ \A other \in Customers : used[other] # coin
                          /\ used' = [used EXCEPT ![c] = coin]
    /\ UNCHANGED paid

Next == Pay \/ \E c \in Customers : Admit(c)

Spec == Init /\ [][Next]_vars
=============================================================================
