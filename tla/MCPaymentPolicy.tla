--------------------------- MODULE MCPaymentPolicy ---------------------------
(***************************************************************************)
(* Instances of PaymentPolicy for TLC.  A challenge lives at most 2 units  *)
(* of time; the windows are 2 (the shortest is_valid accepts), 3 and 4.    *)
(***************************************************************************)
EXTENDS PaymentPolicy

CONSTANTS n1, n2, n3, m1, m2, a1, a2, usdc, other, shop, rival, me

MCNonces == {n1, n2, n3}

Signed(nonce, amount, expiry) ==
    [nonce |-> nonce, amount |-> amount, expiry |-> expiry, merchant |-> m1,
     recipient |-> shop, asset |-> usdc]

Limits(payment, count, total, window) ==
    [max_payment_amount |-> payment, max_tx_count |-> count,
     max_total_amount |-> total, window_size |-> window]

(* Challenges alive at different times; two share a nonce, and two are     *)
(* above the payment limit of the tighter configuration.                   *)
CoreChallenges ==
    {Signed(n1, 1, 3), Signed(n2, 2, 3), Signed(n1, 1, 5), Signed(n3, 2, 6), Signed(n2, 1, 6)}

(* Three payments a window of 3, at most 4 in total, so that either limit  *)
(* may fill first; tightened to a total that one payment reaches, or to one*)
(* payment a window of 4.  Accounts are also created with the second and   *)
(* the third; the last configuration is invalid.                           *)
CoreConfigs ==
    {Limits(2, 3, 4, 3), Limits(2, 2, 2, 3), Limits(1, 1, 3, 4), Limits(2, 2, 3, 1)}

TransferOf(c) ==
    [kind |-> "call", contract |-> c.asset, fn_name |-> "transfer", from |-> This,
     to |-> c.recipient, amount |-> c.amount]

(* The batches an honest agent asks for: the one transfer agreed.          *)
OneTransfer == {<<TransferOf(c)>> : c \in Challenges}
SixUnits == [t \in Tokens |-> IF t = Asset THEN 6 ELSE 0]

(* A window as short as the longest challenge, the shortest accepted.      *)
BoundaryChallenges == {Signed(n1, 1, 3), Signed(n2, 1, 3), Signed(n3, 1, 5)}
BoundaryConfigs == {Limits(1, 2, 2, 2)}

(* A window that the owner may widen once the account is in use.           *)
WidenedConfigs == {Limits(1, 1, 1, 3), Limits(1, 1, 1, 4)}

(* Challenges that each fail one check, beside two good ones; and batches  *)
(* that hide a second call, an owner action or another transfer behind an  *)
(* agreed one, or carry nothing.  The windows are 2, as long as a challenge*)
(* lives, and 3.                                                           *)
FundsChallenges ==
    LET good == Signed(n1, 1, 3)
    IN  {good, Signed(n2, 2, 3), [good EXCEPT !.merchant = m2], [good EXCEPT !.asset = other],
         [good EXCEPT !.amount = 0], [good EXCEPT !.expiry = 0], [good EXCEPT !.expiry = 9],
         [Signed(n3, 1, 3) EXCEPT !.recipient = rival], [Signed(n3, 1, 3) EXCEPT !.recipient = me]}
FundsConfigs == {Limits(2, 2, 3, 3), Limits(2, 2, 3, 2)}

HiddenCall(fn_name) ==
    [kind |-> "call", contract |-> me, fn_name |-> fn_name, from |-> me, to |-> shop,
     amount |-> 1]

DishonestBatches ==
    LET agreed == TransferOf(Signed(n1, 1, 3))
        second == TransferOf(Signed(n2, 2, 3))
        stray  == [agreed EXCEPT !.to = rival]
        create == [agreed EXCEPT !.kind = "create"]
    IN  OneTransfer \cup {<< >>, <<agreed, second>>, <<agreed, agreed>>, <<stray>>, <<create>>,
                          <<agreed, HiddenCall("restore_payments")>>,
                          <<HiddenCall("recover_funds")>>,
                          <<[agreed EXCEPT !.from = shop]>>, <<[agreed EXCEPT !.amount = 3]>>}

(* Too little for the two good payments, so that the transfer may fail.    *)
TwoEach == [t \in Tokens |-> 2]
=============================================================================
