--------------------------- MODULE MCOwnerConsole ---------------------------
(***************************************************************************)
(* An instance of OwnerConsole for TLC.  Bytes have four values and a      *)
(* component two bytes; the order is 13.                                   *)
(*                                                                         *)
(* With it, the panel's page.  The two share no state, and one is explored *)
(* while the other is new.  The page opens on Stellar.  On Solana payments *)
(* are halted and the limits are others; an amount has half as many units. *)
(*                                                                         *)
(* The first action approves the merchant, whom nobody has approved yet.   *)
(*                                                                         *)
(* Of the two instances of the backend, both carry out owner actions and   *)
(* one is asked for the account's state: their caches share nothing.       *)
(***************************************************************************)
EXTENDS OwnerConsole, ControlPanel

CONSTANTS tab, again, reader, one, other

(* Signatures with a leading zero and an upper half, and with short        *)
(* numbers.                                                                *)
MCSignatureOf == [serial \in Serials |-> IF serial = 1 THEN [r |-> 9, s |-> 12]
                                         ELSE [r |-> 1, s |-> 10]]

MCActions == [field : {"merchant"}, value : BOOLEAN]

MCLimits(payment, window) ==
    [maxPaymentAmount |-> payment, maxTxCount |-> 2, maxTotalAmount |-> 4,
     windowSize |-> window]

MCFirstAccounts ==
    {[c \in Options |->
         [frozen |-> (c = "solana"), agentSigner |-> TRUE, merchant |-> TRUE,
          limits |-> IF c = "stellar" THEN MCLimits(4, 2) ELSE MCLimits(1, 1)]]}

MCTexts == {[perPayment |-> 2, count |-> 2, total |-> 4]}

MCInit == Init /\ PanelInit /\ chain = "stellar"

MCNext ==
    \/ /\ PanelInit /\ Next /\ UNCHANGED panel
       /\ \A r \in Readers : reads'[r].server # other
       /\ \A t \in Tabs : request'[t].call \in Calls /\ request'[t].call.serial = 1
             => request'[t].call.value
    \/ Init /\ PanelNext /\ UNCHANGED vars

MCSpec == MCInit /\ [][MCNext]_<<vars, panel>> /\ Fairness
=============================================================================
