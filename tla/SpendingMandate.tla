--------------------------- MODULE SpendingMandate ---------------------------
(***************************************************************************)
(* What the policy account promises its owner, without slots, keys or      *)
(* allowlists: every challenge is paid at most once and while it lives,    *)
(* and no window of the length agreed at creation ever holds more payments,*)
(* or a larger total, than agreed.  A payment that reaches either limit    *)
(* stops the account, and a stopped account pays nothing.                  *)
(***************************************************************************)
EXTENDS Integers, Sequences, FiniteSets, FiniteSetsExt

CONSTANTS Challenges, Configs

VARIABLES clock,    \* the time payments are made at
          mandate,  \* the limits agreed at creation
          spent,    \* the payments made: challenge and time
          stopped

vars == <<clock, mandate, spent, stopped>>

(* The payments in the mandate's window up to the last one.                *)
LastWindow(s) ==
    {j \in DOMAIN s : s[Len(s)].at - s[j].at < mandate.window_size}

LastCount(s) == Cardinality(LastWindow(s))

LastTotal(s) == LET amount_of(j) == s[j].challenge.amount
                IN  MapThenSumSet(amount_of, LastWindow(s))

Init ==
    /\ clock = 1
    /\ mandate \in Configs
    /\ spent = << >>
    /\ stopped = FALSE

Pay(c) ==
    LET s == Append(spent, [challenge |-> c, at |-> clock])
    IN  /\ ~stopped
        /\ \A i \in DOMAIN spent : spent[i].challenge # c
        /\ clock <= c.expiry
        /\ c.amount \in 1..mandate.max_payment_amount
        /\ LastCount(s) <= mandate.max_tx_count
        /\ LastTotal(s) <= mandate.max_total_amount
        /\ spent' = s
        /\ stopped' \in BOOLEAN
        /\ \/ LastCount(s) = mandate.max_tx_count
           \/ LastTotal(s) = mandate.max_total_amount
           => stopped'
        /\ UNCHANGED <<clock, mandate>>

(* The owner stops and resumes payments at will.                           *)
Decide ==
    /\ stopped' \in BOOLEAN
    /\ UNCHANGED <<clock, mandate, spent>>

Wait ==
    /\ clock' = clock + 1
    /\ UNCHANGED <<mandate, spent, stopped>>

Next == Decide \/ Wait \/ \E c \in Challenges : Pay(c)

Spec == Init /\ [][Next]_vars
=============================================================================
