-------------------------- MODULE MCPasskeyCeremony --------------------------
(***************************************************************************)
(* An instance of PasskeyCeremony for TLC, with the rate limiter that      *)
(* stands before its routes.  The two share no state: the limiter is       *)
(* explored while no ceremony has begun, and the ceremonies while the      *)
(* limiter is new.                                                         *)
(***************************************************************************)
EXTENDS PasskeyCeremony, RateLimiter

CONSTANTS laptop, phone

MCInit == Init /\ LimiterInit

MCNext ==
    \/ log = << >> /\ clock = 0 /\ Next /\ UNCHANGED limiter
    \/ (\A t \in Tabs : at[t] = "idle") /\ LimiterNext /\ UNCHANGED vars

MCSpec == MCInit /\ [][MCNext]_<<vars, limiter>> /\ Fairness
=============================================================================
