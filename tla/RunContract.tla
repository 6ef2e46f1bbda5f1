---------------------------- MODULE RunContract ----------------------------
(***************************************************************************)
(* What the control API promises a manager that polls /control/state: a    *)
(* run state that changes only through "switching", an epoch that counts   *)
(* the changes that landed, and a change that was given up leaving the     *)
(* state it started from and no epoch behind.                              *)
(***************************************************************************)
EXTENDS Naturals

VARIABLES state,  \* what /control/state shows
          epoch,  \* how many changes have landed
          from    \* the run state the last change started in

cvars == <<state, epoch, from>>

Settled == {"running", "paused", "stopped"}

Init == state = "running" /\ epoch = 0 /\ from = "running"

Begin ==
    /\ state \in Settled
    /\ state' = "switching" /\ from' = state /\ epoch' = epoch

(* A change that finds every worker where it wants it already. *)
Instant ==
    /\ state \in Settled
    /\ state' \in Settled \ {state} /\ from' = state /\ epoch' = epoch + 1

Land ==
    /\ state = "switching"
    /\ state' \in Settled /\ epoch' = epoch + 1 /\ from' = from

Abandon ==
    /\ state = "switching"
    /\ state' = from /\ epoch' = epoch /\ from' = from

(* The request that finds the previous change overdue ends it and begins.   *)
LandThenBegin ==
    /\ state = "switching"
    /\ state' = "switching" /\ epoch' = epoch + 1 /\ from' \in Settled

Next == Begin \/ Instant \/ Land \/ Abandon \/ LandThenBegin

Safety == Init /\ [][Next]_cvars
Spec   == Safety /\ WF_cvars(Land \/ Abandon)
=============================================================================
