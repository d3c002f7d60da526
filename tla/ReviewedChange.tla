---------------------------- MODULE ReviewedChange ----------------------------
(***************************************************************************)
(* What governed execution promises of a repository change, without its    *)
(* files, processes and retries: a change reaches the main checkout only   *)
(* while it is unsettled and after its plan and then its landing were      *)
(* approved, each decided once; it is settled once, and settled as         *)
(* succeeded only if it had been in the checkout.                          *)
(***************************************************************************)
CONSTANT Changes

VARIABLES plan,      \* the verdict on the frozen plan
          landing,   \* the verdict on the landing diff
          inTree,    \* the changes that are in the main checkout
          landed,    \* those that have been there
          settled    \* the outcome

vars == <<plan, landing, inTree, landed, settled>>

Verdicts == {"approved", "rejected", "expired"}
Outcomes == {"succeeded", "failed", "cancelled"}

Init ==
    /\ plan    = [c \in Changes |-> "none"]
    /\ landing = [c \in Changes |-> "none"]
    /\ inTree  = {}
    /\ landed  = {}
    /\ settled = [c \in Changes |-> "none"]

DecidePlan(c, v) ==
    /\ plan[c] = "none" /\ settled[c] = "none"
    /\ plan' = [plan EXCEPT ![c] = v]
    /\ UNCHANGED <<landing, inTree, landed, settled>>

DecideLanding(c, v) ==
    /\ plan[c] = "approved" /\ landing[c] = "none" /\ settled[c] = "none"
    /\ landing' = [landing EXCEPT ![c] = v]
    /\ UNCHANGED <<plan, inTree, landed, settled>>

Apply(c) ==
    /\ plan[c] = "approved" /\ landing[c] = "approved"
    /\ settled[c] = "none" /\ c \notin inTree
    /\ inTree' = inTree \cup {c}
    /\ landed' = landed \cup {c}
    /\ UNCHANGED <<plan, landing, settled>>

\* Rolled back, or taken out or committed by the checkout's operator.
Remove(S) ==
    /\ inTree' = inTree \ S
    /\ UNCHANGED <<plan, landing, landed, settled>>

Settle(c, outcome) ==
    /\ settled[c] = "none"
    /\ outcome = "succeeded" => c \in landed
    /\ settled' = [settled EXCEPT ![c] = outcome]
    /\ UNCHANGED <<plan, landing, inTree, landed>>

Next ==
    \/ \E c \in Changes :
          \/ \E v \in Verdicts : DecidePlan(c, v) \/ DecideLanding(c, v)
          \/ Apply(c)
          \/ \E o \in Outcomes : Settle(c, o)
    \/ \E S \in SUBSET Changes : Remove(S)

Spec == Init /\ [][Next]_vars

=============================================================================
