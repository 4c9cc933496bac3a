---------------------------- MODULE OutboxPromise ----------------------------
(***************************************************************************)
(* What the transactional outbox promises about one side effect: it is     *)
(* decided once, happens at most once, is recorded as sent only if it      *)
(* happened, and is given up or sent in the end, unless it is cancelled.   *)
(* A dead item can be given back, and its effect is still not repeated.    *)
(***************************************************************************)
EXTENDS Naturals

VARIABLES
    item,    \* "none", "open", "sent", "dead" or "cancelled"
    effects  \* how often the effect happened

promiseVars == <<item, effects>>

Init == item = "none" /\ effects = 0

Decide == item = "none" /\ item' = "open" /\ UNCHANGED effects

\* A delivery under way when its item is cancelled may still perform the effect.
Perform == item \in {"open", "cancelled"} /\ effects = 0 /\ effects' = 1 /\ UNCHANGED item

Confirm == item = "open" /\ effects = 1 /\ item' = "sent" /\ UNCHANGED effects

GiveUp == item = "open" /\ item' = "dead" /\ UNCHANGED effects

Cancel == item = "open" /\ item' = "cancelled" /\ UNCHANGED effects

GiveBack == item = "dead" /\ item' = "open" /\ UNCHANGED effects

Next == Decide \/ Perform \/ Confirm \/ GiveUp \/ GiveBack \/ Cancel

Safe == Init /\ [][Next]_promiseVars

Spec == Safe /\ WF_promiseVars(Confirm \/ GiveUp)

=============================================================================
