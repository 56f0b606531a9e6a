----------------------------- MODULE SyncOutcome -----------------------------
(***************************************************************************)
(* What a full synchronisation promises whoever asked for it: it ends, and *)
(* its end is announced at most once, as a success or as a failure, and    *)
(* not at all when it was refused, its platform is gone or its worker died. *)
(***************************************************************************)
EXTENDS Naturals

CONSTANT Job      \* full synchronisations that can exist at a time

VARIABLES
  stage,          \* stage[j]: "idle", "pending" or "over"
  announced       \* announced[j]: the announcements made for j since its request

vars == <<stage, announced>>

Init ==
  /\ stage = [j \in Job |-> "idle"]
  /\ announced = [j \in Job |-> {}]

Request(j) ==
  /\ stage[j] # "pending"
  /\ stage' = [stage EXCEPT ![j] = "pending"]
  /\ announced' = [announced EXCEPT ![j] = {}]

End(j, news) ==
  /\ stage[j] = "pending"
  /\ stage' = [stage EXCEPT ![j] = "over"]
  /\ announced' = [announced EXCEPT ![j] = news]

(* The worker that served the requests js is gone: they end unannounced. *)
Lost(js) ==
  /\ \A j \in js : stage[j] = "pending"
  /\ stage' = [j \in Job |-> IF j \in js THEN "over" ELSE stage[j]]
  /\ UNCHANGED announced

Next ==
  \/ \E j \in Job : Request(j) \/ \E news \in {{}, {"completed"}, {"failed"}} : End(j, news)
  \/ \E js \in SUBSET Job : Lost(js)

Spec == Init /\ [][Next]_vars

(* Every request is answered. *)
Answered == \A j \in Job : stage[j] = "pending" ~> stage[j] = "over"
=============================================================================
