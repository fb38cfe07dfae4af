--------------------------- MODULE AppDeployments ---------------------------
(***************************************************************************)
(* Which deployment an update is about: what the drivers that update an app *)
(* (internal/drivers/deploy.go and app_platform.go) make of its deployment  *)
(* slots, of the PreviousDeploymentID of a deployment and of its phase.     *)
(***************************************************************************)
EXTENDS AppPlatform

CONSTANT PrevRules   \* what the service calls a deployment's previous one

ASSUME PrevRulesAssumption == PrevRules \subseteq {"latest", "active"} /\ PrevRules # {}

VARIABLE prev        \* PreviousDeploymentID of each deployment

Newer(d, previousActive, pv) == d # 0 /\ (d # previousActive \/ pv[d] = previousActive)

(* Mutant: the active slot is taken without comparing it.                   *)
Select_AnyActive(slots, previousActive, pv) ==
    IF Newer(slots[1], previousActive, pv) THEN slots[1]
    ELSE IF Newer(slots[2], previousActive, pv) THEN slots[2] ELSE slots[3]

(* selectUpdateDeployment over the slots <<in progress, pending, active>>.  *)
Select(slots, previousActive, pv) ==
    LET newer == {i \in 1..3 : Newer(slots[i], previousActive, pv)}
    IN  IF newer = {} THEN 0 ELSE slots[CHOOSE i \in newer : \A k \in newer : i <= k]

(* Mutant: an update over an active deployment is not looked for by its     *)
(* predecessor.                                                             *)
Historical_FirstOnly(d, previousActive) == previousActive = 0

Historical(d, previousActive) == previousActive = 0 \/ prev[d] = previousActive

Verdict(d) ==
    CASE dep[d].phase = "active"                            -> "ok"
      [] dep[d].phase \in {"pending", "building"}           -> "waiting"
      [] dep[d].phase \in {"error", "canceled", "superseded"} -> "failed"

(* The service's side of an accepted Update.                                *)
Deploy(s) ==
    /\ AcceptUpdate(s)
    /\ \E rule \in PrevRules :
         prev' = [prev EXCEPT ![lastDep + 1] = IF rule = "latest" THEN lastDep ELSE active]

=============================================================================
