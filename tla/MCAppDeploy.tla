---------------------------- MODULE MCAppDeploy ----------------------------
(* AppDeploy for TLC: bounds for each strategy.                             *)
EXTENDS AppDeploy, TLC

Calls   == "rolling" :> 3 @@ "prevalidated" :> 5 @@ "canary" :> 4
Updates == "rolling" :> 3 @@ "prevalidated" :> 1 @@ "canary" :> 1
Others  == "rolling" :> 1 @@ "prevalidated" :> 0 @@ "canary" :> 0

=============================================================================
