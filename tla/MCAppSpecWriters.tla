-------------------------- MODULE MCAppSpecWriters --------------------------
(* AppSpecWriters for TLC: two configs, the second with another count; the  *)
(* first domain belongs to the configs, the second is bound by itself.      *)
EXTENDS AppSpecWriters, TLC

CONSTANTS p1, p2, c1, c2, k1, k2, d1, d2

Content(c, k, ds) == [config |-> c, count |-> k, domains |-> ds]
AllBases   == [config : Configs, count : Counts, domains : SUBSET Domains]
TheConfigs == c1 :> Content(c1, k1, {d1}) @@ c2 :> Content(c2, k2, {d1})
OldBase    == Content(c1, k1, {d1})

Menu(calls1, calls2) == p1 :> calls1 @@ p2 :> calls2

RepairMenu == Menu({<<"repair", NoArg>>, <<"iac_scale", k2>>},
                   {<<"scale", k2>>, <<"bind", d2>>, <<"unbind", d2>>})
HealthMenu == Menu({<<"update", c2>>, <<"bind", d2>>}, {<<"health", NoArg>>})
UpdateMenu == Menu({<<"update", c2>>}, {<<"update", c1>>})

Zone(a, b) == d1 :> <<a, b>> @@ d2 :> <<"free", "free">>

Scenario(m, n, zones) == {[calls |-> m, writes |-> n, records |-> zone] : zone \in zones}

TheScenarios ==
    Scenario(RepairMenu, 3, {Zone("target", "free")})
    \cup Scenario(HealthMenu, 2, {Zone("free", "free"), Zone("old", "target")})
    \cup Scenario(UpdateMenu, 2, {Zone("free", "free"), Zone("old", "old")})

=============================================================================
