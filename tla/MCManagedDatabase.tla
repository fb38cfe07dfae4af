------------------------- MODULE MCManagedDatabase -------------------------
(* ManagedDatabase for TLC: trusted sources with and without an app, two    *)
(* sizes, epochs, and an engine without admin credentials.                  *)
EXTENDS ManagedDatabase

Conf(size, sources, epoch) ==
    [engine |-> "pg", size |-> size, nodes |-> 1, present |-> TRUE, sources |-> sources,
     epoch |-> epoch]

MCConfigs == {Conf(1, {"ip", "app"}, 0), Conf(2, {"ip"}, 0), Conf(2, {"ip", "app"}, 1),
              Conf(1, {}, 2), [Conf(1, {}, 0) EXCEPT !.present = FALSE],
              [Conf(1, {"app"}, 1) EXCEPT !.engine = "redis"]}

=============================================================================
