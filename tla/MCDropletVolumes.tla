-------------------------- MODULE MCDropletVolumes --------------------------
(* DropletVolumes for TLC: two volumes; droplets with both, one and none.   *)
EXTENDS DropletVolumes

MCConfigs == {[size |-> 1, vols |-> {"data", "logs"}, capped |-> TRUE],
              [size |-> 2, vols |-> {"data", "logs"}, capped |-> FALSE],
              [size |-> 2, vols |-> {}, capped |-> FALSE]}

(* A droplet whose configuration gains a volume.                            *)
MCMoreDisks == {[size |-> 1, vols |-> {"data"}, capped |-> FALSE],
                [size |-> 1, vols |-> {"data", "logs"}, capped |-> FALSE]}

=============================================================================
