-------------------------- MODULE ResourceDrivers --------------------------
(***************************************************************************)
(* The per-type resource drivers of internal/drivers, reduced to what      *)
(* decides their control flow.  Every driver offers Create, Read, Update   *)
(* and Delete; they differ in                                              *)
(*                                                                         *)
(*   lookup   what Read asks for: the recorded id ("id"), the recorded id  *)
(*            or, when it is empty, the name ("id_or_name"), always the    *)
(*            name ("name"), or the one resource an account can have       *)
(*            ("account");                                                 *)
(*   heals    whether Update and Delete first turn a recorded value that   *)
(*            is not shaped like a UUID into one, by listing names;        *)
(*   upsert   whether the driver declares SupportsUpsert, so that the host *)
(*            may answer "already exists" with a Read by name and Update;  *)
(*   update   one call ("put"), a call and a Read ("put_read"), Delete     *)
(*            then Create ("replace"), only a Read ("read") or always an   *)
(*            error ("refuse");                                            *)
(*   scales   whether Scale is offered: Update and Read on the resource    *)
(*            found, an error elsewhere;                                   *)
(*   goneOK   whether Delete takes an absent resource for success;         *)
(*   sentinel whether the error for an absent resource reaches the caller  *)
(*            as ErrResourceNotFound (WrapGodoError) or as it came.        *)
(*                                                                         *)
(* Droplets, volumes, databases and zones have modules of their own.       *)
(***************************************************************************)
EXTENDS Naturals

\* What most drivers have in common: a UUID from the API, healed when the
\* state has a name instead, one update call, 404 on Delete reported.
ByUUID ==
    [lookup |-> "id", heals |-> TRUE, upsert |-> FALSE, update |-> "put",
     scales |-> FALSE, goneOK |-> FALSE, sentinel |-> TRUE]

AppPlatformDriver  == [ByUUID EXCEPT !.lookup = "id_or_name", !.upsert = TRUE]
VPCDriver          == [ByUUID EXCEPT !.lookup = "id_or_name", !.upsert = TRUE]
FirewallDriver     == [ByUUID EXCEPT !.lookup = "id_or_name", !.upsert = TRUE]
LoadBalancerDriver == ByUUID
KubernetesDriver   == [ByUUID EXCEPT !.scales = TRUE]
APIGatewayDriver   == ByUUID
CacheDriver        == [ByUUID EXCEPT !.update = "put_read", !.scales = TRUE]

\* Certificates are immutable: Update is Delete, then Create.
CertificateDriver  == [ByUUID EXCEPT !.update = "replace"]

\* One registry per account is in sight: Get and Delete take no name, and
\* Update returns what Get finds.
RegistryDriver     == [ByUUID EXCEPT !.lookup = "account", !.heals = FALSE,
                                     !.update = "read"]

\* The access key is the id.  Delete of a key that is gone is a success.
SpacesKeyDriver    == [ByUUID EXCEPT !.lookup = "id_or_name", !.heals = FALSE,
                                     !.upsert = TRUE, !.goneOK = TRUE]

\* Buckets are addressed by name through the S3 client, whose errors are not
\* mapped to the sentinels; Update always fails.
SpacesDriver       == [ByUUID EXCEPT !.lookup = "name", !.heals = FALSE,
                                     !.update = "refuse", !.sentinel = FALSE]

\* The table Initialize fills in.
Driver ==
    [container_service |-> AppPlatformDriver,
     vpc               |-> VPCDriver,
     firewall          |-> FirewallDriver,
     load_balancer     |-> LoadBalancerDriver,
     k8s_cluster       |-> KubernetesDriver,
     api_gateway       |-> APIGatewayDriver,
     cache             |-> CacheDriver,
     certificate       |-> CertificateDriver,
     registry          |-> RegistryDriver,
     spaces_key        |-> SpacesKeyDriver,
     storage           |-> SpacesDriver]

\* The resource types of the table.
Kinds == DOMAIN Driver
=============================================================================
