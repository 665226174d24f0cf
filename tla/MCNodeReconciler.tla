-------------------------- MODULE MCNodeReconciler --------------------------
(***************************************************************************)
(* Instances of NodeReconciler for TLC: the starts of a run, each with the *)
(* disturbances it allows and how many of each.                            *)
(***************************************************************************)
EXTENDS NodeReconciler, TLC

Quiet == [d \in Disturbances |-> 0]

Once(ds) == [d \in Disturbances |-> IF d \in ds THEN 1 ELSE 0]

EditLimits      == {("edit" :> 2 @@ "crash" :> 1) @@ Quiet, Once({"edit", "start", "crash"})}
LifecycleLimits == {Once({"delete", "recreate"})}
FaultLimits     == {Once({"health", "apierror"}), Once({"peers", "apierror"}),
                    Once({"peers", "evict"})}
RoleLimits      == {Once({"edit"})}
FlipLimits      == {("edit" :> 2 @@ "start" :> 1) @@ Quiet}
MoveLimits      == {Once({"edit"})}

APeer      == CHOOSE p \in Peers : TRUE
RelaySpecs == {s \in Specs : s.cfg \in Relays}

Start(specs, services, limits) ==
  [spec : specs, peers : {APeer}, svc : {services}, left : limits]

SafetyStarts      == Start(Specs, FALSE, EditLimits \cup LifecycleLimits)
ConvergenceStarts == Start(RelaySpecs, TRUE, FaultLimits)
                       \cup Start(RelaySpecs, FALSE, LifecycleLimits)
                       \cup Start(Specs, FALSE, RoleLimits)
FlipStarts        == Start(Specs, FALSE, FlipLimits)
MoveStarts        == Start(Specs, FALSE, MoveLimits)

(* The config values of a spec are interchangeable (where all of them, or  *)
(* none, have the outbound role).                                          *)
CfgSymmetry == Permutations(Cfgs)
=============================================================================
