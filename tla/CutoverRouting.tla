--------------------------- MODULE CutoverRouting ---------------------------
(***************************************************************************)
(* Which way a workflow runs (workflow-execution/cutover-routing.ts): the  *)
(* switches an operator sets in the process, and the route they give a     *)
(* request.  A mode of None in an override is no override.                 *)
(***************************************************************************)
EXTENDS Integers

CONSTANTS Tenants, WorkflowIds, VersionIds,
          Hash,         \* the first two bytes of the hash of tenant, workflow
                        \* and seed; the seed is not changed
          Points,       \* bound of the model: the canary shares that are set
          MaxSwitches   \* bound of the model

ASSUME RoutingAssumption ==
  /\ Points \subseteq Nat
  /\ Hash \in [Tenants \X WorkflowIds -> Nat]

VARIABLES cutover, switches
routingVars == <<cutover, switches>>

Modes == {"DISABLED", "SHADOW_ONLY", "CANARY", "PRIMARY", "ROLLBACK"}
NoMode == "none"
Requests == [tenant : Tenants, workflow : WorkflowIds, version : VersionIds]

DefaultConfig ==
  [systemDefault |-> "SHADOW_ONLY", emergencyRollback |-> FALSE, canaryBasisPoints |-> 0,
   tenant |-> [t \in Tenants |-> NoMode], workflow |-> [w \in WorkflowIds |-> NoMode],
   version |-> [v \in VersionIds |-> NoMode], denied |-> {}]

Bucket(q) == Hash[<<q.tenant, q.workflow>>] % 10000

(* isCanarySelected; mutant: one bucket in every so many. *)
Canary_Sampled(c, q) ==
  \/ c.canaryBasisPoints >= 10000
  \/ c.canaryBasisPoints > 0
     /\ Bucket(q) % (10000 \div c.canaryBasisPoints) = 0
Canary(c, q) ==
  \/ c.canaryBasisPoints >= 10000
  \/ c.canaryBasisPoints > 0 /\ Bucket(q) < c.canaryBasisPoints

(* The most specific mode. *)
ModeFor(c, q) ==
  IF c.emergencyRollback THEN "ROLLBACK"
  ELSE IF q.tenant \in c.denied THEN "SHADOW_ONLY"
  ELSE IF c.version[q.version] # NoMode THEN c.version[q.version]
  ELSE IF c.workflow[q.workflow] # NoMode THEN c.workflow[q.workflow]
  ELSE IF c.tenant[q.tenant] # NoMode THEN c.tenant[q.tenant]
  ELSE c.systemDefault

(* resolveExecutionRoute *)
Route(c, q) ==
  IF ModeFor(c, q) = "PRIMARY" \/ (ModeFor(c, q) = "CANARY" /\ Canary(c, q))
    THEN "primary" ELSE "shadow"

-----------------------------------------------------------------------------
Switches == switches < MaxSwitches /\ switches' = switches + 1

Overrides == Modes \union {NoMode}

(* setCutoverConfig with one field, which is replaced as a whole. *)
SetCutoverConfig ==
  /\ Switches
  /\ \/ \E m \in Modes : cutover' = [cutover EXCEPT !.systemDefault = m]
     \/ \E p \in Points : cutover' = [cutover EXCEPT !.canaryBasisPoints = p]
     \/ \E f \in [Tenants -> Overrides] : cutover' = [cutover EXCEPT !.tenant = f]
     \/ \E f \in [WorkflowIds -> Overrides] : cutover' = [cutover EXCEPT !.workflow = f]
     \/ \E f \in [VersionIds -> Overrides] : cutover' = [cutover EXCEPT !.version = f]
     \/ \E ts \in SUBSET Tenants : cutover' = [cutover EXCEPT !.denied = ts]
TriggerEmergencyRollback ==
  /\ Switches /\ cutover' = [cutover EXCEPT !.emergencyRollback = TRUE]
ClearEmergencyRollback ==
  /\ Switches /\ cutover' = [cutover EXCEPT !.emergencyRollback = FALSE]
ResetToDefault == Switches /\ cutover' = DefaultConfig

RoutingInit == cutover = DefaultConfig /\ switches = 0
RoutingNext == \/ SetCutoverConfig \/ TriggerEmergencyRollback
               \/ ClearEmergencyRollback \/ ResetToDefault

-----------------------------------------------------------------------------
(* Raising the canary share takes nobody back from the primary route who   *)
(* is on it already: a tenant does not flip to and fro in a rollout.       *)
CanaryOnlyGrows ==
  [][cutover' = [cutover EXCEPT !.canaryBasisPoints = cutover'.canaryBasisPoints]
       /\ cutover'.canaryBasisPoints >= cutover.canaryBasisPoints
       => \A q \in Requests : Route(cutover, q) = "primary" => Route(cutover', q) = "primary"]_routingVars

(* A denied tenant is never on the primary route, whatever overrides of    *)
(* its version or workflow were set before or after, and the switches of   *)
(* one tenant leave the routes of the others alone.                        *)
TenantsApart ==
  /\ [][\A q \in Requests : q.tenant \in cutover'.denied => Route(cutover', q) = "shadow"]_routingVars
  /\ [][\A t \in Tenants :
          cutover' = [cutover EXCEPT !.tenant[t] = cutover'.tenant[t], !.denied = cutover'.denied]
            /\ cutover'.denied \union {t} = cutover.denied \union {t}
          => \A q \in Requests : q.tenant # t => Route(cutover', q) = Route(cutover, q)]_routingVars

(* A rollout moves only the requests it is meant to move. *)
RoutesAreStable == CanaryOnlyGrows /\ TenantsApart
=============================================================================
