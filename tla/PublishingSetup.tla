--------------------------- MODULE PublishingSetup ---------------------------
(***************************************************************************)
(* The accounts, destinations and profiles a project publishes through     *)
(* (publishing/api/routes.ts), and the creation of publishing jobs from    *)
(* them under idempotency keys (publishing/api/job-routes.ts).  A route    *)
(* reads the rows it depends on one by one, outside its transaction, while *)
(* other calls create, change and disable them.                            *)
(***************************************************************************)
EXTENDS Naturals, FiniteSets

CONSTANTS Callers,     \* calls of the routes
          Things,      \* ids of accounts, destinations and profiles
          Enabled      \* the enabled platforms

VARIABLES thing,   \* id |-> the row of the account, destination or profile
          asset,   \* asset |-> "available" or not, of the calls' project
          jobs,    \* the jobs: their slot, <<project, key>>, what they are made of
          work     \* each call: what it asks, how far it is, what it read

setupVars == <<thing, asset, jobs, work>>

Wish(c) == work[c].wish
Doing(c, op, at) == Wish(c).op = op /\ work[c].at = at
Moves(c, at) == work' = [work EXCEPT ![c].at = at]
Passes(c, ok, next) == Moves(c, IF ok THEN next ELSE "refused")
Nothing == [platform |-> "none", account |-> "none", destination |-> "none"]

(* The row of the table with this id in the project of the call. *)
Found(c, kind, id) == thing[id].kind = kind /\ thing[id].project = Wish(c).project

Store(c, row) ==
  /\ thing' = [thing EXCEPT ![Wish(c).id] = row]
  /\ Moves(c, "done")
  /\ UNCHANGED <<asset, jobs>>

-----------------------------------------------------------------------------
(* Accounts. *)

CreateAccount(c) ==
  \/ /\ Doing(c, "createAccount", "new")
     /\ Passes(c, Wish(c).platform \in Enabled, "insert")
     /\ UNCHANGED <<thing, asset, jobs>>
  \/ /\ Doing(c, "createAccount", "insert")
     /\ Store(c, [kind |-> "account", project |-> Wish(c).project,
                  platform |-> Wish(c).platform, status |-> Wish(c).status])

(* PATCH and DELETE: the row of the project gets the status of the body. *)
SetStatus(c, kind) ==
  /\ IF Found(c, kind, Wish(c).id)
       THEN /\ thing' = [thing EXCEPT ![Wish(c).id].status = Wish(c).status]
            /\ Moves(c, "done")
       ELSE UNCHANGED thing /\ Moves(c, "refused")
  /\ UNCHANGED <<asset, jobs>>

PatchAccount(c) ==
  /\ Doing(c, "patchAccount", "new") /\ Wish(c).status \in {"draft", "validation_only", "disabled"}
  /\ SetStatus(c, "account")
DeleteAccount(c) ==
  /\ Doing(c, "deleteAccount", "new") /\ Wish(c).status = "disabled"
  /\ SetStatus(c, "account")

-----------------------------------------------------------------------------
(* Destinations. *)

CreateDestination(c) ==
  \/ /\ Doing(c, "createDestination", "new")
     /\ Passes(c, /\ Found(c, "account", Wish(c).account)
                  /\ thing[Wish(c).account].status \notin {"revoked", "error"}, "insert")
     /\ UNCHANGED <<thing, asset, jobs>>
  \/ /\ Doing(c, "createDestination", "insert")
     /\ Store(c, [kind |-> "destination", project |-> Wish(c).project,
                  account |-> Wish(c).account, status |-> Wish(c).status])

PatchDestination(c) ==
  /\ Doing(c, "patchDestination", "new")
  /\ Wish(c).status \in {"draft", "validation_only", "disabled"}
  /\ SetStatus(c, "destination")
DeleteDestination(c) ==
  /\ Doing(c, "deleteDestination", "new") /\ Wish(c).status = "disabled"
  /\ SetStatus(c, "destination")

-----------------------------------------------------------------------------
(* Profiles: status is "active" or "inactive" for is_active.  A PATCH has   *)
(* no field for the platform, the account or the destination.               *)

CreateProfile(c) ==
  \/ /\ Doing(c, "createProfile", "new")
     /\ Passes(c, Wish(c).platform \in Enabled, "account")
     /\ UNCHANGED <<thing, asset, jobs>>
  \/ /\ Doing(c, "createProfile", "account")
     /\ Passes(c, /\ Found(c, "account", Wish(c).account)
                  /\ thing[Wish(c).account].platform = Wish(c).platform, "destination")
     /\ UNCHANGED <<thing, asset, jobs>>
  \/ /\ Doing(c, "createProfile", "destination")
     /\ Passes(c, /\ Found(c, "destination", Wish(c).destination)
                  /\ thing[Wish(c).destination].account = Wish(c).account, "insert")
     /\ UNCHANGED <<thing, asset, jobs>>
  \/ /\ Doing(c, "createProfile", "insert")
     /\ Store(c, [kind |-> "profile", project |-> Wish(c).project, platform |-> Wish(c).platform,
                  account |-> Wish(c).account, destination |-> Wish(c).destination,
                  status |-> Wish(c).status])

PatchProfile(c) ==
  /\ Doing(c, "patchProfile", "new") /\ Wish(c).status \in {"active", "inactive"}
  /\ SetStatus(c, "profile")
DeleteProfile(c) ==
  /\ Doing(c, "deleteProfile", "new") /\ Wish(c).status = "inactive"
  /\ SetStatus(c, "profile")

-----------------------------------------------------------------------------
(* POST /publishing/jobs, statement by statement. *)

Slot(c) == <<Wish(c).project, Wish(c).key>>

JobsAt(slot) == {j \in jobs : j.slot = slot}
NewJob(c) == [slot |-> Slot(c), profile |-> Wish(c).profile, asset |-> Wish(c).asset,
              plan |-> work[c].plan]

(* The job under the key answers the call if it is the one asked for. *)
Replay(c) ==
  Moves(c, IF \E j \in JobsAt(Slot(c)) : j.profile = Wish(c).profile /\ j.asset = Wish(c).asset
             THEN "replayed" ELSE "conflict")

LookUpKey(c) ==
  /\ Doing(c, "createJob", "new")
  /\ IF JobsAt(Slot(c)) = {} THEN Moves(c, "profile") ELSE Replay(c)
  /\ UNCHANGED <<thing, asset, jobs>>

ResolveProfile(c) ==
  LET p == thing[Wish(c).profile]
  IN  /\ Doing(c, "createJob", "profile")
      /\ IF Found(c, "profile", Wish(c).profile) /\ p.status = "active"
           THEN work' = [work EXCEPT ![c].at = "account", ![c].plan =
                  [platform |-> p.platform, account |-> p.account, destination |-> p.destination]]
           ELSE Moves(c, "refused")
      /\ UNCHANGED <<thing, asset, jobs>>

ResolveAccount(c) ==
  LET a == work[c].plan.account
  IN  /\ Doing(c, "createJob", "account")
      /\ Passes(c, /\ Found(c, "account", a)
                   /\ thing[a].status \notin {"revoked", "error"}, "destination")
      /\ UNCHANGED <<thing, asset, jobs>>

ResolveDestination(c) ==
  /\ Doing(c, "createJob", "destination")
  /\ Passes(c, Found(c, "destination", work[c].plan.destination), "asset")
  /\ UNCHANGED <<thing, asset, jobs>>

ResolveAsset(c) ==
  /\ Doing(c, "createJob", "asset")
  /\ Passes(c, asset[Wish(c).asset] = "available", "insert")
  /\ UNCHANGED <<thing, asset, jobs>>

(* Mutant: the loser of two insertions takes the winner's job unseen.       *)
InsertJob_AnyWinner(c) ==
  /\ Doing(c, "createJob", "insert")
  /\ IF JobsAt(Slot(c)) = {}
       THEN jobs' = jobs \union {NewJob(c)} /\ Moves(c, "created")
       ELSE UNCHANGED jobs /\ Moves(c, "replayed")
  /\ UNCHANGED <<thing, asset>>

(* The insertion under UNIQUE (project_id, idempotency_key): its loser      *)
(* rolls back and answers from the winner's row.                            *)
InsertJob(c) ==
  /\ Doing(c, "createJob", "insert")
  /\ IF JobsAt(Slot(c)) = {}
       THEN jobs' = jobs \union {NewJob(c)} /\ Moves(c, "created")
       ELSE UNCHANGED jobs /\ Replay(c)
  /\ UNCHANGED <<thing, asset>>

CreateJob(c) == \/ LookUpKey(c) \/ ResolveProfile(c) \/ ResolveAccount(c)
                \/ ResolveDestination(c) \/ ResolveAsset(c) \/ InsertJob(c)

(* DELETE of the asset, by another component. *)
DropAsset(a) == /\ asset[a] = "available"
                /\ asset' = [asset EXCEPT ![a] = "deleted"]
                /\ UNCHANGED <<thing, jobs, work>>

SetupNext ==
  \/ \E c \in Callers :
       \/ CreateAccount(c) \/ PatchAccount(c) \/ DeleteAccount(c)
       \/ CreateDestination(c) \/ PatchDestination(c) \/ DeleteDestination(c)
       \/ CreateProfile(c) \/ PatchProfile(c) \/ DeleteProfile(c)
       \/ CreateJob(c)
  \/ \E a \in DOMAIN asset : DropAsset(a)

Absent == [kind |-> "none", project |-> "none", status |-> "none"]

(* A plan: the rows there, the assets, what the calls ask. *)
SetupInit(plan) ==
  /\ thing = [i \in Things |-> IF i \in DOMAIN plan.things THEN plan.things[i] ELSE Absent]
  /\ asset = plan.assets
  /\ jobs = {}
  /\ work = [c \in Callers |-> [wish |-> plan.wishes[c], at |-> "new", plan |-> Nothing]]

(* Rows refer to rows of their project that belong together, calls name ids *)
(* there may be rows for, and the row of a create has an id of its own.     *)
Belongs(t, i) ==
  LET row == t[i]
      Is(j, kind) == j \in Things /\ t[j].kind = kind /\ t[j].project = row.project
  IN  CASE row.kind = "account" -> DOMAIN row = {"kind", "project", "platform", "status"}
        [] row.kind = "destination" -> /\ DOMAIN row = {"kind", "project", "account", "status"}
                                       /\ Is(row.account, "account")
        [] row.kind = "profile" ->
             /\ DOMAIN row = {"kind", "project", "platform", "account", "destination", "status"}
             /\ Is(row.account, "account") /\ t[row.account].platform = row.platform
             /\ Is(row.destination, "destination") /\ t[row.destination].account = row.account
        [] OTHER -> row = Absent
Creates(w) == w.op \in {"createAccount", "createDestination", "createProfile"}
PlanOk(plan) ==
  /\ LET t == [i \in Things |-> IF i \in DOMAIN plan.things THEN plan.things[i] ELSE Absent]
     IN  \A i \in Things : Belongs(t, i)
  /\ \A c \in Callers : LET w == plan.wishes[c] IN
       /\ w.op \notin {"none", "createJob"} =>
            w.id \in Things /\ w.account \in Things /\ w.destination \in Things
       /\ w.op = "createJob" => w.profile \in Things
       /\ Creates(w) => /\ w.id \notin DOMAIN plan.things
                        /\ \A d \in Callers \ {c} : Creates(plan.wishes[d]) => plan.wishes[d].id # w.id

-----------------------------------------------------------------------------
(* Rows of the declared kind, calls at a declared step.                    *)
SetupTypeOK ==
  /\ \A i \in Things : thing[i].kind \in {"none", "account", "destination", "profile"}
  /\ \A c \in Callers :
       /\ work[c].at \in {"new", "insert", "profile", "account", "destination", "asset",
                          "done", "refused", "created", "replayed", "conflict"}
  /\ \A s, t \in jobs : s.slot = t.slot => s = t

(* Whatever was created, changed and disabled while they were resolved one *)
(* by one, the account, the destination and the platform of a job's plan   *)
(* belong together and to the project of the job.                          *)
JobIsWired ==
  \A j \in jobs :
    /\ thing[j.plan.account].project = j.slot[1]
    /\ thing[j.plan.account].platform = j.plan.platform
    /\ thing[j.plan.destination].project = j.slot[1]
    /\ thing[j.plan.destination].account = j.plan.account

(* An idempotency key names one request: every call that was answered with *)
(* the job under its key had asked for that profile and that asset.        *)
KeyNamesOneRequest ==
  \A c \in Callers : work[c].at \in {"created", "replayed"} =>
    \E j \in JobsAt(Slot(c)) : j.profile = Wish(c).profile /\ j.asset = Wish(c).asset
=============================================================================
