----------------------------- MODULE JobRequests -----------------------------
(***************************************************************************)
(* The creation of general jobs under idempotency keys: POST /jobs, which   *)
(* keeps a record of the key for each actor and project, and the dashboard's *)
(* POST /video-pipeline, which has none.  A key is unique over all jobs.    *)
(* What becomes of a job is JobLifecycle.                                   *)
(***************************************************************************)
EXTENDS Naturals, FiniteSets

CONSTANTS Askers,       \* calls of the two routes
          MaxAborts     \* bound: transactions that fail

VARIABLES created,  \* the calls that made a job; a job is named by its call
          expired,  \* calls whose idempotency record is past expires_at
          asker,    \* each call: its request, how far it is, the answer
          aborts

requestVars == <<created, expired, asker, aborts>>

(* A request is [route, actor, project, key, body]; the body stands for the *)
(* fingerprint of the canonical request.                                    *)
Request(a) == asker[a].request
Turns(a, at) == asker' = [asker EXCEPT ![a].at = at]
AnswersJob(a, maker) == asker' = [asker EXCEPT ![a].at = "answered", ![a].job = maker]
Via(a, route, at) == Request(a).route = route /\ asker[a].at = at

(* uq_idempotency_scope: the jobs with a record of the call's scope and key *)
InScope(r, q) ==
  r.route = "jobs" /\ r.key = q.key /\ r.actor = q.actor /\ r.project = q.project
Recorded(a) == {m \in created : InScope(Request(m), Request(a))}
KeyedAs(a) == {m \in created : Request(m).key = Request(a).key}

(* The record of the key decides, as long as it has not expired. *)
LookUpRecord(a) ==
  /\ Via(a, "jobs", "sent")
  /\ \/ Recorded(a) \ expired = {} /\ Turns(a, "insert")
     \/ \E m \in Recorded(a) \ expired :
          IF Request(m).body = Request(a).body THEN AnswersJob(a, m) ELSE Turns(a, "conflict")
  /\ UNCHANGED <<created, expired, aborts>>

(* One transaction: the job under the unique key, and its record.  The      *)
(* enqueue that follows may be lost: JobLifecycle!Create.                   *)
InsertKeyed(a) ==
  /\ Via(a, "jobs", "insert")
  /\ IF KeyedAs(a) = {} THEN created' = created \union {a} /\ AnswersJob(a, a)
                        ELSE UNCHANGED created /\ Turns(a, "lost")
  /\ UNCHANGED <<expired, aborts>>

(* Mutant: the loser takes the job under the key without a look at the      *)
(* fingerprint.                                                             *)
ReplayWinner_Unseen(a) ==
  /\ Via(a, "jobs", "lost")
  /\ \E m \in KeyedAs(a) : AnswersJob(a, m)
  /\ UNCHANGED <<created, expired, aborts>>

(* The loser of two insertions: a record of its own scope, expired or not,  *)
(* must be of the same request; without one, the job under the key answers. *)
ReplayWinner(a) ==
  /\ Via(a, "jobs", "lost")
  /\ IF \E m \in Recorded(a) : Request(m).body # Request(a).body
       THEN Turns(a, "conflict")
       ELSE \E m \in KeyedAs(a) : AnswersJob(a, m)
  /\ UNCHANGED <<created, expired, aborts>>

Abort(a) ==
  /\ asker[a].at = "insert" /\ aborts < MaxAborts
  /\ aborts' = aborts + 1 /\ Turns(a, "error")
  /\ UNCHANGED <<created, expired>>

CreateKeyedJob(a) == LookUpRecord(a) \/ InsertKeyed(a) \/ ReplayWinner(a)

(* The dashboard looks for the key among the jobs of the project, and does  *)
(* not catch the violation of the index, nor an enqueue that fails after    *)
(* the job was made.                                                        *)
CreateVideoJob(a) ==
  \/ /\ Via(a, "pipeline", "sent")
     /\ LET ours == {m \in KeyedAs(a) : Request(m).project = Request(a).project}
        IN  \/ ours = {} /\ Turns(a, "insert")
            \/ \E m \in ours : AnswersJob(a, m)
     /\ UNCHANGED <<created, expired, aborts>>
  \/ /\ Via(a, "pipeline", "insert")
     /\ \/ KeyedAs(a) = {} /\ created' = created \union {a} /\ AnswersJob(a, a)
        \/ KeyedAs(a) = {} /\ created' = created \union {a} /\ Turns(a, "error")
        \/ KeyedAs(a) # {} /\ UNCHANGED created /\ Turns(a, "error")
     /\ UNCHANGED <<expired, aborts>>

(* 24 hours pass. *)
ExpireRecord(m) ==
  /\ m \in created \ expired /\ Request(m).route = "jobs"
  /\ expired' = expired \union {m}
  /\ UNCHANGED <<created, asker, aborts>>

RequestsNext ==
  \E a \in Askers : CreateKeyedJob(a) \/ CreateVideoJob(a) \/ Abort(a) \/ ExpireRecord(a)

Nobody == "nobody"

(* A batch: what each call requests. *)
RequestsInit(batch) ==
  /\ created = {} /\ expired = {} /\ aborts = 0
  /\ asker = [a \in Askers |-> [request |-> batch[a], at |-> "sent", job |-> Nobody]]

-----------------------------------------------------------------------------
RequestsTypeOK ==
  /\ created \subseteq Askers /\ expired \subseteq created
  /\ \A a \in Askers : asker[a].at \in {"sent", "insert", "lost", "answered", "conflict", "error"}

(* Two calls that were answered under one key were answered with one job,   *)
(* through races, failed transactions and expired records, and whichever    *)
(* route they took.                                                         *)
OneJobPerKey ==
  \A a, b \in Askers :
    asker[a].at = "answered" /\ asker[b].at = "answered" /\ Request(a).key = Request(b).key
      => asker[a].job = asker[b].job

(* POST /jobs answers with a job that was requested with the same body, if  *)
(* the job was made by this route for the same actor and project.  A key    *)
(* that another actor, project or route has used gives that job, unseen.    *)
AnswerAsRequested ==
  \A a \in Askers :
    asker[a].at = "answered" /\ Request(a).route = "jobs" /\ asker[a].job \in Recorded(a)
      => Request(asker[a].job).body = Request(a).body
=============================================================================
