---------------------------- MODULE SettingsProofs ----------------------------
(***************************************************************************)
(* Theorems of ProjectSettings, for any number of requests, rows, calls and *)
(* keys and every starting situation: one section for each part, then the   *)
(* composition.                                                             *)
(***************************************************************************)
EXTENDS ProjectSettings, FiniteSetTheorems, TLAPS

-----------------------------------------------------------------------------
(* JobRequests.  A key has one job, an answer is a job under the key of its *)
(* call, and if the call's scope has the record of that job, the body was   *)
(* compared.                                                                *)
Compared(r, q) == q.route = "jobs" /\ InScope(r, q) => r.body = q.body
AnswerOf(b, m) ==
  m \in created /\ asker[m].request.key = asker[b].request.key
  /\ Compared(asker[m].request, asker[b].request)

RequestsInv ==
  /\ RequestsTypeOK /\ DOMAIN asker = Askers
  /\ \A a \in Askers : /\ DOMAIN asker[a] = {"request", "at", "job"}
                       /\ asker[a].at = "answered" => AnswerOf(a, asker[a].job)
  /\ \A m, n \in created : asker[m].request.key = asker[n].request.key => m = n

LEMMA RequestsInitOk == ASSUME NEW batch, RequestsInit(batch) PROVE RequestsInv
BY DEF RequestsInit, RequestsInv, RequestsTypeOK

(* What a step may do: requests stay what they are, a job is made under a   *)
(* key that has none, and an answer was compared.                           *)
LEMMA RequestsMove ==
  ASSUME RequestsInv, NEW a \in Askers, NEW at, NEW m,
         asker' = [asker EXCEPT ![a].at = at, ![a].job = m] \/ Turns(a, at),
         \/ created' = created
         \/ /\ created' = created \union {a}
            /\ \A n \in created : asker[n].request.key # asker[a].request.key,
         expired' = expired,
         at \in {"sent", "insert", "lost", "answered", "conflict", "error"},
         at = "answered" =>
           /\ asker' = [asker EXCEPT ![a].at = at, ![a].job = m]
           /\ m \in created' /\ asker[m].request.key = asker[a].request.key
           /\ Compared(asker[m].request, asker[a].request)
  PROVE  RequestsInv'
<1>1. /\ DOMAIN asker' = Askers /\ asker'[a].at = at /\ (at = "answered" => asker'[a].job = m)
      /\ \A b \in Askers : asker'[b].request = asker[b].request /\ DOMAIN asker'[b] = DOMAIN asker[b]
      /\ \A b \in Askers \ {a} : asker'[b] = asker[b]
  BY DEF RequestsInv, Turns
<1>2. created \subseteq created' /\ created' \subseteq Askers /\ created \subseteq Askers
  BY DEF RequestsInv, RequestsTypeOK
<1>3. RequestsTypeOK'
  BY <1>1, <1>2 DEF RequestsInv, RequestsTypeOK
<1>4. \A b \in Askers : (asker[b].at = "answered" => AnswerOf(b, asker[b].job))'
  <2>1. ASSUME NEW b \in Askers, b # a, asker[b].at = "answered" PROVE AnswerOf(b, asker[b].job)'
    BY <1>1, <1>2, <2>1 DEF RequestsInv, AnswerOf
  <2>2. ASSUME at = "answered" PROVE AnswerOf(a, asker[a].job)'
    BY <1>1, <1>2, <2>2 DEF AnswerOf
  <2> QED BY <1>1, <2>1, <2>2 DEF AnswerOf
<1>5. \A k, n \in created' : asker'[k].request.key = asker'[n].request.key => k = n
  BY <1>1, <1>2 DEF RequestsInv
<1>6. \A b \in Askers : DOMAIN asker'[b] = {"request", "at", "job"}
  BY <1>1 DEF RequestsInv
<1> QED BY <1>1, <1>3, <1>4, <1>5, <1>6 DEF RequestsInv, AnswerOf

LEMMA TurnKeeps ==
  ASSUME RequestsInv, NEW a \in Askers, NEW at, Turns(a, at), created' = created,
         expired' = expired, at \in {"sent", "insert", "lost", "conflict", "error"}
  PROVE  RequestsInv'
BY RequestsMove

LEMMA AnswerKeeps ==
  ASSUME RequestsInv, NEW a \in Askers, NEW m \in created, AnswersJob(a, m), created' = created,
         expired' = expired, asker[m].request.key = asker[a].request.key,
         Compared(asker[m].request, asker[a].request)
  PROVE  RequestsInv'
BY RequestsMove DEF AnswersJob

LEMMA InsertKeeps ==
  ASSUME RequestsInv, NEW a \in Askers, AnswersJob(a, a) \/ Turns(a, "error"),
         created' = created \union {a}, expired' = expired,
         \A n \in created : asker[n].request.key # asker[a].request.key
  PROVE  RequestsInv'
<1>1. CASE AnswersJob(a, a)
  BY <1>1, RequestsMove DEF AnswersJob, Compared
<1>2. CASE Turns(a, "error")
  BY <1>2, RequestsMove
<1> QED BY <1>1, <1>2

LEMMA RequestsStepKeeps == ASSUME RequestsInv, RequestsNext PROVE RequestsInv'
<1>0. /\ expired \subseteq created /\ created \subseteq Askers
      /\ \A a \in Askers : /\ \A m \in KeyedAs(a) : m \in created /\ asker[m].request.key = asker[a].request.key
                           /\ KeyedAs(a) = {} => \A m \in created : asker[m].request.key # asker[a].request.key
  BY DEF RequestsInv, RequestsTypeOK, KeyedAs, Request
<1>1. ASSUME NEW a \in Askers, LookUpRecord(a) PROVE RequestsInv'
  <2>1. ASSUME NEW m \in Recorded(a), Request(m).body = Request(a).body, AnswersJob(a, m)
        PROVE  RequestsInv'
    <3>1. /\ m \in created /\ asker[m].request.key = asker[a].request.key
          /\ Compared(asker[m].request, asker[a].request)
      BY <2>1 DEF Recorded, InScope, Request, Compared
    <3>2. created' = created /\ expired' = expired
      BY <1>1 DEF LookUpRecord
    <3> QED BY <2>1, <3>1, <3>2, AnswerKeeps
  <2>2. ASSUME NEW at \in {"insert", "conflict"}, Turns(a, at) PROVE RequestsInv'
    BY <1>1, <2>2, TurnKeeps DEF LookUpRecord
  <2> QED BY <1>1, <2>1, <2>2 DEF LookUpRecord
<1>2. ASSUME NEW a \in Askers, InsertKeyed(a) PROVE RequestsInv'
  <2>1. CASE KeyedAs(a) = {}
    BY <1>0, <1>2, <2>1, InsertKeeps DEF InsertKeyed
  <2>2. CASE KeyedAs(a) # {}
    BY <1>2, <2>2, TurnKeeps DEF InsertKeyed
  <2> QED BY <2>1, <2>2
<1>3. ASSUME NEW a \in Askers, ReplayWinner(a) PROVE RequestsInv'
  <2>1. ASSUME NEW m \in KeyedAs(a), \A n \in Recorded(a) : Request(n).body = Request(a).body,
               AnswersJob(a, m)
        PROVE  RequestsInv'
    <3>1. Compared(asker[m].request, asker[a].request)
      BY <1>0, <2>1 DEF Recorded, Request, Compared
    <3>2. created' = created /\ expired' = expired
      BY <1>3 DEF ReplayWinner
    <3> QED BY <1>0, <2>1, <3>1, <3>2, AnswerKeeps
  <2>2. CASE Turns(a, "conflict")
    BY <1>3, <2>2, TurnKeeps DEF ReplayWinner
  <2> QED BY <1>3, <2>1, <2>2 DEF ReplayWinner
<1>4. ASSUME NEW a \in Askers, Abort(a) PROVE RequestsInv'
  BY <1>4, TurnKeeps DEF Abort
<1>5. ASSUME NEW a \in Askers, CreateVideoJob(a) PROVE RequestsInv'
  <2>0. expired' = expired /\ Request(a).route = "pipeline"
    BY <1>5 DEF CreateVideoJob, Via
  <2>1. ASSUME created' = created, NEW m \in KeyedAs(a), AnswersJob(a, m) PROVE RequestsInv'
    <3>1. Compared(asker[m].request, asker[a].request)
      BY <2>0 DEF Compared, Request
    <3> QED BY <1>0, <2>0, <2>1, <3>1, AnswerKeeps
  <2>2. CASE KeyedAs(a) = {} /\ created' = created \union {a} /\ (AnswersJob(a, a) \/ Turns(a, "error"))
    BY <1>0, <2>0, <2>2, InsertKeeps
  <2>3. ASSUME created' = created, NEW at \in {"insert", "error"}, Turns(a, at) PROVE RequestsInv'
    BY <2>0, <2>3, TurnKeeps
  <2> QED BY <1>5, <2>1, <2>2, <2>3 DEF CreateVideoJob
<1>6. ASSUME NEW m \in Askers, ExpireRecord(m) PROVE RequestsInv'
  BY <1>6 DEF ExpireRecord, RequestsInv, RequestsTypeOK, AnswerOf
<1> QED BY <1>1, <1>2, <1>3, <1>4, <1>5, <1>6 DEF RequestsNext, CreateKeyedJob

LEMMA RequestsStay == ASSUME RequestsInv, UNCHANGED requestVars PROVE RequestsInv'
BY DEF RequestsInv, RequestsTypeOK, AnswerOf, requestVars

LEMMA RequestsMean == ASSUME RequestsInv PROVE RequestsTypeOK /\ OneJobPerKey /\ AnswerAsRequested
<1>1. OneJobPerKey
  BY DEF RequestsInv, OneJobPerKey, AnswerOf, Request
<1>2. AnswerAsRequested
  BY DEF RequestsInv, AnswerAsRequested, AnswerOf, Compared, Recorded, Request
<1> QED BY <1>1, <1>2 DEF RequestsInv

-----------------------------------------------------------------------------
(* PublishingSetup.  Rows keep what refers to them: a row that is there     *)
(* changes its status only.  So what a call has resolved stays resolved,    *)
(* and a row or a job it makes belongs to the rows it was resolved from.    *)
IsA(t, i, kind, project) == i \in Things /\ t[i].kind = kind /\ t[i].project = project
Wired(t, p, project) ==
  /\ IsA(t, p.account, "account", project) /\ t[p.account].platform = p.platform
  /\ IsA(t, p.destination, "destination", project) /\ t[p.destination].account = p.account

CallAt == {"new", "insert", "profile", "account", "destination", "asset",
           "done", "refused", "created", "replayed", "conflict"}
WorkOk(rec, t) ==
  LET w == rec.wish
      at == rec.at
  IN  /\ DOMAIN rec = {"wish", "at", "plan"} /\ at \in CallAt
      /\ w.op \notin {"none", "createJob"} =>
           w.id \in Things /\ w.account \in Things /\ w.destination \in Things
      /\ w.op = "createJob" => w.profile \in Things
      /\ w.op = "createDestination" /\ at = "insert" => IsA(t, w.account, "account", w.project)
      /\ w.op = "createProfile" /\ at \in {"destination", "insert"} =>
           IsA(t, w.account, "account", w.project) /\ t[w.account].platform = w.platform
      /\ w.op = "createProfile" /\ at = "insert" =>
           IsA(t, w.destination, "destination", w.project) /\ t[w.destination].account = w.account
      /\ w.op = "createJob" /\ at \in {"account", "destination", "asset", "insert"} =>
           Wired(t, rec.plan, w.project)
FreshId(rec, t) == Creates(rec.wish) /\ rec.at \notin {"done", "refused"} => t[rec.wish.id] = Absent
AnsweredOk(rec, js) ==
  rec.at \in {"created", "replayed"} =>
    \E j \in js : /\ j.slot = <<rec.wish.project, rec.wish.key>>
                  /\ j.profile = rec.wish.profile /\ j.asset = rec.wish.asset

SetupInv ==
  /\ DOMAIN thing = Things /\ \A i \in Things : Belongs(thing, i)
  /\ DOMAIN work = Callers
  /\ \A c \in Callers : /\ WorkOk(work[c], thing) /\ FreshId(work[c], thing)
                        /\ AnsweredOk(work[c], jobs)
  /\ \A c, d \in Callers : c # d /\ Creates(work[c].wish) /\ Creates(work[d].wish) =>
       work[c].wish.id # work[d].wish.id
  /\ \A j \in jobs : Wired(thing, j.plan, j.slot[1])
  /\ \A s, t \in jobs : s.slot = t.slot => s = t

(* What a write of the rows keeps. *)
Grows(t, u) ==
  \A i \in Things : t[i].kind # "none" =>
    /\ u[i].kind = t[i].kind /\ u[i].project = t[i].project
    /\ t[i].kind = "account" => u[i].platform = t[i].platform
    /\ t[i].kind = "destination" => u[i].account = t[i].account

LEMMA GrowsKeeps ==
  ASSUME NEW t, NEW u, Grows(t, u)
  PROVE  /\ \A p, project : Wired(t, p, project) => Wired(u, p, project)
         /\ \A rec : WorkOk(rec, t) => WorkOk(rec, u)
         /\ \A i \in Things : Belongs(t, i) /\ u[i] = t[i] => Belongs(u, i)
<1>1. \A i, project : /\ IsA(t, i, "account", project) =>
                           IsA(u, i, "account", project) /\ u[i].platform = t[i].platform
                      /\ IsA(t, i, "destination", project) =>
                           IsA(u, i, "destination", project) /\ u[i].account = t[i].account
  BY DEF Grows, IsA
<1>2. \A p, project : Wired(t, p, project) => Wired(u, p, project)
  BY <1>1 DEF Wired
<1>3. \A rec : WorkOk(rec, t) => WorkOk(rec, u)
  BY <1>1, <1>2 DEF WorkOk
<1>4. \A i \in Things : Belongs(t, i) /\ u[i] = t[i] => Belongs(u, i)
  BY <1>1 DEF Belongs, IsA, Absent
<1> QED BY <1>2, <1>3, <1>4

LEMMA SetupInitOk ==
  ASSUME NEW plan, PlanOk(plan), SetupInit(plan) PROVE SetupInv
<1>1. DOMAIN thing = Things /\ DOMAIN work = Callers /\ jobs = {}
  BY DEF SetupInit
<1>2. \A i \in Things : Belongs(thing, i)
  BY DEF SetupInit, PlanOk
<1>3. \A c \in Callers : WorkOk(work[c], thing) /\ AnsweredOk(work[c], jobs)
  BY DEF SetupInit, PlanOk, WorkOk, AnsweredOk, CallAt
<1>4. \A c \in Callers : FreshId(work[c], thing)
  BY DEF SetupInit, PlanOk, FreshId, Creates
<1>5. \A c, d \in Callers : c # d /\ Creates(work[c].wish) /\ Creates(work[d].wish) =>
        work[c].wish.id # work[d].wish.id
  BY DEF SetupInit, PlanOk
<1> QED BY <1>1, <1>2, <1>3, <1>4, <1>5 DEF SetupInv

(* A call goes on; the rows may have grown, a job may have been added.      *)
LEMMA SetupMove ==
  ASSUME SetupInv, NEW c \in Callers, NEW rec, work' = [work EXCEPT ![c] = rec],
         rec.wish = work[c].wish, WorkOk(rec, thing'), FreshId(rec, thing'), AnsweredOk(rec, jobs'),
         DOMAIN thing' = Things, Grows(thing, thing'), \A i \in Things : Belongs(thing, i)',
         \A d \in Callers \ {c} : FreshId(work[d], thing'),
         jobs \subseteq jobs', \A j \in jobs' \ jobs : Wired(thing', j.plan, j.slot[1]),
         \A s, t \in jobs' : s.slot = t.slot => s = t
  PROVE  SetupInv'
<1>1. /\ DOMAIN work' = Callers /\ work'[c] = rec
      /\ \A d \in Callers \ {c} : work'[d] = work[d]
  BY DEF SetupInv
<1>2. \A d \in Callers : WorkOk(work'[d], thing')
  BY <1>1, GrowsKeeps DEF SetupInv
<1>3. \A d \in Callers : FreshId(work'[d], thing') /\ AnsweredOk(work'[d], jobs')
  BY <1>1 DEF SetupInv, AnsweredOk
<1>4. \A d \in Callers : work'[d].wish = work[d].wish
  BY <1>1
<1>5. \A j \in jobs' : Wired(thing', j.plan, j.slot[1])
  BY GrowsKeeps DEF SetupInv
<1> QED BY <1>1, <1>2, <1>3, <1>4, <1>5 DEF SetupInv

LEMMA CallKeeps ==
  ASSUME SetupInv, NEW c \in Callers, NEW rec, work' = [work EXCEPT ![c] = rec],
         rec.wish = work[c].wish, thing' = thing, jobs' = jobs,
         WorkOk(rec, thing), AnsweredOk(rec, jobs),
         work[c].at \notin {"done", "refused"}
  PROVE  SetupInv'
<1>1. Grows(thing, thing')
  BY DEF Grows
<1>2. FreshId(rec, thing')
  BY DEF SetupInv, FreshId
<1> QED BY <1>1, <1>2, SetupMove DEF SetupInv

(* The steps that do not write: `refused' and the steps of another label. *)
LEMMA MovesKeeps ==
  ASSUME SetupInv, NEW c \in Callers, NEW at \in CallAt \ {"created", "replayed"}, Moves(c, at),
         thing' = thing, jobs' = jobs, work[c].at \notin {"done", "refused"},
         WorkOk([work[c] EXCEPT !.at = at], thing)
  PROVE  SetupInv'
<1> DEFINE rec == [work[c] EXCEPT !.at = at]
<1>1. work' = [work EXCEPT ![c] = rec] /\ rec.wish = work[c].wish /\ rec.at = at
  BY DEF Moves, SetupInv, WorkOk
<1>2. AnsweredOk(rec, jobs)
  BY <1>1 DEF AnsweredOk
<1> QED BY <1>1, <1>2, CallKeeps

LEMMA RefusedOk ==
  ASSUME SetupInv, NEW c \in Callers, NEW at \in {"refused", "done", "conflict", "created", "replayed"}
  PROVE  WorkOk([work[c] EXCEPT !.at = at], thing)
<1>1. WorkOk(work[c], thing)
  BY DEF SetupInv
<1> QED BY <1>1 DEF WorkOk, CallAt

LEMMA PassesKeeps ==
  ASSUME SetupInv, NEW c \in Callers, NEW ok \in BOOLEAN,
         NEW at \in {"insert", "account", "destination", "asset"},
         Passes(c, ok, at), thing' = thing, jobs' = jobs, work[c].at \notin {"done", "refused"},
         ok => WorkOk([work[c] EXCEPT !.at = at], thing)
  PROVE  SetupInv'
<1>1. CASE ok
  BY <1>1, MovesKeeps DEF Passes, CallAt
<1>2. CASE ~ok
  BY <1>2, MovesKeeps, RefusedOk DEF Passes, CallAt
<1> QED BY <1>1, <1>2

(* The row of a create. *)
LEMMA StoreKeeps ==
  ASSUME SetupInv, NEW c \in Callers, Creates(Wish(c)), work[c].at = "insert", NEW row, Store(c, row),
         Belongs([thing EXCEPT ![Wish(c).id] = row], Wish(c).id), row.kind # "none"
  PROVE  SetupInv'
<1> DEFINE id == Wish(c).id
           rec == [work[c] EXCEPT !.at = "done"]
<1>1. /\ id \in Things /\ thing[id] = Absent /\ WorkOk(work[c], thing)
      /\ DOMAIN work[c] = {"wish", "at", "plan"}
  BY DEF SetupInv, WorkOk, FreshId, Creates, Wish
<1>2. thing' = [thing EXCEPT ![id] = row] /\ jobs' = jobs /\ work' = [work EXCEPT ![c] = rec]
  BY DEF Store, Moves
<1>3. DOMAIN thing' = Things /\ thing'[id] = row /\ \A i \in Things \ {id} : thing'[i] = thing[i]
  BY <1>1, <1>2 DEF SetupInv
<1>4. Grows(thing, thing')
  BY <1>1, <1>3 DEF Grows, Absent
<1>5. \A i \in Things : Belongs(thing, i)'
  BY <1>2, <1>3, <1>4, GrowsKeeps DEF SetupInv
<1>6. \A d \in Callers \ {c} : FreshId(work[d], thing')
  <2> SUFFICES ASSUME NEW d \in Callers \ {c}, Creates(work[d].wish),
                      work[d].at \notin {"done", "refused"}
               PROVE  thing'[work[d].wish.id] = Absent
    BY DEF FreshId
  <2>1. thing[work[d].wish.id] = Absent /\ work[d].wish.id \in Things /\ work[d].wish.id # id
    BY DEF SetupInv, FreshId, WorkOk, Creates, Wish
  <2> QED BY <1>3, <2>1
<1>7. rec.wish = work[c].wish /\ rec.at = "done"
  BY <1>1
<1>8. WorkOk(rec, thing')
  BY <1>4, GrowsKeeps, RefusedOk
<1>9. FreshId(rec, thing') /\ AnsweredOk(rec, jobs')
  BY <1>7 DEF FreshId, AnsweredOk
<1> QED BY <1>2, <1>3, <1>4, <1>5, <1>6, <1>7, <1>8, <1>9, SetupMove DEF SetupInv

(* The status of a row. *)
LEMMA StatusKeeps ==
  ASSUME SetupInv, NEW c \in Callers, Wish(c).op \notin {"none", "createJob"}, work[c].at = "new",
         NEW kind \in {"account", "destination", "profile"}, SetStatus(c, kind)
  PROVE  SetupInv'
<1> DEFINE id == Wish(c).id
           rec == [work[c] EXCEPT !.at = "done"]
<1>1. id \in Things /\ DOMAIN work[c] = {"wish", "at", "plan"}
  BY DEF SetupInv, WorkOk, Wish
<1>2. CASE ~Found(c, kind, id)
  BY <1>2, MovesKeeps, RefusedOk DEF SetStatus, CallAt
<1>3. CASE Found(c, kind, id)
  <2>1. /\ thing' = [thing EXCEPT ![id].status = Wish(c).status] /\ jobs' = jobs
        /\ work' = [work EXCEPT ![c] = rec]
    BY <1>3 DEF SetStatus, Moves
  <2>2. thing[id].kind = kind /\ Belongs(thing, id)
    BY <1>1, <1>3 DEF Found, SetupInv
  <2>3. /\ DOMAIN thing' = Things /\ \A i \in Things \ {id} : thing'[i] = thing[i]
        /\ thing'[id] = [thing[id] EXCEPT !.status = Wish(c).status]
    BY <1>1, <2>1 DEF SetupInv
  <2>4. /\ DOMAIN thing'[id] = DOMAIN thing[id]
        /\ \A f \in DOMAIN thing[id] : f # "status" => thing'[id][f] = thing[id][f]
    BY <2>3
  <2>5. /\ thing'[id].kind = thing[id].kind /\ thing'[id].project = thing[id].project
        /\ kind \in {"account", "profile"} => thing'[id].platform = thing[id].platform
        /\ kind \in {"destination", "profile"} => thing'[id].account = thing[id].account
        /\ kind = "profile" => thing'[id].destination = thing[id].destination
    BY <2>2, <2>3 DEF Belongs
  <2>6. Grows(thing, thing')
    BY <2>2, <2>3, <2>5 DEF Grows
  <2>7. Belongs(thing', id)
    <3>1. \A i, k, project : IsA(thing, i, k, project) /\ k # "none" => IsA(thing', i, k, project)
      BY <2>6 DEF IsA, Grows
    <3>2. CASE kind = "account"
      BY <2>2, <2>4, <2>5, <3>2 DEF Belongs
    <3>3. CASE kind = "destination"
      BY <2>2, <2>4, <2>5, <3>1, <3>3 DEF Belongs, IsA
    <3>4. CASE kind = "profile"
      BY <2>2, <2>4, <2>5, <2>6, <3>1, <3>4 DEF Belongs, IsA, Grows
    <3> QED BY <3>2, <3>3, <3>4
  <2>8. \A i \in Things : Belongs(thing, i)'
    BY <2>3, <2>6, <2>7, GrowsKeeps DEF SetupInv
  <2>9. \A d \in Callers \ {c} : FreshId(work[d], thing')
    <3> SUFFICES ASSUME NEW d \in Callers \ {c}, Creates(work[d].wish),
                        work[d].at \notin {"done", "refused"}
                 PROVE  thing'[work[d].wish.id] = Absent
      BY DEF FreshId
    <3>1. thing[work[d].wish.id] = Absent /\ work[d].wish.id \in Things
      BY DEF SetupInv, FreshId, WorkOk, Creates
    <3> QED BY <2>2, <2>3, <3>1 DEF Absent
  <2>10. rec.wish = work[c].wish /\ rec.at = "done"
    BY <1>1
  <2>11. WorkOk(rec, thing')
    BY <2>6, GrowsKeeps, RefusedOk
  <2>12. FreshId(rec, thing') /\ AnsweredOk(rec, jobs')
    BY <2>10 DEF FreshId, AnsweredOk
  <2> QED BY <2>1, <2>3, <2>6, <2>8, <2>9, <2>10, <2>11, <2>12, SetupMove DEF SetupInv
<1> QED BY <1>2, <1>3

LEMMA CallFacts ==
  ASSUME SetupInv, NEW c \in Callers
  PROVE  /\ DOMAIN work[c] = {"wish", "at", "plan"} /\ WorkOk(work[c], thing)
         /\ \A at : /\ [work[c] EXCEPT !.at = at].wish = work[c].wish
                    /\ [work[c] EXCEPT !.at = at].at = at
                    /\ [work[c] EXCEPT !.at = at].plan = work[c].plan
                    /\ DOMAIN [work[c] EXCEPT !.at = at] = {"wish", "at", "plan"}
BY DEF SetupInv, WorkOk

LEMMA AccountsKeep ==
  ASSUME SetupInv, NEW c \in Callers, CreateAccount(c) \/ PatchAccount(c) \/ DeleteAccount(c)
  PROVE  SetupInv'
<1>1. CASE Doing(c, "createAccount", "new") /\ Passes(c, Wish(c).platform \in Enabled, "insert")
           /\ UNCHANGED <<thing, asset, jobs>>
  <2> DEFINE ok == Wish(c).platform \in Enabled
  <2>1. Passes(c, ok, "insert") /\ thing' = thing /\ jobs' = jobs /\ ok \in BOOLEAN
    BY <1>1
  <2>2. WorkOk([work[c] EXCEPT !.at = "insert"], thing)
    BY <1>1, CallFacts DEF WorkOk, CallAt, Doing, Wish
  <2> HIDE DEF ok
  <2> QED BY <1>1, <2>1, <2>2, PassesKeeps DEF Doing
<1>2. CASE CreateAccount(c) /\ Doing(c, "createAccount", "insert")
  <2> DEFINE row == [kind |-> "account", project |-> Wish(c).project,
                     platform |-> Wish(c).platform, status |-> Wish(c).status]
  <2>1. Store(c, row) /\ Creates(Wish(c)) /\ work[c].at = "insert"
    BY <1>2 DEF CreateAccount, Doing, Creates
  <2>2. Wish(c).id \in Things
    BY <1>2, CallFacts DEF WorkOk, Doing, Wish
  <2>3. Belongs([thing EXCEPT ![Wish(c).id] = row], Wish(c).id)
    BY <2>2 DEF Belongs, SetupInv
  <2> QED BY <2>1, <2>3, StoreKeeps
<1>3. CASE PatchAccount(c) \/ DeleteAccount(c)
  BY <1>3, StatusKeeps DEF PatchAccount, DeleteAccount, Doing
<1> QED BY <1>1, <1>2, <1>3 DEF CreateAccount

LEMMA DestinationsKeep ==
  ASSUME SetupInv, NEW c \in Callers,
         CreateDestination(c) \/ PatchDestination(c) \/ DeleteDestination(c)
  PROVE  SetupInv'
<1>1. CASE CreateDestination(c) /\ Doing(c, "createDestination", "new")
  <2> DEFINE ok == /\ Found(c, "account", Wish(c).account)
                   /\ thing[Wish(c).account].status \notin {"revoked", "error"}
  <2>1. Passes(c, ok, "insert") /\ thing' = thing /\ jobs' = jobs
    BY <1>1 DEF CreateDestination, Doing
  <2>2. ok => WorkOk([work[c] EXCEPT !.at = "insert"], thing)
    BY <1>1, CallFacts DEF WorkOk, CallAt, Doing, Wish, Found, IsA
  <2> QED BY <1>1, <2>1, <2>2, PassesKeeps DEF Doing
<1>2. CASE CreateDestination(c) /\ Doing(c, "createDestination", "insert")
  <2> DEFINE row == [kind |-> "destination", project |-> Wish(c).project,
                     account |-> Wish(c).account, status |-> Wish(c).status]
  <2>1. Store(c, row) /\ Creates(Wish(c)) /\ work[c].at = "insert"
    BY <1>2 DEF CreateDestination, Doing, Creates
  <2>2. Wish(c).id \in Things /\ IsA(thing, Wish(c).account, "account", Wish(c).project)
    BY <1>2, CallFacts DEF WorkOk, Doing, Wish
  <2>3. thing[Wish(c).id] = Absent
    BY <2>1 DEF SetupInv, FreshId, Wish
  <2>4. Belongs([thing EXCEPT ![Wish(c).id] = row], Wish(c).id)
    BY <2>2, <2>3 DEF Belongs, SetupInv, IsA, Absent
  <2> QED BY <2>1, <2>4, StoreKeeps
<1>3. CASE PatchDestination(c) \/ DeleteDestination(c)
  BY <1>3, StatusKeeps DEF PatchDestination, DeleteDestination, Doing
<1> QED BY <1>1, <1>2, <1>3 DEF CreateDestination

LEMMA ProfilesKeep ==
  ASSUME SetupInv, NEW c \in Callers, CreateProfile(c) \/ PatchProfile(c) \/ DeleteProfile(c)
  PROVE  SetupInv'
<1>1. CASE CreateProfile(c) /\ Doing(c, "createProfile", "new")
  <2> DEFINE ok == Wish(c).platform \in Enabled
  <2>1. Passes(c, ok, "account") /\ thing' = thing /\ jobs' = jobs /\ ok \in BOOLEAN
    BY <1>1 DEF CreateProfile, Doing
  <2>2. WorkOk([work[c] EXCEPT !.at = "account"], thing)
    BY <1>1, CallFacts DEF WorkOk, CallAt, Doing, Wish
  <2> HIDE DEF ok
  <2> QED BY <1>1, <2>1, <2>2, PassesKeeps DEF Doing
<1>2. CASE CreateProfile(c) /\ Doing(c, "createProfile", "account")
  <2> DEFINE ok == /\ Found(c, "account", Wish(c).account)
                   /\ thing[Wish(c).account].platform = Wish(c).platform
  <2>1. Passes(c, ok, "destination") /\ thing' = thing /\ jobs' = jobs
    BY <1>2 DEF CreateProfile, Doing
  <2>2. ok => WorkOk([work[c] EXCEPT !.at = "destination"], thing)
    BY <1>2, CallFacts DEF WorkOk, CallAt, Doing, Wish, Found, IsA
  <2> QED BY <1>2, <2>1, <2>2, PassesKeeps DEF Doing
<1>3. CASE CreateProfile(c) /\ Doing(c, "createProfile", "destination")
  <2> DEFINE ok == /\ Found(c, "destination", Wish(c).destination)
                   /\ thing[Wish(c).destination].account = Wish(c).account
  <2>1. Passes(c, ok, "insert") /\ thing' = thing /\ jobs' = jobs
    BY <1>3 DEF CreateProfile, Doing
  <2>2. ok => WorkOk([work[c] EXCEPT !.at = "insert"], thing)
    BY <1>3, CallFacts DEF WorkOk, CallAt, Doing, Wish, Found, IsA
  <2> QED BY <1>3, <2>1, <2>2, PassesKeeps DEF Doing
<1>4. CASE CreateProfile(c) /\ Doing(c, "createProfile", "insert")
  <2> DEFINE row == [kind |-> "profile", project |-> Wish(c).project, platform |-> Wish(c).platform,
                     account |-> Wish(c).account, destination |-> Wish(c).destination,
                     status |-> Wish(c).status]
  <2>1. Store(c, row) /\ Creates(Wish(c)) /\ work[c].at = "insert"
    BY <1>4 DEF CreateProfile, Doing, Creates
  <2>2. Wish(c).id \in Things
    BY <1>4, CallFacts DEF WorkOk, Doing, Wish
  <2>3. /\ IsA(thing, Wish(c).account, "account", Wish(c).project)
        /\ thing[Wish(c).account].platform = Wish(c).platform
        /\ IsA(thing, Wish(c).destination, "destination", Wish(c).project)
        /\ thing[Wish(c).destination].account = Wish(c).account
    BY <1>4, CallFacts DEF WorkOk, Doing, Wish
  <2>4. thing[Wish(c).id] = Absent
    BY <2>1 DEF SetupInv, FreshId, Wish
  <2>5. Belongs([thing EXCEPT ![Wish(c).id] = row], Wish(c).id)
    BY <2>2, <2>3, <2>4 DEF Belongs, SetupInv, IsA, Absent
  <2> QED BY <2>1, <2>5, StoreKeeps
<1>5. CASE PatchProfile(c) \/ DeleteProfile(c)
  BY <1>5, StatusKeeps DEF PatchProfile, DeleteProfile, Doing
<1> QED BY <1>1, <1>2, <1>3, <1>4, <1>5 DEF CreateProfile

(* The answer from the job under the key.                                   *)
LEMMA ReplayKeeps ==
  ASSUME SetupInv, NEW c \in Callers, Replay(c), thing' = thing, jobs' = jobs,
         work[c].at \notin {"done", "refused"}
  PROVE  SetupInv'
<1>1. PICK at \in {"replayed", "conflict"} :
        /\ Moves(c, at)
        /\ at = "replayed" =>
             \E j \in JobsAt(Slot(c)) : j.profile = Wish(c).profile /\ j.asset = Wish(c).asset
  BY DEF Replay
<1> DEFINE rec == [work[c] EXCEPT !.at = at]
<1>2. work' = [work EXCEPT ![c] = rec] /\ rec.wish = work[c].wish /\ rec.at = at
  BY <1>1, CallFacts DEF Moves
<1>3. AnsweredOk(rec, jobs)
  BY <1>1, <1>2 DEF AnsweredOk, JobsAt, Slot, Wish
<1> QED BY <1>2, <1>3, RefusedOk, CallKeeps

LEMMA JobsKeep == ASSUME SetupInv, NEW c \in Callers, CreateJob(c) PROVE SetupInv'
<1> USE DEF Doing
<1>1. CASE LookUpKey(c)
  <2>1. CASE Replay(c)
    BY <1>1, <2>1, ReplayKeeps DEF LookUpKey
  <2>2. CASE Moves(c, "profile")
    <3>1. WorkOk([work[c] EXCEPT !.at = "profile"], thing)
      BY <1>1, CallFacts DEF LookUpKey, WorkOk, CallAt, Wish
    <3> QED BY <1>1, <2>2, <3>1, MovesKeeps DEF LookUpKey, CallAt
  <2> QED BY <1>1, <2>1, <2>2 DEF LookUpKey
<1>2. CASE ResolveProfile(c)
  <2> DEFINE id == Wish(c).profile
             plan == [platform |-> thing[id].platform, account |-> thing[id].account,
                      destination |-> thing[id].destination]
             rec == [work[c] EXCEPT !.at = "account", !.plan = plan]
  <2>1. CASE Found(c, "profile", id) /\ work' = [work EXCEPT ![c].at = "account", ![c].plan = plan]
    <3>1. /\ work' = [work EXCEPT ![c] = rec] /\ DOMAIN rec = {"wish", "at", "plan"}
          /\ rec.wish = work[c].wish /\ rec.at = "account" /\ rec.plan = plan
      BY <2>1, CallFacts
    <3>2. id \in Things /\ Wish(c).op = "createJob"
      BY <1>2, CallFacts DEF ResolveProfile, WorkOk, Wish
    <3>3. Wired(thing, plan, Wish(c).project)
      BY <2>1, <3>2 DEF SetupInv, Belongs, Wired, IsA, Found
    <3>4. WorkOk(rec, thing)
      BY <3>1, <3>2, <3>3 DEF WorkOk, CallAt, Wish
    <3>5. AnsweredOk(rec, jobs)
      BY <3>1 DEF AnsweredOk
    <3> HIDE DEF rec
    <3> QED BY <1>2, <3>1, <3>4, <3>5, CallKeeps DEF ResolveProfile
  <2>2. CASE Moves(c, "refused")
    BY <1>2, <2>2, MovesKeeps, RefusedOk DEF ResolveProfile, CallAt
  <2> QED BY <1>2, <2>1, <2>2 DEF ResolveProfile
<1>3. CASE ResolveAccount(c)
  <2> DEFINE a == work[c].plan.account
             ok == Found(c, "account", a) /\ thing[a].status \notin {"revoked", "error"}
  <2>1. Passes(c, ok, "destination") /\ thing' = thing /\ jobs' = jobs /\ ok \in BOOLEAN
    BY <1>3 DEF ResolveAccount
  <2>2. WorkOk([work[c] EXCEPT !.at = "destination"], thing)
    BY <1>3, CallFacts DEF ResolveAccount, WorkOk, CallAt, Wish
  <2> HIDE DEF ok
  <2> QED BY <1>3, <2>1, <2>2, PassesKeeps DEF ResolveAccount
<1>4. CASE ResolveDestination(c)
  <2> DEFINE ok == Found(c, "destination", work[c].plan.destination)
  <2>1. Passes(c, ok, "asset") /\ thing' = thing /\ jobs' = jobs /\ ok \in BOOLEAN
    BY <1>4 DEF ResolveDestination, Found
  <2>2. WorkOk([work[c] EXCEPT !.at = "asset"], thing)
    BY <1>4, CallFacts DEF ResolveDestination, WorkOk, CallAt, Wish
  <2> HIDE DEF ok
  <2> QED BY <1>4, <2>1, <2>2, PassesKeeps DEF ResolveDestination
<1>5. CASE ResolveAsset(c)
  <2> DEFINE ok == asset[Wish(c).asset] = "available"
  <2>1. Passes(c, ok, "insert") /\ thing' = thing /\ jobs' = jobs /\ ok \in BOOLEAN
    BY <1>5 DEF ResolveAsset
  <2>2. WorkOk([work[c] EXCEPT !.at = "insert"], thing)
    BY <1>5, CallFacts DEF ResolveAsset, WorkOk, CallAt, Wish
  <2> HIDE DEF ok
  <2> QED BY <1>5, <2>1, <2>2, PassesKeeps DEF ResolveAsset
<1>6. CASE InsertJob(c)
  <2>1. CASE JobsAt(Slot(c)) = {} /\ jobs' = jobs \union {NewJob(c)} /\ Moves(c, "created")
    <3> DEFINE rec == [work[c] EXCEPT !.at = "created"]
    <3>1. work' = [work EXCEPT ![c] = rec] /\ rec.wish = work[c].wish /\ rec.at = "created"
      BY <2>1, CallFacts DEF Moves
    <3>2. /\ NewJob(c).slot = <<Wish(c).project, Wish(c).key>> /\ NewJob(c).plan = work[c].plan
          /\ NewJob(c).profile = Wish(c).profile /\ NewJob(c).asset = Wish(c).asset
      BY DEF NewJob, Slot
    <3>3. Wired(thing, NewJob(c).plan, NewJob(c).slot[1])
      BY <1>6, <3>2, CallFacts DEF InsertJob, WorkOk, Wish
    <3>4. AnsweredOk(rec, jobs')
      BY <2>1, <3>1, <3>2 DEF AnsweredOk, Wish
    <3>5. FreshId(rec, thing')
      BY <1>6, <3>1 DEF InsertJob, FreshId, Creates, Wish
    <3>6. \A s, t \in jobs' : s.slot = t.slot => s = t
      BY <2>1, <3>2 DEF SetupInv, JobsAt, Slot
    <3>7. thing' = thing
      BY <1>6 DEF InsertJob
    <3>8. WorkOk(rec, thing)
      BY RefusedOk
    <3>9. Grows(thing, thing')
      BY <3>7 DEF Grows
    <3> HIDE DEF rec
    <3> QED BY <2>1, <3>1, <3>3, <3>4, <3>5, <3>6, <3>7, <3>8, <3>9, SetupMove DEF SetupInv
  <2>2. CASE Replay(c) /\ jobs' = jobs
    BY <1>6, <2>2, ReplayKeeps DEF InsertJob
  <2> QED BY <1>6, <2>1, <2>2 DEF InsertJob
<1> QED BY <1>1, <1>2, <1>3, <1>4, <1>5, <1>6 DEF CreateJob

LEMMA SetupStay == ASSUME SetupInv, thing' = thing, jobs' = jobs, work' = work PROVE SetupInv'
BY DEF SetupInv

LEMMA SetupStepKeeps == ASSUME SetupInv, SetupNext PROVE SetupInv'
BY AccountsKeep, DestinationsKeep, ProfilesKeep, JobsKeep, SetupStay DEF SetupNext, DropAsset

LEMMA SetupMean == ASSUME SetupInv PROVE SetupTypeOK /\ JobIsWired /\ KeyNamesOneRequest
<1>1. SetupTypeOK
  BY DEF SetupInv, SetupTypeOK, WorkOk, CallAt, Belongs, Absent
<1>2. JobIsWired
  BY DEF SetupInv, JobIsWired, Wired, IsA
<1>3. KeyNamesOneRequest
  BY DEF SetupInv, KeyNamesOneRequest, AnsweredOk, JobsAt, Slot, Wish
<1> QED BY <1>1, <1>2, <1>3

-----------------------------------------------------------------------------
(* TranslationGovernance.  A version and the additions under way account    *)
(* for the entries; comments and edits come from calls that are done.       *)
Behind(f, k) == {c \in Calls : /\ f[c].ask.op = "entry" /\ f[c].ask.code = k
                               /\ f[c].at \in {"inserted", "lost"}}
Commented(f) == {c \in Calls : f[c].ask.op = "changes" /\ f[c].at = "done"}
Statuses == {"none", "draft", "reviewed", "approved", "retired"}
Accounts(g, e, b) ==
  IF g.status = "none" THEN e = {} ELSE g.version + Cardinality(b) = 1 + Cardinality(e)
AskOk(rec, g, done, n) ==
  /\ DOMAIN rec = {"ask", "at", "read", "seen", "base"}
  /\ rec.ask.code \in Codes /\ rec.ask.term \in Terms
  /\ rec.at \in {"new", "sent", "open", "free", "inserted", "lost"} \union Answers
  /\ rec.ask.op \in {"entry", "approveGlossary"} /\ rec.at \in {"open", "free", "inserted", "lost"} =>
       g[rec.ask.code].status # "none"
  /\ rec.read \subseteq done
  /\ rec.ask.op = "limits" /\ rec.at = "sent" => rec.seen = rec.base /\ rec.seen <= n
  /\ rec.seen \in Nat
BudgetOk(b, f) ==
  /\ b.edits \in Seq(Calls) /\ b.version = Len(b.edits)
  /\ \A i \in 1 .. Len(b.edits) : f[b.edits[i]].base = i - 1 /\ f[b.edits[i]].at = "done"
ReviewOk(v, done) ==
  /\ v.status \in {"assigned", "in_review", "changes_requested"} \union Concluded
  /\ v.comments \subseteq done /\ DOMAIN v = {"status", "comments"}

GovInv ==
  /\ glossary \in [Codes -> [status : Statuses, version : Nat]]
  /\ entries \in [Codes -> SUBSET Terms]
  /\ \A k \in Codes : Accounts(glossary[k], entries[k], Behind(call, k))
  /\ ReviewOk(review, Commented(call))
  /\ DOMAIN call = Calls
  /\ \A c \in Calls : AskOk(call[c], glossary, Commented(call), budget.version)
  /\ BudgetOk(budget, call)

LEMMA GovInitOk ==
  ASSUME NEW agenda, AgendaOk(agenda), GovernanceInit(agenda) PROVE GovInv
<1>1. /\ glossary \in [Codes -> [status : Statuses, version : Nat]]
      /\ entries \in [Codes -> SUBSET Terms] /\ DOMAIN call = Calls
  BY DEF GovernanceInit, AgendaOk, Statuses
<1>2. \A k \in Codes : Behind(call, k) = {}
  BY DEF GovernanceInit, Behind
<1>3. \A k \in Codes : Accounts(glossary[k], entries[k], Behind(call, k))
  BY <1>2, FS_EmptySet DEF GovernanceInit, Accounts
<1>4. \A c \in Calls : AskOk(call[c], glossary, Commented(call), budget.version)
  BY DEF GovernanceInit, AgendaOk, AskOk
<1>5. ReviewOk(review, Commented(call)) /\ BudgetOk(budget, call)
  BY DEF GovernanceInit, ReviewOk, BudgetOk
<1> QED BY <1>1, <1>3, <1>4, <1>5 DEF GovInv

(* A call that is not over goes on.                                         *)
LEMMA GovMove ==
  ASSUME GovInv, NEW c \in Calls, NEW rec, call' = [call EXCEPT ![c] = rec],
         rec.ask = call[c].ask, call[c].at \notin Answers,
         glossary' \in [Codes -> [status : Statuses, version : Nat]],
         entries' \in [Codes -> SUBSET Terms],
         \A k \in Codes : glossary[k].status # "none" => glossary'[k].status # "none",
         \A k \in Codes : Accounts(glossary'[k], entries'[k], Behind(call', k)),
         AskOk(rec, glossary', Commented(call'), budget'.version),
         ReviewOk(review', Commented(call)) \/ ReviewOk(review', Commented(call')),
         \/ budget' = budget
         \/ budget.version \in Nat /\ budget'.version = budget.version + 1 /\ BudgetOk(budget', call')
  PROVE  GovInv'
<1>1. /\ DOMAIN call' = Calls /\ call'[c] = rec
      /\ \A d \in Calls \ {c} : call'[d] = call[d]
  BY DEF GovInv
<1>2. Commented(call) \subseteq Commented(call')
  BY <1>1 DEF Commented, Answers
<1>3. budget.version \in Nat /\ budget'.version \in Nat /\ budget.version <= budget'.version
  BY DEF GovInv, BudgetOk
<1>4. \A d \in Calls \ {c} : AskOk(call'[d], glossary', Commented(call'), budget'.version)
  <2> SUFFICES ASSUME NEW d \in Calls \ {c}
               PROVE  AskOk(call[d], glossary', Commented(call'), budget'.version)
    BY <1>1
  <2>1. AskOk(call[d], glossary, Commented(call), budget.version)
    BY DEF GovInv
  <2>2. call[d].ask.op = "limits" /\ call[d].at = "sent" => call[d].seen <= budget'.version
    BY <1>3, <2>1 DEF AskOk
  <2>3. call[d].ask.op \in {"entry", "approveGlossary"}
          /\ call[d].at \in {"open", "free", "inserted", "lost"} =>
          glossary'[call[d].ask.code].status # "none"
    BY <2>1 DEF AskOk
  <2> QED BY <1>2, <2>1, <2>2, <2>3 DEF AskOk
<1>5. ReviewOk(review', Commented(call'))
  BY <1>2 DEF ReviewOk
<1>6. BudgetOk(budget', call')
  <2>1. CASE budget' = budget
    <3>1. BudgetOk(budget, call)
      BY DEF GovInv
    <3>2. \A i \in 1 .. Len(budget.edits) : budget.edits[i] \in Calls /\ budget.edits[i] # c
      BY <3>1 DEF BudgetOk, Answers
    <3> QED BY <1>1, <2>1, <3>1, <3>2 DEF BudgetOk
  <2> QED BY <2>1
<1> QED BY <1>1, <1>4, <1>5, <1>6 DEF GovInv

(* Nothing is counted and nothing is written but the call.                  *)
LEMMA BehindStays ==
  ASSUME GovInv, NEW c \in Calls, NEW rec, call' = [call EXCEPT ![c] = rec],
         rec.ask = call[c].ask,
         \/ call[c].ask.op # "entry"
         \/ rec.at \in {"inserted", "lost"} <=> call[c].at \in {"inserted", "lost"}
  PROVE  \A k \in Codes : Behind(call', k) = Behind(call, k)
<1>1. DOMAIN call' = Calls /\ call'[c] = rec /\ \A d \in Calls \ {c} : call'[d] = call[d]
  BY DEF GovInv
<1> QED BY <1>1 DEF Behind

LEMMA CallStepKeeps ==
  ASSUME GovInv, NEW c \in Calls, NEW rec, call' = [call EXCEPT ![c] = rec],
         rec.ask = call[c].ask, call[c].at \notin Answers,
         \/ call[c].ask.op # "entry"
         \/ rec.at \in {"inserted", "lost"} <=> call[c].at \in {"inserted", "lost"},
         AskOk(rec, glossary, Commented(call), budget.version),
         glossary' = glossary, entries' = entries, budget' = budget,
         ReviewOk(review', Commented(call)) \/ ReviewOk(review', Commented(call'))
  PROVE  GovInv'
<1>1. DOMAIN call' = Calls /\ call'[c] = rec /\ \A d \in Calls \ {c} : call'[d] = call[d]
  BY DEF GovInv
<1>2. Commented(call) \subseteq Commented(call')
  BY <1>1 DEF Commented, Answers
<1>3. AskOk(rec, glossary', Commented(call'), budget'.version)
  BY <1>2 DEF AskOk
<1>4. \A k \in Codes : Accounts(glossary'[k], entries'[k], Behind(call', k))
  BY BehindStays DEF GovInv
<1> QED BY <1>3, <1>4, GovMove DEF GovInv

LEMMA GoesFacts ==
  ASSUME GovInv, NEW c \in Calls, NEW at, Goes(c, at)
  PROVE  \E rec : /\ call' = [call EXCEPT ![c] = rec]
                  /\ rec.ask = call[c].ask /\ rec.at = at /\ rec.read = call[c].read
                  /\ rec.seen = call[c].seen /\ rec.base = call[c].base
                  /\ DOMAIN rec = {"ask", "at", "read", "seen", "base"}
<1> DEFINE rec == [call[c] EXCEPT !.at = at]
<1>1. DOMAIN call[c] = {"ask", "at", "read", "seen", "base"}
  BY DEF GovInv, AskOk
<1>2. /\ call' = [call EXCEPT ![c] = rec]
      /\ rec.ask = call[c].ask /\ rec.at = at /\ rec.read = call[c].read
      /\ rec.seen = call[c].seen /\ rec.base = call[c].base
      /\ DOMAIN rec = {"ask", "at", "read", "seen", "base"}
  BY <1>1 DEF Goes
<1> QED BY <1>2

(* A call goes on and nothing is written.                                   *)
LEMMA GoesKeeps ==
  ASSUME GovInv, NEW c \in Calls, call[c].at \notin Answers \union {"inserted", "lost"},
         NEW at \in {"new", "open", "free"} \union Answers, Goes(c, at),
         at \in {"open", "free"} /\ call[c].ask.op \in {"entry", "approveGlossary"} =>
           glossary[call[c].ask.code].status # "none",
         glossary' = glossary, entries' = entries, budget' = budget,
         ReviewOk(review', Commented(call)) \/ ReviewOk(review', Commented(call'))
  PROVE  GovInv'
<1>1. PICK rec : /\ call' = [call EXCEPT ![c] = rec]
                 /\ rec.ask = call[c].ask /\ rec.at = at /\ rec.read = call[c].read
                 /\ rec.seen = call[c].seen /\ rec.base = call[c].base
                 /\ DOMAIN rec = {"ask", "at", "read", "seen", "base"}
  BY GoesFacts
<1>2. AskOk(call[c], glossary, Commented(call), budget.version)
  BY DEF GovInv
<1>3. AskOk(rec, glossary, Commented(call), budget.version)
  BY <1>1, <1>2 DEF AskOk, Answers
<1>4. rec.at \in {"inserted", "lost"} <=> call[c].at \in {"inserted", "lost"}
  BY <1>1 DEF Answers
<1> QED BY <1>1, <1>3, <1>4, CallStepKeeps

LEMMA GlossariesKeep == ASSUME GovInv, NEW c \in Calls, CreateGlossary(c) PROVE GovInv'
<1> DEFINE code == call[c].ask.code
<1>0. code \in Codes /\ AskOk(call[c], glossary, Commented(call), budget.version)
      /\ ReviewOk(review, Commented(call))
  BY DEF GovInv, AskOk
<1>1. CASE FindCode(c)
  <2>1. PICK at \in {"free", "conflict"} : Goes(c, at)
    BY <1>1 DEF FindCode
  <2> QED BY <1>0, <1>1, <2>1, GoesKeeps DEF FindCode, At, Asks, Answers
<1>2. CASE InsertGlossary(c) /\ glossary[code].status # "none"
  BY <1>0, <1>2, GoesKeeps DEF InsertGlossary, At, Asks, Answers
<1>3. CASE InsertGlossary(c) /\ glossary[code].status = "none"
  <2>1. PICK rec : /\ call' = [call EXCEPT ![c] = rec]
                   /\ rec.ask = call[c].ask /\ rec.at = "done" /\ rec.read = call[c].read
                   /\ rec.seen = call[c].seen /\ rec.base = call[c].base
                   /\ DOMAIN rec = {"ask", "at", "read", "seen", "base"}
    BY <1>3, GoesFacts DEF InsertGlossary
  <2>2. /\ glossary' = [glossary EXCEPT ![code] = [status |-> "draft", version |-> 1]]
        /\ entries' = entries /\ review' = review /\ budget' = budget
        /\ call[c].ask.op = "create" /\ call[c].at = "free"
    BY <1>3 DEF InsertGlossary, At, Asks
  <2>3. \A k \in Codes : Behind(call', k) = Behind(call, k)
    BY <2>1, <2>2, BehindStays
  <2>4. Behind(call, code) = {}
    BY <1>3 DEF GovInv, AskOk, Behind
  <2>5. entries[code] = {}
    BY <1>0, <1>3 DEF GovInv, Accounts
  <2>6. \A k \in Codes : Accounts(glossary'[k], entries'[k], Behind(call', k))
    <3>1. ASSUME NEW k \in Codes \ {code} PROVE Accounts(glossary'[k], entries'[k], Behind(call', k))
      BY <2>2, <2>3 DEF GovInv
    <3>2. glossary'[code] = [status |-> "draft", version |-> 1]
      BY <1>0, <2>2 DEF GovInv
    <3>3. Accounts(glossary'[code], entries'[code], Behind(call', code))
      BY <1>0, <2>2, <2>3, <2>4, <2>5, <3>2, FS_EmptySet DEF Accounts
    <3> QED BY <3>1, <3>3
  <2>7. glossary' \in [Codes -> [status : Statuses, version : Nat]]
    BY <2>2 DEF GovInv, Statuses
  <2>8. \A k \in Codes : glossary[k].status # "none" => glossary'[k].status # "none"
    BY <1>3, <2>2 DEF GovInv
  <2>9. Commented(call) \subseteq Commented(call')
    BY <2>1, <2>2 DEF Commented, GovInv
  <2>10. AskOk(rec, glossary', Commented(call'), budget'.version)
    BY <1>0, <2>1, <2>2, <2>9 DEF AskOk, Answers
  <2>11. entries' \in [Codes -> SUBSET Terms] /\ call[c].at \notin Answers
    BY <2>2 DEF GovInv, Answers
  <2>12. ReviewOk(review', Commented(call))
    BY <1>0, <2>2
  <2> QED BY <2>1, <2>2, <2>6, <2>7, <2>8, <2>10, <2>11, <2>12, GovMove
<1> QED BY <1>1, <1>2, <1>3 DEF CreateGlossary

LEMMA EntriesKeep == ASSUME GovInv, NEW c \in Calls, AddEntry(c) PROVE GovInv'
<1> DEFINE code == call[c].ask.code
           term == call[c].ask.term
<1>0. /\ code \in Codes /\ term \in Terms /\ ReviewOk(review, Commented(call))
      /\ AskOk(call[c], glossary, Commented(call), budget.version)
  BY DEF GovInv, AskOk
<1>1. CASE ReadGlossary(c)
  <2>1. PICK at \in {"notFound", "conflict", "open"} :
          Goes(c, at) /\ (at = "open" => glossary[code].status # "none")
    BY <1>1 DEF ReadGlossary
  <2> QED BY <1>0, <1>1, <2>1, GoesKeeps DEF ReadGlossary, At, Asks, Answers
<1>2. CASE ReadTerm(c)
  <2>1. PICK at \in {"conflict", "free"} : Goes(c, at)
    BY <1>2 DEF ReadTerm
  <2>2. glossary[code].status # "none"
    BY <1>0, <1>2 DEF ReadTerm, At, Asks, AskOk
  <2> QED BY <1>0, <1>2, <2>1, <2>2, GoesKeeps DEF ReadTerm, At, Asks, Answers
<1>3. CASE InsertEntry(c) /\ term \in entries[code]
  <2>1. entries' = entries
    BY <1>0, <1>3 DEF InsertEntry, GovInv
  <2> QED BY <1>0, <1>3, <2>1, GoesKeeps DEF InsertEntry, At, Asks, Answers
<1>4. ASSUME NEW at, NEW n \in {0, 1}, call[c].ask.op = "entry", call[c].at \in {"free", "inserted"},
             at = IF n = 0 THEN "inserted" ELSE "done",
             call[c].at = IF n = 0 THEN "free" ELSE "inserted", Goes(c, at),
             n = 0 => /\ term \notin entries[code] /\ glossary' = glossary
                      /\ entries' = [entries EXCEPT ![code] = @ \union {term}],
             n = 1 => /\ entries' = entries
                      /\ glossary' = [glossary EXCEPT ![code].version = @ + 1],
             review' = review, budget' = budget
      PROVE  GovInv'
  <2>1. PICK rec : /\ call' = [call EXCEPT ![c] = rec]
                   /\ rec.ask = call[c].ask /\ rec.at = at /\ rec.read = call[c].read
                   /\ rec.seen = call[c].seen /\ rec.base = call[c].base
                   /\ DOMAIN rec = {"ask", "at", "read", "seen", "base"}
    BY <1>4, GoesFacts
  <2>2. DOMAIN call' = Calls /\ call'[c] = rec /\ \A d \in Calls \ {c} : call'[d] = call[d]
    BY <2>1 DEF GovInv
  <2>3. glossary[code].status # "none" /\ glossary[code].version \in Nat
    BY <1>0, <1>4 DEF AskOk, GovInv
  <2>4. /\ \A k \in Codes \ {code} : /\ glossary'[k] = glossary[k] /\ entries'[k] = entries[k]
                                     /\ Behind(call', k) = Behind(call, k)
        /\ glossary'[code].status = glossary[code].status
    BY <1>0, <1>4, <2>1, <2>2 DEF GovInv, Behind
  <2>5. Accounts(glossary'[code], entries'[code], Behind(call', code))
    <3>0. /\ IsFiniteSet(entries[code]) /\ IsFiniteSet(Behind(call, code))
          /\ Cardinality(entries[code]) \in Nat /\ Cardinality(Behind(call, code)) \in Nat
      <4>1. IsFiniteSet(entries[code])
        BY <1>0, FS_Subset, GovernanceAssumption DEF GovInv
      <4>2. IsFiniteSet(Behind(call, code))
        BY FS_Subset, GovernanceAssumption DEF Behind
      <4> QED BY <4>1, <4>2, FS_CardinalityType
    <3>1. glossary[code].version + Cardinality(Behind(call, code)) = 1 + Cardinality(entries[code])
      BY <1>0, <2>3 DEF GovInv, Accounts
    <3>2. CASE n = 0
      <4>1. Behind(call', code) = Behind(call, code) \union {c} /\ c \notin Behind(call, code)
        BY <1>4, <2>1, <2>2, <3>2 DEF Behind
      <4>2. entries'[code] = entries[code] \union {term} /\ term \notin entries[code]
        BY <1>0, <1>4, <3>2 DEF GovInv
      <4>3. /\ Cardinality(Behind(call', code)) = Cardinality(Behind(call, code)) + 1
            /\ Cardinality(entries'[code]) = Cardinality(entries[code]) + 1
        BY <3>0, <4>1, <4>2, FS_AddElement
      <4> QED BY <1>4, <2>3, <3>0, <3>1, <3>2, <4>3 DEF Accounts
    <3>3. CASE n = 1
      <4>1. Behind(call', code) = Behind(call, code) \ {c} /\ c \in Behind(call, code)
        BY <1>4, <2>1, <2>2, <3>3 DEF Behind
      <4>2. Cardinality(Behind(call', code)) = Cardinality(Behind(call, code)) - 1
        BY <3>0, <4>1, FS_RemoveElement
      <4>3. entries'[code] = entries[code] /\ glossary'[code].version = glossary[code].version + 1
        BY <1>0, <1>4, <3>3 DEF GovInv
      <4> QED BY <2>3, <2>4, <3>0, <3>1, <4>2, <4>3 DEF Accounts
    <3> QED BY <3>2, <3>3
  <2>6. \A k \in Codes : Accounts(glossary'[k], entries'[k], Behind(call', k))
    BY <2>4, <2>5 DEF GovInv
  <2>7. glossary' \in [Codes -> [status : Statuses, version : Nat]]
    <3>1. CASE n = 0
      BY <1>4, <3>1 DEF GovInv
    <3>2. CASE n = 1
      <4>1. glossary[code] \in [status : Statuses, version : Nat]
        BY <1>0 DEF GovInv
      <4>2. glossary[code].version + 1 \in Nat
        BY <2>3
      <4>3. [glossary[code] EXCEPT !.version = @ + 1] \in [status : Statuses, version : Nat]
        BY <4>1, <4>2
      <4>4. glossary' = [glossary EXCEPT ![code] = [glossary[code] EXCEPT !.version = @ + 1]]
        BY <1>4, <3>2
      <4> QED BY <4>3, <4>4 DEF GovInv
    <3> QED BY <3>1, <3>2
  <2>8. entries' \in [Codes -> SUBSET Terms]
    BY <1>0, <1>4 DEF GovInv
  <2>9. \A k \in Codes : glossary[k].status # "none" => glossary'[k].status # "none"
    BY <2>4
  <2>10. Commented(call) \subseteq Commented(call')
    BY <1>4, <2>2 DEF Commented
  <2>11. AskOk(rec, glossary', Commented(call'), budget'.version)
    BY <1>0, <1>4, <2>1, <2>3, <2>4, <2>10 DEF AskOk, Answers
  <2>12. ReviewOk(review', Commented(call)) /\ call[c].at \notin Answers
    BY <1>0, <1>4 DEF Answers
  <2> QED BY <1>4, <2>1, <2>6, <2>7, <2>8, <2>9, <2>11, <2>12, GovMove
<1>5. CASE InsertEntry(c) /\ term \notin entries[code]
  BY <1>4, <1>5 DEF InsertEntry, At, Asks
<1>6. CASE BumpVersion(c)
  BY <1>4, <1>6 DEF BumpVersion, At, Asks
<1> QED BY <1>1, <1>2, <1>3, <1>5, <1>6 DEF AddEntry

LEMMA ApprovalsKeep == ASSUME GovInv, NEW c \in Calls, ApproveGlossary(c) PROVE GovInv'
<1> DEFINE code == call[c].ask.code
<1>0. code \in Codes /\ AskOk(call[c], glossary, Commented(call), budget.version)
      /\ ReviewOk(review, Commented(call))
  BY DEF GovInv, AskOk
<1>1. CASE At(c, "approveGlossary", "new")
  <2>1. PICK at \in {"notFound", "conflict", "open"} :
          Goes(c, at) /\ (at = "open" => glossary[code].status # "none")
    BY <1>1 DEF ApproveGlossary, At
  <2> QED BY <1>0, <1>1, <2>1, GoesKeeps DEF ApproveGlossary, At, Asks, Answers
<1>2. CASE At(c, "approveGlossary", "open")
  <2>1. PICK rec : /\ call' = [call EXCEPT ![c] = rec]
                   /\ rec.ask = call[c].ask /\ rec.at = "done" /\ rec.read = call[c].read
                   /\ rec.seen = call[c].seen /\ rec.base = call[c].base
                   /\ DOMAIN rec = {"ask", "at", "read", "seen", "base"}
    BY <1>2, GoesFacts DEF ApproveGlossary, At
  <2>2. /\ glossary' = [glossary EXCEPT ![code].status = "approved"]
        /\ entries' = entries /\ review' = review /\ budget' = budget
        /\ call[c].ask.op = "approveGlossary" /\ call[c].at = "open"
    BY <1>2 DEF ApproveGlossary, At, Asks
  <2>3. \A k \in Codes : Behind(call', k) = Behind(call, k)
    BY <2>1, <2>2, BehindStays
  <2>4. glossary[code].status # "none" /\ glossary[code] \in [status : Statuses, version : Nat]
    BY <1>0, <2>2 DEF AskOk, GovInv
  <2>5. glossary'[code] = [glossary[code] EXCEPT !.status = "approved"]
    BY <1>0, <2>2 DEF GovInv
  <2>6. \A k \in Codes : Accounts(glossary'[k], entries'[k], Behind(call', k))
    <3>1. ASSUME NEW k \in Codes \ {code} PROVE Accounts(glossary'[k], entries'[k], Behind(call', k))
      BY <2>2, <2>3 DEF GovInv
    <3>2. Accounts(glossary'[code], entries'[code], Behind(call', code))
      BY <1>0, <2>2, <2>3, <2>4, <2>5 DEF GovInv, Accounts
    <3> QED BY <3>1, <3>2
  <2>7. glossary' \in [Codes -> [status : Statuses, version : Nat]]
    BY <2>2 DEF GovInv, Statuses
  <2>8. \A k \in Codes : glossary[k].status # "none" => glossary'[k].status # "none"
    BY <2>2 DEF GovInv
  <2>9. Commented(call) \subseteq Commented(call')
    BY <2>1, <2>2 DEF Commented, GovInv
  <2>10. AskOk(rec, glossary', Commented(call'), budget'.version)
    BY <1>0, <2>1, <2>2, <2>9 DEF AskOk, Answers
  <2>11. entries' \in [Codes -> SUBSET Terms] /\ call[c].at \notin Answers
    BY <2>2 DEF GovInv, Answers
  <2>12. ReviewOk(review', Commented(call))
    BY <1>0, <2>2
  <2> QED BY <2>1, <2>2, <2>6, <2>7, <2>8, <2>10, <2>11, <2>12, GovMove
<1> QED BY <1>1, <1>2 DEF ApproveGlossary

LEMMA ReviewsKeep ==
  ASSUME GovInv, NEW c \in Calls,
         StartReview(c) \/ RequestChanges(c) \/ ApproveReview(c) \/ RejectReview(c)
  PROVE  GovInv'
<1>0. /\ ReviewOk(review, Commented(call))
      /\ AskOk(call[c], glossary, Commented(call), budget.version)
  BY DEF GovInv
<1>1. ASSUME NEW from, NEW to \in {"in_review", "approved", "rejected"}, MoveReview(c, from, to)
      PROVE  GovInv'
  <2>1. PICK at \in {"done", "conflict"} :
          Goes(c, at) /\ review' \in {review, [review EXCEPT !.status = to]}
    BY <1>1 DEF MoveReview
  <2>2. ReviewOk(review', Commented(call))
    BY <1>0, <2>1 DEF ReviewOk, Concluded
  <2> QED BY <1>1, <2>1, <2>2, GoesKeeps DEF MoveReview, Answers
<1>2. CASE ReadReview(c)
  <2> DEFINE at == IF review.status = "in_review" THEN "open" ELSE "conflict"
             rec == [call[c] EXCEPT !.at = at, !.read = review.comments]
  <2>1. /\ call' = [call EXCEPT ![c] = rec]
        /\ rec.ask = call[c].ask /\ rec.at = at /\ rec.read = review.comments
        /\ rec.seen = call[c].seen /\ DOMAIN rec = {"ask", "at", "read", "seen", "base"}
    BY <1>0, <1>2 DEF ReadReview, AskOk
  <2>2. call[c].ask.op = "changes" /\ call[c].at = "new"
    BY <1>2 DEF ReadReview, At, Asks
  <2>3. AskOk(rec, glossary, Commented(call), budget.version)
    BY <1>0, <2>1, <2>2 DEF AskOk, ReviewOk, Answers
  <2> HIDE DEF rec
  <2> QED BY <1>0, <1>2, <2>1, <2>2, <2>3, CallStepKeeps DEF ReadReview, Answers
<1>3. CASE WriteChanges(c)
  <2>1. /\ call[c].ask.op = "changes" /\ call[c].at = "open" /\ Goes(c, "done")
        /\ review' = [status |-> "changes_requested", comments |-> call[c].read \union {c}]
    BY <1>3 DEF WriteChanges, At, Asks
  <2>2. Commented(call) \union {c} \subseteq Commented(call')
    BY <1>0, <2>1 DEF Goes, Commented, GovInv, AskOk
  <2>3. ReviewOk(review', Commented(call'))
    BY <1>0, <2>1, <2>2 DEF ReviewOk, AskOk
  <2> QED BY <1>3, <2>1, <2>3, GoesKeeps DEF WriteChanges, Answers
<1> QED BY <1>1, <1>2, <1>3 DEF StartReview, RequestChanges, ApproveReview, RejectReview

LEMMA LimitsKeep == ASSUME GovInv, NEW c \in Calls, LoadBudget(c) \/ PutBudget(c) PROVE GovInv'
<1>0. /\ ReviewOk(review, Commented(call)) /\ BudgetOk(budget, call)
      /\ AskOk(call[c], glossary, Commented(call), budget.version)
  BY DEF GovInv
<1>1. CASE LoadBudget(c)
  <2> DEFINE rec == [call[c] EXCEPT !.at = "sent", !.seen = budget.version,
                                    !.base = Len(budget.edits)]
  <2>1. /\ call' = [call EXCEPT ![c] = rec]
        /\ rec.ask = call[c].ask /\ rec.at = "sent" /\ rec.read = call[c].read
        /\ rec.seen = budget.version /\ rec.base = Len(budget.edits)
        /\ DOMAIN rec = {"ask", "at", "read", "seen", "base"}
    BY <1>0, <1>1 DEF LoadBudget, AskOk
  <2>2. call[c].ask.op = "limits" /\ call[c].at = "new"
    BY <1>1 DEF LoadBudget, At, Asks
  <2>3. AskOk(rec, glossary, Commented(call), budget.version)
    BY <1>0, <2>1, <2>2 DEF AskOk, BudgetOk
  <2> HIDE DEF rec
  <2> QED BY <1>0, <1>1, <2>1, <2>2, <2>3, CallStepKeeps DEF LoadBudget, Answers
<1>2. CASE PutBudget(c) /\ Goes(c, "conflict") /\ budget' = budget
  BY <1>0, <1>2, GoesKeeps DEF PutBudget, At, Asks, Answers
<1>3. CASE /\ PutBudget(c) /\ Goes(c, "done") /\ budget.version \in {0, call[c].seen}
           /\ budget' = [version |-> budget.version + 1, edits |-> Append(budget.edits, c)]
  <2>1. PICK rec : /\ call' = [call EXCEPT ![c] = rec]
                   /\ rec.ask = call[c].ask /\ rec.at = "done" /\ rec.read = call[c].read
                   /\ rec.seen = call[c].seen /\ rec.base = call[c].base
                   /\ DOMAIN rec = {"ask", "at", "read", "seen", "base"}
    BY <1>3, GoesFacts
  <2>2. /\ call[c].ask.op = "limits" /\ call[c].at = "sent"
        /\ glossary' = glossary /\ entries' = entries /\ review' = review
    BY <1>3 DEF PutBudget, At, Asks
  <2>3. DOMAIN call' = Calls /\ call'[c] = rec /\ \A d \in Calls \ {c} : call'[d] = call[d]
    BY <2>1 DEF GovInv
  <2>4. call[c].base = Len(budget.edits) /\ budget.version \in Nat
    <3>1. budget.version = Len(budget.edits) /\ Len(budget.edits) \in Nat
      BY <1>0 DEF BudgetOk
    <3>2. call[c].seen = call[c].base /\ call[c].seen <= budget.version /\ call[c].seen \in Nat
      BY <1>0, <2>2 DEF AskOk
    <3> QED BY <1>3, <3>1, <3>2
  <2>5. BudgetOk(budget', call')
    <3>1. /\ budget'.edits \in Seq(Calls) /\ Len(budget'.edits) = Len(budget.edits) + 1
          /\ budget'.edits[Len(budget.edits) + 1] = c
          /\ \A i \in 1 .. Len(budget.edits) : budget'.edits[i] = budget.edits[i]
      BY <1>0, <1>3 DEF BudgetOk
    <3>2. \A i \in 1 .. Len(budget.edits) : budget.edits[i] \in Calls /\ budget.edits[i] # c
      BY <1>0, <2>2 DEF BudgetOk
    <3>3. ASSUME NEW i \in 1 .. Len(budget'.edits)
          PROVE  call'[budget'.edits[i]].base = i - 1 /\ call'[budget'.edits[i]].at = "done"
      <4>1. CASE i = Len(budget.edits) + 1
        <5>1. budget'.edits[i] = c
          BY <3>1, <4>1
        <5>2. rec.base = i - 1
          BY <1>0, <2>1, <2>4, <4>1 DEF BudgetOk
        <5> QED BY <2>1, <2>3, <5>1, <5>2
      <4>2. CASE i # Len(budget.edits) + 1
        <5>1. i \in 1 .. Len(budget.edits)
          BY <1>0, <3>1, <4>2 DEF BudgetOk
        <5> QED BY <1>0, <2>3, <3>1, <3>2, <5>1 DEF BudgetOk
      <4> QED BY <4>1, <4>2
    <3>4. budget'.version = Len(budget'.edits)
      BY <1>0, <1>3, <3>1 DEF BudgetOk
    <3> QED BY <3>1, <3>3, <3>4 DEF BudgetOk
  <2>6. \A k \in Codes : Accounts(glossary'[k], entries'[k], Behind(call', k))
    BY <2>1, <2>2, BehindStays DEF GovInv
  <2>7. Commented(call) \subseteq Commented(call')
    BY <2>2, <2>3 DEF Commented
  <2>8. AskOk(rec, glossary', Commented(call'), budget'.version)
    BY <1>0, <2>1, <2>2, <2>7 DEF AskOk, Answers
  <2> QED BY <1>0, <1>3, <2>1, <2>2, <2>4, <2>5, <2>6, <2>8, GovMove DEF GovInv, Answers
<1> QED BY <1>1, <1>2, <1>3 DEF PutBudget

LEMMA CrashKeeps == ASSUME GovInv, NEW c \in Calls, CrashCall(c) PROVE GovInv'
<1> DEFINE at == IF call[c].at = "inserted" THEN "lost" ELSE "error"
<1>0. /\ ReviewOk(review, Commented(call)) /\ DOMAIN call = Calls
      /\ AskOk(call[c], glossary, Commented(call), budget.version)
  BY DEF GovInv
<1>1. call[c].at \in {"free", "open", "inserted"} /\ Goes(c, at)
  BY <1>0 DEF CrashCall, Goes
<1>2. PICK rec : /\ call' = [call EXCEPT ![c] = rec]
                 /\ rec.ask = call[c].ask /\ rec.at = at /\ rec.read = call[c].read
                 /\ rec.seen = call[c].seen /\ rec.base = call[c].base
                 /\ DOMAIN rec = {"ask", "at", "read", "seen", "base"}
  BY <1>1, GoesFacts
<1>3. AskOk(rec, glossary, Commented(call), budget.version)
  BY <1>0, <1>1, <1>2 DEF AskOk, Answers
<1>4. rec.at \in {"inserted", "lost"} <=> call[c].at \in {"inserted", "lost"}
  BY <1>1, <1>2
<1> QED BY <1>0, <1>1, <1>2, <1>3, <1>4, CallStepKeeps DEF CrashCall, Answers

LEMMA GovStepKeeps == ASSUME GovInv, GovernanceNext PROVE GovInv'
BY GlossariesKeep, EntriesKeep, ApprovalsKeep, ReviewsKeep, LimitsKeep, CrashKeeps
   DEF GovernanceNext

LEMMA GovStay == ASSUME GovInv, UNCHANGED governanceVars PROVE GovInv'
BY DEF GovInv, governanceVars, Behind, Commented, BudgetOk

LEMMA GovMean == ASSUME GovInv PROVE GovernanceTypeOK /\ VersionCountsEntries /\ BudgetChain
<1>1. GovernanceTypeOK
  BY DEF GovInv, GovernanceTypeOK, Statuses, ReviewOk, Commented, BudgetOk, AskOk, At, Asks
<1>2. VersionCountsEntries
  BY DEF GovInv, VersionCountsEntries, Accounts, Behind
<1>3. BudgetChain
  BY DEF GovInv, BudgetChain, BudgetOk
<1> QED BY <1>1, <1>2, <1>3

-----------------------------------------------------------------------------
(* ProfileSettings.  While an author's version is the version of the row,   *)
(* the author has seen all its edits; an update that has written its row    *)
(* holds the lock on exactly that version.  What a transaction takes the    *)
(* flag from are profiles of its table, and it sets the flag of its own.    *)
EditOk(rec, t) ==
  LET b == rec.body
  IN  /\ DOMAIN rec = {"body", "at", "tries", "seen", "base", "found", "cleared"}
      /\ rec.at \in Waiting \union Open \union Ended \union {"sent"}
      /\ b.row \in Rows /\ b.flag \in {"yes", "no", None}
      /\ rec.found \union rec.cleared \subseteq Rows \ {b.row}
      /\ \A q \in rec.found \union rec.cleared : b.flag = "yes" /\ t[q].table = b.table
      /\ b.op = "update" => t[b.row].table = b.table
      /\ b.op = "update" /\ rec.at \in Open \union {"sent"} =>
           /\ rec.seen \in Nat /\ rec.seen <= t[b.row].version
           /\ rec.seen = t[b.row].version => rec.base = Len(t[b.row].edits)
      /\ b.op = "update" /\ rec.at = "written" => rec.seen = t[b.row].version
      /\ b.op = "create" /\ rec.at # "saved" => ~t[b.row].on
      /\ rec.at = "written" => b.op \in {"create", "update"}
RowOk(row) == /\ DOMAIN row = DOMAIN Blank
              /\ row.version \in Nat /\ row.on \in BOOLEAN /\ row.edits \in Seq(Requests)
ChainOk(row, f) ==
  \A i \in 1 .. Len(row.edits) : f[row.edits[i]].base = i - 1 /\ f[row.edits[i]].at = "saved"
LockOk(h, rec, q, r) ==
  h[q] = r <=> \/ q \in rec.cleared
               \/ rec.at = "written" /\ q = rec.body.row
Claims(rec) == IF rec.body.op = "create" /\ rec.at # "saved" THEN {rec.body.row} ELSE {}

ProfilesInv ==
  /\ DOMAIN rows = Rows /\ \A q \in Rows : RowOk(rows[q]) /\ ChainOk(rows[q], edit)
  /\ DOMAIN edit = Requests /\ \A r \in Requests : EditOk(edit[r], rows)
  /\ holder \in [Rows -> Requests \union {None}]
  /\ \A q \in Rows, r \in Requests : LockOk(holder, edit[r], q, r)
  /\ \A r, s \in Requests : r # s /\ edit[r].body.op = "create" =>
       edit[s].body.row # edit[r].body.row
  /\ \A r, s \in Requests : Claims(edit[r]) \cap (edit[s].found \union edit[s].cleared) = {}

LEMMA ProfilesInitOk ==
  ASSUME NEW sheet, SheetOk(sheet), SettingsInit(sheet) PROVE ProfilesInv
<1>1. DOMAIN rows = Rows /\ DOMAIN edit = Requests /\ holder \in [Rows -> Requests \union {None}]
  BY DEF SettingsInit
<1>2. \A q \in Rows : RowOk(rows[q]) /\ rows[q].edits = <<>>
  <2> SUFFICES ASSUME NEW q \in Rows PROVE RowOk(rows[q]) /\ rows[q].edits = <<>>
    OBVIOUS
  <2>1. CASE q \in DOMAIN sheet.rows
    <3>1. rows[q] = sheet.rows[q]
      BY <2>1 DEF SettingsInit
    <3>2. sheet.rows[q].edits = <<>> /\ <<>> \in Seq(Requests)
      BY <2>1 DEF SheetOk
    <3>3. /\ DOMAIN sheet.rows[q] = DOMAIN Blank
          /\ sheet.rows[q].version \in Nat /\ sheet.rows[q].on \in BOOLEAN
      BY <2>1 DEF SheetOk
    <3> QED BY <3>1, <3>2, <3>3 DEF RowOk
  <2>2. CASE q \notin DOMAIN sheet.rows
    <3>1. rows[q] = Blank
      BY <2>2 DEF SettingsInit
    <3>2. Blank.version \in Nat /\ Blank.on \in BOOLEAN /\ Blank.edits = <<>>
      BY DEF Blank
    <3>3. <<>> \in Seq(Requests)
      OBVIOUS
    <3> QED BY <3>1, <3>2, <3>3 DEF RowOk
  <2> QED BY <2>1, <2>2
<1>3. \A q \in Rows : ChainOk(rows[q], edit)
  BY <1>2 DEF ChainOk
<1>4. \A r \in Requests : /\ edit[r] = Fresh(sheet.bodies[r])
                          /\ DOMAIN edit[r] = {"body", "at", "tries", "seen", "base", "found", "cleared"}
                          /\ edit[r].at = "new" /\ edit[r].found = {} /\ edit[r].cleared = {}
                          /\ edit[r].body = sheet.bodies[r]
  BY DEF SettingsInit, Fresh
<1>5. \A r \in Requests : EditOk(edit[r], rows)
  <2> SUFFICES ASSUME NEW r \in Requests PROVE EditOk(edit[r], rows)
    OBVIOUS
  <2> DEFINE b == sheet.bodies[r]
  <2>1. b.op = "update" => rows[b.row].table = b.table
    BY DEF SettingsInit, SheetOk
  <2>2. b.op = "create" => ~rows[b.row].on
    BY DEF SettingsInit, SheetOk, Blank
  <2>3. b.row \in Rows /\ b.flag \in {"yes", "no", None}
    BY DEF SheetOk
  <2> QED BY <1>4, <2>1, <2>2, <2>3 DEF EditOk, Waiting, Open
<1>6. \A q \in Rows, r \in Requests : LockOk(holder, edit[r], q, r)
  BY <1>4, SettingsAssumption DEF SettingsInit, LockOk
<1>7. \A r, s \in Requests : r # s /\ edit[r].body.op = "create" =>
        edit[s].body.row # edit[r].body.row
  BY <1>4 DEF SheetOk
<1> QED BY <1>1, <1>2, <1>3, <1>4, <1>5, <1>6, <1>7 DEF ProfilesInv

(* A request goes on and no row is written.                                 *)
LEMMA EditMove ==
  ASSUME ProfilesInv, NEW r \in Requests, NEW rec, edit' = [edit EXCEPT ![r] = rec],
         rec.body = edit[r].body, edit[r].at # "saved", rec.at # "saved",
         rows' = rows, EditOk(rec, rows), rec.cleared \subseteq edit[r].cleared \union edit[r].found,
         \A q \in rec.found : q \in edit[r].found \/ rows[q].on,
         holder' \in [Rows -> Requests \union {None}],
         \A q \in Rows : LockOk(holder', rec, q, r),
         \A q \in Rows, s \in Requests \ {r} : holder'[q] = s <=> holder[q] = s
  PROVE  ProfilesInv'
<1>1. DOMAIN edit' = Requests /\ edit'[r] = rec /\ \A s \in Requests \ {r} : edit'[s] = edit[s]
  BY DEF ProfilesInv
<1>2. \A q \in Rows : ChainOk(rows[q], edit)'
  <2> SUFFICES ASSUME NEW q \in Rows, NEW i \in 1 .. Len(rows[q].edits)
               PROVE  LET e == rows[q].edits[i] IN edit'[e].base = i - 1 /\ edit'[e].at = "saved"
    BY DEF ChainOk
  <2>1. /\ rows[q].edits[i] \in Requests
        /\ edit[rows[q].edits[i]].base = i - 1 /\ edit[rows[q].edits[i]].at = "saved"
    BY DEF ProfilesInv, RowOk, ChainOk
  <2> QED BY <1>1, <2>1
<1>3. \A s \in Requests : EditOk(edit'[s], rows')
  BY <1>1 DEF ProfilesInv
<1>4. \A q \in Rows, s \in Requests : LockOk(holder', edit'[s], q, s)
  <2> SUFFICES ASSUME NEW q \in Rows, NEW s \in Requests \ {r} PROVE LockOk(holder', edit'[s], q, s)
    BY <1>1
  <2>1. LockOk(holder, edit[s], q, s)
    BY DEF ProfilesInv
  <2> QED BY <1>1, <2>1 DEF LockOk
<1>5. \A s \in Requests : edit'[s].body = edit[s].body /\ Claims(edit'[s]) \subseteq Claims(edit[s])
  BY <1>1 DEF Claims
<1>6. \A s \in Requests, q \in Rows : q \in Claims(edit[s]) => ~rows[q].on
  BY DEF ProfilesInv, EditOk, Claims
<1>7. ASSUME NEW s, NEW t \in Requests, s \in Requests
      PROVE  Claims(edit'[s]) \cap (edit'[t].found \union edit'[t].cleared) = {}
  <2>1. Claims(edit[s]) \cap (edit[t].found \union edit[t].cleared) = {}
    BY <1>7 DEF ProfilesInv
  <2>2. CASE t # r
    BY <1>1, <1>5, <1>7, <2>1, <2>2
  <2>3. CASE t = r
    <3>1. rec.found \subseteq Rows
      BY DEF EditOk
    <3> QED BY <1>1, <1>5, <1>6, <1>7, <2>1, <2>3, <3>1
  <2> QED BY <2>2, <2>3
<1>8. \A s, t \in Requests : s # t /\ edit'[s].body.op = "create" =>
        edit'[t].body.row # edit'[s].body.row
  BY <1>5 DEF ProfilesInv
<1>9. \A q \in Rows : RowOk(rows'[q])
  BY DEF ProfilesInv
<1> QED BY <1>1, <1>2, <1>3, <1>4, <1>7, <1>8, <1>9 DEF ProfilesInv

LEMMA EditFacts ==
  ASSUME ProfilesInv, NEW r \in Requests
  PROVE  /\ EditOk(edit[r], rows)
         /\ DOMAIN edit[r] = {"body", "at", "tries", "seen", "base", "found", "cleared"}
         /\ \A q \in Rows : LockOk(holder, edit[r], q, r)
         /\ r # None /\ holder \in [Rows -> Requests \union {None}]
BY SettingsAssumption DEF ProfilesInv, EditOk

LEMMA LoadKeeps == ASSUME ProfilesInv, NEW r \in Requests, Load(r) PROVE ProfilesInv'
<1> DEFINE row == rows[Target(r)]
           rec == [edit[r] EXCEPT !.at = "sent", !.tries = @ + 1,
                                  !.seen = row.version, !.base = Len(row.edits)]
<1>1. /\ edit' = [edit EXCEPT ![r] = rec] /\ rec.body = edit[r].body /\ rec.at = "sent"
      /\ rec.found = edit[r].found /\ rec.cleared = edit[r].cleared
      /\ rec.seen = row.version /\ rec.base = Len(row.edits)
      /\ DOMAIN rec = {"body", "at", "tries", "seen", "base", "found", "cleared"}
  BY EditFacts DEF Load
<1>2. edit[r].at \in {"new", "conflict"} /\ rows' = rows /\ holder' = holder
  BY DEF Load, Waiting
<1>3. row.version \in Nat /\ row = rows[edit[r].body.row]
  BY EditFacts DEF ProfilesInv, EditOk, RowOk, Target, Body
<1> HIDE DEF rec, row
<1>4. EditOk(rec, rows)
  BY <1>1, <1>2, <1>3, EditFacts DEF EditOk
<1>5. \A q \in Rows : LockOk(holder', rec, q, r)
  BY <1>1, <1>2, EditFacts DEF LockOk
<1> QED BY <1>1, <1>2, <1>4, <1>5, EditMove, EditFacts

(* The steps that change nothing of a request but its place.                *)
LEMMA PlaceKeeps ==
  ASSUME ProfilesInv, NEW r \in Requests, NEW at \in {"open", "checked", "refused"},
         edit[r].at \in {"sent", "open"},
         edit' = [edit EXCEPT ![r].at = at], rows' = rows, holder' = holder
  PROVE  ProfilesInv'
<1> DEFINE rec == [edit[r] EXCEPT !.at = at]
<1>1. /\ edit' = [edit EXCEPT ![r] = rec] /\ rec.body = edit[r].body /\ rec.at = at
      /\ rec.found = edit[r].found /\ rec.cleared = edit[r].cleared
      /\ rec.seen = edit[r].seen /\ rec.base = edit[r].base
      /\ DOMAIN rec = {"body", "at", "tries", "seen", "base", "found", "cleared"}
  BY EditFacts
<1> HIDE DEF rec
<1>2. EditOk(rec, rows)
  BY <1>1, EditFacts DEF EditOk, Open, Ended
<1>3. \A q \in Rows : LockOk(holder', rec, q, r)
  BY <1>1, EditFacts DEF LockOk
<1> QED BY <1>1, <1>2, <1>3, EditMove, EditFacts

LEMMA RollbackKeeps ==
  ASSUME ProfilesInv, NEW r \in Requests, NEW at \in {"conflict", "failed"},
         Rollback(r, at), edit[r].at # "saved"
  PROVE  ProfilesInv'
<1> DEFINE rec == [edit[r] EXCEPT !.at = at, !.found = {}, !.cleared = {}]
<1>1. /\ edit' = [edit EXCEPT ![r] = rec] /\ rec.body = edit[r].body /\ rec.at = at
      /\ rec.found = {} /\ rec.cleared = {}
      /\ DOMAIN rec = {"body", "at", "tries", "seen", "base", "found", "cleared"}
  BY EditFacts DEF Rollback
<1> HIDE DEF rec
<1>2. EditOk(rec, rows)
  BY <1>1, EditFacts DEF EditOk, Open, Ended
<1>3. \A q \in Rows : LockOk(holder', rec, q, r)
  BY <1>1, EditFacts DEF LockOk, Rollback
<1>4. \A q \in Rows, s \in Requests \ {r} : holder'[q] = s <=> holder[q] = s
  BY EditFacts, SettingsAssumption DEF Rollback
<1>5. holder' \in [Rows -> Requests \union {None}] /\ rows' = rows
  BY EditFacts DEF Rollback
<1> QED BY <1>1, <1>2, <1>3, <1>4, <1>5, EditMove

LEMMA ReadVersionKeeps == ASSUME ProfilesInv, NEW r \in Requests, ReadVersion(r) PROVE ProfilesInv'
<1>1. CASE Rollback(r, "conflict")
  BY <1>1, RollbackKeeps DEF ReadVersion
<1>2. CASE edit' = [edit EXCEPT ![r].at = "checked"] /\ UNCHANGED <<rows, holder>>
  BY <1>2, PlaceKeeps DEF ReadVersion
<1> QED BY <1>1, <1>2 DEF ReadVersion

LEMMA FindKeeps == ASSUME ProfilesInv, NEW r \in Requests, FindDefaults(r) PROVE ProfilesInv'
<1> DEFINE found == IF Body(r).flag # "yes" \/ Body(r).table = "style" THEN {}
                    ELSE {q \in Rows \ {Target(r)} : rows[q].table = Body(r).table /\ rows[q].on}
           rec == [edit[r] EXCEPT !.at = "clear", !.found = found]
<1>1. /\ edit' = [edit EXCEPT ![r] = rec] /\ rec.body = edit[r].body /\ rec.at = "clear"
      /\ rec.found = found /\ rec.cleared = edit[r].cleared
      /\ rec.seen = edit[r].seen /\ rec.base = edit[r].base
      /\ DOMAIN rec = {"body", "at", "tries", "seen", "base", "found", "cleared"}
  BY EditFacts DEF FindDefaults
<1>2. /\ \A q \in found : /\ q \in Rows \ {edit[r].body.row} /\ rows[q].on
                          /\ edit[r].body.flag = "yes" /\ rows[q].table = edit[r].body.table
      /\ edit[r].at = "checked" /\ rows' = rows /\ holder' = holder
  BY DEF FindDefaults, Body, Target
<1> HIDE DEF rec, found
<1>3. EditOk(rec, rows)
  BY <1>1, <1>2, EditFacts DEF EditOk, Open
<1>4. \A q \in Rows : LockOk(holder', rec, q, r)
  BY <1>1, <1>2, EditFacts DEF LockOk
<1> QED BY <1>1, <1>2, <1>3, <1>4, EditMove, EditFacts

LEMMA UnsetKeeps == ASSUME ProfilesInv, NEW r \in Requests, UnsetDefault(r) PROVE ProfilesInv'
<1>0. edit[r].at = "clear" /\ rows' = rows
  BY DEF UnsetDefault
<1>1. PICK q \in edit[r].found :
        /\ holder[q] = None
        /\ edit' = [edit EXCEPT ![r].found = @ \ {q},
             ![r].cleared = IF rows[q].on THEN @ \union {q} ELSE @]
        /\ holder' = [holder EXCEPT ![q] = IF rows[q].on THEN r ELSE None]
  BY DEF UnsetDefault
<1> DEFINE cleared == IF rows[q].on THEN edit[r].cleared \union {q} ELSE edit[r].cleared
           rec == [edit[r] EXCEPT !.found = edit[r].found \ {q}, !.cleared = cleared]
<1>2. /\ edit' = [edit EXCEPT ![r] = rec] /\ rec.body = edit[r].body /\ rec.at = "clear"
      /\ rec.found = edit[r].found \ {q} /\ rec.cleared = cleared
      /\ rec.seen = edit[r].seen /\ rec.base = edit[r].base
      /\ DOMAIN rec = {"body", "at", "tries", "seen", "base", "found", "cleared"}
  BY <1>0, <1>1, EditFacts
<1>3. q \in Rows /\ q \notin edit[r].cleared /\ q \in edit[r].found
  <2>1. q \in edit[r].found /\ edit[r].found \subseteq Rows
    BY <1>1, EditFacts DEF EditOk
  <2>2. q \in edit[r].cleared => holder[q] = r
    BY <2>1, EditFacts DEF LockOk
  <2> QED BY <1>1, <2>1, <2>2, EditFacts
<1>4. cleared \subseteq edit[r].cleared \union {q} /\ edit[r].cleared \subseteq cleared
  OBVIOUS
<1>5. \A p \in Rows : holder'[p] = IF p = q THEN IF rows[q].on THEN r ELSE None ELSE holder[p]
  BY <1>1, <1>3, EditFacts
<1>6. \A p \in Rows : p \in cleared <=> p \in edit[r].cleared \/ (p = q /\ rows[q].on)
  OBVIOUS
<1> HIDE DEF rec, cleared
<1>7. EditOk(rec, rows)
  BY <1>0, <1>2, <1>3, <1>4, EditFacts DEF EditOk, Open
<1>8. \A p \in Rows : LockOk(holder', rec, p, r)
  <2> SUFFICES ASSUME NEW p \in Rows
               PROVE  holder'[p] = r <=> p \in cleared
    BY <1>2 DEF LockOk
  <2>1. holder[p] = r <=> p \in edit[r].cleared
    BY <1>0, EditFacts DEF LockOk
  <2> QED BY <1>3, <1>5, <1>6, <2>1, EditFacts
<1>9. holder' \in [Rows -> Requests \union {None}]
      /\ \A p \in Rows, s \in Requests \ {r} : holder'[p] = s <=> holder[p] = s
  BY <1>1, <1>3, EditFacts, SettingsAssumption
<1>10. /\ rec.cleared \subseteq edit[r].cleared \union edit[r].found
       /\ \A p \in rec.found : p \in edit[r].found
  BY <1>2, <1>3, <1>4
<1> QED BY <1>0, <1>2, <1>7, <1>8, <1>9, <1>10, EditMove

(* Insert and UpdateVersion: the row is written under its lock.             *)
LEMMA WriteKeeps ==
  ASSUME ProfilesInv, NEW r \in Requests, edit[r].at = "clear",
         holder[Target(r)] = None, holder' = [holder EXCEPT ![Target(r)] = r],
         edit' = [edit EXCEPT ![r].at = "written"], rows' = rows,
         edit[r].body.op \in {"create", "update"},
         edit[r].body.op = "update" => rows[Target(r)].version = edit[r].seen
  PROVE  ProfilesInv'
<1> DEFINE rec == [edit[r] EXCEPT !.at = "written"]
<1>1. /\ edit' = [edit EXCEPT ![r] = rec] /\ rec.body = edit[r].body /\ rec.at = "written"
      /\ rec.found = edit[r].found /\ rec.cleared = edit[r].cleared
      /\ rec.seen = edit[r].seen /\ rec.base = edit[r].base
      /\ DOMAIN rec = {"body", "at", "tries", "seen", "base", "found", "cleared"}
  BY EditFacts
<1>2. Target(r) = edit[r].body.row /\ Target(r) \in Rows
  BY EditFacts DEF EditOk, Target, Body
<1> HIDE DEF rec
<1>3. EditOk(rec, rows)
  BY <1>1, <1>2, EditFacts DEF EditOk, Open
<1>4. \A q \in Rows : LockOk(holder', rec, q, r)
  BY <1>1, <1>2, EditFacts DEF LockOk
<1>5. holder' \in [Rows -> Requests \union {None}]
      /\ \A q \in Rows, s \in Requests \ {r} : holder'[q] = s <=> holder[q] = s
  BY <1>2, EditFacts, SettingsAssumption
<1> QED BY <1>1, <1>3, <1>4, <1>5, EditMove

LEMMA InsertRowKeeps ==
  ASSUME ProfilesInv, NEW r \in Requests, Insert(r), Body(r).op = "create" PROVE ProfilesInv'
<1>1. /\ Target(r) \in Rows /\ Target(r) = edit[r].body.row /\ edit[r].body.op = "create"
      /\ edit[r].at = "clear"
  BY EditFacts DEF EditOk, Target, Body, Insert
<1>2. holder[Target(r)] = None
  <2> SUFFICES ASSUME NEW s \in Requests, holder[Target(r)] = s PROVE FALSE
    BY <1>1, EditFacts
  <2>1. \/ Target(r) \in edit[s].cleared
        \/ edit[s].at = "written" /\ Target(r) = edit[s].body.row
    BY <1>1 DEF ProfilesInv, LockOk
  <2>2. Target(r) \notin edit[s].cleared
    BY <1>1 DEF ProfilesInv, Claims
  <2>3. s = r
    BY <1>1, <2>1, <2>2 DEF ProfilesInv
  <2> QED BY <1>1, <2>1, <2>2, <2>3
<1> QED BY <1>1, <1>2, WriteKeeps DEF Insert

LEMMA UpdateKeeps ==
  ASSUME ProfilesInv, NEW r \in Requests, UpdateVersion(r), Body(r).op = "update"
  PROVE  ProfilesInv'
<1>1. CASE Rollback(r, "conflict")
  BY <1>1, RollbackKeeps DEF UpdateVersion
<1>2. CASE rows[Target(r)].version = edit[r].seen /\ rows' = rows
           /\ edit' = [edit EXCEPT ![r].at = "written"]
           /\ holder' = [holder EXCEPT ![Target(r)] = r]
  BY <1>2, WriteKeeps DEF UpdateVersion, Body
<1> QED BY <1>1, <1>2 DEF UpdateVersion

(* The rows a commit leaves.                                                *)
LEMMA CommitFacts ==
  ASSUME ProfilesInv, NEW r \in Requests, Commit(r)
  PROVE  LET b == edit[r].body
             e == rows[b.row].edits
         IN  /\ edit[r].at = "written" /\ b.row \in Rows /\ holder[b.row] = r
             /\ b.op \in {"create", "update"}
             /\ DOMAIN rows' = Rows
             /\ \A q \in Rows \ {b.row} :
                  /\ rows'[q].table = rows[q].table /\ rows'[q].version = rows[q].version
                  /\ rows'[q].edits = rows[q].edits /\ DOMAIN rows'[q] = DOMAIN Blank
                  /\ rows'[q].on = (rows[q].on /\ q \notin edit[r].cleared)
             /\ DOMAIN rows'[b.row] = DOMAIN Blank
             /\ rows'[b.row].table = b.table /\ rows'[b.row].version = rows[b.row].version + 1
             /\ rows'[b.row].edits = IF b.op = "update" THEN Append(e, r) ELSE e
             /\ rows'[b.row].on \in BOOLEAN
             /\ b.flag = "yes" => rows'[b.row].on = TRUE
             /\ b.flag = None /\ b.table # "style" => rows'[b.row].on = rows[b.row].on
<1> DEFINE b == edit[r].body
<1>1. /\ edit[r].at = "written" /\ b.row \in Rows /\ b.op \in {"create", "update"}
      /\ holder[b.row] = r /\ b.row \notin edit[r].cleared
  BY EditFacts DEF Commit, EditOk, LockOk
<1>2. \A q \in Rows : /\ rows'[q] = CASE q = b.row -> Written(r)
                                      [] q \in edit[r].cleared -> [rows[q] EXCEPT !.on = FALSE]
                                      [] OTHER -> rows[q]
  BY DEF Commit, Target, Body
<1>3. DOMAIN rows' = Rows
  BY DEF Commit
<1>4. \A q \in Rows \ {b.row} :
        /\ rows'[q].table = rows[q].table /\ rows'[q].version = rows[q].version
        /\ rows'[q].edits = rows[q].edits /\ DOMAIN rows'[q] = DOMAIN Blank
        /\ rows'[q].on = (rows[q].on /\ q \notin edit[r].cleared)
  <2> SUFFICES ASSUME NEW q \in Rows \ {b.row}
               PROVE  /\ rows'[q].table = rows[q].table /\ rows'[q].version = rows[q].version
                      /\ rows'[q].edits = rows[q].edits /\ DOMAIN rows'[q] = DOMAIN Blank
                      /\ rows'[q].on = (rows[q].on /\ q \notin edit[r].cleared)
    OBVIOUS
  <2>0. RowOk(rows[q])
    BY DEF ProfilesInv
  <2>1. CASE q \in edit[r].cleared
    <3>1. rows'[q] = [rows[q] EXCEPT !.on = FALSE]
      BY <1>2, <2>1
    <3> QED BY <2>0, <2>1, <3>1 DEF RowOk, Blank
  <2>2. CASE q \notin edit[r].cleared
    <3>1. rows'[q] = rows[q]
      BY <1>2, <2>2
    <3> QED BY <2>0, <2>2, <3>1 DEF RowOk
  <2> QED BY <2>1, <2>2
<1> DEFINE old == rows[b.row]
           on == CASE b.flag # None -> b.flag = "yes"
                   [] b.flag = None /\ b.table = "style" /\ b.op = "create" -> TRUE
                   [] OTHER -> old.on
<1>5. RowOk(old)
  BY <1>1 DEF ProfilesInv
<1>6. /\ on \in BOOLEAN /\ (b.flag = "yes" => on = TRUE)
      /\ b.flag = None /\ b.table # "style" => on = old.on
  <2>1. CASE b.flag # None
    BY <2>1
  <2>2. CASE b.flag = None
    <3>1. on = IF b.table = "style" /\ b.op = "create" THEN TRUE ELSE old.on
      BY <2>2
    <3>2. b.flag # "yes"
      BY <2>2, SettingsAssumption
    <3> QED BY <1>5, <2>2, <3>1, <3>2 DEF RowOk
  <2> QED BY <2>1, <2>2
<1>7. rows'[b.row] = Written(r)
  <2>1. \E q \in Rows : q = b.row /\ q \notin edit[r].cleared
    BY <1>1
  <2> QED BY <1>2, <2>1
<1> HIDE DEF on
<1>8. /\ DOMAIN Written(r) = DOMAIN Blank
      /\ Written(r).table = b.table /\ Written(r).version = old.version + 1 /\ Written(r).on = on
      /\ Written(r).edits = IF b.op = "update" THEN Append(old.edits, r) ELSE old.edits
  BY <1>5 DEF Written, Body, RowOk, Blank, on
<1> QED BY <1>1, <1>3, <1>4, <1>6, <1>7, <1>8

LEMMA AppendFacts ==
  ASSUME NEW S, NEW e \in Seq(S), NEW x \in S
  PROVE  /\ Len(Append(e, x)) = Len(e) + 1 /\ Append(e, x)[Len(e) + 1] = x
         /\ Len(e) \in Nat /\ \A i \in 1 .. Len(e) : Append(e, x)[i] = e[i]
OBVIOUS

LEMMA CommitKeeps == ASSUME ProfilesInv, NEW r \in Requests, Commit(r) PROVE ProfilesInv'
<1> DEFINE b == edit[r].body
           rec == [edit[r] EXCEPT !.at = "saved", !.cleared = {}]
<1>1. /\ edit[r].at = "written" /\ b.row \in Rows /\ holder[b.row] = r
      /\ b.op \in {"create", "update"} /\ DOMAIN rows' = Rows
  BY CommitFacts
<1>2. \A q \in Rows \ {b.row} :
        /\ rows'[q].table = rows[q].table /\ rows'[q].version = rows[q].version
        /\ rows'[q].edits = rows[q].edits /\ DOMAIN rows'[q] = DOMAIN Blank
        /\ rows'[q].on = (rows[q].on /\ q \notin edit[r].cleared)
  BY CommitFacts
<1>3. /\ DOMAIN rows'[b.row] = DOMAIN Blank /\ rows'[b.row].on \in BOOLEAN
      /\ rows'[b.row].table = b.table /\ rows'[b.row].version = rows[b.row].version + 1
      /\ rows'[b.row].edits = IF b.op = "update" THEN Append(rows[b.row].edits, r)
                              ELSE rows[b.row].edits
  BY CommitFacts
<1>4. /\ edit' = [edit EXCEPT ![r] = rec] /\ rec.body = b /\ rec.at = "saved"
      /\ rec.found = edit[r].found /\ rec.cleared = {} /\ rec.base = edit[r].base
      /\ DOMAIN rec = {"body", "at", "tries", "seen", "base", "found", "cleared"}
  BY EditFacts DEF Commit
<1>5. DOMAIN edit' = Requests /\ edit'[r] = rec /\ \A s \in Requests \ {r} : edit'[s] = edit[s]
  BY <1>4 DEF ProfilesInv
<1> HIDE DEF rec
<1>6. \A q \in Rows : RowOk(rows[q]) /\ ChainOk(rows[q], edit)
  BY DEF ProfilesInv
<1>7. b.op = "update" => rows[b.row].table = b.table /\ edit[r].base = Len(rows[b.row].edits)
  BY <1>1, <1>6, EditFacts DEF EditOk, Open, RowOk
<1>8. \A q \in Rows : RowOk(rows'[q])
  <2>1. \A q \in Rows \ {b.row} : RowOk(rows'[q])
    BY <1>2, <1>6 DEF RowOk
  <2>2. RowOk(rows'[b.row])
    <3>1. rows[b.row].version + 1 \in Nat /\ Append(rows[b.row].edits, r) \in Seq(Requests)
          /\ rows[b.row].edits \in Seq(Requests)
      BY <1>1, <1>6 DEF RowOk
    <3> QED BY <1>3, <3>1 DEF RowOk
  <2> QED BY <2>1, <2>2
<1>9. \A q \in Rows : ChainOk(rows'[q], edit')
  <2>0. ASSUME NEW q \in Rows, NEW i \in 1 .. Len(rows[q].edits)
        PROVE  /\ edit'[rows[q].edits[i]].base = i - 1
               /\ edit'[rows[q].edits[i]].at = "saved"
    <3>1. /\ rows[q].edits[i] \in Requests
          /\ edit[rows[q].edits[i]].base = i - 1 /\ edit[rows[q].edits[i]].at = "saved"
      BY <1>6 DEF RowOk, ChainOk
    <3> QED BY <1>1, <1>5, <3>1
  <2>1. ASSUME NEW q \in Rows, rows'[q].edits = rows[q].edits PROVE ChainOk(rows'[q], edit')
    BY <2>0, <2>1 DEF ChainOk
  <2>2. ASSUME b.op = "update" PROVE ChainOk(rows'[b.row], edit')
    <3> DEFINE e == rows[b.row].edits
    <3>1. e \in Seq(Requests) /\ rows'[b.row].edits = Append(e, r)
      BY <1>1, <1>3, <1>6, <2>2 DEF RowOk
    <3>2. /\ Len(Append(e, r)) = Len(e) + 1 /\ Append(e, r)[Len(e) + 1] = r
          /\ Len(e) \in Nat /\ \A i \in 1 .. Len(e) : Append(e, r)[i] = e[i]
      <4> HIDE DEF e
      <4> QED BY <3>1, AppendFacts
    <3>3. ASSUME NEW i \in 1 .. (Len(e) + 1)
          PROVE  /\ edit'[Append(e, r)[i]].base = i - 1
                 /\ edit'[Append(e, r)[i]].at = "saved"
      <4>1. CASE i = Len(e) + 1
        <5>1. edit[r].base = i - 1
          BY <1>7, <2>2, <3>2, <4>1
        <5> QED BY <1>4, <1>5, <3>2, <4>1, <5>1
      <4>2. CASE i # Len(e) + 1
        <5>1. \A n \in Nat : i \in 1 .. (n + 1) /\ i # n + 1 => i \in 1 .. n
          OBVIOUS
        <5>2. i \in 1 .. Len(e)
          BY <3>2, <4>2, <5>1
        <5> QED BY <1>1, <2>0, <3>2, <5>2
      <4> QED BY <4>1, <4>2
    <3> QED BY <3>1, <3>2, <3>3 DEF ChainOk
  <2> QED BY <1>1, <1>2, <1>3, <2>1, <2>2
<1>10. EditOk(edit'[r], rows')
  <2>1. \A q \in edit[r].found : edit[r].body.flag = "yes" /\ rows'[q].table = b.table
    <3>1. \A q \in edit[r].found : /\ q \in Rows \ {b.row} /\ edit[r].body.flag = "yes"
                                   /\ rows[q].table = b.table
      BY EditFacts DEF EditOk
    <3> QED BY <1>2, <3>1
  <2>2. /\ edit[r].found \subseteq Rows \ {b.row} /\ b.flag \in {"yes", "no", None}
    BY EditFacts DEF EditOk
  <2>3. EditOk(rec, rows')
    BY <1>1, <1>3, <1>4, <2>1, <2>2 DEF EditOk, Open, Ended
  <2> QED BY <1>5, <2>3
<1>11. ASSUME NEW s \in Requests \ {r} PROVE EditOk(edit[s], rows')
  <2> DEFINE d == edit[s].body
  <2>0. EditOk(edit[s], rows) /\ d.row \in Rows
    BY EditFacts DEF EditOk
  <2>1. \A q \in edit[s].found \union edit[s].cleared : rows'[q].table = rows[q].table
    <3> SUFFICES ASSUME NEW q \in edit[s].found \union edit[s].cleared
                 PROVE  rows'[q].table = rows[q].table
      OBVIOUS
    <3>1. q \in Rows
      BY <2>0 DEF EditOk
    <3>2. b.op = "create" => q # b.row
      BY <1>1 DEF ProfilesInv, Claims
    <3> QED BY <1>1, <1>2, <1>3, <1>7, <3>1, <3>2
  <2>2. CASE d.row # b.row
    <3>1. /\ rows'[d.row].table = rows[d.row].table /\ rows'[d.row].version = rows[d.row].version
          /\ rows'[d.row].edits = rows[d.row].edits /\ (~rows[d.row].on => ~rows'[d.row].on)
      BY <1>2, <2>0, <2>2
    <3> QED BY <2>0, <2>1, <3>1 DEF EditOk
  <2>3. CASE d.row = b.row
    <3>1. b.op = "update" /\ d.op # "create"
      BY <1>1, <2>3 DEF ProfilesInv
    <3>2. edit[s].at # "written"
      <4>1. LockOk(holder, edit[s], b.row, s)
        BY <1>1, EditFacts
      <4> QED BY <1>1, <2>3, <4>1 DEF LockOk
    <3>3. rows'[d.row].table = rows[d.row].table
      BY <1>3, <1>7, <2>3, <3>1
    <3>4. rows'[d.row].version = rows[d.row].version + 1 /\ rows[d.row].version \in Nat
      BY <1>1, <1>3, <1>6, <2>3 DEF RowOk
    <3>5. d.op = "update" /\ edit[s].at \in Open \union {"sent"} =>
            /\ edit[s].seen \in Nat /\ edit[s].seen <= rows'[d.row].version
            /\ edit[s].seen # rows'[d.row].version
      <4>1. d.op = "update" /\ edit[s].at \in Open \union {"sent"} =>
              edit[s].seen \in Nat /\ edit[s].seen <= rows[d.row].version
        BY <2>0 DEF EditOk
      <4> QED BY <3>4, <4>1
    <3> QED BY <2>0, <2>1, <3>1, <3>2, <3>3, <3>5 DEF EditOk
  <2> QED BY <2>2, <2>3
<1>12. /\ holder' \in [Rows -> Requests \union {None}]
       /\ \A q \in Rows, s \in Requests : LockOk(holder', edit'[s], q, s)
  <2>1. holder' = [q \in Rows |-> IF holder[q] = r THEN None ELSE holder[q]]
    BY DEF Commit
  <2>2. \A q \in Rows : LockOk(holder', edit'[r], q, r)
    BY <1>4, <1>5, <2>1, EditFacts DEF LockOk
  <2>3. ASSUME NEW q \in Rows, NEW s \in Requests \ {r} PROVE LockOk(holder', edit'[s], q, s)
    <3>1. LockOk(holder, edit[s], q, s) /\ s # None
      BY EditFacts
    <3> QED BY <1>5, <2>1, <3>1 DEF LockOk
  <2> QED BY <2>1, <2>2, <2>3, EditFacts
<1>13. \A s \in Requests : /\ edit'[s].body = edit[s].body /\ Claims(edit'[s]) \subseteq Claims(edit[s])
                           /\ edit'[s].found \union edit'[s].cleared
                                 \subseteq edit[s].found \union edit[s].cleared
  BY <1>4, <1>5 DEF Claims
<1>14. \A s, t \in Requests : Claims(edit'[s]) \cap (edit'[t].found \union edit'[t].cleared) = {}
  <2> SUFFICES ASSUME NEW s \in Requests, NEW t \in Requests
               PROVE  Claims(edit'[s]) \cap (edit'[t].found \union edit'[t].cleared) = {}
    OBVIOUS
  <2>1. Claims(edit[s]) \cap (edit[t].found \union edit[t].cleared) = {}
    BY DEF ProfilesInv
  <2> QED BY <1>13, <2>1
<1>15. \A s, t \in Requests : s # t /\ edit'[s].body.op = "create" =>
         edit'[t].body.row # edit'[s].body.row
  BY <1>13 DEF ProfilesInv
<1> QED BY <1>1, <1>5, <1>8, <1>9, <1>10, <1>11, <1>12, <1>14, <1>15 DEF ProfilesInv

LEMMA HandleKeeps == ASSUME ProfilesInv, NEW r \in Requests, Handle(r) PROVE ProfilesInv'
<1>1. ASSUME NEW ok, NEW next \in {"open", "checked"}, Admit(r, ok, next) PROVE ProfilesInv'
  <2>1. PICK at \in {next, "refused"} : edit' = [edit EXCEPT ![r].at = at]
    BY <1>1 DEF Admit
  <2> QED BY <1>1, <2>1, PlaceKeeps DEF Admit
<1>2. CASE InTransaction(r)
  <2>1. CASE Break(r)
    BY <2>1, RollbackKeeps DEF Break, Open
  <2>2. CASE BreakDeadlock(r)
    <3>1. edit[r].at = "clear"
      BY <2>2 DEF BreakDeadlock, Awaits
    <3> QED BY <2>2, <3>1, RollbackKeeps DEF BreakDeadlock
  <2> QED BY <1>2, <2>1, <2>2, FindKeeps, UnsetKeeps, CommitKeeps DEF InTransaction
<1>3. CASE Inserting(r) /\ Body(r).op = "create"
  BY <1>2, <1>3, InsertRowKeeps DEF Inserting
<1>4. CASE Updating(r) /\ Body(r).op = "update"
  BY <1>2, <1>4, ReadVersionKeeps, UpdateKeeps DEF Updating
<1> QED BY <1>1, <1>3, <1>4
        DEF Handle, TtsPost, TtsPut, RenderPost, RenderPut, StylePost, StylePut, Is

LEMMA ProfilesStepKeeps == ASSUME ProfilesInv, SettingsNext PROVE ProfilesInv'
BY LoadKeeps, HandleKeeps DEF SettingsNext

LEMMA ProfilesStay == ASSUME ProfilesInv, UNCHANGED settingsVars PROVE ProfilesInv'
BY DEF ProfilesInv, settingsVars, ChainOk, LockOk

LEMMA ProfilesMean == ASSUME ProfilesInv PROVE SettingsTypeOK /\ NoLostUpdate
<1>1. SettingsTypeOK
  BY DEF ProfilesInv, SettingsTypeOK, RowOk, EditOk, LockOk, Target, Body
<1>2. NoLostUpdate
  BY DEF ProfilesInv, NoLostUpdate, RowOk, ChainOk
<1> QED BY <1>1, <1>2

(* Only a commit writes rows, and it leaves a default or says it resigns.   *)
LEMMA DefaultStep ==
  ASSUME ProfilesInv, SettingsNext, NEW t \in {"tts", "render"}, Defaults(t) # {}
  PROVE  Defaults(t)' # {} \/ \E r \in Requests : Resigns(r, t)
<1>1. CASE rows' = rows
  BY <1>1 DEF Defaults
<1>2. ASSUME NEW r \in Requests, Commit(r), Defaults(t)' = {} PROVE Resigns(r, t)
  <2> DEFINE b == edit[r].body
  <2>1. PICK q \in Rows : rows[q].table = t /\ rows[q].on
    BY DEF Defaults
  <2>2. /\ edit[r].at = "written" /\ b.row \in Rows /\ b.op \in {"create", "update"}
        /\ q # b.row => /\ rows'[q].table = rows[q].table
                        /\ rows'[q].on = (rows[q].on /\ q \notin edit[r].cleared)
        /\ rows'[b.row].table = b.table /\ rows'[b.row].on \in BOOLEAN
        /\ b.flag = "yes" => rows'[b.row].on = TRUE
        /\ b.flag = None /\ b.table # "style" => rows'[b.row].on = rows[b.row].on
    <3>1. /\ edit[r].at = "written" /\ b.row \in Rows /\ b.op \in {"create", "update"}
          /\ rows'[b.row].table = b.table /\ rows'[b.row].on \in BOOLEAN
          /\ b.flag = "yes" => rows'[b.row].on = TRUE
          /\ b.flag = None /\ b.table # "style" => rows'[b.row].on = rows[b.row].on
      BY <1>2, CommitFacts
    <3>2. ASSUME q # b.row
          PROVE  /\ rows'[q].table = rows[q].table
                 /\ rows'[q].on = (rows[q].on /\ q \notin edit[r].cleared)
      <4>1. \A p \in Rows \ {b.row} :
              /\ rows'[p].table = rows[p].table /\ rows'[p].version = rows[p].version
              /\ rows'[p].edits = rows[p].edits /\ DOMAIN rows'[p] = DOMAIN Blank
              /\ rows'[p].on = (rows[p].on /\ p \notin edit[r].cleared)
        BY <1>2, CommitFacts
      <4> QED BY <3>2, <4>1
    <3> QED BY <3>1, <3>2
  <2>3. ~rows'[q].on \/ rows'[q].table # t
    BY <1>2, <2>1 DEF Defaults
  <2>4. ~(b.table = t /\ rows'[b.row].on)
    BY <1>2, <2>2 DEF Defaults
  <2>5. q = b.row
    <3> SUFFICES ASSUME q # b.row PROVE FALSE
      OBVIOUS
    <3>1. q \in edit[r].cleared
      BY <2>1, <2>2, <2>3
    <3>2. b.flag = "yes" /\ b.table = t
      BY <2>1, <3>1, EditFacts DEF EditOk
    <3> QED BY <2>2, <2>4, <3>2
  <2>6. b.table = t /\ b.flag \in {"yes", "no", None}
    BY <2>1, <2>2, <2>5, EditFacts DEF EditOk
  <2>7. b.flag = "no"
    BY <2>1, <2>2, <2>4, <2>5, <2>6
  <2>8. edit'[r].at = "saved"
    BY <1>2, EditFacts DEF Commit, ProfilesInv
  <2> QED BY <2>1, <2>2, <2>5, <2>7, <2>8 DEF Resigns, Defaults, Body, Target
<1>3. ASSUME NEW r \in Requests, Load(r) \/ Handle(r), ~Commit(r) PROVE rows' = rows
  BY <1>3 DEF Load, Handle, TtsPost, TtsPut, RenderPost, RenderPut, StylePost, StylePut, Admit,
              Inserting, Updating, InTransaction, Insert, ReadVersion, UpdateVersion, FindDefaults,
              UnsetDefault, Break, BreakDeadlock, Rollback
<1> QED BY <1>1, <1>2, <1>3 DEF SettingsNext

-----------------------------------------------------------------------------
(* The parts together.  A part is untouched by the steps of the others.     *)
AllInv == ProfilesInv /\ GovInv /\ SetupInv /\ RequestsInv

LEMMA AllInvHolds == Spec => []AllInv
<1>1. Init => AllInv
  BY ScenesAssumption, ProfilesInitOk, GovInitOk, SetupInitOk, RequestsInitOk DEF Init, AllInv
<1>2. AllInv /\ [Next]_projectVars => AllInv'
  <2> SUFFICES ASSUME ProfilesInv, GovInv, SetupInv, RequestsInv, [Next]_projectVars
               PROVE  AllInv'
    BY DEF AllInv
  <2>1. ProfilesInv'
    BY ProfilesStepKeeps, ProfilesStay
       DEF Next, ProfilesStep, GovernanceStep, SetupStep, RequestsStep, projectVars
  <2>2. GovInv'
    BY GovStepKeeps, GovStay
       DEF Next, ProfilesStep, GovernanceStep, SetupStep, RequestsStep, projectVars
  <2>3. SetupInv'
    BY SetupStepKeeps, SetupStay
       DEF Next, ProfilesStep, GovernanceStep, SetupStep, RequestsStep, projectVars, setupVars
  <2>4. RequestsInv'
    BY RequestsStepKeeps, RequestsStay
       DEF Next, ProfilesStep, GovernanceStep, SetupStep, RequestsStep, projectVars
  <2> QED BY <2>1, <2>2, <2>3, <2>4 DEF AllInv
<1> QED BY <1>1, <1>2, PTL DEF Spec

(* No accepted edit of a profile, a style or the budget limits is lost, and *)
(* rows are locked by the transactions that wrote them and by no other      *)
(* (tts/api/routes.ts, render/api/routes.ts, governance/api/routes.ts).     *)
THEOREM SettingsCorrect == Spec => []SettingsInv
<1>1. AllInv => SettingsInv
  BY ProfilesMean, GovMean, SetupMean, RequestsMean DEF AllInv, SettingsInv
<1> QED BY <1>1, AllInvHolds, PTL

(* The version of a glossary counts its entries, up to the additions that   *)
(* are, or died, between their two statements (glossary/api/routes.ts).     *)
THEOREM VersionCorrect == Spec => []VersionCountsEntries
<1>1. AllInv => VersionCountsEntries
  BY GovMean DEF AllInv
<1> QED BY <1>1, AllInvHolds, PTL

(* Every general job and every publishing job is as its calls asked, and    *)
(* what a publishing job refers to belongs together (jobs/api/routes.ts,    *)
(* publishing/api/job-routes.ts), whatever else is created, changed,        *)
(* disabled or swept meanwhile.                                             *)
THEOREM JobAsAskedCorrect == Spec => []JobAsAsked
<1>1. AllInv => JobAsAsked
  BY SetupMean, RequestsMean DEF AllInv, JobAsAsked
<1> QED BY <1>1, AllInvHolds, PTL

(* A project that has a default profile keeps one, however the transactions *)
(* that move the flag interleave, fail or deadlock (tts/api/routes.ts,      *)
(* render/api/routes.ts).                                                   *)
THEOREM DefaultKeptCorrect == Spec => DefaultKept
<1>1. AllInv /\ [Next]_projectVars =>
        [\A t \in {"tts", "render"} :
           Defaults(t) # {} => \/ Defaults(t)' # {}
                               \/ \E r \in Requests : Resigns(r, t)]_settingsVars
  BY DefaultStep DEF AllInv, Next, ProfilesStep, GovernanceStep, SetupStep, RequestsStep, projectVars
<1> QED BY <1>1, AllInvHolds, PTL DEF Spec, DefaultKept
=============================================================================
