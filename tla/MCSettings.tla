----------------------------- MODULE MCSettings -----------------------------
EXTENDS ProjectSettings, TLC

CONSTANTS p1, p2, p3, s1, q1, q2, q3, v1, v2, en, fr,
          c1, c2, c3, c4, g1, g2, t1, t2,
          e1, e2, e3, w1, w2, w3, a1, a2, a3, d1, d2, d3, f1, f2, k1, m1, m2, own, other, tube, tok, shut

Map3(x, y, z, a, b, c) == (x :> a) @@ (y :> b) @@ (z :> c)

(* Sheets: profiles and styles. *)
Row(t, on, ref, lang) == [table |-> t, version |-> 1, on |-> on, ref |-> ref,
                          lang |-> lang, edits |-> <<>>]
Ask(op, t, row, flag, ref, lang) == [op |-> op, table |-> t, row |-> row, flag |-> flag,
                                     ref |-> ref, lang |-> lang]
Sheet(rs, x, y, z) == [rows |-> rs, voices |-> (v1 :> en) @@ (v2 :> fr),
                       bodies |-> Map3(q1, q2, q3, x, y, z)]
Tts(a, b) == (p1 :> Row("tts", a, v1, en)) @@ (p2 :> Row("tts", b, v1, en))
Render(a, b) == Map3(p1, p2, s1, Row("render", a, None, None), Row("render", b, s1, None),
                     Row("style", TRUE, None, None))
McSheets ==
  {Sheet(Tts(a, b), Ask("update", "tts", p1, "yes", None, None),
         Ask("update", "tts", p2, "yes", v2, fr), Ask("create", "tts", p3, f, v, en)) :
      a \in BOOLEAN, b \in BOOLEAN, v \in {v1, v2}, f \in {None, "yes"}}
  \union
  {Sheet(Tts(a, FALSE), Ask("update", "tts", p1, f, None, fr),
         Ask("update", "tts", p1, "yes", v, en), Ask("update", "tts", p2, "yes", None, None)) :
      a \in BOOLEAN, f \in {"no", None}, v \in {v1, v2}}
  \union
  {Sheet(Render(a, b), Ask("update", "render", p1, "yes", s1, None),
         Ask("update", "style", s1, f, None, None), Ask("create", "render", p3, "yes", s1, None)) :
      a \in BOOLEAN, b \in BOOLEAN, f \in {"no", "yes"}}
  \union
  {Sheet(Render(a, b), Ask("update", "render", p1, "yes", None, None),
         Ask("update", "render", p2, "yes", s1, None), Ask("create", "style", p3, None, None, None)) :
      a \in BOOLEAN, b \in BOOLEAN}

(* Agendas: glossaries, the review, the budget. *)
Do(op, code, term) == [op |-> op, code |-> code, term |-> term]
Agenda(x, y, z, a, b, c) == [glossaries |-> (g1 :> x) @@ (g2 :> y),
                             asks |-> Map3(c1, c2, c3, a, b, c) @@ (z :> Do("start", g1, t1))]
Changes == Do("changes", g1, t1)
McAgendas ==
  {Agenda(x, "retired", c4, Do("create", g1, t1), Do("create", g1, t1), z) :
      x \in {"none", "draft"}, z \in {Do("entry", g1, t1), Do("entry", g2, t1)}}
  \union
  {Agenda(x, "none", c4, Do("entry", g1, t1), y, z) : x \in {"none", "draft", "approved", "retired"},
      y \in {Do("entry", g1, t1), Do("entry", g1, t2)},
      z \in {Do("approveGlossary", g1, t1), Do("entry", g1, t2)}}
  \union
  {Agenda("draft", "none", c4, Do("approveGlossary", g1, t1), Do("approveGlossary", g1, t1), y) :
      y \in {Do("entry", g1, t1)}}
  \union
  {Agenda("none", "none", c4, x, y, Do(z, g1, t1)) : x \in {Changes, Do("approve", g1, t1)},
      y \in {Changes, Do("reject", g1, t1)}, z \in {"approve", "reject", "changes", "start"}}
  \union
  {Agenda("none", "none", c4, Do("limits", g1, t1), Do("limits", g1, t1), Do("limits", g1, t1))}

(* Plans: publishing. *)
Account(project, platform, status) ==
  [kind |-> "account", project |-> project, platform |-> platform, status |-> status]
Destination(project, account, status) ==
  [kind |-> "destination", project |-> project, account |-> account, status |-> status]
Profile(account, destination, platform, status) ==
  [kind |-> "profile", project |-> own, platform |-> platform, account |-> account,
   destination |-> destination, status |-> status]
Standing(s) ==
  (a1 :> Account(own, tube, s)) @@ (a2 :> Account(own, tok, "draft")) @@ (a3 :> Account(other, tube, "draft"))
  @@ (d1 :> Destination(own, a1, "draft")) @@ (d2 :> Destination(own, a2, "draft"))
  @@ (d3 :> Destination(other, a3, "draft")) @@ (f1 :> Profile(a1, d1, tube, "active"))
Idle == [op |-> "none", project |-> own]
Put(op, id, platform, account, destination, status) ==
  [op |-> op, id |-> id, project |-> own, platform |-> platform, account |-> account,
   destination |-> destination, status |-> status]
Job(profile, m) == [op |-> "createJob", project |-> own, profile |-> profile, asset |-> m, key |-> k1]
Plan(ts, x, y, z) == [things |-> ts, assets |-> (m1 :> "available") @@ (m2 :> "available"),
                      wishes |-> Map3(w1, w2, w3, x, y, z)]
None3 == Plan(Standing("draft"), Idle, Idle, Idle)
McPlans ==
  {Plan(Standing(s), Put("createProfile", f2, p, a, d, "active"), x, Job(f2, m1)) :
      s \in {"draft", "revoked"}, p \in {tube, tok}, a \in {a1, a2, a3}, d \in {d1, d2, d3},
      x \in {Put("patchAccount", a1, tube, a1, d1, "disabled"), Put("deleteAccount", a3, tube, a1, d1, "disabled"),
             Put("deleteDestination", d1, tube, a1, d1, "disabled"),
             Put("patchDestination", d2, tube, a1, d1, "validation_only")}}
  \union
  {Plan(Standing("draft"), Job(f1, m1), Job(f1, m), x) : m \in {m1, m2},
      x \in {Job(f2, m1), Job(f1, m2), Put("deleteProfile", f1, tube, a1, d1, "inactive"),
             Put("patchProfile", f1, tube, a1, d1, "active")}}
  \union
  {Plan([i \in {a1} |-> Account(own, tube, s)], Put("createAccount", a2, p, a2, d1, "draft"),
        Put("createDestination", d1, p, a, d1, "draft"), Put("createProfile", f1, p, a, d1, "active")) :
      s \in {"draft", "error"}, p \in {tube, tok, shut}, a \in {a1, a2}}

(* Batches: general jobs under one key, of one project and a second one. *)
Keyed(route, actor, project, body) ==
  [route |-> route, actor |-> actor, project |-> project, key |-> k1, body |-> body]
Batch(x, y, z) == Map3(e1, e2, e3, x, y, z)
McBatches ==
  {Batch(Keyed("jobs", c1, own, m1), y, z) :
      y \in {Keyed("jobs", c1, own, m1), Keyed("jobs", c1, own, m2), Keyed("pipeline", c1, own, m2)},
      z \in {Keyed("jobs", c1, own, m2), Keyed("jobs", c2, own, m2), Keyed("jobs", c1, other, m2),
             Keyed("pipeline", c1, other, m2)}}
NoBatch == Batch(Keyed("none", c1, own, m1), Keyed("none", c1, own, m1), Keyed("none", c1, own, m1))

AnySheet == CHOOSE s \in McSheets : TRUE
AnyAgenda == CHOOSE a \in McAgendas : TRUE
McScenes ==
  {[part |-> "profiles", sheet |-> s, agenda |-> AnyAgenda, plan |-> None3, batch |-> NoBatch] :
      s \in McSheets}
  \union {[part |-> "governance", sheet |-> AnySheet, agenda |-> a, plan |-> None3, batch |-> NoBatch] :
             a \in McAgendas}
  \union {[part |-> "setup", sheet |-> AnySheet, agenda |-> AnyAgenda, plan |-> p, batch |-> NoBatch] :
             p \in McPlans}
  \union {[part |-> "requests", sheet |-> AnySheet, agenda |-> AnyAgenda, plan |-> None3, batch |-> b] :
             b \in McBatches}
=============================================================================
