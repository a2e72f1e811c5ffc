--------------------------- MODULE ProfileSettings ---------------------------
(***************************************************************************)
(* The speech and render profiles of a project and its subtitle styles:    *)
(* the POST and PUT routes of tts/api/routes.ts and render/api/routes.ts.  *)
(* A PUT carries the version its author loaded; it runs in a transaction   *)
(* that reads the version, takes the default flag from the other profiles  *)
(* and updates the row WHERE version = the author's.  A transaction locks  *)
(* the rows it writes until it ends, other requests see them as they were, *)
(* and the database ends one transaction of a cycle of waiting ones.       *)
(***************************************************************************)
EXTENDS Naturals, Sequences, FiniteSets

CONSTANTS Requests,   \* the requests of the authors
          Rows,       \* rows of the three tables
          None,       \* no row, no request, a field the body leaves out
          MaxTries,   \* bound: how often an author sends one edit
          MaxBreaks   \* bound: statements that fail

ASSUME SettingsAssumption == /\ MaxTries \in Nat \ {0}
                             /\ MaxBreaks \in Nat
                             /\ None \notin Requests \union Rows \union {"yes", "no"}

VARIABLES rows,     \* the committed rows
          edit,     \* each request: its body, what its author saw, its progress
          holder,   \* the request whose open transaction has written a row
          voices,   \* voice |-> the language it speaks, the active ones
          breaks    \* statements that failed

settingsVars == <<rows, edit, holder, voices, breaks>>

(* A request is [op, table, row, flag, ref, lang]: flag is isDefault       *)
(* ("yes", "no" or None), for a style isActive; ref is voiceId or          *)
(* subtitleStyleId; lang the language.                                     *)
Body(r) == edit[r].body
Target(r) == Body(r).row
Waiting == {"new", "conflict"}
Open == {"open", "checked", "clear", "written"}
Ended == {"saved", "refused", "conflict", "failed"}

Given(new, old) == IF new = None THEN old ELSE new

-----------------------------------------------------------------------------
(* Steps the handlers share. *)

(* The author loads the row (or the form of a new one) and sends the edit. *)
Load(r) ==
  /\ edit[r].at \in Waiting /\ edit[r].tries < MaxTries
  /\ Body(r).op = "create" => edit[r].at = "new"
  /\ edit' = [edit EXCEPT ![r].at = "sent", ![r].tries = @ + 1,
                          ![r].seen = rows[Target(r)].version,
                          ![r].base = Len(rows[Target(r)].edits)]
  /\ UNCHANGED <<rows, holder, voices, breaks>>

(* The checks before the transaction: VALIDATION_ERROR or BEGIN. *)
Admit(r, ok, next) ==
  /\ edit[r].at = "sent"
  /\ edit' = [edit EXCEPT ![r].at = IF ok THEN next ELSE "refused"]
  /\ UNCHANGED <<rows, holder, voices, breaks>>

(* Mutants: the flag taken outside the transaction; ROLLBACK never sent.   *)
Rollback_KeepsUnset(r, answer) ==
  /\ rows' = [q \in Rows |-> IF q \in edit[r].cleared
                              THEN [rows[q] EXCEPT !.on = FALSE] ELSE rows[q]]
  /\ edit' = [edit EXCEPT ![r].at = answer, ![r].found = {}, ![r].cleared = {}]
  /\ holder' = [q \in Rows |-> IF holder[q] = r THEN None ELSE holder[q]]
Rollback_NeverSent(r, answer) ==
  /\ edit' = [edit EXCEPT ![r].at = answer, ![r].found = {}, ![r].cleared = {}]
  /\ UNCHANGED <<rows, holder>>

(* ROLLBACK: nothing the transaction wrote is kept. *)
Rollback(r, answer) ==
  /\ edit' = [edit EXCEPT ![r].at = answer, ![r].found = {}, ![r].cleared = {}]
  /\ holder' = [q \in Rows |-> IF holder[q] = r THEN None ELSE holder[q]]
  /\ UNCHANGED rows

(* The version the transaction reads, without a lock. *)
ReadVersion(r) ==
  /\ edit[r].at = "open"
  /\ IF rows[Target(r)].version = edit[r].seen
       THEN /\ edit' = [edit EXCEPT ![r].at = "checked"]
            /\ UNCHANGED <<rows, holder>>
       ELSE Rollback(r, "conflict")
  /\ UNCHANGED <<voices, breaks>>

(* UPDATE ... SET is_default = false: the rows its snapshot selects, ... *)
FindDefaults(r) ==
  /\ edit[r].at = "checked"
  /\ edit' = [edit EXCEPT ![r].at = "clear",
       ![r].found = IF Body(r).flag # "yes" \/ Body(r).table = "style" THEN {}
                    ELSE {q \in Rows \ {Target(r)} :
                            rows[q].table = Body(r).table /\ rows[q].on}]
  /\ UNCHANGED <<rows, holder, voices, breaks>>

(* ... each written when its lock is free, if it is still a default. *)
UnsetDefault(r) ==
  /\ edit[r].at = "clear"
  /\ \E q \in edit[r].found :
       /\ holder[q] = None
       /\ edit' = [edit EXCEPT ![r].found = @ \ {q},
            ![r].cleared = IF rows[q].on THEN @ \union {q} ELSE @]
       /\ holder' = [holder EXCEPT ![q] = IF rows[q].on THEN r ELSE None]
  /\ UNCHANGED <<rows, voices, breaks>>

Insert(r) ==
  /\ edit[r].at = "clear" /\ edit[r].found = {}
  /\ holder' = [holder EXCEPT ![Target(r)] = r]
  /\ edit' = [edit EXCEPT ![r].at = "written"]
  /\ UNCHANGED <<rows, voices, breaks>>

(* Mutant: UPDATE ... WHERE id = $n, the version read before it trusted.   *)
UpdateVersion_ById(r) ==
  /\ edit[r].at = "clear" /\ edit[r].found = {}
  /\ holder[Target(r)] = None
  /\ holder' = [holder EXCEPT ![Target(r)] = r]
  /\ edit' = [edit EXCEPT ![r].at = "written"]
  /\ UNCHANGED <<rows, voices, breaks>>

(* UPDATE ... WHERE version = $n, once the lock of the row is free. *)
UpdateVersion(r) ==
  /\ edit[r].at = "clear" /\ edit[r].found = {}
  /\ holder[Target(r)] = None
  /\ IF rows[Target(r)].version = edit[r].seen
       THEN /\ holder' = [holder EXCEPT ![Target(r)] = r]
            /\ edit' = [edit EXCEPT ![r].at = "written"]
            /\ UNCHANGED rows
       ELSE Rollback(r, "conflict")
  /\ UNCHANGED <<voices, breaks>>

Written(r) ==
  LET b == Body(r)
      old == rows[b.row]
  IN  [old EXCEPT !.table = b.table, !.version = @ + 1,
                  !.on = CASE b.flag # None -> b.flag = "yes"
                           [] b.flag = None /\ b.table = "style" /\ b.op = "create" -> TRUE
                           [] OTHER -> @,
                  !.ref = Given(b.ref, @), !.lang = Given(b.lang, @),
                  !.edits = IF b.op = "update" THEN Append(@, r) ELSE @]

Commit(r) ==
  /\ edit[r].at = "written"
  /\ rows' = [q \in Rows |->
                CASE q = Target(r) -> Written(r)
                  [] q \in edit[r].cleared -> [rows[q] EXCEPT !.on = FALSE]
                  [] OTHER -> rows[q]]
  /\ edit' = [edit EXCEPT ![r].at = "saved", ![r].cleared = {}]
  /\ holder' = [q \in Rows |-> IF holder[q] = r THEN None ELSE holder[q]]
  /\ UNCHANGED <<voices, breaks>>

(* A statement fails, the audit's included: ROLLBACK and an error. *)
Break(r) ==
  /\ edit[r].at \in Open /\ breaks < MaxBreaks
  /\ Rollback(r, "failed")
  /\ breaks' = breaks + 1
  /\ UNCHANGED voices

Awaits(r) ==
  IF edit[r].at # "clear" THEN {}
  ELSE {holder[q] : q \in IF edit[r].found = {} THEN {Target(r)} ELSE edit[r].found}

(* The database ends one transaction of a cycle of waiting ones. *)
BreakDeadlock(r) ==
  /\ \E cycle \in SUBSET Requests :
       /\ r \in cycle
       /\ \A s \in cycle : /\ Awaits(s) # {} /\ Awaits(s) \subseteq cycle
                           /\ \E t \in cycle : s \in Awaits(t)
  /\ Rollback(r, "failed")
  /\ UNCHANGED <<voices, breaks>>

InTransaction(r) == FindDefaults(r) \/ UnsetDefault(r) \/ Commit(r) \/ Break(r)
                      \/ BreakDeadlock(r)
Updating(r) == ReadVersion(r) \/ UpdateVersion(r) \/ InTransaction(r)
Inserting(r) == Insert(r) \/ InTransaction(r)

-----------------------------------------------------------------------------
(* The routes. *)

Is(r, table, op) == Body(r).table = table /\ Body(r).op = op

(* The voice is active and speaks the language, when the body names both. *)
VoiceOk(b) == b.ref = None \/ /\ b.ref \in DOMAIN voices
                              /\ b.lang \in {None, voices[b.ref]}

(* The style exists and is active, when the body names one. *)
StyleOk(b) == b.ref = None \/ rows[b.ref].on

TtsPost(r) == /\ Is(r, "tts", "create")
              /\ Admit(r, VoiceOk(Body(r)), "checked") \/ Inserting(r)
TtsPut(r) == /\ Is(r, "tts", "update")
             /\ Admit(r, VoiceOk(Body(r)), "open") \/ Updating(r)
RenderPost(r) == /\ Is(r, "render", "create")
                 /\ Admit(r, StyleOk(Body(r)), "checked") \/ Inserting(r)
RenderPut(r) == /\ Is(r, "render", "update")
                /\ Admit(r, StyleOk(Body(r)), "open") \/ Updating(r)
StylePost(r) == /\ Is(r, "style", "create")
                /\ Admit(r, TRUE, "checked") \/ Inserting(r)
StylePut(r) == /\ Is(r, "style", "update")
               /\ Admit(r, TRUE, "open") \/ Updating(r)

Handle(r) == \/ TtsPost(r) \/ TtsPut(r) \/ RenderPost(r) \/ RenderPut(r)
             \/ StylePost(r) \/ StylePut(r)

SettingsNext == \E r \in Requests : Load(r) \/ Handle(r)

Blank == [table |-> None, version |-> 0, on |-> FALSE, ref |-> None,
          lang |-> None, edits |-> <<>>]
Fresh(b) == [body |-> b, at |-> "new", tries |-> 0, seen |-> 0, base |-> 0,
             found |-> {}, cleared |-> {}]

(* A sheet: the rows there, the bodies of the requests, the voices. *)
SettingsInit(sheet) ==
  /\ rows = [q \in Rows |-> IF q \in DOMAIN sheet.rows THEN sheet.rows[q] ELSE Blank]
  /\ edit = [r \in Requests |-> Fresh(sheet.bodies[r])]
  /\ holder = [q \in Rows |-> None]
  /\ voices = sheet.voices
  /\ breaks = 0

(* A PUT names a row of its table, the row of a POST has an id of its own.  *)
SheetOk(sheet) ==
  /\ DOMAIN sheet.rows \subseteq Rows
  /\ \A q \in DOMAIN sheet.rows :
       /\ DOMAIN sheet.rows[q] = DOMAIN Blank
       /\ sheet.rows[q].version \in Nat /\ sheet.rows[q].on \in BOOLEAN
       /\ sheet.rows[q].edits = <<>>
  /\ \A r \in Requests : LET b == sheet.bodies[r] IN
       /\ b.row \in Rows /\ b.flag \in {"yes", "no", None}
       /\ b.op = "update" => /\ b.row \in DOMAIN sheet.rows
                             /\ sheet.rows[b.row].table = b.table
       /\ b.op = "create" => /\ b.row \notin DOMAIN sheet.rows
                             /\ \A s \in Requests \ {r} : sheet.bodies[s].row # b.row

(* The server works on what it was sent; an author need not send. *)
SettingsFairness == \A r \in Requests : WF_settingsVars(Handle(r))

-----------------------------------------------------------------------------
(* Requests and rows of the declared kind, and a lock exactly while the    *)
(* transaction that wrote the row is open.                                 *)
SettingsTypeOK ==
  /\ \A q \in Rows : /\ rows[q].version \in Nat /\ rows[q].on \in BOOLEAN
                     /\ rows[q].edits \in Seq(Requests)
  /\ \A r \in Requests : edit[r].at \in Waiting \union Open \union Ended \union {"sent"}
  /\ holder \in [Rows -> Requests \union {None}]
  /\ \A q \in Rows, r \in Requests :
       holder[q] = r <=> \/ q \in edit[r].cleared
                         \/ edit[r].at = "written" /\ q = Target(r)

(* No lost update: the edits a row has accepted form a chain, each made by *)
(* an author who had seen exactly the edits before it.                     *)
NoLostUpdate ==
  \A q \in Rows : \A i \in DOMAIN rows[q].edits : edit[rows[q].edits[i]].base = i - 1

Defaults(t) == {q \in Rows : rows[q].table = t /\ rows[q].on}
Resigns(r, t) == /\ edit[r].at = "written" /\ edit'[r].at = "saved"
                 /\ Body(r).flag = "no" /\ Target(r) \in Defaults(t)

(* A project that has a default profile keeps one through every race of    *)
(* requests for the default, refused, failed and deadlocked ones included; *)
(* only an edit that says isDefault = false takes the last one away.       *)
DefaultKept ==
  [][\A t \in {"tts", "render"} :
       Defaults(t) # {} => \/ Defaults(t)' # {}
                           \/ \E r \in Requests : Resigns(r, t)]_settingsVars

(* Every request that is sent is answered: no cycle of row locks remains.  *)
EveryRequestAnswered == \A r \in Requests : edit[r].at = "sent" ~> edit[r].at \in Ended
=============================================================================
