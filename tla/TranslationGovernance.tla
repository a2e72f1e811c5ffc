------------------------ MODULE TranslationGovernance ------------------------
(***************************************************************************)
(* What people decide about translations: glossaries and their entries     *)
(* (glossary/api/routes.ts), reviews and the project's budget limits       *)
(* (governance/api/routes.ts).  These routes run their statements one by   *)
(* one on the pool, outside a transaction, so other calls come in between. *)
(***************************************************************************)
EXTENDS Naturals, Sequences, FiniteSets

CONSTANTS Calls,        \* calls of the routes
          Codes,        \* glossary codes of the project
          Terms,        \* source terms
          MaxCrashes    \* bound: calls that die between two statements

ASSUME GovernanceAssumption == MaxCrashes \in Nat /\ IsFiniteSet(Calls) /\ IsFiniteSet(Terms)

VARIABLES glossary,   \* code |-> [status, version], "none" when it is not there
          entries,    \* code |-> its terms
          review,     \* [status, comments]: one review assignment
          budget,     \* [version, edits]: version 0 is no row
          call,       \* each call: what it asks, how far it is, what it read
          crashes

governanceVars == <<glossary, entries, review, budget, call, crashes>>

Asks(c, op) == call[c].ask.op = op
At(c, op, at) == Asks(c, op) /\ call[c].at = at
Goes(c, at) == call' = [call EXCEPT ![c].at = at]
Concluded == {"approved", "rejected"}
Answers == {"done", "conflict", "notFound", "error"}

-----------------------------------------------------------------------------
(* POST /translation-glossaries: the code is looked up, then inserted under *)
(* UNIQUE (project_id, code).                                               *)
FindCode(c) ==
  /\ At(c, "create", "new")
  /\ Goes(c, IF glossary[call[c].ask.code].status = "none" THEN "free" ELSE "conflict")
  /\ UNCHANGED <<glossary, entries, review, budget, crashes>>

InsertGlossary(c) ==
  LET code == call[c].ask.code
      there == glossary[code].status # "none"
  IN  /\ At(c, "create", "free")
      /\ Goes(c, IF there THEN "error" ELSE "done")
      /\ glossary' = IF there THEN glossary
                     ELSE [glossary EXCEPT ![code] = [status |-> "draft", version |-> 1]]
      /\ UNCHANGED <<entries, review, budget, crashes>>

CreateGlossary(c) == FindCode(c) \/ InsertGlossary(c)

(* POST .../entries: status, uniqueness of the term, INSERT under           *)
(* UNIQUE (glossary_id, source_term), then the version of the glossary.     *)
ReadGlossary(c) ==
  /\ At(c, "entry", "new")
  /\ Goes(c, CASE glossary[call[c].ask.code].status = "none" -> "notFound"
               [] glossary[call[c].ask.code].status = "retired" -> "conflict"
               [] OTHER -> "open")
  /\ UNCHANGED <<glossary, entries, review, budget, crashes>>

ReadTerm(c) ==
  /\ At(c, "entry", "open")
  /\ Goes(c, IF call[c].ask.term \in entries[call[c].ask.code] THEN "conflict" ELSE "free")
  /\ UNCHANGED <<glossary, entries, review, budget, crashes>>

(* Mutant: ON CONFLICT DO NOTHING, and on to the version.                  *)
InsertEntry_DoNothing(c) ==
  /\ At(c, "entry", "free")
  /\ entries' = [entries EXCEPT ![call[c].ask.code] = @ \union {call[c].ask.term}]
  /\ Goes(c, "inserted")
  /\ UNCHANGED <<glossary, review, budget, crashes>>

InsertEntry(c) ==
  LET there == call[c].ask.term \in entries[call[c].ask.code]
  IN  /\ At(c, "entry", "free")
      /\ entries' = [entries EXCEPT ![call[c].ask.code] = @ \union {call[c].ask.term}]
      /\ Goes(c, IF there THEN "error" ELSE "inserted")
      /\ UNCHANGED <<glossary, review, budget, crashes>>

BumpVersion(c) ==
  /\ At(c, "entry", "inserted")
  /\ glossary' = [glossary EXCEPT ![call[c].ask.code].version = @ + 1]
  /\ Goes(c, "done")
  /\ UNCHANGED <<entries, review, budget, crashes>>

AddEntry(c) == ReadGlossary(c) \/ ReadTerm(c) \/ InsertEntry(c) \/ BumpVersion(c)

(* POST .../approve: the status is read, then the row written by id. *)
ApproveGlossary(c) ==
  LET code == call[c].ask.code
  IN  \/ /\ At(c, "approveGlossary", "new")
         /\ Goes(c, CASE glossary[code].status = "none" -> "notFound"
                      [] glossary[code].status \in {"approved", "retired"} -> "conflict"
                      [] OTHER -> "open")
         /\ UNCHANGED <<glossary, entries, review, budget, crashes>>
      \/ /\ At(c, "approveGlossary", "open")
         /\ glossary' = [glossary EXCEPT ![code].status = "approved"]
         /\ Goes(c, "done")
         /\ UNCHANGED <<entries, review, budget, crashes>>

-----------------------------------------------------------------------------
(* POST .../start, .../approve, .../reject: one UPDATE that names the       *)
(* statuses it leaves; CONFLICT when it finds none.                         *)
MoveReview(c, from, to) ==
  /\ call[c].at = "new"
  /\ IF review.status \in from
       THEN review' = [review EXCEPT !.status = to] /\ Goes(c, "done")
       ELSE UNCHANGED review /\ Goes(c, "conflict")
  /\ UNCHANGED <<glossary, entries, budget, crashes>>

Decidable == {"in_review", "changes_requested"}
StartReview(c) == Asks(c, "start") /\ MoveReview(c, {"assigned"}, "in_review")
ApproveReview(c) == Asks(c, "approve") /\ MoveReview(c, Decidable, "approved")

RejectReview(c) == Asks(c, "reject") /\ MoveReview(c, Decidable, "rejected")

(* POST .../request-changes: status and comments are read, then both are    *)
(* written by id.                                                           *)
ReadReview(c) ==
  /\ At(c, "changes", "new")
  /\ call' = [call EXCEPT ![c].at = IF review.status = "in_review" THEN "open" ELSE "conflict",
                          ![c].read = review.comments]
  /\ UNCHANGED <<glossary, entries, review, budget, crashes>>

WriteChanges(c) ==
  /\ At(c, "changes", "open")
  /\ review' = [status |-> "changes_requested", comments |-> call[c].read \union {c}]
  /\ Goes(c, "done")
  /\ UNCHANGED <<glossary, entries, budget, crashes>>

RequestChanges(c) == ReadReview(c) \/ WriteChanges(c)

-----------------------------------------------------------------------------
(* The author of new limits loads the budget; then one upsert, whose UPDATE *)
(* takes place only WHERE version is the one loaded.                        *)
LoadBudget(c) ==
  /\ At(c, "limits", "new")
  /\ call' = [call EXCEPT ![c].at = "sent", ![c].seen = budget.version,
                          ![c].base = Len(budget.edits)]
  /\ UNCHANGED <<glossary, entries, review, budget, crashes>>

PutBudget(c) ==
  /\ At(c, "limits", "sent")
  /\ IF budget.version \in {0, call[c].seen}
       THEN /\ budget' = [version |-> budget.version + 1, edits |-> Append(budget.edits, c)]
            /\ Goes(c, "done")
       ELSE UNCHANGED budget /\ Goes(c, "conflict")
  /\ UNCHANGED <<glossary, entries, review, crashes>>

(* The process dies, or a statement fails, between two statements of a call. *)
CrashCall(c) ==
  /\ call[c].at \in {"free", "open", "inserted"} /\ crashes < MaxCrashes
  /\ call' = [call EXCEPT ![c].at = IF @ = "inserted" THEN "lost" ELSE "error"]
  /\ crashes' = crashes + 1
  /\ UNCHANGED <<glossary, entries, review, budget>>

GovernanceNext == \E c \in Calls :
  \/ CreateGlossary(c) \/ AddEntry(c) \/ ApproveGlossary(c)
  \/ StartReview(c) \/ RequestChanges(c) \/ ApproveReview(c) \/ RejectReview(c)
  \/ LoadBudget(c) \/ PutBudget(c) \/ CrashCall(c)

(* An agenda: what each call asks and the glossaries there. *)
GovernanceInit(agenda) ==
  /\ glossary = [k \in Codes |-> [status |-> agenda.glossaries[k],
                    version |-> IF agenda.glossaries[k] = "none" THEN 0 ELSE 1]]
  /\ entries = [k \in Codes |-> {}]
  /\ review = [status |-> "assigned", comments |-> {}]
  /\ budget = [version |-> 0, edits |-> <<>>]
  /\ call = [c \in Calls |-> [ask |-> agenda.asks[c], at |-> "new", read |-> {},
                              seen |-> 0, base |-> 0]]
  /\ crashes = 0

AgendaOk(agenda) ==
  /\ \A k \in Codes : agenda.glossaries[k] \in {"none", "draft", "reviewed", "approved", "retired"}
  /\ \A c \in Calls : agenda.asks[c].code \in Codes /\ agenda.asks[c].term \in Terms

-----------------------------------------------------------------------------
(* Rows and calls of the declared kind; comments come from request-changes. *)
GovernanceTypeOK ==
  /\ glossary \in [Codes -> [status : {"none", "draft", "reviewed", "approved", "retired"},
                             version : Nat]]
  /\ entries \in [Codes -> SUBSET Terms]
  /\ review.status \in {"assigned", "in_review", "changes_requested"} \union Concluded
  /\ review.comments \subseteq {c \in Calls : At(c, "changes", "done")}
  /\ budget.version = Len(budget.edits)
  /\ \A c \in Calls : call[c].at \in {"new", "sent", "open", "free", "inserted", "lost"}
                                       \union Answers

(* A glossary's version counts its entries: it is behind by exactly the     *)
(* additions between their two statements, or that died there.              *)
VersionCountsEntries ==
  \A k \in Codes : glossary[k].status # "none" =>
    glossary[k].version + Cardinality({c \in Calls : /\ call[c].ask.op = "entry"
                                                     /\ call[c].ask.code = k
                                                     /\ call[c].at \in {"inserted", "lost"}})
      = 1 + Cardinality(entries[k])

(* No limits are lost: the edits of the budget form a chain, each made by   *)
(* an author who had seen exactly the edits before it.                      *)
BudgetChain == \A i \in DOMAIN budget.edits : call[budget.edits[i]].base = i - 1
=============================================================================
