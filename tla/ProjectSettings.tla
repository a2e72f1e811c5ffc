--------------------------- MODULE ProjectSettings ---------------------------
(***************************************************************************)
(* The settings of a project: profiles and styles, translation governance, *)
(* publishing setup; and the requests for its general jobs.  They are four *)
(* sets of tables that no route writes together, so a behaviour works on   *)
(* one of them and nothing is lost.                                        *)
(***************************************************************************)
EXTENDS ProfileSettings, TranslationGovernance, PublishingSetup, JobRequests

CONSTANT Scenes   \* which part is at work, and what each starts from

ASSUME ScenesAssumption ==
  \A s \in Scenes : SheetOk(s.sheet) /\ AgendaOk(s.agenda) /\ PlanOk(s.plan)

VARIABLE part

projectVars == <<settingsVars, governanceVars, setupVars, requestVars, part>>

Init == \E s \in Scenes : /\ part = s.part
                          /\ SettingsInit(s.sheet)
                          /\ GovernanceInit(s.agenda)
                          /\ SetupInit(s.plan)
                          /\ RequestsInit(s.batch)

ProfilesStep == /\ part = "profiles" /\ SettingsNext
                /\ UNCHANGED <<governanceVars, setupVars, requestVars, part>>
GovernanceStep == /\ part = "governance" /\ GovernanceNext
                  /\ UNCHANGED <<settingsVars, setupVars, requestVars, part>>
SetupStep == /\ part = "setup" /\ SetupNext
             /\ UNCHANGED <<settingsVars, governanceVars, requestVars, part>>
RequestsStep == /\ part = "requests" /\ RequestsNext
                /\ UNCHANGED <<settingsVars, governanceVars, setupVars, part>>

Next == ProfilesStep \/ GovernanceStep \/ SetupStep \/ RequestsStep

Spec == Init /\ [][Next]_projectVars /\ SettingsFairness

(* The variables have their types, rows are locked by open transactions     *)
(* only, an idempotency key has one job, and no edit of a profile or of the *)
(* budget limits is lost.                                                   *)
SettingsInv == /\ SettingsTypeOK /\ GovernanceTypeOK /\ SetupTypeOK /\ RequestsTypeOK
               /\ NoLostUpdate /\ BudgetChain

(* Every job is as its call asked, a key gives one job, and the account,    *)
(* destination and platform of a publishing job belong together.            *)
JobAsAsked == JobIsWired /\ KeyNamesOneRequest /\ OneJobPerKey /\ AnswerAsRequested
=============================================================================
