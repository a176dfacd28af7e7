------------------------------- MODULE MCAdmin -------------------------------
(* What several people and tabs change at once, each part on a small        *)
(* instance.  The parts share no state here: a run checks several of them,  *)
(* and in each behaviour only the part it starts as moves.                  *)
EXTENDS ChangeFeed, RecordEdit, Session, EditLease, LodgingBoard, EventImport, Access, TLC

CONSTANTS
  Parts,  \* the parts a run checks
  t1, t2, c1, c2, p1, p2,
  Texts, MaxVersions, MaxDrafts, MaxRevisions,
  MaxRuleSaves

VARIABLES
  part,
  versions, draft, drafts, agreed, sessions, editor, gate,
  event, shown, start, rules, dirty, json, ruleForm, confirm, ruleSaving, mine, swept,
  ruleTold,
  homePage, homeStored, homeCached, homeOpen, homeForm, homeDrafts, homeSaving, homeSeen,
  homeKept, homeTold,
  reports, reportList, reportPage, reportForm, reportSaving

\* The event that is imported: its kinds of records, and its tree of lodging.
DeclaredKinds == <<"reports", "types">>
DeclaredUnder == [a |-> "r", b |-> "a", c |-> "r"]

Terms == INSTANCE Contracts WITH MaxSaves <- MaxRevisions, session <- sessions
Messages == INSTANCE ErrorRules WITH Fields <- {"f"}, Kinds <- {"k", "l"}, MaxSaves <-
            MaxRuleSaves, saving <- ruleSaving, told <- ruleTold
Drafting == INSTANCE DraftSaves WITH Texts <- {"a", "b"}, Emails <- <<"e">>, MaxSaves <- 2,
            page <- homePage, stored <- homeStored, cached <- homeCached, open <- homeOpen,
            main <- homeForm, drafts <- homeDrafts, saving <- homeSaving, seen <- homeSeen,
            kept <- homeKept, told <- homeTold
Reporting == INSTANCE Reports WITH Ids <- {"p", "q"}, Texts <- {"a"}, MaxSaves <- 2, page <-
             reportPage, form <- reportForm, saving <- reportSaving, list <- reportList

contractState == <<versions, draft, drafts, agreed, sessions, editor, gate>>
ruleState == <<event, shown, start, rules, dirty, json, ruleForm, confirm, ruleSaving, mine,
               swept, ruleTold>>
homeState == <<homePage, homeStored, homeCached, homeOpen, homeForm, homeDrafts, homeSaving,
               homeSeen, homeKept, homeTold>>
reportState == <<reports, reportList, reportPage, reportForm, reportSaving>>
allState == <<part, recordVars, feedVars, leaseVars, boardVars, importVars, sessionVars,
          contractState, appsVars, ruleState, accountVars, homeState, reportState>>

PartsInit ==
  /\ part \in Parts
  \* each part's initial states, and one of them while it isn't the part that moves
  /\ RecordInit
  /\ FeedInit
  /\ LeaseInit
  /\ part # "lease" => lease = Nothing
  /\ BoardInit
  /\ ImportInit
  /\ SessionInit
  /\ part # "session" => session = None
  /\ Terms!ContractsInit
  /\ part # "contract" => versions = <<>>
  /\ AppsInit
  /\ part # "app" => ~signedIn /\ \A p \in Pages : page[p].scope = "read"
  /\ Messages!RulesInit
  /\ AccountsInit
  /\ Drafting!DraftsInit
  /\ part # "home" => homePage = "home"
  /\ Reporting!ReportsInit

PartsNext ==
  /\ UNCHANGED part
  /\ part # "record" => UNCHANGED recordVars
  /\ part # "feed" => UNCHANGED feedVars
  /\ part # "lease" => UNCHANGED leaseVars
  /\ part # "board" => UNCHANGED boardVars
  /\ part # "import" => UNCHANGED importVars
  /\ part # "session" => UNCHANGED sessionVars
  /\ part # "contract" => UNCHANGED contractState
  /\ part # "app" => UNCHANGED appsVars
  /\ part # "rules" => UNCHANGED ruleState
  /\ part # "account" => UNCHANGED accountVars
  /\ part # "home" => UNCHANGED homeState
  /\ part # "report" => UNCHANGED reportState
  /\ CASE part = "record" -> RecordNext
       [] part = "feed" -> FeedNext
       [] part = "lease" -> LeaseNext
       [] part = "board" -> BoardNext
       [] part = "import" -> ImportNext
       [] part = "session" -> SessionNext
       [] part = "contract" -> Terms!ContractsNext
       [] part = "app" -> AppsNext
       [] part = "rules" -> Messages!RulesNext
       [] part = "account" -> AccountsNext
       [] part = "home" -> Drafting!DraftsNext
       [] part = "report" -> Reporting!ReportsNext

PartsSpec == PartsInit /\ [][PartsNext]_allState

-----------------------------------------------------------------------------
(* What the runs check *)

\* Every part's state is what its module says it is.
AdminTypeOK ==
  /\ part \in Parts
  /\ part = "record" => RecordTypeOK
  /\ part = "feed" => FeedTypeOK
  /\ part = "lease" => LeaseTypeOK
  /\ part = "board" => BoardTypeOK
  /\ part = "import" => ImportTypeOK
  /\ part = "session" => SessionTypeOK
  /\ part = "contract" => Terms!ContractsTypeOK
  /\ part = "app" => AppsTypeOK
  /\ part = "rules" => Messages!RulesTypeOK
  /\ part = "account" => AccountsTypeOK
  /\ part = "home" => Drafting!DraftsTypeOK
  /\ part = "report" => Reporting!ReportsTypeOK

\* What is saved, deleted or published was begun from what its Admin's page had: a contract's
\* terms, an email edited beside its event or registration type, and a report (store/contracts.ts,
\* views.py version_conflict, hooks/useTemplateDraft.ts, ReportEditForm.tsx).
ActsOnWhatTheyKnew ==
  Terms!ActsOnWhatItKnew /\ Drafting!DraftsOverwriteSeen /\ Reporting!OwnOverwritesSeen

\* Saving an event's settings changes nobody else's, what isn't saved is said to be unsaved,
\* and what is said to be saved is: its validation messages, and the emails edited with it
\* (ErrorMessagesSettings.tsx, useEditableRecord.ts, EventAdminHome.tsx).
SettingsKept ==
  /\ Messages!OthersMessagesKept
  /\ [](part = "rules" => Messages!UnsavedIsSaid)
  /\ [](part = "home" => Drafting!SaidSavedIsSaved)
  /\ [](part = "report" => Reporting!HandlebarsIsLegacy)

\* Closing a registration type's form with its email changed asks first
\* (RegistrationTypeForm.tsx:9); the end of a save begun before closes it unasked.
ClosingAsks == Drafting!ClosingAsks

\* A change someone else saved is never overwritten unseen (ReportEditForm.tsx:247); after the
\* browser's Back it is, with another report's text.
ReportsOverwriteSeen == Reporting!ReportsOverwriteSeen

\* Leaving a report's form with unsaved changes asks first (EventAdminReports.tsx:6); after one
\* answer that left the form open it doesn't.
LeavingAsks == Reporting!LeavingAsks

\* Changes to the messages are saved from the version they were made from; a deletion
\* confirmed late isn't (ErrorMessagesSettings.tsx:8).
SavedFromWhereMade == Messages!SavedFromWhereMade

\* A published version is one its Admin's page had shown (store/contracts.ts).
PublishedWasRead == Terms!PublishedWasRead

-----------------------------------------------------------------------------
(* Liveness, under the fairness each part's module justifies *)

\* A save ends however often others save first, a form with nothing unsaved comes to show the
\* record as it is, and whoever goes on editing comes to hold the lease, and whoever may not
\* is let in once nobody else does (useEditableRecord.ts, useEditLease.ts).
EditsSettle ==
  /\ part = "record" /\ RecordFairness => SavesEnd /\ ShowsLatest
  /\ part = "lease" /\ LeaseFairness => ViewerFreed /\ EditorHolds

\* What someone else changes comes to be shown, in the records and on the lodging timeline,
\* whatever was lost before (useEventChangeFeed.ts, useLodgingAssignment.ts).
ChangesArrive ==
  /\ part = "feed" /\ FeedFairness => CatchesUp
  /\ part = "board" /\ BoardFairness => BoardCatchesUp

\* A session's end is found out, newly published terms are asked of everyone signed in, a
\* lapsed connection is forgotten, and an import ends (useSessionMonitor.ts, ContractGate.tsx,
\* oauth.py, loadAllData.ts).
NothingIsLeftWaiting ==
  /\ part = "session" /\ SessionFairness => EndIsNoticed
  /\ part = "contract" /\ Terms!ContractsFairness => Terms!TermsReachEveryone
  /\ part = "app" /\ AppsFairness => LapsedIsForgotten
  /\ part = "import" /\ ImportFairness => RunsEnd
=============================================================================
