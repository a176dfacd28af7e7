----------------------------- MODULE EventImport -----------------------------
(***************************************************************************)
(* Importing an event (data/loadAllData and the import tools): a run saves *)
(* the event and its records, by name, and then deletes                    *)
(* and recreates its lodging.  Requests of one stage are sent together.  A *)
(* request whose connection drops is sent again, unless that could save    *)
(* something twice; anything else that goes wrong ends the run, and what   *)
(* is under way then is still handled.  The event is imported again after  *)
(* that, or next season, once the server is done with what reached it.     *)
(*                                                                         *)
(* Then it registers its samples, pays for each once all are registered,   *)
(* and has the server check the templates.  An event's own overrides, the  *)
(* run's token and what is in a record are left out.                       *)
(***************************************************************************)
EXTENDS Naturals, Sequences, FiniteSets

CONSTANTS RecordKinds,  \* the kinds of record saved, in order
          Names,        \* the records of a kind the event declares
          Templated,    \* the kinds whose email templates are set after each is saved
          Root, NodeKeys, Under,  \* the lodging tree the event declares
          Samples,      \* its sample registrations
          MaxRuns       \* bounds the runs

Kind == {RecordKinds[i] : i \in DOMAIN RecordKinds}

\* The lodging is declared as a tree, from its root, and any keys of it have a highest among
\* them and a lowest (event-import-spec/index.ts).  The tools check neither: a node whose
\* parentKey leads nowhere is left out, unsaid.
IsTree ==
  /\ Root \in NodeKeys /\ Under \in [NodeKeys \ {Root} -> NodeKeys]
  /\ \A some \in (SUBSET NodeKeys) \ {{}} :
       /\ \E k \in some : k = Root \/ Under[k] \notin some
       /\ \E k \in some : \A j \in some \ {Root} : Under[j] # k

ASSUME ImportAssumption == RecordKinds \in Seq(Kind) /\ IsTree /\ MaxRuns \in Nat

VARIABLES
  run,      \* the run under way, or the last one
  asked,    \* its requests under way
  saved,    \* the server's records of the event
  lodging,  \* its lodging, each node by the run that made it and its key
  sampled   \* its sample registrations, by the run that made them, and whether paid for

importVars == <<run, asked, saved, lodging, sampled>>

NoRecord == [copies |-> 0, right |-> FALSE]
Node == [by : 1..MaxRuns, key : NodeKeys]
Request == [what : {"record"}, kind : Kind, name : Names, method : {"POST", "PUT", "PATCH"}]
             \cup [what : {"clear"}, node : Node, method : {"DELETE"}]
             \cup [what : {"node"}, node : Node, method : {"POST"}]
             \cup [what : {"register", "pay"}, sample : Samples, method : {"POST"}]
             \cup [what : {"check"}, method : {"GET"}]

ImportTypeOK ==
  /\ run \in [n : 0..MaxRuns, stage : 0..(Len(RecordKinds) + 6), listed : BOOLEAN,
              at : {"off", "going", "failing", "failed", "done"}, why : {"none", "lost", "refused", "gone"}]
  /\ asked \subseteq Request
  /\ saved \in [Kind -> [Names -> [copies : 0..MaxRuns, right : BOOLEAN]]]
  /\ lodging \subseteq Node
  /\ sampled \subseteq [by : 1..MaxRuns, sample : Samples, paid : BOOLEAN]

ImportInit ==
  /\ run = [n |-> 0, stage |-> 0, listed |-> FALSE, at |-> "off", why |-> "none"]
  /\ asked = {}
  /\ saved = [k \in Kind |-> [x \in Names |-> NoRecord]]
  /\ lodging = {} /\ sampled = {}

\* A season later, or after a failure: what there was need not be as declared any more.
Start ==
  /\ run.at \in {"off", "failed", "done"} /\ run.n < MaxRuns
  /\ asked = {}
  /\ run' = [n |-> run.n + 1, stage |-> 1, listed |-> FALSE, at |-> "going", why |-> "none"]
  /\ saved' = [k \in Kind |-> [x \in Names |-> [saved[k][x] EXCEPT !.right = FALSE]]]
  /\ UNCHANGED <<asked, lodging, sampled>>

InRecords == run.at = "going" /\ run.stage <= Len(RecordKinds)
Clearing == run.at = "going" /\ run.stage = Len(RecordKinds) + 1
Building == run.at = "going" /\ run.stage = Len(RecordKinds) + 2
Registering == run.at = "going" /\ run.stage = Len(RecordKinds) + 3
Paying == run.at = "going" /\ run.stage = Len(RecordKinds) + 4
Checking == run.at = "going" /\ run.stage = Len(RecordKinds) + 5

\* What the event already has is found by its name, and updated; the rest is created.
Saving(k, x) == [what |-> "record", kind |-> k, name |-> x,
                 method |-> IF saved[k][x].copies = 0 THEN "POST" ELSE "PUT"]

ListRecords ==
  /\ InRecords /\ ~run.listed
  /\ asked' = {Saving(RecordKinds[run.stage], x) : x \in Names}
  /\ run' = [run EXCEPT !.listed = TRUE]
  /\ UNCHANGED <<saved, lodging, sampled>>

\* deleteAll: all of the event's lodging, so as to start clean.
ListLodging ==
  /\ Clearing /\ ~run.listed
  /\ asked' = {[what |-> "clear", node |-> l, method |-> "DELETE"] : l \in lodging}
  /\ run' = [run EXCEPT !.listed = TRUE]
  /\ UNCHANGED <<saved, lodging, sampled>>

NewNode(key) == [what |-> "node", node |-> [by |-> run.n, key |-> key], method |-> "POST"]

CreateRoot ==
  /\ Building /\ ~run.listed
  /\ asked' = {NewNode(Root)}
  /\ run' = [run EXCEPT !.listed = TRUE]
  /\ UNCHANGED <<saved, lodging, sampled>>

\* loadTestRegs: every sample's first step, and once they are answered every payment.
SendSamples ==
  /\ (Registering \/ Paying) /\ ~run.listed
  /\ asked' = {[what |-> IF Registering THEN "register" ELSE "pay", sample |-> x, method |-> "POST"] : x \in Samples}
  /\ run' = [run EXCEPT !.listed = TRUE]
  /\ UNCHANGED <<saved, lodging, sampled>>

CheckTemplates ==
  /\ Checking /\ ~run.listed
  /\ asked' = {[what |-> "check", method |-> "GET"]}
  /\ run' = [run EXCEPT !.listed = TRUE]
  /\ UNCHANGED <<saved, lodging, sampled>>

\* The next stage, once all of this one's requests are answered.
NextStage ==
  /\ run.at = "going" /\ run.listed /\ asked = {}
  /\ run' = [run EXCEPT !.stage = @ + 1, !.listed = FALSE,
                        !.at = IF Checking THEN "done" ELSE "going"]
  /\ UNCHANGED <<asked, saved, lodging, sampled>>

-----------------------------------------------------------------------------
(* Requests *)

\* A node and what is under it, all of which its deletion deletes.
Below[key \in NodeKeys] == {key} \cup UNION {Below[k] : k \in {j \in NodeKeys \ {Root} : Under[j] = key}}
Cascade(node) == {l \in lodging : l.by = node.by /\ l.key \in Below[node.key]}

Gone(q) == q.what = "clear" /\ q.node \notin lodging

\* What the server does with a request.
Acts(q) ==
  CASE q.what = "record" ->
         /\ saved' = IF q.method = "PATCH" THEN saved
                     ELSE [saved EXCEPT ![q.kind][q.name] =
                             [copies |-> IF q.method = "POST" THEN @.copies + 1 ELSE @.copies, right |-> TRUE]]
         /\ UNCHANGED <<lodging, sampled>>
    [] q.what = "clear" -> lodging' = lodging \ Cascade(q.node) /\ UNCHANGED <<saved, sampled>>
    [] q.what = "node"  -> lodging' = lodging \cup {q.node} /\ UNCHANGED <<saved, sampled>>
    [] q.what \in {"register", "pay"} ->
         /\ sampled' = {r \in sampled : ~(r.by = run.n /\ r.sample = q.sample)}
                         \cup {[by |-> run.n, sample |-> q.sample, paid |-> q.what = "pay"]}
         /\ UNCHANGED <<saved, lodging>>
    [] q.what = "check" -> UNCHANGED <<saved, lodging, sampled>>

\* What its answer has the run send next: a saved record's templates, a node's children.
Follows(q) ==
  CASE q.what = "record" /\ q.kind \in Templated /\ q.method # "PATCH" -> {[q EXCEPT !.method = "PATCH"]}
    [] q.what = "node" -> {NewNode(k) : k \in {j \in NodeKeys \ {Root} : Under[j] = q.node.key}}
    [] OTHER -> {}

\* The run ends: the rest of what is under way is nobody's.
Fails(why) == run' = [run EXCEPT !.at = "failing", !.why = why]

Answered(q) ==
  /\ ~Gone(q)
  /\ Acts(q)
  /\ asked' = (asked \ {q}) \cup (IF run.at = "going" THEN Follows(q) ELSE {})
  /\ UNCHANGED run

\* Refused (not valid, a token that has ended), or a node deleted with the one over it.
RequestRefused(q) ==
  /\ asked' = asked \ {q}
  /\ IF run.at = "going" THEN Fails(IF Gone(q) THEN "gone" ELSE "refused") ELSE UNCHANGED run
  /\ UNCHANGED <<saved, lodging, sampled>>

RepeatableAny(q) == q.method # "GET"                           \* mutant
\* Only these are sent again (reads aside): sending one twice changes nothing more.
Repeatable(q) == q.method \in {"PUT", "DELETE"}

\* The connection drops, before the server acts or after, and the request is sent again...
SentAgain(q) ==
  /\ Repeatable(q) /\ run.at = "going" /\ ~Gone(q)
  /\ Acts(q)
  /\ UNCHANGED <<run, asked>>

\* ...or not, or not any more.
Dropped(q) ==
  /\ \/ UNCHANGED <<saved, lodging, sampled>>
     \/ ~Gone(q) /\ Acts(q)
  /\ asked' = asked \ {q}
  /\ IF run.at = "going" THEN Fails("lost") ELSE UNCHANGED run

Over ==
  /\ run.at = "failing" /\ asked = {}
  /\ run' = [run EXCEPT !.at = "failed"]
  /\ UNCHANGED <<asked, saved, lodging, sampled>>

GoesOn == ListRecords \/ ListLodging \/ CreateRoot \/ SendSamples \/ CheckTemplates \/ NextStage \* mutant
ImportGoes == ListRecords \/ ListLodging \/ CreateRoot \/ SendSamples \/ CheckTemplates \/ NextStage \/ Over

ImportNext ==
  \/ Start \/ ImportGoes
  \/ \E q \in asked : Answered(q) \/ RequestRefused(q) \/ SentAgain(q) \/ Dropped(q)

\* The importer goes on, and every request is answered, refused or given up on.
ImportFairness ==
  /\ WF_importVars(ImportGoes)
  /\ WF_importVars(\E q \in asked : Answered(q) \/ RequestRefused(q) \/ Dropped(q))

ImportSpec == ImportInit /\ [][ImportNext]_importVars /\ ImportFairness

-----------------------------------------------------------------------------
(* Properties *)

\* However many runs failed before it, and wherever, a run that succeeds leaves each
\* record the event declares once and as declared, its lodging as declared, none of it
\* twice, and its own samples paid for.
ImportedAsDeclared ==
  run.at = "done" =>
    /\ \A k \in Kind, x \in Names : saved[k][x] = [copies |-> 1, right |-> TRUE]
    /\ lodging = [by : {run.n}, key : NodeKeys]
    /\ {r \in sampled : r.by = run.n} = [by : {run.n}, sample : Samples, paid : {TRUE}]

\* A node of the lodging is never there without the one over it.
NoOrphans ==
  \A l \in lodging : l.key # Root => \E m \in lodging : m.by = l.by /\ m.key = Under[l.key]

\* Both hold of every import (import-tools/CamphoricEventCreator.ts).
ImportIsWhole == ImportedAsDeclared /\ NoOrphans

\* importOptions.ts says importing an event again deletes and recreates its lodging: this
\* says no run fails because of that deletion, when the server refuses nothing.
ReimportClears == run.why # "gone"

\* Every run ends.
RunsEnd == run.at \in {"going", "failing"} ~> run.at \in {"done", "failed"}
=============================================================================
