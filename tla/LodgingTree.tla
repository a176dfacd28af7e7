----------------------------- MODULE LodgingTree -----------------------------
(***************************************************************************)
(* The event's lodging as a tree (store/augmented, pages/admin/lodging):   *)
(* each node's occupancy and capacity are added up from what is under it,  *)
(* its form edits the capacity set on the node itself, deleting it deletes *)
(* what is under it, and registrants choose down the tree to a unit        *)
(* (form/fields/LodgingRequested).                                         *)
(*                                                                         *)
(* Names, notes and how a node is marked are left out; `other' stands for  *)
(* the rest of what a node's form saves.                                   *)
(***************************************************************************)
EXTENDS Naturals, SequencesExt

CONSTANTS None, Nodes, Root, Parent, Guests, MaxCapacity,
          MaxChanges   \* bounds the changes to the tree in a run

VARIABLES
  nodes,     \* the event's lodging
  capacity,  \* the capacity set on each node
  lodging,   \* where each camper is
  form,      \* the node form that is open
  offered,   \* the nodes a registrant's form was loaded with
  request,   \* what that form has been told
  changes    \* how many changes to the tree there have been

treeVars == <<nodes, capacity, lodging, form, offered, request, changes>>

NoForm == [node |-> None]
NoRequest == [choices |-> <<>>, id |-> None]

TreeTypeOK ==
  /\ nodes \subseteq Nodes
  /\ capacity \in [Nodes -> 0..MaxCapacity]
  /\ lodging \in [Guests -> Nodes \cup {None}]
  /\ form = NoForm \/ form \in [node : Nodes, shown : 0..MaxCapacity, capacity : 0..MaxCapacity, typed : BOOLEAN]
  /\ offered \subseteq Nodes
  /\ request \in [choices : Seq(Nodes), id : Nodes \cup {None}]
  /\ changes \in 0..MaxChanges

-----------------------------------------------------------------------------
(* The tree, as it is built from the list of nodes *)

ChildrenIn(set, n) == {m \in set \ {Root} : Parent[m] = n}
Children(n) == ChildrenIn(nodes, n)
IsLeaf(n) == Children(n) = {}
OwnCampers(n) == {g \in Guests : lodging[g] = n}

\* How many campers are in a node or under it.
Count[n \in Nodes] ==
  Cardinality(OwnCampers(n)) + SumFunctionOnSet(Count, Children(n))

\* A node's own capacity, else its children's.
Effective[n \in Nodes] ==
  IF capacity[n] # 0 THEN capacity[n]
  ELSE SumFunctionOnSet(Effective, Children(n))

ChildrensCapacity(n) == SumFunctionOnSet(Effective, Children(n))
MaxCapacityOf(n) == capacity[n] + ChildrensCapacity(n)

\* The capacity set on the node itself, as its form edits it.
OwnCapacity(n) == MaxCapacityOf(n) - ChildrensCapacity(n)

\* A node and everything under it.
Subtree[n \in Nodes] == {n} \cup UNION {Subtree[m] : m \in Children(n)}

\* The leaves under any of the chosen nodes; choosing none shows all.
LeavesUnder(chosen) ==
  {n \in nodes : IsLeaf(n) /\ (chosen = {} \/ \E c \in chosen : n \in Subtree[c])}

-----------------------------------------------------------------------------
(* Organizers *)

Changed == changes < MaxChanges /\ changes' = changes + 1

TreeInit ==
  /\ nodes = {} /\ capacity = [n \in Nodes |-> 0] /\ lodging = [g \in Guests |-> None]
  /\ form = NoForm /\ offered = {} /\ request = NoRequest /\ changes = 0

\* Add child, or a root where there is none.
AddNode(n, cap) ==
  /\ n \notin nodes /\ \A m \in {n} \ {Root} : Parent[m] \in nodes
  /\ nodes' = nodes \cup {n}
  /\ capacity' = [capacity EXCEPT ![n] = cap]
  /\ Changed
  /\ UNCHANGED <<lodging, form, offered, request>>

\* Whoever was in what is deleted is left unassigned.
DeleteNode(n) ==
  /\ n \in nodes
  /\ nodes' = nodes \ Subtree[n]
  /\ capacity' = [m \in Nodes |-> IF m \in Subtree[n] THEN 0 ELSE capacity[m]]
  /\ lodging' = [g \in Guests |-> IF lodging[g] \in Subtree[n] THEN None ELSE lodging[g]]
  /\ Changed
  /\ UNCHANGED <<form, offered, request>>

\* A camper is placed in a unit, or left where registration put them.
PlaceGuest(g, n) ==
  /\ n \in nodes \cup {None} /\ n # lodging[g]
  /\ lodging' = [lodging EXCEPT ![g] = n]
  /\ Changed
  /\ UNCHANGED <<nodes, capacity, form, offered, request>>

FormOf(n) == [node |-> n, shown |-> OwnCapacity(n), capacity |-> OwnCapacity(n), typed |-> FALSE]

OpenForm(n) ==
  /\ form = NoForm /\ n \in nodes
  /\ form' = FormOf(n)
  /\ UNCHANGED <<nodes, capacity, lodging, offered, request, changes>>

Unsaved == form.capacity # form.shown

TypeCapacity(cap) ==
  /\ form # NoForm /\ cap # form.capacity
  /\ form' = [form EXCEPT !.capacity = cap, !.typed = TRUE]
  /\ UNCHANGED <<nodes, capacity, lodging, offered, request, changes>>

\* useLatestWhileUnchanged: the form shows what someone else saves, while nothing in it is unsaved.
FollowNode ==
  /\ form # NoForm /\ form.node \in nodes
  /\ ~Unsaved /\ form.shown # OwnCapacity(form.node)
  /\ form' = FormOf(form.node)
  /\ UNCHANGED <<nodes, capacity, lodging, offered, request, changes>>

WholeForm == form.capacity                                     \* mutant
\* Only the fields that differ from those the form was opened with are sent.
SavedCapacity == IF Unsaved THEN form.capacity ELSE capacity[form.node]

\* The changes are saved, if need be on top of what someone else has saved since.
SaveNode ==
  /\ form # NoForm /\ form.node \in nodes
  /\ capacity' = [capacity EXCEPT ![form.node] = SavedCapacity]
  /\ form' = NoForm
  /\ Changed
  /\ UNCHANGED <<nodes, lodging, offered, request>>

\* Someone else saves a node's capacity.
OtherSaves(n, cap) ==
  /\ n \in nodes /\ capacity[n] # cap
  /\ capacity' = [capacity EXCEPT ![n] = cap]
  /\ Changed
  /\ UNCHANGED <<nodes, lodging, form, offered, request>>

CloseForm ==
  /\ form # NoForm
  /\ form' = NoForm
  /\ UNCHANGED <<nodes, capacity, lodging, offered, request, changes>>

-----------------------------------------------------------------------------
(* A registrant's choice *)

\* The registration form is loaded, with what was answered before.
LoadRequestForm ==
  /\ offered # nodes
  /\ offered' = nodes
  /\ UNCHANGED <<nodes, capacity, lodging, form, request, changes>>

IsOfferedLeaf(n) == ChildrenIn(offered, n) = {}

\* The parents of the menus shown: the root, and each choice that has more to choose from.
Menus ==
  IF Root \notin offered THEN <<>>
  ELSE <<Root>> \o SelectSeq(request.choices, LAMBDA n : n \in offered /\ ~IsOfferedLeaf(n))

\* handleSelect: a choice drops those made below it.
Select(level, n) ==
  /\ level \in 1..Len(Menus) /\ n \in ChildrenIn(offered, Menus[level])
  /\ request' = [choices |-> Append(SubSeq(request.choices, 1, level - 1), n),
                 id |-> IF IsOfferedLeaf(n) THEN n ELSE None]
  /\ UNCHANGED <<nodes, capacity, lodging, form, offered, changes>>

TreeNext ==
  \/ \E n \in Nodes :
       \/ \E cap \in 0..MaxCapacity : AddNode(n, cap) \/ OtherSaves(n, cap)
       \/ DeleteNode(n) \/ OpenForm(n)
       \/ \E level \in 1..Cardinality(Nodes) : Select(level, n)
  \/ \E g \in Guests, n \in Nodes \cup {None} : PlaceGuest(g, n)
  \/ \E cap \in 0..MaxCapacity : TypeCapacity(cap)
  \/ FollowNode \/ SaveNode \/ CloseForm \/ LoadRequestForm

TreeSpec == TreeInit /\ [][TreeNext]_treeVars

-----------------------------------------------------------------------------
(* Properties *)

\* Nobody is lost from the counts: the root counts every camper with a lodging, and no
\* node counts one twice, whatever is deleted or added around them.
CountsAddUp ==
  Root \in nodes =>
    /\ Count[Root] = Cardinality({g \in Guests : lodging[g] # None})
    /\ \A n \in nodes : Count[n] = Cardinality({g \in Guests : lodging[g] \in Subtree[n]})

\* Saving a node's form without typing a capacity leaves the capacity that was set, 0
\* for a node that shows its units' sum (EventAdminLodging.tsx, editNode).
SavingKeepsCapacity ==
  [][form # NoForm /\ ~form.typed /\ form' = NoForm => capacity' = capacity]_treeVars

\* What a registrant chooses is a unit or nothing yet: the last of choices that lead down
\* from the root, one level at a time, as the form they chose it on was loaded.
ChoiceLeadsToUnit ==
  [][request' # request =>
       /\ \A i \in 1..Len(request'.choices) :
            \/ i > 1 /\ Parent[request'.choices[i]] = request'.choices[i - 1]
            \/ i = 1 /\ Parent[request'.choices[1]] = Root
       /\ request'.id # None => request'.id = Last(request'.choices)]_treeVars
=============================================================================
