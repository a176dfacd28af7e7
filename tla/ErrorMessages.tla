--------------------------- MODULE ErrorMessages ---------------------------
(***************************************************************************)
(* What a form shows of its validation errors (components/form/            *)
(* errorMessages): each error takes the event's message for its field and  *)
(* kind, the event's default for the kind, a built-in one or its own, and  *)
(* noise is blanked, never removed: the form is blocked while there is any *)
(* error, so a blank one says nothing of why.                              *)
(*                                                                         *)
(* A path is a sequence of segments.  The code compares paths as text, in  *)
(* which one segment may begin another ("1" begins "10"): Begins says      *)
(* which.  A message is named after where it comes from.                   *)
(***************************************************************************)
EXTENDS Naturals, Sequences, SequencesExt, FiniteSets

CONSTANTS Paths, Indexes, Begins,
          Rules,       \* the maps of the event's messages a run tries
          MaxErrors    \* bounds the errors of a form

VARIABLES
  rules,    \* the event's messages: from <<field, kind>> to a message
  errors    \* the form's validation errors, in ajv's order

errorVars == <<rules, errors>>

Kinds == {"required", "dependencies", "pattern", "const", "oneOf"}

\* `branch': a const raised inside a branch of a oneOf or anyOf.
Error == {e \in [path : Paths, kind : Kinds, branch : BOOLEAN] : e.branch => e.kind = "const"}

ErrorsTypeOK ==
  /\ rules \in Rules
  /\ errors \in Seq(Error) /\ Len(errors) <= MaxErrors

-----------------------------------------------------------------------------
(* Messages *)

\* normalizeErrorPath: array positions become `*`.
Normalized(path) == [i \in DOMAIN path |-> IF path[i] \in Indexes THEN "*" ELSE path[i]]

KindOf(error) == IF error.kind = "dependencies" THEN "required" ELSE error.kind

Default == <<"*">>   \* every field

BuiltIn == {"required", "pattern"}

\* findMessage, and the error's own message when there is none.
MessageFor(error) ==
  LET own == <<Normalized(error.path), KindOf(error)>>
      any == <<Default, KindOf(error)>> IN
  IF error.path # <<>> /\ own \in DOMAIN rules THEN rules[own]
  ELSE IF any \in DOMAIN rules THEN rules[any]
  ELSE IF KindOf(error) \in BuiltIn THEN KindOf(error)
  ELSE "validator"

-----------------------------------------------------------------------------
(* Noise *)

Summary == {"oneOf"}
Discriminator(error) == error.kind = "const" /\ error.branch

\* The object an error is noise within: the combinator's, or the discriminator's.
Scope(error) == IF error.kind \in Summary THEN error.path ELSE Front(error.path)

\* String.startsWith.
StartsWith(path, scope) ==
  \/ scope = <<>>
  \/ /\ Len(path) >= Len(scope)
     /\ SubSeq(path, 1, Len(scope) - 1) = Front(scope)
     /\ <<Last(scope), path[Len(scope)]>> \in Begins

\* An error that tells of itself.
Specific(error) == error.kind \notin Summary \cup {"const"}

Noise(i) ==
  /\ errors[i].kind \in Summary \/ Discriminator(errors[i])
  /\ \E j \in DOMAIN errors \ {i} :
       Specific(errors[j]) /\ StartsWith(errors[j].path, Scope(errors[i]))

\* An earlier error of the field says the same, and is not blank itself.
Duplicate(i) ==
  \E j \in 1..(i - 1) :
    /\ ~Noise(j)
    /\ errors[j].path = errors[i].path /\ MessageFor(errors[j]) = MessageFor(errors[i])

Blank(i) == Noise(i) \/ Duplicate(i)

-----------------------------------------------------------------------------
(* The form is validated as it is filled in *)

ErrorsInit ==
  /\ rules \in Rules
  /\ errors = <<>>

\* An answer that fails, and one put right.
Fails(error) ==
  /\ Len(errors) < MaxErrors
  /\ errors' = Append(errors, error)
  /\ UNCHANGED rules

PutRight(i) ==
  /\ errors' = RemoveAt(errors, i)
  /\ UNCHANGED rules

ErrorsNext ==
  \/ \E error \in Error : Fails(error)
  \/ \E i \in DOMAIN errors : PutRight(i)

ErrorsSpec == ErrorsInit /\ [][ErrorsNext]_errorVars

-----------------------------------------------------------------------------
(* Properties *)

\* A blocked form says why: while there are errors one is shown, and the message of each
\* error that tells of itself is shown at its field (errorMessages.ts: noise is blanked).
BlockedIsExplained ==
  /\ errors # <<>> => \E i \in DOMAIN errors : ~Blank(i)
  /\ \A i \in DOMAIN errors : Specific(errors[i]) =>
       \E j \in DOMAIN errors : /\ ~Blank(j)
                                /\ errors[j].path = errors[i].path
                                /\ MessageFor(errors[j]) = MessageFor(errors[i])

\* errorMessages.ts:189 says a branch's error is blanked when another error sits at or under
\* the same object; the code's startsWith takes a sibling whose name begins the same.
BlankedOnlyWithin ==
  \A i \in DOMAIN errors : Noise(i) =>
    \E j \in DOMAIN errors \ {i} :
      Specific(errors[j]) /\ IsPrefix(Scope(errors[i]), errors[j].path)
=============================================================================
