------------------------- MODULE RequirementDrafts -------------------------
(***************************************************************************)
(* Requirement drafts (src/main/core/demoWorkflow-requirement.ts): a       *)
(* preview reads a chat and a template and keeps a draft, a confirmation   *)
(* creates the record in the workflow platform, and drafts that are too    *)
(* old are removed when the next request comes in.                         *)
(*                                                                         *)
(* What a draft says is left out, and so is how the chat is read.          *)
(***************************************************************************)
EXTENDS Naturals, FiniteSets

CONSTANTS
  Draft,        \* drafts
  Confirm,      \* confirmations that may be under way together
  MaxCreates    \* bound of the model: creations tried for a draft

ASSUME DraftsAssumption == MaxCreates \in Nat \ {0}

VARIABLES
  drafts,     \* the drafts kept, by their ID
  old,        \* drafts past their time of expiry
  confirms,   \* the creation each confirmation waits for
  creating,   \* create commands under way
  tried,      \* creations tried for a draft
  \* remembered for the properties only
  answers     \* records confirmations of a draft were answered with

draftVars == <<drafts, old, confirms, creating, tried, answers>>

Creations == 1..MaxCreates
NoCreation == 0
NoWait == <<"none", NoCreation>>

DraftsTypeOK ==
  /\ drafts \in [Draft -> [kept : {"no", "looking", "reading", "yes"},
                           inFlight : Creations \cup {NoCreation}, result : Creations \cup {NoCreation}]]
  /\ old \subseteq Draft
  /\ confirms \in [Confirm -> (Draft \X Creations) \cup {NoWait}]
  /\ creating \subseteq Draft \X Creations
  /\ tried \in [Draft -> 0..MaxCreates]
  /\ answers \in [Draft -> SUBSET Creations]

NoDraft == [kept |-> "no", inFlight |-> NoCreation, result |-> NoCreation]

DraftsInit ==
  /\ drafts = [d \in Draft |-> NoDraft] /\ old = {}
  /\ confirms = [c \in Confirm |-> NoWait] /\ creating = {}
  /\ tried = [d \in Draft |-> 0] /\ answers = [d \in Draft |-> {}]

\* Half an hour passes, measured from the beginning of the preview.
DraftExpires(d) ==
  /\ drafts[d].kept # "no" /\ d \notin old /\ old' = old \cup {d}
  /\ UNCHANGED <<drafts, confirms, creating, tried, answers>>

\* A draft whose record is being created stays until that is over.
Removed(d) == d \in old /\ drafts[d].kept = "yes" /\ drafts[d].inFlight = NoCreation

\* removeExpiredDrafts
Remaining == [d \in Draft |-> IF Removed(d) THEN NoDraft ELSE drafts[d]]

PreviewBegins(d) ==
  /\ drafts[d] = NoDraft /\ tried[d] = 0 /\ d \notin old
  /\ drafts' = [Remaining EXCEPT ![d].kept = "looking"]
  /\ UNCHANGED <<old, confirms, creating, tried, answers>>

PreviewGoes(d, from, to) ==
  /\ drafts[d].kept = from
  /\ drafts' = [drafts EXCEPT ![d].kept = to]
  /\ UNCHANGED <<old, confirms, creating, tried, answers>>

SourcesFound(d) == PreviewGoes(d, "looking", "reading")

\* The group or the space is not found or not unique, the template is no
\* requirement or belongs to another space.
LookupFails(d) == PreviewGoes(d, "looking", "no")

\* There are no messages or too many, they cannot be paged through, or the
\* cycle is not of the space.
ReadFails(d) == PreviewGoes(d, "reading", "no")

\* The draft is written and kept, unless no message asks for anything.
PreviewEnds(d) == \E kept \in {"yes", "no"} : PreviewGoes(d, "reading", kept)

-----------------------------------------------------------------------------
(* createRequirement                                                       *)

\* A confirmation that comes while the first is under way starts another.
EachStarts(d) == Remaining[d].kept = "yes" /\ Remaining[d].result = NoCreation

StartsCreation(d) ==
  /\ Remaining[d].kept = "yes" /\ Remaining[d].result = NoCreation
  /\ Remaining[d].inFlight = NoCreation

Idle(c) == confirms[c] = NoWait

CreationStarts(c, d) ==
  LET n == tried[d] + 1
  IN /\ Idle(c) /\ StartsCreation(d) /\ n \in Creations
     /\ drafts' = [Remaining EXCEPT ![d].inFlight = n]
     /\ confirms' = [confirms EXCEPT ![c] = <<d, n>>]
     /\ creating' = creating \cup {<<d, n>>}
     /\ tried' = [tried EXCEPT ![d] = n]
     /\ UNCHANGED <<old, answers>>

\* A confirmation of a draft whose record is being created waits for it.
CreationJoined(c, d) ==
  /\ Idle(c) /\ ~StartsCreation(d)
  /\ Remaining[d].kept = "yes" /\ Remaining[d].result = NoCreation
  /\ drafts' = Remaining
  /\ confirms' = [confirms EXCEPT ![c] = <<d, drafts[d].inFlight>>]
  /\ UNCHANGED <<old, creating, tried, answers>>

\* The record is known, or there is no such draft (any more).
AnsweredAtOnce(c, d) ==
  /\ Idle(c)
  /\ Remaining[d].kept = "yes" => Remaining[d].result # NoCreation
  /\ drafts' = Remaining
  /\ answers' = [answers EXCEPT ![d] = @ \cup ({Remaining[d].result} \ {NoCreation})]
  /\ UNCHANGED <<old, confirms, creating, tried>>

\* The command of a creation is over and its confirmations are answered.
CreationEnds(d, n) ==
  /\ <<d, n>> \in creating /\ creating' = creating \ {<<d, n>>}
  /\ confirms' = [c \in Confirm |-> IF confirms[c] = <<d, n>> THEN NoWait ELSE confirms[c]]
  /\ UNCHANGED <<old, tried>>

CreationSucceeds(d, n) ==
  /\ CreationEnds(d, n)
  /\ drafts' = IF drafts[d].kept = "yes"
               THEN [drafts EXCEPT ![d].inFlight = NoCreation, ![d].result = n]
               ELSE drafts
  /\ answers' = [answers EXCEPT ![d] = @ \cup {n}]

\* The command fails, runs into its time limit or names no record, after the
\* platform may have made one of which nobody is told.
CreationFails(d, n) ==
  /\ CreationEnds(d, n)
  /\ drafts' = IF drafts[d].kept = "yes" THEN [drafts EXCEPT ![d].inFlight = NoCreation] ELSE drafts
  /\ UNCHANGED answers

\* The daemon starts again and has forgotten the drafts.
DraftsLost ==
  /\ drafts' = [d \in Draft |-> NoDraft]
  /\ confirms' = [c \in Confirm |-> NoWait] /\ creating' = {}
  /\ UNCHANGED <<old, tried, answers>>

DraftsNext ==
  \/ DraftsLost
  \/ \E d \in Draft :
       \/ DraftExpires(d) \/ PreviewBegins(d) \/ SourcesFound(d) \/ LookupFails(d)
       \/ ReadFails(d) \/ PreviewEnds(d)
       \/ \E n \in Creations : CreationSucceeds(d, n) \/ CreationFails(d, n)
       \/ \E c \in Confirm : CreationStarts(c, d) \/ CreationJoined(c, d) \/ AnsweredAtOnce(c, d)

DraftsSpec == DraftsInit /\ [][DraftsNext]_draftVars

-----------------------------------------------------------------------------
(* Properties.                                                             *)

\* However often and however concurrently a draft is confirmed, before or
\* while it expires, there is never more than one create command under way for
\* it, and everybody is told of the same record: a further one can only be left
\* by a creation that was reported as failed.
OneRequirement ==
  \A d \in Draft :
    /\ Cardinality({n \in Creations : <<d, n>> \in creating}) <= 1
    /\ Cardinality(answers[d]) <= 1
    /\ answers[d] # {} => \A n \in Creations : <<d, n>> \notin creating
=============================================================================
