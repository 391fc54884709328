------------------------------ MODULE PlanStore ------------------------------
(***************************************************************************)
(* The plan store (config/planstore): the plans and topics tables of one   *)
(* project, as its clients reach them through the Store interface.  Every  *)
(* operation below is one SQL statement, so it is one atomic step; an      *)
(* HTTP client of the server sees the same operations, but an answer may   *)
(* be lost after the statement took effect.                                *)
(*                                                                         *)
(* Abstracted: description, created_at and implemented are written         *)
(* together with the fields kept here, and nothing in the program decides  *)
(* on them.                                                                *)
(***************************************************************************)
EXTENDS PlanFSM

CONSTANTS
    Names,    \* plan filenames
    Topics,   \* topic names, without the empty one
    NoPlan    \* stands for the absence of a row

ASSUME NoPlanAssumption ==
    NoPlan \notin [status : Status \cup LegacyStatus,
                   topic : Topics \cup {""}, branch : {"", "plan"}]

VARIABLES rows, topics, content

storeVars == <<rows, topics, content>>

\* The markdown of a plan: the content column starts out empty.
Text == {"", "text"}

\* "plan" is the one branch name kasmos derives for a plan (plan/<slug>).
Meta == [status : Status \cup LegacyStatus,
         topic : Topics \cup {""}, branch : {"", "plan"}]

StoreTypeOK ==
    /\ rows \in [Names -> Meta \cup {NoPlan}]
    /\ topics \subseteq Topics
    /\ content \in [Names -> Text]

----------------------------------------------------------------------------
(* Statements.  Each has the condition under which it succeeds and the     *)
(* effect it then has; a failing statement changes nothing.                *)

CreateOK(n) == rows[n] = NoPlan
Create(n, meta) ==
    /\ rows' = [rows EXCEPT ![n] = meta]
    /\ content' = [content EXCEPT ![n] = ""]
    /\ UNCHANGED topics

\* List: the rows of the project.
List == rows

UpdateOK(n) == rows[n] # NoPlan

\* Update replaces every column.  PlanState.toPlanstoreEntry does not fill in
\* Content, so what arrives for that column is always the empty string.
Update(n, meta) ==
    /\ rows' = [rows EXCEPT ![n] = meta]
    /\ content' = [content EXCEPT ![n] = ""]
    /\ UNCHANGED topics

SetContentOK(n) == rows[n] # NoPlan
SetContent(n, text) ==
    /\ content' = [content EXCEPT ![n] = text]
    /\ UNCHANGED <<rows, topics>>

RenameOK(old, new) == rows[old] # NoPlan /\ rows[new] = NoPlan
Rename(old, new) ==
    /\ rows' = [rows EXCEPT ![new] = rows[old], ![old] = NoPlan]
    /\ content' = [content EXCEPT ![new] = content[old], ![old] = ""]
    /\ UNCHANGED topics

\* A second CreateTopic of a name is refused; its callers ignore that error.
CreateTopic(t) ==
    /\ topics' = topics \cup {t}
    /\ UNCHANGED <<rows, content>>
=============================================================================
