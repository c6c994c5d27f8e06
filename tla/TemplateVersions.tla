--------------------------- MODULE TemplateVersions ---------------------------
(***************************************************************************)
(* The templates of a workspace, and the copies of them that campaigns     *)
(* freeze, while people save, delete, schedule and unschedule.  What a     *)
(* save makes of the text is in Templates; here a content is a value.      *)
(***************************************************************************)
EXTENDS Naturals

CONSTANTS Campaigns,    \* campaigns that may use a template
          Contents,     \* bodies an author may save
          MaxTemplates, \* bound: templates ever created
          MaxVersion    \* bound: versions of one template

ASSUME TemplateNumbers == MaxTemplates \in Nat /\ MaxVersion \in Nat

VARIABLES templates, \* id -> the row, or NoTemplate
          uses,      \* campaign -> the template it names, or 0
          frozen,    \* campaign -> its template_snapshot, or NoTemplate
          reading,   \* campaign -> the template its scheduling has read
          templatesMade

templateVars == <<templates, uses, frozen, reading, templatesMade>>

-----------------------------------------------------------------------------
NoTemplate == [id |-> 0, version |-> 0, content |-> "none"]

TemplateInit ==
  /\ templates = [i \in 1..MaxTemplates |-> NoTemplate]
  /\ uses = [c \in Campaigns |-> 0]
  /\ frozen = [c \in Campaigns |-> NoTemplate] /\ reading = frozen
  /\ templatesMade = 0

CreateTemplate(content) ==
  LET id == templatesMade + 1 IN
  /\ id <= MaxTemplates /\ templatesMade' = id
  /\ templates' = [templates EXCEPT ![id] = [id |-> id, version |-> 1, content |-> content]]
  /\ UNCHANGED <<uses, frozen, reading>>

KeepsVersion_Bug(id, content) ==
  /\ templates[id] # NoTemplate
  /\ templates' = [templates EXCEPT ![id].content = content]
  /\ UNCHANGED <<uses, frozen, reading, templatesMade>>

(* A save that changes no content - a new name - keeps the version.        *)
UpdateTemplate(id, content) ==
  LET old == templates[id] IN
  /\ old # NoTemplate /\ old.version < MaxVersion
  /\ templates' = [templates EXCEPT ![id] =
       IF old.content = content THEN old ELSE [id |-> id, version |-> old.version + 1, content |-> content]]
  /\ UNCHANGED <<uses, frozen, reading, templatesMade>>

(* The foreign key of the campaigns refuses to drop one that is in use.    *)
DeleteTemplate(id) ==
  /\ templates[id] # NoTemplate
  /\ \A c \in Campaigns : uses[c] # id
  /\ templates' = [templates EXCEPT ![id] = NoTemplate]
  /\ UNCHANGED <<uses, frozen, reading, templatesMade>>

(* A draft names a template, or none.                                      *)
ChooseTemplate(c, id) ==
  /\ frozen[c] = NoTemplate /\ uses[c] # id
  /\ id # 0 => templates[id] # NoTemplate
  /\ uses' = [uses EXCEPT ![c] = id]
  /\ UNCHANGED <<templates, frozen, reading, templatesMade>>

(* Scheduling reads the template, checks it, and then writes the copy with *)
(* the status; unscheduling clears it.                                     *)
ReadTemplate(c) ==
  /\ frozen[c] = NoTemplate /\ uses[c] # 0
  /\ reading' = [reading EXCEPT ![c] = templates[uses[c]]]
  /\ UNCHANGED <<templates, uses, frozen, templatesMade>>

FreezeTemplate(c) ==
  /\ reading[c] # NoTemplate /\ frozen[c] = NoTemplate /\ uses[c] # 0
  /\ frozen' = [frozen EXCEPT ![c] = reading[c]]
  /\ reading' = [reading EXCEPT ![c] = NoTemplate]
  /\ UNCHANGED <<templates, uses, templatesMade>>

UnfreezeTemplate(c) ==
  /\ frozen[c] # NoTemplate
  /\ frozen' = [frozen EXCEPT ![c] = NoTemplate]
  /\ UNCHANGED <<templates, uses, reading, templatesMade>>

TemplateNext ==
  \/ \E x \in Contents : CreateTemplate(x) \/ \E i \in 1..MaxTemplates : UpdateTemplate(i, x)
  \/ \E i \in 1..MaxTemplates : DeleteTemplate(i)
  \/ \E c \in Campaigns :
       \/ \E i \in 0..MaxTemplates : ChooseTemplate(c, i)
       \/ ReadTemplate(c) \/ FreezeTemplate(c) \/ UnfreezeTemplate(c)

TemplateSpec == TemplateInit /\ [][TemplateNext]_templateVars

SnapshotIsStale(snapshot, t) == snapshot.id = t.id /\ snapshot.version # t.version

-----------------------------------------------------------------------------
(* 0009, snapshot.ts: a version names one content.  Two copies of one      *)
(* template with the same version - rows, snapshots, or the copy that a    *)
(* scheduling in progress has read - say the same, so the version in the   *)
(* audit trail tells what was sent, and a snapshot that is not stale is    *)
(* what the template says now.                                             *)
VersionNamesContent ==
  LET copies == {templates[i] : i \in 1..MaxTemplates} \cup {frozen[c] : c \in Campaigns}
                  \cup {reading[c] : c \in Campaigns} IN
  \A s, t \in copies : s.id = t.id /\ ~SnapshotIsStale(s, t) => s.content = t.content
=============================================================================
