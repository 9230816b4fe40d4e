--------------------------- MODULE ColumnMappings ---------------------------
(***************************************************************************)
(* The column mapping of an entity and source: what the Xero parser found  *)
(* in an upload, the default saved for the next one, and the drift warning *)
(* when they differ.  An upload reads the default twice, once to parse     *)
(* with it and once to compare; a publish and the "Save as default" button *)
(* look whether there is one and then write it.                            *)
(***************************************************************************)
EXTENDS FiniteSets, Naturals

CONSTANTS
  Reqs,
  Files,
  Fields,        \* the columns the parser looks for; a default header is its field's name
  Required,      \* those without which the parser gives up
  HeadersOf,     \* the headers of a file's sheet
  MaxSaves       \* bound on uses of the button

VARIABLES
  saved,         \* the row of table column_mappings, or None
  learnt,        \* the file whose mapping the row holds
  detected,      \* column_mapping_json of each snapshot, or None
  drift,         \* files whose snapshot carries COLUMN_MAPPING_DRIFT
  published, saves,
  req

vars == <<saved, learnt, detected, drift, published, saves, req>>

-----------------------------------------------------------------------------

Absent == "absent"
Mapping == [layout : {"PLAIN", "OVERRIDE"}, source : [Fields -> Fields \cup {Absent}]]
None == [layout |-> "NONE"]
NoFile == "no file"
Idle == [pc |-> "idle"]

TypeOK ==
  /\ saved \in Mapping \cup {None} /\ learnt \in Files \cup {NoFile}
  /\ detected \in [Files -> Mapping \cup {None}]
  /\ drift \subseteq Files /\ published \subseteq Files /\ saves \in 0 .. MaxSaves
  /\ req \in [Reqs -> {Idle}
       \cup [pc : {"compare"}, file : Files, mapping : Mapping]
       \cup [pc : {"publish", "button"}, file : Files, absent : BOOLEAN]]

Init ==
  /\ saved = None /\ learnt = NoFile /\ detected = [f \in Files |-> None]
  /\ drift = {} /\ published = {} /\ saves = 0
  /\ req = [r \in Reqs |-> Idle]

Goto(r, q) == req' = [req EXCEPT ![r] = q]
End(r) == Goto(r, Idle)

-----------------------------------------------------------------------------
(* createSnapshotFromUpload *)

\* buildParserOverrideFromSaved: the headers the default names.
Override == IF saved = None THEN {} ELSE {f \in Fields : saved.source[f] # Absent}

\* parseXeroAgedReceivables: an override wins over the default header.  A header is
\* only ever saved as it was found, so both are the field's name; an override that
\* names a header at all marks the layout.
Found(file) ==
  [layout |-> IF Override # {} THEN "OVERRIDE" ELSE "PLAIN",
   source |-> [f \in Fields |-> IF f \in HeadersOf[file] THEN f ELSE Absent]]

Parse(r, file) ==
  /\ req[r] = Idle /\ detected[file] = None
  /\ Required \subseteq HeadersOf[file]
  /\ Goto(r, [pc |-> "compare", file |-> file, mapping |-> Found(file)])
  /\ UNCHANGED <<saved, learnt, detected, drift, published, saves>>

\* compareColumnMappings: the layout and every field.
Differ(a, b) == a.layout # b.layout \/ \E f \in Fields : a.source[f] # b.source[f]

\* The insert; of two uploads of one file the second is a duplicate.
Stage(r) ==
  LET q == req[r] IN
  /\ q.pc = "compare"
  /\ IF detected[q.file] # None THEN UNCHANGED <<detected, drift>>
     ELSE /\ detected' = [detected EXCEPT ![q.file] = q.mapping]
          /\ drift' = IF saved # None /\ Differ(saved, q.mapping) THEN drift \cup {q.file} ELSE drift
  /\ End(r)
  /\ UNCHANGED <<saved, learnt, published, saves>>

-----------------------------------------------------------------------------
(* publishSnapshot, saveColumnMapping *)

Find(r, pc, file) ==
  /\ req[r] = Idle /\ detected[file] # None
  /\ Goto(r, [pc |-> pc, file |-> file, absent |-> saved = None])
  /\ UNCHANGED <<saved, learnt, detected, drift>>

PublishFind(r, file) == file \notin published /\ Find(r, "publish", file) /\ UNCHANGED <<published, saves>>

Put(file) == saved' = detected[file] /\ learnt' = file

\* Fault: the mapping of the latest publish becomes the default.
PublishSaves(r) ==
  LET q == req[r] IN
  /\ q.pc = "publish"
  /\ Put(q.file) /\ published' = published \cup {q.file}
  /\ End(r)
  /\ UNCHANGED <<detected, drift, saves>>

\* The publish that finds no default saves its own; when another request has saved
\* one meanwhile the unique key rolls the whole publish back.
PublishSave(r) ==
  LET q == req[r] IN
  /\ q.pc = "publish"
  /\ CASE ~q.absent -> published' = published \cup {q.file} /\ UNCHANGED <<saved, learnt>>
       [] q.absent /\ saved = None -> Put(q.file) /\ published' = published \cup {q.file}
       [] OTHER -> UNCHANGED <<saved, learnt, published>>
  /\ End(r)
  /\ UNCHANGED <<detected, drift, saves>>

\* The panel of a staged or published snapshot.
ButtonFind(r, file) ==
  saves < MaxSaves /\ saves' = saves + 1 /\ Find(r, "button", file) /\ UNCHANGED published

ButtonSave(r) ==
  LET q == req[r] IN
  /\ q.pc = "button"
  /\ IF q.absent /\ saved # None THEN UNCHANGED <<saved, learnt>> ELSE Put(q.file)
  /\ End(r)
  /\ UNCHANGED <<detected, drift, published, saves>>

Next ==
  \E r \in Reqs :
    \/ \E f \in Files : Parse(r, f) \/ PublishFind(r, f) \/ ButtonFind(r, f)
    \/ Stage(r) \/ PublishSave(r) \/ ButtonSave(r)

Spec == Init /\ [][Next]_vars

-----------------------------------------------------------------------------

\* "Subsequent publishes leave the saved mapping alone" (publishSnapshot), however
\* requests overlap: only the button changes a default.
BaselineStands ==
  saved' # saved => saved = None \/ \E r \in Reqs : req[r].pc = "button" /\ req'[r] = Idle

=============================================================================
