--------------------------- MODULE Configuration ----------------------------
(***************************************************************************)
(* A config command from its edit to its receipt: commit_config_edit and   *)
(* admit_config_edit of src/src/commands.rs over the publication journal   *)
(* of src/src/config.rs and the config_publications table.  The file is    *)
(* written in place by its staged identity (device, inode and, where the   *)
(* file system has one, a reuse token); an operator may edit, replace or   *)
(* remove it at any time, and the process may die between any two steps.   *)
(* A text is the value its one explored key has: "on", "off", "unset".     *)
(***************************************************************************)
EXTENDS Integers, Sequences, FiniteSets

CONSTANTS Inode, MaxRows, MaxForeign

ASSUME ConfigEditsAssumption ==
    /\ Inode # {} /\ {MaxRows, MaxForeign} \subseteq Nat

VARIABLES
    attests,        \* external: the file system gives a reuse token
    onDisk,         \* config.toml: its text ("torn" when it does not parse), inode, token
    view,           \* rt.effective: the retained text, its entries, the sources digest
    brokerView,     \* the broker's config and the owner's off-state
    journal,        \* config_publications, in admission order
    command,        \* the command being admitted: its step, edit, row and the view before it
    stood,          \* rows whose bytes stood in the staged file after their staging
    drifted,        \* the file was last changed by something other than a landed edit
    strangers       \* how often an operator touched the file
editVars == <<attests, onDisk, view, brokerView, journal, command, stood, drifted, strangers>>

Text == {"on", "off", "unset"}
NoFile == [text |-> "absent", ino |-> 0, token |-> 0]
View(text) == [retained |-> text, entries |-> text, sources |-> text]
NoCommand == [at |-> "idle", edit |-> "unset", row |-> 0, before |-> View("unset")]

EditsInit ==
    /\ attests \in BOOLEAN
    /\ \E i \in Inode : onDisk = [text |-> "unset", ino |-> i, token |-> 1]
    /\ view = View("unset") /\ brokerView = [broker |-> "unset", off |-> "unset"]
    /\ journal = <<>> /\ command = NoCommand /\ stood = {} /\ drifted = FALSE /\ strangers = 0

----------------------------------------------------------------------------
(* attribution *)

\* Mutant: the inode's number alone names the file.
AttributeByInode(row) ==
    IF onDisk.ino # row.ino THEN "Different" ELSE "Same"

\* attribute: another inode is another file; the same one is the same file when
\* its reuse token agrees, and unverifiable where there is none.
Attribute(row) ==
    IF onDisk.ino # row.ino THEN "Different"
    ELSE IF ~ attests THEN "Unverifiable"
    ELSE IF onDisk.token = row.token THEN "Same" ELSE "Different"

\* same_target_file: with no file to compare, the spelling decides.
SameTargetFile(row) == IF onDisk = NoFile THEN "Same" ELSE Attribute(row)

\* classify_intent.
ClassifyIntent(row) ==
    IF onDisk = NoFile THEN "Absent"
    ELSE IF onDisk.text = row.intended
    THEN CASE Attribute(row) = "Same" -> "ExactlyNew"
           [] Attribute(row) = "Different" -> "ByteIdenticalThird"
           [] OTHER -> "Unknown"
    ELSE IF onDisk.text = row.base THEN "Old"
    ELSE IF onDisk.text = "torn" THEN "TornOrUnparseable" ELSE "Conflicting"

\* The rows whose bytes stand, at this file, in their own file.
Standing(file, rows) ==
    {i \in DOMAIN rows : file.text = rows[i].intended /\ file.ino = rows[i].ino
                         /\ file.token = rows[i].token}

----------------------------------------------------------------------------
(* one command *)

\* commit_config_edit: the retained document takes the edit, the entries and the
\* off-state follow before anything is journaled.
RetainedEdit(edit) ==
    /\ command.at = "idle" /\ edit # view.retained
    /\ command' = [at |-> "admit", edit |-> edit, row |-> 0, before |-> view]
    /\ view' = [view EXCEPT !.retained = edit, !.entries = edit]
    /\ brokerView' = [brokerView EXCEPT !.off = edit]
    /\ UNCHANGED <<attests, onDisk, journal, stood, drifted, strangers>>

\* Mutant: a refused edit leaves the off-state where the edit had put it.
RestoreRetainedViewOnly ==
    /\ view' = [command.before EXCEPT !.sources = view.sources]
    /\ UNCHANGED brokerView

\* restore_retained_view: the document, the entries and the off-state go back;
\* the sources digest never moved.
RestoreRetainedView ==
    /\ view' = [command.before EXCEPT !.sources = view.sources]
    /\ brokerView' = [brokerView EXCEPT !.off = command.before.retained]

\* serve_landed_config.
ServeLandedConfig ==
    /\ view' = [view EXCEPT !.sources = command.edit]
    /\ brokerView' = [broker |-> view.retained, off |-> view.retained]

RowsIn(state) == {i \in DOMAIN journal : journal[i].state = state}

\* Mutant: a row that may be of another file is not the answer.
PendingForSame(edit) ==
    {i \in RowsIn("pending") : journal[i].intended = edit /\ SameTargetFile(journal[i]) = "Same"}

\* admit_publication: the pending rows of this edit and possibly of this file.
PendingFor(edit) ==
    {i \in RowsIn("pending") : journal[i].intended = edit /\ SameTargetFile(journal[i]) # "Different"}

\* admit_publication: the applied rows of this edit, while its bytes stand.
AppliedFor(edit, attribution) ==
    {i \in RowsIn("applied") : /\ onDisk # NoFile /\ onDisk.text = edit /\ journal[i].intended = edit
                               /\ Attribute(journal[i]) = attribution}

AppliedRow(row) == [row EXCEPT !.state = "applied"]

First(rows) == CHOOSE i \in rows : \A j \in rows : i <= j

\* admit_publication, Pending: resolve_pending_publication completes the bytes
\* that stand or runs the write again.
AdmitPending ==
    /\ command.at = "admit" /\ PendingFor(command.edit) # {}
    /\ LET row == First(PendingFor(command.edit))
       IN command' = [command EXCEPT !.row = row,
                        !.at = IF ClassifyIntent(journal[row]) = "ExactlyNew" THEN "receipt" ELSE "write"]
    /\ UNCHANGED <<attests, onDisk, view, brokerView, journal, stood, drifted, strangers>>

\* admit_publication, Applied: the winner's outcome answers the replay.
AdmitApplied ==
    /\ command.at = "admit" /\ PendingFor(command.edit) = {}
    /\ AppliedFor(command.edit, "Same") # {}
    /\ ServeLandedConfig /\ command' = NoCommand
    /\ UNCHANGED <<attests, onDisk, journal, stood, drifted, strangers>>

\* stage_publication: the row takes the file's identity and digest.
StagePublication ==
    /\ command.at = "admit" /\ PendingFor(command.edit) = {}
    /\ AppliedFor(command.edit, "Same") = {} /\ AppliedFor(command.edit, "Unverifiable") = {}
    /\ onDisk # NoFile /\ Len(journal) < MaxRows
    /\ journal' = Append(journal, [intended |-> command.edit, base |-> onDisk.text,
                                   ino |-> onDisk.ino, token |-> onDisk.token, state |-> "pending"])
    /\ command' = [command EXCEPT !.at = "write", !.row = Len(journal) + 1]
    /\ stood' = stood \cup Standing(onDisk, journal')
    /\ UNCHANGED <<attests, onDisk, view, brokerView, drifted, strangers>>

\* An admission that is refused: no file, an applied row nobody can confirm, a
\* journal that can not be read or written.
AdmitRefused ==
    /\ command.at = "admit"
    /\ RestoreRetainedView /\ command' = NoCommand
    /\ UNCHANGED <<attests, onDisk, journal, stood, drifted, strangers>>

\* write_once holds the staged identity against the open file; where there is no
\* token the write is refused.
Writable(row) == onDisk # NoFile /\ Attribute(row) = "Same"

\* publish_intent: the bytes land in place.
PublishIntent ==
    /\ command.at = "write" /\ Writable(journal[command.row])
    /\ onDisk' = [onDisk EXCEPT !.text = command.edit]
    /\ stood' = stood \cup Standing(onDisk', journal) /\ drifted' = FALSE
    /\ command' = [command EXCEPT !.at = "receipt"]
    /\ UNCHANGED <<attests, view, brokerView, journal, strangers>>

\* publish_intent fails: before the file is touched, or after it was truncated.
PublishFails ==
    /\ command.at = "write"
    /\ \/ UNCHANGED <<onDisk, drifted>>
       \/ /\ Writable(journal[command.row])
          /\ onDisk' = [onDisk EXCEPT !.text = "torn"] /\ drifted' = TRUE
    /\ RestoreRetainedView /\ command' = NoCommand
    /\ UNCHANGED <<attests, journal, stood, strangers>>

\* complete_publication, or its failure: the edit is served either way.
CompletePublication ==
    /\ command.at = "receipt"
    /\ \/ journal' = [journal EXCEPT ![command.row] = AppliedRow(journal[command.row])]
       \/ UNCHANGED journal
    /\ ServeLandedConfig /\ command' = NoCommand
    /\ UNCHANGED <<attests, onDisk, stood, drifted, strangers>>

----------------------------------------------------------------------------
(* crash, restart, reload, and the operator *)

\* The process dies; an in-place write may be cut.
EditorCrash ==
    /\ command.at # "down"
    /\ \/ command.at = "write" /\ Writable(journal[command.row])
          /\ onDisk' = [onDisk EXCEPT !.text = "torn"] /\ drifted' = TRUE
       \/ UNCHANGED <<onDisk, drifted>>
    /\ command' = [NoCommand EXCEPT !.at = "down"]
    /\ UNCHANGED <<attests, view, brokerView, journal, stood, strangers>>

\* Mutant: recovery completes every row whose bytes are at the target.
RecoveredByBytes == {i \in RowsIn("pending") : onDisk.text = journal[i].intended}

\* recover_publications: only the rows attributed to the file are completed.
Recovered == {i \in RowsIn("pending") : ClassifyIntent(journal[i]) = "ExactlyNew"}

\* resolve_effective over what the file holds; a missing file is the base alone.
Loads ==
    /\ onDisk.text # "torn"
    /\ LET text == IF onDisk = NoFile THEN "unset" ELSE onDisk.text
       IN view' = View(text) /\ brokerView' = [broker |-> text, off |-> text]

\* The start: recovery of the journal, then the config is read.
EditorOpens ==
    /\ command.at = "down" /\ Loads /\ command' = NoCommand /\ drifted' = FALSE
    /\ journal' = [i \in DOMAIN journal |->
                    IF i \in Recovered THEN AppliedRow(journal[i]) ELSE journal[i]]
    /\ UNCHANGED <<attests, onDisk, stood, strangers>>

\* reload_config.
ReloadConfig ==
    /\ command.at = "idle" /\ Loads /\ drifted' = FALSE
    /\ UNCHANGED <<attests, onDisk, journal, command, stood, strangers>>

Touch(file) ==
    /\ strangers < MaxForeign /\ strangers' = strangers + 1
    /\ onDisk' = file /\ drifted' = TRUE /\ stood' = stood \cup Standing(file, journal)
    /\ UNCHANGED <<attests, view, brokerView, journal, command>>

\* External: an operator edits the file in place, replaces it (an inode's number
\* may be used again, its token is new), or removes it.
OperatorEdits(text) == onDisk # NoFile /\ Touch([onDisk EXCEPT !.text = text])
OperatorReplaces(text, i) ==
    Touch([text |-> text, ino |-> i, token |-> strangers + 2])
OperatorRemoves == onDisk # NoFile /\ Touch(NoFile)

EditsNext ==
    \/ \E edit \in Text : RetainedEdit(edit)
    \/ AdmitPending \/ AdmitApplied \/ StagePublication \/ AdmitRefused
    \/ PublishIntent \/ PublishFails \/ CompletePublication
    \/ EditorCrash \/ EditorOpens \/ ReloadConfig
    \/ \E text \in Text \cup {"torn"} :
        OperatorEdits(text) \/ \E i \in Inode : OperatorReplaces(text, i)
    \/ OperatorRemoves

EditsSpec == EditsInit /\ [][EditsNext]_editVars

----------------------------------------------------------------------------
\* A receipt is only for bytes that stood in the very file the row was staged
\* for, after it was staged: a byte-identical third file, under the same number
\* or another, never completes a row, at recovery or at a retry.
ReceiptHeld == RowsIn("applied") \subseteq stood

\* Whenever no command is open, every surface (the retained document, its
\* entries, the sources digest, the broker, the off-state) names one text, and it
\* is the file's unless somebody else changed the file since.
ServedIsLanded ==
    command.at = "idle" =>
        /\ \A t \in {view.entries, view.sources, brokerView.broker, brokerView.off} : t = view.retained
        /\ ~ drifted => view.retained = IF onDisk = NoFile THEN "unset" ELSE onDisk.text

\* A command that is still pending is never journaled twice: no two pending rows
\* intend the same bytes for the same file.
NeverJournaledTwice ==
    \A i, j \in RowsIn("pending") :
        /\ journal[i].intended = journal[j].intended
        /\ journal[i].ino = journal[j].ino /\ journal[i].token = journal[j].token
        => i = j

-----------------------------------------------------------------------------
(***************************************************************************)
(* What a configuration document is (validated_document of                 *)
(* src/src/config.rs), the edits of config.set, config.reset and the       *)
(* rebinding of purposes, which check only the key they touch, the layers  *)
(* of the shipped base and the user's document, and the resolution of a    *)
(* purpose.  A model or a fallback is its mode and the connections it      *)
(* names; a connection, group, purpose or profile that is not declared is  *)
(* mapped to a "none" value.                                               *)
(***************************************************************************)

CONSTANTS Connections, Groups, Purposes, Profiles

ASSUME ConfigRulesAssumption == "none" \notin (Connections \cup Groups \cup Purposes \cup Profiles)

VARIABLES
    baseLayer,      \* BaseSource: the shipped models
    doc,            \* raw: the retained document
    typedView       \* the typed fields beside it
rulesVars == <<baseLayer, doc, typedView>>

Model(mode, refs) == [mode |-> mode, refs |-> refs]
NoModel == Model("none", {})
NoPurpose == [declared |-> FALSE, group |-> "none", model |-> NoModel, fallback |-> NoModel]
NoConnection == [kind |-> "none", credential |-> "none", profile |-> "none"]

----------------------------------------------------------------------------
(* what the wire and the file can state *)

\* wire_model and model_assign: inherit, auto, or one named connection (a pool
\* names several and is checked the same way).
WireModel == {Model("inherit", {}), Model("auto", {})}
             \cup {Model("fixed", {c}) : c \in Connections}

\* wire_fallback and fallback_assign: a chain of fixed entries, manual, off.
WireFallback == {Model("off", {})} \cup {Model("chain", {c}) : c \in Connections}

----------------------------------------------------------------------------
(* validation of a whole document *)

Declared(d) == {c \in Connections : d.connections[c] # NoConnection}

\* check_model_refs, check_chain_refs: only declared connections are named.
CheckModelRefs(d, model) == model.refs \subseteq Declared(d)

\* check_model_references, of the defaults.
CheckDefaults(d) ==
    CheckModelRefs(d, d.defaults.model) /\ CheckModelRefs(d, d.defaults.fallback)

\* Mutant: the group a purpose names is not looked up.
CheckReferencesUngrouped(d) ==
    /\ CheckDefaults(d)
    /\ \A g \in Groups : CheckModelRefs(d, d.groups[g])
    /\ \A p \in Purposes :
        CheckModelRefs(d, d.purposes[p].model) /\ CheckModelRefs(d, d.purposes[p].fallback)

\* check_model_references, of the groups and the purposes.
CheckModelReferences(d) ==
    /\ CheckDefaults(d)
    /\ \A g \in Groups : CheckModelRefs(d, d.groups[g])
    /\ \A p \in Purposes :
        /\ d.purposes[p].group # "none" => d.groups[d.purposes[p].group] # NoModel
        /\ CheckModelRefs(d, d.purposes[p].model) /\ CheckModelRefs(d, d.purposes[p].fallback)

\* validated_document, of one connection: its credential fits its kind and the
\* profile it names is declared.
ConnectionAdmitted(d, c) ==
    /\ c.kind \in {"api_key", "subscription"} => c.credential = "ref"
    /\ c.kind = "local" => c.credential = "none"
    /\ c.profile # "none" => d.profiles[c.profile] # "none"

\* validated_document.
ValidatedDocument(d) ==
    /\ Declared(d) # {}
    /\ \A c \in Declared(d) : ConnectionAdmitted(d, d.connections[c])
    /\ CheckModelReferences(d)

----------------------------------------------------------------------------
(* the layers and the resolution *)

Over(own, under, none) == IF own # none THEN own ELSE under

\* compose_defaults: an inheriting slot of the user's defaults takes the base's.
ComposeDefaults(user) ==
    [user EXCEPT !.model = IF user.model.mode = "inherit" THEN baseLayer.model ELSE user.model]

\* compose_models and composed: groups and purposes of the user shadow the
\* base's of the same name.
Composed(d) ==
    [d EXCEPT !.defaults = ComposeDefaults(d.defaults),
              !.groups = [g \in Groups |-> Over(d.groups[g], baseLayer.groups[g], NoModel)],
              !.purposes = [p \in Purposes |-> Over(d.purposes[p], baseLayer.purposes[p], NoPurpose)]]

\* resolve_purpose, its model: the purpose's own, else its group's, else the
\* defaults'.
ResolvedModel(d, p) ==
    LET def == d.purposes[p]
    IN IF def.model.mode \in {"auto", "fixed"} THEN def.model
       ELSE IF def.group # "none" THEN d.groups[def.group]
       ELSE d.defaults.model

\* resolve_purpose, its fallback.
ResolvedFallback(d, p) ==
    IF d.purposes[p].fallback # NoModel THEN d.purposes[p].fallback ELSE d.defaults.fallback

----------------------------------------------------------------------------
(* edits *)

\* refresh_view_if_valid: an invalid document leaves the typed view behind.
RefreshView(d) == typedView' = IF ValidatedDocument(d) THEN d ELSE typedView

\* Mutant: the target is checked for its shape only.
ValidateTargetShape(d, ok) == TRUE

\* validate_target: the edited key alone is read back and checked.
ValidateTarget(d, ok) == ok

\* commit_edit: an edit whose target does not validate restores the document.
CommitEdit(d, ok) ==
    IF ValidateTarget(d, ok) THEN doc' = d /\ RefreshView(d) ELSE UNCHANGED <<doc, typedView>>

\* The slot of a binding an edit names; the group or the purpose it names.
Slotted(def, field, value) ==
    IF field = "model" THEN [def EXCEPT !.model = value] ELSE [def EXCEPT !.fallback = value]
WithGroup(g, model) == [doc EXCEPT !.groups = [doc.groups EXCEPT ![g] = model]]
WithPurpose(p, def) == [doc EXCEPT !.purposes = [doc.purposes EXCEPT ![p] = def]]

\* set models.defaults.model and .fallback.
SetDefaults(field, value) ==
    LET d == [doc EXCEPT !.defaults = Slotted(doc.defaults, field, value)]
    IN CommitEdit(d, CheckModelRefs(d, value))

\* set models.groups.<name>.model: ensure_table_like declares the group.
SetGroup(g, model) ==
    LET d == WithGroup(g, model) IN CommitEdit(d, CheckModelRefs(d, model))

\* set models.purposes.<name>.model and .fallback: the purpose is declared.
SetPurpose(p, field, value) ==
    LET d == WithPurpose(p, Slotted([doc.purposes[p] EXCEPT !.declared = TRUE], field, value))
    IN CommitEdit(d, CheckModelRefs(d, value))

\* reset: the override is removed and its table stays; defaults and groups are
\* required and can not be reset (is_override).
ResetPurpose(p, field) ==
    LET d == WithPurpose(p, Slotted(doc.purposes[p], field, NoModel))
    IN /\ doc.purposes[p].declared /\ CommitEdit(d, TRUE)

\* set connections.<name>.profile: of a declared connection, to a declared
\* profile (require_declared_connection).
SetConnectionProfile(c, profile) ==
    LET d == [doc EXCEPT !.connections =
                  [doc.connections EXCEPT ![c] = [doc.connections[c] EXCEPT !.profile = profile]]]
    IN /\ c \in Declared(doc)
       /\ CommitEdit(d, profile # "none" => doc.profiles[profile] # "none")

\* set and reset profiles.<name>.credential_ref: the profile's table stays.
SetProfile(profile, credential) ==
    LET d == [doc EXCEPT !.profiles = [doc.profiles EXCEPT ![profile] = credential]]
    IN CommitEdit(d, TRUE)

\* Mutant: a move ends at its target whatever was bound there.
RebindableAny(from, to) == doc.purposes[from].declared

\* rebind_purpose, merge_purposes: the target holds nothing, or the same.
Rebindable(from, to) ==
    /\ doc.purposes[from].declared
    /\ doc.purposes[to] \in {NoPurpose, doc.purposes[from]}

\* rebind_purpose and move_purpose_table: the binding moves with its group.
RebindPurpose(from, to) ==
    LET d == [doc EXCEPT !.purposes = [doc.purposes EXCEPT ![to] = doc.purposes[from],
                                                           ![from] = NoPurpose]]
    IN /\ from # to /\ Rebindable(from, to) /\ doc' = d /\ RefreshView(d)

----------------------------------------------------------------------------
BoundTo(g) == [declared |-> TRUE, group |-> g, model |-> NoModel, fallback |-> NoModel]
Group1 == CHOOSE g \in Groups : TRUE
InitialConnections ==
    LET first == CHOOSE c \in Connections : TRUE
    IN {[c \in Connections |-> IF c = first THEN [kind |-> "api_key", credential |-> "ref", profile |-> "none"]
                               ELSE NoConnection]}

\* BaseSource::layer: the shipped models name no connection; a base may bind a
\* purpose to a group of its own.
BaseLayers ==
    {[model |-> Model("auto", {}),
      groups |-> [g \in Groups |-> IF grouped THEN Model("auto", {}) ELSE NoModel],
      purposes |-> [p \in Purposes |-> IF grouped THEN BoundTo(Group1) ELSE NoPurpose]] : grouped \in {own \in BOOLEAN : own => Groups # {}}}

\* A started runtime holds a document that validated, alone and composed.
RulesInit ==
    /\ baseLayer \in BaseLayers
    /\ doc \in [connections : InitialConnections,
                profiles : [Profiles -> {"none", "ref"}],
                defaults : {[model |-> Model("auto", {}), fallback |-> Model("off", {})]},
                groups : {[g \in Groups |-> NoModel], [g \in Groups |-> Model("inherit", {})]},
                purposes : [Purposes -> {NoPurpose} \cup {BoundTo(g) : g \in Groups}]]
    /\ ValidatedDocument(doc) /\ CheckModelReferences(Composed(doc))
    /\ typedView = doc

RulesNext ==
    /\ UNCHANGED baseLayer
    /\ \/ \E f \in {"model", "fallback"} :
            \/ \E v \in IF f = "model" THEN WireModel ELSE WireFallback :
                SetDefaults(f, v) \/ \E p \in Purposes : SetPurpose(p, f, v)
            \/ \E p \in Purposes : ResetPurpose(p, f)
       \/ \E m \in WireModel, g \in Groups : SetGroup(g, m)
       \/ \E p, q \in Purposes : RebindPurpose(p, q)
       \/ \E c \in Connections, profile \in Profiles \cup {"none"} : SetConnectionProfile(c, profile)
       \/ \E profile \in Profiles, credential \in {"ref"} : SetProfile(profile, credential)

RulesSpec == RulesInit /\ [][RulesNext]_rulesVars

----------------------------------------------------------------------------
\* Edits that check only the key they touch keep the whole document valid and
\* the typed view its own: the next start accepts the file, and no edit of a
\* running session is served from an older document.
EditsKeepValid == ValidatedDocument(doc) /\ typedView = doc

\* Every purpose of the composed layers resolves, to a model and a fallback that
\* name declared connections only: no sequence of edits strands a purpose of the
\* base or of the user on a missing group or connection.
EveryPurposeResolves ==
    LET all == Composed(typedView)
    IN \A p \in Purposes :
        /\ ResolvedModel(all, p) # NoModel
        /\ CheckModelRefs(all, ResolvedModel(all, p)) /\ CheckModelRefs(all, ResolvedFallback(all, p))

\* An edit of the models never loses a purpose's binding: what a purpose was
\* bound to stays bound, there or where it was moved to.
BindingsSurvive ==
    [][\A p \in Purposes :
        doc.purposes[p].group # "none" =>
            \E q \in Purposes : doc'.purposes[q].group = doc.purposes[p].group
                                /\ (q # p => doc.purposes[q] \in {NoPurpose, doc.purposes[p]})]_rulesVars

\* Configuration as a whole: a receipt is for bytes that stood in its file, what is served
\* has landed, no pending edit is journaled twice, an edit keeps the document valid and
\* every purpose resolvable, and no edit loses a purpose's binding.
ConfigurationStands ==
    /\ [](ReceiptHeld /\ ServedIsLanded /\ NeverJournaledTwice /\ EditsKeepValid /\ EveryPurposeResolves)
    /\ BindingsSurvive
=============================================================================
