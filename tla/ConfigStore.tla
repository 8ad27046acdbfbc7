----------------------------- MODULE ConfigStore -----------------------------
(***************************************************************************)
(* The configuration files, internal/config/config.go: the global file,    *)
(* which `solomon config set` and `solomon rule` read, change and replace, *)
(* the project file of a trusted directory, and the processes that load    *)
(* both (`daemon serve`, `check`, `config show`).                          *)
(*                                                                         *)
(* A file is a schema version and the fields that are present in it.  The  *)
(* fields are those that migrate or validation treats specially; the other *)
(* settings are read and written as auto is.  Nothing locks a file: a read *)
(* and the rename that replaces the file are two steps of a process.       *)
(***************************************************************************)
EXTENDS Integers, Sequences

CONSTANTS
  Command,       \* command lines of rule exceptions
  RuleId,        \* their identifiers
  Editor,        \* `config set` and `rule` processes
  Loader,        \* processes that load the effective configuration
  GlobalFiles,   \* global files earlier releases may have left
  ProjectFiles,  \* project files a user may write
  Overrides,     \* SOLOMON_* environments: the fields each one sets
  Settings,      \* what `config set` is used for: one field each
  NoFile, Invalid, Nothing

CurrentSchemaVersion == 7
Mode == {"off", "hint", "interrupt", "rewrite"}
Exception == [id : RuleId, command : Command]
Config == [mode : Mode, auto : BOOLEAN, risk : BOOLEAN, curated : BOOLEAN,
           history : BOOLEAN, exceptions : Seq(Exception)]
Field == {"mode", "auto", "risk", "curated", "history", "exceptions"}

\* The fields in a file, an environment or a `config set` have their types.
Fits(part) ==
  /\ DOMAIN part \subseteq Field
  /\ "mode" \in DOMAIN part => part["mode"] \in Mode
  /\ "exceptions" \in DOMAIN part => part["exceptions"] \in Seq(Exception)
  /\ \A f \in DOMAIN part \ {"mode", "exceptions"} : part[f] \in BOOLEAN

ASSUME ConfigAssumption ==
  /\ \A f \in GlobalFiles \cup ProjectFiles : f.version \in Nat /\ Fits(f.set)
  /\ \A part \in Overrides \cup Settings :
       Fits(part) /\ DOMAIN part \cap {"history", "exceptions"} = {}
  /\ NoFile \notin GlobalFiles \cup ProjectFiles \cup [version : Nat, set : Config]
  /\ Invalid \notin Config /\ Nothing \notin Config

VARIABLES
  global,     \* the global file
  project,    \* the project file
  trusted,    \* its marker, ownership and permissions are in order
  editing,    \* what each editor is about to write, and what it ought to
  pc, loaded, \* where each loader is, and what it has loaded
  expected,   \* history: what the commands executed so far amount to
  overlapped, \* history: two editors have overlapped
  consent,    \* history: a mode that acts was chosen under schema 5 or later
  swapped     \* history: loaders behind whose check of the project file it has changed

vars == <<global, project, trusted, editing, pc, loaded, expected, overlapped, consent, swapped>>

-----------------------------------------------------------------------------
(***************************************************************************)
(* Reading a file.                                                         *)
(***************************************************************************)

Default == [mode |-> "hint", auto |-> FALSE, risk |-> FALSE, curated |-> TRUE,
            history |-> FALSE, exceptions |-> << >>]

\* JSON decoding into, or Set on, a configuration: the rest stays.
Overlay(base, part) ==
  [f \in Field |-> IF f \in DOMAIN part THEN part[f] ELSE base[f]]

Acts(mode) == mode \in {"rewrite", "interrupt"}

\* The cases of migrate that change a setting: 0 and 1, 3, 4, 5.
deriveRiskInterrupt(cfg, version) ==
  IF version <= 1 THEN [cfg EXCEPT !.risk = (cfg.mode = "interrupt")] ELSE cfg
enableCuratedPacks(cfg, version) ==
  IF version <= 3 THEN [cfg EXCEPT !.curated = TRUE] ELSE cfg

\* Mutant: older schemas skip the case.
dropAuthority_OnlyFour(cfg, version) ==
  IF version = 4 /\ Acts(cfg.mode)
  THEN [cfg EXCEPT !.mode = "hint", !.auto = FALSE, !.risk = FALSE] ELSE cfg

dropAuthority(cfg, version) ==
  IF version <= 4 /\ Acts(cfg.mode)
  THEN [cfg EXCEPT !.mode = "hint", !.auto = FALSE, !.risk = FALSE] ELSE cfg
dropHistory(cfg, version) ==
  IF version <= 5 THEN [cfg EXCEPT !.history = FALSE] ELSE cfg

migrate(cfg, version) ==
  dropHistory(dropAuthority(enableCuratedPacks(deriveRiskInterrupt(cfg, version),
                                               version), version), version)

\* What decode makes of a file before it validates it.
Meaning(file, base) ==
  IF file = NoFile THEN base ELSE migrate(Overlay(base, file.set), file.version)

\* No two exceptions share an identifier, and no two a command.
validateRuleExceptions(s) ==
  \A i, j \in DOMAIN s : s[i].id = s[j].id \/ s[i].command = s[j].command => i = j

\* No release has left a global file it would not load.
ASSUME ExceptionsAssumption ==
  \A f \in GlobalFiles :
    "exceptions" \in DOMAIN f.set => validateRuleExceptions(f.set["exceptions"])

decode(file, base) ==
  IF file # NoFile /\ file.version > CurrentSchemaVersion THEN Invalid
  ELSE IF Meaning(file, base).history THEN Invalid
  ELSE IF ~validateRuleExceptions(Meaning(file, base).exceptions) THEN Invalid
  ELSE Meaning(file, base)

LoadGlobal == decode(global, Default)

-----------------------------------------------------------------------------
(***************************************************************************)
(* Changing a configuration.  Invalid: the command reports an error.       *)
(***************************************************************************)

\* Mutant: only the command is compared.
AddRuleException_AnyId(cfg, id, command) ==
  IF \E i \in DOMAIN cfg.exceptions : cfg.exceptions[i].command = command THEN Invalid
  ELSE [cfg EXCEPT !.exceptions = Append(@, [id |-> id, command |-> command])]

AddRuleException(cfg, id, command) ==
  IF \E i \in DOMAIN cfg.exceptions :
       cfg.exceptions[i].id = id \/ cfg.exceptions[i].command = command
  THEN Invalid
  ELSE [cfg EXCEPT !.exceptions = Append(@, [id |-> id, command |-> command])]

\* The position of the entry with an identifier, if any: the first one.
Position(s, id) == {i \in DOMAIN s : s[i].id = id /\ \A j \in 1 .. (i - 1) : s[j].id # id}

\* The loop returns at the entry with the identifier, so that only entries
\* before it are compared with the new command.
UpdateRuleException(cfg, id, command) ==
  LET s == cfg.exceptions
      at == CHOOSE i \in Position(s, id) : TRUE
  IN  IF Position(s, id) = {} THEN Invalid
      ELSE IF \E j \in 1 .. (at - 1) : s[j].command = command THEN Invalid
      ELSE [cfg EXCEPT !.exceptions = [s EXCEPT ![at] = [id |-> id, command |-> command]]]

RemoveRuleException(cfg, id) ==
  LET s == cfg.exceptions
      at == CHOOSE i \in Position(s, id) : TRUE
  IN  IF Position(s, id) = {} THEN Invalid
      ELSE [cfg EXCEPT !.exceptions = SubSeq(s, 1, at - 1) \o SubSeq(s, at + 1, Len(s))]

\* Mutant: the file keeps the schema version it had.
Written_OldVersion(cfg) ==
  [version |-> IF global = NoFile THEN CurrentSchemaVersion ELSE global.version, set |-> cfg]

\* Write stores every field; migrate has set the schema version.
Written(cfg) == [version |-> CurrentSchemaVersion, set |-> cfg]

-----------------------------------------------------------------------------
Init ==
  /\ global \in GlobalFiles \cup {NoFile}
  /\ project = NoFile /\ trusted = FALSE
  /\ editing = [e \in Editor |-> Nothing]
  /\ pc = [l \in Loader |-> "idle"]
  /\ loaded = [l \in Loader |-> Default]
  /\ expected = Meaning(global, Default)
  /\ overlapped = FALSE
  /\ consent = (global # NoFile /\ global.version > 4 /\ Acts(Meaning(global, Default).mode))
  /\ swapped = {}

(***************************************************************************)
(* Editors: LoadGlobal, the change in memory, Write.                       *)
(***************************************************************************)

\* e has read the file and will write cfg; executed alone, it would make
\* what is expected into want (which nobody asks for after an overlap).
Begin(e, cfg, want) ==
  LET overlaps == overlapped \/ \E d \in Editor : editing[d] # Nothing
  IN  /\ editing[e] = Nothing
      /\ cfg # Invalid
      /\ editing' = [editing EXCEPT ![e] = [cfg |-> cfg, want |-> IF overlaps THEN Default ELSE want]]
      /\ overlapped' = overlaps
      /\ expected' = IF overlaps THEN Default ELSE expected
      /\ UNCHANGED <<global, project, trusted, pc, loaded, swapped>>

configCommand(e, part) ==
  /\ LoadGlobal # Invalid
  /\ Begin(e, Overlay(LoadGlobal, part), Overlay(expected, part))
  /\ consent' = IF "mode" \in DOMAIN part /\ Acts(part["mode"]) THEN TRUE ELSE consent

ruleAdd(e, id, command) ==
  /\ LoadGlobal # Invalid
  /\ Begin(e, AddRuleException(LoadGlobal, id, command), AddRuleException(expected, id, command))
  /\ UNCHANGED consent

ruleUpdate(e, id, command) ==
  /\ LoadGlobal # Invalid
  /\ Begin(e, UpdateRuleException(LoadGlobal, id, command),
              UpdateRuleException(expected, id, command))
  /\ UNCHANGED consent

ruleRemove(e, id) ==
  /\ LoadGlobal # Invalid
  /\ Begin(e, RemoveRuleException(LoadGlobal, id), RemoveRuleException(expected, id))
  /\ UNCHANGED consent

\* The temporary file is renamed over the global one.
Write(e) ==
  /\ editing[e] # Nothing
  /\ global' = Written(editing[e].cfg)
  /\ expected' = IF overlapped THEN expected ELSE editing[e].want
  /\ editing' = [editing EXCEPT ![e] = Nothing]
  /\ UNCHANGED <<project, trusted, pc, loaded, overlapped, consent, swapped>>

\* Writing fails, or the process is killed, before the rename.
WriteFails(e) ==
  /\ editing[e] # Nothing
  /\ editing' = [editing EXCEPT ![e] = Nothing]
  /\ UNCHANGED <<global, project, trusted, pc, loaded, expected, overlapped, consent, swapped>>

-----------------------------------------------------------------------------
(***************************************************************************)
(* Loaders, and the user who edits the project directory.                  *)
(***************************************************************************)

\* A file with the marker is the user's choice; one without is not.
EditProject(file, marker) ==
  /\ project' = file
  /\ trusted' = marker
  /\ consent' = IF marker /\ file # NoFile /\ file.version > 4 /\ "mode" \in DOMAIN file.set
                   /\ Acts(file.set["mode"])
                THEN TRUE ELSE consent
  /\ swapped' = swapped \cup {l \in Loader : pc[l] = "read"}
  /\ UNCHANGED <<global, editing, pc, loaded, expected, overlapped>>

Step(l, from, to) == pc[l] = from /\ pc' = [pc EXCEPT ![l] = to]

\* Load begins with the global file.
LoadBase(l) ==
  /\ Step(l, "idle", "look")
  /\ LoadGlobal # Invalid
  /\ loaded' = [loaded EXCEPT ![l] = LoadGlobal]
  /\ UNCHANGED <<global, project, trusted, editing, expected, overlapped, consent, swapped>>

\* projectPath and mergeApprovedProject find a file they trust, or none.
projectPath(l) ==
  /\ Step(l, "look", IF project # NoFile /\ trusted THEN "read" ELSE "session")
  /\ UNCHANGED <<global, project, trusted, editing, loaded, expected, overlapped, consent, swapped>>

\* ... and read what is there by now.
mergeApprovedProject(l) ==
  /\ Step(l, "read", "session")
  /\ project # NoFile /\ decode(project, loaded[l]) # Invalid
  /\ loaded' = [loaded EXCEPT ![l] = decode(project, loaded[l])]
  /\ UNCHANGED <<global, project, trusted, editing, expected, overlapped, consent, swapped>>

\* The project file cannot be used after all: Load returns an error.
LoadFails(l) ==
  /\ Step(l, "read", "idle")
  /\ project = NoFile \/ decode(project, loaded[l]) = Invalid
  /\ loaded' = [loaded EXCEPT ![l] = Default]
  /\ swapped' = swapped \ {l}
  /\ UNCHANGED <<global, project, trusted, editing, expected, overlapped, consent>>

ApplySessionOverrides(l, part) ==
  /\ Step(l, "session", "loaded")
  /\ loaded' = [loaded EXCEPT ![l] = Overlay(@, part)]
  /\ consent' = IF "mode" \in DOMAIN part /\ Acts(part["mode"]) THEN TRUE ELSE consent
  /\ UNCHANGED <<global, project, trusted, editing, expected, overlapped, swapped>>

\* The process ends; its place is free for another.
Finish(l) ==
  /\ Step(l, "loaded", "idle")
  /\ loaded' = [loaded EXCEPT ![l] = Default]
  /\ swapped' = swapped \ {l}
  /\ UNCHANGED <<global, project, trusted, editing, expected, overlapped, consent>>

-----------------------------------------------------------------------------
Edit(e) ==
  \/ \E part \in Settings : configCommand(e, part)
  \/ \E id \in RuleId, command \in Command : ruleAdd(e, id, command) \/ ruleUpdate(e, id, command)
  \/ \E id \in RuleId : ruleRemove(e, id)
  \/ Write(e) \/ WriteFails(e)

Load(l) ==
  \/ LoadBase(l) \/ projectPath(l) \/ mergeApprovedProject(l) \/ LoadFails(l)
  \/ \E part \in Overrides : ApplySessionOverrides(l, part)
  \/ Finish(l)

Next ==
  \/ \E e \in Editor : Edit(e)
  \/ \E l \in Loader : Load(l)
  \/ \E file \in ProjectFiles \cup {NoFile}, marker \in BOOLEAN : EditProject(file, marker)

Spec == Init /\ [][Next]_vars

-----------------------------------------------------------------------------
(***************************************************************************)
(* Properties.                                                             *)
(***************************************************************************)

\* migrate: "A schema migration must not retain authority to edit or block a
\* command. Users can opt in again".  A process runs under rewrite or
\* interrupt only if the user has chosen such a mode under schema 5 or later:
\* in the global file, in a project file with its marker, with `config set`, or
\* in the environment; and no chain of legacy files, untrusted files, merges,
\* rewrites of the global file and failed writes leads there without.  (Except
\* for a project file that changes between the check of its trust and the read:
\* what is there by then is merged, approved or not.)
AuthorityIsConsented ==
  \A l \in Loader \ swapped : pc[l] = "loaded" /\ Acts(loaded[l].mode) => consent

\* The exceptions in the global file keep distinct identifiers, also when two
\* commands read the file before either replaces it: `rule remove` and `rule
\* update` mean one entry.
ExceptionIdsAreUnique ==
  LET s == Meaning(global, Default).exceptions
  IN  \A i, j \in DOMAIN s : s[i].id = s[j].id => i = j

\* Commands that do not overlap are not undone: the global file, read back
\* through migrate, is what the executed commands make of the file the user
\* started with.  Project files and the environment never reach it
\* (TestSessionOverridesDoNotPersist), and a setting chosen after a migration
\* is not migrated away again.
SerialUpdatesPersist ==
  ~overlapped => Meaning(global, Default) = expected

\* UpdateRuleException: "rule exception command already exists".  What a
\* command has written can be loaded again.
WrittenFileLoads ==
  (global # NoFile /\ global.version = CurrentSchemaVersion /\ DOMAIN global.set = Field)
    => LoadGlobal # Invalid
=============================================================================
