-------------------------- MODULE ConfigStoreProofs --------------------------
(***************************************************************************)
(* AuthorityIsConsented and ExceptionIdsAreUnique, for every set of files, *)
(* settings and processes.                                                 *)
(***************************************************************************)
EXTENDS ConfigStore, SequenceTheorems, TLAPS

\* Two configurations of one shape.
LEMMA OverlayType ==
  ASSUME NEW base \in Config, NEW part, Fits(part)
  PROVE  /\ Overlay(base, part) \in Config
         /\ Overlay(base, part).mode = IF "mode" \in DOMAIN part THEN part["mode"] ELSE base.mode
         /\ "exceptions" \notin DOMAIN part => Overlay(base, part).exceptions = base.exceptions
  <1>1. Overlay(base, part) = [mode |-> Overlay(base, part)["mode"], auto |-> Overlay(base, part)["auto"],
          risk |-> Overlay(base, part)["risk"], curated |-> Overlay(base, part)["curated"],
          history |-> Overlay(base, part)["history"], exceptions |-> Overlay(base, part)["exceptions"]]
    BY DEF Overlay, Field
  <1>2. /\ Overlay(base, part)["mode"] \in Mode
        /\ Overlay(base, part)["exceptions"] \in Seq(Exception)
        /\ \A f \in {"auto", "risk", "curated", "history"} : Overlay(base, part)[f] \in BOOLEAN
    BY DEF Overlay, Field, Fits, Config
  <1>3. Overlay(base, part) \in Config
    BY <1>1, <1>2 DEF Config
  <1> QED BY <1>3 DEF Overlay, Field

\* Migration changes no exception, and a mode that acts survives only from
\* schema 5 on.
LEMMA MigrateType ==
  ASSUME NEW cfg \in Config, NEW version \in Nat
  PROVE  /\ migrate(cfg, version) \in Config
         /\ Acts(migrate(cfg, version).mode) => version > 4 /\ migrate(cfg, version).mode = cfg.mode
         /\ migrate(cfg, version).exceptions = cfg.exceptions
  <1> DEFINE a == deriveRiskInterrupt(cfg, version)
             b == enableCuratedPacks(a, version)
             c == dropAuthority(b, version)
             d == dropHistory(c, version)
  <1>1. a \in Config /\ a.mode = cfg.mode /\ a.exceptions = cfg.exceptions
    <2>1. (cfg.mode = "interrupt") \in BOOLEAN
      OBVIOUS
    <2> QED BY <2>1, Zenon DEF deriveRiskInterrupt, Config
  <1>2. b \in Config /\ b.mode = cfg.mode /\ b.exceptions = cfg.exceptions
    <2> HIDE DEF a
    <2> QED BY <1>1 DEF enableCuratedPacks, Config
  <1>3. /\ c \in Config /\ c.exceptions = cfg.exceptions
        /\ Acts(c.mode) => version > 4 /\ c.mode = cfg.mode
    <2> HIDE DEF b
    <2>1. CASE version <= 4 /\ Acts(b.mode)
      <3>1. c = [b EXCEPT !.mode = "hint", !.auto = FALSE, !.risk = FALSE]
        BY <2>1 DEF dropAuthority
      <3>2. c \in Config /\ c.exceptions = b.exceptions /\ c.mode = "hint"
        BY <1>2, <3>1 DEF Config, Mode
      <3> QED BY <1>2, <3>2 DEF Acts
    <2>2. CASE ~(version <= 4 /\ Acts(b.mode))
      <3>1. c = b
        BY <2>2 DEF dropAuthority
      <3> QED BY <1>2, <2>2, <3>1
    <2> QED BY <2>1, <2>2
  <1>4. /\ d \in Config /\ d.exceptions = cfg.exceptions
        /\ Acts(d.mode) => version > 4 /\ d.mode = cfg.mode
    <2> HIDE DEF c
    <2> QED BY <1>3 DEF dropHistory, Config
  <1> QED BY <1>4 DEF migrate

-----------------------------------------------------------------------------
(***************************************************************************)
(* What a file means.                                                      *)
(***************************************************************************)

FileOK(f) == f = NoFile \/ (f.version \in Nat /\ Fits(f.set))

\* A file chooses a mode that acts, under a schema that keeps it.
Chooses(f) ==
  f # NoFile /\ f.version > 4 /\ "mode" \in DOMAIN f.set /\ Acts(f.set["mode"])

\* What the property ExceptionIdsAreUnique says of one list.
Distinct(s) == \A i, j \in DOMAIN s : s[i].id = s[j].id => i = j

LEMMA DefaultType == Default \in Config /\ ~Acts(Default.mode) /\ Distinct(Default.exceptions)
  <1>1. << >> \in Seq(Exception)
    OBVIOUS
  <1> QED BY <1>1 DEF Default, Config, Mode, Acts, Distinct

\* Reading a file gives a configuration, whose mode acts only if the file
\* chooses it or the configuration underneath does.
LEMMA MeaningType ==
  ASSUME NEW f, FileOK(f), NEW base \in Config
  PROVE  /\ Meaning(f, base) \in Config
         /\ Acts(Meaning(f, base).mode) => Chooses(f) \/ Acts(base.mode)
  <1>1. CASE f = NoFile
    BY <1>1 DEF Meaning
  <1>2. CASE f # NoFile
    <2>1. f.version \in Nat /\ Fits(f.set)
      BY <1>2 DEF FileOK
    <2>2. Overlay(base, f.set) \in Config
      BY <2>1, OverlayType
    <2>3. Overlay(base, f.set).mode = IF "mode" \in DOMAIN f.set THEN f.set["mode"] ELSE base.mode
      BY <2>1, OverlayType
    <2>4. Meaning(f, base) = migrate(Overlay(base, f.set), f.version)
      BY <1>2 DEF Meaning
    <2>5. Meaning(f, base) \in Config
      BY <2>1, <2>2, <2>4, MigrateType
    <2>6. Acts(Meaning(f, base).mode) =>
            f.version > 4 /\ Meaning(f, base).mode = Overlay(base, f.set).mode
      BY <2>1, <2>2, <2>4, MigrateType
    <2> QED BY <1>2, <2>3, <2>5, <2>6 DEF Chooses
  <1> QED BY <1>1, <1>2

\* What Write stores is read back as it was.
LEMMA WrittenMeaning ==
  ASSUME NEW cfg \in Config
  PROVE  FileOK(Written(cfg)) /\ Meaning(Written(cfg), Default) = cfg
  <1>1. Written(cfg) \in [version : Nat, set : Config]
    BY DEF Written, CurrentSchemaVersion
  <1>2. Written(cfg) # NoFile
    BY <1>1, ConfigAssumption
  <1>3. DOMAIN cfg = Field
    BY DEF Config, Field
  <1>4. Fits(cfg)
    BY <1>3 DEF Config, Field, Fits
  <1>5. Overlay(Default, cfg) = cfg
    BY <1>3 DEF Overlay, Config, Field
  <1>6. migrate(cfg, 7) = cfg
    BY DEF migrate, dropHistory, dropAuthority, enableCuratedPacks, deriveRiskInterrupt
  <1>7. Written(cfg).version = 7 /\ Written(cfg).set = cfg
    BY DEF Written, CurrentSchemaVersion
  <1>8. Meaning(Written(cfg), Default) = cfg
    BY <1>2, <1>5, <1>6, <1>7 DEF Meaning
  <1> QED BY <1>1, <1>4, <1>7, <1>8 DEF FileOK

-----------------------------------------------------------------------------
(***************************************************************************)
(* What the rule commands keep.                                            *)
(***************************************************************************)

LEMMA AddKeeps ==
  ASSUME NEW cfg \in Config, Distinct(cfg.exceptions), NEW id \in RuleId, NEW command \in Command,
         AddRuleException(cfg, id, command) # Invalid
  PROVE  /\ AddRuleException(cfg, id, command) \in Config
         /\ AddRuleException(cfg, id, command).mode = cfg.mode
         /\ Distinct(AddRuleException(cfg, id, command).exceptions)
  <1> DEFINE s == cfg.exceptions
             x == [id |-> id, command |-> command]
             new == AddRuleException(cfg, id, command)
  <1>1. new = [cfg EXCEPT !.exceptions = Append(s, x)] /\ \A i \in DOMAIN s : s[i].id # id
    BY DEF AddRuleException
  <1>2. s \in Seq(Exception) /\ x \in Exception
    BY DEF Config, Exception
  <1>3. Append(s, x) \in Seq(Exception)
    BY <1>2
  <1>4. new \in Config /\ new.mode = cfg.mode /\ new.exceptions = Append(s, x)
    <2> HIDE DEF x, s
    <2> QED BY <1>1, <1>3 DEF Config
  <1>5. Distinct(Append(s, x))
    BY <1>1, <1>2 DEF Distinct
  <1> QED BY <1>4, <1>5

\* The position found is one of the list.
LEMMA PositionFound ==
  ASSUME NEW s \in Seq(Exception), NEW id, Position(s, id) # {}
  PROVE  /\ (CHOOSE i \in Position(s, id) : TRUE) \in 1 .. Len(s)
         /\ s[CHOOSE i \in Position(s, id) : TRUE].id = id
  <1> DEFINE at == CHOOSE i \in Position(s, id) : TRUE
  <1>1. at \in Position(s, id)
    BY Zenon
  <1> HIDE DEF at
  <1>2. at \in DOMAIN s /\ s[at].id = id
    BY <1>1 DEF Position
  <1> QED BY <1>2 DEF at

LEMMA UpdateKeeps ==
  ASSUME NEW cfg \in Config, Distinct(cfg.exceptions), NEW id \in RuleId, NEW command \in Command,
         UpdateRuleException(cfg, id, command) # Invalid
  PROVE  /\ UpdateRuleException(cfg, id, command) \in Config
         /\ UpdateRuleException(cfg, id, command).mode = cfg.mode
         /\ Distinct(UpdateRuleException(cfg, id, command).exceptions)
  <1> DEFINE s == cfg.exceptions
             at == CHOOSE i \in Position(s, id) : TRUE
             x == [id |-> id, command |-> command]
             t == [s EXCEPT ![at] = x]
             new == UpdateRuleException(cfg, id, command)
  <1>1. new = [cfg EXCEPT !.exceptions = t] /\ Position(s, id) # {}
    BY DEF UpdateRuleException
  <1>2. s \in Seq(Exception) /\ x \in Exception /\ x.id = id
    BY DEF Config, Exception
  <1>3. at \in 1 .. Len(s) /\ s[at].id = id
    BY <1>1, <1>2, PositionFound
  <1> HIDE DEF at, x
  <1>4. t \in Seq(Exception) /\ Len(t) = Len(s)
    BY <1>2, <1>3, ExceptSeq
  <1>5. \A i \in 1 .. Len(s) : t[i].id = s[i].id
    BY <1>2, <1>3
  <1>6. new \in Config /\ new.mode = cfg.mode /\ new.exceptions = t
    <2> HIDE DEF t, s
    <2> QED BY <1>1, <1>4 DEF Config
  <1>7. Distinct(t)
    <2> HIDE DEF t
    <2> QED BY <1>2, <1>4, <1>5 DEF Distinct
  <1> QED BY <1>6, <1>7

LEMMA RemoveKeeps ==
  ASSUME NEW cfg \in Config, Distinct(cfg.exceptions), NEW id \in RuleId,
         RemoveRuleException(cfg, id) # Invalid
  PROVE  /\ RemoveRuleException(cfg, id) \in Config
         /\ RemoveRuleException(cfg, id).mode = cfg.mode
         /\ Distinct(RemoveRuleException(cfg, id).exceptions)
  <1> DEFINE s == cfg.exceptions
             at == CHOOSE i \in Position(s, id) : TRUE
             t == SubSeq(s, 1, at - 1) \o SubSeq(s, at + 1, Len(s))
             new == RemoveRuleException(cfg, id)
  <1>1. new = [cfg EXCEPT !.exceptions = t] /\ Position(s, id) # {}
    BY DEF RemoveRuleException
  <1>2. s \in Seq(Exception)
    BY DEF Config
  <1>3. at \in 1 .. Len(s)
    BY <1>1, <1>2, PositionFound
  <1>4. /\ t \in Seq(Exception) /\ Len(t) = Len(s) - 1
        /\ \A i \in 1 .. Len(t) : t[i] = IF i < at THEN s[i] ELSE s[i + 1]
    <2> DEFINE u == SubSeq(s, 1, at - 1)
               v == SubSeq(s, at + 1, Len(s))
    <2> HIDE DEF at, s
    <2>1. \A i \in 1 .. Len(s) : s[i] \in Exception
      BY <1>2
    <2>2. Len(s) \in Nat
      BY <1>2
    <2>3. /\ u \in Seq(Exception) /\ Len(u) = at - 1
          /\ \A i \in 1 .. (at - 1) : u[i] = s[i]
      BY <1>3, <2>1, <2>2, SubSeqProperties
    <2>4. /\ v \in Seq(Exception) /\ Len(v) = Len(s) - at
          /\ \A i \in 1 .. (Len(s) - at) : v[i] = s[at + i]
      BY <1>3, <2>1, <2>2, SubSeqProperties
    <2> HIDE DEF u, v
    <2>5. /\ u \o v \in Seq(Exception) /\ Len(u \o v) = Len(u) + Len(v)
          /\ \A i \in 1 .. Len(u) + Len(v) : (u \o v)[i] =
                     IF i <= Len(u) THEN u[i] ELSE v[i - Len(u)]
      BY <2>3, <2>4, ConcatProperties
    <2>6. t = u \o v
      BY DEF u, v
    <2> HIDE DEF t
    <2>7. t \in Seq(Exception) /\ Len(t) = Len(s) - 1
      <3>1. t \in Seq(Exception) /\ Len(t) = Len(u) + Len(v)
        BY <2>5, <2>6, Zenon
      <3>2. (at - 1) + (Len(s) - at) = Len(s) - 1
        BY <1>3, <2>2
      <3> QED BY <2>3, <2>4, <3>1, <3>2, Zenon
    <2>8. ASSUME NEW i \in 1 .. (Len(s) - 1)
          PROVE  t[i] = IF i < at THEN s[i] ELSE s[i + 1]
      <3>1. t[i] = IF i <= at - 1 THEN u[i] ELSE v[i - (at - 1)]
        BY <1>3, <2>2, <2>3, <2>4, <2>5, <2>6
      <3>2. CASE i < at
        BY <1>3, <2>2, <2>3, <3>1, <3>2
      <3>3. CASE ~(i < at)
        <4>1. i - (at - 1) \in 1 .. (Len(s) - at) /\ at + (i - (at - 1)) = i + 1
          BY <1>3, <2>2, <3>3
        <4>2. v[i - (at - 1)] = s[i + 1]
          BY <2>4, <4>1
        <4> QED BY <1>3, <3>1, <3>3, <4>2
      <3> QED BY <3>2, <3>3
    <2> QED BY <2>7, <2>8
  <1>5. new \in Config /\ new.mode = cfg.mode /\ new.exceptions = t
    <2> HIDE DEF t, s
    <2> QED BY <1>1, <1>4 DEF Config
  <1>6. Distinct(t)
    <2> HIDE DEF t, s, at
    <2>1. \A i, j \in 1 .. Len(s) : s[i].id = s[j].id => i = j
      BY <1>2 DEF Distinct, s
    <2> QED BY <1>2, <1>3, <1>4, <2>1 DEF Distinct
  <1> QED BY <1>5, <1>6

-----------------------------------------------------------------------------
(***************************************************************************)
(* The inductive invariant.                                                *)
(***************************************************************************)

ConfigType ==
  /\ FileOK(global) /\ FileOK(project)
  /\ editing \in [Editor -> {Nothing} \cup [cfg : Config, want : Config]]
  /\ pc \in [Loader -> {"idle", "look", "read", "session", "loaded"}]
  /\ loaded \in [Loader -> Config]

\* Every place that can hold a mode that acts has been given it by choice, but
\* for loaders that read another project file than the one they have checked.
ConsentInv ==
  /\ Acts(Meaning(global, Default).mode) => consent
  /\ trusted /\ Chooses(project) => consent
  /\ \A e \in Editor : editing[e] # Nothing => (Acts(editing[e].cfg.mode) => consent)
  /\ \A l \in Loader \ swapped :
       /\ Acts(loaded[l].mode) => consent
       /\ pc[l] = "read" /\ Chooses(project) => consent

\* So it is with identifiers, in the file and on the way to it.
DistinctInv ==
  /\ Distinct(Meaning(global, Default).exceptions)
  /\ \A e \in Editor : editing[e] # Nothing => Distinct(editing[e].cfg.exceptions)

\* A lone editor writes what it ought to.
SerialInv ==
  ~overlapped =>
    /\ Meaning(global, Default) = expected
    /\ \A e \in Editor : editing[e] # Nothing =>
         /\ editing[e].want = editing[e].cfg
         /\ \A d \in Editor : editing[d] # Nothing => d = e

ConfigInv == ConfigType /\ ConsentInv /\ DistinctInv /\ SerialInv

LEMMA InitConfig == Init => ConfigInv
  <1> SUFFICES ASSUME Init PROVE ConfigInv
    OBVIOUS
  <1>1. FileOK(global) /\ FileOK(project)
    BY ConfigAssumption DEF Init, FileOK
  <1>2. ConfigType
    BY <1>1, DefaultType DEF Init, ConfigType
  <1>3. ConsentInv
    <2>1. Acts(Meaning(global, Default).mode) => Chooses(global)
      BY <1>1, MeaningType, DefaultType
    <2>2. Acts(Meaning(global, Default).mode) => consent
      BY <2>1 DEF Init, Chooses
    <2> QED BY <2>2, DefaultType DEF Init, ConsentInv, Chooses
  <1>4. DistinctInv
    <2>1. CASE global = NoFile
      BY <2>1, DefaultType DEF Init, DistinctInv, Meaning
    <2>2. CASE global # NoFile
      <3>1. global \in GlobalFiles /\ global.version \in Nat /\ Fits(global.set)
        BY <2>2, ConfigAssumption DEF Init
      <3>2. Meaning(global, Default).exceptions = Overlay(Default, global.set).exceptions
        BY <2>2, <3>1, OverlayType, MigrateType, DefaultType DEF Meaning
      <3>3. CASE "exceptions" \in DOMAIN global.set
        <4>1. Overlay(Default, global.set).exceptions = global.set["exceptions"]
          BY <3>3 DEF Overlay, Field
        <4> QED BY <3>1, <3>2, <3>3, <4>1, ExceptionsAssumption
                DEF validateRuleExceptions, Distinct, DistinctInv, Init
      <3>4. CASE "exceptions" \notin DOMAIN global.set
        BY <3>1, <3>2, <3>4, OverlayType, DefaultType DEF DistinctInv, Init
      <3> QED BY <3>3, <3>4
    <2> QED BY <2>1, <2>2
  <1>5. SerialInv
    BY DEF Init, SerialInv
  <1> QED BY <1>2, <1>3, <1>4, <1>5 DEF ConfigInv

\* A file that loads is a configuration with distinct identifiers, and
\* what the serial commands have made of it.
LEMMA LoadGlobalOK ==
  ASSUME ConfigInv, LoadGlobal # Invalid
  PROVE  /\ LoadGlobal \in Config
         /\ LoadGlobal = Meaning(global, Default)
         /\ Distinct(LoadGlobal.exceptions)
         /\ Acts(LoadGlobal.mode) => consent
         /\ ~overlapped => LoadGlobal = expected
  <1>1. LoadGlobal = Meaning(global, Default)
    BY DEF LoadGlobal, decode
  <1>2. Meaning(global, Default) \in Config
    BY MeaningType, DefaultType DEF ConfigInv, ConfigType
  <1> QED BY <1>1, <1>2 DEF ConfigInv, ConsentInv, DistinctInv, SerialInv

\* An editor that has read the file and prepared a new one.
LEMMA BeginKeeps ==
  ASSUME ConfigInv, NEW e \in Editor, NEW cfg \in Config, NEW want,
         Begin(e, cfg, want), consent => consent', Acts(cfg.mode) => consent',
         Distinct(cfg.exceptions), ~overlapped => want = cfg
  PROVE  ConfigInv'
  <1> DEFINE overlaps == overlapped \/ \E d \in Editor : editing[d] # Nothing
             new == [cfg |-> cfg, want |-> IF overlaps THEN Default ELSE want]
  <1>1. /\ editing[e] = Nothing
        /\ editing' = [editing EXCEPT ![e] = new]
        /\ overlapped' = overlaps
        /\ expected' = IF overlaps THEN Default ELSE expected
        /\ UNCHANGED <<global, project, trusted, pc, loaded, swapped>>
    BY Zenon DEF Begin
  <1>2. new \in [cfg : Config, want : Config] /\ new.cfg = cfg
    <2>1. ~overlaps => want = cfg
      OBVIOUS
    <2> HIDE DEF overlaps
    <2> QED BY <2>1, DefaultType
  <1>3. ~overlaps => new.want = cfg
    OBVIOUS
  <1> HIDE DEF new
  <1>4. /\ editing' \in [Editor -> {Nothing} \cup [cfg : Config, want : Config]]
        /\ editing'[e] = new
        /\ \A d \in Editor : d # e => editing'[d] = editing[d]
    BY <1>1, <1>2 DEF ConfigInv, ConfigType
  <1>5. ConfigType'
    BY <1>1, <1>4 DEF ConfigInv, ConfigType, FileOK
  <1>6. Meaning(global, Default)' = Meaning(global, Default) /\ Chooses(project)' = Chooses(project)
    BY <1>1 DEF Meaning, Chooses
  <1>7. ConsentInv'
    BY <1>1, <1>2, <1>4, <1>6 DEF ConfigInv, ConsentInv
  <1>8. DistinctInv'
    BY <1>1, <1>2, <1>4, <1>6 DEF ConfigInv, DistinctInv
  <1>9. SerialInv'
    <2> SUFFICES ASSUME ~overlaps PROVE SerialInv'
      BY <1>1 DEF SerialInv
    <2>1. ~overlapped /\ \A d \in Editor : editing[d] = Nothing
      OBVIOUS
    <2>2. Meaning(global, Default)' = expected'
      BY <1>1, <1>6, <2>1 DEF ConfigInv, SerialInv
    <2>3. \A d \in Editor : editing'[d] # Nothing => d = e
      BY <1>4, <2>1
    <2> QED BY <1>2, <1>3, <1>4, <2>2, <2>3 DEF SerialInv
  <1> QED BY <1>5, <1>7, <1>8, <1>9 DEF ConfigInv

\* A loader's step to a configuration that acts by consent only.
LEMMA LoaderKeeps ==
  ASSUME ConfigInv, NEW l \in Loader, NEW from, NEW to \in {"idle", "look", "read", "session", "loaded"},
         Step(l, from, to), NEW cfg \in Config, loaded' = [loaded EXCEPT ![l] = cfg],
         consent => consent', swapped' = swapped \/ swapped' = swapped \ {l},
         l \notin swapped' => (Acts(cfg.mode) => consent'),
         l \notin swapped' => (to = "read" /\ Chooses(project) => consent'),
         UNCHANGED <<global, project, trusted, editing, expected, overlapped>>
  PROVE  ConfigInv'
  <1>1. /\ loaded' \in [Loader -> Config] /\ loaded'[l] = cfg
        /\ \A k \in Loader : k # l => loaded'[k] = loaded[k]
    BY DEF ConfigInv, ConfigType
  <1>2. ConfigType'
    BY <1>1 DEF ConfigInv, ConfigType, FileOK, Step
  <1>3. Meaning(global, Default)' = Meaning(global, Default) /\ Chooses(project)' = Chooses(project)
    BY DEF Meaning, Chooses
  <1>4. ConsentInv'
    <2>1. /\ Acts(Meaning(global, Default).mode)' => consent'
          /\ trusted' /\ Chooses(project)' => consent'
          /\ \A e \in Editor : editing'[e] # Nothing => (Acts(editing'[e].cfg.mode) => consent')
      BY <1>3 DEF ConfigInv, ConsentInv
    <2>2. /\ \A k \in Loader : k # l => pc'[k] = pc[k] /\ (k \notin swapped' => k \notin swapped)
          /\ pc'[l] = to
      BY DEF ConfigInv, ConfigType, Step
    <2>3. ASSUME NEW k \in Loader \ swapped'
          PROVE  /\ Acts(loaded'[k].mode) => consent'
                 /\ pc'[k] = "read" /\ Chooses(project)' => consent'
      BY <1>1, <1>3, <2>2 DEF ConfigInv, ConsentInv
    <2> QED BY <2>1, <2>3 DEF ConsentInv
  <1> QED BY <1>2, <1>3, <1>4 DEF ConfigInv, DistinctInv, SerialInv

\* Every step keeps the invariant.
LEMMA NextConfig == ConfigInv /\ [Next]_vars => ConfigInv'
  <1> SUFFICES ASSUME ConfigInv, [Next]_vars PROVE ConfigInv'
    OBVIOUS
  <1>1. ASSUME NEW e \in Editor, NEW part \in Settings, configCommand(e, part)
        PROVE  ConfigInv'
    <2> DEFINE cfg == Overlay(LoadGlobal, part)
               want == Overlay(expected, part)
    <2>1. LoadGlobal # Invalid /\ Begin(e, cfg, want)
          /\ consent' = IF "mode" \in DOMAIN part /\ Acts(part["mode"]) THEN TRUE ELSE consent
      BY <1>1 DEF configCommand
    <2>2. Fits(part) /\ "exceptions" \notin DOMAIN part
      BY ConfigAssumption
    <2>3. cfg \in Config /\ cfg.exceptions = LoadGlobal.exceptions
          /\ cfg.mode = IF "mode" \in DOMAIN part THEN part["mode"] ELSE LoadGlobal.mode
      BY <2>1, <2>2, LoadGlobalOK, OverlayType
    <2>4. ~overlapped => want = cfg
      BY <2>1, LoadGlobalOK
    <2>5. Acts(cfg.mode) => consent'
      BY <2>1, <2>3, LoadGlobalOK
    <2>6. consent => consent'
      BY <2>1
    <2>7. Distinct(cfg.exceptions)
      BY <2>1, <2>3, LoadGlobalOK
    <2> HIDE DEF cfg, want
    <2> QED BY <2>1, <2>3, <2>4, <2>5, <2>6, <2>7, BeginKeeps
  <1>2. ASSUME NEW e \in Editor, NEW id \in RuleId, NEW command \in Command, ruleAdd(e, id, command)
        PROVE  ConfigInv'
    <2> DEFINE cfg == AddRuleException(LoadGlobal, id, command)
               want == AddRuleException(expected, id, command)
    <2>1. LoadGlobal # Invalid /\ Begin(e, cfg, want) /\ consent' = consent /\ cfg # Invalid
      BY <1>2 DEF ruleAdd, Begin
    <2>2. cfg \in Config /\ cfg.mode = LoadGlobal.mode /\ Distinct(cfg.exceptions)
      BY <2>1, LoadGlobalOK, AddKeeps
    <2>3. (~overlapped => want = cfg) /\ (Acts(cfg.mode) => consent')
      BY <2>1, <2>2, LoadGlobalOK
    <2> HIDE DEF cfg, want
    <2> QED BY <2>1, <2>2, <2>3, BeginKeeps
  <1>3. ASSUME NEW e \in Editor, NEW id \in RuleId, NEW command \in Command, ruleUpdate(e, id, command)
        PROVE  ConfigInv'
    <2> DEFINE cfg == UpdateRuleException(LoadGlobal, id, command)
               want == UpdateRuleException(expected, id, command)
    <2>1. LoadGlobal # Invalid /\ Begin(e, cfg, want) /\ consent' = consent /\ cfg # Invalid
      BY <1>3 DEF ruleUpdate, Begin
    <2>2. cfg \in Config /\ cfg.mode = LoadGlobal.mode /\ Distinct(cfg.exceptions)
      BY <2>1, LoadGlobalOK, UpdateKeeps
    <2>3. (~overlapped => want = cfg) /\ (Acts(cfg.mode) => consent')
      BY <2>1, <2>2, LoadGlobalOK
    <2> HIDE DEF cfg, want
    <2> QED BY <2>1, <2>2, <2>3, BeginKeeps
  <1>4. ASSUME NEW e \in Editor, NEW id \in RuleId, ruleRemove(e, id)
        PROVE  ConfigInv'
    <2> DEFINE cfg == RemoveRuleException(LoadGlobal, id)
               want == RemoveRuleException(expected, id)
    <2>1. LoadGlobal # Invalid /\ Begin(e, cfg, want) /\ consent' = consent /\ cfg # Invalid
      BY <1>4 DEF ruleRemove, Begin
    <2>2. cfg \in Config /\ cfg.mode = LoadGlobal.mode /\ Distinct(cfg.exceptions)
      BY <2>1, LoadGlobalOK, RemoveKeeps
    <2>3. (~overlapped => want = cfg) /\ (Acts(cfg.mode) => consent')
      BY <2>1, <2>2, LoadGlobalOK
    <2> HIDE DEF cfg, want
    <2> QED BY <2>1, <2>2, <2>3, BeginKeeps
  <1>5. ASSUME NEW e \in Editor, Write(e)
        PROVE  ConfigInv'
    <2>1. /\ editing[e] # Nothing
          /\ global' = Written(editing[e].cfg)
          /\ expected' = IF overlapped THEN expected ELSE editing[e].want
          /\ editing' = [editing EXCEPT ![e] = Nothing]
          /\ UNCHANGED <<project, trusted, pc, loaded, overlapped, consent, swapped>>
      BY <1>5 DEF Write
    <2>2. editing[e].cfg \in Config
      BY <2>1 DEF ConfigInv, ConfigType
    <2>3. FileOK(global') /\ Meaning(global', Default) = editing[e].cfg
      BY <2>1, <2>2, WrittenMeaning
    <2>4. /\ editing' \in [Editor -> {Nothing} \cup [cfg : Config, want : Config]]
          /\ editing'[e] = Nothing
          /\ \A d \in Editor : d # e => editing'[d] = editing[d]
      BY <2>1 DEF ConfigInv, ConfigType
    <2>5. ConfigType'
      BY <2>1, <2>3, <2>4 DEF ConfigInv, ConfigType, FileOK
    <2>6. ConsentInv'
      BY <2>1, <2>3, <2>4 DEF ConfigInv, ConsentInv, Chooses
    <2>7. DistinctInv'
      BY <2>1, <2>3, <2>4 DEF ConfigInv, DistinctInv
    <2>8. SerialInv'
      BY <2>1, <2>3, <2>4 DEF ConfigInv, SerialInv
    <2> QED BY <2>5, <2>6, <2>7, <2>8 DEF ConfigInv
  <1>6. ASSUME NEW e \in Editor, WriteFails(e)
        PROVE  ConfigInv'
    <2>1. /\ editing' = [editing EXCEPT ![e] = Nothing]
          /\ UNCHANGED <<global, project, trusted, pc, loaded, expected, overlapped, consent, swapped>>
      BY <1>6 DEF WriteFails
    <2>2. /\ editing' \in [Editor -> {Nothing} \cup [cfg : Config, want : Config]]
          /\ editing'[e] = Nothing
          /\ \A d \in Editor : d # e => editing'[d] = editing[d]
      BY <2>1 DEF ConfigInv, ConfigType
    <2>3. Meaning(global, Default)' = Meaning(global, Default)
      BY <2>1 DEF Meaning
    <2>4. ConfigType' /\ ConsentInv'
      BY <2>1, <2>2, <2>3 DEF ConfigInv, ConfigType, FileOK, ConsentInv, Chooses
    <2>5. DistinctInv' /\ SerialInv'
      BY <2>1, <2>2, <2>3 DEF ConfigInv, DistinctInv, SerialInv
    <2> QED BY <2>4, <2>5 DEF ConfigInv
  <1>7. ASSUME NEW file \in ProjectFiles \cup {NoFile}, NEW marker \in BOOLEAN, EditProject(file, marker)
        PROVE  ConfigInv'
    <2>1. /\ project' = file
          /\ trusted' = marker
          /\ consent' = IF marker /\ Chooses(file) THEN TRUE ELSE consent
          /\ swapped' = swapped \cup {l \in Loader : pc[l] = "read"}
          /\ UNCHANGED <<global, editing, pc, loaded, expected, overlapped>>
      BY <1>7 DEF EditProject, Chooses
    <2>2. FileOK(project')
      BY <2>1, ConfigAssumption DEF FileOK
    <2>3. Chooses(project)' = Chooses(file) /\ Meaning(global, Default)' = Meaning(global, Default)
      BY <2>1 DEF Chooses, Meaning
    <2>4. ConfigType'
      BY <2>1, <2>2 DEF ConfigInv, ConfigType, FileOK
    <2>5. ConsentInv'
      BY <2>1, <2>3 DEF ConfigInv, ConsentInv
    <2> QED BY <2>1, <2>3, <2>4, <2>5 DEF ConfigInv, DistinctInv, SerialInv
  <1>8. ASSUME NEW l \in Loader, LoadBase(l)
        PROVE  ConfigInv'
    <2>1. /\ Step(l, "idle", "look") /\ LoadGlobal # Invalid
          /\ loaded' = [loaded EXCEPT ![l] = LoadGlobal]
          /\ UNCHANGED <<global, project, trusted, editing, expected, overlapped, consent, swapped>>
      BY <1>8 DEF LoadBase
    <2>2. LoadGlobal \in Config /\ (Acts(LoadGlobal.mode) => consent)
      BY <2>1, LoadGlobalOK
    <2> QED BY <2>1, <2>2, LoaderKeeps
  <1>9. ASSUME NEW l \in Loader, projectPath(l)
        PROVE  ConfigInv'
    <2>1. loaded[l] \in Config /\ loaded = [loaded EXCEPT ![l] = loaded[l]]
      BY DEF ConfigInv, ConfigType
    <2>2. /\ l \notin swapped => (Acts(loaded[l].mode) => consent)
          /\ trusted /\ Chooses(project) => consent
      BY DEF ConfigInv, ConsentInv
    <2>3. PICK to \in {"read", "session"} : Step(l, "look", to) /\ (to = "read" => trusted)
      BY <1>9 DEF projectPath
    <2>4. UNCHANGED <<global, project, trusted, editing, loaded, expected, overlapped, consent, swapped>>
      BY <1>9 DEF projectPath
    <2> QED BY <2>1, <2>2, <2>3, <2>4, LoaderKeeps
  <1>10. ASSUME NEW l \in Loader, mergeApprovedProject(l)
         PROVE  ConfigInv'
    <2> DEFINE cfg == decode(project, loaded[l])
    <2>1. /\ Step(l, "read", "session") /\ cfg # Invalid
          /\ loaded' = [loaded EXCEPT ![l] = cfg]
          /\ UNCHANGED <<global, project, trusted, editing, expected, overlapped, consent, swapped>>
      BY <1>10 DEF mergeApprovedProject
    <2>2. cfg = Meaning(project, loaded[l])
      BY <2>1 DEF decode
    <2>3. loaded[l] \in Config /\ FileOK(project)
      BY DEF ConfigInv, ConfigType
    <2>4. cfg \in Config /\ (Acts(cfg.mode) => Chooses(project) \/ Acts(loaded[l].mode))
      BY <2>2, <2>3, MeaningType
    <2>5. l \notin swapped' => (Acts(cfg.mode) => consent')
      BY <2>1, <2>4 DEF ConfigInv, ConsentInv, Step
    <2> HIDE DEF cfg
    <2> QED BY <2>1, <2>4, <2>5, LoaderKeeps
  <1>11. ASSUME NEW l \in Loader, LoadFails(l) \/ Finish(l)
         PROVE  ConfigInv'
    <2>1. \/ Step(l, "read", "idle") \/ Step(l, "loaded", "idle")
      BY <1>11 DEF LoadFails, Finish
    <2>2. /\ loaded' = [loaded EXCEPT ![l] = Default]
          /\ swapped' = swapped \ {l}
          /\ UNCHANGED <<global, project, trusted, editing, expected, overlapped, consent>>
      BY <1>11 DEF LoadFails, Finish
    <2> QED BY <2>1, <2>2, DefaultType, LoaderKeeps
  <1>12. ASSUME NEW l \in Loader, NEW part \in Overrides, ApplySessionOverrides(l, part)
         PROVE  ConfigInv'
    <2> DEFINE cfg == Overlay(loaded[l], part)
    <2>1. loaded[l] \in Config /\ (l \notin swapped => (Acts(loaded[l].mode) => consent))
      BY DEF ConfigInv, ConfigType, ConsentInv
    <2>2. /\ Step(l, "session", "loaded")
          /\ loaded' = [loaded EXCEPT ![l] = cfg]
          /\ consent' = IF "mode" \in DOMAIN part /\ Acts(part["mode"]) THEN TRUE ELSE consent
          /\ UNCHANGED <<global, project, trusted, editing, expected, overlapped, swapped>>
      BY <1>12 DEF ApplySessionOverrides, ConfigInv, ConfigType
    <2>3. Fits(part)
      BY ConfigAssumption
    <2>4. /\ cfg \in Config
          /\ cfg.mode = IF "mode" \in DOMAIN part THEN part["mode"] ELSE loaded[l].mode
      BY <2>1, <2>3, OverlayType
    <2>5. (l \notin swapped' => (Acts(cfg.mode) => consent')) /\ (consent => consent')
      BY <2>1, <2>2, <2>4
    <2> HIDE DEF cfg
    <2> QED BY <2>2, <2>4, <2>5, LoaderKeeps
  <1>13. CASE UNCHANGED vars
    BY <1>13 DEF vars, ConfigInv, ConfigType, ConsentInv, DistinctInv, SerialInv, FileOK,
                 Chooses, Meaning
  <1> QED BY <1>1, <1>2, <1>3, <1>4, <1>5, <1>6, <1>7, <1>8, <1>9, <1>10, <1>11, <1>12, <1>13
          DEF Next, Edit, Load

LEMMA ConfigInvariant == Spec => []ConfigInv
  <1> QED BY InitConfig, NextConfig, PTL DEF Spec

-----------------------------------------------------------------------------
\* No process runs under a mode that acts without the user having chosen one
\* since schema 5, whatever the files, merges and interleavings (migrate), but
\* for one that read another project file than it had checked.
THEOREM AuthorityConsented == Spec => []AuthorityIsConsented
  <1>1. ConfigInv => AuthorityIsConsented
    BY DEF ConfigInv, ConsentInv, AuthorityIsConsented
  <1> QED BY <1>1, ConfigInvariant, PTL

\* The global file never holds two exceptions with one identifier
\* (AddRuleException, UpdateRuleException, RemoveRuleException).
THEOREM ExceptionIdsUnique == Spec => []ExceptionIdsAreUnique
  <1>1. ConfigInv => ExceptionIdsAreUnique
    BY DEF ConfigInv, DistinctInv, Distinct, ExceptionIdsAreUnique
  <1> QED BY <1>1, ConfigInvariant, PTL

\* Without overlapping commands, the global file is what the commands
\* executed so far amount to (LoadGlobal, Set, Write).
THEOREM SerialUpdates == Spec => []SerialUpdatesPersist
  <1>1. ConfigInv => SerialUpdatesPersist
    BY DEF ConfigInv, SerialInv, SerialUpdatesPersist
  <1> QED BY <1>1, ConfigInvariant, PTL
=============================================================================
