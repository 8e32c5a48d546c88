------------------------------- MODULE Settings -------------------------------
(***************************************************************************)
(* Runtime settings: the stored Web UI settings over the configuration     *)
(* file, their redacted history, the appearance record, and the start of   *)
(* the process that loads them.                                            *)
(*                                                                         *)
(* A configuration keeps four kinds of fields that behave differently: an  *)
(* operational value (distributed.role), a credential that a blank or      *)
(* redacted input leaves alone (distributed.token), the list of node seeds *)
(* with a credential each, and the appearance, which has a record and a    *)
(* live value of its own.  Handlers run one at a time under mutationMu.    *)
(***************************************************************************)
EXTENDS Naturals, Sequences, FiniteSets, FiniteSetsExt

CONSTANTS
  Positions,     \* positions of the seed list, which the display names follow
  URLs,          \* node URLs
  Tokens,        \* credentials an operator can enter
  Appearances,   \* values of ui_enhancement
  FileConfig,    \* the configuration file with the environment applied
  EnvToken,      \* MIRRORRELAY_DISTRIBUTED_TOKEN, "" when it is not set
  Inputs,        \* settings documents sent by the settings page
  Imports,       \* configurations decoded from an imported YAML text
  HistoryLimit,  \* upstream_nginx.history_limit
  MaxChanges     \* bound: settings changes

Redacted == "[REDACTED]"
NoSeed == <<>>
Blank == {"", Redacted}
Seeds == {NoSeed} \cup (URLs \X (Tokens \cup Blank))
Configs == [role: {"", "standalone", "coordinator"}, token: Tokens \cup Blank,
            seeds: [Positions -> Seeds], ui: Appearances]

(* A list has positions 1 to its length; documents are well formed. *)
ASSUME SettingsAssumption ==
  /\ Cardinality(Positions) \in Nat /\ Positions = 1..Cardinality(Positions)
  /\ FileConfig \in Configs /\ Inputs \subseteq Configs /\ Imports \subseteq Configs
  /\ EnvToken \in Tokens \cup Blank
  /\ HistoryLimit \in Nat /\ MaxChanges \in Nat

VARIABLES
  settingsRow,   \* settings row web_settings_v1: no or one document
  appearanceRow, \* settings row appearance_settings_v1: no or one value
  appearance,    \* appearance.Store: the live value
  publishing,    \* the handler's value between its commit and its publication
  history,       \* table setting_versions, oldest first
  clusterNodes,  \* credential of the cluster_nodes row of every URL, if any
  process,       \* "up", or "down" after a start that failed
  changes,       \* number of changes so far
  entered,       \* auxiliary: the credentials entered for every URL
  answered       \* auxiliary: configuration the last change answered with

settingsVars == <<settingsRow, appearanceRow, appearance, publishing, history, clusterNodes,
                  process, changes, entered, answered>>

The(row) == CHOOSE d \in row : TRUE
SeedsIn(seeds) == {p \in Positions : seeds[p] # NoSeed}
At(seeds, url) == {p \in SeedsIn(seeds) : seeds[p][1] = url}

-----------------------------------------------------------------------------
(* Config.Validate, the part about credentials. *)
Validate(c) ==
  c.role = "coordinator" =>
    /\ c.token # ""
    /\ \A p \in SeedsIn(c.seeds) : c.seeds[p][2] \notin {"", c.token}
    /\ \A p, q \in SeedsIn(c.seeds) : p # q => c.seeds[p][2] # c.seeds[q][2]

(* Mutant: the credential follows the display name. *)
MergeNodeSeeds_ByName(existing, input, blank) ==
  [p \in Positions |->
     IF input[p] # NoSeed /\ input[p][2] \in blank /\ existing[p] # NoSeed
     THEN <<input[p][1], existing[p][2]>>
     ELSE input[p]]

(* mergeNodeSeeds: a seed without a credential takes the one of the first  *)
(* existing seed with its URL.                                             *)
MergeNodeSeeds(existing, input, blank) ==
  [p \in Positions |->
     IF input[p] # NoSeed /\ input[p][2] \in blank /\ At(existing, input[p][1]) # {}
     THEN <<input[p][1], existing[Min(At(existing, input[p][1]))][2]>>
     ELSE input[p]]

(* WebSettings.Apply without its validation: a blank role leaves the role  *)
(* of the base.                                                            *)
Apply(w, base) ==
  [role |-> IF w.role = "" THEN base.role ELSE w.role,
   token |-> IF w.token \in Blank THEN base.token ELSE w.token,
   seeds |-> MergeNodeSeeds(base.seeds, w.seeds, Blank),
   ui |-> w.ui]

(* config.ApplyEnvironment: the environment has the last word. *)
ApplyEnvironment(c) == IF EnvToken = "" THEN c ELSE [c EXCEPT !.token = EnvToken]

(* applyWebSettings: validated before and after the environment. *)
ApplyWebSettings(w, base) == ApplyEnvironment(Apply(w, base))
Applicable(w, base) == Validate(Apply(w, base)) /\ Validate(ApplyWebSettings(w, base))

(* storedWebConfig and applyStoredWebSettings: the stored document over    *)
(* the file; an error when it is not valid.                                *)
StoredConfig ==
  IF settingsRow = {} THEN FileConfig ELSE ApplyWebSettings(The(settingsRow), FileConfig)
StoredApplicable == settingsRow # {} => Applicable(The(settingsRow), FileConfig)

(* The configuration the next start runs with. *)
Loaded ==
  [StoredConfig EXCEPT !.ui = IF appearanceRow = {} THEN @ ELSE The(appearanceRow)]

BaseConfig == [StoredConfig EXCEPT !.ui = appearance]

(* redactedWebSettings. *)
RedactedWebSettings(c) ==
  [c EXCEPT !.token = IF @ = "" THEN "" ELSE Redacted,
            !.seeds = [p \in Positions |->
                         IF @[p] = NoSeed \/ @[p][2] = "" THEN @[p] ELSE <<@[p][1], Redacted>>]]

(* operationalWebSettingsJSON: the appearance has its own row. *)
OperationalWebSettings(c) == [c EXCEPT !.ui = FileConfig.ui]

(* addSettingVersionTx: one more than the highest retained version, then   *)
(* the table is pruned to its newest rows.                                 *)
AddSettingVersion(settings) ==
  LET version == IF history = <<>> THEN 1 ELSE history[Len(history)].version + 1
      all == Append(history, [version |-> version, settings |-> settings])
  IN history' = SubSeq(all, IF Len(all) > HistoryLimit THEN Len(all) - HistoryLimit + 1 ELSE 1,
                         Len(all))

-----------------------------------------------------------------------------
Idle ==
  /\ process = "up" /\ publishing = {} /\ changes < MaxChanges
  /\ changes' = changes + 1 /\ UNCHANGED process

(* putWebSettingsWithAppearance: both rows and the version in one          *)
(* transaction; the appearance is published after it.                      *)
PutWebSettings(c) ==
  /\ settingsRow' = {OperationalWebSettings(c)}
  /\ appearanceRow' = {c.ui}
  /\ AddSettingVersion(RedactedWebSettings(c))
  /\ publishing' = {c.ui}
  /\ answered' = c
  /\ UNCHANGED <<appearance, clusterNodes>>

Enter(seeds) == entered' = entered \cup {seeds[p] : p \in SeedsIn(seeds)}

(* updateWebSettings. *)
UpdateWebSettings(w) ==
  /\ Idle /\ StoredApplicable /\ Applicable(w, BaseConfig)
  /\ PutWebSettings(ApplyWebSettings(w, BaseConfig))
  /\ Enter(w.seeds)

(* parseCandidateFromYAML: what the text omits is kept from the stored     *)
(* configuration; the environment is applied before the only validation.   *)
ParseCandidate(y) ==
  ApplyEnvironment(
    [y EXCEPT !.token = IF @ = "" THEN StoredConfig.token ELSE @,
              !.seeds = MergeNodeSeeds(StoredConfig.seeds, @, {""})])

(* Mutant: the candidate is not validated. *)
ApplyImportSettings_Unchecked(y) ==
  /\ Idle /\ StoredApplicable
  /\ PutWebSettings(ParseCandidate(y))
  /\ Enter(y.seeds)

(* applyImportSettings. *)
ApplyImportSettings(y) ==
  /\ Idle /\ StoredApplicable /\ Validate(ParseCandidate(y))
  /\ PutWebSettings(ParseCandidate(y))
  /\ Enter(y.seeds)

(* rollbackSettingsHistory: the redacted snapshot over the stored          *)
(* configuration.                                                          *)
RollbackSettingsHistory(i) ==
  /\ Idle /\ StoredApplicable /\ Applicable(history[i].settings, BaseConfig)
  /\ PutWebSettings(ApplyWebSettings(history[i].settings, BaseConfig))
  /\ UNCHANGED entered

(* resetWebSettings: also the way out when the stored document is invalid. *)
ResetWebSettings ==
  /\ Idle
  /\ settingsRow' = {}
  /\ AddSettingVersion(RedactedWebSettings([FileConfig EXCEPT !.ui = appearance]))
  /\ answered' = [FileConfig EXCEPT !.ui = appearance]
  /\ UNCHANGED <<appearanceRow, appearance, publishing, clusterNodes, entered>>

(* updateAppearance and resetAppearance. *)
UpdateAppearance(u) ==
  /\ Idle
  /\ appearanceRow' = {u} /\ publishing' = {u}
  /\ answered' = [answered EXCEPT !.ui = u]
  /\ UNCHANGED <<settingsRow, appearance, history, clusterNodes, entered>>

ResetAppearance ==
  /\ Idle
  /\ appearanceRow' = {} /\ publishing' = {FileConfig.ui}
  /\ answered' = [answered EXCEPT !.ui = FileConfig.ui]
  /\ UNCHANGED <<settingsRow, appearance, history, clusterNodes, entered>>

(* publishAppearance, after the commit. *)
PublishAppearance ==
  /\ publishing # {}
  /\ appearance' = The(publishing) /\ publishing' = {}
  /\ UNCHANGED <<settingsRow, appearanceRow, history, clusterNodes, process, changes,
                 entered, answered>>

(* run() on the first n node seeds: missing nodes are created, and a       *)
(* credential that differs replaces the one in the table.                  *)
SeedClusterNodes(seeds, n) ==
  clusterNodes' = [url \in URLs |->
    LET found == At(seeds, url) \cap 1..n
        given == {p \in found : seeds[p][2] # ""}
    IN CASE given # {} -> {seeds[Max(given)][2]}
         [] given = {} /\ found # {} /\ clusterNodes[url] = {} -> {""}
         [] OTHER -> clusterNodes[url]]

StartUnchanged == UNCHANGED <<settingsRow, appearanceRow, history, changes, entered, answered>>

(* The process stops at any point, or was down, and starts. *)
Restart ==
  /\ StoredApplicable
  /\ process' = "up"
  /\ appearance' = Loaded.ui
  /\ publishing' = {}
  /\ SeedClusterNodes(Loaded.seeds, Cardinality(Positions))
  /\ StartUnchanged

(* The start fails: on an invalid stored document, or when the table       *)
(* refuses a seed after the first n were written.                          *)
RestartFails(n) ==
  /\ process' = "down"
  /\ publishing' = {}
  /\ \/ ~StoredApplicable /\ UNCHANGED clusterNodes
     \/ StoredApplicable /\ SeedClusterNodes(Loaded.seeds, n)
  /\ StartUnchanged /\ UNCHANGED appearance

SettingsInit ==
  /\ settingsRow = {} /\ appearanceRow = {} /\ publishing = {} /\ history = <<>>
  /\ appearance = FileConfig.ui
  /\ clusterNodes = [url \in URLs |-> {}]
  /\ process = "up" /\ changes = 0
  /\ entered = {FileConfig.seeds[p] : p \in SeedsIn(FileConfig.seeds)}
  /\ answered = FileConfig

SettingsNext ==
  \/ \E w \in Inputs : UpdateWebSettings(w)
  \/ \E y \in Imports : ApplyImportSettings(y)
  \/ \E i \in 1..Len(history) : RollbackSettingsHistory(i)
  \/ ResetWebSettings
  \/ \E u \in Appearances : UpdateAppearance(u)
  \/ ResetAppearance
  \/ PublishAppearance
  \/ Restart
  \/ \E n \in 0..(Cardinality(Positions) - 1) : RestartFails(n)

SettingsSpec == SettingsInit /\ [][SettingsNext]_settingsVars

-----------------------------------------------------------------------------
(* Every variable has its type. *)
SettingsTypeOK ==
  /\ settingsRow \subseteq Configs /\ appearanceRow \subseteq Appearances
  /\ appearance \in Appearances /\ publishing \subseteq Appearances
  /\ \A i \in 1..Len(history) : history[i].version \in Nat /\ history[i].settings \in Configs
  /\ Len(history) <= HistoryLimit
  /\ clusterNodes \in [URLs -> SUBSET (Tokens \cup Blank)]
  /\ process \in {"up", "down"}

CredentialsOf(c) == {c.seeds[p][2] : p \in SeedsIn(c.seeds)} \cup {c.token}

(* Saved settings never keep the process from starting: a change is        *)
(* validated over the stored configuration, the start validates it over    *)
(* the file (updateWebSettings, applyImportSettings, rollbackSettings-     *)
(* History, applyStoredWebSettings).  Two kinds of stored document are     *)
(* outside it: one with a redaction mark, see NoRedactedCredential, and    *)
(* one with a blank role, see BlankRoleStarts.                             *)
SavedSettingsStart ==
  (\A c \in settingsRow : Redacted \notin CredentialsOf(c) /\ c.role # "") => StoredApplicable

(* A restart runs what the last change answered with, credentials of node  *)
(* seeds aside: the order of file, document and environment is the same in *)
(* the handlers and at the start (storedWebConfig, applyStoredWebSettings).*)
(* A blank role that an import was answered with becomes the role of the   *)
(* file (WebSettings.Apply), and a redaction mark imported as the token is *)
(* again outside.                                                          *)
RestartRunsAnswer ==
  /\ Loaded.role = IF answered.role = "" THEN FileConfig.role ELSE answered.role
  /\ answered.token # Redacted => Loaded.token = answered.token
  /\ \A p \in Positions : Loaded.seeds[p] # NoSeed =>
       answered.seeds[p] # NoSeed /\ answered.seeds[p][1] = Loaded.seeds[p][1]

(* The appearance a running process serves is the one a restart would      *)
(* serve, for every order of settings changes, appearance changes, resets, *)
(* failed starts and crashes between commit and publication                *)
(* (operationalWebSettingsJSON).                                           *)
AppearanceSurvivesRestart ==
  process = "up" /\ publishing = {} => appearance = Loaded.ui

(* A restart accepts the stored settings and serves what the operator was  *)
(* shown, a blank role and a redaction mark aside; the start can still     *)
(* fail on the node table.                                                 *)
SettingsSurviveRestart ==
  SavedSettingsStart /\ RestartRunsAnswer /\ AppearanceSurvivesRestart

(* A credential is used for a URL only if it was entered for that URL: not *)
(* after a rename, a rollback, an import or a reset (mergeNodeSeeds).      *)
CredentialStaysWithURL ==
  /\ \A p \in SeedsIn(Loaded.seeds) :
       Loaded.seeds[p][2] \in Blank \/ Loaded.seeds[p] \in entered
  /\ \A url \in URLs : \A t \in clusterNodes[url] : t \in Blank \/ <<url, t>> \in entered

(* No credential reaches the history table (redactedWebSettings).          *)
HistoryHoldsNoCredential ==
  \A i \in 1..Len(history) : CredentialsOf(history[i].settings) \subseteq Blank

(* Credentials go only where they were entered for, and not to the history. *)
CredentialsContained == CredentialStaysWithURL /\ HistoryHoldsNoCredential

(* What docs/configuration.md says of node credentials: a different origin *)
(* requires an explicit new one.  So the mark that stands for a hidden     *)
(* credential is never taken for a credential (mergeNodeSeeds, run).       *)
NoRedactedCredential ==
  /\ \A c \in settingsRow : Redacted \notin CredentialsOf(c)
  /\ \A url \in URLs : Redacted \notin clusterNodes[url]

(* Not met: an imported document with a blank role is validated without a  *)
(* role (Config.Validate) and stored; the start gives it the role of the   *)
(* file and may refuse it.                                                 *)
BlankRoleStarts ==
  (\A c \in settingsRow : Redacted \notin CredentialsOf(c)) => StoredApplicable
===============================================================================
