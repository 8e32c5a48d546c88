----------------------------- MODULE MCServices -----------------------------
(***************************************************************************)
(* The smaller services of the process for TLC: settings, cache            *)
(* generations, webhook dispatcher, statistics and log rotation.  They     *)
(* share no state, so one behaviour follows one of them ("focus") and the  *)
(* others keep still.                                                      *)
(***************************************************************************)
EXTENDS Settings, CacheGenerations, Webhook, Statistics, LogRotation

VARIABLE focus

(* The configuration file: a Coordinator with one seeded node. *)
Doc(role, token, s1, s2, ui) ==
  [role |-> role, token |-> token, seeds |-> <<s1, s2>>, ui |-> ui]
MCFile == Doc("coordinator", "p", <<"u1", "t1">>, NoSeed, "dark")

(* What the settings page sends: seeds kept, moved, renamed and removed. *)
MCInputs ==
  {Doc("coordinator", t, s1, s2, ui) :
      t \in {Redacted, "t1"}, ui \in {"dark", "light"},
      s1 \in {NoSeed, <<"u1", Redacted>>, <<"u2", Redacted>>, <<"u2", "t1">>},
      s2 \in {NoSeed, <<"u1", Redacted>>, <<"u2", "t2">>}}
  \cup {Doc("standalone", "", <<"u2", "">>, NoSeed, "dark")}

MCImports ==
  {Doc(r, "", s1, NoSeed, "light") : r \in {"", "standalone", "coordinator"},
                                     s1 \in {NoSeed, <<"u1", "">>, <<"u2", "">>, <<"u2", "t2">>}}

MCInit ==
  /\ focus \in {"settings", "cache", "webhook", "statistics", "rotation"}
  /\ SettingsInit /\ CacheInit /\ WebhookInit /\ StatisticsInit /\ RotationInit

MCNext ==
  /\ \/ /\ focus = "settings" /\ SettingsNext
        /\ UNCHANGED <<cacheVars, webhookVars, statsVars, rotationVars>>
     \/ /\ focus = "cache" /\ CacheNext
        /\ UNCHANGED <<settingsVars, webhookVars, statsVars, rotationVars>>
     \/ /\ focus = "webhook" /\ WebhookNext
        /\ UNCHANGED <<settingsVars, cacheVars, statsVars, rotationVars>>
     \/ /\ focus = "statistics" /\ StatisticsNext
        /\ UNCHANGED <<settingsVars, cacheVars, webhookVars, rotationVars>>
     \/ /\ focus = "rotation" /\ RotationNext
        /\ UNCHANGED <<settingsVars, cacheVars, webhookVars, statsVars>>
  /\ UNCHANGED focus

MCSpec ==
  MCInit /\ [][MCNext]_<<settingsVars, cacheVars, webhookVars, statsVars, rotationVars, focus>>
=============================================================================
