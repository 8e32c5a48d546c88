----------------------------- MODULE LogRotation -----------------------------
(***************************************************************************)
(* The log rotation of the managed Nginx: rotateUpstreamNginxLogs renames  *)
(* access.log and error.log when they are due, removes old files and tells *)
(* Nginx to reopen its logs.  Nginx writes to the file it has open, under  *)
(* whatever name; it opens logs at its start, on reload and on reopen.     *)
(***************************************************************************)
Files == {"access", "error"}     \* visited in this order

VARIABLES
  present,   \* the logs that exist under their own name
  due,       \* the ones whose size or date asks for rotation
  renamed,   \* the ones Nginx still writes to under a rotated name
  nginx,     \* Nginx is running
  pendingReopen,
  rotated,   \* the local variable of rotateUpstreamNginxLogFiles
  pc,        \* "idle", the log in hand, "clean", "reopen"
  errors     \* auxiliary: a rotation has returned an error

rotationVars == <<present, due, renamed, nginx, pendingReopen, rotated, pc, errors>>

Visiting == pc \in Files
Following == IF pc = "access" THEN "error" ELSE "clean"

-----------------------------------------------------------------------------
(* The ticker: a rotation begins. *)
RotationTick ==
  /\ pc = "idle"
  /\ pc' = "access" /\ rotated' = FALSE
  /\ UNCHANGED <<present, due, renamed, nginx, pendingReopen, errors>>

(* The file is missing, or neither too large nor of an earlier day. *)
SkipLog ==
  /\ Visiting /\ pc \notin present \cap due
  /\ pc' = Following
  /\ UNCHANGED <<present, due, renamed, nginx, pendingReopen, rotated, errors>>

(* os.Rename to a name nextRotatedLogPath found free. *)
RenameLog ==
  /\ Visiting /\ pc \in present \cap due
  /\ present' = present \ {pc} /\ due' = due \ {pc}
  /\ renamed' = IF nginx THEN renamed \cup {pc} ELSE renamed
  /\ rotated' = TRUE
  /\ pc' = Following
  /\ UNCHANGED <<nginx, pendingReopen, errors>>

(* Stat, Lstat, Rename, ReadDir or Remove fails: the error is logged and   *)
(* this run is over.                                                       *)
RotationFails ==
  /\ Visiting \/ pc = "clean"
  /\ pc' = "idle" /\ errors' = TRUE
  /\ UNCHANGED <<present, due, renamed, nginx, pendingReopen, rotated>>

(* Mutant: only this run's rotation is remembered. *)
RemoveOld_Forgets ==
  /\ pc = "clean"
  /\ pendingReopen' = rotated
  /\ pc' = IF pendingReopen' /\ nginx THEN "reopen" ELSE "idle"
  /\ UNCHANGED <<present, due, renamed, nginx, rotated, errors>>

(* Old files are removed; whether a reopen is due is remembered. *)
RemoveOld ==
  /\ pc = "clean"
  /\ pendingReopen' = (pendingReopen \/ rotated)
  /\ pc' = IF pendingReopen' /\ nginx THEN "reopen" ELSE "idle"
  /\ UNCHANGED <<present, due, renamed, nginx, rotated, errors>>

(* "nginx -s reopen" *)
ReopenFails ==
  /\ pc = "reopen"
  /\ pc' = "idle"
  /\ UNCHANGED <<present, due, renamed, nginx, pendingReopen, rotated, errors>>

OpensLogs == renamed' = {} /\ present' = Files

Reopen ==
  /\ pc = "reopen" /\ nginx
  /\ OpensLogs
  /\ pendingReopen' = FALSE
  /\ pc' = "idle"
  /\ UNCHANGED <<due, nginx, rotated, errors>>

-----------------------------------------------------------------------------
(* Nginx writes or a day passes; it stops, starts and reloads. *)
BecomesDue ==
  /\ \E f \in present \ due : due' = due \cup {f}
  /\ UNCHANGED <<present, renamed, nginx, pendingReopen, rotated, pc, errors>>

NginxStops ==
  /\ nginx
  /\ nginx' = FALSE /\ renamed' = {}
  /\ UNCHANGED <<present, due, pendingReopen, rotated, pc, errors>>

NginxOpens ==      \* start or reload
  /\ nginx' = TRUE /\ OpensLogs
  /\ UNCHANGED <<due, pendingReopen, rotated, pc, errors>>

RotationInit ==
  /\ present = Files /\ due = {} /\ renamed = {} /\ nginx = TRUE
  /\ pendingReopen = FALSE /\ rotated = FALSE /\ pc = "idle" /\ errors = FALSE

RotationStep == RotationTick \/ SkipLog \/ RenameLog \/ RotationFails \/ RemoveOld \/ ReopenFails

RotationNext == RotationStep \/ Reopen \/ BecomesDue \/ NginxStops \/ NginxOpens

RotationSpec == RotationInit /\ [][RotationNext]_rotationVars

-----------------------------------------------------------------------------
(* As long as no rotation step failed, a log Nginx writes to under a       *)
(* rotated name has a reopen pending between two runs: one that failed, or *)
(* found Nginx stopped, is remembered across runs (pendingReopen).         *)
ReopenPending == pc = "idle" /\ renamed # {} /\ ~errors => pendingReopen

(* The documentation's promise, also when a step of the rotation fails     *)
(* after another has renamed a log: between two runs a log Nginx writes to *)
(* under a rotated name has a reopen pending (rotateUpstreamNginxLogs).    *)
RotationFollowedByReopen == pc = "idle" /\ renamed # {} => pendingReopen
=============================================================================
