------------------------------ MODULE Statistics ------------------------------
(***************************************************************************)
(* Request statistics: counters by hour and repository in memory, the      *)
(* periodic flush to the table stats_hourly, the two flushes of a          *)
(* shutdown, and the load at the next start.  A counter stands for all the *)
(* fields of MirrorCounters, which move together.                          *)
(***************************************************************************)
EXTENDS Naturals, FiniteSetsExt

CONSTANTS
  Mirrors,    \* repositories
  Retention,  \* hours kept (8 days)
  MaxHour,    \* bound: the clock
  MaxRecords  \* bound: requests

ASSUME StatisticsAssumption == Retention \in Nat /\ MaxHour \in Nat

Hours == 0..MaxHour
Flushers == {"ticker", "shutdown"}
Cells == Hours \X Mirrors
NoCounts == [c \in Cells |-> 0]

VARIABLES
  hour,      \* the current hour
  running,   \* the process serves requests
  stopping,  \* its context is cancelled
  hourlyByID,\* Stats.hourlyByID, 0 where there is no entry
  table,     \* stats_hourly
  flushing,  \* the records each flusher read and has not saved, if any
  flushed,   \* flushers that finished their last flush
  true       \* auxiliary: the requests there really were

statsVars == <<hour, running, stopping, hourlyByID, table, flushing, flushed, true>>

Kept(counts) == [c \in Cells |-> IF c[1] + Retention < hour THEN 0 ELSE counts[c]]
SumOf(counts) == MapThenSumSet(LAMBDA c : counts[c], Cells)

-----------------------------------------------------------------------------
(* Stats.Record at the end of a request; requests under way at shutdown    *)
(* end before the server's Shutdown returns.                               *)
Record(m) ==
  /\ running /\ SumOf(true) < MaxRecords /\ flushing["shutdown"] = {}
  /\ "shutdown" \notin flushed
  /\ hourlyByID' = Kept([hourlyByID EXCEPT ![<<hour, m>>] = @ + 1])
  /\ true' = [true EXCEPT ![<<hour, m>>] = @ + 1]
  /\ UNCHANGED <<hour, running, stopping, table, flushing, flushed>>

(* Stats.Flush, under the read lock: what is to be saved.  The goroutine   *)
(* of StartPersistence flushes on its ticker and a last time when the      *)
(* context is cancelled, runProduct after the server's Shutdown.           *)
FlushReads(f) ==
  /\ running /\ flushing[f] = {} /\ f \notin flushed
  /\ f = "shutdown" => stopping
  /\ flushing' = [flushing EXCEPT ![f] = {hourlyByID}]
  /\ flushed' = IF stopping THEN flushed \cup {f} ELSE flushed
  /\ UNCHANGED <<hour, running, stopping, hourlyByID, table, true>>

(* Mutant: the saved counts are added to the ones in the table. *)
SaveStatsHourly_Adds(counts) ==
  table' = Kept([c \in Cells |-> table[c] + counts[c]])

(* SaveStatsHourly: one transaction that replaces the rows it has counts   *)
(* for and deletes the expired ones.                                       *)
SaveStatsHourly(counts) ==
  table' = Kept([c \in Cells |-> IF counts[c] = 0 THEN table[c] ELSE counts[c]])

FlushSaves(f) ==
  /\ running /\ flushing[f] # {}
  /\ \/ \E counts \in flushing[f] : SaveStatsHourly(counts)
     \/ UNCHANGED table                                \* error or timeout
  /\ flushing' = [flushing EXCEPT ![f] = {}]
  /\ UNCHANGED <<hour, running, stopping, hourlyByID, flushed, true>>

Cancel ==
  /\ running /\ ~stopping
  /\ stopping' = TRUE
  /\ UNCHANGED <<hour, running, hourlyByID, table, flushing, flushed, true>>

(* The process ends, after its last flush or by a crash at any point. *)
Exit ==
  /\ running
  /\ running' = FALSE /\ stopping' = FALSE /\ flushed' = {}
  /\ flushing' = [f \in Flushers |-> {}]
  /\ UNCHANGED <<hour, hourlyByID, table, true>>

(* Stats.Load at the next start: counters of the rows that are not expired.*)
LoadStats ==
  /\ ~running
  /\ running' = TRUE
  /\ hourlyByID' = Kept(table)
  /\ UNCHANGED <<hour, stopping, table, flushing, flushed, true>>

Tick ==
  /\ hour < MaxHour /\ hour' = hour + 1
  /\ UNCHANGED <<running, stopping, hourlyByID, table, flushing, flushed, true>>

StatisticsInit ==
  /\ hour = 0 /\ running = TRUE /\ stopping = FALSE
  /\ hourlyByID = NoCounts /\ table = NoCounts /\ true = NoCounts
  /\ flushing = [f \in Flushers |-> {}] /\ flushed = {}

StatisticsNext ==
  \/ \E m \in Mirrors : Record(m)
  \/ \E f \in Flushers : FlushReads(f) \/ FlushSaves(f)
  \/ Cancel \/ Exit \/ LoadStats \/ Tick

StatisticsSpec == StatisticsInit /\ [][StatisticsNext]_statsVars

-----------------------------------------------------------------------------
(* No request is counted twice, in memory or in the table, by flushes that *)
(* overlap, are repeated after an error or meet a restart: a flush saves   *)
(* absolute counts (Flush, SaveStatsHourly, Load).                         *)
CountedOnce ==
  \A c \in Cells : hourlyByID[c] <= true[c] /\ table[c] <= true[c]
===============================================================================
