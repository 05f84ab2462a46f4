--------------------------- MODULE TaskPersistence ---------------------------
(***************************************************************************)
(* The task store with its file.  Every mutating method ends by writing    *)
(* the whole map to tasks-state.json through an atomic rename, while the   *)
(* mutex is still held; when that write fails the map in memory keeps the  *)
(* change.  create, update, cancel, remove and retry report the failure,   *)
(* the other three methods swallow it.  A restarted daemon loads the file. *)
(***************************************************************************)
EXTENDS TaskStore

CONSTANT MaxWriteFaults   \* bound: writes that fail

ASSUME FaultsAssumption == MaxWriteFaults \in Nat

VARIABLES
  disk,     \* the map in tasks-state.json
  acked,    \* per task: the version in the last Ok reply to a call that changed it
  writeFaults    \* writes that failed so far

pvars == <<tasks, disk, acked, writeFaults>>

-----------------------------------------------------------------------------

\* Mutant of PersistAndReply: the reply does not wait for the write.
PersistAndReplyEarly(t) ==
  /\ tasks' # tasks
  /\ acked' = [acked EXCEPT ![t] = tasks'[t].version]
  /\ \/ disk' = tasks' /\ UNCHANGED writeFaults
     \/ writeFaults < MaxWriteFaults /\ writeFaults' = writeFaults + 1 /\ UNCHANGED disk

\* Mutant of PersistAndReply: only the task itself is saved, not its parent.
PersistTaskOnly(t) ==
  /\ tasks' # tasks
  /\ disk' = [disk EXCEPT ![t] = tasks'[t]]
  /\ acked' = [acked EXCEPT ![t] = tasks'[t].version]
  /\ UNCHANGED writeFaults

\* persist_locked, and what the caller then learns about task t.
PersistAndReply(t) ==
  /\ tasks' # tasks
  /\ \/ /\ disk' = tasks'
        /\ acked' = [acked EXCEPT ![t] = tasks'[t].version]
        /\ UNCHANGED writeFaults
     \/ /\ writeFaults < MaxWriteFaults
        /\ writeFaults' = writeFaults + 1
        /\ UNCHANGED <<disk, acked>>

\* let _ = self.persist_locked(..): nobody is told.
PersistBestEffort ==
  /\ UNCHANGED acked
  /\ \/ disk' = tasks' /\ UNCHANGED writeFaults
     \/ writeFaults < MaxWriteFaults /\ writeFaults' = writeFaults + 1 /\ UNCHANGED disk

\* update_with_confirm with nothing to change: Ok with the task in memory, and no
\* write, even when an earlier one failed.
ReplyUnchanged == tasks' = tasks /\ UNCHANGED <<disk, acked, writeFaults>>

PCreate == \E t \in TaskIds, w \in Callers, a \in Workspaces, p \in TaskIds \union {NoTask} :
             (p # NoTask => Bounded(p)) /\ Create(t, w, a, p) /\ PersistAndReply(t)

PUpdate == \E t \in TaskIds, w \in Callers, u \in Requests :
             /\ Bounded(t)
             /\ Update(t, w, u, FALSE)
             /\ PersistAndReply(t) \/ ReplyUnchanged

PControl == \E t \in TaskIds, w \in Callers :
              /\ Bounded(t)
              /\ \/ Cancel(t, w, tasks[t].version)
                 \/ \E stale \in BOOLEAN : Remove(t, w, tasks[t].version, stale)
                 \/ Retry(t, w, tasks[t].version)
              /\ PersistAndReply(t)

PBackground == /\ \/ \E live \in SUBSET Workspaces :
                       (\A t \in StaleInProgress(live) : Bounded(t)) /\ RecoverStale(live)
                  \/ \E t \in TaskIds, w \in Workspaces : Bounded(t) /\ MarkToolActivity(t, w)
                  \/ \E t \in TaskIds, w \in Workspaces : Bounded(t) /\ RecordDispatch(t, w)
               /\ PersistBestEffort

\* Mutant of Restart: the daemon starts empty and leaves the file alone.
RestartEmpty == /\ tasks' = [t \in TaskIds |-> AbsentTask]
                /\ UNCHANGED <<disk, acked, writeFaults>>

\* The daemon stops, however it stops, and the next one loads the file.
Restart == /\ tasks' = disk
           /\ UNCHANGED <<disk, acked, writeFaults>>

PInit == /\ Init
         /\ disk = tasks
         /\ acked = [t \in TaskIds |-> 0]
         /\ writeFaults = 0

PNext == PCreate \/ PUpdate \/ PControl \/ PBackground \/ Restart

PSpec == PInit /\ [][PNext]_pvars

-----------------------------------------------------------------------------
(* Properties *)

\* The file always holds a map that some operation left behind whole: its links,
\* rollups and claims agree, so a restart in the middle of anything loads a store
\* on which the operations work.
DiskIsConsistent == LinksAgree(disk) /\ RollupIsCurrent(disk) /\ StartedIsClaimed(disk)

\* A call that changed a task and was answered Ok is in the file, whatever writes
\* failed before or after it.
AckedIsDurable == \A t \in TaskIds : disk[t].version >= acked[t]

\* The version of a task in memory never falls behind the file, so the next
\* successful write cannot bring back an older task.
MemoryLeadsDisk == \A t \in TaskIds : tasks[t].version >= disk[t].version
=============================================================================
