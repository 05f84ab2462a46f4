------------------------------ MODULE TaskStore ------------------------------
(***************************************************************************)
(* The daemon's task store (crates/ax-daemon/src/task_store.rs): a map     *)
(* from task ids to tasks behind one mutex, so every method below is one   *)
(* atomic step.  A task carries a link to its parent, the ids of its       *)
(* children and, when it has children, a stored rollup of their statuses   *)
(* that every mutation has to keep up to date by hand.                     *)
(*                                                                         *)
(* Data abstractions.  A result is only known by whether it is empty and   *)
(* whether it contains the "remaining owned dirty files=" marker.  Logs    *)
(* and time stamps are left out; where they decide whether a version is    *)
(* bumped the decision is an input (`stale', `log').  A rejected call      *)
(* changes nothing and is no step.                                         *)
(***************************************************************************)
EXTENDS Integers, FiniteSets

CONSTANTS
  TaskIds,      \* the ids Uuid::new_v4 can hand out
  Workspaces,   \* workspace names an agent may register under
  Operator,     \* OPERATOR_WORKSPACE_NAME, "_cli"
  NoTask,       \* the empty parent_task_id
  Requests,     \* the update_task requests the callers make
  MaxVersion    \* bound: no operation starts on a task at this version

ASSUME TaskStoreAssumption ==
  /\ IsFiniteSet(TaskIds)
  /\ NoTask \notin TaskIds
  /\ Workspaces # {}
  /\ Operator \notin Workspaces
  /\ MaxVersion \in Nat

VARIABLE tasks  \* the BTreeMap; an id that is not in the map is "absent"

-----------------------------------------------------------------------------

Terminal == {"completed", "failed", "cancelled"}
Open     == {"pending", "in_progress", "blocked"}
Statuses == Open \union Terminal
Results  == {"empty", "bare", "declared"}

\* Everyone who can sign a request: agents, and the operator's CLI.
Callers == Workspaces \union {Operator}

\* task.rollup.  `total = 0' stands for None: a task without children has no rollup.
Rollups == [total : Nat, by : [Statuses -> Nat],
            all_terminal : BOOLEAN, needs_reconciliation : BOOLEAN, waiting : BOOLEAN]

NoRollup == [total |-> 0, by |-> [s \in Statuses |-> 0],
             all_terminal |-> FALSE, needs_reconciliation |-> FALSE, waiting |-> FALSE]

Task == [status : Statuses \union {"absent"}, assignee : Workspaces, created_by : Callers,
         parent : TaskIds \union {NoTask}, children : SUBSET TaskIds, rollup : Rollups,
         claimed : BOOLEAN, dispatch_count : Nat, attempt_count : Nat,
         result : Results, removed : BOOLEAN, version : Nat]

Exists(ts, t) == ts[t].status # "absent"
Live(ts, t)   == Exists(ts, t) /\ ~ts[t].removed

-----------------------------------------------------------------------------
(* Rollups *)

CountBy(ts, children) ==
  [s \in Statuses |-> Cardinality({c \in children : ts[c].status = s})]

\* summarize_task_rollup, with the one bit format_rollup_summary adds.
Summarize(ts, p) ==
  LET kids == ts[p].children
      done == \A c \in kids : ts[c].status \in Terminal
  IN  IF kids = {} THEN NoRollup
      ELSE [total |-> Cardinality(kids),
            by |-> CountBy(ts, kids),
            all_terminal |-> done,
            needs_reconciliation |-> done /\ ts[p].status \notin Terminal,
            waiting |-> ~done /\ ts[p].status = "pending"]

\* Mutant of Refreshed: the rollup is replaced without a new version.
RefreshedQuietly(ts, p, stale) == [ts[p] EXCEPT !.rollup = Summarize(ts, p)]

\* The parent p after refresh_parent_rollup.  `stale' says that the parts of the
\* rollup left out here (last_child_update_at, the summary being p's last log)
\* are not current, which bumps the version although the counts are.
Refreshed(ts, p, stale) ==
  LET r == Summarize(ts, p)
  IN  [ts[p] EXCEPT !.rollup = r,
                    !.version = IF stale \/ r # ts[p].rollup THEN @ + 1 ELSE @]

RefreshAll(ts, parents, stale) ==
  [t \in TaskIds |-> IF t \in parents /\ Live(ts, t) THEN Refreshed(ts, t, stale) ELSE ts[t]]

RefreshParent(ts, t, stale) == RefreshAll(ts, {ts[t].parent}, stale)

-----------------------------------------------------------------------------
(* Guards *)

IsAllowedTransition(cur, new) ==
  \/ cur = new
  \/ cur = "pending"     /\ new \in {"in_progress", "blocked"} \union Terminal
  \/ cur = "in_progress" /\ new \in {"blocked"} \union Terminal
  \/ cur = "blocked"     /\ new \in {"pending", "in_progress"} \union Terminal

\* An update request; "none" is an absent option.  log is "repeat" when
\* is_duplicate_task_log holds for it.
Updates == [status : Statuses \union {"none"}, result : Results \union {"none"},
            log : {"none", "fresh", "repeat"}, confirm : BOOLEAN]

ASSUME RequestsAssumption == Requests \subseteq Updates

ValidateTaskUpdate(task, u, w) ==
  /\ ~task.removed
  /\ w \in {task.assignee, task.created_by}
  /\ u.result \in {"bare", "declared"} => w = task.assignee
  /\ u.status # "none" =>
       /\ u.status # task.status => w = task.assignee
       /\ IsAllowedTransition(task.status, u.status)
       /\ u.status = "completed" /\ task.status # "completed" =>
            /\ (IF u.result = "none" THEN task.result ELSE u.result) = "declared"
            /\ u.confirm

ValidateTaskControl(task, w, expected, allowAssignee) ==
  /\ ~task.removed
  /\ expected = task.version
  /\ \/ w \in {Operator, task.created_by}
     \/ allowAssignee /\ w = task.assignee

-----------------------------------------------------------------------------
(* Operations.  Each is one critical section of the store's mutex. *)

\* Mutant of MarkClaimed: the attempt is not counted.
MarkClaimedUncounted(task) == [task EXCEPT !.claimed = TRUE]

MarkClaimed(task) ==
  IF task.claimed THEN task
  ELSE [task EXCEPT !.claimed = TRUE, !.attempt_count = @ + 1]

\* Mutant of Create: the id is not appended to the parent's child_task_ids.
CreateUnlinked(t, w, assignee, p) ==
  /\ ~Exists(tasks, t)
  /\ p # NoTask => Live(tasks, p)
  /\ tasks' = [tasks EXCEPT ![t] =
                 [status |-> "pending", assignee |-> assignee, created_by |-> w, parent |-> p,
                  children |-> {}, rollup |-> NoRollup, claimed |-> FALSE,
                  dispatch_count |-> 0, attempt_count |-> 0, result |-> "empty",
                  removed |-> FALSE, version |-> 1]]

\* create: the new task, and its id appended to a parent that must be live.
Create(t, w, assignee, p) ==
  /\ ~Exists(tasks, t)
  /\ p # NoTask => Live(tasks, p)
  /\ LET new == [status |-> "pending", assignee |-> assignee, created_by |-> w, parent |-> p,
                 children |-> {}, rollup |-> NoRollup, claimed |-> FALSE,
                 dispatch_count |-> 0, attempt_count |-> 0, result |-> "empty",
                 removed |-> FALSE, version |-> 1]
         linked == [x \in TaskIds |->
                      IF x = t THEN new
                      ELSE IF x = p
                      THEN [tasks[x] EXCEPT !.children = @ \union {t}, !.version = @ + 1]
                      ELSE tasks[x]]
     IN tasks' = RefreshParent(linked, t, TRUE)

\* Mutant of Updated: an absent status or result is stored as if it had been sent.
UpdatedUnchecked(task, u, w) == [task EXCEPT !.status = u.status, !.result = u.result]

\* What update_with_confirm makes of the task before its version is settled.
Updated(task, u, w) ==
  LET acted   == u.status # "none" \/ u.result # "none" \/ u.log # "none"
      claimed == IF w = task.assignee /\ acted THEN MarkClaimed(task) ELSE task
  IN  [claimed EXCEPT !.status = IF u.status = "none" THEN @ ELSE u.status,
                      !.result = IF u.result = "none" THEN @ ELSE u.result]

\* `differs': the new result is another text of the same class as the stored one.
UpdateChanges(task, u, w, differs) ==
  \/ Updated(task, u, w) # task
  \/ u.log = "fresh"
  \/ differs /\ u.result \in {"bare", "declared"}

Update(t, w, u, differs) ==
  /\ Exists(tasks, t)
  /\ ValidateTaskUpdate(tasks[t], u, w)
  /\ \/ /\ UpdateChanges(tasks[t], u, w, differs)
        /\ tasks' = RefreshParent(
                      [tasks EXCEPT ![t] = [Updated(tasks[t], u, w) EXCEPT !.version = @ + 1]], t, TRUE)
     \/ /\ ~UpdateChanges(tasks[t], u, w, differs)
        /\ UNCHANGED tasks

\* cancel: any open task; its own assignee claims it on the way out.
Cancel(t, w, expected) ==
  /\ Exists(tasks, t)
  /\ ValidateTaskControl(tasks[t], w, expected, TRUE)
  /\ tasks[t].status \notin Terminal
  /\ LET claimed == IF w = tasks[t].assignee THEN MarkClaimed(tasks[t]) ELSE tasks[t]
     IN tasks' = RefreshParent(
                   [tasks EXCEPT ![t] = [claimed EXCEPT !.status = "cancelled", !.result = "bare",
                                                        !.version = @ + 1]], t, TRUE)

\* remove: a tombstone.  updated_at is not touched, so the parent's rollup may
\* come out unchanged (`stale').
Remove(t, w, expected, stale) ==
  /\ Exists(tasks, t)
  /\ ValidateTaskControl(tasks[t], w, expected, FALSE)
  /\ tasks[t].status \in Terminal
  /\ tasks' = RefreshParent(
                [tasks EXCEPT ![t] = [tasks[t] EXCEPT !.removed = TRUE, !.version = @ + 1]], t, stale)

\* Mutant of Retry: finished tasks are retried too.
RetryAnyStatus(t, w, expected) ==
  /\ Exists(tasks, t)
  /\ ValidateTaskControl(tasks[t], w, expected, TRUE)
  /\ tasks' = RefreshParent(
                [tasks EXCEPT ![t] = [tasks[t] EXCEPT !.status = "pending", !.result = "empty",
                                                      !.claimed = FALSE, !.version = @ + 1]], t, TRUE)

\* retry: back to a fresh, unclaimed pending task.
Retry(t, w, expected) ==
  /\ Exists(tasks, t)
  /\ ValidateTaskControl(tasks[t], w, expected, TRUE)
  /\ tasks[t].status \in Open
  /\ tasks' = RefreshParent(
                [tasks EXCEPT ![t] = [tasks[t] EXCEPT !.status = "pending", !.result = "empty",
                                                      !.claimed = FALSE, !.version = @ + 1]], t, TRUE)

StaleInProgress(live) ==
  {t \in TaskIds : /\ Live(tasks, t)
                   /\ tasks[t].status = "in_progress"
                   /\ tasks[t].assignee \notin live}

\* Mutant of RecoverStale: the parents of the reset tasks are not refreshed.
RecoverStaleAlone(live) ==
  /\ StaleInProgress(live) # {}
  /\ tasks' = [t \in TaskIds |->
                 IF t \in StaleInProgress(live)
                 THEN [tasks[t] EXCEPT !.status = "pending", !.claimed = FALSE, !.version = @ + 1]
                 ELSE tasks[t]]

\* Mutant of RecoverStale: the reset keeps the version.
RecoverStaleQuietly(live) ==
  /\ StaleInProgress(live) # {}
  /\ tasks' = [t \in TaskIds |->
                 IF t \in StaleInProgress(live)
                 THEN [tasks[t] EXCEPT !.status = "pending", !.claimed = FALSE]
                 ELSE tasks[t]]

\* recover_stale_in_progress: `live' are the workspaces with a tmux session.
RecoverStale(live) ==
  LET ids   == StaleInProgress(live)
      reset == [t \in TaskIds |->
                  IF t \in ids
                  THEN [tasks[t] EXCEPT !.status = "pending", !.claimed = FALSE, !.version = @ + 1]
                  ELSE tasks[t]]
  IN  /\ ids # {}
      /\ tasks' = RefreshAll(reset, {tasks[t].parent : t \in ids}, TRUE)

\* mark_tool_activity: a heartbeat by the assignee of a running task.
MarkToolActivity(t, by) ==
  /\ Live(tasks, t)
  /\ tasks[t].status = "in_progress"
  /\ tasks[t].assignee = by
  /\ tasks' = [tasks EXCEPT ![t].version = @ + 1]

\* record_dispatch: a message for the task was queued for workspace `to'.
RecordDispatch(t, to) ==
  /\ Live(tasks, t)
  /\ tasks[t].assignee = to
  /\ tasks' = [tasks EXCEPT ![t].dispatch_count = @ + 1, ![t].version = @ + 1]

\* runnable_by_assignee: dispatched before and not picked up.  last_dispatch_at is
\* set exactly when dispatch_count is, by record_dispatch; next_retry_at never is.
Runnable(t) ==
  /\ Live(tasks, t)
  /\ tasks[t].status = "pending"
  /\ tasks[t].dispatch_count > 0
  /\ ~tasks[t].claimed

-----------------------------------------------------------------------------

Absent(w) == [status |-> "absent", assignee |-> w, created_by |-> Operator, parent |-> NoTask,
              children |-> {}, rollup |-> NoRollup, claimed |-> FALSE,
              dispatch_count |-> 0, attempt_count |-> 0, result |-> "empty", removed |-> FALSE,
              version |-> 0]

AbsentTask == Absent(CHOOSE w \in Workspaces : TRUE)

Init == tasks = [t \in TaskIds |-> AbsentTask]

Bounded(t) == tasks[t].version < MaxVersion

Next ==
  \/ \E t \in TaskIds, w \in Callers, a \in Workspaces, p \in TaskIds \union {NoTask} :
       (p # NoTask => Bounded(p)) /\ Create(t, w, a, p)
  \/ \E t \in TaskIds, w \in Callers, u \in Requests, d \in BOOLEAN :
       Bounded(t) /\ Update(t, w, u, d)
  \/ \E t \in TaskIds, w \in Callers : Bounded(t) /\ Cancel(t, w, tasks[t].version)
  \/ \E t \in TaskIds, w \in Callers, stale \in BOOLEAN :
       Bounded(t) /\ Remove(t, w, tasks[t].version, stale)
  \/ \E t \in TaskIds, w \in Callers : Bounded(t) /\ Retry(t, w, tasks[t].version)
  \/ \E live \in SUBSET Workspaces :
       (\A t \in StaleInProgress(live) : Bounded(t)) /\ RecoverStale(live)
  \/ \E t \in TaskIds, w \in Workspaces : Bounded(t) /\ MarkToolActivity(t, w)
  \/ \E t \in TaskIds, w \in Workspaces : Bounded(t) /\ RecordDispatch(t, w)

Spec == Init /\ [][Next]_tasks

-----------------------------------------------------------------------------
(* Properties *)

\* Every entry of the map is a well-formed task.
TypeOK == tasks \in [TaskIds -> Task]

\* Parent links and child_task_ids describe the same forest: the children of a
\* task are exactly the tasks that name it as their parent, and a parent exists.
\* Nothing in the store checks this again after create.
LinksAgree(ts) ==
  \A t \in TaskIds :
    /\ ts[t].children = {c \in TaskIds : Exists(ts, c) /\ ts[c].parent = t}
    /\ Exists(ts, t) /\ ts[t].parent # NoTask => Exists(ts, ts[t].parent)

\* The stored rollup of a task that has not been removed counts its children's
\* current statuses, whichever operation on whichever child came last, and as
\* long as the task is open it says exactly when the parent has to reconcile.
RollupIsCurrent(ts) ==
  \A p \in TaskIds : Live(ts, p) =>
    LET r == ts[p].rollup
        now == Summarize(ts, p)
    IN  /\ r.total = now.total /\ r.by = now.by /\ r.all_terminal = now.all_terminal
        /\ ts[p].status \notin Terminal => r.needs_reconciliation = now.needs_reconciliation

\* Work that was ever taken up is on its assignee's account: only a task nobody
\* started is unclaimed, and every claim was counted as an attempt.  Retry and
\* recovery put a task back where runnable_by_assignee can see it.
StartedIsClaimed(ts) ==
  \A t \in TaskIds :
    /\ ts[t].status \in {"in_progress", "blocked", "completed", "failed"} => ts[t].claimed
    /\ ts[t].claimed => ts[t].attempt_count > 0
    /\ ts[t].removed => ts[t].status \in Terminal

LinksInv  == LinksAgree(tasks)
RollupInv == RollupIsCurrent(tasks)
ClaimInv  == StartedIsClaimed(tasks)

\* A finished task never reopens, and a removed one never changes again, not
\* even through the rollup refreshes its children still trigger.
TerminalIsFinal ==
  [][\A t \in TaskIds :
       /\ tasks[t].status \in Terminal => tasks'[t].status = tasks[t].status
       /\ tasks[t].removed => tasks'[t] = tasks[t]]_tasks

\* expected_version is a sound guard for cancel, remove and retry: two different
\* contents of a task never carry the same version, because every step that
\* changes a task, its parent's rollup included, raises its version.
VersionTellsChange ==
  [][\A t \in TaskIds :
       Exists(tasks, t) /\ tasks'[t] # tasks[t]
         => tasks'[t].version > tasks[t].version]_tasks
=============================================================================
