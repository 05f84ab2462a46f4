------------------------------- MODULE TuiLoop -------------------------------
(***************************************************************************)
(* The loop of `ax top' (ax-tui: app.rs, input.rs, actions.rs): one key or *)
(* wheel event, then whatever the keys have asked for, then a refresh when *)
(* one is due.  Stop and restart and the creation of a task run inside the *)
(* loop; task actions and messages run on a worker thread whose answer is  *)
(* polled.  The world changes between any two steps, so the rows under an  *)
(* open menu may not be the ones it was opened on.                         *)
(*                                                                         *)
(* One form is open at a time, each opening closing the other.  A menu     *)
(* that is closed keeps nothing: opening it sets every field.  The daemon  *)
(* is external here, and its answer may be lost: the client gives up after *)
(* 5 seconds.  The key that quits just ends the behaviour.  A scene bounds *)
(* what one behaviour does: the parts of the world that change, the tabs   *)
(* that are visited and the groups of keys in use.                         *)
(***************************************************************************)
EXTENDS TuiLists

CONSTANTS
  None,
  Worlds,    \* where a behaviour may begin
  MaxAsks    \* bound: requests the operator makes

\* A form: what has been typed into it, a title or a text being there or not.
Forms == [kind : {"create", "message"}, assignee : Names \union {NoName}, text : BOOLEAN, submitting : BOOLEAN]

\* What a menu is opened on, a task action that was asked for, and the job that runs one.
Targets == Names \union [id : TaskIds, version : Nat]
Actions == [act : {"wake", "task_interrupt", "retry", "cancel"}, task : Targets, shown : Targets]
Results == {"running", "ok", "failed"}
ActionJobs == [ask : Actions, result : Results]

ASSUME TuiLoopAssumption ==
  /\ MaxAsks \in Nat
  /\ None \notin Forms \union ActionJobs \union Names \union Results
  /\ \A w \in Worlds : /\ w.tree \in Trees /\ w.disk \in Disks /\ w.history \in Nat /\ w.usage \in Nat
                       /\ w.asks \in 0..MaxAsks

VARIABLES
  phase,     \* where the loop is
  help,      \* help_open
  overlay,   \* quick_actions
  form,      \* create_task_form or orchestrator_message_form
  pending,   \* pending_lifecycle, pending_task_action, pending_task_create and ..._message
  jobs,      \* TaskActionJob and MessageSendJob
  forced,    \* force_refresh
  asks, last \* requests made; what the latest one was shown to be for and what it hit

modal == <<help, overlay, form>>
work  == <<pending, jobs, forced, asks, last>>
vars  == <<world, changes, scene, lists, place, phase, modal, work>>

-----------------------------------------------------------------------------
(* The menu *)

\* contextual_actions.
AgentActions(live) ==
  IF live THEN <<"stream", "show_tasks", "show_messages", "interrupt", "restart", "stop">>
  ELSE <<"show_tasks", "show_messages", "restart">>

TaskActions(task) ==
  IF task.status \in Open THEN <<"wake", "task_interrupt", "retry", "cancel">> ELSE <<>>

RequiresConfirmation(action) == action \in {"restart", "stop", "cancel"}
IsTaskAction(action) == action \in {"wake", "task_interrupt", "retry", "cancel"}

Target(id, version) == [id |-> id, version |-> version]
Menu(actions, target) == [actions |-> actions, at |-> 1, confirm |-> FALSE, target |-> target, lost |-> FALSE]
Current == overlay.actions[overlay.at]

\* The loop goes on to the next part that has work, then to a refresh that is forced.
HasWork(p) ==
  CASE p = "lifecycle" -> pending'.lifecycle # None
    [] p = "action"    -> pending'.action # None \/ jobs'.action # None
    [] p = "create"    -> pending'.create # None
    [] p = "message"   -> pending'.message \/ jobs'.message # None
Parts == <<"lifecycle", "action", "create", "message">>
GoOn(from) ==
  LET left == {i \in from..Len(Parts) : HasWork(Parts[i])}
  IN  phase' \in IF left # {} THEN {Parts[Min(left)]}
                 ELSE {IF forced' THEN "refresh" ELSE "input"}

\* One event, then the drains.
Event == phase = "input" /\ GoOn(1) /\ UNCHANGED <<world, changes, scene>>

NoWork == UNCHANGED work
Browsing == form = None /\ ~help /\ overlay = None

-----------------------------------------------------------------------------
(* Keys *)

\* Nothing in 50 ms, or a key nobody takes: every key while a form is being submitted.
NoEvent == NoWork /\ Event /\ UNCHANGED <<lists, place, modal>>

HelpKey ==
  /\ "help" \in scene /\ form = None /\ overlay = None
  /\ help' = ~help
  /\ NoWork /\ Event /\ UNCHANGED <<lists, place, overlay, form>>

\* handle_list_key and handle_scroll.  The wheel works under an open form too.
ListEvent ==
  /\ ~help /\ overlay = None /\ focus = "list"
  /\ \E d \in {-1, 1} :
       \/ view = "agents" /\ MoveSelection(d)
       \/ view = "tasks" /\ MoveTaskSelection(d)
       \/ view = "messages" /\ ScrollMessages(d)
       \/ view = "tokens" /\ ScrollTokens(d)
  /\ NoWork /\ Event /\ UNCHANGED <<place, modal>>

MessageEnds ==
  /\ Browsing /\ focus = "list" /\ view = "messages"
  /\ MessagesToHead \/ MessagesToTail
  /\ NoWork /\ Event /\ UNCHANGED <<place, modal>>

FocusKey ==
  /\ "focus" \in scene /\ Browsing
  /\ focus' = IF focus = "list" THEN "detail" ELSE "list"
  /\ NoWork /\ Event /\ UNCHANGED <<lists, view, pinned, modal>>

TabKey ==
  /\ Browsing
  /\ \E v \in (ToSet(Tabs) \intersect scene) \ {view} : ShowTab(v)
  /\ NoWork /\ Event /\ UNCHANGED modal

FilterKey == "filter" \in scene /\ Browsing /\ CycleTaskFilter /\ NoWork /\ Event /\ UNCHANGED <<place, modal>>

RefreshKey ==
  /\ Browsing /\ forced' = TRUE
  /\ UNCHANGED <<pending, jobs, asks, last>>
  /\ Event /\ UNCHANGED <<lists, place, modal>>

\* open_overlay and open_task_overlay.
OpenOverlay ==
  /\ Browsing /\ focus = "list"
  /\ \/ /\ "menu" \in scene /\ view = "agents" /\ SelectedName # NoName
        /\ overlay' = Menu(AgentActions(rows[selected].live), SelectedName)
     \/ /\ "task_menu" \in scene /\ view = "tasks" /\ SelectedTask # NoTask /\ TaskActions(SelectedTask) # <<>>
        /\ overlay' = Menu(TaskActions(SelectedTask), Target(SelectedTask.id, SelectedTask.version))
  /\ NoWork /\ Event /\ UNCHANGED <<lists, place, help, form>>

\* Mutant of OverlayMove: past the ends.
OverlayMovePast ==
  /\ overlay # None
  /\ \E d \in {-1, 1} : overlay' = [overlay EXCEPT !.at = @ + d, !.confirm = FALSE]
  /\ NoWork /\ Event /\ UNCHANGED <<lists, place, help, form>>

OverlayMove ==
  /\ overlay # None
  /\ \E d \in {-1, 1} :
       overlay' = [overlay EXCEPT !.at = Most(1, Least(@ + d, Len(overlay.actions))), !.confirm = FALSE]
  /\ NoWork /\ Event /\ UNCHANGED <<lists, place, help, form>>

OverlayEsc == overlay # None /\ overlay' = None /\ NoWork /\ Event /\ UNCHANGED <<lists, place, help, form>>

-----------------------------------------------------------------------------
(* Enter on the menu *)

AskConfirm ==
  /\ overlay # None /\ RequiresConfirmation(Current) /\ ~overlay.confirm
  /\ IsTaskAction(Current) \/ SelectedName # NoName
  /\ overlay' = [overlay EXCEPT !.confirm = TRUE]
  /\ NoWork /\ Event /\ UNCHANGED <<lists, place, help, form>>

Confirmed == RequiresConfirmation(Current) => overlay.confirm
Ask == asks < MaxAsks /\ asks' = asks + 1

\* Mutant of TaskOf: the task under the cursor now.
TaskOfCursor == IF SelectedTask = NoTask THEN overlay.target ELSE Target(SelectedTask.id, SelectedTask.version)

\* The task and version the menu was opened on.
TaskOf == overlay.target

\* A request that still waits for the worker is overwritten.
ActivateTask ==
  /\ overlay # None /\ IsTaskAction(Current) /\ Confirmed /\ Ask
  /\ pending' = [pending EXCEPT !.action = [act |-> Current, task |-> TaskOf, shown |-> overlay.target]]
  /\ overlay' = None
  /\ UNCHANGED <<jobs, forced, last>>
  /\ Event /\ UNCHANGED <<lists, place, help, form>>

\* Mutant of ActsOn: the row before, as if rows were counted from 0.
ActsOnRowBefore == NameAt(rows, selected - 1)

ActsOn == SelectedName

\* The workspace under the cursor now, which need not be the one the prompt names.
ActivateLifecycle ==
  /\ overlay # None /\ Current \in {"restart", "stop"} /\ Confirmed /\ SelectedName # NoName /\ Ask
  /\ pending' = [pending EXCEPT !.lifecycle =
                   [act |-> Current, name |-> ActsOn, shown |-> overlay.target, lost |-> overlay.lost]]
  /\ overlay' = None
  /\ UNCHANGED <<jobs, forced, last>>
  /\ Event /\ UNCHANGED <<lists, place, help, form>>

\* Everything under the menu is gone.
ActivateNothing ==
  /\ overlay # None /\ ~IsTaskAction(Current) /\ SelectedName = NoName
  /\ overlay' = None
  /\ NoWork /\ Event /\ UNCHANGED <<lists, place, help, form>>

Switch ==
  /\ overlay # None /\ Current \in {"stream", "show_tasks", "show_messages"} /\ SelectedName # NoName
  /\ view' = CASE Current = "stream" -> "stream" [] Current = "show_tasks" -> "tasks" [] OTHER -> "messages"
  /\ pinned' = IF Current = "stream" THEN SelectedName ELSE pinned
  /\ overlay' = None
  /\ NoWork /\ Event /\ UNCHANGED <<lists, focus, help, form>>

\* Escape goes to the session of that name; without one the menu stays open.
Interrupt ==
  /\ overlay # None /\ Current = "interrupt" /\ SelectedName # NoName
  /\ \/ /\ SelectedName \in sessions /\ overlay' = None
        /\ last' = [act |-> "interrupt", hit |-> SelectedName, shown |-> overlay.target, lost |-> overlay.lost]
     \/ UNCHANGED <<overlay, last>>
  /\ UNCHANGED <<pending, jobs, forced, asks>>
  /\ Event /\ UNCHANGED <<lists, place, help, form>>

-----------------------------------------------------------------------------
(* Forms *)

Known == {rows[i].name : i \in Selectable(rows)} \union {tasks[i].assignee : i \in DOMAIN tasks}

DefaultAssignee ==
  IF SelectedTask # NoTask THEN SelectedTask.assignee
  ELSE IF SelectedName # NoName \/ Known = {} THEN SelectedName
  ELSE CHOOSE w \in Known : \A v \in Known : v = w \/ \E i, j \in DOMAIN Order : i < j /\ Order[i] = w /\ Order[j] = v

CreateForm(assignee) == [kind |-> "create", assignee |-> assignee, text |-> FALSE, submitting |-> FALSE]
MessageForm == [kind |-> "message", assignee |-> NoName, text |-> FALSE, submitting |-> FALSE]

OpenForm ==
  /\ "forms" \in scene /\ Browsing
  /\ \/ form' = MessageForm
     \/ view = "tasks" /\ focus = "list" /\ form' = CreateForm(DefaultAssignee)
  /\ pending' = [pending EXCEPT !.create = None, !.message = FALSE]
  /\ UNCHANGED <<jobs, forced, asks, last>>
  /\ Event /\ UNCHANGED <<lists, place, help, overlay>>

Editing == form # None /\ ~form.submitting

Type ==
  /\ Editing
  /\ \/ form' = [form EXCEPT !.text = ~@]
     \/ form.kind = "create" /\ \E a \in Names \union {NoName} : form' = [form EXCEPT !.assignee = a]
  /\ NoWork /\ Event /\ UNCHANGED <<lists, place, help, overlay>>

FormEsc ==
  /\ Editing /\ form' = None
  /\ pending' = [pending EXCEPT !.create = None, !.message = FALSE]
  /\ UNCHANGED <<jobs, forced, asks, last>>
  /\ Event /\ UNCHANGED <<lists, place, help, overlay>>

Valid ==
  /\ form.text
  /\ form.kind = "create" => form.assignee # NoName /\ (Known # {} => form.assignee \in Known)

\* submit_create_task_form and submit_orchestrator_message_form; what is not valid stays.
Submit ==
  /\ Editing /\ Valid /\ Ask
  /\ form' = [form EXCEPT !.submitting = TRUE]
  /\ pending' = IF form.kind = "create" THEN [pending EXCEPT !.create = form.assignee]
                ELSE [pending EXCEPT !.message = TRUE]
  /\ UNCHANGED <<jobs, forced, last>>
  /\ Event /\ UNCHANGED <<lists, place, help, overlay>>

-----------------------------------------------------------------------------
(* What the keys asked for *)

\* drain_pending_lifecycle: stop_named_target and restart_named_target look the name up in
\* the config, and may fail.
DrainLifecycle ==
  LET p == pending.lifecycle
  IN  /\ phase = "lifecycle" /\ pending' = [pending EXCEPT !.lifecycle = None]
      /\ \/ /\ tree # NoTree /\ p.name \in ToSet(tree)
            /\ sessions' = IF p.act = "stop" THEN sessions \ {p.name} ELSE sessions \union {p.name}
            /\ last' = [act |-> p.act, hit |-> p.name, shown |-> p.shown, lost |-> p.lost]
         \/ UNCHANGED <<sessions, last>>
      /\ UNCHANGED <<tree, disk, history, usage, changes, scene, lists, place, modal, jobs, forced, asks>>
      /\ GoOn(2)

\* Mutant of PollAction: an error does not end the job.
PollActionOk ==
  /\ phase = "action" /\ UNCHANGED <<agents, messages, tokenlist>>
  /\ \/ /\ jobs.action # None
        /\ jobs' = IF jobs.action.result = "ok" THEN [jobs EXCEPT !.action = None] ELSE jobs
        /\ UNCHANGED <<pending, tasklist>>
     \/ /\ jobs.action = None
        /\ jobs' = [jobs EXCEPT !.action = [ask |-> pending.action, result |-> "running"]]
        /\ pending' = [pending EXCEPT !.action = None] /\ UNCHANGED tasklist
  /\ UNCHANGED <<world, changes, scene, place, modal, forced, asks, last>>
  /\ GoOn(3)

\* drain_pending_task_action: the answer is taken, or else the next request started.
PollAction ==
  /\ phase = "action" /\ UNCHANGED <<agents, messages, tokenlist>>
  /\ \/ /\ jobs.action # None /\ jobs.action.result = "running"
        /\ UNCHANGED <<jobs, pending, tasklist>>
     \/ /\ jobs.action # None /\ jobs.action.result # "running"
        /\ jobs' = [jobs EXCEPT !.action = None] /\ UNCHANGED pending
        /\ IF jobs.action.result = "ok" THEN RefreshTasks ELSE UNCHANGED tasklist
     \/ /\ jobs.action = None
        /\ jobs' = [jobs EXCEPT !.action = [ask |-> pending.action, result |-> "running"]]
        /\ pending' = [pending EXCEPT !.action = None] /\ UNCHANGED tasklist
  /\ UNCHANGED <<world, changes, scene, place, modal, forced, asks, last>>
  /\ GoOn(3)

NewTask(id, assignee) ==
  Touched([id |-> id, status |-> "pending", version |-> 0, updated |-> 0, assignee |-> assignee], "pending")

Reopened == [form EXCEPT !.submitting = FALSE]

\* drain_pending_task_create, inside the loop.  The task may be there and its answer lost.
DrainCreate ==
  /\ phase = "create" /\ pending' = [pending EXCEPT !.create = None]
  /\ \/ \E t \in TaskIds :
          /\ disk[t] = NoTask
          /\ disk' = [disk EXCEPT ![t] = NewTask(t, pending.create)]
          /\ \/ /\ form' = None /\ view' = "tasks" /\ forced' = TRUE
                /\ tasks' = Snapshot(disk') /\ UNCHANGED filter
                /\ task_cursor' = ClampTo(task_cursor, Len(FilterTasks(tasks', filter)))
             \/ form' = Reopened /\ UNCHANGED <<view, forced, tasklist>>
     \/ form' = Reopened /\ UNCHANGED <<disk, view, forced, tasklist>>
  /\ UNCHANGED <<tree, sessions, history, usage, changes, scene, agents, messages, tokenlist, focus,
                 pinned, help, overlay, jobs, asks, last>>
  /\ GoOn(4)

\* Mutant of Answered: an error leaves the form as it is.
AnsweredOk(result) == IF result = "ok" THEN None ELSE form

Answered(result) == IF result = "ok" THEN None ELSE Reopened

\* drain_pending_orchestrator_message.
PollMessage ==
  /\ phase = "message" /\ UNCHANGED <<agents, tasklist, tokenlist>>
  /\ \/ /\ jobs.message = "running"
        /\ UNCHANGED <<jobs, pending, messages, form, forced>>
     \/ /\ jobs.message \in {"ok", "failed"}
        /\ jobs' = [jobs EXCEPT !.message = None] /\ UNCHANGED pending
        /\ form' = Answered(jobs.message) /\ forced' = (forced \/ jobs.message = "ok")
        /\ IF jobs.message = "ok" THEN RefreshMessages ELSE UNCHANGED messages
     \/ /\ jobs.message = None
        /\ jobs' = [jobs EXCEPT !.message = "running"] /\ pending' = [pending EXCEPT !.message = FALSE]
        /\ UNCHANGED <<messages, form, forced>>
  /\ UNCHANGED <<world, changes, scene, place, help, overlay, asks, last>>
  /\ GoOn(5)

\* Whether the menu's workspace has been off the list is noted for a property below.
Listed(rs, name) == \E i \in Selectable(rs) : rs[i].name = name

\* Forced, or every 250 ms.
Refresh ==
  /\ phase \in {"refresh", "input"} /\ phase' = "input"
  /\ forced' = FALSE
  /\ RefreshAll
  /\ overlay' = IF overlay = None THEN None ELSE [overlay EXCEPT !.lost = @ \/ ~Listed(rows', overlay.target)]
  /\ UNCHANGED <<world, changes, scene, help, form, pending, jobs, asks, last>>

-----------------------------------------------------------------------------
(* The workers *)

\* run_pending_task_action: the daemon acts if the task is open at that version still.
ActionWorker ==
  LET ask  == jobs.action.ask
      id   == ask.task.id
  IN  /\ jobs.action # None /\ jobs.action.result = "running"
      /\ \/ /\ disk[id] # NoTask /\ disk[id].status \in Open /\ disk[id].version = ask.task.version
            /\ disk' = CASE ask.act = "retry" -> [disk EXCEPT ![id] = Touched(@, "pending")]
                         [] ask.act = "cancel" -> [disk EXCEPT ![id] = Touched(@, "done")]
                         [] OTHER -> disk
            /\ last' = [act |-> ask.act, hit |-> ask.task, shown |-> ask.shown]
            /\ jobs' \in {[jobs EXCEPT !.action.result = r] : r \in {"ok", "failed"}}
         \/ jobs' = [jobs EXCEPT !.action.result = "failed"] /\ UNCHANGED <<disk, last>>
      /\ UNCHANGED <<tree, sessions, history, usage, pending, forced, asks>>

\* run_pending_orchestrator_message: the daemon appends to the history before it answers.
MessageWorker ==
  /\ jobs.message = "running"
  /\ \/ history' = history + 1 /\ jobs' \in {[jobs EXCEPT !.message = r] : r \in {"ok", "failed"}}
     \/ jobs' = [jobs EXCEPT !.message = "failed"] /\ UNCHANGED history
  /\ UNCHANGED <<tree, sessions, disk, usage, pending, forced, asks, last>>

Worker == (ActionWorker \/ MessageWorker) /\ UNCHANGED <<changes, scene, lists, place, phase, modal>>

-----------------------------------------------------------------------------
Init ==
  /\ ListsInit
  /\ \E w \in Worlds :
       /\ tree = w.tree /\ sessions = w.sessions /\ disk = w.disk /\ history = w.history /\ usage = w.usage
       /\ scene = w.scene /\ changes = w.changes /\ asks = w.asks
  /\ phase = "refresh" /\ help = FALSE /\ overlay = None /\ form = None /\ forced = FALSE
  /\ pending = [lifecycle |-> None, action |-> None, create |-> None, message |-> FALSE]
  /\ jobs = [action |-> None, message |-> None]
  /\ last = None

Key ==
  \/ NoEvent \/ HelpKey \/ ListEvent \/ MessageEnds \/ FocusKey \/ TabKey \/ FilterKey \/ RefreshKey
  \/ OpenOverlay \/ OverlayMove \/ OverlayEsc \/ AskConfirm
  \/ ActivateTask \/ ActivateLifecycle \/ ActivateNothing \/ Switch \/ Interrupt
  \/ OpenForm \/ Type \/ FormEsc \/ Submit
Drain == DrainLifecycle \/ PollAction \/ DrainCreate \/ PollMessage \/ Refresh
Loop == Key \/ Drain

World == Change /\ UNCHANGED <<lists, place, phase, modal, work>>

Next == Loop \/ Worker \/ World

\* The loop polls for 50 ms at most; a worker's client gives up after 5 seconds.
Fairness == WF_vars(Loop) /\ WF_vars(Worker)
Spec == Init /\ [][Next]_vars /\ Fairness

-----------------------------------------------------------------------------
(* Properties *)

TypeOK ==
  /\ phase \in ToSet(Parts) \union {"input", "refresh"} /\ help \in BOOLEAN /\ forced \in BOOLEAN
  /\ form \in Forms \union {None}
  /\ overlay # None => overlay.at \in DOMAIN overlay.actions
  /\ view \in ToSet(Tabs) /\ asks \in 0..MaxAsks

\* The operator's keys go to one surface, and a form that is being submitted, which takes
\* no keys, has its request waiting or running: nothing leaves it shut for good.
SubmittedIsUnderWay ==
  /\ overlay # None => form = None /\ ~help
  /\ form # None => ~help
  /\ (form # None /\ form.submitting)
       <=> (pending.create # None \/ pending.message \/ jobs.message # None)

\* A task action hits the task and the version of it that the menu was opened on, however
\* the list has moved under the menu and whichever request was overwritten meanwhile.
TaskHitsTheShown == last # None /\ IsTaskAction(last.act) => last.hit = last.shown

\* What actions.rs promises of the confirmation: a stop or a restart hits the workspace that
\* the prompt named.
LifecycleHitsTheShown == last # None /\ last.act \in {"restart", "stop"} => last.hit = last.shown

\* It does as long as that workspace stayed in the list.
OnlyTheVanishedIsMissed ==
  last # None /\ last.act \in {"interrupt", "restart", "stop"} /\ last.hit # last.shown => last.lost

\* Whatever was asked for is answered, one way or the other, and the form opens again or
\* closes.
EveryRequestSettles ==
  /\ (pending.action # None \/ jobs.action # None) ~> (pending.action = None /\ jobs.action = None)
  /\ (form # None /\ form.submitting) ~> (form = None \/ ~form.submitting)

\* The panel acts on what it showed: cursors are on rows, a task action hits the task and
\* version of its menu, and any other the workspace of its menu while that is listed.
ActsOnTheShown ==
  TypeOK /\ CursorsAreOnRows /\ SubmittedIsUnderWay /\ TaskHitsTheShown /\ OnlyTheVanishedIsMissed
=============================================================================
