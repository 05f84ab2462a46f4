------------------------------ MODULE TuiLists ------------------------------
(***************************************************************************)
(* What `ax top' shows (ax-tui: state.rs, agents.rs, tasks.rs, stream.rs,  *)
(* app.rs): lists copied from tmux, the config tree, the daemon's files    *)
(* and its usage report every quarter of a second, and a cursor in each    *)
(* that the operator moves meanwhile.  The world (tree, sessions, disk,    *)
(* history, usage) changes at any time; the panel sees it at a refresh.    *)
(*                                                                         *)
(* Cursors are row numbers, from 0 as in the code (the agents panel's from *)
(* 1).  Scroll offsets that only the renderer reads and clamps, the tabs   *)
(* inside the agents' detail pane, colours, labels and the notices in the  *)
(* footer are left out, and all tasks have one priority.                   *)
(***************************************************************************)
EXTENDS Integers, Sequences, SequencesExt, FiniteSetsExt

CONSTANTS
  Order,      \* the workspace names, as tmux lists their sessions
  LastPart,   \* per name: what follows its last dot
  Trees,      \* config trees, flattened: sequences of names and Header
  NoTree,     \* no readable config
  Header,     \* the row that heads a project
  NoName,     \* no workspace
  TaskIds,    \* numbers, for the order of ids
  NoTask,     \* a task that does not exist yet
  Buffer,     \* MESSAGE_HISTORY_BUFFER
  MaxUsage,   \* bound: workspaces with token usage
  MaxChanges  \* bound: changes of the world

ASSUME TuiListsAssumption ==
  /\ Buffer \in Nat \ {0} /\ MaxUsage \in Nat /\ MaxChanges \in Nat
  /\ Order \in Seq(ToSet(Order)) /\ NoName \notin ToSet(Order) /\ LastPart \in [ToSet(Order) -> ToSet(Order)]
  /\ NoTree \in Trees /\ Trees \ {NoTree} \subseteq Seq(ToSet(Order) \union {Header})
  /\ TaskIds \subseteq Nat /\ IsFiniteSet(TaskIds)

VARIABLES
  tree, sessions, disk, history, usage,  \* the world
  changes, scene,                       \* bounds: how much has changed, and what may
  rows, selected,                        \* agent_entries, selected_entry
  view, focus, pinned,                   \* stream, focus, streamed_workspace
  tasks, task_cursor, filter,
  shown, message_cursor, follow,         \* the messages shown: from shown[1] to shown[2]
  tokens, token_cursor

world  == <<tree, sessions, disk, history, usage>>
agents == <<rows, selected>>
tasklist == <<tasks, task_cursor, filter>>
messages == <<shown, message_cursor, follow>>
tokenlist == <<tokens, token_cursor>>
lists == <<agents, tasklist, messages, tokenlist>>
place == <<view, focus, pinned>>

Names == ToSet(Order)
Least(a, b) == IF a < b THEN a ELSE b
Most(a, b) == IF a < b THEN b ELSE a

\* The elements of a finite set in a total order, each behind as many as come before it; and
\* the elements of a sequence at some places, in its order.
InOrder(S, Before(_, _)) ==
  [k \in 1..Cardinality(S) |-> CHOOSE x \in S : Cardinality({y \in S : Before(y, x)}) = k - 1]
Kept(s, I) == LET at == InOrder(I, <) IN [k \in DOMAIN at |-> s[at[k]]]

-----------------------------------------------------------------------------
(* The agents panel *)

Row(name, live) == [name |-> name, live |-> live]
Sessions(s) == Kept(Order, {i \in DOMAIN Order : Order[i] \in s})

\* build_from_tree: the tree, then the sessions it does not know under a header.
TreeRows(t, s) ==
  LET strays == Sessions(s \ ToSet(t))
  IN  [i \in DOMAIN t |-> IF t[i] = Header THEN Header ELSE Row(t[i], t[i] \in s)]
        \o (IF strays = <<>> THEN <<>>
            ELSE <<Header>> \o [i \in DOMAIN strays |-> Row(strays[i], TRUE)])

\* build_fallback: dotted names are nested under headers, and a row goes by the last
\* part of its name.
FallbackRows(s) ==
  LET names == Sessions(s)
      name(i) == names[(i + 1) \div 2]
      pairs == [i \in 1..(2 * Len(names)) |-> IF i % 2 = 1 THEN Header ELSE Row(LastPart[name(i)], TRUE)]
  IN  Kept(pairs, {i \in DOMAIN pairs : i % 2 = 1 => LastPart[name(i)] # name(i)})

BuildEntries(t, s) == IF t = NoTree THEN FallbackRows(s) ELSE TreeRows(t, s)

Selectable(rs) == {i \in DOMAIN rs : rs[i] # Header}

NameAt(rs, i) == IF i \in Selectable(rs) THEN rs[i].name ELSE NoName
SelectedName == NameAt(rows, selected)

\* Mutant of Reselect: the row number is kept, whatever is there now.
ReselectRow(rs) ==
  LET later == {i \in Selectable(rs) : i >= selected}
  IN  IF Selectable(rs) = {} THEN 1 ELSE IF later # {} THEN Min(later) ELSE Max(Selectable(rs))

\* rebuild_agents: the workspace that was selected, or else the row that took its place.
Reselect(rs) ==
  LET all   == Selectable(rs)
      same  == {i \in all : SelectedName # NoName /\ rs[i].name = SelectedName}
      later == {i \in all : i >= selected}
  IN  IF all = {} THEN 1
      ELSE IF same # {} THEN Min(same)
      ELSE IF later # {} THEN Min(later)
      ELSE Max(all)

MoveSelection(d) ==
  LET all == Selectable(rows)
      up  == {i \in all : i < selected}
      dn  == {i \in all : i > selected}
  IN  /\ selected' = IF all = {} THEN 1
                     ELSE IF selected \notin all
                          THEN IF d > 0 /\ Cardinality(all) > 1 THEN Min(all \ {Min(all)}) ELSE Min(all)
                     ELSE IF d < 0 THEN (IF up = {} THEN selected ELSE Max(up))
                     ELSE (IF dn = {} THEN selected ELSE Min(dn))
      /\ UNCHANGED <<rows, tasklist, messages, tokenlist>>

-----------------------------------------------------------------------------
(* Tasks *)

Open == {"pending", "running", "stale"}
Statuses == Open \union {"done"}
Task == [id : TaskIds, status : Statuses, version : Nat, updated : Nat, assignee : Names]
Disks == {d \in [TaskIds -> Task \union {NoTask}] : \A t \in TaskIds : d[t] # NoTask => d[t].id = t}

\* sort_tasks_for_display, all tasks being of one age; "stale" is in progress and not heard of
\* for too long.
StatusOrder(s) == CASE s \in {"running", "stale"} -> 0 [] s = "pending" -> 1 [] s = "done" -> 2
DisplayBefore(a, b) ==
  \/ StatusOrder(a.status) < StatusOrder(b.status)
  \/ StatusOrder(a.status) = StatusOrder(b.status) /\ a.updated > b.updated
  \/ StatusOrder(a.status) = StatusOrder(b.status) /\ a.updated = b.updated /\ a.id < b.id

\* read_tasks_snapshot.
Snapshot(d) ==
  InOrder({d[t] : t \in {x \in TaskIds : d[x] # NoTask}}, DisplayBefore)

Passes(task, f) ==
  CASE f = "active" -> task.status \in Open
    [] f = "stale" -> task.status = "stale"
    [] f = "done" -> task.status = "done"
    [] f = "all" -> TRUE

FilterTasks(ts, f) == Kept(ts, {i \in DOMAIN ts : Passes(ts[i], f)})

NextFilter(f) ==
  CASE f = "active" -> "stale" [] f = "stale" -> "done" [] f = "done" -> "all" [] f = "all" -> "active"

\* Mutant of ClampTo: one row too far.
ClampLate(cursor, n) == IF n = 0 THEN 0 ELSE Least(cursor, n)

\* PaneCursor::clamp as clamp_task_selection and clamp_token_selection use it.
ClampTo(cursor, n) == IF n = 0 THEN 0 ELSE Least(cursor, n - 1)

Filtered == FilterTasks(tasks, filter)
SelectedTask == IF task_cursor < Len(Filtered) THEN Filtered[task_cursor + 1] ELSE NoTask

MoveTaskSelection(d) ==
  /\ task_cursor' = ClampTo(Most(task_cursor + d, 0), Len(Filtered))
  /\ UNCHANGED <<agents, tasks, filter, messages, tokenlist>>

CycleTaskFilter ==
  /\ filter' = NextFilter(filter)
  /\ task_cursor' = ClampTo(task_cursor, Len(FilterTasks(tasks, filter')))
  /\ UNCHANGED <<agents, tasks, messages, tokenlist>>

RefreshTasks ==
  /\ tasks' = Snapshot(disk)
  /\ task_cursor' = ClampTo(task_cursor, Len(FilterTasks(tasks', filter)))
  /\ UNCHANGED filter

-----------------------------------------------------------------------------
(* Messages *)

Shown(s) == s[2] - s[1] + 1
SelectedMessage == shown[1] + message_cursor

ScrollMessages(d) ==
  LET n == Shown(shown)
  IN  /\ message_cursor' = IF n = 0 THEN 0 ELSE Most(0, Least(message_cursor + d, n - 1))
      /\ follow' = (n = 0 \/ message_cursor' + 1 = n)
      /\ UNCHANGED <<shown, agents, tasklist, tokenlist>>

MessagesToTail ==
  /\ follow' = TRUE
  /\ message_cursor' = Most(Shown(shown) - 1, 0)
  /\ UNCHANGED <<shown, agents, tasklist, tokenlist>>

MessagesToHead ==
  /\ follow' = FALSE
  /\ message_cursor' = 0
  /\ UNCHANGED <<shown, agents, tasklist, tokenlist>>

\* refresh_messages and reconcile_message_cursor: the last Buffer entries of the file.  A
\* line that is still being appended makes the file unreadable, and the list stays.
RefreshMessages ==
  LET n == Shown(shown')
  IN  /\ shown' \in {<<Most(1, history - Buffer + 1), history>>, shown}
      /\ message_cursor' = IF n = 0 THEN 0 ELSE IF follow THEN n - 1 ELSE Least(message_cursor, n - 1)
      /\ follow' = (follow \/ n = 0)

-----------------------------------------------------------------------------
(* Tokens and tabs *)

ScrollTokens(d) ==
  /\ token_cursor' = ClampTo(Most(token_cursor + d, 0), tokens)
  /\ UNCHANGED <<agents, tasklist, messages, tokens>>

Tabs == IF pinned = NoName THEN <<"agents", "messages", "tasks", "tokens">>
        ELSE <<"agents", "messages", "tasks", "tokens", "stream">>

\* step_stream and select_stream; the selections are clamped on the way.
ShowTab(v) ==
  /\ view' = v
  /\ task_cursor' = ClampTo(task_cursor, Len(Filtered))
  /\ token_cursor' = ClampTo(token_cursor, tokens)
  /\ UNCHANGED <<agents, tasks, filter, messages, tokens, focus, pinned>>

\* refresh_usage: every few seconds, and only when the daemon answers.
RefreshUsage ==
  \/ tokens' = usage /\ token_cursor' = ClampTo(token_cursor, usage)
  \/ UNCHANGED tokenlist

\* refresh_tree and rebuild_agents: the config is read again each time.
RefreshAgents == rows' = BuildEntries(tree, sessions) /\ selected' = Reselect(rows')

\* refresh.
RefreshAll ==
  /\ RefreshAgents /\ RefreshMessages /\ RefreshTasks /\ RefreshUsage
  /\ UNCHANGED place

-----------------------------------------------------------------------------
(* The world *)

\* A task's next version; it is then the one that changed last.
Touched(task, status) ==
  LET newest == Max({0} \union {disk[t].updated : t \in {x \in TaskIds : disk[x] # NoTask}})
  IN  [task EXCEPT !.status = status, !.version = @ + 1, !.updated = newest + 1]

Change ==
  /\ changes < MaxChanges /\ changes' = changes + 1 /\ UNCHANGED scene
  /\ \/ \E w \in Names :
          /\ "sessions" \in scene
          /\ sessions' = IF w \in sessions THEN sessions \ {w} ELSE sessions \union {w}
          /\ UNCHANGED <<tree, disk, history, usage>>
     \/ "tree" \in scene /\ tree' \in Trees \ {tree} /\ UNCHANGED <<sessions, disk, history, usage>>
     \/ "log" \in scene /\ history' = history + 1 /\ UNCHANGED <<tree, sessions, disk, usage>>
     \/ "usage" \in scene /\ usage' \in 0..MaxUsage \ {usage} /\ UNCHANGED <<tree, sessions, disk, history>>
     \/ \E t \in TaskIds, s \in Statuses :
          /\ "board" \in scene /\ disk[t] # NoTask /\ disk[t].status # "done" /\ disk[t].status # s
          /\ disk' = [disk EXCEPT ![t] = Touched(@, s)]
          /\ UNCHANGED <<tree, sessions, history, usage>>

\* Before the first refresh.
ListsInit ==
  /\ rows = <<>> /\ selected = 1
  /\ view = "agents" /\ focus = "list" /\ pinned = NoName
  /\ tasks = <<>> /\ task_cursor = 0 /\ filter = "active"
  /\ shown = <<1, 0>> /\ message_cursor = 0 /\ follow = TRUE
  /\ tokens = 0 /\ token_cursor = 0

-----------------------------------------------------------------------------
(* Properties *)

\* After any sequence of keys, refreshes and filters every cursor is on a row of its
\* list, and the agents' one not on a header.
CursorsAreOnRows ==
  /\ Selectable(rows) # {} => selected \in Selectable(rows)
  /\ task_cursor <= Most(Len(Filtered) - 1, 0)
  /\ message_cursor <= Most(Shown(shown) - 1, 0)
  /\ follow => message_cursor = Most(Shown(shown) - 1, 0)
  /\ token_cursor <= Most(tokens - 1, 0)
  /\ view = "stream" => pinned # NoName

\* What a refresh may not do to the operator's place: another workspace is selected only
\* when the one that was is gone, and another message only in follow mode or when the
\* old one has left the buffer or the buffer has moved.
PlaceIsKept ==
  [][/\ rows' # rows /\ SelectedName # NoName
          /\ (\E i \in Selectable(rows') : rows'[i].name = SelectedName)
        => NameAt(rows', selected') = SelectedName
     /\ shown' # shown /\ ~follow /\ shown'[1] = shown[1]
        => shown'[1] + message_cursor' = SelectedMessage]_lists
=============================================================================
