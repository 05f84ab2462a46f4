------------------------- MODULE TaskDispatchProofs -------------------------
(***************************************************************************)
(* Proofs about the task store, the store with its file, the task tools    *)
(* over it, and the message and task handlers, for any number of agents,   *)
(* tasks, requests, calls in flight, failed writes and restarts and every  *)
(* order of the threads' calls.  First the store: its invariants are       *)
(* proved together, since RollupIsCurrent needs LinksAgree to know which   *)
(* parent a changed child can disturb.  Then the file: memory and file     *)
(* both satisfy them, versions only grow in memory, and the file is at     *)
(* most behind.  Then the tools: every step of a tool is a method of the   *)
(* store with its write, a restart, or leaves the store alone; on top of   *)
(* the store's invariant the proofs carry what a call, a preview and a     *)
(* report still say about a task that has moved on.  Last the handlers: a  *)
(* handler owes something from the moment it has changed a task until it   *)
(* has made the calls that follow; the inductive invariant says for every  *)
(* task that what is owed has been done or stands in somebody's program,   *)
(* where no error can strike it off.                                       *)
(***************************************************************************)
EXTENDS TaskDispatch, TaskTools, FiniteSetTheorems, SequenceTheorems, TLAPS

-----------------------------------------------------------------------------
(* The store *)

Stores == [TaskIds -> Task]

\* A rollup of any set of children is well formed.
LEMMA SummarizeType ==
  ASSUME NEW ts \in Stores, NEW p \in TaskIds
  PROVE  Summarize(ts, p) \in Rollups
<1>1. /\ ts[p].children \subseteq TaskIds
      /\ IsFiniteSet(ts[p].children)
  BY TaskStoreAssumption, FS_Subset DEF Stores, Task
<1>2. Cardinality(ts[p].children) \in Nat
  BY <1>1, FS_CardinalityType
<1>3. CountBy(ts, ts[p].children) \in [Statuses -> Nat]
  <2>1. ASSUME NEW s \in Statuses
        PROVE  Cardinality({c \in ts[p].children : ts[c].status = s}) \in Nat
    <3>1. IsFiniteSet({c \in ts[p].children : ts[c].status = s})
      BY <1>1, FS_Subset
    <3>2. QED BY <3>1, FS_CardinalityType
  <2>2. QED BY <2>1 DEF CountBy
<1>4. NoRollup \in Rollups
  BY DEF NoRollup, Rollups
<1>5. QED
  BY <1>2, <1>3, <1>4 DEF Summarize, Rollups

\* What refreshing rollups may touch: rollup and version of live tasks in P.
LEMMA RefreshFrame ==
  ASSUME NEW ms \in Stores, NEW P, NEW stale \in BOOLEAN, NEW x \in TaskIds
  PROVE  LET rs == RefreshAll(ms, P, stale) IN
         /\ rs \in Stores
         /\ rs[x].status = ms[x].status /\ rs[x].children = ms[x].children
         /\ rs[x].parent = ms[x].parent /\ rs[x].removed = ms[x].removed
         /\ rs[x].claimed = ms[x].claimed /\ rs[x].attempt_count = ms[x].attempt_count
         /\ rs[x].version >= ms[x].version
         /\ x \in P /\ Live(ms, x) => rs[x].rollup = Summarize(ms, x)
         /\ ~(x \in P /\ Live(ms, x)) => rs[x] = ms[x]
         /\ rs[x].version = ms[x].version => rs[x] = ms[x]
<1> DEFINE rs == RefreshAll(ms, P, stale)
<1>1. ASSUME NEW y \in TaskIds
      PROVE  Refreshed(ms, y, stale) \in Task
  <2>1. ms[y] \in Task
    BY DEF Stores
  <2>2. Summarize(ms, y) \in Rollups
    BY SummarizeType
  <2> DEFINE v == IF stale \/ Summarize(ms, y) # ms[y].rollup
                  THEN ms[y].version + 1 ELSE ms[y].version
             r == Summarize(ms, y)
  <2>3. v \in Nat
    BY <2>1 DEF Task
  <2>4. Refreshed(ms, y, stale) = [ms[y] EXCEPT !.rollup = r, !.version = v]
    BY DEF Refreshed
  <2> HIDE DEF v, r
  <2>5. r \in Rollups
    BY <2>2 DEF r
  <2>6. [ms[y] EXCEPT !.rollup = r, !.version = v] \in Task
    BY <2>1, <2>3, <2>5 DEF Task
  <2>7. QED BY <2>4, <2>6
<1>2. rs \in Stores
  BY <1>1 DEF RefreshAll, Stores
<1>3. rs[x] = IF x \in P /\ Live(ms, x) THEN Refreshed(ms, x, stale) ELSE ms[x]
  BY DEF RefreshAll
<1>4. ms[x] \in Task
  BY DEF Stores
<1>5. CASE x \in P /\ Live(ms, x)
  <2>1. rs[x] = Refreshed(ms, x, stale)
    BY <1>3, <1>5
  <2>2. /\ rs[x].status = ms[x].status /\ rs[x].children = ms[x].children
        /\ rs[x].parent = ms[x].parent /\ rs[x].removed = ms[x].removed
        /\ rs[x].claimed = ms[x].claimed /\ rs[x].attempt_count = ms[x].attempt_count
        /\ rs[x].version >= ms[x].version
        /\ rs[x].rollup = Summarize(ms, x)
    BY <2>1, <1>4 DEF Refreshed, Task
  <2>3. ASSUME rs[x].version = ms[x].version
        PROVE  rs[x] = ms[x]
    <3>1. ~stale /\ Summarize(ms, x) = ms[x].rollup
      BY <2>1, <2>3, <1>4 DEF Refreshed, Task
    <3>2. rs[x] = [ms[x] EXCEPT !.rollup = ms[x].rollup, !.version = ms[x].version]
      BY <2>1, <3>1 DEF Refreshed
    <3>3. QED BY <3>2, <1>4 DEF Task
  <2>4. QED BY <1>2, <1>5, <2>2, <2>3
<1>6. CASE ~(x \in P /\ Live(ms, x))
  <2>1. rs[x] = ms[x]
    BY <1>3, <1>6
  <2>2. ms[x].version >= ms[x].version
    BY <1>4 DEF Task
  <2>3. QED BY <1>2, <1>6, <2>1, <2>2
<1>7. QED BY <1>5, <1>6

\* A rollup depends on the statuses and the child ids only.
LEMMA SummarizeCongruence ==
  ASSUME NEW ts \in Stores, NEW us \in Stores, NEW p \in TaskIds,
         us[p].children = ts[p].children,
         us[p].status = ts[p].status,
         \A c \in ts[p].children : us[c].status = ts[c].status
  PROVE  Summarize(us, p) = Summarize(ts, p)
<1>1. CountBy(us, us[p].children) = CountBy(ts, ts[p].children)
  <2>1. ASSUME NEW s \in Statuses
        PROVE  {c \in us[p].children : us[c].status = s} = {c \in ts[p].children : ts[c].status = s}
    OBVIOUS
  <2>2. QED BY <2>1 DEF CountBy
<1>2. QED BY <1>1 DEF Summarize

-----------------------------------------------------------------------------
(* Every operation but create edits tasks in place and then refreshes the  *)
(* parents in P.  EditOK says what such an edit must respect.               *)

EditOK(ts, ms, P) ==
  /\ ms \in Stores
  /\ \A x \in TaskIds :
       /\ ms[x].children = ts[x].children /\ ms[x].parent = ts[x].parent
       /\ ms[x].rollup = ts[x].rollup
       /\ Exists(ms, x) <=> Exists(ts, x)
       /\ ~Exists(ts, x) => ms[x] = ts[x]
       /\ ts[x].removed => ms[x] = ts[x]
       /\ ts[x].status \in Terminal => ms[x].status = ts[x].status
       /\ ms[x].status # ts[x].status => ts[x].parent \in P
       /\ ms[x] # ts[x] => ms[x].version > ts[x].version
  /\ StartedIsClaimed(ms)

Good(ts) == /\ ts \in Stores
            /\ LinksAgree(ts)
            /\ RollupIsCurrent(ts)
            /\ StartedIsClaimed(ts)

\* The step relation behind TerminalIsFinal and VersionTellsChange; a task that is
\* still absent after the step was not touched, and a new one has a version.
Monotone(ts, us) ==
  \A t \in TaskIds :
    /\ ts[t].status \in Terminal => us[t].status = ts[t].status
    /\ ts[t].removed => us[t] = ts[t]
    /\ Exists(ts, t) /\ us[t] # ts[t] => us[t].version > ts[t].version
    /\ ~Exists(us, t) => us[t] = ts[t]
    /\ ~Exists(ts, t) /\ Exists(us, t) => us[t].version > 0

\* A pending task that is claimed is nobody's to take up.  Only an update makes one.
Aside(ts, t) == ts[t].status = "pending" /\ ts[t].claimed

NoneAside(ts, us) == \A t \in TaskIds : Aside(us, t) => Aside(ts, t)

\* Refreshing the parents in P after a legal edit restores the invariants.
LEMMA EditPreserves ==
  ASSUME NEW ts, Good(ts), NEW ms, NEW P, EditOK(ts, ms, P), NEW stale \in BOOLEAN
  PROVE  LET rs == RefreshAll(ms, P, stale) IN Good(rs) /\ Monotone(ts, rs)
<1> DEFINE rs == RefreshAll(ms, P, stale)
<1> HIDE DEF rs
<1>1. ts \in Stores /\ ms \in Stores
  BY DEF Good, EditOK
<1>2. ASSUME NEW x \in TaskIds
      PROVE  /\ rs \in Stores
             /\ rs[x].status = ms[x].status /\ rs[x].children = ms[x].children
             /\ rs[x].parent = ms[x].parent /\ rs[x].removed = ms[x].removed
             /\ rs[x].claimed = ms[x].claimed /\ rs[x].attempt_count = ms[x].attempt_count
             /\ rs[x].version >= ms[x].version
             /\ x \in P /\ Live(ms, x) => rs[x].rollup = Summarize(ms, x)
             /\ ~(x \in P /\ Live(ms, x)) => rs[x] = ms[x]
             /\ rs[x].version = ms[x].version => rs[x] = ms[x]
  BY <1>1, RefreshFrame DEF rs
<1>3. rs \in Stores
  <2>1. CASE TaskIds = {}
    BY <2>1 DEF rs, RefreshAll, Stores
  <2>2. CASE TaskIds # {}
    BY <2>2, <1>2
  <2>3. QED BY <2>1, <2>2
<1>4. LinksAgree(rs)
  <2>1. \A x \in TaskIds : /\ Exists(rs, x) <=> Exists(ts, x)
                          /\ rs[x].parent = ts[x].parent
                          /\ rs[x].children = ts[x].children
    BY <1>2 DEF EditOK, Exists
  <2>2. LinksAgree(ts)
    BY DEF Good
  <2>3. \A x \in TaskIds : ts[x].parent \in TaskIds \union {NoTask}
    BY <1>1 DEF Stores, Task
  <2>4. QED BY <2>1, <2>2, <2>3 DEF LinksAgree
<1>5. RollupIsCurrent(rs)
  <2> SUFFICES ASSUME NEW p \in TaskIds, Live(rs, p)
               PROVE  /\ rs[p].rollup.total = Summarize(rs, p).total
                      /\ rs[p].rollup.by = Summarize(rs, p).by
                      /\ rs[p].rollup.all_terminal = Summarize(rs, p).all_terminal
                      /\ rs[p].status \notin Terminal =>
                           rs[p].rollup.needs_reconciliation = Summarize(rs, p).needs_reconciliation
    BY DEF RollupIsCurrent
  <2>1. Live(ms, p)
    BY <1>2 DEF Live, Exists
  <2>2. /\ ts[p].children \subseteq TaskIds
        /\ ms[p].children = ts[p].children
        /\ ms[p].rollup = ts[p].rollup
    BY <1>1 DEF EditOK, Stores, Task
  <2>3. Summarize(rs, p) = Summarize(ms, p)
    <3>1. \A c \in ms[p].children : rs[c].status = ms[c].status
      BY <1>2, <2>2
    <3>2. rs[p].children = ms[p].children /\ rs[p].status = ms[p].status
      BY <1>2
    <3>3. QED BY <1>1, <1>3, <3>1, <3>2, SummarizeCongruence
  <2>4. CASE p \in P
    BY <1>2, <2>1, <2>3, <2>4
  <2>5. CASE p \notin P
    <3>1. rs[p] = ms[p]
      BY <1>2, <2>5
    <3>2. \A c \in ts[p].children : ms[c].status = ts[c].status
      <4>1. \A c \in ts[p].children : ts[c].parent = p
        BY DEF Good, LinksAgree
      <4>2. QED BY <4>1, <2>2, <2>5 DEF EditOK
    <3>3. Live(ts, p)
      BY <2>1 DEF EditOK, Live, Exists
    <3>4. /\ ts[p].rollup.total = Summarize(ts, p).total
          /\ ts[p].rollup.by = Summarize(ts, p).by
          /\ ts[p].rollup.all_terminal = Summarize(ts, p).all_terminal
          /\ ts[p].status \notin Terminal =>
               ts[p].rollup.needs_reconciliation = Summarize(ts, p).needs_reconciliation
      BY <3>3 DEF Good, RollupIsCurrent
    <3>5. CountBy(ms, ms[p].children) = CountBy(ts, ts[p].children)
      <4>1. ASSUME NEW s \in Statuses
            PROVE  {c \in ms[p].children : ms[c].status = s}
                     = {c \in ts[p].children : ts[c].status = s}
        BY <2>2, <3>2
      <4>2. QED BY <4>1 DEF CountBy
    <3>6. /\ Summarize(ms, p).total = Summarize(ts, p).total
          /\ Summarize(ms, p).by = Summarize(ts, p).by
          /\ Summarize(ms, p).all_terminal = Summarize(ts, p).all_terminal
      BY <2>2, <3>2, <3>5 DEF Summarize
    <3>7. ASSUME ms[p].status \notin Terminal
          PROVE  /\ ts[p].status \notin Terminal
                 /\ Summarize(ms, p).needs_reconciliation = Summarize(ts, p).needs_reconciliation
      <4>1. ts[p].status \notin Terminal
        BY <3>7 DEF EditOK
      <4>2. QED BY <4>1, <3>7, <2>2, <3>2 DEF Summarize
    <3>8. QED BY <2>2, <2>3, <3>1, <3>4, <3>6, <3>7
  <2>6. QED BY <2>4, <2>5
<1>6. StartedIsClaimed(rs)
  BY <1>2 DEF EditOK, StartedIsClaimed
<1>7. Monotone(ts, rs)
  <2> SUFFICES ASSUME NEW t \in TaskIds
               PROVE  /\ ts[t].status \in Terminal => rs[t].status = ts[t].status
                      /\ ts[t].removed => rs[t] = ts[t]
                      /\ rs[t] # ts[t] => rs[t].version > ts[t].version
                      /\ ~Exists(rs, t) => rs[t] = ts[t]
                      /\ ~Exists(ts, t) => ~Exists(rs, t)
    BY DEF Monotone
  <2>1. ts[t].status \in Terminal => rs[t].status = ts[t].status
    BY <1>2 DEF EditOK
  <2>2. ASSUME ts[t].removed PROVE rs[t] = ts[t]
    <3>1. ms[t] = ts[t]
      BY <2>2 DEF EditOK
    <3>2. ~Live(ms, t)
      BY <2>2, <3>1 DEF Live
    <3>3. QED BY <1>2, <3>1, <3>2
  <2>3. ASSUME rs[t] # ts[t] PROVE rs[t].version > ts[t].version
    <3>1. /\ rs[t].version \in Nat /\ ms[t].version \in Nat /\ ts[t].version \in Nat
      BY <1>1, <1>3 DEF Stores, Task
    <3>2. CASE ms[t] = ts[t]
      BY <1>2, <2>3, <3>1, <3>2
    <3>3. CASE ms[t] # ts[t]
      BY <1>2, <3>1, <3>3 DEF EditOK
    <3>4. QED BY <3>2, <3>3
  <2>4. ASSUME ~Exists(rs, t) PROVE rs[t] = ts[t]
    <3>1. ~Exists(ms, t)
      BY <1>2, <2>4 DEF Exists
    <3>2. ms[t] = ts[t]
      BY <3>1 DEF EditOK
    <3>3. QED BY <1>2, <3>1, <3>2 DEF Live
  <2>5. ~Exists(ts, t) => ~Exists(rs, t)
    BY <1>2 DEF EditOK, Exists
  <2>6. QED BY <2>1, <2>2, <2>3, <2>4, <2>5
<1>8. QED BY <1>3, <1>4, <1>5, <1>6, <1>7 DEF Good, rs

-----------------------------------------------------------------------------
(* create *)

\* A new task under a live parent: the parent is linked and refreshed.
LEMMA CreatePreserves ==
  ASSUME Good(tasks), NEW t \in TaskIds, NEW w \in Callers, NEW a \in Workspaces,
         NEW p \in TaskIds \union {NoTask}, Create(t, w, a, p)
  PROVE  Good(tasks)' /\ Monotone(tasks, tasks') /\ NoneAside(tasks, tasks')
<1> DEFINE new == [status |-> "pending", assignee |-> a, created_by |-> w, parent |-> p,
                   children |-> {}, rollup |-> NoRollup, claimed |-> FALSE,
                   dispatch_count |-> 0, attempt_count |-> 0, result |-> "empty",
                   removed |-> FALSE, version |-> 1]
           grown == [tasks[p] EXCEPT !.children = @ \union {t}, !.version = @ + 1]
           ms == [x \in TaskIds |-> IF x = t THEN new ELSE IF x = p THEN grown ELSE tasks[x]]
<1>1. /\ tasks \in Stores
      /\ ~Exists(tasks, t)
      /\ p # NoTask => Live(tasks, p)
      /\ tasks' = RefreshAll(ms, {p}, TRUE)
  <2>1. tasks' = RefreshAll(ms, {ms[t].parent}, TRUE)
    BY DEF Create, RefreshParent
  <2>2. ms[t].parent = p
    OBVIOUS
  <2>3. QED BY <2>1, <2>2 DEF Create, Good
<1>2. new \in Task
  BY DEF Task, Rollups, NoRollup, Callers, Statuses, Open, Terminal, Results
<1>3. ASSUME p # NoTask PROVE grown \in Task /\ tasks[p] \in Task
  <2>1. tasks[p] \in Task
    BY <1>1, <1>3 DEF Stores
  <2>2. tasks[p].children \union {t} \in SUBSET TaskIds /\ tasks[p].version + 1 \in Nat
    BY <2>1 DEF Task
  <2>3. QED BY <2>1, <2>2 DEF Task
<1>4. ms \in Stores
  BY <1>1, <1>2, <1>3, TaskStoreAssumption DEF Stores
<1>5. p # t
  BY <1>1, TaskStoreAssumption DEF Live
<1>6. \A x \in TaskIds : x # t =>
        /\ ms[x].status = tasks[x].status /\ ms[x].parent = tasks[x].parent
        /\ ms[x].removed = tasks[x].removed /\ ms[x].claimed = tasks[x].claimed
        /\ ms[x].attempt_count = tasks[x].attempt_count /\ ms[x].rollup = tasks[x].rollup
        /\ ms[x].children = IF x = p THEN tasks[x].children \union {t} ELSE tasks[x].children
        /\ x # p => ms[x] = tasks[x]
        /\ x = p => ms[x].version = tasks[x].version + 1
  <2> TAKE x \in TaskIds
  <2> HAVE x # t
  <2>1. CASE x = p
    <3>1. ms[x] = grown /\ tasks[p] \in Task
      BY <1>3, <2>1, TaskStoreAssumption
    <3>2. /\ grown.status = tasks[p].status /\ grown.parent = tasks[p].parent
          /\ grown.removed = tasks[p].removed /\ grown.claimed = tasks[p].claimed
          /\ grown.attempt_count = tasks[p].attempt_count /\ grown.rollup = tasks[p].rollup
          /\ grown.children = tasks[p].children \union {t}
          /\ grown.version = tasks[p].version + 1
      BY <3>1 DEF Task
    <3>3. QED BY <3>1, <3>2, <2>1
  <2>2. CASE x # p
    BY <2>2
  <2>3. QED BY <2>1, <2>2
<1>7. ms[t] = new
  OBVIOUS
<1> DEFINE P == {p}
           stale == TRUE
           rs == RefreshAll(ms, P, stale)
<1> HIDE DEF ms, new, grown, rs, P, stale
<1>8. ASSUME NEW x \in TaskIds
      PROVE  /\ rs \in Stores
             /\ rs[x].status = ms[x].status /\ rs[x].children = ms[x].children
             /\ rs[x].parent = ms[x].parent /\ rs[x].removed = ms[x].removed
             /\ rs[x].claimed = ms[x].claimed /\ rs[x].attempt_count = ms[x].attempt_count
             /\ rs[x].version >= ms[x].version
             /\ x = p /\ Live(ms, x) => rs[x].rollup = Summarize(ms, x)
             /\ x # p => rs[x] = ms[x]
  <2>1. x \in P <=> x = p
    BY DEF P
  <2>2. stale \in BOOLEAN
    BY DEF stale
  <2>3. /\ rs \in Stores
        /\ rs[x].status = ms[x].status /\ rs[x].children = ms[x].children
        /\ rs[x].parent = ms[x].parent /\ rs[x].removed = ms[x].removed
        /\ rs[x].claimed = ms[x].claimed /\ rs[x].attempt_count = ms[x].attempt_count
        /\ rs[x].version >= ms[x].version
        /\ x \in P /\ Live(ms, x) => rs[x].rollup = Summarize(ms, x)
        /\ ~(x \in P /\ Live(ms, x)) => rs[x] = ms[x]
    BY <1>4, <2>2, RefreshFrame DEF rs
  <2>4. QED BY <2>1, <2>3
<1>9. rs \in Stores
  BY <1>8
<1>10. /\ new.status = "pending" /\ new.children = {} /\ new.parent = p /\ ~new.removed
       /\ ~new.claimed /\ new.rollup = NoRollup /\ new.version = 1
  BY DEF new
<1>20. ASSUME NEW x \in TaskIds, x # t
       PROVE  /\ rs[x].status = tasks[x].status /\ rs[x].parent = tasks[x].parent
              /\ rs[x].removed = tasks[x].removed /\ rs[x].claimed = tasks[x].claimed
              /\ rs[x].attempt_count = tasks[x].attempt_count
  BY <1>6, <1>8, <1>20
<1>21. /\ rs[t].status = "pending" /\ rs[t].parent = p /\ ~rs[t].removed /\ ~rs[t].claimed
  BY <1>7, <1>8, <1>10
<1>11. LinksAgree(tasks) /\ StartedIsClaimed(tasks) /\ RollupIsCurrent(tasks)
  BY DEF Good
<1>12. LinksAgree(rs)
  <2>1. \A x \in TaskIds : Exists(rs, x) <=> (x = t \/ Exists(tasks, x))
    BY <1>20, <1>21 DEF Exists
  <2>2. ASSUME NEW x \in TaskIds
        PROVE  rs[x].children = {c \in TaskIds : Exists(rs, c) /\ rs[c].parent = x}
    <3>1. tasks[x].children = {c \in TaskIds : Exists(tasks, c) /\ tasks[c].parent = x}
      BY <1>11 DEF LinksAgree
    <3>2. \A c \in TaskIds : rs[c].parent = IF c = t THEN p ELSE tasks[c].parent
      BY <1>20, <1>21
    <3>3. CASE x = t
      <4>1. rs[x].children = {}
        BY <1>7, <1>8, <1>10, <3>3
      <4>2. \A c \in TaskIds : Exists(tasks, c) => tasks[c].parent # t
        BY <1>1, <1>11, TaskStoreAssumption DEF LinksAgree
      <4>3. QED BY <4>1, <4>2, <2>1, <3>2, <3>3, <1>5
    <3>4. CASE x = p
      <4>1. rs[x].children = tasks[x].children \union {t}
        BY <1>5, <1>6, <1>8, <3>4
      <4>2. QED BY <4>1, <3>1, <3>2, <3>4, <2>1, <1>1
    <3>5. CASE x # t /\ x # p
      <4>1. rs[x].children = tasks[x].children
        BY <1>6, <1>8, <3>5
      <4>2. QED BY <4>1, <3>1, <3>2, <3>5, <2>1, <1>1
    <3>6. QED BY <3>3, <3>4, <3>5
  <2>3. ASSUME NEW x \in TaskIds, Exists(rs, x), rs[x].parent # NoTask
        PROVE  Exists(rs, rs[x].parent)
    <3>1. CASE x = t
      <4>1. rs[x].parent = p /\ p \in TaskIds
        BY <1>7, <1>8, <1>10, <2>3, <3>1
      <4>2. QED BY <4>1, <2>1, <2>3, <1>1 DEF Live
    <3>2. CASE x # t
      <4>1. rs[x].parent = tasks[x].parent /\ Exists(tasks, x)
        BY <1>6, <1>8, <2>1, <2>3, <3>2
      <4>2. tasks[x].parent \in TaskIds
        BY <1>1, <4>1, <2>3 DEF Stores, Task
      <4>3. Exists(tasks, tasks[x].parent)
        BY <1>11, <4>1, <2>3 DEF LinksAgree
      <4>4. QED BY <2>1, <4>1, <4>2, <4>3
    <3>3. QED BY <3>1, <3>2
  <2>4. QED BY <2>2, <2>3 DEF LinksAgree
<1>13. RollupIsCurrent(rs)
  <2> SUFFICES ASSUME NEW q \in TaskIds, Live(rs, q)
               PROVE  /\ rs[q].rollup.total = Summarize(rs, q).total
                      /\ rs[q].rollup.by = Summarize(rs, q).by
                      /\ rs[q].rollup.all_terminal = Summarize(rs, q).all_terminal
                      /\ rs[q].status \notin Terminal =>
                           rs[q].rollup.needs_reconciliation = Summarize(rs, q).needs_reconciliation
    BY DEF RollupIsCurrent
  <2>1. Live(ms, q)
    BY <1>8 DEF Live, Exists
  <2>2. ms[q].children \subseteq TaskIds
    BY <1>4 DEF Stores, Task
  <2>3. Summarize(rs, q) = Summarize(ms, q)
    <3>1. \A c \in ms[q].children : rs[c].status = ms[c].status
      BY <1>8, <2>2
    <3>2. rs[q].children = ms[q].children /\ rs[q].status = ms[q].status
      BY <1>8
    <3>3. QED BY <1>4, <1>9, <3>1, <3>2, SummarizeCongruence
  <2>4. CASE q = p
    BY <1>8, <2>1, <2>3, <2>4
  <2>5. CASE q = t
    <3>1. rs[q] = ms[q] /\ ms[q].rollup = NoRollup /\ ms[q].children = {}
      BY <1>5, <1>7, <1>8, <1>10, <2>5
    <3>2. Summarize(ms, q) = NoRollup
      BY <3>1 DEF Summarize
    <3>3. QED BY <2>3, <3>1, <3>2
  <2>6. CASE q # p /\ q # t
    <3>1. rs[q] = tasks[q] /\ ms[q] = tasks[q]
      BY <1>6, <1>8, <2>6
    <3>2. \A c \in tasks[q].children : c \in TaskIds /\ c # t
      BY <1>1, <1>11 DEF LinksAgree
    <3>3. \A c \in tasks[q].children : ms[c].status = tasks[c].status
      BY <1>6, <3>2
    <3>4. Summarize(ms, q) = Summarize(tasks, q)
      BY <1>1, <1>4, <3>1, <3>3, SummarizeCongruence
    <3>5. Live(tasks, q)
      BY <2>1, <3>1 DEF Live, Exists
    <3>6. QED BY <1>11, <2>3, <3>1, <3>4, <3>5 DEF RollupIsCurrent
  <2>7. QED BY <2>4, <2>5, <2>6
<1>14. StartedIsClaimed(rs)
  <2>1. ASSUME NEW x \in TaskIds
        PROVE  /\ rs[x].status \in {"in_progress", "blocked", "completed", "failed"} => rs[x].claimed
               /\ rs[x].claimed => rs[x].attempt_count > 0
               /\ rs[x].removed => rs[x].status \in Terminal
    <3>1. CASE x = t
      BY <1>21, <3>1
    <3>2. CASE x # t
      BY <1>20, <1>11, <3>2 DEF StartedIsClaimed
    <3>3. QED BY <3>1, <3>2
  <2>2. QED BY <2>1 DEF StartedIsClaimed
<1>15. Monotone(tasks, rs)
  <2> SUFFICES ASSUME NEW x \in TaskIds
               PROVE  /\ tasks[x].status \in Terminal => rs[x].status = tasks[x].status
                      /\ tasks[x].removed => rs[x] = tasks[x]
                      /\ Exists(tasks, x) /\ rs[x] # tasks[x] => rs[x].version > tasks[x].version
                      /\ ~Exists(rs, x) => rs[x] = tasks[x]
                      /\ ~Exists(tasks, x) /\ Exists(rs, x) => rs[x].version > 0
    BY DEF Monotone
  <2>1. CASE x = t
    <3>1. tasks[x].status \notin Terminal
      BY <1>1, <2>1 DEF Exists, Terminal
    <3>2. ~tasks[x].removed
      BY <3>1, <1>11 DEF StartedIsClaimed
    <3>3. Exists(rs, x)
      BY <1>21, <2>1 DEF Exists
    <3>4. rs[x] = new
      BY <1>5, <1>7, <1>8, <2>1
    <3>5. QED BY <3>1, <3>2, <3>3, <3>4, <2>1, <1>1, <1>10
  <2>2. CASE x = p
    <3>1. ~tasks[x].removed
      BY <1>1, <2>2, TaskStoreAssumption DEF Live
    <3>2. rs[x].status = tasks[x].status
      BY <1>5, <1>6, <1>8, <2>2
    <3>3. tasks[x].version \in Nat /\ rs[x].version \in Nat /\ ms[x].version \in Nat
      BY <1>1, <1>4, <1>9 DEF Stores, Task
    <3>4. ms[x].version = tasks[x].version + 1 /\ rs[x].version >= ms[x].version
      BY <1>5, <1>6, <1>8, <2>2
    <3>5. Exists(rs, x)
      BY <1>1, <2>2, <3>2, TaskStoreAssumption DEF Exists, Live
    <3>6. Exists(tasks, x)
      BY <3>2, <3>5 DEF Exists
    <3>7. QED BY <3>1, <3>2, <3>3, <3>4, <3>5, <3>6
  <2>3. CASE x # t /\ x # p
    <3>1. rs[x] = tasks[x]
      BY <1>6, <1>8, <2>3
    <3>2. QED BY <3>1 DEF Exists
  <2>4. QED BY <2>1, <2>2, <2>3
<1>16. tasks' = rs
  BY <1>1 DEF rs, P, stale
<1>17. NoneAside(tasks, rs)
  BY <1>20, <1>21 DEF NoneAside, Aside
<1>18. QED BY <1>9, <1>12, <1>13, <1>14, <1>15, <1>16, <1>17 DEF Good

-----------------------------------------------------------------------------
(* The operations that edit one task *)

\* The record `new' may replace the record `old' of an existing task.
EditedTask(old, new) ==
  /\ new \in Task
  /\ new.children = old.children /\ new.parent = old.parent /\ new.rollup = old.rollup
  /\ new.status # "absent"
  /\ old.status \in Terminal => new.status = old.status
  /\ new.version > old.version
  /\ new.status \in {"in_progress", "blocked", "completed", "failed"} => new.claimed
  /\ new.claimed => new.attempt_count > 0
  /\ new.removed => new.status \in Terminal

\* An edit of one live task, followed by the refresh of its parent.
LEMMA SingleEdit ==
  ASSUME Good(tasks), NEW t \in TaskIds, Live(tasks, t), NEW new, EditedTask(tasks[t], new),
         NEW P, new.status # tasks[t].status => tasks[t].parent \in P, NEW stale \in BOOLEAN,
         tasks' = RefreshAll([tasks EXCEPT ![t] = new], P, stale)
  PROVE  Good(tasks)' /\ Monotone(tasks, tasks')
<1> DEFINE ms == [tasks EXCEPT ![t] = new]
<1>1. tasks \in Stores /\ StartedIsClaimed(tasks)
  BY DEF Good
<1>2. ms \in Stores /\ ms[t] = new /\ \A x \in TaskIds : x # t => ms[x] = tasks[x]
  BY <1>1 DEF EditedTask, Stores
<1> HIDE DEF ms
<1>3. ASSUME NEW x \in TaskIds
      PROVE  /\ ms[x].children = tasks[x].children /\ ms[x].parent = tasks[x].parent
             /\ ms[x].rollup = tasks[x].rollup
             /\ Exists(ms, x) <=> Exists(tasks, x)
             /\ ~Exists(tasks, x) => ms[x] = tasks[x]
             /\ tasks[x].removed => ms[x] = tasks[x]
             /\ tasks[x].status \in Terminal => ms[x].status = tasks[x].status
             /\ ms[x].status # tasks[x].status => tasks[x].parent \in P
             /\ ms[x] # tasks[x] => ms[x].version > tasks[x].version
  <2>1. CASE x = t
    BY <1>2, <2>1 DEF EditedTask, Live, Exists
  <2>2. CASE x # t
    BY <1>2, <2>2 DEF Exists
  <2>3. QED BY <2>1, <2>2
<1>4. StartedIsClaimed(ms)
  <2>1. ASSUME NEW x \in TaskIds
        PROVE  /\ ms[x].status \in {"in_progress", "blocked", "completed", "failed"} => ms[x].claimed
               /\ ms[x].claimed => ms[x].attempt_count > 0
               /\ ms[x].removed => ms[x].status \in Terminal
    <3>1. CASE x = t
      BY <1>2, <3>1 DEF EditedTask
    <3>2. CASE x # t
      BY <1>1, <1>2, <3>2 DEF StartedIsClaimed
    <3>3. QED BY <3>1, <3>2
  <2>2. QED BY <2>1 DEF StartedIsClaimed
<1>5. EditOK(tasks, ms, P)
  BY <1>2, <1>3, <1>4 DEF EditOK
<1>6. tasks' = RefreshAll(ms, P, stale)
  BY DEF ms
<1>7. QED BY <1>5, <1>6, EditPreserves DEF Good

\* Which tasks such an edit leaves claimed and pending.
LEMMA EditFrame ==
  ASSUME tasks \in Stores, NEW t \in TaskIds, NEW new \in Task, NEW P, NEW stale \in BOOLEAN,
         tasks' = RefreshAll([tasks EXCEPT ![t] = new], P, stale)
  PROVE  \A x \in TaskIds :
           /\ tasks'[x].status = IF x = t THEN new.status ELSE tasks[x].status
           /\ tasks'[x].claimed = IF x = t THEN new.claimed ELSE tasks[x].claimed
<1> DEFINE ms == [tasks EXCEPT ![t] = new]
<1>1. ms \in Stores /\ \A x \in TaskIds : ms[x] = IF x = t THEN new ELSE tasks[x]
  BY DEF Stores
<1> HIDE DEF ms
<1>2. tasks' = RefreshAll(ms, P, stale)
  BY DEF ms
<1>3. ASSUME NEW x \in TaskIds
      PROVE  tasks'[x].status = ms[x].status /\ tasks'[x].claimed = ms[x].claimed
  BY <1>1, <1>2, RefreshFrame
<1>4. QED BY <1>1, <1>3

\* Claiming a task keeps everything but the claim and its attempt count.
LEMMA MarkClaimedFrame ==
  ASSUME NEW task \in Task
  PROVE  LET m == MarkClaimed(task) IN
         /\ m \in Task /\ m.claimed
         /\ (task.claimed => task.attempt_count > 0) => m.attempt_count > 0
         /\ m.children = task.children /\ m.parent = task.parent /\ m.rollup = task.rollup
         /\ m.status = task.status /\ m.version = task.version /\ m.removed = task.removed
<1>1. CASE task.claimed
  BY <1>1 DEF MarkClaimed, Task
<1>2. CASE ~task.claimed
  <2>1. task.attempt_count + 1 \in Nat /\ task.attempt_count + 1 > 0
    BY DEF Task
  <2>2. MarkClaimed(task) = [task EXCEPT !.claimed = TRUE, !.attempt_count = task.attempt_count + 1]
    BY <1>2 DEF MarkClaimed
  <2>3. [task EXCEPT !.claimed = TRUE, !.attempt_count = task.attempt_count + 1] \in Task
    BY <2>1 DEF Task
  <2>4. QED BY <2>1, <2>2, <2>3 DEF Task
<1>3. QED BY <1>1, <1>2

\* What a claim invariant of the store says about one task.
LEMMA TaskFacts ==
  ASSUME Good(tasks), NEW t \in TaskIds
  PROVE  /\ tasks \in Stores /\ tasks[t] \in Task
         /\ tasks[t].status \in {"in_progress", "blocked", "completed", "failed"} => tasks[t].claimed
         /\ tasks[t].claimed => tasks[t].attempt_count > 0
         /\ tasks[t].removed => tasks[t].status \in Terminal
  BY DEF Good, Stores, StartedIsClaimed

\* An accepted update (update_with_confirm) keeps the invariants: the status and result
\* change, the assignee's claim is recorded and the parent's rollup is refreshed.
LEMMA UpdatePreserves ==
  ASSUME Good(tasks), NEW t \in TaskIds, NEW w \in Callers, NEW u \in Updates,
         NEW d \in BOOLEAN, Update(t, w, u, d)
  PROVE  \/ UNCHANGED tasks
         \/ /\ Good(tasks)' /\ Monotone(tasks, tasks')
            /\ \A x \in TaskIds : Aside(tasks', x) /\ ~Aside(tasks, x)
                 => /\ x = t /\ w = tasks[t].assignee /\ u.status \in {"none", "pending"}
                    /\ u.status = "none" => tasks[t].status = "pending"
<1> DEFINE old == tasks[t]
           mid == IF w = old.assignee /\ (u.status # "none" \/ u.result # "none" \/ u.log # "none")
                  THEN MarkClaimed(old) ELSE old
           st  == IF u.status = "none" THEN mid.status ELSE u.status
           rt  == IF u.result = "none" THEN mid.result ELSE u.result
           upd == [mid EXCEPT !.status = st, !.result = rt]
           new == [upd EXCEPT !.version = @ + 1]
<1>1. /\ tasks \in Stores /\ old \in Task
      /\ old.status \in {"in_progress", "blocked", "completed", "failed"} => old.claimed
      /\ old.claimed => old.attempt_count > 0
      /\ old.removed => old.status \in Terminal
  BY TaskFacts
<1>2. Exists(tasks, t) /\ ValidateTaskUpdate(old, u, w)
  BY DEF Update
<1>4. Updated(old, u, w) = upd
  BY DEF Updated
<1>5. SUFFICES ASSUME UpdateChanges(old, u, w, d)
               PROVE  /\ Good(tasks)' /\ Monotone(tasks, tasks')
                      /\ \A x \in TaskIds : Aside(tasks', x) /\ ~Aside(tasks, x)
                           => /\ x = t /\ w = old.assignee /\ u.status \in {"none", "pending"}
                              /\ u.status = "none" => old.status = "pending"
  BY DEF Update
<1>6. tasks' = RefreshParent([tasks EXCEPT ![t] = new], t, TRUE)
  <2>1. tasks' = RefreshParent([tasks EXCEPT ![t] = [Updated(tasks[t], u, w) EXCEPT !.version = @ + 1]],
                               t, TRUE)
    BY <1>5 DEF Update
  <2>2. [Updated(tasks[t], u, w) EXCEPT !.version = @ + 1] = new
    BY <1>4
  <2>3. QED BY <2>1, <2>2, Zenon
<1>7. /\ mid \in Task
      /\ mid.claimed => mid.attempt_count > 0
      /\ mid.children = old.children /\ mid.parent = old.parent /\ mid.rollup = old.rollup
      /\ mid.status = old.status /\ mid.version = old.version /\ mid.removed = old.removed
      /\ old.claimed => mid.claimed
      /\ u.status # "none" /\ w = old.assignee => mid.claimed
      /\ w # old.assignee => mid.claimed = old.claimed
  <2>1. CASE mid = MarkClaimed(old) /\ w = old.assignee
    BY <1>1, <2>1, MarkClaimedFrame
  <2>2. CASE mid = old /\ ~(w = old.assignee /\ u.status # "none")
    BY <1>1, <2>2
  <2>3. QED BY <2>1, <2>2
<1> HIDE DEF mid, old
<1>8. /\ st \in Statuses \union {"absent"} /\ rt \in Results
      /\ st # "absent"
      /\ st # old.status => w = old.assignee /\ u.status = st /\ IsAllowedTransition(old.status, st)
      /\ st = IF u.status = "none" THEN old.status ELSE u.status
  <2>1. old.status # "absent"
    BY <1>2 DEF old, Exists
  <2>2. u.status \in Statuses \union {"none"} /\ u.result \in Results \union {"none"}
    BY DEF Updates
  <2>3. "absent" \notin Statuses
    BY DEF Statuses, Open, Terminal
  <2>4. mid.status \in Statuses \union {"absent"} /\ mid.result \in Results
    BY <1>7 DEF Task
  <2>5. QED BY <1>2, <1>7, <2>1, <2>2, <2>3, <2>4 DEF ValidateTaskUpdate
<1>9. st \in {"in_progress", "blocked", "completed", "failed"} => mid.claimed
  BY <1>1, <1>7, <1>8
<1>10. old.status \in Terminal => st = old.status
  <2>1. ASSUME old.status \in Terminal, st # old.status PROVE FALSE
    <3>1. IsAllowedTransition(old.status, st)
      BY <1>8, <2>1
    <3>2. QED BY <3>1, <2>1 DEF IsAllowedTransition, Terminal
  <2>2. QED BY <2>1
<1> HIDE DEF st, rt
<1>11. /\ upd \in Task /\ upd.status = st /\ upd.children = mid.children /\ upd.parent = mid.parent
       /\ upd.rollup = mid.rollup /\ upd.claimed = mid.claimed /\ upd.removed = mid.removed
       /\ upd.attempt_count = mid.attempt_count /\ upd.version = mid.version
  BY <1>7, <1>8 DEF Task
<1> HIDE DEF upd
<1>12. upd.version + 1 \in Nat /\ upd.version + 1 > upd.version
  BY <1>11 DEF Task
<1>13. /\ new \in Task /\ new.status = st /\ new.children = old.children /\ new.parent = old.parent
       /\ new.rollup = old.rollup /\ new.claimed = mid.claimed /\ new.removed = old.removed
       /\ new.attempt_count = mid.attempt_count /\ new.version > old.version
  BY <1>7, <1>11, <1>12 DEF Task
<1> HIDE DEF new
<1>14. ~old.removed
  BY <1>2 DEF ValidateTaskUpdate
<1>15. EditedTask(old, new)
  BY <1>7, <1>8, <1>9, <1>10, <1>13, <1>14 DEF EditedTask
<1>16. tasks' = RefreshAll([tasks EXCEPT ![t] = new], {old.parent}, TRUE)
  <2>1. [tasks EXCEPT ![t] = new][t] = new
    BY <1>1 DEF Stores
  <2>2. QED BY <1>6, <1>13, <2>1 DEF RefreshParent
<1>17. Live(tasks, t)
  BY <1>2, <1>14 DEF Live, old
<1>18. Good(tasks)' /\ Monotone(tasks, tasks')
  BY <1>15, <1>16, <1>17, SingleEdit DEF old
<1>19. ASSUME NEW x \in TaskIds, Aside(tasks', x), ~Aside(tasks, x)
       PROVE  /\ x = t /\ w = old.assignee /\ u.status \in {"none", "pending"}
              /\ u.status = "none" => old.status = "pending"
  <2>1. /\ tasks'[x].status = IF x = t THEN st ELSE tasks[x].status
        /\ tasks'[x].claimed = IF x = t THEN mid.claimed ELSE tasks[x].claimed
    <3>1. /\ tasks'[x].status = IF x = t THEN new.status ELSE tasks[x].status
          /\ tasks'[x].claimed = IF x = t THEN new.claimed ELSE tasks[x].claimed
      <4> DEFINE P == {old.parent}
                 stale == TRUE
      <4>1. stale \in BOOLEAN /\ new \in Task /\ tasks \in Stores
        BY <1>1, <1>13
      <4>2. tasks' = RefreshAll([tasks EXCEPT ![t] = new], P, stale)
        BY <1>16
      <4> HIDE DEF P, stale
      <4>3. QED BY <4>1, <4>2, EditFrame
    <3>2. QED BY <1>13, <3>1
  <2>2. x = t /\ st = "pending" /\ mid.claimed
    BY <1>19, <2>1 DEF Aside
  <2>3. ~(old.status = "pending" /\ old.claimed)
    BY <1>19, <2>2 DEF Aside, old
  <2>4. QED BY <1>7, <1>8, <2>2, <2>3
<1>20. QED BY <1>18, <1>19

\* cancel closes an open task and refreshes its parent, keeping the invariants.
LEMMA CancelPreserves ==
  ASSUME Good(tasks), NEW t \in TaskIds, NEW w \in Callers, NEW v, Cancel(t, w, v)
  PROVE  Good(tasks)' /\ Monotone(tasks, tasks') /\ NoneAside(tasks, tasks')
<1> DEFINE old == tasks[t]
           mid == IF w = old.assignee THEN MarkClaimed(old) ELSE old
           new == [mid EXCEPT !.status = "cancelled", !.result = "bare", !.version = @ + 1]
<1>1. /\ tasks \in Stores /\ old \in Task
      /\ old.claimed => old.attempt_count > 0
  BY TaskFacts
<1>2. /\ Exists(tasks, t) /\ ~old.removed /\ old.status \notin Terminal
      /\ tasks' = RefreshParent([tasks EXCEPT ![t] = new], t, TRUE)
  BY DEF Cancel, ValidateTaskControl
<1>3. /\ mid \in Task
      /\ mid.claimed => mid.attempt_count > 0
      /\ mid.children = old.children /\ mid.parent = old.parent /\ mid.rollup = old.rollup
      /\ mid.version = old.version /\ mid.removed = old.removed
  BY <1>1, MarkClaimedFrame
<1> HIDE DEF old, mid
<1>4. mid.version + 1 \in Nat /\ mid.version + 1 > mid.version
  BY <1>3 DEF Task
<1>5. "cancelled" \in Statuses \union {"absent"} /\ "bare" \in Results
  BY DEF Statuses, Terminal, Results
<1>6. /\ new \in Task /\ new.status = "cancelled" /\ new.children = old.children
      /\ new.parent = old.parent /\ new.rollup = old.rollup /\ new.claimed = mid.claimed
      /\ new.attempt_count = mid.attempt_count /\ new.removed = old.removed
      /\ new.version > old.version
  BY <1>3, <1>4, <1>5 DEF Task
<1> HIDE DEF new
<1>7. EditedTask(old, new)
  BY <1>2, <1>3, <1>6 DEF EditedTask
<1>8. tasks' = RefreshAll([tasks EXCEPT ![t] = new], {old.parent}, TRUE)
  <2>1. [tasks EXCEPT ![t] = new][t] = new
    BY <1>1 DEF Stores
  <2>2. QED BY <1>2, <1>6, <2>1 DEF RefreshParent
<1>9. Live(tasks, t)
  BY <1>2 DEF Live, old
<1>10. Good(tasks)' /\ Monotone(tasks, tasks')
  BY <1>7, <1>8, <1>9, SingleEdit DEF old
<1>11. \A x \in TaskIds :
         /\ tasks'[x].status = IF x = t THEN "cancelled" ELSE tasks[x].status
         /\ x # t => tasks'[x].claimed = tasks[x].claimed
  BY <1>1, <1>6, <1>8, EditFrame
<1>12. QED BY <1>10, <1>11 DEF NoneAside, Aside

\* remove tombstones a finished task; its parent keeps counting it as a child.
LEMMA RemovePreserves ==
  ASSUME Good(tasks), NEW t \in TaskIds, NEW w \in Callers, NEW v, NEW stale \in BOOLEAN,
         Remove(t, w, v, stale)
  PROVE  Good(tasks)' /\ Monotone(tasks, tasks') /\ NoneAside(tasks, tasks')
<1> DEFINE old == tasks[t]
           new == [old EXCEPT !.removed = TRUE, !.version = @ + 1]
<1>1. /\ tasks \in Stores /\ old \in Task
      /\ old.status \in {"in_progress", "blocked", "completed", "failed"} => old.claimed
      /\ old.claimed => old.attempt_count > 0
  BY TaskFacts
<1>2. /\ Exists(tasks, t) /\ ~old.removed /\ old.status \in Terminal
      /\ tasks' = RefreshParent([tasks EXCEPT ![t] = new], t, stale)
  BY DEF Remove, ValidateTaskControl
<1> HIDE DEF old
<1>3. old.version + 1 \in Nat /\ old.version + 1 > old.version
  BY <1>1 DEF Task
<1>4. /\ new \in Task /\ new.status = old.status /\ new.children = old.children
      /\ new.parent = old.parent /\ new.rollup = old.rollup /\ new.claimed = old.claimed
      /\ new.attempt_count = old.attempt_count /\ new.version > old.version
  BY <1>1, <1>3 DEF Task
<1> HIDE DEF new
<1>5. EditedTask(old, new)
  <2>1. old.status # "absent"
    BY <1>2 DEF Terminal
  <2>2. QED BY <1>1, <1>2, <1>4, <2>1 DEF EditedTask
<1>6. tasks' = RefreshAll([tasks EXCEPT ![t] = new], {old.parent}, stale)
  <2>1. [tasks EXCEPT ![t] = new][t] = new
    BY <1>1 DEF Stores
  <2>2. QED BY <1>2, <1>4, <2>1 DEF RefreshParent
<1>7. Live(tasks, t)
  BY <1>2 DEF Live, old
<1>8. Good(tasks)' /\ Monotone(tasks, tasks')
  BY <1>4, <1>5, <1>6, <1>7, SingleEdit DEF old
<1>9. \A x \in TaskIds :
        /\ tasks'[x].status = IF x = t THEN old.status ELSE tasks[x].status
        /\ tasks'[x].claimed = IF x = t THEN old.claimed ELSE tasks[x].claimed
  <2> DEFINE P == {old.parent}
  <2>1. new \in Task /\ tasks \in Stores /\ new.status = old.status /\ new.claimed = old.claimed
    BY <1>1, <1>4
  <2>2. tasks' = RefreshAll([tasks EXCEPT ![t] = new], P, stale)
    BY <1>6
  <2> HIDE DEF P
  <2>3. \A x \in TaskIds :
          /\ tasks'[x].status = IF x = t THEN new.status ELSE tasks[x].status
          /\ tasks'[x].claimed = IF x = t THEN new.claimed ELSE tasks[x].claimed
    BY <2>1, <2>2, EditFrame
  <2>4. QED BY <2>1, <2>3
<1>10. QED BY <1>8, <1>9 DEF NoneAside, Aside, old

\* retry puts an open task back to pending without a claim and refreshes its parent.
LEMMA RetryPreserves ==
  ASSUME Good(tasks), NEW t \in TaskIds, NEW w \in Callers, NEW v, Retry(t, w, v)
  PROVE  Good(tasks)' /\ Monotone(tasks, tasks') /\ NoneAside(tasks, tasks')
<1> DEFINE old == tasks[t]
           new == [old EXCEPT !.status = "pending", !.result = "empty", !.claimed = FALSE,
                              !.version = @ + 1]
<1>1. tasks \in Stores /\ old \in Task
  BY TaskFacts
<1>2. /\ Exists(tasks, t) /\ ~old.removed /\ old.status \in Open
      /\ tasks' = RefreshParent([tasks EXCEPT ![t] = new], t, TRUE)
  BY DEF Retry, ValidateTaskControl
<1> HIDE DEF old
<1>3. old.version + 1 \in Nat /\ old.version + 1 > old.version
  BY <1>1 DEF Task
<1>4. "pending" \in Statuses \union {"absent"} /\ "empty" \in Results
  BY DEF Statuses, Open, Results
<1>5. /\ new \in Task /\ new.status = "pending" /\ new.children = old.children
      /\ new.parent = old.parent /\ new.rollup = old.rollup /\ new.claimed = FALSE
      /\ new.removed = old.removed /\ new.version > old.version
  BY <1>1, <1>3, <1>4 DEF Task
<1> HIDE DEF new
<1>6. EditedTask(old, new)
  <2>1. old.status \notin Terminal
    BY <1>2 DEF Open, Terminal
  <2>2. QED BY <1>2, <1>5, <2>1 DEF EditedTask
<1>7. tasks' = RefreshAll([tasks EXCEPT ![t] = new], {old.parent}, TRUE)
  <2>1. [tasks EXCEPT ![t] = new][t] = new
    BY <1>1 DEF Stores
  <2>2. QED BY <1>2, <1>5, <2>1 DEF RefreshParent
<1>8. Live(tasks, t)
  BY <1>2 DEF Live, old
<1>9. Good(tasks)' /\ Monotone(tasks, tasks')
  BY <1>6, <1>7, <1>8, SingleEdit DEF old
<1>10. \A x \in TaskIds :
         /\ x # t => tasks'[x].status = tasks[x].status
         /\ tasks'[x].claimed = IF x = t THEN FALSE ELSE tasks[x].claimed
  BY <1>1, <1>5, <1>7, EditFrame
<1>11. QED BY <1>9, <1>10 DEF NoneAside, Aside

\* The two operations that touch no rollup are edits that refresh nobody.
LEMMA SilentEdit ==
  ASSUME Good(tasks), NEW t \in TaskIds, Live(tasks, t), NEW new, EditedTask(tasks[t], new),
         new.status = tasks[t].status, new.claimed = tasks[t].claimed,
         tasks' = [tasks EXCEPT ![t] = new]
  PROVE  Good(tasks)' /\ Monotone(tasks, tasks') /\ NoneAside(tasks, tasks')
<1> DEFINE ms == [tasks EXCEPT ![t] = new]
           stale == FALSE
<1>1. ms \in Stores
  BY DEF Good, Stores, EditedTask
<1>2. RefreshAll(ms, {}, stale) = ms
  BY <1>1 DEF RefreshAll, Stores
<1>3. stale \in BOOLEAN
  OBVIOUS
<1> HIDE DEF stale
<1>4. Good(tasks)' /\ Monotone(tasks, tasks')
  BY <1>2, <1>3, SingleEdit
<1>5. \A x \in TaskIds : tasks'[x] = IF x = t THEN new ELSE tasks[x]
  BY DEF Good, Stores
<1>6. QED BY <1>4, <1>5 DEF NoneAside, Aside

\* mark_tool_activity and record_dispatch change no status, link or claim.
LEMMA ActivityPreserves ==
  ASSUME Good(tasks), NEW t \in TaskIds, NEW w, MarkToolActivity(t, w) \/ RecordDispatch(t, w)
  PROVE  Good(tasks)' /\ Monotone(tasks, tasks') /\ NoneAside(tasks, tasks')
<1> DEFINE old == tasks[t]
<1>1. /\ tasks \in Stores /\ old \in Task /\ Live(tasks, t)
      /\ old.status \in {"in_progress", "blocked", "completed", "failed"} => old.claimed
      /\ old.claimed => old.attempt_count > 0
      /\ old.removed => old.status \in Terminal
  BY TaskFacts DEF MarkToolActivity, RecordDispatch
<1>2. old.status # "absent"
  BY <1>1 DEF Live, Exists
<1>3. CASE MarkToolActivity(t, w)
  <2> DEFINE new == [old EXCEPT !.version = @ + 1]
  <2>1. tasks' = [tasks EXCEPT ![t] = new]
    BY <1>1, <1>3 DEF MarkToolActivity, Stores
  <2> HIDE DEF old
  <2>2. old.version + 1 \in Nat /\ old.version + 1 > old.version
    BY <1>1 DEF Task
  <2>3. /\ new \in Task /\ new.version > old.version /\ new.status = old.status
        /\ new.children = old.children /\ new.parent = old.parent /\ new.rollup = old.rollup
        /\ new.claimed = old.claimed /\ new.attempt_count = old.attempt_count
        /\ new.removed = old.removed
    BY <1>1, <2>2 DEF Task
  <2> HIDE DEF new
  <2>4. EditedTask(old, new)
    BY <1>1, <1>2, <2>3 DEF EditedTask
  <2>5. QED BY <1>1, <2>1, <2>3, <2>4, SilentEdit DEF old
<1>4. CASE RecordDispatch(t, w)
  <2> DEFINE new == [old EXCEPT !.dispatch_count = @ + 1, !.version = @ + 1]
  <2>1. tasks' = [tasks EXCEPT ![t] = new]
    BY <1>1, <1>4 DEF RecordDispatch, Stores
  <2> HIDE DEF old
  <2>2. /\ old.version + 1 \in Nat /\ old.version + 1 > old.version
        /\ old.dispatch_count + 1 \in Nat
    BY <1>1 DEF Task
  <2>3. /\ new \in Task /\ new.version > old.version /\ new.status = old.status
        /\ new.children = old.children /\ new.parent = old.parent /\ new.rollup = old.rollup
        /\ new.claimed = old.claimed /\ new.attempt_count = old.attempt_count
        /\ new.removed = old.removed
    BY <1>1, <2>2 DEF Task
  <2> HIDE DEF new
  <2>4. EditedTask(old, new)
    BY <1>1, <1>2, <2>3 DEF EditedTask
  <2>5. QED BY <1>1, <2>1, <2>3, <2>4, SilentEdit DEF old
<1>5. QED BY <1>3, <1>4

-----------------------------------------------------------------------------
(* Recovery edits many tasks at once and refreshes each of their parents.  *)

\* recover_stale_in_progress resets several tasks at once and refreshes all parents.
LEMMA RecoverPreserves ==
  ASSUME Good(tasks), NEW live, RecoverStale(live)
  PROVE  Good(tasks)' /\ Monotone(tasks, tasks') /\ NoneAside(tasks, tasks')
<1> DEFINE ids == StaleInProgress(live)
           P   == {tasks[t].parent : t \in ids}
           ms  == [t \in TaskIds |->
                     IF t \in ids
                     THEN [tasks[t] EXCEPT !.status = "pending", !.claimed = FALSE, !.version = @ + 1]
                     ELSE tasks[t]]
           stale == TRUE
<1>1. tasks \in Stores /\ StartedIsClaimed(tasks)
  BY DEF Good
<1>2. tasks' = RefreshAll(ms, P, stale)
  BY DEF RecoverStale
<1>3. \A x \in ids : /\ x \in TaskIds /\ Live(tasks, x)
                      /\ tasks[x].status = "in_progress" /\ tasks[x].parent \in P
  BY DEF StaleInProgress
<1>4. ASSUME NEW x \in TaskIds
      PROVE  /\ ms[x] \in Task
             /\ ms[x].children = tasks[x].children /\ ms[x].parent = tasks[x].parent
             /\ ms[x].rollup = tasks[x].rollup /\ ms[x].removed = tasks[x].removed
             /\ x \in ids => /\ ms[x].status = "pending" /\ ~ms[x].claimed
                             /\ ms[x].version > tasks[x].version
             /\ x \notin ids => ms[x] = tasks[x]
  <2> DEFINE old == tasks[x]
             new == [old EXCEPT !.status = "pending", !.claimed = FALSE, !.version = @ + 1]
  <2>1. old \in Task
    BY <1>1 DEF Stores
  <2>2. ms[x] = IF x \in ids THEN new ELSE old
    OBVIOUS
  <2> HIDE DEF old, ids, ms
  <2>3. old.version + 1 \in Nat /\ old.version + 1 > old.version
    BY <2>1 DEF Task
  <2>4. "pending" \in Statuses \union {"absent"}
    BY DEF Statuses, Open
  <2>5. /\ new \in Task /\ new.status = "pending" /\ ~new.claimed /\ new.version > old.version
        /\ new.children = old.children /\ new.parent = old.parent /\ new.rollup = old.rollup
        /\ new.removed = old.removed
    BY <2>1, <2>3, <2>4 DEF Task
  <2>6. QED BY <2>1, <2>2, <2>5 DEF old
<1>5. ms \in Stores
  BY <1>4 DEF Stores
<1> HIDE DEF ids, ms, P, stale
<1>6. ASSUME NEW x \in TaskIds
      PROVE  /\ ms[x].children = tasks[x].children /\ ms[x].parent = tasks[x].parent
             /\ ms[x].rollup = tasks[x].rollup
             /\ Exists(ms, x) <=> Exists(tasks, x)
             /\ ~Exists(tasks, x) => ms[x] = tasks[x]
             /\ tasks[x].removed => ms[x] = tasks[x]
             /\ tasks[x].status \in Terminal => ms[x].status = tasks[x].status
             /\ ms[x].status # tasks[x].status => tasks[x].parent \in P
             /\ ms[x] # tasks[x] => ms[x].version > tasks[x].version
  <2>1. CASE x \in ids
    BY <1>3, <1>4, <2>1 DEF Exists, Live, Terminal
  <2>2. CASE x \notin ids
    BY <1>4, <2>2 DEF Exists
  <2>3. QED BY <2>1, <2>2
<1>7. StartedIsClaimed(ms)
  <2>1. ASSUME NEW x \in TaskIds
        PROVE  /\ ms[x].status \in {"in_progress", "blocked", "completed", "failed"} => ms[x].claimed
               /\ ms[x].claimed => ms[x].attempt_count > 0
               /\ ms[x].removed => ms[x].status \in Terminal
    <3>1. CASE x \in ids
      BY <1>3, <1>4, <3>1 DEF Live
    <3>2. CASE x \notin ids
      BY <1>1, <1>4, <3>2 DEF StartedIsClaimed
    <3>3. QED BY <3>1, <3>2
  <2>2. QED BY <2>1 DEF StartedIsClaimed
<1>8. EditOK(tasks, ms, P)
  BY <1>5, <1>6, <1>7 DEF EditOK
<1>9. stale \in BOOLEAN
  BY DEF stale
<1>10. Good(tasks)' /\ Monotone(tasks, tasks')
  BY <1>2, <1>8, <1>9, EditPreserves DEF Good
<1>11. ASSUME NEW x \in TaskIds, Aside(tasks', x) PROVE Aside(tasks, x)
  <2>1. tasks'[x].status = ms[x].status /\ tasks'[x].claimed = ms[x].claimed
    BY <1>2, <1>5, <1>9, RefreshFrame
  <2>2. QED BY <1>4, <1>11, <2>1 DEF Aside
<1>12. QED BY <1>10, <1>11 DEF NoneAside

-----------------------------------------------------------------------------
(* The theorems *)

\* The empty map satisfies every invariant.
LEMMA InitGood == Init => Good(tasks)
<1> SUFFICES ASSUME Init PROVE Good(tasks)
  OBVIOUS
<1>1. AbsentTask \in Task
  <2>1. (CHOOSE w \in Workspaces : TRUE) \in Workspaces
    BY TaskStoreAssumption
  <2>2. QED BY <2>1 DEF AbsentTask, Absent, Task, Rollups, NoRollup, Callers, Results
<1>2. /\ AbsentTask.status = "absent" /\ AbsentTask.children = {}
      /\ ~AbsentTask.claimed /\ ~AbsentTask.removed
  BY DEF AbsentTask, Absent
<1>3. \A t \in TaskIds : tasks[t] = AbsentTask
  BY DEF Init
<1>4. tasks \in Stores
  BY <1>1 DEF Init, Stores
<1> HIDE DEF AbsentTask
<1>5. \A t \in TaskIds : ~Exists(tasks, t)
  BY <1>2, <1>3 DEF Exists
<1>6. LinksAgree(tasks)
  BY <1>2, <1>3, <1>5 DEF LinksAgree
<1>7. RollupIsCurrent(tasks)
  BY <1>5 DEF RollupIsCurrent, Live
<1>8. StartedIsClaimed(tasks)
  BY <1>2, <1>3 DEF StartedIsClaimed
<1>9. QED BY <1>4, <1>6, <1>7, <1>8 DEF Good

\* Every step keeps the invariants and respects Monotone.
LEMMA NextGood ==
  ASSUME Good(tasks), [Next]_tasks
  PROVE  Good(tasks)' /\ (UNCHANGED tasks \/ Monotone(tasks, tasks'))
<1>1. CASE UNCHANGED tasks
  BY <1>1 DEF Good
<1>2. ASSUME NEW t \in TaskIds, NEW w \in Callers, NEW a \in Workspaces,
             NEW p \in TaskIds \union {NoTask}, Create(t, w, a, p)
      PROVE  Good(tasks)' /\ Monotone(tasks, tasks')
  BY <1>2, CreatePreserves
<1>3. ASSUME NEW t \in TaskIds, NEW w \in Callers, NEW u \in Requests, NEW d \in BOOLEAN,
             Update(t, w, u, d)
      PROVE  Good(tasks)' /\ (UNCHANGED tasks \/ Monotone(tasks, tasks'))
  BY <1>1, <1>3, UpdatePreserves, RequestsAssumption
<1>4. ASSUME NEW t \in TaskIds, NEW w \in Callers, Cancel(t, w, tasks[t].version)
      PROVE  Good(tasks)' /\ Monotone(tasks, tasks')
  BY <1>4, CancelPreserves
<1>5. ASSUME NEW t \in TaskIds, NEW w \in Callers, NEW stale \in BOOLEAN,
             Remove(t, w, tasks[t].version, stale)
      PROVE  Good(tasks)' /\ Monotone(tasks, tasks')
  BY <1>5, RemovePreserves
<1>6. ASSUME NEW t \in TaskIds, NEW w \in Callers, Retry(t, w, tasks[t].version)
      PROVE  Good(tasks)' /\ Monotone(tasks, tasks')
  BY <1>6, RetryPreserves
<1>7. ASSUME NEW live \in SUBSET Workspaces, RecoverStale(live)
      PROVE  Good(tasks)' /\ Monotone(tasks, tasks')
  BY <1>7, RecoverPreserves
<1>8. ASSUME NEW t \in TaskIds, NEW w \in Workspaces,
             MarkToolActivity(t, w) \/ RecordDispatch(t, w)
      PROVE  Good(tasks)' /\ Monotone(tasks, tasks')
  BY <1>8, ActivityPreserves
<1>9. QED
  BY <1>1, <1>2, <1>3, <1>4, <1>5, <1>6, <1>7, <1>8 DEF Next

\* Every reachable map is well formed, its links agree, every stored rollup of a
\* live task is current and only tasks nobody started are unclaimed.
THEOREM StoreInvariant == Spec => [](TypeOK /\ LinksInv /\ RollupInv /\ ClaimInv)
<1>1. Init => Good(tasks)
  BY InitGood
<1>2. Good(tasks) /\ [Next]_tasks => Good(tasks)'
  BY NextGood
<1>3. Good(tasks) => TypeOK /\ LinksInv /\ RollupInv /\ ClaimInv
  BY DEF Good, Stores, TypeOK, LinksInv, RollupInv, ClaimInv
<1>4. QED BY <1>1, <1>2, <1>3, PTL DEF Spec

\* The children of a task are exactly the tasks that name it as their parent.
THEOREM LinksHold == Spec => []LinksInv
  BY StoreInvariant, PTL

\* Only a task nobody started is unclaimed, and every claim was counted.
THEOREM ClaimsHold == Spec => []ClaimInv
  BY StoreInvariant, PTL

\* No operation reopens a finished task or changes a removed one.
THEOREM FinishedStaysFinished == Spec => TerminalIsFinal
<1>1. Init => Good(tasks)
  BY InitGood
<1>2. Good(tasks) /\ [Next]_tasks => Good(tasks)'
  BY NextGood
<1>3. Good(tasks) /\ [Next]_tasks =>
        [\A t \in TaskIds :
           /\ tasks[t].status \in Terminal => tasks'[t].status = tasks[t].status
           /\ tasks[t].removed => tasks'[t] = tasks[t]]_tasks
  BY NextGood DEF Monotone
<1>4. QED BY <1>1, <1>2, <1>3, PTL DEF Spec, TerminalIsFinal

\* Every change of a task raises its version, so a caller whose expected_version
\* still matches has seen the task's current contents.
THEOREM VersionIsSound == Spec => VersionTellsChange
<1>1. Init => Good(tasks)
  BY InitGood
<1>2. Good(tasks) /\ [Next]_tasks => Good(tasks)'
  BY NextGood
<1>3. Good(tasks) /\ [Next]_tasks =>
        [\A t \in TaskIds : Exists(tasks, t) /\ tasks'[t] # tasks[t]
                               => tasks'[t].version > tasks[t].version]_tasks
  BY NextGood DEF Monotone
<1>4. QED BY <1>1, <1>2, <1>3, PTL DEF Spec, VersionTellsChange

-----------------------------------------------------------------------------
(* The store and its file *)

\* Versions start with the task: an id that is not in the map has none.
ExistsIsVersioned(ts) == \A t \in TaskIds : Exists(ts, t) <=> ts[t].version > 0

Sound(ts) == Good(ts) /\ ExistsIsVersioned(ts)

\* Memory and file may differ, but never under one version.
VersionNamesTask ==
  \A t \in TaskIds : disk[t].version = tasks[t].version => disk[t] = tasks[t]

\* The inductive invariant.
DurableInv == /\ Sound(tasks)
              /\ Sound(disk)
              /\ acked \in [TaskIds -> Nat]
              /\ AckedIsDurable
              /\ MemoryLeadsDisk
              /\ VersionNamesTask

\* What every method of the store does to its map.
Steady == Good(tasks)' /\ (UNCHANGED tasks \/ Monotone(tasks, tasks'))

\* A step of the store keeps its map sound, lowers no version, and leaves alone what
\* keeps its version.
LEMMA VersionsGrow ==
  ASSUME Sound(tasks), Steady
  PROVE  /\ Sound(tasks)'
         /\ \A t \in TaskIds : /\ tasks'[t].version >= tasks[t].version
                               /\ tasks'[t].version = tasks[t].version => tasks'[t] = tasks[t]
<1>1. /\ Good(tasks)'
      /\ UNCHANGED tasks \/ Monotone(tasks, tasks')
  BY DEF Steady
<1>2. ASSUME NEW t \in TaskIds
      PROVE  tasks[t].version \in Nat /\ tasks'[t].version \in Nat
  BY <1>1 DEF Sound, Good, Stores, Task
<1>3. CASE UNCHANGED tasks
  <2>1. Sound(tasks)'
    BY <1>1, <1>3 DEF Sound, ExistsIsVersioned, Exists
  <2>2. QED BY <1>2, <1>3, <2>1
<1>4. CASE Monotone(tasks, tasks')
  <2>1. ASSUME NEW t \in TaskIds
        PROVE  /\ tasks'[t].version >= tasks[t].version
               /\ tasks'[t].version = tasks[t].version => tasks'[t] = tasks[t]
               /\ Exists(tasks', t) <=> tasks'[t].version > 0
    <3>1. Exists(tasks, t) <=> tasks[t].version > 0
      BY DEF Sound, ExistsIsVersioned
    <3>2. /\ Exists(tasks, t) /\ tasks'[t] # tasks[t] => tasks'[t].version > tasks[t].version
          /\ ~Exists(tasks', t) => tasks'[t] = tasks[t]
          /\ ~Exists(tasks, t) /\ Exists(tasks', t) => tasks'[t].version > 0
      BY <1>4 DEF Monotone
    <3>3. CASE tasks'[t] = tasks[t]
      BY <1>2, <3>1, <3>3 DEF Exists
    <3>4. CASE tasks'[t] # tasks[t]
      BY <1>2, <3>1, <3>2, <3>4
    <3>5. QED BY <3>3, <3>4
  <2>2. QED BY <1>1, <2>1 DEF Sound, ExistsIsVersioned
<1>5. QED BY <1>1, <1>3, <1>4

\* A write reached the file, and the caller that waited for it learns a version.
Written == /\ disk' = tasks'
           /\ \/ UNCHANGED acked
              \/ \E t \in TaskIds : acked' = [acked EXCEPT ![t] = tasks'[t].version]

\* Every operation is a step of the store whose write succeeds whole, or changes
\* neither the file nor what a caller was told.
LEMMA OperationCases ==
  ASSUME PNext
  PROVE  Restart \/ ([Next]_tasks /\ (Written \/ UNCHANGED <<disk, acked>>))
<1>1. ASSUME NEW t \in TaskIds, PersistAndReply(t)
      PROVE  Written \/ UNCHANGED <<disk, acked>>
  BY <1>1 DEF PersistAndReply, Written
<1>2. CASE PCreate
  BY <1>1, <1>2 DEF PCreate, Next
<1>3. CASE PUpdate
  <2>1. PICK t \in TaskIds, w \in Callers, u \in Requests :
          Bounded(t) /\ Update(t, w, u, FALSE) /\ (PersistAndReply(t) \/ ReplyUnchanged)
    BY <1>3 DEF PUpdate
  <2>2. \E d \in BOOLEAN : Update(t, w, u, d)
    BY <2>1
  <2>3. Next
    BY <2>1, <2>2 DEF Next
  <2>4. Written \/ UNCHANGED <<disk, acked>>
    BY <1>1, <2>1 DEF ReplyUnchanged
  <2>5. QED BY <2>3, <2>4
<1>4. CASE PControl
  <2>1. PICK t \in TaskIds, w \in Callers :
          /\ Bounded(t)
          /\ \/ Cancel(t, w, tasks[t].version)
             \/ \E stale \in BOOLEAN : Remove(t, w, tasks[t].version, stale)
             \/ Retry(t, w, tasks[t].version)
          /\ PersistAndReply(t)
    BY <1>4 DEF PControl
  <2>2. Next
    BY <2>1 DEF Next
  <2>3. QED BY <1>1, <2>1, <2>2
<1>5. CASE PBackground
  <2>1. Next
    BY <1>5 DEF PBackground, Next
  <2>2. Written \/ UNCHANGED <<disk, acked>>
    BY <1>5 DEF PBackground, PersistBestEffort, Written
  <2>3. QED BY <2>1, <2>2
<1>6. QED BY <1>2, <1>3, <1>4, <1>5 DEF PNext

\* The daemon starts with an empty map and an empty file.
LEMMA DurableInit == PInit => DurableInv
<1> SUFFICES ASSUME PInit PROVE DurableInv
  OBVIOUS
<1>1. Good(tasks)
  BY InitGood DEF PInit
<1>2. \A t \in TaskIds : tasks[t].version = 0 /\ tasks[t].status = "absent"
  BY DEF PInit, Init, AbsentTask, Absent
<1>3. Sound(tasks) /\ disk = tasks
  BY <1>1, <1>2 DEF Sound, ExistsIsVersioned, Exists, PInit
<1>4. acked \in [TaskIds -> Nat] /\ \A t \in TaskIds : acked[t] = 0
  BY DEF PInit
<1>5. AckedIsDurable /\ MemoryLeadsDisk /\ VersionNamesTask
  BY <1>2, <1>3, <1>4 DEF AckedIsDurable, MemoryLeadsDisk, VersionNamesTask
<1>6. QED BY <1>3, <1>4, <1>5 DEF DurableInv

\* What the invariant says task by task.
LEMMA DurableFacts ==
  ASSUME DurableInv
  PROVE  /\ Sound(tasks) /\ Sound(disk) /\ acked \in [TaskIds -> Nat]
         /\ \A t \in TaskIds :
              /\ tasks[t].version \in Nat /\ disk[t].version \in Nat /\ acked[t] \in Nat
              /\ disk[t].version >= acked[t] /\ tasks[t].version >= disk[t].version
              /\ disk[t].version = tasks[t].version => disk[t] = tasks[t]
<1>1. /\ Sound(tasks) /\ Sound(disk) /\ acked \in [TaskIds -> Nat]
      /\ \A t \in TaskIds : /\ disk[t].version >= acked[t] /\ tasks[t].version >= disk[t].version
                            /\ disk[t].version = tasks[t].version => disk[t] = tasks[t]
  BY DEF DurableInv, AckedIsDurable, MemoryLeadsDisk, VersionNamesTask
<1>2. ASSUME NEW t \in TaskIds
      PROVE  tasks[t].version \in Nat /\ disk[t].version \in Nat /\ acked[t] \in Nat
  BY <1>1 DEF Sound, Good, Stores, Task
<1>3. QED BY <1>1, <1>2

\* A restart finds in the file a map that memory had.
LEMMA RestartIsDurable ==
  ASSUME DurableInv, Restart
  PROVE  DurableInv'
<1>1. tasks' = disk /\ disk' = disk /\ acked' = acked
  BY DEF Restart
<1>2. /\ Sound(disk) /\ acked \in [TaskIds -> Nat]
      /\ \A t \in TaskIds : disk[t].version \in Nat /\ disk[t].version >= acked[t]
  BY DurableFacts
<1>3. \A t \in TaskIds : disk[t].version >= disk[t].version
  BY <1>2
<1> DEFINE d == disk
<1>4. Sound(d) /\ d = tasks' /\ d = disk'
  BY <1>1, <1>2
<1> HIDE DEF d
<1>5. Sound(tasks') /\ Sound(disk')
  BY <1>4
<1>6. QED
  BY <1>1, <1>2, <1>3, <1>5 DEF DurableInv, AckedIsDurable, MemoryLeadsDisk, VersionNamesTask

\* A method of the store whose write succeeds whole or fails.
LEMMA MoveIsDurable ==
  ASSUME DurableInv, Steady, Written \/ UNCHANGED <<disk, acked>>
  PROVE  DurableInv'
<1>1. /\ Sound(tasks) /\ Sound(disk) /\ acked \in [TaskIds -> Nat]
      /\ \A t \in TaskIds :
           /\ tasks[t].version \in Nat /\ disk[t].version \in Nat /\ acked[t] \in Nat
           /\ disk[t].version >= acked[t] /\ tasks[t].version >= disk[t].version
           /\ disk[t].version = tasks[t].version => disk[t] = tasks[t]
  BY DurableFacts
<1>2. /\ Sound(tasks)'
      /\ \A t \in TaskIds : /\ tasks'[t].version >= tasks[t].version
                            /\ tasks'[t].version = tasks[t].version => tasks'[t] = tasks[t]
  BY <1>1, VersionsGrow
<1>3. ASSUME NEW t \in TaskIds PROVE tasks'[t].version \in Nat
  BY <1>2 DEF Sound, Good, Stores, Task
<1>4. CASE Written
  <2>1. disk' = tasks'
    BY <1>4 DEF Written
  <2>2. acked' \in [TaskIds -> Nat]
    BY <1>1, <1>3, <1>4 DEF Written
  <2>3. ASSUME NEW t \in TaskIds PROVE tasks'[t].version >= acked'[t]
    <3>1. acked'[t] = acked[t] \/ acked'[t] = tasks'[t].version
      BY <1>1, <1>4 DEF Written
    <3>2. tasks'[t].version >= acked[t]
      BY <1>1, <1>2, <1>3
    <3>3. QED BY <3>1, <3>2, <1>3
  <2>4. Sound(disk)'
    BY <1>2, <2>1
  <2>5. \A t \in TaskIds : tasks'[t].version >= tasks'[t].version
    BY <1>3
  <2>6. QED
    BY <1>2, <2>1, <2>2, <2>3, <2>4, <2>5
       DEF DurableInv, AckedIsDurable, MemoryLeadsDisk, VersionNamesTask
<1>5. CASE UNCHANGED <<disk, acked>>
  <2>1. disk' = disk /\ acked' = acked
    BY <1>5
  <2>2. ASSUME NEW t \in TaskIds
        PROVE  /\ tasks'[t].version >= disk[t].version
               /\ disk[t].version = tasks'[t].version => disk[t] = tasks'[t]
    <3>1. tasks'[t].version >= disk[t].version
      BY <1>1, <1>2, <1>3
    <3>2. ASSUME disk[t].version = tasks'[t].version PROVE disk[t] = tasks'[t]
      <4>1. tasks'[t].version = tasks[t].version /\ disk[t].version = tasks[t].version
        BY <1>1, <1>2, <1>3, <3>2
      <4>2. QED BY <1>1, <1>2, <4>1
    <3>3. QED BY <3>1, <3>2
  <2>3. QED
    BY <1>1, <1>2, <2>1, <2>2 DEF DurableInv, AckedIsDurable, MemoryLeadsDisk, VersionNamesTask
<1>6. QED BY <1>4, <1>5

\* Operations, failed writes and restarts all keep the invariant.
LEMMA DurableStep == DurableInv /\ [PNext]_pvars => DurableInv'
<1> SUFFICES ASSUME DurableInv, [PNext]_pvars PROVE DurableInv'
  OBVIOUS
<1>1. CASE Restart
  BY <1>1, RestartIsDurable
<1>2. CASE [Next]_tasks /\ (Written \/ UNCHANGED <<disk, acked>>)
  <2>1. Steady
    BY <1>2, NextGood DEF DurableInv, Sound, Steady
  <2>2. QED BY <1>2, <2>1, MoveIsDurable
<1>3. CASE UNCHANGED pvars
  <2>1. [Next]_tasks /\ UNCHANGED <<disk, acked>>
    BY <1>3 DEF pvars
  <2>2. QED BY <1>2, <2>1
<1>4. QED BY <1>1, <1>2, <1>3, OperationCases

\* The file always holds a map whose links, rollups and claims agree: persist_locked
\* runs after the whole mutation and replaces the file in one step.
THEOREM FileIsConsistent == PSpec => []DiskIsConsistent
<1>1. DurableInv => DiskIsConsistent
  BY DEF DurableInv, Sound, Good, DiskIsConsistent
<1>2. QED BY <1>1, DurableInit, DurableStep, PTL DEF PSpec

\* A change that was answered Ok is in the file, whichever writes failed before or
\* after it and however often the daemon restarted.
THEOREM RepliesAreDurable == PSpec => []AckedIsDurable
<1>1. DurableInv => AckedIsDurable
  BY DEF DurableInv
<1>2. QED BY <1>1, DurableInit, DurableStep, PTL DEF PSpec

\* No write brings back an older task: the map in memory is never behind the file.
THEOREM MemoryIsAhead == PSpec => []MemoryLeadsDisk
<1>1. DurableInv => MemoryLeadsDisk
  BY DEF DurableInv
<1>2. QED BY <1>1, DurableInit, DurableStep, PTL DEF PSpec

-----------------------------------------------------------------------------
(* The tools *)

\* A call in flight: a progress report that read its task as taken up, and whose
\* task is pending now, has been marked.
GoodCall(c, ts) ==
  /\ c \in Calls
  /\ c.tool # "none" => c.task \in TaskIds
  /\ c.tool = "progress" /\ c.seen # "pending" /\ ts[c.task].status = "pending" => c.undone

\* Neither memory nor the file has a parked task that is not accounted for.
AsideIsLoose == \A t \in TaskIds : PutAside(tasks, t) \/ PutAside(disk, t) => t \in loose

\* Under the version on the screen both memory and file have what is on the screen.
Matches(ts) ==
  ts[shown.task].version = shown.version
    => ts[shown.task].status = shown.status /\ ts[shown.task].removed = shown.removed

ShownInv ==
  /\ shown.task = NoTask => shown.status = "none"
  /\ shown.task # NoTask /\ ~rewound =>
       /\ tasks[shown.task].version >= shown.version
       /\ Matches(tasks) /\ Matches(disk)

\* The inductive invariant.
ToolsInv ==
  /\ DurableInv
  /\ ToolsTypeOK
  /\ \A w \in Workspaces : GoodCall(call[w], tasks)
  /\ AsideIsLoose
  /\ ShownInv
  /\ ReportedStaysClosed

-----------------------------------------------------------------------------
(* What a step may be *)

Saved == Written \/ UNCHANGED <<disk, acked>>

\* A method of the store, with its write, that parks no task outside S.
Follows(S) ==
  /\ Steady /\ Saved
  /\ \A t \in TaskIds : Aside(tasks', t) /\ ~Aside(tasks, t) => t \in S
  /\ Follow(S)

CallsFollow ==
  /\ call' = [v \in Workspaces |-> call'[v]]
  /\ \A v \in Workspaces :
       \/ call'[v] = Marked(call[v])
       \/ call'[v] \in Calls /\ call'[v].tool = "none"
       \/ call'[v] \in Calls /\ call'[v].tool = "help" /\ call'[v].task \in TaskIds

ReportsFollow ==
  \/ reported' = reported
  \/ \E t \in TaskIds : /\ reported' = reported \union {t}
                        /\ tasks'[t].status \in Terminal /\ disk'[t] = tasks'[t]

Served == /\ \E S \in SUBSET TaskIds : Follows(S)
          /\ CallsFollow /\ ReportsFollow
          /\ UNCHANGED <<shown, rewound>>

StoreStays == UNCHANGED <<tasks, disk, acked, loose, reported>>

-----------------------------------------------------------------------------
(* The requests of the tools *)

\* A method's write replaces the whole file or leaves it, and the replies with it.
LEMMA SavedCases ==
  /\ \A t \in TaskIds : PersistAndReply(t) => Saved
  /\ ReplyUnchanged => Saved
  /\ PersistBestEffort => Saved
  BY DEF PersistAndReply, ReplyUnchanged, PersistBestEffort, Saved, Written

\* UpdateTask as the daemon serves it, whatever tool it comes from.
LEMMA RequestMoves ==
  ASSUME DurableInv, NEW w \in Workspaces, NEW t \in TaskIds, NEW u \in Updates,
         RequestUpdate(w, t, u)
  PROVE  /\ Steady /\ Saved
         /\ \A x \in TaskIds : Aside(tasks', x) /\ ~Aside(tasks, x)
              => /\ x = t /\ w = tasks[t].assignee /\ u.status \in {"none", "pending"}
                 /\ u.status = "none" => tasks[t].status = "pending"
<1> DEFINE d == FALSE
<1>1. d \in BOOLEAN /\ w \in Callers /\ Good(tasks)
  BY DEF Callers, DurableInv, Sound
<1>2. Update(t, w, u, d)
  BY DEF RequestUpdate
<1> HIDE DEF d
<1>3. \/ UNCHANGED tasks
      \/ /\ Good(tasks)' /\ Monotone(tasks, tasks')
         /\ \A x \in TaskIds : Aside(tasks', x) /\ ~Aside(tasks, x)
              => /\ x = t /\ w = tasks[t].assignee /\ u.status \in {"none", "pending"}
                 /\ u.status = "none" => tasks[t].status = "pending"
  BY <1>1, <1>2, UpdatePreserves
<1>4. Saved
  BY SavedCases DEF RequestUpdate
<1>5. CASE UNCHANGED tasks
  BY <1>1, <1>4, <1>5 DEF Steady, Good, Aside
<1>6. QED BY <1>3, <1>4, <1>5 DEF Steady

\* The other methods park nothing.
LEMMA ControlMoves ==
  ASSUME DurableInv, NEW t \in TaskIds, NEW w \in Callers, NEW v,
         \/ Cancel(t, w, v) \/ Retry(t, w, v)
         \/ \E stale \in BOOLEAN : Remove(t, w, v, stale)
  PROVE  Steady /\ NoneAside(tasks, tasks')
  BY CancelPreserves, RetryPreserves, RemovePreserves DEF DurableInv, Sound, Steady

\* create parks nothing: the new task is unclaimed.
LEMMA CreateToolMoves ==
  ASSUME DurableInv, PCreate
  PROVE  Steady /\ NoneAside(tasks, tasks') /\ Saved
  BY CreatePreserves, SavedCases DEF PCreate, DurableInv, Sound, Steady

\* The stale-task sweep, the heartbeat and record_dispatch park nothing.
LEMMA BackgroundMoves ==
  ASSUME DurableInv, PBackground
  PROVE  Steady /\ NoneAside(tasks, tasks') /\ Saved
  BY RecoverPreserves, ActivityPreserves, SavedCases DEF PBackground, DurableInv, Sound, Steady

-----------------------------------------------------------------------------
(* Every step is served, quiet or a restart *)

\* A step of somebody else only marks the calls in flight.
LEMMA MarkCallsFollow == MarkCalls => CallsFollow
  BY DEF MarkCalls, CallsFollow

\* A task is noted as closed only when memory and file agree that it is.
LEMMA NoteFollows == ASSUME NEW t \in TaskIds, Note(t) PROVE ReportsFollow
  BY DEF Note, ReportsFollow

\* A method that parks nothing needs no excuse for a parked task.
LEMMA NoStrays ==
  ASSUME Steady, Saved, NoneAside(tasks, tasks'), Follow({})
  PROVE  \E S \in SUBSET TaskIds : Follows(S)
<1>1. Follows({})
  BY DEF Follows, NoneAside
<1>2. QED BY <1>1

\* A tool that makes one request and returns.
LEMMA ClosingServed ==
  ASSUME DurableInv, NEW w \in Workspaces, NEW t \in TaskIds, NEW u \in Updates,
         u.status \notin {"none", "pending"}, RequestUpdate(w, t, u), Follow({})
  PROVE  \E S \in SUBSET TaskIds : Follows(S)
<1>1. Steady /\ Saved /\ NoneAside(tasks, tasks')
  BY RequestMoves DEF NoneAside
<1>2. QED BY <1>1, NoStrays

\* update_task is one method of the store; what it parks its assignee asked for.
LEMMA UpdateTaskServed == ASSUME ToolsInv, UpdateTask PROVE Served
<1>1. PICK w \in Workspaces, t \in TaskIds, u \in Requests :
        /\ RequestUpdate(w, t, u)
        /\ Follow(IF u.status \in {"none", "pending"} /\ w = tasks[t].assignee THEN {t} ELSE {})
        /\ MarkCalls /\ Note(t) /\ UNCHANGED <<shown, rewound>>
  BY DEF UpdateTask
<1> DEFINE S == IF u.status \in {"none", "pending"} /\ w = tasks[t].assignee THEN {t} ELSE {}
<1>2. u \in Updates /\ DurableInv
  BY RequestsAssumption DEF ToolsInv
<1>3. Follows(S)
  BY <1>1, <1>2, RequestMoves DEF Follows
<1>4. S \in SUBSET TaskIds
  OBVIOUS
<1>5. QED BY <1>1, <1>3, <1>4, MarkCallsFollow, NoteFollows DEF Served

\* The second request of report_task_progress parks a task only when it was put back
\* after the first; a refused one changes nothing.
LEMMA ProgressServed ==
  ASSUME ToolsInv, ProgressUpdate
  PROVE  \/ Served
         \/ StoreStays /\ CallsFollow /\ UNCHANGED <<shown, rewound>>
<1>1. PICK w \in Workspaces, log \in {"fresh", "repeat"} :
        LET c == call[w]
            t == c.task
            u == [status |-> Promotion(c.seen), result |-> "none", log |-> log, confirm |-> FALSE]
        IN  /\ c.tool = "progress"
            /\ \/ /\ RequestUpdate(w, t, u)
                  /\ Follow(IF c.undone THEN {t} ELSE {})
                  /\ Note(t)
               \/ /\ ~ValidateTaskUpdate(tasks[t], u, w)
                  /\ UNCHANGED <<tasks, disk, acked, writeFaults, loose, reported>>
            /\ GoOn(w, NoCall)
            /\ UNCHANGED <<shown, rewound>>
  BY DEF ProgressUpdate
<1> DEFINE c == call[w]
           t == c.task
           u == [status |-> Promotion(c.seen), result |-> "none", log |-> log, confirm |-> FALSE]
<1>2. GoodCall(c, tasks) /\ DurableInv /\ c.tool = "progress"
  BY <1>1 DEF ToolsInv
<1>3. t \in TaskIds
  BY <1>2 DEF GoodCall
<1>4. u \in Updates
  <2>1. Promotion(c.seen) \in Statuses \union {"none"}
    BY DEF Promotion, Statuses, Open
  <2>2. QED BY <2>1 DEF Updates
<1>5. CallsFollow
  BY <1>1 DEF GoOn, CallsFollow, NoCall, Calls
<1>6. CASE RequestUpdate(w, t, u) /\ Follow(IF c.undone THEN {t} ELSE {}) /\ Note(t)
  <2> DEFINE S == IF c.undone THEN {t} ELSE {}
  <2>1. /\ Steady /\ Saved
        /\ \A x \in TaskIds : Aside(tasks', x) /\ ~Aside(tasks, x)
             => /\ x = t /\ u.status \in {"none", "pending"}
                /\ u.status = "none" => tasks[t].status = "pending"
    <3> HIDE DEF u, t
    <3>1. QED BY <1>2, <1>3, <1>4, <1>6, RequestMoves
  <2>2. ASSUME NEW x \in TaskIds, Aside(tasks', x), ~Aside(tasks, x)
        PROVE  x \in S
    <3>1. x = t /\ Promotion(c.seen) = "none" /\ tasks[t].status = "pending"
      BY <2>1, <2>2 DEF Promotion
    <3>2. c.seen # "pending"
      BY <3>1 DEF Promotion
    <3>3. c.undone
      BY <1>2, <3>1, <3>2 DEF GoodCall
    <3>4. QED BY <3>1, <3>3
  <2>3. Follows(S)
    BY <1>6, <2>1, <2>2 DEF Follows
  <2>4. S \in SUBSET TaskIds
    BY <1>3
  <2>5. ReportsFollow
    BY <1>3, <1>6, NoteFollows
  <2>6. QED BY <1>1, <1>5, <2>3, <2>4, <2>5 DEF Served
<1>7. CASE UNCHANGED <<tasks, disk, acked, writeFaults, loose, reported>>
  BY <1>1, <1>5, <1>7 DEF StoreStays
<1>8. QED BY <1>1, <1>6, <1>7

\* The failure, completion and blocked reports close or block their task and park none.
LEMMA ReportsServed ==
  ASSUME ToolsInv, ReportFailed \/ ReportCompletion \/ ReportBlocked
  PROVE  Served
<1>1. DurableInv /\ \A w \in Workspaces : call[w] \in Calls
  BY DEF ToolsInv, GoodCall
<1>2. ASSUME NEW log \in {"fresh", "repeat"}
      PROVE  /\ [status |-> "failed", result |-> "bare", log |-> log, confirm |-> FALSE] \in Updates
             /\ [status |-> "completed", result |-> "declared", log |-> "none", confirm |-> TRUE]
                  \in Updates
             /\ [status |-> "blocked", result |-> "none", log |-> log, confirm |-> FALSE] \in Updates
  BY DEF Updates, Statuses, Open, Terminal, Results
<1>3. CASE ReportFailed
  <2>1. PICK w \in Workspaces, t \in TaskIds, log \in {"fresh", "repeat"} :
          /\ RequestUpdate(w, t, [status |-> "failed", result |-> "bare", log |-> log, confirm |-> FALSE])
          /\ MarkCalls /\ Follow({}) /\ Note(t) /\ UNCHANGED <<shown, rewound>>
    BY <1>3 DEF ReportFailed
  <2> DEFINE u == [status |-> "failed", result |-> "bare", log |-> log, confirm |-> FALSE]
  <2>2. u \in Updates /\ u.status \notin {"none", "pending"} /\ RequestUpdate(w, t, u)
    BY <1>2, <2>1
  <2> HIDE DEF u
  <2>3. \E S \in SUBSET TaskIds : Follows(S)
    BY <1>1, <2>1, <2>2, ClosingServed
  <2>4. QED BY <2>1, <2>3, MarkCallsFollow, NoteFollows DEF Served
<1>4. CASE ReportCompletion
  <2>1. PICK w \in Workspaces, t \in TaskIds :
          /\ RequestUpdate(w, t, [status |-> "completed", result |-> "declared", log |-> "none",
                            confirm |-> TRUE])
          /\ MarkCalls /\ Follow({}) /\ Note(t) /\ UNCHANGED <<shown, rewound>>
    BY <1>4 DEF ReportCompletion
  <2> DEFINE u == [status |-> "completed", result |-> "declared", log |-> "none", confirm |-> TRUE]
  <2>2. u \in Updates /\ u.status \notin {"none", "pending"} /\ RequestUpdate(w, t, u)
    BY <1>2, <2>1
  <2> HIDE DEF u
  <2>3. \E S \in SUBSET TaskIds : Follows(S)
    BY <1>1, <2>1, <2>2, ClosingServed
  <2>4. QED BY <2>1, <2>3, MarkCallsFollow, NoteFollows DEF Served
<1>5. CASE ReportBlocked
  <2>1. PICK w \in Workspaces, t \in TaskIds, log \in {"fresh", "repeat"}, peer \in BOOLEAN :
          /\ call[w].tool = "none"
          /\ RequestUpdate(w, t, [status |-> "blocked", result |-> "none", log |-> log, confirm |-> FALSE])
          /\ GoOn(w, IF Answered /\ peer
                     THEN [tool |-> "help", task |-> t, seen |-> "blocked", undone |-> FALSE]
                     ELSE call[w])
          /\ Follow({}) /\ UNCHANGED <<shown, rewound, reported>>
    BY <1>5 DEF ReportBlocked
  <2> DEFINE u == [status |-> "blocked", result |-> "none", log |-> log, confirm |-> FALSE]
             help == [tool |-> "help", task |-> t, seen |-> "blocked", undone |-> FALSE]
             next == IF Answered /\ peer THEN help ELSE call[w]
  <2>2. u \in Updates /\ u.status \notin {"none", "pending"} /\ RequestUpdate(w, t, u)
    BY <1>2, <2>1
  <2>3. help \in Calls /\ help.tool = "help" /\ help.task \in TaskIds
    BY DEF Calls, Statuses, Open
  <2> HIDE DEF u, help
  <2>4. \E S \in SUBSET TaskIds : Follows(S)
    BY <1>1, <2>1, <2>2, ClosingServed
  <2>5. next = help \/ next = call[w]
    OBVIOUS
  <2>6. GoOn(w, next)
    BY <2>1 DEF help
  <2> HIDE DEF next
  <2>7. CallsFollow
    BY <1>1, <2>1, <2>3, <2>5, <2>6 DEF GoOn, CallsFollow
  <2>8. QED BY <2>1, <2>4, <2>7 DEF Served, ReportsFollow
<1>6. QED BY <1>3, <1>4, <1>5

\* create_task, the control tools, the printed commands and the background work are
\* methods of the store that park nothing.
LEMMA ControlServed ==
  ASSUME ToolsInv, CreateTask \/ ControlTask \/ RunShown \/ Background
  PROVE  Served
<1>1. DurableInv /\ ShownInv /\ ToolsTypeOK
  BY DEF ToolsInv
<1>2. /\ MarkCalls /\ Follow({}) /\ UNCHANGED <<shown, rewound, reported>>
  BY DEF CreateTask, ControlTask, RunShown, Background
<1>3. Steady /\ NoneAside(tasks, tasks') /\ Saved
  <2>1. CASE CreateTask
    BY <1>1, <2>1, CreateToolMoves DEF CreateTask
  <2>2. CASE Background
    BY <1>1, <2>2, BackgroundMoves DEF Background
  <2>3. CASE ControlTask
    <3>1. PICK w \in Workspaces, t \in TaskIds :
            /\ \/ Cancel(t, w, tasks[t].version)
               \/ \E stale \in BOOLEAN : Remove(t, w, tasks[t].version, stale)
               \/ Retry(t, w, tasks[t].version)
            /\ PersistAndReply(t)
      BY <2>3 DEF ControlTask
    <3>2. w \in Callers
      BY DEF Callers
    <3>3. QED BY <1>1, <3>1, <3>2, ControlMoves, SavedCases
  <2>4. CASE RunShown
    <3>1. PICK step \in NextSteps(shown) \ {"wake", "interrupt"} :
            /\ Command(step, shown.task, shown.version)
            /\ PersistAndReply(shown.task)
      BY <2>4 DEF RunShown
    <3>2. shown.status # "none"
      BY <3>1 DEF NextSteps, Terminal
    <3>3. shown.task \in TaskIds
      BY <1>1, <3>2 DEF ShownInv, ToolsTypeOK, Previews
    <3>4. Operator \in Callers
      BY DEF Callers
    <3>5. QED BY <1>1, <3>1, <3>3, <3>4, ControlMoves, SavedCases DEF Command
  <2>5. QED BY <2>1, <2>2, <2>3, <2>4
<1>4. QED BY <1>2, <1>3, NoStrays, MarkCallsFollow DEF Served, ReportsFollow

-----------------------------------------------------------------------------
(* What the three kinds of steps keep *)

\* A call whose task goes back to pending under it is marked.
LEMMA MarkedIsGood ==
  ASSUME NEW c, GoodCall(c, tasks)
  PROVE  GoodCall(Marked(c), tasks')
<1>1. c \in Calls
  BY DEF GoodCall
<1>2. CASE c.task # NoTask /\ PutsBack(c.task)
  <2> DEFINE m == [c EXCEPT !.undone = TRUE]
  <2>1. Marked(c) = m
    BY <1>2 DEF Marked
  <2>2. m \in Calls /\ m.tool = c.tool /\ m.task = c.task /\ m.undone
    BY <1>1 DEF Calls
  <2> HIDE DEF m
  <2>3. QED BY <2>1, <2>2 DEF GoodCall
<1>3. CASE ~(c.task # NoTask /\ PutsBack(c.task))
  <2>1. Marked(c) = c
    BY <1>3 DEF Marked
  <2>2. ASSUME c.tool = "progress", tasks'[c.task].status = "pending"
        PROVE  tasks[c.task].status = "pending"
    <3>1. c.task # NoTask
      BY <2>2, TaskStoreAssumption DEF GoodCall
    <3>2. QED BY <1>3, <2>2, <3>1 DEF PutsBack
  <2>3. QED BY <2>1, <2>2 DEF GoodCall
<1>4. QED BY <1>2, <1>3

\* The calls in flight stay well formed, whoever moves.
LEMMA CallsAreKept ==
  ASSUME ToolsInv, CallsFollow
  PROVE  /\ call' \in [Workspaces -> Calls]
         /\ \A w \in Workspaces : GoodCall(call'[w], tasks')
<1>1. ASSUME NEW w \in Workspaces PROVE GoodCall(call'[w], tasks')
  <2>1. CASE call'[w] = Marked(call[w])
    BY <2>1, MarkedIsGood DEF ToolsInv
  <2>2. CASE call'[w] \in Calls /\ call'[w].tool = "none"
    BY <2>2 DEF GoodCall
  <2>3. CASE call'[w] \in Calls /\ call'[w].tool = "help" /\ call'[w].task \in TaskIds
    BY <2>3 DEF GoodCall
  <2>4. QED BY <2>1, <2>2, <2>3 DEF CallsFollow
<1>2. \A w \in Workspaces : call'[w] \in Calls
  BY <1>1 DEF GoodCall
<1>3. QED BY <1>1, <1>2 DEF CallsFollow

\* A parked task that no step parked was parked before.
LEMMA LooseIsKept ==
  ASSUME ToolsInv, NEW S \in SUBSET TaskIds, Follows(S)
  PROVE  loose' \subseteq TaskIds /\ AsideIsLoose'
<1>1. /\ StartedIsClaimed(tasks) /\ AsideIsLoose /\ loose \subseteq TaskIds
  BY DEF ToolsInv, DurableInv, Sound, Good, ToolsTypeOK
<1>2. loose' = {t \in loose \union S : PutAside(tasks', t) \/ PutAside(disk', t)}
  BY DEF Follows, Follow
<1>3. disk' = disk \/ disk' = tasks'
  BY DEF Follows, Saved, Written
<1>4. ASSUME NEW t \in TaskIds, PutAside(tasks', t) PROVE t \in loose \union S
  <2>1. CASE Aside(tasks, t)
    <3>1. ~tasks[t].removed
      BY <1>1, <2>1 DEF StartedIsClaimed, Aside, Terminal
    <3>2. PutAside(tasks, t)
      BY <2>1, <3>1 DEF PutAside, Live, Exists, Aside
    <3>3. QED BY <1>1, <3>2 DEF AsideIsLoose
  <2>2. CASE ~Aside(tasks, t)
    <3>1. Aside(tasks', t)
      BY <1>4 DEF PutAside, Aside
    <3>2. QED BY <2>2, <3>1 DEF Follows
  <2>3. QED BY <2>1, <2>2
<1>5. ASSUME NEW t \in TaskIds, PutAside(disk', t) PROVE t \in loose \union S
  <2>1. CASE disk' = disk
    BY <1>1, <1>5, <2>1 DEF AsideIsLoose
  <2>2. CASE disk' = tasks'
    BY <1>4, <1>5, <2>2
  <2>3. QED BY <1>3, <2>1, <2>2
<1>6. QED BY <1>1, <1>2, <1>4, <1>5 DEF AsideIsLoose

\* A method of the store with its write keeps the invariant: versions grow, finished
\* tasks stay finished, and the screen matches whatever still has its version.
LEMMA ServedKeeps == ASSUME ToolsInv, Served PROVE ToolsInv'
<1>1. PICK S \in SUBSET TaskIds : Follows(S)
  BY DEF Served
<1>2. Steady /\ Saved
  BY <1>1 DEF Follows
<1>3. DurableInv'
  BY <1>2, MoveIsDurable DEF ToolsInv, Saved
<1>4. loose' \subseteq TaskIds /\ AsideIsLoose'
  BY <1>1, LooseIsKept
<1>5. /\ call' \in [Workspaces -> Calls]
      /\ \A w \in Workspaces : GoodCall(call'[w], tasks')
  BY CallsAreKept DEF Served
<1>6. shown' = shown /\ rewound' = rewound
  BY DEF Served
<1>7. /\ \A t \in TaskIds :
           /\ tasks[t].version \in Nat /\ tasks'[t].version \in Nat
           /\ tasks'[t].version >= tasks[t].version
           /\ tasks'[t].version = tasks[t].version => tasks'[t] = tasks[t]
  <2>1. Sound(tasks) /\ Sound(tasks')
    BY <1>3 DEF ToolsInv, DurableInv
  <2>2. \A t \in TaskIds : tasks[t].version \in Nat /\ tasks'[t].version \in Nat
    BY <2>1 DEF Sound, Good, Stores, Task
  <2>3. QED BY <1>2, <2>1, <2>2, VersionsGrow
<1>8. disk' = disk \/ disk' = tasks'
  BY <1>2 DEF Saved, Written
<1>9. ShownInv'
  <2>1. ShownInv /\ shown \in Previews
    BY DEF ToolsInv, ToolsTypeOK
  <2>2. ASSUME shown.task # NoTask, ~rewound
        PROVE  /\ tasks'[shown.task].version >= shown.version
               /\ Matches(tasks') /\ Matches(disk')
    <3>1. shown.task \in TaskIds /\ shown.version \in Nat
      BY <2>1, <2>2 DEF Previews
    <3>2. /\ tasks[shown.task].version >= shown.version
          /\ Matches(tasks) /\ Matches(disk)
      BY <2>1, <2>2 DEF ShownInv
    <3>3. tasks'[shown.task].version >= shown.version
      BY <1>7, <3>1, <3>2
    <3>4. Matches(tasks')
      <4>1. ASSUME tasks'[shown.task].version = shown.version
            PROVE  tasks'[shown.task] = tasks[shown.task]
        BY <1>7, <3>1, <3>2, <4>1
      <4>2. QED BY <3>2, <4>1 DEF Matches
    <3>5. Matches(disk')
      BY <1>8, <3>2, <3>4
    <3>6. QED BY <3>3, <3>4, <3>5
  <2>3. QED BY <1>6, <2>1, <2>2 DEF ShownInv, Matches
<1>10. reported' \subseteq TaskIds /\ ReportedStaysClosed'
  <2>1. /\ reported \subseteq TaskIds
        /\ \A t \in reported : tasks[t].status \in Terminal /\ disk[t].status \in Terminal
    BY DEF ToolsInv, ToolsTypeOK, ReportedStaysClosed
  <2>2. \A t \in reported : tasks'[t].status \in Terminal
    BY <1>2, <2>1 DEF Steady, Monotone
  <2>3. \A t \in reported : disk'[t].status \in Terminal
    BY <1>8, <2>1, <2>2
  <2>4. ReportsFollow
    BY DEF Served
  <2>5. QED BY <2>1, <2>2, <2>3, <2>4 DEF ReportsFollow, ReportedStaysClosed
<1>11. ToolsTypeOK'
  BY <1>4, <1>5, <1>6, <1>10 DEF ToolsTypeOK, ToolsInv
<1>12. QED BY <1>3, <1>4, <1>5, <1>9, <1>10, <1>11 DEF ToolsInv

\* A read, a preview, a call that ends and a refused request keep the invariant.
LEMMA QuietKeeps ==
  ASSUME ToolsInv, StoreStays,
         \/ CallsFollow /\ UNCHANGED <<shown, rewound>>
         \/ ProgressGet \/ CallDies \/ AskForHelp \/ TasksRecover
         \/ UNCHANGED <<call, shown, rewound>>
  PROVE  ToolsInv'
<1>1. /\ tasks' = tasks /\ disk' = disk /\ acked' = acked /\ loose' = loose /\ reported' = reported
  BY DEF StoreStays
<1>2. DurableInv' /\ AsideIsLoose' /\ ReportedStaysClosed' /\ loose' \subseteq TaskIds
        /\ reported' \subseteq TaskIds
  <2>1. DurableInv'
    <3>1. Steady /\ UNCHANGED <<disk, acked>>
      BY <1>1 DEF Steady, ToolsInv, DurableInv, Sound, Good
    <3>2. QED BY <3>1, MoveIsDurable DEF ToolsInv
  <2>2. QED BY <1>1, <2>1 DEF ToolsInv, ToolsTypeOK, AsideIsLoose, PutAside, Live, Exists,
                             ReportedStaysClosed
<1>3. /\ call' \in [Workspaces -> Calls]
      /\ \A w \in Workspaces : GoodCall(call'[w], tasks')
  <2>1. call \in [Workspaces -> Calls] /\ \A w \in Workspaces : GoodCall(call[w], tasks)
    BY DEF ToolsInv, ToolsTypeOK
  <2>2. CASE CallsFollow
    BY <2>2, CallsAreKept
  <2>3. CASE ProgressGet
    <3>1. PICK w \in Workspaces, t \in TaskIds :
            /\ Exists(tasks, t)
            /\ call' = [call EXCEPT ![w] = [tool |-> "progress", task |-> t,
                                            seen |-> tasks[t].status, undone |-> FALSE]]
      BY <2>3 DEF ProgressGet
    <3> DEFINE n == [tool |-> "progress", task |-> t, seen |-> tasks[t].status, undone |-> FALSE]
    <3>2. tasks[t].status \in Statuses
      BY <3>1 DEF ToolsInv, DurableInv, Sound, Good, Stores, Task, Exists
    <3>3. n \in Calls /\ GoodCall(n, tasks)
      BY <3>2 DEF Calls, GoodCall
    <3> HIDE DEF n
    <3>4. call' = [call EXCEPT ![w] = n]
      BY <3>1 DEF n
    <3>5. QED BY <1>1, <2>1, <3>3, <3>4
  <2>4. CASE CallDies \/ AskForHelp
    <3>1. PICK w \in Workspaces : call' = [call EXCEPT ![w] = NoCall]
      BY <2>4 DEF CallDies, AskForHelp
    <3>2. NoCall \in Calls /\ GoodCall(NoCall, tasks)
      BY DEF NoCall, Calls, GoodCall
    <3>3. QED BY <1>1, <2>1, <3>1, <3>2
  <2>5. CASE TasksRecover \/ UNCHANGED <<call, shown, rewound>>
    BY <1>1, <2>1, <2>5 DEF TasksRecover
  <2>6. QED BY <2>2, <2>3, <2>4, <2>5
<1>4. shown' \in Previews /\ rewound' \in BOOLEAN /\ ShownInv'
  <2>1. shown \in Previews /\ rewound \in BOOLEAN /\ ShownInv
    BY DEF ToolsInv, ToolsTypeOK
  <2>2. CASE UNCHANGED <<shown, rewound>>
    BY <1>1, <2>1, <2>2 DEF ShownInv, Matches
  <2>3. CASE TasksRecover
    <3>1. PICK t \in TaskIds :
            /\ Exists(tasks, t)
            /\ shown' = [task |-> t, version |-> tasks[t].version, status |-> tasks[t].status,
                         removed |-> tasks[t].removed]
            /\ rewound' = FALSE
      BY <2>3 DEF TasksRecover
    <3>2. /\ tasks[t].version \in Nat /\ tasks[t].removed \in BOOLEAN
          /\ tasks[t].status \in Statuses
      BY <3>1 DEF ToolsInv, DurableInv, Sound, Good, Stores, Task, Exists
    <3>3. disk[t].version = tasks[t].version => disk[t] = tasks[t]
      BY DEF ToolsInv, DurableInv, VersionNamesTask
    <3>4. /\ shown' \in Previews /\ shown'.task = t /\ shown'.version = tasks[t].version
          /\ shown'.status = tasks[t].status /\ shown'.removed = tasks[t].removed
      BY <3>1, <3>2 DEF Previews
    <3>5. t # NoTask /\ tasks[t].version >= tasks[t].version
      BY <3>2, TaskStoreAssumption
    <3>6. QED BY <1>1, <3>1, <3>3, <3>4, <3>5 DEF ShownInv, Matches
  <2>4. QED BY <2>2, <2>3 DEF ProgressGet, CallDies, AskForHelp
<1>5. QED BY <1>2, <1>3, <1>4 DEF ToolsInv, ToolsTypeOK

\* A restart sets every task back to the file and keeps the invariant.
LEMMA RestartKeeps == ASSUME ToolsInv, DaemonRestart PROVE ToolsInv'
<1>1. /\ Restart /\ MarkCalls /\ Follow({})
      /\ rewound' = (rewound \/ (shown.task # NoTask /\ disk[shown.task].version < shown.version))
      /\ shown' = shown /\ reported' = reported
  BY DEF DaemonRestart
<1>2. tasks' = disk /\ disk' = disk
  BY <1>1 DEF Restart
<1>3. DurableInv'
  BY <1>1, RestartIsDurable DEF ToolsInv
<1>4. loose' \subseteq TaskIds /\ AsideIsLoose'
  BY <1>1, <1>2 DEF Follow, ToolsInv, ToolsTypeOK, AsideIsLoose, PutAside, Live, Exists
<1>5. /\ call' \in [Workspaces -> Calls]
      /\ \A w \in Workspaces : GoodCall(call'[w], tasks')
  BY <1>1, MarkCallsFollow, CallsAreKept
<1>6. rewound' \in BOOLEAN
  BY <1>1
<1>7. ShownInv'
  <2>1. ShownInv /\ shown \in Previews
    BY DEF ToolsInv, ToolsTypeOK
  <2>2. ASSUME shown.task # NoTask, ~rewound'
        PROVE  disk[shown.task].version >= shown.version /\ Matches(disk)
    <3>1. ~rewound /\ ~(disk[shown.task].version < shown.version)
      BY <1>1, <2>2
    <3>2. shown.task \in TaskIds /\ shown.version \in Nat
      BY <2>1, <2>2 DEF Previews
    <3>3. disk[shown.task].version \in Nat
      BY <3>2, DurableFacts DEF ToolsInv
    <3>4. QED BY <2>1, <2>2, <3>1, <3>2, <3>3 DEF ShownInv
  <2>3. QED BY <1>1, <1>2, <2>1, <2>2 DEF ShownInv, Matches
<1>8. ReportedStaysClosed' /\ ToolsTypeOK'
  BY <1>1, <1>2, <1>4, <1>5, <1>6 DEF ToolsInv, ToolsTypeOK, ReportedStaysClosed
<1>9. QED BY <1>3, <1>4, <1>5, <1>7, <1>8 DEF ToolsInv

\* At the start nothing is in flight, shown, parked or reported.
LEMMA ToolsInvInit == ToolsInit => ToolsInv
<1> SUFFICES ASSUME ToolsInit PROVE ToolsInv
  OBVIOUS
<1>1. DurableInv
  BY DurableInit DEF ToolsInit
<1>2. NoCall \in Calls /\ NoCall.tool = "none"
  BY DEF NoCall, Calls
<1>3. /\ call \in [Workspaces -> Calls]
      /\ \A w \in Workspaces : call[w] = NoCall
  BY <1>2 DEF ToolsInit
<1>4. \A w \in Workspaces : GoodCall(call[w], tasks)
  BY <1>2, <1>3 DEF GoodCall
<1>5. NothingShown \in Previews /\ NothingShown.task = NoTask /\ NothingShown.status = "none"
  BY DEF NothingShown, Previews
<1>6. disk = tasks /\ \A t \in TaskIds : tasks[t].status = "absent"
  BY DEF ToolsInit, PInit, Init, AbsentTask, Absent
<1>7. AsideIsLoose
  BY <1>6 DEF AsideIsLoose, PutAside, Live, Exists
<1>8. ToolsTypeOK /\ ReportedStaysClosed /\ ShownInv
  BY <1>3, <1>5 DEF ToolsInit, ToolsTypeOK, ReportedStaysClosed, ShownInv
<1>9. QED BY <1>1, <1>4, <1>7, <1>8 DEF ToolsInv

\* Tools, commands, background work, failed writes and restarts keep the invariant.
LEMMA ToolsInvStep == ToolsInv /\ [ToolsNext]_toolVars => ToolsInv'
<1> SUFFICES ASSUME ToolsInv, [ToolsNext]_toolVars PROVE ToolsInv'
  OBVIOUS
<1>1. CASE CreateTask \/ ControlTask \/ RunShown \/ Background
  BY <1>1, ControlServed, ServedKeeps
<1>2. CASE UpdateTask
  BY <1>2, UpdateTaskServed, ServedKeeps
<1>3. CASE ProgressUpdate
  BY <1>3, ProgressServed, ServedKeeps, QuietKeeps
<1>4. CASE ReportFailed \/ ReportCompletion \/ ReportBlocked
  BY <1>4, ReportsServed, ServedKeeps
<1>5. CASE ProgressGet \/ CallDies \/ AskForHelp \/ TasksRecover
  <2>1. StoreStays
    BY <1>5 DEF StoreStays, ProgressGet, CallDies, AskForHelp, TasksRecover
  <2>2. QED BY <1>5, <2>1, QuietKeeps
<1>6. CASE DaemonRestart
  BY <1>6, RestartKeeps
<1>7. CASE UNCHANGED toolVars
  <2>1. StoreStays /\ UNCHANGED <<call, shown, rewound>>
    BY <1>7 DEF toolVars, StoreStays
  <2>2. QED BY <2>1, QuietKeeps
<1>8. QED
  BY <1>1, <1>2, <1>3, <1>4, <1>5, <1>6, <1>7 DEF ToolsNext

-----------------------------------------------------------------------------
(* The theorems *)

\* The inductive invariant holds throughout: the store with its file is sound, and the
\* calls, the preview and the reports agree with it.
THEOREM ToolsInvariant == ToolsSpec => []ToolsInv
  BY ToolsInvInit, ToolsInvStep, PTL DEF ToolsSpec

\* Under all the tools and commands together the file holds a map whose links,
\* rollups and claims agree.
THEOREM ToolsKeepTheFile == ToolsSpec => []DiskIsConsistent
<1>1. ToolsInv => DiskIsConsistent
  BY DEF ToolsInv, DurableInv, Sound, Good, DiskIsConsistent
<1>2. QED BY <1>1, ToolsInvariant, PTL

\* Under all the tools and commands together a change that was answered Ok is in the
\* file.
THEOREM ToolsAreDurable == ToolsSpec => []AckedIsDurable
<1>1. ToolsInv => AckedIsDurable
  BY DEF ToolsInv, DurableInv
<1>2. QED BY <1>1, ToolsInvariant, PTL

\* A pending task that is claimed, and so never handed out again, got there through
\* its assignee's own update_task, or through a progress report whose task was put
\* back between the report's two requests.
THEOREM ParkedByARace == ToolsSpec => []PutAsideNeedsARace
<1>1. ToolsInv => PutAsideNeedsARace
  BY DEF ToolsInv, AsideIsLoose, PutAsideNeedsARace
<1>2. QED BY <1>1, ToolsInvariant, PTL

\* A preview of `ax tasks recover' whose version is still the task's shows the
\* task's status, unless a restart went back behind it.
THEOREM PreviewIsCurrent == ToolsSpec => []ShownIsCurrent
<1>1. ToolsInv => ShownIsCurrent
  BY DEF ToolsInv, ShownInv, Matches, ShownIsCurrent
<1>2. QED BY <1>1, ToolsInvariant, PTL

\* While the version on the screen is current the daemon takes every command that
\* `ax tasks recover' printed.
THEOREM PrintedStepsAreTaken == ToolsSpec => []ShownStepsAreTaken
<1>1. ASSUME ToolsInv, shown.task # NoTask, ~rewound, tasks[shown.task].version = shown.version,
             NEW step \in NextSteps(shown)
      PROVE  Takes(shown.task, step, shown.version)
  <2>1. tasks[shown.task].status = shown.status /\ tasks[shown.task].removed = shown.removed
    BY <1>1 DEF ToolsInv, ShownInv, Matches
  <2>2. /\ ~shown.removed
        /\ \/ shown.status \in {"pending", "in_progress"}
              /\ step \in {"wake", "interrupt", "retry", "cancel"}
           \/ shown.status \in Terminal /\ step = "remove"
    BY <1>1 DEF NextSteps
  <2>3. ValidateTaskControl(tasks[shown.task], Operator, shown.version, step # "remove")
    BY <1>1, <2>1, <2>2 DEF ValidateTaskControl
  <2>4. Exists(tasks, shown.task)
    BY <2>1, <2>2 DEF Exists, Terminal
  <2>5. CASE shown.status \in {"pending", "in_progress"}
             /\ step \in {"wake", "interrupt", "retry", "cancel"}
    BY <2>1, <2>3, <2>4, <2>5 DEF Takes, Open, Terminal
  <2>6. CASE shown.status \in Terminal /\ step = "remove"
    BY <2>1, <2>3, <2>4, <2>6 DEF Takes
  <2>7. QED BY <2>2, <2>5, <2>6
<1>2. ToolsInv => ShownStepsAreTaken
  BY <1>1 DEF ShownStepsAreTaken
<1>3. QED BY <1>2, ToolsInvariant, PTL

\* A task an agent was told is closed stays closed, in memory and in the file.
THEOREM ClosedStaysClosed == ToolsSpec => []ReportedStaysClosed
<1>1. ToolsInv => ReportedStaysClosed
  BY DEF ToolsInv
<1>2. QED BY <1>1, ToolsInvariant, PTL

-----------------------------------------------------------------------------
(* The handlers *)

Ops == {"put", "record", "notice", "schedule", "purge", "settle", "cancel", "ensure", "spawn",
        "peek", "refill", "find", "dequeue", "retry"}
Infos == {"none", "asked", "checked"} \union Statuses \union Nat
CallRec == [op : Ops, ws : Callers, task : Carried, info : Infos]
Programs == Seq(CallRec)

Types ==
  /\ inbox \in [Callers -> [Carried -> Nat]]
  /\ wake \subseteq Callers /\ session \subseteq Callers /\ spawned \subseteq Callers
  /\ prog \in [Threads -> Programs]
  /\ asked \in [TaskIds -> Nat] /\ told \in [TaskIds -> SUBSET Infos]

Puts(c, w, t) == c.op = "put" /\ c.ws = w /\ c.task = t
Checked(c)    == c.op = "put" /\ c.info = "checked"

\* A call is about a task that exists, and what is looked up, queued on one's own
\* account, recorded or purged is in the inbox of its assignee; a notice is not.
Known(c, ts) ==
  /\ c.task # NoTask => Exists(ts, c.task)
  /\ c.op \in {"record", "find", "purge", "notice", "retry"} \/ Checked(c) => c.task # NoTask
  /\ c.op \in {"record", "find", "purge"} \/ Checked(c) => c.ws = ts[c.task].assignee
  /\ c.op = "notice" => c.ws # ts[c.task].assignee
  /\ c.op = "put" => c.info \in {"asked", "checked"}

\* A purge and a message nobody asked for come first in what is left of a program, and
\* a dispatch is recorded right after its message.
InPlace(s) ==
  \A i \in DOMAIN s : i > 1 =>
    /\ s[i].op # "purge" /\ ~Checked(s[i])
    /\ s[i].op = "record" => Puts(s[i-1], s[i].ws, s[i].task)

\* A purge is part of the follow-up of a closed task, or the task is removed, or a new
\* message follows.
Justified(s, ts) ==
  s # <<>> /\ s[1].op = "purge" =>
    \/ s[1].info \in Closed
    \/ ts[s[1].task].removed
    \/ Len(s) > 1 /\ Puts(s[2], s[1].ws, s[1].task)

Shape(s, ts) ==
  /\ s \in Programs
  /\ \A i \in DOMAIN s : Known(s[i], ts)
  /\ InPlace(s) /\ Justified(s, ts)

HeadIs(s, op, t) == s # <<>> /\ s[1].op = op /\ s[1].task = t

Safe == {"purge", "settle", "cancel"}

\* What a program still owes: a notice with nothing before it that can fail; a message.
Noticing(s, t, st) ==
  \E i \in DOMAIN s : /\ s[i].op = "notice" /\ s[i].task = t /\ s[i].info = st
                      /\ \A j \in 1..i - 1 : s[j].op \in Safe
PutDue(s, w, t) ==
  /\ s # <<>>
  /\ \/ Puts(s[1], w, t)
     \/ HeadIs(s, "purge", t) /\ Len(s) > 1 /\ Puts(s[2], w, t)

Told(t) ==
  tasks[t].status \in Terminal /\ tasks[t].created_by # tasks[t].assignee =>
    \/ tasks[t].status \in told[t] \/ t \in cut
    \/ \E p \in Threads : Noticing(prog[p], t, tasks[t].status)

Left(t) ==
  tasks[t].status \in Terminal =>
    Inbox(t) = 0 \/ t \in late \/ t \in cut \/ \E p \in Threads : HeadIs(prog[p], "purge", t)

Handed(t) ==
  /\ Live(tasks, t) /\ tasks[t].status \in {"pending", "in_progress"}
  /\ tasks[t].dispatch_count > 0 \/ \E p \in Threads : HeadIs(prog[p], "record", t)
  => \/ Inbox(t) > 0 \/ t \in read \/ t \in lost
     \/ \E p \in Threads : PutDue(prog[p], tasks[t].assignee, t)

Filler(p, t) == prog[p] # <<>> /\ Checked(prog[p][1]) /\ prog[p][1].task = t

Once(t) ==
  Exists(tasks, t) /\ t \notin overlap =>
    /\ \A p, q \in Threads : Filler(p, t) /\ Filler(q, t) => p = q
    /\ Inbox(t) <= asked[t] + 1
    /\ \A p \in Threads : Filler(p, t) => Inbox(t) <= asked[t]

Unheard(t) == ~Exists(tasks, t) => \A w \in Callers : inbox[w][t] = 0

\* The inductive invariant.
Shapes == \A p \in Threads : Shape(prog[p], tasks)
Owed   == \A t \in TaskIds : Told(t) /\ Left(t) /\ Handed(t) /\ Once(t) /\ Unheard(t)
DispatchInv == Good(tasks) /\ Types /\ Shapes /\ Owed

-----------------------------------------------------------------------------
(* Programs *)

\* The first call is made, and others take its place.
LEMMA Spliced ==
  ASSUME NEW s \in Programs, s # <<>>, NEW first \in Programs
  PROVE  LET new == first \o Tail(s) IN
         /\ new \in Programs /\ Len(new) = Len(first) + Len(s) - 1
         /\ DOMAIN new = 1..Len(new) /\ DOMAIN s = 1..Len(s) /\ Len(s) \in Nat \ {0}
         /\ Len(first) \in Nat /\ DOMAIN first = 1..Len(first)
         /\ \A i \in 1..Len(first) : new[i] = first[i]
         /\ \A i \in Len(first) + 1..Len(new) : new[i] = s[i - Len(first) + 1]
<1> DEFINE t == Tail(s)
<1>1. /\ t \in Programs /\ Len(t) = Len(s) - 1 /\ Len(s) \in Nat \ {0}
      /\ \A i \in 1..Len(t) : t[i] = s[i + 1]
  BY DEF Programs
<1> HIDE DEF t
<1>0. Len(first) \in Nat /\ Len(t) \in Nat
  BY <1>1 DEF Programs
<1>01. first \o t \in Programs
  BY <1>1 DEF Programs
<1>02. Len(first \o t) = Len(first) + Len(t)
  BY <1>1, ConcatProperties DEF Programs
<1>2. /\ first \o t \in Programs /\ Len(first \o t) = Len(first) + Len(t)
      /\ Len(first) \in Nat /\ Len(t) \in Nat
  BY <1>0, <1>01, <1>02
<1>3. \A i \in 1..Len(first) + Len(t) :
        (first \o t)[i] = IF i <= Len(first) THEN first[i] ELSE t[i - Len(first)]
  BY <1>1 DEF Programs
<1>4. \A i \in Len(first) + 1..Len(first \o t) : (first \o t)[i] = s[i - Len(first) + 1]
  <2> SUFFICES ASSUME NEW i \in Len(first) + 1..Len(first \o t)
               PROVE  (first \o t)[i] = s[i - Len(first) + 1]
    OBVIOUS
  <2>1. i \in 1..Len(first) + Len(t) /\ ~(i <= Len(first)) /\ i - Len(first) \in 1..Len(t)
    BY <1>2
  <2>2. QED BY <1>1, <1>3, <2>1
<1>5. DOMAIN (first \o t) = 1..Len(first \o t) /\ DOMAIN s = 1..Len(s) /\ DOMAIN first = 1..Len(first)
  BY <1>2 DEF Programs
<1>6. \A i \in 1..Len(first) : (first \o t)[i] = first[i]
  BY <1>2, <1>3
<1>7. QED BY <1>1, <1>2, <1>4, <1>5, <1>6 DEF t

\* The shape of a program survives its first call: only a message may be followed by its
\* record, and a message is followed by nothing new.
LEMMA ShapeMoves ==
  ASSUME NEW ts, NEW s, Shape(s, ts), s # <<>>, NEW first, Shape(first, ts),
         first = <<>> \/ s[1].op # "put"
  PROVE  Shape(first \o Tail(s), ts)
<1> DEFINE new == first \o Tail(s)
           k == Len(first)
<1>1. /\ s \in Programs /\ first \in Programs
      /\ \A i \in DOMAIN s : Known(s[i], ts)
      /\ \A i \in DOMAIN first : Known(first[i], ts)
      /\ InPlace(s) /\ InPlace(first) /\ Justified(first, ts)
  BY DEF Shape
<1>2. /\ new \in Programs /\ Len(new) = k + Len(s) - 1
      /\ DOMAIN new = 1..Len(new) /\ DOMAIN s = 1..Len(s) /\ Len(s) \in Nat \ {0}
      /\ k \in Nat /\ DOMAIN first = 1..k
      /\ \A i \in 1..k : new[i] = first[i]
      /\ \A i \in k + 1..Len(new) : new[i] = s[i - k + 1]
  BY <1>1, Spliced
<1>3. k = 0 \/ s[1].op # "put"
  BY <1>1 DEF Programs
<1>4. k = 0 => first = <<>>
  BY <1>1 DEF Programs
<1> HIDE DEF new, k
<1>5. \A i \in DOMAIN new : Known(new[i], ts)
  <2> SUFFICES ASSUME NEW i \in DOMAIN new PROVE Known(new[i], ts)
    OBVIOUS
  <2>1. CASE i \in 1..k
    BY <1>1, <1>2, <2>1
  <2>2. CASE i \in k + 1..Len(new)
    <3>1. i - k + 1 \in DOMAIN s
      BY <1>2, <2>2
    <3>2. QED BY <1>1, <1>2, <2>2, <3>1
  <2>3. QED BY <1>2, <2>1, <2>2
<1>6. InPlace(new)
  <2> SUFFICES ASSUME NEW i \in DOMAIN new, i > 1
               PROVE  /\ new[i].op # "purge" /\ ~Checked(new[i])
                      /\ new[i].op = "record" => Puts(new[i-1], new[i].ws, new[i].task)
    BY DEF InPlace
  <2>1. CASE i \in 1..k
    <3>1. new[i] = first[i] /\ new[i-1] = first[i-1] /\ i \in DOMAIN first
      BY <1>2, <2>1
    <3>2. QED BY <1>1, <3>1 DEF InPlace
  <2>2. CASE i \in k + 1..Len(new)
    <3>1. i - k + 1 \in DOMAIN s /\ i - k + 1 > 1 /\ new[i] = s[i - k + 1]
      BY <1>2, <2>2
    <3>2. /\ new[i].op # "purge" /\ ~Checked(new[i])
          /\ new[i].op = "record" => Puts(s[i - k], new[i].ws, new[i].task)
      <4> DEFINE j == i - k + 1
      <4>1. j \in DOMAIN s /\ j > 1 /\ new[i] = s[j] /\ j - 1 = i - k
        BY <1>2, <3>1
      <4> HIDE DEF j
      <4>2. QED BY <1>1, <4>1 DEF InPlace
    <3>3. CASE i = k + 1
      <4>1. i - k = 1
        BY <1>2, <3>3
      <4>2. k # 0
        BY <3>3
      <4>3. new[i].op # "record"
        BY <1>3, <3>2, <4>1, <4>2 DEF Puts
      <4>4. QED BY <3>2, <4>3
    <3>4. CASE i # k + 1
      <4>1. i - 1 \in k + 1..Len(new) /\ (i - 1) - k + 1 = i - k
        BY <1>2, <2>2, <3>4
      <4>2. new[i-1] = s[i - k]
        BY <1>2, <4>1
      <4>3. QED BY <3>2, <4>2
    <3>5. QED BY <3>3, <3>4
  <2>3. QED BY <1>2, <2>1, <2>2
<1>7. Justified(new, ts)
  <2> SUFFICES ASSUME new # <<>>, new[1].op = "purge"
               PROVE  \/ new[1].info \in Closed
                      \/ ts[new[1].task].removed
                      \/ Len(new) > 1 /\ Puts(new[2], new[1].ws, new[1].task)
    BY DEF Justified
  <2>0. Len(new) \in Nat /\ Len(new) > 0
    BY <1>2 DEF Programs
  <2>1. CASE k = 0
    <3>1. 1 \in k + 1..Len(new) /\ 1 - k + 1 = 2 /\ 2 \in DOMAIN s
      BY <1>2, <2>0, <2>1
    <3>2. new[1] = s[2]
      BY <1>2, <3>1
    <3>3. QED BY <1>1, <3>1, <3>2 DEF InPlace
  <2>2. CASE k # 0
    <3>1. new[1] = first[1] /\ first # <<>>
      BY <1>2, <2>2 DEF k
    <3>2. Len(first) > 1 => new[2] = first[2] /\ Len(new) > 1
      BY <1>2 DEF k
    <3>3. QED BY <1>1, <3>1, <3>2 DEF Justified
  <2>3. QED BY <2>1, <2>2
<1>8. QED BY <1>2, <1>5, <1>6, <1>7 DEF Shape, new

\* The tasks that exist go on existing, with their assignees, and stay removed.
Carries(ts, us) ==
  \A t \in TaskIds : Exists(ts, t) => /\ Exists(us, t) /\ us[t].assignee = ts[t].assignee
                                      /\ ts[t].removed => us[t].removed

\* A well shaped program stays so while the tasks it names keep their assignees.
LEMMA ShapeHolds ==
  ASSUME NEW ts, NEW us, Carries(ts, us), NEW s, Shape(s, ts)
  PROVE  Shape(s, us)
<1>1. ASSUME NEW i \in DOMAIN s
      PROVE  Known(s[i], us) /\ (s[i].task # NoTask /\ ts[s[i].task].removed => us[s[i].task].removed)
  <2>1. s[i] \in CallRec /\ Known(s[i], ts)
    BY <1>1 DEF Shape, Programs
  <2>2. s[i].task \in TaskIds \union {NoTask}
    BY <2>1 DEF CallRec, Carried
  <2>3. s[i].task # NoTask => /\ Exists(us, s[i].task) /\ us[s[i].task].assignee = ts[s[i].task].assignee
                              /\ ts[s[i].task].removed => us[s[i].task].removed
    BY <2>1, <2>2 DEF Known, Carries
  <2>4. QED BY <2>1, <2>3 DEF Known
<1>2. Justified(s, us)
  <2> SUFFICES ASSUME s # <<>>, s[1].op = "purge" , ~(s[1].info \in Closed),
                      ~(Len(s) > 1 /\ Puts(s[2], s[1].ws, s[1].task))
               PROVE  us[s[1].task].removed
    BY DEF Justified
  <2>1. 1 \in DOMAIN s
    BY DEF Shape, Programs
  <2>2. ts[s[1].task].removed /\ s[1].task # NoTask
    BY <2>1 DEF Shape, Justified, Known
  <2>3. QED BY <1>1, <2>1, <2>2
<1>3. QED BY <1>1, <1>2 DEF Shape

\* A notice keeps its place behind calls that cannot fail.
LEMMA NoticeMoves ==
  ASSUME NEW s \in Programs, s # <<>>, NEW first \in Programs,
         \A i \in DOMAIN first : first[i].op \in Safe,
         NEW t, NEW st, Noticing(s, t, st), s[1].op # "notice"
  PROVE  Noticing(first \o Tail(s), t, st)
<1> DEFINE new == first \o Tail(s)
           k == Len(first)
<1>1. /\ Len(new) = k + Len(s) - 1
      /\ DOMAIN new = 1..Len(new) /\ DOMAIN s = 1..Len(s) /\ Len(s) \in Nat \ {0}
      /\ k \in Nat /\ DOMAIN first = 1..k
      /\ \A i \in 1..k : new[i] = first[i]
      /\ \A i \in k + 1..Len(new) : new[i] = s[i - k + 1]
  BY Spliced
<1> HIDE DEF new, k
<1>2. PICK i \in DOMAIN s : /\ s[i].op = "notice" /\ s[i].task = t /\ s[i].info = st
                            /\ \A j \in 1..i - 1 : s[j].op \in Safe
  BY DEF Noticing
<1>3. i # 1
  BY <1>2
<1> DEFINE n == k + i - 1
<1>4. n \in k + 1..Len(new) /\ n - k + 1 = i /\ n \in DOMAIN new
  BY <1>1, <1>2, <1>3
<1> HIDE DEF n
<1>5. new[n] = s[i]
  BY <1>1, <1>4
<1>6. ASSUME NEW j \in 1..n - 1 PROVE new[j].op \in Safe
  <2>1. CASE j \in 1..k
    BY <1>1, <2>1
  <2>2. CASE j \notin 1..k
    <3>0. i \in Int /\ k \in Int /\ j \in Int /\ Len(new) \in Int /\ n \in Int /\ n = k + i - 1
      BY <1>1, <1>2, <1>4, <1>6 DEF n
    <3>1. j \in k + 1..Len(new) /\ j - k + 1 \in 1..i - 1
      BY <1>4, <1>6, <2>2, <3>0
    <3>2. QED BY <1>1, <1>2, <3>1
  <2>3. QED BY <2>1, <2>2
<1>7. QED BY <1>2, <1>4, <1>5, <1>6 DEF Noticing, new

\* What stands before a notice.
LEMMA NoticeWaits ==
  ASSUME NEW s \in Programs, NEW t, NEW st, Noticing(s, t, st)
  PROVE  s # <<>> /\ (s[1].op \in Safe \/ (s[1].op = "notice" /\ s[1].task = t /\ s[1].info = st))
<1>1. PICK i \in DOMAIN s : /\ s[i].op = "notice" /\ s[i].task = t /\ s[i].info = st
                            /\ \A j \in 1..i - 1 : s[j].op \in Safe
  BY DEF Noticing
<1>2. i \in Nat /\ i >= 1 /\ s # <<>>
  BY DEF Programs
<1>3. i = 1 \/ 1 \in 1..i - 1
  BY <1>2
<1>4. QED BY <1>1, <1>2, <1>3

-----------------------------------------------------------------------------
(* Steps *)

\* A step of thread p that leaves its program at `new'.
Moves(p, new) == p \in Threads /\ new \in Programs /\ prog' = [prog EXCEPT ![p] = new]

\* A step of one thread leaves the other programs alone.
LEMMA ThreadMoves ==
  ASSUME Types, NEW p, NEW new, Moves(p, new)
  PROVE  /\ prog' \in [Threads -> Programs] /\ prog'[p] = new /\ prog[p] \in Programs
         /\ \A q \in Threads : q # p => prog'[q] = prog[q]
  BY DEF Types, Moves

\* The parts of a task that the handlers look at.
Same(a, b) ==
  /\ b.status = a.status /\ b.assignee = a.assignee /\ b.created_by = a.created_by
  /\ b.removed = a.removed /\ b.dispatch_count = a.dispatch_count

\* The first call of program s was not owed for task t, and what else was owed still is.
Passes(s, new, t) ==
  /\ ~HeadIs(s, "purge", t) /\ ~PutDue(s, tasks[t].assignee, t)
  /\ \A st \in Terminal : Noticing(s, t, st) => Noticing(new, t, st) \/ st \in told'[t]
  /\ ~HeadIs(new, "record", t) /\ ~(new # <<>> /\ Checked(new[1]) /\ new[1].task = t)

Noted(t) ==
  /\ t \in read' <=> t \in read
  /\ t \in lost => t \in lost'
  /\ t \in cut => t \in cut'
  /\ t \in late' <=> t \in late
  /\ t \in overlap' <=> t \in overlap
  /\ asked'[t] = asked[t] /\ told[t] \subseteq told'[t]

TaskOK(t) == Told(t) /\ Left(t) /\ Handed(t) /\ Once(t) /\ Unheard(t)

\* A step that is not about task t; a full inbox may drop one of its messages.
LEMMA DropsKeep ==
  ASSUME Types, Good(tasks), NEW t \in TaskIds, TaskOK(t), NEW p, NEW new, Moves(p, new),
         Passes(prog[p], new, t), Same(tasks[t], tasks'[t]), Noted(t),
         \A w \in Callers : ~Exists(tasks, t) => inbox'[w][t] = inbox[w][t],
         Inbox(t)' \in Nat, Inbox(t)' <= Inbox(t), Inbox(t)' = 0 => t \in lost' \/ Inbox(t) = 0
  PROVE  TaskOK(t)'
<1>0. /\ tasks[t].assignee \in Callers /\ t \in Carried
  BY DEF Good, Stores, Task, Callers, Carried
<1>1. /\ prog'[p] = new /\ p \in Threads
      /\ \A q \in Threads : q # p => prog'[q] = prog[q]
  BY ThreadMoves DEF Moves
<1>2. /\ Inbox(t)' \in Nat /\ Inbox(t) \in Nat /\ asked[t] \in Nat
      /\ Inbox(t)' <= Inbox(t) /\ (Inbox(t)' > 0 \/ t \in lost' \/ ~(Inbox(t) > 0))
      /\ Inbox(t) = 0 => Inbox(t)' = 0
  BY <1>0 DEF Inbox, Types
<1>3. Told(t)'
  BY <1>1 DEF TaskOK, Told, Passes, Same, Noted
<1>4. Left(t)'
  BY <1>1, <1>2 DEF TaskOK, Left, Passes, Same, Noted
<1>5. Handed(t)'
  BY <1>0, <1>1, <1>2 DEF TaskOK, Handed, Passes, Same, Noted, Live, Exists
<1>6. Once(t)'
  <2>1. \A q \in Threads : Filler(q, t)' => Filler(q, t)
    BY <1>1 DEF Filler, Passes
  <2>2. asked'[t] = asked[t] /\ (t \notin overlap' => t \notin overlap) /\ (Exists(tasks', t) => Exists(tasks, t))
    BY DEF Noted, Same, Exists
  <2>3. /\ Inbox(t) <= asked[t] + 1 => Inbox(t)' <= asked[t] + 1
        /\ Inbox(t) <= asked[t] => Inbox(t)' <= asked[t]
    BY <1>2
  <2>4. QED BY <2>1, <2>2, <2>3 DEF TaskOK, Once
<1>7. Unheard(t)'
  BY DEF TaskOK, Unheard, Same, Exists
<1>8. QED BY <1>3, <1>4, <1>5, <1>6, <1>7 DEF TaskOK

\* A step that is not about task t.
LEMMA CalmKeeps ==
  ASSUME Types, Good(tasks), NEW t \in TaskIds, TaskOK(t), NEW p, NEW new, Moves(p, new),
         Passes(prog[p], new, t), Same(tasks[t], tasks'[t]), Noted(t),
         \A w \in Callers : (w = tasks[t].assignee \/ ~Exists(tasks, t)) => inbox'[w][t] = inbox[w][t]
  PROVE  TaskOK(t)'
<1>1. tasks[t].assignee \in Callers /\ t \in Carried
  BY DEF Good, Stores, Task, Callers, Carried
<1>2. Inbox(t)' = Inbox(t) /\ Inbox(t) \in Nat
  BY <1>1 DEF Inbox, Same, Types
<1>3. Inbox(t)' \in Nat /\ Inbox(t)' <= Inbox(t)
  BY <1>2
<1>4. \A w \in Callers : ~Exists(tasks, t) => inbox'[w][t] = inbox[w][t]
  OBVIOUS
<1>5. QED BY <1>2, <1>3, <1>4, DropsKeep

\* The first call of a program that is not about task t, or does not touch its messages.
LEMMA PopPasses ==
  ASSUME NEW ts, NEW s, Shape(s, ts), s # <<>>, NEW t,
         s[1].task # t \/ s[1].op \notin {"put", "purge", "notice"},
         NEW first, Shape(first, ts), first = <<>> \/ s[1].op # "put",
         \/ s[1].op \notin Safe
         \/ \A i \in DOMAIN first : first[i].op \in Safe,
         ~HeadIs(first, "record", t), ~(first # <<>> /\ Checked(first[1]) /\ first[1].task = t)
  PROVE  Passes(s, first \o Tail(s), t)
<1> DEFINE new == first \o Tail(s)
           k == Len(first)
<1>1. s \in Programs /\ first \in Programs /\ InPlace(s)
  BY DEF Shape
<1>2. /\ new \in Programs /\ Len(new) = k + Len(s) - 1
      /\ DOMAIN new = 1..Len(new) /\ DOMAIN s = 1..Len(s) /\ Len(s) \in Nat \ {0}
      /\ k \in Nat /\ DOMAIN first = 1..k
      /\ \A i \in 1..k : new[i] = first[i]
      /\ \A i \in k + 1..Len(new) : new[i] = s[i - k + 1]
  BY <1>1, Spliced
<1>3. k # 0 => first # <<>>
  BY <1>1 DEF Programs
<1>4. ASSUME NEW st, Noticing(s, t, st) PROVE Noticing(new, t, st)
  <2>1. s[1].op \in Safe \/ (s[1].op = "notice" /\ s[1].task = t)
    BY <1>1, <1>4, NoticeWaits
  <2>2. s[1].op \in Safe /\ s[1].op # "notice"
    BY <2>1 DEF Safe
  <2>3. QED BY <1>1, <1>4, <2>2, NoticeMoves
<1> HIDE DEF new, k
<1>5. new # <<>> => /\ k # 0 => new[1] = first[1]
                    /\ k = 0 => new[1] = s[2] /\ 2 \in DOMAIN s
  <2> SUFFICES ASSUME new # <<>> PROVE /\ k # 0 => new[1] = first[1]
                                       /\ k = 0 => new[1] = s[2] /\ 2 \in DOMAIN s
    OBVIOUS
  <2>1. Len(new) \in Nat /\ Len(new) > 0
    BY <1>2 DEF Programs
  <2>2. k = 0 => 1 \in k + 1..Len(new) /\ 1 - k + 1 = 2 /\ 2 \in DOMAIN s
    BY <1>2, <2>1
  <2>3. k = 0 => new[1] = s[2] /\ 2 \in DOMAIN s
    BY <1>2, <2>2
  <2>4. QED BY <1>2, <2>3
<1>6. 2 \in DOMAIN s => /\ ~Checked(s[2])
                        /\ s[2].op = "record" => Puts(s[1], s[2].ws, s[2].task)
  BY <1>1 DEF InPlace
<1>7. ~HeadIs(new, "record", t) /\ ~(new # <<>> /\ Checked(new[1]) /\ new[1].task = t)
  <2>1. CASE k # 0
    <3>1. ~(first[1].op = "record" /\ first[1].task = t) /\ ~(Checked(first[1]) /\ first[1].task = t)
      BY <1>3, <2>1 DEF HeadIs
    <3>2. CASE new # <<>>
      <4>1. new[1] = first[1]
        <5>1. 1 \in 1..k
          BY <1>2, <2>1
        <5>2. QED BY <1>2, <5>1
      <4>2. QED BY <3>1, <4>1, Zenon DEF HeadIs
    <3>3. QED BY <3>2 DEF HeadIs
  <2>2. CASE k = 0
    <3>1. 2 \in DOMAIN s /\ s[2].op = "record" => s[2].task # t
      BY <1>6 DEF Puts
    <3>2. QED BY <1>5, <1>6, <2>2, <3>1 DEF HeadIs
  <2>3. QED BY <2>1, <2>2
<1>8. ~HeadIs(s, "purge", t) /\ ~PutDue(s, tasks[t].assignee, t)
  BY DEF HeadIs, PutDue, Puts
<1>9. QED BY <1>4, <1>7, <1>8 DEF Passes, new

\* A step of one thread keeps the invariant if it keeps the shape of its program and
\* what is owed for every task.
LEMMA StepKeeps ==
  ASSUME DispatchInv, Good(tasks)', Carries(tasks, tasks'), NEW p, NEW new, Moves(p, new),
         Shape(new, tasks'),
         inbox' \in [Callers -> [Carried -> Nat]], asked' \in [TaskIds -> Nat],
         told' \in [TaskIds -> SUBSET Infos],
         wake' \subseteq Callers, session' \subseteq Callers, spawned' \subseteq Callers,
         \A t \in TaskIds : TaskOK(t)'
  PROVE  DispatchInv'
<1>1. /\ prog' \in [Threads -> Programs] /\ prog'[p] = new /\ p \in Threads
      /\ \A q \in Threads : q # p => prog'[q] = prog[q]
  BY ThreadMoves DEF Moves, DispatchInv
<1>2. Types'
  BY <1>1 DEF Types
<1>3. \A q \in Threads : Shape(prog[q], tasks')
  BY ShapeHolds DEF DispatchInv, Shapes
<1>4. Shapes'
  BY <1>1, <1>3 DEF Shapes
<1>5. Owed'
  BY DEF Owed, TaskOK
<1>6. QED BY <1>2, <1>4, <1>5 DEF DispatchInv

\* A store that is left alone carries its tasks.
LEMMA SameCarries ==
  ASSUME UNCHANGED tasks
  PROVE  Carries(tasks, tasks') /\ \A t \in TaskIds : Same(tasks[t], tasks'[t])
  BY DEF Carries, Same, Exists

-----------------------------------------------------------------------------
(* The store *)

\* A refresh of rollups touches nothing the handlers look at.
LEMMA EditSame ==
  ASSUME tasks \in Stores, NEW t \in TaskIds, NEW new \in Task, NEW P, NEW stale \in BOOLEAN,
         tasks' = RefreshAll([tasks EXCEPT ![t] = new], P, stale)
  PROVE  Same(new, tasks'[t]) /\ \A x \in TaskIds : x # t => Same(tasks[x], tasks'[x])
<1> DEFINE ms == [tasks EXCEPT ![t] = new]
<1>1. ms \in Stores /\ ms[t] = new /\ \A x \in TaskIds : x # t => ms[x] = tasks[x]
  BY DEF Stores
<1>2. tasks' = RefreshAll(ms, P, stale)
  OBVIOUS
<1> HIDE DEF ms
<1>3. ASSUME NEW x \in TaskIds PROVE Same(ms[x], tasks'[x])
  <2>1. ms[x] \in Task
    BY <1>1 DEF Stores
  <2>2. tasks'[x] = IF x \in P /\ Live(ms, x) THEN Refreshed(ms, x, stale) ELSE ms[x]
    BY <1>2 DEF RefreshAll
  <2>3. Same(ms[x], Refreshed(ms, x, stale))
    BY <2>1 DEF Refreshed, Same, Task
  <2>4. Same(ms[x], ms[x])
    BY DEF Same
  <2>5. QED BY <2>2, <2>3, <2>4
<1>4. QED BY <1>1, <1>3

\* What the calls on the store do to the task they are about, and to the others.
OnlyAt(t) == \A x \in TaskIds : x # t => Same(tasks[x], tasks'[x])
Stays(t) == /\ tasks'[t].assignee = tasks[t].assignee /\ tasks'[t].created_by = tasks[t].created_by

\* update is for the assignee, and a task that has ended keeps its status.
LEMMA UpdateMoves ==
  ASSUME Good(tasks), NEW t \in TaskIds, NEW w \in Callers, NEW u \in Updates,
         NEW d \in BOOLEAN, Update(t, w, u, d)
  PROVE  /\ Good(tasks)' /\ OnlyAt(t) /\ Stays(t)
         /\ tasks'[t].removed = tasks[t].removed /\ tasks'[t].dispatch_count = tasks[t].dispatch_count
         /\ tasks'[t].status # tasks[t].status => w = tasks[t].assignee
         /\ Exists(tasks, t) /\ Exists(tasks', t)
         /\ tasks[t].status \in Terminal => tasks'[t].status = tasks[t].status
<1> DEFINE old == tasks[t]
           mid == IF w = old.assignee /\ (u.status # "none" \/ u.result # "none" \/ u.log # "none")
                  THEN MarkClaimed(old) ELSE old
           st  == IF u.status = "none" THEN mid.status ELSE u.status
           rt  == IF u.result = "none" THEN mid.result ELSE u.result
           upd == [mid EXCEPT !.status = st, !.result = rt]
           new == [upd EXCEPT !.version = @ + 1]
<1>1. tasks \in Stores /\ old \in Task
  BY TaskFacts
<1>2. Exists(tasks, t) /\ ValidateTaskUpdate(old, u, w)
  BY DEF Update
<1>3. CASE UNCHANGED tasks
  BY <1>2, <1>3, SameCarries DEF OnlyAt, Stays, Good, Exists
<1>4. CASE ~UNCHANGED tasks
  <2>1. Good(tasks)' /\ Monotone(tasks, tasks')
    BY <1>4, UpdatePreserves
  <2>2. Updated(old, u, w) = upd
    BY DEF Updated
  <2>3. tasks' = RefreshParent([tasks EXCEPT ![t] = new], t, TRUE)
    <3>1. tasks' = RefreshParent([tasks EXCEPT ![t] = [Updated(tasks[t], u, w) EXCEPT !.version = @ + 1]],
                                 t, TRUE)
      BY <1>4 DEF Update
    <3>2. [Updated(tasks[t], u, w) EXCEPT !.version = @ + 1] = new
      BY <2>2
    <3>3. QED BY <3>1, <3>2, Zenon
  <2>4. /\ mid \in Task /\ mid.status = old.status /\ mid.removed = old.removed
        /\ mid.assignee = old.assignee /\ mid.created_by = old.created_by
        /\ mid.dispatch_count = old.dispatch_count
    <3>1. /\ MarkClaimed(old) \in Task /\ MarkClaimed(old).status = old.status
          /\ MarkClaimed(old).removed = old.removed
      BY <1>1, MarkClaimedFrame
    <3>2. /\ MarkClaimed(old).assignee = old.assignee /\ MarkClaimed(old).created_by = old.created_by
          /\ MarkClaimed(old).dispatch_count = old.dispatch_count
      BY <1>1 DEF MarkClaimed, Task
    <3>3. QED BY <1>1, <3>1, <3>2
  <2> HIDE DEF mid
  <2>5. /\ st \in Statuses \union {"absent"} /\ rt \in Results
        /\ st # old.status => w = old.assignee
    <3>1. u.status \in Statuses \union {"none"} /\ u.result \in Results \union {"none"}
      BY DEF Updates
    <3>2. mid.status \in Statuses \union {"absent"} /\ mid.result \in Results
      BY <2>4 DEF Task
    <3>3. QED BY <1>2, <2>4, <3>1, <3>2 DEF ValidateTaskUpdate
  <2> HIDE DEF st, rt
  <2>6. /\ upd \in Task /\ upd.status = st /\ upd.removed = mid.removed
        /\ upd.assignee = mid.assignee /\ upd.created_by = mid.created_by
        /\ upd.dispatch_count = mid.dispatch_count
    BY <2>4, <2>5 DEF Task
  <2> HIDE DEF upd
  <2>7. upd.version + 1 \in Nat
    BY <2>6 DEF Task
  <2>8. new \in Task /\ Same(upd, new)
    BY <2>6, <2>7 DEF Task, Same
  <2> HIDE DEF new
  <2>9. Same(new, tasks'[t]) /\ OnlyAt(t)
    <3>1. tasks' = RefreshAll([tasks EXCEPT ![t] = new], {[tasks EXCEPT ![t] = new][t].parent}, TRUE)
      BY <2>3 DEF RefreshParent
    <3> DEFINE P == {[tasks EXCEPT ![t] = new][t].parent}
               yes == TRUE
    <3>2. tasks' = RefreshAll([tasks EXCEPT ![t] = new], P, yes) /\ yes \in BOOLEAN
      BY <3>1
    <3> HIDE DEF P, yes
    <3>3. QED BY <1>1, <2>8, <3>2, EditSame DEF OnlyAt
  <2>10. tasks[t].status \in Terminal => tasks'[t].status = tasks[t].status
    BY <2>1 DEF Monotone
  <2>11. Exists(tasks', t)
    <3>1. ~Exists(tasks', t) => tasks'[t] = tasks[t]
      BY <2>1 DEF Monotone
    <3>2. QED BY <1>2, <3>1 DEF Exists
  <2>12. QED BY <1>2, <2>1, <2>4, <2>5, <2>6, <2>8, <2>9, <2>10, <2>11 DEF Same, Stays
<1>5. QED BY <1>3, <1>4
\* cancel closes the task it is about.
LEMMA CancelMoves ==
  ASSUME Good(tasks), NEW t \in TaskIds, NEW w \in Callers, NEW v, Cancel(t, w, v)
  PROVE  /\ Good(tasks)' /\ OnlyAt(t) /\ Stays(t) /\ Exists(tasks, t)
         /\ tasks'[t].removed = tasks[t].removed /\ tasks'[t].status = "cancelled"
<1> DEFINE old == tasks[t]
           mid == IF w = old.assignee THEN MarkClaimed(old) ELSE old
           new == [mid EXCEPT !.status = "cancelled", !.result = "bare", !.version = @ + 1]
<1>1. tasks \in Stores /\ old \in Task /\ Exists(tasks, t) /\ Good(tasks)'
  BY TaskFacts, CancelPreserves DEF Cancel
<1>2. tasks' = RefreshParent([tasks EXCEPT ![t] = new], t, TRUE)
  BY DEF Cancel
<1>3. /\ mid \in Task /\ mid.removed = old.removed
      /\ mid.assignee = old.assignee /\ mid.created_by = old.created_by
  <2>1. MarkClaimed(old) \in Task /\ MarkClaimed(old).removed = old.removed
    BY <1>1, MarkClaimedFrame
  <2>2. MarkClaimed(old).assignee = old.assignee /\ MarkClaimed(old).created_by = old.created_by
    BY <1>1 DEF MarkClaimed, Task
  <2>3. QED BY <1>1, <2>1, <2>2
<1> HIDE DEF mid, old
<1>4. mid.version + 1 \in Nat /\ "cancelled" \in Statuses \union {"absent"} /\ "bare" \in Results
  BY <1>3 DEF Task, Statuses, Terminal, Results
<1>5. /\ new \in Task /\ new.status = "cancelled" /\ new.removed = mid.removed
      /\ new.assignee = mid.assignee /\ new.created_by = mid.created_by
  BY <1>3, <1>4 DEF Task
<1> HIDE DEF new
<1>6. Same(new, tasks'[t]) /\ OnlyAt(t)
  <2> DEFINE P == {[tasks EXCEPT ![t] = new][t].parent}
             yes == TRUE
  <2>1. tasks' = RefreshAll([tasks EXCEPT ![t] = new], P, yes) /\ yes \in BOOLEAN
    BY <1>2 DEF RefreshParent
  <2> HIDE DEF P, yes
  <2>2. QED BY <1>1, <1>5, <2>1, EditSame DEF OnlyAt
<1>7. QED BY <1>1, <1>3, <1>5, <1>6 DEF Same, Stays, old

\* remove marks a finished task.
LEMMA RemoveMoves ==
  ASSUME Good(tasks), NEW t \in TaskIds, NEW w \in Callers, NEW v, NEW stale \in BOOLEAN,
         Remove(t, w, v, stale)
  PROVE  /\ Good(tasks)' /\ OnlyAt(t) /\ Stays(t) /\ Exists(tasks, t)
         /\ tasks'[t].removed /\ tasks'[t].status = tasks[t].status
<1> DEFINE old == tasks[t]
           new == [old EXCEPT !.removed = TRUE, !.version = @ + 1]
<1>1. tasks \in Stores /\ old \in Task /\ Exists(tasks, t) /\ Good(tasks)'
  BY TaskFacts, RemovePreserves DEF Remove
<1>2. tasks' = RefreshParent([tasks EXCEPT ![t] = new], t, stale)
  BY DEF Remove
<1> HIDE DEF old
<1>3. old.version + 1 \in Nat
  BY <1>1 DEF Task
<1>4. /\ new \in Task /\ new.status = old.status /\ new.removed
      /\ new.assignee = old.assignee /\ new.created_by = old.created_by
  BY <1>1, <1>3 DEF Task
<1> HIDE DEF new
<1>5. Same(new, tasks'[t]) /\ OnlyAt(t)
  <2> DEFINE P == {[tasks EXCEPT ![t] = new][t].parent}
  <2>1. tasks' = RefreshAll([tasks EXCEPT ![t] = new], P, stale)
    BY <1>2 DEF RefreshParent
  <2> HIDE DEF P
  <2>2. QED BY <1>1, <1>4, <2>1, EditSame DEF OnlyAt
<1>6. QED BY <1>1, <1>4, <1>5, Zenon DEF Same, Stays, old

\* retry puts an open task back to pending.
LEMMA RetryMoves ==
  ASSUME Good(tasks), NEW t \in TaskIds, NEW w \in Callers, NEW v, Retry(t, w, v)
  PROVE  /\ Good(tasks)' /\ OnlyAt(t) /\ Stays(t) /\ Exists(tasks, t)
         /\ tasks'[t].removed = tasks[t].removed /\ tasks'[t].status = "pending"
<1> DEFINE old == tasks[t]
           new == [old EXCEPT !.status = "pending", !.result = "empty", !.claimed = FALSE,
                              !.version = @ + 1]
<1>1. tasks \in Stores /\ old \in Task /\ Exists(tasks, t) /\ Good(tasks)'
  BY TaskFacts, RetryPreserves DEF Retry
<1>2. tasks' = RefreshParent([tasks EXCEPT ![t] = new], t, TRUE)
  BY DEF Retry
<1> HIDE DEF old
<1>3. old.version + 1 \in Nat /\ "pending" \in Statuses \union {"absent"} /\ "empty" \in Results
  BY <1>1 DEF Task, Statuses, Open, Results
<1>4. /\ new \in Task /\ new.status = "pending" /\ new.removed = old.removed
      /\ new.assignee = old.assignee /\ new.created_by = old.created_by
  BY <1>1, <1>3 DEF Task
<1> HIDE DEF new
<1>5. Same(new, tasks'[t]) /\ OnlyAt(t)
  <2> DEFINE P == {[tasks EXCEPT ![t] = new][t].parent}
             yes == TRUE
  <2>1. tasks' = RefreshAll([tasks EXCEPT ![t] = new], P, yes) /\ yes \in BOOLEAN
    BY <1>2 DEF RefreshParent
  <2> HIDE DEF P, yes
  <2>2. QED BY <1>1, <1>4, <2>1, EditSame DEF OnlyAt
<1>6. QED BY <1>1, <1>4, <1>5 DEF Same, Stays, old

\* A heartbeat touches nothing the handlers look at.
LEMMA ActivityMoves ==
  ASSUME Good(tasks), NEW t \in TaskIds, NEW w, MarkToolActivity(t, w)
  PROVE  Good(tasks)' /\ \A x \in TaskIds : Same(tasks[x], tasks'[x])
<1>1. tasks \in Stores /\ tasks[t] \in Task /\ Good(tasks)'
  BY TaskFacts, ActivityPreserves
<1>2. tasks' = [tasks EXCEPT ![t] = [tasks[t] EXCEPT !.version = @ + 1]]
  BY <1>1 DEF MarkToolActivity, Stores
<1>3. Same(tasks[t], [tasks[t] EXCEPT !.version = @ + 1])
  BY <1>1 DEF Same, Task
<1>4. QED BY <1>1, <1>2, <1>3 DEF Same, Stores

\* A recorded dispatch counts.
LEMMA RecordMoves ==
  ASSUME Good(tasks), NEW t \in TaskIds, NEW w, RecordDispatch(t, w)
  PROVE  /\ Good(tasks)' /\ OnlyAt(t) /\ Stays(t) /\ Exists(tasks, t)
         /\ tasks'[t].removed = tasks[t].removed /\ tasks'[t].status = tasks[t].status
<1>1. tasks \in Stores /\ tasks[t] \in Task /\ Good(tasks)'
  BY TaskFacts, ActivityPreserves
<1>2. tasks' = [tasks EXCEPT ![t] = [tasks[t] EXCEPT !.dispatch_count = @ + 1, !.version = @ + 1]]
  BY <1>1 DEF RecordDispatch, Stores
<1>3. QED BY <1>1, <1>2 DEF Same, Stores, Task, OnlyAt, Stays, RecordDispatch, Live

\* A new task is pending and was never handed out.
LEMMA CreateMoves ==
  ASSUME Good(tasks), NEW t \in TaskIds, NEW w \in Callers, NEW a \in Workspaces,
         Create(t, w, a, NoTask)
  PROVE  /\ Good(tasks)' /\ OnlyAt(t) /\ ~Exists(tasks, t)
         /\ tasks'[t].status = "pending" /\ tasks'[t].assignee = a
         /\ tasks'[t].dispatch_count = 0
<1> DEFINE new == [status |-> "pending", assignee |-> a, created_by |-> w, parent |-> NoTask,
                   children |-> {}, rollup |-> NoRollup, claimed |-> FALSE,
                   dispatch_count |-> 0, attempt_count |-> 0, result |-> "empty",
                   removed |-> FALSE, version |-> 1]
           ms == [x \in TaskIds |->
                      IF x = t THEN new
                      ELSE IF x = NoTask
                      THEN [tasks[x] EXCEPT !.children = @ \union {t}, !.version = @ + 1]
                      ELSE tasks[x]]
<1>1. tasks \in Stores /\ ~Exists(tasks, t) /\ Good(tasks)'
  <2>1. NoTask \in TaskIds \union {NoTask}
    OBVIOUS
  <2>2. Good(tasks)'
    BY <2>1, CreatePreserves
  <2>3. QED BY <2>2, TaskFacts DEF Create
<1>2. tasks' = RefreshParent(ms, t, TRUE)
  BY DEF Create
<1>3. /\ ms[t] = new /\ ms[t].parent = NoTask
      /\ \A x \in TaskIds : x # t => ms[x] = tasks[x]
  BY TaskStoreAssumption
<1>4. new.status = "pending" /\ new.assignee = a /\ new.dispatch_count = 0
  OBVIOUS
<1> HIDE DEF ms, new
<1>5. \A x \in TaskIds : tasks'[x] = ms[x]
  BY <1>2, <1>3, TaskStoreAssumption DEF RefreshParent, RefreshAll
<1>6. QED BY <1>1, <1>3, <1>4, <1>5 DEF OnlyAt, Same

\* The recovery pass puts running tasks back to pending.
LEMMA RecoverMoves ==
  ASSUME Good(tasks), NEW live, RecoverStale(live)
  PROVE  /\ Good(tasks)'
         /\ \A x \in TaskIds :
              /\ Stays(x) /\ tasks'[x].removed = tasks[x].removed
              /\ tasks'[x].dispatch_count = tasks[x].dispatch_count
              /\ \/ tasks'[x].status = tasks[x].status
                 \/ tasks[x].status = "in_progress" /\ tasks'[x].status = "pending"
<1> DEFINE ids == StaleInProgress(live)
           P   == {tasks[t].parent : t \in ids}
           ms  == [t \in TaskIds |->
                     IF t \in ids
                     THEN [tasks[t] EXCEPT !.status = "pending", !.claimed = FALSE, !.version = @ + 1]
                     ELSE tasks[t]]
           yes == TRUE
<1>1. tasks \in Stores /\ Good(tasks)'
  BY RecoverPreserves DEF Good
<1>2. tasks' = RefreshAll(ms, P, yes)
  BY DEF RecoverStale
<1>3. ASSUME NEW x \in TaskIds
      PROVE  /\ ms[x] \in Task /\ tasks[x] \in Task
             /\ ms[x].assignee = tasks[x].assignee /\ ms[x].created_by = tasks[x].created_by
             /\ ms[x].removed = tasks[x].removed /\ ms[x].dispatch_count = tasks[x].dispatch_count
             /\ \/ ms[x].status = tasks[x].status
                \/ tasks[x].status = "in_progress" /\ ms[x].status = "pending"
  <2> DEFINE old == tasks[x]
             new == [old EXCEPT !.status = "pending", !.claimed = FALSE, !.version = @ + 1]
  <2>1. old \in Task /\ (x \in ids => old.status = "in_progress")
    BY <1>1 DEF Stores, StaleInProgress
  <2>2. ms[x] = IF x \in ids THEN new ELSE old
    OBVIOUS
  <2> HIDE DEF old, ids, ms
  <2>3. old.version + 1 \in Nat /\ "pending" \in Statuses \union {"absent"}
    BY <2>1 DEF Task, Statuses, Open
  <2>4. /\ new \in Task /\ new.status = "pending" /\ new.removed = old.removed
        /\ new.assignee = old.assignee /\ new.created_by = old.created_by
        /\ new.dispatch_count = old.dispatch_count
    BY <2>1, <2>3 DEF Task
  <2> HIDE DEF new
  <2>5. QED BY <2>1, <2>2, <2>4 DEF old
<1> HIDE DEF ms, P, yes
<1>4. ASSUME NEW x \in TaskIds PROVE Same(ms[x], tasks'[x])
  <2>1. tasks'[x] = IF x \in P /\ Live(ms, x) THEN Refreshed(ms, x, yes) ELSE ms[x]
    BY <1>2 DEF RefreshAll
  <2>2. Same(ms[x], Refreshed(ms, x, yes))
    BY <1>3 DEF Refreshed, Same, Task
  <2>3. QED BY <2>1, <2>2 DEF Same
<1>5. QED BY <1>1, <1>3, <1>4 DEF Same, Stays

-----------------------------------------------------------------------------
(* The programs of the handlers *)

\* The parts of a concatenation.
LEMMA Joined ==
  ASSUME NEW a \in Programs, NEW b \in Programs
  PROVE  /\ a \o b \in Programs /\ Len(a \o b) = Len(a) + Len(b)
         /\ Len(a) \in Nat /\ Len(b) \in Nat
         /\ DOMAIN (a \o b) = 1..Len(a) + Len(b) /\ DOMAIN a = 1..Len(a) /\ DOMAIN b = 1..Len(b)
         /\ \A i \in 1..Len(a) : (a \o b)[i] = a[i]
         /\ \A i \in Len(a) + 1..Len(a) + Len(b) : (a \o b)[i] = b[i - Len(a)]
<1>1. Len(a) \in Nat /\ Len(b) \in Nat /\ a \o b \in Programs /\ DOMAIN a = 1..Len(a) /\ DOMAIN b = 1..Len(b)
  BY DEF Programs
<1>2. Len(a \o b) = Len(a) + Len(b)
  BY ConcatProperties DEF Programs
<1>3. \A i \in 1..Len(a) + Len(b) : (a \o b)[i] = IF i <= Len(a) THEN a[i] ELSE b[i - Len(a)]
  BY DEF Programs
<1>4. DOMAIN (a \o b) = 1..Len(a) + Len(b)
  BY <1>1, <1>2 DEF Programs
<1>5. QED BY <1>1, <1>2, <1>3, <1>4

\* Calls that need no particular place.
Plain(c, ts) == c \in CallRec /\ Known(c, ts) /\ c.op \notin {"purge", "record"} /\ ~Checked(c)
Easy(s, ts)  == s \in Programs /\ \A i \in DOMAIN s : Plain(s[i], ts)

\* A program of such calls is well shaped.
LEMMA EasyShape ==
  ASSUME NEW ts, NEW s, Easy(s, ts)
  PROVE  Shape(s, ts) /\ (s # <<>> => s[1].op \notin {"purge", "record"} /\ ~Checked(s[1]))
<1>1. s # <<>> => 1 \in DOMAIN s
  BY DEF Easy, Programs
<1>2. InPlace(s)
  BY DEF Easy, Plain, InPlace
<1>3. Justified(s, ts)
  BY <1>1 DEF Easy, Plain, Justified
<1>4. QED BY <1>1, <1>2, <1>3 DEF Easy, Plain, Shape

\* Such calls may follow each other.
LEMMA EasyJoin ==
  ASSUME NEW ts, NEW a, Easy(a, ts), NEW b, Easy(b, ts)
  PROVE  Easy(a \o b, ts)
<1> DEFINE s == a \o b
           k == Len(a)
           m == Len(b)
<1>1. a \in Programs /\ b \in Programs
  BY DEF Easy
<1>2. /\ s \in Programs /\ k \in Nat /\ m \in Nat
      /\ DOMAIN s = 1..k + m /\ DOMAIN a = 1..k /\ DOMAIN b = 1..m
      /\ \A i \in 1..k : s[i] = a[i]
      /\ \A i \in k + 1..k + m : s[i] = b[i - k]
  BY <1>1, Joined
<1> HIDE DEF s, k, m
<1>3. ASSUME NEW i \in DOMAIN s
      PROVE  \/ i \in DOMAIN a /\ s[i] = a[i]
             \/ i - k \in DOMAIN b /\ s[i] = b[i - k]
  <2>1. i \in 1..k \/ (i \in k + 1..k + m /\ i - k \in 1..m)
    BY <1>2, <1>3
  <2>2. QED BY <1>2, <2>1
<1>4. QED BY <1>2, <1>3 DEF Easy, s

\* A program keeps its shape when such calls follow.
LEMMA ShapeJoin ==
  ASSUME NEW ts, NEW a, Shape(a, ts), a # <<>>, NEW b, Easy(b, ts)
  PROVE  Shape(a \o b, ts) /\ a \o b # <<>> /\ (a \o b)[1] = a[1]
<1> DEFINE s == a \o b
           k == Len(a)
           m == Len(b)
<1>1. a \in Programs /\ b \in Programs /\ Shape(b, ts)
  BY EasyShape DEF Easy, Shape
<1>2. /\ s \in Programs /\ Len(s) = k + m /\ k \in Nat /\ m \in Nat
      /\ DOMAIN s = 1..k + m /\ DOMAIN a = 1..k /\ DOMAIN b = 1..m
      /\ \A i \in 1..k : s[i] = a[i]
      /\ \A i \in k + 1..k + m : s[i] = b[i - k]
  BY <1>1, Joined
<1>3. k # 0
  BY <1>1 DEF Programs
<1> HIDE DEF s, k, m
<1>4. ASSUME NEW i \in DOMAIN s
      PROVE  \/ i \in DOMAIN a /\ s[i] = a[i]
             \/ i \notin DOMAIN a /\ i - k \in DOMAIN b /\ s[i] = b[i - k]
  <2>1. i \in 1..k \/ (i \in k + 1..k + m /\ i - k \in 1..m /\ i \notin 1..k)
    BY <1>2, <1>4
  <2>2. QED BY <1>2, <2>1
<1>5. \A i \in DOMAIN s : Known(s[i], ts)
  BY <1>4 DEF Shape, Easy, Plain
<1>6. InPlace(s)
  <2> SUFFICES ASSUME NEW i \in DOMAIN s, i > 1
               PROVE  /\ s[i].op # "purge" /\ ~Checked(s[i])
                      /\ s[i].op = "record" => Puts(s[i-1], s[i].ws, s[i].task)
    BY DEF InPlace
  <2>1. CASE i \in DOMAIN a /\ s[i] = a[i]
    <3>1. s[i-1] = a[i-1]
      <4>1. i - 1 \in 1..k
        BY <1>2, <2>1
      <4>2. QED BY <1>2, <4>1
    <3>2. QED BY <2>1, <3>1 DEF Shape, InPlace
  <2>2. CASE i - k \in DOMAIN b /\ s[i] = b[i - k]
    BY <2>2 DEF Easy, Plain
  <2>3. QED BY <1>4, <2>1, <2>2
<1>7. s # <<>> /\ s[1] = a[1]
  <2>1. 1 \in 1..k
    BY <1>2, <1>3
  <2>2. s[1] = a[1]
    BY <1>2, <2>1
  <2>3. Len(s) # 0
    BY <1>2, <1>3
  <2>4. QED BY <2>2, <2>3, <1>2 DEF Programs
<1>8. Len(a) > 1 => Len(s) > 1 /\ s[2] = a[2]
  <2>1. k > 1 => 2 \in 1..k /\ k + m > 1
    BY <1>2
  <2>2. QED BY <1>2, <2>1 DEF k
<1>9. Justified(s, ts)
  BY <1>7, <1>8 DEF Shape, Justified
<1>10. QED BY <1>2, <1>5, <1>6, <1>7, <1>9 DEF Shape, s

\* The empty program.
LEMMA Nothing ==
  ASSUME NEW ts
  PROVE  Easy(<<>>, ts) /\ Shape(<<>>, ts)
<1>1. <<>> \in Programs /\ DOMAIN <<>> = {}
  BY DEF Programs
<1>2. Easy(<<>>, ts)
  BY <1>1 DEF Easy
<1>3. QED BY <1>2, EasyShape

\* Programs of one, two and three such calls.
LEMMA EasyOne ==
  ASSUME NEW ts, NEW c, Plain(c, ts)
  PROVE  Easy(<<c>>, ts)
  BY DEF Easy, Programs, Plain

\* Two such calls.
LEMMA EasyTwo ==
  ASSUME NEW ts, NEW c, Plain(c, ts), NEW d, Plain(d, ts)
  PROVE  Easy(<<c, d>>, ts)
<1>1. <<c, d>> \in Programs
  BY DEF Programs, Plain
<1>2. DOMAIN <<c, d>> = {1, 2} /\ <<c, d>>[1] = c /\ <<c, d>>[2] = d
  OBVIOUS
<1>3. QED BY <1>1, <1>2 DEF Easy

\* Three such calls.
LEMMA EasyThree ==
  ASSUME NEW ts, NEW c, Plain(c, ts), NEW d, Plain(d, ts), NEW e, Plain(e, ts)
  PROVE  Easy(<<c, d, e>>, ts)
<1>1. <<c, d, e>> \in Programs
  BY DEF Programs, Plain
<1>2. DOMAIN <<c, d, e>> = {1, 2, 3} /\ <<c, d, e>>[1] = c /\ <<c, d, e>>[2] = d /\ <<c, d, e>>[3] = e
  OBVIOUS
<1>3. QED BY <1>1, <1>2 DEF Easy

-----------------------------------------------------------------------------
(* Steps that no task takes notice of *)

Idle == wake' \subseteq Callers /\ session' \subseteq Callers /\ spawned' \subseteq Callers

\* A step that changes no task the handlers look at, no inbox and no note.
LEMMA QuietStep ==
  ASSUME DispatchInv, Good(tasks)', \A x \in TaskIds : Same(tasks[x], tasks'[x]),
         NEW p, NEW new, Moves(p, new), Shape(new, tasks),
         \A t \in TaskIds : Passes(prog[p], new, t),
         UNCHANGED <<inbox, note>>,
         Idle
  PROVE  DispatchInv'
<1>1. Carries(tasks, tasks')
  BY DEF Carries, Same, Exists
<1>2. Shape(new, tasks')
  BY <1>1, ShapeHolds
<1>3. ASSUME NEW t \in TaskIds PROVE TaskOK(t)'
  <2>1. TaskOK(t) /\ Types /\ Good(tasks)
    BY DEF DispatchInv, Owed, TaskOK
  <2>2. Noted(t) /\ inbox' = inbox
    BY DEF Noted, note
  <2>3. QED BY <2>1, <2>2, CalmKeeps
<1>4. /\ inbox' \in [Callers -> [Carried -> Nat]] /\ asked' \in [TaskIds -> Nat]
      /\ told' \in [TaskIds -> SUBSET Infos]
  BY DEF DispatchInv, Types, note
<1>5. QED BY <1>1, <1>2, <1>3, <1>4, StepKeeps DEF Idle

\* A handler begins with calls that need no particular place.
LEMMA QuietRequest ==
  ASSUME DispatchInv, Good(tasks)', \A x \in TaskIds : Same(tasks[x], tasks'[x]),
         NEW p \in Threads, prog[p] = <<>>, NEW new, Easy(new, tasks),
         prog' = [prog EXCEPT ![p] = new], UNCHANGED <<inbox, note>>,
         Idle
  PROVE  DispatchInv'
<1>1. /\ Shape(new, tasks) /\ new \in Programs
      /\ new # <<>> => new[1].op \notin {"purge", "record"} /\ ~Checked(new[1])
  BY EasyShape DEF Easy
<1>2. Moves(p, new)
  BY <1>1 DEF Moves
<1>3. ASSUME NEW t \in TaskIds PROVE Passes(prog[p], new, t)
  <2>1. DOMAIN prog[p] = {}
    OBVIOUS
  <2>2. \A st : ~Noticing(prog[p], t, st)
    BY <2>1 DEF Noticing
  <2>3. QED BY <1>1, <2>2 DEF Passes, HeadIs, PutDue
<1>4. QED BY <1>1, <1>2, <1>3, QuietStep

\* A call that is no message, no notice and no purge is made.
LEMMA QuietPop ==
  ASSUME DispatchInv, UNCHANGED tasks, NEW p \in Threads, prog[p] # <<>>,
         Now(p).op \notin {"put", "purge", "notice"},
         NEW first, Easy(first, tasks),
         Now(p).op \notin Safe \/ \A i \in DOMAIN first : first[i].op \in Safe,
         Continue(p, first), UNCHANGED <<inbox, note>>,
         Idle
  PROVE  DispatchInv'
<1> DEFINE s == prog[p]
           new == first \o Tail(s)
<1>1. s \in Programs /\ Shape(s, tasks) /\ Good(tasks)
  BY DEF DispatchInv, Shapes, Shape
<1>2. s[1] = Now(p) /\ s # <<>>
  BY <1>1 DEF Now, Programs
<1>3. /\ Shape(first, tasks) /\ first \in Programs
      /\ first # <<>> => first[1].op \notin {"purge", "record"} /\ ~Checked(first[1])
  BY EasyShape DEF Easy
<1>4. prog' = [prog EXCEPT ![p] = new]
  BY DEF Continue, DispatchInv, Types
<1> HIDE DEF s
<1>5. Shape(new, tasks) /\ new \in Programs
  <2>1. Shape(new, tasks)
    BY <1>1, <1>2, <1>3, ShapeMoves
  <2>2. QED BY <2>1 DEF Shape
<1>6. ASSUME NEW t \in TaskIds PROVE Passes(s, new, t)
  <2>1. /\ ~HeadIs(first, "record", t) /\ ~(first # <<>> /\ Checked(first[1]) /\ first[1].task = t)
        /\ s[1].op \notin {"put", "purge", "notice"} /\ s[1].op # "put"
        /\ s[1].op \notin Safe \/ \A i \in DOMAIN first : first[i].op \in Safe
    BY <1>2, <1>3 DEF HeadIs
  <2>2. QED BY <1>1, <1>2, <1>3, <2>1, PopPasses
<1> HIDE DEF new
<1>7. Moves(p, new) /\ Good(tasks)' /\ \A x \in TaskIds : Same(tasks[x], tasks'[x])
  BY <1>1, <1>4, <1>5, SameCarries DEF Moves, Good
<1>8. QED BY <1>5, <1>6, <1>7, QuietStep DEF s

\* A handler that fails drops the rest of its program.
LEMMA DropKeeps ==
  ASSUME DispatchInv, UNCHANGED tasks, NEW p \in Threads, prog[p] # <<>>,
         Now(p).op \in {"ensure", "retry"},
         prog' = [prog EXCEPT ![p] = <<>>], UNCHANGED <<inbox, note>>,
         Idle
  PROVE  DispatchInv'
<1> DEFINE s == prog[p]
           new == <<>>
<1>1. s \in Programs /\ Good(tasks)
  BY DEF DispatchInv, Shapes, Shape
<1>2. s[1] = Now(p) /\ s # <<>> /\ s[1].op \notin Safe \union {"notice", "put", "purge"}
  <2>1. s[1] = Now(p)
    BY <1>1 DEF Now, Programs
  <2>2. QED BY <2>1 DEF Safe
<1>3. Shape(new, tasks) /\ new \in Programs
  BY Nothing DEF Easy
<1>4. ASSUME NEW t \in TaskIds PROVE Passes(s, new, t)
  <2>1. \A st : ~Noticing(s, t, st)
    BY <1>1, <1>2, NoticeWaits
  <2>2. QED BY <1>2, <2>1 DEF Passes, HeadIs, PutDue, Puts
<1>5. Moves(p, new) /\ Good(tasks)' /\ \A x \in TaskIds : Same(tasks[x], tasks'[x])
  BY <1>1, <1>3, SameCarries DEF Moves, Good
<1> HIDE DEF new
<1>6. QED BY <1>3, <1>4, <1>5, QuietStep

\* Wakes and sessions come and go.
LEMMA IdleKeeps ==
  ASSUME DispatchInv, UNCHANGED <<tasks, inbox, prog, note>>,
         Idle
  PROVE  DispatchInv'
<1>1. Types' /\ Good(tasks)'
  BY DEF DispatchInv, Types, note, Good, Idle
<1>2. Shapes'
  BY DEF DispatchInv, Shapes
<1>3. ASSUME NEW t \in TaskIds PROVE Told(t)' /\ Left(t)' /\ Handed(t)' /\ Once(t)' /\ Unheard(t)'
  <2>1. Told(t) /\ Left(t) /\ Handed(t) /\ Once(t) /\ Unheard(t)
    BY DEF DispatchInv, Owed
  <2>2. /\ read' = read /\ lost' = lost /\ late' = late /\ overlap' = overlap
        /\ asked' = asked /\ told' = told /\ cut' = cut
    BY DEF note
  <2>3. Told(t)' /\ Left(t)'
    BY <2>1, <2>2 DEF Told, Left, Inbox
  <2>4. Handed(t)'
    BY <2>1, <2>2 DEF Handed, Inbox, Live, Exists
  <2>5. Once(t)' /\ Unheard(t)'
    BY <2>1, <2>2 DEF Once, Unheard, Inbox, Exists, Filler
  <2>6. QED BY <2>3, <2>4, <2>5
<1>4. QED BY <1>1, <1>2, <1>3 DEF DispatchInv, Owed

-----------------------------------------------------------------------------
(* Quiet handlers *)

\* The calls that need no particular place.
LEMMA PlainCalls ==
  ASSUME NEW ts, NEW w \in Callers, NEW m \in Carried, m # NoTask => Exists(ts, m)
  PROVE  /\ \A op \in {"schedule", "ensure", "spawn", "peek", "refill", "dequeue", "settle", "cancel"} :
              Plain(Call(op, w, m), ts)
         /\ Plain(Tell("put", w, m, "asked"), ts)
         /\ m # NoTask /\ w = ts[m].assignee => Plain(Call("find", w, m), ts)
         /\ m # NoTask /\ w # ts[m].assignee =>
              \A st \in Statuses : Plain(Tell("notice", w, m, st), ts)
         /\ m # NoTask => \A v \in Nat : Plain([op |-> "retry", ws |-> w, task |-> m, info |-> v], ts)
<1>1. ASSUME NEW op \in {"schedule", "ensure", "spawn", "peek", "refill", "dequeue", "settle", "cancel"}
      PROVE  Plain(Call(op, w, m), ts)
  BY <1>1 DEF Plain, Call, CallRec, Known, Checked, Ops, Infos
<1>2. Plain(Tell("put", w, m, "asked"), ts)
  BY DEF Plain, Tell, CallRec, Known, Checked, Ops, Infos
<1>3. ASSUME m # NoTask, w = ts[m].assignee PROVE Plain(Call("find", w, m), ts)
  BY <1>3 DEF Plain, Call, CallRec, Known, Checked, Ops, Infos
<1>4. ASSUME m # NoTask, w # ts[m].assignee, NEW st \in Statuses
      PROVE  Plain(Tell("notice", w, m, st), ts)
  BY <1>4 DEF Plain, Tell, CallRec, Known, Checked, Ops, Infos
<1>5. ASSUME m # NoTask, NEW v \in Nat
      PROVE  Plain([op |-> "retry", ws |-> w, task |-> m, info |-> v], ts)
  BY <1>5 DEF Plain, CallRec, Known, Checked, Ops, Infos
<1>6. QED BY <1>1, <1>2, <1>3, <1>4, <1>5

\* What a step that leaves the store and the sessions alone keeps.
LEMMA StillFacts ==
  ASSUME DispatchInv, UNCHANGED tasks, UNCHANGED <<wake, session, spawned>>
  PROVE  Idle /\ Good(tasks)' /\ \A x \in TaskIds : Same(tasks[x], tasks'[x])
  BY SameCarries DEF Idle, DispatchInv, Types, Good

\* send_message.
LEMMA SendKeeps ==
  ASSUME DispatchInv, NEW c \in Callers, NEW to \in Callers, NEW m \in Carried, NEW config \in BOOLEAN,
         SendMessage(c, to, m, config)
  PROVE  DispatchInv'
<1> DEFINE a == <<Tell("put", to, m, "asked"), Call("schedule", to, NoTask)>>
           b == IF config THEN <<Call("ensure", to, NoTask)>> ELSE <<>>
<1>1. /\ UNCHANGED tasks /\ UNCHANGED <<inbox, note>> /\ UNCHANGED <<wake, session, spawned>>
      /\ m # NoTask => Exists(tasks, m)
      /\ prog[c] = <<>> /\ prog' = [prog EXCEPT ![c] = a \o b]
  BY DEF SendMessage, Request, PlanSendMessage
<1>2. NoTask \in Carried /\ c \in Threads
  BY DEF Carried, Threads
<1>3. Easy(a, tasks)
  BY <1>1, <1>2, PlainCalls, EasyTwo
<1>4. Easy(b, tasks)
  BY <1>2, PlainCalls, EasyOne, Nothing
<1> HIDE DEF a, b
<1>5. Easy(a \o b, tasks)
  BY <1>3, <1>4, EasyJoin
<1>6. Idle /\ Good(tasks)' /\ \A x \in TaskIds : Same(tasks[x], tasks'[x])
  BY <1>1, StillFacts
<1>7. QED BY <1>1, <1>2, <1>5, <1>6, QuietRequest

\* read_messages.
LEMMA ReadKeeps ==
  ASSUME DispatchInv, NEW c \in Callers, ReadMessages(c)
  PROVE  DispatchInv'
<1> DEFINE a == IF Empty(c) THEN <<Call("peek", c, NoTask)>> ELSE <<>>
           b == <<Call("dequeue", c, NoTask), Call("settle", c, NoTask)>>
<1>1. /\ UNCHANGED tasks /\ UNCHANGED <<inbox, note>> /\ UNCHANGED <<wake, session, spawned>>
      /\ prog[c] = <<>> /\ prog' = [prog EXCEPT ![c] = a \o b]
  BY DEF ReadMessages, Request
<1>2. NoTask \in Carried /\ c \in Threads
  BY DEF Carried, Threads
<1>3. Easy(a, tasks)
  BY <1>2, PlainCalls, EasyOne, Nothing
<1>4. Easy(b, tasks)
  BY <1>2, PlainCalls, EasyTwo
<1> HIDE DEF a, b
<1>5. Easy(a \o b, tasks)
  BY <1>3, <1>4, EasyJoin
<1>6. Idle /\ Good(tasks)' /\ \A x \in TaskIds : Same(tasks[x], tasks'[x])
  BY <1>1, StillFacts
<1>7. QED BY <1>1, <1>2, <1>5, <1>6, QuietRequest

\* A completion that is refused queues a reminder.
LEMMA RefuseKeeps ==
  ASSUME DispatchInv, NEW c \in Callers, NEW t \in TaskIds, RefuseCompletion(c, t)
  PROVE  DispatchInv'
<1> DEFINE a == <<Tell("put", c, t, "asked")>>
<1>1. /\ UNCHANGED tasks /\ UNCHANGED <<inbox, note>> /\ UNCHANGED <<wake, session, spawned>>
      /\ prog[c] = <<>> /\ prog' = [prog EXCEPT ![c] = a] /\ Exists(tasks, t)
  BY DEF RefuseCompletion, Request, Live
<1>2. t \in Carried /\ c \in Threads
  BY DEF Carried, Threads
<1>3. Easy(a, tasks)
  BY <1>1, <1>2, PlainCalls, EasyOne
<1> HIDE DEF a
<1>4. Idle /\ Good(tasks)' /\ \A x \in TaskIds : Same(tasks[x], tasks'[x])
  BY <1>1, StillFacts
<1>5. QED BY <1>1, <1>2, <1>3, <1>4, QuietRequest

\* intervene_task, up to its retry.
LEMMA InterveneKeeps ==
  ASSUME DispatchInv, NEW c \in Callers, NEW t \in TaskIds, NEW action \in {"wake", "retry"},
         InterveneTask(c, t, action, tasks[t].version)
  PROVE  DispatchInv'
<1> DEFINE v == tasks[t].version
           a == IF action = "wake" THEN DispatchTaskWake(t)
                ELSE <<[op |-> "retry", ws |-> c, task |-> t, info |-> v]>>
<1>1. /\ UNCHANGED tasks /\ UNCHANGED <<inbox, note>> /\ UNCHANGED <<wake, session, spawned>>
      /\ prog[c] = <<>> /\ prog' = [prog EXCEPT ![c] = a] /\ Exists(tasks, t)
  BY DEF InterveneTask, Request
<1>2. t \in Carried /\ c \in Threads /\ t # NoTask
  BY TaskStoreAssumption DEF Carried, Threads
<1>3. v \in Nat /\ tasks[t].assignee \in Callers
  BY TaskFacts DEF DispatchInv, Task, Callers
<1> HIDE DEF v
<1>4. Easy(DispatchTaskWake(t), tasks)
  <2> DEFINE w == tasks[t].assignee
  <2>1. /\ Plain(Call("find", w, t), tasks) /\ Plain(Call("schedule", w, t), tasks)
        /\ Plain(Call("spawn", w, t), tasks)
    BY <1>1, <1>2, <1>3, PlainCalls
  <2>2. Easy(<<Call("find", w, t), Call("schedule", w, t), Call("spawn", w, t)>>, tasks)
    BY <2>1, EasyThree
  <2>3. QED BY <2>2, Nothing DEF DispatchTaskWake
<1>5. Easy(<<[op |-> "retry", ws |-> c, task |-> t, info |-> v]>>, tasks)
  BY <1>1, <1>2, <1>3, PlainCalls, EasyOne
<1>6. Easy(a, tasks)
  BY <1>4, <1>5
<1> HIDE DEF a
<1>7. Idle /\ Good(tasks)' /\ \A x \in TaskIds : Same(tasks[x], tasks'[x])
  BY <1>1, StillFacts
<1>8. QED BY <1>1, <1>2, <1>6, <1>7, QuietRequest

\* record_mcp_tool_activity with a task id.
LEMMA ActivityKeeps ==
  ASSUME DispatchInv, NEW c \in Callers, NEW t \in TaskIds, RecordToolActivity(c, t)
  PROVE  DispatchInv'
<1>1. /\ MarkToolActivity(t, c) /\ UNCHANGED <<inbox, note>> /\ UNCHANGED <<wake, session, spawned>>
      /\ prog[c] = <<>> /\ prog' = [prog EXCEPT ![c] = <<>>] /\ c \in Threads
  BY DEF RecordToolActivity, Request, Threads
<1>2. Good(tasks)' /\ \A x \in TaskIds : Same(tasks[x], tasks'[x])
  BY <1>1, ActivityMoves DEF DispatchInv
<1>3. Easy(<<>>, tasks)
  BY Nothing
<1>4. Idle
  BY <1>1 DEF Idle, DispatchInv, Types
<1>5. QED BY <1>1, <1>2, <1>3, <1>4, QuietRequest

\* A due wake of an empty inbox.
LEMMA TickKeeps ==
  ASSUME DispatchInv, NEW w \in Callers, WakeTick(w)
  PROVE  DispatchInv'
<1> DEFINE a == <<Call("refill", w, NoTask), Call("settle", w, NoTask)>>
<1>1. /\ UNCHANGED tasks /\ UNCHANGED <<inbox, note>> /\ UNCHANGED <<wake, session, spawned>>
      /\ prog[Waker] = <<>> /\ prog' = [prog EXCEPT ![Waker] = a]
  BY DEF WakeTick
<1>2. NoTask \in Carried /\ Waker \in Threads
  BY DEF Carried, Threads
<1>3. Easy(a, tasks)
  BY <1>2, PlainCalls, EasyTwo
<1> HIDE DEF a
<1>4. Idle /\ Good(tasks)' /\ \A x \in TaskIds : Same(tasks[x], tasks'[x])
  BY <1>1, StillFacts
<1>5. QED BY <1>1, <1>2, <1>3, <1>4, QuietRequest

\* An order of a finite set is a list of its members.
LEMMA OrdersAreLists ==
  ASSUME NEW set, IsFiniteSet(set), NEW f \in Orders(set)
  PROVE  Len(f) \in Nat /\ DOMAIN f = 1..Len(f) /\ \A i \in DOMAIN f : f[i] \in set
<1> DEFINE n == Cardinality(set)
<1>1. n \in Nat
  BY FS_CardinalityType
<1> HIDE DEF n
<1>2. f \in [1..n -> set]
  BY DEF Orders, n
<1>3. f \in Seq(set) /\ Len(f) = n
  BY <1>1, <1>2
<1>4. QED BY <1>1, <1>2, <1>3

\* broadcast: one message after another, in any order.
LEMMA BroadcastKeeps ==
  ASSUME DispatchInv, NEW c \in Callers, NEW config \in BOOLEAN, Broadcast(c, Workspaces \ {c}, config)
  PROVE  DispatchInv'
<1> DEFINE others == Workspaces \ {c}
<1>0. IsFiniteSet(others) /\ others \subseteq Callers
  BY DispatchAssumption, FS_Subset DEF Callers
<1>1. PICK to \in Orders(others) :
        Request(c, [i \in 1..2 * Len(to) |-> IF i % 2 = 1 THEN Tell("put", to[(i + 1) \div 2], NoTask, "asked")
                                             ELSE Call("schedule", to[i \div 2], NoTask)]
                     \o IF config THEN [i \in DOMAIN to |-> Call("ensure", to[i], NoTask)] ELSE <<>>)
  BY DEF Broadcast
<1> HIDE DEF others
<1> DEFINE n == Len(to)
           a == [i \in 1..2 * n |-> IF i % 2 = 1 THEN Tell("put", to[(i + 1) \div 2], NoTask, "asked")
                                    ELSE Call("schedule", to[i \div 2], NoTask)]
           e == [i \in DOMAIN to |-> Call("ensure", to[i], NoTask)]
           b == IF config THEN e ELSE <<>>
<1>2. n \in Nat /\ DOMAIN to = 1..n /\ \A i \in 1..n : to[i] \in Callers
  BY <1>0, <1>1, OrdersAreLists
<1>3. /\ UNCHANGED tasks /\ UNCHANGED <<inbox, note>> /\ UNCHANGED <<wake, session, spawned>>
      /\ prog[c] = <<>> /\ prog' = [prog EXCEPT ![c] = a \o b]
  BY <1>1 DEF Broadcast, Request
<1>4. NoTask \in Carried /\ c \in Threads
  BY DEF Carried, Threads
<1> HIDE DEF n
<1>5. Easy(a, tasks)
  <2>1. ASSUME NEW i \in 1..2 * n PROVE Plain(a[i], tasks)
    <3>1. CASE i % 2 = 1
      <4>1. (i + 1) \div 2 \in 1..n
        BY <1>2, <2>1, <3>1
      <4>2. a[i] = Tell("put", to[(i + 1) \div 2], NoTask, "asked") /\ to[(i + 1) \div 2] \in Callers
        BY <1>2, <2>1, <3>1, <4>1
      <4>3. QED BY <1>4, <4>2, PlainCalls
    <3>2. CASE i % 2 # 1
      <4>1. i \div 2 \in 1..n
        BY <1>2, <2>1, <3>2
      <4>2. a[i] = Call("schedule", to[i \div 2], NoTask) /\ to[i \div 2] \in Callers
        BY <1>2, <2>1, <3>2, <4>1
      <4>3. QED BY <1>4, <4>2, PlainCalls
    <3>3. QED BY <3>1, <3>2
  <2>2. DOMAIN a = 1..2 * n /\ 2 * n \in Nat
    BY <1>2
  <2> HIDE DEF a
  <2>3. a \in Programs
    <3>1. \A i \in 1..2 * n : a[i] \in CallRec
      BY <2>1 DEF Plain
    <3>2. a \in [1..2 * n -> CallRec]
      <4>1. a = [i \in 1..2 * n |-> a[i]]
        BY DEF a
      <4>2. QED BY <3>1, <4>1
    <3>3. QED BY <2>2, <3>2 DEF Programs
  <2>4. QED BY <2>1, <2>2, <2>3 DEF Easy
<1>6. Easy(e, tasks)
  <2>1. ASSUME NEW i \in 1..n PROVE Plain(e[i], tasks)
    <3>1. e[i] = Call("ensure", to[i], NoTask) /\ to[i] \in Callers
      BY <1>2, <2>1
    <3>2. QED BY <1>4, <3>1, PlainCalls
  <2>2. e \in [1..n -> CallRec]
    <3>1. e = [i \in 1..n |-> e[i]]
      BY <1>2
    <3> HIDE DEF e
    <3>2. QED BY <2>1, <3>1 DEF Plain
  <2> HIDE DEF e
  <2>3. e \in Programs
    BY <1>2, <2>2 DEF Programs
  <2>4. QED BY <2>1, <2>2, <2>3 DEF Easy
<1> HIDE DEF a, e
<1>7. Easy(b, tasks)
  BY <1>6, Nothing
<1> HIDE DEF b
<1>8. Easy(a \o b, tasks)
  BY <1>5, <1>7, EasyJoin
<1>9. Idle /\ Good(tasks)' /\ \A x \in TaskIds : Same(tasks[x], tasks'[x])
  BY <1>3, StillFacts
<1>10. QED BY <1>3, <1>4, <1>8, <1>9, QuietRequest

-----------------------------------------------------------------------------
(* Quiet calls *)

\* The call a thread is at.
LEMMA NowFacts ==
  ASSUME DispatchInv, NEW p \in Threads, NEW op, At(p, op)
  PROVE  /\ prog[p] # <<>> /\ prog[p][1] = Now(p) /\ Now(p).op = op
         /\ Now(p) \in CallRec /\ Now(p).ws \in Callers /\ Now(p).task \in Carried
         /\ Known(Now(p), tasks) /\ Shape(prog[p], tasks) /\ prog[p] \in Programs
<1>1. Shape(prog[p], tasks) /\ prog[p] # <<>> /\ Now(p).op = op
  BY DEF DispatchInv, Shapes, At, Now
<1>2. prog[p] \in Seq(CallRec) /\ 1 \in DOMAIN prog[p] /\ prog[p][1] = Now(p)
  BY <1>1 DEF Shape, Programs, Now
<1>3. Now(p) \in CallRec /\ Known(Now(p), tasks)
  BY <1>1, <1>2 DEF Shape
<1>4. QED BY <1>1, <1>2, <1>3 DEF CallRec, Programs

\* A call that leaves nothing behind.
LEMMA PopNothing ==
  ASSUME DispatchInv, NEW p \in Threads, prog[p] # <<>>, Now(p).op \notin {"put", "purge", "notice"},
         Continue(p, <<>>), UNCHANGED tasks, UNCHANGED <<inbox, note>>, Idle
  PROVE  DispatchInv'
<1> DEFINE first == <<>>
<1>1. Easy(first, tasks) /\ DOMAIN first = {}
  BY Nothing
<1>2. Now(p).op \notin Safe \/ \A i \in DOMAIN first : first[i].op \in Safe
  BY <1>1
<1>3. Continue(p, first)
  OBVIOUS
<1> HIDE DEF first
<1>4. QED BY <1>1, <1>2, <1>3, QuietPop

\* schedule, cancel, spawn and a dispatch that succeeds or fails.
LEMMA WakesKeep ==
  ASSUME DispatchInv, NEW p \in Threads,
         Schedule(p) \/ CancelWake(p) \/ Spawn(p) \/ EnsureRunnable(p)
  PROVE  DispatchInv'
<1>1. Types
  BY DEF DispatchInv
<1>2. CASE Schedule(p)
  <2>1. At(p, "schedule") /\ wake' = wake \union {Now(p).ws}
    BY <1>2 DEF Schedule
  <2>2. QED BY <1>1, <1>2, <2>1, NowFacts, PopNothing DEF Schedule, Idle, Types
<1>3. CASE CancelWake(p)
  <2>1. At(p, "cancel") /\ wake' = wake \ {Now(p).ws}
    BY <1>3 DEF CancelWake
  <2>2. QED BY <1>1, <1>3, <2>1, NowFacts, PopNothing DEF CancelWake, Idle, Types
<1>4. CASE Spawn(p)
  <2>1. At(p, "spawn") /\ spawned' = spawned \union {Now(p).ws}
    BY <1>4 DEF Spawn
  <2>2. QED BY <1>1, <1>4, <2>1, NowFacts, PopNothing DEF Spawn, Idle, Types
<1>5. CASE EnsureRunnable(p)
  <2>1. At(p, "ensure") /\ UNCHANGED tasks /\ UNCHANGED <<inbox, note>> /\ UNCHANGED <<wake, spawned>>
    BY <1>5 DEF EnsureRunnable
  <2>2. prog[p] # <<>> /\ Now(p).op = "ensure" /\ Now(p).ws \in Callers
    BY <2>1, NowFacts
  <2>3. CASE session' = session \union {Now(p).ws} /\ Continue(p, <<>>)
    <3>1. Idle
      BY <1>1, <2>1, <2>2, <2>3 DEF Idle, Types
    <3>2. QED BY <2>1, <2>2, <2>3, <3>1, PopNothing
  <2>4. CASE prog' = [prog EXCEPT ![p] = <<>>] /\ UNCHANGED session
    <3>1. Idle
      BY <1>1, <2>1, <2>4 DEF Idle, Types
    <3>2. QED BY <2>1, <2>2, <2>4, <3>1, DropKeeps
  <2>5. QED BY <1>5, <2>3, <2>4 DEF EnsureRunnable
<1>6. QED BY <1>2, <1>3, <1>4, <1>5

\* pending_count may be followed by a cancel, a peek by a refill.
LEMMA LooksKeep ==
  ASSUME DispatchInv, NEW p \in Threads, Settle(p) \/ Peek(p)
  PROVE  DispatchInv'
<1> DEFINE w == Now(p).ws
<1>1. CASE Settle(p)
  <2> DEFINE first == IF Empty(w) THEN <<Call("cancel", w, NoTask)>> ELSE <<>>
  <2>1. /\ At(p, "settle") /\ Continue(p, first) /\ UNCHANGED tasks /\ UNCHANGED <<inbox, note>>
        /\ UNCHANGED <<wake, session, spawned>>
    BY <1>1 DEF Settle
  <2>2. prog[p] # <<>> /\ Now(p).op = "settle" /\ w \in Callers /\ NoTask \in Carried
    BY <2>1, NowFacts DEF Carried
  <2>3. Easy(first, tasks)
    BY <2>2, PlainCalls, EasyOne, Nothing
  <2>4. \A i \in DOMAIN first : first[i].op \in Safe
    <3>1. Call("cancel", w, NoTask).op = "cancel"
      BY DEF Call
    <3>2. QED BY <3>1 DEF Safe
  <2> HIDE DEF first
  <2>5. Idle
    BY <2>1, StillFacts
  <2>6. QED BY <2>1, <2>2, <2>3, <2>4, <2>5, QuietPop
<1>2. CASE Peek(p)
  <2> DEFINE first == IF w \in wake THEN <<Call("refill", w, NoTask)>> ELSE <<>>
  <2>1. /\ At(p, "peek") /\ Continue(p, first) /\ UNCHANGED tasks /\ UNCHANGED <<inbox, note>>
        /\ UNCHANGED <<wake, session, spawned>>
    BY <1>2 DEF Peek
  <2>2. prog[p] # <<>> /\ Now(p).op = "peek" /\ w \in Callers /\ NoTask \in Carried
    BY <2>1, NowFacts DEF Carried
  <2>3. Easy(first, tasks)
    BY <2>2, PlainCalls, EasyOne, Nothing
  <2> HIDE DEF first
  <2>4. Idle /\ Now(p).op \notin Safe
    BY <2>1, <2>2, StillFacts DEF Safe
  <2>5. QED BY <2>1, <2>2, <2>3, <2>4, QuietPop
<1>3. QED BY <1>1, <1>2

\* A refill looks for the message of every runnable task of the workspace.
LEMMA RefillKeeps ==
  ASSUME DispatchInv, NEW p \in Threads, Refill(p)
  PROVE  DispatchInv'
<1> DEFINE w == Now(p).ws
           runnable == {t \in TaskIds : Runnable(t) /\ tasks[t].assignee = w}
<1>1. PICK due \in Orders(runnable) : Continue(p, [i \in DOMAIN due |-> Call("find", w, due[i])])
  BY DEF Refill
<1>2. /\ At(p, "refill") /\ UNCHANGED tasks /\ UNCHANGED <<inbox, note>>
      /\ UNCHANGED <<wake, session, spawned>>
  BY DEF Refill
<1>3. /\ IsFiniteSet(runnable)
      /\ \A t \in runnable : t \in Carried /\ t # NoTask /\ Exists(tasks, t) /\ w = tasks[t].assignee
  BY TaskStoreAssumption, FS_Subset DEF Carried, Runnable, Live
<1> HIDE DEF runnable
<1> DEFINE n == Len(due)
           first == [i \in DOMAIN due |-> Call("find", w, due[i])]
<1>4. n \in Nat /\ DOMAIN due = 1..n /\ \A i \in 1..n : due[i] \in runnable
  BY <1>1, <1>3, OrdersAreLists
<1>5. prog[p] # <<>> /\ Now(p).op = "refill" /\ w \in Callers
  BY <1>2, NowFacts
<1> HIDE DEF n, w
<1>6. Easy(first, tasks)
  <2>1. ASSUME NEW i \in 1..n PROVE Plain(first[i], tasks)
    <3>1. first[i] = Call("find", w, due[i]) /\ due[i] \in runnable
      BY <1>4, <2>1
    <3>2. QED BY <1>3, <1>5, <3>1, PlainCalls
  <2>2. first \in [1..n -> CallRec]
    <3>1. first = [i \in 1..n |-> first[i]]
      BY <1>4
    <3> HIDE DEF first
    <3>2. QED BY <2>1, <3>1 DEF Plain
  <2> HIDE DEF first
  <2>3. first \in Programs
    BY <1>4, <2>2 DEF Programs
  <2>4. QED BY <2>1, <2>2, <2>3 DEF Easy
<1>7. Continue(p, first)
  BY <1>1 DEF w
<1> HIDE DEF first
<1>8. Idle /\ Now(p).op \notin Safe
  BY <1>2, <1>5, StillFacts DEF Safe
<1>9. QED BY <1>2, <1>5, <1>6, <1>7, <1>8, QuietPop

\* Wakes, background wakes and sessions that end touch no task.
LEMMA LoopsKeep ==
  ASSUME DispatchInv, NEW w \in Callers,
         WakeGivesUp(w) \/ WakeEnsures(w) \/ BackgroundWake(w) \/ SessionEnds(w)
  PROVE  DispatchInv'
<1>1. UNCHANGED <<tasks, inbox, prog, note>>
  BY DEF WakeGivesUp, WakeEnsures, BackgroundWake, SessionEnds
<1>2. Idle
  BY DEF WakeGivesUp, WakeEnsures, BackgroundWake, SessionEnds, Idle, DispatchInv, Types
<1>3. QED BY <1>1, <1>2, IdleKeeps

-----------------------------------------------------------------------------
(* Requests that change a task *)

\* What a request adds is its own program: nobody else's changes, and no message that
\* somebody counts on is at its head.
LEMMA Begins ==
  ASSUME Types, NEW c \in Threads, prog[c] = <<>>, NEW new \in Programs,
         prog' = [prog EXCEPT ![c] = new],
         new # <<>> => new[1].op # "record" /\ ~Checked(new[1])
  PROVE  /\ Moves(c, new) /\ prog'[c] = new
         /\ \A q \in Threads : prog[q] # <<>> => prog'[q] = prog[q]
         /\ \A q \in Threads : \A x : HeadIs(prog'[q], "record", x) => HeadIs(prog[q], "record", x)
         /\ \A q \in Threads : \A x : Filler(q, x)' => Filler(q, x)
         /\ \A x : Passes(prog[c], new, x)
<1>1. Moves(c, new) /\ prog'[c] = new /\ \A q \in Threads : q # c => prog'[q] = prog[q]
  BY ThreadMoves DEF Moves
<1>2. \A x, st : ~Noticing(prog[c], x, st)
  <2>1. DOMAIN prog[c] = {}
    OBVIOUS
  <2>2. QED BY <2>1 DEF Noticing
<1>3. \A x : Passes(prog[c], new, x)
  BY <1>2 DEF Passes, HeadIs, PutDue
<1>4. QED BY <1>1, <1>3 DEF HeadIs, Filler

\* A request that changes task t keeps the invariant if it keeps what is owed for t.
LEMMA StoreRequest ==
  ASSUME DispatchInv, Good(tasks)', Carries(tasks, tasks'), NEW t \in TaskIds, OnlyAt(t),
         NEW c \in Threads, prog[c] = <<>>, NEW new, Shape(new, tasks'),
         prog' = [prog EXCEPT ![c] = new],
         new # <<>> => new[1].op # "record" /\ ~Checked(new[1]),
         inbox' = inbox, \A x \in TaskIds : x # t => Noted(x), asked' = asked, told' = told, Idle,
         TaskOK(t)'
  PROVE  DispatchInv'
<1>1. Types /\ Good(tasks) /\ new \in Programs
  BY DEF DispatchInv, Shape
<1>2. Moves(c, new) /\ \A x : Passes(prog[c], new, x)
  BY <1>1, Begins
<1>3. ASSUME NEW x \in TaskIds PROVE TaskOK(x)'
  <2>1. CASE x # t
    <3>1. TaskOK(x) /\ Same(tasks[x], tasks'[x]) /\ Noted(x)
      BY <2>1 DEF DispatchInv, Owed, TaskOK, OnlyAt
    <3>2. QED BY <1>1, <1>2, <3>1, CalmKeeps
  <2>2. QED BY <2>1
<1>4. /\ inbox' \in [Callers -> [Carried -> Nat]] /\ asked' \in [TaskIds -> Nat]
      /\ told' \in [TaskIds -> SUBSET Infos]
  BY <1>1 DEF Types
<1>5. QED BY <1>2, <1>3, <1>4, StepKeeps DEF Idle

\* A step about one task carries the others.
LEMMA OnlyCarries ==
  ASSUME NEW t \in TaskIds, OnlyAt(t), Stays(t), Exists(tasks', t), tasks[t].removed => tasks'[t].removed
  PROVE  Carries(tasks, tasks')
  BY DEF Carries, OnlyAt, Stays, Same, Exists

\* The follow-up of a task that closed purges first, then tells the creator.
LEMMA FollowUpFacts ==
  ASSUME NEW ts \in Stores, NEW t \in TaskIds, Exists(ts, t)
  PROVE  LET new == FollowUp(t, ts[t])
             st  == ts[t].status
         IN  /\ Shape(new, ts)
             /\ new # <<>> => new[1].op # "record" /\ ~Checked(new[1])
             /\ st \in Terminal => HeadIs(new, "purge", t)
             /\ st \in Terminal /\ ts[t].created_by # ts[t].assignee => Noticing(new, t, st)
<1> DEFINE a == ts[t].assignee
           d == ts[t].created_by
           st == ts[t].status
           x == <<Tell("purge", a, t, st), Call("settle", a, t)>>
           e == <<Tell("notice", d, t, st), Call("schedule", d, t)>>
           y == IF d = a THEN <<>> ELSE e
           new == FollowUp(t, ts[t])
<1>1. a \in Callers /\ d \in Callers /\ st \in Statuses /\ t \in Carried /\ t # NoTask
  <2>1. ts[t] \in Task /\ st # "absent"
    BY DEF Stores, Exists
  <2>2. QED BY <2>1, TaskStoreAssumption DEF Task, Callers, Carried
<1>2. CASE st \notin Closed
  BY <1>2, Nothing DEF FollowUp, Closed
<1>3. CASE st \in Closed
  <2>1. new = x \o y
    BY <1>3 DEF FollowUp
  <2>2. /\ Tell("purge", a, t, st) \in CallRec /\ Known(Tell("purge", a, t, st), ts)
        /\ Tell("purge", a, t, st).op = "purge" /\ Tell("purge", a, t, st).info = st
        /\ Tell("purge", a, t, st).task = t
    <3>1. st \in Infos
      BY <1>1 DEF Infos
    <3>2. Tell("purge", a, t, st) \in CallRec
      BY <1>1, <3>1 DEF Tell, CallRec, Ops
    <3>3. QED BY <1>1, <3>2 DEF Tell, Known, Checked
  <2>3. Plain(Call("settle", a, t), ts) /\ Plain(Call("schedule", d, t), ts)
    BY <1>1, PlainCalls
  <2>4. d # a => Plain(Tell("notice", d, t, st), ts)
    BY <1>1, PlainCalls
  <2>5. Shape(x, ts) /\ x # <<>> /\ x[1] = Tell("purge", a, t, st) /\ Len(x) = 2
    <3> DEFINE f == Tell("purge", a, t, st)
               g == Call("settle", a, t)
    <3>1. f \in CallRec /\ Known(f, ts) /\ g \in CallRec /\ Known(g, ts) /\ g.op \notin {"purge", "record"} /\ ~Checked(g)
      BY <2>2, <2>3 DEF Plain
    <3>2. f.info \in Closed
      BY <1>3, <2>2
    <3> HIDE DEF f, g, a, d, st
    <3>3. /\ <<f, g>> \in Programs /\ DOMAIN <<f, g>> = {1, 2} /\ <<f, g>>[1] = f /\ <<f, g>>[2] = g
          /\ <<f, g>> # <<>> /\ Len(<<f, g>>) = 2
      BY <3>1 DEF Programs
    <3>4. InPlace(<<f, g>>) /\ Justified(<<f, g>>, ts)
      BY <3>1, <3>2, <3>3 DEF InPlace, Justified
    <3>5. QED BY <3>1, <3>3, <3>4 DEF Shape, f, g
  <2>6. Easy(y, ts)
    BY <2>3, <2>4, EasyTwo, Nothing
  <2>7. Shape(new, ts) /\ new # <<>> /\ new[1] = Tell("purge", a, t, st)
    <3> HIDE DEF x, y, new
    <3>1. QED BY <2>1, <2>5, <2>6, ShapeJoin
  <2>8. ASSUME d # a PROVE Noticing(new, t, st)
    <3>1. y = e /\ x \in Programs /\ y \in Programs
      BY <2>5, <2>6, <2>8 DEF Easy, Shape
    <3>2. Len(x) = 2 /\ Len(y) = 2
      BY <3>1
    <3>3. y[1] = Tell("notice", d, t, st) /\ x[1] = Tell("purge", a, t, st) /\ x[2] = Call("settle", a, t)
      BY <3>1
    <3> HIDE DEF x, y, new
    <3>4. /\ DOMAIN new = 1..4 /\ new[1] = x[1] /\ new[2] = x[2] /\ new[3] = y[1]
      <4>1. /\ DOMAIN new = 1..Len(x) + Len(y) /\ \A i \in 1..Len(x) : new[i] = x[i]
            /\ \A i \in Len(x) + 1..Len(x) + Len(y) : new[i] = y[i - Len(x)]
        BY <2>1, <3>1, Joined
      <4>2. /\ DOMAIN new = 1..4 /\ \A i \in 1..2 : new[i] = x[i]
            /\ \A i \in 3..4 : new[i] = y[i - 2]
        BY <3>2, <4>1
      <4>3. QED BY <4>2
    <3>5. new[1].op \in Safe /\ new[2].op \in Safe
      BY <3>3, <3>4 DEF Tell, Call, Safe
    <3>6. new[3].op = "notice" /\ new[3].task = t /\ new[3].info = st
      BY <3>3, <3>4 DEF Tell
    <3>7. 3 \in DOMAIN new /\ \A j \in 1..3 - 1 : j = 1 \/ j = 2
      BY <3>4
    <3>8. QED BY <3>5, <3>6, <3>7 DEF Noticing
  <2>9. new[1].op # "record" /\ ~Checked(new[1]) /\ HeadIs(new, "purge", t)
    BY <2>2, <2>7 DEF HeadIs, Checked
  <2>10. QED BY <2>7, <2>8, <2>9
<1>4. QED BY <1>2, <1>3

\* A program that owes something is not empty.
LEMMA Owing ==
  ASSUME DispatchInv, NEW q \in Threads
  PROVE  /\ \A x, st : Noticing(prog[q], x, st) => prog[q] # <<>>
         /\ \A x, w : PutDue(prog[q], w, x) => prog[q] # <<>>
         /\ \A x, op : HeadIs(prog[q], op, x) => prog[q] # <<>>
<1>1. prog[q] \in Programs
  BY DEF DispatchInv, Types
<1>2. \A x, st : Noticing(prog[q], x, st) => prog[q] # <<>>
  BY <1>1, NoticeWaits
<1>3. QED BY <1>2 DEF PutDue, HeadIs

\* What a handler goes on with after it changed a task: the follow-up, or nothing when the
\* write failed.
LEMMA FollowedUpFacts ==
  ASSUME NEW c, NEW t \in TaskIds, tasks' \in Stores, Exists(tasks', t), FollowedUp(c, t)
  PROVE  \E new :
           /\ prog[c] = <<>> /\ prog' = [prog EXCEPT ![c] = new] /\ Shape(new, tasks')
           /\ new # <<>> => new[1].op # "record" /\ ~Checked(new[1])
           /\ \A x \in TaskIds : x # t /\ x \in cut => x \in cut'
           /\ tasks'[t].status \in Terminal =>
                \/ /\ HeadIs(new, "purge", t)
                   /\ tasks'[t].created_by # tasks'[t].assignee => Noticing(new, t, tasks'[t].status)
                \/ t \in cut'
                \/ tasks'[t].status = tasks[t].status /\ cut' = cut
<1>1. CASE /\ prog[c] = <<>> /\ prog' = [prog EXCEPT ![c] = FollowUp(t, tasks'[t])]
           /\ cut' = IF tasks'[t].status \in Closed THEN cut \ {t} ELSE cut
  <2> DEFINE done == FollowUp(t, tasks'[t])
  <2>1. /\ Shape(done, tasks')
        /\ done # <<>> => done[1].op # "record" /\ ~Checked(done[1])
        /\ tasks'[t].status \in Terminal => HeadIs(done, "purge", t)
        /\ tasks'[t].status \in Terminal /\ tasks'[t].created_by # tasks'[t].assignee
             => Noticing(done, t, tasks'[t].status)
    BY FollowUpFacts
  <2>2. prog[c] = <<>> /\ prog' = [prog EXCEPT ![c] = done]
    BY <1>1
  <2>3. \A x \in TaskIds : x # t /\ x \in cut => x \in cut'
    BY <1>1
  <2> HIDE DEF done
  <2>4. QED BY <2>1, <2>2, <2>3
<1>2. CASE /\ prog[c] = <<>> /\ prog' = [prog EXCEPT ![c] = <<>>]
           /\ cut' = IF tasks'[t].status \in Closed \ {tasks[t].status} THEN cut \union {t} ELSE cut
  <2> DEFINE done == <<>>
  <2>1. Shape(done, tasks') /\ ~(done # <<>>)
    BY Nothing
  <2>2. prog[c] = <<>> /\ prog' = [prog EXCEPT ![c] = done]
    BY <1>2
  <2>3. \A x \in TaskIds : x # t /\ x \in cut => x \in cut'
    BY <1>2
  <2>4. tasks'[t].status \in Terminal => t \in cut' \/ (tasks'[t].status = tasks[t].status /\ cut' = cut)
    BY <1>2 DEF Closed
  <2> HIDE DEF done
  <2>5. QED BY <2>1, <2>2, <2>3, <2>4
<1>3. QED BY <1>1, <1>2 DEF FollowedUp, SavedThen, WriteFails, Request

\* update_task and its follow-up.
LEMMA UpdateKeeps ==
  ASSUME DispatchInv, NEW c \in Callers, NEW t \in TaskIds, NEW u \in Requests, HandleUpdateTask(c, t, u)
  PROVE  DispatchInv'
<1> DEFINE no == FALSE
<1>0. Update(t, c, u, no) /\ no \in BOOLEAN /\ u \in Updates /\ FollowedUp(c, t)
  BY RequestsAssumption DEF HandleUpdateTask
<1> HIDE DEF no
<1>1. /\ inbox' = inbox
      /\ read' = (IF c = tasks[t].assignee THEN read \union {t} ELSE read)
      /\ lost' = lost /\ late' = late /\ overlap' = overlap /\ asked' = asked /\ told' = told
      /\ UNCHANGED <<wake, session, spawned>>
  BY DEF HandleUpdateTask
<1>2. Good(tasks) /\ Types /\ c \in Threads
  BY DEF DispatchInv, Threads
<1>3. /\ Good(tasks)' /\ OnlyAt(t) /\ Stays(t)
      /\ tasks'[t].removed = tasks[t].removed /\ tasks'[t].dispatch_count = tasks[t].dispatch_count
      /\ tasks'[t].status # tasks[t].status => c = tasks[t].assignee
      /\ Exists(tasks, t) /\ Exists(tasks', t)
  BY <1>0, <1>2, UpdateMoves
<1>4. PICK new :
        /\ prog[c] = <<>> /\ prog' = [prog EXCEPT ![c] = new] /\ Shape(new, tasks')
        /\ new # <<>> => new[1].op # "record" /\ ~Checked(new[1])
        /\ \A x \in TaskIds : x # t /\ x \in cut => x \in cut'
        /\ tasks'[t].status \in Terminal =>
             \/ /\ HeadIs(new, "purge", t)
                /\ tasks'[t].created_by # tasks'[t].assignee => Noticing(new, t, tasks'[t].status)
             \/ t \in cut'
             \/ tasks'[t].status = tasks[t].status /\ cut' = cut
  <2>1. tasks' \in Stores
    BY <1>3 DEF Good
  <2>2. QED BY <1>0, <1>3, <2>1, FollowedUpFacts
<1>5. /\ prog'[c] = new
      /\ \A q \in Threads : prog[q] # <<>> => prog'[q] = prog[q]
      /\ \A q \in Threads : \A x : HeadIs(prog'[q], "record", x) => HeadIs(prog[q], "record", x)
      /\ \A q \in Threads : \A x : Filler(q, x)' => Filler(q, x)
  <2>1. new \in Programs
    BY <1>4 DEF Shape
  <2>2. QED BY <1>2, <1>4, <2>1, Begins
<1>6. TaskOK(t) /\ Inbox(t)' = Inbox(t)
  BY <1>1, <1>3 DEF DispatchInv, Owed, TaskOK, Inbox, Stays
<1>7. Told(t)'
  BY <1>1, <1>2, <1>3, <1>4, <1>5, <1>6, Owing DEF TaskOK, Told, Stays
<1>8. Left(t)'
  BY <1>1, <1>2, <1>4, <1>5, <1>6, Owing DEF TaskOK, Left
<1>9. Handed(t)'
  <2>1. CASE tasks'[t].status # tasks[t].status
    BY <1>1, <1>3, <2>1 DEF Handed
  <2>2. CASE tasks'[t].status = tasks[t].status
    <3>1. t \in read => t \in read'
      BY <1>1
    <3>2. \A q \in Threads : PutDue(prog[q], tasks[t].assignee, t) => PutDue(prog'[q], tasks'[t].assignee, t)
      BY <1>3, <1>5 DEF PutDue, Stays
    <3>3. QED BY <1>1, <1>3, <1>5, <1>6, <2>2, <3>1, <3>2 DEF TaskOK, Handed, Live, Exists
  <2>3. QED BY <2>1, <2>2
<1>10. Once(t)' /\ Unheard(t)'
  BY <1>1, <1>3, <1>5, <1>6 DEF TaskOK, Once, Unheard
<1>11. TaskOK(t)'
  BY <1>7, <1>8, <1>9, <1>10 DEF TaskOK
<1>12. Carries(tasks, tasks') /\ \A x \in TaskIds : x # t => Noted(x)
  BY <1>1, <1>3, <1>4, OnlyCarries DEF Noted
<1>13. Idle
  BY <1>1, <1>2 DEF Idle, Types
<1>14. QED BY <1>1, <1>2, <1>3, <1>4, <1>11, <1>12, <1>13, StoreRequest

\* cancel_task and its follow-up.
LEMMA CancelKeeps ==
  ASSUME DispatchInv, NEW c \in Callers, NEW t \in TaskIds, CancelTask(c, t, tasks[t].version)
  PROVE  DispatchInv'
<1>1. /\ Cancel(t, c, tasks[t].version) /\ FollowedUp(c, t)
      /\ inbox' = inbox /\ UNCHANGED <<read, lost, late, overlap, asked, told>>
      /\ UNCHANGED <<wake, session, spawned>>
  BY DEF CancelTask
<1>2. Good(tasks) /\ Types /\ c \in Threads
  BY DEF DispatchInv, Threads
<1>3. /\ Good(tasks)' /\ OnlyAt(t) /\ Stays(t) /\ Exists(tasks, t)
      /\ tasks'[t].removed = tasks[t].removed /\ tasks'[t].status = "cancelled"
  BY <1>1, <1>2, CancelMoves
<1>4. /\ Exists(tasks', t) /\ tasks'[t].status \in Terminal /\ tasks'[t].status \notin {"pending", "in_progress"}
      /\ tasks'[t].status # tasks[t].status
  BY <1>1, <1>3 DEF Exists, Terminal, Cancel
<1>5. PICK new :
        /\ prog[c] = <<>> /\ prog' = [prog EXCEPT ![c] = new] /\ Shape(new, tasks')
        /\ new # <<>> => new[1].op # "record" /\ ~Checked(new[1])
        /\ \A x \in TaskIds : x # t /\ x \in cut => x \in cut'
        /\ \/ /\ HeadIs(new, "purge", t)
              /\ tasks'[t].created_by # tasks'[t].assignee => Noticing(new, t, tasks'[t].status)
           \/ t \in cut'
  <2>1. tasks' \in Stores
    BY <1>3 DEF Good
  <2>2. QED BY <1>1, <1>4, <2>1, FollowedUpFacts
<1>6. /\ prog'[c] = new
      /\ \A q \in Threads : \A x : Filler(q, x)' => Filler(q, x)
  <2>1. new \in Programs
    BY <1>5 DEF Shape
  <2>2. QED BY <1>1, <1>2, <1>5, <2>1, Begins
<1>7. TaskOK(t) /\ Inbox(t)' = Inbox(t)
  BY <1>1, <1>3 DEF DispatchInv, Owed, TaskOK, Inbox, Stays
<1>8. Told(t)' /\ Left(t)'
  BY <1>2, <1>5, <1>6 DEF Told, Left
<1>9. Handed(t)'
  BY <1>4 DEF Handed
<1>10. Once(t)' /\ Unheard(t)'
  BY <1>1, <1>3, <1>4, <1>6, <1>7 DEF TaskOK, Once, Unheard
<1>11. TaskOK(t)'
  BY <1>8, <1>9, <1>10 DEF TaskOK
<1>12. Carries(tasks, tasks') /\ \A x \in TaskIds : x # t => Noted(x)
  BY <1>1, <1>3, <1>4, <1>5, OnlyCarries DEF Noted
<1>13. Idle
  BY <1>1, <1>2 DEF Idle, Types
<1>14. QED BY <1>1, <1>2, <1>3, <1>5, <1>11, <1>12, <1>13, StoreRequest

\* remove_task purges what is queued for the assignee.
LEMMA RemoveKeeps ==
  ASSUME DispatchInv, NEW c \in Callers, NEW t \in TaskIds, RemoveTask(c, t, tasks[t].version)
  PROVE  DispatchInv'
<1> DEFINE a == tasks[t].assignee
           f == Call("purge", a, t)
           g == Call("settle", a, t)
           done == <<f, g>>
           yes == TRUE
<1>0. Remove(t, c, tasks[t].version, yes) /\ yes \in BOOLEAN
  BY DEF RemoveTask
<1> HIDE DEF yes
<1>1. /\ prog[c] = <<>> /\ inbox' = inbox
      /\ UNCHANGED note /\ UNCHANGED <<wake, session, spawned>>
  BY DEF RemoveTask, SavedThen, WriteFails, Request
<1>10. prog' = [prog EXCEPT ![c] = done] \/ prog' = [prog EXCEPT ![c] = <<>>]
  BY DEF RemoveTask, SavedThen, WriteFails, Request
<1>2. Good(tasks) /\ Types /\ c \in Threads
  BY DEF DispatchInv, Threads
<1>3. /\ Good(tasks)' /\ OnlyAt(t) /\ Stays(t) /\ Exists(tasks, t)
      /\ tasks'[t].removed /\ tasks'[t].status = tasks[t].status
  BY <1>0, <1>2, RemoveMoves
<1>4. Exists(tasks', t) /\ ~Live(tasks', t) /\ t \in Carried /\ t # NoTask /\ a \in Callers
  BY <1>2, <1>3, TaskFacts, TaskStoreAssumption DEF Exists, Live, Carried, Task, Callers
<1>5. /\ f \in CallRec /\ Known(f, tasks') /\ f.op = "purge" /\ f.task = t
      /\ g \in CallRec /\ Known(g, tasks') /\ g.op = "settle" /\ ~Checked(f) /\ ~Checked(g)
  <2>1. f \in CallRec /\ g \in CallRec
    BY <1>4 DEF Call, CallRec, Ops, Infos
  <2>2. QED BY <1>3, <1>4, <2>1 DEF Call, Known, Checked, Stays
<1> HIDE DEF f, g, a
<1>6. /\ done \in Programs /\ DOMAIN done = {1, 2} /\ done[1] = f /\ done[2] = g /\ done # <<>>
  BY <1>5 DEF Programs
<1> HIDE DEF done
<1>60. Shape(done, tasks') /\ done[1].op # "record" /\ ~Checked(done[1])
  <2>1. InPlace(done) /\ Justified(done, tasks')
    BY <1>3, <1>5, <1>6 DEF InPlace, Justified
  <2>2. QED BY <1>5, <1>6, <2>1 DEF Shape
<1>7. PICK new : /\ prog' = [prog EXCEPT ![c] = new] /\ Shape(new, tasks') /\ new \in Programs
                 /\ new # <<>> => new[1].op # "record" /\ ~Checked(new[1])
  <2>1. CASE prog' = [prog EXCEPT ![c] = done]
    BY <1>6, <1>60, <2>1
  <2>2. CASE prog' = [prog EXCEPT ![c] = <<>>]
    <3>1. Shape(<<>>, tasks') /\ <<>> \in Programs
      BY Nothing DEF Shape
    <3>2. QED BY <2>2, <3>1
  <2>3. QED BY <1>10, <2>1, <2>2
<1>8. /\ prog'[c] = new
      /\ \A q \in Threads : prog[q] # <<>> => prog'[q] = prog[q]
      /\ \A q \in Threads : \A x : Filler(q, x)' => Filler(q, x)
  BY <1>1, <1>2, <1>7, Begins
<1>9. /\ TaskOK(t) /\ Inbox(t)' = Inbox(t) /\ asked' = asked /\ overlap' = overlap /\ told' = told
      /\ cut' = cut /\ late' = late
  BY <1>1, <1>3 DEF DispatchInv, Owed, TaskOK, Inbox, Stays, note
<1>70. Told(t)'
  BY <1>3, <1>8, <1>9, Owing DEF TaskOK, Told, Stays
<1>11. Left(t)' /\ Handed(t)'
  BY <1>3, <1>4, <1>8, <1>9, Owing DEF TaskOK, Left, Handed
<1>12. Once(t)' /\ Unheard(t)'
  BY <1>3, <1>4, <1>8, <1>9 DEF TaskOK, Once, Unheard
<1>13. TaskOK(t)'
  BY <1>70, <1>11, <1>12 DEF TaskOK
<1>14. Carries(tasks, tasks') /\ \A x \in TaskIds : x # t => Noted(x)
  BY <1>1, <1>3, <1>4, OnlyCarries DEF Noted, note
<1>15. Idle
  BY <1>1, <1>2 DEF Idle, Types
<1>16. QED BY <1>1, <1>2, <1>3, <1>7, <1>9, <1>13, <1>14, <1>15, StoreRequest

\* A message and the record of its dispatch.
LEMMA EnqueueShape ==
  ASSUME NEW ts, NEW t \in TaskIds, Exists(ts, t), ts[t].assignee \in Callers,
         NEW info \in {"asked", "checked"}
  PROVE  LET s == EnqueueTaskMessage(ts[t].assignee, t, info)
         IN  /\ Shape(s, ts) /\ s # <<>>
             /\ Puts(s[1], ts[t].assignee, t) /\ s[1].info = info
<1> DEFINE w == ts[t].assignee
           f == Tell("put", w, t, info)
           g == Call("record", w, t)
           s == <<f, g>>
<1>1. t \in Carried /\ t # NoTask
  BY TaskStoreAssumption DEF Carried
<1>2. /\ f \in CallRec /\ Known(f, ts) /\ f.op = "put" /\ f.ws = w /\ f.task = t /\ f.info = info
      /\ g \in CallRec /\ Known(g, ts) /\ g.op = "record" /\ g.ws = w /\ g.task = t /\ ~Checked(g)
  <2>1. f \in CallRec /\ g \in CallRec
    BY <1>1 DEF Tell, Call, CallRec, Ops, Infos
  <2>2. QED BY <1>1, <2>1 DEF Tell, Call, Known, Checked
<1>3. s = EnqueueTaskMessage(w, t, info)
  BY DEF EnqueueTaskMessage
<1> HIDE DEF f, g, w
<1>4. s \in Programs /\ DOMAIN s = {1, 2} /\ s[1] = f /\ s[2] = g /\ s # <<>> /\ s[2 - 1] = f
  BY <1>2 DEF Programs
<1> HIDE DEF s
<1>5. InPlace(s) /\ Justified(s, ts)
  BY <1>2, <1>4 DEF InPlace, Justified, Puts
<1>6. Shape(s, ts) /\ s # <<>> /\ Puts(s[1], w, t) /\ s[1].info = info
  BY <1>2, <1>4, <1>5 DEF Shape, Puts
<1>7. QED BY <1>3, <1>6 DEF w

\* A task begins: nobody has heard of it.
LEMMA BornKeeps ==
  ASSUME DispatchInv, NEW c \in Callers, NEW t \in TaskIds, NEW a \in Workspaces, Create(t, c, a, NoTask),
         prog[c] = <<>>, NEW new, Shape(new, tasks'), prog' = [prog EXCEPT ![c] = new],
         new # <<>> => new[1].op # "record" /\ ~Checked(new[1]),
         UNCHANGED <<inbox, note>>, UNCHANGED <<wake, session, spawned>>
  PROVE  DispatchInv'
<1>1. Good(tasks) /\ Types /\ c \in Threads /\ a \in Callers /\ new \in Programs
  BY DEF DispatchInv, Threads, Callers, Shape
<1>2. /\ Good(tasks)' /\ OnlyAt(t) /\ ~Exists(tasks, t)
      /\ tasks'[t].status = "pending" /\ tasks'[t].assignee = a /\ tasks'[t].dispatch_count = 0
  BY <1>1, CreateMoves
<1>3. /\ \A q \in Threads : \A x : HeadIs(prog'[q], "record", x) => HeadIs(prog[q], "record", x)
      /\ \A q \in Threads : \A x : Filler(q, x)' => Filler(q, x)
  BY <1>1, Begins
<1>4. ASSUME NEW q \in Threads, prog[q] # <<>> PROVE prog[q][1].task # t
  <2>1. 1 \in DOMAIN prog[q] /\ Shape(prog[q], tasks) /\ t # NoTask
    BY <1>4, TaskStoreAssumption DEF DispatchInv, Types, Shapes, Programs
  <2>2. QED BY <1>2, <2>1 DEF Shape, Known
<1>5. Inbox(t)' = 0 /\ asked' = asked /\ overlap' = overlap /\ told' = told /\ inbox' = inbox
  BY <1>1, <1>2 DEF DispatchInv, Owed, Unheard, Inbox, note
<1>6. Told(t)' /\ Left(t)'
  BY <1>2 DEF Told, Left, Terminal
<1>7. Handed(t)'
  BY <1>2, <1>3, <1>4 DEF Handed, HeadIs
<1>8. Once(t)' /\ Unheard(t)'
  <2>1. \A q \in Threads : ~Filler(q, t)'
    BY <1>3, <1>4 DEF Filler
  <2>2. asked'[t] \in Nat
    BY <1>1, <1>5 DEF Types
  <2>3. Inbox(t)' <= asked'[t] + 1
    BY <1>5, <2>2
  <2>4. QED BY <1>2, <2>1, <2>3 DEF Once, Unheard, Exists
<1>9. TaskOK(t)'
  BY <1>6, <1>7, <1>8 DEF TaskOK
<1>10. Carries(tasks, tasks') /\ \A x \in TaskIds : x # t => Noted(x)
  BY <1>2 DEF Carries, OnlyAt, Same, Exists, Noted, note
<1>11. Idle
  BY <1>1 DEF Idle, Types
<1>12. QED BY <1>1, <1>2, <1>5, <1>9, <1>10, <1>11, StoreRequest

\* create_task and start_task.
LEMMA CreateKeeps ==
  ASSUME DispatchInv, NEW c \in Callers, NEW t \in TaskIds, NEW a \in Workspaces,
         HandleCreateTask(c, t, a) \/ \E config \in BOOLEAN : StartTask(c, t, a, config)
  PROVE  DispatchInv'
<1>1. Good(tasks) /\ Create(t, c, a, NoTask)
  BY DEF DispatchInv, HandleCreateTask, StartTask
<1>2. tasks'[t].assignee = a /\ Exists(tasks', t) /\ tasks'[t].assignee \in Callers
  BY <1>1, CreateMoves DEF Exists, Callers
<1> DEFINE m == EnqueueTaskMessage(a, t, "asked")
           x == m \o <<Call("schedule", a, t)>>
<1>3. Shape(m, tasks') /\ m # <<>> /\ m[1].op # "record" /\ ~Checked(m[1])
  <2>1. Shape(m, tasks') /\ m # <<>> /\ Puts(m[1], a, t) /\ m[1].info = "asked"
    BY <1>2, EnqueueShape
  <2>2. QED BY <2>1 DEF Puts, Checked
<1>4. t \in Carried /\ a \in Callers
  BY DEF Carried, Callers
<1>5. Easy(<<Call("schedule", a, t)>>, tasks') /\ Easy(<<Call("ensure", a, t)>>, tasks')
  BY <1>2, <1>4, PlainCalls, EasyOne
<1> HIDE DEF m
<1>6. Shape(x, tasks') /\ x # <<>> /\ x[1].op # "record" /\ ~Checked(x[1])
  BY <1>3, <1>5, ShapeJoin
<1> HIDE DEF x
<1>7. ASSUME NEW config \in BOOLEAN
      PROVE  LET new == PlanTaskStart(t, a, config)
             IN  Shape(new, tasks') /\ (new # <<>> => new[1].op # "record" /\ ~Checked(new[1]))
  <2> DEFINE y == IF config THEN <<Call("ensure", a, t)>> ELSE <<>>
  <2>1. Easy(y, tasks')
    BY <1>5, Nothing
  <2>2. PlanTaskStart(t, a, config) = x \o y
    BY DEF PlanTaskStart, x, m
  <2> HIDE DEF y
  <2>3. QED BY <1>6, <2>1, <2>2, ShapeJoin
<1>8. \E config \in BOOLEAN : \E new \in {PlanTaskStart(t, a, config), <<>>} :
        prog' = [prog EXCEPT ![c] = new]
  <2>1. CASE HandleCreateTask(c, t, a)
    BY <2>1 DEF HandleCreateTask, SavedThen, WriteFails, Request
  <2>2. ASSUME NEW config \in BOOLEAN, StartTask(c, t, a, config)
        PROVE  \E new \in {PlanTaskStart(t, a, config), <<>>} : prog' = [prog EXCEPT ![c] = new]
    BY <2>2 DEF StartTask, SavedThen, WriteFails, Request
  <2>3. QED BY <2>1, <2>2
<1>9. PICK new : /\ prog' = [prog EXCEPT ![c] = new]
                 /\ new = <<>> \/ \E config \in BOOLEAN : new = PlanTaskStart(t, a, config)
  BY <1>8
<1>10. Shape(new, tasks') /\ (new # <<>> => new[1].op # "record" /\ ~Checked(new[1]))
  BY <1>7, <1>9, Nothing
<1>11. prog[c] = <<>> /\ UNCHANGED <<inbox, note>> /\ UNCHANGED <<wake, session, spawned>>
  BY DEF HandleCreateTask, StartTask, SavedThen, WriteFails, Request
<1>12. QED BY <1>1, <1>9, <1>10, <1>11, BornKeeps

-----------------------------------------------------------------------------
(* Calls that change a task *)

\* The program after a call.
LEMMA Continues ==
  ASSUME DispatchInv, NEW p \in Threads, prog[p] # <<>>, NEW first \in Programs, Continue(p, first)
  PROVE  LET new == first \o Tail(prog[p])
         IN  /\ Moves(p, new) /\ prog'[p] = new
             /\ \A q \in Threads : q # p => prog'[q] = prog[q]
<1> DEFINE new == first \o Tail(prog[p])
<1>1. prog[p] \in Programs /\ Types
  BY DEF DispatchInv, Types
<1>2. new \in Programs
  BY <1>1, Spliced
<1>3. prog' = [prog EXCEPT ![p] = new]
  BY <1>1 DEF Continue, Types
<1> HIDE DEF new
<1>4. Moves(p, new)
  BY <1>2, <1>3 DEF Moves
<1>5. QED BY <1>1, <1>4, ThreadMoves DEF new

\* A call keeps the invariant if it keeps what is owed for every task.
LEMMA CallStep ==
  ASSUME DispatchInv, Good(tasks)', Carries(tasks, tasks'), NEW p \in Threads, prog[p] # <<>>,
         NEW first, Shape(first, tasks'), first = <<>> \/ Now(p).op # "put", Continue(p, first),
         inbox' \in [Callers -> [Carried -> Nat]], asked' \in [TaskIds -> Nat],
         told' \in [TaskIds -> SUBSET Infos], Idle, \A t \in TaskIds : TaskOK(t)'
  PROVE  DispatchInv'
<1> DEFINE s == prog[p]
           new == first \o Tail(s)
<1>1. Shape(s, tasks) /\ first \in Programs /\ s[1] = Now(p)
  BY DEF DispatchInv, Shapes, Shape, Now, Programs
<1>2. Shape(s, tasks')
  BY <1>1, ShapeHolds
<1>3. Moves(p, new)
  BY <1>1, Continues
<1> HIDE DEF s
<1>4. Shape(new, tasks')
  BY <1>1, <1>2, ShapeMoves DEF s
<1> HIDE DEF new
<1>5. QED BY <1>3, <1>4, StepKeeps DEF Idle

\* What stays when only the dispatches of a task are counted.
LEMMA CalmRest ==
  ASSUME Types, Good(tasks), NEW t \in TaskIds, TaskOK(t), NEW p, NEW new, Moves(p, new),
         Passes(prog[p], new, t), Stays(t), tasks'[t].status = tasks[t].status, Noted(t),
         \A w \in Callers : (w = tasks[t].assignee \/ ~Exists(tasks, t)) => inbox'[w][t] = inbox[w][t]
  PROVE  Told(t)' /\ Left(t)' /\ Once(t)' /\ Unheard(t)' /\ Inbox(t)' = Inbox(t)
<1>0. tasks[t].assignee \in Callers
  BY DEF Good, Stores, Task, Callers
<1>1. /\ prog'[p] = new /\ p \in Threads
      /\ \A q \in Threads : q # p => prog'[q] = prog[q]
  BY ThreadMoves DEF Moves
<1>2. Inbox(t)' = Inbox(t)
  BY <1>0 DEF Inbox, Stays
<1>3. Told(t)'
  BY <1>1 DEF TaskOK, Told, Passes, Stays, Noted
<1>4. Left(t)'
  BY <1>1, <1>2 DEF TaskOK, Left, Passes, Noted
<1>5. Once(t)'
  <2>1. \A q \in Threads : Filler(q, t)' => Filler(q, t)
    BY <1>1 DEF Filler, Passes
  <2>2. QED BY <1>2, <2>1 DEF TaskOK, Once, Noted, Exists
<1>6. Unheard(t)'
  BY DEF TaskOK, Unheard, Exists
<1>7. QED BY <1>2, <1>3, <1>4, <1>5, <1>6

\* The dispatch is recorded in the store.
LEMMA RecordKeeps ==
  ASSUME DispatchInv, NEW p \in Threads, Record(p)
  PROVE  DispatchInv'
<1> DEFINE s == prog[p]
           first == <<>>
           new == first \o Tail(s)
           t == Now(p).task
<1>1. /\ At(p, "record") /\ Continue(p, first) /\ UNCHANGED inbox /\ UNCHANGED note
      /\ UNCHANGED <<wake, session, spawned>>
      /\ RecordDispatch(t, Now(p).ws) \/ UNCHANGED tasks
  BY DEF Record
<1>2. /\ s # <<>> /\ s[1] = Now(p) /\ Now(p).op = "record" /\ Known(Now(p), tasks)
      /\ Shape(s, tasks) /\ Now(p).task \in Carried
  BY <1>1, NowFacts
<1>3. Exists(tasks, t) /\ t \in TaskIds
  BY <1>2 DEF Known, Carried
<1>4. Good(tasks) /\ Types /\ first \in Programs /\ Easy(first, tasks) /\ Shape(first, tasks) /\ Shape(first, tasks')
  BY Nothing DEF DispatchInv, Easy
<1>5. Moves(p, new) /\ prog'[p] = new /\ \A q \in Threads : q # p => prog'[q] = prog[q]
  BY <1>1, <1>2, <1>4, Continues
<1>6. \A x \in TaskIds : Noted(x)
  BY <1>1 DEF Noted, note
<1>7. Idle /\ inbox' \in [Callers -> [Carried -> Nat]] /\ asked' \in [TaskIds -> Nat]
      /\ told' \in [TaskIds -> SUBSET Infos]
  BY <1>1, <1>4 DEF Types, Idle, note
<1>8. CASE UNCHANGED tasks
  BY <1>1, <1>2, <1>7, <1>8, PopNothing
<1>9. CASE RecordDispatch(t, Now(p).ws)
  <2>1. /\ Good(tasks)' /\ OnlyAt(t) /\ Stays(t)
        /\ tasks'[t].removed = tasks[t].removed /\ tasks'[t].status = tasks[t].status
    <3> HIDE DEF t
    <3>1. QED BY <1>3, <1>4, <1>9, RecordMoves
  <2>2. Carries(tasks, tasks')
    <3>1. Exists(tasks', t)
      BY <1>3, <2>1 DEF Exists
    <3> HIDE DEF t
    <3>2. QED BY <1>3, <2>1, <3>1, OnlyCarries
  <2>3. ASSUME NEW x \in TaskIds PROVE Passes(s, new, x)
    <3>1. /\ s[1].op \notin {"put", "purge", "notice"} /\ s[1].op \notin Safe
          /\ ~HeadIs(first, "record", x) /\ ~(first # <<>> /\ Checked(first[1]) /\ first[1].task = x)
      BY <1>2 DEF Safe, HeadIs
    <3> HIDE DEF first, s
    <3>2. QED BY <1>2, <1>4, <3>1, PopPasses DEF s, first
  <2>4. ASSUME NEW x \in TaskIds PROVE TaskOK(x)'
    <3>1. TaskOK(x) /\ inbox' = inbox
      BY <1>1 DEF DispatchInv, Owed, TaskOK
    <3>2. CASE x # t
      <4>1. Same(tasks[x], tasks'[x])
        BY <2>1, <3>2 DEF OnlyAt
      <4>2. QED BY <1>4, <1>5, <1>6, <2>3, <3>1, <4>1, CalmKeeps
    <3>3. CASE x = t
      <4>1. Stays(x) /\ tasks'[x].status = tasks[x].status /\ tasks'[x].removed = tasks[x].removed
        BY <2>1, <3>3
      <4>2. Told(x)' /\ Left(x)' /\ Once(x)' /\ Unheard(x)' /\ Inbox(x)' = Inbox(x)
        BY <1>4, <1>5, <1>6, <2>3, <3>1, <4>1, CalmRest
      <4>3. HeadIs(prog[p], "record", x)
        BY <1>2, <3>3 DEF HeadIs
      <4>4. Handed(x)'
        <5>1. SUFFICES ASSUME Live(tasks', x), tasks'[x].status \in {"pending", "in_progress"}
                       PROVE  (\/ Inbox(x) > 0 \/ x \in read \/ x \in lost
                               \/ \E q \in Threads : PutDue(prog[q], tasks[x].assignee, x))'
          BY DEF Handed
        <5>2. Live(tasks, x) /\ tasks[x].status \in {"pending", "in_progress"}
          BY <4>1, <5>1 DEF Live, Exists
        <5>3. \/ Inbox(x) > 0 \/ x \in read \/ x \in lost
              \/ \E q \in Threads : PutDue(prog[q], tasks[x].assignee, x)
          BY <3>1, <4>3, <5>2 DEF TaskOK, Handed
        <5>4. ~PutDue(prog[p], tasks[x].assignee, x)
          BY <2>3 DEF Passes
        <5>5. QED BY <1>1, <1>5, <4>1, <4>2, <5>3, <5>4 DEF note, Stays
      <4>5. QED BY <4>2, <4>4 DEF TaskOK
    <3>4. QED BY <3>2, <3>3
  <2>5. QED BY <1>1, <1>2, <1>4, <1>7, <2>1, <2>2, <2>4, CallStep
<1>10. QED BY <1>1, <1>8, <1>9

\* The recovery pass.
LEMMA RecoverKeeps ==
  ASSUME DispatchInv, Recover
  PROVE  DispatchInv'
<1>1. /\ RecoverStale(session) /\ inbox' = inbox /\ prog' = prog /\ UNCHANGED note
      /\ wake' = wake /\ session' = session /\ spawned' = spawned
  BY DEF Recover, calls
<1>2. /\ Good(tasks)'
      /\ \A x \in TaskIds :
           /\ Stays(x) /\ tasks'[x].removed = tasks[x].removed
           /\ tasks'[x].dispatch_count = tasks[x].dispatch_count
           /\ \/ tasks'[x].status = tasks[x].status
              \/ tasks[x].status = "in_progress" /\ tasks'[x].status = "pending"
  BY <1>1, RecoverMoves DEF DispatchInv
<1>3. Carries(tasks, tasks')
  BY <1>2 DEF Carries, Stays, Exists
<1>4. Types'
  BY <1>1 DEF DispatchInv, Types, note
<1>5. Shapes'
  BY <1>1, <1>3, ShapeHolds DEF DispatchInv, Shapes
<1>6. ASSUME NEW x \in TaskIds PROVE Told(x)' /\ Left(x)' /\ Handed(x)' /\ Once(x)' /\ Unheard(x)'
  <2>1. Told(x) /\ Left(x) /\ Handed(x) /\ Once(x) /\ Unheard(x)
    BY DEF DispatchInv, Owed
  <2>2. /\ read' = read /\ lost' = lost /\ late' = late /\ overlap' = overlap
        /\ asked' = asked /\ told' = told /\ cut' = cut
    BY <1>1 DEF note
  <2>3. /\ Stays(x) /\ tasks'[x].removed = tasks[x].removed /\ tasks'[x].dispatch_count = tasks[x].dispatch_count
        /\ Inbox(x)' = Inbox(x)
    BY <1>1, <1>2 DEF Inbox, Stays
  <2>4. CASE tasks'[x].status = tasks[x].status
    <3>1. Told(x)' /\ Left(x)'
      BY <1>1, <2>1, <2>2, <2>3, <2>4 DEF Told, Left, Stays
    <3>2. Handed(x)'
      BY <1>1, <2>1, <2>2, <2>3, <2>4 DEF Handed, Live, Exists, Stays
    <3>3. Once(x)' /\ Unheard(x)'
      BY <1>1, <2>1, <2>2, <2>3, <2>4 DEF Once, Unheard, Exists, Filler
    <3>4. QED BY <3>1, <3>2, <3>3
  <2>5. CASE tasks[x].status = "in_progress" /\ tasks'[x].status = "pending"
    <3>1. Told(x)' /\ Left(x)'
      BY <2>5 DEF Told, Left, Terminal
    <3>2. Handed(x)'
      BY <1>1, <2>1, <2>2, <2>3, <2>5 DEF Handed, Live, Exists, Stays
    <3>3. Once(x)' /\ Unheard(x)'
      BY <1>1, <2>1, <2>2, <2>3, <2>5 DEF Once, Unheard, Exists, Filler
    <3>4. QED BY <3>1, <3>2, <3>3
  <2>6. QED BY <1>2, <2>4, <2>5
<1>7. QED BY <1>2, <1>4, <1>5, <1>6 DEF DispatchInv, Owed

\* The retry itself: the task is pending again, its messages go and a new one follows.
LEMMA RetryKeeps ==
  ASSUME DispatchInv, NEW p \in Threads, RetryTask(p)
  PROVE  DispatchInv'
<1> DEFINE s == prog[p]
           t == Now(p).task
           a == tasks[t].assignee
           first == RetryProgram(t, a)
           new == first \o Tail(s)
<1>1. /\ At(p, "retry") /\ UNCHANGED inbox /\ UNCHANGED <<wake, session, spawned>>
  BY DEF RetryTask
<1>2. /\ s # <<>> /\ s[1] = Now(p) /\ Now(p).op = "retry" /\ Known(Now(p), tasks) /\ Now(p).ws \in Callers
      /\ Shape(s, tasks) /\ Now(p).task \in Carried /\ s \in Programs
  BY <1>1, NowFacts
<1>3. Exists(tasks, t) /\ t \in TaskIds /\ t # NoTask
  BY <1>2, TaskStoreAssumption DEF Known, Carried
<1>4. Good(tasks) /\ Types /\ Idle
  BY <1>1 DEF DispatchInv, Idle, Types
<1>5. CASE prog' = [prog EXCEPT ![p] = <<>>] /\ UNCHANGED <<tasks, note>>
  BY <1>1, <1>2, <1>4, <1>5, DropKeeps
<1>6. CASE /\ Retry(t, Now(p).ws, Now(p).info) /\ Continue(p, first)
           /\ read' = read \ {t} /\ UNCHANGED <<lost, late, overlap, asked, told, cut>>
  <2>1. /\ Good(tasks)' /\ OnlyAt(t) /\ Stays(t) /\ tasks'[t].status = "pending"
        /\ ~tasks[t].removed /\ ~tasks'[t].removed
    <3>1. ~tasks[t].removed
      BY <1>6 DEF Retry, ValidateTaskControl
    <3> HIDE DEF t
    <3>2. QED BY <1>2, <1>3, <1>4, <1>6, <3>1, RetryMoves
  <2>2. Exists(tasks', t) /\ tasks'[t].assignee = a /\ a \in Callers
    BY <1>3, <1>4, <2>1, TaskFacts DEF Exists, Stays, Task, Callers
  <2>3. Carries(tasks, tasks')
    <3> HIDE DEF t
    <3>1. QED BY <1>3, <2>1, <2>2, OnlyCarries
  <2> DEFINE f == Call("purge", a, t)
             m == EnqueueTaskMessage(a, t, "asked")
             x == <<f>> \o m
             y == x \o <<Call("schedule", a, t)>>
  <2>4. /\ f \in CallRec /\ Known(f, tasks') /\ f.op = "purge" /\ f.ws = a /\ f.task = t
        /\ f.info = "none" /\ ~Checked(f)
    <3>1. f \in CallRec
      BY <1>2, <2>2 DEF Call, CallRec, Ops, Infos
    <3>2. QED BY <1>3, <2>2, <3>1 DEF Call, Known, Checked
  <2>5. Shape(m, tasks') /\ Puts(m[1], a, t) /\ m # <<>> /\ m[1].info = "asked" /\ Len(m) = 2
    <3>1. Shape(m, tasks') /\ Puts(m[1], a, t) /\ m # <<>> /\ m[1].info = "asked"
      BY <1>3, <2>2, EnqueueShape
    <3>2. QED BY <3>1 DEF EnqueueTaskMessage
  <2> HIDE DEF f, m
  <2>6. Shape(x, tasks') /\ x # <<>> /\ x[1] = f
    <3>1. <<f>> \in Programs /\ Len(<<f>>) = 1 /\ <<f>>[1] = f /\ m \in Programs
      BY <2>4, <2>5 DEF Programs, Shape
    <3>2. /\ x \in Programs /\ DOMAIN x = 1..1 + 2 /\ Len(x) = 1 + 2
          /\ \A i \in 1..1 : x[i] = <<f>>[i]
          /\ \A i \in 1 + 1..1 + 2 : x[i] = m[i - 1]
      <4>1. /\ x \in Programs /\ DOMAIN x = 1..Len(<<f>>) + Len(m) /\ Len(x) = Len(<<f>>) + Len(m)
            /\ \A i \in 1..Len(<<f>>) : x[i] = <<f>>[i]
            /\ \A i \in Len(<<f>>) + 1..Len(<<f>>) + Len(m) : x[i] = m[i - Len(<<f>>)]
        BY <3>1, Joined
      <4>2. QED BY <2>5, <3>1, <4>1
    <3> HIDE DEF x
    <3>3. x[1] = f /\ x[2] = m[1] /\ x[3] = m[2] /\ DOMAIN x = {1, 2, 3} /\ x # <<>> /\ Len(x) > 1
      <4>1. /\ 1 \in 1..1 /\ 2 \in 1 + 1..1 + 2 /\ 3 \in 1 + 1..1 + 2 /\ 2 - 1 = 1 /\ 3 - 1 = 2
            /\ 1..1 + 2 = {1, 2, 3}
        OBVIOUS
      <4>2. x[1] = f /\ x[2] = m[1] /\ x[3] = m[2]
        BY <3>1, <3>2, <4>1
      <4>3. x # <<>> /\ Len(x) > 1
        BY <3>2
      <4>4. QED BY <3>2, <4>1, <4>2, <4>3
    <3>4. /\ 1 \in DOMAIN m /\ 2 \in DOMAIN m /\ Known(m[1], tasks') /\ Known(m[2], tasks')
          /\ m[2].op # "purge" /\ ~Checked(m[2]) /\ (m[2].op = "record" => Puts(m[1], m[2].ws, m[2].task))
      <4>1. 1 \in DOMAIN m /\ 2 \in DOMAIN m /\ 2 - 1 = 1
        BY <2>5, <3>1 DEF Programs
      <4>2. QED BY <2>5, <4>1 DEF Shape, InPlace
    <3>5. x[3 - 1] = m[1] /\ x[2 - 1] = f
      BY <3>3
    <3>6. InPlace(x)
      BY <2>5, <3>3, <3>4, <3>5 DEF InPlace, Puts, Checked
    <3>7. Justified(x, tasks')
      BY <2>4, <2>5, <3>3 DEF Justified
    <3>8. QED BY <2>4, <3>2, <3>3, <3>4, <3>6, <3>7 DEF Shape
  <2>7. Easy(<<Call("schedule", a, t)>>, tasks') /\ Easy(Ensure(t), tasks')
    <3>1. Easy(<<Call("schedule", a, t)>>, tasks') /\ Easy(<<Call("ensure", a, t)>>, tasks')
      BY <1>2, <2>2, PlainCalls, EasyOne
    <3>2. QED BY <3>1, Nothing DEF Ensure
  <2>8. first = y \o Ensure(t)
    BY DEF RetryProgram, f, m
  <2> HIDE DEF x, a
  <2>9. Shape(y, tasks') /\ y # <<>> /\ y[1] = f
    BY <2>6, <2>7, ShapeJoin
  <2> HIDE DEF y
  <2>10. Shape(first, tasks') /\ first # <<>> /\ first[1] = f
    BY <2>7, <2>8, <2>9, ShapeJoin
  <2> HIDE DEF first
  <2>11. Moves(p, new) /\ prog'[p] = new /\ \A q \in Threads : q # p => prog'[q] = prog[q]
    <3>1. first \in Programs
      BY <2>10 DEF Shape
    <3>2. QED BY <1>2, <1>6, <3>1, Continues
  <2>12. Shape(s, tasks')
    BY <1>2, <2>3, ShapeHolds
  <2>13. Shape(new, tasks') /\ new # <<>> /\ new[1] = f
    <3> HIDE DEF s
    <3>1. Shape(new, tasks')
      BY <1>2, <2>10, <2>12, ShapeMoves
    <3>2. new[1] = first[1] /\ new # <<>>
      <4>1. first \in Programs /\ s \in Programs
        BY <1>2, <2>10 DEF Shape
      <4>2. Len(first) \in Nat \ {0} /\ Len(s) \in Nat \ {0}
        BY <1>2, <2>10, <4>1 DEF Programs
      <4>3. /\ new \in Programs /\ Len(new) = Len(first) + Len(s) - 1
            /\ \A i \in 1..Len(first) : new[i] = first[i]
        BY <1>2, <4>1, Spliced
      <4>4. 1 \in 1..Len(first) /\ Len(new) # 0
        BY <4>2, <4>3
      <4>5. QED BY <4>3, <4>4 DEF Programs
    <3>3. QED BY <2>10, <3>1, <3>2
  <2>14. ASSUME NEW z \in TaskIds PROVE Passes(s, new, z)
    <3>1. /\ s[1].op \notin {"put", "purge", "notice"} /\ s[1].op \notin Safe /\ s[1].op # "put"
          /\ ~HeadIs(first, "record", z) /\ ~(first # <<>> /\ Checked(first[1]) /\ first[1].task = z)
      BY <1>2, <2>4, <2>10 DEF Safe, HeadIs
    <3> HIDE DEF s
    <3>2. QED BY <1>2, <2>10, <2>12, <3>1, PopPasses
  <2>15. ASSUME NEW z \in TaskIds PROVE TaskOK(z)'
    <3>1. TaskOK(z) /\ inbox' = inbox
      BY <1>1 DEF DispatchInv, Owed, TaskOK
    <3>2. CASE z # t
      <4>1. Same(tasks[z], tasks'[z]) /\ Noted(z)
        BY <1>6, <2>1, <3>2 DEF OnlyAt, Noted
      <4>2. QED BY <1>4, <2>11, <2>14, <3>1, <4>1, CalmKeeps
    <3>3. CASE z = t
      <4>1. Told(z)' /\ Left(z)'
        BY <2>1, <3>3 DEF Told, Left, Terminal
      <4>2. PutDue(new, a, z)
        <5>1. f.info \notin Closed
          BY <2>4 DEF Closed, Terminal
        <5>2. Len(new) > 1 /\ Puts(new[2], a, t)
          BY <2>1, <2>4, <2>13, <5>1 DEF Shape, Justified
        <5>3. QED BY <2>4, <2>13, <3>3, <5>2 DEF PutDue, HeadIs
      <4>3. Handed(z)'
        BY <2>2, <2>11, <3>3, <4>2 DEF Handed
      <4>4. \A q \in Threads : Filler(q, z)' => Filler(q, z)
        BY <2>11, <2>14 DEF Filler, Passes
      <4>5. Once(z)' /\ Unheard(z)'
        BY <1>3, <1>6, <2>2, <3>1, <3>3, <4>4 DEF TaskOK, Once, Unheard, Inbox, a
      <4>6. QED BY <4>1, <4>3, <4>5 DEF TaskOK
    <3>4. QED BY <3>2, <3>3
  <2>16. /\ inbox' \in [Callers -> [Carried -> Nat]] /\ asked' \in [TaskIds -> Nat]
         /\ told' \in [TaskIds -> SUBSET Infos]
    BY <1>1, <1>4, <1>6 DEF Types
  <2>17. QED BY <1>2, <1>4, <1>6, <2>1, <2>3, <2>10, <2>15, <2>16, CallStep
<1>7. CASE /\ Retry(t, Now(p).ws, Now(p).info) /\ prog' = [prog EXCEPT ![p] = <<>>]
           /\ lost' = lost \union {t} /\ UNCHANGED <<read, late, overlap, asked, told, cut>>
  <2> DEFINE none == <<>>
  <2>1. /\ Good(tasks)' /\ OnlyAt(t) /\ Stays(t) /\ tasks'[t].status = "pending"
        /\ ~tasks[t].removed /\ ~tasks'[t].removed
    <3>1. ~tasks[t].removed
      BY <1>7 DEF Retry, ValidateTaskControl
    <3> HIDE DEF t
    <3>2. QED BY <1>2, <1>3, <1>4, <1>7, <3>1, RetryMoves
  <2>2. Exists(tasks', t)
    BY <2>1 DEF Exists
  <2>3. Carries(tasks, tasks')
    <3> HIDE DEF t
    <3>1. QED BY <1>3, <2>1, <2>2, OnlyCarries
  <2>4. Shape(none, tasks') /\ none \in Programs
    BY Nothing DEF Easy
  <2>5. Moves(p, none) /\ prog'[p] = none /\ \A q \in Threads : q # p => prog'[q] = prog[q]
    <3>1. Moves(p, none)
      BY <1>7, <2>4 DEF Moves
    <3>2. QED BY <1>4, <3>1, ThreadMoves
  <2>6. ASSUME NEW z PROVE Passes(s, none, z)
    <3>1. s[1].op \notin Safe \union {"notice", "put", "purge"}
      BY <1>2 DEF Safe
    <3>2. \A st : ~Noticing(s, z, st)
      BY <1>2, <3>1, NoticeWaits
    <3>3. QED BY <3>1, <3>2 DEF Passes, HeadIs, PutDue, Puts
  <2>7. ASSUME NEW z \in TaskIds PROVE TaskOK(z)'
    <3>1. TaskOK(z) /\ inbox' = inbox
      BY <1>1 DEF DispatchInv, Owed, TaskOK
    <3>2. CASE z # t
      <4>1. Same(tasks[z], tasks'[z]) /\ Noted(z)
        BY <1>7, <2>1, <3>2 DEF OnlyAt, Noted
      <4> HIDE DEF none
      <4>2. QED BY <1>4, <2>5, <2>6, <3>1, <4>1, CalmKeeps
    <3>3. CASE z = t
      <4>1. Told(z)' /\ Left(z)'
        BY <2>1, <3>3 DEF Told, Left, Terminal
      <4>2. Handed(z)'
        BY <1>7, <3>3 DEF Handed
      <4>3. \A q \in Threads : Filler(q, z)' => Filler(q, z)
        BY <2>5 DEF Filler
      <4>4. Inbox(z)' = Inbox(z)
        BY <2>1, <3>1, <3>3 DEF Inbox, Stays
      <4>5. Once(z)' /\ Unheard(z)'
        BY <1>3, <1>7, <2>2, <3>1, <3>3, <4>3, <4>4 DEF TaskOK, Once, Unheard
      <4>6. QED BY <4>1, <4>2, <4>5 DEF TaskOK
    <3>4. QED BY <3>2, <3>3
  <2>8. /\ inbox' \in [Callers -> [Carried -> Nat]] /\ asked' \in [TaskIds -> Nat]
        /\ told' \in [TaskIds -> SUBSET Infos]
    BY <1>1, <1>4, <1>7 DEF Types
  <2> HIDE DEF none
  <2>9. QED BY <1>4, <2>1, <2>3, <2>4, <2>5, <2>7, <2>8, StepKeeps DEF Idle
<1>8. QED BY <1>5, <1>6, <1>7 DEF RetryTask

-----------------------------------------------------------------------------
(* Messages *)

\* What comes after a call that leaves nothing in its place.
LEMMA TailHead ==
  ASSUME NEW ts, NEW s, Shape(s, ts), s # <<>>
  PROVE  LET new == <<>> \o Tail(s)
         IN  /\ new # <<>> => /\ new[1] = s[2] /\ Len(s) > 1 /\ Known(new[1], ts)
                              /\ ~Checked(new[1]) /\ new[1].op # "purge"
                              /\ new[1].op = "record" => Puts(s[1], new[1].ws, new[1].task)
             /\ Len(s) > 1 => new # <<>>
<1> DEFINE first == <<>>
           new == first \o Tail(s)
<1>1. s \in Programs /\ first \in Programs /\ Len(first) = 0
  BY Nothing DEF Easy, Shape
<1>2. /\ new \in Programs /\ Len(new) = 0 + Len(s) - 1 /\ DOMAIN s = 1..Len(s)
      /\ Len(s) \in Nat \ {0}
      /\ \A i \in 0 + 1..Len(new) : new[i] = s[i - 0 + 1]
  <2>1. /\ new \in Programs /\ Len(new) = Len(first) + Len(s) - 1 /\ DOMAIN s = 1..Len(s)
        /\ Len(s) \in Nat \ {0}
        /\ \A i \in Len(first) + 1..Len(new) : new[i] = s[i - Len(first) + 1]
    <3> HIDE DEF first
    <3>1. QED BY <1>1, Spliced
  <2>2. QED BY <1>1, <2>1
<1> HIDE DEF new
<1>3. new # <<>> => Len(new) > 0 /\ Len(new) \in Nat
  BY <1>2 DEF Programs
<1>4. ASSUME new # <<>> PROVE new[1] = s[2] /\ 2 \in DOMAIN s /\ Len(s) > 1
  <2>1. 1 \in 0 + 1..Len(new) /\ 1 - 0 + 1 = 2 /\ 2 \in 1..Len(s) /\ Len(s) > 1
    BY <1>2, <1>3, <1>4
  <2>2. QED BY <1>2, <2>1
<1>5. Len(s) > 1 => new # <<>>
  <2>1. Len(s) > 1 => Len(new) # 0
    BY <1>2
  <2>2. QED BY <2>1
<1>6. ASSUME new # <<>>
      PROVE  /\ Known(new[1], ts) /\ ~Checked(new[1]) /\ new[1].op # "purge"
             /\ new[1].op = "record" => Puts(s[1], new[1].ws, new[1].task)
  <2>1. 2 - 1 = 1 /\ 2 > 1
    OBVIOUS
  <2>2. QED BY <1>4, <1>6, <2>1 DEF Shape, InPlace
<1>7. QED BY <1>4, <1>5, <1>6 DEF new

\* A new message stays; at most one other message goes.
LEMMA Pushes ==
  ASSUME Types, NEW w \in Callers, NEW m \in Carried, Push(w, m)
  PROVE  /\ inbox' \in [Callers -> [Carried -> Nat]]
         /\ \A v \in Callers : v # w => inbox'[v] = inbox[v]
         /\ inbox'[w][m] > 0 /\ inbox[w][m] <= inbox'[w][m] /\ inbox'[w][m] <= inbox[w][m] + 1
         /\ \A x \in Carried : x # m => inbox'[w][x] <= inbox[w][x]
<1> DEFINE pushed == [inbox[w] EXCEPT ![m] = @ + 1]
<1>1. inbox \in [Callers -> [Carried -> Nat]] /\ inbox[w] \in [Carried -> Nat]
  BY DEF Types
<1>2. /\ pushed \in [Carried -> Nat] /\ pushed[m] = inbox[w][m] + 1
      /\ \A x \in Carried : x # m => pushed[x] = inbox[w][x]
  BY <1>1
<1>3. \/ inbox' = [inbox EXCEPT ![w] = pushed]
      \/ \E old \in Carried : inbox[w][old] > 0 /\ inbox' = [inbox EXCEPT ![w] = [pushed EXCEPT ![old] = @ - 1]]
  BY DEF Push
<1> HIDE DEF pushed
<1>4. CASE inbox' = [inbox EXCEPT ![w] = pushed]
  <2>1. inbox' \in [Callers -> [Carried -> Nat]] /\ inbox'[w] = pushed /\ \A v \in Callers : v # w => inbox'[v] = inbox[v]
    BY <1>1, <1>2, <1>4
  <2>2. inbox[w][m] \in Nat /\ \A x \in Carried : inbox[w][x] \in Nat
    BY <1>1
  <2>3. QED BY <1>2, <2>1, <2>2
<1>5. ASSUME NEW old \in Carried, inbox[w][old] > 0,
             inbox' = [inbox EXCEPT ![w] = [pushed EXCEPT ![old] = @ - 1]]
      PROVE  /\ inbox' \in [Callers -> [Carried -> Nat]]
             /\ \A v \in Callers : v # w => inbox'[v] = inbox[v]
             /\ inbox'[w][m] > 0 /\ inbox[w][m] <= inbox'[w][m] /\ inbox'[w][m] <= inbox[w][m] + 1
             /\ \A x \in Carried : x # m => inbox'[w][x] <= inbox[w][x]
  <2> DEFINE fresh == [pushed EXCEPT ![old] = @ - 1]
  <2>1. inbox[w][m] \in Nat /\ \A x \in Carried : inbox[w][x] \in Nat
    BY <1>1
  <2>2. pushed[old] - 1 \in Nat
    BY <1>2, <1>5, <2>1
  <2>3. /\ fresh \in [Carried -> Nat] /\ fresh[old] = pushed[old] - 1
        /\ \A x \in Carried : x # old => fresh[x] = pushed[x]
    BY <1>2, <2>2
  <2>4. inbox' = [inbox EXCEPT ![w] = fresh]
    BY <1>5
  <2> HIDE DEF fresh
  <2>5. inbox' \in [Callers -> [Carried -> Nat]] /\ inbox'[w] = fresh /\ \A v \in Callers : v # w => inbox'[v] = inbox[v]
    BY <1>1, <2>3, <2>4
  <2>6. fresh[m] > 0 /\ inbox[w][m] <= fresh[m] /\ fresh[m] <= inbox[w][m] + 1
    BY <1>2, <1>5, <2>1, <2>3
  <2>7. ASSUME NEW x \in Carried, x # m PROVE fresh[x] <= inbox[w][x]
    BY <1>2, <2>1, <2>3, <2>7
  <2>8. QED BY <2>5, <2>6, <2>7
<1>6. QED BY <1>3, <1>4, <1>5

\* A message that was pushed into inbox w leaves the other tasks, but for what the cap
\* dropped.
LEMMA PushedPast ==
  ASSUME Types, Good(tasks), UNCHANGED tasks, NEW w \in Callers, NEW m \in Carried, Push(w, m),
         m # NoTask => Exists(tasks, m), NEW x \in TaskIds, TaskOK(x), x # m \/ tasks[x].assignee # w,
         Dropped(w) \subseteq lost'
  PROVE  /\ Inbox(x)' \in Nat /\ Inbox(x)' <= Inbox(x) /\ (Inbox(x)' = 0 => x \in lost' \/ Inbox(x) = 0)
         /\ \A v \in Callers : ~Exists(tasks, x) => inbox'[v][x] = inbox[v][x]
<1>1. /\ inbox' \in [Callers -> [Carried -> Nat]] /\ inbox \in [Callers -> [Carried -> Nat]]
      /\ \A v \in Callers : v # w => inbox'[v] = inbox[v]
      /\ \A y \in Carried : y # m => inbox'[w][y] <= inbox[w][y]
  BY Pushes DEF Types
<1>2. x \in Carried /\ x # NoTask /\ tasks[x].assignee \in Callers /\ tasks'[x] = tasks[x]
  BY TaskFacts, TaskStoreAssumption DEF Carried, Task, Callers
<1>3. Inbox(x) = inbox[tasks[x].assignee][x] /\ Inbox(x)' = inbox'[tasks[x].assignee][x]
  BY <1>2 DEF Inbox
<1>4. Inbox(x)' \in Nat /\ Inbox(x) \in Nat
  BY <1>1, <1>2, <1>3
<1>5. Inbox(x)' <= Inbox(x)
  <2>1. CASE tasks[x].assignee # w
    BY <1>1, <1>2, <1>3, <1>4, <2>1
  <2>2. CASE tasks[x].assignee = w
    BY <1>1, <1>2, <1>3, <2>2
  <2>3. QED BY <2>1, <2>2
<1>6. Inbox(x)' = 0 => x \in lost' \/ Inbox(x) = 0
  <2>1. CASE tasks[x].assignee # w
    BY <1>1, <1>2, <1>3, <2>1
  <2>2. ASSUME tasks[x].assignee = w, Inbox(x)' = 0, Inbox(x) # 0 PROVE x \in lost'
    <3>1. inbox[w][x] > 0 /\ inbox'[w][x] = 0
      BY <1>3, <1>4, <2>2
    <3>2. QED BY <2>2, <3>1 DEF Dropped
  <2>3. QED BY <2>1, <2>2
<1>7. ASSUME NEW v \in Callers, ~Exists(tasks, x) PROVE inbox'[v][x] = inbox[v][x]
  <2>1. inbox[v][x] = 0 /\ x # m
    BY <1>2, <1>7 DEF TaskOK, Unheard
  <2>2. inbox'[v][x] <= 0 \/ inbox'[v] = inbox[v]
    BY <1>1, <1>2, <2>1
  <2>3. QED BY <1>1, <1>2, <2>1, <2>2
<1>8. QED BY <1>4, <1>5, <1>6, <1>7

\* A message goes into an inbox.
LEMMA EnqueueKeeps ==
  ASSUME DispatchInv, NEW p \in Threads, Enqueue(p)
  PROVE  DispatchInv'
<1> DEFINE s == prog[p]
           first == <<>>
           new == first \o Tail(s)
           w == Now(p).ws
           t == Now(p).task
<1>1. /\ At(p, "put") /\ Continue(p, first) /\ UNCHANGED tasks /\ UNCHANGED <<wake, session, spawned>>
      /\ Push(w, t) /\ UNCHANGED <<overlap, told, cut>>
      /\ t = NoTask \/ tasks[t].assignee # w =>
           lost' = lost \union Dropped(w) /\ UNCHANGED <<read, late, asked>>
      /\ ~(t = NoTask \/ tasks[t].assignee # w) =>
           /\ read' = read \ {t} /\ lost' = (lost \ {t}) \union Dropped(w)
           /\ late' = IF tasks[t].status \in Closed THEN late \union {t} ELSE late
           /\ asked' = IF Now(p).info = "asked" THEN [asked EXCEPT ![t] = @ + 1] ELSE asked
  BY DEF Enqueue
<1>2. /\ s # <<>> /\ s[1] = Now(p) /\ Now(p).op = "put" /\ Known(Now(p), tasks)
      /\ Shape(s, tasks) /\ t \in Carried /\ s \in Programs /\ w \in Callers
  BY <1>1, NowFacts
<1>3. /\ Good(tasks) /\ Types /\ Shape(first, tasks) /\ Shape(first, tasks') /\ first \in Programs
      /\ Good(tasks)' /\ \A x \in TaskIds : Same(tasks[x], tasks'[x])
  BY <1>1, Nothing, SameCarries DEF DispatchInv, Easy, Good
<1>4. Moves(p, new) /\ prog'[p] = new /\ \A q \in Threads : q # p => prog'[q] = prog[q]
  BY <1>1, <1>2, <1>3, Continues
<1>5. /\ new # <<>> => /\ Known(new[1], tasks) /\ ~Checked(new[1])
                       /\ new[1].op = "record" => Puts(s[1], new[1].ws, new[1].task)
  BY <1>2, TailHead
<1>6. \A x, st : ~Noticing(s, x, st)
  BY <1>2, NoticeWaits DEF Safe
<1>7. /\ inbox' \in [Callers -> [Carried -> Nat]]
      /\ inbox'[w][t] > 0 /\ inbox[w][t] <= inbox'[w][t] /\ inbox'[w][t] <= inbox[w][t] + 1
  BY <1>1, <1>2, <1>3, Pushes
<1> HIDE DEF s, first, new
<1>8. ASSUME NEW x \in TaskIds PROVE TaskOK(x)'
  <2>1. TaskOK(x) /\ x \in Carried /\ Same(tasks[x], tasks'[x]) /\ tasks'[x] = tasks[x] /\ x # NoTask
    BY <1>1, <1>3, TaskStoreAssumption DEF DispatchInv, Owed, TaskOK, Carried
  <2>2. CASE x # t \/ tasks[x].assignee # w
    <3>1. Noted(x)
      <4>1. CASE t = NoTask \/ tasks[t].assignee # w
        BY <1>1, <4>1 DEF Noted
      <4>2. CASE x # t /\ ~(t = NoTask \/ tasks[t].assignee # w)
        <5>1. t \in TaskIds
          BY <1>2, <4>2 DEF Carried
        <5>2. asked'[x] = asked[x]
          BY <1>1, <1>3, <4>2, <5>1 DEF Types
        <5>3. QED BY <1>1, <4>2, <5>2 DEF Noted
      <4>3. QED BY <2>2, <4>1, <4>2
    <3>2. ~HeadIs(s, "purge", x) /\ ~PutDue(s, tasks[x].assignee, x)
      BY <1>2, <2>2 DEF HeadIs, PutDue, Puts
    <3>3. ~HeadIs(new, "record", x)
      BY <1>2, <1>5, <2>1, <2>2 DEF HeadIs, Puts, Known
    <3>4. Passes(s, new, x)
      BY <1>5, <1>6, <3>2, <3>3 DEF Passes
    <3>5. /\ Inbox(x)' \in Nat /\ Inbox(x)' <= Inbox(x) /\ (Inbox(x)' = 0 => x \in lost' \/ Inbox(x) = 0)
          /\ \A v \in Callers : ~Exists(tasks, x) => inbox'[v][x] = inbox[v][x]
      <4>1. Dropped(w) \subseteq lost' /\ (t # NoTask => Exists(tasks, t))
        BY <1>1, <1>2 DEF Known
      <4>2. UNCHANGED tasks /\ Push(w, t)
        BY <1>1
      <4> HIDE DEF w, t
      <4>3. QED BY <1>2, <1>3, <2>1, <2>2, <4>1, <4>2, PushedPast
    <3>6. QED BY <1>3, <1>4, <2>1, <3>1, <3>4, <3>5, DropsKeep DEF s
  <2>3. CASE x = t /\ tasks[x].assignee = w
    <3>1. /\ late' = IF tasks[t].status \in Closed THEN late \union {t} ELSE late
          /\ asked' = IF Now(p).info = "asked" THEN [asked EXCEPT ![t] = @ + 1] ELSE asked
          /\ overlap' = overlap /\ told' = told /\ cut' = cut
      BY <1>1, <2>1, <2>3
    <3>2. /\ Inbox(x) \in Nat /\ Inbox(x)' \in Nat /\ Inbox(x)' > 0 /\ Inbox(x)' <= Inbox(x) + 1
          /\ asked[x] \in Nat
      BY <1>2, <1>3, <1>7, <2>1, <2>3 DEF Inbox, Types
    <3>3. Told(x)'
      BY <1>4, <1>6, <2>1, <3>1 DEF TaskOK, Told, s
    <3>4. Left(x)'
      BY <2>1, <2>3, <3>1 DEF Left, Closed
    <3>5. Handed(x)'
      BY <3>2 DEF Handed
    <3>6. Once(x)'
      <4>1. \A q \in Threads : Filler(q, x)' => q # p /\ Filler(q, x)
        BY <1>4, <1>5 DEF Filler
      <4>2. SUFFICES ASSUME x \notin overlap
                     PROVE  /\ \A q, r \in Threads : Filler(q, x)' /\ Filler(r, x)' => q = r
                            /\ Inbox(x)' <= asked'[x] + 1
                            /\ \A q \in Threads : Filler(q, x)' => Inbox(x)' <= asked'[x]
        BY <3>1 DEF Once
      <4>3. Exists(tasks, x)
        BY <1>2, <2>1, <2>3 DEF Known
      <4>4. /\ \A q, r \in Threads : Filler(q, x) /\ Filler(r, x) => q = r
            /\ Inbox(x) <= asked[x] + 1
            /\ \A q \in Threads : Filler(q, x) => Inbox(x) <= asked[x]
        BY <2>1, <4>2, <4>3 DEF TaskOK, Once
      <4>5. CASE Now(p).info = "asked"
        <5>1. asked'[x] = asked[x] + 1
          BY <1>3, <2>3, <3>1, <4>5 DEF Types
        <5>2. QED BY <3>2, <4>1, <4>4, <5>1
      <4>6. CASE Now(p).info # "asked"
        <5>1. Now(p).info = "checked" /\ asked'[x] = asked[x]
          BY <1>2, <3>1, <4>6 DEF Known
        <5>2. Filler(p, x)
          BY <1>2, <2>3, <5>1 DEF Filler, Checked, s
        <5>3. \A q \in Threads : ~Filler(q, x)'
          BY <4>1, <4>4, <5>2
        <5>4. QED BY <3>2, <4>4, <5>1, <5>2, <5>3
      <4>7. QED BY <4>5, <4>6
    <3>7. Unheard(x)'
      <4>1. Exists(tasks', x)
        BY <1>1, <1>2, <2>1, <2>3 DEF Known, Exists
      <4>2. QED BY <4>1 DEF Unheard
    <3>8. QED BY <3>3, <3>4, <3>5, <3>6, <3>7 DEF TaskOK
  <2>4. QED BY <2>2, <2>3
<1>9. asked' \in [TaskIds -> Nat] /\ told' \in [TaskIds -> SUBSET Infos] /\ Idle
  <2>1. CASE t = NoTask \/ tasks[t].assignee # w
    BY <1>1, <1>3, <2>1 DEF Types, Idle
  <2>2. CASE ~(t = NoTask \/ tasks[t].assignee # w)
    <3>1. t \in TaskIds
      BY <1>2, <2>2 DEF Carried
    <3>2. asked[t] + 1 \in Nat /\ [asked EXCEPT ![t] = @ + 1] \in [TaskIds -> Nat]
      BY <1>3, <3>1 DEF Types
    <3>3. QED BY <1>1, <1>3, <2>2, <3>2 DEF Types, Idle
  <2>3. QED BY <2>1, <2>2
<1>10. Carries(tasks, tasks')
  BY <1>1, SameCarries
<1>11. first = <<>>
  BY DEF first
<1>12. QED BY <1>1, <1>2, <1>3, <1>7, <1>8, <1>9, <1>10, <1>11, CallStep DEF s

\* The creator is told how a task ended.
LEMMA NotifyKeeps ==
  ASSUME DispatchInv, NEW p \in Threads, Notify(p)
  PROVE  DispatchInv'
<1> DEFINE s == prog[p]
           first == <<>>
           new == first \o Tail(s)
           w == Now(p).ws
           t == Now(p).task
<1>1. /\ At(p, "notice") /\ Continue(p, first) /\ UNCHANGED tasks /\ UNCHANGED <<wake, session, spawned>>
      /\ Push(w, t) /\ lost' = lost \union Dropped(w)
      /\ told' = [told EXCEPT ![t] = @ \union {Now(p).info}]
      /\ UNCHANGED <<read, late, overlap, asked, cut>>
  BY DEF Notify
<1>2. /\ s # <<>> /\ s[1] = Now(p) /\ Now(p).op = "notice" /\ Known(Now(p), tasks)
      /\ Shape(s, tasks) /\ t \in Carried /\ s \in Programs /\ w \in Callers /\ Now(p) \in CallRec
  BY <1>1, NowFacts
<1>3. /\ Good(tasks) /\ Types /\ Shape(first, tasks) /\ Shape(first, tasks') /\ first \in Programs
      /\ Good(tasks)' /\ \A x \in TaskIds : Same(tasks[x], tasks'[x])
  BY <1>1, Nothing, SameCarries DEF DispatchInv, Easy, Good
<1>4. t \in TaskIds /\ Exists(tasks, t) /\ w # tasks[t].assignee /\ Now(p).info \in Infos
  BY <1>2 DEF Known, Carried, CallRec
<1>5. Moves(p, new)
  BY <1>1, <1>2, <1>3, Continues
<1>6. new # <<>> => /\ ~Checked(new[1])
                    /\ new[1].op = "record" => Puts(s[1], new[1].ws, new[1].task)
  BY <1>2, TailHead
<1>7. inbox' \in [Callers -> [Carried -> Nat]]
  BY <1>1, <1>2, <1>3, Pushes
<1>8. /\ told' \in [TaskIds -> SUBSET Infos] /\ told'[t] = told[t] \union {Now(p).info}
      /\ \A x \in TaskIds : x # t => told'[x] = told[x]
  BY <1>1, <1>3, <1>4 DEF Types
<1> HIDE DEF s, first, new
<1>9. ASSUME NEW x \in TaskIds PROVE TaskOK(x)'
  <2>1. TaskOK(x) /\ x \in Carried /\ Same(tasks[x], tasks'[x])
    BY <1>3 DEF DispatchInv, Owed, TaskOK, Carried
  <2>2. Noted(x)
    BY <1>1, <1>8 DEF Noted
  <2>3. \A st : Noticing(s, x, st) => st \in told'[x]
    BY <1>2, <1>8, NoticeWaits DEF Safe
  <2>4. Passes(s, new, x)
    BY <1>2, <1>6, <2>3 DEF Passes, HeadIs, PutDue, Puts
  <2>5. /\ Inbox(x)' \in Nat /\ Inbox(x)' <= Inbox(x) /\ (Inbox(x)' = 0 => x \in lost' \/ Inbox(x) = 0)
        /\ \A v \in Callers : ~Exists(tasks, x) => inbox'[v][x] = inbox[v][x]
    <3>1. Dropped(w) \subseteq lost' /\ UNCHANGED tasks /\ Push(w, t) /\ (x # t \/ tasks[x].assignee # w)
      BY <1>1, <1>4
    <3> HIDE DEF w, t
    <3>2. QED BY <1>2, <1>3, <1>4, <2>1, <3>1, PushedPast
  <2>6. QED BY <1>3, <1>5, <2>1, <2>2, <2>4, <2>5, DropsKeep DEF s
<1>10. asked' \in [TaskIds -> Nat] /\ Idle /\ Carries(tasks, tasks')
  BY <1>1, <1>3, SameCarries DEF Types, Idle
<1>11. first = <<>>
  BY DEF first
<1>12. QED BY <1>1, <1>2, <1>3, <1>7, <1>8, <1>9, <1>10, <1>11, CallStep DEF s

\* The threads about to queue a message they found missing are the ones the model counts.
LEMMA FillersFill ==
  ASSUME DispatchInv, NEW x \in TaskIds, NEW q \in Threads
  PROVE  Filler(q, x) <=> q \in Filling(x)
<1> DEFINE c == Tell("put", tasks[x].assignee, x, "checked")
<1>1. c.op = "put" /\ c.ws = tasks[x].assignee /\ c.task = x /\ c.info = "checked"
  BY DEF Tell
<1>2. ASSUME Filler(q, x) PROVE q \in Filling(x)
  <2>1. prog[q] # <<>> /\ Checked(prog[q][1]) /\ prog[q][1].task = x /\ prog[q] \in Programs
    BY <1>2 DEF Filler, DispatchInv, Types
  <2>2. Now(q) = prog[q][1] /\ At(q, "put")
    BY <2>1 DEF Now, At, Programs, Checked
  <2>3. Now(q) \in CallRec /\ Known(Now(q), tasks)
    BY <2>2, NowFacts
  <2>4. Now(q).op = "put" /\ Now(q).ws = tasks[x].assignee /\ Now(q).task = x /\ Now(q).info = "checked"
    BY <2>1, <2>2, <2>3 DEF Known, Checked
  <2>5. Now(q) = c
    BY <2>3, <2>4 DEF CallRec, Tell
  <2>6. QED BY <2>2, <2>5 DEF Filling
<1>3. ASSUME q \in Filling(x) PROVE Filler(q, x)
  <2>1. At(q, "put") /\ Now(q) = c
    BY <1>3 DEF Filling
  <2>2. prog[q] # <<>> /\ prog[q][1] = Now(q)
    BY <2>1, NowFacts
  <2>3. QED BY <1>1, <2>1, <2>2 DEF Filler, Checked
<1>4. QED BY <1>2, <1>3

\* The messages of a task are purged.
LEMMA PurgeKeeps ==
  ASSUME DispatchInv, NEW p \in Threads, Purge(p)
  PROVE  DispatchInv'
<1> DEFINE s == prog[p]
           first == <<>>
           new == first \o Tail(s)
           w == Now(p).ws
           t == Now(p).task
<1>1. At(p, "purge")
  BY DEF Purge
<1>2. /\ s # <<>> /\ s[1] = Now(p) /\ Now(p).op = "purge" /\ Known(Now(p), tasks)
      /\ Shape(s, tasks) /\ t \in Carried /\ s \in Programs /\ w \in Callers /\ Now(p) \in CallRec
  BY <1>1, NowFacts
<1>3. t \in TaskIds /\ Exists(tasks, t) /\ w = tasks[t].assignee
  BY <1>2 DEF Known, Carried
<1>4. /\ Continue(p, first) /\ UNCHANGED tasks /\ UNCHANGED <<wake, session, spawned>>
      /\ inbox' = [inbox EXCEPT ![w][t] = 0]
      /\ CountAgain({t}) /\ late' = late \ {t}
      /\ lost' = (IF Now(p).info \in Closed /\ tasks[t].status \notin Closed
                   THEN lost \union {t} ELSE lost)
      /\ read' = read /\ told' = told /\ cut' = cut
  BY <1>3 DEF Purge, PurgeMessages
<1>5. /\ Good(tasks) /\ Types /\ Shape(first, tasks) /\ Shape(first, tasks') /\ first \in Programs
      /\ Good(tasks)' /\ \A x \in TaskIds : Same(tasks[x], tasks'[x])
  BY <1>4, Nothing, SameCarries DEF DispatchInv, Easy, Good
<1>6. Moves(p, new) /\ prog'[p] = new /\ \A q \in Threads : q # p => prog'[q] = prog[q]
  BY <1>4, <1>2, <1>5, Continues
<1>7. /\ new # <<>> => /\ ~Checked(new[1]) /\ new[1] = s[2]
                       /\ new[1].op = "record" => Puts(s[1], new[1].ws, new[1].task)
      /\ Len(s) > 1 => new # <<>>
  BY <1>2, TailHead
<1>8. /\ inbox' \in [Callers -> [Carried -> Nat]] /\ inbox'[w][t] = 0
      /\ \A v \in Callers : \A x \in Carried : x # t => inbox'[v][x] = inbox[v][x]
  <2>1. inbox \in [Callers -> [Carried -> Nat]]
    BY <1>5 DEF Types
  <2>2. inbox' = [inbox EXCEPT ![w] = [inbox[w] EXCEPT ![t] = 0]]
    BY <1>4, <1>2, <2>1
  <2>3. [inbox[w] EXCEPT ![t] = 0] \in [Carried -> Nat]
    BY <1>2, <2>1
  <2>4. QED BY <1>2, <2>1, <2>2, <2>3
<1>9. /\ asked' \in [TaskIds -> Nat] /\ asked'[t] = 0 /\ \A x \in TaskIds : x # t => asked'[x] = asked[x]
  BY <1>4, <1>5, <1>3 DEF Types, CountAgain
<1>10. /\ \A x \in TaskIds : x # t => (x \in overlap' <=> x \in overlap)
       /\ t \notin overlap' => \A q, r \in Filling(t) : q = r
  BY <1>4, <1>3 DEF CountAgain
<1>11. DOMAIN first = {} /\ first = <<>>
  BY Nothing
<1> HIDE DEF s, first, new
<1>12. \A x : \A st : Noticing(s, x, st) => Noticing(new, x, st)
  BY <1>2, <1>5, <1>11, NoticeMoves DEF new
<1>13. ASSUME NEW x \in TaskIds PROVE TaskOK(x)'
  <2>1. TaskOK(x) /\ x \in Carried /\ Same(tasks[x], tasks'[x]) /\ tasks'[x] = tasks[x]
    BY <1>4, <1>5 DEF DispatchInv, Owed, TaskOK, Carried
  <2>2. CASE x # t
    <3>1. Noted(x)
      BY <1>4, <1>9, <1>10, <2>2 DEF Noted
    <3>2. Passes(s, new, x)
      BY <1>2, <1>7, <1>12, <2>2 DEF Passes, HeadIs, PutDue, Puts
    <3>3. \A v \in Callers : inbox'[v][x] = inbox[v][x]
      BY <1>8, <2>1, <2>2
    <3>4. QED BY <1>5, <1>6, <2>1, <3>1, <3>2, <3>3, CalmKeeps DEF s
  <2>3. CASE x = t
    <3>1. Inbox(x)' = 0
      BY <1>3, <1>8, <2>1, <2>3 DEF Inbox
    <3>2. Told(x)'
      BY <1>4, <1>6, <1>12, <2>1 DEF TaskOK, Told, s
    <3>3. Left(x)'
      BY <3>1 DEF Left
    <3>4. Handed(x)'
      <4>1. SUFFICES ASSUME Live(tasks, x), tasks[x].status \in {"pending", "in_progress"}
                     PROVE  x \in lost' \/ PutDue(new, tasks[x].assignee, x)
        BY <1>6, <2>1 DEF Handed, Live, Exists
      <4>2. CASE s[1].info \in Closed
        BY <1>4, <1>2, <2>3, <4>1, <4>2 DEF Closed, Terminal
      <4>3. CASE Len(s) > 1 /\ Puts(s[2], s[1].ws, s[1].task)
        BY <1>2, <1>3, <1>7, <2>3, <4>3 DEF PutDue
      <4>4. ~tasks[s[1].task].removed
        BY <1>2, <2>3, <4>1 DEF Live
      <4>5. QED BY <1>2, <4>2, <4>3, <4>4 DEF Shape, Justified
    <3>5. Once(x)'
      <4>1. \A q \in Threads : Filler(q, x)' => Filler(q, x)
        BY <1>6, <1>7 DEF Filler
      <4>2. x \notin overlap' => \A q, r \in Threads : Filler(q, x) /\ Filler(r, x) => q = r
        BY <1>10, <2>3, FillersFill
      <4>3. Inbox(x)' <= asked'[x] + 1 /\ Inbox(x)' <= asked'[x]
        BY <1>9, <2>3, <3>1
      <4>4. QED BY <4>1, <4>2, <4>3 DEF Once
    <3>6. Unheard(x)'
      BY <1>4, <1>3, <2>3 DEF Unheard, Exists
    <3>7. QED BY <3>2, <3>3, <3>4, <3>5, <3>6 DEF TaskOK
  <2>4. QED BY <2>2, <2>3
<1>14. told' \in [TaskIds -> SUBSET Infos] /\ Idle /\ Carries(tasks, tasks')
  BY <1>4, <1>5, SameCarries DEF Types, Idle
<1>15. QED BY <1>4, <1>2, <1>5, <1>8, <1>9, <1>11, <1>13, <1>14, CallStep DEF s

\* An inbox is read out.
LEMMA DequeueKeeps ==
  ASSUME DispatchInv, NEW p \in Threads, NEW rest \in [Carried -> Nat], Dequeue(p, rest)
  PROVE  DispatchInv'
<1> DEFINE s == prog[p]
           first == <<>>
           new == first \o Tail(s)
           w == Now(p).ws
           mine == {t \in TaskIds : tasks[t].assignee = w /\ rest[t] < inbox[w][t]}
           gone == {t \in mine : rest[t] = 0}
<1>1. /\ At(p, "dequeue") /\ Continue(p, first) /\ UNCHANGED tasks /\ UNCHANGED <<wake, session, spawned>>
      /\ \A m \in Carried : rest[m] <= inbox[w][m]
      /\ inbox' = [inbox EXCEPT ![w] = rest]
      /\ read' = read \union mine /\ late' = late \ gone
      /\ CountAgain(gone) /\ lost' = lost /\ told' = told /\ cut' = cut
  BY DEF Dequeue
<1>2. /\ s # <<>> /\ s[1] = Now(p) /\ Now(p).op = "dequeue" /\ Shape(s, tasks) /\ s \in Programs /\ w \in Callers
  BY <1>1, NowFacts
<1>3. /\ Good(tasks) /\ Types /\ Shape(first, tasks) /\ Shape(first, tasks') /\ first \in Programs
      /\ Good(tasks)' /\ \A x \in TaskIds : Same(tasks[x], tasks'[x])
  BY <1>1, Nothing, SameCarries DEF DispatchInv, Easy, Good
<1>4. Moves(p, new) /\ prog'[p] = new /\ \A q \in Threads : q # p => prog'[q] = prog[q]
  BY <1>1, <1>2, <1>3, Continues
<1>5. ASSUME NEW x \in TaskIds PROVE Passes(s, new, x)
  <2>1. /\ s[1].op \notin {"put", "purge", "notice"} /\ s[1].op \notin Safe
        /\ ~HeadIs(first, "record", x) /\ ~(first # <<>> /\ Checked(first[1]) /\ first[1].task = x)
    BY <1>2 DEF Safe, HeadIs
  <2> HIDE DEF first, s
  <2>2. QED BY <1>2, <1>3, <2>1, PopPasses DEF s, first
<1>6. /\ inbox' \in [Callers -> [Carried -> Nat]] /\ inbox'[w] = rest
      /\ \A v \in Callers : v # w => inbox'[v] = inbox[v]
  BY <1>1, <1>2, <1>3 DEF Types
<1>7. /\ asked' \in [TaskIds -> Nat]
      /\ \A x \in TaskIds : asked'[x] = IF x \in gone THEN 0 ELSE asked[x]
  <2> HIDE DEF gone
  <2>1. QED BY <1>1, <1>3 DEF Types, CountAgain
<1>8. \A x \in TaskIds : x \in overlap' <=> IF x \in gone THEN \E q, r \in Filling(x) : q # r ELSE x \in overlap
  <2> HIDE DEF gone
  <2>1. QED BY <1>1 DEF CountAgain
<1>9. \A x \in TaskIds : /\ x \in mine <=> tasks[x].assignee = w /\ rest[x] < inbox[w][x]
                         /\ x \in gone <=> x \in mine /\ rest[x] = 0
  OBVIOUS
<1> HIDE DEF s, first, new, mine, gone
<1>10. ASSUME NEW x \in TaskIds PROVE TaskOK(x)'
  <2>1. TaskOK(x) /\ x \in Carried /\ Same(tasks[x], tasks'[x]) /\ tasks'[x] = tasks[x]
    BY <1>1, <1>3 DEF DispatchInv, Owed, TaskOK, Carried
  <2>2. rest[x] \in Nat /\ inbox[w][x] \in Nat /\ rest[x] <= inbox[w][x]
    BY <1>1, <1>2, <1>3, <2>1 DEF Types
  <2>3. CASE x \notin mine
    <3>1. Noted(x)
      BY <1>1, <1>7, <1>8, <1>9, <2>3 DEF Noted
    <3>2. \A v \in Callers : (v = tasks[x].assignee \/ ~Exists(tasks, x)) => inbox'[v][x] = inbox[v][x]
      <4>1. tasks[x].assignee = w => rest[x] = inbox[w][x]
        BY <1>9, <2>2, <2>3
      <4>2. ~Exists(tasks, x) => rest[x] = inbox[w][x]
        BY <1>2, <2>1, <2>2 DEF TaskOK, Unheard
      <4>3. QED BY <1>6, <4>1, <4>2
    <3>3. QED BY <1>3, <1>4, <1>5, <2>1, <3>1, <3>2, CalmKeeps DEF s
  <2>4. CASE x \in mine
    <3>1. tasks[x].assignee = w /\ rest[x] < inbox[w][x] /\ x \in read'
      BY <1>1, <1>9, <2>4
    <3>2. Inbox(x)' = rest[x] /\ Inbox(x) = inbox[w][x] /\ Exists(tasks, x)
      <4>1. Inbox(x)' = rest[x] /\ Inbox(x) = inbox[w][x]
        BY <1>6, <2>1, <3>1 DEF Inbox
      <4>2. inbox[w][x] # 0
        BY <2>2, <3>1
      <4>3. QED BY <1>2, <2>1, <4>1, <4>2 DEF TaskOK, Unheard
    <3>3. Told(x)'
      BY <1>1, <1>4, <1>5, <2>1 DEF TaskOK, Told, Passes, s
    <3>4. Left(x)'
      <4>1. CASE rest[x] = 0
        BY <3>2, <4>1 DEF Left
      <4>2. CASE rest[x] # 0
        <5>1. x \in late => x \in late'
          BY <1>1, <1>9, <4>2
        <5>2. Inbox(x) # 0
          BY <2>2, <3>1, <3>2
        <5>3. \A q \in Threads : HeadIs(prog[q], "purge", x) => HeadIs(prog'[q], "purge", x)
          BY <1>4, <1>5 DEF Passes, s
        <5>4. x \in cut => x \in cut'
          BY <1>1
        <5>5. SUFFICES ASSUME tasks[x].status \in Terminal
                       PROVE  x \in late' \/ x \in cut' \/ \E q \in Threads : HeadIs(prog'[q], "purge", x)
          BY <2>1 DEF Left
        <5>6. x \in late \/ x \in cut \/ \E q \in Threads : HeadIs(prog[q], "purge", x)
          BY <2>1, <5>2, <5>5 DEF TaskOK, Left
        <5>7. QED BY <5>1, <5>3, <5>4, <5>6
      <4>3. QED BY <4>1, <4>2
    <3>5. Handed(x)'
      BY <3>1 DEF Handed
    <3>6. Once(x)'
      <4>1. \A q \in Threads : Filler(q, x)' => Filler(q, x)
        BY <1>4, <1>5 DEF Filler, Passes
      <4>2. asked[x] \in Nat
        BY <1>3 DEF Types
      <4>3. CASE x \in gone
        <5>1. asked'[x] = 0 /\ Inbox(x)' = 0 /\ (x \notin overlap' => \A q, r \in Filling(x) : q = r)
          BY <1>7, <1>8, <1>9, <3>2, <4>3
        <5>2. x \notin overlap' => \A q, r \in Threads : Filler(q, x) /\ Filler(r, x) => q = r
          BY <5>1, FillersFill
        <5>3. Inbox(x)' <= asked'[x] + 1 /\ Inbox(x)' <= asked'[x]
          BY <5>1
        <5>4. QED BY <4>1, <5>2, <5>3 DEF Once
      <4>4. CASE x \notin gone
        <5>1. asked'[x] = asked[x] /\ (x \in overlap' <=> x \in overlap)
          BY <1>7, <1>8, <4>4
        <5>2. Inbox(x)' < Inbox(x) /\ Inbox(x)' \in Nat /\ Inbox(x) \in Nat
          BY <2>2, <3>1, <3>2
        <5>3. x \notin overlap => /\ \A q, r \in Threads : Filler(q, x) /\ Filler(r, x) => q = r
                                  /\ Inbox(x) <= asked[x] + 1
                                  /\ \A q \in Threads : Filler(q, x) => Inbox(x) <= asked[x]
          BY <2>1, <3>2 DEF TaskOK, Once
        <5>4. x \notin overlap => Inbox(x)' <= asked[x] + 1
          BY <4>2, <5>2, <5>3
        <5>5. x \notin overlap => \A q \in Threads : Filler(q, x) => Inbox(x)' <= asked[x]
          BY <4>2, <5>2, <5>3
        <5>6. QED BY <4>1, <5>1, <5>3, <5>4, <5>5 DEF Once
      <4>5. QED BY <4>3, <4>4
    <3>7. Unheard(x)'
      BY <2>1, <3>2 DEF Unheard, Exists
    <3>8. QED BY <3>3, <3>4, <3>5, <3>6, <3>7 DEF TaskOK
  <2>5. QED BY <2>3, <2>4
<1>11. told' \in [TaskIds -> SUBSET Infos] /\ Idle /\ Carries(tasks, tasks')
  BY <1>1, <1>3, SameCarries DEF Types, Idle
<1>12. first = <<>>
  BY DEF first
<1>13. QED BY <1>1, <1>2, <1>3, <1>6, <1>7, <1>10, <1>11, <1>12, CallStep DEF s

\* A thread that found no message for t is about to queue one.
LEMMA FillKeeps ==
  ASSUME DispatchInv, UNCHANGED <<tasks, inbox>>, NEW t \in TaskIds, Exists(tasks, t), Inbox(t) = 0,
         StartFilling(t), NEW p, NEW new, Moves(p, new),
         new # <<>>, Puts(new[1], tasks[t].assignee, t),
         ~HeadIs(prog[p], "purge", t), ~PutDue(prog[p], tasks[t].assignee, t),
         \A st : ~Noticing(prog[p], t, st)
  PROVE  TaskOK(t)'
<1>1. TaskOK(t) /\ Types /\ tasks' = tasks /\ inbox' = inbox
  BY DEF DispatchInv, Owed, TaskOK
<1>2. prog'[p] = new /\ p \in Threads /\ \A q \in Threads : q # p => prog'[q] = prog[q]
  BY <1>1, ThreadMoves DEF Moves
<1>3. /\ read' = read /\ lost' = lost /\ late' = late /\ asked' = asked /\ told' = told /\ cut' = cut
      /\ overlap' = IF Filling(t) = {} THEN overlap ELSE overlap \union {t}
  BY DEF StartFilling
<1>4. Inbox(t)' = 0 /\ asked'[t] \in Nat
  BY <1>1, <1>3 DEF Inbox, Types
<1>5. Told(t)' /\ Left(t)'
  BY <1>1, <1>2, <1>3, <1>4 DEF TaskOK, Told, Left
<1>6. Handed(t)'
  <2>1. PutDue(new, tasks[t].assignee, t)
    BY DEF PutDue
  <2>2. QED BY <1>1, <1>2, <2>1 DEF Handed
<1>7. Once(t)'
  <2>1. t \notin overlap' => Filling(t) = {}
    BY <1>3
  <2>2. t \notin overlap' => \A q \in Threads : ~Filler(q, t)
    BY <2>1, FillersFill
  <2>3. t \notin overlap' => \A q \in Threads : Filler(q, t)' => q = p
    BY <1>2, <2>2 DEF Filler
  <2>4. Inbox(t)' <= asked'[t] + 1 /\ Inbox(t)' <= asked'[t]
    BY <1>4
  <2>5. QED BY <2>3, <2>4 DEF Once
<1>8. Unheard(t)'
  BY <1>1 DEF Unheard, Exists
<1>9. QED BY <1>5, <1>6, <1>7, <1>8 DEF TaskOK

\* A refill looks for the message of one task, and queues it if there is none.
LEMMA FindKeeps ==
  ASSUME DispatchInv, NEW p \in Threads, Find(p)
  PROVE  DispatchInv'
<1> DEFINE s == prog[p]
           w == Now(p).ws
           t == Now(p).task
           first == EnqueueTaskMessage(w, t, "checked")
           new == first \o Tail(s)
<1>1. /\ At(p, "find") /\ UNCHANGED tasks /\ UNCHANGED inbox /\ UNCHANGED <<wake, session, spawned>>
  BY DEF Find
<1>2. /\ s # <<>> /\ s[1] = Now(p) /\ Now(p).op = "find" /\ Known(Now(p), tasks)
      /\ Shape(s, tasks) /\ t \in Carried /\ s \in Programs /\ w \in Callers
  BY <1>1, NowFacts
<1>3. t \in TaskIds /\ Exists(tasks, t) /\ w = tasks[t].assignee
  BY <1>2 DEF Known, Carried
<1>4. /\ Good(tasks) /\ Types /\ Idle /\ Good(tasks)' /\ Carries(tasks, tasks')
      /\ \A x \in TaskIds : Same(tasks[x], tasks'[x])
  BY <1>1, SameCarries DEF DispatchInv, Good, Idle, Types
<1>5. CASE Continue(p, <<>>) /\ UNCHANGED note
  BY <1>1, <1>2, <1>4, <1>5, PopNothing
<1>6. CASE ~HasTaskMessage(w, t) /\ Continue(p, first) /\ StartFilling(t)
  <2>1. Shape(first, tasks) /\ first # <<>> /\ Puts(first[1], w, t) /\ first[1].info = "checked"
    BY <1>2, <1>3, EnqueueShape
  <2>2. Inbox(t) = 0
    <3>1. inbox[w][t] \in Nat /\ ~(inbox[w][t] > 0)
      BY <1>2, <1>4, <1>6 DEF Types, HasTaskMessage
    <3>2. QED BY <1>3, <3>1 DEF Inbox
  <2> HIDE DEF first, s
  <2>3. first \in Programs /\ Shape(first, tasks')
    BY <1>4, <2>1, ShapeHolds DEF Shape
  <2>4. Moves(p, new)
    BY <1>2, <1>6, <2>3, Continues DEF s
  <2>5. new # <<>> /\ new[1] = first[1]
    <3>1. Len(first) \in Nat \ {0} /\ Len(s) \in Nat \ {0}
      BY <1>2, <2>1, <2>3 DEF Programs
    <3>2. /\ new \in Programs /\ Len(new) = Len(first) + Len(s) - 1
          /\ \A i \in 1..Len(first) : new[i] = first[i]
      BY <1>2, <2>3, Spliced
    <3>3. 1 \in 1..Len(first) /\ Len(new) # 0
      BY <3>1, <3>2
    <3>4. QED BY <3>2, <3>3 DEF Programs
  <2>6. \A x, st : ~Noticing(s, x, st)
    BY <1>2, NoticeWaits DEF Safe
  <2>7. ASSUME NEW x \in TaskIds PROVE TaskOK(x)'
    <3>1. CASE x = t
      <4>1. ~HeadIs(s, "purge", x) /\ ~PutDue(s, tasks[x].assignee, x)
        BY <1>2, <3>1 DEF HeadIs, PutDue, Puts
      <4>2. Puts(new[1], tasks[x].assignee, x)
        BY <1>3, <2>1, <2>5, <3>1
      <4>3. Exists(tasks, x) /\ Inbox(x) = 0 /\ StartFilling(x) /\ \A st : ~Noticing(s, x, st)
        BY <1>3, <1>6, <2>2, <2>6, <3>1
      <4>4. UNCHANGED <<tasks, inbox>> /\ new # <<>> /\ Moves(p, new)
        BY <1>1, <2>4, <2>5
      <4> HIDE DEF t, new
      <4>5. QED BY <4>1, <4>2, <4>3, <4>4, FillKeeps DEF s
    <3>2. CASE x # t
      <4>1. Passes(s, new, x)
        BY <1>2, <2>1, <2>5, <2>6, <3>2 DEF Passes, HeadIs, PutDue, Puts
      <4>2. Noted(x) /\ TaskOK(x) /\ inbox' = inbox
        BY <1>1, <1>6, <3>2 DEF Noted, StartFilling, DispatchInv, Owed, TaskOK
      <4>3. QED BY <1>4, <2>4, <4>1, <4>2, CalmKeeps DEF s
    <3>3. QED BY <3>1, <3>2
  <2>8. /\ inbox' \in [Callers -> [Carried -> Nat]] /\ asked' \in [TaskIds -> Nat]
        /\ told' \in [TaskIds -> SUBSET Infos]
    BY <1>1, <1>4, <1>6 DEF Types, StartFilling
  <2>9. Now(p).op # "put"
    BY <1>2
  <2>10. QED BY <1>2, <1>4, <1>6, <2>3, <2>7, <2>8, <2>9, CallStep DEF s
<1>7. QED BY <1>5, <1>6 DEF Find

\* A silent task of an idle session is asked for again.
LEMMA NudgeKeeps ==
  ASSUME DispatchInv, NEW t \in TaskIds, Nudge(t)
  PROVE  DispatchInv'
<1> DEFINE a == tasks[t].assignee
           m == EnqueueTaskMessage(a, t, "checked")
           new == m \o <<Call("schedule", a, t)>>
           p == Reconciler
<1>1. /\ prog[p] = <<>> /\ prog' = [prog EXCEPT ![p] = new] /\ StartFilling(t)
      /\ UNCHANGED <<tasks, inbox>> /\ UNCHANGED <<wake, session, spawned>>
      /\ Exists(tasks, t) /\ Empty(a)
  BY DEF Nudge, Live
<1>2. /\ Good(tasks) /\ Types /\ Idle /\ Good(tasks)' /\ Carries(tasks, tasks')
      /\ \A x \in TaskIds : Same(tasks[x], tasks'[x])
  BY <1>1, SameCarries DEF DispatchInv, Good, Idle, Types
<1>3. a \in Callers /\ t \in Carried /\ p \in Threads
  BY <1>2, TaskFacts DEF Task, Callers, Carried, Threads
<1>4. Shape(m, tasks) /\ m # <<>> /\ Puts(m[1], a, t)
  BY <1>1, <1>3, EnqueueShape
<1>5. Easy(<<Call("schedule", a, t)>>, tasks)
  BY <1>1, <1>3, PlainCalls, EasyOne
<1>6. Inbox(t) = 0
  BY <1>1, <1>3 DEF Inbox, Empty
<1> HIDE DEF m, p
<1>7. Shape(new, tasks) /\ new # <<>> /\ Puts(new[1], a, t)
  BY <1>4, <1>5, ShapeJoin
<1> HIDE DEF new
<1>8. Moves(p, new) /\ Shape(new, tasks')
  BY <1>1, <1>2, <1>3, <1>7, ShapeHolds DEF Moves, Shape
<1>9. \A x, st : ~Noticing(prog[p], x, st)
  <2>1. DOMAIN prog[p] = {}
    BY <1>1
  <2>2. QED BY <2>1 DEF Noticing
<1>10. \A x, w : ~HeadIs(prog[p], "purge", x) /\ ~PutDue(prog[p], w, x)
  BY <1>1 DEF HeadIs, PutDue
<1>11. ASSUME NEW x \in TaskIds PROVE TaskOK(x)'
  <2>1. CASE x = t
    <3>1. TaskOK(t)'
      BY <1>1, <1>6, <1>7, <1>8, <1>9, <1>10, FillKeeps
    <3>2. QED BY <2>1, <3>1
  <2>2. CASE x # t
    <3>1. Passes(prog[p], new, x)
      BY <1>7, <1>9, <1>10, <2>2 DEF Passes, HeadIs, Puts
    <3>2. Noted(x) /\ TaskOK(x) /\ inbox' = inbox
      BY <1>1, <2>2 DEF Noted, StartFilling, DispatchInv, Owed, TaskOK
    <3>3. QED BY <1>2, <1>8, <3>1, <3>2, CalmKeeps
  <2>3. QED BY <2>1, <2>2
<1>12. /\ inbox' \in [Callers -> [Carried -> Nat]] /\ asked' \in [TaskIds -> Nat]
       /\ told' \in [TaskIds -> SUBSET Infos]
  BY <1>1, <1>2 DEF Types, StartFilling
<1>13. QED BY <1>2, <1>8, <1>11, <1>12, StepKeeps DEF Idle

-----------------------------------------------------------------------------
(* The theorems *)

\* Nothing is owed at the start.
LEMMA InitDispatches == DInit => DispatchInv
<1> SUFFICES ASSUME DInit PROVE DispatchInv
  OBVIOUS
<1>1. Good(tasks) /\ \A t \in TaskIds : tasks[t].status = "absent"
  BY InitGood DEF DInit, Init, AbsentTask, Absent
<1>2. \A p \in Threads : prog[p] = <<>>
  BY DEF DInit
<1>3. Types
  <2>1. prog \in [Threads -> Programs]
    <3>1. <<>> \in Programs
      BY DEF Programs
    <3>2. QED BY <3>1 DEF DInit
  <2>2. QED BY <2>1 DEF DInit, Types, Callers
<1>4. Shapes
  BY <1>2, Nothing DEF Shapes
<1>5. ASSUME NEW t \in TaskIds PROVE Told(t) /\ Left(t) /\ Handed(t) /\ Once(t) /\ Unheard(t)
  <2>1. t \in Carried
    BY DEF Carried
  <2>2. Unheard(t)
    BY <2>1 DEF DInit, Unheard
  <2>3. QED BY <1>1, <2>2 DEF Told, Left, Handed, Once, Live, Exists, Terminal
<1>6. QED BY <1>1, <1>3, <1>4, <1>5 DEF DispatchInv, Owed

\* Every action keeps the invariant.
LEMMA StepDispatches ==
  ASSUME DispatchInv, [DNext]_dvars
  PROVE  DispatchInv'
<1>1. CASE UNCHANGED dvars
  <2>1. UNCHANGED <<tasks, inbox, prog, note>> /\ Idle
    BY <1>1 DEF dvars, calls, Idle, DispatchInv, Types
  <2>2. QED BY <2>1, IdleKeeps
<1>2. ASSUME NEW c \in Callers, Serve(c) PROVE DispatchInv'
  <2>1. CASE ReadMessages(c)
    BY <2>1, ReadKeeps
  <2>2. ASSUME NEW config \in BOOLEAN, Broadcast(c, Workspaces \ {c}, config) PROVE DispatchInv'
    BY <2>2, BroadcastKeeps
  <2>3. ASSUME NEW config \in BOOLEAN, NEW to \in Assignees, NEW m \in Carried, SendMessage(c, to, m, config)
        PROVE  DispatchInv'
    BY <2>3, SendKeeps, DispatchAssumption DEF Callers
  <2>4. ASSUME NEW t \in TaskIds, NEW a \in Assignees,
               HandleCreateTask(c, t, a) \/ \E config \in BOOLEAN : StartTask(c, t, a, config)
        PROVE  DispatchInv'
    BY <2>4, CreateKeeps, DispatchAssumption
  <2>5. ASSUME NEW t \in TaskIds, NEW u \in Requests, HandleUpdateTask(c, t, u) PROVE DispatchInv'
    BY <2>5, UpdateKeeps
  <2>6. ASSUME NEW t \in TaskIds, RefuseCompletion(c, t) PROVE DispatchInv'
    BY <2>6, RefuseKeeps
  <2>7. ASSUME NEW t \in TaskIds, RecordToolActivity(c, t) PROVE DispatchInv'
    BY <2>7, ActivityKeeps
  <2>8. ASSUME NEW t \in TaskIds, CancelTask(c, t, tasks[t].version) PROVE DispatchInv'
    BY <2>8, CancelKeeps
  <2>9. ASSUME NEW t \in TaskIds, RemoveTask(c, t, tasks[t].version) PROVE DispatchInv'
    BY <2>9, RemoveKeeps
  <2>10. ASSUME NEW t \in TaskIds, NEW action \in {"wake", "retry"},
                InterveneTask(c, t, action, tasks[t].version)
         PROVE  DispatchInv'
    BY <2>10, InterveneKeeps
  <2>11. QED
    BY <1>2, <2>1, <2>2, <2>3, <2>4, <2>5, <2>6, <2>7, <2>8, <2>9, <2>10 DEF Serve
<1>3. ASSUME NEW p \in Threads, Proceed(p) PROVE DispatchInv'
  <2>1. ASSUME NEW rest \in [Carried -> 0..QueueCap], Dequeue(p, rest) PROVE DispatchInv'
    <3>1. rest \in [Carried -> Nat]
      BY DispatchAssumption
    <3>2. QED BY <2>1, <3>1, DequeueKeeps
  <2>2. CASE Enqueue(p) \/ Notify(p) \/ Purge(p)
    BY <2>2, EnqueueKeeps, NotifyKeeps, PurgeKeeps
  <2>3. CASE Record(p) \/ RetryTask(p) \/ Find(p)
    BY <2>3, RecordKeeps, RetryKeeps, FindKeeps
  <2>4. CASE Schedule(p) \/ CancelWake(p) \/ Spawn(p) \/ EnsureRunnable(p)
    BY <2>4, WakesKeep
  <2>5. CASE Settle(p) \/ Peek(p) \/ Refill(p)
    BY <2>5, LooksKeep, RefillKeeps
  <2>6. QED BY <1>3, <2>1, <2>2, <2>3, <2>4, <2>5 DEF Proceed
<1>4. ASSUME NEW w \in Assignees,
             WakeTick(w) \/ WakeGivesUp(w) \/ WakeEnsures(w) \/ BackgroundWake(w) \/ SessionEnds(w)
      PROVE  DispatchInv'
  <2>1. w \in Callers
    BY DispatchAssumption DEF Callers
  <2>2. QED BY <1>4, <2>1, TickKeeps, LoopsKeep
<1>5. CASE Recover
  BY <1>5, RecoverKeeps
<1>6. ASSUME NEW t \in TaskIds, Nudge(t) PROVE DispatchInv'
  BY <1>6, NudgeKeeps
<1>7. QED BY <1>1, <1>2, <1>3, <1>4, <1>5, <1>6 DEF DNext

\* The inductive invariant holds in every reachable state.
LEMMA DispatchInvariant == DSpec => []DispatchInv
<1>1. DInit => DispatchInv
  BY InitDispatches
<1>2. DispatchInv /\ [DNext]_dvars => DispatchInv'
  BY StepDispatches
<1>3. QED BY <1>1, <1>2, PTL DEF DSpec

\* The creator of a task that ended has been told how, once no handler is under way: for
\* any number of tasks, agents and requests, whichever of the follow-ups of
\* apply_task_state_followup were overtaken.
THEOREM CreatorsAreTold == DSpec => []CreatorIsTold
<1>1. DispatchInv => CreatorIsTold
  <2> SUFFICES ASSUME DispatchInv, Quiet, NEW t \in TaskIds, tasks[t].status \in Terminal,
                      tasks[t].created_by # tasks[t].assignee
               PROVE  tasks[t].status \in told[t] \/ t \in cut
    BY DEF CreatorIsTold
  <2>1. \A p \in Threads : ~Noticing(prog[p], t, tasks[t].status)
    BY Owing DEF Quiet
  <2>2. QED BY <2>1 DEF DispatchInv, Owed, Told
<1>2. QED BY <1>1, DispatchInvariant, PTL

\* A task that was handed out and not taken up has its message in its assignee's inbox
\* or was read, but for the follow-up that a retry overtook: the purges, refills, nudges
\* and retries of handlers.rs lose nothing between them.
THEOREM HandedOutIsThere == DSpec => []HandedOutIsDelivered
<1>1. DispatchInv => HandedOutIsDelivered
  <2> SUFFICES ASSUME DispatchInv, Quiet, NEW t \in TaskIds, Runnable(t)
               PROVE  Inbox(t) > 0 \/ t \in read \union lost
    BY DEF HandedOutIsDelivered
  <2>1. \A p \in Threads : ~PutDue(prog[p], tasks[t].assignee, t)
    BY Owing DEF Quiet
  <2>2. QED BY <2>1 DEF DispatchInv, Owed, Handed, Runnable
<1>2. QED BY <1>1, DispatchInvariant, PTL

\* What is queued for a task is wanted: nothing of an ended task stays behind the
\* purge of its follow-up, and has_task_message keeps refills, wakes and nudges from
\* piling up copies unless two of them looked at once.
THEOREM QueuedTasksAreWanted == DSpec => []QueuedIsWanted
<1>1. DispatchInv => QueuedIsWanted
  <2> SUFFICES ASSUME DispatchInv PROVE QueuedIsWanted
    OBVIOUS
  <2>1. DTypeOK
    <3>1. ASSUME NEW p \in Threads, NEW i \in DOMAIN prog[p]
          PROVE  prog[p][i].ws \in Callers /\ prog[p][i].task \in Carried
      <4>1. prog[p][i] \in CallRec
        BY <3>1 DEF DispatchInv, Types, Programs
      <4>2. QED BY <4>1 DEF CallRec
    <3>2. TypeOK
      BY DEF DispatchInv, Good, Stores, TypeOK
    <3>3. QED BY <3>1, <3>2 DEF DTypeOK, DispatchInv, Types
  <2>2. EndedLeavesNothing
    <3> SUFFICES ASSUME Quiet, NEW t \in TaskIds, tasks[t].status \in Terminal
                 PROVE  Inbox(t) = 0 \/ t \in late \union cut
      BY DEF EndedLeavesNothing
    <3>1. \A p \in Threads : ~HeadIs(prog[p], "purge", t)
      BY DEF Quiet, HeadIs
    <3>2. QED BY <3>1 DEF DispatchInv, Owed, Left
  <2>3. CopiesNeedARace
    BY DEF CopiesNeedARace, DispatchInv, Owed, Once
  <2>4. QED BY <2>1, <2>2, <2>3 DEF QueuedIsWanted
<1>2. QED BY <1>1, DispatchInvariant, PTL
=============================================================================
