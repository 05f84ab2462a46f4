----------------------------- MODULE Workspace -----------------------------
(* Sessions, generated files and the recorded runtime state of a project      *)
(* (ax-workspace: reconcile.rs, dispatch.rs, lifecycle.rs, manager.rs,        *)
(* orchestrator.rs; ax-cli: refresh.rs).                                      *)
(*                                                                            *)
(* Every process that touches a target works off a job: the list of calls it  *)
(* still has to make, with the configuration it loaded when it decided on     *)
(* them.  tmux and the file system change between any two of those calls.     *)
(*                                                                            *)
(* The reconciler is a process of its own: one pass loads the state file and  *)
(* the sessions once, visits every target in order with a job each, and only  *)
(* then writes the state file.  An error anywhere ends the pass before that.  *)
EXTENDS Artifacts, FiniteSets

CONSTANTS Dirs,
          Root,          \* the root orchestrator: no session of its own
          Orchestrators, \* Root among them
          Order,         \* every target, in the order of a pass
          SpecsOf,       \* per target, what its configuration may say
          FirstConfig,   \* per target, what it says at first
          Sockets,       \* socket paths the daemon may be given
          Absent,        \* not configured, not recorded
          Reconciler, Procs, \* the pass, and the processes of CLI and daemon
          Cap,           \* max_concurrent_agents, 0 for none
          MaxCalls,      \* bound: passes and calls begun
          MaxUpsets      \* bound: edits, changes of sessions, calls that fail
                         \* and crashes

ASSUME TargetsAssumption ==
    /\ IsFiniteSet(Targets) /\ IsFiniteSet(Procs) /\ NoOne \notin Targets
    /\ Root \in Orchestrators /\ Orchestrators \subseteq Targets
    /\ \A t \in Targets : \E i \in 1 .. Len(Order) : Order[i] = t
    /\ \A t \in Targets : \A s \in SpecsOf[t] : s.dir \in Dirs /\ s.runtime \in Runtimes
    /\ FirstConfig \in [Targets -> {Absent} \cup UNION {SpecsOf[t] : t \in Targets}]
    /\ \A t \in Targets : FirstConfig[t] \in SpecsOf[t] \cup {Absent}
    /\ \A s, r \in SpecsOf[Root] : s.dir = r.dir  \* root_orchestrator_dir, in the home
    /\ Reconciler \notin Procs /\ Absent \notin UNION {SpecsOf[t] : t \in Targets}
    /\ Cap \in Nat /\ MaxCalls \in Nat /\ MaxUpsets \in Nat

VARIABLES config,   \* per target its Spec, or Absent: what the config file says
          socket,   \* the socket path in use
          files,    \* per directory its generated files
          homes,    \* the managed CODEX_HOMEs: pairs <<target, dir>>
          session,  \* per target its tmux session
          disk,     \* the state file of the reconciler
          pass,     \* the reconcile pass under way
          job,      \* per process the calls it still has to make
          draft,    \* per process the files it has read and will write back
          mine,     \* history: the user's own lines, per directory and runtime
          lossy,    \* history: the directories where a rewrite overlapped with
                    \* another or with an edit, or was cut short
          quiet,    \* history: nothing but the pass has acted since it began
          calls, upsets

bounds == <<calls, upsets>>
writing == <<draft, lossy>>
vars == <<config, socket, files, homes, session, disk, pass, job, writing, mine, quiet, bounds>>

Call == calls < MaxCalls /\ calls' = calls + 1 /\ UNCHANGED upsets
Upset == upsets < MaxUpsets /\ upsets' = upsets + 1 /\ UNCHANGED calls

Specs(t) == SpecsOf[t] \cup {Absent}
Managed(t) == t # Root
Workers == Procs \cup {Reconciler}

(* tmux's view of a session: "held" stands for attached or not idle.          *)
States == {"none", "idle", "held"}

NoSession == [st |-> "none", spec |-> Absent, by |-> "none"]
Idle == [t |-> NoOne, steps |-> <<>>, spec |-> Absent, wipe |-> NoOne, by |-> "none"]
NoDraft == [at |-> "none", new |-> NoOne, touched |-> {}]
NoPass == [pc |-> "off", todo |-> {}, snap |-> <<>>, next |-> <<>>, prev |-> <<>>,
           want |-> <<>>, sock |-> NoOne, moved |-> FALSE, running |-> FALSE,
           disruptive |-> FALSE, blocked |-> {}, changed |-> {}]

Live(t) == session[t].st # "none"
LiveCount == Cardinality({t \in Targets : Live(t)})

TypeOK ==
    /\ \A t \in Targets : config[t] \in Specs(t)
    /\ socket \in Sockets
    /\ \A d \in Dirs : IsDir(files[d])
    /\ homes \subseteq Targets \X Dirs
    /\ \A t \in Targets : /\ session[t].st \in States
                          /\ session[t].spec \in Specs(t)
                          /\ Live(t) <=> session[t].by # "none"
    /\ disk.ok \in BOOLEAN /\ disk.sock \in Sockets \cup {NoOne}
    /\ \A t \in Targets : disk.recs[t] \in Specs(t)
    /\ pass.pc \in {"off", "visit", "saved"}
    /\ \A p \in Workers :
          Range(job[p].steps) \subseteq
              {"destroy", "wipe", "unlink", "ensure", "create", "decide", "wake"}
    /\ \A p \in Workers :
          /\ draft[p].at \in {"none", "read", "open"}
          /\ draft[p].touched \subseteq Everything
          /\ draft[p].at # "none" => IsDir(draft[p].new)
    /\ lossy \subseteq Dirs
    /\ calls \in 0 .. MaxCalls /\ upsets \in 0 .. MaxUpsets

Init ==
    /\ config = FirstConfig
    /\ socket \in Sockets
    /\ mine = [d \in Dirs |-> [r \in Runtimes |-> IF r = "codex" THEN <<User(1)>> ELSE <<>>]]
    /\ files = [d \in Dirs |-> [text |-> mine[d], mcp |-> [other |-> "plain", ax |-> NoOne]]]
    /\ homes = {}
    /\ session = [t \in Targets |-> NoSession]
    /\ disk = [ok |-> TRUE, sock |-> NoOne, recs |-> [t \in Targets |-> Absent]]
    /\ pass = NoPass
    /\ job = [p \in Workers |-> Idle]
    /\ draft = [p \in Workers |-> NoDraft] /\ lossy = {}
    /\ quiet = FALSE /\ calls = 0 /\ upsets = 0

-----------------------------------------------------------------------------
(* The calls a job is made of.                                                *)

Busy(p) == job[p].steps # <<>>
AtStep(p, s) == Busy(p) /\ Head(job[p].steps) = s
Abandon(p) == job' = [job EXCEPT ![p] = Idle]
Advance(p) == IF Len(job[p].steps) = 1 THEN Abandon(p)
              ELSE job' = [job EXCEPT ![p].steps = Tail(@)]

(* Only the reconciler's own steps leave quiet alone.                         *)
Disturbs(p) == quiet' = (quiet /\ p = Reconciler)

(* An error ends the call; in a pass it ends the pass, and nothing is saved.  *)
Fails(p) ==
    /\ Abandon(p)
    /\ pass' = IF p = Reconciler THEN NoPass ELSE pass

(* destroy_session, where the code first asks session_exists.                 *)
Destroy(p) ==
    /\ AtStep(p, "destroy")
    /\ session' = [session EXCEPT ![job[p].t] = NoSession]
    /\ Advance(p) /\ Disturbs(p)
    /\ UNCHANGED <<config, socket, files, homes, disk, pass, writing, mine, bounds>>

(* The calls that rewrite files, and where they do.                           *)
Rewrites(p) == AtStep(p, "wipe") \/ AtStep(p, "unlink") \/ AtStep(p, "ensure")
Place(p) == IF AtStep(p, "ensure") THEN job[p].spec.dir ELSE job[p].wipe

(* ensure_artifacts, the file half of ensure_orchestrator,                    *)
(* cleanup_workspace_artifacts and cleanup_orchestrator_artifacts: what they  *)
(* make of a directory that they find like this, and of which files.          *)
Rewritten(p, dir) ==
    LET t == job[p].t IN
    IF AtStep(p, "ensure")
    THEN IF t \in Orchestrators THEN EnsureOrchestratorArtifacts(dir, t, job[p].spec.runtime)
                                ELSE EnsureArtifacts(dir, t, job[p].spec.runtime)
    ELSE IF t \in Orchestrators THEN CleanupOrchestratorArtifacts(dir)
                                ELSE CleanupWorkspaceArtifacts(dir)

Touched(p, dir) ==
    IF AtStep(p, "ensure")
    THEN IF job[p].t \in Orchestrators THEN Everything
                                       ELSE EnsureTouches(dir, job[p].spec.runtime)
    ELSE IF job[p].t \in Orchestrators THEN CleanupOrchestratorTouches(dir)
                                       ELSE CleanupTouches(dir)

(* remove_codex_home with a "wipe", prepare_codex_home; Manager::destroy      *)
(* ("unlink") keeps the codex home.                                           *)
HomesAfter(p) ==
    LET home == <<job[p].t, Place(p)>> IN
    CASE AtStep(p, "wipe") -> homes \ {home}
      [] AtStep(p, "ensure") /\ job[p].spec.runtime = "codex" -> homes \cup {home}
      [] OTHER -> homes

(* A process has emptied files of d and not written them yet.                 *)
HoldsOpen(q, d) == draft[q].at = "open" /\ Place(q) = d
HeldOpen(p, d) == \E q \in Workers \ {p} : HoldsOpen(q, d)
LossyIf(cond, d) == lossy' = IF cond THEN lossy \cup {d} ELSE lossy

(* A rewrite reads the files of its directory, opens those it changes, which  *)
(* empties them, and writes them.  The files are taken together.              *)
ReadFiles(p) ==
    /\ Rewrites(p) /\ draft[p].at = "none"
    /\ draft' = [draft EXCEPT ![p] = [at |-> "read", new |-> Rewritten(p, files[Place(p)]),
                                      touched |-> Touched(p, files[Place(p)])]]
    /\ LossyIf(HeldOpen(p, Place(p)), Place(p))
    /\ Disturbs(p)
    /\ UNCHANGED <<config, socket, files, homes, session, disk, pass, job, mine, bounds>>

OpenFiles(p) ==
    /\ Rewrites(p) /\ draft[p].at = "read"
    /\ files' = [files EXCEPT ![Place(p)] = Emptied(@, draft[p].new, draft[p].touched)]
    /\ draft' = [draft EXCEPT ![p].at = "open"]
    /\ LossyIf(HeldOpen(p, Place(p)), Place(p))
    /\ Disturbs(p)
    /\ UNCHANGED <<config, socket, homes, session, disk, pass, job, mine, bounds>>

WriteFiles(p) ==
    /\ Rewrites(p) /\ draft[p].at = "open"
    /\ \E dir \in Written(files[Place(p)], draft[p].new, draft[p].touched) :
          files' = [files EXCEPT ![Place(p)] = dir]
    /\ homes' = HomesAfter(p)
    /\ draft' = [draft EXCEPT ![p] = NoDraft]
    /\ Advance(p) /\ Disturbs(p)
    /\ UNCHANGED <<config, socket, session, disk, pass, lossy, mine, bounds>>

(* Manager::create_inner refuses a session that has appeared meanwhile;       *)
(* ensure_orchestrator takes it as it is.                                     *)
CreateInner(p) ==
    /\ AtStep(p, "create")
    /\ LET t == job[p].t IN
       /\ IF Live(t) THEN UNCHANGED session
          ELSE session' = [session EXCEPT ![t] =
                              [st |-> "idle", spec |-> job[p].spec, by |-> job[p].by]]
       /\ IF Live(t) /\ t \notin Orchestrators THEN Fails(p)
          ELSE Advance(p) /\ UNCHANGED pass
    /\ Disturbs(p)
    /\ UNCHANGED <<config, socket, files, homes, disk, writing, mine, bounds>>

(* wake_workspace types the prompt into the session: the agent gets to work.  *)
WakeWorkspace(p) ==
    /\ AtStep(p, "wake")
    /\ session' = [session EXCEPT ![job[p].t] =
                      IF @.st = "idle" THEN [@ EXCEPT !.st = "held"] ELSE @]
    /\ Advance(p) /\ Disturbs(p)
    /\ UNCHANGED <<config, socket, files, homes, disk, pass, writing, mine, bounds>>

(* A tmux or file system call fails, or the process dies before it.           *)
CallFails(p) ==
    /\ Busy(p) /\ draft[p].at = "none" /\ Upset
    /\ Fails(p) /\ Disturbs(p)
    /\ UNCHANGED <<config, socket, files, homes, session, disk, writing, mine>>

(* The files in the order they are taken: other runtimes' before the own.     *)
InTurn(p) ==
    <<"mcp">> \o IF AtStep(p, "ensure") /\ job[p].spec.runtime = "claude"
                 THEN <<"codex", "claude">> ELSE <<"claude", "codex">>

(* It fails or dies among its files: those up to one are done, and once they  *)
(* are open the others stay empty.  The codex home comes last, for an         *)
(* orchestrator after .mcp.json.                                              *)
RewriteFails(p) ==
    /\ Rewrites(p) /\ draft[p].at # "none" /\ Upset
    /\ \E done \in {draft[p].touched \cap Range(SubSeq(InTurn(p), 1, k)) : k \in 0 .. 3} :
          LET now  == files[Place(p)]
              open == IF draft[p].at = "read" THEN Emptied(now, draft[p].new, done) ELSE now
          IN  /\ \E dir \in Written(open, draft[p].new, done) :
                    files' = [files EXCEPT ![Place(p)] = dir]
              /\ \/ homes' = homes
                 \/ /\ done = draft[p].touched \/ (done # {} /\ job[p].t \in Orchestrators)
                    /\ homes' = HomesAfter(p)
    /\ draft' = [draft EXCEPT ![p] = NoDraft]
    /\ LossyIf(draft[p].at = "open" \/ HeldOpen(p, Place(p)), Place(p))
    /\ Fails(p) /\ Disturbs(p)
    /\ UNCHANGED <<config, socket, session, disk, mine>>

-----------------------------------------------------------------------------
(* Lifecycle control, dispatch and refresh: each decides on a job.            *)

Configured(t) == config[t] # Absent

Begin(p, t, steps, by) ==
    /\ ~Busy(p) /\ Call
    /\ job' = [job EXCEPT ![p] = [t |-> t, steps |-> steps, spec |-> config[t],
                                  wipe |-> IF Configured(t) THEN config[t].dir ELSE NoOne,
                                  by |-> by]]
    /\ quiet' = FALSE
    /\ UNCHANGED <<config, socket, files, homes, session, disk, pass, writing, mine>>

(* enforce_capacity_cap                                                       *)
EnforceCapacityCap == Cap = 0 \/ LiveCount < Cap

Recreate == <<"destroy", "wipe", "ensure", "create">>

(* control_workspace_target and control_orchestrator_target.                  *)
StartNamed(p, t) ==
    /\ Configured(t) /\ Managed(t) /\ ~Live(t) /\ EnforceCapacityCap
    /\ Begin(p, t, <<"ensure", "create">>, "checked")

StopNamed(p, t) ==
    Configured(t) /\ Managed(t) /\ Live(t) /\ Begin(p, t, <<"destroy">>, "none")

RestartNamed(p, t) ==
    Configured(t) /\ Managed(t) /\ Begin(p, t, Recreate, "restart")

(* agent_lifecycle, the daemon's own tool for agents: exact names only, no    *)
(* look at the cap, and a stop takes the generated files along, running       *)
(* session or not.  The session_exists_after check only words the answer.     *)
ResolveAgentLifecycleTarget(t) == Configured(t) /\ Managed(t)

AgentStart(p, t) ==
    /\ ResolveAgentLifecycleTarget(t) /\ ~Live(t)
    /\ Begin(p, t, <<"ensure", "create">>, "agent")

AgentStop(p, t) ==
    /\ ResolveAgentLifecycleTarget(t)
    /\ Begin(p, t, IF t \in Orchestrators THEN <<"destroy", "wipe">>
                   ELSE <<"destroy", "unlink">>, "none")

AgentRestart(p, t) ==
    ResolveAgentLifecycleTarget(t) /\ Begin(p, t, Recreate, "restart")

(* dispatch_runnable_work: ensure the target, wait until it is ready, wake.   *)
(* A session that runs is enough, whether or not its target is configured.    *)
DispatchRunnableWork(p, t, fresh) ==
    /\ \/ ~fresh /\ Live(t)
       \/ Configured(t) /\ Managed(t) /\ (Live(t) \/ EnforceCapacityCap)
    /\ Begin(p, t, (CASE ~fresh /\ Live(t)  -> <<>>
                      [] ~fresh /\ ~Live(t) -> <<"ensure", "create">>
                      [] OTHER              -> Recreate) \o <<"wake">>,
             IF Live(t) THEN "restart" ELSE "checked")

(* ax refresh without team reconfigure: files first, the session after a      *)
(* look at what runs then.                                                    *)
Refresh(p, t) ==
    /\ Configured(t)
    /\ Begin(p, t, IF Managed(t) THEN <<"ensure", "decide">> ELSE <<"ensure">>, "refresh")

(* reconcile_root_orchestrator_state: a refresh cleans up after a root that   *)
(* is disabled.  With team reconfigure the reconcile pass comes next.         *)
RefreshDisabledRoot(p) ==
    /\ ~Configured(Root) /\ ~Busy(p) /\ Call
    /\ \E s \in SpecsOf[Root] :
          job' = [job EXCEPT ![p] = [t |-> Root, steps |-> <<"destroy", "wipe">>,
                                     spec |-> Absent, wipe |-> s.dir, by |-> "none"]]
    /\ quiet' = FALSE
    /\ UNCHANGED <<config, socket, files, homes, session, disk, pass, writing, mine>>

Then(p, steps) == job' = [job EXCEPT ![p].steps = steps]

RefreshSession(p, restart, startMissing, daemonRunning) ==
    /\ AtStep(p, "decide")
    /\ LET t == job[p].t IN
       \/ /\ restart /\ Live(t) /\ t \notin Orchestrators
          /\ Then(p, <<"destroy", "unlink", "ensure", "create">>)
       \/ /\ restart /\ t \in Orchestrators
          /\ Then(p, <<"destroy", "ensure">> \o IF daemonRunning THEN <<"create">> ELSE <<>>)
       \/ /\ startMissing /\ daemonRunning /\ ~Live(t)
          /\ ~(restart /\ t \in Orchestrators)
          /\ Then(p, <<"ensure", "create">>)
       \/ /\ ~(restart /\ (Live(t) \/ t \in Orchestrators))
          /\ ~(startMissing /\ daemonRunning /\ ~Live(t))
          /\ Abandon(p)
    /\ quiet' = FALSE
    /\ UNCHANGED <<config, socket, files, homes, session, disk, pass, writing, mine, bounds>>

-----------------------------------------------------------------------------
(* The reconcile pass.                                                        *)

(* desired_workspace_state / desired_orchestrator_state against the record.   *)
StateMatches(t) == pass.prev[t] = pass.want[t] /\ ~pass.moved

(* The targets a pass visits: every configured one, and every recorded one    *)
(* that is no longer configured.                                              *)
Visits(want, prev) == {t \in Targets : want[t] # Absent \/ prev[t] # Absent}

(* Workspaces come before orchestrators, among them the configured ones       *)
(* before the removed ones, each by name.                                     *)
Turn(t) ==
    LET part == (IF t \in Orchestrators THEN 2 ELSE 0)
                + (IF pass.want[t] # Absent THEN 0 ELSE 1)
    IN  part * Len(Order) + (CHOOSE i \in 1 .. Len(Order) : Order[i] = t)

(* load_runtime_state and load_session_snapshots, with the configuration the  *)
(* caller has just loaded.  A state file that does not parse is an error.     *)
(* Its callers: ax refresh, and a team apply in one of its two modes.         *)
ReconcileBegin(running, disruptive) ==
    /\ running => disruptive
    /\ pass.pc = "off" /\ disk.ok /\ Call
    /\ pass' = [pc |-> "visit", todo |-> Visits(config, disk.recs),
                snap |-> [t \in Targets |-> session[t].st],
                next |-> [t \in Targets |-> Absent], prev |-> disk.recs,
                want |-> config, sock |-> socket, moved |-> disk.sock # socket,
                running |-> running, disruptive |-> disruptive,
                blocked |-> {}, changed |-> {}]
    /\ quiet' = (\A p \in Procs : ~Busy(p))
    /\ UNCHANGED <<config, socket, files, homes, session, disk, job, writing, mine>>

(* Mutant: a mode that allows disruption no longer asks whom it disrupts.     *)
BlockedByModeOnly(t) == pass.snap[t] # "none" /\ ~pass.disruptive

(* disruption_block_reason, and the mode that forbids any disruption.         *)
Blocked(t) == pass.snap[t] # "none" /\ (~pass.disruptive \/ pass.snap[t] # "idle")

(* Mutant: cleans up where the target will be, not where it was.              *)
ReconcileJobAtWant(t, steps) ==
    job' = [job EXCEPT ![Reconciler] =
               [t |-> t, steps |-> steps, spec |-> pass.want[t], by |-> "pass",
                wipe |-> IF pass.want[t] # Absent THEN pass.want[t].dir
                         ELSE pass.prev[t].dir]]

ReconcileJob(t, steps) ==
    job' = [job EXCEPT ![Reconciler] =
               [t |-> t, steps |-> steps, spec |-> pass.want[t], by |-> "pass",
                wipe |-> IF pass.prev[t] # Absent THEN pass.prev[t].dir
                         ELSE pass.want[t].dir]]

(* The target's record in the next state file, and its line in the report.    *)
Report(t, rec, stopped, differs) ==
    pass' = [pass EXCEPT !.todo = @ \ {t}, !.next[t] = rec,
                         !.blocked = IF stopped THEN @ \cup {t} ELSE @,
                         !.changed = IF differs THEN @ \cup {t} ELSE @]

Visiting(t) ==
    /\ pass.pc = "visit" /\ ~Busy(Reconciler)
    /\ t \in pass.todo /\ \A u \in pass.todo : Turn(t) <= Turn(u)
    /\ UNCHANGED <<config, socket, files, homes, session, disk, writing, mine, quiet, bounds>>

Wanted(t) == pass.want[t] # Absent

(* The root is never taken down: its files are written and a manual restart   *)
(* is asked for.                                                              *)
InPlace(t) == Wanted(t) /\ (t = Root \/ StateMatches(t))

CreateIf(t, missing) ==
    IF missing /\ pass.running /\ Managed(t) THEN <<"create">> ELSE <<>>

(* Nothing changed: the files are written again, a missing session started.   *)
VisitMatching(t) ==
    /\ Visiting(t) /\ InPlace(t)
    /\ ReconcileJob(t, <<"ensure">> \o
                       CreateIf(t, pass.snap[t] = "none" \/ t \in Orchestrators))
    /\ Report(t, pass.want[t], FALSE, FALSE)

(* New or changed.                                                            *)
VisitChanged(t) ==
    /\ Visiting(t) /\ Wanted(t) /\ ~InPlace(t) /\ ~Blocked(t)
    /\ ReconcileJob(t, <<"destroy", "wipe", "ensure">> \o CreateIf(t, TRUE))
    /\ Report(t, pass.want[t], FALSE, TRUE)

VisitRemoved(t) ==
    /\ Visiting(t) /\ ~Wanted(t) /\ ~Blocked(t)
    /\ ReconcileJob(t, <<"destroy", "wipe">>)
    /\ Report(t, Absent, FALSE, TRUE)

(* blocked_create, blocked_restart, blocked_remove: the old record stays.     *)
VisitBlocked(t) ==
    /\ Visiting(t) /\ ~InPlace(t) /\ Blocked(t)
    /\ Report(t, pass.prev[t], TRUE, FALSE)
    /\ UNCHANGED job

(* save_runtime_state                                                         *)
SaveRuntimeState ==
    /\ pass.pc = "visit" /\ ~Busy(Reconciler) /\ pass.todo = {}
    /\ disk' = [ok |-> TRUE, sock |-> pass.sock, recs |-> pass.next]
    /\ pass' = [pass EXCEPT !.pc = "saved"]
    /\ UNCHANGED <<config, socket, files, homes, session, job, writing, mine, quiet, bounds>>

ReconcileEnd ==
    /\ pass.pc = "saved"
    /\ pass' = NoPass
    /\ UNCHANGED <<config, socket, files, homes, session, disk, job, writing, mine, quiet, bounds>>

(* The state file is written in place: a crash leaves half of it, a failed    *)
(* write the old one or half of the new one.                                  *)
SaveFails ==
    /\ pass.pc = "visit" /\ ~Busy(Reconciler) /\ pass.todo = {} /\ Upset
    /\ \E ok \in BOOLEAN : disk' = [disk EXCEPT !.ok = ok]
    /\ pass' = NoPass
    /\ UNCHANGED <<config, socket, files, homes, session, job, writing, mine, quiet>>

-----------------------------------------------------------------------------
(* Users and agents.                                                          *)

EditConfig(t, spec) ==
    /\ Upset /\ config[t] # spec
    /\ config' = [config EXCEPT ![t] = spec]
    /\ UNCHANGED <<socket, files, homes, session, disk, pass, job, writing, mine, quiet>>

(* The next commands are given another socket.                                *)
MoveSocket(sock) ==
    /\ Upset /\ socket # sock
    /\ socket' = sock
    /\ UNCHANGED <<config, files, homes, session, disk, pass, job, writing, mine, quiet>>

(* A user adds a line of their own below whatever the file of a workspace     *)
(* holds; what an orchestrator's holds is ax's own.                           *)
EditFile(d, r) ==
    /\ Upset /\ \E t \in Targets \ Orchestrators : \E s \in SpecsOf[t] : s.dir = d
    /\ ~HasText(mine[d][r], User(2))
    /\ mine' = [mine EXCEPT ![d][r] = Append(@, User(2))]
    /\ files' = [files EXCEPT ![d].text[r] = Append(@, User(2))]
    /\ LossyIf(\E p \in Workers :
                  draft[p].at # "none" /\ Place(p) = d /\ r \in draft[p].touched, d)
    /\ UNCHANGED <<config, socket, homes, session, disk, pass, job, draft, quiet>>

(* An agent works, rests or exits; a user attaches or detaches.               *)
SessionMoves(t, st) ==
    /\ Live(t) /\ session[t].st # st /\ Upset
    /\ session' = [session EXCEPT ![t] = IF st = "none" THEN NoSession
                                         ELSE [@ EXCEPT !.st = st]]
    /\ quiet' = FALSE
    /\ UNCHANGED <<config, socket, files, homes, disk, pass, job, writing, mine>>

Calls(p) ==
    \/ Destroy(p) \/ ReadFiles(p) \/ OpenFiles(p) \/ WriteFiles(p)
    \/ CreateInner(p) \/ WakeWorkspace(p) \/ CallFails(p) \/ RewriteFails(p)

Operate(p) ==
    \/ \E t \in Targets :
          \/ StartNamed(p, t) \/ StopNamed(p, t) \/ RestartNamed(p, t) \/ Refresh(p, t)
          \/ AgentStart(p, t) \/ AgentStop(p, t) \/ AgentRestart(p, t)
          \/ \E fresh \in BOOLEAN : DispatchRunnableWork(p, t, fresh)
    \/ RefreshDisabledRoot(p)
    \/ \E restart, startMissing, daemonRunning \in BOOLEAN :
          RefreshSession(p, restart, startMissing, daemonRunning)

Reconcile ==
    \/ \E running, disruptive \in BOOLEAN : ReconcileBegin(running, disruptive)
    \/ \E t \in Targets : \/ VisitMatching(t) \/ VisitChanged(t)
                          \/ VisitRemoved(t) \/ VisitBlocked(t)
    \/ SaveRuntimeState \/ ReconcileEnd \/ SaveFails

Environment ==
    \/ \E t \in Targets : \E spec \in Specs(t) : EditConfig(t, spec)
    \/ \E sock \in Sockets : MoveSocket(sock)
    \/ \E d \in Dirs, r \in Runtimes : EditFile(d, r)
    \/ \E t \in Targets, st \in States : SessionMoves(t, st)

Next ==
    \/ \E p \in Workers : Calls(p)
    \/ \E p \in Procs : Operate(p)
    \/ Reconcile
    \/ Environment

Spec == Init /\ [][Next]_vars

-----------------------------------------------------------------------------
(* No two targets share a directory.                                          *)
DirectoriesApart ==
    \A t, u \in Targets : t # u => \A s \in SpecsOf[t], r \in SpecsOf[u] : s.dir # r.dir

(* A pass that nobody disturbs converges, whatever earlier passes, calls and  *)
(* failures left behind: every configured target it did not report as blocked *)
(* finds its own generated files, has a session when the daemon runs, one of  *)
(* the configuration it was made for when the pass changed it, and is         *)
(* recorded so; what is no longer configured is gone with its files.          *)
PassConverges ==
    pass.pc = "saved" /\ quiet =>
        \A t \in Targets \ pass.blocked :
            LET want == pass.want[t] IN
            /\ disk.recs[t] = want
            /\ want # Absent => /\ Serves(files[want.dir], t, want.runtime)
                                /\ want.runtime = "codex" => <<t, want.dir>> \in homes
                                /\ pass.running /\ Managed(t) => Live(t)
                                /\ pass.running /\ t \in pass.changed =>
                                       session[t].spec = want
            /\ want = Absent /\ pass.prev[t] # Absent => ~Live(t)
            /\ pass.prev[t] # Absent /\ (want = Absent \/ pass.prev[t].dir # want.dir) =>
                   /\ files[pass.prev[t].dir].mcp.ax # t
                   /\ <<t, pass.prev[t].dir>> \notin homes

(* While a pass runs, it has no session to destroy that its snapshot saw      *)
(* attached or at work, and a target it reports as blocked keeps its record.  *)
(* What becomes busy after the snapshot is not asked for again.               *)
WorkIsNotDisrupted ==
    pass.pc # "off" =>
        \A t \in Targets : pass.snap[t] = "held" =>
            /\ job[Reconciler].t = t => "destroy" \notin Range(job[Reconciler].steps)
            /\ t \in pass.blocked => pass.next[t] = pass.prev[t]

(* The capacity cap is checked before the session is made, so processes that  *)
(* check together overshoot it, but by no more than one session each but one. *)
SpawnsWithinCap ==
    Cap # 0 =>
        LET made    == {t \in Targets : session[t].by = "checked"}
            pending == {p \in Procs : job[p].by = "checked"
                                      /\ "create" \in Range(job[p].steps)}
        IN  Cardinality(made) + Cardinality(pending) <= Cap + Cardinality(Procs) - 1

(* The orchestrators' directories, `.ax` in the home or in a project, are no  *)
(* workspace's.                                                               *)
OrchestratorsApart ==
    \A o \in Orchestrators, t \in Targets \ Orchestrators :
        \A s \in SpecsOf[o], r \in SpecsOf[t] : s.dir # r.dir

(* No sequence of refreshes, moves, runtime changes, cleanups and failures    *)
(* between them loses, repeats or reorders a line the user wrote into a       *)
(* workspace's instruction file or leaves more than one section of ax's own   *)
(* in it.  The files are rewritten in place without a lock, so this is        *)
(* claimed while no rewrite is at its write, and only of directories where    *)
(* no rewrite was cut short, read or opened files another had open, or had a  *)
(* user's edit between its read and its write.                                *)
UserLinesKept ==
    \A t \in Targets \ Orchestrators : \A s \in SpecsOf[t] :
        s.dir \notin lossy /\ (\A p \in Workers : ~HoldsOpen(p, s.dir)) =>
            /\ \A r \in Runtimes : HoldsLines(files[s.dir].text[r], mine[s.dir][r])
            /\ files[s.dir].mcp.other = "plain"

(* validate.rs says that workspaces may share a directory because what is     *)
(* downstream is keyed on the name: then each finds its own files after an    *)
(* undisturbed pass.                                                          *)
OverlapIsSafe ==
    pass.pc = "saved" /\ quiet =>
        \A t \in Targets \ (pass.blocked \cup Orchestrators) :
            pass.want[t] # Absent =>
                Serves(files[pass.want[t].dir], t, pass.want[t].runtime)

(* Sessions are safe from ax: a pass leaves those that are busy or attached   *)
(* alone, and those made under the cap stay near it.                          *)
SessionsAreSafe == TypeOK /\ WorkIsNotDisrupted /\ SpawnsWithinCap
=============================================================================
