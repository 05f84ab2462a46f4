--------------------------- MODULE TeamReconfigure ---------------------------
(***************************************************************************)
(* The team controller (team_reconfigure.rs) over its store                *)
(* (team_state_store.rs), for one team.  A client asks for a list of       *)
(* changes to the team's overlay; begin_apply plans the next state, takes  *)
(* the lease lock, writes the effective config, stores the state and hands *)
(* out a ticket; the client reconciles the runtime and calls finish_apply, *)
(* which gives the lease up and stores a report.  The plan is made before  *)
(* the lock is taken, and the report is added to a state that is read and  *)
(* written after it was released.                                          *)
(*                                                                         *)
(* Workspaces and children go through the same code, so one set of names   *)
(* stands for both; specs, directories, warnings, reports and the diff of  *)
(* actions are left out.  A call that is refused because of the feature    *)
(* flag, a wrong expected_revision or an invalid change is no step.        *)
(***************************************************************************)
EXTENDS Integers, Sequences

CONSTANTS
  Clients,      \* MCP servers that reconfigure the team
  Nobody,       \* no client
  Names,        \* workspaces the team can have
  Base,         \* the ones in the base config
  Root,         \* the root orchestrator, as the subject of a change
  Requests,     \* the lists of changes clients ask for
  MaxTickets,   \* bound: no plan starts once so many tickets were handed out
  MaxFaults     \* bound: failed writes and restarts

Changes == [op : {"add", "remove", "disable", "enable"}, name : Names]
             \union [op : {"disable", "enable"}, name : {Root}]

ASSUME TeamAssumption ==
  /\ Nobody \notin Clients /\ Base \subseteq Names /\ Root \notin Names
  /\ Requests \subseteq Seq(Changes)
  /\ MaxTickets \in Nat /\ MaxFaults \in Nat

VARIABLES
  state,      \* the team's entry in the store: [revision, overlay]
  disk,       \* the same in team_states.json
  file,       \* the config in managed-teams/<hash>.yaml
  lease,      \* [token, expired]; token 0 is no lease
  holder,     \* who holds the lease lock across steps: a begin_apply, or Nobody
  client,     \* per client: [pc, plan, token, late]
  tokens,     \* tickets handed out so far
  faults,
  overtaken,  \* clients whose plan or copy is older than the stored state
  excused     \* one of the events of EffectiveIsCurrent has happened since the last commit

vars == <<state, disk, file, lease, holder, client, tokens, faults, overtaken, excused>>

-----------------------------------------------------------------------------
(* Overlays *)

Overlay == [added : SUBSET Names, removed : SUBSET Names, disabled : SUBSET Names,
            root : {"unset", "on", "off"}]

NoOverlay == [added |-> {}, removed |-> {}, disabled |-> {}, root |-> "unset"]

\* materialize_raw_config: additions are applied last.
Materialize(ov) == [entries |-> (Base \ (ov.removed \union ov.disabled)) \union ov.added,
                    root |-> ov.root # "off"]

HasChanges(ov) == ov # NoOverlay

Present(ov, n) == n \in Materialize(ov).entries

\* An `add' of something that is there is an error, which fails the whole request.
CanApply(ov, ch) == ch.op = "add" => ~Present(ov, ch.name)

\* Mutant of ApplyEntryChange: an addition leaves the old tombstone in place.
AddKeepsTombstone(ov, op, n) ==
  CASE op = "add" -> [ov EXCEPT !.added = @ \union {n}, !.disabled = @ \ {n}]
    [] op = "remove" /\ Present(ov, n) ->
         [ov EXCEPT !.added = @ \ {n}, !.removed = @ \union {n}, !.disabled = @ \ {n}]
    [] op = "disable" /\ Present(ov, n) ->
         [ov EXCEPT !.disabled = @ \union {n}, !.removed = @ \ {n}]
    [] op = "enable" /\ n \in ov.removed -> [ov EXCEPT !.removed = @ \ {n}]
    [] op = "enable" /\ n \notin ov.removed -> [ov EXCEPT !.disabled = @ \ {n}]
    [] OTHER -> ov

\* Mutant of ApplyEntryChange: a removal forgets that the name may have been added.
RemoveKeepsAddition(ov, op, n) ==
  CASE op = "add" -> [ov EXCEPT !.added = @ \union {n}, !.removed = @ \ {n}, !.disabled = @ \ {n}]
    [] op = "remove" /\ Present(ov, n) ->
         [ov EXCEPT !.removed = @ \union {n}, !.disabled = @ \ {n}]
    [] op = "disable" /\ Present(ov, n) ->
         [ov EXCEPT !.disabled = @ \union {n}, !.removed = @ \ {n}]
    [] op = "enable" /\ n \in ov.removed -> [ov EXCEPT !.removed = @ \ {n}]
    [] op = "enable" /\ n \notin ov.removed -> [ov EXCEPT !.disabled = @ \ {n}]
    [] OTHER -> ov

\* apply_workspace_change and apply_child_change.
ApplyEntryChange(ov, op, n) ==
  CASE op = "add" -> [ov EXCEPT !.added = @ \union {n}, !.removed = @ \ {n}, !.disabled = @ \ {n}]
    [] op = "remove" /\ Present(ov, n) ->
         [ov EXCEPT !.added = @ \ {n}, !.removed = @ \union {n}, !.disabled = @ \ {n}]
    [] op = "disable" /\ Present(ov, n) ->
         [ov EXCEPT !.disabled = @ \union {n}, !.removed = @ \ {n}]
    [] op = "enable" /\ n \in ov.removed -> [ov EXCEPT !.removed = @ \ {n}]
    [] op = "enable" /\ n \notin ov.removed -> [ov EXCEPT !.disabled = @ \ {n}]
    [] OTHER -> ov

ApplySingleChange(ov, ch) ==
  IF ch.name = Root THEN [ov EXCEPT !.root = IF ch.op = "disable" THEN "off" ELSE "on"]
  ELSE ApplyEntryChange(ov, ch.op, ch.name)

\* The overlays apply_changes goes through; the last one is its result.
ApplyChanges(ov, chs) ==
  LET after[i \in 0..Len(chs)] ==
        IF i = 0 THEN ov ELSE ApplySingleChange(after[i - 1], chs[i])
  IN  after

-----------------------------------------------------------------------------
(* begin_apply *)

NoLease == [token |-> 0, expired |-> FALSE]
NoState == [revision |-> 0, overlay |-> NoOverlay]
Idle    == [pc |-> "ready", plan |-> NoState, token |-> 0, late |-> FALSE]

Fault == faults < MaxFaults /\ faults' = faults + 1

\* Everyone else who is going to write back what was planned or read before.
Overtakes(c) ==
  IF state' = state THEN overtaken
  ELSE {d \in Clients \ {c} : client[d].pc \in {"planned", "saving", "got"}} \union overtaken

\* plan_inner: reads the stored state; expected_revision, if any, was right.
Plan(c, chs) ==
  LET after == ApplyChanges(state.overlay, chs)
  IN  /\ client[c].pc = "ready"
      /\ tokens < MaxTickets
      /\ \A i \in 1..Len(chs) : CanApply(after[i - 1], chs[i])
      /\ client' = [client EXCEPT ![c].pc = "planned",
                                  ![c].plan = [revision |-> state.revision + 1,
                                               overlay |-> after[Len(chs)]]]
      /\ overtaken' = overtaken \ {c}
      /\ UNCHANGED <<state, disk, file, lease, holder, tokens, faults, excused>>

\* Mutant of LeaseActive: leases are taken for expired.
NeverActive == FALSE

LeaseActive == lease.token # 0 /\ ~lease.expired

\* The lease lock is free but somebody else's lease is in force.
Refuse(c) ==
  /\ client[c].pc = "planned" /\ holder = Nobody
  /\ LeaseActive
  /\ client' = [client EXCEPT ![c] = Idle]
  /\ UNCHANGED <<state, disk, file, lease, holder, tokens, faults, overtaken, excused>>

\* Mutant of Save: the effective config is not written again once it exists.
SaveOnce(c) ==
  /\ client[c].pc = "planned" /\ holder = Nobody
  /\ ~LeaseActive
  /\ holder' = c
  /\ file' = IF file = Materialize(NoOverlay) THEN Materialize(client[c].plan.overlay) ELSE file
  /\ client' = [client EXCEPT ![c].pc = "saving"]
  /\ UNCHANGED <<state, disk, lease, tokens, faults, overtaken, excused>>

\* materialize_state with `persist'; without changes the base config stays in force.
\* It can fail before the file is written, and after it, when it is loaded again.
Save(c) ==
  LET ov == client[c].plan.overlay
      written == IF HasChanges(ov) THEN Materialize(ov) ELSE file
  IN  /\ client[c].pc = "planned" /\ holder = Nobody
      /\ ~LeaseActive
      /\ \/ /\ holder' = c
            /\ file' = written
            /\ client' = [client EXCEPT ![c].pc = "saving"]
            /\ UNCHANGED <<faults, excused>>
         \/ /\ Fault
            /\ file' \in {file, written}
            /\ client' = [client EXCEPT ![c] = Idle]
            /\ excused' = (excused \/ file' # file)
            /\ UNCHANGED holder
      /\ UNCHANGED <<state, disk, lease, tokens, overtaken>>

\* Mutant of Commit: the lease repeats the last token.
CommitOldToken(c) ==
  /\ client[c].pc = "saving"
  /\ state' = client[c].plan
  /\ holder' = Nobody
  /\ disk' = state'
  /\ lease' = [token |-> tokens + 1, expired |-> FALSE]
  /\ client' = [client EXCEPT ![c] = [Idle EXCEPT !.pc = "ticket", !.token = tokens + 1]]
  /\ overtaken' = Overtakes(c) \ {c}
  /\ excused' = FALSE
  /\ UNCHANGED <<file, tokens, faults>>

\* store.put and the lease; a failed write leaves the new state in memory and no lease.
Commit(c) ==
  /\ client[c].pc = "saving"
  /\ state' = client[c].plan
  /\ holder' = Nobody
  /\ \/ /\ disk' = state'
        /\ tokens' = tokens + 1
        /\ lease' = [token |-> tokens', expired |-> FALSE]
        /\ client' = [client EXCEPT ![c] = [Idle EXCEPT !.pc = "ticket", !.token = tokens']]
        /\ UNCHANGED faults
     \/ /\ Fault
        /\ client' = [client EXCEPT ![c] = Idle]
        /\ UNCHANGED <<disk, lease, tokens>>
  /\ overtaken' = Overtakes(c) \ {c}
  /\ excused' = FALSE
  /\ UNCHANGED file

\* TEAM_APPLY_LEASE_TTL passes.
Expire ==
  /\ LeaseActive
  /\ lease' = [lease EXCEPT !.expired = TRUE]
  /\ client' = [c \in Clients |->
                  [client[c] EXCEPT !.late = @ \/ client[c].token = lease.token]]
  /\ UNCHANGED <<state, disk, file, holder, tokens, faults, overtaken, excused>>

-----------------------------------------------------------------------------
(* finish_apply *)

\* The lease goes, expired or not, and with it the lock.
FinishTake(c) ==
  /\ client[c].pc = "ticket" /\ holder = Nobody
  /\ lease.token = client[c].token
  /\ lease' = NoLease
  /\ client' = [client EXCEPT ![c] = [Idle EXCEPT !.pc = "taken"]]
  /\ UNCHANGED <<state, disk, file, holder, tokens, faults, overtaken, excused>>

\* The token is gone: somebody took over after it expired, or the daemon restarted.
FinishUnknown(c) ==
  /\ client[c].pc = "ticket" /\ holder = Nobody
  /\ lease.token # client[c].token
  /\ client' = [client EXCEPT ![c] = Idle]
  /\ UNCHANGED <<state, disk, file, lease, holder, tokens, faults, overtaken, excused>>

FinishGet(c) ==
  /\ client[c].pc = "taken"
  /\ client' = [client EXCEPT ![c].pc = "got", ![c].plan = state]
  /\ overtaken' = overtaken \ {c}
  /\ UNCHANGED <<state, disk, file, lease, holder, tokens, faults, excused>>

FinishPut(c) ==
  /\ client[c].pc = "got"
  /\ state' = client[c].plan
  /\ \/ disk' = state' /\ UNCHANGED faults
     \/ Fault /\ UNCHANGED disk
  /\ client' = [client EXCEPT ![c] = Idle]
  /\ overtaken' = Overtakes(c) \ {c}
  /\ excused' = (excused \/ c \in overtaken)
  /\ UNCHANGED <<file, lease, holder, tokens>>

\* Leases are not persisted; clients are other processes and keep their tickets.
Restart ==
  /\ Fault
  /\ state' = disk
  /\ lease' = NoLease
  /\ holder' = Nobody
  /\ client' = [c \in Clients |-> IF client[c].pc = "ticket"
                                  THEN [client[c] EXCEPT !.late = TRUE] ELSE Idle]
  /\ overtaken' = {}
  /\ excused' = TRUE
  /\ UNCHANGED <<disk, file, tokens>>

-----------------------------------------------------------------------------

Init ==
  /\ state = NoState /\ disk = NoState
  /\ file = Materialize(NoOverlay)
  /\ lease = NoLease
  /\ holder = Nobody
  /\ client = [c \in Clients |-> Idle]
  /\ tokens = 0 /\ faults = 0
  /\ overtaken = {}
  /\ excused = FALSE

\* A request to apply changes, and one to finish: the steps between their locks.
HandleApply(c) ==
  \/ \E chs \in Requests : Plan(c, chs)
  \/ Refuse(c) \/ Save(c) \/ Commit(c)

HandleFinish(c) == FinishTake(c) \/ FinishUnknown(c) \/ FinishGet(c) \/ FinishPut(c)

\* A client applies, acts on its ticket and finishes.
Next == (\E c \in Clients : HandleApply(c) \/ HandleFinish(c)) \/ Expire \/ Restart

Spec == Init /\ [][Next]_vars

-----------------------------------------------------------------------------
(* Properties *)

States == [revision : Nat, overlay : Overlay]

\* The store, the file, the lease and every client hold values of their types.
TypeOK ==
  /\ state \in States /\ disk \in States
  /\ file \in [entries : SUBSET Names, root : BOOLEAN]
  /\ lease \in [token : 0..tokens, expired : BOOLEAN]
  /\ holder \in Clients \union {Nobody}
  /\ client \in [Clients -> [pc : {"ready", "planned", "saving", "ticket", "taken", "got"},
                             plan : States, token : 0..tokens, late : BOOLEAN]]
  /\ tokens \in Nat /\ faults \in 0..MaxFaults
  /\ overtaken \subseteq Clients /\ excused \in BOOLEAN

\* The lease does its work: two clients that reconcile the runtime at the same time
\* only do so because the lease of one of them expired, or was lost in a restart.
OneAtATime ==
  \A c, d \in Clients :
    /\ client[c].pc = "ticket" /\ ~client[c].late
    /\ client[d].pc = "ticket" /\ ~client[d].late
    => c = d

\* In every stored overlay a name has at most one tombstone and an added name has
\* none from a removal; what is disabled is something that could be shown.
OverlayIsCoherent ==
  LET ov == state.overlay
  IN  /\ ov.removed \intersect (ov.added \union ov.disabled) = {}
      /\ ov.disabled \subseteq Base \union ov.added

\* The config the team runs with: the base config or the managed one.
InForce == IF HasChanges(state.overlay) THEN file ELSE Materialize(NoOverlay)

\* Outside begin_apply the config in force is the one the stored overlay stands for,
\* also after a failed put, unless an overtaken finish_apply or a restart put an
\* older state back or a begin_apply failed right after writing the config; the
\* next commit mends that.
EffectiveIsCurrent == holder = Nobody => InForce = Materialize(state.overlay) \/ excused

\* Every change of a request shows in its plan unless a later one is about the same
\* name: what is added is there, what is removed or disabled is not (save a name that
\* was added, which a disable leaves in place), and what is enabled is there if it is
\* a name of the base config.
ChangesTakeEffect ==
  [][\A c \in Clients, chs \in Requests : Plan(c, chs) =>
       LET ov == client'[c].plan.overlay
       IN  \A i \in DOMAIN chs :
             (\A j \in DOMAIN chs : j > i => chs[j].name # chs[i].name) =>
               IF chs[i].name = Root THEN Materialize(ov).root = (chs[i].op = "enable")
               ELSE /\ chs[i].op = "add" => Present(ov, chs[i].name)
                    /\ chs[i].op = "remove" => ~Present(ov, chs[i].name)
                    /\ chs[i].op = "disable" => ~Present(ov, chs[i].name) \/ chs[i].name \in ov.added
                    /\ chs[i].op = "enable" /\ chs[i].name \in Base => Present(ov, chs[i].name)]_vars

\* Parallel clients do not race: two different overlays never carry the same
\* revision one after the other, and revisions do not fall.
RevisionTellsOverlay ==
  [][state'.overlay # state.overlay => state'.revision > state.revision]_vars

\* What the overlay says is disabled is absent from the effective config.
DisabledIsAbsent == \A n \in state.overlay.disabled : ~Present(state.overlay, n)
=============================================================================
