--------------------------- MODULE WorkspaceProofs ---------------------------
(***************************************************************************)
(* Proofs about sessions, generated files and reconcile passes, for any    *)
(* number of targets, processes, edits, failing calls and passes.  First   *)
(* what every job and every pass may rely on, which keeps busy sessions    *)
(* and the cap safe.  Then the text files, place by place: splicing and    *)
(* stripping the managed section never touch a line of the user's.  Last   *)
(* the pass that nobody disturbs: what it has not done for a target yet is *)
(* what the calls it still has to make will do.                            *)
(***************************************************************************)
EXTENDS Workspace, FiniteSetTheorems, SequenceTheorems, WellFoundedInduction, TLAPS

-----------------------------------------------------------------------------
(* Types, in the form the steps need them *)

CallNames == {"destroy", "wipe", "unlink", "ensure", "create", "decide", "wake"}
Owners == {"none", "checked", "restart", "agent", "refresh", "pass"}
AnySpec == (UNION {SpecsOf[t] : t \in Targets}) \cup {Absent}
PerTarget == [Targets -> AnySpec]

Sessions == [st : States, spec : AnySpec, by : Owners]
Jobs == [t : Targets \cup {NoOne}, steps : Seq(CallNames), spec : AnySpec,
         wipe : Dirs \cup {NoOne}, by : Owners]
Passes == [pc : {"visit", "saved"}, todo : SUBSET Targets, snap : [Targets -> States],
           next : PerTarget, prev : PerTarget, want : PerTarget, sock : Sockets,
           moved : BOOLEAN, running : BOOLEAN, disruptive : BOOLEAN,
           blocked : SUBSET Targets, changed : SUBSET Targets]

\* A map from targets gives each one of its own specs.
Own(f) == f \in PerTarget /\ \A t \in Targets : f[t] \in Specs(t)

ConfigInv == Own(config) /\ socket \in Sockets

\* A .mcp.json that does not parse has no "ax" entry.
DirOK(d) == IsDir(d) /\ (d.mcp.other = "foreign" => d.mcp.ax = NoOne)

DraftOK(x) == /\ DOMAIN x = {"at", "new", "touched"}
              /\ x.at \in {"none", "read", "open"} /\ x.touched \subseteq Everything
              /\ x.at # "none" => DirOK(x.new)

FilesInv == /\ DOMAIN files = Dirs
            /\ \A d \in Dirs : DirOK(files[d])
            /\ homes \subseteq Targets \X Dirs
            /\ DOMAIN draft = Workers
            /\ \A p \in Workers : DraftOK(draft[p])
            /\ lossy \subseteq Dirs

SessionInv == /\ session \in [Targets -> Sessions]
              /\ \A t \in Targets : /\ session[t].spec \in Specs(t)
                                    /\ Live(t) <=> session[t].by # "none"

DiskInv == /\ disk \in [ok : BOOLEAN, sock : Sockets \cup {NoOne}, recs : PerTarget]
           /\ Own(disk.recs)

BoundsInv == calls \in 0 .. MaxCalls /\ upsets \in 0 .. MaxUpsets

\* The steps of a job: a session is made by somebody and last but for the wake, and a
\* decision is a refresh's.
Fit(steps, by) ==
  /\ steps \in Seq(CallNames)
  /\ \A i \in 1 .. Len(steps) :
       /\ steps[i] = "create" => by # "none" /\ \A k \in i + 1 .. Len(steps) : steps[k] = "wake"
       /\ steps[i] = "decide" => by = "refresh"

\* What the steps of a job may rely on.
JobOK(j) ==
  /\ j \in Jobs /\ Fit(j.steps, j.by)
  /\ j.steps # <<>> => j.t \in Targets /\ j.spec \in Specs(j.t)
  /\ \A i \in 1 .. Len(j.steps) :
       /\ j.steps[i] \in {"ensure", "create", "decide"} => j.spec # Absent
       /\ j.steps[i] \in {"wipe", "unlink", "decide"} => \E s \in SpecsOf[j.t] : j.wipe = s.dir

JobsInv == /\ job \in [Workers -> Jobs]
           /\ \A p \in Workers : JobOK(job[p])

\* The pass, its reports, and what the job it is at is about.
PassInv ==
  /\ pass = NoPass \/ (pass \in Passes /\ Own(pass.next) /\ Own(pass.prev) /\ Own(pass.want))
  /\ pass.pc # "off" => \A t \in pass.blocked :
                          Blocked(t) /\ ~InPlace(t) /\ pass.next[t] = pass.prev[t]
  /\ \A t \in pass.todo : pass.want[t] # Absent \/ pass.prev[t] # Absent
  /\ pass.pc # "visit" => ~Busy(Reconciler)
  /\ job[Reconciler].by \in {"none", "pass"}
  /\ Busy(Reconciler) => \A i \in 1 .. Len(job[Reconciler].steps) :
                            job[Reconciler].steps[i] = "destroy" => ~Blocked(job[Reconciler].t)

SafeInv == /\ ConfigInv /\ FilesInv /\ SessionInv /\ DiskInv /\ BoundsInv
           /\ JobsInv /\ PassInv /\ SpawnsWithinCap

-----------------------------------------------------------------------------
(* What the calls leave of a job *)

LEMMA SpecsFacts ==
  ASSUME NEW t \in Targets
  PROVE  /\ Specs(t) \subseteq AnySpec /\ Absent \in Specs(t)
         /\ \A s \in Specs(t) : s # Absent => /\ s \in SpecsOf[t]
                                              /\ s.dir \in Dirs /\ s.runtime \in Runtimes
         /\ \A s \in SpecsOf[t] : s # Absent /\ s \in Specs(t)
  BY TargetsAssumption DEF Specs, AnySpec

LEMMA IdleOK == Idle \in Jobs /\ JobOK(Idle)
  <1>1. <<>> \in Seq(CallNames) /\ Len(<<>>) = 0
    OBVIOUS
  <1>2. Idle \in Jobs
    BY <1>1 DEF Idle, Jobs, AnySpec, Owners
  <1> QED  BY <1>1, <1>2 DEF Idle, JobOK, Fit

LEMMA TailOK ==
  ASSUME NEW j, JobOK(j), Len(j.steps) # 1, j.steps # <<>>
  PROVE  /\ [j EXCEPT !.steps = Tail(j.steps)] \in Jobs
         /\ JobOK([j EXCEPT !.steps = Tail(j.steps)])
         /\ Range(Tail(j.steps)) \subseteq Range(j.steps)
  <1> DEFINE T == Tail(j.steps)
             n == Len(j.steps)
             k == [j EXCEPT !.steps = T]
  <1>1. j.steps \in Seq(CallNames) /\ n \in Nat /\ n # 0 /\ n # 1
    BY DEF JobOK, Fit
  <1>2. T \in Seq(CallNames) /\ Len(T) = n - 1 /\ DOMAIN T = 1 .. n - 1 /\ DOMAIN j.steps = 1 .. n
        /\ \A i \in 1 .. n - 1 : T[i] = j.steps[i + 1]
    BY <1>1
  <1>3. k \in Jobs /\ k.steps = T /\ k.t = j.t /\ k.spec = j.spec /\ k.wipe = j.wipe /\ k.by = j.by
    BY <1>2 DEF JobOK, Jobs
  <1>4. Fit(T, j.by)
    BY <1>1, <1>2 DEF JobOK, Fit
  <1>5. JobOK(k)
    BY <1>1, <1>2, <1>3, <1>4 DEF JobOK
  <1>6. Range(T) \subseteq Range(j.steps)
    BY <1>1, <1>2 DEF Range
  <1> QED  BY <1>3, <1>5, <1>6

\* After a call of p: the job is over or goes on with what was left of it.
LEMMA Advanced ==
  ASSUME JobsInv, NEW p \in Workers, Busy(p), Advance(p)
  PROVE  /\ JobsInv'
         /\ \A q \in Workers \ {p} : job'[q] = job[q]
         /\ job'[p].by \in {job[p].by, "none"}
         /\ Range(job'[p].steps) \subseteq Range(job[p].steps)
         /\ job'[p].steps # <<>> => /\ job'[p] = [job[p] EXCEPT !.steps = Tail(job[p].steps)]
                                    /\ Len(job[p].steps) # 1
  <1>1. job[p] \in Jobs /\ JobOK(job[p]) /\ job[p].steps # <<>>
    BY DEF JobsInv, Busy
  <1>2. CASE Len(job[p].steps) = 1
    <2>1. job' = [job EXCEPT ![p] = Idle]
      BY <1>2 DEF Advance, Abandon
    <2>2. job'[p] = Idle /\ job' \in [Workers -> Jobs]
      BY <2>1, IdleOK DEF JobsInv
    <2>3. Idle.steps = <<>> /\ Idle.by = "none" /\ Range(<<>>) = {}
      BY DEF Idle, Range
    <2> QED  BY <2>1, <2>2, <2>3, IdleOK DEF JobsInv
  <1>3. CASE Len(job[p].steps) # 1
    <2>1. job' = [job EXCEPT ![p] = [job[p] EXCEPT !.steps = Tail(job[p].steps)]]
      BY <1>3 DEF Advance
    <2>2. job'[p] = [job[p] EXCEPT !.steps = Tail(job[p].steps)] /\ job' \in [Workers -> Jobs]
      BY <2>1, <1>1, <1>3, TailOK DEF JobsInv
    <2>3. job'[p].steps = Tail(job[p].steps) /\ job'[p].by = job[p].by
      BY <2>2, <1>1 DEF Jobs
    <2> QED  BY <1>1, <1>3, <2>1, <2>2, <2>3, TailOK DEF JobsInv
  <1> QED  BY <1>2, <1>3

\* An error ends the job.
LEMMA Abandoned ==
  ASSUME JobsInv, NEW p \in Workers, Abandon(p)
  PROVE  /\ JobsInv'
         /\ \A q \in Workers \ {p} : job'[q] = job[q]
         /\ job'[p] = Idle /\ job'[p].steps = <<>> /\ job'[p].by = "none" /\ Range(job'[p].steps) = {}
  <1>1. job' = [job EXCEPT ![p] = Idle]
    BY DEF Abandon
  <1>2. job'[p] = Idle /\ job' \in [Workers -> Jobs]
    BY <1>1, IdleOK DEF JobsInv
  <1>3. Idle.steps = <<>> /\ Idle.by = "none" /\ Range(<<>>) = {}
    BY DEF Idle, Range
  <1> QED  BY <1>1, <1>2, <1>3, IdleOK DEF JobsInv

-----------------------------------------------------------------------------
(* What the calls do to the pass *)

LEMMA PassSame ==
  ASSUME PassInv, pass' = pass, job'[Reconciler] = job[Reconciler]
  PROVE  PassInv'
  BY DEF PassInv, Busy, Blocked, InPlace, Wanted, StateMatches

LEMMA PassAdvances ==
  ASSUME PassInv, JobsInv, pass' = pass, NEW p \in Workers, Busy(p), Advance(p)
  PROVE  PassInv'
  <1>1. CASE p # Reconciler
    BY <1>1, Advanced, PassSame DEF Workers
  <1>2. CASE p = Reconciler
    <2> DEFINE j == job[Reconciler]
               k == job'[Reconciler]
    <2>1. Reconciler \in Workers /\ j \in Jobs /\ JobOK(j)
      BY DEF JobsInv, Workers
    <2>2. pass.pc = "visit"
      BY <1>2 DEF PassInv
    <2>3. \A t : Blocked(t)' <=> Blocked(t)
      BY DEF Blocked
    <2>3a. \A t : InPlace(t)' <=> InPlace(t)
      BY DEF InPlace, Wanted, StateMatches
    <2>4. k.by \in {"none", "pass"}
      BY <1>2, Advanced DEF PassInv
    <2>5. ASSUME k.steps # <<>>, NEW i \in 1 .. Len(k.steps), k.steps[i] = "destroy"
          PROVE  ~Blocked(k.t)
      <3>1. k = [j EXCEPT !.steps = Tail(j.steps)] /\ Len(j.steps) # 1
        BY <1>2, <2>5, Advanced
      <3>2. k.steps = Tail(j.steps) /\ k.t = j.t
        BY <3>1, <2>1 DEF Jobs
      <3>3. j.steps \in Seq(CallNames) /\ j.steps # <<>>
        BY <1>2, <2>1 DEF JobOK, Fit, Busy
      <3>4. i + 1 \in 1 .. Len(j.steps) /\ k.steps[i] = j.steps[i + 1]
        BY <3>1, <3>2, <3>3
      <3> QED  BY <1>2, <2>5, <3>2, <3>4 DEF PassInv
    <2> QED  BY <2>2, <2>3, <2>3a, <2>4, <2>5 DEF PassInv, Busy
  <1> QED  BY <1>1, <1>2

LEMMA NoPassOff == NoPass.pc = "off" /\ NoPass.todo = {}
  BY DEF NoPass

LEMMA PassFails ==
  ASSUME PassInv, JobsInv, NEW p \in Workers, Fails(p)
  PROVE  PassInv'
  <1>1. CASE p # Reconciler
    BY <1>1, Abandoned, PassSame DEF Workers, Fails
  <1>2. CASE p = Reconciler
    BY <1>2, Abandoned, NoPassOff DEF Fails, PassInv, Busy
  <1> QED  BY <1>1, <1>2

-----------------------------------------------------------------------------
(* The cap *)

Made == {t \in Targets : session[t].by = "checked"}
Pending == {p \in Procs : job[p].by = "checked" /\ "create" \in Range(job[p].steps)}
Within(made, pending) == Cardinality(made) + Cardinality(pending) <= Cap + Cardinality(Procs) - 1

LEMMA CapIsWithin == SpawnsWithinCap <=> (Cap # 0 => Within(Made, Pending))
  BY DEF SpawnsWithinCap, Within, Made, Pending

LEMMA Counts ==
  /\ \A made \in SUBSET Targets : IsFiniteSet(made) /\ Cardinality(made) \in Nat
  /\ \A pending \in SUBSET Procs : /\ IsFiniteSet(pending) /\ Cardinality(pending) \in Nat
                                   /\ Cardinality(pending) <= Cardinality(Procs)
  /\ Cardinality(Procs) \in Nat /\ Cap \in Nat
  BY TargetsAssumption, FS_Subset, FS_CardinalityType

LEMMA CapShrinks ==
  ASSUME SpawnsWithinCap, Made' \subseteq Made, Pending' \subseteq Pending
  PROVE  SpawnsWithinCap'
  <1> DEFINE a == Made  b == Pending  c == Made'  d == Pending'
  <1>1. a \in SUBSET Targets /\ b \in SUBSET Procs
    BY DEF Made, Pending
  <1>2. Cardinality(c) <= Cardinality(a) /\ Cardinality(d) <= Cardinality(b)
    BY <1>1, Counts, FS_Subset
  <1>3. c \in SUBSET Targets /\ d \in SUBSET Procs
    BY <1>1
  <1>4. Cap # 0 => Within(a, b)
    BY CapIsWithin
  <1>5. Cap # 0 => Within(c, d)
    BY <1>1, <1>2, <1>3, <1>4, Counts DEF Within
  <1> QED  BY <1>5 DEF SpawnsWithinCap, Within, Made, Pending

\* A session that somebody may make under the cap becomes one that is made.
LEMMA CapMoves ==
  ASSUME SpawnsWithinCap, NEW t \in Targets \ Made, Made' = Made \cup {t},
         NEW p \in Pending, Pending' \subseteq Pending \ {p}
  PROVE  SpawnsWithinCap'
  <1> DEFINE a == Made  b == Pending  c == Made'  d == Pending'
  <1>1. a \in SUBSET Targets /\ b \in SUBSET Procs /\ c \in SUBSET Targets /\ d \in SUBSET Procs
    BY DEF Made, Pending
  <1>2. Cardinality(c) = Cardinality(a) + 1
    BY <1>1, Counts, FS_AddElement
  <1>3. Cardinality(b \ {p}) = Cardinality(b) - 1 /\ IsFiniteSet(b \ {p})
    BY <1>1, Counts, FS_RemoveElement
  <1>4. Cardinality(d) <= Cardinality(b \ {p})
    BY <1>3, FS_Subset
  <1>5. Cap # 0 => Within(a, b)
    BY CapIsWithin
  <1>6. Cap # 0 => Within(c, d)
    BY <1>1, <1>2, <1>3, <1>4, <1>5, Counts DEF Within
  <1> QED  BY <1>6 DEF SpawnsWithinCap, Within, Made, Pending

\* Right after the check, whatever is pending.
LEMMA CapChecked ==
  ASSUME SessionInv, EnforceCapacityCap, session' = session
  PROVE  SpawnsWithinCap'
  <1> DEFINE a == Made  l == {t \in Targets : Live(t)}  d == Pending'
  <1>1. a \in SUBSET Targets /\ l \in SUBSET Targets /\ d \in SUBSET Procs /\ Made' = a
    BY DEF Made, Pending
  <1>2. a \subseteq l
    BY DEF Made, SessionInv
  <1>3. Cardinality(a) <= Cardinality(l)
    BY <1>1, <1>2, Counts, FS_Subset
  <1>4. Cap # 0 => Cardinality(l) < Cap
    BY DEF EnforceCapacityCap, LiveCount
  <1>5. Cap # 0 => Within(a, d)
    BY <1>1, <1>3, <1>4, Counts DEF Within
  <1> QED  BY <1>1, <1>5 DEF SpawnsWithinCap, Within, Made, Pending

\* A step that makes no session under the cap, and no job that will.
LEMMA PendingAdvances ==
  ASSUME JobsInv, NEW p \in Workers, Busy(p), Advance(p)
  PROVE  Pending' \subseteq Pending
  <1>1. \A q \in Procs : q \in Workers
    BY DEF Workers
  <1> QED  BY <1>1, Advanced DEF Pending

LEMMA PendingAbandoned ==
  ASSUME JobsInv, NEW p \in Workers, Abandon(p)
  PROVE  Pending' \subseteq Pending \ {p}
  <1>1. \A q \in Procs : q \in Workers
    BY DEF Workers
  <1> QED  BY <1>1, Abandoned DEF Pending

-----------------------------------------------------------------------------
(* The calls *)

LEMMA DirsKeep ==
  ASSUME NEW d, DirOK(d), NEW t \in Targets, NEW r,
         NEW x \in {EnsureArtifacts(d, t, r), EnsureOrchestratorArtifacts(d, t, r),
                    CleanupWorkspaceArtifacts(d), CleanupOrchestratorArtifacts(d)}
  PROVE  DirOK(x)
  BY DEF DirOK, IsDir, EnsureArtifacts, EnsureOrchestratorArtifacts, CleanupWorkspaceArtifacts,
         CleanupOrchestratorArtifacts, WriteInstructions, RemoveInstructions,
         WriteOrchestratorPrompt, WriteMcpConfig, RemoveMcpConfig, Reserialized, McpFile, Shapes

LEMMA EmptiedKeeps ==
  ASSUME NEW d, DirOK(d), NEW new, NEW touched
  PROVE  DirOK(Emptied(d, new, touched))
  BY DEF DirOK, IsDir, Emptied, TornMcp, McpFile, Shapes

LEMMA WrittenKeeps ==
  ASSUME NEW d, DirOK(d), NEW new, DirOK(new), NEW touched, NEW x \in Written(d, new, touched)
  PROVE  DirOK(x)
  <1>1. PICK mcp \in {d.mcp, new.mcp, TornMcp} :
          /\ x.mcp = mcp /\ DOMAIN x = {"text", "mcp"} /\ DOMAIN x.text = Runtimes
    BY DEF Written, OverwrittenMcp
  <1> QED  BY <1>1 DEF DirOK, IsDir, TornMcp, McpFile, Shapes

\* Who is at a call has a job that fits it.
LEMMA AtCall ==
  ASSUME JobsInv, NEW p \in Workers, NEW s, AtStep(p, s)
  PROVE  /\ Busy(p) /\ job[p] \in Jobs /\ JobOK(job[p])
         /\ job[p].t \in Targets /\ job[p].spec \in Specs(job[p].t)
         /\ 1 \in 1 .. Len(job[p].steps) /\ job[p].steps[1] = s /\ s \in Range(job[p].steps)
  <1>1. Busy(p) /\ job[p] \in Jobs /\ JobOK(job[p]) /\ Head(job[p].steps) = s
    BY DEF AtStep, JobsInv
  <1>2. job[p].steps \in Seq(CallNames) /\ job[p].steps # <<>>
    BY <1>1 DEF Busy, JobOK, Fit
  <1>3. 1 \in 1 .. Len(job[p].steps) /\ job[p].steps[1] = s /\ s \in Range(job[p].steps)
    BY <1>1, <1>2 DEF Range
  <1> QED  BY <1>1, <1>2, <1>3 DEF JobOK

LEMMA NoSessionOK == /\ NoSession \in Sessions /\ NoSession.by = "none" /\ NoSession.st = "none"
                     /\ NoSession.spec = Absent
  BY DEF NoSession, Sessions, States, Owners, AnySpec

LEMMA DestroyKeeps ==
  ASSUME SafeInv, NEW p \in Workers, Destroy(p)
  PROVE  SafeInv'
  <1> DEFINE t == job[p].t
  <1>1. Busy(p) /\ t \in Targets
    BY AtCall DEF SafeInv, Destroy
  <1>2. session' = [session EXCEPT ![t] = NoSession]
    BY DEF Destroy
  <1>3. SessionInv' /\ Made' \subseteq Made
    BY <1>1, <1>2, NoSessionOK DEF SafeInv, SessionInv, Live, Made, Specs
  <1>4. JobsInv' /\ PassInv' /\ Pending' \subseteq Pending
    BY <1>1, Advanced, PassAdvances, PendingAdvances DEF SafeInv, Destroy
  <1>5. ConfigInv' /\ FilesInv' /\ DiskInv' /\ BoundsInv'
    BY DEF SafeInv, Destroy, ConfigInv, FilesInv, writing, DiskInv, BoundsInv, bounds, Own
  <1> QED  BY <1>3, <1>4, <1>5, CapShrinks DEF SafeInv

\* A rewrite has a place, and makes of it what it should.
LEMMA AtRewrite ==
  ASSUME SafeInv, NEW p \in Workers, Rewrites(p)
  PROVE  /\ Busy(p) /\ job[p].t \in Targets /\ Place(p) \in Dirs
         /\ \E s \in SpecsOf[job[p].t] : Place(p) = s.dir
         /\ AtStep(p, "ensure") => job[p].spec \in SpecsOf[job[p].t] /\ job[p].spec # Absent
         /\ \A d : DirOK(d) => DirOK(Rewritten(p, d)) /\ Touched(p, d) \subseteq Everything
  <1>1. CASE AtStep(p, "ensure")
    <2>1. Busy(p) /\ job[p].t \in Targets /\ job[p].spec \in Specs(job[p].t) /\ job[p].spec # Absent
      BY <1>1, AtCall DEF SafeInv, JobOK
    <2>2. job[p].spec \in SpecsOf[job[p].t] /\ job[p].spec.dir \in Dirs /\ job[p].spec.runtime \in Runtimes
      BY <2>1, SpecsFacts
    <2>3. \A d : DirOK(d) => DirOK(Rewritten(p, d))
      BY <1>1, <2>1, DirsKeep DEF Rewritten
    <2>4. \A d : Touched(p, d) \subseteq Everything
      BY <1>1, <2>2 DEF Touched, EnsureTouches, Sectioned, Everything
    <2> QED  BY <1>1, <2>1, <2>2, <2>3, <2>4 DEF Place
  <1>2. CASE ~AtStep(p, "ensure")
    <2>1. PICK c \in {"wipe", "unlink"} : AtStep(p, c)
      BY <1>2 DEF Rewrites
    <2>2. /\ Busy(p) /\ job[p].t \in Targets /\ JobOK(job[p])
          /\ 1 \in 1 .. Len(job[p].steps) /\ job[p].steps[1] = c
      BY <2>1, AtCall DEF SafeInv
    <2>3. \E s \in SpecsOf[job[p].t] : job[p].wipe = s.dir
      BY <2>2 DEF JobOK
    <2>4. job[p].wipe \in Dirs
      BY <2>2, <2>3, TargetsAssumption
    <2>5. \A d : DirOK(d) => DirOK(Rewritten(p, d))
      BY <1>2, <2>2, DirsKeep DEF Rewritten
    <2>6. \A d : Touched(p, d) \subseteq Everything
      BY <1>2 DEF Touched, CleanupTouches, CleanupOrchestratorTouches, Entries, Sectioned, Everything
    <2> QED  BY <1>2, <2>2, <2>3, <2>4, <2>5, <2>6 DEF Place
  <1> QED  BY <1>1, <1>2

LEMMA HomesKeep ==
  ASSUME SafeInv, NEW p \in Workers, Rewrites(p)
  PROVE  HomesAfter(p) \subseteq Targets \X Dirs
  BY AtRewrite DEF SafeInv, FilesInv, HomesAfter

LEMMA ReadKeeps ==
  ASSUME SafeInv, NEW p \in Workers, ReadFiles(p)
  PROVE  SafeInv'
  <1> DEFINE d == Place(p)
             x == [at |-> "read", new |-> Rewritten(p, files[d]), touched |-> Touched(p, files[d])]
  <1>1. Rewrites(p) /\ d \in Dirs /\ DirOK(files[d])
    BY AtRewrite DEF ReadFiles, SafeInv, FilesInv
  <1>2. DraftOK(x)
    BY <1>1, AtRewrite DEF DraftOK
  <1>3. draft' = [draft EXCEPT ![p] = x] /\ lossy' \subseteq lossy \cup {d}
    BY DEF ReadFiles, LossyIf
  <1>4. FilesInv'
    <2>1. files' = files /\ homes' = homes
      BY DEF ReadFiles
    <2> HIDE DEF x, d
    <2> QED  BY <1>1, <1>2, <1>3, <2>1 DEF SafeInv, FilesInv
  <1>5. JobsInv' /\ Pending' = Pending
    BY DEF SafeInv, ReadFiles, JobsInv, Pending
  <1>6. PassInv'
    BY PassSame DEF SafeInv, ReadFiles
  <1>7. ConfigInv' /\ SessionInv' /\ DiskInv' /\ BoundsInv' /\ Made' = Made
    BY DEF SafeInv, ReadFiles, ConfigInv, SessionInv, Live, Made, DiskInv, BoundsInv, bounds, Own
  <1> QED  BY <1>4, <1>5, <1>6, <1>7, CapShrinks DEF SafeInv

LEMMA OpenKeeps ==
  ASSUME SafeInv, NEW p \in Workers, OpenFiles(p)
  PROVE  SafeInv'
  <1> DEFINE d == Place(p)
             new == Emptied(files[d], draft[p].new, draft[p].touched)
             x == [draft[p] EXCEPT !.at = "open"]
  <1>1. Rewrites(p) /\ d \in Dirs /\ DirOK(files[d]) /\ DraftOK(draft[p]) /\ draft[p].at = "read"
    BY AtRewrite DEF OpenFiles, SafeInv, FilesInv
  <1>2. DirOK(new) /\ DraftOK(x)
    BY <1>1, EmptiedKeeps DEF DraftOK
  <1>3. /\ draft' = [draft EXCEPT ![p] = x] /\ lossy' \subseteq lossy \cup {d}
        /\ files' = [files EXCEPT ![d] = new] /\ homes' = homes
    BY DEF OpenFiles, LossyIf
  <1>4. FilesInv'
    <2> HIDE DEF x, d, new
    <2> QED  BY <1>1, <1>2, <1>3 DEF SafeInv, FilesInv
  <1>5. JobsInv' /\ Pending' = Pending
    BY DEF SafeInv, OpenFiles, JobsInv, Pending
  <1>6. PassInv'
    BY PassSame DEF SafeInv, OpenFiles
  <1>7. ConfigInv' /\ SessionInv' /\ DiskInv' /\ BoundsInv' /\ Made' = Made
    BY DEF SafeInv, OpenFiles, ConfigInv, SessionInv, Live, Made, DiskInv, BoundsInv, bounds, Own
  <1> QED  BY <1>4, <1>5, <1>6, <1>7, CapShrinks DEF SafeInv

LEMMA NoDraftOK == DraftOK(NoDraft) /\ NoDraft.at = "none"
  BY DEF DraftOK, NoDraft

LEMMA WriteKeeps ==
  ASSUME SafeInv, NEW p \in Workers, WriteFiles(p)
  PROVE  SafeInv'
  <1> DEFINE d == Place(p)
  <1>1. Rewrites(p) /\ Busy(p) /\ d \in Dirs /\ DirOK(files[d]) /\ DirOK(draft[p].new)
    BY AtRewrite DEF WriteFiles, SafeInv, FilesInv, DraftOK
  <1>2. PICK new \in Written(files[d], draft[p].new, draft[p].touched) :
          files' = [files EXCEPT ![d] = new]
    BY DEF WriteFiles
  <1>3. DirOK(new)
    BY <1>1, <1>2, WrittenKeeps
  <1>4. FilesInv'
    <2>1. draft' = [draft EXCEPT ![p] = NoDraft] /\ lossy' = lossy /\ homes' \subseteq Targets \X Dirs
      BY <1>1, HomesKeep DEF WriteFiles
    <2> HIDE DEF d
    <2> QED  BY <1>1, <1>2, <1>3, <2>1, NoDraftOK DEF SafeInv, FilesInv
  <1>5. JobsInv' /\ PassInv' /\ Pending' \subseteq Pending
    BY <1>1, Advanced, PassAdvances, PendingAdvances DEF SafeInv, WriteFiles
  <1>6. ConfigInv' /\ SessionInv' /\ DiskInv' /\ BoundsInv' /\ Made' = Made
    BY DEF SafeInv, WriteFiles, ConfigInv, SessionInv, Live, Made, DiskInv, BoundsInv, bounds, Own
  <1> QED  BY <1>4, <1>5, <1>6, CapShrinks DEF SafeInv

\* What a rewrite that fails leaves of its directory.
LEMMA FailedWrite ==
  ASSUME NEW p, RewriteFails(p)
  PROVE  \E done \in SUBSET draft[p].touched :
           \E now \in {files[Place(p)], Emptied(files[Place(p)], draft[p].new, done)} :
              \E dir \in Written(now, draft[p].new, done) :
                 /\ files' = [files EXCEPT ![Place(p)] = dir]
                 /\ draft[p].at = "open" => now = files[Place(p)]
                 /\ draft[p].at = "read" => now = Emptied(files[Place(p)], draft[p].new, done)
  BY DEF RewriteFails

LEMMA RewriteFailsKeeps ==
  ASSUME SafeInv, NEW p \in Workers, RewriteFails(p)
  PROVE  SafeInv'
  <1> DEFINE d == Place(p)
  <1>1. Rewrites(p) /\ Busy(p) /\ d \in Dirs /\ DirOK(files[d]) /\ DirOK(draft[p].new)
    BY AtRewrite DEF RewriteFails, SafeInv, FilesInv, DraftOK
  <1>2. PICK new : files' = [files EXCEPT ![d] = new] /\ DirOK(new)
    BY <1>1, FailedWrite, EmptiedKeeps, WrittenKeeps
  <1>3. FilesInv'
    <2>1. /\ draft' = [draft EXCEPT ![p] = NoDraft] /\ lossy' \subseteq lossy \cup {d}
          /\ homes' = homes \/ homes' = HomesAfter(p)
      BY DEF RewriteFails, LossyIf
    <2>2. homes' \subseteq Targets \X Dirs
      BY <1>1, <2>1, HomesKeep DEF SafeInv, FilesInv
    <2> HIDE DEF d
    <2> QED  BY <1>1, <1>2, <2>1, <2>2, NoDraftOK DEF SafeInv, FilesInv
  <1>4. JobsInv' /\ PassInv' /\ Pending' \subseteq Pending
    BY Abandoned, PassFails, PendingAbandoned DEF SafeInv, RewriteFails, Fails
  <1>5. ConfigInv' /\ SessionInv' /\ DiskInv' /\ Made' = Made
    BY DEF SafeInv, RewriteFails, ConfigInv, SessionInv, Live, Made, DiskInv, Own
  <1>6. BoundsInv'
    BY TargetsAssumption DEF SafeInv, RewriteFails, Upset, BoundsInv
  <1> QED  BY <1>3, <1>4, <1>5, <1>6, CapShrinks DEF SafeInv

LEMMA WakeKeeps ==
  ASSUME SafeInv, NEW p \in Workers, WakeWorkspace(p)
  PROVE  SafeInv'
  <1> DEFINE t == job[p].t
  <1>1. Busy(p) /\ t \in Targets
    BY AtCall DEF SafeInv, WakeWorkspace
  <1>2. session' = [session EXCEPT ![t] = IF session[t].st = "idle"
                                          THEN [session[t] EXCEPT !.st = "held"] ELSE session[t]]
    BY DEF WakeWorkspace
  <1>3. SessionInv' /\ Made' \subseteq Made
    BY <1>1, <1>2 DEF SafeInv, SessionInv, Sessions, States, Live, Made
  <1>4. JobsInv' /\ PassInv' /\ Pending' \subseteq Pending
    BY <1>1, Advanced, PassAdvances, PendingAdvances DEF SafeInv, WakeWorkspace
  <1>5. ConfigInv' /\ FilesInv' /\ DiskInv' /\ BoundsInv'
    BY DEF SafeInv, WakeWorkspace, ConfigInv, FilesInv, writing, DiskInv, BoundsInv, bounds, Own
  <1> QED  BY <1>3, <1>4, <1>5, CapShrinks DEF SafeInv

LEMMA CallFailsKeeps ==
  ASSUME SafeInv, NEW p \in Workers, CallFails(p)
  PROVE  SafeInv'
  <1>1. JobsInv' /\ PassInv' /\ Pending' \subseteq Pending
    BY Abandoned, PassFails, PendingAbandoned DEF SafeInv, CallFails, Fails
  <1>2. ConfigInv' /\ FilesInv' /\ SessionInv' /\ DiskInv' /\ Made' = Made
    BY DEF SafeInv, CallFails, ConfigInv, FilesInv, writing, SessionInv, Live, Made, DiskInv, Own
  <1>3. BoundsInv'
    BY TargetsAssumption DEF SafeInv, CallFails, Upset, BoundsInv
  <1> QED  BY <1>1, <1>2, <1>3, CapShrinks DEF SafeInv

\* Once its session is made, a job has no other to make.
LEMMA CreatesOnce ==
  ASSUME JobsInv, NEW p \in Workers, AtStep(p, "create"), Advance(p)
  PROVE  Pending' \subseteq Pending \ {p}
  <1>1. \A q \in Procs : q \in Workers
    BY DEF Workers
  <1>2. Busy(p) /\ job[p] \in Jobs /\ JobOK(job[p]) /\ job[p].steps[1] = "create"
        /\ 1 \in 1 .. Len(job[p].steps)
    BY AtCall
  <1>3. ASSUME job'[p].steps # <<>>, NEW i \in 1 .. Len(job'[p].steps)
        PROVE  job'[p].steps[i] = "wake"
    <2>1. job'[p].steps = Tail(job[p].steps) /\ Len(job[p].steps) # 1
      BY <1>2, <1>3, Advanced DEF Jobs
    <2>2. job[p].steps \in Seq(CallNames) /\ \A k \in 2 .. Len(job[p].steps) : job[p].steps[k] = "wake"
      BY <1>2 DEF JobOK, Fit
    <2> QED  BY <1>3, <2>1, <2>2
  <1>4. JobOK(job'[p])
    BY <1>2, Advanced DEF JobsInv
  <1>5. job'[p].steps \in Seq(CallNames)
    BY <1>4 DEF JobOK, Fit
  <1>6. "create" \notin Range(job'[p].steps)
    BY <1>3, <1>5 DEF Range
  <1> QED  BY <1>1, <1>2, <1>6, Advanced DEF Pending

LEMMA CreateKeeps ==
  ASSUME SafeInv, NEW p \in Workers, CreateInner(p)
  PROVE  SafeInv'
  <1> DEFINE t == job[p].t
  <1>1. /\ Busy(p) /\ t \in Targets /\ job[p] \in Jobs /\ job[p].spec \in Specs(t)
        /\ job[p].by # "none" /\ "create" \in Range(job[p].steps)
    BY AtCall DEF SafeInv, CreateInner, JobOK, Fit
  <1>2. ConfigInv' /\ FilesInv' /\ DiskInv' /\ BoundsInv'
    BY DEF SafeInv, CreateInner, ConfigInv, FilesInv, writing, DiskInv, BoundsInv, bounds, Own
  <1>3. CASE Live(t)
    <2>1. session' = session /\ SessionInv' /\ Made' = Made
      BY <1>3 DEF SafeInv, CreateInner, SessionInv, Live, Made
    <2>2. JobsInv' /\ PassInv' /\ Pending' \subseteq Pending
      <3>1. CASE t \notin Orchestrators
        BY <1>3, <3>1, Abandoned, PassFails, PendingAbandoned DEF SafeInv, CreateInner, Fails
      <3>2. CASE t \in Orchestrators
        BY <1>1, <1>3, <3>2, Advanced, PassAdvances, PendingAdvances DEF SafeInv, CreateInner
      <3> QED  BY <3>1, <3>2
    <2> QED  BY <1>2, <2>1, <2>2, CapShrinks DEF SafeInv
  <1>4. CASE ~Live(t)
    <2> DEFINE new == [st |-> "idle", spec |-> job[p].spec, by |-> job[p].by]
    <2>1. session' = [session EXCEPT ![t] = new] /\ Advance(p) /\ pass' = pass
      BY <1>4 DEF CreateInner
    <2>2. JobsInv' /\ PassInv' /\ Pending' \subseteq Pending \ {p}
      BY <1>1, <2>1, Advanced, PassAdvances, CreatesOnce DEF SafeInv, CreateInner
    <2>3. new \in Sessions /\ new.spec \in Specs(t) /\ new.by # "none" /\ new.st # "none"
      BY <1>1 DEF Sessions, Jobs, States
    <2>4. SessionInv'
      BY <1>1, <2>1, <2>3 DEF SafeInv, SessionInv, Live
    <2>5. t \notin Made
      BY <1>4 DEF SafeInv, SessionInv, Made
    <2>6. CASE job[p].by = "checked"
      <3>1. p \in Procs
        BY <2>6 DEF SafeInv, PassInv, Workers
      <3>2. p \in Pending
        BY <1>1, <2>6, <3>1 DEF Pending
      <3>3. Made' = Made \cup {t}
        BY <1>1, <2>1, <2>6 DEF SafeInv, SessionInv, Made
      <3>4. SpawnsWithinCap'
        BY <1>1, <2>2, <2>5, <3>2, <3>3, CapMoves DEF SafeInv
      <3> QED  BY <1>2, <2>2, <2>4, <3>4 DEF SafeInv
    <2>7. CASE job[p].by # "checked"
      <3>1. Made' \subseteq Made
        BY <1>1, <2>1, <2>7 DEF SafeInv, SessionInv, Made
      <3> QED  BY <1>2, <2>2, <2>4, <3>1, CapShrinks DEF SafeInv
    <2> QED  BY <2>6, <2>7
  <1> QED  BY <1>3, <1>4

LEMMA CallsKeep ==
  ASSUME SafeInv, NEW p \in Workers, Calls(p)
  PROVE  SafeInv'
  BY DestroyKeeps, ReadKeeps, OpenKeeps, WriteKeeps, CreateKeeps, WakeKeeps, CallFailsKeeps,
     RewriteFailsKeeps DEF Calls

-----------------------------------------------------------------------------
(* Lifecycle control, dispatch and refresh *)

\* The calls that need a configuration.
Bound(steps) == \E i \in 1 .. Len(steps) :
                  steps[i] \in {"ensure", "create", "decide", "wipe", "unlink"}

LEMMA Programs ==
  ASSUME NEW by \in Owners \ {"none"}
  PROVE  /\ Fit(<<"ensure", "create">>, by) /\ Fit(<<"ensure">>, by)
         /\ Fit(Recreate, by) /\ Fit(<<"destroy", "unlink", "ensure", "create">>, by)
         /\ Fit(<<"destroy">>, "none") /\ Fit(<<"destroy", "wipe">>, "none")
         /\ Fit(<<"destroy", "unlink">>, "none")
         /\ Fit(<<"destroy", "wipe">>, by)
         /\ Fit(<<"ensure", "decide">>, "refresh")
         /\ Fit(<<"wake">>, by) /\ Fit(<<"ensure", "create", "wake">>, by)
         /\ Fit(<<"destroy", "wipe", "ensure", "create", "wake">>, by)
         /\ Fit(<<"destroy", "wipe", "ensure">>, by)
         /\ Fit(<<"destroy", "ensure">>, by) /\ Fit(<<"destroy", "ensure", "create">>, by)
  BY DEF Fit, CallNames, Recreate

LEMMA JoinLast ==
  ASSUME NEW a \in Seq(CallNames), NEW x \in CallNames, NEW c \in Seq(CallNames),
         Len(c) = Len(a) + 1, c[Len(a) + 1] = x, \A i \in 1 .. Len(a) : c[i] = a[i]
  PROVE  a \o <<x>> = c
  <1>1. a \o <<x>> \in Seq(CallNames) /\ Len(a \o <<x>>) = Len(c)
    OBVIOUS
  <1>2. \A i \in 1 .. Len(c) : (a \o <<x>>)[i] = c[i]
    OBVIOUS
  <1> QED  BY <1>1, <1>2

LEMMA Joined ==
  /\ <<>> \o <<"wake">> = <<"wake">>
  /\ <<"ensure", "create">> \o <<"wake">> = <<"ensure", "create", "wake">>
  /\ Recreate \o <<"wake">> = <<"destroy", "wipe", "ensure", "create", "wake">>
  /\ <<"destroy", "ensure">> \o <<"create">> = <<"destroy", "ensure", "create">>
  /\ <<"destroy", "ensure">> \o <<>> = <<"destroy", "ensure">>
  /\ <<"ensure">> \o <<>> = <<"ensure">>
  /\ <<"ensure">> \o <<"create">> = <<"ensure", "create">>
  /\ <<"destroy", "wipe", "ensure">> \o <<>> = <<"destroy", "wipe", "ensure">>
  /\ <<"destroy", "wipe", "ensure">> \o <<"create">> = Recreate
  <1>0. CallNames = {"destroy", "wipe", "unlink", "ensure", "create", "decide", "wake"}
    BY DEF CallNames
  <1>1. <<>> \o <<"wake">> = <<"wake">>
    OBVIOUS
  <1>2. <<"ensure", "create">> \o <<"wake">> = <<"ensure", "create", "wake">>
    <2> DEFINE a == <<"ensure", "create">>  c == <<"ensure", "create", "wake">>
    <2>1. a \in Seq(CallNames) /\ Len(a) = 2 /\ a[1] = "ensure" /\ a[2] = "create"
      BY <1>0
    <2>2. c \in Seq(CallNames) /\ Len(c) = 3 /\ c[1] = "ensure" /\ c[2] = "create" /\ c[3] = "wake"
      BY <1>0
    <2> HIDE DEF a, c
    <2>3. /\ Len(c) = Len(a) + 1 /\ c[Len(a) + 1] = "wake" /\ "wake" \in CallNames
          /\ \A i \in 1 .. Len(a) : c[i] = a[i]
      BY <1>0, <2>1, <2>2
    <2>4. a \in Seq(CallNames) /\ c \in Seq(CallNames)
      BY <2>1, <2>2
    <2>5. a \o <<"wake">> = c
      BY <2>3, <2>4, JoinLast
    <2> QED  BY <2>5 DEF a, c
  <1>3. <<"destroy", "wipe", "ensure", "create">> \o <<"wake">> = <<"destroy", "wipe", "ensure", "create", "wake">>
    <2> DEFINE a == <<"destroy", "wipe", "ensure", "create">>  c == <<"destroy", "wipe", "ensure", "create", "wake">>
    <2>1. a \in Seq(CallNames) /\ Len(a) = 4 /\ a[1] = "destroy" /\ a[2] = "wipe" /\ a[3] = "ensure" /\ a[4] = "create"
      BY <1>0
    <2>2. c \in Seq(CallNames) /\ Len(c) = 5 /\ c[1] = "destroy" /\ c[2] = "wipe" /\ c[3] = "ensure" /\ c[4] = "create" /\ c[5] = "wake"
      BY <1>0
    <2> HIDE DEF a, c
    <2>3. /\ Len(c) = Len(a) + 1 /\ c[Len(a) + 1] = "wake" /\ "wake" \in CallNames
          /\ \A i \in 1 .. Len(a) : c[i] = a[i]
      BY <1>0, <2>1, <2>2
    <2>4. a \in Seq(CallNames) /\ c \in Seq(CallNames)
      BY <2>1, <2>2
    <2>5. a \o <<"wake">> = c
      BY <2>3, <2>4, JoinLast
    <2> QED  BY <2>5 DEF a, c
  <1>4. <<"destroy", "ensure">> \o <<"create">> = <<"destroy", "ensure", "create">>
    <2> DEFINE a == <<"destroy", "ensure">>  c == <<"destroy", "ensure", "create">>
    <2>1. a \in Seq(CallNames) /\ Len(a) = 2 /\ a[1] = "destroy" /\ a[2] = "ensure"
      BY <1>0
    <2>2. c \in Seq(CallNames) /\ Len(c) = 3 /\ c[1] = "destroy" /\ c[2] = "ensure" /\ c[3] = "create"
      BY <1>0
    <2> HIDE DEF a, c
    <2>3. /\ Len(c) = Len(a) + 1 /\ c[Len(a) + 1] = "create" /\ "create" \in CallNames
          /\ \A i \in 1 .. Len(a) : c[i] = a[i]
      BY <1>0, <2>1, <2>2
    <2>4. a \in Seq(CallNames) /\ c \in Seq(CallNames)
      BY <2>1, <2>2
    <2>5. a \o <<"create">> = c
      BY <2>3, <2>4, JoinLast
    <2> QED  BY <2>5 DEF a, c
  <1>5. <<"destroy", "ensure">> \o <<>> = <<"destroy", "ensure">>
    OBVIOUS
  <1>6. <<"ensure">> \o <<>> = <<"ensure">>
    OBVIOUS
  <1>7. <<"ensure">> \o <<"create">> = <<"ensure", "create">>
    <2> DEFINE a == <<"ensure">>  c == <<"ensure", "create">>
    <2>1. a \in Seq(CallNames) /\ Len(a) = 1 /\ a[1] = "ensure"
      BY <1>0
    <2>2. c \in Seq(CallNames) /\ Len(c) = 2 /\ c[1] = "ensure" /\ c[2] = "create"
      BY <1>0
    <2> HIDE DEF a, c
    <2>3. /\ Len(c) = Len(a) + 1 /\ c[Len(a) + 1] = "create" /\ "create" \in CallNames
          /\ \A i \in 1 .. Len(a) : c[i] = a[i]
      BY <1>0, <2>1, <2>2
    <2>4. a \in Seq(CallNames) /\ c \in Seq(CallNames)
      BY <2>1, <2>2
    <2>5. a \o <<"create">> = c
      BY <2>3, <2>4, JoinLast
    <2> QED  BY <2>5 DEF a, c
  <1>8. <<"destroy", "wipe", "ensure">> \o <<>> = <<"destroy", "wipe", "ensure">>
    OBVIOUS
  <1>9. <<"destroy", "wipe", "ensure">> \o <<"create">> = <<"destroy", "wipe", "ensure", "create">>
    <2> DEFINE a == <<"destroy", "wipe", "ensure">>  c == <<"destroy", "wipe", "ensure", "create">>
    <2>1. a \in Seq(CallNames) /\ Len(a) = 3 /\ a[1] = "destroy" /\ a[2] = "wipe" /\ a[3] = "ensure"
      BY <1>0
    <2>2. c \in Seq(CallNames) /\ Len(c) = 4 /\ c[1] = "destroy" /\ c[2] = "wipe" /\ c[3] = "ensure" /\ c[4] = "create"
      BY <1>0
    <2> HIDE DEF a, c
    <2>3. /\ Len(c) = Len(a) + 1 /\ c[Len(a) + 1] = "create" /\ "create" \in CallNames
          /\ \A i \in 1 .. Len(a) : c[i] = a[i]
      BY <1>0, <2>1, <2>2
    <2>4. a \in Seq(CallNames) /\ c \in Seq(CallNames)
      BY <2>1, <2>2
    <2>5. a \o <<"create">> = c
      BY <2>3, <2>4, JoinLast
    <2> QED  BY <2>5 DEF a, c
  <1> QED  BY <1>1, <1>2, <1>3, <1>4, <1>5, <1>6, <1>7, <1>8, <1>9 DEF Recreate

LEMMA BeginKeeps ==
  ASSUME SafeInv, NEW p \in Procs, NEW t \in Targets, NEW steps, NEW by \in Owners,
         Begin(p, t, steps, by), Fit(steps, by),
         Configured(t) \/ ~Bound(steps),
         by = "checked" => EnforceCapacityCap
  PROVE  SafeInv'
  <1> DEFINE j == [t |-> t, steps |-> steps, spec |-> config[t],
                   wipe |-> IF Configured(t) THEN config[t].dir ELSE NoOne, by |-> by]
  <1>1. p \in Workers /\ p # Reconciler /\ job' = [job EXCEPT ![p] = j] /\ job \in [Workers -> Jobs]
    BY TargetsAssumption DEF Workers, Begin, SafeInv, JobsInv
  <1>2. config[t] \in Specs(t)
    BY DEF SafeInv, ConfigInv, Own
  <1>3. Configured(t) => config[t] \in SpecsOf[t] /\ config[t].dir \in Dirs
    BY <1>2, SpecsFacts DEF Configured
  <1>4. j \in Jobs
    BY <1>2, <1>3, SpecsFacts DEF Jobs, Fit
  <1>5. JobOK(j)
    <2>1. ASSUME NEW i \in 1 .. Len(steps)
          PROVE  /\ steps[i] \in {"ensure", "create", "decide"} => j.spec # Absent
                 /\ steps[i] \in {"wipe", "unlink", "decide"} => \E s \in SpecsOf[t] : j.wipe = s.dir
      BY <1>3, <2>1 DEF Bound, Configured
    <2> QED  BY <1>2, <1>4, <2>1 DEF JobOK
  <1>6. job'[p] = j /\ \A q \in Workers \ {p} : job'[q] = job[q]
    BY <1>1
  <1>7. JobsInv'
    BY <1>1, <1>4, <1>5, <1>6 DEF SafeInv, JobsInv
  <1>8. PassInv'
    BY <1>1, <1>6, PassSame DEF SafeInv, Begin, Workers
  <1>9. ConfigInv' /\ FilesInv' /\ SessionInv' /\ DiskInv' /\ Made' = Made
    BY DEF SafeInv, Begin, ConfigInv, FilesInv, writing, SessionInv, Live, Made, DiskInv, Own
  <1>10. BoundsInv'
    BY TargetsAssumption DEF SafeInv, Begin, Call, BoundsInv
  <1>11. SpawnsWithinCap'
    <2>1. CASE by = "checked"
      BY <2>1, CapChecked DEF SafeInv, Begin
    <2>2. CASE by # "checked"
      <3>1. \A q \in Procs : q \in Workers
        BY DEF Workers
      <3>2. Pending' \subseteq Pending
        BY <1>6, <2>2, <3>1 DEF Pending
      <3> QED  BY <1>9, <3>2, CapShrinks DEF SafeInv
    <2> QED  BY <2>1, <2>2
  <1> QED  BY <1>7, <1>8, <1>9, <1>10, <1>11 DEF SafeInv

LEMMA DisabledRootKeeps ==
  ASSUME SafeInv, NEW p \in Procs, RefreshDisabledRoot(p)
  PROVE  SafeInv'
  <1>0. PICK s \in SpecsOf[Root] :
          job' = [job EXCEPT ![p] = [t |-> Root, steps |-> <<"destroy", "wipe">>,
                                     spec |-> Absent, wipe |-> s.dir, by |-> "none"]]
    BY DEF RefreshDisabledRoot
  <1> DEFINE j == [t |-> Root, steps |-> <<"destroy", "wipe">>,
                   spec |-> Absent, wipe |-> s.dir, by |-> "none"]
  <1>1. p \in Workers /\ p # Reconciler /\ job' = [job EXCEPT ![p] = j] /\ job \in [Workers -> Jobs]
    BY <1>0, TargetsAssumption DEF Workers, SafeInv, JobsInv
  <1>2. Root \in Targets /\ s.dir \in Dirs /\ Absent \in Specs(Root)
    BY TargetsAssumption DEF Specs
  <1>3. Fit(<<"destroy", "wipe">>, "none")
    BY Programs DEF Owners
  <1>4. j \in Jobs
    BY <1>2, <1>3 DEF Jobs, Fit, AnySpec, Owners
  <1>5. JobOK(j)
    BY <1>2, <1>3, <1>4 DEF JobOK
  <1>6. job'[p] = j /\ \A q \in Workers \ {p} : job'[q] = job[q]
    BY <1>1
  <1>7. JobsInv'
    BY <1>1, <1>4, <1>5, <1>6 DEF SafeInv, JobsInv
  <1>8. PassInv'
    BY <1>1, <1>6, PassSame DEF SafeInv, RefreshDisabledRoot, Workers
  <1>9. ConfigInv' /\ FilesInv' /\ SessionInv' /\ DiskInv' /\ Made' = Made
    BY DEF SafeInv, RefreshDisabledRoot, ConfigInv, FilesInv, writing, SessionInv, Live, Made, DiskInv, Own
  <1>10. BoundsInv'
    BY TargetsAssumption DEF SafeInv, RefreshDisabledRoot, Call, BoundsInv
  <1>11. Pending' \subseteq Pending
    <2>1. \A q \in Procs : q \in Workers
      BY DEF Workers
    <2> QED  BY <1>6, <2>1 DEF Pending
  <1> QED  BY <1>7, <1>8, <1>9, <1>10, <1>11, CapShrinks DEF SafeInv

LEMMA DispatchKeeps ==
  ASSUME SafeInv, NEW p \in Procs, NEW t \in Targets, NEW fresh \in BOOLEAN,
         DispatchRunnableWork(p, t, fresh)
  PROVE  SafeInv'
  <1> DEFINE by == IF Live(t) THEN "restart" ELSE "checked"
  <1>1. by \in Owners /\ by \in Owners \ {"none"}
    BY DEF Owners
  <1>2. CASE ~fresh /\ Live(t)
    <2>1. Begin(p, t, <<"wake">>, "restart")
      BY <1>2, Joined DEF DispatchRunnableWork
    <2>2. ~Bound(<<"wake">>)
      BY DEF Bound
    <2> QED  BY <2>1, <2>2, Programs, BeginKeeps DEF Owners
  <1>3. CASE ~fresh /\ ~Live(t)
    <2>1. Begin(p, t, <<"ensure", "create", "wake">>, "checked")
      BY <1>3, Joined DEF DispatchRunnableWork
    <2>2. Configured(t) /\ EnforceCapacityCap
      BY <1>3 DEF DispatchRunnableWork
    <2> QED  BY <2>1, <2>2, Programs, BeginKeeps DEF Owners
  <1>4. CASE fresh
    <2>1. Begin(p, t, <<"destroy", "wipe", "ensure", "create", "wake">>, by)
      BY <1>4, Joined DEF DispatchRunnableWork
    <2>2. Configured(t) /\ (by = "checked" => EnforceCapacityCap)
      BY <1>4 DEF DispatchRunnableWork
    <2> HIDE DEF by
    <2> QED  BY <1>1, <2>1, <2>2, Programs, BeginKeeps
  <1> QED  BY <1>2, <1>3, <1>4

LEMMA RefreshKeeps ==
  ASSUME SafeInv, NEW p \in Procs, NEW restart \in BOOLEAN, NEW startMissing \in BOOLEAN,
         NEW daemonRunning \in BOOLEAN, RefreshSession(p, restart, startMissing, daemonRunning)
  PROVE  SafeInv'
  <1>1. p \in Workers /\ p # Reconciler
    BY TargetsAssumption DEF Workers
  <1>2. /\ job[p] \in Jobs /\ JobOK(job[p]) /\ job[p].by = "refresh"
        /\ job[p].t \in Targets /\ job[p].spec \in SpecsOf[job[p].t]
        /\ \E s \in SpecsOf[job[p].t] : job[p].wipe = s.dir
    BY <1>1, AtCall, SpecsFacts DEF SafeInv, RefreshSession, JobOK, Fit
  <1>3. ConfigInv' /\ FilesInv' /\ SessionInv' /\ DiskInv' /\ BoundsInv' /\ Made' = Made
    BY DEF SafeInv, RefreshSession, ConfigInv, FilesInv, writing, SessionInv, Live, Made, DiskInv, BoundsInv,
           bounds, Own
  <1>4. ASSUME NEW steps, Then(p, steps), Fit(steps, "refresh")
        PROVE  SafeInv'
    <2> DEFINE k == [job[p] EXCEPT !.steps = steps]
    <2>1. job' = [job EXCEPT ![p] = k] /\ job \in [Workers -> Jobs]
      BY <1>4 DEF Then, SafeInv, JobsInv
    <2>2. k \in Jobs /\ k.steps = steps /\ k.by = "refresh" /\ k.t = job[p].t /\ k.spec = job[p].spec
          /\ k.wipe = job[p].wipe
      BY <1>2, <1>4 DEF Jobs, Fit
    <2>3. JobOK(k)
      BY <1>2, <1>4, <2>2, SpecsFacts DEF JobOK
    <2>4. job'[p] = k /\ \A q \in Workers \ {p} : job'[q] = job[q]
      BY <1>1, <2>1
    <2>5. JobsInv'
      BY <1>1, <2>1, <2>2, <2>3, <2>4 DEF SafeInv, JobsInv
    <2>6. PassInv'
      BY <1>1, <2>4, PassSame DEF SafeInv, RefreshSession, Workers
    <2>7. \A q \in Procs : q \in Workers
      BY DEF Workers
    <2>8. Pending' \subseteq Pending
      BY <2>2, <2>4, <2>7 DEF Pending
    <2> QED  BY <1>3, <2>5, <2>6, <2>8, CapShrinks DEF SafeInv
  <1>5. ASSUME Abandon(p)  PROVE SafeInv'
    <2>1. JobsInv' /\ Pending' \subseteq Pending /\ PassInv'
      BY <1>1, <1>5, Abandoned, PendingAbandoned, PassSame DEF SafeInv, RefreshSession, Workers
    <2> QED  BY <1>3, <2>1, CapShrinks DEF SafeInv
  <1>6. /\ Fit(<<"destroy", "unlink", "ensure", "create">>, "refresh")
        /\ Fit(<<"destroy", "ensure">> \o <<"create">>, "refresh")
        /\ Fit(<<"destroy", "ensure">> \o <<>>, "refresh") /\ Fit(<<"ensure", "create">>, "refresh")
    BY Programs, Joined DEF Owners
  <1> QED  BY <1>4, <1>5, <1>6 DEF RefreshSession

\* Whatever a process of the CLI or the daemon decides on.
LEMMA OperateKeeps ==
  ASSUME SafeInv, NEW p \in Procs, Operate(p)
  PROVE  SafeInv'
  <1>1. ASSUME NEW t \in Targets,
               StartNamed(p, t) \/ StopNamed(p, t) \/ RestartNamed(p, t) \/ Refresh(p, t)
               \/ AgentStart(p, t) \/ AgentStop(p, t) \/ AgentRestart(p, t)
        PROVE  SafeInv'
    <2>1. {"none", "checked", "restart", "agent", "refresh"} \subseteq Owners
      BY DEF Owners
    <2>2. CASE StartNamed(p, t)
      BY <2>1, <2>2, Programs, BeginKeeps DEF StartNamed
    <2>3. CASE StopNamed(p, t)
      BY <2>1, <2>3, Programs, BeginKeeps DEF StopNamed
    <2>4. CASE RestartNamed(p, t)
      BY <2>1, <2>4, Programs, BeginKeeps DEF RestartNamed
    <2>5. CASE Refresh(p, t)
      BY <2>1, <2>5, Programs, BeginKeeps DEF Refresh
    <2>6. CASE AgentStart(p, t)
      BY <2>1, <2>6, Programs, BeginKeeps DEF AgentStart, ResolveAgentLifecycleTarget
    <2>7. CASE AgentStop(p, t)
      BY <2>1, <2>7, Programs, BeginKeeps DEF AgentStop, ResolveAgentLifecycleTarget
    <2>8. CASE AgentRestart(p, t)
      BY <2>1, <2>8, Programs, BeginKeeps DEF AgentRestart, ResolveAgentLifecycleTarget
    <2> QED  BY <1>1, <2>2, <2>3, <2>4, <2>5, <2>6, <2>7, <2>8
  <1> QED  BY <1>1, DispatchKeeps, RefreshKeeps, DisabledRootKeeps DEF Operate

-----------------------------------------------------------------------------
(* The pass *)

LEMMA NextToOwn ==
  ASSUME NEW f, Own(f), NEW t \in Targets, NEW s \in Specs(t)
  PROVE  Own([f EXCEPT ![t] = s])
  BY SpecsFacts DEF Own, PerTarget

LEMMA ReconcileBeginKeeps ==
  ASSUME SafeInv, NEW running \in BOOLEAN, NEW disruptive \in BOOLEAN,
         ReconcileBegin(running, disruptive)
  PROVE  SafeInv'
  <1>1. JobsInv' /\ Pending' = Pending
    BY DEF SafeInv, ReconcileBegin, JobsInv, Pending
  <1>2. ConfigInv' /\ FilesInv' /\ SessionInv' /\ DiskInv' /\ Made' = Made
    BY DEF SafeInv, ReconcileBegin, ConfigInv, FilesInv, writing, SessionInv, Live, Made, DiskInv, Own
  <1>3. BoundsInv'
    BY TargetsAssumption DEF SafeInv, ReconcileBegin, Call, BoundsInv
  <1>4. /\ pass'.pc = "visit" /\ pass'.todo = Visits(config, disk.recs)
        /\ pass'.snap = [t \in Targets |-> session[t].st]
        /\ pass'.next = [t \in Targets |-> Absent] /\ pass'.prev = disk.recs /\ pass'.want = config
        /\ pass'.blocked = {} /\ pass'.changed = {}
    BY DEF ReconcileBegin
  <1>5. Own(pass'.next)
    BY <1>4, SpecsFacts DEF Own, PerTarget, AnySpec
  <1>6. Own(pass'.prev) /\ Own(pass'.want)
    BY <1>4 DEF SafeInv, ConfigInv, DiskInv
  <1>7. pass' \in Passes
    <2>1. [t \in Targets |-> session[t].st] \in [Targets -> States]
      BY DEF SafeInv, SessionInv, Sessions
    <2>2. Visits(config, disk.recs) \in SUBSET Targets
      BY DEF Visits
    <2>3. pass'.moved = (disk.sock # socket) /\ pass'.running = running
          /\ pass'.disruptive = disruptive /\ pass'.sock = socket
      BY DEF ReconcileBegin
    <2>4. config \in PerTarget /\ disk.recs \in PerTarget /\ [t \in Targets |-> Absent] \in PerTarget
          /\ socket \in Sockets
      BY <1>4, <1>5 DEF SafeInv, ConfigInv, DiskInv, Own
    <2> QED  BY <2>1, <2>2, <2>4 DEF ReconcileBegin, Passes
  <1>8. ~Busy(Reconciler) /\ job' = job
    BY DEF SafeInv, PassInv, ReconcileBegin
  <1>9. PassInv'
    BY <1>4, <1>5, <1>6, <1>7, <1>8 DEF SafeInv, PassInv, Busy, Visits
  <1> QED  BY <1>1, <1>2, <1>3, <1>9, CapShrinks DEF SafeInv

\* A target is taken up, and reported: it is not among those reported as blocked.
LEMMA VisitKeeps ==
  ASSUME SafeInv, NEW t \in Targets, Visiting(t), NEW steps, ReconcileJob(t, steps),
         Fit(steps, "pass"), NEW rec \in Specs(t), NEW differs, differs \in BOOLEAN,
         Report(t, rec, FALSE, differs),
         InPlace(t) \/ ~Blocked(t),
         Wanted(t) \/ steps = <<"destroy", "wipe">>, Wanted(t) \/ pass.prev[t] # Absent,
         InPlace(t) => \A i \in 1 .. Len(steps) : steps[i] # "destroy"
  PROVE  SafeInv'
  <1> DEFINE j == [t |-> t, steps |-> steps, spec |-> pass.want[t], by |-> "pass",
                   wipe |-> IF pass.prev[t] # Absent THEN pass.prev[t].dir ELSE pass.want[t].dir]
  <1>1. Reconciler \in Workers /\ job' = [job EXCEPT ![Reconciler] = j] /\ job \in [Workers -> Jobs]
    BY DEF Workers, ReconcileJob, SafeInv, JobsInv
  <1>2. pass \in Passes /\ Own(pass.next) /\ Own(pass.prev) /\ Own(pass.want) /\ pass.pc = "visit"
    BY NoPassOff DEF SafeInv, PassInv, Visiting
  <1>3. pass.want[t] \in Specs(t) /\ pass.prev[t] \in Specs(t)
    BY <1>2 DEF Own
  <1>4. \E s \in SpecsOf[t] : j.wipe = s.dir
    BY <1>3, SpecsFacts DEF Wanted
  <1>5. j \in Jobs
    BY <1>3, <1>4, SpecsFacts, TargetsAssumption DEF Jobs, Fit, Owners
  <1>6. JobOK(j)
    <2>1. ASSUME ~Wanted(t), NEW i \in 1 .. Len(steps)
          PROVE  steps[i] \in {"destroy", "wipe"}
      BY <2>1
    <2> QED  BY <1>3, <1>4, <1>5, <2>1 DEF JobOK, Wanted
  <1>7. job'[Reconciler] = j /\ \A q \in Workers \ {Reconciler} : job'[q] = job[q]
    BY <1>1
  <1>8. JobsInv'
    BY <1>1, <1>5, <1>6, <1>7 DEF SafeInv, JobsInv
  <1>9. Pending' = Pending
    <2>1. \A q \in Procs : q \in Workers \ {Reconciler}
      BY TargetsAssumption DEF Workers
    <2> QED  BY <1>7, <2>1 DEF Pending
  <1>10. /\ pass' \in Passes /\ pass'.pc = "visit" /\ pass'.prev = pass.prev /\ pass'.want = pass.want
         /\ pass'.snap = pass.snap /\ pass'.moved = pass.moved /\ pass'.disruptive = pass.disruptive
         /\ pass'.next = [pass.next EXCEPT ![t] = rec] /\ pass'.blocked = pass.blocked
         /\ pass'.todo \subseteq pass.todo
    <2>1. rec \in AnySpec /\ [pass.next EXCEPT ![t] = rec] \in PerTarget
      BY <1>2, SpecsFacts DEF Own, PerTarget
    <2> QED  BY <1>2, <2>1 DEF Report, Passes
  <1>11. Own(pass'.next)
    BY <1>2, <1>10, NextToOwn
  <1>12. \A u : (Blocked(u)' <=> Blocked(u)) /\ (InPlace(u)' <=> InPlace(u))
    BY <1>10 DEF Blocked, InPlace, Wanted, StateMatches
  <1>13. \A u \in pass'.blocked : Blocked(u)' /\ ~InPlace(u)' /\ pass'.next[u] = pass'.prev[u]
    <2>1. \A u \in pass.blocked : Blocked(u) /\ ~InPlace(u) /\ pass.next[u] = pass.prev[u]
      BY <1>2 DEF SafeInv, PassInv
    <2>2. t \notin pass.blocked
      BY <2>1
    <2>3. pass.next \in [Targets -> AnySpec]
      BY <1>2 DEF Own, PerTarget
    <2> QED  BY <1>10, <1>12, <2>1, <2>2, <2>3
  <1>14. \A i \in 1 .. Len(steps) : steps[i] = "destroy" => ~Blocked(t)
    OBVIOUS
  <1>15. PassInv'
    BY <1>2, <1>7, <1>10, <1>11, <1>12, <1>13, <1>14 DEF PassInv, SafeInv
  <1>16. /\ ConfigInv' /\ FilesInv' /\ SessionInv' /\ DiskInv' /\ BoundsInv' /\ Made' = Made
    BY DEF SafeInv, Visiting, ConfigInv, FilesInv, writing, SessionInv, Live, Made, DiskInv, BoundsInv, bounds, Own
  <1> QED  BY <1>8, <1>9, <1>15, <1>16, CapShrinks DEF SafeInv

LEMMA VisitBlockedKeeps ==
  ASSUME SafeInv, NEW t \in Targets, VisitBlocked(t)
  PROVE  SafeInv'
  <1>2. pass \in Passes /\ Own(pass.next) /\ Own(pass.prev) /\ Own(pass.want) /\ pass.pc = "visit"
    BY NoPassOff DEF SafeInv, PassInv, Visiting, VisitBlocked
  <1>3. pass.prev[t] \in Specs(t)
    BY <1>2 DEF Own
  <1>10. /\ pass' \in Passes /\ pass'.pc = "visit" /\ pass'.prev = pass.prev /\ pass'.want = pass.want
         /\ pass'.snap = pass.snap /\ pass'.moved = pass.moved /\ pass'.disruptive = pass.disruptive
         /\ pass'.next = [pass.next EXCEPT ![t] = pass.prev[t]] /\ pass'.blocked = pass.blocked \cup {t}
         /\ pass'.todo \subseteq pass.todo
    <2>1. [pass.next EXCEPT ![t] = pass.prev[t]] \in PerTarget
      BY <1>2, <1>3, SpecsFacts DEF Own, PerTarget
    <2> QED  BY <1>2, <2>1 DEF Report, Passes, VisitBlocked
  <1>11. Own(pass'.next)
    BY <1>2, <1>3, <1>10, NextToOwn
  <1>12. \A u : (Blocked(u)' <=> Blocked(u)) /\ (InPlace(u)' <=> InPlace(u))
    BY <1>10 DEF Blocked, InPlace, Wanted, StateMatches
  <1>13. \A u \in pass'.blocked : Blocked(u)' /\ ~InPlace(u)' /\ pass'.next[u] = pass'.prev[u]
    <2>1. \A u \in pass.blocked : Blocked(u) /\ ~InPlace(u) /\ pass.next[u] = pass.prev[u]
      BY <1>2 DEF SafeInv, PassInv
    <2>2. ~InPlace(t) /\ Blocked(t)
      BY DEF VisitBlocked
    <2>3. pass.next \in [Targets -> AnySpec] /\ pass.blocked \subseteq Targets
      BY <1>2 DEF Own, PerTarget, Passes
    <2> QED  BY <1>10, <1>12, <2>1, <2>2, <2>3
  <1>14. job' = job /\ ~Busy(Reconciler)
    BY DEF VisitBlocked, Visiting
  <1>15. PassInv'
    BY <1>2, <1>10, <1>11, <1>12, <1>13, <1>14 DEF PassInv, SafeInv, Busy
  <1>16. JobsInv' /\ Pending' = Pending
    BY <1>14 DEF SafeInv, JobsInv, Pending
  <1>17. /\ ConfigInv' /\ FilesInv' /\ SessionInv' /\ DiskInv' /\ BoundsInv' /\ Made' = Made
    BY DEF SafeInv, VisitBlocked, Visiting, ConfigInv, FilesInv, writing, SessionInv, Live, Made, DiskInv,
           BoundsInv, bounds, Own
  <1> QED  BY <1>15, <1>16, <1>17, CapShrinks DEF SafeInv

LEMMA CreateIfCases ==
  ASSUME NEW t, NEW missing
  PROVE  CreateIf(t, missing) = <<>> \/ CreateIf(t, missing) = <<"create">>
  BY DEF CreateIf

LEMMA PassPrograms ==
  /\ Fit(<<"ensure">>, "pass") /\ Fit(<<"ensure", "create">>, "pass")
  /\ Fit(<<"destroy", "wipe">>, "pass") /\ Fit(Recreate, "pass")
  /\ Fit(<<"destroy", "wipe", "ensure">>, "pass")
  BY Programs DEF Owners

LEMMA VisitsKeep ==
  ASSUME SafeInv, NEW t \in Targets, VisitMatching(t) \/ VisitChanged(t) \/ VisitRemoved(t)
  PROVE  SafeInv'
  <1>1. Visiting(t) /\ t \in pass.todo
    BY DEF VisitMatching, VisitChanged, VisitRemoved, Visiting
  <1>2. pass.want[t] \in Specs(t) /\ (Wanted(t) \/ pass.prev[t] # Absent)
    BY <1>1, NoPassOff DEF SafeInv, PassInv, Visiting, Own, Wanted
  <1>3. CASE VisitMatching(t)
    <2> DEFINE missing == pass.snap[t] = "none" \/ t \in Orchestrators
    <2>1. PICK steps \in {<<"ensure">>, <<"ensure", "create">>} : ReconcileJob(t, steps)
      BY <1>3, CreateIfCases, Joined DEF VisitMatching
    <2>2. Fit(steps, "pass") /\ \A i \in 1 .. Len(steps) : steps[i] # "destroy"
      BY PassPrograms
    <2>3. Report(t, pass.want[t], FALSE, FALSE) /\ InPlace(t) /\ Wanted(t)
      BY <1>3 DEF VisitMatching, InPlace
    <2>4. FALSE \in BOOLEAN
      OBVIOUS
    <2> QED  BY <1>1, <1>2, <2>1, <2>2, <2>3, <2>4, VisitKeeps
  <1>4. CASE VisitChanged(t)
    <2>1. PICK steps \in {<<"destroy", "wipe", "ensure">>, Recreate} : ReconcileJob(t, steps)
      BY <1>4, CreateIfCases, Joined DEF VisitChanged
    <2>2. Fit(steps, "pass")
      BY PassPrograms
    <2>3. Report(t, pass.want[t], FALSE, TRUE) /\ ~InPlace(t) /\ ~Blocked(t) /\ Wanted(t)
      BY <1>4 DEF VisitChanged
    <2>4. TRUE \in BOOLEAN
      OBVIOUS
    <2> QED  BY <1>1, <1>2, <2>1, <2>2, <2>3, <2>4, VisitKeeps
  <1>5. CASE VisitRemoved(t)
    <2>1. /\ ReconcileJob(t, <<"destroy", "wipe">>) /\ Fit(<<"destroy", "wipe">>, "pass")
          /\ Report(t, Absent, FALSE, TRUE) /\ ~InPlace(t) /\ ~Blocked(t) /\ Absent \in Specs(t)
      BY <1>5, PassPrograms, SpecsFacts DEF VisitRemoved, InPlace
    <2>4. TRUE \in BOOLEAN
      OBVIOUS
    <2> QED  BY <1>1, <1>2, <2>1, <2>4, VisitKeeps
  <1> QED  BY <1>3, <1>4, <1>5

\* The end of a pass, for better or worse.
LEMMA EndsKeep ==
  ASSUME SafeInv, SaveRuntimeState \/ ReconcileEnd \/ SaveFails
  PROVE  SafeInv'
  <1>1. JobsInv' /\ Pending' = Pending /\ ~Busy(Reconciler) /\ job' = job
    BY DEF SafeInv, SaveRuntimeState, ReconcileEnd, SaveFails, JobsInv, Pending, PassInv
  <1>2. ConfigInv' /\ FilesInv' /\ SessionInv' /\ Made' = Made
    BY DEF SafeInv, SaveRuntimeState, ReconcileEnd, SaveFails, ConfigInv, FilesInv, writing, SessionInv,
           Live, Made, Own
  <1>3. BoundsInv'
    BY TargetsAssumption DEF SafeInv, SaveRuntimeState, ReconcileEnd, SaveFails, Upset, BoundsInv, bounds
  <1>4. CASE SaveRuntimeState
    <2>1. pass \in Passes /\ Own(pass.next) /\ Own(pass.prev) /\ Own(pass.want) /\ pass.pc = "visit"
      BY <1>4, NoPassOff DEF SafeInv, PassInv, SaveRuntimeState
    <2>2. DiskInv'
      BY <1>4, <2>1 DEF SaveRuntimeState, DiskInv, Own, Passes
    <2>3. /\ pass' \in Passes /\ pass'.pc = "saved" /\ pass'.prev = pass.prev /\ pass'.want = pass.want
          /\ pass'.snap = pass.snap /\ pass'.moved = pass.moved /\ pass'.disruptive = pass.disruptive
          /\ pass'.next = pass.next /\ pass'.blocked = pass.blocked /\ pass'.todo = pass.todo
      BY <1>4, <2>1 DEF SaveRuntimeState, Passes
    <2>4. PassInv'
      BY <1>1, <2>1, <2>3 DEF SafeInv, PassInv, Busy, Blocked, InPlace, Wanted, StateMatches
    <2> QED  BY <1>1, <1>2, <1>3, <2>2, <2>4, CapShrinks DEF SafeInv
  <1>5. CASE ReconcileEnd \/ SaveFails
    <2>1. pass' = NoPass
      BY <1>5 DEF ReconcileEnd, SaveFails
    <2>2. PassInv'
      BY <1>1, <2>1, NoPassOff DEF SafeInv, PassInv, Busy
    <2>3. DiskInv'
      BY <1>5 DEF SafeInv, ReconcileEnd, SaveFails, DiskInv, Own
    <2> QED  BY <1>1, <1>2, <1>3, <2>2, <2>3, CapShrinks DEF SafeInv
  <1> QED  BY <1>4, <1>5

-----------------------------------------------------------------------------
(* Users and agents *)

LEMMA EditConfigKeeps ==
  ASSUME SafeInv, NEW t \in Targets, NEW spec \in Specs(t), EditConfig(t, spec)
  PROVE  SafeInv'
  <1>1. ConfigInv'
    BY NextToOwn DEF SafeInv, ConfigInv, EditConfig
  <1>2. FilesInv' /\ SessionInv' /\ DiskInv' /\ Made' = Made /\ Pending' = Pending /\ JobsInv'
    BY DEF SafeInv, EditConfig, FilesInv, writing, SessionInv, Live, Made, DiskInv, Own, Pending, JobsInv
  <1>3. BoundsInv'
    BY TargetsAssumption DEF SafeInv, EditConfig, Upset, BoundsInv
  <1>4. PassInv'
    BY PassSame DEF SafeInv, EditConfig
  <1> QED  BY <1>1, <1>2, <1>3, <1>4, CapShrinks DEF SafeInv

LEMMA MoveSocketKeeps ==
  ASSUME SafeInv, NEW sock \in Sockets, MoveSocket(sock)
  PROVE  SafeInv'
  <1>1. ConfigInv' /\ FilesInv' /\ SessionInv' /\ DiskInv' /\ Made' = Made /\ Pending' = Pending /\ JobsInv'
    BY DEF SafeInv, MoveSocket, ConfigInv, FilesInv, writing, SessionInv, Live, Made, DiskInv, Own, Pending,
           JobsInv
  <1>2. BoundsInv'
    BY TargetsAssumption DEF SafeInv, MoveSocket, Upset, BoundsInv
  <1>3. PassInv'
    BY PassSame DEF SafeInv, MoveSocket
  <1> QED  BY <1>1, <1>2, <1>3, CapShrinks DEF SafeInv

LEMMA EditFileKeeps ==
  ASSUME SafeInv, NEW d \in Dirs, NEW r \in Runtimes, EditFile(d, r)
  PROVE  SafeInv'
  <1> DEFINE f == files[d]
             text == [f.text EXCEPT ![r] = Append(f.text[r], User(2))]
             new == [f EXCEPT !.text = text]
  <1>1. files' = [files EXCEPT ![d] = new] /\ homes' = homes
    BY DEF EditFile
  <1>2. DirOK(f) /\ DOMAIN files = Dirs
    BY DEF SafeInv, FilesInv
  <1>3. DirOK(new)
    BY <1>2 DEF DirOK, IsDir
  <1>3a. draft' = draft /\ lossy' \subseteq lossy \cup {d}
    BY DEF EditFile, LossyIf
  <1>4. FilesInv'
    BY <1>1, <1>2, <1>3, <1>3a DEF SafeInv, FilesInv
  <1>5. ConfigInv' /\ SessionInv' /\ DiskInv' /\ Made' = Made /\ Pending' = Pending /\ JobsInv'
    BY DEF SafeInv, EditFile, ConfigInv, SessionInv, Live, Made, DiskInv, Own, Pending, JobsInv
  <1>6. BoundsInv'
    BY TargetsAssumption DEF SafeInv, EditFile, Upset, BoundsInv
  <1>7. PassInv'
    BY PassSame DEF SafeInv, EditFile
  <1> QED  BY <1>4, <1>5, <1>6, <1>7, CapShrinks DEF SafeInv

LEMMA SessionMovesKeeps ==
  ASSUME SafeInv, NEW t \in Targets, NEW st \in States, SessionMoves(t, st)
  PROVE  SafeInv'
  <1> DEFINE new == IF st = "none" THEN NoSession ELSE [session[t] EXCEPT !.st = st]
  <1>1. session' = [session EXCEPT ![t] = new]
    BY DEF SessionMoves
  <1>2. /\ new \in Sessions /\ new.spec \in Specs(t) /\ (new.st # "none" <=> new.by # "none")
        /\ (new.by = "checked" => session[t].by = "checked")
    BY NoSessionOK, SpecsFacts DEF SafeInv, SessionInv, Sessions, SessionMoves, Live
  <1>3. SessionInv' /\ Made' \subseteq Made
    BY <1>1, <1>2 DEF SafeInv, SessionInv, Live, Made
  <1>4. ConfigInv' /\ FilesInv' /\ DiskInv' /\ Pending' = Pending /\ JobsInv'
    BY DEF SafeInv, SessionMoves, ConfigInv, FilesInv, writing, DiskInv, Own, Pending, JobsInv
  <1>5. BoundsInv'
    BY TargetsAssumption DEF SafeInv, SessionMoves, Upset, BoundsInv
  <1>6. PassInv'
    BY PassSame DEF SafeInv, SessionMoves
  <1> QED  BY <1>3, <1>4, <1>5, <1>6, CapShrinks DEF SafeInv

-----------------------------------------------------------------------------
(* Sessions are safe *)

LEMMA SafeInit == Init => SafeInv
  <1> SUFFICES ASSUME Init  PROVE SafeInv
    OBVIOUS
  <1>1. ConfigInv
    BY TargetsAssumption DEF Init, ConfigInv, Own, PerTarget, AnySpec, Specs
  <1>2. FilesInv
    <2>1. DOMAIN files = Dirs /\ homes = {} /\ lossy = {} /\ draft = [p \in Workers |-> NoDraft]
      BY DEF Init
    <2>2. \A d \in Dirs : DirOK(files[d])
      BY DEF Init, DirOK, IsDir, McpFile, Shapes
    <2> QED  BY <2>1, <2>2, NoDraftOK DEF FilesInv
  <1>3. SessionInv
    BY NoSessionOK, SpecsFacts DEF Init, SessionInv, Live
  <1>4. DiskInv
    BY SpecsFacts DEF Init, DiskInv, Own, PerTarget, AnySpec
  <1>5. BoundsInv
    BY TargetsAssumption DEF Init, BoundsInv
  <1>6. JobsInv
    BY IdleOK DEF Init, JobsInv, Workers
  <1>7. Idle.steps = <<>> /\ Idle.by = "none" /\ Range(<<>>) = {}
    BY DEF Idle, Range
  <1>8. PassInv
    BY <1>7, NoPassOff DEF Init, PassInv, Busy, Workers
  <1>9. Made = {} /\ Pending = {}
    BY <1>7, NoSessionOK DEF Init, Made, Pending, Workers
  <1>10. SpawnsWithinCap
    <2>1. Cardinality({}) = 0
      BY FS_EmptySet
    <2>2. Cap # 0 => Within({}, {})
      BY <2>1, Counts DEF Within
    <2> QED  BY <1>9, <2>2, CapIsWithin
  <1> QED  BY <1>1, <1>2, <1>3, <1>4, <1>5, <1>6, <1>8, <1>10 DEF SafeInv

LEMMA SafeStep == SafeInv /\ [Next]_vars => SafeInv'
  <1> SUFFICES ASSUME SafeInv, [Next]_vars  PROVE SafeInv'
    OBVIOUS
  <1>1. CASE UNCHANGED vars
    <2>1. ConfigInv' /\ FilesInv' /\ SessionInv' /\ DiskInv' /\ BoundsInv' /\ JobsInv'
      BY <1>1 DEF SafeInv, vars, bounds, ConfigInv, FilesInv, writing, SessionInv, Live, DiskInv, Own, BoundsInv,
                  JobsInv
    <2>2. Made' = Made /\ Pending' = Pending
      BY <1>1 DEF vars, Made, Pending
    <2>3. PassInv'
      BY <1>1, PassSame DEF SafeInv, vars
    <2> QED  BY <2>1, <2>2, <2>3, CapShrinks DEF SafeInv
  <1>2. ASSUME NEW p \in Workers, Calls(p)  PROVE SafeInv'
    BY <1>2, CallsKeep
  <1>3. ASSUME NEW p \in Procs, Operate(p)  PROVE SafeInv'
    BY <1>3, OperateKeeps
  <1>4. ASSUME Reconcile  PROVE SafeInv'
    BY <1>4, ReconcileBeginKeeps, VisitsKeep, VisitBlockedKeeps, EndsKeep DEF Reconcile
  <1>5. ASSUME Environment  PROVE SafeInv'
    BY <1>5, EditConfigKeeps, MoveSocketKeeps, EditFileKeeps, SessionMovesKeeps DEF Environment
  <1> QED  BY <1>1, <1>2, <1>3, <1>4, <1>5 DEF Next, Workers

LEMMA SafeImplies == SafeInv => SessionsAreSafe
  <1> SUFFICES ASSUME SafeInv  PROVE SessionsAreSafe
    OBVIOUS
  <1>1. TypeOK
    <2>1. \A t \in Targets : config[t] \in Specs(t)
      BY DEF SafeInv, ConfigInv, Own
    <2>2. \A t \in Targets : disk.recs[t] \in Specs(t)
      BY DEF SafeInv, DiskInv, Own
    <2>3. pass.pc \in {"off", "visit", "saved"}
      BY NoPassOff DEF SafeInv, PassInv, Passes
    <2>4. ASSUME NEW p \in Workers
          PROVE  Range(job[p].steps) \subseteq CallNames
      BY DEF SafeInv, JobsInv, JobOK, Fit, Range
    <2> QED  BY <2>1, <2>2, <2>3, <2>4 DEF TypeOK, SafeInv, ConfigInv, FilesInv, DirOK, DraftOK, SessionInv, Sessions,
                DiskInv, BoundsInv, CallNames, Workers
  <1>2. WorkIsNotDisrupted
    <2> SUFFICES ASSUME pass.pc # "off", NEW t \in Targets, pass.snap[t] = "held"
                 PROVE  /\ job[Reconciler].t = t => "destroy" \notin Range(job[Reconciler].steps)
                        /\ t \in pass.blocked => pass.next[t] = pass.prev[t]
      BY DEF WorkIsNotDisrupted
    <2>1. Blocked(t)
      BY DEF Blocked
    <2>2. job[Reconciler].steps \in Seq(CallNames)
      BY DEF SafeInv, JobsInv, JobOK, Fit, Workers
    <2>3. job[Reconciler].t = t => "destroy" \notin Range(job[Reconciler].steps)
      BY <2>1, <2>2 DEF SafeInv, PassInv, Busy, Range
    <2> QED  BY <2>3 DEF SafeInv, PassInv
  <1> QED  BY <1>1, <1>2 DEF SafeInv, SessionsAreSafe

\* Sessions are safe from ax, in any number of passes, calls, failures and edits: a pass leaves
\* busy and attached sessions alone, and those made under the cap stay near it.
THEOREM SessionsHold == Spec => []SessionsAreSafe
  <1>1. Spec => []SafeInv
    BY SafeInit, SafeStep, PTL DEF Spec
  <1> QED  BY <1>1, SafeImplies, PTL

-----------------------------------------------------------------------------
(* The user's lines *)

Lines == {User(1), User(2)}
Tokens == {Start, End} \cup {Body(t) : t \in Targets} \cup Lines
Sections == {<<>>} \cup {Section(t) : t \in Targets}

LEMMA TokenFacts ==
  /\ Start # End /\ \A x \in Lines : x # Start /\ x # End
  /\ \A t \in Targets : Body(t) # Start /\ Body(t) # End
  /\ Lines \subseteq Tokens /\ Start \in Tokens /\ End \in Tokens
  /\ \A t \in Targets : Body(t) \in Tokens
  BY DEF Start, End, Body, User, Lines, Tokens

LEMMA SectionFacts ==
  ASSUME NEW t \in Targets
  PROVE  /\ Section(t) \in Seq(Tokens) /\ Len(Section(t)) = 3
         /\ Section(t)[1] = Start /\ Section(t)[2] = Body(t) /\ Section(t)[3] = End
  BY TokenFacts DEF Section

\* The file, place by place.
Pieces(file, lines, k, section) ==
  /\ file \in Seq(Tokens) /\ Len(file) = Len(lines) + Len(section)
  /\ \A i \in 1 .. k : file[i] = lines[i]
  /\ \A i \in 1 .. Len(section) : file[k + i] = section[i]
  /\ \A i \in k + 1 .. Len(lines) : file[Len(section) + i] = lines[i]

LEMMA Glue2 ==
  ASSUME NEW S, NEW a \in Seq(S), NEW b \in Seq(S)
  PROVE  /\ a \o b \in Seq(S) /\ Len(a \o b) = Len(a) + Len(b)
         /\ \A i \in 1 .. Len(a) : (a \o b)[i] = a[i]
         /\ \A i \in 1 .. Len(b) : (a \o b)[Len(a) + i] = b[i]
  OBVIOUS

LEMMA Glue ==
  ASSUME NEW S, NEW a \in Seq(S), NEW b \in Seq(S), NEW c \in Seq(S)
  PROVE  /\ a \o b \o c \in Seq(S)
         /\ Len(a \o b \o c) = Len(a) + Len(b) + Len(c)
         /\ \A i \in 1 .. Len(a) : (a \o b \o c)[i] = a[i]
         /\ \A i \in 1 .. Len(b) : (a \o b \o c)[Len(a) + i] = b[i]
         /\ \A i \in 1 .. Len(c) : (a \o b \o c)[Len(a) + Len(b) + i] = c[i]
  <1> DEFINE ab == a \o b
  <1>1. /\ ab \in Seq(S) /\ Len(ab) = Len(a) + Len(b)
        /\ \A i \in 1 .. Len(a) : ab[i] = a[i]
        /\ \A i \in 1 .. Len(b) : ab[Len(a) + i] = b[i]
    BY Glue2
  <1> HIDE DEF ab
  <1>1a. ab \in Seq(S)
    BY <1>1
  <1>2. /\ ab \o c \in Seq(S) /\ Len(ab \o c) = Len(ab) + Len(c)
        /\ \A i \in 1 .. Len(ab) : (ab \o c)[i] = ab[i]
        /\ \A i \in 1 .. Len(c) : (ab \o c)[Len(ab) + i] = c[i]
    BY <1>1a, Glue2
  <1>3. \A i \in 1 .. Len(a) : (ab \o c)[i] = a[i]
    BY <1>1, <1>2
  <1>4. \A i \in 1 .. Len(b) : (ab \o c)[Len(a) + i] = b[i]
    <2> TAKE i \in 1 .. Len(b)
    <2>1. Len(a) + i \in 1 .. Len(ab)
      BY <1>1
    <2> QED  BY <1>1, <1>2, <2>1
  <1> QED  BY <1>1, <1>2, <1>3, <1>4 DEF ab

LEMMA Cut ==
  ASSUME NEW S, NEW s \in Seq(S), NEW m \in Nat, NEW n \in Nat, m <= n + 1, 1 <= m, n <= Len(s)
  PROVE  /\ SubSeq(s, m, n) \in Seq(S) /\ Len(SubSeq(s, m, n)) = n - m + 1
         /\ \A i \in 1 .. n - m + 1 : SubSeq(s, m, n)[i] = s[m + i - 1]
  OBVIOUS

LEMMA GluedPieces ==
  ASSUME NEW lines \in Seq(Tokens), NEW k \in 0 .. Len(lines), NEW section \in Seq(Tokens)
  PROVE  Pieces(SubSeq(lines, 1, k) \o section \o SubSeq(lines, k + 1, Len(lines)), lines, k, section)
  <1> DEFINE a == SubSeq(lines, 1, k)
             c == SubSeq(lines, k + 1, Len(lines))
             f == a \o section \o c
  <1>1. /\ a \in Seq(Tokens) /\ Len(a) = k /\ \A i \in 1 .. k : a[i] = lines[i]
    BY Cut
  <1>2. /\ c \in Seq(Tokens) /\ Len(c) = Len(lines) - k
        /\ \A i \in 1 .. Len(lines) - k : c[i] = lines[k + i]
    BY Cut
  <1> HIDE DEF a, c
  <1>2a. a \in Seq(Tokens) /\ c \in Seq(Tokens)
    BY <1>1, <1>2
  <1>2b. /\ f \in Seq(Tokens) /\ Len(f) = Len(a) + Len(section) + Len(c)
         /\ \A i \in 1 .. Len(a) : f[i] = a[i]
         /\ \A i \in 1 .. Len(section) : f[Len(a) + i] = section[i]
         /\ \A i \in 1 .. Len(c) : f[Len(a) + Len(section) + i] = c[i]
    BY <1>2a, Glue
  <1> HIDE DEF f
  <1>3. /\ f \in Seq(Tokens) /\ Len(f) = k + Len(section) + (Len(lines) - k)
        /\ \A i \in 1 .. k : f[i] = a[i]
        /\ \A i \in 1 .. Len(section) : f[k + i] = section[i]
        /\ \A i \in 1 .. Len(lines) - k : f[k + Len(section) + i] = c[i]
    BY <1>1, <1>2, <1>2b
  <1>4. \A i \in k + 1 .. Len(lines) : f[Len(section) + i] = lines[i]
    <2> TAKE i \in k + 1 .. Len(lines)
    <2>1. i - k \in 1 .. Len(lines) - k /\ k + Len(section) + (i - k) = Len(section) + i /\ k + (i - k) = i
      OBVIOUS
    <2> QED  BY <1>2, <1>3, <2>1
  <1>5. Pieces(f, lines, k, section)
    BY <1>1, <1>3, <1>4 DEF Pieces
  <1> QED  BY <1>5 DEF f, a, c

LEMMA PiecesAre ==
  ASSUME NEW lines \in Seq(Tokens), NEW k \in 0 .. Len(lines), NEW section \in Seq(Tokens), NEW file, NEW other,
         Pieces(file, lines, k, section), Pieces(other, lines, k, section)
  PROVE  file = other
  <1>1. file \in Seq(Tokens) /\ other \in Seq(Tokens) /\ Len(file) = Len(other)
        /\ Len(file) = Len(lines) + Len(section)
    BY DEF Pieces
  <1>2. ASSUME NEW i \in 1 .. Len(file)  PROVE file[i] = other[i]
    <2>1. CASE i <= k
      BY <2>1 DEF Pieces
    <2>2. CASE i > k /\ i <= k + Len(section)
      <3>1. i - k \in 1 .. Len(section) /\ k + (i - k) = i
        BY <2>2
      <3> QED  BY <3>1 DEF Pieces
    <2>3. CASE i > k + Len(section)
      <3>1. i - Len(section) \in k + 1 .. Len(lines) /\ Len(section) + (i - Len(section)) = i
        BY <1>1, <2>3
      <3> QED  BY <3>1 DEF Pieces
    <2> QED  BY <2>1, <2>2, <2>3
  <1> QED  BY <1>1, <1>2, SeqEqual

LEMMA HoldsPieces ==
  ASSUME NEW lines \in Seq(Tokens), NEW file
  PROVE  HoldsLines(file, lines) <=> \E k \in 0 .. Len(lines) : \E section \in Sections :
                                        Pieces(file, lines, k, section)
  <1>1. Sections \subseteq Seq(Tokens)
    <2>1. <<>> \in Seq(Tokens)
      OBVIOUS
    <2> QED  BY <2>1, SectionFacts DEF Sections
  <1>2. ASSUME NEW k \in 0 .. Len(lines), NEW section \in Sections
        PROVE  file = SubSeq(lines, 1, k) \o section \o SubSeq(lines, k + 1, Len(lines))
               <=> Pieces(file, lines, k, section)
    <2>1. section \in Seq(Tokens)
      BY <1>1
    <2> DEFINE g == SubSeq(lines, 1, k) \o section \o SubSeq(lines, k + 1, Len(lines))
    <2>2. Pieces(g, lines, k, section)
      BY <2>1, GluedPieces
    <2> HIDE DEF g
    <2>3. Pieces(file, lines, k, section) => file = g
      BY <2>1, <2>2, PiecesAre
    <2>4. file = g <=> Pieces(file, lines, k, section)
      BY <2>2, <2>3
    <2> QED  BY <2>4 DEF g
  <1> QED  BY <1>2 DEF HoldsLines, Sections

\* Where the markers are found when the file holds a section.
LEMMA Markers ==
  ASSUME NEW lines \in Seq(Lines), NEW k \in 0 .. Len(lines), NEW u \in Targets, NEW file,
         Pieces(file, lines, k, Section(u))
  PROVE  /\ HasText(file, Start) /\ HasText(file, End)
         /\ Before(file) = SubSeq(file, 1, k)
         /\ After(file) = SubSeq(file, k + 4, Len(lines) + 3)
  <1>1. /\ file \in Seq(Tokens) /\ Len(file) = Len(lines) + 3 /\ Len(lines) \in Nat /\ k \in Nat
        /\ k <= Len(lines)
    <2>1. Len(Section(u)) = 3
      BY SectionFacts
    <2>2. file \in Seq(Tokens) /\ Len(file) = Len(lines) + 3
      BY <2>1 DEF Pieces
    <2> QED  BY <2>2
  <1>2. file[k + 1] = Start /\ file[k + 2] = Body(u) /\ file[k + 3] = End
    BY <1>1, SectionFacts DEF Pieces
  <1>3. ASSUME NEW i \in 1 .. Len(file), i \notin {k + 1, k + 2, k + 3}
        PROVE  file[i] \in Lines
    <2>1. CASE i <= k
      BY <1>1, <2>1 DEF Pieces
    <2>2. CASE i > k
      <3>1. i - 3 \in k + 1 .. Len(lines) /\ 3 + (i - 3) = i
        BY <1>1, <1>3, <2>2
      <3>2. file[i] = lines[i - 3]
        BY <3>1, SectionFacts DEF Pieces
      <3> QED  BY <1>1, <3>1, <3>2
    <2> QED  BY <1>1, <2>1, <2>2
  <1>4. \A i \in 1 .. Len(file) : (file[i] = Start <=> i = k + 1) /\ (file[i] = End <=> i = k + 3)
    BY <1>1, <1>2, <1>3, TokenFacts
  <1>5. k + 1 \in 1 .. Len(file) /\ k + 3 \in 1 .. Len(file)
    BY <1>1
  <1>6. HasText(file, Start) /\ HasText(file, End)
    BY <1>2, <1>5 DEF HasText
  <1>7. {i \in 1 .. Len(file) : file[i] = Start} = {k + 1} /\ {i \in 1 .. Len(file) : file[i] = End} = {k + 3}
    BY <1>4, <1>5
  <1>8. Min({k + 1}) = k + 1 /\ Min({k + 3}) = k + 3
    BY <1>1 DEF Min
  <1>9. SelectInSeq(file, LAMBDA x : x = Start) = k + 1 /\ SelectInSeq(file, LAMBDA x : x = End) = k + 3
    BY <1>7, <1>8 DEF SelectInSeq
  <1>10. Before(file) = SubSeq(file, 1, (k + 1) - 1) /\ After(file) = SubSeq(file, (k + 3) + 1, Len(file))
    BY <1>9 DEF Before, After
  <1> QED  BY <1>1, <1>6, <1>10

LEMMA Unmarked ==
  ASSUME NEW lines \in Seq(Lines)
  PROVE  ~HasText(lines, Start) /\ ~HasText(lines, End)
  BY TokenFacts DEF HasText

LEMMA LinesAreTokens == \A lines \in Seq(Lines) : lines \in Seq(Tokens)
  BY TokenFacts

\* The lines alone, and what the empty section leaves.
LEMMA BareLines ==
  ASSUME NEW lines \in Seq(Lines)
  PROVE  /\ HoldsLines(lines, lines)
         /\ \A file : \A k \in 0 .. Len(lines) : Pieces(file, lines, k, <<>>) => file = lines
  <1>1. lines \in Seq(Tokens) /\ <<>> \in Seq(Tokens) /\ <<>> \in Sections /\ Len(<<>>) = 0
    BY LinesAreTokens DEF Sections
  <1>2. \A k \in 0 .. Len(lines) : Pieces(lines, lines, k, <<>>)
    BY <1>1 DEF Pieces
  <1>3. 0 \in 0 .. Len(lines)
    BY <1>1
  <1>4. HoldsLines(lines, lines)
    BY <1>1, <1>2, <1>3, HoldsPieces
  <1> QED  BY <1>1, <1>2, <1>4, PiecesAre

\* Before and after the section there are the lines.
LEMMA Halves ==
  ASSUME NEW lines \in Seq(Lines), NEW k \in 0 .. Len(lines), NEW u \in Targets, NEW file,
         Pieces(file, lines, k, Section(u))
  PROVE  /\ Before(file) = SubSeq(lines, 1, k)
         /\ After(file) = SubSeq(lines, k + 1, Len(lines))
  <1> DEFINE n == Len(lines)
  <1>1. /\ file \in Seq(Tokens) /\ Len(file) = n + 3 /\ n \in Nat /\ k \in Nat /\ k <= n
        /\ lines \in Seq(Tokens)
    <2>1. lines \in Seq(Tokens) /\ Len(Section(u)) = 3
      BY SectionFacts, LinesAreTokens
    <2> QED  BY <2>1 DEF Pieces
  <1>2. /\ \A i \in 1 .. k : file[i] = lines[i]
        /\ \A i \in k + 1 .. n : file[3 + i] = lines[i]
    BY SectionFacts DEF Pieces
  <1>3. SubSeq(file, 1, k) = SubSeq(lines, 1, k)
    <2> DEFINE a == SubSeq(file, 1, k)  b == SubSeq(lines, 1, k)
    <2>1. a \in Seq(Tokens) /\ Len(a) = k /\ \A i \in 1 .. k : a[i] = file[i]
      BY <1>1, Cut
    <2>2. b \in Seq(Tokens) /\ Len(b) = k /\ \A i \in 1 .. k : b[i] = lines[i]
      BY <1>1, Cut
    <2> HIDE DEF a, b
    <2>3. a = b
      BY <1>2, <2>1, <2>2, SeqEqual
    <2> QED  BY <2>3 DEF a, b
  <1>4. SubSeq(file, k + 4, n + 3) = SubSeq(lines, k + 1, n)
    <2> DEFINE a == SubSeq(file, k + 4, n + 3)  b == SubSeq(lines, k + 1, n)
    <2>1. a \in Seq(Tokens) /\ Len(a) = n - k /\ \A i \in 1 .. n - k : a[i] = file[k + 3 + i]
      BY <1>1, Cut
    <2>2. b \in Seq(Tokens) /\ Len(b) = n - k /\ \A i \in 1 .. n - k : b[i] = lines[k + i]
      BY <1>1, Cut
    <2>3. ASSUME NEW i \in 1 .. n - k  PROVE file[k + 3 + i] = lines[k + i]
      <3>1. k + i \in k + 1 .. n /\ 3 + (k + i) = k + 3 + i
        BY <1>1
      <3> QED  BY <1>2, <3>1
    <2> HIDE DEF a, b
    <2>4. a = b
      BY <2>1, <2>2, <2>3, SeqEqual
    <2> QED  BY <2>4 DEF a, b
  <1> QED  BY <1>3, <1>4, Markers

\* strip_managed_section leaves the user's lines and nothing else.
LEMMA StripLeaves ==
  ASSUME NEW lines \in Seq(Lines), NEW file, HoldsLines(file, lines)
  PROVE  StripManagedSection(file) = lines
  <1>1. lines \in Seq(Tokens)
    BY LinesAreTokens
  <1>2. PICK k \in 0 .. Len(lines), section \in Sections : Pieces(file, lines, k, section)
    BY <1>1, HoldsPieces
  <1>3. CASE section = <<>>
    BY <1>2, <1>3, BareLines, Unmarked DEF StripManagedSection, HasSection
  <1>4. CASE section # <<>>
    <2>1. PICK u \in Targets : section = Section(u)
      BY <1>4 DEF Sections
    <2>2. StripManagedSection(file) = SubSeq(lines, 1, k) \o SubSeq(lines, k + 1, Len(lines))
      BY <1>2, <2>1, Markers, Halves DEF StripManagedSection, HasSection
    <2>3. SubSeq(lines, 1, k) \o SubSeq(lines, k + 1, Len(lines)) = SubSeq(lines, 1, Len(lines))
      <3>1. 1 \in 1 .. Len(lines) + 1 /\ k \in 1 - 1 .. Len(lines) /\ Len(lines) \in k .. Len(lines)
        OBVIOUS
      <3> QED  BY <1>1, <3>1, ConcatAdjacentSubSeq
    <2>4. SubSeq(lines, 1, Len(lines)) = lines
      BY <1>1
    <2> QED  BY <2>2, <2>3, <2>4
  <1> QED  BY <1>3, <1>4

\* splice_managed_section keeps them, and the section is the new one.
LEMMA SpliceHolds ==
  ASSUME NEW lines \in Seq(Lines), NEW file, HoldsLines(file, lines), NEW t \in Targets
  PROVE  HoldsLines(SpliceManagedSection(file, t), lines) /\ HasText(SpliceManagedSection(file, t), Body(t))
  <1> DEFINE new == SpliceManagedSection(file, t)
  <1>1. lines \in Seq(Tokens) /\ Section(t) \in Seq(Tokens) /\ Section(t) \in Sections
        /\ Len(Section(t)) = 3 /\ Section(t)[2] = Body(t)
    BY LinesAreTokens, SectionFacts DEF Sections
  <1>2. ASSUME NEW k \in 0 .. Len(lines),
               new = SubSeq(lines, 1, k) \o Section(t) \o SubSeq(lines, k + 1, Len(lines))
        PROVE  HoldsLines(new, lines) /\ HasText(new, Body(t))
    <2>1. Pieces(new, lines, k, Section(t))
      BY <1>1, <1>2, GluedPieces
    <2> HIDE DEF new
    <2>2. new[k + 2] = Body(t) /\ k + 2 \in 1 .. Len(new)
      BY <1>1, <2>1 DEF Pieces
    <2> QED  BY <1>1, <2>1, <2>2, HoldsPieces DEF HasText
  <1>3. PICK k \in 0 .. Len(lines), section \in Sections : Pieces(file, lines, k, section)
    BY <1>1, HoldsPieces
  <1>4. CASE section = <<>>
    <2>1. new = lines \o Section(t)
      BY <1>3, <1>4, BareLines, Unmarked DEF SpliceManagedSection, HasSection
    <2>2. SubSeq(lines, 1, Len(lines)) = lines /\ SubSeq(lines, Len(lines) + 1, Len(lines)) = <<>>
          /\ Len(lines) \in 0 .. Len(lines)
      BY <1>1
    <2>3. (lines \o Section(t)) \o <<>> = lines \o Section(t)
      BY <1>1, ConcatProperties, ConcatEmptySeq
    <2> HIDE DEF new
    <2>4. new = SubSeq(lines, 1, Len(lines)) \o Section(t) \o SubSeq(lines, Len(lines) + 1, Len(lines))
      BY <2>1, <2>2, <2>3
    <2>5. HoldsLines(new, lines) /\ HasText(new, Body(t))
      BY <1>2, <2>2, <2>4
    <2> QED  BY <2>5 DEF new
  <1>5. CASE section # <<>>
    <2>1. PICK u \in Targets : section = Section(u)
      BY <1>5 DEF Sections
    <2>2. new = SubSeq(lines, 1, k) \o Section(t) \o SubSeq(lines, k + 1, Len(lines))
      <3>1. Pieces(file, lines, k, Section(u))
        BY <1>3, <2>1
      <3>2. HasSection(file)
        BY <3>1, Markers DEF HasSection
      <3>3. Before(file) = SubSeq(lines, 1, k) /\ After(file) = SubSeq(lines, k + 1, Len(lines))
        BY <3>1, Halves
      <3> QED  BY <3>2, <3>3 DEF SpliceManagedSection
    <2> QED  BY <1>2, <2>2
  <1> QED  BY <1>4, <1>5

\* A line the user adds to the file is one more of the lines.
LEMMA AddHolds ==
  ASSUME NEW lines \in Seq(Lines), NEW file, HoldsLines(file, lines), NEW x \in Lines
  PROVE  HoldsLines(Append(file, x), Append(lines, x))
  <1> DEFINE more == Append(lines, x)
             new == Append(file, x)
  <1>1. /\ lines \in Seq(Tokens) /\ more \in Seq(Lines) /\ more \in Seq(Tokens) /\ x \in Tokens
        /\ Len(more) = Len(lines) + 1 /\ more[Len(lines) + 1] = x
        /\ \A i \in 1 .. Len(lines) : more[i] = lines[i]
    BY LinesAreTokens, TokenFacts
  <1>2. PICK k \in 0 .. Len(lines), section \in Sections : Pieces(file, lines, k, section)
    BY <1>1, HoldsPieces
  <1>3. Len(section) \in Nat /\ Len(lines) \in Nat
    BY SectionFacts DEF Sections
  <1>4. /\ new \in Seq(Tokens) /\ Len(new) = Len(file) + 1 /\ new[Len(file) + 1] = x
        /\ \A i \in 1 .. Len(file) : new[i] = file[i]
    <2>1. file \in Seq(Tokens) /\ x \in Tokens
      BY <1>1, <1>2 DEF Pieces
    <2> QED  BY <2>1
  <1>5. Len(file) = Len(lines) + Len(section)
    BY <1>2 DEF Pieces
  <1> HIDE DEF new, more
  <1>6. \A i \in 1 .. k : new[i] = more[i]
    BY <1>1, <1>2, <1>3, <1>4, <1>5 DEF Pieces
  <1>7. \A i \in 1 .. Len(section) : new[k + i] = section[i]
    BY <1>2, <1>3, <1>4, <1>5 DEF Pieces
  <1>8. \A i \in k + 1 .. Len(more) : new[Len(section) + i] = more[i]
    <2> TAKE i \in k + 1 .. Len(more)
    <2>1. CASE i = Len(lines) + 1
      BY <1>1, <1>3, <1>4, <1>5, <2>1
    <2>2. CASE i # Len(lines) + 1
      <3>1. i \in k + 1 .. Len(lines) /\ Len(section) + i \in 1 .. Len(file)
        BY <1>1, <1>3, <1>5, <2>2
      <3> QED  BY <1>1, <1>2, <1>4, <3>1 DEF Pieces
    <2> QED  BY <2>1, <2>2
  <1>9. Pieces(new, more, k, section)
    BY <1>1, <1>3, <1>4, <1>5, <1>6, <1>7, <1>8 DEF Pieces
  <1>10. k \in 0 .. Len(more)
    BY <1>1, <1>3
  <1>11. HoldsLines(new, more)
    BY <1>1, <1>9, <1>10, HoldsPieces
  <1> QED  BY <1>11 DEF new, more

-----------------------------------------------------------------------------
(* Rewrites in place *)

\* Who has read files is still at the call that did.
DraftsFit == \A p \in Workers : draft[p].at # "none" => Rewrites(p)

\* A step that is no part of a rewrite and no edit.
Elsewhere == /\ UNCHANGED <<files, mine, draft, lossy>>
             /\ \A q \in Workers : draft[q].at # "none" => job'[q] = job[q]

LEMMA SameDraft ==
  ASSUME NEW q, job'[q] = job[q], draft'[q] = draft[q]
  PROVE  /\ Place(q)' = Place(q) /\ (Rewrites(q)' <=> Rewrites(q))
         /\ \A d : HoldsOpen(q, d)' <=> HoldsOpen(q, d)
  BY DEF Place, Rewrites, HoldsOpen, AtStep, Busy

LEMMA OthersWait ==
  ASSUME SafeInv, NEW p \in Workers, Advance(p) \/ Abandon(p)
  PROVE  \A q \in Workers \ {p} : job'[q] = job[q]
  BY DEF SafeInv, JobsInv, Advance, Abandon

\* Only rewrites and the user write to the files.
LEMMA Writers ==
  ASSUME SafeInv, DraftsFit, [Next]_vars
  PROVE  \/ \E p \in Workers : ReadFiles(p) \/ OpenFiles(p) \/ WriteFiles(p) \/ RewriteFails(p)
         \/ \E d \in Dirs, r \in Runtimes : EditFile(d, r)
         \/ Elsewhere
  <1>1. CASE UNCHANGED vars
    BY <1>1 DEF vars, writing, Elsewhere
  <1>2. ASSUME NEW p \in Workers, Calls(p)
        PROVE  ReadFiles(p) \/ OpenFiles(p) \/ WriteFiles(p) \/ RewriteFails(p) \/ Elsewhere
    <2>1. CASE Destroy(p) \/ CreateInner(p) \/ WakeWorkspace(p)
      <3>1. \E s \in {"destroy", "create", "wake"} : AtStep(p, s)
        BY <2>1 DEF Destroy, CreateInner, WakeWorkspace
      <3>2. ~Rewrites(p)
        BY <3>1 DEF Rewrites, AtStep
      <3>3. draft[p].at = "none"
        BY <3>2 DEF DraftsFit
      <3>4. Advance(p) \/ Abandon(p)
        BY <2>1 DEF Destroy, CreateInner, WakeWorkspace, Fails
      <3>5. UNCHANGED <<files, mine, draft, lossy>>
        BY <2>1 DEF Destroy, CreateInner, WakeWorkspace, writing
      <3> QED  BY <3>3, <3>4, <3>5, OthersWait DEF Elsewhere
    <2>2. CASE CallFails(p)
      BY <2>2, OthersWait DEF CallFails, Fails, writing, Elsewhere
    <2> QED  BY <1>2, <2>1, <2>2 DEF Calls
  <1>3. ASSUME NEW p \in Procs, Operate(p)  PROVE Elsewhere
    <2>1. p \in Workers /\ job \in [Workers -> Jobs]
      BY DEF Workers, SafeInv, JobsInv
    <2>2. ASSUME NEW j, job' = [job EXCEPT ![p] = j], draft[p].at = "none", UNCHANGED <<files, mine, writing>>
          PROVE  Elsewhere
      BY <2>1, <2>2 DEF Elsewhere, writing
    <2>3. ASSUME ~Rewrites(p)  PROVE draft[p].at = "none"
      BY <2>1, <2>3 DEF DraftsFit
    <2>4. ASSUME NEW t, NEW steps, NEW by, Begin(p, t, steps, by)  PROVE Elsewhere
      <3>1. draft[p].at = "none"
        BY <2>3, <2>4 DEF Begin, Rewrites, AtStep
      <3> QED  BY <2>2, <2>4, <3>1 DEF Begin
    <2>5. CASE RefreshDisabledRoot(p)
      <3>1. draft[p].at = "none"
        BY <2>3, <2>5 DEF RefreshDisabledRoot, Rewrites, AtStep
      <3> QED  BY <2>2, <2>5, <3>1 DEF RefreshDisabledRoot
    <2>6. ASSUME NEW restart, NEW startMissing, NEW daemonRunning,
                 RefreshSession(p, restart, startMissing, daemonRunning)
          PROVE  Elsewhere
      <3>1. draft[p].at = "none"
        BY <2>3, <2>6 DEF RefreshSession, Rewrites, AtStep
      <3>2. UNCHANGED <<files, mine, writing>> /\ \E j : job' = [job EXCEPT ![p] = j]
        BY <2>6 DEF RefreshSession, Then, Abandon
      <3> QED  BY <2>2, <3>1, <3>2
    <2> QED  BY <1>3, <2>4, <2>5, <2>6 DEF Operate, StartNamed, StopNamed, RestartNamed, Refresh, AgentStart,
                AgentStop, AgentRestart, DispatchRunnableWork
  <1>4. ASSUME Reconcile  PROVE Elsewhere
    <2>1. Reconciler \in Workers /\ job \in [Workers -> Jobs]
      BY DEF Workers, SafeInv, JobsInv
    <2>2. CASE job' = job
      BY <1>4, <2>2 DEF Reconcile, ReconcileBegin, VisitMatching, VisitChanged, VisitRemoved, VisitBlocked,
                  Visiting, SaveRuntimeState, ReconcileEnd, SaveFails, Elsewhere, writing
    <2>3. ASSUME NEW t, NEW steps, Visiting(t), ReconcileJob(t, steps)  PROVE Elsewhere
      <3>1. draft[Reconciler].at = "none"
        BY <2>1, <2>3 DEF DraftsFit, Rewrites, AtStep, Visiting
      <3> QED  BY <2>1, <2>3, <3>1 DEF Visiting, ReconcileJob, Elsewhere, writing
    <2>4. ASSUME NEW t, VisitMatching(t) \/ VisitChanged(t) \/ VisitRemoved(t)  PROVE Elsewhere
      BY <2>3, <2>4 DEF VisitMatching, VisitChanged, VisitRemoved
    <2> QED  BY <1>4, <2>2, <2>4 DEF Reconcile, ReconcileBegin, VisitBlocked, SaveRuntimeState, ReconcileEnd,
                SaveFails
  <1>5. ASSUME Environment
        PROVE  (\E d \in Dirs, r \in Runtimes : EditFile(d, r)) \/ Elsewhere
    BY <1>5 DEF Environment, EditConfig, MoveSocket, SessionMoves, Elsewhere, writing
  <1> QED  BY <1>1, <1>2, <1>3, <1>4, <1>5 DEF Next, Workers

LEMMA FitStep == SafeInv /\ DraftsFit /\ [Next]_vars => DraftsFit'
  <1> SUFFICES ASSUME SafeInv, DraftsFit, [Next]_vars, NEW q \in Workers, draft'[q].at # "none"
               PROVE  Rewrites(q)'
    BY DEF DraftsFit
  <1>0. DOMAIN draft = Workers
    BY DEF SafeInv, FilesInv
  <1>1. ASSUME NEW p \in Workers, ReadFiles(p) \/ OpenFiles(p)  PROVE Rewrites(q)'
    <2>1. Rewrites(p) /\ job' = job
      BY <1>1 DEF ReadFiles, OpenFiles
    <2>2. q # p => draft'[q] = draft[q]
      BY <1>0, <1>1 DEF ReadFiles, OpenFiles
    <2>3. Rewrites(q)
      BY <2>1, <2>2 DEF DraftsFit
    <2> QED  BY <2>1, <2>3 DEF Rewrites, AtStep, Busy
  <1>2. ASSUME NEW p \in Workers, WriteFiles(p) \/ RewriteFails(p)  PROVE Rewrites(q)'
    <2>1. draft' = [draft EXCEPT ![p] = NoDraft] /\ (Advance(p) \/ Abandon(p))
      BY <1>2 DEF WriteFiles, RewriteFails, Fails
    <2>2. q # p
      BY <1>0, <2>1, NoDraftOK
    <2>3. draft'[q] = draft[q] /\ job'[q] = job[q]
      BY <1>0, <2>1, <2>2, OthersWait
    <2> QED  BY <2>3, SameDraft DEF DraftsFit
  <1>3. ASSUME NEW d \in Dirs, NEW r \in Runtimes, EditFile(d, r)  PROVE Rewrites(q)'
    BY <1>3, SameDraft DEF EditFile, DraftsFit
  <1>4. CASE Elsewhere
    BY <1>4, SameDraft DEF Elsewhere, DraftsFit
  <1> QED  BY <1>1, <1>2, <1>3, <1>4, Writers

LEMMA FitInit == Init => DraftsFit
  BY NoDraftOK DEF Init, DraftsFit

-----------------------------------------------------------------------------
(* The user's lines, while files are rewritten *)

WorkDirs == UNION {{s.dir : s \in SpecsOf[t]} : t \in Targets \ Orchestrators}

\* A file that some process has emptied and will write.
Rewriting(d, f) == \E p \in Workers : HoldsOpen(p, d) /\ f \in draft[p].touched

\* Every file holds the lines unless it is about to be written.
Kept(d) == /\ \A r \in Runtimes : HoldsLines(files[d].text[r], mine[d][r]) \/ Rewriting(d, r)
           /\ files[d].mcp.other = "plain" \/ Rewriting(d, "mcp")

\* What p is going to write holds them too.
Sound(p, d) ==
  draft[p].at # "none" /\ Place(p) = d =>
    /\ \A r \in Runtimes : r \in draft[p].touched => HoldsLines(draft[p].new.text[r], mine[d][r])
    /\ "mcp" \in draft[p].touched => draft[p].new.mcp.other = "plain"

\* Who has files open is alone with them, and finds them empty.
Alone(p, d) ==
  HoldsOpen(p, d) =>
    /\ \A q \in Workers : HoldsOpen(q, d) => q = p
    /\ \A r \in Runtimes : r \in draft[p].touched =>
          draft[p].new.text[r] = <<>> \/ files[d].text[r] = <<>>
    /\ "mcp" \in draft[p].touched => files[d].mcp = TornMcp

LinesInv == /\ mine \in [Dirs -> [Runtimes -> Seq(Lines)]]
            /\ \A d \in WorkDirs \ lossy : Kept(d) /\ \A p \in Workers : Sound(p, d) /\ Alone(p, d)

LEMMA WorkDirsFacts ==
  /\ WorkDirs \subseteq Dirs
  /\ \A t \in Targets \ Orchestrators : \A s \in SpecsOf[t] : s.dir \in WorkDirs
  /\ OrchestratorsApart => \A o \in Orchestrators : \A s \in SpecsOf[o] : s.dir \notin WorkDirs
  BY TargetsAssumption DEF WorkDirs, OrchestratorsApart

\* Nothing changes in a directory that a step is not about.
LEMMA FarAway ==
  ASSUME NEW d, files'[d] = files[d], mine'[d] = mine[d],
         Kept(d), \A p \in Workers : Sound(p, d) /\ Alone(p, d),
         \A q \in Workers : \/ job'[q] = job[q] /\ draft'[q] = draft[q]
                            \/ /\ ~(draft[q].at # "none" /\ Place(q) = d)
                               /\ ~(draft'[q].at # "none" /\ Place(q)' = d)
  PROVE  Kept(d)' /\ \A p \in Workers : Sound(p, d)' /\ Alone(p, d)'
  <1>1. \A q \in Workers : HoldsOpen(q, d)' <=> HoldsOpen(q, d)
    BY SameDraft DEF HoldsOpen
  <1>2. \A q \in Workers : HoldsOpen(q, d) => draft'[q] = draft[q]
    BY DEF HoldsOpen
  <1>3. ASSUME NEW f  PROVE Rewriting(d, f) => Rewriting(d, f)'
    BY <1>1, <1>2 DEF Rewriting
  <1>4. Kept(d)'
    BY <1>3 DEF Kept
  <1>5. ASSUME NEW p \in Workers  PROVE Sound(p, d)'
    BY SameDraft DEF Sound
  <1>6. ASSUME NEW p \in Workers  PROVE Alone(p, d)'
    BY <1>1, <1>2 DEF Alone
  <1> QED  BY <1>4, <1>5, <1>6

\* Nobody has the files of d open: they all hold the lines.
LEMMA AtRest ==
  ASSUME NEW d, Kept(d), \A q \in Workers : ~HoldsOpen(q, d)
  PROVE  /\ \A r \in Runtimes : HoldsLines(files[d].text[r], mine[d][r])
         /\ files[d].mcp.other = "plain"
  BY DEF Kept, Rewriting

LEMMA ReadHolds ==
  ASSUME OrchestratorsApart, SafeInv, LinesInv, NEW p \in Workers, ReadFiles(p)
  PROVE  LinesInv'
  <1> DEFINE t == job[p].t
             e == Place(p)
  <1>1. Rewrites(p) /\ draft[p].at = "none" /\ UNCHANGED <<files, mine, job>>
    BY DEF ReadFiles
  <1>2. t \in Targets /\ e \in Dirs /\ \E s \in SpecsOf[t] : e = s.dir
    BY <1>1, AtRewrite
  <1>3. draft' = [draft EXCEPT ![p] = [at |-> "read", new |-> Rewritten(p, files[e]),
                                       touched |-> Touched(p, files[e])]]
        /\ DOMAIN draft = Workers
    BY DEF ReadFiles, SafeInv, FilesInv
  <1>4. lossy' = IF HeldOpen(p, e) THEN lossy \cup {e} ELSE lossy
    BY DEF ReadFiles, LossyIf
  <1>5. ASSUME NEW d \in WorkDirs \ lossy'
        PROVE  Kept(d)' /\ \A q \in Workers : Sound(q, d)' /\ Alone(q, d)'
    <2>1. d \in WorkDirs \ lossy /\ Kept(d) /\ \A q \in Workers : Sound(q, d) /\ Alone(q, d)
      BY <1>4 DEF LinesInv
    <2>2. \A q \in Workers \ {p} : draft'[q] = draft[q]
      BY <1>3
    <2>3. CASE d # e
      <3>1. Place(p)' = e
        BY <1>1 DEF Place, AtStep, Busy
      <3> QED  BY <1>1, <2>1, <2>2, <2>3, <3>1, FarAway
    <2>4. CASE d = e
      <3>1. t \notin Orchestrators
        BY <1>2, <2>4, WorkDirsFacts
      <3>2. \A q \in Workers : ~HoldsOpen(q, d)
        BY <1>1, <1>4, <2>4 DEF HeldOpen, HoldsOpen
      <3>3. /\ \A r \in Runtimes : HoldsLines(files[d].text[r], mine[d][r]) /\ mine[d][r] \in Seq(Lines)
            /\ files[d].mcp.other = "plain"
        BY <2>1, <3>2, AtRest, WorkDirsFacts DEF LinesInv
      <3>4. draft'[p].new = Rewritten(p, files[d]) /\ draft'[p].at = "read"
        BY <1>3, <2>4
      <3>5. \A q \in Workers : ~HoldsOpen(q, d)'
        <4>1. ~HoldsOpen(p, d)'
          BY <3>4 DEF HoldsOpen
        <4> QED  BY <1>1, <2>2, <3>2, <4>1, SameDraft
      <3>6. Kept(d)'
        BY <1>1, <3>3 DEF Kept
      <3>7. \A r \in Runtimes : HoldsLines(Rewritten(p, files[d]).text[r], mine[d][r])
        <4>1. ASSUME NEW r \in Runtimes
              PROVE  Rewritten(p, files[d]).text[r] \in {SpliceManagedSection(files[d].text[r], t),
                                                         StripManagedSection(files[d].text[r])}
          BY <3>1 DEF Rewritten, EnsureArtifacts, WriteInstructions, CleanupWorkspaceArtifacts,
                      RemoveInstructions
        <4> QED  BY <1>2, <3>3, <4>1, StripLeaves, BareLines, SpliceHolds
      <3>8. Rewritten(p, files[d]).mcp.other = "plain"
        BY <3>1, <3>3 DEF Rewritten, EnsureArtifacts, CleanupWorkspaceArtifacts, WriteMcpConfig,
                          RemoveMcpConfig, Reserialized
      <3>9. Sound(p, d)'
        BY <1>1, <3>4, <3>7, <3>8 DEF Sound
      <3>10. ASSUME NEW q \in Workers \ {p}  PROVE Sound(q, d)'
        <4>1. draft'[q] = draft[q] /\ Place(q)' = Place(q) /\ mine' = mine
          BY <1>1, <2>2, SameDraft
        <4> QED  BY <2>1, <4>1 DEF Sound
      <3>11. \A q \in Workers : Alone(q, d)'
        BY <3>5 DEF Alone
      <3> QED  BY <3>6, <3>9, <3>10, <3>11
    <2> QED  BY <2>3, <2>4
  <1> QED  BY <1>1, <1>5 DEF LinesInv

LEMMA OpenHolds ==
  ASSUME SafeInv, LinesInv, NEW p \in Workers, OpenFiles(p)
  PROVE  LinesInv'
  <1> DEFINE e == Place(p)
             new == draft[p].new
             touched == draft[p].touched
  <1>1. Rewrites(p) /\ draft[p].at = "read" /\ UNCHANGED <<mine, job>>
    BY DEF OpenFiles
  <1>2. e \in Dirs /\ DOMAIN draft = Workers /\ DOMAIN files = Dirs /\ DraftOK(draft[p])
    BY <1>1, AtRewrite DEF SafeInv, FilesInv
  <1>3. /\ draft' = [draft EXCEPT ![p] = [draft[p] EXCEPT !.at = "open"]]
        /\ files' = [files EXCEPT ![e] = Emptied(files[e], new, touched)]
        /\ lossy' = IF HeldOpen(p, e) THEN lossy \cup {e} ELSE lossy
    BY DEF OpenFiles, LossyIf
  <1>4. ASSUME NEW d \in WorkDirs \ lossy'
        PROVE  Kept(d)' /\ \A q \in Workers : Sound(q, d)' /\ Alone(q, d)'
    <2>1. d \in WorkDirs \ lossy /\ Kept(d) /\ \A q \in Workers : Sound(q, d) /\ Alone(q, d)
      BY <1>3 DEF LinesInv
    <2>2. \A q \in Workers \ {p} : draft'[q] = draft[q]
      BY <1>2, <1>3
    <2>3. Place(p)' = e
      BY <1>1 DEF Place, AtStep, Busy
    <2>4. CASE d # e
      <3>1. files'[d] = files[d]
        BY <1>2, <1>3, <2>1, <2>4
      <3> QED  BY <1>1, <2>1, <2>2, <2>3, <2>4, <3>1, FarAway
    <2>5. CASE d = e
      <3>1. \A q \in Workers : ~HoldsOpen(q, d)
        BY <1>1, <1>3, <2>5 DEF HeldOpen, HoldsOpen
      <3>2. /\ \A r \in Runtimes : HoldsLines(files[d].text[r], mine[d][r])
            /\ files[d].mcp.other = "plain"
        BY <2>1, <3>1, AtRest
      <3>3. draft'[p].at = "open" /\ draft'[p].new = new /\ draft'[p].touched = touched
        BY <1>2, <1>3 DEF DraftOK
      <3>4. files'[d] = Emptied(files[d], new, touched)
        BY <1>2, <1>3, <2>5
      <3>5. HoldsOpen(p, d)' /\ \A q \in Workers \ {p} : ~HoldsOpen(q, d)'
        <4>1. HoldsOpen(p, d)'
          BY <2>3, <2>5, <3>3 DEF HoldsOpen
        <4> QED  BY <1>1, <2>2, <3>1, <4>1, SameDraft
      <3>6. ASSUME NEW f \in touched  PROVE Rewriting(d, f)'
        BY <3>3, <3>5 DEF Rewriting
      <3>7. Kept(d)'
        <4>1. ASSUME NEW r \in Runtimes, r \notin touched
              PROVE  files'[d].text[r] = files[d].text[r]
          BY <3>4, <4>1 DEF Emptied
        <4>2. "mcp" \notin touched => files'[d].mcp = files[d].mcp
          BY <3>4 DEF Emptied
        <4> QED  BY <1>1, <3>2, <3>6, <4>1, <4>2 DEF Kept
      <3>8. Sound(p, d) /\ Sound(p, d)'
        BY <1>1, <2>1, <2>3, <2>5, <3>3 DEF Sound
      <3>9. ASSUME NEW q \in Workers \ {p}  PROVE Sound(q, d)' /\ Alone(q, d)'
        <4>1. draft'[q] = draft[q] /\ Place(q)' = Place(q) /\ mine' = mine
          BY <1>1, <2>2, SameDraft
        <4>2. Sound(q, d)'
          BY <2>1, <4>1 DEF Sound
        <4> QED  BY <3>5, <4>2 DEF Alone
      <3>10. Alone(p, d)'
        <4>1. \A r \in Runtimes : r \in touched => new.text[r] = <<>> \/ files'[d].text[r] = <<>>
          BY <3>4 DEF Emptied
        <4>2. "mcp" \in touched => new.mcp.other = "plain"
          BY <1>1, <2>5, <3>8 DEF Sound
        <4>3. "mcp" \in touched => files'[d].mcp = TornMcp
          BY <3>4, <4>2 DEF Emptied, NoMcp
        <4> QED  BY <3>3, <3>5, <4>1, <4>3 DEF Alone
      <3> QED  BY <3>7, <3>8, <3>9, <3>10
    <2> QED  BY <2>4, <2>5
  <1> QED  BY <1>1, <1>4 DEF LinesInv

\* Writing into an empty file leaves what is written.
LEMMA OverEmpty ==
  ASSUME NEW new \in Seq(Tokens), NEW old, new = <<>> \/ old = <<>>
  PROVE  Overwritten(old, new) = new
  <1>1. CASE new = <<>>
    BY <1>1 DEF Overwritten
  <1>2. CASE new # <<>> /\ old = <<>>
    <2>1. SubSeq(old, Len(new) + 1, Len(old)) = <<>>
      BY <1>2
    <2>2. new \o <<>> = new
      OBVIOUS
    <2> QED  BY <1>2, <2>1, <2>2 DEF Overwritten
  <1> QED  BY <1>1, <1>2

\* After a write nobody has the files open, and they hold the lines.
LEMMA RestHolds ==
  ASSUME NEW d, NEW p \in Workers, mine' = mine, ~(draft'[p].at # "none"),
         \A q \in Workers : Sound(q, d),
         \A q \in Workers \ {p} : ~HoldsOpen(q, d) /\ job'[q] = job[q] /\ draft'[q] = draft[q],
         \A r \in Runtimes : HoldsLines(files'[d].text[r], mine[d][r]), files'[d].mcp.other = "plain"
  PROVE  Kept(d)' /\ \A q \in Workers : Sound(q, d)' /\ Alone(q, d)'
  <1>1. \A q \in Workers : ~HoldsOpen(q, d)'
    BY SameDraft DEF HoldsOpen
  <1>2. Kept(d)'
    BY DEF Kept
  <1>3. ASSUME NEW q \in Workers  PROVE Sound(q, d)' /\ Alone(q, d)'
    <2>1. Alone(q, d)'
      BY <1>1 DEF Alone
    <2>2. CASE q = p
      BY <2>1, <2>2 DEF Sound
    <2>3. CASE q # p
      <3>1. draft'[q] = draft[q] /\ Place(q)' = Place(q)
        BY <2>3, SameDraft
      <3> QED  BY <2>1, <3>1 DEF Sound
    <2> QED  BY <2>2, <2>3
  <1> QED  BY <1>2, <1>3

LEMMA HoldsTokens ==
  ASSUME NEW lines \in Seq(Lines), NEW file, HoldsLines(file, lines)
  PROVE  file \in Seq(Tokens)
  BY LinesAreTokens, HoldsPieces DEF Pieces

\* A write into files that are empty, or are emptied by it.
LEMMA WriteLeaves ==
  ASSUME NEW now, NEW new, NEW done, NEW dir \in Written(now, new, done), NEW lines \in [Runtimes -> Seq(Lines)],
         \A r \in Runtimes : IF r \in done THEN /\ HoldsLines(new.text[r], lines[r])
                                                /\ new.text[r] = <<>> \/ now.text[r] = <<>>
                             ELSE HoldsLines(now.text[r], lines[r]),
         IF "mcp" \in done THEN new.mcp.other = "plain" /\ now.mcp = TornMcp ELSE now.mcp.other = "plain"
  PROVE  (\A r \in Runtimes : HoldsLines(dir.text[r], lines[r])) /\ dir.mcp.other = "plain"
  <1>1. \A r \in Runtimes : dir.text[r] = IF r \in done THEN Overwritten(now.text[r], new.text[r]) ELSE now.text[r]
    BY DEF Written
  <1>2. ASSUME NEW r \in Runtimes  PROVE HoldsLines(dir.text[r], lines[r])
    <2>1. CASE r \in done
      <3>1. new.text[r] \in Seq(Tokens)
        BY <2>1, HoldsTokens
      <3> QED  BY <1>1, <2>1, <3>1, OverEmpty
    <2>2. CASE r \notin done
      BY <1>1, <2>2
    <2> QED  BY <2>1, <2>2
  <1>3. dir.mcp.other = "plain"
    BY DEF Written, OverwrittenMcp
  <1> QED  BY <1>2, <1>3

LEMMA WriteHolds ==
  ASSUME SafeInv, LinesInv, NEW p \in Workers, WriteFiles(p)
  PROVE  LinesInv'
  <1> DEFINE e == Place(p)
             new == draft[p].new
             touched == draft[p].touched
  <1>1. Rewrites(p) /\ draft[p].at = "open" /\ mine' = mine /\ lossy' = lossy
    BY DEF WriteFiles
  <1>2. e \in Dirs /\ DOMAIN draft = Workers /\ DOMAIN files = Dirs
    BY <1>1, AtRewrite DEF SafeInv, FilesInv
  <1>3. draft' = [draft EXCEPT ![p] = NoDraft]
    BY DEF WriteFiles
  <1>3a. PICK dir \in Written(files[e], new, touched) : files' = [files EXCEPT ![e] = dir]
    BY DEF WriteFiles
  <1>4. /\ \A q \in Workers \ {p} : draft'[q] = draft[q] /\ job'[q] = job[q]
        /\ draft'[p].at = "none"
    BY <1>2, <1>3, OthersWait, NoDraftOK DEF WriteFiles
  <1>5. ASSUME NEW d \in WorkDirs \ lossy
        PROVE  Kept(d)' /\ \A q \in Workers : Sound(q, d)' /\ Alone(q, d)'
    <2>1. d \in Dirs /\ mine[d] \in [Runtimes -> Seq(Lines)] /\ Kept(d)
          /\ \A q \in Workers : Sound(q, d) /\ Alone(q, d)
      BY <1>5, WorkDirsFacts DEF LinesInv
    <2>2. CASE d # e
      <3>1. files'[d] = files[d]
        BY <1>2, <1>3a, <2>1, <2>2
      <3> QED  BY <1>1, <1>4, <2>1, <2>2, <3>1, FarAway
    <2>3. CASE d = e
      <3>1. HoldsOpen(p, d) /\ \A q \in Workers \ {p} : ~HoldsOpen(q, d)
        BY <1>1, <2>1, <2>3 DEF HoldsOpen, Alone
      <3>2. files'[d] = dir
        BY <1>2, <1>3a, <2>3
      <3>3. /\ \A r \in Runtimes : r \in touched => /\ HoldsLines(new.text[r], mine[d][r])
                                                    /\ new.text[r] = <<>> \/ files[d].text[r] = <<>>
            /\ "mcp" \in touched => new.mcp.other = "plain" /\ files[d].mcp = TornMcp
        BY <1>1, <2>1, <2>3, <3>1 DEF Sound, Alone
      <3>4. /\ \A r \in Runtimes : r \notin touched => HoldsLines(files[d].text[r], mine[d][r])
            /\ "mcp" \notin touched => files[d].mcp.other = "plain"
        BY <2>1, <3>1 DEF Kept, Rewriting
      <3>5. (\A r \in Runtimes : HoldsLines(dir.text[r], mine[d][r])) /\ dir.mcp.other = "plain"
        BY <1>3a, <2>1, <2>3, <3>3, <3>4, WriteLeaves
      <3> QED  BY <1>1, <1>4, <2>1, <3>1, <3>2, <3>5, RestHolds
    <2> QED  BY <2>2, <2>3
  <1> QED  BY <1>1, <1>5 DEF LinesInv

LEMMA FailHolds ==
  ASSUME SafeInv, LinesInv, NEW p \in Workers, RewriteFails(p)
  PROVE  LinesInv'
  <1> DEFINE e == Place(p)
             new == draft[p].new
             touched == draft[p].touched
  <1>1. Rewrites(p) /\ draft[p].at # "none" /\ mine' = mine
    BY DEF RewriteFails
  <1>2. e \in Dirs /\ DOMAIN draft = Workers /\ DOMAIN files = Dirs /\ DraftOK(draft[p])
    BY <1>1, AtRewrite DEF SafeInv, FilesInv
  <1>3. /\ draft' = [draft EXCEPT ![p] = NoDraft]
        /\ lossy' = IF draft[p].at = "open" \/ HeldOpen(p, e) THEN lossy \cup {e} ELSE lossy
    BY DEF RewriteFails, LossyIf
  <1>3b. PICK done \in SUBSET touched : \E now : \E dir \in Written(now, new, done) :
           /\ files' = [files EXCEPT ![e] = dir]
           /\ draft[p].at = "read" => now = Emptied(files[e], new, done)
    BY FailedWrite
  <1>3c. PICK now : \E dir \in Written(now, new, done) :
           /\ files' = [files EXCEPT ![e] = dir]
           /\ draft[p].at = "read" => now = Emptied(files[e], new, done)
    BY <1>3b
  <1>3a. PICK dir \in Written(now, new, done) :
           /\ files' = [files EXCEPT ![e] = dir]
           /\ draft[p].at = "read" => now = Emptied(files[e], new, done)
    BY <1>3c
  <1>4. /\ \A q \in Workers \ {p} : draft'[q] = draft[q] /\ job'[q] = job[q]
        /\ draft'[p].at = "none"
    BY <1>2, <1>3, OthersWait, NoDraftOK DEF RewriteFails, Fails
  <1>5. ASSUME NEW d \in WorkDirs \ lossy'
        PROVE  Kept(d)' /\ \A q \in Workers : Sound(q, d)' /\ Alone(q, d)'
    <2>1. d \in Dirs /\ mine[d] \in [Runtimes -> Seq(Lines)] /\ Kept(d)
          /\ \A q \in Workers : Sound(q, d) /\ Alone(q, d)
      BY <1>3, <1>5, WorkDirsFacts DEF LinesInv
    <2>2. CASE d # e
      <3>1. files'[d] = files[d]
        BY <1>2, <1>3a, <2>1, <2>2
      <3> QED  BY <1>1, <1>4, <2>1, <2>2, <3>1, FarAway
    <2>3. CASE d = e
      <3>1. draft[p].at = "read" /\ \A q \in Workers : ~HoldsOpen(q, d)
        BY <1>1, <1>2, <1>3, <1>5, <2>3 DEF HeldOpen, HoldsOpen, DraftOK
      <3>2. files'[d] = dir /\ now = Emptied(files[d], new, done)
        BY <1>2, <1>3a, <2>3, <3>1
      <3>3. /\ \A r \in Runtimes : HoldsLines(files[d].text[r], mine[d][r])
            /\ files[d].mcp.other = "plain"
        BY <2>1, <3>1, AtRest
      <3>4. /\ \A r \in Runtimes : r \in done => HoldsLines(new.text[r], mine[d][r])
            /\ "mcp" \in done => new.mcp.other = "plain"
        BY <1>1, <2>1, <2>3 DEF Sound
      <3>5. /\ \A r \in Runtimes : r \in done => new.text[r] = <<>> \/ now.text[r] = <<>>
            /\ \A r \in Runtimes : r \notin done => now.text[r] = files[d].text[r]
        BY <3>2 DEF Emptied
      <3>6. /\ "mcp" \in done => now.mcp = TornMcp
            /\ "mcp" \notin done => now.mcp = files[d].mcp
        BY <3>2, <3>4 DEF Emptied, NoMcp
      <3>7. (\A r \in Runtimes : HoldsLines(dir.text[r], mine[d][r])) /\ dir.mcp.other = "plain"
        <4>1. \A r \in Runtimes : IF r \in done THEN /\ HoldsLines(new.text[r], mine[d][r])
                                                     /\ new.text[r] = <<>> \/ now.text[r] = <<>>
                                  ELSE HoldsLines(now.text[r], mine[d][r])
          BY <3>3, <3>4, <3>5
        <4>2. IF "mcp" \in done THEN new.mcp.other = "plain" /\ now.mcp = TornMcp
              ELSE now.mcp.other = "plain"
          BY <3>3, <3>4, <3>6
        <4>3. dir \in Written(now, new, done) /\ mine[d] \in [Runtimes -> Seq(Lines)]
          BY <1>3a, <2>1
        <4> HIDE DEF new, e, touched
        <4> QED  BY ONLY <4>1, <4>2, <4>3, WriteLeaves
      <3> QED  BY <1>1, <1>4, <2>1, <3>1, <3>2, <3>7, RestHolds
    <2> QED  BY <2>2, <2>3
  <1> QED  BY <1>1, <1>5 DEF LinesInv

LEMMA EditHolds ==
  ASSUME SafeInv, LinesInv, NEW e \in Dirs, NEW r \in Runtimes, EditFile(e, r)
  PROVE  LinesInv'
  <1>1. User(2) \in Lines
    BY DEF Lines
  <1>2. IsDir(files[e]) /\ DOMAIN files = Dirs /\ mine \in [Dirs -> [Runtimes -> Seq(Lines)]]
    BY DEF SafeInv, FilesInv, DirOK, LinesInv
  <1>3. mine' = [mine EXCEPT ![e] = [mine[e] EXCEPT ![r] = Append(mine[e][r], User(2))]]
    BY DEF EditFile
  <1>4. mine' \in [Dirs -> [Runtimes -> Seq(Lines)]]
    BY <1>1, <1>2, <1>3
  <1>5. files' = [files EXCEPT ![e] = [files[e] EXCEPT !.text =
                                         [files[e].text EXCEPT ![r] = Append(files[e].text[r], User(2))]]]
    BY DEF EditFile
  <1>6. draft' = draft /\ job' = job
    BY DEF EditFile
  <1>6a. lossy' = IF \E p \in Workers : draft[p].at # "none" /\ Place(p) = e /\ r \in draft[p].touched
                  THEN lossy \cup {e} ELSE lossy
    BY DEF EditFile, LossyIf
  <1>7. ASSUME NEW d \in WorkDirs \ lossy'
        PROVE  Kept(d)' /\ \A q \in Workers : Sound(q, d)' /\ Alone(q, d)'
    <2>1. d \in Dirs /\ mine[d] \in [Runtimes -> Seq(Lines)] /\ Kept(d)
          /\ \A q \in Workers : Sound(q, d) /\ Alone(q, d)
      BY <1>6a, <1>7, WorkDirsFacts DEF LinesInv
    <2>2. CASE d # e
      <3>1. files'[d] = files[d] /\ mine'[d] = mine[d]
        BY <1>2, <1>3, <1>5, <2>1, <2>2
      <3> QED  BY <1>6, <2>1, <3>1, FarAway
    <2>3. CASE d = e
      <3>1. \A q \in Workers : draft[q].at # "none" /\ Place(q) = d => r \notin draft[q].touched
        BY <1>6a, <1>7, <2>3
      <3>2. /\ files'[d].text[r] = Append(files[d].text[r], User(2))
            /\ \A x \in Runtimes \ {r} : files'[d].text[x] = files[d].text[x]
            /\ files'[d].mcp = files[d].mcp
        BY <1>2, <1>5, <2>3 DEF IsDir
      <3>3. /\ mine'[d][r] = Append(mine[d][r], User(2))
            /\ \A x \in Runtimes \ {r} : mine'[d][x] = mine[d][x]
        BY <1>2, <1>3, <2>3
      <3>4. \A q \in Workers : (HoldsOpen(q, d)' <=> HoldsOpen(q, d)) /\ Place(q)' = Place(q)
        BY <1>6, SameDraft
      <3>5. \A f : Rewriting(d, f) => Rewriting(d, f)'
        BY <1>6, <3>4 DEF Rewriting
      <3>6. ~Rewriting(d, r)
        BY <3>1 DEF Rewriting, HoldsOpen
      <3>7. HoldsLines(files'[d].text[r], mine'[d][r])
        <4>1. HoldsLines(files[d].text[r], mine[d][r]) /\ mine[d][r] \in Seq(Lines)
          BY <2>1, <3>6 DEF Kept
        <4> QED  BY <1>1, <3>2, <3>3, <4>1, AddHolds
      <3>8. Kept(d)'
        <4>1. ASSUME NEW x \in Runtimes
              PROVE  HoldsLines(files'[d].text[x], mine'[d][x]) \/ Rewriting(d, x)'
          BY <2>1, <3>2, <3>3, <3>5, <3>7 DEF Kept
        <4>2. files'[d].mcp.other = "plain" \/ Rewriting(d, "mcp")'
          BY <2>1, <3>2, <3>5 DEF Kept
        <4> QED  BY <4>1, <4>2 DEF Kept
      <3>9. ASSUME NEW q \in Workers  PROVE Sound(q, d)'
        BY <1>6, <2>1, <3>1, <3>3, <3>4 DEF Sound
      <3>10. ASSUME NEW q \in Workers  PROVE Alone(q, d)'
        <4> SUFFICES ASSUME HoldsOpen(q, d)'
                     PROVE  /\ \A x \in Workers : HoldsOpen(x, d)' => x = q
                            /\ \A x \in Runtimes : x \in draft'[q].touched =>
                                  draft'[q].new.text[x] = <<>> \/ files'[d].text[x] = <<>>
                            /\ "mcp" \in draft'[q].touched => files'[d].mcp = TornMcp
          BY DEF Alone
        <4>1. HoldsOpen(q, d) /\ r \notin draft[q].touched
          BY <3>1, <3>4 DEF HoldsOpen
        <4> QED  BY <1>6, <2>1, <3>2, <3>4, <4>1 DEF Alone
      <3> QED  BY <3>8, <3>9, <3>10
    <2> QED  BY <2>2, <2>3
  <1> QED  BY <1>4, <1>7 DEF LinesInv

LEMMA LinesInit == Init => LinesInv
  <1> SUFFICES ASSUME Init  PROVE LinesInv
    OBVIOUS
  <1>1. <<User(1)>> \in Seq(Lines) /\ <<>> \in Seq(Lines)
    BY DEF Lines
  <1>2. mine \in [Dirs -> [Runtimes -> Seq(Lines)]]
    BY <1>1 DEF Init
  <1>3. \A d \in Dirs : files[d].text = mine[d] /\ files[d].mcp.other = "plain"
    BY DEF Init
  <1>4. \A p \in Workers : draft[p].at = "none"
    BY NoDraftOK DEF Init
  <1>5. \A d \in WorkDirs : Kept(d)
    BY <1>2, <1>3, BareLines, WorkDirsFacts DEF Kept
  <1>6. \A p \in Workers : \A d : Sound(p, d) /\ Alone(p, d)
    BY <1>4 DEF Sound, Alone, HoldsOpen
  <1> QED  BY <1>2, <1>5, <1>6 DEF LinesInv

LEMMA LinesStep ==
  OrchestratorsApart => (SafeInv /\ DraftsFit /\ LinesInv /\ [Next]_vars => LinesInv')
  <1> SUFFICES ASSUME OrchestratorsApart, SafeInv, DraftsFit, LinesInv, [Next]_vars  PROVE LinesInv'
    OBVIOUS
  <1>1. CASE Elsewhere
    <2>1. mine' = mine /\ lossy' = lossy /\ files' = files /\ draft' = draft
      BY <1>1 DEF Elsewhere
    <2>2. ASSUME NEW d \in WorkDirs \ lossy
          PROVE  Kept(d)' /\ \A q \in Workers : Sound(q, d)' /\ Alone(q, d)'
      <3>1. Kept(d) /\ \A q \in Workers : Sound(q, d) /\ Alone(q, d)
        BY <2>2 DEF LinesInv
      <3> QED  BY <1>1, <2>1, <3>1, FarAway DEF Elsewhere
    <2> QED  BY <2>1, <2>2 DEF LinesInv
  <1> QED  BY <1>1, Writers, ReadHolds, OpenHolds, WriteHolds, FailHolds, EditHolds

LEMMA LinesImply == LinesInv => UserLinesKept
  <1> SUFFICES ASSUME LinesInv, NEW t \in Targets \ Orchestrators, NEW s \in SpecsOf[t],
                      s.dir \notin lossy, \A p \in Workers : ~HoldsOpen(p, s.dir)
               PROVE  /\ \A r \in Runtimes : HoldsLines(files[s.dir].text[r], mine[s.dir][r])
                      /\ files[s.dir].mcp.other = "plain"
    BY DEF UserLinesKept
  <1>1. s.dir \in WorkDirs
    BY WorkDirsFacts
  <1>2. Kept(s.dir)
    BY <1>1 DEF LinesInv
  <1> QED  BY <1>2, AtRest

\* Whatever ax does to the files of the workspaces, in any interleaving of processes, failures and
\* edits, the user's lines are all there, in order and once, with one section of ax's own at most, as
\* long as no rewrite in place was cut short, overlapped with another one at its write, or with an edit:
\* what is needed is that no orchestrator lives in the same place.
THEOREM LinesAreKept == OrchestratorsApart => (Spec => []UserLinesKept)
  <1> SUFFICES ASSUME OrchestratorsApart  PROVE Spec => []UserLinesKept
    OBVIOUS
  <1>1. Spec => []SafeInv
    BY SafeInit, SafeStep, PTL DEF Spec
  <1>2. Spec => []DraftsFit
    BY <1>1, FitInit, FitStep, PTL DEF Spec
  <1>3. SafeInv /\ DraftsFit /\ LinesInv /\ [Next]_vars => LinesInv'
    BY LinesStep
  <1>4. Spec => []LinesInv
    BY <1>1, <1>2, <1>3, LinesInit, PTL DEF Spec
  <1> QED  BY <1>4, LinesImply, PTL

-----------------------------------------------------------------------------
(* The texts are texts, wherever they are, and whatever was lost of them *)

LEMMA SmallestPlace ==
  ASSUME NEW T \in SUBSET Nat, T # {}
  PROVE  Min(T) \in T
  <1>1. \E x \in T : \A y \in T : ~(<<y, x>> \in OpToRel(<, Nat))
    BY NatLessThanWellFounded, WFMin, Zenon
  <1>2. PICK x \in T : \A y \in T : ~(<<y, x>> \in OpToRel(<, Nat))
    BY <1>1
  <1>3. \A y \in T : ~(y < x)
    BY <1>2 DEF OpToRel
  <1>4. \A y \in T : x <= y
    BY <1>3
  <1> QED  BY <1>4 DEF Min

\* The place of a marker that is there.
LEMMA PlaceOf ==
  ASSUME NEW file \in Seq(Tokens), NEW x, HasText(file, x)
  PROVE  LET I == {i \in 1 .. Len(file) : file[i] = x} IN I # {} /\ Min(I) \in 1 .. Len(file)
  <1> DEFINE I == {i \in 1 .. Len(file) : file[i] = x}
  <1>1. I # {} /\ I \in SUBSET Nat
    BY DEF HasText
  <1>2. Min(I) \in I
    <2> HIDE DEF I
    <2> QED  BY <1>1, SmallestPlace
  <1> QED  BY <1>1, <1>2

LEMMA BeforeAfter ==
  ASSUME NEW file \in Seq(Tokens), HasSection(file)
  PROVE  Before(file) \in Seq(Tokens) /\ After(file) \in Seq(Tokens)
  <1> DEFINE i == SelectInSeq(file, LAMBDA y : y = Start)
             k == SelectInSeq(file, LAMBDA y : y = End)
             I == {n \in 1 .. Len(file) : file[n] = Start}
             K == {n \in 1 .. Len(file) : file[n] = End}
  <1>0. I # {} /\ Min(I) \in 1 .. Len(file) /\ K # {} /\ Min(K) \in 1 .. Len(file)
    BY PlaceOf DEF HasSection
  <1>1a. i = Min(I) /\ k = Min(K)
    BY <1>0 DEF SelectInSeq
  <1>1. i \in 1 .. Len(file) /\ k \in 1 .. Len(file)
    BY <1>0, <1>1a
  <1>2. Before(file) = SubSeq(file, 1, i - 1) /\ After(file) = SubSeq(file, k + 1, Len(file))
    BY DEF Before, After
  <1> HIDE DEF i, k
  <1>3. SubSeq(file, 1, i - 1) \in Seq(Tokens)
    BY <1>1, Cut
  <1>4. SubSeq(file, k + 1, Len(file)) \in Seq(Tokens)
    BY <1>1, Cut
  <1> QED  BY <1>2, <1>3, <1>4

\* strip_managed_section and splice_managed_section on any text.
LEMMA TextsOfSections ==
  ASSUME NEW file \in Seq(Tokens), NEW t \in Targets
  PROVE  /\ StripManagedSection(file) \in Seq(Tokens)
         /\ SpliceManagedSection(file, t) \in Seq(Tokens)
         /\ HasText(SpliceManagedSection(file, t), Body(t))
  <1>1. Section(t) \in Seq(Tokens) /\ Len(Section(t)) = 3 /\ Section(t)[2] = Body(t)
    BY SectionFacts
  <1>2. ASSUME NEW a \in Seq(Tokens), NEW c \in Seq(Tokens)
        PROVE  /\ a \o Section(t) \o c \in Seq(Tokens) /\ HasText(a \o Section(t) \o c, Body(t))
    <2> DEFINE f == a \o Section(t) \o c
    <2>0. /\ f \in Seq(Tokens) /\ Len(f) = Len(a) + Len(Section(t)) + Len(c)
          /\ \A i \in 1 .. Len(Section(t)) : f[Len(a) + i] = Section(t)[i]
      <3>1. a \in Seq(Tokens) /\ Section(t) \in Seq(Tokens) /\ c \in Seq(Tokens)
        BY <1>1, <1>2
      <3> QED  BY ONLY <3>1, Glue
    <2>1. /\ f \in Seq(Tokens) /\ Len(f) = Len(a) + 3 + Len(c)
          /\ \A i \in 1 .. 3 : f[Len(a) + i] = Section(t)[i]
      <3> HIDE DEF f
      <3> QED  BY <1>1, <2>0
    <2> HIDE DEF f
    <2>2. Len(a) + 2 \in 1 .. Len(f) /\ f[Len(a) + 2] = Body(t)
      BY <1>1, <2>1
    <2>3. f \in Seq(Tokens) /\ HasText(f, Body(t))
      BY <2>1, <2>2 DEF HasText
    <2> QED  BY <2>3 DEF f
  <1>3. CASE HasSection(file)
    <2>1. Before(file) \in Seq(Tokens) /\ After(file) \in Seq(Tokens)
      BY <1>3, BeforeAfter
    <2>2. Before(file) \o After(file) \in Seq(Tokens)
      BY <2>1
    <2> QED  BY <1>2, <1>3, <2>1, <2>2 DEF StripManagedSection, SpliceManagedSection
  <1>4. CASE ~HasSection(file)
    <2>1. <<>> \in Seq(Tokens) /\ file \o Section(t) \in Seq(Tokens)
      BY <1>1
    <2>2. file \o Section(t) \o <<>> = file \o Section(t)
      BY <2>1, ConcatEmptySeq
    <2>3. /\ file \o Section(t) \o <<>> \in Seq(Tokens)
          /\ HasText(file \o Section(t) \o <<>>, Body(t))
      BY <1>2, <2>1
    <2> QED  BY <1>4, <2>2, <2>3 DEF StripManagedSection, SpliceManagedSection
  <1> QED  BY <1>3, <1>4

\* What is written stays in front.
LEMMA TextOver ==
  ASSUME NEW old \in Seq(Tokens), NEW new \in Seq(Tokens)
  PROVE  /\ Overwritten(old, new) \in Seq(Tokens)
         /\ \A x : HasText(new, x) => HasText(Overwritten(old, new), x)
  <1>1. CASE new = <<>>
    BY <1>1 DEF Overwritten, HasText
  <1>2. CASE new # <<>>
    <2> DEFINE rest == SubSeq(old, Len(new) + 1, Len(old))
    <2>1. rest \in Seq(Tokens)
      OBVIOUS
    <2> HIDE DEF rest
    <2>2. /\ new \o rest \in Seq(Tokens) /\ Len(new \o rest) = Len(new) + Len(rest)
          /\ \A i \in 1 .. Len(new) : (new \o rest)[i] = new[i]
      BY <2>1, Glue2
    <2>3. ASSUME NEW x, HasText(new, x)  PROVE HasText(new \o rest, x)
      <3>1. PICK i \in 1 .. Len(new) : new[i] = x
        BY <2>3 DEF HasText
      <3>2. Len(new) \in Nat /\ Len(rest) \in Nat
        BY <2>1
      <3>3. i \in 1 .. Len(new \o rest) /\ (new \o rest)[i] = x
        BY <2>2, <3>1, <3>2
      <3> QED  BY <3>3 DEF HasText
    <2>4. Overwritten(old, new) = new \o rest
      BY <1>2 DEF Overwritten, rest
    <2> QED  BY <2>2, <2>3, <2>4
  <1> QED  BY <1>1, <1>2

IsText(dir) == \A r \in Runtimes : dir.text[r] \in Seq(Tokens)

TextsInv == /\ \A d \in Dirs : IsText(files[d])
            /\ \A p \in Workers : draft[p].at # "none" => IsText(draft[p].new)

LEMMA TextsInit == Init => TextsInv
  <1> SUFFICES ASSUME Init  PROVE TextsInv
    OBVIOUS
  <1>1. <<User(1)>> \in Seq(Tokens) /\ <<>> \in Seq(Tokens)
    BY DEF Tokens, Lines
  <1>2. \A d \in Dirs : files[d].text = mine[d]
    BY DEF Init
  <1>3. \A d \in Dirs, r \in Runtimes : mine[d][r] \in {<<User(1)>>, <<>>}
    BY DEF Init
  <1>4. \A p \in Workers : draft[p].at = "none"
    BY NoDraftOK DEF Init
  <1> QED  BY <1>1, <1>2, <1>3, <1>4 DEF TextsInv, IsText

LEMMA EmptiedText ==
  ASSUME NEW d, IsText(d), NEW new, NEW touched
  PROVE  IsText(Emptied(d, new, touched))
  <1>1. <<>> \in Seq(Tokens)
    OBVIOUS
  <1> QED  BY <1>1 DEF IsText, Emptied

LEMMA WrittenText ==
  ASSUME NEW d, IsText(d), NEW new, IsText(new), NEW touched, NEW x \in Written(d, new, touched)
  PROVE  /\ IsText(x)
         /\ \A r \in Runtimes : r \in touched =>
               \A y : HasText(new.text[r], y) => HasText(x.text[r], y)
  <1>1. \A r \in Runtimes : x.text[r] = IF r \in touched THEN Overwritten(d.text[r], new.text[r]) ELSE d.text[r]
    BY DEF Written
  <1> QED  BY <1>1, TextOver DEF IsText

LEMMA RewrittenText ==
  ASSUME SafeInv, NEW p \in Workers, Rewrites(p), NEW d, IsText(d)
  PROVE  /\ IsText(Rewritten(p, d))
         /\ AtStep(p, "ensure") => HasText(Rewritten(p, d).text[job[p].spec.runtime], Body(job[p].t))
  <1> DEFINE t == job[p].t
  <1>1. t \in Targets /\ (AtStep(p, "ensure") => job[p].spec.runtime \in Runtimes)
    BY AtRewrite, TargetsAssumption
  <1>2. <<>> \in Seq(Tokens) /\ Section(t) \in Seq(Tokens) /\ HasText(Section(t), Body(t))
    <2>1. Section(t) \in Seq(Tokens) /\ Len(Section(t)) = 3 /\ Section(t)[2] = Body(t) /\ 2 \in 1 .. 3
      BY <1>1, SectionFacts
    <2> QED  BY <2>1 DEF HasText
  <1>3. ASSUME NEW r \in Runtimes
        PROVE  Rewritten(p, d).text[r] \in {SpliceManagedSection(d.text[r], t), StripManagedSection(d.text[r]),
                                            Section(t), <<>>}
    BY DEF Rewritten, EnsureArtifacts, WriteInstructions, CleanupWorkspaceArtifacts, RemoveInstructions,
           EnsureOrchestratorArtifacts, WriteOrchestratorPrompt, CleanupOrchestratorArtifacts
  <1>4. \A r \in Runtimes : /\ SpliceManagedSection(d.text[r], t) \in Seq(Tokens)
                            /\ StripManagedSection(d.text[r]) \in Seq(Tokens)
                            /\ HasText(SpliceManagedSection(d.text[r], t), Body(t))
    BY <1>1, TextsOfSections DEF IsText
  <1>5. IsText(Rewritten(p, d))
    BY <1>2, <1>3, <1>4 DEF IsText
  <1>6. AtStep(p, "ensure") => LET r == job[p].spec.runtime IN
          Rewritten(p, d).text[r] \in {SpliceManagedSection(d.text[r], t), Section(t)}
    BY <1>1 DEF Rewritten, EnsureArtifacts, WriteInstructions, EnsureOrchestratorArtifacts,
                WriteOrchestratorPrompt
  <1> QED  BY <1>1, <1>2, <1>4, <1>5, <1>6

LEMMA TextsStep == SafeInv /\ DraftsFit /\ TextsInv /\ [Next]_vars => TextsInv'
  <1> SUFFICES ASSUME SafeInv, DraftsFit, TextsInv, [Next]_vars  PROVE TextsInv'
    OBVIOUS
  <1>0. DOMAIN files = Dirs /\ DOMAIN draft = Workers /\ \A p \in Workers : DraftOK(draft[p])
    BY DEF SafeInv, FilesInv
  <1>1. ASSUME NEW p \in Workers, ReadFiles(p)  PROVE TextsInv'
    <2> DEFINE e == Place(p)
    <2>1. e \in Dirs /\ IsText(files[e]) /\ Rewrites(p)
      BY <1>1, AtRewrite DEF ReadFiles, TextsInv
    <2>2. IsText(Rewritten(p, files[e]))
      BY <2>1, RewrittenText
    <2>3. files' = files /\ draft' = [draft EXCEPT ![p] = [at |-> "read", new |-> Rewritten(p, files[e]),
                                                           touched |-> Touched(p, files[e])]]
      BY <1>1 DEF ReadFiles
    <2>4. draft'[p].new = Rewritten(p, files[e]) /\ \A q \in Workers \ {p} : draft'[q] = draft[q]
      BY <1>0, <2>3
    <2> QED  BY <2>2, <2>3, <2>4 DEF TextsInv, IsText
  <1>2. ASSUME NEW p \in Workers, OpenFiles(p)  PROVE TextsInv'
    <2> DEFINE e == Place(p)
               new == Emptied(files[e], draft[p].new, draft[p].touched)
    <2>1. e \in Dirs /\ IsText(files[e]) /\ IsText(draft[p].new)
      BY <1>2, AtRewrite DEF OpenFiles, TextsInv
    <2>2. IsText(new)
      BY <2>1, EmptiedText
    <2>3. files' = [files EXCEPT ![e] = new] /\ draft' = [draft EXCEPT ![p] = [draft[p] EXCEPT !.at = "open"]]
      BY <1>2 DEF OpenFiles
    <2>4. draft'[p].new = draft[p].new /\ \A q \in Workers \ {p} : draft'[q] = draft[q]
      BY <1>0, <2>3 DEF DraftOK
    <2>5. \A d \in Dirs : files'[d] = IF d = e THEN new ELSE files[d]
      BY <1>0, <2>3
    <2> HIDE DEF new, e
    <2> QED  BY <2>1, <2>2, <2>4, <2>5 DEF TextsInv, IsText
  <1>3. ASSUME NEW p \in Workers, NEW e \in Dirs, NEW new, IsText(new), files' = [files EXCEPT ![e] = new],
               draft' = [draft EXCEPT ![p] = NoDraft]
        PROVE  TextsInv'
    <2>1. draft'[p].at = "none" /\ \A q \in Workers \ {p} : draft'[q] = draft[q]
      BY <1>0, <1>3, NoDraftOK
    <2>2. \A d \in Dirs : files'[d] = IF d = e THEN new ELSE files[d]
      BY <1>0, <1>3
    <2> QED  BY <1>3, <2>1, <2>2 DEF TextsInv, IsText
  <1>4. ASSUME NEW p \in Workers, WriteFiles(p)  PROVE TextsInv'
    <2>1. Place(p) \in Dirs /\ IsText(files[Place(p)]) /\ IsText(draft[p].new)
      BY <1>4, AtRewrite DEF WriteFiles, TextsInv
    <2>2. PICK dir \in Written(files[Place(p)], draft[p].new, draft[p].touched) :
            files' = [files EXCEPT ![Place(p)] = dir]
      BY <1>4 DEF WriteFiles
    <2>3. IsText(dir)
      BY <2>1, <2>2, WrittenText
    <2>4. draft' = [draft EXCEPT ![p] = NoDraft]
      BY <1>4 DEF WriteFiles
    <2> QED  BY <1>3, <2>1, <2>2, <2>3, <2>4
  <1>5. ASSUME NEW p \in Workers, RewriteFails(p)  PROVE TextsInv'
    <2>1. Place(p) \in Dirs /\ IsText(files[Place(p)]) /\ IsText(draft[p].new)
      BY <1>5, AtRewrite DEF RewriteFails, TextsInv
    <2>2. PICK done \in SUBSET draft[p].touched :
            \E now \in {files[Place(p)], Emptied(files[Place(p)], draft[p].new, done)} :
              \E dir \in Written(now, draft[p].new, done) : files' = [files EXCEPT ![Place(p)] = dir]
      BY <1>5, FailedWrite
    <2>3. PICK now \in {files[Place(p)], Emptied(files[Place(p)], draft[p].new, done)} :
            \E dir \in Written(now, draft[p].new, done) : files' = [files EXCEPT ![Place(p)] = dir]
      BY <2>2
    <2>4. PICK dir \in Written(now, draft[p].new, done) : files' = [files EXCEPT ![Place(p)] = dir]
      BY <2>3
    <2>5. IsText(now)
      BY <2>1, <2>3, EmptiedText
    <2>6. IsText(dir)
      BY <2>1, <2>4, <2>5, WrittenText
    <2>7. draft' = [draft EXCEPT ![p] = NoDraft]
      BY <1>5 DEF RewriteFails
    <2> QED  BY <1>3, <2>1, <2>4, <2>6, <2>7
  <1>6. ASSUME NEW e \in Dirs, NEW q \in Runtimes, EditFile(e, q)  PROVE TextsInv'
    <2>1. IsDir(files[e]) /\ User(2) \in Tokens /\ draft' = draft
      BY <1>6 DEF SafeInv, FilesInv, DirOK, Tokens, Lines, EditFile
    <2>2. files' = [files EXCEPT ![e] = [files[e] EXCEPT !.text =
                                           [files[e].text EXCEPT ![q] = Append(files[e].text[q], User(2))]]]
      BY <1>6 DEF EditFile
    <2>3. ASSUME NEW d \in Dirs, NEW r \in Runtimes  PROVE files'[d].text[r] \in Seq(Tokens)
      <3>1. files[d].text[r] \in Seq(Tokens)
        BY DEF TextsInv, IsText
      <3>2. CASE d = e /\ r = q
        <4>1. files'[d].text[r] = Append(files[d].text[r], User(2))
          BY <1>0, <2>1, <2>2, <3>2 DEF IsDir
        <4> QED  BY <2>1, <3>1, <4>1
      <3>3. CASE d # e \/ r # q
        <4>1. files'[d].text[r] = files[d].text[r]
          BY <1>0, <2>1, <2>2, <3>3 DEF IsDir
        <4> QED  BY <3>1, <4>1
      <3> QED  BY <3>2, <3>3
    <2> QED  BY <2>1, <2>3 DEF TextsInv, IsText
  <1>7. CASE Elsewhere
    BY <1>7 DEF Elsewhere, TextsInv, IsText
  <1> QED  BY <1>1, <1>2, <1>4, <1>5, <1>6, <1>7, Writers

-----------------------------------------------------------------------------
(* What a pass owes to a target *)

Served(t) == pass.want[t] # Absent =>
               /\ Serves(files[pass.want[t].dir], t, pass.want[t].runtime)
               /\ pass.want[t].runtime = "codex" => <<t, pass.want[t].dir>> \in homes
Runs(t)    == pass.want[t] # Absent /\ pass.running /\ Managed(t) => Live(t)
Renewed(t) == pass.want[t] # Absent /\ pass.running /\ t \in pass.changed => session[t].spec = pass.want[t]
Stopped(t) == pass.want[t] = Absent /\ pass.prev[t] # Absent => ~Live(t)
CleanedUp(t) == pass.prev[t] # Absent /\ (pass.want[t] = Absent \/ pass.prev[t].dir # pass.want[t].dir) =>
                  /\ files[pass.prev[t].dir].mcp.ax # t
                  /\ <<t, pass.prev[t].dir>> \notin homes

Done(t) == Served(t) /\ Runs(t) /\ Renewed(t) /\ Stopped(t) /\ CleanedUp(t)

Has(steps, s) == \E i \in 1 .. Len(steps) : steps[i] = s
Later(steps, a, b) == \A i \in 1 .. Len(steps) : steps[i] = a => \E k \in i + 1 .. Len(steps) : steps[k] = b

\* What is not done yet is what the steps that are left will do, and none of them undoes
\* what no later one does again.
UnderWay(t, steps) ==
  /\ Served(t) \/ Has(steps, "ensure")
  /\ Runs(t) \/ Has(steps, "create")
  /\ Renewed(t) \/ (Has(steps, "create") /\ (Has(steps, "destroy") \/ ~Live(t)))
  /\ Stopped(t) \/ Has(steps, "destroy")
  /\ CleanedUp(t) \/ Has(steps, "wipe")
  /\ Wanted(t) => Later(steps, "wipe", "ensure")
  /\ Wanted(t) /\ pass.running => Later(steps, "destroy", "create")
  /\ Wanted(t) /\ Has(steps, "destroy") => Managed(t)

\* While nobody disturbs the pass.
QuietInv ==
  quiet /\ pass.pc # "off" =>
    /\ \A t \in pass.todo : session[t].st = pass.snap[t] /\ t \notin pass.blocked /\ t \notin pass.changed
    /\ \A t \in Targets \ (pass.todo \cup pass.blocked) :
         /\ pass.next[t] = pass.want[t]
         /\ Done(t) \/ (Busy(Reconciler) /\ job[Reconciler].t = t)
    /\ Busy(Reconciler) =>
         LET t == job[Reconciler].t IN
           /\ t \notin pass.todo /\ t \notin pass.blocked
           /\ job[Reconciler].spec = pass.want[t]
           /\ pass.prev[t] # Absent => job[Reconciler].wipe = pass.prev[t].dir
           /\ Range(job[Reconciler].steps) \subseteq {"destroy", "wipe", "ensure", "create"}
           /\ UnderWay(t, job[Reconciler].steps)
    /\ pass.pc = "saved" => disk.recs = pass.next /\ pass.todo = {}

\* What the pass is going to write will serve the target, or is rid of it, and while nobody disturbs it
\* no one else writes to the .mcp.json it has read.
Promised ==
  LET p == Reconciler  new == draft[p].new  touched == draft[p].touched IN
    draft[p].at # "none" =>
      /\ AtStep(p, "ensure") =>
           /\ HasText(new.text[job[p].spec.runtime], Body(job[p].t)) /\ new.mcp.ax = job[p].t
           /\ "mcp" \in touched /\ job[p].spec.runtime \in touched
           /\ quiet /\ draft[p].at = "open" => files[Place(p)].mcp = TornMcp
      /\ AtStep(p, "wipe") =>
           /\ new.mcp.ax = NoOne
           /\ quiet /\ "mcp" \notin touched => files[Place(p)].mcp.ax = NoOne

ConvInv == SafeInv /\ DraftsFit /\ TextsInv /\ Promised /\ QuietInv

LEMMA QuietImplies == SafeInv /\ QuietInv => PassConverges
  <1> SUFFICES ASSUME SafeInv, QuietInv, pass.pc = "saved", quiet, NEW t \in Targets \ pass.blocked
               PROVE  LET want == pass.want[t] IN
                        /\ disk.recs[t] = want
                        /\ want # Absent => /\ Serves(files[want.dir], t, want.runtime)
                                            /\ want.runtime = "codex" => <<t, want.dir>> \in homes
                                            /\ pass.running /\ Managed(t) => Live(t)
                                            /\ pass.running /\ t \in pass.changed =>
                                                   session[t].spec = want
                        /\ want = Absent /\ pass.prev[t] # Absent => ~Live(t)
                        /\ pass.prev[t] # Absent /\ (want = Absent \/ pass.prev[t].dir # want.dir) =>
                               /\ files[pass.prev[t].dir].mcp.ax # t
                               /\ <<t, pass.prev[t].dir>> \notin homes
    BY DEF PassConverges
  <1>1. ~Busy(Reconciler)
    BY DEF SafeInv, PassInv
  <1>2. t \in Targets \ (pass.todo \cup pass.blocked) /\ disk.recs = pass.next
    BY DEF QuietInv
  <1>3. pass.next[t] = pass.want[t] /\ Done(t)
    BY <1>1, <1>2 DEF QuietInv
  <1> QED  BY <1>2, <1>3 DEF Done, Served, Runs, Renewed, Stopped, CleanedUp

-----------------------------------------------------------------------------
(* What the pass has read and will write *)

LEMMA QuietStarts ==
  ASSUME SafeInv, DraftsFit, [Next]_vars, quiet', draft[Reconciler].at # "none"
  PROVE  quiet
  <1>1. ASSUME NEW running, NEW disruptive, ReconcileBegin(running, disruptive)  PROVE FALSE
    <2>1. pass.pc = "off" /\ ~Busy(Reconciler)
      BY <1>1 DEF ReconcileBegin, SafeInv, PassInv
    <2> QED  BY <2>1 DEF DraftsFit, Rewrites, AtStep, Workers
  <1>2. CASE UNCHANGED vars
    BY <1>2 DEF vars
  <1>3. ASSUME NEW p \in Workers, Calls(p)  PROVE quiet
    BY <1>3 DEF Calls, Destroy, ReadFiles, OpenFiles, WriteFiles, CreateInner, WakeWorkspace, CallFails,
                RewriteFails, Disturbs
  <1>4. ASSUME NEW p \in Procs, Operate(p)  PROVE FALSE
    BY <1>4 DEF Operate, StartNamed, StopNamed, RestartNamed, Refresh, AgentStart, AgentStop, AgentRestart,
                DispatchRunnableWork, RefreshDisabledRoot, RefreshSession, Begin
  <1>5. ASSUME Reconcile  PROVE quiet
    BY <1>1, <1>5 DEF Reconcile, VisitMatching, VisitChanged, VisitRemoved, VisitBlocked, Visiting,
                      SaveRuntimeState, ReconcileEnd, SaveFails
  <1>6. ASSUME Environment  PROVE quiet
    BY <1>6 DEF Environment, EditConfig, MoveSocket, EditFile, SessionMoves
  <1> QED  BY <1>2, <1>3, <1>4, <1>5, <1>6 DEF Next

\* Its draft and its job stay, and so does the file while nobody disturbs.
LEMMA StillPromised ==
  ASSUME Promised, job'[Reconciler] = job[Reconciler], draft'[Reconciler] = draft[Reconciler],
         quiet' => quiet /\ files'[Place(Reconciler)].mcp = files[Place(Reconciler)].mcp
  PROVE  Promised'
  <1>1. /\ Place(Reconciler)' = Place(Reconciler)
        /\ \A s : AtStep(Reconciler, s)' <=> AtStep(Reconciler, s)
    BY SameDraft DEF AtStep, Busy
  <1> QED  BY <1>1 DEF Promised

LEMMA ReadPromises ==
  ASSUME SafeInv, TextsInv, ReadFiles(Reconciler)
  PROVE  Promised'
  <1> DEFINE p == Reconciler
             t == job[p].t
             e == Place(p)
             new == Rewritten(p, files[e])
             touched == Touched(p, files[e])
  <1>1. p \in Workers /\ Rewrites(p) /\ job' = job /\ files' = files
    BY DEF ReadFiles, Workers
  <1>2. e \in Dirs /\ t \in Targets /\ DirOK(files[e]) /\ IsText(files[e])
    BY <1>1, AtRewrite DEF SafeInv, FilesInv, TextsInv
  <1>3. draft'[p] = [at |-> "read", new |-> new, touched |-> touched]
    BY <1>1 DEF ReadFiles, SafeInv, FilesInv
  <1>4. AtStep(p, "ensure") => HasText(new.text[job[p].spec.runtime], Body(t))
    BY <1>1, <1>2, RewrittenText
  <1>5. AtStep(p, "ensure") =>
          /\ new.mcp.ax = t /\ "mcp" \in touched
          /\ job[p].spec.runtime \in touched
    <2>1. AtStep(p, "ensure") => job[p].spec.runtime \in Runtimes
      BY <1>1, <1>2, AtRewrite, TargetsAssumption
    <2> QED  BY <2>1 DEF Rewritten, Touched, EnsureArtifacts, EnsureOrchestratorArtifacts, WriteMcpConfig,
                         EnsureTouches, Everything
  <1>6. AtStep(p, "wipe") => ~AtStep(p, "ensure")
    BY DEF AtStep
  <1>7. AtStep(p, "wipe") => new.mcp = RemoveMcpConfig(files[e].mcp)
    BY <1>6 DEF Rewritten, CleanupOrchestratorArtifacts, CleanupWorkspaceArtifacts
  <1>8. RemoveMcpConfig(files[e].mcp).ax = NoOne
    BY <1>2 DEF RemoveMcpConfig, DirOK
  <1>9. AtStep(p, "wipe") /\ "mcp" \notin touched => files[e].mcp.ax = NoOne
    BY <1>6 DEF Touched, CleanupTouches, CleanupOrchestratorTouches, Entries, NoMcp, TornMcp
  <1>10. /\ e' = e /\ \A s : AtStep(p, s)' <=> AtStep(p, s)
    BY <1>1 DEF Place, AtStep, Busy
  <1> HIDE DEF new, touched, e
  <1>11. draft'[p].at = "read" /\ draft'[p].new = new /\ draft'[p].touched = touched
    BY <1>3
  <1> QED  BY <1>1, <1>4, <1>5, <1>7, <1>8, <1>9, <1>10, <1>11 DEF Promised, e

LEMMA OpenPromises ==
  ASSUME SafeInv, Promised, OpenFiles(Reconciler)
  PROVE  Promised'
  <1> DEFINE p == Reconciler
             t == job[p].t
             e == Place(p)
             new == draft[p].new
             touched == draft[p].touched
  <1>1. p \in Workers /\ Rewrites(p) /\ job' = job /\ draft[p].at = "read" /\ (quiet' => quiet)
    BY DEF OpenFiles, Workers, Disturbs, SafeInv
  <1>2. e \in Dirs /\ t \in Targets /\ DOMAIN files = Dirs /\ DOMAIN draft = Workers /\ DraftOK(draft[p])
    BY <1>1, AtRewrite DEF SafeInv, FilesInv
  <1>3. draft'[p] = [draft[p] EXCEPT !.at = "open"]
    BY <1>1, <1>2 DEF OpenFiles
  <1>4. draft'[p].at = "open" /\ draft'[p].new = new /\ draft'[p].touched = touched
    BY <1>2, <1>3 DEF DraftOK
  <1>5. files'[e] = Emptied(files[e], new, touched)
    BY <1>2 DEF OpenFiles
  <1>6. /\ e' = e /\ \A s : AtStep(p, s)' <=> AtStep(p, s)
    BY <1>1 DEF Place, AtStep, Busy
  <1>7. AtStep(p, "ensure") => files'[e].mcp = TornMcp
    <2> SUFFICES ASSUME AtStep(p, "ensure")  PROVE files'[e].mcp = TornMcp
      OBVIOUS
    <2>1. new.mcp.ax = t /\ "mcp" \in touched
      BY <1>1 DEF Promised
    <2>2. new.mcp # NoMcp
      BY <1>2, <2>1, TargetsAssumption DEF NoMcp
    <2> QED  BY <1>5, <2>1, <2>2 DEF Emptied
  <1>8. "mcp" \notin touched => files'[e].mcp = files[e].mcp
    BY <1>5 DEF Emptied
  <1> QED  BY <1>1, <1>4, <1>6, <1>7, <1>8 DEF Promised

LEMMA PromisedStep ==
  ASSUME SafeInv, DraftsFit, TextsInv, Promised, [Next]_vars
  PROVE  Promised'
  <1>0. Reconciler \in Workers /\ DOMAIN draft = Workers /\ DOMAIN files = Dirs
    BY DEF Workers, SafeInv, FilesInv
  <1>1. CASE draft[Reconciler].at = "none" /\ draft'[Reconciler] = draft[Reconciler]
    BY <1>1 DEF Promised
  <1>2. ASSUME NEW p \in Workers \ {Reconciler}, ReadFiles(p) \/ OpenFiles(p) \/ WriteFiles(p) \/ RewriteFails(p)
        PROVE  Promised'
    <2>1. ~quiet' /\ draft'[Reconciler] = draft[Reconciler]
      BY <1>0, <1>2 DEF ReadFiles, OpenFiles, WriteFiles, RewriteFails, Disturbs
    <2>2. job' = job \/ Advance(p) \/ Abandon(p)
      BY <1>2 DEF ReadFiles, OpenFiles, WriteFiles, RewriteFails, Fails
    <2>3. job'[Reconciler] = job[Reconciler]
      BY <1>0, <1>2, <2>2, OthersWait
    <2> QED  BY <2>1, <2>3, StillPromised
  <1>3. CASE WriteFiles(Reconciler) \/ RewriteFails(Reconciler)
    <2>1. draft'[Reconciler] = NoDraft
      BY <1>0, <1>3 DEF WriteFiles, RewriteFails
    <2> QED  BY <2>1, NoDraftOK DEF Promised
  <1>4. ASSUME NEW d \in Dirs, NEW r \in Runtimes, EditFile(d, r)  PROVE Promised'
    <2>1. job' = job /\ draft' = draft /\ quiet' = quiet
      BY <1>4 DEF EditFile
    <2>2. CASE draft[Reconciler].at = "none"
      BY <1>1, <2>1, <2>2
    <2>3. CASE draft[Reconciler].at # "none"
      <3>1. Place(Reconciler) \in Dirs
        BY <1>0, <2>3, AtRewrite DEF DraftsFit
      <3>2. files' = [files EXCEPT ![d] = [files[d] EXCEPT !.text =
                                             [files[d].text EXCEPT ![r] = Append(files[d].text[r], User(2))]]]
        BY <1>4 DEF EditFile
      <3>3. IsDir(files[d])
        BY DEF SafeInv, FilesInv, DirOK
      <3>4. files'[Place(Reconciler)].mcp = files[Place(Reconciler)].mcp
        BY <1>0, <3>1, <3>2, <3>3 DEF IsDir
      <3> QED  BY <2>1, <3>4, StillPromised
    <2> QED  BY <2>2, <2>3
  <1>5. CASE Elsewhere
    <2>1. files' = files /\ draft' = draft
      BY <1>5 DEF Elsewhere
    <2>2. CASE draft[Reconciler].at # "none"
      BY <1>0, <1>5, <2>1, <2>2, QuietStarts, StillPromised DEF Elsewhere
    <2> QED  BY <1>1, <2>1, <2>2
  <1> QED  BY <1>0, <1>2, <1>3, <1>4, <1>5, Writers, ReadPromises, OpenPromises

-----------------------------------------------------------------------------
(* One call of the pass *)

LEMMA TailSteps ==
  ASSUME NEW steps \in Seq(CallNames), steps # <<>>
  PROVE  /\ Tail(steps) \in Seq(CallNames)
         /\ \A s : Has(steps, s) <=> Head(steps) = s \/ Has(Tail(steps), s)
         /\ \A a, b : Later(steps, a, b) => /\ Later(Tail(steps), a, b)
                                            /\ Head(steps) = a => Has(Tail(steps), b)
         /\ Range(Tail(steps)) \subseteq Range(steps)
  <1> DEFINE T == Tail(steps)
             n == Len(steps)
  <1>1. /\ n \in Nat /\ n # 0 /\ T \in Seq(CallNames) /\ Len(T) = n - 1 /\ Head(steps) = steps[1]
        /\ DOMAIN T = 1 .. n - 1 /\ DOMAIN steps = 1 .. n
        /\ \A i \in 1 .. n - 1 : T[i] = steps[i + 1]
    OBVIOUS
  <1>1a. \A i \in 2 .. n : i - 1 \in 1 .. n - 1 /\ steps[i] = T[i - 1]
    BY <1>1
  <1> HIDE DEF T
  <1>2. ASSUME NEW s  PROVE Has(steps, s) <=> Head(steps) = s \/ Has(T, s)
    <2>1. ASSUME Has(steps, s)  PROVE Head(steps) = s \/ Has(T, s)
      <3>1. PICK i \in 1 .. n : steps[i] = s
        BY <2>1 DEF Has
      <3>2. CASE i = 1
        BY <1>1, <3>1, <3>2
      <3>3. CASE i # 1
        <4>1. i - 1 \in 1 .. Len(T) /\ T[i - 1] = s
          BY <1>1, <1>1a, <3>1, <3>3
        <4> QED  BY <4>1 DEF Has
      <3> QED  BY <3>2, <3>3
    <2>2. ASSUME Head(steps) = s \/ Has(T, s)  PROVE Has(steps, s)
      <3>1. CASE Head(steps) = s
        BY <1>1, <3>1 DEF Has
      <3>2. CASE Has(T, s)
        <4>1. PICK i \in 1 .. Len(T) : T[i] = s
          BY <3>2 DEF Has
        <4>2. i + 1 \in 1 .. n /\ steps[i + 1] = s
          BY <1>1, <4>1
        <4> QED  BY <4>2 DEF Has
      <3> QED  BY <2>2, <3>1, <3>2
    <2> QED  BY <2>1, <2>2
  <1>3. ASSUME NEW a, NEW b, Later(steps, a, b)
        PROVE  Later(T, a, b) /\ (Head(steps) = a => Has(T, b))
    <2>1. ASSUME NEW i \in 1 .. Len(T), T[i] = a  PROVE \E k \in i + 1 .. Len(T) : T[k] = b
      <3>1. i + 1 \in 1 .. n /\ steps[i + 1] = a
        BY <1>1, <2>1
      <3>2. PICK k \in (i + 1) + 1 .. n : steps[k] = b
        BY <1>3, <3>1 DEF Later
      <3>3. k - 1 \in i + 1 .. Len(T) /\ T[k - 1] = b
        BY <1>1, <1>1a, <3>2
      <3> QED  BY <3>3
    <2>2. ASSUME Head(steps) = a  PROVE Has(T, b)
      <3>1. 1 \in 1 .. n /\ steps[1] = a
        BY <1>1, <2>2
      <3>2. PICK k \in 1 + 1 .. n : steps[k] = b
        BY <1>3, <3>1 DEF Later
      <3>3. k - 1 \in 1 .. Len(T) /\ T[k - 1] = b
        BY <1>1, <1>1a, <3>2
      <3> QED  BY <3>3 DEF Has
    <2> QED  BY <2>1, <2>2 DEF Later
  <1>4. Range(T) \subseteq Range(steps)
    BY <1>1 DEF Range
  <1> QED  BY <1>1, <1>2, <1>3, <1>4 DEF T

\* The pass's job after a call that went well.
LEMMA ReconcilerAdvances ==
  ASSUME JobsInv, Busy(Reconciler), Advance(Reconciler)
  PROVE  /\ job'[Reconciler].steps = Tail(job[Reconciler].steps)
         /\ job'[Reconciler].steps # <<>> =>
              /\ job'[Reconciler].t = job[Reconciler].t /\ job'[Reconciler].spec = job[Reconciler].spec
              /\ job'[Reconciler].wipe = job[Reconciler].wipe
  <1> DEFINE j == job[Reconciler]
  <1>1. Reconciler \in Workers /\ j \in Jobs /\ JobOK(j) /\ job \in [Workers -> Jobs]
    BY DEF JobsInv, Workers
  <1>2. j.steps \in Seq(CallNames) /\ j.steps # <<>>
    BY <1>1 DEF JobOK, Fit, Busy
  <1>3. CASE Len(j.steps) = 1
    <2>1. job'[Reconciler] = Idle
      BY <1>1, <1>3 DEF Advance, Abandon
    <2>2. Idle.steps = <<>>
      BY DEF Idle
    <2>3. Tail(j.steps) = <<>>
      <3>1. Tail(j.steps) \in Seq(CallNames) /\ Len(Tail(j.steps)) = 0
        BY <1>2, <1>3
      <3> QED  BY <3>1, EmptySeq
    <2> QED  BY <2>1, <2>2, <2>3
  <1>4. CASE Len(j.steps) # 1
    <2>1. job'[Reconciler] = [j EXCEPT !.steps = Tail(j.steps)]
      BY <1>1, <1>4 DEF Advance
    <2> QED  BY <1>1, <2>1 DEF Jobs
  <1> QED  BY <1>3, <1>4

\* A target that a step is not about stays done.
Apart(u) ==
  /\ session'[u] = session[u]
  /\ \A s \in SpecsOf[u] : files'[s.dir] = files[s.dir]
  /\ \A d : <<u, d>> \in homes' <=> <<u, d>> \in homes

LEMMA DoneFrame ==
  ASSUME NEW u \in Targets, Own(pass.want), Own(pass.prev), Done(u), Apart(u),
         pass'.want = pass.want, pass'.prev = pass.prev, pass'.running = pass.running,
         u \in pass'.changed <=> u \in pass.changed
  PROVE  Done(u)'
  <1>1. /\ pass.want[u] # Absent => pass.want[u] \in SpecsOf[u]
        /\ pass.prev[u] # Absent => pass.prev[u] \in SpecsOf[u]
    BY SpecsFacts DEF Own
  <1>2. Served(u)'
    BY <1>1 DEF Done, Served, Apart, Serves
  <1>3. Runs(u)' /\ Renewed(u)' /\ Stopped(u)'
    BY DEF Done, Runs, Renewed, Stopped, Apart, Live
  <1>4. CleanedUp(u)'
    BY <1>1 DEF Done, CleanedUp, Apart
  <1> QED  BY <1>2, <1>3, <1>4 DEF Done

LEMMA NothingLeft ==
  ASSUME NEW t, UnderWay(t, <<>>)
  PROVE  Done(t)
  BY DEF UnderWay, Done, Has

\* A call of the pass that is about t and keeps its promises to it.
LEMMA CallKeepsQuiet ==
  ASSUME ConvInv, quiet, pass.pc # "off", Busy(Reconciler), Advance(Reconciler),
         pass' = pass, disk' = disk,
         NEW t, t = job[Reconciler].t, NEW left, left = Tail(job[Reconciler].steps),
         \A u \in Targets \ {t} : Apart(u),
         UnderWay(t, left)'
  PROVE  QuietInv'
  <1> DEFINE j == job[Reconciler]
             k == job'[Reconciler]
  <1>1. JobsInv /\ Own(pass.want) /\ Own(pass.prev) /\ pass.pc = "visit" /\ pass.todo \subseteq Targets
    BY NoPassOff DEF ConvInv, SafeInv, PassInv, Passes
  <1>2. /\ k.steps = left
        /\ k.steps # <<>> => k.t = t /\ k.spec = j.spec /\ k.wipe = j.wipe
    BY <1>1, ReconcilerAdvances
  <1>3. j.steps \in Seq(CallNames) /\ j.steps # <<>> /\ t \in Targets
    BY <1>1 DEF Busy, JobsInv, JobOK, Fit, Workers
  <1>4. Range(left) \subseteq Range(j.steps)
    BY <1>3, TailSteps
  <1>5. /\ t \notin pass.todo /\ t \notin pass.blocked /\ j.spec = pass.want[t]
        /\ pass.prev[t] # Absent => j.wipe = pass.prev[t].dir
        /\ Range(j.steps) \subseteq {"destroy", "wipe", "ensure", "create"}
    BY DEF ConvInv, QuietInv
  <1>6. \A u \in pass.todo : /\ session'[u].st = pass.snap[u] /\ u \notin pass.blocked
                             /\ u \notin pass.changed
    BY <1>1, <1>5 DEF ConvInv, QuietInv, Apart
  <1>7. ASSUME NEW u \in Targets \ (pass.todo \cup pass.blocked)
        PROVE  pass.next[u] = pass.want[u] /\ (Done(u)' \/ (k.steps # <<>> /\ k.t = u))
    <2>1. pass.next[u] = pass.want[u]
      BY <1>7 DEF ConvInv, QuietInv
    <2>2. CASE u = t
      <3>1. CASE left = <<>>
        <4>1. UnderWay(t, <<>>)'
          BY <3>1
        <4>2. Done(t)'
          BY <4>1 DEF UnderWay, Done, Has
        <4> QED  BY <2>1, <2>2, <4>2
      <3>2. CASE left # <<>>
        BY <1>2, <2>1, <2>2, <3>2
      <3> QED  BY <3>1, <3>2
    <2>3. CASE u # t
      <3>1. Done(u)
        BY <2>3 DEF ConvInv, QuietInv
      <3>2. Done(u)'
        BY <1>1, <2>3, <3>1, DoneFrame
      <3> QED  BY <2>1, <3>2
    <2> QED  BY <2>2, <2>3
  <1>8. k.steps # <<>> =>
          /\ k.t \notin pass.todo /\ k.t \notin pass.blocked /\ k.spec = pass.want[k.t]
          /\ pass.prev[k.t] # Absent => k.wipe = pass.prev[k.t].dir
          /\ Range(k.steps) \subseteq {"destroy", "wipe", "ensure", "create"}
          /\ k.t = t /\ k.steps = left
    BY <1>2, <1>4, <1>5
  <1> QED  BY <1>1, <1>6, <1>7, <1>8 DEF QuietInv, Busy

\* A step in the middle of a call.
LEMMA OpenKeepsQuiet ==
  ASSUME ConvInv, quiet, pass.pc # "off", Busy(Reconciler), job' = job, pass' = pass, disk' = disk,
         NEW t, t = job[Reconciler].t, \A u \in Targets \ {t} : Apart(u),
         UnderWay(t, job[Reconciler].steps)'
  PROVE  QuietInv'
  <1> DEFINE j == job[Reconciler]
  <1>1. Own(pass.want) /\ Own(pass.prev) /\ pass.pc = "visit" /\ pass.todo \subseteq Targets
    BY NoPassOff DEF ConvInv, SafeInv, PassInv, Passes
  <1>2. /\ t \notin pass.todo /\ t \notin pass.blocked /\ j.spec = pass.want[t]
        /\ pass.prev[t] # Absent => j.wipe = pass.prev[t].dir
        /\ Range(j.steps) \subseteq {"destroy", "wipe", "ensure", "create"}
    BY DEF ConvInv, QuietInv
  <1>3. \A u \in pass.todo : /\ session'[u].st = pass.snap[u] /\ u \notin pass.blocked
                             /\ u \notin pass.changed
    BY <1>1, <1>2 DEF ConvInv, QuietInv, Apart
  <1>4. ASSUME NEW u \in Targets \ (pass.todo \cup pass.blocked)
        PROVE  pass.next[u] = pass.want[u] /\ (Done(u)' \/ j.t = u)
    <2>1. pass.next[u] = pass.want[u] /\ (Done(u) \/ u = t)
      BY <1>4 DEF ConvInv, QuietInv
    <2>2. CASE u # t
      BY <1>1, <2>1, <2>2, DoneFrame
    <2> QED  BY <2>1, <2>2
  <1> QED  BY <1>1, <1>2, <1>3, <1>4 DEF QuietInv, Busy

\* What the pass's call at hand finds, in the terms of the promises.
Found(c, t, left) ==
  /\ t \in Targets /\ t = job[Reconciler].t
  /\ \A s : Has(job[Reconciler].steps, s) <=> c = s \/ Has(left, s)
  /\ \A a, b : Later(job[Reconciler].steps, a, b) => Later(left, a, b) /\ (c = a => Has(left, b))
  /\ UnderWay(t, job[Reconciler].steps)
  /\ job[Reconciler].spec = pass.want[t] /\ pass.want[t] \in Specs(t) /\ pass.prev[t] \in Specs(t)
  /\ pass.prev[t] # Absent => job[Reconciler].wipe = pass.prev[t].dir
  /\ c \in {"destroy", "wipe", "ensure", "create"}
  /\ c \in {"ensure", "create"} => Wanted(t)
  /\ c = "wipe" => \E s \in SpecsOf[t] : job[Reconciler].wipe = s.dir
  /\ c = "create" => ~Has(left, "destroy")

LEMMA FoundAtCall ==
  ASSUME ConvInv, quiet, pass.pc # "off", NEW c, AtStep(Reconciler, c),
         NEW t, t = job[Reconciler].t, NEW left, left = Tail(job[Reconciler].steps)
  PROVE  Found(c, t, left) /\ Busy(Reconciler)
  <1> DEFINE j == job[Reconciler]
  <1>1. Reconciler \in Workers /\ JobsInv
    BY DEF Workers, ConvInv, SafeInv
  <1>2. /\ Busy(Reconciler) /\ j \in Jobs /\ JobOK(j) /\ t \in Targets /\ j.spec \in Specs(t)
        /\ 1 \in 1 .. Len(j.steps) /\ j.steps[1] = c /\ c \in Range(j.steps)
    BY <1>1, AtCall
  <1>3. j.steps \in Seq(CallNames) /\ j.steps # <<>> /\ Head(j.steps) = c
    BY <1>2 DEF JobOK, Fit, Busy, AtStep
  <1>4. /\ \A s : Has(j.steps, s) <=> c = s \/ Has(left, s)
        /\ \A a, b : Later(j.steps, a, b) => Later(left, a, b) /\ (c = a => Has(left, b))
    BY <1>3, TailSteps
  <1>5. /\ UnderWay(t, j.steps) /\ j.spec = pass.want[t]
        /\ pass.prev[t] # Absent => j.wipe = pass.prev[t].dir
        /\ c \in {"destroy", "wipe", "ensure", "create"}
    BY <1>2 DEF ConvInv, QuietInv
  <1>6. pass.prev[t] \in Specs(t)
    BY <1>2, NoPassOff DEF ConvInv, SafeInv, PassInv, Own
  <1>7. /\ c \in {"ensure", "create"} => Wanted(t)
        /\ c = "wipe" => \E s \in SpecsOf[t] : j.wipe = s.dir
    BY <1>2, <1>5 DEF JobOK, Wanted
  <1>8. c = "create" => ~Has(left, "destroy")
    <2> SUFFICES ASSUME c = "create"  PROVE ~Has(left, "destroy")
      OBVIOUS
    <2>1. \A k \in 2 .. Len(j.steps) : j.steps[k] = "wake"
      BY <1>2 DEF JobOK, Fit
    <2>2. Len(left) = Len(j.steps) - 1 /\ \A i \in 1 .. Len(left) : left[i] = j.steps[i + 1]
      BY <1>3
    <2>3. Len(j.steps) \in Nat
      BY <1>3
    <2>4. ASSUME NEW i \in 1 .. Len(left)  PROVE left[i] = "wake"
      <3>1. i + 1 \in 2 .. Len(j.steps)
        BY <2>2, <2>3
      <3> QED  BY <2>1, <2>2, <3>1
    <2> QED  BY <2>4 DEF Has
  <1> QED  BY <1>2, <1>4, <1>5, <1>6, <1>7, <1>8 DEF Found

LEMMA DestroyPromise ==
  ASSUME SafeInv, NEW t, NEW left, Found("destroy", t, left), Destroy(Reconciler)
  PROVE  UnderWay(t, left)' /\ \A u \in Targets \ {t} : Apart(u)
  <1>1. /\ session' = [session EXCEPT ![t] = NoSession] /\ files' = files /\ homes' = homes /\ pass' = pass
        /\ DOMAIN session = Targets /\ t \in Targets
    BY DEF Destroy, Found, SafeInv, SessionInv
  <1>2. session'[t] = NoSession /\ ~Live(t)'
    BY <1>1, NoSessionOK DEF Live
  <1>3. /\ Served(t)' <=> Served(t)
        /\ CleanedUp(t)' <=> CleanedUp(t)
        /\ Wanted(t)' <=> Wanted(t)
    BY <1>1 DEF Served, CleanedUp, Wanted
  <1>4. Served(t)' \/ Has(left, "ensure")
    BY <1>3 DEF Found, UnderWay
  <1>5. Wanted(t) /\ pass.running => Has(left, "create")
    BY DEF Found, UnderWay
  <1>6. Runs(t)' \/ Has(left, "create")
    BY <1>1, <1>5 DEF Runs, Wanted
  <1>7. Renewed(t)' \/ (Has(left, "create") /\ ~Live(t)')
    BY <1>1, <1>2, <1>5 DEF Renewed, Wanted
  <1>8. Stopped(t)'
    BY <1>2 DEF Stopped
  <1>9. CleanedUp(t)' \/ Has(left, "wipe")
    BY <1>3 DEF Found, UnderWay
  <1>10. /\ Wanted(t) => Later(left, "wipe", "ensure")
         /\ Wanted(t) /\ pass.running => Later(left, "destroy", "create")
         /\ Wanted(t) /\ Has(left, "destroy") => Managed(t)
    BY DEF Found, UnderWay
  <1>11. UnderWay(t, left)'
    BY <1>1, <1>3, <1>4, <1>6, <1>7, <1>8, <1>9, <1>10 DEF UnderWay
  <1> QED  BY <1>1, <1>11 DEF Apart

\* Only the files of the directory at hand change.
LEMMA OnlyThere ==
  ASSUME DirectoriesApart, NEW t \in Targets, NEW s \in SpecsOf[t], NEW dir, DOMAIN files = Dirs,
         files' = [files EXCEPT ![s.dir] = dir], session' = session,
         homes' \in {homes, homes \cup {<<t, s.dir>>}, homes \ {<<t, s.dir>>}}
  PROVE  \A u \in Targets \ {t} : Apart(u)
  <1> SUFFICES ASSUME NEW u \in Targets \ {t}  PROVE Apart(u)
    OBVIOUS
  <1>1. \A q \in SpecsOf[u] : q.dir # s.dir /\ q.dir \in Dirs
    BY TargetsAssumption DEF DirectoriesApart
  <1>2. \A q \in SpecsOf[u] : files'[q.dir] = files[q.dir]
    BY <1>1
  <1>3. \A e : <<u, e>> \in homes' <=> <<u, e>> \in homes
    OBVIOUS
  <1> QED  BY <1>2, <1>3 DEF Apart

\* Opening the files is what the call will make up for.
LEMMA OpenPromise ==
  ASSUME DirectoriesApart, SafeInv, NEW t, NEW left, NEW c \in {"wipe", "ensure"}, Found(c, t, left),
         AtStep(Reconciler, c), OpenFiles(Reconciler)
  PROVE  UnderWay(t, job[Reconciler].steps)' /\ \A u \in Targets \ {t} : Apart(u)
  <1> DEFINE d == Place(Reconciler)
             steps == job[Reconciler].steps
             dir == Emptied(files[d], draft[Reconciler].new, draft[Reconciler].touched)
  <1>1. /\ files' = [files EXCEPT ![d] = dir] /\ homes' = homes
        /\ session' = session /\ pass' = pass /\ job' = job
        /\ DOMAIN files = Dirs /\ t \in Targets /\ Rewrites(Reconciler) /\ Reconciler \in Workers
    BY DEF OpenFiles, Found, SafeInv, FilesInv, Workers
  <1>2. PICK s \in SpecsOf[t] : d = s.dir
    BY <1>1, AtRewrite DEF Found
  <1>3. /\ Runs(t)' <=> Runs(t)
        /\ Renewed(t)' <=> Renewed(t)
        /\ Stopped(t)' <=> Stopped(t)
        /\ Wanted(t)' <=> Wanted(t)
        /\ Live(t)' <=> Live(t)
    BY <1>1 DEF Runs, Renewed, Stopped, Wanted, Live
  <1>4. Served(t)' \/ Has(steps, "ensure")
    <2>1. Wanted(t) => Has(steps, "ensure")
      BY DEF Found, UnderWay
    <2> QED  BY <1>1, <2>1 DEF Served, Wanted
  <1>5. CleanedUp(t)' \/ Has(steps, "wipe")
    <2>1. CASE c = "wipe"
      BY <2>1 DEF Found
    <2>2. CASE c = "ensure"
      <3>1. d = pass.want[t].dir /\ pass.want[t] # Absent
        BY <2>2 DEF Place, Found, Wanted
      <3>2. CleanedUp(t) \/ Has(steps, "wipe")
        BY DEF Found, UnderWay
      <3>3. pass.prev[t] # Absent => pass.prev[t].dir \in Dirs
        BY <1>1, SpecsFacts DEF Found
      <3>4. pass.prev[t] # Absent /\ pass.prev[t].dir # d => files'[pass.prev[t].dir] = files[pass.prev[t].dir]
        BY <1>1, <3>3
      <3>5. CleanedUp(t) => CleanedUp(t)'
        BY <1>1, <3>1, <3>4 DEF CleanedUp
      <3> QED  BY <3>2, <3>5
    <2> QED  BY <2>1, <2>2
  <1>6. /\ Runs(t) \/ Has(steps, "create")
        /\ Renewed(t) \/ (Has(steps, "create") /\ (Has(steps, "destroy") \/ ~Live(t)))
        /\ Stopped(t) \/ Has(steps, "destroy")
        /\ Wanted(t) => Later(steps, "wipe", "ensure")
        /\ Wanted(t) /\ pass.running => Later(steps, "destroy", "create")
        /\ Wanted(t) /\ Has(steps, "destroy") => Managed(t)
    BY DEF Found, UnderWay
  <1>7. UnderWay(t, steps)'
    <2>1. PICK k : k = job[Reconciler].steps
      OBVIOUS
    <2>2. UnderWay(t, k)'
      BY <1>1, <1>3, <1>4, <1>5, <1>6, <2>1 DEF UnderWay
    <2> QED  BY <1>1, <2>1, <2>2
  <1> HIDE DEF dir, d
  <1>8. \A u \in Targets \ {t} : Apart(u)
    BY <1>1, <1>2, OnlyThere
  <1> QED  BY <1>7, <1>8

LEMMA WipePromise ==
  ASSUME DirectoriesApart, SafeInv, Promised, quiet, NEW t, NEW left, Found("wipe", t, left),
         AtStep(Reconciler, "wipe"), WriteFiles(Reconciler)
  PROVE  UnderWay(t, left)' /\ \A u \in Targets \ {t} : Apart(u)
  <1> DEFINE d == job[Reconciler].wipe
             new == draft[Reconciler].new
             touched == draft[Reconciler].touched
  <1>0. ~AtStep(Reconciler, "ensure") /\ Place(Reconciler) = d
    BY DEF AtStep, Place
  <1>1. /\ homes' = homes \ {<<t, d>>} /\ session' = session /\ pass' = pass
        /\ DOMAIN files = Dirs /\ t \in Targets
    BY <1>0 DEF WriteFiles, HomesAfter, Found, SafeInv, FilesInv
  <1>1a. PICK dir \in Written(files[d], new, touched) : files' = [files EXCEPT ![d] = dir]
    BY <1>0 DEF WriteFiles
  <1>2. PICK s \in SpecsOf[t] : d = s.dir
    BY DEF Found
  <1>3. d \in Dirs
    BY <1>1, <1>2, TargetsAssumption
  <1>4. files'[d].mcp.ax # t
    <2>1. new.mcp.ax = NoOne /\ ("mcp" \notin touched => files[d].mcp.ax = NoOne)
      BY <1>0 DEF Promised, WriteFiles
    <2>2. dir.mcp \in {new.mcp, TornMcp} \/ ("mcp" \notin touched /\ dir.mcp = files[d].mcp)
      BY <1>1a DEF Written, OverwrittenMcp
    <2>3. TornMcp.ax = NoOne
      BY DEF TornMcp
    <2>4. dir.mcp.ax = NoOne
      BY <2>1, <2>2, <2>3
    <2> QED  BY <1>1, <1>1a, <1>3, <2>4, TargetsAssumption
  <1>5. /\ Runs(t)' <=> Runs(t)
        /\ Renewed(t)' <=> Renewed(t)
        /\ Stopped(t)' <=> Stopped(t)
        /\ Wanted(t)' <=> Wanted(t)
        /\ Live(t)' <=> Live(t)
    BY <1>1 DEF Runs, Renewed, Stopped, Wanted, Live
  <1>6. Served(t)' \/ Has(left, "ensure")
    BY <1>1 DEF Found, UnderWay, Served, Wanted
  <1>7. CleanedUp(t)'
    BY <1>1, <1>4 DEF Found, CleanedUp
  <1>8. /\ Runs(t) \/ Has(left, "create")
        /\ Renewed(t) \/ (Has(left, "create") /\ (Has(left, "destroy") \/ ~Live(t)))
        /\ Stopped(t) \/ Has(left, "destroy")
        /\ Wanted(t) => Later(left, "wipe", "ensure")
        /\ Wanted(t) /\ pass.running => Later(left, "destroy", "create")
        /\ Wanted(t) /\ Has(left, "destroy") => Managed(t)
    BY DEF Found, UnderWay
  <1>9. UnderWay(t, left)'
    BY <1>1, <1>5, <1>6, <1>7, <1>8 DEF UnderWay
  <1> HIDE DEF d
  <1> QED  BY <1>1, <1>1a, <1>2, <1>9, OnlyThere

LEMMA EnsurePromise ==
  ASSUME DirectoriesApart, SafeInv, TextsInv, Promised, quiet, NEW t, NEW left, Found("ensure", t, left),
         AtStep(Reconciler, "ensure"), WriteFiles(Reconciler)
  PROVE  UnderWay(t, left)' /\ \A u \in Targets \ {t} : Apart(u)
  <1> DEFINE s == pass.want[t]
             d == s.dir
             r == s.runtime
             new == draft[Reconciler].new
             touched == draft[Reconciler].touched
  <1>0. job[Reconciler].spec = s /\ Place(Reconciler) = d /\ ~AtStep(Reconciler, "wipe")
    BY DEF AtStep, Place, Found
  <1>1. /\ homes' = IF r = "codex" THEN homes \cup {<<t, d>>} ELSE homes
        /\ session' = session /\ pass' = pass
        /\ DOMAIN files = Dirs /\ t \in Targets
    BY <1>0 DEF WriteFiles, HomesAfter, Found, SafeInv, FilesInv
  <1>1a. PICK dir \in Written(files[d], new, touched) : files' = [files EXCEPT ![d] = dir]
    BY <1>0 DEF WriteFiles
  <1>2. s \in SpecsOf[t] /\ d \in Dirs /\ r \in Runtimes /\ s # Absent
    BY <1>1, SpecsFacts DEF Found, Wanted
  <1>3. Serves(dir, t, r)
    <2>1. /\ HasText(new.text[r], Body(t)) /\ new.mcp.ax = t /\ "mcp" \in touched /\ r \in touched
          /\ files[d].mcp = TornMcp
      BY <1>0 DEF Promised, WriteFiles, Found
    <2>2. IsText(files[d]) /\ IsText(new)
      BY <1>2 DEF TextsInv, WriteFiles, Workers
    <2>3. HasText(dir.text[r], Body(t))
      BY <1>1a, <1>2, <2>1, <2>2, WrittenText
    <2>4. dir.mcp = new.mcp
      BY <1>1a, <2>1 DEF Written, OverwrittenMcp
    <2> QED  BY <2>1, <2>3, <2>4 DEF Serves
  <1>4. Served(t)'
    <2>1. files'[d] = dir /\ (r = "codex" => <<t, d>> \in homes')
      BY <1>1, <1>1a, <1>2
    <2> QED  BY <1>1, <1>3, <2>1 DEF Served
  <1>5. /\ Runs(t)' <=> Runs(t)
        /\ Renewed(t)' <=> Renewed(t)
        /\ Stopped(t)' <=> Stopped(t)
        /\ Wanted(t)' <=> Wanted(t)
        /\ Live(t)' <=> Live(t)
    BY <1>1 DEF Runs, Renewed, Stopped, Wanted, Live
  <1>6. CleanedUp(t) => CleanedUp(t)'
    <2> SUFFICES ASSUME CleanedUp(t), pass.prev[t] # Absent, pass.prev[t].dir # d
                 PROVE  /\ files'[pass.prev[t].dir].mcp.ax # t
                        /\ <<t, pass.prev[t].dir>> \notin homes'
      BY <1>1, <1>2 DEF CleanedUp
    <2>1. files'[pass.prev[t].dir] = files[pass.prev[t].dir]
      BY <1>1, <1>1a, SpecsFacts DEF Found
    <2>2. <<t, pass.prev[t].dir>> \notin homes'
      BY <1>1 DEF CleanedUp
    <2> QED  BY <2>1, <2>2 DEF CleanedUp
  <1>8. /\ Runs(t) \/ Has(left, "create")
        /\ Renewed(t) \/ (Has(left, "create") /\ (Has(left, "destroy") \/ ~Live(t)))
        /\ Stopped(t) \/ Has(left, "destroy")
        /\ CleanedUp(t) \/ Has(left, "wipe")
        /\ Wanted(t) => Later(left, "wipe", "ensure")
        /\ Wanted(t) /\ pass.running => Later(left, "destroy", "create")
        /\ Wanted(t) /\ Has(left, "destroy") => Managed(t)
    BY DEF Found, UnderWay
  <1>9. UnderWay(t, left)'
    BY <1>1, <1>4, <1>5, <1>6, <1>8 DEF UnderWay
  <1>10. homes' \in {homes, homes \cup {<<t, d>>}, homes \ {<<t, d>>}}
    BY <1>1
  <1> HIDE DEF s
  <1> QED  BY <1>1, <1>1a, <1>2, <1>9, <1>10, OnlyThere

LEMMA CreatePromise ==
  ASSUME SafeInv, NEW t, NEW left, Found("create", t, left), CreateInner(Reconciler),
         ~Live(t) \/ t \in Orchestrators
  PROVE  UnderWay(t, left)' /\ \A u \in Targets \ {t} : Apart(u)
  <1>1. /\ files' = files /\ homes' = homes /\ pass' = pass /\ DOMAIN session = Targets /\ t \in Targets
    BY DEF CreateInner, Found, SafeInv, SessionInv
  <1>2. /\ Served(t)' <=> Served(t)
        /\ CleanedUp(t)' <=> CleanedUp(t)
        /\ Wanted(t)' <=> Wanted(t)
    BY <1>1 DEF Served, CleanedUp, Wanted
  <1>3. /\ Served(t) \/ Has(left, "ensure")
        /\ CleanedUp(t) \/ Has(left, "wipe")
        /\ Wanted(t) => Later(left, "wipe", "ensure")
        /\ Wanted(t) /\ pass.running => Later(left, "destroy", "create")
        /\ Wanted(t) /\ Has(left, "destroy") => Managed(t)
    BY DEF Found, UnderWay
  <1>4. Stopped(t)'
    BY <1>1 DEF Stopped, Found, Wanted
  <1>5. /\ Live(t)' /\ Renewed(t)'
        /\ \A u \in Targets \ {t} : session'[u] = session[u]
    <2>1. CASE Live(t)
      <3>1. session' = session
        BY <2>1 DEF CreateInner, Found
      <3>2. Renewed(t)
        BY <2>1 DEF Found, UnderWay
      <3>3. Live(t)' /\ Renewed(t)'
        BY <1>1, <2>1, <3>1, <3>2 DEF Live, Renewed
      <3> QED  BY <3>1, <3>3
    <2>2. CASE ~Live(t)
      <3> DEFINE fresh == [st |-> "idle", spec |-> job[Reconciler].spec, by |-> job[Reconciler].by]
      <3>1. session' = [session EXCEPT ![t] = fresh]
        BY <2>2 DEF CreateInner, Found
      <3>2. session'[t] = fresh /\ fresh.st # "none" /\ fresh.spec = pass.want[t]
        BY <1>1, <3>1 DEF Found
      <3> HIDE DEF fresh
      <3>3. Live(t)'
        BY <3>2 DEF Live
      <3>4. Renewed(t)'
        BY <1>1, <3>2 DEF Renewed
      <3> QED  BY <1>1, <3>1, <3>3, <3>4
    <2> QED  BY <2>1, <2>2
  <1>6. Runs(t)'
    BY <1>5 DEF Runs
  <1>7. UnderWay(t, left)'
    BY <1>1, <1>2, <1>3, <1>4, <1>5, <1>6 DEF UnderWay
  <1> QED  BY <1>1, <1>5, <1>7 DEF Apart

LEMMA StillQuiet ==
  ASSUME ConvInv, UNCHANGED <<files, homes, session, disk, pass, job, quiet>>
  PROVE  QuietInv'
  BY DEF ConvInv, QuietInv, Busy, Done, UnderWay, Served, Runs, Renewed, Stopped, CleanedUp, Live, Wanted

LEMMA CallsQuiet ==
  ASSUME DirectoriesApart, ConvInv, NEW p \in Workers, Calls(p)
  PROVE  QuietInv'
  <1>1. Busy(p) /\ Disturbs(p)
    BY DEF Calls, Destroy, ReadFiles, OpenFiles, WriteFiles, CreateInner, WakeWorkspace, CallFails,
           RewriteFails, Rewrites, AtStep
  <1>2. CASE ~quiet \/ p # Reconciler
    BY <1>1, <1>2 DEF Disturbs, QuietInv
  <1>3. CASE quiet /\ p = Reconciler
    <2>1. Busy(Reconciler) /\ pass.pc # "off" /\ SafeInv /\ TextsInv /\ Promised
      BY <1>1, <1>3 DEF ConvInv, SafeInv, PassInv
    <2>2. PICK t : t = job[Reconciler].t
      OBVIOUS
    <2>3. PICK left : left = Tail(job[Reconciler].steps)
      OBVIOUS
    <2>4. \A c : AtStep(Reconciler, c) => Found(c, t, left)
      BY <1>3, <2>1, <2>2, <2>3, FoundAtCall
    <2>5. ASSUME Advance(Reconciler), pass' = pass, disk' = disk,
                 UnderWay(t, left)', \A u \in Targets \ {t} : Apart(u)
          PROVE  QuietInv'
      BY <1>3, <2>1, <2>2, <2>3, <2>5, CallKeepsQuiet
    <2>6. CASE Destroy(Reconciler)
      <3>1. Found("destroy", t, left) /\ Advance(Reconciler) /\ pass' = pass /\ disk' = disk
        BY <2>4, <2>6 DEF Destroy
      <3>2. UnderWay(t, left)' /\ \A u \in Targets \ {t} : Apart(u)
        BY <2>1, <2>6, <3>1, DestroyPromise
      <3> QED  BY <2>5, <3>1, <3>2
    <2>7. ASSUME Rewrites(Reconciler)
          PROVE  \E c \in {"wipe", "ensure"} : AtStep(Reconciler, c) /\ Found(c, t, left)
      <3>1. ~Found("unlink", t, left)
        BY DEF Found
      <3> QED  BY <2>4, <2>7, <3>1 DEF Rewrites
    <2>8. CASE ReadFiles(Reconciler)
      <3>1. UNCHANGED <<files, homes, session, disk, pass, job, quiet>>
        BY <1>3, <2>8 DEF ReadFiles, Disturbs
      <3> QED  BY <3>1, StillQuiet
    <2>8a. CASE OpenFiles(Reconciler)
      <3>1. PICK c \in {"wipe", "ensure"} : AtStep(Reconciler, c) /\ Found(c, t, left)
        BY <2>7, <2>8a DEF OpenFiles
      <3>2. UnderWay(t, job[Reconciler].steps)' /\ \A u \in Targets \ {t} : Apart(u)
        BY <2>1, <2>8a, <3>1, OpenPromise
      <3>3. pass' = pass /\ disk' = disk /\ job' = job
        BY <2>8a DEF OpenFiles
      <3> QED  BY <1>3, <2>1, <2>2, <3>2, <3>3, OpenKeepsQuiet
    <2>8b. CASE WriteFiles(Reconciler)
      <3>1. PICK c \in {"wipe", "ensure"} : AtStep(Reconciler, c) /\ Found(c, t, left)
        BY <2>7, <2>8b DEF WriteFiles
      <3>2. Advance(Reconciler) /\ pass' = pass /\ disk' = disk
        BY <2>8b DEF WriteFiles
      <3>3. UnderWay(t, left)' /\ \A u \in Targets \ {t} : Apart(u)
        BY <1>3, <2>1, <2>8b, <3>1, WipePromise, EnsurePromise
      <3> QED  BY <2>5, <3>2, <3>3
    <2>9. CASE CreateInner(Reconciler)
      <3>1. Found("create", t, left) /\ disk' = disk
        BY <2>4, <2>9 DEF CreateInner
      <3>2. CASE Live(t) /\ t \notin Orchestrators
        <4>1. pass' = NoPass
          BY <2>2, <2>9, <3>2 DEF CreateInner, Fails
        <4> QED  BY <4>1, NoPassOff DEF QuietInv
      <3>3. CASE ~Live(t) \/ t \in Orchestrators
        <4>1. Advance(Reconciler) /\ pass' = pass
          BY <2>2, <2>9, <3>3 DEF CreateInner
        <4>2. UnderWay(t, left)' /\ \A u \in Targets \ {t} : Apart(u)
          BY <2>1, <2>9, <3>1, <3>3, CreatePromise
        <4> QED  BY <2>5, <3>1, <4>1, <4>2
      <3> QED  BY <3>2, <3>3
    <2>10. ~WakeWorkspace(Reconciler)
      <3>1. ~Found("wake", t, left)
        BY DEF Found
      <3> QED  BY <2>4, <3>1 DEF WakeWorkspace
    <2>11. CASE CallFails(Reconciler) \/ RewriteFails(Reconciler)
      BY <2>11, NoPassOff DEF CallFails, RewriteFails, Fails, QuietInv
    <2> QED  BY <1>3, <2>6, <2>8, <2>8a, <2>8b, <2>9, <2>10, <2>11 DEF Calls
  <1> QED  BY <1>2, <1>3

-----------------------------------------------------------------------------
(* The steps of the pass itself *)

LEMMA BeginQuiet ==
  ASSUME ConvInv, NEW running, NEW disruptive, ReconcileBegin(running, disruptive)
  PROVE  QuietInv'
  <1>1. /\ pass'.pc = "visit" /\ pass'.todo = Visits(config, disk.recs)
        /\ pass'.snap = [t \in Targets |-> session[t].st]
        /\ pass'.next = [t \in Targets |-> Absent] /\ pass'.prev = disk.recs /\ pass'.want = config
        /\ pass'.blocked = {} /\ pass'.changed = {}
        /\ session' = session /\ job' = job
    BY DEF ReconcileBegin
  <1>2. ~Busy(Reconciler)'
    BY <1>1 DEF ConvInv, SafeInv, PassInv, ReconcileBegin, Busy
  <1>3. \A t \in pass'.todo : /\ session'[t].st = pass'.snap[t]
                              /\ t \notin pass'.blocked /\ t \notin pass'.changed
    BY <1>1 DEF Visits
  <1>4. ASSUME NEW t \in Targets \ (pass'.todo \cup pass'.blocked)
        PROVE  pass'.next[t] = pass'.want[t] /\ Done(t)'
    <2>1. pass'.want[t] = Absent /\ pass'.prev[t] = Absent /\ pass'.next[t] = Absent
      BY <1>1 DEF Visits
    <2>2. Done(t)'
      BY <2>1 DEF Done, Served, Runs, Renewed, Stopped, CleanedUp
    <2> QED  BY <2>1, <2>2
  <1> QED  BY <1>1, <1>2, <1>3, <1>4 DEF QuietInv

\* What a visit leaves of the pass.
Visited(t, blocked, changed) ==
  /\ pass'.pc = "visit" /\ pass'.todo = pass.todo \ {t} /\ pass'.snap = pass.snap
  /\ pass'.want = pass.want /\ pass'.prev = pass.prev /\ pass'.running = pass.running
  /\ \A u \in Targets \ {t} : pass'.next[u] = pass.next[u]
  /\ pass'.blocked = pass.blocked \cup blocked /\ pass'.changed = pass.changed \cup changed

LEMMA Reported ==
  ASSUME SafeInv, NEW t \in Targets, Visiting(t), NEW rec, NEW stopped, stopped \in BOOLEAN,
         NEW differs, differs \in BOOLEAN, Report(t, rec, stopped, differs)
  PROVE  /\ Visited(t, IF stopped THEN {t} ELSE {}, IF differs THEN {t} ELSE {})
         /\ pass'.next[t] = rec
  <1>1. pass \in Passes /\ pass.pc = "visit"
    BY NoPassOff DEF SafeInv, PassInv, Visiting
  <1>2. pass.next \in [Targets -> AnySpec]
    BY <1>1 DEF Passes, PerTarget
  <1>3. /\ pass'.pc = "visit" /\ pass'.todo = pass.todo \ {t} /\ pass'.snap = pass.snap
        /\ pass'.want = pass.want /\ pass'.prev = pass.prev /\ pass'.running = pass.running
        /\ pass'.next = [pass.next EXCEPT ![t] = rec]
        /\ pass'.blocked = pass.blocked \cup (IF stopped THEN {t} ELSE {})
        /\ pass'.changed = pass.changed \cup (IF differs THEN {t} ELSE {})
    BY <1>1 DEF Report, Passes
  <1> QED  BY <1>2, <1>3 DEF Visited

\* The targets that the visit is not about.
LEMMA VisitApart ==
  ASSUME ConvInv, quiet, NEW t \in Targets, Visiting(t), NEW blocked \in SUBSET {t},
         NEW changed \in SUBSET {t}, Visited(t, blocked, changed)
  PROVE  /\ \A u \in pass'.todo : /\ session'[u].st = pass'.snap[u]
                                  /\ u \notin pass'.blocked /\ u \notin pass'.changed
         /\ \A u \in Targets \ (pass'.todo \cup pass'.blocked \cup {t}) :
               pass'.next[u] = pass'.want[u] /\ Done(u)'
         /\ t \notin pass.blocked /\ t \notin pass.changed /\ session[t].st = pass.snap[t]
  <1>1. /\ pass.pc = "visit" /\ ~Busy(Reconciler) /\ t \in pass.todo
        /\ session' = session /\ files' = files /\ homes' = homes
    BY DEF Visiting
  <1>2. Own(pass.want) /\ Own(pass.prev)
    BY <1>1, NoPassOff DEF ConvInv, SafeInv, PassInv
  <1>3. \A u \in pass.todo : session[u].st = pass.snap[u] /\ u \notin pass.blocked /\ u \notin pass.changed
    BY <1>1 DEF ConvInv, QuietInv
  <1>4. \A u \in pass'.todo : /\ session'[u].st = pass'.snap[u]
                              /\ u \notin pass'.blocked /\ u \notin pass'.changed
    BY <1>1, <1>3 DEF Visited
  <1>5. ASSUME NEW u \in Targets \ (pass'.todo \cup pass'.blocked \cup {t})
        PROVE  pass'.next[u] = pass'.want[u] /\ Done(u)'
    <2>1. u \in Targets \ (pass.todo \cup pass.blocked) /\ u # t
      BY DEF Visited
    <2>2. pass.next[u] = pass.want[u] /\ Done(u)
      BY <1>1, <2>1 DEF ConvInv, QuietInv
    <2>3. Apart(u)
      BY <1>1 DEF Apart
    <2>4. u \in pass'.changed <=> u \in pass.changed
      BY <2>1 DEF Visited
    <2>5. pass'.want = pass.want /\ pass'.prev = pass.prev /\ pass'.running = pass.running
      BY DEF Visited
    <2>6. Done(u)'
      BY <1>2, <2>1, <2>2, <2>3, <2>4, <2>5, DoneFrame
    <2> QED  BY <2>1, <2>2, <2>6 DEF Visited
  <1> QED  BY <1>1, <1>3, <1>4, <1>5

LEMMA VisitQuiet ==
  ASSUME ConvInv, quiet, NEW t \in Targets, Visiting(t), NEW changed \in SUBSET {t}, Visited(t, {}, changed),
         pass'.next[t] = pass.want[t], NEW steps, steps # <<>>, ReconcileJob(t, steps),
         Range(steps) \subseteq {"destroy", "wipe", "ensure", "create"},
         UnderWay(t, steps)'
  PROVE  QuietInv'
  <1> DEFINE j == [t |-> t, steps |-> steps, spec |-> pass.want[t], by |-> "pass",
                   wipe |-> IF pass.prev[t] # Absent THEN pass.prev[t].dir ELSE pass.want[t].dir]
             k == job'[Reconciler]
  <1>1. k = j
    BY DEF ConvInv, SafeInv, JobsInv, Workers, ReconcileJob
  <1>2. /\ k.t = t /\ k.steps = steps /\ k.spec = pass.want[t]
        /\ pass.prev[t] # Absent => k.wipe = pass.prev[t].dir
    BY <1>1
  <1> HIDE DEF k
  <1>3. /\ \A u \in pass'.todo : /\ session'[u].st = pass'.snap[u]
                                 /\ u \notin pass'.blocked /\ u \notin pass'.changed
        /\ \A u \in Targets \ (pass'.todo \cup pass'.blocked \cup {t}) :
               pass'.next[u] = pass'.want[u] /\ Done(u)'
        /\ t \notin pass.blocked
    BY VisitApart
  <1>4. /\ pass'.pc = "visit" /\ t \notin pass'.todo /\ t \notin pass'.blocked
        /\ pass'.want = pass.want /\ pass'.prev = pass.prev
    BY <1>3 DEF Visited
  <1>5. \A u \in Targets \ (pass'.todo \cup pass'.blocked) :
          pass'.next[u] = pass'.want[u] /\ (Done(u)' \/ (k.steps # <<>> /\ k.t = u))
    BY <1>2, <1>3, <1>4
  <1>6. /\ k.t = t /\ k.steps = steps /\ k.spec = pass'.want[t]
        /\ pass'.prev[t] # Absent => k.wipe = pass'.prev[t].dir
    BY <1>2, <1>4
  <1> QED  BY <1>3, <1>4, <1>5, <1>6 DEF QuietInv, Busy, k

LEMMA PassSteps ==
  /\ \A s : Has(<<"ensure">>, s) <=> s = "ensure"
  /\ \A s : Has(<<"ensure", "create">>, s) <=> s \in {"ensure", "create"}
  /\ \A s : Has(<<"destroy", "wipe">>, s) <=> s \in {"destroy", "wipe"}
  /\ \A s : Has(<<"destroy", "wipe", "ensure">>, s) <=> s \in {"destroy", "wipe", "ensure"}
  /\ \A s : Has(Recreate, s) <=> s \in {"destroy", "wipe", "ensure", "create"}
  /\ Later(<<"ensure">>, "wipe", "ensure") /\ Later(<<"ensure">>, "destroy", "create")
  /\ Later(<<"ensure", "create">>, "wipe", "ensure") /\ Later(<<"ensure", "create">>, "destroy", "create")
  /\ Later(<<"destroy", "wipe", "ensure">>, "wipe", "ensure")
  /\ Later(Recreate, "wipe", "ensure") /\ Later(Recreate, "destroy", "create")
  <1>1. \A s : Has(<<"ensure">>, s) <=> s = "ensure"
    BY DEF Has
  <1>2. \A s : Has(<<"ensure", "create">>, s) <=> s \in {"ensure", "create"}
    BY DEF Has
  <1>3. \A s : Has(<<"destroy", "wipe">>, s) <=> s \in {"destroy", "wipe"}
    BY DEF Has
  <1>4. \A s : Has(<<"destroy", "wipe", "ensure">>, s) <=> s \in {"destroy", "wipe", "ensure"}
    BY DEF Has
  <1>5. \A s : Has(Recreate, s) <=> s \in {"destroy", "wipe", "ensure", "create"}
    BY DEF Has, Recreate
  <1>6. /\ Later(<<"ensure">>, "wipe", "ensure") /\ Later(<<"ensure">>, "destroy", "create")
        /\ Later(<<"ensure", "create">>, "wipe", "ensure") /\ Later(<<"ensure", "create">>, "destroy", "create")
    BY DEF Later
  <1>7. Later(<<"destroy", "wipe", "ensure">>, "wipe", "ensure")
    BY DEF Later
  <1>8. Later(Recreate, "wipe", "ensure") /\ Later(Recreate, "destroy", "create")
    BY DEF Later, Recreate
  <1> QED  BY <1>1, <1>2, <1>3, <1>4, <1>5, <1>6, <1>7, <1>8

LEMMA HasRange ==
  ASSUME NEW steps \in Seq(CallNames), NEW S, \A s : Has(steps, s) => s \in S
  PROVE  Range(steps) \subseteq S
  BY DEF Has, Range

LEMMA MatchingQuiet ==
  ASSUME ConvInv, quiet, NEW t \in Targets, VisitMatching(t)
  PROVE  QuietInv'
  <1>0. SafeInv /\ Visiting(t) /\ InPlace(t) /\ Wanted(t)
    BY DEF ConvInv, VisitMatching, InPlace
  <1>1. Visited(t, {}, {}) /\ pass'.next[t] = pass.want[t]
    <2>1. Report(t, pass.want[t], FALSE, FALSE) /\ FALSE \in BOOLEAN
      BY DEF VisitMatching
    <2> QED  BY <1>0, <2>1, Reported
  <1>2. t \notin pass.changed /\ session[t].st = pass.snap[t]
    BY <1>0, <1>1, VisitApart
  <1> DEFINE missing == pass.snap[t] = "none" \/ t \in Orchestrators
  <1>3. PICK steps \in {<<"ensure">>, <<"ensure", "create">>} :
          /\ ReconcileJob(t, steps)
          /\ missing /\ pass.running /\ Managed(t) => steps = <<"ensure", "create">>
    BY Joined DEF VisitMatching, CreateIf
  <1>4. /\ Has(steps, "ensure")
        /\ steps = <<"ensure", "create">> => Has(steps, "create")
        /\ ~Has(steps, "destroy")
        /\ Later(steps, "wipe", "ensure") /\ Later(steps, "destroy", "create")
        /\ \A s : Has(steps, s) => s \in {"destroy", "wipe", "ensure", "create"}
    BY PassSteps
  <1>5. steps \in Seq(CallNames) /\ steps # <<>>
    <2>1. steps \in Seq(CallNames)
      BY PassPrograms DEF Fit
    <2>2. steps # <<>>
      BY <1>4 DEF Has
    <2> QED  BY <2>1, <2>2
  <1>6. Range(steps) \subseteq {"destroy", "wipe", "ensure", "create"}
    BY <1>4, <1>5, HasRange
  <1>7. /\ pass'.want = pass.want /\ pass'.prev = pass.prev /\ pass'.running = pass.running
        /\ t \notin pass'.changed /\ session' = session
    BY <1>0, <1>1, <1>2 DEF Visited, Visiting
  <1>8. pass.prev[t] # Absent => pass.prev[t].dir = pass.want[t].dir
    <2>1. Own(pass.want) /\ Own(pass.prev)
      BY <1>0, NoPassOff DEF SafeInv, PassInv, Visiting
    <2>2. /\ pass.want[t] \in SpecsOf[t]
          /\ pass.prev[t] # Absent => pass.prev[t] \in SpecsOf[t]
      BY <1>0, <2>1, SpecsFacts DEF Own, Wanted
    <2> QED  BY <1>0, <2>2, TargetsAssumption DEF InPlace, StateMatches
  <1>9. Runs(t)' \/ Has(steps, "create")
    <2>1. CASE missing /\ pass.running /\ Managed(t)
      BY <1>3, <1>4, <2>1
    <2>2. CASE ~(missing /\ pass.running /\ Managed(t))
      BY <1>2, <1>7, <2>2 DEF Runs, Live
    <2> QED  BY <2>1, <2>2
  <1>10. Renewed(t)' /\ Stopped(t)' /\ CleanedUp(t)'
    BY <1>0, <1>7, <1>8 DEF Renewed, Stopped, CleanedUp, Wanted
  <1>11. UnderWay(t, steps)'
    BY <1>4, <1>9, <1>10 DEF UnderWay
  <1> QED  BY <1>0, <1>1, <1>3, <1>5, <1>6, <1>11, VisitQuiet

LEMMA ChangedQuiet ==
  ASSUME ConvInv, quiet, NEW t \in Targets, VisitChanged(t)
  PROVE  QuietInv'
  <1>0. SafeInv /\ Visiting(t) /\ Wanted(t) /\ Managed(t)
    BY DEF ConvInv, VisitChanged, InPlace, Managed
  <1>1. Visited(t, {}, {t}) /\ pass'.next[t] = pass.want[t]
    <2>1. Report(t, pass.want[t], FALSE, TRUE) /\ FALSE \in BOOLEAN /\ TRUE \in BOOLEAN
      BY DEF VisitChanged
    <2> QED  BY <1>0, <2>1, Reported
  <1>2. PICK steps \in {<<"destroy", "wipe", "ensure">>, Recreate} :
          /\ ReconcileJob(t, steps)
          /\ pass.running => steps = Recreate
    BY <1>0, Joined DEF VisitChanged, CreateIf
  <1>3. /\ Has(steps, "ensure") /\ Has(steps, "destroy") /\ Has(steps, "wipe")
        /\ steps = Recreate => Has(steps, "create")
        /\ Later(steps, "wipe", "ensure")
        /\ steps = Recreate => Later(steps, "destroy", "create")
        /\ \A s : Has(steps, s) => s \in {"destroy", "wipe", "ensure", "create"}
    BY PassSteps
  <1>4. steps \in Seq(CallNames) /\ steps # <<>>
    <2>1. steps \in Seq(CallNames)
      BY PassPrograms DEF Fit
    <2>2. steps # <<>>
      BY <1>3 DEF Has
    <2> QED  BY <2>1, <2>2
  <1>5. Range(steps) \subseteq {"destroy", "wipe", "ensure", "create"}
    BY <1>3, <1>4, HasRange
  <1>6. pass'.want = pass.want /\ pass'.running = pass.running
    BY <1>1 DEF Visited
  <1>7. pass.running => Has(steps, "create") /\ Later(steps, "destroy", "create")
    BY <1>2, <1>3
  <1>8. (Runs(t)' \/ Has(steps, "create")) /\ (Renewed(t)' \/ Has(steps, "create"))
    BY <1>6, <1>7 DEF Runs, Renewed
  <1>9. UnderWay(t, steps)'
    BY <1>0, <1>3, <1>6, <1>7, <1>8 DEF UnderWay
  <1>10. {t} \in SUBSET {t}
    OBVIOUS
  <1> QED  BY <1>0, <1>1, <1>2, <1>4, <1>5, <1>9, <1>10, VisitQuiet

LEMMA RemovedQuiet ==
  ASSUME ConvInv, quiet, NEW t \in Targets, VisitRemoved(t)
  PROVE  QuietInv'
  <1> DEFINE steps == <<"destroy", "wipe">>
  <1>0. SafeInv /\ Visiting(t) /\ pass.want[t] = Absent /\ ReconcileJob(t, steps)
    BY DEF ConvInv, VisitRemoved, Wanted
  <1>1. Visited(t, {}, {t}) /\ pass'.next[t] = pass.want[t]
    <2>1. Report(t, Absent, FALSE, TRUE) /\ FALSE \in BOOLEAN /\ TRUE \in BOOLEAN
      BY DEF VisitRemoved
    <2> QED  BY <1>0, <2>1, Reported
  <1>2. steps \in Seq(CallNames) /\ steps # <<>>
    BY PassPrograms DEF Fit
  <1>3. /\ Has(steps, "destroy") /\ Has(steps, "wipe")
        /\ \A s : Has(steps, s) => s \in {"destroy", "wipe", "ensure", "create"}
    BY PassSteps
  <1> HIDE DEF steps
  <1>4. Range(steps) \subseteq {"destroy", "wipe", "ensure", "create"}
    BY <1>2, <1>3, HasRange
  <1>5. pass'.want[t] = Absent
    BY <1>0, <1>1 DEF Visited
  <1>6. UnderWay(t, steps)'
    BY <1>3, <1>5 DEF UnderWay, Served, Runs, Renewed, Wanted
  <1>7. {t} \in SUBSET {t}
    OBVIOUS
  <1> QED  BY <1>0, <1>1, <1>2, <1>4, <1>6, <1>7, VisitQuiet

LEMMA BlockedQuiet ==
  ASSUME ConvInv, quiet, NEW t \in Targets, VisitBlocked(t)
  PROVE  QuietInv'
  <1>0. SafeInv /\ Visiting(t) /\ job' = job /\ ~Busy(Reconciler)
    BY DEF ConvInv, VisitBlocked, Visiting
  <1>1. Visited(t, {t}, {})
    <2>1. Report(t, pass.prev[t], TRUE, FALSE) /\ FALSE \in BOOLEAN /\ TRUE \in BOOLEAN
      BY DEF VisitBlocked
    <2> QED  BY <1>0, <2>1, Reported
  <1>2. {t} \in SUBSET {t} /\ {} \in SUBSET {t}
    OBVIOUS
  <1>3. /\ \A u \in pass'.todo : /\ session'[u].st = pass'.snap[u]
                                 /\ u \notin pass'.blocked /\ u \notin pass'.changed
        /\ \A u \in Targets \ (pass'.todo \cup pass'.blocked \cup {t}) :
               pass'.next[u] = pass'.want[u] /\ Done(u)'
    BY <1>0, <1>1, <1>2, VisitApart
  <1>4. t \in pass'.blocked /\ pass'.pc = "visit" /\ ~Busy(Reconciler)'
    BY <1>0, <1>1 DEF Visited, Busy
  <1> QED  BY <1>3, <1>4 DEF QuietInv

\* Nothing but the record changes.
LEMMA SavedQuiet ==
  ASSUME ConvInv, SaveRuntimeState
  PROVE  QuietInv'
  <1>1. pass \in Passes
    BY NoPassOff DEF ConvInv, SafeInv, PassInv, SaveRuntimeState
  <1>2. /\ pass'.todo = pass.todo /\ pass'.snap = pass.snap /\ pass'.next = pass.next
        /\ pass'.prev = pass.prev /\ pass'.want = pass.want /\ pass'.running = pass.running
        /\ pass'.blocked = pass.blocked /\ pass'.changed = pass.changed /\ pass'.pc = "saved"
        /\ pass.todo = {} /\ disk'.recs = pass.next /\ pass.pc = "visit"
        /\ ~Busy(Reconciler) /\ job' = job /\ session' = session /\ files' = files /\ homes' = homes
        /\ quiet' = quiet
    BY <1>1 DEF SaveRuntimeState, Passes
  <1>3. ASSUME quiet, NEW u \in Targets \ pass.blocked  PROVE pass.next[u] = pass.want[u] /\ Done(u)'
    <2>1. pass.next[u] = pass.want[u] /\ Done(u)
      BY <1>2, <1>3 DEF ConvInv, QuietInv
    <2>2. Apart(u)
      BY <1>2 DEF Apart
    <2>3. Own(pass.want) /\ Own(pass.prev)
      BY <1>2, NoPassOff DEF ConvInv, SafeInv, PassInv
    <2>4. Done(u)'
      BY <1>2, <2>1, <2>2, <2>3, DoneFrame
    <2> QED  BY <2>1, <2>4
  <1> QED  BY <1>2, <1>3 DEF QuietInv, Busy

-----------------------------------------------------------------------------
(* The others *)

\* The user's own lines are added below what the agent finds.
LEMMA EditQuiet ==
  ASSUME ConvInv, NEW e \in Dirs, NEW q \in Runtimes, EditFile(e, q)
  PROVE  QuietInv'
  <1>1. /\ session' = session /\ homes' = homes /\ pass' = pass /\ job' = job
        /\ quiet' = quiet /\ disk' = disk
    BY DEF EditFile
  <1>2. /\ files' = [files EXCEPT ![e] = [files[e] EXCEPT !.text =
                                           [files[e].text EXCEPT ![q] = Append(files[e].text[q], User(2))]]]
        /\ IsDir(files[e]) /\ DOMAIN files = Dirs
    BY DEF EditFile, ConvInv, SafeInv, FilesInv, DirOK
  <1>3. \A d \in Dirs : files'[d].mcp = files[d].mcp
    BY <1>2 DEF IsDir
  <1>4. ASSUME NEW d \in Dirs, NEW r \in Runtimes, NEW x, HasText(files[d].text[r], x)
        PROVE  HasText(files'[d].text[r], x)
    <2>1. CASE d = e /\ r = q
      <3>1. files'[d].text[r] = Append(files[d].text[r], User(2))
        BY <1>2, <2>1 DEF IsDir
      <3>2. files[d].text[r] \in Seq(Tokens) /\ User(2) \in Tokens
        BY DEF ConvInv, TextsInv, IsText, Tokens, Lines
      <3>3. PICK i \in 1 .. Len(files[d].text[r]) : files[d].text[r][i] = x
        BY <1>4 DEF HasText
      <3> DEFINE f == files[d].text[r]
      <3>4. Len(Append(f, User(2))) = Len(f) + 1 /\ Append(f, User(2))[i] = x /\ Len(f) \in Nat
        BY <3>2, <3>3
      <3>5. i \in 1 .. Len(f) + 1
        BY <3>3, <3>4
      <3> QED  BY <3>1, <3>4, <3>5 DEF HasText
    <2>2. CASE d # e \/ r # q
      <3>1. files'[d].text[r] = files[d].text[r]
        BY <1>2, <2>2 DEF IsDir
      <3> QED  BY <1>4, <3>1
    <2> QED  BY <2>1, <2>2
  <1> SUFFICES ASSUME quiet, pass.pc # "off"  PROVE QuietInv'
    BY <1>1 DEF QuietInv
  <1>5. Own(pass.want) /\ Own(pass.prev)
    BY NoPassOff DEF ConvInv, SafeInv, PassInv
  <1>6. ASSUME NEW t \in Targets
        PROVE  /\ Served(t) => Served(t)'
               /\ Runs(t)' <=> Runs(t)
               /\ Renewed(t)' <=> Renewed(t)
               /\ Stopped(t)' <=> Stopped(t)
               /\ CleanedUp(t)' <=> CleanedUp(t)
               /\ Wanted(t)' <=> Wanted(t)
               /\ Live(t)' <=> Live(t)
    <2>1. /\ pass.want[t] # Absent => pass.want[t].dir \in Dirs /\ pass.want[t].runtime \in Runtimes
          /\ pass.prev[t] # Absent => pass.prev[t].dir \in Dirs
      BY <1>5, SpecsFacts DEF Own
    <2>2. Served(t) => Served(t)'
      BY <1>1, <1>3, <1>4, <2>1 DEF Served, Serves
    <2>3. CleanedUp(t)' <=> CleanedUp(t)
      BY <1>1, <1>3, <2>1 DEF CleanedUp
    <2> QED  BY <1>1, <2>2, <2>3 DEF Runs, Renewed, Stopped, Wanted, Live
  <1>7. \A t \in Targets : Done(t) => Done(t)'
    BY <1>6 DEF Done
  <1>8. PICK t : t = job[Reconciler].t
    OBVIOUS
  <1>9. PICK steps : steps = job[Reconciler].steps
    OBVIOUS
  <1>10. Busy(Reconciler) => UnderWay(t, steps)'
    <2> SUFFICES ASSUME Busy(Reconciler)  PROVE UnderWay(t, steps)'
      OBVIOUS
    <2>1. t \in Targets
      BY <1>8 DEF ConvInv, SafeInv, JobsInv, JobOK, Workers, Busy
    <2>2. UnderWay(t, steps)
      BY <1>8, <1>9 DEF ConvInv, QuietInv
    <2> QED  BY <1>1, <1>6, <2>1, <2>2 DEF UnderWay
  <1> QED  BY <1>1, <1>7, <1>8, <1>9, <1>10 DEF ConvInv, QuietInv, Busy

LEMMA QuietStep ==
  DirectoriesApart => (ConvInv /\ [Next]_vars => QuietInv')
  <1> SUFFICES ASSUME DirectoriesApart, ConvInv, [Next]_vars  PROVE QuietInv'
    OBVIOUS
  <1>1. CASE UNCHANGED vars
    BY <1>1, StillQuiet DEF vars
  <1>2. ASSUME NEW p \in Workers, Calls(p)  PROVE QuietInv'
    BY <1>2, CallsQuiet
  <1>3. ASSUME NEW p \in Procs, Operate(p)  PROVE QuietInv'
    <2>1. quiet' = FALSE
      BY <1>3 DEF Operate, StartNamed, StopNamed, RestartNamed, Refresh, AgentStart, AgentStop, AgentRestart,
                  DispatchRunnableWork, RefreshDisabledRoot, RefreshSession, Begin
    <2> QED  BY <2>1 DEF QuietInv
  <1>4. ASSUME Reconcile  PROVE QuietInv'
    <2>1. ASSUME NEW t \in Targets, VisitMatching(t) \/ VisitChanged(t) \/ VisitRemoved(t) \/ VisitBlocked(t)
          PROVE  QuietInv'
      <3>1. quiet' = quiet
        BY <2>1 DEF VisitMatching, VisitChanged, VisitRemoved, VisitBlocked, Visiting
      <3>2. CASE quiet
        BY <2>1, <3>2, MatchingQuiet, ChangedQuiet, RemovedQuiet, BlockedQuiet
      <3>3. CASE ~quiet
        BY <3>1, <3>3 DEF QuietInv
      <3> QED  BY <3>2, <3>3
    <2>2. CASE ReconcileEnd \/ SaveFails
      <3>1. pass' = NoPass
        BY <2>2 DEF ReconcileEnd, SaveFails
      <3> QED  BY <3>1, NoPassOff DEF QuietInv
    <2> QED  BY <1>4, <2>1, <2>2, BeginQuiet, SavedQuiet DEF Reconcile
  <1>5. ASSUME Environment  PROVE QuietInv'
    <2>1. ASSUME NEW t, NEW spec, EditConfig(t, spec)  PROVE QuietInv'
      BY <2>1, StillQuiet DEF EditConfig
    <2>1a. ASSUME NEW sock, MoveSocket(sock)  PROVE QuietInv'
      BY <2>1a, StillQuiet DEF MoveSocket
    <2>2. ASSUME NEW t, NEW st, SessionMoves(t, st)  PROVE QuietInv'
      BY <2>2 DEF SessionMoves, QuietInv
    <2> QED  BY <1>5, <2>1, <2>1a, <2>2, EditQuiet DEF Environment
  <1> QED  BY <1>1, <1>2, <1>3, <1>4, <1>5 DEF Next, Workers

\* Where every target has directories of its own, a pass that nobody disturbs leaves each one it did
\* not report as blocked with its own files, its session and its record, and nothing of those removed,
\* whatever the passes, calls and failures before it left behind.
THEOREM PassesConverge == DirectoriesApart => (Spec => []PassConverges)
  <1> SUFFICES ASSUME DirectoriesApart  PROVE Spec => []PassConverges
    OBVIOUS
  <1>1. Init => QuietInv /\ Promised
    BY NoDraftOK DEF Init, QuietInv, Promised, Workers
  <1>2. Spec => []SafeInv
    BY SafeInit, SafeStep, PTL DEF Spec
  <1>3. Spec => []DraftsFit
    BY <1>2, FitInit, FitStep, PTL DEF Spec
  <1>4. Spec => []TextsInv
    BY <1>2, <1>3, TextsInit, TextsStep, PTL DEF Spec
  <1>5. SafeInv /\ DraftsFit /\ TextsInv /\ Promised /\ [Next]_vars => Promised'
    BY PromisedStep
  <1>6. Spec => []Promised
    BY <1>1, <1>2, <1>3, <1>4, <1>5, PTL DEF Spec
  <1>7. SafeInv /\ DraftsFit /\ TextsInv /\ Promised /\ QuietInv /\ [Next]_vars => QuietInv'
    BY QuietStep DEF ConvInv
  <1>8. Spec => []QuietInv
    BY <1>1, <1>2, <1>3, <1>4, <1>6, <1>7, PTL DEF Spec
  <1> QED  BY <1>2, <1>8, QuietImplies, PTL
=============================================================================
