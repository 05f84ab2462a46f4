----------------------------- MODULE ConfigTree -----------------------------
(***************************************************************************)
(* Loading a project and the projects mounted in it (ax-config).  A call   *)
(* walks the tree of config files twice, first to validate it, then to     *)
(* merge it, and reads each file when it gets there; people edit the files *)
(* meanwhile.  Callers that need both views make two calls, Config::load   *)
(* for the flat one and then Config::load_tree, which reads every file     *)
(* again.  The two walk alike and differ in what they return: a walk here  *)
(* keeps the map that load makes and the rows that load_tree makes, which  *)
(* are also what it read; of each call only its own is passed on.          *)
(*                                                                         *)
(* A name is the sequence of its parts between the dots, so that           *)
(* qualify_name is concatenation.  A path is spelled out: an absolute      *)
(* directory is a path of its own, and a relative one lengthens the path   *)
(* it is relative to and is never shortened again.                         *)
(***************************************************************************)
EXTENDS Integers, Sequences, SequencesExt, FiniteSets, FiniteSetsExt, Functions

CONSTANTS
  Projects, Root,
  Parts,           \* the parts of names
  ChildOrder,      \* the names of children, sorted
  Orchestrator,    \* the part that names an orchestrator's session
  Setups,          \* the files that a behaviour begins with
  Versions,        \* what a file may be written anew as
  Gone,            \* no such file
  MaxPath,         \* bound: a longer path cannot be opened
  MaxEdits         \* bound: edits

\* What a file may say: workspaces, children and where they are, caps (0 is none), whether the
\* root's orchestrator is on, and the changes of the overlay.
Names == Seq(Parts)
AreChildren(f) ==
  DOMAIN f \subseteq ToSet(ChildOrder) /\ f \in [DOMAIN f -> [project : Projects, abs : BOOLEAN, prefix : Names]]
IsConfig(c) ==
  LET o == c.overlay
  IN  /\ c = [spaces |-> c.spaces, children |-> c.children, depth |-> c.depth, width |-> c.width, root |-> c.root,
              team |-> c.team, overlay |-> [dropped |-> o.dropped, spaces |-> o.spaces, unmounted |-> o.unmounted,
                                            children |-> o.children]]
      /\ c.spaces \subseteq Names /\ AreChildren(c.children) /\ {c.depth, c.width} \subseteq Nat /\ c.root \in BOOLEAN
      /\ c.team \in BOOLEAN /\ o.dropped \subseteq Names /\ o.spaces \subseteq Names
      /\ o.unmounted \subseteq ToSet(ChildOrder) /\ AreChildren(o.children)

ASSUME ConfigTreeAssumption ==
  /\ IsFiniteSet(Projects) /\ Root \in Projects
  /\ ChildOrder \in Seq(Parts) /\ IsInjective(ChildOrder) /\ Orchestrator \in Parts
  /\ \A s \in Setups : s \in [Projects -> Range(s)] /\ \A p \in Projects : s[p] = Gone \/ IsConfig(s[p])
  /\ \A p \in Projects : \A c \in Versions[p] : IsConfig(c)
  /\ MaxPath \in Nat \ {0} /\ MaxEdits \in Nat

VARIABLES
  files,    \* per project: its config file with its overlay, or Gone
  loader,   \* the call that is made, or was made last
  cfg,      \* what Config::load returned
  walk,     \* how far the call is
  edits

treeVars == <<files, loader, cfg, walk, edits>>

\* `names', the names of the children on the way, tell two mounts of one project apart; no step reads them.
NoEntry == [names |-> <<>>, path |-> <<>>, prefix |-> <<>>, mount |-> <<>>]
NoWalk ==
  [phase |-> "idle", reason |-> "", entering |-> NoEntry, stack |-> <<>>, seen |-> {},
   depthCap |-> 0, widthCap |-> 0, prefixes |-> {}, orchestrators |-> {}, spaces |-> {},
   mounts |-> {}, flat |-> [n \in {} |-> n], tree |-> {}]

-----------------------------------------------------------------------------
(* One file *)

\* apply_to: what the overlay deletes or disables goes, the rest is added or replaced.
\* `root' stands for the policy that is left when the overlay's own is applied.
Overlaid(c) ==
  IF ~c.team THEN c
  ELSE [c EXCEPT !.spaces = (@ \ c.overlay.dropped) \union c.overlay.spaces,
                 !.children = [n \in (DOMAIN @ \ c.overlay.unmounted) \union DOMAIN c.overlay.children |->
                                 IF n \in DOMAIN c.overlay.children THEN c.overlay.children[n] ELSE c.children[n]]]

\* normalize_local: a child without a prefix has its name.
Prefixed(n, child) == IF child.prefix = <<>> THEN [child EXCEPT !.prefix = <<n>>] ELSE child

\* load_validated_config, and load_local_config, which does the same.
Local(c) ==
  LET o == Overlaid(c)
  IN  [o EXCEPT !.children = [n \in DOMAIN @ |-> Prefixed(n, o.children[n])]]

\* resolve_dir and absolutize.
PathOf(base, child) == IF child.abs THEN <<child.project>> ELSE Append(base, child.project)

\* orchestrator_session_name.
SessionName(prefix) == Append(prefix, Orchestrator)

\* config_path_in_dir.
Present(disk, path) == disk[Last(path)] # Gone /\ Len(path) <= MaxPath

-----------------------------------------------------------------------------
(* The walk *)

Walking == walk.phase \in {"validate", "merge"}
Validating == walk.phase = "validate"
Top == Last(walk.stack)
Below == Front(walk.stack)
Refuse(reason) == walk' = [walk EXCEPT !.phase = "refused", !.reason = reason]

\* validate_tree: the caps and the root's orchestrator are read first.
Start ==
  /\ walk.phase = "idle"
  /\ IF files[Root] = Gone THEN Refuse("missing")
     ELSE LET c == Local(files[Root])
          IN  walk' = [walk EXCEPT !.phase = "validate", !.entering.path = <<Root>>,
                                   !.depthCap = c.depth, !.widthCap = c.width,
                                   !.orchestrators = IF c.root THEN {<<Orchestrator>>} ELSE {}]
  /\ UNCHANGED <<files, loader, cfg, edits>>

TooDeep == Validating /\ walk.depthCap # 0 /\ Len(walk.stack) > walk.depthCap
TooWide(c) == Validating /\ walk.widthCap # 0 /\ Cardinality(DOMAIN c.children) > walk.widthCap

\* Mutant of Reserved: the names of orchestrators are not looked up.
NotReserved(c) == FALSE

Reserved(c) == Validating /\ \E n \in c.spaces : walk.entering.prefix \o n \in walk.orchestrators

\* Mutant of Unclaimed: the claims of a child that went away stay.
StillClaimed(e) == [walk EXCEPT !.seen = @ \union {e.path}, !.entering = NoEntry]

\* A child that went away since its file was looked for: its claims are rolled back.
Unclaimed(e) ==
  [walk EXCEPT !.seen = @ \union {e.path}, !.entering = NoEntry,
               !.prefixes = @ \ {e.prefix}, !.orchestrators = @ \ {SessionName(e.prefix)}]

Entered(e, p, c) ==
  [walk EXCEPT
     !.seen = @ \union {e.path}, !.entering = NoEntry,
     !.stack = Append(@, [names |-> e.names, path |-> e.path, prefix |-> e.prefix, mount |-> e.mount, config |-> c,
                          todo |-> DOMAIN c.children,
                          flat |-> [n \in c.spaces |-> <<p, n>>]]),
     !.mounts = @ \union {[phase |-> walk.phase, names |-> e.names, path |-> e.path, prefix |-> e.prefix]},
     !.spaces = IF Validating THEN @ \union {e.prefix \o n : n \in c.spaces} ELSE @,
     !.tree = IF Validating THEN @ ELSE @ \union {[name |-> e.prefix \o n, of |-> <<p, n>>, under |-> e.prefix] : n \in c.spaces}]

\* The beginning of validate_recursive, and of load_recursive and load_tree_recursive.
ReadFile ==
  LET e == walk.entering
      p == Last(e.path)
  IN  /\ Walking /\ e # NoEntry
      /\ CASE e.path \in walk.seen -> Refuse("cycle")
           [] e.path \notin walk.seen /\ TooDeep -> Refuse("depth")
           [] e.path \notin walk.seen /\ ~TooDeep /\ files[p] = Gone ->
                IF walk.stack = <<>> THEN Refuse("missing") ELSE walk' = Unclaimed(e)
           [] OTHER ->
                LET c == Local(files[p])
                IN  CASE TooWide(c) -> Refuse("width")
                      [] ~TooWide(c) /\ Reserved(c) -> Refuse("reserved")
                      [] OTHER -> walk' = Entered(e, p, c)
      /\ UNCHANGED <<files, loader, cfg, edits>>

\* The children are taken by name.
FirstChild(todo) == ChildOrder[Min({i \in DOMAIN ChildOrder : ChildOrder[i] \in todo})]

\* The loop over the children, one of them: looked for, claimed and entered.
NextChild ==
  /\ Walking /\ walk.entering = NoEntry /\ walk.stack # <<>> /\ Top.todo # {}
  /\ LET name   == FirstChild(Top.todo)
         child  == Top.config.children[name]
         prefix == Top.prefix \o child.prefix
         path   == PathOf(Top.path, child)
         session == SessionName(prefix)
         rest   == [walk EXCEPT !.stack = Append(Below, [Top EXCEPT !.todo = @ \ {name}])]
         there  == Present(files, path)
     IN  CASE ~there -> walk' = rest
           [] there /\ Validating /\ prefix \in walk.prefixes -> Refuse("prefix")
           [] there /\ Validating /\ prefix \notin walk.prefixes /\ session \in walk.spaces -> Refuse("reserved")
           [] OTHER -> walk' = [rest EXCEPT !.entering = [names |-> Append(Top.names, name), path |-> path,
                                                          prefix |-> prefix, mount |-> child.prefix],
                                            !.prefixes = IF Validating THEN @ \union {prefix} ELSE @,
                                            !.orchestrators = IF Validating THEN @ \union {session} ELSE @]
  /\ UNCHANGED <<files, loader, cfg, edits>>

\* Mutant of MergedInto: a child's workspaces keep their own names.
MergedBare(flat, frame) ==
  [n \in DOMAIN flat \union DOMAIN frame.flat |-> IF n \in DOMAIN flat THEN flat[n] ELSE frame.flat[n]]

\* What a child's workspaces become in its parent; a name that is taken is skipped.
MergedInto(flat, frame) ==
  LET names == {frame.mount \o n : n \in DOMAIN frame.flat}
  IN  [n \in DOMAIN flat \union names |->
         IF n \in DOMAIN flat THEN flat[n] ELSE frame.flat[CHOOSE m \in DOMAIN frame.flat : frame.mount \o m = n]]

Return ==
  /\ Walking /\ walk.entering = NoEntry /\ walk.stack # <<>> /\ Top.todo = {}
  /\ LET up == [walk EXCEPT !.seen = @ \ {Top.path}, !.stack = Below]
     IN  walk' = CASE Below # <<>> ->
                        [up EXCEPT !.stack = Append(Front(Below), [Last(Below) EXCEPT !.flat = MergedInto(@, Top)])]
                   [] Below = <<>> /\ Validating ->
                        [up EXCEPT !.phase = "merge", !.entering = [NoEntry EXCEPT !.path = <<Root>>], !.seen = {}]
                   [] OTHER -> [up EXCEPT !.phase = "loaded", !.flat = Top.flat]
  /\ UNCHANGED <<files, loader, cfg, edits>>

\* A caller that has the flat view asks for the other; one whose load was refused gives up.
NextCall ==
  /\ walk.phase = "loaded" /\ loader = "load"
  /\ loader' = "load_tree" /\ cfg' = walk.flat /\ walk' = NoWalk
  /\ UNCHANGED <<files, edits>>

-----------------------------------------------------------------------------
(* The people *)

\* Files change under a call and between two; what changes before the first is another setup.
Edit(p, c) ==
  /\ Walking \/ (walk.phase = "idle" /\ loader = "load_tree")
  /\ edits < MaxEdits /\ edits' = edits + 1
  /\ files[p] # c
  /\ files' = [files EXCEPT ![p] = c]
  /\ UNCHANGED <<loader, cfg, walk>>

Delete(p) == Edit(p, Gone)
Rewrite(p) == files[p] = Gone /\ \E c \in Versions[p] : Edit(p, c)

Load == Start \/ ReadFile \/ NextChild \/ Return

TreeInit == files \in Setups /\ loader = "load" /\ cfg = NoWalk.flat /\ walk = NoWalk /\ edits = 0
TreeNext == Load \/ NextCall \/ \E p \in Projects : Delete(p) \/ Rewrite(p)
TreeSpec == TreeInit /\ [][TreeNext]_treeVars

-----------------------------------------------------------------------------
(* What a tree of files is, without a walk *)

Ended == walk.phase \in {"loaded", "refused"}

\* A mount is told by the names of the children on the way; above are the paths on the way.
FileAt(disk, m) == Local(disk[Last(m.path)])
RootMount == [names |-> <<>>, path |-> <<Root>>, prefix |-> <<>>, above |-> <<>>]
MountIn(disk, m, k) ==
  LET child == FileAt(disk, m).children[k]
  IN  [names |-> Append(m.names, k), path |-> PathOf(m.path, child), prefix |-> m.prefix \o child.prefix,
       above |-> Append(m.above, m.path)]
MountsIn(disk, m) ==
  {x \in {MountIn(disk, m, k) : k \in DOMAIN FileAt(disk, m).children} : Present(disk, x.path)}

\* The mounts level by level.  Paths lengthen on the way but for an absolute directory, and no
\* path is on it twice: it sets out from each project once at most, for MaxPath levels.
MaxLevel == Cardinality(Projects) * MaxPath
NextLevel(disk, mounts) == UNION {MountsIn(disk, m) : m \in {x \in mounts : ~Contains(x.above, x.path)}}
Levels(disk) ==
  LET down[n \in 0..MaxLevel] == IF n = 0 THEN {RootMount} ELSE NextLevel(disk, down[n - 1])
  IN  down
MountsOf(disk) == LET levels == Levels(disk) IN UNION {levels[n] : n \in DOMAIN levels}
Mounts == MountsOf(files)

Sessions(disk, m) ==
  IF m.prefix = <<>> /\ ~Local(disk[Root]).root THEN {} ELSE {SessionName(m.prefix)}

\* A tree that is not to be loaded: no file at its root; a mount below itself, too deep or too
\* wide; two mounts of one prefix; a workspace with the name of an orchestrator's session.
Faulty ==
  \/ files[Root] = Gone
  \/ LET root   == Local(files[Root])
         mounts == Mounts
     IN  \/ \E m \in mounts : \/ Contains(m.above, m.path)
                              \/ root.depth # 0 /\ Len(m.above) > root.depth
                              \/ root.width # 0 /\ Cardinality(DOMAIN FileAt(files, m).children) > root.width
         \/ \E m, n \in mounts : m # n /\ m.prefix = n.prefix
         \/ \E m, n \in mounts : \E w \in FileAt(files, m).spaces : m.prefix \o w \in Sessions(files, n)

\* The workspaces of a tree by their full names, and what each means.
RowsOf(disk, m) ==
  {[name |-> m.prefix \o n, of |-> <<Last(m.path), n>>, under |-> m.prefix] : n \in FileAt(disk, m).spaces}
AllRows == UNION {RowsOf(files, m) : m \in Mounts}

\* A map has the names of some rows, and a name that only one project uses means its workspace.
Shows(map, rows) ==
  /\ DOMAIN map = {row.name : row \in rows}
  /\ \A row \in rows : (\A r2 \in rows : r2.name = row.name => r2 = row) => map[row.name] = row.of

-----------------------------------------------------------------------------
(* Properties *)

\* A tree that nobody edits meanwhile is refused exactly when it is faulty, in whatever
\* order the walk comes upon the two sides of a collision.
ExactlyTheFaultyAreRefused ==
  Ended /\ edits = 0 => (walk.phase = "refused") = Faulty

\* The flat map, merged from the leaves up under the prefixes of the mounts, shows exactly
\* what its own call read, whatever is edited meanwhile.
FlatShowsWhatWasRead == walk.phase = "loaded" => Shows(walk.flat, walk.tree)

\* A tree that nobody edits is loaded as it is, whole and by its full names.
LoadsTheWholeTree == walk.phase = "loaded" /\ edits = 0 => walk.tree = AllRows

\* So the two calls of one caller agree on the names of the workspaces and on what they
\* mean, as long as nobody edits a file from the first to the second.
ViewsAgree ==
  walk.phase = "loaded" /\ loader = "load_tree" /\ edits = 0 => Shows(cfg, walk.tree)

\* Where depth is capped below what a path can hold, no project is loaded below itself, be
\* it mounted by a relative directory that the check for cycles does not recognise.
NoProjectHoldsItself ==
  walk.phase = "loaded" /\ edits = 0 /\ walk.depthCap \in 1..(MaxPath - 2) =>
    \A m \in walk.mounts : IsInjective(m.path)

\* Whatever goes away while the tree is walked, every claim that can refuse another child
\* or workspace is of a project that was read, or is about to be.
ClaimsAreReal ==
  Validating =>
    /\ walk.prefixes \subseteq {m.prefix : m \in walk.mounts} \union {walk.entering.prefix}
    /\ walk.orchestrators \subseteq
         {<<Orchestrator>>} \union {SessionName(x) : x \in walk.prefixes}

\* What every load may rely on, in any tree and with files changing under it.
LoadsAreRight ==
  /\ ExactlyTheFaultyAreRefused /\ FlatShowsWhatWasRead /\ LoadsTheWholeTree /\ ViewsAgree
  /\ NoProjectHoldsItself /\ ClaimsAreReal
=============================================================================
