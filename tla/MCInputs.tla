------------------------------ MODULE MCInputs ------------------------------
(***************************************************************************)
(* The four readers of files that others write: the config loader, the     *)
(* launcher, the usage reports and the git status.  They share nothing, so *)
(* a behaviour is about one of them and the others stay where they began.  *)
(***************************************************************************)
EXTENDS AgentLaunch, ConfigTree, UsageHistory, GitStatus, TLC
CONSTANTS
  a, b, d1, d2, d3, p1, p2,                \* workspaces, their directories, Claude's folders
  r, lib, q, kidA, kidB, w, orch,                  \* projects; names of children, a workspace, the orchestrator
  f1, f2, f3, s1, s2, main, sub            \* transcripts, their sessions and agents

VARIABLE subject

-----------------------------------------------------------------------------
(* AgentLaunch *)

TomlLines == {Header("mcp"), Header("provider"), Entry("model", 0), Entry("args", 0), Entry("name", 0), Blank}
Bases == {toml \in UNION {[1..n -> TomlLines] : n \in 0..3} : WellFormed(toml)}
Whole == {"id", "model", "url", "env"}
World(used, runtimes, places, base, providers, auth, refresh, max) ==
  [used |-> used, launches |-> max, runtime |-> (a :> runtimes[1]) @@ (b :> runtimes[2]),
   dir |-> (a :> places[1]) @@ (b :> places[2]), base |-> base, providers |-> providers, auth |-> auth, refresh |-> refresh]
\* One Codex agent, any file of the user and any provider; a Codex agent whose home others
\* prepare too; Claude in a folder of its own; two of them in one directory, or in two that
\* are written alike.
WorldsValue ==
  {World({a}, <<"codex", "codex">>, <<d1, d1>>, base, <<given, given>>, FALSE, FALSE, 1) :
     base \in Bases, given \in {{}, {"id"}, {"id", "url"}, Whole, Whole \union {"foreign"}}}
    \union {World({a}, <<"codex", "claude">>, <<d1, d1>>, <<Entry("name", 0)>>, <<{"id", "url"}, {"id", "model"}>>, TRUE, TRUE, 2)}
    \union {World({a}, <<"claude", "claude">>, <<d1, d2>>, <<>>, <<{}, {}>>, FALSE, FALSE, 3)}
    \union {World({a, b}, <<"claude", "claude">>, places, <<>>, <<{}, {}>>, FALSE, FALSE, 2) : places \in {<<d1, d1>>, <<d1, d3>>}}

-----------------------------------------------------------------------------
(* ConfigTree *)

ChildOrderValue == <<kidA, kidB>>
Child(project, abs, prefix) == [project |-> project, abs |-> abs, prefix |-> prefix]
NoOverlay == [dropped |-> {}, spaces |-> {}, unmounted |-> {}, children |-> <<>>]
File(spaces, children, depth, root) ==
  [spaces |-> spaces, children |-> children, depth |-> depth, width |-> 2, root |-> root, team |-> FALSE, overlay |-> NoOverlay]

\* The root: workspaces that may meet those of kidA, kidA's orchestrator or its own; kidA and kidB apart,
\* under one prefix, nested by name, or one project twice.
RootFiles ==
  {File(spaces, children, depth, root) :
     spaces \in {{<<w>>}, {<<kidA, w>>}, {<<kidA, orch>>}, {<<orch>>}},
     children \in {<<>>,
                   (kidA :> Child(lib, FALSE, <<>>)),
                   (kidA :> Child(lib, FALSE, <<>>)) @@ (kidB :> Child(q, FALSE, <<kidA>>)),
                   (kidA :> Child(lib, TRUE, <<>>)) @@ (kidB :> Child(lib, TRUE, <<>>)),
                   (kidA :> Child(q, TRUE, <<>>)) @@ (kidB :> Child(q, TRUE, <<kidA>>)),
                   (kidA :> Child(lib, FALSE, <<>>)) @@ (kidB :> Child(q, FALSE, <<kidA, kidB>>))},
     depth \in 0..3, root \in BOOLEAN}
\* A root whose overlay takes kidA away and puts kidB in its place.
TeamFiles ==
  {[File({<<w>>}, (kidA :> Child(lib, FALSE, <<>>)), 2, TRUE) EXCEPT
      !.team = TRUE, !.overlay = [dropped |-> {<<w>>}, spaces |-> {<<kidA>>}, unmounted |-> {kidA}, children |-> (kidB :> Child(q, TRUE, <<>>))]]}
\* lib: alone, with q, or with the root mounted again, by an absolute or a relative directory.
PFiles ==
  {File(spaces, children, 0, TRUE) :
     spaces \in {{<<w>>}, {<<kidB, orch>>}},
     children \in {<<>>, (kidB :> Child(q, FALSE, <<>>)), (kidA :> Child(r, FALSE, <<>>)), (kidA :> Child(r, TRUE, <<>>))}}
QFiles == {File({<<w>>}, <<>>, 0, TRUE), Gone}
SetupsValue == {(r :> rf) @@ (lib :> pf) @@ (q :> qf) : rf \in RootFiles \union TeamFiles \union {Gone}, pf \in PFiles, qf \in QFiles}
VersionsValue == (r :> TeamFiles) @@ (lib :> {File({<<w>>}, (kidA :> Child(r, FALSE, <<>>)), 0, TRUE)}) @@ (q :> QFiles \ {Gone})

-----------------------------------------------------------------------------
(* UsageHistory *)

FilesValue == <<f1, f2, f3>>
SessionValue == (f1 :> s1) @@ (f2 :> s1) @@ (f3 :> s2)
AgentValue == (f1 :> main) @@ (f2 :> sub) @@ (f3 :> main)
\* d1 and d3 are written alike, as /p/foo/bar and /p/foo-bar are.
FolderOfValue == (d1 :> p1) @@ (d2 :> p2) @@ (d3 :> p1)
DirOfValue == (f1 :> d1) @@ (f2 :> d1) @@ (f3 :> d3)
FolderValue == [f \in {f1, f2, f3} |-> FolderOfValue[DirOfValue[f]]]
Apart == (a :> d1) @@ (b :> d2)
Shared == (a :> d1) @@ (b :> d1)
Alike == (a :> d1) @@ (b :> d3)
PlainTurn == [key : {NoKey}, model : {CHOOSE m \in Models : TRUE}, tokens : {1}, tool : {FALSE}]
AnyTurn ==
  PlainTurn \union [key : Keys, model : Models \union {NoKey}, tokens : 0..1, tool : {FALSE}]
            \union [key : Keys, model : {CHOOSE m \in Models : TRUE}, tokens : 0..1, tool : {TRUE}]
\* One transcript of any turns; three of them in one folder; one beside a Codex session.
ScenesValue ==
  {[files |-> {f1}, turns |-> AnyTurn, notes |-> {NoHint}, torn |-> TRUE, codex |-> FALSE,
    layouts |-> {Apart}, ticks |-> 2, max |-> 3],
   [files |-> {f1, f2, f3}, turns |-> PlainTurn, notes |-> {a, b}, torn |-> FALSE, codex |-> FALSE,
    layouts |-> {Apart, Shared, Alike}, ticks |-> 1, max |-> 3],
   [files |-> {f1}, turns |-> PlainTurn, notes |-> {}, torn |-> FALSE, codex |-> TRUE,
    layouts |-> {Apart}, ticks |-> 2, max |-> 2]}

-----------------------------------------------------------------------------
(* GitStatus *)

Line(x, y) == [x |-> x, y |-> y, old |-> <<>>]
Renamed(x, y, old) == [x |-> x, y |-> y, old |-> old]
\* Every kind of change, a clean tree, and renames whose old paths read like entries, in the
\* work tree too.
HistoriesValue ==
  {<< <<Renamed("R", "M", <<"D", "x">>), Line("A", "D")>>, <<Line(" ", "M"), Line("?", "?"), Line("!", "!")>> >>,
   << <<Renamed("C", " ", <<"?", "?">>), Renamed("R", " ", <<"x">>)>>, <<>> >>,
   << <<Renamed(" ", "R", <<"R", "x">>), Renamed("C", " ", <<"M", "x">>)>>,
      <<Renamed(" ", "R", <<"M", "x">>), Line("?", "?")>> >>}

-----------------------------------------------------------------------------
\* Where those that a behaviour is not about stay.
LaunchIdle == world = (CHOOSE x \in Worlds : TRUE)
TreeIdle == files = (CHOOSE x \in Setups : TRUE)
UsageIdle == scene = (CHOOSE x \in Scenes : Apart \in x.layouts) /\ dirs = Apart
GitIdle == tree = [history |-> CHOOSE h \in Histories : TRUE, edits |-> 0]

Init ==
  /\ \/ subject = "launch" /\ TreeIdle /\ UsageIdle /\ GitIdle
     \/ subject = "config" /\ LaunchIdle /\ UsageIdle /\ GitIdle
     \/ subject = "usage" /\ LaunchIdle /\ TreeIdle /\ GitIdle
     \/ subject = "git" /\ LaunchIdle /\ TreeIdle /\ UsageIdle
  /\ LaunchInit /\ TreeInit /\ UsageInit /\ GitInit

Next ==
  /\ UNCHANGED subject
  /\ \/ subject = "launch" /\ LaunchNext /\ UNCHANGED <<treeVars, usageVars, gitVars>>
     \/ subject = "config" /\ TreeNext /\ UNCHANGED <<launchVars, usageVars, gitVars>>
     \/ subject = "usage" /\ UsageNext /\ UNCHANGED <<launchVars, treeVars, gitVars>>
     \/ subject = "git" /\ GitNext /\ UNCHANGED <<launchVars, treeVars, usageVars>>

inputVars == <<subject, launchVars, treeVars, usageVars, gitVars>>
Spec == Init /\ [][Next]_inputVars
=============================================================================
