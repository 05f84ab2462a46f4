---------------------------- MODULE UsageHistory ----------------------------
(***************************************************************************)
(* Token usage (ax-usage, and usage_trends.rs in the daemon): transcripts  *)
(* that the agents are still writing are read again for every question,    *)
(* folded into totals, cut into buckets of time, and given to workspaces.  *)
(*                                                                         *)
(* An assistant turn is written more than once under one request key, each *)
(* line replacing the one before; a subagent writes its own file under its *)
(* parent's session; two workspaces may share a directory, and then only a *)
(* line that names the workspace tells whose session it is.  Transcripts   *)
(* are looked for in the folder that Claude names after a directory, with  *)
(* '/' and '.' written as '-', so two directories may share one; each      *)
(* directory's folder is read, however often that is.  The four kinds of   *)
(* tokens are added alike and are one number here; every line has a time,  *)
(* and times do not go back within a file.                                 *)
(***************************************************************************)
EXTENDS Integers, Sequences, SequencesExt, FiniteSetsExt, Functions

CONSTANTS
  Files,         \* Claude transcripts, in the order of their paths
  Session,       \* per file: its session
  Agent,         \* per file: the agent, from its name
  DirOf,         \* per file: the directory its session ran in
  Folder,        \* per file: the folder it is kept in
  FolderOf,      \* per directory: the folder of its transcripts (claude_project_path)
  Keys, NoKey,   \* request ids; a line without one
  Models,        \* NoKey also stands for a line that names no model
  NoHint,        \* a line that names no workspace
  BucketSize,
  Scenes,        \* the workspaces' directories in a behaviour, what is written, and by which agents
  MaxClock       \* bound: time

FileSet == ToSet(Files)

ASSUME UsageHistoryAssumption ==
  /\ BucketSize \in Nat \ {0} /\ MaxClock \in Nat
  /\ NoKey \notin Keys /\ Models # {} /\ NoKey \notin Models
  /\ Files \in Seq(FileSet) /\ IsInjective(Files)
  /\ \A f, g \in FileSet : Session[f] = Session[g] => Folder[f] = Folder[g]
  /\ \A s \in Scenes :
       /\ s.max \in Nat /\ s.ticks \in 0..MaxClock    \* bounds: lines in all files, time
       /\ s.files \subseteq FileSet
       /\ s.turns \subseteq [key : Keys \union {NoKey}, model : Models \union {NoKey}, tokens : Nat, tool : BOOLEAN]
       /\ \A d \in s.layouts : IsFiniteSet(DOMAIN d) /\ NoHint \notin DOMAIN d

VARIABLES
  clock,
  scene,
  dirs,       \* the bindings: the directory of each workspace
  lines,      \* per transcript: its lines
  rollouts    \* per workspace: the lines of its Codex session and when it was written last

usageVars == <<clock, scene, dirs, lines, rollouts>>

Members == DOMAIN dirs

-----------------------------------------------------------------------------
(* Lines *)

\* What an agent writes: a turn, a note with the text of its instructions, or a line that
\* does not parse.
Turn(key, model, tokens, tool) ==
  [kind |-> "turn", ts |-> clock, key |-> key, model |-> model, tokens |-> tokens, tool |-> tool, hint |-> NoHint]
Note(hint) ==
  [kind |-> "note", ts |-> clock, key |-> NoKey, model |-> NoKey, tokens |-> 0, tool |-> FALSE, hint |-> hint]
Torn == [kind |-> "torn", ts |-> clock, key |-> NoKey, model |-> NoKey, tokens |-> 0, tool |-> FALSE, hint |-> NoHint]

Proxy(total, turns) == [total |-> total, turns |-> turns]
NoProxy == Proxy(0, 0)
AddProxy(p, q) == Proxy(p.total + q.total, p.turns + q.turns)
SubProxy(p, q) == Proxy(p.total - q.total, p.turns - q.turns)

\* attachment_mcp_proxy and message_mcp_proxy; the text of a note counts as one token.
ProxyOf(line) ==
  CASE line.kind = "note" -> Proxy(1, 0)
    [] line.kind = "turn" /\ line.tool -> Proxy(line.tokens, 1)
    [] OTHER -> NoProxy

-----------------------------------------------------------------------------
(* One transcript *)

Unseen == [seen |-> FALSE, model |-> NoKey, tokens |-> 0, tool |-> FALSE, proxy |-> NoProxy]

\* An aggregator: the sums, and what each request counts for now.
Fresh ==
  [cumulative |-> 0, proxy |-> NoProxy, turns |-> 0,
   models |-> [m \in Models \union {NoKey} |-> [tokens |-> 0, turns |-> 0]],
   requests |-> [k \in Keys |-> Unseen]]

\* apply_usage_delta: a request whose model changed takes its share along, unless it had
\* named none: then what it counted for stays there.
Moved(models, was, line) ==
  IF was.model \in {NoKey, line.model}
  THEN [models EXCEPT ![line.model] = [tokens |-> @.tokens + (line.tokens - was.tokens), turns |-> @.turns + (IF was.seen THEN 0 ELSE 1)]]
  ELSE [models EXCEPT ![was.model]  = [tokens |-> @.tokens - was.tokens, turns |-> @.turns - 1],
                      ![line.model] = [tokens |-> @.tokens + line.tokens, turns |-> @.turns + 1]]

\* Mutant of Was: a second line of a request is a turn of its own.
WasNothing(agg, key) == Unseen

\* What the request of a line counted for so far.
Was(agg, key) == IF key = NoKey THEN Unseen ELSE agg.requests[key]

\* A request that used a tool in any of its lines counts as one that does.
Request(was, line) ==
  LET tool == was.tool \/ line.tool
  IN  [seen |-> TRUE, model |-> line.model, tokens |-> line.tokens, tool |-> tool,
       proxy |-> IF tool THEN Proxy(line.tokens, 1) ELSE NoProxy]

\* ingest: what a line adds, and the aggregator after it.  One that does not parse adds nothing.
Effect(agg, line) ==
  LET was == Was(agg, line.key)
  IN  IF line.kind = "turn"
      THEN [tokens |-> line.tokens - was.tokens, turns |-> IF was.seen THEN 0 ELSE 1,
            proxy |-> SubProxy(Request(was, line).proxy, was.proxy)]
      ELSE [tokens |-> 0, turns |-> 0, proxy |-> ProxyOf(line)]

Ingest(agg, line) ==
  LET was    == Was(agg, line.key)
      effect == Effect(agg, line)
  IN  [cumulative |-> agg.cumulative + effect.tokens, proxy |-> AddProxy(agg.proxy, effect.proxy),
       turns |-> agg.turns + effect.turns,
       models |-> IF line.kind = "turn" THEN Moved(agg.models, was, line) ELSE agg.models,
       requests |-> IF line.kind = "turn" /\ line.key # NoKey
                    THEN [agg.requests EXCEPT ![line.key] = Request(was, line)] ELSE agg.requests]

\* Reading a transcript: the aggregator after each of its lines.
Tally(ls) ==
  LET upto[n \in 0..Len(ls)] == IF n = 0 THEN Fresh ELSE Ingest(upto[n - 1], ls[n])
  IN  upto

\* truncate_to_bucket.
BucketOf(ts) == ts \div BucketSize
Buckets == {BucketOf(t) : t \in 0..MaxClock}

\* Mutant of InWindow: the window's end counts too.
InWindowClosed(ts, q) == q.since <= ts /\ ts <= q.until

InWindow(ts, q) == q.since <= ts /\ ts < q.until

\* aggregate_buckets: what those in S come to, each counting for what[x].
Plus(x, y) == [tokens |-> x.tokens + y.tokens, turns |-> x.turns + y.turns, proxy |-> x.proxy + y.proxy]
Bucket(what, S) ==
  [tokens |-> SumFunctionOnSet([x \in S |-> what[x].tokens], S),
   turns  |-> SumFunctionOnSet([x \in S |-> what[x].turns], S),
   proxy  |-> SumFunctionOnSet([x \in S |-> what[x].proxy], S)]
Sum(field, buckets) == SumFunctionOnSet([b \in Buckets |-> buckets[b][field]], Buckets)

\* scan_transcript: what was added in the window, by bucket.
Added(ls) ==
  LET aggs == Tally(ls)
  IN  [n \in DOMAIN ls |->
         LET effect == Effect(aggs[n - 1], ls[n])
         IN  [tokens |-> effect.tokens, turns |-> effect.turns, proxy |-> effect.proxy.total]]
Scan(ls, q) ==
  LET added == Added(ls)
  IN  [b \in Buckets |-> Bucket(added, {n \in DOMAIN ls : InWindow(ls[n].ts, q) /\ BucketOf(ls[n].ts) = b})]

\* scan_codex_transcript: every count is a turn without a key; discover_codex_sessions
\* leaves out a file last written before the window.
CodexTokens(u) == (IF u.input > u.cached THEN u.input - u.cached ELSE 0) + u.cached + u.output

\* Mutant of ScanCodex: a file written as the window begins is left out.
ScanCodexLate(r, q) == Scan(IF r.written <= q.since THEN <<>> ELSE r.lines, q)

ScanCodex(r, q) ==
  Scan(IF r.written < q.since THEN <<>> ELSE r.lines, q)

-----------------------------------------------------------------------------
(* Whose transcript it is *)

\* Mutant of UniqueDir: the last workspace of a directory stands for it.
AnyDir(w) == TRUE

\* unique_by_dir.
UniqueDir(w) == \A v \in Members : dirs[v] = dirs[w] => v = w

\* Mutant of Hint: the last one stands.
LastHint(f) ==
  LET named == {i \in DOMAIN lines[f] : lines[f][i].hint # NoHint}
  IN  IF named = {} THEN NoHint ELSE lines[f][Max(named)].hint

\* merge_series_metadata: the workspace that a transcript names first.
Hint(f) ==
  LET named == {i \in DOMAIN lines[f] : lines[f][i].hint # NoHint}
  IN  IF named = {} THEN NoHint ELSE lines[f][Min(named)].hint
HasHint(f) == Hint(f) # NoHint
Hinted(f, w) == w \in Members /\ Hint(f) = w /\ dirs[w] = DirOf[f]

\* A session's workspace: the last file, in path order, that names one there.
SessionOwner(s) ==
  LET named == {i \in DOMAIN Files : Session[Files[i]] = s /\ HasHint(Files[i]) /\ Hinted(Files[i], Hint(Files[i]))}
  IN  IF named = {} THEN NoHint ELSE Hint(Files[Max(named)])

\* query_history: the directories for which a transcript is read, each of them once however
\* many workspaces it has.  A folder that is no workspace's is not read at all.
Readings(f) == {dirs[w] : w \in {v \in Members : FolderOf[dirs[v]] = Folder[f]}}

\* assign_series, for one transcript: its own word, its session's, or the only workspace of
\* the directory that it says it ran in.
Owner(f) ==
  LET here == {w \in Members : dirs[w] = DirOf[f]}
      only == {w \in here : UniqueDir(w)}
  IN  IF Readings(f) = {} \/ \A i \in DOMAIN lines[f] : lines[f][i].kind = "torn" THEN NoHint
      ELSE IF HasHint(f) THEN IF Hint(f) \in here THEN Hint(f) ELSE NoHint
      ELSE IF SessionOwner(Session[f]) # NoHint THEN SessionOwner(Session[f])
      ELSE IF only # {} THEN CHOOSE w \in only : TRUE ELSE NoHint

-----------------------------------------------------------------------------
(* The answer *)

\* A file that was read n times is there n times.
Times(n, bucket) == [tokens |-> n * bucket.tokens, turns |-> n * bucket.turns, proxy |-> n * bucket.proxy]

\* build_agent_histories: the buckets of all files of an agent.
AgentHistory(w, agent, q) ==
  LET its   == {f \in FileSet : Agent[f] = agent /\ Owner(f) = w}
      scans == [f \in its |-> Scan(lines[f], q)]
  IN  [b \in Buckets |-> Bucket([f \in its |-> Times(Cardinality(Readings(f)), scans[f][b])], its)]

\* query_history and query_workspace_trends: the agents of a workspace, Codex being one.
Agents == {Agent[f] : f \in FileSet}
Trend(w, q) ==
  LET codex  == ScanCodex(rollouts[w], q)
      claude == [agent \in Agents |-> AgentHistory(w, agent, q)]
  IN  [b \in Buckets |-> Plus(codex[b], Bucket([agent \in Agents |-> claude[agent][b]], Agents))]

-----------------------------------------------------------------------------
(* The agents write *)

Total == SumFunction([f \in FileSet |-> Len(lines[f])]) + SumFunction([w \in Members |-> Len(rollouts[w].lines)])

Write(f, line) ==
  /\ Total < scene.max
  /\ lines' = [lines EXCEPT ![f] = Append(@, line)]
  /\ UNCHANGED <<clock, scene, dirs, rollouts>>

WriteTurn(f) == \E t \in scene.turns : Write(f, Turn(t.key, t.model, t.tokens, t.tool))
WriteNote(f) == \E h \in scene.notes : Write(f, Note(h))
WriteTorn(f) == scene.torn /\ Write(f, Torn)

\* A token_count event; one without tokens is a rate-limit pulse and is skipped.
WriteCount(w) ==
  /\ scene.codex /\ Total < scene.max
  /\ \E i, c, o \in 0..1 :
       LET n == CodexTokens([input |-> i, cached |-> c, output |-> o])
       IN  rollouts' = [rollouts EXCEPT ![w] =
                          [lines |-> IF n = 0 THEN @.lines ELSE Append(@.lines, Turn(NoKey, CHOOSE m \in Models : TRUE, n, FALSE)),
                           written |-> clock]]
  /\ UNCHANGED <<clock, scene, dirs, lines>>

Tick == clock < scene.ticks /\ clock' = clock + 1 /\ UNCHANGED <<scene, dirs, lines, rollouts>>

UsageInit ==
  /\ clock = 0 /\ scene \in Scenes /\ dirs \in scene.layouts
  /\ lines = [f \in FileSet |-> <<>>]
  /\ rollouts = [w \in DOMAIN dirs |-> [lines |-> <<>>, written |-> -1]]

UsageNext ==
  \/ \E f \in scene.files : WriteTurn(f) \/ WriteNote(f) \/ WriteTorn(f)
  \/ \E w \in Members : WriteCount(w)
  \/ Tick

UsageSpec == UsageInit /\ [][UsageNext]_usageVars

-----------------------------------------------------------------------------
(* Properties *)

Queries == {q \in [since : 0..MaxClock, until : 1..(MaxClock + 1)] : q.since < q.until}

Written == {f \in FileSet : lines[f] # <<>>}
Turns(ls) == {i \in DOMAIN ls : ls[i].kind = "turn"}
LastOf(ls) == {i \in Turns(ls) : ls[i].key # NoKey => \A j \in Turns(ls) : j > i => ls[j].key # ls[i].key}
Named(ls) == \A i \in Turns(ls) : ls[i].model # NoKey
TokensOf(ls, S) == SumFunctionOnSet([i \in S |-> ls[i].tokens], S)

\* However often a turn is written again, with other tokens or under another model, it
\* counts once, as its last line has it: in the sum, in the number of turns, and for the
\* model that answered last, where every line names its model.
EveryTurnCountsOnce ==
  \A f \in Written :
    LET ls  == lines[f]
        agg == Tally(ls)[Len(ls)]
    IN  /\ agg.cumulative = TokensOf(ls, LastOf(ls))
        /\ agg.turns = Cardinality(LastOf(ls))
        /\ Named(ls) => \A m \in Models :
             LET its == {i \in LastOf(ls) : ls[i].model = m}
             IN  agg.models[m] = [tokens |-> TokensOf(ls, its), turns |-> Cardinality(its)]

\* A window's buckets add up to what the totals gained within it, also where a turn was
\* begun before the window and written again inside it.
LinesBefore(ls, t) == Max({0} \union {i \in DOMAIN ls : ls[i].ts < t})
WindowsAddUp ==
  \A f \in Written, q \in Queries :
    LET ls      == lines[f]
        before  == Tally(ls)[LinesBefore(ls, q.since)]
        after   == Tally(ls)[LinesBefore(ls, q.until)]
        buckets == Scan(ls, q)
    IN  /\ Sum("tokens", buckets) = after.cumulative - before.cumulative
        /\ Sum("turns", buckets) = after.turns - before.turns
        /\ Sum("proxy", buckets) = after.proxy.total - before.proxy.total

\* While no two of the workspaces' directories share a folder, what the workspaces are told
\* of a window adds up to what was written in it: no file is counted for two workspaces or
\* for two agents, and no Codex session is left out that was still written in the window.
FoldersApart == \A v, w \in Members : FolderOf[dirs[v]] = FolderOf[dirs[w]] => dirs[v] = dirs[w]
NothingIsCountedTwice ==
  Total > 0 /\ FoldersApart => \A q \in Queries :
    LET owned == {f \in FileSet : Owner(f) # NoHint}
        Of(ls) == Sum("tokens", Scan(ls, q))
    IN  SumFunctionOnSet([w \in Members |-> Sum("tokens", Trend(w, q))], Members)
          = SumFunctionOnSet([f \in owned |-> Of(lines[f])], owned)
            + SumFunctionOnSet([w \in Members |-> Of(rollouts[w].lines)], Members)

\* A transcript in a directory that workspaces share is nobody's until its session names one.
NobodyIsGuessed ==
  \A f \in FileSet :
    (\E w \in Members : dirs[w] = DirOf[f] /\ w # Owner(f)) /\ Owner(f) # NoHint
      => \E g \in FileSet : Session[g] = Session[f] /\ Hinted(g, Owner(f))

\* What every report may rely on, over any transcripts as they grow.
UsageIsExact == EveryTurnCountsOnce /\ WindowsAddUp /\ NothingIsCountedTwice /\ NobodyIsGuessed
=============================================================================
