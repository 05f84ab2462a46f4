---------------------------- MODULE AgentLaunch ----------------------------
(***************************************************************************)
(* Starting an agent (ax-agent): `ax run-agent' in a tmux pane prepares    *)
(* what the runtime reads, spawns it, reports while it runs and waits for  *)
(* its end.  Claude keeps its conversations per directory and is asked to  *)
(* continue the last one; Codex gets a home directory of its own, made of  *)
(* the user's and of the entries that ax sets in its config.toml.  Others  *)
(* prepare the same home meanwhile (ensure_artifacts), and any of them may *)
(* be killed between two steps.                                            *)
(*                                                                         *)
(* A config.toml is a sequence of lines: a header, a key with its value,   *)
(* or a blank; the user's values are 0, ax's own are the number of the     *)
(* settings it was asked with.  A conversation is the number of the launch *)
(* that began it.                                                          *)
(***************************************************************************)
EXTENDS Integers, Sequences, SequencesExt, FiniteSetsExt, Functions

CONSTANTS
  Workspaces,
  Worlds,          \* per world: the workspaces used, their runtimes and directories, the user's files, the providers, what happens
  ProjectKey,      \* per directory: the name under which Claude keeps its conversations; others may have it too
  TopLevel,        \* the part of a file above its first header
  None,
  MaxKills         \* bound: kills

VARIABLES
  world,
  settings,   \* what the project's config says now
  homes,      \* per workspace: its Codex home
  talks,      \* per folder of Claude's: the conversations kept there, the last one used last
  jobs,       \* per workspace: who prepares its home or runs its agent
  title,      \* per workspace: the state that its window shows
  launches,   \* launches so far
  forgotten,  \* per workspace: its last fresh launch that was prepared
  kills

launchVars == <<world, settings, homes, talks, jobs, title, launches, forgotten, kills>>

Roles == {"agent", "artifacts"}
Claude(w) == world.runtime[w] = "claude"
\* claude_project_path, whose encoding writes some directories alike.
TalksDir(w) == ProjectKey[world.dir[w]]

-----------------------------------------------------------------------------
(* config.toml *)

Header(s) == [kind |-> "header", name |-> s, value |-> 0]
Entry(k, v) == [kind |-> "key", name |-> k, value |-> v]
Blank == [kind |-> "blank", name |-> None, value |-> 0]

Headers(c) == {i \in DOMAIN c : c[i].kind = "header"}

\* What a home or a job has instead of a text: nothing, a file that was emptied, or one that
\* two wrote over each other.
NoText == <<[kind |-> "none", name |-> None, value |-> 0]>>
TornText == <<[kind |-> "torn", name |-> None, value |-> 0]>>
MixedText == <<[kind |-> "mixed", name |-> None, value |-> 0]>>

\* split_lines: blanks at the end are lost.
Split(c) == SubSeq(c, 1, Max({i \in DOMAIN c : c[i] # Blank} \union {0}))

\* upsert_top_level_key.
UpsertTop(text, k, v) ==
  LET c     == Split(text)
      stops == {i \in DOMAIN c : c[i].kind = "header" \/ (c[i].kind = "key" /\ c[i].name = k)}
      first == Min(stops)
  IN  CASE stops = {} -> Append(c, Entry(k, v))
        [] stops # {} /\ first \in Headers(c) -> InsertAt(c, first, Entry(k, v))
        [] OTHER -> [c EXCEPT ![first] = Entry(k, v)]

\* Mutant of SectionEnd: the section goes on to the end of the file.
FileEnd(c, start) == Len(c) + 1

\* The line after a section's last.
SectionEnd(c, start) == Min({i \in Headers(c) : i > start} \union {Len(c) + 1})

\* upsert_key_in_section.
UpsertIn(text, s, k, v) ==
  LET c      == Split(text)
      starts == {i \in Headers(c) : c[i].name = s}
      start  == Min(starts)
      end    == SectionEnd(c, start)
      same   == {i \in (start + 1)..(end - 1) : c[i].kind = "key" /\ c[i].name = k}
      spaced == IF c # <<>> THEN Append(c, Blank) ELSE c
  IN  CASE starts = {} -> spaced \o <<Header(s), Entry(k, v)>>
        [] starts # {} /\ same # {} -> [c EXCEPT ![Min(same)] = Entry(k, v)]
        [] OTHER -> InsertAt(c, end, Entry(k, v))

Upsert(text, e, v) == IF e[1] = TopLevel THEN UpsertTop(text, e[2], v) ELSE UpsertIn(text, e[1], e[2], v)

\* default_codex_config: what is set where no config is named, or where it does not load.
Default == -1

\* codex_agent_provider_for_workspace: what the provider of these settings gives; one of
\* another runtime gives nothing.
Given(x, v) == IF v = Default \/ "foreign" \in x.providers[v] THEN {} ELSE x.providers[v]

\* prepare_codex_home and apply_agent_provider_config: the entries that ax sets, in order.
AxKeys(x, v) ==
  LET With(what, keys) == IF what \subseteq Given(x, v) THEN keys ELSE <<>>
  IN  << <<TopLevel, "model_reasoning_effort">> >>
        \o With({"id"}, << <<TopLevel, "model_provider">> >>)
        \o With({"id", "model"}, << <<TopLevel, "model">> >>)
        \o With({"id", "url"}, << <<"provider", "name">>, <<"provider", "base_url">> >>)
        \o With({"id", "url", "env"}, << <<"provider", "env_key">> >>)
        \o With({"id", "url"}, << <<"provider", "wire_api">>, <<TopLevel, "web_search">> >>)
        \o << <<"project", "trust_level">>, <<"mcp", "command">>, <<"mcp", "args">> >>

\* prepare_codex_home, the text that it writes: one entry after another is set.
Rendered(x, v) ==
  LET keys == AxKeys(x, v)
      upto[n \in 0..Len(keys)] == IF n = 0 THEN x.base ELSE Upsert(upto[n - 1], keys[n], v)
  IN  upto[Len(keys)]

\* How Codex reads it: the section of a line, and what each key of a section is.
SectionOf(c, i) ==
  LET above == {j \in Headers(c) : j < i}
  IN  IF above = {} THEN TopLevel ELSE c[Max(above)].name
KeyLines(c) == {i \in DOMAIN c : c[i].kind = "key"}
Said(c) == {<<SectionOf(c, i), c[i].name, c[i].value>> : i \in KeyLines(c)}
WellFormed(c) ==
  /\ \A i, j \in Headers(c) : c[i].name = c[j].name => i = j
  /\ \A i, j \in KeyLines(c) : SectionOf(c, i) = SectionOf(c, j) /\ c[i].name = c[j].name => i = j

\* A file that Codex takes; no section is called as the part above the first.
Toml(c) ==
  /\ c \in Seq(ToSet(c)) /\ WellFormed(c)
  /\ \A i \in DOMAIN c : c[i].kind \in {"header", "key", "blank"} /\ (c[i].kind = "header" => c[i].name # TopLevel)

ASSUME AgentLaunchAssumption ==
  /\ MaxKills \in Nat
  /\ \A x \in Worlds : x.launches \in Nat /\ x.auth \in BOOLEAN /\ Toml(x.base)    \* bound: launches

-----------------------------------------------------------------------------
(* Preparing a home *)

NoHome == [made |-> FALSE, auth |-> "none", config |-> NoText, file |-> 0]
NoJob == [at |-> "off", id |-> 0, fresh |-> FALSE, extra |-> FALSE, resume |-> FALSE, talk |-> 0, alone |-> TRUE,
          link |-> FALSE, late |-> {}, text |-> NoText, file |-> 0, auth |-> "none"]

Job(w, role) == jobs[w][role]
Runs(w) == jobs[w].agent.at = "running"
At(w, role, place) == Job(w, role).at = place
Goes(w, role, place) == jobs' = [jobs EXCEPT ![w][role].at = place]
Fails(w, role) == jobs' = [jobs EXCEPT ![w][role] = NoJob]

\* remove_codex_home, when asked, and the directory made; its files are new ones then.
MakeHome(w, role) ==
  /\ At(w, role, "begun") /\ ~Claude(w)
  /\ homes' = [homes EXCEPT ![w] = IF Job(w, role).fresh THEN [NoHome EXCEPT !.made = TRUE, !.file = homes[w].file + 1]
                                   ELSE [@ EXCEPT !.made = TRUE]]
  /\ Goes(w, role, "made")
  /\ UNCHANGED <<world, settings, talks, title, launches, forgotten, kills>>

\* link_if_present: what is in the way goes first.
ClearAuth(w, role) ==
  /\ At(w, role, "made")
  /\ IF ~world.auth \/ homes[w].auth = "link" THEN Goes(w, role, "linked") /\ UNCHANGED homes
     ELSE /\ Goes(w, role, "clear")
          /\ homes' = [homes EXCEPT ![w].auth = "none"]
  /\ UNCHANGED <<world, settings, talks, title, launches, forgotten, kills>>

\* The link is made, unless someone else made it meanwhile: then the call fails.
LinkAuth(w, role) ==
  /\ At(w, role, "clear")
  /\ IF homes[w].auth # "none" \/ ~homes[w].made THEN Fails(w, role) /\ UNCHANGED homes
     ELSE /\ Goes(w, role, "linked")
          /\ homes' = [homes EXCEPT ![w].auth = "link"]
  /\ UNCHANGED <<world, settings, talks, title, launches, forgotten, kills>>

\* The project's config is read, or the default taken; fs::write: emptied, then written.
TruncateConfig(w, role) ==
  /\ At(w, role, "linked")
  /\ IF ~homes[w].made THEN Fails(w, role) /\ UNCHANGED homes
     ELSE /\ \E v \in {settings, Default} :
               jobs' = [jobs EXCEPT ![w][role] = [@ EXCEPT !.at = "writing", !.text = Rendered(world, v), !.file = homes[w].file]]
          /\ homes' = [homes EXCEPT ![w].config = TornText]
  /\ UNCHANGED <<world, settings, talks, title, launches, forgotten, kills>>

\* What comes of a text written over what another wrote since the file was emptied.
Overwritten(old, text) == IF old \in {TornText, text} THEN {text} ELSE {text, MixedText}

\* A file that was removed meanwhile is written for nobody.
WriteConfig(w, role) ==
  LET job == Job(w, role)
  IN  /\ At(w, role, "writing")
      /\ IF job.file = homes[w].file
         THEN \E text \in Overwritten(homes[w].config, job.text) : homes' = [homes EXCEPT ![w].config = text]
         ELSE UNCHANGED homes
      /\ IF role = "agent" THEN Goes(w, role, "ready") ELSE Fails(w, role)
      /\ UNCHANGED <<world, settings, talks, title, launches, forgotten, kills>>

-----------------------------------------------------------------------------
(* Launching *)

Launch(w) ==
  /\ w \in world.used /\ At(w, "agent", "off") /\ launches < world.launches
  /\ launches' = launches + 1
  /\ \E fresh, extra \in BOOLEAN :
       jobs' = [jobs EXCEPT ![w].agent = [NoJob EXCEPT !.at = "begun", !.id = launches + 1, !.fresh = fresh, !.extra = extra,
                                                       !.alone = At(w, "artifacts", "off")]]
  /\ UNCHANGED <<world, settings, homes, talks, title, forgotten, kills>>

\* ensure_artifacts prepares the home too, never a fresh one.
Refresh(w) ==
  /\ world.refresh /\ w \in world.used /\ ~Claude(w) /\ At(w, "artifacts", "off")
  /\ jobs' = [jobs EXCEPT ![w].artifacts = [NoJob EXCEPT !.at = "begun"], ![w].agent.alone = FALSE]
  /\ UNCHANGED <<world, settings, homes, talks, title, launches, forgotten, kills>>

\* Mutant of PrepareClaude: a fresh launch leaves the conversations.
PrepareClaudeKeeping(w) ==
  /\ At(w, "agent", "begun") /\ Claude(w) /\ Goes(w, "agent", "ready")
  /\ forgotten' = [forgotten EXCEPT ![w] = IF Job(w, "agent").fresh THEN Job(w, "agent").id ELSE @]
  /\ UNCHANGED <<world, settings, homes, talks, title, launches, kills>>

\* prepare_claude_launch.
PrepareClaude(w) ==
  /\ At(w, "agent", "begun") /\ Claude(w)
  /\ talks' = [talks EXCEPT ![TalksDir(w)] = IF Job(w, "agent").fresh THEN <<>> ELSE @]
  /\ forgotten' = [forgotten EXCEPT ![w] = IF Job(w, "agent").fresh THEN Job(w, "agent").id ELSE @]
  /\ Goes(w, "agent", "ready")
  /\ UNCHANGED <<world, settings, homes, title, launches, kills>>

\* RuntimeStatusReporter::new: a daemon that does not answer is done without.
Connect(w) ==
  /\ At(w, "agent", "ready")
  /\ \E up \in BOOLEAN :
       jobs' = [jobs EXCEPT ![w].agent = [@ EXCEPT !.link = up, !.at = "spawn",
                                                   !.resume = Claude(w) /\ ~Job(w, "agent").fresh /\ ~Job(w, "agent").extra]]
  /\ UNCHANGED <<world, settings, homes, talks, title, launches, forgotten, kills>>

\* request: the answers that the connection holds; the ones to reports that timed out come first.
Answers(late, state) == [mine : {FALSE}, state : late] \union {[mine |-> TRUE, state |-> state]}

\* Mutant of Taken: the first answer is taken, whatever its id.
FirstTaken(late, state) == (CHOOSE m \in Answers(late, state) : late # {} => ~m.mine).state

\* The answer with the request's own id is taken, the others are skipped.
Taken(late, state) == (CHOOSE m \in Answers(late, state) : m.mine).state

\* How a report ends: answered; refused, cut off or not understood; or timed out, when the
\* answer may still come.
Ends(job) == IF job.link THEN {"answer", "error", "silence"} ELSE {"error"}
LateAfter(job, state, end) ==
  CASE end = "answer" -> {}
    [] end = "error" -> job.late
    [] end = "silence" -> job.late \union {state}

\* emit: the window gets the title that the daemon answers, or one of the reporter's own.
Emitted(w, state, end) ==
  title' = [title EXCEPT ![w] = IF end = "answer" THEN Taken(Job(w, "agent").late, state) ELSE state]

\* spawn_claude and run_codex: a conversation is continued or begun; the state is Busy.
Spawn(w) ==
  LET job   == Job(w, "agent")
      kept  == talks[TalksDir(w)]
      begun == [id |-> job.id, by |-> w]
  IN  /\ At(w, "agent", "spawn")
      /\ \E end \in Ends(job) :
           /\ Emitted(w, "busy", end)
           /\ jobs' = [jobs EXCEPT ![w].agent =
                         [job EXCEPT !.at = "running", !.late = LateAfter(job, "busy", end),
                                     !.talk = IF job.resume /\ kept # <<>> THEN Last(kept).id ELSE job.id,
                                     !.text = homes[w].config, !.auth = homes[w].auth]]
      /\ talks' = IF job.resume \/ ~Claude(w) THEN talks ELSE [talks EXCEPT ![TalksDir(w)] = Append(@, begun)]
      /\ UNCHANGED <<world, settings, homes, launches, forgotten, kills>>

\* The program cannot be started: nothing is reported.
SpawnFails(w) ==
  /\ At(w, "agent", "spawn") /\ Fails(w, "agent")
  /\ UNCHANGED <<world, settings, homes, talks, title, launches, forgotten, kills>>

\* Every five seconds, when what the transcript says has changed: else emit returns at once.
Report(w) ==
  /\ Runs(w)
  /\ \E end \in Ends(Job(w, "agent")) :
       /\ Emitted(w, "busy", end)
       /\ jobs' = [jobs EXCEPT ![w].agent.late = LateAfter(Job(w, "agent"), "busy", end)]
  /\ UNCHANGED <<world, settings, homes, talks, launches, forgotten, kills>>

\* The runtime ends, and Idle is reported.  One asked to continue has failed when there was
\* nothing to continue, and may fail at any time; it is then started once more, without.
Exit(w) ==
  LET job == Job(w, "agent")
  IN  /\ Runs(w)
      /\ \E ok \in BOOLEAN, end \in Ends(job) :
           /\ job.resume /\ talks[TalksDir(w)] = <<>> => ~ok
           /\ Emitted(w, "idle", end)
           /\ jobs' = [jobs EXCEPT ![w].agent =
                         IF ok \/ ~job.resume THEN NoJob
                         ELSE [job EXCEPT !.at = "spawn", !.resume = FALSE, !.late = LateAfter(job, "idle", end)]]
      /\ UNCHANGED <<world, settings, homes, talks, launches, forgotten, kills>>

\* Killed with its pane, or with `ax' itself; a process that prepares files stops there.
Kill(w, role) ==
  /\ kills < MaxKills /\ kills' = kills + 1
  /\ ~At(w, role, "off")
  /\ Fails(w, role)
  /\ title' = IF role = "agent" THEN [title EXCEPT ![w] = "none"] ELSE title
  /\ UNCHANGED <<world, settings, homes, talks, launches, forgotten>>

\* What others do: the project's config is edited, Codex puts a file of its own for auth.json.
EditSettings ==
  /\ world.refresh /\ settings = 1 /\ settings' = 2
  /\ UNCHANGED <<world, homes, talks, jobs, title, launches, forgotten, kills>>
ReplaceAuth(w) ==
  /\ At(w, "agent", "running") /\ homes[w].auth = "link" /\ world.refresh
  /\ homes' = [homes EXCEPT ![w].auth = "file"]
  /\ UNCHANGED <<world, settings, talks, jobs, title, launches, forgotten, kills>>

Prepare(w, role) ==
  MakeHome(w, role) \/ ClearAuth(w, role) \/ LinkAuth(w, role) \/ TruncateConfig(w, role) \/ WriteConfig(w, role)

LaunchInit ==
  /\ world \in Worlds /\ settings = 1
  /\ homes = [w \in Workspaces |-> NoHome]
  /\ talks = [d \in {TalksDir(w) : w \in Workspaces} |-> <<>>]
  /\ jobs = [w \in Workspaces |-> [role \in Roles |-> NoJob]]
  /\ title = [w \in Workspaces |-> "none"]
  /\ launches = 0 /\ forgotten = [w \in Workspaces |-> 0] /\ kills = 0

LaunchNext ==
  \/ \E w \in Workspaces :
       \/ Launch(w) \/ Refresh(w) \/ PrepareClaude(w) \/ Connect(w) \/ Spawn(w) \/ SpawnFails(w) \/ Report(w) \/ Exit(w)
       \/ ReplaceAuth(w)
       \/ \E role \in Roles : Prepare(w, role) \/ Kill(w, role)
  \/ EditSettings

LaunchSpec == LaunchInit /\ [][LaunchNext]_launchVars

-----------------------------------------------------------------------------
(* Properties *)

\* What Codex starts with is a well-formed file that says what the user's says, and of the
\* entries that ax sets for these settings exactly one each, with values that the project has
\* or had, or the default's; and the user's login: whatever a launch or a preparation that was
\* killed left behind, and unless another preparation of that home was under way.
StartsPrepared ==
  \A w \in Workspaces :
    LET job == Job(w, "agent")
    IN  Runs(w) /\ ~Claude(w) /\ job.alone =>
          /\ job.text \notin {NoText, TornText, MixedText}
          /\ WellFormed(job.text)
          /\ \E v \in (1..settings) \union {Default} :
               LET ax == ToSet(AxKeys(world, v))
               IN  Said(job.text) = {e \in Said(world.base) : <<e[1], e[2]>> \notin ax} \union {<<k[1], k[2], v>> : k \in ax}
          /\ world.auth => job.auth = "link"

\* After a fresh launch was prepared no session of its workspace continues a conversation
\* from before, also when that launch was killed before its agent started, where no other
\* workspace has a directory that is written like its own.
NothingFromBefore ==
  \A w \in Workspaces :
    Runs(w) /\ (\A v \in Workspaces : TalksDir(v) = TalksDir(w) => v = w) => Job(w, "agent").talk >= forgotten[w]

\* The window of an agent shows whether it runs, also after reports that were refused or that
\* timed out, whose answers come when a later report waits for its own.
ShownAsItIs == \A w \in Workspaces : Runs(w) <=> title[w] = "busy"

\* What every launch may rely on, beside other preparations and after any kill.
LaunchesAreSafe == StartsPrepared /\ NothingFromBefore /\ ShownAsItIs
=============================================================================
