----------------------------- MODULE Artifacts -----------------------------
(* The files ax generates inside a workspace's or an orchestrator's           *)
(* directory (ax-workspace: instructions.rs, mcp_config.rs, the file half of  *)
(* manager.rs, orchestrator.rs and orchestrator_prompt.rs).                   *)
(*                                                                            *)
(* A text file is a sequence of tokens: the user's own lines, the two ax      *)
(* markers and the managed body between them.  A missing and an empty file    *)
(* are the same file here, and white space is left out.                       *)
(*                                                                            *)
(* `.mcp.json` keeps one entry of the user's own and the "ax" entry.  The     *)
(* user's entry is "plain" (command and args, all that McpServerEntry has),   *)
(* "rich" (with further fields, which serde skips on reading and therefore    *)
(* drops on writing) or "foreign" (without command or args: the whole file    *)
(* does not parse).                                                           *)
(*                                                                            *)
(* Every file is rewritten in place: fs::read, then fs::write, which empties  *)
(* the file (open with O_TRUNC) before it writes.                             *)
EXTENDS Naturals, Sequences, SequencesExt

CONSTANTS Targets,    \* workspaces and orchestrators, by session name
          NoOne       \* no target: the "ax" entry is missing

Runtimes == {"claude", "codex"}

Start == <<"start">>
End   == <<"end">>
Body(t) == <<"body", t>>
User(n) == <<"user", n>>

Shapes  == {"absent", "plain", "rich", "foreign"}
McpFile == [other : Shapes, ax : Targets \cup {NoOne}]

(* A directory: the instruction file of each runtime, and .mcp.json.          *)
IsDir(d) ==
    /\ DOMAIN d = {"text", "mcp"}
    /\ DOMAIN d.text = Runtimes
    /\ d.mcp \in McpFile

(* A missing .mcp.json, and one that was emptied and does not parse.          *)
NoMcp   == [other |-> "absent", ax |-> NoOne]
TornMcp == [other |-> "foreign", ax |-> NoOne]

HasText(file, token) == \E i \in 1 .. Len(file) : file[i] = token

Before(file) == SubSeq(file, 1, SelectInSeq(file, LAMBDA x : x = Start) - 1)
After(file)  == SubSeq(file, SelectInSeq(file, LAMBDA x : x = End) + 1, Len(file))

Section(t) == <<Start, Body(t), End>>
HasSection(file) == HasText(file, Start) /\ HasText(file, End)

(* splice_managed_section: replace what lies between the first markers, or    *)
(* append a section when either marker is missing.                            *)
SpliceManagedSection(file, t) ==
    IF HasSection(file)
    THEN Before(file) \o Section(t) \o After(file)
    ELSE file \o Section(t)

(* Mutant: what follows the section goes with it.                             *)
StripToEnd(file) == IF HasText(file, Start) THEN Before(file) ELSE file

(* strip_managed_section: a file without both markers is left alone.          *)
StripManagedSection(file) ==
    IF HasSection(file)
    THEN Before(file) \o After(file)
    ELSE file

WriteInstructions(text, t, runtime) ==
    [r \in Runtimes |-> IF r = runtime THEN SpliceManagedSection(text[r], t)
                                       ELSE StripManagedSection(text[r])]

RemoveInstructions(text) == [r \in Runtimes |-> StripManagedSection(text[r])]

(* What reading and writing back leaves of the user's own entry.              *)
Reserialized(shape) == IF shape = "rich" THEN "plain" ELSE shape

(* write_mcp_config: a file that does not parse is replaced by an empty one.  *)
WriteMcpConfig(mcp, t) ==
    [other |-> IF mcp.other = "foreign" THEN "absent" ELSE Reserialized(mcp.other),
     ax    |-> t]

(* remove_mcp_config: a file that does not parse is left alone.               *)
RemoveMcpConfig(mcp) ==
    IF mcp.other = "foreign" THEN mcp
    ELSE [other |-> Reserialized(mcp.other), ax |-> NoOne]

(* write_orchestrator_prompt replaces the whole file of its runtime and       *)
(* deletes the files of the others.                                           *)
WriteOrchestratorPrompt(t, runtime) ==
    [r \in Runtimes |-> IF r = runtime THEN Section(t) ELSE <<>>]

EnsureArtifacts(dir, t, runtime) ==
    [text |-> WriteInstructions(dir.text, t, runtime),
     mcp  |-> WriteMcpConfig(dir.mcp, t)]

CleanupWorkspaceArtifacts(dir) ==
    [text |-> RemoveInstructions(dir.text), mcp |-> RemoveMcpConfig(dir.mcp)]

EnsureOrchestratorArtifacts(dir, t, runtime) ==
    [text |-> WriteOrchestratorPrompt(t, runtime), mcp |-> WriteMcpConfig(dir.mcp, t)]

CleanupOrchestratorArtifacts(dir) ==
    [text |-> [r \in Runtimes |-> <<>>], mcp |-> RemoveMcpConfig(dir.mcp)]

(* The files a call rewrites, given what it has read.                         *)
Sectioned(dir) == {r \in Runtimes : HasSection(dir.text[r])}
Entries(dir)  == IF dir.mcp \in {NoMcp, TornMcp} THEN {} ELSE {"mcp"}
Everything    == {"mcp"} \cup Runtimes

EnsureTouches(dir, runtime) == {"mcp", runtime} \cup Sectioned(dir)
CleanupTouches(dir) == Entries(dir) \cup Sectioned(dir)
CleanupOrchestratorTouches(dir) == Entries(dir) \cup Runtimes

(* fs::write has opened the files it will write: they are empty.  A file with *)
(* nothing to be left in it is removed later, not emptied.                    *)
Emptied(dir, new, touched) ==
    [text |-> [r \in Runtimes |-> IF r \in touched /\ new.text[r] # <<>> THEN <<>>
                                  ELSE dir.text[r]],
     mcp  |-> IF "mcp" \in touched /\ new.mcp # NoMcp THEN TornMcp ELSE dir.mcp]

(* What a write at the start of a file leaves: the rest of what another       *)
(* process has written there meanwhile stays.  Removing leaves nothing.       *)
Overwritten(old, new) ==
    IF new = <<>> THEN <<>> ELSE new \o SubSeq(old, Len(new) + 1, Len(old))

(* Two documents on top of each other do not parse.                           *)
OverwrittenMcp(old, new) ==
    IF new = NoMcp \/ old = TornMcp THEN {new} ELSE {new, TornMcp}

Written(dir, new, touched) ==
    {[text |-> [r \in Runtimes |-> IF r \in touched THEN Overwritten(dir.text[r], new.text[r])
                                   ELSE dir.text[r]],
      mcp  |-> mcp] : mcp \in IF "mcp" \in touched THEN OverwrittenMcp(dir.mcp, new.mcp)
                              ELSE {dir.mcp}}

(* What an agent started for t in this directory finds: its own body in the   *)
(* instruction file of its runtime, and an MCP server that speaks as t.       *)
Serves(dir, t, runtime) ==
    /\ HasText(dir.text[runtime], Body(t))
    /\ dir.mcp.ax = t

(* The file holds these lines of the user's, in one piece but for one managed *)
(* section at most.                                                           *)
HoldsLines(file, lines) ==
    \E k \in 0 .. Len(lines) : \E section \in {<<>>} \cup {Section(t) : t \in Targets} :
        file = SubSeq(lines, 1, k) \o section \o SubSeq(lines, k + 1, Len(lines))
=============================================================================
