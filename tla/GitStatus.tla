------------------------------ MODULE GitStatus ------------------------------
(***************************************************************************)
(* The git status that list_workspaces shows for a workspace directory     *)
(* (ax-daemon/src/git_status.rs).  A status younger than TTL is answered   *)
(* from the cache; otherwise the lock is released, git is run up to four   *)
(* times on a work tree that others go on editing, and the result replaces *)
(* whatever the cache holds by then.  Several connections do this at once. *)
(*                                                                         *)
(* The work tree is known by the entries `git status -z' prints for it.    *)
(* An entry has its two letters, one path, and for a rename a second field *)
(* with the old path, of which only the first two characters matter here:  *)
(* the parser takes them for letters if it does not skip the field.        *)
(***************************************************************************)
EXTENDS Integers, Sequences, FiniteSets

CONSTANTS
  Askers,     \* connections that ask for the workspace list
  Histories,  \* sequences of contents the work tree goes through, each a sequence of entries
  TTL,        \* GIT_STATUS_CACHE_TTL
  MaxGit,     \* assumption: a collection takes at most so long
  MaxTime     \* bound: the clock stops here

\* An entry has a letter at least; the old path by its first characters.
GitEntries == {e \in [x : STRING, y : STRING, old : Seq(STRING)] : e.x # " " \/ e.y # " "}

ASSUME GitAssumption ==
  /\ {TTL, MaxGit, MaxTime} \subseteq Nat
  /\ Histories \subseteq Seq(Seq(GitEntries)) \ {<<>>}

VARIABLES
  tree,     \* [history, edits]: the work tree's contents, and how often it was edited
  time,
  cache,    \* [status, at, seen]: CachedGitStatus; seen is a ghost, when git status ran
  ask,      \* per connection: the call it is in
  answer    \* the last answer given to anyone, with ghosts

gitVars == <<tree, time, cache, ask, answer>>

-----------------------------------------------------------------------------
(* git *)

Now == tree.history[tree.edits + 1]

\* What git status -z prints: a renamed file takes two fields.
Printed(e) ==
  IF e.x \in {"R", "C"} \/ e.y \in {"R", "C"} THEN << <<e.x, e.y>>, e.old >> ELSE << <<e.x, e.y>> >>
Fields(entries) ==
  LET F[i \in 0..Len(entries)] == IF i = 0 THEN <<>> ELSE F[i-1] \o Printed(entries[i])
  IN  F[Len(entries)]

Tracked(e) == ~(e.x = e.y /\ e.x \in {"?", "!"})

\* git diff --numstat --no-renames, of the work tree or of the index: the paths.
NumStat(entries, cached) ==
  {<<i, "new">> : i \in {k \in DOMAIN entries :
      Tracked(entries[k]) /\ (IF cached THEN entries[k].x ELSE entries[k].y) # " "}}
    \union {<<i, "old">> : i \in {k \in DOMAIN entries : (IF cached THEN entries[k].x ELSE entries[k].y) = "R"}}

-----------------------------------------------------------------------------
(* The status *)

NoCounts == [modified |-> 0, added |-> 0, deleted |-> 0, untracked |-> 0]

Classes == DOMAIN NoCounts

\* The class of an entry's two letters; "none" for an ignored file.
ClassOf(f) ==
  IF f = <<"?", "?">> THEN "untracked"
  ELSE IF f = <<"!", "!">> THEN "none"
  ELSE IF "D" \in {f[1], f[2]} THEN "deleted"
  ELSE IF "A" \in {f[1], f[2]} THEN "added"
  ELSE "modified"

\* Mutant of Width: the old path of a rename is read as an entry.
WidthOne(f) == 1

\* Fields an entry takes.
Width(f) == IF f[1] \in {"R", "C"} THEN 2 ELSE 1

\* parse_status_porcelain_z: fields of less than two bytes are skipped.
Parse(fields) ==
  LET P[i \in 1..(Len(fields) + 2)] ==
        IF i > Len(fields) THEN NoCounts
        ELSE IF Len(fields[i]) < 2 THEN P[i+1]
        ELSE LET rest == P[i + Width(fields[i])]
             IN  IF ClassOf(fields[i]) = "none" THEN rest
                 ELSE [rest EXCEPT ![ClassOf(fields[i])] = @ + 1]
  IN  P[1]

Dirty(counts) == \E k \in Classes : counts[k] > 0

\* unavailable: git could not be run.
Unavailable == [state |-> "error", counts |-> NoCounts, files |-> {}]

StatusOf(counts, paths) ==
  [state |-> IF Dirty(counts) THEN "dirty" ELSE "clean", counts |-> counts, files |-> paths]

-----------------------------------------------------------------------------
(* status_for *)

\* A ghost that goes with a collection: what git status saw and when; whether every
\* run of git worked and saw the same tree; whether no other collection overlapped.
NoView == [entries |-> <<>>, edits |-> 0, time |-> 0, whole |-> FALSE, alone |-> TRUE]

NoAsk == [pc |-> "idle", since |-> 0, counts |-> NoCounts, files |-> {}, view |-> NoView]

NoAnswer == [status |-> Unavailable, view |-> NoView, at |-> 0, back |-> FALSE]

NoCache == [filled |-> FALSE, status |-> Unavailable, at |-> 0, view |-> NoView]

Busy(c) == ask[c].pc # "idle"

\* The status of an entry is answered; back: of an older tree than the last answer's.
Give(entry) ==
  answer' = [status |-> entry.status, view |-> entry.view, at |-> time,
             back |-> entry.view.edits < answer.view.edits]

\* Mutant of Young: an entry is used for ever.
YoungAlways == cache.filled

Young == cache.filled /\ time - cache.at <= TTL

\* The first look, under the lock.
LookHit(c) ==
  /\ ~Busy(c) /\ Young
  /\ Give(cache)
  /\ UNCHANGED <<tree, time, cache, ask>>

LookMiss(c) ==
  /\ ~Busy(c) /\ ~Young
  /\ LET others == {d \in Askers : Busy(d)}
     IN ask' = [d \in Askers |->
                  IF d = c
                  THEN [NoAsk EXCEPT !.pc = "status", !.since = time, !.view.alone = (others = {})]
                  ELSE [ask[d] EXCEPT !.view.alone = @ /\ ~Busy(d)]]
  /\ UNCHANGED <<tree, time, cache, answer>>

\* git status ran; a clean tree needs no diff, a failed run ends the collection.
GitStatusRan(c) ==
  /\ ask[c].pc = "status"
  /\ \E ok \in BOOLEAN :
       LET counts == Parse(Fields(Now))
           view == [entries |-> Now, edits |-> tree.edits, time |-> time,
                    whole |-> ok, alone |-> ask[c].view.alone]
       IN  ask' = [ask EXCEPT ![c].pc = IF ~ok THEN "failed" ELSE IF Dirty(counts) THEN "diff" ELSE "insert",
                              ![c].counts = IF ok THEN counts ELSE NoCounts, ![c].view = view]
  /\ UNCHANGED <<tree, time, cache, answer>>

\* Mutant of Collected: the second diff replaces the first.
CollectedLast(files, cached) == NumStat(Now, cached)

\* collect_diffstat adds the paths one diff names.
Collected(files, cached) == files \union NumStat(Now, cached)

\* The two diffs; one that fails adds nothing.
DiffRan(c) ==
  /\ ask[c].pc \in {"diff", "cached"}
  /\ \E ok \in BOOLEAN :
       LET cached == ask[c].pc = "cached"
       IN  ask' = [ask EXCEPT ![c].pc = IF cached THEN "insert" ELSE "cached",
                              ![c].files = IF ok THEN Collected(ask[c].files, cached) ELSE ask[c].files,
                              ![c].view.whole = @ /\ ok /\ tree.edits = ask[c].view.edits]
  /\ UNCHANGED <<tree, time, cache, answer>>

\* Mutant of Insert: a failed collection renews the last good entry.
InsertKeepsGood(c) ==
  /\ ask[c].pc \in {"insert", "failed"}
  /\ LET entry == [filled |-> TRUE, at |-> time, view |-> ask[c].view,
                   status |-> IF ask[c].pc = "failed" THEN Unavailable
                              ELSE StatusOf(ask[c].counts, ask[c].files)]
     IN  /\ cache' = IF ask[c].pc = "failed" /\ cache.filled THEN [cache EXCEPT !.at = time] ELSE entry
         /\ Give(entry)
  /\ ask' = [ask EXCEPT ![c] = NoAsk]
  /\ UNCHANGED <<tree, time>>

\* The second lock: the entry is replaced, stamped with the time of the insertion.
Insert(c) ==
  /\ ask[c].pc \in {"insert", "failed"}
  /\ cache' = [filled |-> TRUE, at |-> time, view |-> ask[c].view,
                status |-> IF ask[c].pc = "failed" THEN Unavailable
                           ELSE StatusOf(ask[c].counts, ask[c].files)]
  /\ Give(cache')
  /\ ask' = [ask EXCEPT ![c] = NoAsk]
  /\ UNCHANGED <<tree, time>>

-----------------------------------------------------------------------------

\* Somebody works in the directory.
EditTree ==
  /\ tree.edits + 1 < Len(tree.history)
  /\ tree' = [tree EXCEPT !.edits = @ + 1]
  /\ UNCHANGED <<time, cache, ask, answer>>

TimePasses ==
  /\ time < MaxTime
  /\ \A c \in Askers : Busy(c) => time - ask[c].since < MaxGit
  /\ time' = time + 1
  /\ UNCHANGED <<tree, cache, ask, answer>>

GitInit ==
  /\ tree \in {[history |-> h, edits |-> 0] : h \in Histories}
  /\ time = 0
  /\ cache = NoCache
  /\ ask = [c \in Askers |-> NoAsk]
  /\ answer = NoAnswer

GitNext ==
  \/ \E c \in Askers : LookHit(c) \/ LookMiss(c) \/ GitStatusRan(c) \/ DiffRan(c) \/ Insert(c)
  \/ EditTree
  \/ TimePasses

GitSpec == GitInit /\ [][GitNext]_gitVars

-----------------------------------------------------------------------------
(* Properties *)

\* The parser finds every entry, renames with old paths that look like entries
\* included: the counts are those of the tree that git status saw.  (git also reports
\* renames of the work tree, after `git add -N'; their second field is not skipped,
\* so trees with one are left out.)
CountsAreRight ==
  LET seen == answer.view.entries
      class(i) == ClassOf(<<seen[i].x, seen[i].y>>)
  IN  answer.status.state # "error" /\ (\A i \in DOMAIN seen : seen[i].y \notin {"R", "C"})
        => answer.status.counts = [k \in Classes |-> Cardinality({i \in DOMAIN seen : class(i) = k})]

\* What is shown is never older than the cache's lifetime and one collection: a hit
\* does not prolong an entry's life, and a late insertion cannot revive a result that
\* was collected long before.
ShownIsRecent == answer.at - answer.view.time <= TTL + MaxGit

\* The counts and the diffstat come from several runs of git; when no edit fell
\* between them and none failed they agree: files are named exactly when something
\* tracked has changed, and not fewer than were counted, work tree renames that the
\* parser counts twice included.  (A work tree copy, which git reports only when
\* status.renames asks for copies, is counted twice and named once.)
NumbersBelongTogether ==
  answer.view.whole /\ (\A i \in DOMAIN answer.view.entries : answer.view.entries[i].y # "C") =>
    LET s == answer.status
        changed == s.counts.modified + s.counts.added + s.counts.deleted
    IN  Cardinality(s.files) >= changed /\ (changed = 0 => s.files = {})

\* What is shown goes back to an older tree only through a collection
\* that overlapped with another one: the slower of the two is the last to be inserted.
GoesBackOnlyInARace == answer.back => ~answer.view.alone

\* What every answer may rely on, with the tree edited and other collections running.
GitIsRight == CountsAreRight /\ ShownIsRecent /\ NumbersBelongTogether /\ GoesBackOnlyInARace
=============================================================================
