----------------------------- MODULE StateFiles -----------------------------
(* The daemon's small stores and the files behind them (ax-daemon:            *)
(* shared_values.rs, memory.rs, history.rs, atomicfile.rs).  Three stores,    *)
(* three ways to save:                                                        *)
(*                                                                            *)
(*   shared values   changed under a lock, a snapshot written after it is     *)
(*                   released, nothing undone when the write fails;           *)
(*   memories        changed and written under the lock, everything undone    *)
(*                   when the write fails;                                    *)
(*   history         a ring in memory, then one line appended to a file with  *)
(*                   no lock and no atomic write.                             *)
(*                                                                            *)
(* The first two go through write_file_atomic: a temp file, then a rename.    *)
(* A call of a handler is a little program; calls interleave at its steps.    *)
EXTENDS Naturals, Sequences, FiniteSets, Functions

CONSTANTS Callers, Keys, NoId,
          MaxCalls,      \* bound: calls in a behaviour
          MaxFaults,     \* bound: failed writes and crashes
          RingSize,      \* history's max_size
          DefaultLimit   \* DEFAULT_LIMIT of a recall

(* Calls are numbered; a number is the Utc::now() the call takes on entry,    *)
(* the UUID of the memory it stores, the value it sets, the line it appends.  *)
Ids == 1 .. MaxCalls

ASSUME StateFilesAssumption ==
    /\ MaxCalls \in Nat /\ MaxFaults \in Nat
    /\ RingSize \in Nat \ {0} /\ DefaultLimit \in Nat \ {0}
    /\ NoId \notin Callers \cup Ids

Topics == {"a", "b"}
Torn == 0

VARIABLES up,        \* the daemon runs
          values,    \* SharedValues.inner
          memories,  \* Store.inner
          holder,    \* the caller inside the lock of memories, or NoId
          ring,      \* History.inner
          disk,      \* [values, memories]: the two files as a reader finds them
          log,       \* message_history.jsonl: its lines, Torn one that does not decode
          open,      \* the last line of log has no newline yet
          temps,     \* temp files: the callers they belong to (NoId: a dead daemon's)
          call,      \* per caller the call under way
          used,      \* the last call number
          alone,     \* history: no two sets overlapped, none failed, since the start
          logged,    \* history: no append failed or was cut short
          faults

history == <<alone, logged>>
vars == <<up, values, memories, holder, ring, disk, log, open, temps, call, used,
          history, faults>>

NoCall == [op |-> "none", pc |-> "idle", id |-> NoId, topic |-> "a",
           olds |-> {}, data |-> <<>>]

Idle(p) == call[p].op = "none"
At(p, op, pc) == call[p].op = op /\ call[p].pc = pc
Goto(p, pc) == call' = [call EXCEPT ![p].pc = pc]
Answer(p) == call' = [call EXCEPT ![p] = NoCall]
Fault == faults < MaxFaults /\ faults' = faults + 1

Memory == [topic : Topics, supersedes : SUBSET Ids, by : Ids \cup {NoId}, at : Ids]

TypeOK ==
    /\ up \in BOOLEAN /\ open \in BOOLEAN
    /\ values \in [Keys -> 0 .. MaxCalls] /\ disk.values \in [Keys -> 0 .. MaxCalls]
    /\ DOMAIN memories \subseteq Ids /\ \A i \in DOMAIN memories : memories[i] \in Memory
    /\ DOMAIN disk.memories \subseteq Ids
    /\ holder \in Callers \cup {NoId}
    /\ holder # NoId => call[holder].op = "remember"
    /\ Len(ring) <= RingSize
    /\ \A n \in 1 .. Len(log) : log[n] \in Ids \cup {Torn}
    /\ temps \subseteq Callers \cup {NoId}
    /\ used \in 0 .. MaxCalls /\ faults \in 0 .. MaxFaults

Init ==
    /\ up = TRUE
    /\ values = [k \in Keys |-> 0]
    /\ memories = [i \in {} |-> NoId]
    /\ holder = NoId
    /\ ring = <<>> /\ log = <<>> /\ open = FALSE
    /\ disk = [values |-> values, memories |-> memories]
    /\ temps = {}
    /\ call = [p \in Callers |-> NoCall]
    /\ used = 0 /\ alone = TRUE /\ logged = TRUE /\ faults = 0

Enter(p, op, pc, topic, olds, data) ==
    /\ up /\ Idle(p) /\ used < MaxCalls
    /\ used' = used + 1
    /\ call' = [call EXCEPT ![p] = [op |-> op, pc |-> pc, id |-> used + 1,
                                    topic |-> topic, olds |-> olds, data |-> data]]
    /\ UNCHANGED <<up, disk, log, open, temps, logged, faults>>

-----------------------------------------------------------------------------
(* write_file_atomic, for the call of p: its data is what becomes the file.   *)

FileOf(p) == IF call[p].op = "set" THEN "values" ELSE "memories"

(* Mutant: opens and truncates the file itself.                               *)
WriteInPlace(p) ==
    /\ up /\ call[p].pc = "temp"
    /\ disk' = [disk EXCEPT ![FileOf(p)] = IF FileOf(p) = "values" THEN [k \in Keys |-> 0]
                                           ELSE [i \in {} |-> NoId]]
    /\ temps' = temps \cup {p}
    /\ Goto(p, "rename")
    /\ UNCHANGED <<up, values, memories, holder, ring, log, open, used, history, faults>>

(* create_dir_all, File::create, write_all and sync_all on the temp file.     *)
WriteTemp(p) ==
    /\ up /\ call[p].pc = "temp"
    /\ temps' = temps \cup {p}
    /\ Goto(p, "rename")
    /\ UNCHANGED <<up, values, memories, holder, ring, disk, log, open, used, history,
                   faults>>

RenameTemp(p) ==
    /\ up /\ call[p].pc = "rename"
    /\ temps' = temps \ {p}
    /\ disk' = [disk EXCEPT ![FileOf(p)] = call[p].data]
    /\ Goto(p, "saved")
    /\ UNCHANGED <<up, values, memories, holder, ring, log, open, used, history, faults>>

(* Mutant: forgets the temp file.                                             *)
WriteFailsUncleaned(p) ==
    /\ up /\ call[p].pc \in {"temp", "rename"} /\ Fault
    /\ Goto(p, "failed")
    /\ UNCHANGED <<up, values, memories, holder, ring, disk, log, open, temps, used,
                   history>>

(* Either half fails; the cleanup closure removes the temp file.              *)
WriteFails(p) ==
    /\ up /\ call[p].pc \in {"temp", "rename"} /\ Fault
    /\ temps' = temps \ {p}
    /\ Goto(p, "failed")
    /\ UNCHANGED <<up, values, memories, holder, ring, disk, log, open, used, history>>

-----------------------------------------------------------------------------
(* SharedValues                                                               *)

SetInFlight == \E p \in Callers : call[p].op = "set"

(* Mutant: the snapshot is taken before the value goes in.                    *)
SetSharedBefore(p, k) ==
    /\ Enter(p, "set", "temp", "a", {}, values)
    /\ values' = [values EXCEPT ![k] = used + 1]
    /\ alone' = (alone /\ ~SetInFlight)
    /\ UNCHANGED <<memories, holder, ring>>

(* set: insert and clone under the lock, then write.                          *)
SetShared(p, k) ==
    /\ values' = [values EXCEPT ![k] = used + 1]
    /\ Enter(p, "set", "temp", "a", {}, values')
    /\ alone' = (alone /\ ~SetInFlight)
    /\ UNCHANGED <<memories, holder, ring>>

(* The answer: "stored", or the error of the write.  The value stays.         *)
SetAnswer(p) ==
    /\ up /\ call[p].op = "set" /\ call[p].pc \in {"saved", "failed"}
    /\ alone' = (alone /\ call[p].pc = "saved")
    /\ Answer(p)
    /\ UNCHANGED <<up, values, memories, holder, ring, disk, log, open, temps, used,
                   logged, faults>>

-----------------------------------------------------------------------------
(* Store (durable memories)                                                   *)

(* remember, up to the lock: arguments are normalised and the stamp is taken. *)
Remember(p, topic, olds) ==
    /\ Enter(p, "remember", "lock", topic, olds, <<>>)
    /\ UNCHANGED <<values, memories, holder, ring, alone>>

Marked(ms, id, topic, olds) ==
    [i \in DOMAIN ms \cup {id} |->
        IF i = id THEN [topic |-> topic, supersedes |-> olds, by |-> NoId, at |-> id]
        ELSE IF i \in olds THEN [ms[i] EXCEPT !.by = id, !.at = id]
        ELSE ms[i]]

(* Mutant: a memory may be superseded twice.                                  *)
SupersedableOnceMore(olds) == olds \subseteq DOMAIN memories

Supersedable(olds) ==
    olds \subseteq DOMAIN memories /\ \A o \in olds : memories[o].by = NoId

(* NotFound and AlreadySuperseded return before anything changes.             *)
RememberRefused(p) ==
    /\ up /\ At(p, "remember", "lock") /\ holder = NoId
    /\ ~Supersedable(call[p].olds)
    /\ Answer(p)
    /\ UNCHANGED <<up, values, memories, holder, ring, disk, log, open, temps, used,
                   history, faults>>

RememberLocked(p) ==
    /\ up /\ At(p, "remember", "lock") /\ holder = NoId
    /\ Supersedable(call[p].olds)
    /\ holder' = p
    /\ memories' = Marked(memories, call[p].id, call[p].topic, call[p].olds)
    /\ call' = [call EXCEPT ![p].pc = "temp", ![p].data = memories']
    /\ UNCHANGED <<up, values, ring, disk, log, open, temps, used, history, faults>>

RememberOk(p) ==
    /\ up /\ At(p, "remember", "saved")
    /\ holder' = NoId
    /\ Answer(p)
    /\ UNCHANGED <<up, values, memories, ring, disk, log, open, temps, used, history,
                   faults>>

Without(ms, id) == [i \in DOMAIN ms \ {id} |-> ms[i]]

(* Mutant: takes the new memory out and leaves the marks.                     *)
RolledBackHalf(ms, id, olds) == Without(ms, id)

(* The snapshots restore mark and stamp; an unmarked memory's stamp is the    *)
(* call that stored it.                                                       *)
RolledBack(ms, id, olds) ==
    [i \in DOMAIN ms \ {id} |->
        IF i \in olds THEN [ms[i] EXCEPT !.by = NoId, !.at = i] ELSE ms[i]]

RememberFails(p) ==
    /\ up /\ At(p, "remember", "failed")
    /\ memories' = RolledBack(memories, call[p].id, call[p].olds)
    /\ holder' = NoId
    /\ Answer(p)
    /\ UNCHANGED <<up, values, ring, disk, log, open, temps, used, history, faults>>

(* Mutant: the most recently updated first, superseded or not.                *)
RanksBeforeByTime(i, j) == memories[i].at > memories[j].at

(* list: active ones first, then the most recently updated, then the most     *)
(* recently created.                                                          *)
RanksBefore(i, j) ==
    LET active(m) == memories[m].by = NoId IN
    IF active(i) # active(j) THEN active(i)
    ELSE IF memories[i].at # memories[j].at THEN memories[i].at > memories[j].at
    ELSE i > j

Matches(q) ==
    {i \in DOMAIN memories : /\ q.superseded \/ memories[i].by = NoId
                             /\ q.topics = {} \/ memories[i].topic \in q.topics}

(* The sort puts them in this order, the limit keeps the first of them.       *)
Recall(q) ==
    LET limit == IF q.limit <= 0 THEN DefaultLimit ELSE q.limit
    IN  {i \in Matches(q) : Cardinality({j \in Matches(q) : RanksBefore(j, i)}) < limit}

-----------------------------------------------------------------------------
(* History                                                                    *)

(* Mutant: keeps one entry more than it may.                                  *)
PushedLate(r, e) == Append(IF Len(r) > RingSize THEN Tail(r) ELSE r, e)

(* push_back, after a pop_front at max_size.                                  *)
Pushed(r, e) == Append(IF Len(r) >= RingSize THEN Tail(r) ELSE r, e)

AppendHistory(p) ==
    /\ Enter(p, "append", "file", "a", {}, <<>>)
    /\ ring' = Pushed(ring, used + 1)
    /\ UNCHANGED <<values, memories, holder, alone>>

(* A line after one without a newline makes one line with it.                 *)
Written(e) ==
    /\ log' = IF open THEN [log EXCEPT ![Len(log)] = Torn] ELSE Append(log, e)
    /\ open' = FALSE

AppendEntryToFile(p) ==
    /\ up /\ At(p, "append", "file")
    /\ Written(call[p].id)
    /\ Answer(p)
    /\ UNCHANGED <<up, values, memories, holder, ring, disk, temps, used, history,
                   faults>>

(* What a write that is cut short leaves: nothing, half a line, or a line     *)
(* that only lacks its newline.                                               *)
CutShort(e) ==
    \/ UNCHANGED <<log, open>>
    \/ /\ \E line \in {Torn, e} :
             log' = IF open THEN [log EXCEPT ![Len(log)] = Torn] ELSE Append(log, line)
       /\ open' = TRUE

(* The error is logged and swallowed.                                         *)
AppendFails(p) ==
    /\ up /\ At(p, "append", "file") /\ Fault
    /\ CutShort(call[p].id)
    /\ logged' = FALSE
    /\ Answer(p)
    /\ UNCHANGED <<up, values, memories, holder, ring, disk, temps, used, alone>>

-----------------------------------------------------------------------------
(* The process dies in the middle of whatever it does.                        *)
Crash ==
    /\ up /\ Fault
    /\ up' = FALSE
    /\ \/ UNCHANGED <<log, open>>
       \/ \E p \in Callers : At(p, "append", "file") /\ CutShort(call[p].id)
    /\ logged' = (logged /\ \A p \in Callers : call[p].op # "append")
    /\ alone' = (alone /\ ~SetInFlight)
    /\ temps' = IF temps = {} THEN {} ELSE {NoId}
    /\ call' = [p \in Callers |-> NoCall]
    /\ holder' = NoId
    /\ UNCHANGED <<values, memories, ring, disk, used>>

(* The loaders: a missing or empty file is an empty store.                    *)
LoadShared == values' = disk.values
LoadMemories == memories' = disk.memories

Decodes == \A n \in 1 .. Len(log) : log[n] # Torn

(* Mutant: starts with an empty ring.                                         *)
LoadNoHistory == Decodes /\ ring' = <<>>

(* A line of the history that does not decode is an error like any other.     *)
LoadHistory ==
    /\ Decodes
    /\ ring' = SubSeq(log, IF Len(log) > RingSize THEN Len(log) - RingSize + 1 ELSE 1,
                      Len(log))

(* with_state_dir: every load has to succeed, or the daemon stays down.       *)
WithStateDir ==
    /\ ~up /\ up' = TRUE
    /\ LoadShared /\ LoadMemories /\ LoadHistory
    /\ UNCHANGED <<holder, disk, log, open, temps, call, used, history, faults>>

Next ==
    \/ \E p \in Callers :
          \/ \E k \in Keys : SetShared(p, k)
          \/ \E topic \in Topics, olds \in SUBSET Ids :
                Cardinality(olds) <= 2 /\ olds \subseteq 1 .. used /\ Remember(p, topic, olds)
          \/ AppendHistory(p)
          \/ WriteTemp(p) \/ RenameTemp(p) \/ WriteFails(p)
          \/ SetAnswer(p)
          \/ RememberRefused(p) \/ RememberLocked(p) \/ RememberOk(p) \/ RememberFails(p)
          \/ AppendEntryToFile(p) \/ AppendFails(p)
    \/ Crash \/ WithStateDir

Spec == Init /\ [][Next]_vars

-----------------------------------------------------------------------------
(* The memories file, written step by step under the lock, keeps the promise  *)
(* of MemoryLedger: a call takes effect at its rename, as a whole.            *)
Ledger == INSTANCE MemoryLedger WITH
    stored <- disk.memories,
    phase  <- [p \in Callers |->
                  IF call[p].op # "remember" THEN "idle"
                  ELSE IF call[p].pc = "saved" THEN "stored" ELSE "asked"]
LedgerSpec == Ledger!Spec

(* Whoever gets the lock recalls exactly what a restart would bring back,     *)
(* after any number of failed and undone writes.                              *)
RecallsWhatIsSaved == up /\ holder = NoId => memories = disk.memories

(* Marks and lists agree at every moment: a memory is marked as superseded by *)
(* just the one that lists it, which is younger; nothing is superseded twice, *)
(* whichever of two callers gets the lock first.                              *)
SupersedesAreMutual ==
    \A i, j \in DOMAIN memories :
        /\ (memories[i].by = j) <=> (i \in memories[j].supersedes)
        /\ memories[i].by = j => memories[i].at = j

(* A recall that is cut off by its limit leaves out nothing it should rather  *)
(* have shown: no superseded memory takes the place of an active one, no      *)
(* older one that of a newer one.                                             *)
RecallKeepsTheBest ==
    \A q \in [superseded : BOOLEAN, topics : {{}, {"a"}}, limit : {0, 1}] :
        LET got == Recall(q) IN
        \A i \in got, j \in Matches(q) \ got :
            /\ memories[j].by = NoId => memories[i].by = NoId
            /\ (memories[i].by = NoId <=> memories[j].by = NoId) =>
                   memories[i].at >= memories[j].at

(* Sets that follow one another are durable: when none is under way the file  *)
(* holds what the store holds.  Of two that overlap, the older snapshot may   *)
(* be the one that stays.                                                     *)
SetsAloneAreDurable == up /\ alone /\ ~SetInFlight => disk.values = values

(* As long as every append was completed, the lines of the ring are in the    *)
(* log, and a restart finds as many of them as the ring holds.                *)
RingIsLogged ==
    up /\ logged /\ (\A p \in Callers : call[p].op # "append") =>
        /\ Range(ring) \subseteq Range(log)
        /\ Len(ring) = IF Len(log) < RingSize THEN Len(log) ELSE RingSize

(* Temp files belong to a write that goes on, or were left by a crash: every  *)
(* failed write cleans up after itself.                                       *)
TempsAreInUse ==
    \A p \in temps \ {NoId} : call[p].pc = "rename"

(* The memories as callers see them: what a recall shows is saved, supersedes *)
(* go both ways, and a limit cuts off the least.                              *)
MemoriesAreRight == TypeOK /\ RecallsWhatIsSaved /\ SupersedesAreMutual /\ RecallKeepsTheBest

(* Shared values, history and temp files against the disk.                    *)
FilesAreRight == SetsAloneAreDurable /\ RingIsLogged /\ TempsAreInUse
=============================================================================
