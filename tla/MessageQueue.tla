---------------------------- MODULE MessageQueue ----------------------------
(***************************************************************************)
(* The daemon's inboxes (crates/ax-daemon/src/queue.rs): one FIFO per      *)
(* workspace behind a mutex, capped by dropping the oldest message, and a  *)
(* background flusher that saves a snapshot of the whole map to queue.json *)
(* whenever the map is dirty.  A flush takes its snapshot under the mutex, *)
(* writes it after releasing the mutex, and can be overtaken by any        *)
(* operation in between.  The daemon may crash at any point, or be shut    *)
(* down, which stops the flusher but not the open connections.             *)
(*                                                                         *)
(* A message is its number in the order of sending, its sender and the     *)
(* task it is about; message_task_id finds the latter in the task_id field *)
(* or in the text, which is not told apart here.                           *)
(***************************************************************************)
EXTENDS Integers, Sequences, FiniteSets

CONSTANTS
  Workspaces,  \* inbox owners
  Senders,     \* who sends to them
  Tasks,       \* task ids a message can carry
  NoTask,      \* a message about no task
  Anyone,      \* read_messages without a `from' filter
  MaxSize,     \* max_size, DEFAULT_MAX_QUEUE_PER_WORKSPACE in the code
  MaxMessages, \* bound: messages sent
  MaxFaults    \* bound: failed writes, and crashes

ASSUME QueueAssumption ==
  /\ MaxSize \in Nat \ {0} /\ MaxMessages \in Nat /\ MaxFaults \in Nat
  /\ NoTask \notin Tasks /\ Anyone \notin Senders

VARIABLES
  queue,      \* by_workspace
  dirty,
  snapshot,   \* <<map>>: what a running flush will write; NoSnapshot when none runs
  disk,       \* queue.json
  flusher,    \* "running", "stopping" (stop raised), "final" (in its last flush), "stopped",
              \* "dropped" (aborted because its handle was dropped)
  sent,       \* number of messages sent so far
  delivered,  \* per workspace: the messages its reads returned, in that order
  discarded,  \* per workspace: messages dropped at the cap or removed with their task
  faults

vars == <<queue, dirty, snapshot, disk, flusher, sent, delivered, discarded, faults>>

Message    == [id : 1..MaxMessages, from : Senders, task : Tasks \union {NoTask}]
Inboxes    == [Workspaces -> Seq(Message)]
NoSnapshot == <<>>

Ids(s) == {s[i].id : i \in DOMAIN s}

\* The messages of s at the places S, in the order of s.
Rank(S, i)  == Cardinality({j \in S : j <= i})
Nth(S, k)   == CHOOSE i \in S : Rank(S, i) = k
Those(s, S) == [k \in 1..Cardinality(S) |-> s[Nth(S, k)]]

-----------------------------------------------------------------------------
(* Operations under the mutex *)

\* Mutant of Capped: one message too many is kept.
CappedLate(q) == IF Len(q) > MaxSize + 1 THEN SubSeq(q, Len(q) - MaxSize, Len(q)) ELSE q

\* The tail of an inbox that the cap leaves.
Capped(q) == IF Len(q) > MaxSize THEN SubSeq(q, Len(q) - MaxSize + 1, Len(q)) ELSE q

Enqueue(to, from, task) ==
  LET grown == Append(queue[to], [id |-> sent + 1, from |-> from, task |-> task])
  IN  /\ sent < MaxMessages
      /\ sent' = sent + 1
      /\ queue' = [queue EXCEPT ![to] = Capped(grown)]
      /\ discarded' = [discarded EXCEPT ![to] = @ \union (Ids(grown) \ Ids(Capped(grown)))]
      /\ dirty' = TRUE
      /\ UNCHANGED <<snapshot, disk, flusher, delivered, faults>>

\* The places a read looks at: all, or those of one sender.
Wanted(q, from) == {i \in DOMAIN q : from \in {Anyone, q[i].from}}

\* Mutant of Taken: the limit keeps the newest messages instead of the oldest.
TakenLast(q, limit, from) ==
  {k \in Wanted(q, from) : Cardinality({j \in Wanted(q, from) : j >= k}) <= limit}

\* The places a read takes: the first `limit' messages of the wanted sender.
Taken(q, limit, from) == {k \in Wanted(q, from) : Rank(Wanted(q, from), k) <= limit}

\* Mutant of Dequeue: messages are read without being removed.
DequeueCopies(w, limit, from) ==
  LET out == Taken(queue[w], limit, from)
  IN  /\ out # {}
      /\ Len(delivered[w]) < MaxMessages
      /\ delivered' = [delivered EXCEPT ![w] = @ \o Those(queue[w], out)]
      /\ dirty' = TRUE
      /\ UNCHANGED <<queue, snapshot, disk, flusher, sent, discarded, faults>>

Dequeue(w, limit, from) ==
  LET out == Taken(queue[w], limit, from)
  IN  /\ out # {}
      /\ queue' = [queue EXCEPT ![w] = Those(queue[w], DOMAIN queue[w] \ out)]
      /\ delivered' = [delivered EXCEPT ![w] = @ \o Those(queue[w], out)]
      /\ dirty' = TRUE
      /\ UNCHANGED <<snapshot, disk, flusher, sent, discarded, faults>>

RemoveTaskMessages(w, t) ==
  LET kept == Those(queue[w], {i \in DOMAIN queue[w] : queue[w][i].task # t})
  IN  /\ kept # queue[w]
      /\ queue' = [queue EXCEPT ![w] = kept]
      /\ discarded' = [discarded EXCEPT ![w] = @ \union (Ids(queue[w]) \ Ids(kept))]
      /\ dirty' = TRUE
      /\ UNCHANGED <<snapshot, disk, flusher, sent, delivered, faults>>

-----------------------------------------------------------------------------
(* The flusher.  persist_lock keeps flushes from overlapping. *)

\* The flusher wakes up and finds something to write, or (stopping) nothing.
FlushBegin ==
  /\ snapshot = NoSnapshot
  /\ flusher \notin {"stopped", "dropped"}
  /\ dirty
  /\ dirty' = FALSE
  /\ snapshot' = <<queue>>
  /\ UNCHANGED <<queue, disk, flusher, sent, delivered, discarded, faults>>

AfterFlush == IF flusher = "final" THEN "stopped" ELSE flusher

\* Mutant of FlushWrite: the flag is cleared after the write, with changes made
\* since the snapshot forgotten.
FlushWriteClears ==
  /\ snapshot # NoSnapshot
  /\ disk' = snapshot[1]
  /\ snapshot' = NoSnapshot
  /\ dirty' = FALSE
  /\ flusher' = AfterFlush
  /\ UNCHANGED <<queue, sent, delivered, discarded, faults>>

FlushWrite ==
  /\ snapshot # NoSnapshot
  /\ disk' = snapshot[1]
  /\ snapshot' = NoSnapshot
  /\ flusher' = AfterFlush
  /\ UNCHANGED <<queue, dirty, sent, delivered, discarded, faults>>

\* Mutant of FlushFail: the flag stays down.
FlushFailForgets ==
  /\ snapshot # NoSnapshot
  /\ faults < MaxFaults
  /\ faults' = faults + 1
  /\ snapshot' = NoSnapshot
  /\ flusher' = AfterFlush
  /\ UNCHANGED <<queue, dirty, disk, sent, delivered, discarded>>

\* The write failed; the flag is raised again.
FlushFail ==
  /\ snapshot # NoSnapshot
  /\ faults < MaxFaults
  /\ faults' = faults + 1
  /\ dirty' = TRUE
  /\ snapshot' = NoSnapshot
  /\ flusher' = AfterFlush
  /\ UNCHANGED <<queue, disk, sent, delivered, discarded>>

\* DaemonHandle::shutdown raises the flag; the flusher sees it after a flush and
\* makes one more, which writes nothing when the map is clean.
Shutdown ==
  /\ flusher = "running"
  /\ flusher' = "stopping"
  /\ UNCHANGED <<queue, dirty, snapshot, disk, sent, delivered, discarded, faults>>

FinalFlush ==
  /\ snapshot = NoSnapshot
  /\ flusher = "stopping"
  /\ flusher' = IF dirty THEN "final" ELSE "stopped"
  /\ UNCHANGED <<queue, dirty, snapshot, disk, sent, delivered, discarded, faults>>

\* FlusherHandle::drop raises the flag and aborts the task, between two flushes.
Drop ==
  /\ snapshot = NoSnapshot
  /\ flusher = "running"
  /\ flusher' = "dropped"
  /\ UNCHANGED <<queue, dirty, snapshot, disk, sent, delivered, discarded, faults>>

\* The process ends, by a crash or after a shutdown; load reads the file back.
Load ==
  /\ queue' = disk
  /\ dirty' = FALSE
  /\ snapshot' = NoSnapshot
  /\ flusher' = "running"
  /\ UNCHANGED <<disk, sent, delivered, discarded>>

Crash == faults < MaxFaults /\ faults' = faults + 1 /\ Load

-----------------------------------------------------------------------------

Init ==
  /\ queue = [w \in Workspaces |-> <<>>]
  /\ disk = queue
  /\ dirty = FALSE
  /\ snapshot = NoSnapshot
  /\ flusher = "running"
  /\ sent = 0
  /\ delivered = [w \in Workspaces |-> <<>>]
  /\ discarded = [w \in Workspaces |-> {}]
  /\ faults = 0

Operations ==
  \/ \E to \in Workspaces, from \in Senders, t \in Tasks \union {NoTask} : Enqueue(to, from, t)
  \/ \E w \in Workspaces, limit \in 1..MaxSize, from \in Senders \union {Anyone} :
       Dequeue(w, limit, from)
  \/ \E w \in Workspaces, t \in Tasks : RemoveTaskMessages(w, t)

Flusher == FlushBegin \/ FlushWrite \/ FlushFail \/ FinalFlush

Next == Operations \/ Flusher \/ Shutdown \/ Drop \/ Crash

\* tokio's interval keeps ticking: the flusher is never stuck while it can act.
Spec == Init /\ [][Next]_vars /\ WF_vars(Flusher)

-----------------------------------------------------------------------------
(* Properties *)

\* Every store and every thread holds a value of its type.
TypeOK ==
  /\ queue \in Inboxes /\ disk \in Inboxes /\ delivered \in Inboxes
  /\ snapshot = NoSnapshot \/ \E q \in Inboxes : snapshot = <<q>>
  /\ dirty \in BOOLEAN /\ sent \in 0..MaxMessages /\ faults \in 0..MaxFaults
  /\ flusher \in {"running", "stopping", "final", "stopped", "dropped"}
  /\ discarded \in [Workspaces -> SUBSET (1..MaxMessages)]

\* No inbox outgrows the cap, and an inbox never holds a message twice or out of
\* the order it was sent in, whatever reads, purges and reloads happened.
InboxInOrder ==
  \A w \in Workspaces :
    /\ Len(queue[w]) <= MaxSize
    /\ \A i, j \in DOMAIN queue[w] : i < j => queue[w][i].id < queue[w][j].id

\* Until the daemon crashes, every message is accounted for once: it waits, or was
\* delivered once, or was dropped on purpose.
Conservation ==
  faults = 0 =>
    /\ UNION {Ids(queue[w]) \union Ids(delivered[w]) \union discarded[w] : w \in Workspaces} = 1..sent
    /\ \A w \in Workspaces :
         /\ \A i, j \in DOMAIN delivered[w] : delivered[w][i].id = delivered[w][j].id => i = j
         /\ Ids(delivered[w]) \intersect (Ids(queue[w]) \union discarded[w]) = {}
         /\ Ids(queue[w]) \intersect discarded[w] = {}

\* Until the daemon crashes, a reader sees one sender's messages in the order they
\* were sent, also when it reads with a limit or with a filter on the sender.
SenderOrder ==
  faults = 0 =>
    \A w \in Workspaces : \A i, j \in DOMAIN delivered[w] :
      i < j /\ delivered[w][i].from = delivered[w][j].from
        => delivered[w][i].id < delivered[w][j].id

\* Messages keep their order, in the inbox and to the reader.
OrderIsKept == InboxInOrder /\ SenderOrder

\* A clean map is a saved map: the flag that is cleared before the write and raised
\* again when it fails never loses a change made while the write was running.
CleanIsSaved == ~dirty /\ snapshot = NoSnapshot => disk = queue

\* As long as the flusher runs, what is in memory reaches the file.
EventuallySaved == []<>(disk = queue \/ flusher # "running")

\* After an orderly shutdown nothing that was enqueued is missing from the file.
ShutdownLosesNothing == flusher = "stopped" => disk = queue
=============================================================================
