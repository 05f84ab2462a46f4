------------------------- MODULE WakeDeliveryProofs -------------------------
(***************************************************************************)
(* Proofs about two parts of the daemon that share nothing.                *)
(*                                                                         *)
(* First the way of a message to its agent, for any number of senders,     *)
(* messages, retries and faults and every order of the threads' steps.     *)
(* Two facts carry them: whoever is about to drop the wake entry saw an    *)
(* empty inbox, so what is in it now came in between; and the prompts sent *)
(* so far are paid for by the attempts on the entry, even when the loop    *)
(* works on a copy of an entry that is gone.                               *)
(*                                                                         *)
(* Then the usage reports, for any transcripts as they grow.  Three facts  *)
(* carry them: a request's record is its line that stands, so a line       *)
(* replaces exactly one; what a line adds is the difference of the totals  *)
(* around it, so a window's buckets telescope; and a file has one owner    *)
(* and one agent, so the sums over files, buckets, agents and workspaces   *)
(* may be taken in any order.                                              *)
(***************************************************************************)
EXTENDS WakeDelivery, UsageHistory, FiniteSetTheorems, WellFoundedInduction, TLAPS

Wakes == [attempts : 0..MaxAttempts - 1, due : BOOLEAN]

\* A sender has put a message in the inbox and not yet scheduled the wake.
Underway == \E s \in DOMAIN pc : pc[s] \in {"record", "schedule"}

\* What is in the inbox of which an entry is about to be dropped came in between.
CancelSawEmpty == Cancelling /\ ~Empty => excused

Covered == ~Empty => WakeOn \/ excused \/ Underway

\* The scheduler's loop may still type a prompt.
MayPrompt == waker \in {"check", "refill", "recheck", "session", "probe", "send"}

\* How many prompts the attempts counted so far account for.
Budget == IF WakeOn THEN wake.attempts + (IF waker = "sent" THEN 1 ELSE 0)
          ELSE IF MayPrompt THEN MaxAttempts - 1 ELSE MaxAttempts

\* The inductive invariant.
WakeInv == /\ TypeOK /\ prompts \in Nat
           /\ CancelSawEmpty /\ Covered
           /\ prompts <= Budget

-----------------------------------------------------------------------------
(* The entry *)

\* An entry with attempts on it is no missing entry.
LEMMA WakeFacts ==
  ASSUME TypeOK
  PROVE  /\ WakeOn <=> wake \in Wakes
         /\ WakeOn => wake.attempts \in 0..MaxAttempts - 1 /\ wake.due \in BOOLEAN
         /\ FreshWake \in Wakes /\ NoWake \notin Wakes
         /\ MaxAttempts \in Nat /\ MaxAttempts > 0
<1>1. MaxAttempts \in Nat /\ MaxAttempts > 0
  BY WakeAssumption
<1>2. NoWake \notin Wakes
  BY <1>1 DEF NoWake, Wakes
<1>3. FreshWake \in Wakes
  BY <1>1 DEF FreshWake, Wakes
<1>4. wake = NoWake \/ wake \in Wakes
  BY DEF TypeOK, Wakes
<1>5. QED BY <1>1, <1>2, <1>3, <1>4 DEF WakeOn, Wakes

\* What the bound on the prompts says in each state of the entry.
LEMMA BudgetBound ==
  ASSUME TypeOK
  PROVE  Budget \in Int /\ Budget <= MaxAttempts
<1>1. /\ WakeOn => wake.attempts \in 0..MaxAttempts - 1
      /\ MaxAttempts \in Nat /\ MaxAttempts > 0
  BY WakeFacts
<1>2. QED BY <1>1 DEF Budget

-----------------------------------------------------------------------------
(* Steps that leave entry, prompts and loop alone *)

\* A message is queued.
LEMMA PutKeeps ==
  ASSUME WakeInv, NEW kind \in {"note", "task"}, NEW followed \in BOOLEAN, Put(kind, followed)
  PROVE  /\ inbox' \in [note : Nat, task : Nat] /\ excused' \in BOOLEAN
         /\ Cancelling => excused'
         /\ excused => excused'
         /\ ~followed /\ ~WakeOn => excused'
<1>1. inbox \in [note : Nat, task : Nat] /\ excused \in BOOLEAN
  BY DEF WakeInv, TypeOK
<1>2. inbox[kind] + 1 \in Nat
  BY <1>1
<1>3. inbox' = [inbox EXCEPT ![kind] = inbox[kind] + 1]
  BY DEF Put
<1>4. inbox' \in [note : Nat, task : Nat]
  BY <1>1, <1>2, <1>3
<1>5. excused' = (excused \/ Cancelling \/ (~followed /\ ~WakeOn))
  BY DEF Put
<1>6. QED BY <1>4, <1>5

\* The reconciler's saturating dispatch count stays within its cap.
LEMMA CountType == ASSUME NEW n \in 0..NudgeCap PROVE Count(n) \in 0..NudgeCap
  BY WakeAssumption DEF Count

-----------------------------------------------------------------------------
(* The senders and the reconciler *)

Pcs == [Senders \union {Reconciler} -> {"ready", "enqueue", "record", "schedule", "dispatch"}]

\* Moving one thread keeps pc a function into the threads' steps, and the others
\* where they were.
LEMMA PcMoves ==
  ASSUME pc \in Pcs, NEW s \in Senders \union {Reconciler},
         NEW next \in {"ready", "enqueue", "record", "schedule", "dispatch"},
         pc' = [pc EXCEPT ![s] = next]
  PROVE  /\ pc' \in Pcs
         /\ next \in {"record", "schedule"} => Underway'
         /\ pc[s] \notin {"record", "schedule"} => (Underway => Underway')
<1>1. pc' \in Pcs /\ pc'[s] = next /\ \A r \in Senders \union {Reconciler} : r # s => pc'[r] = pc[r]
  BY DEF Pcs
<1>2. DOMAIN pc = Senders \union {Reconciler} /\ DOMAIN pc' = Senders \union {Reconciler}
  BY <1>1 DEF Pcs
<1>3. QED BY <1>1, <1>2 DEF Underway

\* A step that leaves inbox, entry, excuse, loop and prompts alone, and under which
\* nobody stops being underway.
LEMMA CalmKeeps ==
  ASSUME WakeInv, TypeOK', UNCHANGED <<inbox, wake, waker, prompts, excused>>,
         Underway => Underway',
         reader' = "cancel" => reader = "cancel" \/ Empty
  PROVE  WakeInv'
<1>1. /\ (Empty <=> Empty') /\ (WakeOn <=> WakeOn') /\ excused' = excused /\ prompts' = prompts
      /\ Budget' = Budget
  BY DEF Empty, WakeOn, Budget, MayPrompt
<1>2. Cancelling' /\ ~Empty => Cancelling
  BY DEF Cancelling
<1>3. CancelSawEmpty' /\ Covered'
  BY <1>1, <1>2 DEF WakeInv, CancelSawEmpty, Covered
<1>4. QED BY <1>1, <1>3 DEF WakeInv

\* A message is queued and the thread goes on.
LEMMA QueuedKeeps ==
  ASSUME WakeInv, TypeOK', NEW kind \in {"note", "task"}, NEW followed \in BOOLEAN,
         Put(kind, followed), UNCHANGED <<wake, prompts>>,
         followed => Underway', Underway => Underway',
         Cancelling' => Cancelling,
         waker' = waker \/ (waker = "refill" /\ waker' = "recheck")
  PROVE  WakeInv'
<1>1. /\ Cancelling => excused'
      /\ excused => excused'
      /\ ~followed /\ ~WakeOn => excused'
  BY PutKeeps
<1>2. (WakeOn <=> WakeOn') /\ prompts' = prompts /\ Budget' = Budget
  BY DEF WakeOn, Budget, MayPrompt
<1>3. CancelSawEmpty'
  BY <1>1 DEF CancelSawEmpty
<1>4. Covered'
  <2>1. CASE followed
    BY <2>1 DEF Covered
  <2>2. CASE ~followed
    BY <1>1, <1>2, <2>2 DEF Covered
  <2>3. QED BY <2>1, <2>2
<1>5. QED BY <1>2, <1>3, <1>4 DEF WakeInv

\* send_message and start_task, and enqueue, record and schedule of every thread:
\* a message is queued before its wake is scheduled, and scheduling starts the
\* prompt count anew.
LEMMA SendersKeep ==
  ASSUME WakeInv, NEW s \in Senders \union {Reconciler}, NEW config \in BOOLEAN,
         NEW ensure \in BOOLEAN,
         \/ SendEnqueue(s) \/ StartCreate(s, config) \/ TaskEnqueue(s) \/ TaskRecord(s)
         \/ SendDispatch(s) \/ SendSchedule(s, ensure)
  PROVE  WakeInv'
<1>1. TypeOK /\ pc \in Pcs
  BY DEF WakeInv, TypeOK, Pcs
<1> DEFINE yes == TRUE
<1>2. yes \in BOOLEAN /\ yes
  OBVIOUS
<1>3. CASE SendEnqueue(s)
  <2>1. Put("note", yes) /\ pc' = [pc EXCEPT ![s] = "schedule"]
    BY <1>3 DEF SendEnqueue
  <2> HIDE DEF yes
  <2>2. pc' \in Pcs /\ Underway'
    BY <1>1, <2>1, PcMoves
  <2>3. TypeOK'
    BY <1>1, <1>2, <1>3, <2>1, <2>2, PutKeeps DEF SendEnqueue, TypeOK, Pcs
  <2>4. QED BY <1>2, <1>3, <2>1, <2>2, <2>3, QueuedKeeps DEF SendEnqueue, Cancelling
<1>4. CASE TaskEnqueue(s)
  <2>1. Put("task", yes) /\ pc' = [pc EXCEPT ![s] = "record"]
    BY <1>4 DEF TaskEnqueue
  <2> HIDE DEF yes
  <2>2. pc' \in Pcs /\ Underway'
    BY <1>1, <2>1, PcMoves
  <2>3. TypeOK'
    BY <1>1, <1>2, <1>4, <2>1, <2>2, PutKeeps DEF TaskEnqueue, TypeOK, Pcs
  <2>4. QED BY <1>2, <1>4, <2>1, <2>2, <2>3, QueuedKeeps DEF TaskEnqueue, Cancelling
<1>5. CASE StartCreate(s, config)
  <2>1. pc[s] = "ready" /\ pc' = [pc EXCEPT ![s] = "enqueue"]
    BY <1>5 DEF StartCreate
  <2>2. pc' \in Pcs /\ (Underway => Underway')
    BY <1>1, <2>1, PcMoves
  <2>3. TypeOK'
    BY <1>1, <1>5, <2>2, WakeAssumption DEF StartCreate, TypeOK, Pcs
  <2>4. QED BY <1>5, <2>2, <2>3, CalmKeeps DEF StartCreate
<1>6. CASE TaskRecord(s)
  <2>1. pc' = [pc EXCEPT ![s] = "schedule"]
    BY <1>6 DEF TaskRecord
  <2>2. pc' \in Pcs /\ Underway'
    BY <1>1, <2>1, PcMoves
  <2>3. Count(task.dispatches) \in 0..NudgeCap
    BY <1>1, CountType DEF TypeOK
  <2>4. TypeOK'
    BY <1>1, <1>6, <2>2, <2>3 DEF TaskRecord, TypeOK, Pcs
  <2>5. QED BY <1>6, <2>2, <2>4, CalmKeeps DEF TaskRecord
<1>7. CASE SendDispatch(s)
  <2>1. pc[s] = "dispatch" /\ pc' = [pc EXCEPT ![s] = "ready"]
    BY <1>7 DEF SendDispatch
  <2>2. pc' \in Pcs /\ (Underway => Underway')
    BY <1>1, <2>1, PcMoves
  <2>3. TypeOK'
    BY <1>1, <1>7, <2>2 DEF SendDispatch, TypeOK, Pcs
  <2>4. QED BY <1>7, <2>2, <2>3, CalmKeeps DEF SendDispatch
<1>8. CASE SendSchedule(s, ensure)
  <2> DEFINE next == IF ensure THEN "dispatch" ELSE "ready"
  <2>1. pc' = [pc EXCEPT ![s] = next] /\ next \in {"ready", "dispatch"}
    BY <1>8 DEF SendSchedule
  <2> HIDE DEF next
  <2>2. pc' \in Pcs
    BY <1>1, <2>1, PcMoves
  <2>3. /\ wake' = FreshWake /\ prompts' = 0 /\ waker' = waker /\ inbox' = inbox
        /\ reader' = reader
    BY <1>8 DEF SendSchedule, Schedule
  <2>4. excused' = (excused /\ Cancelling)
    BY <1>8 DEF SendSchedule, Schedule
  <2>5. FreshWake \in Wakes /\ NoWake \notin Wakes /\ FreshWake.attempts = 0
    BY <1>1, WakeFacts DEF FreshWake
  <2>6. TypeOK'
    BY <1>1, <1>8, <2>2, <2>3, <2>4, <2>5 DEF SendSchedule, TypeOK, Pcs, Wakes
  <2>7. WakeOn'
    BY <2>3, <2>5 DEF WakeOn
  <2>8. CancelSawEmpty'
    BY <2>3, <2>4 DEF WakeInv, CancelSawEmpty, Cancelling, Empty
  <2>9. Covered'
    BY <2>7 DEF Covered
  <2>10. prompts' \in Nat /\ prompts' <= Budget'
    BY <2>3, <2>5, <2>7 DEF Budget
  <2>11. QED BY <2>6, <2>8, <2>9, <2>10 DEF WakeInv
<1>9. QED BY <1>3, <1>4, <1>5, <1>6, <1>7, <1>8

\* The reconciler's checks change nothing but its own step.
LEMMA NudgeKeeps == ASSUME WakeInv, Nudge PROVE WakeInv'
<1>1. TypeOK /\ pc \in Pcs
  BY DEF WakeInv, TypeOK, Pcs
<1>2. pc[Reconciler] = "ready" /\ pc' = [pc EXCEPT ![Reconciler] = "enqueue"]
  BY DEF Nudge
<1>3. pc' \in Pcs /\ (Underway => Underway')
  BY <1>1, <1>2, PcMoves
<1>4. TypeOK'
  BY <1>1, <1>3 DEF Nudge, stores, TypeOK, Pcs
<1>5. QED BY <1>3, <1>4, CalmKeeps DEF Nudge, stores

-----------------------------------------------------------------------------
(* The agent's connection *)

\* Messages leave the inbox, and an excuse stays as long as one is left.
LEMMA TakenKeeps ==
  ASSUME WakeInv, inbox' \in [note : Nat, task : Nat],
         ~Empty' => ~Empty /\ excused' = excused, excused' \in BOOLEAN,
         UNCHANGED <<task, wake, session, pc, waker, sleeper, sends, faults, prompts>>,
         reader' = "settle"
  PROVE  WakeInv'
<1>1. TypeOK'
  BY DEF WakeInv, TypeOK
<1>2. (WakeOn <=> WakeOn') /\ Budget' = Budget /\ (Underway <=> Underway')
  BY DEF WakeOn, Budget, MayPrompt, Underway
<1>3. Cancelling' => Cancelling
  BY DEF Cancelling
<1>4. CancelSawEmpty' /\ Covered'
  BY <1>2, <1>3 DEF WakeInv, CancelSawEmpty, Covered
<1>5. QED BY <1>1, <1>2, <1>4 DEF WakeInv

\* The entry is dropped by a thread that saw an empty inbox.
LEMMA CancelKeeps ==
  ASSUME WakeInv, Cancelling, wake' = NoWake,
         UNCHANGED <<inbox, task, session, pc, prompts, excused>>,
         Cancelling' => Cancelling,
         \/ waker' = waker
         \/ waker = "cancel" /\ waker' = "ready"
  PROVE  WakeInv'
<1>1. TypeOK /\ TypeOK'
  BY DEF WakeInv, TypeOK
<1>2. ~WakeOn'
  BY DEF WakeOn
<1>3. CancelSawEmpty'
  BY DEF WakeInv, CancelSawEmpty, Empty
<1>4. Covered'
  BY DEF WakeInv, CancelSawEmpty, Covered, Empty
<1>5. prompts' <= Budget'
  <2>1. Budget <= Budget'
    <3>1. /\ WakeOn => wake.attempts \in 0..MaxAttempts - 1
          /\ MaxAttempts \in Nat /\ MaxAttempts > 0
      BY <1>1, WakeFacts
    <3>2. CASE WakeOn /\ waker = "sent"
      BY <1>2, <3>1, <3>2 DEF Budget, MayPrompt
    <3>3. CASE WakeOn /\ waker # "sent"
      BY <1>2, <3>1, <3>3 DEF Budget, MayPrompt
    <3>4. CASE ~WakeOn
      BY <1>2, <3>1, <3>4 DEF Budget, MayPrompt
    <3>5. QED BY <3>2, <3>3, <3>4
  <2>2. Budget \in Int /\ Budget' \in Int /\ prompts \in Nat /\ prompts <= Budget
    <3>1. Budget \in Int
      BY <1>1, BudgetBound
    <3>2. Budget' \in Int
      BY <1>2, WakeAssumption DEF Budget
    <3>3. QED BY <3>1, <3>2 DEF WakeInv
  <2>3. QED BY <2>1, <2>2
<1>6. QED BY <1>1, <1>3, <1>4, <1>5 DEF WakeInv

\* read_messages and the agent's turn: the entry is dropped only in the window that
\* CancelSawEmpty describes.
LEMMA ReaderKeeps ==
  ASSUME WakeInv,
         \/ ReadBegin \/ Reading \/ Claim \/ Close \/ Remind \/ EndTurn
  PROVE  WakeInv'
<1>1. TypeOK /\ inbox \in [note : Nat, task : Nat] /\ excused \in BOOLEAN
  BY DEF WakeInv, TypeOK
<1> DEFINE no == FALSE
<1>2. no \in BOOLEAN /\ ~no
  OBVIOUS
<1>3. CASE ReadBegin \/ ReadSettle \/ Claim \/ Close \/ EndTurn
  <2>1. /\ UNCHANGED <<inbox, wake, waker, prompts, excused, pc>>
        /\ reader' = "cancel" => reader = "cancel" \/ Empty
    BY <1>3 DEF ReadBegin, ReadSettle, Claim, Close, EndTurn, stores
  <2>2. TypeOK'
    BY <1>1, <1>3 DEF ReadBegin, ReadSettle, Claim, Close, EndTurn, stores, TypeOK
  <2>3. Underway => Underway'
    BY <2>1 DEF Underway
  <2>4. QED BY <2>1, <2>2, <2>3, CalmKeeps
<1>4. CASE ReadRefill
  <2>1. Put("task", no)
    BY <1>4 DEF ReadRefill
  <2>2. Count(task.dispatches) \in 0..NudgeCap
    BY <1>1, CountType DEF TypeOK
  <2> HIDE DEF no
  <2>3. TypeOK'
    BY <1>1, <1>2, <1>4, <2>1, <2>2, PutKeeps DEF ReadRefill, TypeOK
  <2>4. Underway => Underway'
    BY <1>4 DEF ReadRefill, Underway
  <2>5. Cancelling' => Cancelling
    BY <1>4 DEF ReadRefill, Cancelling
  <2>6. UNCHANGED <<wake, prompts>> /\ waker' = waker
    BY <1>4 DEF ReadRefill
  <2>7. QED BY <1>2, <2>1, <2>3, <2>4, <2>5, <2>6, QueuedKeeps
<1>5. CASE Remind
  <2>1. Put("task", no)
    BY <1>5 DEF Remind
  <2> HIDE DEF no
  <2>2. TypeOK'
    BY <1>1, <1>2, <1>5, <2>1, PutKeeps DEF Remind, TypeOK
  <2>3. Underway => Underway'
    BY <1>5 DEF Remind, Underway
  <2>4. Cancelling' => Cancelling
    BY <1>5 DEF Remind, Cancelling
  <2>5. UNCHANGED <<wake, prompts>> /\ waker' = waker
    BY <1>5 DEF Remind
  <2>6. QED BY <1>2, <2>1, <2>2, <2>3, <2>4, <2>5, QueuedKeeps
<1>6. ASSUME NEW n \in 0..inbox.note, NEW t \in 0..inbox.task, ReadDequeue(n, t)
      PROVE  WakeInv'
  <2>1. n \in Nat /\ t \in Nat /\ (n # 0 => inbox.note # 0) /\ (t # 0 => inbox.task # 0)
    BY <1>1
  <2>2. inbox' = [note |-> n, task |-> t] /\ excused' = (excused /\ ~(n = 0 /\ t = 0))
    BY <1>6 DEF ReadDequeue
  <2>3. inbox' \in [note : Nat, task : Nat] /\ excused' \in BOOLEAN
    BY <2>1, <2>2
  <2>4. ASSUME ~Empty' PROVE ~Empty /\ excused' = excused
    <3>1. n # 0 \/ t # 0
      BY <2>2, <2>4 DEF Empty
    <3>2. ~Empty
      BY <2>1, <3>1 DEF Empty
    <3>3. excused' = excused
      BY <1>1, <2>2, <3>1
    <3>4. QED BY <3>2, <3>3
  <2>5. QED BY <1>6, <2>3, <2>4, TakenKeeps DEF ReadDequeue
<1>7. CASE Purge
  <2>1. inbox' = [inbox EXCEPT !.task = 0] /\ excused' = (excused /\ inbox.note # 0)
    BY <1>7 DEF Purge
  <2>2. inbox' \in [note : Nat, task : Nat] /\ inbox'.note = inbox.note /\ inbox'.task = 0
        /\ excused' \in BOOLEAN
    BY <1>1, <2>1
  <2>3. ~Empty' => ~Empty /\ excused' = excused
    BY <1>1, <2>1, <2>2 DEF Empty
  <2>4. QED BY <1>7, <2>2, <2>3, TakenKeeps DEF Purge
<1>8. CASE ReadCancel
  BY <1>8, CancelKeeps DEF ReadCancel, Cancel, Cancelling
<1>9. QED BY <1>3, <1>4, <1>5, <1>6, <1>7, <1>8 DEF Reading

-----------------------------------------------------------------------------
(* The wake scheduler's loop *)

\* The loop goes on; it reaches a step that may type a prompt from another such step
\* or under an entry.
LEMMA LoopKeeps ==
  ASSUME WakeInv, TypeOK', UNCHANGED <<inbox, wake, pc, reader, prompts, excused>>,
         waker # "sent", waker' # "sent", MayPrompt' => MayPrompt \/ WakeOn,
         waker' = "cancel" => Empty
  PROVE  WakeInv'
<1>1. (Empty <=> Empty') /\ (WakeOn <=> WakeOn') /\ excused' = excused
  BY DEF Empty, WakeOn
<1>2. Cancelling' /\ ~Empty => Cancelling
  BY DEF Cancelling
<1>3. CancelSawEmpty' /\ Covered'
  BY <1>1, <1>2 DEF WakeInv, CancelSawEmpty, Covered, Underway
<1>4. prompts' <= Budget'
  <2>1. CASE WakeOn
    BY <1>1, <2>1 DEF WakeInv, Budget
  <2>2. CASE ~WakeOn
    BY <1>1, <2>2, WakeAssumption DEF WakeInv, Budget
  <2>3. QED BY <2>1, <2>2
<1>5. QED BY <1>3, <1>4 DEF WakeInv

\* due is set or cleared on an entry that stays.
LEMMA DueKeeps ==
  ASSUME WakeInv, NEW b \in BOOLEAN,
         wake' = IF WakeOn THEN [wake EXCEPT !.due = b] ELSE wake,
         UNCHANGED <<inbox, task, session, pc, reader, prompts, excused>>,
         \/ waker' = waker
         \/ waker = "probe" /\ waker' = "ready"
  PROVE  WakeInv'
<1>1. TypeOK
  BY DEF WakeInv
<1>2. /\ WakeOn => WakeOn' /\ wake' \in Wakes /\ wake'.attempts = wake.attempts
      /\ ~WakeOn => wake' = wake /\ ~WakeOn'
  <2>1. CASE WakeOn
    <3>1. wake \in Wakes /\ NoWake \notin Wakes
      BY <1>1, <2>1, WakeFacts
    <3>2. wake' \in Wakes /\ wake'.attempts = wake.attempts
      BY <2>1, <3>1 DEF Wakes
    <3>3. QED BY <2>1, <3>1, <3>2 DEF WakeOn
  <2>2. CASE ~WakeOn
    BY <2>2 DEF WakeOn
  <2>3. QED BY <2>1, <2>2
<1>3. TypeOK'
  <2>1. wake' = NoWake \/ wake' \in Wakes
    BY <1>2 DEF WakeOn
  <2>2. QED BY <1>1, <2>1 DEF TypeOK, Wakes
<1>4. CancelSawEmpty' /\ Covered'
  BY <1>2 DEF WakeInv, CancelSawEmpty, Covered, Cancelling, Empty, Underway
<1>5. prompts' <= Budget'
  <2>1. CASE WakeOn
    BY <1>2, <2>1 DEF WakeInv, Budget
  <2>2. CASE ~WakeOn
    BY <1>2, <2>2, WakeAssumption DEF WakeInv, Budget, MayPrompt
  <2>3. QED BY <2>1, <2>2
<1>6. QED BY <1>3, <1>4, <1>5 DEF WakeInv

\* advance_attempt pays for the prompt that was typed, or drops the entry.
LEMMA AdvanceKeeps == ASSUME WakeInv, WakeAdvance PROVE WakeInv'
<1> DEFINE tried == wake.attempts + 1
           over  == waker = "failed" \/ tried >= MaxAttempts
<1>1. /\ waker \in {"ensured", "sent", "failed"} /\ waker' = "ready"
      /\ wake' = IF WakeOn /\ ~over THEN [attempts |-> tried, due |-> FALSE] ELSE NoWake
      /\ excused' = (excused \/ (WakeOn /\ over /\ ~Empty))
      /\ UNCHANGED <<inbox, task, session, pc, reader, sleeper, sends, faults, prompts>>
  BY DEF WakeAdvance
<1>2. /\ TypeOK /\ excused \in BOOLEAN /\ prompts \in Nat /\ prompts <= Budget
  BY DEF WakeInv, TypeOK
<1>3. /\ WakeOn => wake.attempts \in 0..MaxAttempts - 1
      /\ NoWake \notin Wakes /\ MaxAttempts \in Nat /\ MaxAttempts > 0
  BY <1>2, WakeFacts
<1>4. CASE WakeOn /\ ~over
  <2>1. tried \in 0..MaxAttempts - 1
    BY <1>3, <1>4
  <2>2. wake' = [attempts |-> tried, due |-> FALSE]
    BY <1>1, <1>4
  <2> HIDE DEF tried
  <2>3. wake' \in Wakes /\ wake'.attempts = tried
    BY <2>1, <2>2 DEF Wakes
  <2>4. WakeOn'
    BY <1>3, <2>3 DEF WakeOn
  <2>5. excused' = excused
    BY <1>1, <1>2, <1>4
  <2>6. TypeOK'
    BY <1>1, <1>2, <2>3, <2>5 DEF TypeOK, Wakes
  <2>7. CancelSawEmpty'
    BY <1>1, <2>5 DEF WakeInv, CancelSawEmpty, Cancelling, Empty
  <2>8. prompts' <= Budget'
    <3>1. Budget <= tried
      BY <1>3, <1>4 DEF Budget, tried
    <3>2. Budget' = tried
      BY <1>1, <2>1, <2>3, <2>4 DEF Budget
    <3>3. Budget \in Int
      BY <1>2, BudgetBound
    <3>4. QED BY <1>1, <1>2, <2>1, <3>1, <3>2, <3>3
  <2>9. QED BY <1>1, <1>2, <2>4, <2>6, <2>7, <2>8 DEF WakeInv, Covered
<1>5. CASE ~(WakeOn /\ ~over)
  <2>1. wake' = NoWake /\ ~WakeOn'
    BY <1>1, <1>5 DEF WakeOn
  <2>2. excused' \in BOOLEAN /\ (excused => excused') /\ (WakeOn /\ ~Empty => excused')
    BY <1>1, <1>2, <1>5
  <2>3. TypeOK'
    BY <1>1, <1>2, <2>1, <2>2 DEF TypeOK
  <2>4. CancelSawEmpty' /\ Covered'
    BY <1>1, <2>1, <2>2 DEF WakeInv, CancelSawEmpty, Covered, Cancelling, Empty, Underway
  <2>5. prompts' <= Budget'
    <3>1. Budget' = MaxAttempts
      BY <1>1, <2>1 DEF Budget, MayPrompt
    <3>2. Budget \in Int /\ Budget <= MaxAttempts
      BY <1>2, BudgetBound
    <3>3. QED BY <1>1, <1>2, <1>3, <3>1, <3>2
  <2>6. QED BY <1>1, <1>2, <2>3, <2>4, <2>5 DEF WakeInv
<1>6. QED BY <1>4, <1>5

\* The wake loop, each step of a pass: a prompt is typed once per attempt, and the
\* attempt is counted before the next may be typed.
LEMMA WakerKeeps == ASSUME WakeInv, Due \/ Waking PROVE WakeInv'
<1>1. TypeOK /\ excused \in BOOLEAN /\ prompts \in Nat
  BY DEF WakeInv, TypeOK
<1> DEFINE no == FALSE
           yes == TRUE
<1>2. no \in BOOLEAN /\ ~no /\ yes \in BOOLEAN
  OBVIOUS
<1>3. CASE Due
  <2>1. wake' = IF WakeOn THEN [wake EXCEPT !.due = yes] ELSE wake
    BY <1>3 DEF Due
  <2> HIDE DEF yes
  <2>2. QED BY <1>2, <1>3, <2>1, DueKeeps DEF Due
<1>4. CASE WakeTick \/ WakeCheck \/ WakeRecheck \/ WakeSession
  <2>1. /\ UNCHANGED <<inbox, task, wake, session, pc, reader, prompts, excused>>
        /\ waker # "sent" /\ waker' # "sent"
        /\ waker \in {"check", "recheck", "session"} \/ WakeOn
        /\ waker' = "cancel" => Empty
    BY <1>4 DEF WakeTick, WakeCheck, WakeRecheck, WakeSession, WakeGoto, stores
  <2>2. TypeOK'
    BY <1>1, <2>1 DEF TypeOK
  <2>3. MayPrompt' => MayPrompt \/ WakeOn
    BY <2>1 DEF MayPrompt
  <2>4. QED BY <2>1, <2>2, <2>3, LoopKeeps
<1>5. CASE WakeRefill
  <2>1. Put("task", no)
    BY <1>5 DEF WakeRefill
  <2>2. Count(task.dispatches) \in 0..NudgeCap
    BY <1>1, CountType DEF TypeOK
  <2> HIDE DEF no
  <2>3. TypeOK'
    BY <1>1, <1>2, <1>5, <2>1, <2>2, PutKeeps DEF WakeRefill, TypeOK
  <2>4. Underway => Underway'
    BY <1>5 DEF WakeRefill, Underway
  <2>5. Cancelling' => Cancelling
    BY <1>5 DEF WakeRefill, Cancelling
  <2>6. UNCHANGED <<wake, prompts>> /\ waker = "refill" /\ waker' = "recheck"
    BY <1>5 DEF WakeRefill
  <2>7. QED BY <1>2, <2>1, <2>3, <2>4, <2>5, <2>6, QueuedKeeps
<1>6. CASE WakeCancel
  BY <1>6, CancelKeeps DEF WakeCancel, Cancel, Cancelling
<1>7. CASE WakeEnsure
  <2>1. CASE waker' = "ensured"
    <3>1. /\ UNCHANGED <<inbox, task, wake, pc, reader, prompts, excused>>
          /\ waker = "ensure" /\ session' \in {session, "busy"}
      BY <1>7, <2>1 DEF WakeEnsure
    <3>2. TypeOK'
      BY <1>1, <3>1 DEF TypeOK
    <3>3. QED BY <2>1, <3>1, <3>2, LoopKeeps DEF MayPrompt
  <2>2. CASE waker' = "cancel"
    <3>1. /\ UNCHANGED <<inbox, task, wake, pc, reader, prompts, session>>
          /\ waker = "ensure" /\ excused' = ~Empty
      BY <1>7, <2>2 DEF WakeEnsure
    <3>2. excused' \in BOOLEAN /\ (~Empty => excused')
      BY <3>1
    <3>3. TypeOK'
      BY <1>1, <3>1, <3>2 DEF TypeOK
    <3>4. CancelSawEmpty' /\ Covered'
      BY <3>1, <3>2 DEF CancelSawEmpty, Covered, Empty
    <3>5. Budget' = Budget
      BY <2>2, <3>1 DEF Budget, MayPrompt, WakeOn
    <3>6. QED BY <3>1, <3>3, <3>4, <3>5 DEF WakeInv
  <2>3. QED BY <1>7, <2>1, <2>2 DEF WakeEnsure
<1>8. CASE WakeProbe
  <2>1. CASE waker' = "send"
    <3>1. /\ UNCHANGED <<inbox, task, wake, session, pc, reader, prompts, excused>>
          /\ waker = "probe"
      BY <1>8, <2>1 DEF WakeProbe
    <3>2. TypeOK'
      BY <1>1, <3>1 DEF TypeOK
    <3>3. QED BY <2>1, <3>1, <3>2, LoopKeeps DEF MayPrompt
  <2>2. CASE waker' = "ready"
    <3>1. /\ UNCHANGED <<inbox, task, session, pc, reader, prompts, excused>>
          /\ waker = "probe"
          /\ wake' = IF WakeOn THEN [wake EXCEPT !.due = no] ELSE wake
      BY <1>8, <2>2 DEF WakeProbe
    <3> HIDE DEF no
    <3>2. QED BY <1>2, <2>2, <3>1, DueKeeps
  <2>3. QED BY <1>8, <2>1, <2>2 DEF WakeProbe
<1>9. CASE WakeSend
  <2>1. CASE waker' = "sent"
    <3>1. /\ UNCHANGED <<inbox, task, wake, pc, reader, excused>>
          /\ waker = "send" /\ prompts' = prompts + 1 /\ session' = "busy"
      BY <1>9, <2>1 DEF WakeSend
    <3>2. TypeOK'
      BY <1>1, <3>1 DEF TypeOK
    <3>3. CancelSawEmpty' /\ Covered'
      BY <2>1, <3>1 DEF WakeInv, CancelSawEmpty, Covered, Cancelling, Empty, WakeOn, Underway
    <3>4. Budget' = Budget + 1
      <4>1. (WakeOn <=> WakeOn') /\ MayPrompt /\ ~MayPrompt' /\ wake' = wake
        BY <2>1, <3>1 DEF WakeOn, MayPrompt
      <4>2. /\ WakeOn => wake.attempts \in 0..MaxAttempts - 1
            /\ MaxAttempts \in Nat /\ MaxAttempts > 0
        BY <1>1, WakeFacts
      <4>3. QED BY <2>1, <3>1, <4>1, <4>2 DEF Budget
    <3>5. Budget \in Int
      BY <1>1, BudgetBound
    <3>6. prompts' \in Nat /\ prompts' <= Budget'
      BY <1>1, <3>1, <3>4, <3>5 DEF WakeInv
    <3>7. QED BY <3>2, <3>3, <3>6 DEF WakeInv
  <2>2. CASE waker' = "failed"
    <3>1. /\ UNCHANGED <<inbox, task, wake, session, pc, reader, prompts, excused>>
          /\ waker = "send"
      BY <1>9, <2>2 DEF WakeSend
    <3>2. TypeOK'
      BY <1>1, <3>1 DEF TypeOK
    <3>3. QED BY <2>2, <3>1, <3>2, LoopKeeps DEF MayPrompt
  <2>3. QED BY <1>9, <2>1, <2>2 DEF WakeSend
<1>10. CASE WakeAdvance
  BY <1>10, AdvanceKeeps
<1>11. QED BY <1>3, <1>4, <1>5, <1>6, <1>7, <1>8, <1>9, <1>10 DEF Waking

-----------------------------------------------------------------------------
(* The other loops, and faults *)

\* The sleep loop, the stale-task recovery and a dying session touch neither the
\* inbox nor the entry.
LEMMA OthersKeep ==
  ASSUME WakeInv,
         \/ SleepProbe \/ SleepInbox \/ SleepWake \/ SleepTasks \/ SleepStop
         \/ Recover \/ SessionDies \/ UNCHANGED vars
  PROVE  WakeInv'
<1>1. /\ UNCHANGED <<inbox, wake, waker, prompts, excused, pc, reader>>
      /\ session' \in {session, "none"}
      /\ task' = task \/ task' = [task EXCEPT !.status = "pending"]
  BY DEF SleepProbe, SleepInbox, SleepWake, SleepTasks, SleepStop, SleepGoto, Recover,
         SessionDies, stores, vars
<1>2. TypeOK'
  BY <1>1 DEF WakeInv, TypeOK
<1>3. Underway => Underway'
  BY <1>1 DEF Underway
<1>4. QED BY <1>1, <1>2, <1>3, CalmKeeps

\* A daemon restart drops the entry (the scheduler is memory only) and excuses what
\* is unread.
LEMMA RestartKeeps == ASSUME WakeInv, Restart PROVE WakeInv'
<1>1. /\ wake' = NoWake /\ reader' = "ready" /\ waker' = "ready" /\ prompts' = 0
      /\ excused' = ~Empty /\ UNCHANGED <<inbox, task, session>>
      /\ pc' = [s \in Senders \union {Reconciler} |-> "ready"]
  BY DEF Restart
<1>2. excused' \in BOOLEAN /\ (~Empty => excused')
  BY <1>1
<1>3. TypeOK'
  BY <1>1, <1>2 DEF WakeInv, TypeOK
<1>4. CancelSawEmpty' /\ Covered'
  BY <1>1, <1>2 DEF CancelSawEmpty, Covered, Empty
<1>5. prompts' \in Nat /\ prompts' <= Budget'
  BY <1>1, WakeAssumption DEF Budget, WakeOn, MayPrompt
<1>6. QED BY <1>3, <1>4, <1>5 DEF WakeInv

\* The daemon starts with an empty inbox and no wake.
LEMMA WakeInit == Init => WakeInv
<1> SUFFICES ASSUME Init PROVE WakeInv
  OBVIOUS
<1>1. TypeOK
  <2> DEFINE no == FALSE
  <2>1. /\ no \in BOOLEAN /\ excused = no
        /\ task = [status |-> "none", dispatches |-> 0, config |-> no]
    BY DEF Init
  <2> HIDE DEF no
  <2>2. 0 \in 0..NudgeCap
    BY WakeAssumption
  <2>3. task \in [status: {"none", "pending", "in_progress", "closed"},
                  dispatches: 0..NudgeCap, config: BOOLEAN]
    BY <2>1, <2>2
  <2>4. excused \in BOOLEAN
    BY <2>1
  <2>5. QED BY <2>3, <2>4 DEF Init, TypeOK
<1>2. CancelSawEmpty /\ Covered
  BY DEF Init, CancelSawEmpty, Covered, Empty
<1>3. prompts \in Nat /\ prompts <= Budget
  BY WakeAssumption DEF Init, Budget, WakeOn, MayPrompt
<1>4. QED BY <1>1, <1>2, <1>3 DEF WakeInv

\* WakeInv is inductive.
LEMMA WakeStep == WakeInv /\ [Next]_vars => WakeInv'
<1> SUFFICES ASSUME WakeInv, [Next]_vars PROVE WakeInv'
  OBVIOUS
<1>1. ASSUME NEW s \in Senders, SendEnqueue(s) \/ \E config \in BOOLEAN : StartCreate(s, config)
      PROVE  WakeInv'
  BY <1>1, SendersKeep
<1>2. CASE Sending
  BY <1>2, SendersKeep DEF Sending
<1>3. CASE Nudge
  BY <1>3, NudgeKeeps
<1>4. CASE ReadBegin \/ Reading \/ Claim \/ Close \/ Remind \/ EndTurn
  BY <1>4, ReaderKeeps
<1>5. CASE Due \/ Waking
  BY <1>5, WakerKeeps
<1>6. CASE \/ SleepProbe \/ SleepInbox \/ SleepWake \/ SleepTasks \/ SleepStop
           \/ Recover \/ SessionDies \/ UNCHANGED vars
  BY <1>6, OthersKeep
<1>7. CASE Restart
  BY <1>7, RestartKeeps
<1>8. QED BY <1>1, <1>2, <1>3, <1>4, <1>5, <1>6, <1>7 DEF Next

-----------------------------------------------------------------------------
(* The theorems *)

\* Whatever the order of the steps of senders, reconciler, agent, wake loop and
\* sleep loop, unread messages whose sender is through have a pending wake, save
\* for the listed events.
THEOREM UnreadHasAWake == Spec => []UnreadIsCovered
<1>1. WakeInv => UnreadIsCovered
  BY DEF WakeInv, Covered, Underway, UnreadIsCovered
<1>2. QED BY <1>1, WakeInit, WakeStep, PTL DEF Spec

\* One scheduling of a wake buys at most WAKE_MAX_ATTEMPTS prompts.
THEOREM PromptsRunOut == Spec => []PromptsAreBounded
<1>1. WakeInv => PromptsAreBounded
  <2>1. ASSUME WakeInv PROVE prompts <= MaxAttempts
    <3>1. Budget \in Int /\ Budget <= MaxAttempts /\ prompts \in Nat /\ prompts <= Budget
      BY <2>1, BudgetBound DEF WakeInv
    <3>2. QED BY <3>1, WakeAssumption
  <2>2. QED BY <2>1 DEF PromptsAreBounded
<1>2. QED BY <1>1, WakeInit, WakeStep, PTL DEF Spec

-----------------------------------------------------------------------------
(* Numbers *)

\* Of any numbers there is a smallest: what induction over data rests on here.
LEMMA SmallestNumber ==
  ASSUME NEW S \in SUBSET Nat, S # {}
  PROVE  \E x \in S : \A y \in S : x <= y
<1>1. PICK x \in S : \A y \in S : ~(<<y, x>> \in OpToRel(<, Nat))
  BY NatLessThanWellFounded, WFMin, Zenon
<1>2. \A y \in S : ~(y < x)
  BY <1>1 DEF OpToRel
<1>3. QED BY <1>2

\* What holds of 0, and of the next whenever it holds of one, holds of all.
LEMMA Upwards ==
  ASSUME NEW n \in Nat, NEW S, 0 \in S, \A k \in 0..n : k < n /\ k \in S => k + 1 \in S
  PROVE  \A k \in 0..n : k \in S
<1> DEFINE B == {k \in 0..n : k \notin S}
<1> SUFFICES ASSUME B # {} PROVE FALSE
  OBVIOUS
<1>1. PICK x \in B : \A y \in B : x <= y
  <2>1. B \in SUBSET Nat
    OBVIOUS
  <2> HIDE DEF B
  <2>2. QED BY <2>1, SmallestNumber
<1>2. x # 0 /\ x \in 0..n
  BY <1>1
<1>3. x - 1 \in 0..n /\ x - 1 \notin B
  BY <1>1, <1>2
<1>4. QED BY <1>1, <1>2, <1>3

-----------------------------------------------------------------------------
(* Sums *)

\* Induction over a finite set: of any sets there is one that no member can leave.
LEMMA SmallestSet ==
  ASSUME NEW S, IsFiniteSet(S), NEW B \in SUBSET (SUBSET S), B # {}
  PROVE  \E T \in B : IsFiniteSet(T) /\ \A x \in T : T \ {x} \notin B
<1> DEFINE N == {Cardinality(T) : T \in B}
<1>1. \A T \in B : IsFiniteSet(T) /\ Cardinality(T) \in Nat
  BY FS_Subset, FS_CardinalityType
<1>2. N \in SUBSET Nat /\ N # {}
  BY <1>1
<1>3. PICK n \in N : \A m \in N : n <= m
  <2> HIDE DEF N
  <2>1. QED BY <1>2, SmallestNumber
<1>4. PICK T \in B : n = Cardinality(T)
  BY <1>3
<1>5. ASSUME NEW x \in T, T \ {x} \in B PROVE FALSE
  <2>1. Cardinality(T \ {x}) = Cardinality(T) - 1
    BY <1>1, <1>4, FS_RemoveElement
  <2>2. Cardinality(T \ {x}) \in N
    BY <1>5
  <2>3. n <= Cardinality(T \ {x}) /\ n \in Nat
    BY <1>2, <1>3, <2>2
  <2> HIDE DEF N
  <2>4. QED BY <1>4, <2>1, <2>3
<1>6. QED BY <1>1, <1>4, <1>5

\* The sum of a function, by its recursive definition.
One(s) == CHOOSE x \in s : TRUE
SumIter(f, S, g) ==
  g = [s \in SUBSET S |-> IF s = {} THEN 0 ELSE f[One(s)] + g[s \ {One(s)}]]

\* SumFunctionOnSet takes what solves its recursion.
LEMMA SumIs ==
  ASSUME NEW f, NEW S
  PROVE  SumFunctionOnSet(f, S) = (CHOOSE g : SumIter(f, S, g))[S]
BY DEF SumFunctionOnSet, FoldFunctionOnSet, MapThenFoldSet, SumIter, One

\* One step of that recursion.
LEMMA SumIterAt ==
  ASSUME NEW f, NEW S, NEW g, SumIter(f, S, g), NEW s \in SUBSET S
  PROVE  /\ s = {} => g[s] = 0
         /\ s # {} => One(s) \in s /\ g[s] = f[One(s)] + g[s \ {One(s)}]
<1>1. g[s] = IF s = {} THEN 0 ELSE f[One(s)] + g[s \ {One(s)}]
  BY Zenon DEF SumIter
<1>2. s # {} => One(s) \in s
  BY DEF One
<1>3. QED BY <1>1, <1>2

\* Two solutions agree wherever both are defined.
LEMMA SumUnique ==
  ASSUME NEW f, NEW S, NEW T, NEW g, NEW h, SumIter(f, S, g), SumIter(f, T, h),
         NEW s, s \in SUBSET S, s \in SUBSET T, IsFiniteSet(s)
  PROVE  g[s] = h[s]
<1> DEFINE B == {r \in SUBSET s : g[r] # h[r]}
<1> SUFFICES ASSUME B # {} PROVE FALSE
  OBVIOUS
<1>1. PICK r \in B : \A x \in r : r \ {x} \notin B
  <2>1. B \in SUBSET (SUBSET s)
    OBVIOUS
  <2> HIDE DEF B
  <2>2. QED BY <2>1, SmallestSet
<1>2. r \in SUBSET S /\ r \in SUBSET T /\ r \in SUBSET s
  BY <1>1
<1>3. /\ r = {} => g[r] = 0
      /\ r # {} => One(r) \in r /\ g[r] = f[One(r)] + g[r \ {One(r)}]
  BY ONLY <1>2, SumIter(f, S, g), SumIterAt
<1>4. /\ r = {} => h[r] = 0
      /\ r # {} => One(r) \in r /\ h[r] = f[One(r)] + h[r \ {One(r)}]
  BY ONLY <1>2, SumIter(f, T, h), SumIterAt
<1>5. r # {} => g[r \ {One(r)}] = h[r \ {One(r)}]
  BY <1>1, <1>2, <1>3
<1>6. QED BY <1>1, <1>3, <1>4, <1>5

\* There is one, for every finite set.
LEMMA SumExists ==
  ASSUME NEW f, NEW S, IsFiniteSet(S)
  PROVE  \E g : SumIter(f, S, g)
<1> DEFINE B == {T \in SUBSET S : ~\E g : SumIter(f, T, g)}
<1> SUFFICES ASSUME B # {} PROVE FALSE
  OBVIOUS
<1>1. PICK T \in B : IsFiniteSet(T) /\ \A x \in T : T \ {x} \notin B
  <2>1. B \in SUBSET (SUBSET S)
    OBVIOUS
  <2> HIDE DEF B
  <2>2. QED BY <2>1, SmallestSet
<1> DEFINE V(s) == (CHOOSE g : SumIter(f, s, g))[s]
<1>2. ASSUME NEW s \in SUBSET T, s # T PROVE \E g : SumIter(f, s, g)
  <2>1. PICK x \in T : x \notin s
    BY <1>2
  <2>2. T \ {x} \in SUBSET S
    BY <1>1
  <2>3. PICK g : SumIter(f, T \ {x}, g)
    BY <1>1, <2>2
  <2> DEFINE h == [r \in SUBSET s |-> g[r]]
  <2>4. ASSUME NEW r \in SUBSET s
        PROVE  h[r] = IF r = {} THEN 0 ELSE f[One(r)] + h[r \ {One(r)}]
    <3>1. r \in SUBSET (T \ {x}) /\ r \ {One(r)} \in SUBSET s
      BY <1>2, <2>1
    <3>2. /\ r = {} => g[r] = 0
          /\ r # {} => One(r) \in r /\ g[r] = f[One(r)] + g[r \ {One(r)}]
      BY ONLY <2>3, <3>1, SumIterAt
    <3>3. h[r] = g[r] /\ h[r \ {One(r)}] = g[r \ {One(r)}]
      BY <3>1
    <3> HIDE DEF h
    <3>4. QED BY <3>2, <3>3
  <2>5. SumIter(f, s, h)
    <3>1. h = [r \in SUBSET s |-> h[r]]
      OBVIOUS
    <3> HIDE DEF h
    <3>2. [r \in SUBSET s |-> h[r]] = [r \in SUBSET s |-> IF r = {} THEN 0 ELSE f[One(r)] + h[r \ {One(r)}]]
      BY <2>4, Zenon
    <3>3. QED BY <3>1, <3>2, Zenon DEF SumIter
  <2>6. QED BY <2>5
<1>3. ASSUME NEW s \in SUBSET T, s # T
      PROVE  V(s) = IF s = {} THEN 0 ELSE f[One(s)] + V(s \ {One(s)})
  <2> DEFINE G == CHOOSE g : SumIter(f, s, g)
             s1 == s \ {One(s)}
             H == CHOOSE g : SumIter(f, s1, g)
  <2>1. SumIter(f, s, G)
    BY <1>2, <1>3
  <2>2. s1 \in SUBSET T /\ s1 # T /\ s1 \in SUBSET s /\ IsFiniteSet(s1)
    BY <1>1, <1>3, FS_Subset
  <2>3. SumIter(f, s1, H)
    BY <1>2, <2>2
  <2> HIDE DEF G, H
  <2>4. G[s1] = H[s1]
    <3> HIDE DEF s1
    <3>1. s1 \in SUBSET s1
      OBVIOUS
    <3>2. QED BY ONLY <2>1, <2>2, <2>3, <3>1, SumUnique
  <2>5. /\ s = {} => G[s] = 0
        /\ s # {} => G[s] = f[One(s)] + G[s1]
    <3>1. s \in SUBSET s
      OBVIOUS
    <3>2. QED BY ONLY <2>1, <3>1, SumIterAt DEF s1
  <2>6. QED BY <2>4, <2>5 DEF G, H
<1> DEFINE K == [s \in SUBSET T |-> IF s = {} THEN 0 ELSE f[One(s)] + V(s \ {One(s)})]
<1> HIDE DEF V
<1>4. ASSUME NEW s \in SUBSET T
      PROVE  K[s] = IF s = {} THEN 0 ELSE f[One(s)] + K[s \ {One(s)}]
  <2>1. K[s] = IF s = {} THEN 0 ELSE f[One(s)] + V(s \ {One(s)})
    BY Zenon
  <2>2. ASSUME s # {} PROVE K[s \ {One(s)}] = V(s \ {One(s)})
    <3> DEFINE s1 == s \ {One(s)}
    <3>1. One(s) \in s
      BY <2>2 DEF One
    <3>2. s1 \in SUBSET T /\ s1 # T
      BY <3>1
    <3>3. K[s1] = IF s1 = {} THEN 0 ELSE f[One(s1)] + V(s1 \ {One(s1)})
      BY <3>2, Zenon
    <3> HIDE DEF s1
    <3>4. K[s1] = V(s1)
      BY <1>3, <3>2, <3>3, Zenon
    <3>5. QED BY <3>4 DEF s1
  <2> HIDE DEF K
  <2>3. QED BY <2>1, <2>2
<1>5. SumIter(f, T, K)
  <2>1. K = [s \in SUBSET T |-> K[s]]
    OBVIOUS
  <2> HIDE DEF K
  <2>2. [s \in SUBSET T |-> K[s]] = [s \in SUBSET T |-> IF s = {} THEN 0 ELSE f[One(s)] + K[s \ {One(s)}]]
    BY <1>4, Zenon
  <2>3. QED BY <2>1, <2>2, Zenon DEF SumIter
<1>6. QED BY <1>1, <1>5

\* A sum is one member's share and the sum of the rest.
LEMMA SumRec ==
  ASSUME NEW f, NEW S, IsFiniteSet(S)
  PROVE  /\ S = {} => SumFunctionOnSet(f, S) = 0
         /\ S # {} => /\ One(S) \in S
                      /\ SumFunctionOnSet(f, S) = f[One(S)] + SumFunctionOnSet(f, S \ {One(S)})
<1> DEFINE T == S \ {One(S)}
           G == CHOOSE g : SumIter(f, S, g)
           H == CHOOSE g : SumIter(f, T, g)
<1>1. SumIter(f, S, G)
  BY SumExists
<1>2. IsFiniteSet(T) /\ T \in SUBSET S
  BY FS_Subset
<1>3. SumIter(f, T, H)
  <2> HIDE DEF T
  <2>1. QED BY <1>2, SumExists
<1>4. SumFunctionOnSet(f, S) = G[S] /\ SumFunctionOnSet(f, T) = H[T]
  BY SumIs
<1> HIDE DEF G, H
<1>5. G[T] = H[T]
  <2> HIDE DEF T
  <2>1. T \in SUBSET T
    OBVIOUS
  <2>2. QED BY ONLY <1>1, <1>2, <1>3, <2>1, SumUnique
<1>6. /\ S = {} => G[S] = 0
      /\ S # {} => One(S) \in S /\ G[S] = f[One(S)] + G[T]
  <2>1. S \in SUBSET S
    OBVIOUS
  <2>2. QED BY ONLY <1>1, <2>1, SumIterAt DEF T
<1>7. QED BY <1>4, <1>5, <1>6

\* A sum of numbers is a number.
LEMMA SumType ==
  ASSUME NEW f, NEW S, IsFiniteSet(S), \A x \in S : f[x] \in Int
  PROVE  SumFunctionOnSet(f, S) \in Int
<1> DEFINE B == {T \in SUBSET S : SumFunctionOnSet(f, T) \notin Int}
<1> SUFFICES ASSUME B # {} PROVE FALSE
  OBVIOUS
<1>1. PICK T \in B : IsFiniteSet(T) /\ \A x \in T : T \ {x} \notin B
  <2>1. B \in SUBSET (SUBSET S)
    OBVIOUS
  <2> HIDE DEF B
  <2>2. QED BY <2>1, SmallestSet
<1> DEFINE c == One(T)
<1>2. /\ T = {} => SumFunctionOnSet(f, T) = 0
      /\ T # {} => c \in T /\ SumFunctionOnSet(f, T) = f[c] + SumFunctionOnSet(f, T \ {c})
  BY <1>1, SumRec
<1> HIDE DEF c
<1>3. T # {} => f[c] \in Int /\ SumFunctionOnSet(f, T \ {c}) \in Int
  BY <1>1, <1>2
<1>4. QED BY <1>1, <1>2, <1>3

\* Whichever member is taken first.
LEMMA SumAny ==
  ASSUME NEW f, NEW S, IsFiniteSet(S), \A x \in S : f[x] \in Int, NEW y \in S
  PROVE  SumFunctionOnSet(f, S) = f[y] + SumFunctionOnSet(f, S \ {y})
<1> DEFINE Good(T) == \A x \in T : SumFunctionOnSet(f, T) = f[x] + SumFunctionOnSet(f, T \ {x})
           B == {T \in SUBSET S : ~Good(T)}
<1> SUFFICES ASSUME B # {} PROVE FALSE
  OBVIOUS
<1>1. PICK T \in B : IsFiniteSet(T) /\ \A x \in T : T \ {x} \notin B
  <2>1. B \in SUBSET (SUBSET S)
    OBVIOUS
  <2> HIDE DEF B
  <2>2. QED BY <2>1, SmallestSet
<1>2. \A x \in T : T \ {x} \in SUBSET S /\ x \in S
  BY <1>1
<1>3. ASSUME NEW x \in T PROVE Good(T \ {x})
  BY <1>1, <1>2
<1> DEFINE c == One(T)
<1>4. T # {} => c \in T /\ SumFunctionOnSet(f, T) = f[c] + SumFunctionOnSet(f, T \ {c})
  BY <1>1, SumRec
<1> HIDE DEF c
<1>5. ASSUME NEW x \in T PROVE SumFunctionOnSet(f, T) = f[x] + SumFunctionOnSet(f, T \ {x})
  <2>1. CASE x = c
    BY <1>4, <2>1
  <2>2. CASE x # c
    <3> DEFINE U == (T \ {c}) \ {x}
               rest == SumFunctionOnSet(f, U)
    <3>1. x \in T \ {c} /\ c \in T \ {x} /\ U = (T \ {x}) \ {c}
      BY <1>4, <2>2
    <3>2. SumFunctionOnSet(f, T \ {c}) = f[x] + rest
      BY <1>3, <1>4, <3>1
    <3>3. SumFunctionOnSet(f, T \ {x}) = f[c] + rest
      BY <1>3, <3>1
    <3>4. f[x] \in Int /\ f[c] \in Int
      BY <1>2, <1>4
    <3>5. rest \in Int
      <4>1. IsFiniteSet(U) /\ \A z \in U : f[z] \in Int
        BY <1>1, <1>2, FS_Subset
      <4> HIDE DEF U
      <4>2. QED BY <4>1, SumType
    <3> HIDE DEF rest, U
    <3>6. QED BY <1>4, <3>2, <3>3, <3>4, <3>5
  <2>3. QED BY <2>1, <2>2
<1>6. QED BY <1>1, <1>5

\* A new member adds its share.
LEMMA SumWith ==
  ASSUME NEW f, NEW S, IsFiniteSet(S), NEW y, y \notin S, f[y] \in Int, \A x \in S : f[x] \in Int
  PROVE  SumFunctionOnSet(f, S \union {y}) = SumFunctionOnSet(f, S) + f[y]
<1> DEFINE T == S \union {y}
<1>1. IsFiniteSet(T) /\ y \in T /\ \A x \in T : f[x] \in Int
  BY FS_AddElement
<1>2. SumFunctionOnSet(f, T) = f[y] + SumFunctionOnSet(f, T \ {y})
  <2> HIDE DEF T
  <2>1. QED BY <1>1, SumAny
<1>3. T \ {y} = S
  OBVIOUS
<1>4. SumFunctionOnSet(f, S) \in Int
  BY SumType
<1>5. SumFunctionOnSet(f, T) = f[y] + SumFunctionOnSet(f, S)
  BY <1>2, <1>3
<1> HIDE DEF T
<1>6. SumFunctionOnSet(f, T) = SumFunctionOnSet(f, S) + f[y]
  BY <1>4, <1>5
<1>7. QED BY <1>6 DEF T

\* Only what the members count for matters.
LEMMA SumSame ==
  ASSUME NEW f, NEW g, NEW S, IsFiniteSet(S), \A x \in S : f[x] = g[x]
  PROVE  SumFunctionOnSet(f, S) = SumFunctionOnSet(g, S)
<1> DEFINE B == {T \in SUBSET S : SumFunctionOnSet(f, T) # SumFunctionOnSet(g, T)}
<1> SUFFICES ASSUME B # {} PROVE FALSE
  OBVIOUS
<1>1. PICK T \in B : IsFiniteSet(T) /\ \A x \in T : T \ {x} \notin B
  <2>1. B \in SUBSET (SUBSET S)
    OBVIOUS
  <2> HIDE DEF B
  <2>2. QED BY <2>1, SmallestSet
<1> DEFINE c == One(T)
<1>2. /\ T = {} => SumFunctionOnSet(f, T) = 0
      /\ T # {} => c \in T /\ SumFunctionOnSet(f, T) = f[c] + SumFunctionOnSet(f, T \ {c})
  BY <1>1, SumRec
<1>3. /\ T = {} => SumFunctionOnSet(g, T) = 0
      /\ T # {} => c \in T /\ SumFunctionOnSet(g, T) = g[c] + SumFunctionOnSet(g, T \ {c})
  BY <1>1, SumRec
<1> HIDE DEF c
<1>4. T # {} => f[c] = g[c] /\ SumFunctionOnSet(f, T \ {c}) = SumFunctionOnSet(g, T \ {c})
  BY <1>1, <1>2
<1>5. QED BY <1>1, <1>2, <1>3, <1>4

\* Sums add up member by member.
LEMMA SumPlus ==
  ASSUME NEW f, NEW g, NEW h, NEW S, IsFiniteSet(S),
         \A x \in S : f[x] \in Int /\ g[x] \in Int /\ h[x] = f[x] + g[x]
  PROVE  SumFunctionOnSet(h, S) = SumFunctionOnSet(f, S) + SumFunctionOnSet(g, S)
<1> DEFINE B == {T \in SUBSET S : SumFunctionOnSet(h, T) # SumFunctionOnSet(f, T) + SumFunctionOnSet(g, T)}
<1> SUFFICES ASSUME B # {} PROVE FALSE
  OBVIOUS
<1>1. PICK T \in B : IsFiniteSet(T) /\ \A x \in T : T \ {x} \notin B
  <2>1. B \in SUBSET (SUBSET S)
    OBVIOUS
  <2> HIDE DEF B
  <2>2. QED BY <2>1, SmallestSet
<1> DEFINE c == One(T)
           R == T \ {c}
<1>2. /\ T = {} => SumFunctionOnSet(f, T) = 0
      /\ T # {} => c \in T /\ SumFunctionOnSet(f, T) = f[c] + SumFunctionOnSet(f, R)
  BY <1>1, SumRec
<1>3. /\ T = {} => SumFunctionOnSet(g, T) = 0
      /\ T # {} => c \in T /\ SumFunctionOnSet(g, T) = g[c] + SumFunctionOnSet(g, R)
  BY <1>1, SumRec
<1>4. /\ T = {} => SumFunctionOnSet(h, T) = 0
      /\ T # {} => c \in T /\ SumFunctionOnSet(h, T) = h[c] + SumFunctionOnSet(h, R)
  BY <1>1, SumRec
<1> HIDE DEF c
<1>5. T # {} => /\ h[c] = f[c] + g[c] /\ f[c] \in Int /\ g[c] \in Int
                /\ SumFunctionOnSet(h, R) = SumFunctionOnSet(f, R) + SumFunctionOnSet(g, R)
  BY <1>1, <1>2
<1>6. SumFunctionOnSet(f, R) \in Int /\ SumFunctionOnSet(g, R) \in Int
  <2>1. IsFiniteSet(R) /\ \A x \in R : f[x] \in Int /\ g[x] \in Int
    BY <1>1, FS_Subset
  <2> HIDE DEF R
  <2>2. QED BY <2>1, SumType
<1> HIDE DEF R
<1>7. QED BY <1>1, <1>2, <1>3, <1>4, <1>5, <1>6

\* Who counts for nothing may be left out.
LEMMA SumSub ==
  ASSUME NEW f, NEW S, IsFiniteSet(S), NEW R \in SUBSET S, \A x \in S : f[x] \in Int,
         \A x \in S \ R : f[x] = 0
  PROVE  SumFunctionOnSet(f, S) = SumFunctionOnSet(f, R)
<1> DEFINE B == {T \in SUBSET S : SumFunctionOnSet(f, T) # SumFunctionOnSet(f, T \cap R)}
<1> SUFFICES ASSUME B # {} PROVE FALSE
  <2>1. S \cap R = R
    OBVIOUS
  <2>2. QED BY <2>1
<1>1. PICK T \in B : IsFiniteSet(T) /\ \A x \in T : T \ {x} \notin B
  <2>1. B \in SUBSET (SUBSET S)
    OBVIOUS
  <2> HIDE DEF B
  <2>2. QED BY <2>1, SmallestSet
<1>2. T # {}
  <2>1. {} \cap R = {}
    OBVIOUS
  <2>2. QED BY <1>1, <2>1
<1>3. PICK c \in T : TRUE
  BY <1>2
<1> DEFINE U == T \ {c}
           V == T \cap R
<1>4. /\ c \in S /\ f[c] \in Int /\ \A x \in T : f[x] \in Int
      /\ SumFunctionOnSet(f, U) = SumFunctionOnSet(f, U \cap R)
  BY <1>1, <1>3
<1>5. SumFunctionOnSet(f, T) = f[c] + SumFunctionOnSet(f, U)
  BY <1>1, <1>3, <1>4, SumAny
<1>6. IsFiniteSet(U) /\ IsFiniteSet(V) /\ \A x \in U \union V : f[x] \in Int
  BY <1>1, <1>4, FS_Subset
<1>7. SumFunctionOnSet(f, U) \in Int
  <2> HIDE DEF U, V
  <2>1. QED BY <1>6, SumType
<1>8. CASE c \in R
  <2>1. c \in V /\ U \cap R = V \ {c}
    BY <1>8, <1>3
  <2>2. SumFunctionOnSet(f, V) = f[c] + SumFunctionOnSet(f, V \ {c})
    <3> HIDE DEF U, V
    <3>1. QED BY <1>6, <2>1, SumAny
  <2> HIDE DEF U
  <2>3. QED BY <1>1, <1>4, <1>5, <2>1, <2>2
<1>9. CASE c \notin R
  <2>1. V = U \cap R /\ f[c] = 0
    BY <1>4, <1>9
  <2>2. SumFunctionOnSet(f, T) = SumFunctionOnSet(f, U)
    <3> HIDE DEF U, B
    <3>1. QED BY <1>5, <1>7, <2>1
  <2>3. QED BY <1>1, <1>4, <2>1, <2>2
<1>10. QED BY <1>8, <1>9

\* Rows first or columns first.
LEMMA SumSwap ==
  ASSUME NEW P, NEW S, IsFiniteSet(P), IsFiniteSet(S), NEW F, \A b \in P, x \in S : F[b][x] \in Int
  PROVE  SumFunctionOnSet([b \in P |-> SumFunctionOnSet(F[b], S)], P)
           = SumFunctionOnSet([x \in S |-> SumFunctionOnSet([b \in P |-> F[b][x]], P)], S)
<1> DEFINE Row == [b \in P |-> SumFunctionOnSet(F[b], S)]
           Col(x) == [b \in P |-> F[b][x]]
           Cols(T) == [x \in S |-> SumFunctionOnSet(Col(x), T)]
           B == {T \in SUBSET P : SumFunctionOnSet(Row, T) # SumFunctionOnSet(Cols(T), S)}
<1> SUFFICES ASSUME B # {} PROVE FALSE
  OBVIOUS
<1>1. PICK T \in B : IsFiniteSet(T) /\ \A b \in T : T \ {b} \notin B
  <2>1. B \in SUBSET (SUBSET P)
    OBVIOUS
  <2> HIDE DEF B
  <2>2. QED BY <2>1, SmallestSet
<1>2. T \in SUBSET P /\ SumFunctionOnSet(Row, T) # SumFunctionOnSet(Cols(T), S)
  BY <1>1
<1>3. \A x \in S, b \in P : Col(x)[b] = F[b][x] /\ Col(x)[b] \in Int
  OBVIOUS
<1>4. \A b \in P : Row[b] = SumFunctionOnSet(F[b], S) /\ Row[b] \in Int
  <2>1. \A b \in P : SumFunctionOnSet(F[b], S) \in Int
    BY SumType
  <2>2. QED BY <2>1
<1>5. ASSUME NEW U \in SUBSET P, NEW x \in S
      PROVE  Cols(U)[x] = SumFunctionOnSet(Col(x), U) /\ Cols(U)[x] \in Int
  <2>1. IsFiniteSet(U)
    BY FS_Subset
  <2>2. \A b \in U : Col(x)[b] \in Int
    BY <1>3
  <2> HIDE DEF Col
  <2>3. SumFunctionOnSet(Col(x), U) \in Int
    BY <2>1, <2>2, SumType
  <2>4. QED BY <2>3
<1> HIDE DEF Row, Col, Cols
<1>6. CASE T = {}
  <2>1. SumFunctionOnSet(Row, T) = 0
    BY <1>1, <1>6, SumRec
  <2>2. \A x \in S : Cols(T)[x] = 0
    BY <1>1, <1>2, <1>5, <1>6, SumRec
  <2>3. SumFunctionOnSet(Cols(T), S) = SumFunctionOnSet(Cols(T), {})
    BY <2>2, SumSub
  <2>4. SumFunctionOnSet(Cols(T), {}) = 0
    BY FS_EmptySet, SumRec
  <2>5. QED BY <1>2, <2>1, <2>3, <2>4
<1>7. CASE T # {}
  <2>1. PICK c \in T : TRUE
    BY <1>7
  <2> DEFINE U == T \ {c}
  <2>2. U \in SUBSET P /\ c \in P /\ U \notin B
    BY <1>1, <1>2, <2>1
  <2>3. SumFunctionOnSet(Row, U) = SumFunctionOnSet(Cols(U), S)
    BY <2>2
  <2>4. SumFunctionOnSet(Row, T) = Row[c] + SumFunctionOnSet(Row, U)
    <3>1. \A b \in T : Row[b] \in Int
      BY <1>2, <1>4
    <3>2. QED BY <1>1, <2>1, <3>1, SumAny
  <2>5. ASSUME NEW x \in S PROVE Cols(T)[x] = F[c][x] + Cols(U)[x]
    <3>1. \A b \in T : Col(x)[b] \in Int
      BY <1>2, <1>3
    <3>2. SumFunctionOnSet(Col(x), T) = Col(x)[c] + SumFunctionOnSet(Col(x), U)
      BY <1>1, <2>1, <3>1, SumAny
    <3> HIDE DEF U
    <3>3. QED BY <1>2, <1>3, <1>5, <2>2, <3>2
  <2>6. SumFunctionOnSet(Cols(T), S) = SumFunctionOnSet(F[c], S) + SumFunctionOnSet(Cols(U), S)
    <3> DEFINE f == F[c]
               g == Cols(U)
               h == Cols(T)
    <3>1. \A x \in S : f[x] \in Int /\ g[x] \in Int /\ h[x] = f[x] + g[x]
      BY <1>5, <2>2, <2>5
    <3> HIDE DEF f, g, h
    <3>2. SumFunctionOnSet(h, S) = SumFunctionOnSet(f, S) + SumFunctionOnSet(g, S)
      BY ONLY IsFiniteSet(S), <3>1, SumPlus
    <3>3. QED BY <3>2 DEF f, g, h
  <2> HIDE DEF U
  <2>7. QED BY <1>2, <1>4, <2>2, <2>3, <2>4, <2>6
<1>8. QED BY <1>6, <1>7

\* The shares of the parts make up the whole.
LEMMA SumSplit ==
  ASSUME NEW f, NEW S, NEW P, NEW p, IsFiniteSet(S), IsFiniteSet(P),
         \A x \in S : f[x] \in Int /\ p[x] \in P
  PROVE  SumFunctionOnSet([b \in P |-> SumFunctionOnSet(f, {x \in S : p[x] = b})], P) = SumFunctionOnSet(f, S)
<1> DEFINE F == [b \in P |-> [x \in S |-> IF p[x] = b THEN f[x] ELSE 0]]
           Part(b) == {x \in S : p[x] = b}
           Row == [b \in P |-> SumFunctionOnSet(F[b], S)]
           Col == [x \in S |-> SumFunctionOnSet([b \in P |-> F[b][x]], P)]
           Parts == [b \in P |-> SumFunctionOnSet(f, Part(b))]
<1>1. \A b \in P, x \in S : F[b][x] = (IF p[x] = b THEN f[x] ELSE 0) /\ F[b][x] \in Int
  OBVIOUS
<1> HIDE DEF F
<1>2. SumFunctionOnSet(Row, P) = SumFunctionOnSet(Col, S)
  BY <1>1, SumSwap
<1>3. ASSUME NEW b \in P PROVE Row[b] = Parts[b]
  <2>1. Part(b) \in SUBSET S /\ \A x \in S : F[b][x] \in Int /\ (x \in Part(b) => F[b][x] = f[x])
    BY <1>1
  <2>2. \A x \in S \ Part(b) : F[b][x] = 0
    BY <1>1
  <2>3. IsFiniteSet(Part(b))
    BY <2>1, FS_Subset
  <2> HIDE DEF Part
  <2>4. SumFunctionOnSet(F[b], S) = SumFunctionOnSet(F[b], Part(b))
    BY <2>1, <2>2, SumSub
  <2>5. SumFunctionOnSet(F[b], Part(b)) = SumFunctionOnSet(f, Part(b))
    BY <2>1, <2>3, SumSame
  <2>6. QED BY <2>4, <2>5
<1>4. SumFunctionOnSet(Row, P) = SumFunctionOnSet(Parts, P)
  <2> HIDE DEF Row, Parts
  <2>1. QED BY <1>3, SumSame
<1>5. ASSUME NEW x \in S PROVE Col[x] = f[x]
  <2> DEFINE g == [b \in P |-> F[b][x]]
             c == p[x]
  <2>1. c \in P /\ g[c] = f[x] /\ (\A b \in P : g[b] \in Int) /\ \A b \in P \ {c} : g[b] = 0
    BY <1>1
  <2>2. Col[x] = SumFunctionOnSet(g, P)
    OBVIOUS
  <2> HIDE DEF g, c, Col
  <2>3. SumFunctionOnSet(g, P) = SumFunctionOnSet(g, {c})
    BY <2>1, SumSub
  <2>4. SumFunctionOnSet(g, {c}) = g[c] + SumFunctionOnSet(g, {c} \ {c})
    BY <2>1, FS_Singleton, SumAny
  <2>5. SumFunctionOnSet(g, {c} \ {c}) = 0
    BY FS_EmptySet, SumRec
  <2>6. QED BY <2>1, <2>2, <2>3, <2>4, <2>5
<1>6. SumFunctionOnSet(Col, S) = SumFunctionOnSet(f, S)
  <2> HIDE DEF Col
  <2>1. QED BY <1>5, SumSame
<1>7. QED BY <1>2, <1>4, <1>6

-----------------------------------------------------------------------------
(* The aggregator *)

\* ingest goes from line to line.
LEMMA TallySolved ==
  ASSUME NEW ls, Len(ls) \in Nat
  PROVE  /\ Tally(ls)[0] = Fresh
         /\ \A k \in 1..Len(ls) : Tally(ls)[k] = Ingest(Tally(ls)[k-1], ls[k])
<1> DEFINE n == Len(ls)
           Solves(F, m) == F = [i \in 0..m |-> IF i = 0 THEN Fresh ELSE Ingest(F[i-1], ls[i])]
           S == {m \in 0..n : \E F : Solves(F, m)}
<1>1. n \in Nat
  OBVIOUS
<1>2. 0 \in S
  <2>1. Solves([i \in 0..0 |-> Fresh], 0)
    OBVIOUS
  <2> HIDE DEF Solves
  <2>2. QED BY <1>1, <2>1
<1>3. ASSUME NEW m \in 0..n, m < n, m \in S PROVE m + 1 \in S
  <2>1. PICK F : Solves(F, m)
    BY <1>3
  <2> DEFINE last == Ingest(F[m], ls[m+1])
             G == [i \in 0..(m+1) |-> IF i = m + 1 THEN last ELSE F[i]]
             H == [i \in 0..(m+1) |-> IF i = 0 THEN Fresh ELSE Ingest(G[i-1], ls[i])]
  <2>2. ASSUME NEW i \in 0..(m+1) PROVE G[i] = H[i]
    <3>1. CASE i = m + 1
      <4>1. m \in 0..(m+1) /\ m # m + 1 /\ (m + 1) - 1 = m /\ m + 1 # 0
        OBVIOUS
      <4>2. G[m] = F[m] /\ G[m+1] = last
        BY <4>1
      <4>3. H[m+1] = Ingest(G[m], ls[m+1])
        BY <4>1
      <4>4. QED BY <3>1, <4>2, <4>3
    <3>2. CASE i # m + 1 /\ i # 0
      <4>1. i \in 0..m /\ i - 1 \in 0..m /\ i - 1 # m + 1 /\ i - 1 \in 0..(m+1)
        BY <3>2
      <4>2. G[i] = F[i] /\ G[i-1] = F[i-1]
        BY <3>2, <4>1
      <4>3. F[i] = Ingest(F[i-1], ls[i])
        <5> HIDE DEF G, H, last
        <5>1. QED BY <2>1, <3>2, <4>1
      <4>4. H[i] = Ingest(G[i-1], ls[i])
        BY <3>2
      <4>5. QED BY <4>2, <4>3, <4>4
    <3>3. CASE i = 0
      <4>1. F[0] = Fresh
        BY <2>1
      <4>2. QED BY <3>3, <4>1
    <3>4. QED BY <3>1, <3>2, <3>3
  <2>3. G = H
    BY <2>2
  <2>4. Solves(G, m + 1)
    BY <2>3
  <2>5. m + 1 \in 0..n
    BY <1>1, <1>3
  <2> HIDE DEF Solves, G, n
  <2>6. QED BY <2>4, <2>5
<1>4. n \in S
  <2> HIDE DEF S, n
  <2>1. \A k \in 0..n : k \in S
    BY <1>1, <1>2, <1>3, Upwards
  <2>2. QED BY <1>1, <2>1
<1>5. \E F : Solves(F, n)
  BY <1>4
<1> DEFINE A == CHOOSE F : Solves(F, n)
<1>6. Solves(A, n)
  BY <1>5
<1>7. Tally(ls) = A
  BY DEF Tally
<1> HIDE DEF A
<1>8. \A i \in 0..n : A[i] = IF i = 0 THEN Fresh ELSE Ingest(A[i-1], ls[i])
  BY <1>6
<1> HIDE DEF n
<1>9. A[0] = Fresh
  BY <1>1, <1>8
<1>10. ASSUME NEW k \in 1..n PROVE A[k] = Ingest(A[k-1], ls[k])
  <2>1. k \in 0..n /\ k # 0
    BY <1>1
  <2>2. QED BY <1>8, <2>1, Zenon
<1>11. QED BY <1>7, <1>9, <1>10 DEF n

\* What transcripts are made of, and what is made of them.
Hints == {NoHint} \union UNION {s.notes : s \in Scenes}
Lines == [kind : {"turn", "note", "torn"}, ts : 0..MaxClock, key : Keys \union {NoKey}, model : Models \union {NoKey},
          tokens : Nat, tool : BOOLEAN, hint : Hints]
AllModels == Models \union {NoKey}
Proxies == [total : Int, turns : Int]
Requests == [seen : BOOLEAN, model : Models \union {NoKey}, tokens : Nat, tool : BOOLEAN, proxy : Proxies]
Shares == [tokens : Int, turns : Int]
Effects == [tokens : Int, turns : Int, proxy : Proxies]
Aggs == [cumulative : Int, proxy : Proxies, turns : Int, models : [AllModels -> Shares], requests : [Keys -> Requests]]

\* A transcript: its times do not go back.
Log(ls) ==
  /\ ls \in Seq(Lines)
  /\ \A i, j \in 1..Len(ls) : i < j => ls[i].ts <= ls[j].ts

\* A transcript is a finite sequence of lines.
LEMMA LogFacts ==
  ASSUME NEW ls, Log(ls)
  PROVE  /\ Len(ls) \in Nat /\ DOMAIN ls = 1..Len(ls) /\ IsFiniteSet(DOMAIN ls)
         /\ \A i \in 1..Len(ls) : ls[i] \in Lines
<1>1. Len(ls) \in Nat /\ DOMAIN ls = 1..Len(ls) /\ \A i \in 1..Len(ls) : ls[i] \in Lines
  BY DEF Log
<1>2. QED BY <1>1, FS_Interval

\* What a request counted for: nothing yet for a line without a key.
LEMMA WasType ==
  ASSUME NEW agg \in Aggs, NEW line \in Lines
  PROVE  /\ Was(agg, line.key) \in Requests
         /\ line.key # NoKey => line.key \in Keys /\ Was(agg, line.key) = agg.requests[line.key]
         /\ line.key = NoKey => Was(agg, line.key) = Unseen
<1>1. Unseen \in Requests
  BY DEF Unseen, Requests, Proxies, NoProxy, Proxy
<1>2. line.key \in Keys \union {NoKey}
  BY DEF Lines
<1>3. agg.requests \in [Keys -> Requests]
  BY DEF Aggs
<1>4. QED BY <1>1, <1>2, <1>3 DEF Was

\* What a request counts for after a line, as the line has it.
LEMMA RequestType ==
  ASSUME NEW was \in Requests, NEW line \in Lines
  PROVE  /\ Request(was, line) \in Requests
         /\ Request(was, line).seen /\ Request(was, line).model = line.model /\ Request(was, line).tokens = line.tokens
<1>1. line.model \in Models \union {NoKey} /\ line.tokens \in Nat /\ line.tool \in BOOLEAN /\ was.tool \in BOOLEAN
  BY DEF Lines, Requests
<1>2. PICK t \in BOOLEAN : t = (was.tool \/ line.tool)
  BY <1>1
<1> DEFINE x == IF t THEN Proxy(line.tokens, 1) ELSE NoProxy
<1>3. x \in Proxies
  BY <1>1 DEF Proxies, NoProxy, Proxy
<1> HIDE DEF x
<1>4. Request(was, line) = [seen |-> TRUE, model |-> line.model, tokens |-> line.tokens, tool |-> t, proxy |-> x]
  BY <1>2 DEF Request, x
<1>5. QED BY <1>1, <1>3, <1>4 DEF Requests

\* What a line adds are numbers.
LEMMA EffectType ==
  ASSUME NEW agg \in Aggs, NEW line \in Lines
  PROVE  Effect(agg, line) \in Effects
<1> DEFINE was == Was(agg, line.key)
<1>1. was \in Requests
  BY WasType
<1> HIDE DEF was
<1>2. line.tokens \in Nat /\ was.tokens \in Nat /\ was.seen \in BOOLEAN /\ was.proxy \in Proxies
  BY <1>1 DEF Lines, Requests
<1>3. Request(was, line).proxy \in Proxies
  BY <1>1, RequestType DEF Requests
<1>4. SubProxy(Request(was, line).proxy, was.proxy) \in Proxies
  BY <1>2, <1>3 DEF SubProxy, Proxies, Proxy
<1>5. ProxyOf(line) \in Proxies
  BY <1>2 DEF ProxyOf, Proxies, Proxy, NoProxy
<1>6. QED BY <1>2, <1>4, <1>5 DEF Effect, was, Effects

\* apply_usage_delta, model by model.
LEMMA MovedType ==
  ASSUME NEW models \in [AllModels -> Shares], NEW was \in Requests, NEW line \in Lines
  PROVE  /\ Moved(models, was, line) \in [AllModels -> Shares]
         /\ was.model \in {NoKey, line.model} =>
              \A m \in AllModels : Moved(models, was, line)[m] =
                IF m = line.model
                THEN [tokens |-> models[m].tokens + (line.tokens - was.tokens), turns |-> models[m].turns + (IF was.seen THEN 0 ELSE 1)]
                ELSE models[m]
         /\ was.model \notin {NoKey, line.model} =>
              \A m \in AllModels : Moved(models, was, line)[m] =
                IF m = line.model THEN [tokens |-> models[m].tokens + line.tokens, turns |-> models[m].turns + 1]
                ELSE IF m = was.model THEN [tokens |-> models[m].tokens - was.tokens, turns |-> models[m].turns - 1]
                ELSE models[m]
<1>1. was.model \in AllModels /\ line.model \in AllModels /\ was.tokens \in Nat /\ line.tokens \in Nat /\ was.seen \in BOOLEAN
  BY DEF Requests, Lines, AllModels
<1>2. \A m \in AllModels : models[m].tokens \in Int /\ models[m].turns \in Int
  BY DEF Shares
<1> DEFINE one == IF was.seen THEN 0 ELSE 1
<1>3. one \in Int
  BY <1>1
<1>4. CASE was.model \in {NoKey, line.model}
  <2> DEFINE x == [tokens |-> models[line.model].tokens + (line.tokens - was.tokens), turns |-> models[line.model].turns + one]
  <2>1. Moved(models, was, line) = [models EXCEPT ![line.model] = x]
    BY <1>4 DEF Moved
  <2>2. x \in Shares
    <3> HIDE DEF one
    <3>1. QED BY <1>1, <1>2, <1>3 DEF Shares
  <2>3. \A m \in AllModels : Moved(models, was, line)[m] = IF m = line.model THEN x ELSE models[m]
    <3> HIDE DEF x
    <3>1. QED BY <2>1
  <2>4. Moved(models, was, line) \in [AllModels -> Shares]
    <3> HIDE DEF x
    <3>1. QED BY <2>1, <2>2
  <2>5. QED BY <1>4, <2>3, <2>4
<1>5. CASE was.model \notin {NoKey, line.model}
  <2> DEFINE x == [tokens |-> models[was.model].tokens - was.tokens, turns |-> models[was.model].turns - 1]
             y == [tokens |-> models[line.model].tokens + line.tokens, turns |-> models[line.model].turns + 1]
  <2>0. was.model \in AllModels /\ was.model # line.model
    BY <1>1, <1>5
  <2>1. Moved(models, was, line) = [models EXCEPT ![was.model] = x, ![line.model] = y]
    BY <1>5, <2>0 DEF Moved
  <2>2. x \in Shares /\ y \in Shares
    BY <1>1, <1>2, <2>0 DEF Shares
  <2>3. \A m \in AllModels : Moved(models, was, line)[m] = IF m = line.model THEN y ELSE IF m = was.model THEN x ELSE models[m]
    <3> HIDE DEF x, y
    <3>1. QED BY <2>0, <2>1
  <2>4. Moved(models, was, line) \in [AllModels -> Shares]
    <3> HIDE DEF x, y
    <3>1. QED BY <2>0, <2>1, <2>2
  <2>5. QED BY <1>5, <2>3, <2>4
<1>6. QED BY <1>4, <1>5

\* ingest leaves an aggregator.
LEMMA IngestType ==
  ASSUME NEW agg \in Aggs, NEW line \in Lines
  PROVE  Ingest(agg, line) \in Aggs
<1> DEFINE was == Was(agg, line.key)
           e == Effect(agg, line)
           ms == IF line.kind = "turn" THEN Moved(agg.models, was, line) ELSE agg.models
           rs == IF line.kind = "turn" /\ line.key # NoKey
                 THEN [agg.requests EXCEPT ![line.key] = Request(was, line)] ELSE agg.requests
<1>1. was \in Requests /\ (line.key # NoKey => line.key \in Keys) /\ e \in Effects
  BY WasType, EffectType
<1>2. /\ agg.cumulative \in Int /\ agg.proxy \in Proxies /\ agg.turns \in Int
      /\ agg.models \in [AllModels -> Shares] /\ agg.requests \in [Keys -> Requests]
  BY DEF Aggs
<1>3. e.tokens \in Int /\ e.turns \in Int /\ e.proxy \in Proxies
  BY <1>1 DEF Effects
<1>4. ms \in [AllModels -> Shares]
  <2> HIDE DEF was
  <2>1. QED BY <1>1, <1>2, MovedType
<1>5. rs \in [Keys -> Requests]
  <2> HIDE DEF was
  <2>1. Request(was, line) \in Requests
    BY <1>1, RequestType
  <2>2. QED BY <1>1, <1>2, <2>1
<1>6. AddProxy(agg.proxy, e.proxy) \in Proxies
  <2> HIDE DEF e
  <2>1. QED BY <1>2, <1>3 DEF AddProxy, Proxies, Proxy
<1>7. Ingest(agg, line) = [cumulative |-> agg.cumulative + e.tokens, proxy |-> AddProxy(agg.proxy, e.proxy),
                           turns |-> agg.turns + e.turns, models |-> ms, requests |-> rs]
  BY DEF Ingest
<1> HIDE DEF e, ms, rs
<1>8. QED BY <1>2, <1>3, <1>4, <1>5, <1>6, <1>7 DEF Aggs

\* There is an aggregator after every line.
LEMMA TallyType ==
  ASSUME NEW ls, Log(ls)
  PROVE  \A n \in 0..Len(ls) : Tally(ls)[n] \in Aggs
<1> DEFINE S == {n \in 0..Len(ls) : Tally(ls)[n] \in Aggs}
<1>1. Len(ls) \in Nat /\ \A i \in 1..Len(ls) : ls[i] \in Lines
  BY LogFacts
<1>2. Tally(ls)[0] = Fresh /\ \A k \in 1..Len(ls) : Tally(ls)[k] = Ingest(Tally(ls)[k-1], ls[k])
  BY <1>1, TallySolved
<1>3. Fresh \in Aggs
  <2>1. Unseen \in Requests /\ NoProxy \in Proxies /\ [tokens |-> 0, turns |-> 0] \in Shares
    BY DEF Unseen, Requests, Proxies, NoProxy, Proxy, Shares
  <2>2. QED BY <2>1 DEF Fresh, Aggs, AllModels
<1>4. 0 \in S
  BY <1>1, <1>2, <1>3
<1>5. ASSUME NEW k \in 0..Len(ls), k < Len(ls), k \in S PROVE k + 1 \in S
  <2>1. k + 1 \in 1..Len(ls) /\ (k + 1) - 1 = k
    BY <1>1, <1>5
  <2>2. Tally(ls)[k+1] = Ingest(Tally(ls)[k], ls[k+1])
    BY <1>2, <2>1
  <2>3. Ingest(Tally(ls)[k], ls[k+1]) \in Aggs
    BY <1>1, <1>5, <2>1, IngestType
  <2>4. QED BY <1>1, <2>1, <2>2, <2>3
<1>6. \A k \in 0..Len(ls) : k \in S
  <2> HIDE DEF S
  <2>1. QED BY <1>1, <1>4, <1>5, Upwards
<1>7. QED BY <1>6

-----------------------------------------------------------------------------
(* Windows *)

\* Max of a bounded set is its greatest member.
LEMMA MaxIsGreatest ==
  ASSUME NEW n \in Nat, NEW S \in SUBSET (0..n), S # {}
  PROVE  Max(S) \in S /\ \A y \in S : y <= Max(S)
<1> DEFINE D == {n - x : x \in S}
<1>1. D \in SUBSET Nat /\ D # {}
  <2>1. \A x \in S : n - x \in Nat
    OBVIOUS
  <2>2. PICK x \in S : TRUE
    OBVIOUS
  <2>3. n - x \in D
    OBVIOUS
  <2>4. QED BY <2>1, <2>3
<1>2. PICK d \in D : \A e \in D : d <= e
  <2> HIDE DEF D
  <2>1. QED BY <1>1, SmallestNumber
<1>3. PICK x \in S : d = n - x
  BY <1>2
<1>4. \A y \in S : n - x <= n - y
  BY <1>2, <1>3
<1>5. \A y \in S : x >= y
  BY <1>4
<1>6. QED BY <1>5 DEF Max

\* What is added line by line is the difference of the totals.
LEMMA Telescope ==
  ASSUME NEW n \in Nat, NEW c, NEW d, \A i \in 0..n : c[i] \in Int,
         \A i \in 1..n : d[i] = c[i] - c[i-1], NEW lo \in 0..n, NEW hi \in 0..n, lo <= hi
  PROVE  SumFunctionOnSet(d, (lo + 1)..hi) = c[hi] - c[lo]
<1> DEFINE S == {k \in 0..(hi - lo) : SumFunctionOnSet(d, (lo + 1)..(lo + k)) = c[lo + k] - c[lo]}
<1>0. hi - lo \in Nat
  OBVIOUS
<1>1. 0 \in S
  <2>1. (lo + 1)..(lo + 0) = {} /\ lo + 0 = lo
    OBVIOUS
  <2>2. SumFunctionOnSet(d, {}) = 0
    BY FS_EmptySet, SumRec
  <2>3. QED BY <1>0, <2>1, <2>2
<1>2. ASSUME NEW k \in 0..(hi - lo), k < hi - lo, k \in S PROVE k + 1 \in S
  <2> DEFINE m == lo + k
             T == (lo + 1)..m
  <2>1. m \in 0..n /\ m + 1 \in 1..n /\ (m + 1) - 1 = m /\ lo + (k + 1) = m + 1 /\ k + 1 \in 0..(hi - lo)
    BY <1>2
  <2>2. (lo + 1)..(m + 1) = T \union {m + 1} /\ m + 1 \notin T
    BY <2>1
  <2>3. T \subseteq 1..n
    BY <2>1
  <2>4. \A i \in 1..n : d[i] \in Int
    <3>1. \A i \in 1..n : i \in 0..n /\ i - 1 \in 0..n
      OBVIOUS
    <3>2. QED BY <3>1
  <2>5. IsFiniteSet(T)
    BY <2>1, FS_Interval
  <2>6. SumFunctionOnSet(d, T) = c[m] - c[lo]
    BY <1>2
  <2>7. d[m+1] = c[m+1] - c[m]
    BY <2>1
  <2>8. SumFunctionOnSet(d, T \union {m + 1}) = SumFunctionOnSet(d, T) + d[m+1]
    <3> HIDE DEF T, m
    <3>1. QED BY <2>1, <2>2, <2>3, <2>4, <2>5, SumWith
  <2>9. c[m] \in Int /\ c[m+1] \in Int /\ c[lo] \in Int
    BY <2>1
  <2>10. SumFunctionOnSet(d, (lo + 1)..(m + 1)) = c[m+1] - c[lo]
    <3>1. SumFunctionOnSet(d, (lo + 1)..(m + 1)) = SumFunctionOnSet(d, T) + d[m+1]
      <4> HIDE DEF T, m
      <4>1. QED BY <2>2, <2>8
    <3> HIDE DEF T, m, S
    <3>2. QED BY <2>6, <2>7, <2>9, <3>1
  <2>11. QED BY <2>1, <2>10
<1>3. \A k \in 0..(hi - lo) : k \in S
  <2> HIDE DEF S
  <2>1. QED BY <1>0, <1>1, <1>2, Upwards
<1>4. hi - lo \in S /\ lo + (hi - lo) = hi
  <2> HIDE DEF S
  <2>1. hi - lo \in 0..(hi - lo) /\ lo + (hi - lo) = hi
    BY <1>0
  <2>2. QED BY <1>3, <2>1
<1>5. QED BY <1>4

\* What a finite set is turned into is finite.
LEMMA ImageIsFinite ==
  ASSUME NEW S, IsFiniteSet(S), NEW f
  PROVE  IsFiniteSet({f[x] : x \in S})
<1> DEFINE T == {f[x] : x \in S}
           g == [x \in S |-> f[x]]
<1>1. g \in [S -> T] /\ \A t \in T : \E x \in S : g[x] = t
  OBVIOUS
<1> HIDE DEF g, T
<1>2. g \in Surjection(S, T)
  BY <1>1 DEF Surjection
<1>3. IsFiniteSet(T)
  BY <1>2, FS_Surjection
<1>4. QED BY <1>3 DEF T

\* Finitely many buckets cover the time.
LEMMA BucketFacts ==
  /\ IsFiniteSet(Buckets) /\ \A t \in 0..MaxClock : BucketOf(t) \in Buckets
<1>1. IsFiniteSet(0..MaxClock)
  BY FS_Interval, UsageHistoryAssumption
<1> DEFINE f == [t \in 0..MaxClock |-> BucketOf(t)]
<1>2. Buckets = {f[t] : t \in 0..MaxClock}
  BY DEF Buckets
<1>3. IsFiniteSet({f[t] : t \in 0..MaxClock})
  <2> HIDE DEF f
  <2>1. QED BY <1>1, ImageIsFinite
<1>4. \A t \in 0..MaxClock : BucketOf(t) \in Buckets
  BY DEF Buckets
<1>5. QED BY <1>2, <1>3, <1>4

\* The lines of a transcript that fall in a window.
InWindowLines(ls, q) == {n \in DOMAIN ls : InWindow(ls[n].ts, q)}

\* The lines of a window are those between two of its totals.
LEMMA WindowIsARange ==
  ASSUME NEW ls, Log(ls), NEW q \in Queries
  PROVE  /\ LinesBefore(ls, q.since) \in 0..Len(ls) /\ LinesBefore(ls, q.until) \in 0..Len(ls)
         /\ LinesBefore(ls, q.since) <= LinesBefore(ls, q.until)
         /\ InWindowLines(ls, q) = (LinesBefore(ls, q.since) + 1)..LinesBefore(ls, q.until)
<1> DEFINE n == Len(ls)
           A(t) == {0} \union {i \in DOMAIN ls : ls[i].ts < t}
           lo == LinesBefore(ls, q.since)
           hi == LinesBefore(ls, q.until)
<1>1. n \in Nat /\ DOMAIN ls = 1..n /\ \A i \in 1..n : ls[i].ts \in Nat
  <2>1. n \in Nat /\ DOMAIN ls = 1..n /\ \A i \in 1..n : ls[i] \in Lines
    BY LogFacts
  <2>2. QED BY <2>1 DEF Lines
<1>2. q.since \in Nat /\ q.until \in Nat /\ q.since < q.until
  BY UsageHistoryAssumption DEF Queries
<1>3. \A i, j \in 1..n : i < j => ls[i].ts <= ls[j].ts
  BY DEF Log
<1> HIDE DEF n
<1>4. ASSUME NEW t \in Nat
      PROVE  /\ LinesBefore(ls, t) \in 0..n
             /\ \A i \in 1..n : ls[i].ts < t <=> i <= LinesBefore(ls, t)
  <2> DEFINE m == LinesBefore(ls, t)
  <2>1. A(t) \in SUBSET (0..n) /\ A(t) # {}
    BY <1>1
  <2>2. m = Max(A(t))
    BY DEF LinesBefore
  <2> HIDE DEF m
  <2>3. m \in A(t) /\ \A y \in A(t) : y <= m
    <3> HIDE DEF A
    <3>1. QED BY <1>1, <2>1, <2>2, MaxIsGreatest
  <2>4. m \in 0..n
    BY <2>1, <2>3
  <2>5. ASSUME NEW i \in 1..n PROVE ls[i].ts < t <=> i <= m
    <3>1. ls[i].ts < t => i <= m
      BY <1>1, <2>3
    <3>2. ASSUME i <= m PROVE ls[i].ts < t
      <4>1. m \in 1..n /\ ls[m].ts < t
        BY <1>1, <2>3, <2>4, <3>2
      <4>2. i = m \/ ls[i].ts <= ls[m].ts
        BY <1>1, <1>3, <3>2, <4>1
      <4>3. QED BY <1>1, <4>1, <4>2
    <3>3. QED BY <3>1, <3>2
  <2>6. QED BY <2>4, <2>5 DEF m
<1>5. /\ lo \in 0..n /\ \A i \in 1..n : ls[i].ts < q.since <=> i <= lo
      /\ hi \in 0..n /\ \A i \in 1..n : ls[i].ts < q.until <=> i <= hi
  BY <1>2, <1>4
<1> HIDE DEF lo, hi
<1>6. lo <= hi
  <2>1. CASE lo = 0
    BY <1>1, <1>5, <2>1
  <2>2. CASE lo # 0
    <3>1. lo \in 1..n
      BY <1>1, <1>5, <2>2
    <3>2. ls[lo].ts < q.until
      BY <1>1, <1>2, <1>5, <3>1
    <3>3. QED BY <1>5, <3>1, <3>2
  <2>3. QED BY <2>1, <2>2
<1>7. ASSUME NEW i \in 1..n PROVE InWindow(ls[i].ts, q) <=> i \in (lo + 1)..hi
  <2>1. ls[i].ts \in Nat
    BY <1>1
  <2>2. InWindow(ls[i].ts, q) <=> ~(i <= lo) /\ i <= hi
    BY <1>2, <1>5, <2>1 DEF InWindow
  <2>3. QED BY <1>1, <1>5, <2>2
<1>8. InWindowLines(ls, q) = (lo + 1)..hi
  BY <1>1, <1>5, <1>7 DEF InWindowLines
<1>9. QED BY <1>5, <1>6, <1>8 DEF lo, hi, n

\* What a line adds to the sums.
LEMMA AddedIs ==
  ASSUME NEW ls, Log(ls), NEW n \in 1..Len(ls)
  PROVE  /\ Added(ls)[n].tokens = Tally(ls)[n].cumulative - Tally(ls)[n-1].cumulative
         /\ Added(ls)[n].turns = Tally(ls)[n].turns - Tally(ls)[n-1].turns
         /\ Added(ls)[n].proxy = Tally(ls)[n].proxy.total - Tally(ls)[n-1].proxy.total
         /\ Added(ls)[n].tokens \in Int /\ Added(ls)[n].turns \in Int /\ Added(ls)[n].proxy \in Int
<1> DEFINE agg == Tally(ls)[n-1]
           new == Tally(ls)[n]
           e == Effect(agg, ls[n])
<1>1. Len(ls) \in Nat /\ DOMAIN ls = 1..Len(ls) /\ ls[n] \in Lines
  BY LogFacts
<1>2. n - 1 \in 0..Len(ls)
  BY <1>1
<1>3. agg \in Aggs
  BY <1>2, TallyType
<1>4. e \in Effects
  <2> HIDE DEF agg
  <2>1. QED BY <1>1, <1>3, EffectType
<1>5. new = Ingest(agg, ls[n])
  BY <1>1, TallySolved
<1>6. Added(ls)[n] = [tokens |-> e.tokens, turns |-> e.turns, proxy |-> e.proxy.total]
  BY <1>1 DEF Added
<1>7. /\ new.cumulative = agg.cumulative + e.tokens
      /\ new.turns = agg.turns + e.turns
      /\ new.proxy = AddProxy(agg.proxy, e.proxy)
  <2> HIDE DEF agg, new
  <2>1. QED BY <1>5 DEF Ingest
<1> HIDE DEF agg, new, e
<1>8. /\ e.tokens \in Int /\ e.turns \in Int /\ e.proxy.total \in Int
      /\ agg.cumulative \in Int /\ agg.turns \in Int /\ agg.proxy.total \in Int
  BY <1>3, <1>4 DEF Effects, Aggs, Proxies
<1>9. new.proxy.total = agg.proxy.total + e.proxy.total
  BY <1>7 DEF AddProxy, Proxy
<1>10. QED BY <1>6, <1>7, <1>8, <1>9 DEF agg, new

\* The buckets of a window share out what its lines add.
LEMMA ScanSums ==
  ASSUME NEW ls, Log(ls), NEW q
  PROVE  /\ Sum("tokens", Scan(ls, q)) = SumFunctionOnSet([n \in DOMAIN ls |-> Added(ls)[n].tokens], InWindowLines(ls, q))
         /\ Sum("turns", Scan(ls, q)) = SumFunctionOnSet([n \in DOMAIN ls |-> Added(ls)[n].turns], InWindowLines(ls, q))
         /\ Sum("proxy", Scan(ls, q)) = SumFunctionOnSet([n \in DOMAIN ls |-> Added(ls)[n].proxy], InWindowLines(ls, q))
         /\ \A b \in Buckets : Scan(ls, q)[b].tokens \in Int
<1> DEFINE W == InWindowLines(ls, q)
           p == [n \in DOMAIN ls |-> BucketOf(ls[n].ts)]
           Part(b) == {n \in W : p[n] = b}
           scan == Scan(ls, q)
           T == [n \in DOMAIN ls |-> Added(ls)[n].tokens]
           U == [n \in DOMAIN ls |-> Added(ls)[n].turns]
           V == [n \in DOMAIN ls |-> Added(ls)[n].proxy]
<1>1. /\ DOMAIN ls = 1..Len(ls) /\ IsFiniteSet(DOMAIN ls) /\ IsFiniteSet(Buckets)
      /\ \A n \in DOMAIN ls : ls[n].ts \in 0..MaxClock
  BY LogFacts, BucketFacts DEF Lines
<1>2. W \in SUBSET DOMAIN ls /\ IsFiniteSet(W)
  BY <1>1, FS_Subset DEF InWindowLines
<1>3. \A n \in W : p[n] \in Buckets
  BY <1>1, <1>2, BucketFacts
<1>4. \A n \in DOMAIN ls : /\ T[n] = Added(ls)[n].tokens /\ U[n] = Added(ls)[n].turns /\ V[n] = Added(ls)[n].proxy
                           /\ T[n] \in Int /\ U[n] \in Int /\ V[n] \in Int
  BY <1>1, AddedIs
<1>5. ASSUME NEW b \in Buckets
      PROVE  /\ scan[b].tokens = SumFunctionOnSet(T, Part(b))
             /\ scan[b].turns = SumFunctionOnSet(U, Part(b))
             /\ scan[b].proxy = SumFunctionOnSet(V, Part(b))
             /\ scan[b].tokens \in Int
  <2> DEFINE P == Part(b)
             t == [x \in P |-> Added(ls)[x].tokens]
             u == [x \in P |-> Added(ls)[x].turns]
             v == [x \in P |-> Added(ls)[x].proxy]
  <2>1. P = {n \in DOMAIN ls : InWindow(ls[n].ts, q) /\ BucketOf(ls[n].ts) = b}
    BY DEF InWindowLines
  <2>2. P \in SUBSET DOMAIN ls /\ IsFiniteSet(P)
    BY <1>2, FS_Subset
  <2> HIDE DEF P
  <2>3. scan[b] = Bucket(Added(ls), P)
    BY <2>1 DEF Scan
  <2>4. /\ scan[b].tokens = SumFunctionOnSet(t, P)
        /\ scan[b].turns = SumFunctionOnSet(u, P)
        /\ scan[b].proxy = SumFunctionOnSet(v, P)
    <3> HIDE DEF scan
    <3>1. QED BY <2>3 DEF Bucket
  <2>5. \A x \in P : t[x] = T[x] /\ u[x] = U[x] /\ v[x] = V[x] /\ T[x] \in Int
    BY <1>4, <2>2
  <2> HIDE DEF t, u, v, T, U, V, scan
  <2>6. SumFunctionOnSet(t, P) = SumFunctionOnSet(T, P) /\ SumFunctionOnSet(T, P) \in Int
    BY <2>2, <2>5, SumSame, SumType
  <2>7. SumFunctionOnSet(u, P) = SumFunctionOnSet(U, P)
    BY <2>2, <2>5, SumSame
  <2>8. SumFunctionOnSet(v, P) = SumFunctionOnSet(V, P)
    BY <2>2, <2>5, SumSame
  <2>9. QED BY <2>4, <2>6, <2>7, <2>8 DEF P
<1>6. /\ Sum("tokens", scan) = SumFunctionOnSet([b \in Buckets |-> scan[b].tokens], Buckets)
      /\ Sum("turns", scan) = SumFunctionOnSet([b \in Buckets |-> scan[b].turns], Buckets)
      /\ Sum("proxy", scan) = SumFunctionOnSet([b \in Buckets |-> scan[b].proxy], Buckets)
  BY DEF Sum
<1> HIDE DEF T, U, V, scan, p, W
<1>7. Sum("tokens", scan) = SumFunctionOnSet(T, W)
  <2>1. SumFunctionOnSet([b \in Buckets |-> SumFunctionOnSet(T, {x \in W : p[x] = b})], Buckets) = SumFunctionOnSet(T, W)
    <3>1. \A n \in W : T[n] \in Int /\ p[n] \in Buckets
      BY <1>2, <1>3, <1>4
    <3>2. QED BY ONLY <1>1, <1>2, <3>1, SumSplit
  <2>2. [b \in Buckets |-> scan[b].tokens] = [b \in Buckets |-> SumFunctionOnSet(T, {x \in W : p[x] = b})]
    BY <1>5
  <2>3. QED BY <1>6, <2>1, <2>2
<1>8. Sum("turns", scan) = SumFunctionOnSet(U, W)
  <2>1. SumFunctionOnSet([b \in Buckets |-> SumFunctionOnSet(U, {x \in W : p[x] = b})], Buckets) = SumFunctionOnSet(U, W)
    <3>1. \A n \in W : U[n] \in Int /\ p[n] \in Buckets
      BY <1>2, <1>3, <1>4
    <3>2. QED BY ONLY <1>1, <1>2, <3>1, SumSplit
  <2>2. [b \in Buckets |-> scan[b].turns] = [b \in Buckets |-> SumFunctionOnSet(U, {x \in W : p[x] = b})]
    BY <1>5
  <2>3. QED BY <1>6, <2>1, <2>2
<1>9. Sum("proxy", scan) = SumFunctionOnSet(V, W)
  <2>1. SumFunctionOnSet([b \in Buckets |-> SumFunctionOnSet(V, {x \in W : p[x] = b})], Buckets) = SumFunctionOnSet(V, W)
    <3>1. \A n \in W : V[n] \in Int /\ p[n] \in Buckets
      BY <1>2, <1>3, <1>4
    <3>2. QED BY ONLY <1>1, <1>2, <3>1, SumSplit
  <2>2. [b \in Buckets |-> scan[b].proxy] = [b \in Buckets |-> SumFunctionOnSet(V, {x \in W : p[x] = b})]
    BY <1>5
  <2>3. QED BY <1>6, <2>1, <2>2
<1>10. \A b \in Buckets : scan[b].tokens \in Int
  BY <1>5
<1>11. QED BY <1>7, <1>8, <1>9, <1>10 DEF T, U, V, scan, W

\* WindowsAddUp, for one transcript: the buckets of a window and the totals around it.
LEMMA WindowHolds ==
  ASSUME NEW ls, Log(ls), NEW q \in Queries
  PROVE  LET before == Tally(ls)[LinesBefore(ls, q.since)]
             after  == Tally(ls)[LinesBefore(ls, q.until)]
         IN  /\ Sum("tokens", Scan(ls, q)) = after.cumulative - before.cumulative
             /\ Sum("turns", Scan(ls, q)) = after.turns - before.turns
             /\ Sum("proxy", Scan(ls, q)) = after.proxy.total - before.proxy.total
<1> DEFINE n == Len(ls)
           lo == LinesBefore(ls, q.since)
           hi == LinesBefore(ls, q.until)
           T == [i \in DOMAIN ls |-> Added(ls)[i].tokens]
           U == [i \in DOMAIN ls |-> Added(ls)[i].turns]
           V == [i \in DOMAIN ls |-> Added(ls)[i].proxy]
           C == [i \in 0..n |-> Tally(ls)[i].cumulative]
           D == [i \in 0..n |-> Tally(ls)[i].turns]
           E == [i \in 0..n |-> Tally(ls)[i].proxy.total]
<1>1. n \in Nat /\ DOMAIN ls = 1..n
  BY LogFacts
<1>2. lo \in 0..n /\ hi \in 0..n /\ lo <= hi /\ InWindowLines(ls, q) = (lo + 1)..hi
  BY WindowIsARange
<1>3. \A i \in 0..n : C[i] \in Int /\ D[i] \in Int /\ E[i] \in Int
  <2>1. \A i \in 0..n : Tally(ls)[i] \in Aggs
    BY TallyType
  <2>2. \A i \in 0..n : Tally(ls)[i].cumulative \in Int /\ Tally(ls)[i].turns \in Int /\ Tally(ls)[i].proxy.total \in Int
    BY <2>1 DEF Aggs, Proxies
  <2>3. QED BY <2>2
<1>4. \A i \in 1..n : T[i] = C[i] - C[i-1] /\ U[i] = D[i] - D[i-1] /\ V[i] = E[i] - E[i-1]
  <2>1. \A i \in 1..n : i \in 0..n /\ i - 1 \in 0..n
    BY <1>1
  <2>2. QED BY <1>1, <2>1, AddedIs
<1>5. /\ Sum("tokens", Scan(ls, q)) = SumFunctionOnSet(T, (lo + 1)..hi)
      /\ Sum("turns", Scan(ls, q)) = SumFunctionOnSet(U, (lo + 1)..hi)
      /\ Sum("proxy", Scan(ls, q)) = SumFunctionOnSet(V, (lo + 1)..hi)
  <2> HIDE DEF lo, hi
  <2>1. QED BY <1>2, ScanSums
<1>6. /\ C[lo] = Tally(ls)[lo].cumulative /\ C[hi] = Tally(ls)[hi].cumulative
      /\ D[lo] = Tally(ls)[lo].turns /\ D[hi] = Tally(ls)[hi].turns
      /\ E[lo] = Tally(ls)[lo].proxy.total /\ E[hi] = Tally(ls)[hi].proxy.total
  BY <1>2
<1> HIDE DEF n, lo, hi, T, U, V, C, D, E
<1>7. SumFunctionOnSet(T, (lo + 1)..hi) = C[hi] - C[lo]
  BY ONLY <1>1, <1>2, <1>3, <1>4, Telescope
<1>8. SumFunctionOnSet(U, (lo + 1)..hi) = D[hi] - D[lo]
  BY ONLY <1>1, <1>2, <1>3, <1>4, Telescope
<1>9. SumFunctionOnSet(V, (lo + 1)..hi) = E[hi] - E[lo]
  BY ONLY <1>1, <1>2, <1>3, <1>4, Telescope
<1>10. QED BY <1>5, <1>6, <1>7, <1>8, <1>9 DEF lo, hi

-----------------------------------------------------------------------------
(* Turns that are written again *)

\* The lines that stand after the first n.
LastIn(ls, n) ==
  {i \in Turns(ls) : /\ i <= n
                     /\ ls[i].key # NoKey => \A j \in Turns(ls) : j > i /\ j <= n => ls[j].key # ls[i].key}
Kinds(ls) == {m \in Models : Named(ls)}    \* the models to be counted by
OfModel(ls, n, m) == {i \in LastIn(ls, n) : ls[i].model = m}

\* What an aggregator knows of a request: its line that stands.
Stands(ls, n, k, r) ==
  IF r.seen THEN \E p \in LastIn(ls, n) : ls[p].key = k /\ r.tokens = ls[p].tokens /\ r.model = ls[p].model
  ELSE r = Unseen /\ \A i \in Turns(ls) : i <= n => ls[i].key # k

\* Which lines stand after one more: the new one, without the line that it replaces.
LEMMA LastStep ==
  ASSUME NEW ls, Log(ls), NEW n \in Nat, n + 1 <= Len(ls)
  PROVE  /\ LastIn(ls, n) \in SUBSET (1..n) /\ IsFiniteSet(LastIn(ls, n))
         /\ ls[n+1].kind # "turn" => LastIn(ls, n + 1) = LastIn(ls, n)
         /\ ls[n+1].kind = "turn" /\ (ls[n+1].key = NoKey \/ \A i \in Turns(ls) : i <= n => ls[i].key # ls[n+1].key)
              => LastIn(ls, n + 1) = LastIn(ls, n) \union {n + 1}
         /\ \A p \in LastIn(ls, n) :
              ls[n+1].kind = "turn" /\ ls[n+1].key # NoKey /\ ls[p].key = ls[n+1].key
                => LastIn(ls, n + 1) = (LastIn(ls, n) \ {p}) \union {n + 1}
<1> DEFINE L == LastIn(ls, n)
           M == LastIn(ls, n + 1)
<1>1. Len(ls) \in Nat /\ DOMAIN ls = 1..Len(ls) /\ n + 1 \in 1..Len(ls)
  BY LogFacts
<1>2. Turns(ls) \in SUBSET (1..Len(ls)) /\ (n + 1 \in Turns(ls) <=> ls[n+1].kind = "turn")
  BY <1>1 DEF Turns
<1>3. L \in SUBSET (1..n) /\ M \in SUBSET (1..(n+1))
  BY <1>2 DEF LastIn
<1>4. IsFiniteSet(L)
  <2>1. IsFiniteSet(1..n)
    BY FS_Interval
  <2> HIDE DEF L
  <2>2. QED BY <1>3, <2>1, FS_Subset
<1>5. n + 1 \in M <=> ls[n+1].kind = "turn"
  <2>1. \A j \in Turns(ls) : ~(j > n + 1 /\ j <= n + 1)
    BY <1>2
  <2>2. QED BY <1>2, <2>1 DEF LastIn
<1>6. ASSUME NEW i \in 1..n
      PROVE  i \in M <=> i \in L /\ (ls[n+1].kind = "turn" /\ ls[i].key # NoKey => ls[n+1].key # ls[i].key)
  <2>1. \A j \in Turns(ls) : j <= n + 1 <=> j <= n \/ j = n + 1
    BY <1>2
  <2>2. i <= n /\ i <= n + 1 /\ n + 1 > i
    OBVIOUS
  <2>3. QED BY <1>2, <2>1, <2>2 DEF LastIn
<1>7. ASSUME NEW i \in M PROVE i \in 1..n \/ i = n + 1
  BY <1>3
<1>8. ASSUME NEW i \in L PROVE i \in 1..n /\ i # n + 1
  BY <1>3
<1>9. ls[n+1].kind # "turn" => M = L
  BY <1>5, <1>6, <1>7, <1>8
<1>10. ASSUME ls[n+1].kind = "turn", ls[n+1].key = NoKey \/ \A i \in Turns(ls) : i <= n => ls[i].key # ls[n+1].key
       PROVE  M = L \union {n + 1}
  <2>1. \A i \in L : i \in Turns(ls) /\ i <= n
    BY <1>3 DEF LastIn
  <2> HIDE DEF L, M
  <2>2. \A i \in L : i \in M
    BY <1>6, <1>8, <1>10, <2>1
  <2>3. QED BY <1>5, <1>6, <1>7, <1>10, <2>2
<1>11. ASSUME NEW p \in L, ls[n+1].kind = "turn", ls[n+1].key # NoKey, ls[p].key = ls[n+1].key
       PROVE  M = (L \ {p}) \union {n + 1}
  <2>1. ASSUME NEW i \in L, i # p PROVE ls[i].key # ls[p].key
    <3>1. i \in 1..n /\ p \in 1..n /\ i \in Turns(ls) /\ p \in Turns(ls)
      BY <1>8 DEF LastIn
    <3>2. CASE i < p
      BY <1>11, <3>1, <3>2 DEF LastIn
    <3>3. CASE p < i
      BY <1>11, <3>1, <3>3 DEF LastIn
    <3>4. QED BY <2>1, <3>1, <3>2, <3>3
  <2>2. p \notin M
    BY <1>6, <1>8, <1>11
  <2> HIDE DEF L, M
  <2>3. \A i \in L \ {p} : i \in M
    BY <1>6, <1>8, <1>11, <2>1
  <2>4. \A i \in M : i = n + 1 \/ i \in L \ {p}
    BY <1>6, <1>7, <2>2
  <2>5. n + 1 \in M
    BY <1>5, <1>11
  <2>6. QED BY <2>3, <2>4, <2>5
<1>12. QED BY <1>3, <1>4, <1>9, <1>10, <1>11

\* A sum and a number with one more member.
LEMMA CountPlus ==
  ASSUME NEW f, NEW A, IsFiniteSet(A), NEW y, y \notin A, f[y] \in Int, \A x \in A : f[x] \in Int
  PROVE  /\ SumFunctionOnSet(f, A \union {y}) = SumFunctionOnSet(f, A) + f[y]
         /\ Cardinality(A \union {y}) = Cardinality(A) + 1
         /\ SumFunctionOnSet(f, A) \in Int /\ Cardinality(A) \in Int /\ IsFiniteSet(A \union {y})
<1>1. SumFunctionOnSet(f, A \union {y}) = SumFunctionOnSet(f, A) + f[y]
  BY SumWith
<1>2. Cardinality(A \union {y}) = Cardinality(A) + 1 /\ IsFiniteSet(A \union {y})
  BY FS_AddElement
<1>3. SumFunctionOnSet(f, A) \in Int /\ Cardinality(A) \in Int
  BY SumType, FS_CardinalityType
<1>4. QED BY <1>1, <1>2, <1>3

\* A sum and a number with one member less.
LEMMA CountMinus ==
  ASSUME NEW f, NEW A, IsFiniteSet(A), NEW y \in A, \A x \in A : f[x] \in Int
  PROVE  /\ SumFunctionOnSet(f, A \ {y}) = SumFunctionOnSet(f, A) - f[y]
         /\ Cardinality(A \ {y}) = Cardinality(A) - 1
         /\ SumFunctionOnSet(f, A) \in Int /\ Cardinality(A) \in Int /\ IsFiniteSet(A \ {y})
<1>1. SumFunctionOnSet(f, A) = f[y] + SumFunctionOnSet(f, A \ {y})
  BY SumAny
<1>2. Cardinality(A \ {y}) = Cardinality(A) - 1 /\ IsFiniteSet(A \ {y})
  BY FS_RemoveElement
<1>3. SumFunctionOnSet(f, A \ {y}) \in Int
  BY <1>2, SumType
<1>4. SumFunctionOnSet(f, A) \in Int /\ Cardinality(A) \in Int
  BY SumType, FS_CardinalityType
<1>5. QED BY <1>1, <1>2, <1>3, <1>4

Toks(ls) == [i \in DOMAIN ls |-> ls[i].tokens]

\* An aggregator that has read n lines counts each turn once, as its last line has it.
Counting(ls, n, agg) ==
  /\ agg.cumulative = SumFunctionOnSet(Toks(ls), LastIn(ls, n))
  /\ agg.turns = Cardinality(LastIn(ls, n))
  /\ \A m \in Kinds(ls) : /\ agg.models[m].tokens = SumFunctionOnSet(Toks(ls), OfModel(ls, n, m))
                          /\ agg.models[m].turns = Cardinality(OfModel(ls, n, m))
  /\ \A k \in Keys : Stands(ls, n, k, agg.requests[k])

\* What the aggregator knows of the requests stays right with every line.
LEMMA StandStep ==
  ASSUME NEW ls, Log(ls), NEW n \in Nat, n + 1 <= Len(ls), NEW agg \in Aggs,
         \A k \in Keys : Stands(ls, n, k, agg.requests[k])
  PROVE  \A k \in Keys : Stands(ls, n + 1, k, Ingest(agg, ls[n+1]).requests[k])
<1> DEFINE line == ls[n+1]
           was == Was(agg, line.key)
           new == Ingest(agg, line)
<1>1. n + 1 \in 1..Len(ls) /\ line \in Lines /\ DOMAIN ls = 1..Len(ls) /\ Len(ls) \in Nat
  BY LogFacts
<1>2. Turns(ls) \in SUBSET (1..Len(ls)) /\ (n + 1 \in Turns(ls) <=> line.kind = "turn")
  BY <1>1 DEF Turns
<1>3. new.requests = IF line.kind = "turn" /\ line.key # NoKey
                     THEN [agg.requests EXCEPT ![line.key] = Request(was, line)] ELSE agg.requests
  BY DEF Ingest
<1>4. /\ was \in Requests /\ agg.requests \in [Keys -> Requests]
      /\ line.key # NoKey => line.key \in Keys
  BY <1>1, WasType DEF Aggs
<1> HIDE DEF was, new
<1>5. \A j \in Turns(ls) : j <= n + 1 <=> j <= n \/ j = n + 1
  BY <1>2
<1>6. ASSUME NEW k \in Keys, ~(line.kind = "turn" /\ line.key = k)
      PROVE  Stands(ls, n + 1, k, new.requests[k])
  <2>1. new.requests[k] = agg.requests[k]
    BY <1>3, <1>4, <1>6
  <2> DEFINE r == agg.requests[k]
  <2> HIDE DEF r
  <2>2. Stands(ls, n, k, r)
    BY DEF r
  <2>3. CASE r.seen
    <3>1. PICK p \in LastIn(ls, n) : ls[p].key = k /\ r.tokens = ls[p].tokens /\ r.model = ls[p].model
      BY <2>2, <2>3 DEF Stands
    <3>2. p \in LastIn(ls, n + 1)
      BY <1>2, <1>5, <1>6, <3>1 DEF LastIn
    <3>3. QED BY <2>1, <2>3, <3>1, <3>2 DEF Stands, r
  <2>4. CASE ~r.seen
    <3>1. r = Unseen /\ \A i \in Turns(ls) : i <= n => ls[i].key # k
      BY <2>2, <2>4 DEF Stands
    <3>2. \A i \in Turns(ls) : i <= n + 1 => ls[i].key # k
      BY <1>2, <1>5, <1>6, <3>1
    <3>3. QED BY <2>1, <2>4, <3>1, <3>2 DEF Stands, r
  <2>5. QED BY <2>3, <2>4
<1>7. ASSUME NEW k \in Keys, line.kind = "turn", line.key = k
      PROVE  Stands(ls, n + 1, k, new.requests[k])
  <2> DEFINE r == Request(was, line)
  <2>1. k # NoKey
    BY UsageHistoryAssumption
  <2>2. new.requests[k] = r
    BY <1>3, <1>4, <1>7, <2>1
  <2>3. r.seen /\ r.model = line.model /\ r.tokens = line.tokens
    BY <1>1, <1>4, RequestType
  <2>4. n + 1 \in LastIn(ls, n + 1)
    <3>1. \A j \in Turns(ls) : ~(j > n + 1 /\ j <= n + 1)
      BY <1>2
    <3>2. QED BY <1>2, <1>7, <3>1 DEF LastIn
  <2> HIDE DEF r
  <2>5. QED BY <1>7, <2>2, <2>3, <2>4 DEF Stands
<1>8. QED BY <1>6, <1>7 DEF new

\* Every line keeps the count: another kind of line, a new turn, or a turn written again.
LEMMA CountStep ==
  ASSUME NEW ls, Log(ls), NEW n \in Nat, n + 1 <= Len(ls), NEW agg \in Aggs, Counting(ls, n, agg)
  PROVE  Counting(ls, n + 1, Ingest(agg, ls[n+1]))
<1> DEFINE line == ls[n+1]
           was == Was(agg, line.key)
           e == Effect(agg, line)
           new == Ingest(agg, line)
           tok == Toks(ls)
           L == LastIn(ls, n)
           O(m) == OfModel(ls, n, m)
<1>1. n + 1 \in 1..Len(ls) /\ line \in Lines /\ DOMAIN ls = 1..Len(ls) /\ Len(ls) \in Nat
  BY LogFacts
<1>2. /\ new.cumulative = agg.cumulative + e.tokens /\ new.turns = agg.turns + e.turns
      /\ new.models = IF line.kind = "turn" THEN Moved(agg.models, was, line) ELSE agg.models
  BY DEF Ingest
<1>3. e = IF line.kind = "turn"
          THEN [tokens |-> line.tokens - was.tokens, turns |-> IF was.seen THEN 0 ELSE 1,
                proxy |-> SubProxy(Request(was, line).proxy, was.proxy)]
          ELSE [tokens |-> 0, turns |-> 0, proxy |-> ProxyOf(line)]
  BY DEF Effect
<1>4. \A k \in Keys : Stands(ls, n + 1, k, new.requests[k])
  BY StandStep DEF Counting
<1>5. /\ agg.cumulative = SumFunctionOnSet(tok, L) /\ agg.turns = Cardinality(L)
      /\ \A m \in Kinds(ls) : /\ agg.models[m].tokens = SumFunctionOnSet(tok, O(m))
                              /\ agg.models[m].turns = Cardinality(O(m))
  BY DEF Counting
<1>6. /\ L \in SUBSET (1..n) /\ IsFiniteSet(L) /\ n + 1 \notin L
      /\ line.kind # "turn" => LastIn(ls, n + 1) = L
      /\ line.kind = "turn" /\ (line.key = NoKey \/ \A i \in Turns(ls) : i <= n => ls[i].key # line.key)
           => LastIn(ls, n + 1) = L \union {n + 1}
      /\ \A p \in L :
           line.kind = "turn" /\ line.key # NoKey /\ ls[p].key = line.key
             => LastIn(ls, n + 1) = (L \ {p}) \union {n + 1}
  <2>1. L \in SUBSET (1..n) => n + 1 \notin L
    OBVIOUS
  <2> HIDE DEF L
  <2>2. QED BY <2>1, LastStep DEF L
<1>7. \A m : O(m) = {i \in L : ls[i].model = m} /\ IsFiniteSet(O(m)) /\ n + 1 \notin O(m)
  <2>1. \A m : O(m) = {i \in L : ls[i].model = m} /\ O(m) \subseteq L
    BY DEF OfModel
  <2> HIDE DEF O, L
  <2>2. QED BY <1>6, <2>1, FS_Subset
<1>8. \A i \in 1..Len(ls) : tok[i] = ls[i].tokens /\ tok[i] \in Int
  <2>1. \A i \in 1..Len(ls) : ls[i].tokens \in Nat
    BY LogFacts DEF Lines
  <2>2. QED BY <1>1, <2>1 DEF Toks
<1>9. tok[n+1] = line.tokens /\ tok[n+1] \in Int /\ \A i \in L : tok[i] = ls[i].tokens /\ tok[i] \in Int
  <2>1. \A i \in 1..n : i \in 1..Len(ls)
    BY <1>1
  <2> HIDE DEF tok, L
  <2>2. QED BY <1>1, <1>6, <1>8, <2>1
<1>10. \A m \in Kinds(ls) : m \in AllModels /\ agg.models[m] \in Shares /\ agg.models[m].tokens \in Int /\ agg.models[m].turns \in Int
  BY DEF Aggs, Shares, AllModels, Kinds
<1>11. was \in Requests /\ line.tokens \in Nat /\ agg.models \in [AllModels -> Shares]
  BY <1>1, WasType DEF Lines, Log, Aggs
<1>12. agg.cumulative \in Int /\ agg.turns \in Int
  BY DEF Aggs
<1> DEFINE Shown(M) == /\ new.cumulative = SumFunctionOnSet(tok, M) /\ new.turns = Cardinality(M)
                       /\ \A m \in Kinds(ls) : /\ new.models[m].tokens = SumFunctionOnSet(tok, {i \in M : ls[i].model = m})
                                               /\ new.models[m].turns = Cardinality({i \in M : ls[i].model = m})
<1>13. Shown(LastIn(ls, n + 1)) => Counting(ls, n + 1, new)
  BY <1>4 DEF Counting, OfModel
<1> HIDE DEF e, new, tok, L, O
<1>14. CASE line.kind # "turn"
  <2>1. LastIn(ls, n + 1) = L /\ e.tokens = 0 /\ e.turns = 0 /\ new.models = agg.models
    BY <1>2, <1>3, <1>6, <1>14
  <2>2. new.cumulative = agg.cumulative /\ new.turns = agg.turns
    BY <1>2, <1>12, <2>1
  <2>3. Shown(L)
    BY <1>5, <1>7, <2>1, <2>2
  <2>4. QED BY <1>13, <2>1, <2>3 DEF new
<1>15. CASE line.kind = "turn" /\ ~was.seen
  <2> DEFINE M == L \union {n + 1}
  <2>1. was = Unseen /\ (line.key = NoKey \/ \A i \in Turns(ls) : i <= n => ls[i].key # line.key)
    <3>1. CASE line.key = NoKey
      BY <1>1, <3>1, WasType
    <3>2. CASE line.key # NoKey
      <4>1. line.key \in Keys /\ was = agg.requests[line.key]
        BY <1>1, <3>2, WasType
      <4>2. Stands(ls, n, line.key, was)
        BY <4>1 DEF Counting
      <4> HIDE DEF was
      <4>3. QED BY <1>15, <4>2 DEF Stands
    <3>3. QED BY <3>1, <3>2
  <2>2. was.tokens = 0 /\ was.model = NoKey
    BY <2>1 DEF Unseen
  <2>3. LastIn(ls, n + 1) = M
    BY <1>6, <1>15, <2>1
  <2>4. e.tokens = line.tokens /\ e.turns = 1
    <3> HIDE DEF was, line
    <3>1. QED BY <1>3, <1>11, <1>15, <2>2
  <2>5. new.cumulative = SumFunctionOnSet(tok, M) /\ new.turns = Cardinality(M)
    <3>1. /\ SumFunctionOnSet(tok, M) = SumFunctionOnSet(tok, L) + tok[n+1]
          /\ Cardinality(M) = Cardinality(L) + 1
      <4>1. IsFiniteSet(L) /\ n + 1 \notin L /\ tok[n+1] \in Int /\ \A x \in L : tok[x] \in Int
        BY <1>6, <1>9
      <4>2. QED BY ONLY <4>1, CountPlus
    <3> HIDE DEF M
    <3>2. QED BY <1>2, <1>5, <1>9, <2>4, <3>1
  <2>6. ASSUME NEW m \in Kinds(ls)
        PROVE  /\ new.models[m].tokens = SumFunctionOnSet(tok, {i \in M : ls[i].model = m})
               /\ new.models[m].turns = Cardinality({i \in M : ls[i].model = m})
    <3> DEFINE N == {i \in M : ls[i].model = m}
    <3>1. new.models[m] = IF m = line.model
                          THEN [tokens |-> agg.models[m].tokens + (line.tokens - was.tokens),
                                turns |-> agg.models[m].turns + (IF was.seen THEN 0 ELSE 1)]
                          ELSE agg.models[m]
      <4> HIDE DEF was
      <4>1. was.model \in {NoKey, line.model} /\ new.models = Moved(agg.models, was, line)
        BY <1>2, <1>15, <2>2
      <4>2. QED BY <1>1, <1>10, <1>11, <4>1, MovedType
    <3>2. CASE m = line.model
      <4>1. N = O(m) \union {n + 1}
        BY <1>7, <3>2
      <4>2. /\ SumFunctionOnSet(tok, N) = SumFunctionOnSet(tok, O(m)) + tok[n+1]
            /\ Cardinality(N) = Cardinality(O(m)) + 1
        <5>1. \A i \in O(m) : tok[i] \in Int
          BY <1>7, <1>9
        <5> HIDE DEF N
        <5>2. QED BY <1>7, <1>9, <4>1, <5>1, CountPlus
      <4>3. new.models[m].tokens = agg.models[m].tokens + line.tokens /\ new.models[m].turns = agg.models[m].turns + 1
        <5> HIDE DEF was, line
        <5>1. line.tokens - was.tokens = line.tokens
          BY <1>11, <2>2
        <5>2. QED BY <1>15, <3>1, <3>2, <5>1
      <4> HIDE DEF N
      <4>4. new.models[m].tokens = SumFunctionOnSet(tok, N) /\ new.models[m].turns = Cardinality(N)
        BY <1>5, <1>9, <4>2, <4>3
      <4>5. QED BY <4>4 DEF N
    <3>3. CASE m # line.model
      <4>1. N = O(m)
        BY <1>7, <3>3
      <4>2. new.models[m] = agg.models[m]
        BY <3>1, <3>3
      <4> HIDE DEF N
      <4>3. new.models[m].tokens = SumFunctionOnSet(tok, N) /\ new.models[m].turns = Cardinality(N)
        BY <1>5, <4>1, <4>2
      <4>4. QED BY <4>3 DEF N
    <3>4. QED BY <3>2, <3>3
  <2>7. Shown(M)
    <3> HIDE DEF M
    <3>1. QED BY <2>5, <2>6
  <2>8. QED BY <1>13, <2>3, <2>7 DEF new
<1>16. CASE line.kind = "turn" /\ was.seen
  <2>1. line.key # NoKey /\ line.key \in Keys /\ was = agg.requests[line.key]
    <3>1. line.key = NoKey => was = Unseen
      BY <1>1, WasType
    <3>2. ~Unseen.seen
      BY DEF Unseen
    <3>3. line.key # NoKey
      <4> HIDE DEF was
      <4>1. QED BY <1>16, <3>1, <3>2
    <3>4. QED BY <1>1, <3>3, WasType
  <2>2. PICK p \in L : ls[p].key = line.key /\ was.tokens = ls[p].tokens /\ was.model = ls[p].model
    <3>1. Stands(ls, n, line.key, was)
      BY <2>1 DEF Counting
    <3> HIDE DEF was
    <3>2. QED BY <1>16, <3>1 DEF Stands, L
  <2> DEFINE M == (L \ {p}) \union {n + 1}
  <2>3. LastIn(ls, n + 1) = M
    BY <1>6, <1>16, <2>1, <2>2
  <2>4. e.tokens = line.tokens - was.tokens /\ e.turns = 0
    <3> HIDE DEF was, line
    <3>1. QED BY <1>3, <1>16
  <2>5. was.tokens = tok[p] /\ tok[p] \in Int /\ p # n + 1 /\ (Named(ls) => was.model # NoKey)
    <3>1. p \in Turns(ls)
      BY <2>2 DEF L, LastIn
    <3> HIDE DEF was
    <3>2. QED BY <1>6, <1>9, <2>2, <3>1 DEF Named
  <2>6. new.cumulative = SumFunctionOnSet(tok, M) /\ new.turns = Cardinality(M)
    <3>1. /\ SumFunctionOnSet(tok, M) = SumFunctionOnSet(tok, L) + (tok[n+1] - tok[p])
          /\ Cardinality(M) = Cardinality(L)
      <4>1. PICK y : y = n + 1
        OBVIOUS
      <4>2. IsFiniteSet(L) /\ p \in L /\ y \notin L /\ tok[y] \in Int /\ \A x \in L : tok[x] \in Int
        BY <1>6, <1>9, <2>2, <4>1
      <4>3. M = (L \ {p}) \union {y}
        BY <4>1
      <4> HIDE DEF M
      <4>4. /\ SumFunctionOnSet(tok, M) = SumFunctionOnSet(tok, L) + (tok[y] - tok[p])
            /\ Cardinality(M) = Cardinality(L)
        <5> DEFINE B == L \ {p}
        <5>1. /\ SumFunctionOnSet(tok, B) = SumFunctionOnSet(tok, L) - tok[p] /\ Cardinality(B) = Cardinality(L) - 1
              /\ SumFunctionOnSet(tok, L) \in Int /\ Cardinality(L) \in Int /\ IsFiniteSet(B)
          BY ONLY <4>2, CountMinus
        <5>2. y \notin B /\ tok[p] \in Int /\ \A x \in B : tok[x] \in Int
          BY <4>2
        <5>3. M = B \union {y}
          BY <4>3
        <5> HIDE DEF B
        <5>4. SumFunctionOnSet(tok, M) = SumFunctionOnSet(tok, B) + tok[y] /\ Cardinality(M) = Cardinality(B) + 1
          BY ONLY <4>2, <5>1, <5>2, <5>3, CountPlus
        <5>5. QED BY <4>2, <5>1, <5>2, <5>4
      <4>5. QED BY <4>1, <4>4
    <3> HIDE DEF M, was
    <3>2. QED BY <1>2, <1>5, <1>9, <1>12, <2>4, <2>5, <3>1
  <2>7. ASSUME NEW m \in Kinds(ls)
        PROVE  /\ new.models[m].tokens = SumFunctionOnSet(tok, {i \in M : ls[i].model = m})
               /\ new.models[m].turns = Cardinality({i \in M : ls[i].model = m})
    <3> DEFINE N == {i \in M : ls[i].model = m}
               ag == agg.models[m]
               nw == new.models[m]
    <3>0. new.models = Moved(agg.models, was, line) /\ ag.tokens \in Int /\ ag.turns \in Int
      BY <1>2, <1>10, <1>16
    <3>1. \A i \in O(m) : tok[i] \in Int
      BY <1>7, <1>9
    <3>2. SUFFICES nw.tokens = SumFunctionOnSet(tok, N) /\ nw.turns = Cardinality(N)
      OBVIOUS
    <3>3. CASE was.model = line.model
      <4>1. nw = IF m = line.model
                 THEN [tokens |-> ag.tokens + (line.tokens - was.tokens), turns |-> ag.turns + (IF was.seen THEN 0 ELSE 1)]
                 ELSE ag
        <5> HIDE DEF was
        <5>1. QED BY <1>1, <1>10, <1>11, <3>0, <3>3, MovedType
      <4>2. CASE m = line.model
        <5>1. N = (O(m) \ {p}) \union {n + 1} /\ p \in O(m)
          BY <1>6, <1>7, <2>2, <2>5, <3>3, <4>2
        <5>2. /\ SumFunctionOnSet(tok, N) = SumFunctionOnSet(tok, O(m)) + (tok[n+1] - tok[p])
              /\ Cardinality(N) = Cardinality(O(m))
          <6> HIDE DEF N
          <6>1. PICK y : y = n + 1
            OBVIOUS
          <6> DEFINE A == O(m)
          <6>2. /\ IsFiniteSet(A) /\ p \in A /\ y \notin A /\ tok[y] \in Int /\ \A x \in A : tok[x] \in Int
                /\ N = (A \ {p}) \union {y}
            BY <1>7, <1>9, <3>1, <5>1, <6>1
          <6> HIDE DEF A
          <6>3. /\ SumFunctionOnSet(tok, N) = SumFunctionOnSet(tok, A) + (tok[y] - tok[p])
                /\ Cardinality(N) = Cardinality(A)
            <7> DEFINE B == A \ {p}
            <7>1. /\ SumFunctionOnSet(tok, B) = SumFunctionOnSet(tok, A) - tok[p] /\ Cardinality(B) = Cardinality(A) - 1
                  /\ SumFunctionOnSet(tok, A) \in Int /\ Cardinality(A) \in Int /\ IsFiniteSet(B)
              BY ONLY <6>2, CountMinus
            <7>2. IsFiniteSet(B) /\ y \notin B /\ tok[y] \in Int /\ tok[p] \in Int /\ \A x \in B : tok[x] \in Int
              BY <6>2, <7>1
            <7>3. N = B \union {y}
              BY <6>2
            <7> HIDE DEF B
            <7>4. /\ SumFunctionOnSet(tok, B \union {y}) = SumFunctionOnSet(tok, B) + tok[y]
                  /\ Cardinality(B \union {y}) = Cardinality(B) + 1
              BY ONLY <7>2, CountPlus
            <7>5. QED BY <7>1, <7>2, <7>3, <7>4
          <6>4. QED BY <6>1, <6>3 DEF A
        <5>3. nw.tokens = ag.tokens + (line.tokens - was.tokens) /\ nw.turns = ag.turns
          <6> HIDE DEF was, line, ag, nw
          <6>1. QED BY <1>16, <3>0, <4>1, <4>2
        <5> HIDE DEF N, was
        <5>4. QED BY <1>5, <1>9, <2>5, <5>2, <5>3
      <4>3. CASE m # line.model
        <5>1. N = O(m)
          <6>1. ls[p].model # m /\ ls[n+1].model # m
            BY <2>2, <3>3, <4>3
          <6>2. QED BY <1>7, <6>1
        <5>2. nw = ag
          BY <4>1, <4>3
        <5> HIDE DEF N
        <5>3. QED BY <1>5, <5>1, <5>2
      <4>4. QED BY <4>2, <4>3
    <3>4. CASE was.model # line.model
      <4>1. nw = IF m = line.model THEN [tokens |-> ag.tokens + line.tokens, turns |-> ag.turns + 1]
                 ELSE IF m = was.model THEN [tokens |-> ag.tokens - was.tokens, turns |-> ag.turns - 1]
                 ELSE ag
        <5> HIDE DEF was
        <5>1. was.model \notin {NoKey, line.model}
          BY <2>5, <3>4 DEF Kinds
        <5>2. QED BY <1>1, <1>10, <1>11, <3>0, <5>1, MovedType
      <4>2. CASE m = line.model
        <5>1. N = O(m) \union {n + 1}
          <6>1. ls[p].model # m /\ ls[n+1].model = m
            BY <2>2, <3>4, <4>2
          <6>2. QED BY <1>7, <6>1
        <5>2. /\ SumFunctionOnSet(tok, N) = SumFunctionOnSet(tok, O(m)) + tok[n+1]
              /\ Cardinality(N) = Cardinality(O(m)) + 1
          <6> HIDE DEF N
          <6>1. IsFiniteSet(O(m)) /\ n + 1 \notin O(m) /\ tok[n+1] \in Int
            BY <1>7, <1>9
          <6>2. QED BY ONLY <3>1, <5>1, <6>1, CountPlus
        <5>3. nw.tokens = ag.tokens + line.tokens /\ nw.turns = ag.turns + 1
          <6> HIDE DEF was, line, ag, nw
          <6>1. QED BY <4>1, <4>2
        <5> HIDE DEF N, was
        <5>4. QED BY <1>5, <1>9, <5>2, <5>3
      <4>3. CASE m = was.model
        <5>1. N = O(m) \ {p} /\ p \in O(m)
          <6>1. ls[p].model = m /\ ls[n+1].model # m
            BY <2>2, <3>4, <4>3
          <6>2. QED BY <1>7, <2>2, <6>1
        <5>2. /\ SumFunctionOnSet(tok, N) = SumFunctionOnSet(tok, O(m)) - tok[p]
              /\ Cardinality(N) = Cardinality(O(m)) - 1
          <6> HIDE DEF N
          <6>1. QED BY <1>7, <3>1, <5>1, CountMinus
        <5>3. nw.tokens = ag.tokens - was.tokens /\ nw.turns = ag.turns - 1
          <6>1. m # line.model
            BY <3>4, <4>3
          <6> HIDE DEF was, line, ag, nw
          <6>2. QED BY <4>1, <4>3, <6>1
        <5> HIDE DEF N, was
        <5>4. QED BY <1>5, <2>5, <5>2, <5>3
      <4>4. CASE m # line.model /\ m # was.model
        <5>1. N = O(m)
          <6>1. ls[p].model # m /\ ls[n+1].model # m
            BY <2>2, <4>4
          <6>2. QED BY <1>7, <6>1
        <5>2. nw = ag
          <6> HIDE DEF was, line, ag, nw
          <6>1. QED BY <4>1, <4>4
        <5> HIDE DEF N
        <5>3. QED BY <1>5, <5>1, <5>2
      <4>5. QED BY <4>2, <4>3, <4>4
    <3>5. QED BY <3>3, <3>4
  <2>8. Shown(M)
    <3> HIDE DEF M
    <3>1. QED BY <2>6, <2>7
  <2>9. QED BY <1>13, <2>3, <2>8 DEF new
<1>17. QED BY <1>14, <1>15, <1>16

\* EveryTurnCountsOnce, for one transcript.
LEMMA CountHolds ==
  ASSUME NEW ls, Log(ls)
  PROVE  LET agg == Tally(ls)[Len(ls)]
         IN  /\ agg.cumulative = TokensOf(ls, LastOf(ls))
             /\ agg.turns = Cardinality(LastOf(ls))
             /\ Named(ls) => \A m \in Models :
                  LET its == {i \in LastOf(ls) : ls[i].model = m}
                  IN  agg.models[m] = [tokens |-> TokensOf(ls, its), turns |-> Cardinality(its)]
<1> DEFINE n == Len(ls)
           aggs == Tally(ls)
           S == {k \in 0..n : Counting(ls, k, aggs[k])}
<1>1. n \in Nat /\ DOMAIN ls = 1..n /\ IsFiniteSet(DOMAIN ls)
  BY LogFacts
<1>2. aggs[0] = Fresh /\ \A k \in 1..n : aggs[k] = Ingest(aggs[k-1], ls[k])
  BY <1>1, TallySolved
<1>3. \A k \in 0..n : aggs[k] \in Aggs
  BY TallyType
<1>4. Turns(ls) \in SUBSET (1..n)
  BY <1>1 DEF Turns
<1> HIDE DEF aggs
<1>5. 0 \in S
  <2>1. LastIn(ls, 0) = {} /\ \A m : OfModel(ls, 0, m) = {}
    BY <1>4 DEF LastIn, OfModel
  <2>2. SumFunctionOnSet(Toks(ls), {}) = 0 /\ Cardinality({}) = 0
    BY FS_EmptySet, SumRec
  <2>3. \A k \in Keys : Stands(ls, 0, k, Unseen)
    <3>1. ~Unseen.seen
      BY DEF Unseen
    <3>2. \A i \in Turns(ls) : ~(i <= 0)
      BY <1>4
    <3>3. QED BY <3>1, <3>2 DEF Stands
  <2>4. Counting(ls, 0, Fresh)
    BY <2>1, <2>2, <2>3 DEF Counting, Fresh, Kinds
  <2>5. QED BY <1>1, <1>2, <2>4
<1>6. ASSUME NEW k \in 0..n, k < n, k \in S PROVE k + 1 \in S
  <2>1. k + 1 \in 1..n /\ (k + 1) - 1 = k /\ k \in Nat /\ k + 1 <= n
    BY <1>1, <1>6
  <2>2. aggs[k+1] = Ingest(aggs[k], ls[k+1])
    BY <1>2, <2>1
  <2>3. Counting(ls, k + 1, Ingest(aggs[k], ls[k+1]))
    BY <1>3, <1>6, <2>1, CountStep
  <2>4. QED BY <1>1, <2>1, <2>2, <2>3
<1>7. \A k \in 0..n : k \in S
  <2> HIDE DEF S
  <2>1. QED BY <1>1, <1>5, <1>6, Upwards
<1>8. n \in 0..n
  BY <1>1
<1>9. Counting(ls, n, aggs[n])
  BY <1>7, <1>8
<1>10. LastIn(ls, n) = LastOf(ls)
  BY <1>1, <1>4 DEF LastIn, LastOf
<1>11. ASSUME NEW A \in SUBSET DOMAIN ls PROVE TokensOf(ls, A) = SumFunctionOnSet(Toks(ls), A)
  <2>1. IsFiniteSet(A)
    BY <1>1, FS_Subset
  <2> DEFINE f == [i \in A |-> ls[i].tokens]
             g == Toks(ls)
  <2>2. \A i \in A : f[i] = g[i]
    BY DEF Toks
  <2>3. TokensOf(ls, A) = SumFunctionOnSet(f, A)
    BY DEF TokensOf
  <2> HIDE DEF f, g
  <2>4. SumFunctionOnSet(f, A) = SumFunctionOnSet(g, A)
    BY <2>1, <2>2, SumSame
  <2>5. QED BY <2>3, <2>4 DEF g
<1>12. LastOf(ls) \in SUBSET DOMAIN ls
  BY <1>1, <1>4 DEF LastOf
<1>13. aggs[n].cumulative = TokensOf(ls, LastOf(ls)) /\ aggs[n].turns = Cardinality(LastOf(ls))
  BY <1>9, <1>10, <1>11, <1>12 DEF Counting
<1>14. ASSUME NEW m \in Kinds(ls)
       PROVE  LET its == {i \in LastOf(ls) : ls[i].model = m}
              IN  aggs[n].models[m] = [tokens |-> TokensOf(ls, its), turns |-> Cardinality(its)]
  <2> DEFINE its == {i \in LastOf(ls) : ls[i].model = m}
             share == aggs[n].models[m]
  <2>1. its = OfModel(ls, n, m) /\ its \in SUBSET DOMAIN ls
    BY <1>10, <1>12 DEF OfModel
  <2>2. share.tokens = SumFunctionOnSet(Toks(ls), OfModel(ls, n, m)) /\ share.turns = Cardinality(OfModel(ls, n, m))
    BY <1>9 DEF Counting
  <2>3. share \in Shares
    BY <1>3, <1>8 DEF Aggs, AllModels, Kinds
  <2> HIDE DEF its, share
  <2>4. TokensOf(ls, its) = SumFunctionOnSet(Toks(ls), its)
    BY <1>11, <2>1
  <2>5. share = [tokens |-> TokensOf(ls, its), turns |-> Cardinality(its)]
    BY <2>1, <2>2, <2>3, <2>4 DEF Shares
  <2>6. QED BY <2>5 DEF its, share
<1>15. QED BY <1>13, <1>14 DEF aggs, Kinds

-----------------------------------------------------------------------------
(* Whose a transcript is *)

\* What holds of the files as they grow.
UsageInv ==
  /\ clock \in 0..MaxClock /\ scene \in Scenes /\ dirs \in scene.layouts
  /\ lines \in [FileSet -> Seq(Lines)]
  /\ \A f \in FileSet : Log(lines[f]) /\ \A i \in 1..Len(lines[f]) : lines[f][i].ts <= clock
  /\ rollouts \in [Members -> [lines : Seq(Lines), written : Int]]
  /\ \A w \in Members : /\ Log(rollouts[w].lines) /\ rollouts[w].written <= clock
                        /\ \A i \in 1..Len(rollouts[w].lines) : rollouts[w].lines[i].ts <= rollouts[w].written

\* There are finitely many files, workspaces and agents.
LEMMA PartsAreFinite ==
  ASSUME UsageInv
  PROVE  IsFiniteSet(FileSet) /\ IsFiniteSet(Members) /\ IsFiniteSet(Agents) /\ NoHint \notin Members
<1>1. Files \in Seq(FileSet)
  BY UsageHistoryAssumption
<1>2. IsFiniteSet(DOMAIN Files) /\ FileSet = {Files[i] : i \in DOMAIN Files}
  <2>1. Len(Files) \in Nat /\ DOMAIN Files = 1..Len(Files)
    BY <1>1
  <2>2. IsFiniteSet(DOMAIN Files)
    BY <2>1, FS_Interval
  <2>3. FileSet = {Files[i] : i \in DOMAIN Files}
    BY DEF FileSet, ToSet
  <2>4. QED BY <2>2, <2>3
<1>3. IsFiniteSet(FileSet)
  BY <1>2, ImageIsFinite
<1>4. IsFiniteSet(Agents)
  BY <1>3, ImageIsFinite DEF Agents
<1>5. IsFiniteSet(Members) /\ NoHint \notin Members
  BY UsageHistoryAssumption DEF UsageInv, Members
<1>6. QED BY <1>3, <1>4, <1>5

\* A session's workspace was named by one of its files, from that workspace's directory.
LEMMA SessionOwnerIs ==
  ASSUME NEW s, SessionOwner(s) # NoHint
  PROVE  \E g \in FileSet : Session[g] = s /\ Hinted(g, SessionOwner(s))
<1> DEFINE named == {i \in DOMAIN Files : Session[Files[i]] = s /\ HasHint(Files[i]) /\ Hinted(Files[i], Hint(Files[i]))}
           m == Max(named)
<1>1. Files \in Seq(FileSet)
  BY UsageHistoryAssumption
<1>2. Len(Files) \in Nat /\ DOMAIN Files = 1..Len(Files)
  BY <1>1
<1>3. named # {} /\ SessionOwner(s) = Hint(Files[m])
  BY DEF SessionOwner
<1>4. named \in SUBSET (0..Len(Files))
  BY <1>2
<1>5. m \in named
  <2> HIDE DEF named
  <2>1. QED BY <1>2, <1>3, <1>4, MaxIsGreatest
<1>6. Files[m] \in FileSet
  BY <1>1, <1>2, <1>5
<1> HIDE DEF m
<1>7. QED BY <1>3, <1>5, <1>6

\* assign_series: nobody's or a workspace's, and in a shared directory only by its session's word.
LEMMA OwnerIs ==
  ASSUME NEW f \in FileSet
  PROVE  /\ Owner(f) \in Members \union {NoHint}
         /\ Owner(f) # NoHint /\ (\E w \in Members : dirs[w] = DirOf[f] /\ w # Owner(f))
              => \E g \in FileSet : Session[g] = Session[f] /\ Hinted(g, Owner(f))
<1> DEFINE here == {w \in Members : dirs[w] = DirOf[f]}
           only == {w \in here : UniqueDir(w)}
           none == Readings(f) = {} \/ \A i \in DOMAIN lines[f] : lines[f][i].kind = "torn"
<1>1. Owner(f) = IF none THEN NoHint
                 ELSE IF HasHint(f) THEN IF Hint(f) \in here THEN Hint(f) ELSE NoHint
                 ELSE IF SessionOwner(Session[f]) # NoHint THEN SessionOwner(Session[f])
                 ELSE IF only # {} THEN CHOOSE w \in only : TRUE ELSE NoHint
  BY DEF Owner
<1> HIDE DEF none
<1>2. CASE none
  BY <1>1, <1>2
<1>3. CASE ~none /\ HasHint(f)
  <2>1. CASE Hint(f) \in here
    <3>1. Owner(f) = Hint(f) /\ Owner(f) \in Members /\ Hinted(f, Owner(f))
      BY <1>1, <1>3, <2>1 DEF Hinted
    <3>2. QED BY <3>1
  <2>2. CASE Hint(f) \notin here
    BY <1>1, <1>3, <2>2
  <2>3. QED BY <2>1, <2>2
<1>4. CASE ~none /\ ~HasHint(f) /\ SessionOwner(Session[f]) # NoHint
  <2>1. Owner(f) = SessionOwner(Session[f])
    BY <1>1, <1>4
  <2>2. \E g \in FileSet : Session[g] = Session[f] /\ Hinted(g, SessionOwner(Session[f]))
    BY <1>4, SessionOwnerIs
  <2>3. SessionOwner(Session[f]) \in Members
    BY <2>2 DEF Hinted
  <2>4. QED BY <2>1, <2>2, <2>3
<1>5. CASE ~none /\ ~HasHint(f) /\ SessionOwner(Session[f]) = NoHint /\ only # {}
  <2>1. Owner(f) = CHOOSE w \in only : TRUE
    BY <1>1, <1>5
  <2>2. Owner(f) \in only
    <3> HIDE DEF only
    <3>1. QED BY <1>5, <2>1
  <2>3. Owner(f) \in Members /\ dirs[Owner(f)] = DirOf[f] /\ UniqueDir(Owner(f))
    BY <2>2
  <2>4. \A w \in Members : dirs[w] = DirOf[f] => w = Owner(f)
    BY <2>3 DEF UniqueDir
  <2>5. QED BY <2>3, <2>4
<1>6. CASE ~none /\ ~HasHint(f) /\ SessionOwner(Session[f]) = NoHint /\ only = {}
  <2>1. Owner(f) = NoHint
    <3> HIDE DEF only
    <3>1. QED BY <1>1, <1>6
  <2>2. QED BY <2>1
<1>7. QED BY <1>2, <1>3, <1>4, <1>5, <1>6

\* discover_codex_sessions leaves out no file that has lines in the window.
LEMMA CodexIsRead ==
  ASSUME UsageInv, NEW q \in Queries, NEW w \in Members
  PROVE  /\ Sum("tokens", ScanCodex(rollouts[w], q)) = Sum("tokens", Scan(rollouts[w].lines, q))
         /\ \A b \in Buckets : ScanCodex(rollouts[w], q)[b].tokens \in Int
<1> DEFINE ls == rollouts[w].lines
<1>1. Log(ls) /\ rollouts[w].written \in Int /\ \A i \in 1..Len(ls) : ls[i].ts <= rollouts[w].written
  BY DEF UsageInv
<1>2. CASE ~(rollouts[w].written < q.since)
  <2>1. ScanCodex(rollouts[w], q) = Scan(ls, q)
    BY <1>2 DEF ScanCodex
  <2> HIDE DEF ls
  <2>2. QED BY <1>1, <2>1, ScanSums DEF ls
<1>3. CASE rollouts[w].written < q.since
  <2>1. ScanCodex(rollouts[w], q) = Scan(<<>>, q)
    BY <1>3 DEF ScanCodex
  <2>2. Log(<<>>) /\ InWindowLines(<<>>, q) = {}
    BY DEF Log, InWindowLines
  <2>3. InWindowLines(ls, q) = {}
    <3>1. DOMAIN ls = 1..Len(ls) /\ \A i \in 1..Len(ls) : ls[i].ts \in Int
      <4>1. DOMAIN ls = 1..Len(ls) /\ \A i \in 1..Len(ls) : ls[i] \in Lines
        BY <1>1, LogFacts
      <4> HIDE DEF ls
      <4>2. QED BY <4>1 DEF Lines
    <3>2. q.since \in Int
      BY UsageHistoryAssumption DEF Queries
    <3>3. \A i \in 1..Len(ls) : ~(q.since <= ls[i].ts)
      <4> HIDE DEF ls
      <4>1. QED BY <1>1, <1>3, <3>1, <3>2
    <3>4. QED BY <3>1, <3>3 DEF InWindowLines, InWindow
  <2> HIDE DEF ls
  <2>4. Sum("tokens", Scan(ls, q)) = SumFunctionOnSet([n \in DOMAIN ls |-> Added(ls)[n].tokens], {})
    BY <1>1, <2>3, ScanSums
  <2>5. /\ Sum("tokens", Scan(<<>>, q)) = SumFunctionOnSet([n \in DOMAIN <<>> |-> Added(<<>>)[n].tokens], {})
        /\ \A b \in Buckets : Scan(<<>>, q)[b].tokens \in Int
    BY <2>2, ScanSums
  <2>6. \A g : SumFunctionOnSet(g, {}) = 0
    BY FS_EmptySet, SumRec
  <2>7. QED BY <2>1, <2>4, <2>5, <2>6 DEF ls
<1>4. QED BY <1>2, <1>3

\* The files of a workspace; what each comes to in a window, and in one bucket.
OwnedBy(w) == {f \in FileSet : Owner(f) = w}
FileTokens(q) == [f \in FileSet |-> Sum("tokens", Scan(lines[f], q))]
Column(q, b) == [f \in FileSet |-> Scan(lines[f], q)[b].tokens]

\* Where no two directories share a folder, a file that has an owner is read once.
LEMMA ReadOnce ==
  ASSUME FoldersApart, NEW f \in FileSet, Owner(f) \in Members, NoHint \notin Members
  PROVE  Cardinality(Readings(f)) = 1
<1>1. Readings(f) # {}
  BY DEF Owner
<1>2. PICK d : d \in Readings(f)
  BY <1>1
<1>3. Readings(f) = {d}
  BY <1>2 DEF Readings, FoldersApart
<1>4. QED BY <1>3, FS_Singleton

\* A bucket of a workspace's trend: its files of all agents, and its Codex session.
LEMMA TrendBucket ==
  ASSUME UsageInv, FoldersApart, NEW q \in Queries, NEW w \in Members, NEW b \in Buckets
  PROVE  Trend(w, q)[b].tokens = ScanCodex(rollouts[w], q)[b].tokens + SumFunctionOnSet(Column(q, b), OwnedBy(w))
<1> DEFINE col == Column(q, b)
           own == OwnedBy(w)
           Its(agent) == {f \in FileSet : Agent[f] = agent /\ Owner(f) = w}
           H == [agent \in Agents |-> AgentHistory(w, agent, q)]
           G == [agent \in Agents |-> H[agent][b]]
           P == [agent \in Agents |-> SumFunctionOnSet(col, {f \in own : Agent[f] = agent})]
<1>1. IsFiniteSet(FileSet) /\ IsFiniteSet(Agents)
  BY PartsAreFinite
<1>2. \A f \in FileSet : col[f] = Scan(lines[f], q)[b].tokens /\ col[f] \in Int
  <2>1. \A f \in FileSet : Log(lines[f])
    BY DEF UsageInv
  <2>2. \A f \in FileSet : Scan(lines[f], q)[b].tokens \in Int
    BY <2>1, ScanSums
  <2>3. QED BY <2>2 DEF Column
<1> HIDE DEF col
<1>3. ASSUME NEW agent \in Agents PROVE G[agent].tokens = P[agent]
  <2> DEFINE its == Its(agent)
             what == [f \in its |-> Times(Cardinality(Readings(f)), Scan(lines[f], q)[b])]
             t == [f \in its |-> what[f].tokens]
  <2>1. its \in SUBSET FileSet /\ IsFiniteSet(its) /\ its = {f \in own : Agent[f] = agent}
    BY <1>1, FS_Subset DEF OwnedBy
  <2>2. G[agent] = Bucket(what, its)
    BY DEF AgentHistory
  <2>3. G[agent].tokens = SumFunctionOnSet(t, its)
    <3> HIDE DEF G, what, its
    <3>1. QED BY <2>2 DEF Bucket
  <2>4. ASSUME NEW f \in its PROVE t[f] = col[f]
    <3>1. Cardinality(Readings(f)) = 1 /\ f \in FileSet
      BY PartsAreFinite, ReadOnce
    <3> DEFINE row == Scan(lines[f], q)[b]
    <3>2. what[f] = Times(1, row)
      BY <3>1
    <3>3. t[f] = 1 * row.tokens
      <4> HIDE DEF its, what, row
      <4>1. QED BY <3>2 DEF Times
    <3>4. row.tokens = col[f] /\ col[f] \in Int
      BY <1>2, <3>1
    <3> HIDE DEF row, t
    <3>5. QED BY <3>3, <3>4
  <2>5. SumFunctionOnSet(t, its) = SumFunctionOnSet(col, its)
    <3> HIDE DEF t, its
    <3>1. QED BY <2>1, <2>4, SumSame
  <2>6. P[agent] = SumFunctionOnSet(col, its)
    <3> HIDE DEF its
    <3>1. QED BY <2>1
  <2>7. QED BY <2>3, <2>5, <2>6
<1>4. SumFunctionOnSet(P, Agents) = SumFunctionOnSet(col, own)
  <2>1. IsFiniteSet(own) /\ own \in SUBSET FileSet
    BY <1>1, FS_Subset DEF OwnedBy
  <2>2. \A f \in own : col[f] \in Int /\ Agent[f] \in Agents
    BY <1>2, <2>1 DEF Agents
  <2> HIDE DEF own
  <2>3. QED BY ONLY <1>1, <2>1, <2>2, SumSplit
<1>5. Trend(w, q)[b].tokens = ScanCodex(rollouts[w], q)[b].tokens + SumFunctionOnSet([x \in Agents |-> G[x].tokens], Agents)
  BY DEF Trend, Plus, Bucket
<1>6. [x \in Agents |-> G[x].tokens] = P
  <2>1. \A x \in Agents : G[x].tokens = P[x]
    BY <1>3
  <2>2. P = [x \in Agents |-> P[x]]
    OBVIOUS
  <2> HIDE DEF G, P
  <2>3. QED BY <2>1, <2>2
<1>7. QED BY <1>4, <1>5, <1>6 DEF col

\* A workspace's trend is its Codex session and the files it owns.
LEMMA TrendSum ==
  ASSUME UsageInv, FoldersApart, NEW q \in Queries, NEW w \in Members
  PROVE  /\ Sum("tokens", Trend(w, q)) = Sum("tokens", Scan(rollouts[w].lines, q)) + SumFunctionOnSet(FileTokens(q), OwnedBy(w))
         /\ Sum("tokens", Scan(rollouts[w].lines, q)) \in Int
         /\ \A f \in FileSet : FileTokens(q)[f] \in Int
<1> DEFINE own == OwnedBy(w)
           sc == [f \in FileSet |-> [b \in Buckets |-> Scan(lines[f], q)[b].tokens]]
           cx == [b \in Buckets |-> ScanCodex(rollouts[w], q)[b].tokens]
           cols == [b \in Buckets |-> SumFunctionOnSet(Column(q, b), own)]
           tr == [b \in Buckets |-> Trend(w, q)[b].tokens]
           all == FileTokens(q)
<1>1. IsFiniteSet(FileSet) /\ IsFiniteSet(Buckets) /\ own \in SUBSET FileSet /\ IsFiniteSet(own)
  BY PartsAreFinite, BucketFacts, FS_Subset DEF OwnedBy
<1>2. \A f \in FileSet, b \in Buckets : /\ sc[f][b] = Scan(lines[f], q)[b].tokens /\ sc[f][b] \in Int
                                        /\ Column(q, b)[f] = sc[f][b]
  <2>1. \A f \in FileSet : Log(lines[f])
    BY DEF UsageInv
  <2>2. \A f \in FileSet, b \in Buckets : Scan(lines[f], q)[b].tokens \in Int
    BY <2>1, ScanSums
  <2>3. QED BY <2>2 DEF Column
<1>3. \A f \in FileSet : all[f] = SumFunctionOnSet(sc[f], Buckets) /\ all[f] \in Int
  <2>1. \A f \in FileSet : all[f] = SumFunctionOnSet([b \in Buckets |-> Scan(lines[f], q)[b].tokens], Buckets)
    BY DEF FileTokens, Sum
  <2>2. \A f \in FileSet : sc[f] = [b \in Buckets |-> Scan(lines[f], q)[b].tokens]
    OBVIOUS
  <2>3. \A f \in FileSet : all[f] = SumFunctionOnSet(sc[f], Buckets)
    BY <2>1, <2>2
  <2> HIDE DEF sc, all
  <2>4. \A f \in FileSet : SumFunctionOnSet(sc[f], Buckets) \in Int
    BY <1>1, <1>2, SumType
  <2>5. QED BY <2>3, <2>4
<1>4. \A b \in Buckets : cx[b] \in Int
  BY CodexIsRead
<1>5. Sum("tokens", Trend(w, q)) = SumFunctionOnSet(tr, Buckets) /\ Sum("tokens", ScanCodex(rollouts[w], q)) = SumFunctionOnSet(cx, Buckets)
  BY DEF Sum
<1>6. \A b \in Buckets : tr[b] = cx[b] + cols[b] /\ cols[b] = SumFunctionOnSet(Column(q, b), own)
  BY TrendBucket
<1> HIDE DEF sc, cx, tr, all, own
<1>7. \A b \in Buckets : cols[b] \in Int
  <2>1. \A b \in Buckets : \A f \in own : Column(q, b)[f] \in Int
    BY <1>1, <1>2
  <2> HIDE DEF cols
  <2>2. QED BY <1>1, <1>6, <2>1, SumType
<1>8. SumFunctionOnSet(tr, Buckets) = SumFunctionOnSet(cx, Buckets) + SumFunctionOnSet(cols, Buckets)
  <2> HIDE DEF cols
  <2>1. QED BY <1>1, <1>4, <1>6, <1>7, SumPlus
<1> DEFINE rows == [f \in own |-> SumFunctionOnSet(sc[f], Buckets)]
           turned == [b \in Buckets |-> SumFunctionOnSet([f \in own |-> sc[f][b]], own)]
<1>9. SumFunctionOnSet(rows, own) = SumFunctionOnSet(turned, Buckets)
  <2>1. \A f \in own, b \in Buckets : sc[f][b] \in Int
    BY <1>1, <1>2
  <2>2. QED BY ONLY <1>1, <2>1, SumSwap
<1>10. SumFunctionOnSet(turned, Buckets) = SumFunctionOnSet(cols, Buckets)
  <2>1. ASSUME NEW b \in Buckets PROVE turned[b] = cols[b]
    <3> DEFINE g == [f \in own |-> sc[f][b]]
               h == Column(q, b)
    <3>1. \A f \in own : g[f] = h[f]
      BY <1>1, <1>2
    <3>2. turned[b] = SumFunctionOnSet(g, own)
      OBVIOUS
    <3> HIDE DEF g, h, turned
    <3>3. SumFunctionOnSet(g, own) = SumFunctionOnSet(h, own)
      BY <1>1, <3>1, SumSame
    <3>4. QED BY <1>6, <3>2, <3>3 DEF h
  <2> HIDE DEF turned, cols
  <2>2. QED BY <1>1, <2>1, SumSame
<1>11. SumFunctionOnSet(rows, own) = SumFunctionOnSet(all, own)
  <2>1. \A f \in own : rows[f] = all[f]
    BY <1>1, <1>3
  <2> HIDE DEF rows
  <2>2. QED BY <1>1, <2>1, SumSame
<1>12. Sum("tokens", Scan(rollouts[w].lines, q)) = SumFunctionOnSet(cx, Buckets)
  BY <1>5, CodexIsRead
<1>13. SumFunctionOnSet(cx, Buckets) \in Int
  BY <1>1, <1>4, SumType
<1> HIDE DEF rows, turned, cols
<1>14. Sum("tokens", Trend(w, q)) = Sum("tokens", Scan(rollouts[w].lines, q)) + SumFunctionOnSet(all, own)
  BY <1>5, <1>8, <1>9, <1>10, <1>11, <1>12
<1>15. QED BY <1>3, <1>12, <1>13, <1>14 DEF all, own

\* NothingIsCountedTwice, for one window: the owned files are shared out among the workspaces.
LEMMA NothingTwice ==
  ASSUME UsageInv, FoldersApart, NEW q \in Queries
  PROVE  LET owned == {f \in FileSet : Owner(f) # NoHint}
             Of(ls) == Sum("tokens", Scan(ls, q))
         IN  SumFunctionOnSet([w \in Members |-> Sum("tokens", Trend(w, q))], Members)
               = SumFunctionOnSet([f \in owned |-> Of(lines[f])], owned)
                 + SumFunctionOnSet([w \in Members |-> Of(rollouts[w].lines)], Members)
<1> DEFINE owned == {f \in FileSet : Owner(f) # NoHint}
           p == [f \in FileSet |-> Owner(f)]
           all == FileTokens(q)
           tr == [w \in Members |-> Sum("tokens", Trend(w, q))]
           cx == [w \in Members |-> Sum("tokens", Scan(rollouts[w].lines, q))]
           mine == [w \in Members |-> SumFunctionOnSet(all, {f \in owned : p[f] = w})]
           some == [f \in owned |-> Sum("tokens", Scan(lines[f], q))]
<1>1. IsFiniteSet(FileSet) /\ IsFiniteSet(Members) /\ NoHint \notin Members /\ owned \in SUBSET FileSet /\ IsFiniteSet(owned)
  BY PartsAreFinite, FS_Subset
<1>2. \A w \in Members : OwnedBy(w) = {f \in owned : p[f] = w}
  BY <1>1 DEF OwnedBy
<1>3. \A f \in owned : p[f] \in Members /\ all[f] = some[f]
  <2>1. \A f \in FileSet : Owner(f) \in Members \union {NoHint}
    BY OwnerIs
  <2>2. QED BY <2>1 DEF FileTokens
<1> HIDE DEF owned, p, all
<1>4. \A w \in Members : tr[w] = cx[w] + mine[w] /\ cx[w] \in Int /\ \A f \in FileSet : all[f] \in Int
  BY <1>2, TrendSum DEF all
<1>5. \A w \in Members : mine[w] \in Int
  <2>1. ASSUME NEW w \in Members PROVE SumFunctionOnSet(all, {f \in owned : p[f] = w}) \in Int
    <3> DEFINE T == {f \in owned : p[f] = w}
    <3>1. IsFiniteSet(T) /\ T \subseteq owned
      BY <1>1, FS_Subset
    <3>2. \A f \in T : all[f] \in Int
      BY <1>1, <1>4, <3>1
    <3> HIDE DEF T
    <3>3. SumFunctionOnSet(all, T) \in Int
      BY <3>1, <3>2, SumType
    <3>4. QED BY <3>3 DEF T
  <2>2. QED BY <2>1
<1>6. SumFunctionOnSet(tr, Members) = SumFunctionOnSet(cx, Members) + SumFunctionOnSet(mine, Members)
  <2> HIDE DEF tr, cx, mine
  <2>1. QED BY <1>1, <1>4, <1>5, SumPlus
<1>7. SumFunctionOnSet(mine, Members) = SumFunctionOnSet(all, owned)
  <2>1. \A f \in owned : all[f] \in Int /\ p[f] \in Members
    <3>1. CASE Members = {}
      BY <1>3, <3>1
    <3>2. CASE Members # {}
      BY <1>1, <1>3, <1>4, <3>2
    <3>3. QED BY <3>1, <3>2
  <2>2. QED BY ONLY <1>1, <2>1, SumSplit
<1>8. SumFunctionOnSet(all, owned) = SumFunctionOnSet(some, owned)
  <2> HIDE DEF some
  <2>1. QED BY <1>1, <1>3, SumSame
<1>9. SumFunctionOnSet(mine, Members) \in Int /\ SumFunctionOnSet(cx, Members) \in Int
  <2> HIDE DEF mine, cx
  <2>1. QED BY <1>1, <1>4, <1>5, SumType
<1>10. SumFunctionOnSet(tr, Members) = SumFunctionOnSet(some, owned) + SumFunctionOnSet(cx, Members)
  <2> HIDE DEF mine, cx, tr, some
  <2>1. QED BY <1>6, <1>7, <1>8, <1>9
<1>11. QED BY <1>10 DEF owned

-----------------------------------------------------------------------------
(* The files grow *)

\* A line of now may follow any others.
LEMMA LogGrows ==
  ASSUME NEW ls, Log(ls), NEW line \in Lines,
         \A i \in 1..Len(ls) : ls[i].ts <= line.ts
  PROVE  /\ Log(Append(ls, line)) /\ Append(ls, line) \in Seq(Lines)
         /\ \A i \in 1..Len(Append(ls, line)) : Append(ls, line)[i].ts <= line.ts
<1> DEFINE n == Len(ls)
           ms == Append(ls, line)
<1>1. ls \in Seq(Lines) /\ n \in Nat
      /\ \A i, j \in 1..n : i < j => ls[i].ts <= ls[j].ts
  BY DEF Log
<1>2. ms \in Seq(Lines) /\ Len(ms) = n + 1 /\ ms[n+1] = line /\ \A i \in 1..n : ms[i] = ls[i]
  <2> HIDE DEF n
  <2>1. QED BY <1>1 DEF n
<1>3. line.ts <= line.ts
  <2>1. line.ts \in Int
    BY UsageHistoryAssumption DEF Lines
  <2>2. QED BY <2>1
<1> HIDE DEF n, ms
<1>4. ASSUME NEW i \in 1..(n+1) PROVE i \in 1..n \/ i = n + 1
  BY <1>1
<1>5. \A i \in 1..(n+1) : ms[i].ts <= line.ts
  BY <1>2, <1>3, <1>4 DEF n
<1>6. ASSUME NEW i \in 1..(n+1), NEW j \in 1..(n+1), i < j PROVE ms[i].ts <= ms[j].ts
  <2>1. i \in 1..n
    BY <1>1, <1>6
  <2>2. CASE j \in 1..n
    BY <1>1, <1>2, <1>6, <2>1, <2>2
  <2>3. CASE j = n + 1
    BY <1>2, <1>5, <2>3
  <2>4. QED BY <1>4, <2>2, <2>3
<1>7. Log(ms)
  BY <1>2, <1>6 DEF Log
<1>8. QED BY <1>2, <1>5, <1>7 DEF ms

\* What the agents write are lines of now.
LEMMA WritesAreLines ==
  ASSUME UsageInv
  PROVE  /\ \A t \in scene.turns : LET line == Turn(t.key, t.model, t.tokens, t.tool)
                                   IN  line \in Lines /\ line.ts = clock
         /\ \A h \in scene.notes : Note(h) \in Lines /\ Note(h).ts = clock
         /\ Torn \in Lines /\ Torn.ts = clock
<1>1. clock \in 0..MaxClock /\ scene \in Scenes
  BY DEF UsageInv
<1>2. NoHint \in Hints /\ \A h \in scene.notes : h \in Hints
  BY <1>1 DEF Hints
<1>3. \A t \in scene.turns : t.key \in Keys \union {NoKey} /\ t.model \in Models \union {NoKey} /\ t.tokens \in Nat /\ t.tool \in BOOLEAN
  BY <1>1, UsageHistoryAssumption
<1>4. QED BY <1>1, <1>2, <1>3 DEF Lines, Turn, Note, Torn

\* No file has a line yet.
LEMMA UsageInitHolds ==
  ASSUME UsageInit
  PROVE  UsageInv
<1>1. Log(<<>>) /\ <<>> \in Seq(Lines) /\ Len(<<>>) = 0
  BY DEF Log
<1>2. clock \in 0..MaxClock /\ scene \in Scenes /\ dirs \in scene.layouts
  BY UsageHistoryAssumption DEF UsageInit
<1>3. lines \in [FileSet -> Seq(Lines)] /\ \A f \in FileSet : lines[f] = <<>>
  BY <1>1 DEF UsageInit
<1>4. rollouts \in [Members -> [lines : Seq(Lines), written : Int]]
  BY <1>1 DEF UsageInit, Members
<1>5. \A w \in Members : rollouts[w].lines = <<>> /\ rollouts[w].written = -1
  BY DEF UsageInit, Members
<1>6. \A w \in Members : /\ Log(rollouts[w].lines) /\ rollouts[w].written <= clock
                         /\ \A i \in 1..Len(rollouts[w].lines) : rollouts[w].lines[i].ts <= rollouts[w].written
  BY <1>1, <1>2, <1>5 DEF UsageInit
<1>7. \A f \in FileSet : Log(lines[f]) /\ \A i \in 1..Len(lines[f]) : lines[f][i].ts <= clock
  BY <1>1, <1>3
<1>8. QED BY <1>2, <1>3, <1>4, <1>6, <1>7 DEF UsageInv

\* A line more in a transcript.
LEMMA WriteKeeps ==
  ASSUME UsageInv, NEW f \in scene.files, NEW line \in Lines, line.ts = clock, Write(f, line)
  PROVE  UsageInv'
<1>1. /\ lines' = [lines EXCEPT ![f] = Append(@, line)]
      /\ clock' = clock /\ scene' = scene /\ dirs' = dirs /\ rollouts' = rollouts
  BY DEF Write
<1>2. /\ clock \in 0..MaxClock /\ scene \in Scenes /\ dirs \in scene.layouts
      /\ lines \in [FileSet -> Seq(Lines)]
      /\ \A g \in FileSet : Log(lines[g]) /\ \A i \in 1..Len(lines[g]) : lines[g][i].ts <= clock
  BY DEF UsageInv
<1>3. f \in FileSet
  BY <1>2, UsageHistoryAssumption
<1> DEFINE ms == Append(lines[f], line)
<1>4. Log(ms) /\ ms \in Seq(Lines) /\ \A i \in 1..Len(ms) : ms[i].ts <= clock
  BY <1>2, <1>3, LogGrows
<1> HIDE DEF ms
<1>5. lines' \in [FileSet -> Seq(Lines)] /\ \A g \in FileSet : lines'[g] = IF g = f THEN ms ELSE lines[g]
  BY <1>1, <1>2, <1>3, <1>4 DEF ms
<1>6. \A g \in FileSet : Log(lines'[g]) /\ \A i \in 1..Len(lines'[g]) : lines'[g][i].ts <= clock
  BY <1>2, <1>4, <1>5
<1>7. Members' = Members
  BY <1>1 DEF Members
<1>8. QED BY <1>1, <1>2, <1>5, <1>6, <1>7 DEF UsageInv, Log

\* A count more in a Codex session, which is written now.
LEMMA CountKeeps ==
  ASSUME UsageInv, NEW w \in Members, WriteCount(w)
  PROVE  UsageInv'
<1> DEFINE model == CHOOSE m \in Models : TRUE
<1>1. PICK i, c, o \in 0..1 :
        LET n == CodexTokens([input |-> i, cached |-> c, output |-> o])
        IN  rollouts' = [rollouts EXCEPT ![w] =
                           [lines |-> IF n = 0 THEN @.lines ELSE Append(@.lines, Turn(NoKey, model, n, FALSE)), written |-> clock]]
  BY DEF WriteCount
<1>2. clock' = clock /\ scene' = scene /\ dirs' = dirs /\ lines' = lines /\ Members' = Members
  BY DEF WriteCount, Members
<1> DEFINE n == CodexTokens([input |-> i, cached |-> c, output |-> o])
           line == Turn(NoKey, model, n, FALSE)
           ls == rollouts[w].lines
           ms == IF n = 0 THEN ls ELSE Append(ls, line)
           new == [lines |-> ms, written |-> clock]
<1>3. n \in Nat /\ model \in Models
  <2>1. n = (IF i > c THEN i - c ELSE 0) + c + o
    BY DEF CodexTokens
  <2>2. n \in Nat
    <3> HIDE DEF n
    <3>1. QED BY <2>1
  <2>3. QED BY <2>2, UsageHistoryAssumption
<1>4. /\ clock \in 0..MaxClock /\ clock \in Int
      /\ rollouts \in [Members -> [lines : Seq(Lines), written : Int]]
      /\ \A v \in Members : /\ Log(rollouts[v].lines) /\ rollouts[v].written <= clock
                            /\ \A j \in 1..Len(rollouts[v].lines) : rollouts[v].lines[j].ts <= rollouts[v].written
  <2>1. clock \in 0..MaxClock /\ clock \in Int
    BY UsageHistoryAssumption DEF UsageInv
  <2> HIDE DEF n, model, line, ls, ms, new
  <2>2. QED BY <2>1 DEF UsageInv
<1> HIDE DEF n, model
<1>5. line \in Lines /\ line.ts = clock
  BY <1>3, <1>4 DEF Turn, Lines, Hints
<1> HIDE DEF line
<1>6. Log(ls) /\ ls \in Seq(Lines) /\ \A j \in 1..Len(ls) : ls[j].ts <= clock
  <2>1. Log(ls) /\ ls \in Seq(Lines) /\ rollouts[w].written \in Int
    BY <1>4
  <2>2. \A j \in 1..Len(ls) : ls[j].ts \in Int /\ ls[j].ts <= rollouts[w].written
    <3>1. \A j \in 1..Len(ls) : ls[j] \in Lines
      BY <2>1, LogFacts
    <3> HIDE DEF ls
    <3>2. QED BY <1>4, <3>1 DEF Lines, ls
  <2> HIDE DEF ls
  <2>3. QED BY <1>4, <2>1, <2>2
<1> HIDE DEF ls
<1>7. Log(ms) /\ ms \in Seq(Lines) /\ \A j \in 1..Len(ms) : ms[j].ts <= clock
  <2>1. CASE n = 0
    BY <1>6, <2>1
  <2>2. CASE n # 0
    <3>1. /\ Log(Append(ls, line)) /\ Append(ls, line) \in Seq(Lines)
          /\ \A j \in 1..Len(Append(ls, line)) : Append(ls, line)[j].ts <= line.ts
      BY <1>5, <1>6, LogGrows
    <3>2. QED BY <1>5, <2>2, <3>1
  <2>3. QED BY <2>1, <2>2
<1>8. rollouts' = [rollouts EXCEPT ![w] = new]
  BY <1>1, <1>4 DEF n, line, ls
<1> HIDE DEF ms
<1>9. /\ rollouts' \in [Members -> [lines : Seq(Lines), written : Int]]
      /\ \A v \in Members : rollouts'[v] = IF v = w THEN new ELSE rollouts[v]
  BY <1>4, <1>7, <1>8
<1>10. ASSUME NEW v \in Members
       PROVE  /\ Log(rollouts'[v].lines) /\ rollouts'[v].written <= clock
              /\ \A j \in 1..Len(rollouts'[v].lines) : rollouts'[v].lines[j].ts <= rollouts'[v].written
  <2>1. CASE v = w
    <3>1. rollouts'[v].lines = ms /\ rollouts'[v].written = clock
      BY <1>9, <2>1
    <3>2. QED BY <1>4, <1>7, <3>1
  <2>2. CASE v # w
    <3>1. rollouts'[v] = rollouts[v]
      BY <1>9, <2>2
    <3>2. QED BY <1>4, <3>1
  <2>3. QED BY <2>1, <2>2
<1>11. QED BY <1>2, <1>4, <1>9, <1>10 DEF UsageInv, Log

\* Time passes.
LEMMA TickKeeps ==
  ASSUME UsageInv, Tick
  PROVE  UsageInv'
<1>1. /\ clock < scene.ticks /\ clock' = clock + 1 /\ scene' = scene /\ dirs' = dirs
      /\ lines' = lines /\ rollouts' = rollouts /\ Members' = Members
  BY DEF Tick, Members
<1>2. /\ clock \in 0..MaxClock /\ scene \in Scenes /\ dirs \in scene.layouts
      /\ lines \in [FileSet -> Seq(Lines)]
      /\ \A f \in FileSet : Log(lines[f]) /\ \A i \in 1..Len(lines[f]) : lines[f][i].ts <= clock
      /\ rollouts \in [Members -> [lines : Seq(Lines), written : Int]]
      /\ \A w \in Members : /\ Log(rollouts[w].lines) /\ rollouts[w].written <= clock
                            /\ \A i \in 1..Len(rollouts[w].lines) : rollouts[w].lines[i].ts <= rollouts[w].written
  BY DEF UsageInv
<1>3. scene.ticks \in 0..MaxClock /\ MaxClock \in Nat
  BY <1>2, UsageHistoryAssumption
<1>4. clock' \in 0..MaxClock /\ clock <= clock' /\ clock \in Int /\ clock' \in Int
  BY <1>1, <1>2, <1>3
<1>5. \A f \in FileSet : \A i \in 1..Len(lines[f]) : lines[f][i].ts <= clock'
  <2>1. \A f \in FileSet : \A i \in 1..Len(lines[f]) : lines[f][i] \in Lines
    BY <1>2, LogFacts
  <2>2. \A f \in FileSet : \A i \in 1..Len(lines[f]) : lines[f][i].ts \in Int
    BY <2>1 DEF Lines
  <2>3. QED BY <1>2, <1>4, <2>2
<1>6. \A w \in Members : rollouts[w].written <= clock'
  BY <1>2, <1>4
<1>7. QED BY <1>1, <1>2, <1>4, <1>5, <1>6 DEF UsageInv, Log

\* Every step keeps what holds of the files.
LEMMA UsageStep ==
  ASSUME UsageInv, [UsageNext]_usageVars
  PROVE  UsageInv'
<1>1. ASSUME NEW f \in scene.files, WriteTurn(f) PROVE UsageInv'
  <2>1. PICK t \in scene.turns : Write(f, Turn(t.key, t.model, t.tokens, t.tool))
    BY <1>1 DEF WriteTurn
  <2>2. QED BY <2>1, WritesAreLines, WriteKeeps
<1>2. ASSUME NEW f \in scene.files, WriteNote(f) PROVE UsageInv'
  BY <1>2, WritesAreLines, WriteKeeps DEF WriteNote
<1>3. ASSUME NEW f \in scene.files, WriteTorn(f) PROVE UsageInv'
  BY <1>3, WritesAreLines, WriteKeeps DEF WriteTorn
<1>4. ASSUME NEW w \in Members, WriteCount(w) PROVE UsageInv'
  BY <1>4, CountKeeps
<1>5. ASSUME Tick PROVE UsageInv'
  BY <1>5, TickKeeps
<1>6. CASE UNCHANGED usageVars
  BY <1>6 DEF usageVars, UsageInv, Members, Log
<1>7. QED BY <1>1, <1>2, <1>3, <1>4, <1>5, <1>6 DEF UsageNext

\* Files that grew so are reported exactly.
LEMMA UsageInvIsExact ==
  ASSUME UsageInv
  PROVE  UsageIsExact
<1>1. \A f \in FileSet : Log(lines[f])
  BY DEF UsageInv
<1>2. Written \subseteq FileSet
  BY DEF Written
<1>3. EveryTurnCountsOnce
  <2>1. SUFFICES ASSUME NEW f \in Written
        PROVE  LET ls  == lines[f]
                   agg == Tally(ls)[Len(ls)]
               IN  /\ agg.cumulative = TokensOf(ls, LastOf(ls))
                   /\ agg.turns = Cardinality(LastOf(ls))
                   /\ Named(ls) => \A m \in Models :
                        LET its == {i \in LastOf(ls) : ls[i].model = m}
                        IN  agg.models[m] = [tokens |-> TokensOf(ls, its), turns |-> Cardinality(its)]
    BY Zenon DEF EveryTurnCountsOnce
  <2>2. Log(lines[f])
    BY <1>1, <1>2
  <2>3. QED BY <2>2, CountHolds
<1>4. WindowsAddUp
  <2>1. SUFFICES ASSUME NEW f \in Written, NEW q \in Queries
        PROVE  LET ls      == lines[f]
                   before  == Tally(ls)[LinesBefore(ls, q.since)]
                   after   == Tally(ls)[LinesBefore(ls, q.until)]
                   buckets == Scan(ls, q)
               IN  /\ Sum("tokens", buckets) = after.cumulative - before.cumulative
                   /\ Sum("turns", buckets) = after.turns - before.turns
                   /\ Sum("proxy", buckets) = after.proxy.total - before.proxy.total
    BY Zenon DEF WindowsAddUp
  <2>2. Log(lines[f])
    BY <1>1, <1>2
  <2>3. QED BY <2>2, WindowHolds
<1>5. NothingIsCountedTwice
  BY NothingTwice DEF NothingIsCountedTwice
<1>6. NobodyIsGuessed
  BY OwnerIs DEF NobodyIsGuessed
<1>7. QED BY <1>3, <1>4, <1>5, <1>6 DEF UsageIsExact

\* UsageIsExact holds in every behaviour of the usage reports, for any transcripts, requests, models,
\* workspaces and directories, any window and any size of buckets: scan_transcript, assign_series and
\* query_history count each turn once, in the window where it was written, for one workspace at most.
THEOREM UsageHolds == UsageSpec => []UsageIsExact
<1>1. UsageInit => UsageInv
  BY UsageInitHolds
<1>2. UsageInv /\ [UsageNext]_usageVars => UsageInv'
  BY UsageStep
<1>3. UsageInv => UsageIsExact
  BY UsageInvIsExact
<1>4. QED BY <1>1, <1>2, <1>3, PTL DEF UsageSpec
=============================================================================
