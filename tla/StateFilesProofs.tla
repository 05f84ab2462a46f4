-------------------------- MODULE StateFilesProofs --------------------------
(***************************************************************************)
(* Proofs about the small stores, for any number of callers, calls, failed *)
(* writes and crashes: the memory store implements MemoryLedger, what it   *)
(* holds is what the file holds whenever its lock is free, and shared      *)
(* values, history and temp files agree with the disk.                     *)
(*                                                                         *)
(* The lock's holder is the only call between the change in memory and its *)
(* rename or its undoing, so the memories are then the file's with that    *)
(* one call marked (Held).  Undoing restores the file's memories exactly   *)
(* because an unmarked memory carries the stamp of the call that stored it *)
(* (Sound).                                                                *)
(*                                                                         *)
(* The second part is about the git status, for any histories of the work  *)
(* tree and any number of callers: what is shown is right (GitIsRight).    *)
(* What the recursive Fields and Parse compute is found by induction over  *)
(* the entries, as a set of positions that has a smallest member; ParseAt  *)
(* then says where the parser stands after each entry.                     *)
(*                                                                         *)
(* The third part is about loading a tree of projects, for any files and   *)
(* any edits while they are read (LoadsAreRight).  Mounts is shown to be   *)
(* the least set that holds the root and the children of what it holds,    *)
(* and the walk to be somewhere in it: what was read and what is still to  *)
(* be looked for cover it, so a walk that comes to its end has read it all *)
(***************************************************************************)
EXTENDS StateFiles, GitStatus, ConfigTree, FiniteSetTheorems, SequenceTheorems, TLAPS

Values == [Keys -> 0 .. MaxCalls]
MemMaps == UNION {[D -> Memory] : D \in SUBSET Ids}

CallType ==
    [op : {"none", "set", "remember", "append"},
     pc : {"idle", "temp", "rename", "saved", "failed", "lock", "file"},
     id : Ids \cup {NoId}, topic : Topics, olds : SUBSET Ids,
     data : {<<>>} \cup Values \cup MemMaps]

Types ==
    /\ up \in BOOLEAN /\ open \in BOOLEAN /\ alone \in BOOLEAN /\ logged \in BOOLEAN
    /\ values \in Values /\ memories \in MemMaps
    /\ disk \in [values : Values, memories : MemMaps]
    /\ holder \in Callers \cup {NoId}
    /\ ring \in Seq(Ids \cup {Torn}) /\ Len(ring) <= RingSize
    /\ log \in Seq(Ids \cup {Torn}) /\ (open => log # <<>>)
    /\ temps \subseteq Callers \cup {NoId}
    /\ call \in [Callers -> CallType]
    /\ used \in 0 .. MaxCalls /\ faults \in 0 .. MaxFaults

(* Marks and lists of a store agree, nothing in it points outside it, and an  *)
(* unmarked memory carries the stamp of the call that stored it.              *)
Mutual(ms) ==
    \A i, j \in DOMAIN ms : /\ (ms[i].by = j) <=> (i \in ms[j].supersedes)
                            /\ ms[i].by = j => ms[i].at = j
Sound(ms, ids) ==
    /\ DOMAIN ms \subseteq ids
    /\ \A i \in DOMAIN ms : /\ ms[i].by \in DOMAIN ms \cup {NoId}
                            /\ ms[i].supersedes \subseteq DOMAIN ms
                            /\ ms[i].by = NoId => ms[i].at = i
    /\ Mutual(ms)

Unmarked(ms, olds) == olds \subseteq DOMAIN ms /\ \A o \in olds : ms[o].by = NoId

(* Where a call can be.                                                       *)
Stages ==
    \A p \in Callers :
        /\ call[p].op = "none" => call[p].pc = "idle"
        /\ call[p].op = "append" => call[p].pc = "file"
        /\ call[p].op = "set" => /\ call[p].pc \in {"temp", "rename", "saved", "failed"}
                                 /\ call[p].data \in Values
        /\ call[p].op = "remember" =>
              /\ call[p].pc \in {"lock", "temp", "rename", "saved", "failed"}
              /\ call[p].pc = "lock" <=> p # holder
        /\ p = holder => call[p].op = "remember"
        /\ ~up => call[p] = NoCall

(* Calls have numbers of their own, and one that has not changed the store    *)
(* yet has a number that is not in it.                                        *)
Numbers ==
    \A p \in Callers : call[p].op # "none" =>
        /\ call[p].id \in 1 .. used
        /\ \A q \in Callers : call[q].op # "none" /\ p # q => call[q].id # call[p].id
        /\ call[p].op = "remember" /\ call[p].pc = "lock" => call[p].id \notin DOMAIN memories

(* The memories against the file: the same, but for the one call that holds   *)
(* the lock and has not been saved.                                           *)
Held ==
    /\ up /\ holder = NoId => memories = disk.memories
    /\ ~up => holder = NoId
    /\ holder # NoId =>
          /\ call[holder].pc = "saved" => memories = disk.memories
          /\ call[holder].pc \in {"temp", "rename", "failed"} =>
                /\ call[holder].id \notin DOMAIN disk.memories
                /\ Unmarked(disk.memories, call[holder].olds)
                /\ memories = Marked(disk.memories, call[holder].id, call[holder].topic,
                                     call[holder].olds)
          /\ call[holder].pc \in {"temp", "rename"} => call[holder].data = memories

(* Shared values: while no two sets overlapped, the one that is under way     *)
(* writes what the store holds.                                               *)
Sets ==
    alone =>
        /\ up /\ ~SetInFlight => disk.values = values
        /\ \A p \in Callers : call[p].op = "set" =>
              /\ call[p].pc \in {"temp", "rename"} => call[p].data = values
              /\ call[p].pc = "saved" => disk.values = values
              /\ \A q \in Callers : call[q].op = "set" => q = p

Appending == {p \in Callers : call[p].op = "append"}

(* The ring against the log, with the lines that are still to be written.     *)
Lines ==
    /\ IsFiniteSet(Appending)
    /\ logged => ~open
    /\ up /\ logged =>
          /\ Range(ring) \subseteq Range(log) \cup {call[p].id : p \in Appending}
          /\ LET n == Len(log) + Cardinality(Appending)
             IN  Len(ring) = IF n < RingSize THEN n ELSE RingSize

(* The inductive invariant.                                                   *)
StoresInv ==
    /\ Types /\ Stages /\ Numbers /\ Held /\ Sound(memories, 1 .. used) /\ Sound(disk.memories, 1 .. used)
    /\ Sets /\ Lines /\ TempsAreInUse

-----------------------------------------------------------------------------
(* How a step changes the calls                                               *)

Moved(p) == \A q \in Callers : q # p => call'[q] = call[q]

(* The data of a call fit any store.                                          *)
Data == {<<>>} \cup Values \cup MemMaps

(* Goto changes one call's step and nothing else of it.                       *)
LEMMA GotoMoves ==
  ASSUME Types, NEW p \in Callers,
         NEW pc \in {"idle", "temp", "rename", "saved", "failed", "lock", "file"}, Goto(p, pc)
  PROVE  /\ call' \in [Callers -> CallType] /\ Moved(p)
         /\ call'[p].pc = pc /\ call'[p].op = call[p].op /\ call'[p].id = call[p].id
         /\ call'[p].topic = call[p].topic /\ call'[p].olds = call[p].olds
         /\ call'[p].data = call[p].data
<1> DEFINE old == call[p]
           new == [old EXCEPT !.pc = pc]
<1>1. old \in CallType /\ call \in [Callers -> CallType]
  BY DEF Types
<1> HIDE DEF old
<1>2. new \in CallType
  BY <1>1 DEF CallType
<1>3. /\ new.pc = pc /\ new.op = old.op /\ new.id = old.id
      /\ new.topic = old.topic /\ new.olds = old.olds /\ new.data = old.data
  BY <1>1 DEF CallType
<1>4. call' = [call EXCEPT ![p] = new]
  BY DEF Goto, old
<1> HIDE DEF new
<1>5. call' \in [Callers -> CallType] /\ Moved(p) /\ call'[p] = new
  BY <1>1, <1>2, <1>4 DEF Moved
<1>6. QED BY <1>3, <1>5 DEF old

(* Answer ends one call.                                                      *)
LEMMA AnswerMoves ==
  ASSUME Types, NEW p \in Callers, Answer(p)
  PROVE  /\ call' \in [Callers -> CallType] /\ Moved(p) /\ call'[p] = NoCall
<1>1. NoCall \in CallType
  BY DEF NoCall, CallType, Topics
<1>2. QED BY <1>1 DEF Types, Answer, Moved

(* Enter starts one call, with the next number.                               *)
LEMMA EnterMoves ==
  ASSUME Types, NEW p \in Callers, NEW op \in {"set", "remember", "append"},
         NEW pc \in {"temp", "lock", "file"}, NEW topic \in Topics, NEW olds \in SUBSET Ids,
         NEW data \in Data, Enter(p, op, pc, topic, olds, data)
  PROVE  /\ call' \in [Callers -> CallType] /\ Moved(p)
         /\ call'[p].op = op /\ call'[p].pc = pc /\ call'[p].id = used + 1
         /\ call'[p].topic = topic /\ call'[p].olds = olds /\ call'[p].data = data
         /\ call[p].op = "none" /\ up /\ used' = used + 1 /\ used' \in 1 .. MaxCalls
         /\ UNCHANGED <<up, disk, log, open, temps, logged, faults>>
<1> DEFINE new == [op |-> op, pc |-> pc, id |-> used + 1, topic |-> topic, olds |-> olds,
                   data |-> data]
<1>1. call' = [call EXCEPT ![p] = new] /\ used' = used + 1 /\ used < MaxCalls /\ call[p].op = "none" /\ up
      /\ UNCHANGED <<up, disk, log, open, temps, logged, faults>>
  BY DEF Enter, Idle
<1>2. used + 1 \in Ids
  BY <1>1, StateFilesAssumption DEF Types, Ids
<1>3. new \in CallType
  BY <1>2 DEF CallType, Data
<1>4. new.op = op /\ new.pc = pc /\ new.id = used + 1 /\ new.topic = topic /\ new.olds = olds
      /\ new.data = data
  OBVIOUS
<1> HIDE DEF new
<1>5. QED BY <1>1, <1>2, <1>3, <1>4 DEF Types, Moved, Ids

-----------------------------------------------------------------------------
(* The memories                                                               *)

(* Every map of memories is a function on some numbers.                       *)
LEMMA MapFacts ==
  ASSUME NEW ms \in MemMaps
  PROVE  /\ DOMAIN ms \subseteq Ids /\ ms = [i \in DOMAIN ms |-> ms[i]]
         /\ \A i \in DOMAIN ms : ms[i] \in Memory
  BY DEF MemMaps

(* Numbers are not NoId.                                                      *)
LEMMA IdFacts == Ids \subseteq Nat /\ NoId \notin Ids /\ NoId \notin Callers
  BY StateFilesAssumption DEF Ids

(* A function on some numbers is a map of memories.                           *)
LEMMA MapMade ==
  ASSUME NEW D \in SUBSET Ids, NEW ms \in [D -> Memory]
  PROVE  ms \in MemMaps /\ DOMAIN ms = D
  BY DEF MemMaps

(* What remember makes of the memories: marks and lists stay in step, and     *)
(* undoing it gives back what was there.                                      *)
LEMMA MarkedFacts ==
  ASSUME NEW ms \in MemMaps, NEW ids, Sound(ms, ids), NEW id \in Ids, id \in ids,
         id \notin DOMAIN ms, NEW topic \in Topics, NEW olds, Unmarked(ms, olds)
  PROVE  /\ Marked(ms, id, topic, olds) \in MemMaps
         /\ DOMAIN Marked(ms, id, topic, olds) = DOMAIN ms \cup {id}
         /\ Sound(Marked(ms, id, topic, olds), ids)
         /\ RolledBack(Marked(ms, id, topic, olds), id, olds) = ms
<1> DEFINE fresh == [topic |-> topic, supersedes |-> olds, by |-> NoId, at |-> id]
           old == [i \in DOMAIN ms |-> [ms[i] EXCEPT !.by = id, !.at = id]]
           D == DOMAIN ms \cup {id}
           new == Marked(ms, id, topic, olds)
<1>1. /\ DOMAIN ms \subseteq Ids /\ D \in SUBSET Ids /\ olds \in SUBSET Ids
      /\ \A i \in DOMAIN ms : ms[i] \in Memory
  BY MapFacts DEF Unmarked
<1>2. /\ fresh \in Memory /\ fresh.by = NoId /\ fresh.at = id /\ fresh.supersedes = olds
  BY <1>1 DEF Memory, Topics
<1>3. \A i \in DOMAIN ms : /\ old[i] \in Memory /\ old[i].by = id /\ old[i].at = id
                           /\ old[i].supersedes = ms[i].supersedes
                           /\ old[i].topic = ms[i].topic
  <2>1. ASSUME NEW m \in Memory, NEW n, n = [m EXCEPT !.by = id, !.at = id]
        PROVE  /\ n \in Memory /\ n.by = id /\ n.at = id /\ n.supersedes = m.supersedes
               /\ n.topic = m.topic
    BY <2>1 DEF Memory
  <2>2. QED BY <1>1, <2>1
<1>4. new = [i \in D |-> IF i = id THEN fresh ELSE IF i \in olds THEN old[i] ELSE ms[i]]
  BY DEF Marked
<1>5. /\ olds \subseteq DOMAIN ms /\ id \notin olds
      /\ \A i \in olds : ms[i].by = NoId /\ ms[i].at = i
  BY DEF Unmarked, Sound
<1> HIDE DEF fresh, old, new
<1>6. new \in [D -> Memory]
  BY <1>1, <1>2, <1>3, <1>4
<1>7. new \in MemMaps /\ DOMAIN new = D
  BY <1>1, <1>6, MapMade
<1>8. /\ new[id] = fresh /\ \A i \in olds : new[i] = old[i]
      /\ \A i \in DOMAIN ms \ olds : new[i] = ms[i]
  BY <1>4, <1>5
<1>9. /\ DOMAIN new = DOMAIN ms \cup {id}
      /\ new[id].by = NoId /\ new[id].at = id /\ new[id].supersedes = olds
      /\ \A i \in olds : /\ new[i].by = id /\ new[i].at = id
                         /\ new[i].supersedes = ms[i].supersedes
                         /\ new[i].topic = ms[i].topic
      /\ \A i \in DOMAIN ms \ olds : new[i] = ms[i]
  BY <1>2, <1>3, <1>5, <1>7, <1>8
<1>10. NoId \notin Ids /\ id # NoId
  BY IdFacts
<1>11. DOMAIN new \subseteq ids
  BY <1>9 DEF Sound
<1>12. ASSUME NEW i \in DOMAIN new
       PROVE  /\ new[i].by \in DOMAIN new \cup {NoId} /\ new[i].supersedes \subseteq DOMAIN new
              /\ new[i].by = NoId => new[i].at = i
  BY <1>5, <1>9, <1>10 DEF Sound
<1>13. ASSUME NEW i \in DOMAIN new, NEW j \in DOMAIN new
       PROVE  /\ (new[i].by = j) <=> (i \in new[j].supersedes)
              /\ new[i].by = j => new[i].at = j
  <2>1. CASE i \in DOMAIN ms /\ j \in DOMAIN ms
    BY <1>1, <1>5, <1>9, <1>10, <2>1 DEF Sound, Mutual
  <2>2. CASE i = id
    <3>1. new[i].by = NoId /\ NoId # j
      BY <1>1, <1>9, <1>10, <2>2
    <3>2. i \notin new[j].supersedes
      BY <1>5, <1>9, <2>2 DEF Sound
    <3>3. QED BY <3>1, <3>2
  <2>3. CASE i \in DOMAIN ms /\ j = id
    <3>1. new[i].by = j <=> i \in olds
      BY <1>9, <1>10, <2>3 DEF Sound
    <3>2. QED BY <1>9, <1>10, <2>3, <3>1 DEF Sound
  <2>4. QED BY <1>9, <2>1, <2>2, <2>3
<1>14. Sound(new, ids)
  BY <1>11, <1>12, <1>13 DEF Sound, Mutual
<1>15. \A i \in olds : [new[i] EXCEPT !.by = NoId, !.at = i] = ms[i]
  <2>1. ASSUME NEW m \in Memory, NEW n \in Memory, n.supersedes = m.supersedes,
               n.topic = m.topic, m.by = NoId, NEW i \in Ids, m.at = i
        PROVE  [n EXCEPT !.by = NoId, !.at = i] = m
    BY <2>1 DEF Memory
  <2>2. ASSUME NEW i \in olds PROVE [new[i] EXCEPT !.by = NoId, !.at = i] = ms[i]
    <3>1. /\ i \in Ids /\ ms[i] \in Memory /\ new[i] \in Memory
          /\ new[i].supersedes = ms[i].supersedes /\ new[i].topic = ms[i].topic
          /\ ms[i].by = NoId /\ ms[i].at = i
      BY <1>1, <1>5, <1>6, <1>9
    <3>2. QED BY <2>1, <3>1
  <2>3. QED BY <2>2
<1>16. DOMAIN new \ {id} = DOMAIN ms
  BY <1>9
<1>17. \A i \in DOMAIN ms :
          (IF i \in olds THEN [new[i] EXCEPT !.by = NoId, !.at = i] ELSE new[i]) = ms[i]
  BY <1>9, <1>15
<1>18. RolledBack(new, id, olds) = [i \in DOMAIN ms |-> ms[i]]
  BY <1>16, <1>17 DEF RolledBack
<1>19. RolledBack(new, id, olds) = ms
  BY <1>18, MapFacts
<1>20. QED BY <1>7, <1>14, <1>19 DEF new

-----------------------------------------------------------------------------
(* What a step of one call leaves in place                                    *)

(* The calls that are elsewhere do not notice.                                *)
LEMMA HeldFrame ==
  ASSUME Types, Held, NEW p \in Callers, Moved(p), p # holder,
         UNCHANGED <<up, holder, memories>>, disk'.memories = disk.memories
  PROVE  Held'
<1>1. holder # NoId => call'[holder] = call[holder]
  BY DEF Types, Moved
<1>2. QED BY <1>1 DEF Held

(* A step of a call that is no set leaves the values as they were.            *)
LEMMA SetsFrame ==
  ASSUME Sets, NEW p \in Callers, Moved(p), call[p].op # "set", call'[p].op # "set",
         UNCHANGED <<up, alone, values>>, disk'.values = disk.values
  PROVE  Sets'
<1>1. \A q \in Callers : call'[q].op = "set" => q # p /\ call'[q] = call[q]
  BY DEF Moved
<1>2. SetInFlight <=> SetInFlight'
  BY <1>1 DEF SetInFlight, Moved
<1>3. QED BY <1>1, <1>2 DEF Sets

(* A step of a call that is no append leaves ring and log as they were.       *)
LEMMA LinesFrame ==
  ASSUME Lines, NEW p \in Callers, Moved(p), call[p].op # "append", call'[p].op # "append",
         UNCHANGED <<up, logged, open, ring, log>>
  PROVE  Lines'
<1>1. Appending' = Appending /\ p \notin Appending
  BY DEF Appending, Moved
<1>2. {call'[q].id : q \in Appending'} = {call[q].id : q \in Appending}
  <2>1. \A q \in Appending : call'[q] = call[q]
    BY <1>1 DEF Appending, Moved
  <2>2. QED BY <1>1, <2>1
<1>3. QED BY <1>1, <1>2 DEF Lines

(* A call that is not about to rename has no temp file.                       *)
LEMMA TempsFrame ==
  ASSUME Types, TempsAreInUse, NEW p \in Callers, Moved(p), call[p].pc # "rename", temps' = temps
  PROVE  TempsAreInUse'
<1>1. ASSUME NEW q \in temps \ {NoId} PROVE call'[q].pc = "rename"
  BY DEF Types, TempsAreInUse, Moved
<1>2. QED BY <1>1 DEF TempsAreInUse

(* A store stays sound when a number is given out.                            *)
LEMMA SoundGrows ==
  ASSUME NEW ms, NEW n \in Nat, Sound(ms, 1 .. n)
  PROVE  Sound(ms, 1 .. n + 1)
<1>1. 1 .. n \subseteq 1 .. n + 1
  OBVIOUS
<1>2. QED BY <1>1 DEF Sound

(* A new call has a number that nobody has and that is in no store.           *)
LEMMA EnterNumbers ==
  ASSUME Types, Numbers, Sound(memories, 1 .. used), NEW p \in Callers, Moved(p),
         call'[p].id = used + 1, used' = used + 1, memories' = memories
  PROVE  Numbers'
<1>1. used \in Nat /\ used' = used + 1 /\ \A i \in 1 .. used : i \in 1 .. used' /\ i # used + 1
      /\ used + 1 \in 1 .. used'
  BY DEF Types
<1>2. used + 1 \notin DOMAIN memories
  BY <1>1 DEF Sound
<1>3. ASSUME NEW q \in Callers, call'[q].op # "none"
      PROVE  /\ call'[q].id \in 1 .. used'
             /\ \A r \in Callers : call'[r].op # "none" /\ q # r => call'[r].id # call'[q].id
             /\ call'[q].op = "remember" /\ call'[q].pc = "lock" => call'[q].id \notin DOMAIN memories'
  <2>1. CASE q = p
    BY <1>1, <1>2, <2>1 DEF Numbers, Moved
  <2>2. CASE q # p
    BY <1>1, <1>3, <2>2 DEF Numbers, Moved
  <2>3. QED BY <2>1, <2>2
<1>4. QED BY <1>3 DEF Numbers

(* A call that goes on keeps its number; one that ends has none to compare.   *)
LEMMA NumbersFrame ==
  ASSUME Numbers, NEW p \in Callers, Moved(p), UNCHANGED used,
         \/ call'[p].op = "none"
         \/ call'[p].op = call[p].op /\ call'[p].id = call[p].id /\ call'[p].pc # "lock",
         \A q \in Callers : q # p /\ call[q].op = "remember" /\ call[q].pc = "lock" =>
                               call[q].id \notin DOMAIN memories'
  PROVE  Numbers'
<1>1. ASSUME NEW q \in Callers, call'[q].op # "none"
      PROVE  /\ call'[q].id = call[q].id /\ call[q].op # "none"
             /\ call'[q].pc = "lock" => call'[q] = call[q] /\ q # p
  BY <1>1 DEF Moved
<1>2. QED BY <1>1 DEF Numbers

-----------------------------------------------------------------------------
(* Shared values                                                              *)

(* set: the snapshot it will write is the store, as long as it is alone.      *)
LEMMA SetSharedKeeps ==
  ASSUME StoresInv, NEW p \in Callers, NEW k \in Keys, SetShared(p, k)
  PROVE  StoresInv'
<1>1. /\ Types /\ Stages /\ Numbers /\ Held /\ Sound(memories, 1 .. used)
      /\ Sound(disk.memories, 1 .. used) /\ Sets /\ Lines /\ TempsAreInUse
  BY DEF StoresInv
<1>2. /\ values' \in Values /\ Enter(p, "set", "temp", "a", {}, values')
      /\ alone' = (alone /\ ~SetInFlight) /\ UNCHANGED <<memories, holder, ring>>
  <2>1. used < MaxCalls /\ values' = [values EXCEPT ![k] = used + 1]
    BY DEF SetShared, Enter
  <2>2. used + 1 \in 0 .. MaxCalls
    BY <1>1, <2>1, StateFilesAssumption DEF Types
  <2>3. QED BY <1>1, <2>1, <2>2 DEF Types, Values, SetShared
<1>3. /\ call' \in [Callers -> CallType] /\ Moved(p)
      /\ call'[p].op = "set" /\ call'[p].pc = "temp" /\ call'[p].id = used + 1
      /\ call'[p].data = values'
      /\ call[p].op = "none" /\ up /\ used' = used + 1 /\ used' \in 1 .. MaxCalls
      /\ UNCHANGED <<up, disk, log, open, temps, logged, faults>>
  BY <1>1, <1>2, EnterMoves DEF Topics, Data
<1>4. p # holder
  BY <1>1, <1>3 DEF Stages
<1>5. alone' \in BOOLEAN
  BY <1>2
<1>6. Types'
  BY <1>1, <1>2, <1>3, <1>5 DEF Types
<1>7. Stages'
  BY <1>1, <1>2, <1>3, <1>4 DEF Stages, Moved
<1>8. Numbers' /\ Held'
  BY <1>1, <1>2, <1>3, <1>4, EnterNumbers, HeldFrame
<1>9. Sound(memories, 1 .. used)' /\ Sound(disk.memories, 1 .. used)'
  BY <1>1, <1>2, <1>3, SoundGrows DEF Types
<1>10. Sets'
  <2>1. SetInFlight' /\ (alone' => ~SetInFlight)
    BY <1>2, <1>3 DEF SetInFlight
  <2>2. alone' => \A q \in Callers : call'[q].op = "set" => q = p
    BY <1>3, <2>1 DEF SetInFlight, Moved
  <2>3. QED BY <1>3, <2>1, <2>2 DEF Sets
<1>11. Lines' /\ TempsAreInUse'
  <2>1. call[p].pc # "rename"
    BY <1>1, <1>3 DEF Stages
  <2>2. QED BY <1>1, <1>2, <1>3, <2>1, LinesFrame, TempsFrame
<1>12. QED BY <1>6, <1>7, <1>8, <1>9, <1>10, <1>11 DEF StoresInv

(* The answer of a set; a failed one ends the time of lone sets.              *)
LEMMA SetAnswerKeeps ==
  ASSUME StoresInv, NEW p \in Callers, SetAnswer(p)
  PROVE  StoresInv'
<1>1. /\ Types /\ Stages /\ Numbers /\ Held /\ Sound(memories, 1 .. used)
      /\ Sound(disk.memories, 1 .. used) /\ Sets /\ Lines /\ TempsAreInUse
  BY DEF StoresInv
<1>2. /\ up /\ call[p].op = "set" /\ call[p].pc \in {"saved", "failed"}
      /\ alone' = (alone /\ call[p].pc = "saved") /\ Answer(p)
      /\ UNCHANGED <<up, values, memories, holder, ring, disk, log, open, temps, used, logged,
                     faults>>
  BY DEF SetAnswer
<1>3. call' \in [Callers -> CallType] /\ Moved(p) /\ call'[p] = NoCall
  BY <1>1, <1>2, AnswerMoves
<1>4. p # holder /\ alone' \in BOOLEAN /\ NoCall.op = "none" /\ NoCall.pc = "idle"
  BY <1>1, <1>2 DEF Stages, NoCall
<1>5. Types'
  BY <1>1, <1>2, <1>3, <1>4 DEF Types
<1>6. Stages'
  BY <1>1, <1>2, <1>3, <1>4 DEF Stages, Moved
<1>7. Numbers' /\ Held'
  <2>1. \A q \in Callers : q # p /\ call[q].op = "remember" /\ call[q].pc = "lock" =>
                               call[q].id \notin DOMAIN memories'
    BY <1>1, <1>2 DEF Numbers
  <2>2. QED BY <1>1, <1>2, <1>3, <1>4, <2>1, NumbersFrame, HeldFrame
<1>8. Sets'
  <2>1. CASE alone'
    <3>1. alone /\ call[p].pc = "saved" /\ disk.values = values
      BY <1>1, <1>2, <2>1 DEF Sets
    <3>2. \A q \in Callers : call'[q].op # "set"
      BY <1>1, <1>2, <1>3, <1>4, <3>1 DEF Sets, Moved
    <3>3. QED BY <1>2, <3>1, <3>2 DEF Sets
  <2>2. QED BY <2>1 DEF Sets
<1>9. Lines' /\ TempsAreInUse'
  BY <1>1, <1>2, <1>3, <1>4, LinesFrame, TempsFrame
<1>10. QED BY <1>1, <1>2, <1>5, <1>6, <1>7, <1>8, <1>9 DEF StoresInv

-----------------------------------------------------------------------------
(* write_file_atomic                                                          *)

(* The temp file is written; nobody else sees it.                             *)
LEMMA WriteTempKeeps ==
  ASSUME StoresInv, NEW p \in Callers, WriteTemp(p)
  PROVE  StoresInv'
<1>1. /\ Types /\ Stages /\ Numbers /\ Held /\ Sound(memories, 1 .. used)
      /\ Sound(disk.memories, 1 .. used) /\ Sets /\ Lines /\ TempsAreInUse
  BY DEF StoresInv
<1>2. /\ up /\ call[p].pc = "temp" /\ temps' = temps \cup {p} /\ Goto(p, "rename")
      /\ UNCHANGED <<up, values, memories, holder, ring, disk, log, open, used, alone, logged,
                     faults>>
  BY DEF WriteTemp, history
<1>3. /\ call' \in [Callers -> CallType] /\ Moved(p)
      /\ call'[p].pc = "rename" /\ call'[p].op = call[p].op /\ call'[p].id = call[p].id
      /\ call'[p].topic = call[p].topic /\ call'[p].olds = call[p].olds
      /\ call'[p].data = call[p].data
  BY <1>1, <1>2, GotoMoves
<1>4. call[p].op \in {"set", "remember"} /\ (call[p].op = "remember" <=> p = holder)
  BY <1>1, <1>2 DEF Stages, Types, CallType
<1>5. Types'
  BY <1>1, <1>2, <1>3 DEF Types
<1>6. Stages'
  BY <1>1, <1>2, <1>3, <1>4 DEF Stages, Moved
<1>7. Numbers'
  <2>1. \A q \in Callers : q # p /\ call[q].op = "remember" /\ call[q].pc = "lock" =>
                               call[q].id \notin DOMAIN memories'
    BY <1>1, <1>2 DEF Numbers
  <2>2. QED BY <1>1, <1>2, <1>3, <2>1, NumbersFrame
<1>8. Held'
  <2>1. CASE p = holder
    BY <1>1, <1>2, <1>3, <2>1 DEF Held
  <2>2. CASE p # holder
    BY <1>1, <1>2, <1>3, <2>2, HeldFrame
  <2>3. QED BY <2>1, <2>2
<1>9. Sets'
  <2>1. \A q \in Callers : call'[q].op = call[q].op /\ call'[q].data = call[q].data
    BY <1>3 DEF Moved
  <2>2. SetInFlight' <=> SetInFlight
    BY <2>1 DEF SetInFlight
  <2>3. \A q \in Callers : call'[q].pc = call[q].pc \/ (call[q].pc = "temp" /\ call'[q].pc = "rename")
    BY <1>2, <1>3 DEF Moved
  <2>4. QED BY <1>1, <1>2, <2>1, <2>2, <2>3 DEF Sets
<1>10. Lines'
  BY <1>1, <1>2, <1>3, <1>4, LinesFrame
<1>11. TempsAreInUse'
  <2>1. ASSUME NEW q \in temps' \ {NoId} PROVE call'[q].pc = "rename"
    BY <1>1, <1>2, <1>3 DEF Types, TempsAreInUse, Moved
  <2>2. QED BY <2>1 DEF TempsAreInUse
<1>12. QED BY <1>1, <1>2, <1>5, <1>6, <1>7, <1>8, <1>9, <1>10, <1>11 DEF StoresInv

(* The rename puts a call's snapshot in place: for a set the values, for a    *)
(* remember the memories of the lock's holder.                                *)
LEMMA RenameTempKeeps ==
  ASSUME StoresInv, NEW p \in Callers, RenameTemp(p)
  PROVE  /\ StoresInv'
         /\ call[p].op = "set" => disk'.memories = disk.memories
         /\ call[p].op = "remember" => p = holder /\ disk'.memories = call[p].data
<1>1. /\ Types /\ Stages /\ Numbers /\ Held /\ Sound(memories, 1 .. used)
      /\ Sound(disk.memories, 1 .. used) /\ Sets /\ Lines /\ TempsAreInUse
  BY DEF StoresInv
<1>2. /\ up /\ call[p].pc = "rename" /\ temps' = temps \ {p} /\ Goto(p, "saved")
      /\ disk' = [disk EXCEPT ![FileOf(p)] = call[p].data]
      /\ UNCHANGED <<up, values, memories, holder, ring, log, open, used, alone, logged, faults>>
  BY DEF RenameTemp, history
<1>3. /\ call' \in [Callers -> CallType] /\ Moved(p)
      /\ call'[p].pc = "saved" /\ call'[p].op = call[p].op /\ call'[p].id = call[p].id
      /\ call'[p].topic = call[p].topic /\ call'[p].olds = call[p].olds
      /\ call'[p].data = call[p].data
  BY <1>1, <1>2, GotoMoves
<1>4. call[p].op \in {"set", "remember"} /\ (call[p].op = "remember" <=> p = holder)
  BY <1>1, <1>2 DEF Stages, Types, CallType
<1>5. call[p].op = "set" =>
         /\ disk' \in [values : Values, memories : MemMaps]
         /\ disk'.values = call[p].data /\ disk'.memories = disk.memories
  <2>1. ASSUME call[p].op = "set" PROVE disk' = [disk EXCEPT !.values = call[p].data]
    BY <1>2, <2>1 DEF FileOf
  <2>2. call[p].op = "set" => call[p].data \in Values
    BY <1>1 DEF Stages
  <2>3. QED BY <1>1, <2>1, <2>2 DEF Types
<1>6. call[p].op = "remember" =>
         /\ disk' \in [values : Values, memories : MemMaps]
         /\ disk'.values = disk.values /\ disk'.memories = call[p].data /\ call[p].data = memories
  <2>1. ASSUME call[p].op = "remember" PROVE disk' = [disk EXCEPT !.memories = call[p].data]
    BY <1>2, <2>1 DEF FileOf
  <2>2. call[p].op = "remember" => call[p].data = memories
    BY <1>1, <1>2, <1>4, IdFacts DEF Held
  <2>3. QED BY <1>1, <2>1, <2>2 DEF Types
<1>7. Types'
  BY <1>1, <1>2, <1>3, <1>4, <1>5, <1>6 DEF Types
<1>8. Stages'
  BY <1>1, <1>2, <1>3, <1>4 DEF Stages, Moved
<1>9. Numbers'
  <2>1. \A q \in Callers : q # p /\ call[q].op = "remember" /\ call[q].pc = "lock" =>
                               call[q].id \notin DOMAIN memories'
    BY <1>1, <1>2 DEF Numbers
  <2>2. QED BY <1>1, <1>2, <1>3, <2>1, NumbersFrame
<1>10. Held' /\ Sound(disk.memories, 1 .. used)'
  <2>1. CASE p = holder
    BY <1>1, <1>2, <1>3, <1>4, <1>6, <2>1, IdFacts DEF Held
  <2>2. CASE p # holder
    BY <1>1, <1>2, <1>3, <1>4, <1>5, <2>2, HeldFrame
  <2>3. QED BY <2>1, <2>2
<1>11. Sets'
  <2>1. CASE call[p].op = "remember"
    BY <1>1, <1>2, <1>3, <1>6, <2>1, SetsFrame
  <2>2. CASE call[p].op = "set" /\ alone
    <3>1. call[p].data = values /\ \A q \in Callers : call[q].op = "set" => q = p
      BY <1>1, <1>2, <2>2 DEF Sets
    <3>2. \A q \in Callers : call'[q].op = "set" => q = p
      BY <1>3, <3>1 DEF Moved
    <3>3. QED BY <1>2, <1>3, <1>5, <2>2, <3>1, <3>2 DEF Sets
  <2>3. CASE ~alone
    BY <1>2, <2>3 DEF Sets
  <2>4. QED BY <1>4, <2>1, <2>2, <2>3
<1>12. Lines'
  BY <1>1, <1>2, <1>3, <1>4, LinesFrame
<1>13. TempsAreInUse'
  <2>1. ASSUME NEW q \in temps' \ {NoId} PROVE call'[q].pc = "rename"
    BY <1>1, <1>2, <1>3 DEF Types, TempsAreInUse, Moved
  <2>2. QED BY <2>1 DEF TempsAreInUse
<1>14. QED BY <1>1, <1>2, <1>4, <1>5, <1>6, <1>7, <1>8, <1>9, <1>10, <1>11, <1>12, <1>13 DEF StoresInv

(* A write fails and takes its temp file away; the file is as it was.         *)
LEMMA WriteFailsKeeps ==
  ASSUME StoresInv, NEW p \in Callers, WriteFails(p)
  PROVE  StoresInv'
<1>1. /\ Types /\ Stages /\ Numbers /\ Held /\ Sound(memories, 1 .. used)
      /\ Sound(disk.memories, 1 .. used) /\ Sets /\ Lines /\ TempsAreInUse
  BY DEF StoresInv
<1>2. /\ up /\ call[p].pc \in {"temp", "rename"} /\ temps' = temps \ {p} /\ Goto(p, "failed")
      /\ faults < MaxFaults /\ faults' = faults + 1
      /\ UNCHANGED <<up, values, memories, holder, ring, disk, log, open, used, alone, logged>>
  BY DEF WriteFails, Fault, history
<1>3. /\ call' \in [Callers -> CallType] /\ Moved(p)
      /\ call'[p].pc = "failed" /\ call'[p].op = call[p].op /\ call'[p].id = call[p].id
      /\ call'[p].topic = call[p].topic /\ call'[p].olds = call[p].olds
      /\ call'[p].data = call[p].data
  BY <1>1, <1>2, GotoMoves
<1>4. call[p].op \in {"set", "remember"} /\ (call[p].op = "remember" <=> p = holder)
  BY <1>1, <1>2 DEF Stages, Types, CallType
<1>5. Types'
  <2>1. faults' \in 0 .. MaxFaults
    BY <1>1, <1>2, StateFilesAssumption DEF Types
  <2>2. QED BY <1>1, <1>2, <1>3, <2>1 DEF Types
<1>6. Stages'
  BY <1>1, <1>2, <1>3, <1>4 DEF Stages, Moved
<1>7. Numbers'
  <2>1. \A q \in Callers : q # p /\ call[q].op = "remember" /\ call[q].pc = "lock" =>
                               call[q].id \notin DOMAIN memories'
    BY <1>1, <1>2 DEF Numbers
  <2>2. QED BY <1>1, <1>2, <1>3, <2>1, NumbersFrame
<1>8. Held'
  <2>1. CASE p = holder
    BY <1>1, <1>2, <1>3, <2>1 DEF Held
  <2>2. CASE p # holder
    BY <1>1, <1>2, <1>3, <2>2, HeldFrame
  <2>3. QED BY <2>1, <2>2
<1>9. Sets'
  <2>1. \A q \in Callers : call'[q].op = call[q].op /\ call'[q].data = call[q].data
    BY <1>3 DEF Moved
  <2>2. SetInFlight' <=> SetInFlight
    BY <2>1 DEF SetInFlight
  <2>3. \A q \in Callers : call'[q].pc = call[q].pc \/ call'[q].pc = "failed"
    BY <1>2, <1>3 DEF Moved
  <2>4. QED BY <1>1, <1>2, <2>1, <2>2, <2>3 DEF Sets
<1>10. Lines'
  BY <1>1, <1>2, <1>3, <1>4, LinesFrame
<1>11. TempsAreInUse'
  <2>1. ASSUME NEW q \in temps' \ {NoId} PROVE call'[q].pc = "rename"
    BY <1>1, <1>2, <1>3 DEF Types, TempsAreInUse, Moved
  <2>2. QED BY <2>1 DEF TempsAreInUse
<1>12. QED BY <1>1, <1>2, <1>5, <1>6, <1>7, <1>8, <1>9, <1>10, <1>11 DEF StoresInv

-----------------------------------------------------------------------------
(* Memories                                                                   *)

(* remember, before it has the lock.                                          *)
LEMMA RememberKeeps ==
  ASSUME StoresInv, NEW p \in Callers, NEW topic \in Topics, NEW olds \in SUBSET Ids,
         Remember(p, topic, olds)
  PROVE  StoresInv'
<1>1. /\ Types /\ Stages /\ Numbers /\ Held /\ Sound(memories, 1 .. used)
      /\ Sound(disk.memories, 1 .. used) /\ Sets /\ Lines /\ TempsAreInUse
  BY DEF StoresInv
<1>2. Enter(p, "remember", "lock", topic, olds, <<>>)
      /\ UNCHANGED <<values, memories, holder, ring, alone>>
  BY DEF Remember
<1>3. /\ call' \in [Callers -> CallType] /\ Moved(p)
      /\ call'[p].op = "remember" /\ call'[p].pc = "lock" /\ call'[p].id = used + 1
      /\ call[p].op = "none" /\ up /\ used' = used + 1 /\ used' \in 1 .. MaxCalls
      /\ UNCHANGED <<up, disk, log, open, temps, logged, faults>>
  BY <1>1, <1>2, EnterMoves DEF Data
<1>4. p # holder /\ call[p].pc # "rename"
  BY <1>1, <1>3 DEF Stages
<1>5. Types'
  BY <1>1, <1>2, <1>3 DEF Types
<1>6. Stages'
  BY <1>1, <1>2, <1>3, <1>4 DEF Stages, Moved
<1>7. Numbers' /\ Held'
  BY <1>1, <1>2, <1>3, <1>4, EnterNumbers, HeldFrame
<1>8. Sound(memories, 1 .. used)' /\ Sound(disk.memories, 1 .. used)'
  BY <1>1, <1>2, <1>3, SoundGrows DEF Types
<1>9. Sets' /\ Lines' /\ TempsAreInUse'
  BY <1>1, <1>2, <1>3, <1>4, SetsFrame, LinesFrame, TempsFrame
<1>10. QED BY <1>5, <1>6, <1>7, <1>8, <1>9 DEF StoresInv

(* remember finds nothing to supersede and changes nothing.                   *)
LEMMA RefusedKeeps ==
  ASSUME StoresInv, NEW p \in Callers, RememberRefused(p)
  PROVE  StoresInv'
<1>1. /\ Types /\ Stages /\ Numbers /\ Held /\ Sound(memories, 1 .. used)
      /\ Sound(disk.memories, 1 .. used) /\ Sets /\ Lines /\ TempsAreInUse
  BY DEF StoresInv
<1>2. /\ up /\ call[p].op = "remember" /\ call[p].pc = "lock" /\ holder = NoId /\ Answer(p)
      /\ UNCHANGED <<up, values, memories, holder, ring, disk, log, open, temps, used, alone,
                     logged, faults>>
  BY DEF RememberRefused, At, history
<1>3. call' \in [Callers -> CallType] /\ Moved(p) /\ call'[p] = NoCall
  BY <1>1, <1>2, AnswerMoves
<1>4. p # holder /\ NoCall.op = "none" /\ NoCall.pc = "idle"
  BY <1>1, <1>2 DEF Stages, NoCall
<1>5. Types'
  BY <1>1, <1>2, <1>3 DEF Types
<1>6. Stages'
  BY <1>1, <1>2, <1>3, <1>4 DEF Stages, Moved
<1>7. Numbers' /\ Held'
  <2>1. \A q \in Callers : q # p /\ call[q].op = "remember" /\ call[q].pc = "lock" =>
                               call[q].id \notin DOMAIN memories'
    BY <1>1, <1>2 DEF Numbers
  <2>2. QED BY <1>1, <1>2, <1>3, <1>4, <2>1, NumbersFrame, HeldFrame
<1>8. Sets' /\ Lines' /\ TempsAreInUse'
  BY <1>1, <1>2, <1>3, <1>4, SetsFrame, LinesFrame, TempsFrame
<1>9. QED BY <1>1, <1>2, <1>5, <1>6, <1>7, <1>8 DEF StoresInv

(* remember takes the lock and marks: the file is one call behind.            *)
LEMMA LockedKeeps ==
  ASSUME StoresInv, NEW p \in Callers, RememberLocked(p)
  PROVE  StoresInv'
<1>1. /\ Types /\ Stages /\ Numbers /\ Held /\ Sound(memories, 1 .. used)
      /\ Sound(disk.memories, 1 .. used) /\ Sets /\ Lines /\ TempsAreInUse
  BY DEF StoresInv
<1> DEFINE new == Marked(memories, call[p].id, call[p].topic, call[p].olds)
<1>2. /\ up /\ call[p].op = "remember" /\ call[p].pc = "lock" /\ holder = NoId /\ holder' = p
      /\ Unmarked(memories, call[p].olds) /\ memories' = new
      /\ call' = [call EXCEPT ![p].pc = "temp", ![p].data = memories']
      /\ UNCHANGED <<up, values, ring, disk, log, open, temps, used, alone, logged, faults>>
  BY DEF RememberLocked, At, history, Supersedable, Unmarked
<1>3. /\ call[p] \in CallType /\ call[p].id \in 1 .. used /\ call[p].id \in Ids
      /\ call[p].id \notin DOMAIN memories /\ call[p].topic \in Topics
  <2>1. call[p] \in CallType /\ call[p].id \in 1 .. used /\ call[p].id \notin DOMAIN memories
    BY <1>1, <1>2 DEF Types, Numbers
  <2>2. used \in 0 .. MaxCalls
    BY <1>1 DEF Types
  <2>3. QED BY <2>1, <2>2, StateFilesAssumption DEF CallType, Ids
<1>4. memories \in MemMaps /\ memories = disk.memories
  BY <1>1, <1>2 DEF Types, Held
<1>5. /\ new \in MemMaps /\ Sound(new, 1 .. used) /\ DOMAIN new = DOMAIN memories \cup {call[p].id}
  <2> DEFINE ids == 1 .. used
             id == call[p].id
             topic == call[p].topic
             olds == call[p].olds
  <2>1. /\ memories \in MemMaps /\ Sound(memories, ids) /\ id \in Ids /\ id \in ids
        /\ id \notin DOMAIN memories /\ topic \in Topics /\ Unmarked(memories, olds)
    BY <1>1, <1>2, <1>3, <1>4
  <2> HIDE DEF ids, id, topic, olds
  <2>2. /\ Marked(memories, id, topic, olds) \in MemMaps
        /\ DOMAIN Marked(memories, id, topic, olds) = DOMAIN memories \cup {id}
        /\ Sound(Marked(memories, id, topic, olds), ids)
    BY <2>1, MarkedFacts
  <2>3. QED BY <2>2 DEF ids, id, topic, olds
<1> HIDE DEF new
<1>6. /\ call' \in [Callers -> CallType] /\ Moved(p)
      /\ call'[p].pc = "temp" /\ call'[p].op = "remember" /\ call'[p].id = call[p].id
      /\ call'[p].topic = call[p].topic /\ call'[p].olds = call[p].olds /\ call'[p].data = new
  <2> DEFINE old == call[p]
             next == [old EXCEPT !.pc = "temp", !.data = new]
  <2>1. old \in CallType /\ call \in [Callers -> CallType]
    BY <1>1 DEF Types
  <2> HIDE DEF old
  <2>2. next \in CallType
    BY <1>5, <2>1 DEF CallType
  <2>3. /\ next.pc = "temp" /\ next.op = old.op /\ next.id = old.id
        /\ next.topic = old.topic /\ next.olds = old.olds /\ next.data = new
    BY <2>1 DEF CallType
  <2>4. call' = [call EXCEPT ![p] = next]
    BY <1>2 DEF old
  <2> HIDE DEF next
  <2>5. call' \in [Callers -> CallType] /\ Moved(p) /\ call'[p] = next
    BY <2>1, <2>2, <2>4 DEF Moved
  <2>6. QED BY <1>2, <2>3, <2>5 DEF old
<1>7. p # NoId /\ \A q \in Callers : q # NoId
  BY IdFacts
<1>8. Types'
  BY <1>1, <1>2, <1>5, <1>6 DEF Types
<1>9. Stages'
  BY <1>1, <1>2, <1>6, <1>7 DEF Stages, Moved
<1>10. Numbers'
  <2>1. \A q \in Callers : q # p /\ call[q].op = "remember" /\ call[q].pc = "lock" =>
                               call[q].id \notin DOMAIN memories'
    BY <1>1, <1>2, <1>5 DEF Numbers
  <2>2. QED BY <1>1, <1>2, <1>6, <2>1, NumbersFrame
<1>11. Held'
  <2>1. /\ holder' = p /\ p # NoId /\ call'[p].pc = "temp" /\ call'[p].data = memories' /\ up'
        /\ call'[p].id \notin DOMAIN disk'.memories /\ Unmarked(disk'.memories, call'[p].olds)
    BY <1>2, <1>3, <1>4, <1>6, <1>7
  <2>2. memories' = Marked(disk'.memories, call'[p].id, call'[p].topic, call'[p].olds)
    BY <1>2, <1>4, <1>6 DEF new
  <2>3. QED BY <2>1, <2>2 DEF Held
<1>12. Sets' /\ Lines' /\ TempsAreInUse'
  BY <1>1, <1>2, <1>6, SetsFrame, LinesFrame, TempsFrame
<1>13. QED BY <1>1, <1>2, <1>5, <1>8, <1>9, <1>10, <1>11, <1>12 DEF StoresInv

(* remember answers: store and file agree again.                              *)
LEMMA OkKeeps ==
  ASSUME StoresInv, NEW p \in Callers, RememberOk(p)
  PROVE  StoresInv'
<1>1. /\ Types /\ Stages /\ Numbers /\ Held /\ Sound(memories, 1 .. used)
      /\ Sound(disk.memories, 1 .. used) /\ Sets /\ Lines /\ TempsAreInUse
  BY DEF StoresInv
<1>2. /\ up /\ call[p].op = "remember" /\ call[p].pc = "saved" /\ holder' = NoId /\ Answer(p)
      /\ UNCHANGED <<up, values, memories, ring, disk, log, open, temps, used, alone, logged,
                     faults>>
  BY DEF RememberOk, At, history
<1>3. call' \in [Callers -> CallType] /\ Moved(p) /\ call'[p] = NoCall
  BY <1>1, <1>2, AnswerMoves
<1>4. p = holder /\ p # NoId /\ NoCall.op = "none" /\ NoCall.pc = "idle"
      /\ \A q \in Callers : q # NoId
  BY <1>1, <1>2, IdFacts DEF Stages, NoCall
<1>5. Types'
  BY <1>1, <1>2, <1>3 DEF Types
<1>6. Stages'
  BY <1>1, <1>2, <1>3, <1>4 DEF Stages, Moved
<1>7. Numbers'
  <2>1. \A q \in Callers : q # p /\ call[q].op = "remember" /\ call[q].pc = "lock" =>
                               call[q].id \notin DOMAIN memories'
    BY <1>1, <1>2 DEF Numbers
  <2>2. QED BY <1>1, <1>2, <1>3, <1>4, <2>1, NumbersFrame
<1>8. Held'
  BY <1>1, <1>2, <1>4 DEF Held
<1>9. Sets' /\ Lines' /\ TempsAreInUse'
  BY <1>1, <1>2, <1>3, <1>4, SetsFrame, LinesFrame, TempsFrame
<1>10. QED BY <1>1, <1>2, <1>5, <1>6, <1>7, <1>8, <1>9 DEF StoresInv

(* remember undoes what it did: store and file agree again.                   *)
LEMMA FailsKeeps ==
  ASSUME StoresInv, NEW p \in Callers, RememberFails(p)
  PROVE  StoresInv'
<1>1. /\ Types /\ Stages /\ Numbers /\ Held /\ Sound(memories, 1 .. used)
      /\ Sound(disk.memories, 1 .. used) /\ Sets /\ Lines /\ TempsAreInUse
  BY DEF StoresInv
<1>2. /\ up /\ call[p].op = "remember" /\ call[p].pc = "failed" /\ holder' = NoId /\ Answer(p)
      /\ memories' = RolledBack(memories, call[p].id, call[p].olds)
      /\ UNCHANGED <<up, values, ring, disk, log, open, temps, used, alone, logged, faults>>
  BY DEF RememberFails, At, history
<1>3. call' \in [Callers -> CallType] /\ Moved(p) /\ call'[p] = NoCall
  BY <1>1, <1>2, AnswerMoves
<1>4. p = holder /\ p # NoId /\ NoCall.op = "none" /\ NoCall.pc = "idle"
      /\ \A q \in Callers : q # NoId
  BY <1>1, <1>2, IdFacts DEF Stages, NoCall
<1>5. /\ call[p].id \in 1 .. used /\ call[p].id \in Ids /\ call[p].topic \in Topics
      /\ disk.memories \in MemMaps
  <2>1. call[p] \in CallType /\ call[p].id \in 1 .. used /\ disk.memories \in MemMaps
    BY <1>1, <1>2 DEF Types, Numbers
  <2>2. used \in 0 .. MaxCalls
    BY <1>1 DEF Types
  <2>3. QED BY <2>1, <2>2, StateFilesAssumption DEF CallType, Ids
<1>6. /\ call[p].id \notin DOMAIN disk.memories /\ Unmarked(disk.memories, call[p].olds)
      /\ memories = Marked(disk.memories, call[p].id, call[p].topic, call[p].olds)
  BY <1>1, <1>2, <1>4 DEF Held
<1>7. memories' = disk.memories /\ DOMAIN disk.memories \subseteq DOMAIN memories
  <2> DEFINE ids == 1 .. used
             id == call[p].id
             topic == call[p].topic
             olds == call[p].olds
             ms == disk.memories
  <2>1. /\ ms \in MemMaps /\ Sound(ms, ids) /\ id \in Ids /\ id \in ids
        /\ id \notin DOMAIN ms /\ topic \in Topics /\ Unmarked(ms, olds)
    BY <1>1, <1>5, <1>6
  <2> HIDE DEF ids, id, topic, olds, ms
  <2>2. /\ DOMAIN Marked(ms, id, topic, olds) = DOMAIN ms \cup {id}
        /\ RolledBack(Marked(ms, id, topic, olds), id, olds) = ms
    BY <2>1, MarkedFacts
  <2>3. QED BY <1>2, <1>6, <2>2 DEF ids, id, topic, olds, ms
<1>8. Types'
  BY <1>1, <1>2, <1>3, <1>5, <1>7 DEF Types
<1>9. Stages'
  BY <1>1, <1>2, <1>3, <1>4 DEF Stages, Moved
<1>10. Numbers'
  <2>1. \A q \in Callers : q # p /\ call[q].op = "remember" /\ call[q].pc = "lock" =>
                               call[q].id \notin DOMAIN memories'
    BY <1>1, <1>7 DEF Numbers
  <2>2. QED BY <1>1, <1>2, <1>3, <1>4, <2>1, NumbersFrame
<1>11. Held'
  BY <1>2, <1>7 DEF Held
<1>12. Sets' /\ Lines' /\ TempsAreInUse'
  BY <1>1, <1>2, <1>3, <1>4, SetsFrame, LinesFrame, TempsFrame
<1>13. QED BY <1>1, <1>2, <1>7, <1>8, <1>9, <1>10, <1>11, <1>12 DEF StoresInv

-----------------------------------------------------------------------------
(* History                                                                    *)

Entries == Ids \cup {Torn}

(* The ring after a push: one longer or full, with one entry more.            *)
LEMMA PushedFacts ==
  ASSUME NEW r \in Seq(Entries), Len(r) <= RingSize, NEW e \in Entries
  PROVE  /\ Pushed(r, e) \in Seq(Entries)
         /\ Len(Pushed(r, e)) = IF Len(r) < RingSize THEN Len(r) + 1 ELSE RingSize
         /\ Range(Pushed(r, e)) \subseteq Range(r) \cup {e}
<1>1. CASE Len(r) < RingSize
  <2>1. Pushed(r, e) = Append(r, e)
    BY <1>1, StateFilesAssumption DEF Pushed
  <2>2. QED BY <1>1, <2>1 DEF Range
<1>2. CASE ~(Len(r) < RingSize)
  <2>1. Len(r) = RingSize /\ RingSize > 0 /\ RingSize \in Nat
    BY <1>2, StateFilesAssumption
  <2>2. Pushed(r, e) = Append(Tail(r), e)
    BY <2>1 DEF Pushed
  <2>3. Tail(r) \in Seq(Entries) /\ Len(Tail(r)) = RingSize - 1
        /\ \A i \in 1 .. RingSize - 1 : Tail(r)[i] = r[i + 1] /\ i + 1 \in DOMAIN r
    BY <2>1
  <2>4. /\ Append(Tail(r), e) \in Seq(Entries) /\ Len(Append(Tail(r), e)) = RingSize
        /\ DOMAIN Append(Tail(r), e) = 1 .. RingSize
        /\ \A i \in 1 .. RingSize :
              \/ Append(Tail(r), e)[i] = e
              \/ i \in 1 .. RingSize - 1 /\ Append(Tail(r), e)[i] = Tail(r)[i]
    BY <2>1, <2>3
  <2>5. Range(Append(Tail(r), e)) \subseteq Range(r) \cup {e}
    BY <2>3, <2>4 DEF Range
  <2>6. QED BY <1>2, <2>2, <2>4, <2>5
<1>3. QED BY <1>1, <1>2

(* The log after a line, with or without its newline.                         *)
LEMMA LineFacts ==
  ASSUME NEW l \in Seq(Entries), NEW e \in Entries
  PROVE  /\ Append(l, e) \in Seq(Entries) /\ Append(l, e) # <<>>
         /\ Len(Append(l, e)) = Len(l) + 1 /\ Range(Append(l, e)) = Range(l) \cup {e}
         /\ l # <<>> => /\ [l EXCEPT ![Len(l)] = Torn] \in Seq(Entries)
                        /\ [l EXCEPT ![Len(l)] = Torn] # <<>>
<1>1. Append(l, e) \in Seq(Entries) /\ Append(l, e) # <<>> /\ Len(Append(l, e)) = Len(l) + 1
  <2>1. /\ Append(l, e) \in Seq(Entries) /\ Len(Append(l, e)) = Len(l) + 1 /\ Len(l) \in Nat
        /\ Len(<<>>) = 0
    OBVIOUS
  <2>2. Append(l, e) # <<>>
    <3>1. SUFFICES ASSUME Append(l, e) = <<>> PROVE FALSE
      OBVIOUS
    <3>2. Len(l) + 1 = 0
      BY <2>1, <3>1
    <3>3. QED BY <2>1, <3>2
  <2>3. QED BY <2>1, <2>2
<1>2. Range(Append(l, e)) = Range(l) \cup {e}
  <2>1. DOMAIN Append(l, e) = 1 .. Len(l) + 1 /\ DOMAIN l = 1 .. Len(l) /\ Len(l) \in Nat
    OBVIOUS
  <2>2. /\ \A i \in 1 .. Len(l) : Append(l, e)[i] = l[i] /\ i \in 1 .. Len(l) + 1
        /\ Append(l, e)[Len(l) + 1] = e /\ Len(l) + 1 \in 1 .. Len(l) + 1
        /\ \A i \in 1 .. Len(l) + 1 : i \in 1 .. Len(l) \/ i = Len(l) + 1
    BY <2>1
  <2>3. QED BY <2>1, <2>2 DEF Range
<1>3. ASSUME l # <<>>
      PROVE  /\ [l EXCEPT ![Len(l)] = Torn] \in Seq(Entries)
             /\ [l EXCEPT ![Len(l)] = Torn] # <<>>
  <2>1. Torn \in Entries /\ Len(l) \in 1 .. Len(l)
    BY <1>3 DEF Entries
  <2>2. QED BY <1>3, <2>1
<1>4. QED BY <1>1, <1>2, <1>3

(* The calls that append, when one comes or goes.                             *)
LEMMA AppendingFacts ==
  ASSUME NEW p \in Callers, Moved(p), IsFiniteSet(Appending)
  PROVE  /\ call'[p].op = "append" /\ call[p].op # "append" =>
               /\ IsFiniteSet(Appending') /\ Cardinality(Appending') = Cardinality(Appending) + 1
               /\ {call'[q].id : q \in Appending'} = {call[q].id : q \in Appending} \cup {call'[p].id}
         /\ call'[p].op # "append" /\ call[p].op = "append" =>
               /\ IsFiniteSet(Appending') /\ Cardinality(Appending') + 1 = Cardinality(Appending)
               /\ {call[q].id : q \in Appending} = {call'[q].id : q \in Appending'} \cup {call[p].id}
<1>0. Cardinality(Appending) \in Nat
  BY FS_CardinalityType
<1>1. ASSUME call'[p].op = "append", call[p].op # "append"
      PROVE  /\ IsFiniteSet(Appending') /\ Cardinality(Appending') = Cardinality(Appending) + 1
             /\ {call'[q].id : q \in Appending'} = {call[q].id : q \in Appending} \cup {call'[p].id}
  <2>1. Appending' = Appending \cup {p} /\ p \notin Appending
        /\ \A q \in Appending : call'[q] = call[q]
    BY <1>1 DEF Appending, Moved
  <2>2. QED BY <2>1, FS_AddElement
<1>2. ASSUME call'[p].op # "append", call[p].op = "append"
      PROVE  /\ IsFiniteSet(Appending') /\ Cardinality(Appending') + 1 = Cardinality(Appending)
             /\ {call[q].id : q \in Appending} = {call'[q].id : q \in Appending'} \cup {call[p].id}
  <2>1. Appending' = Appending \ {p} /\ p \in Appending
        /\ \A q \in Appending' : call'[q] = call[q]
    BY <1>2 DEF Appending, Moved
  <2>2. IsFiniteSet(Appending') /\ Cardinality(Appending') = Cardinality(Appending) - 1
    BY <2>1, FS_RemoveElement
  <2>3. QED BY <1>0, <2>1, <2>2
<1>3. QED BY <1>1, <1>2

(* append: the ring gets its line before the log does.                        *)
LEMMA AppendHistoryKeeps ==
  ASSUME StoresInv, NEW p \in Callers, AppendHistory(p)
  PROVE  StoresInv'
<1>1. /\ Types /\ Stages /\ Numbers /\ Held /\ Sound(memories, 1 .. used)
      /\ Sound(disk.memories, 1 .. used) /\ Sets /\ Lines /\ TempsAreInUse
  BY DEF StoresInv
<1>2. Enter(p, "append", "file", "a", {}, <<>>)
      /\ ring' = Pushed(ring, used + 1) /\ UNCHANGED <<values, memories, holder, alone>>
  BY DEF AppendHistory
<1>3. /\ call' \in [Callers -> CallType] /\ Moved(p)
      /\ call'[p].op = "append" /\ call'[p].pc = "file" /\ call'[p].id = used + 1
      /\ call[p].op = "none" /\ up /\ used' = used + 1 /\ used' \in 1 .. MaxCalls
      /\ UNCHANGED <<up, disk, log, open, temps, logged, faults>>
  BY <1>1, <1>2, EnterMoves DEF Topics, Data
<1>4. p # holder /\ call[p].pc # "rename"
  BY <1>1, <1>3 DEF Stages
<1>5. /\ ring' \in Seq(Entries) /\ Range(ring') \subseteq Range(ring) \cup {used + 1}
      /\ Len(ring') = IF Len(ring) < RingSize THEN Len(ring) + 1 ELSE RingSize
  <2>1. used + 1 \in Entries /\ ring \in Seq(Entries) /\ Len(ring) <= RingSize
    BY <1>1, <1>3 DEF Types, Entries, Ids
  <2>2. QED BY <1>2, <2>1, PushedFacts
<1>6. Len(ring') <= RingSize /\ RingSize \in Nat /\ Len(ring) \in Nat /\ Len(log) \in Nat
      /\ Len(ring) <= RingSize
  BY <1>1, <1>5, StateFilesAssumption DEF Types
<1>7. Types'
  BY <1>1, <1>2, <1>3, <1>5, <1>6 DEF Types, Entries
<1>8. Stages'
  BY <1>1, <1>2, <1>3, <1>4 DEF Stages, Moved
<1>9. Numbers' /\ Held'
  BY <1>1, <1>2, <1>3, <1>4, EnterNumbers, HeldFrame
<1>10. Sound(memories, 1 .. used)' /\ Sound(disk.memories, 1 .. used)'
  BY <1>1, <1>2, <1>3, SoundGrows DEF Types
<1>11. Sets' /\ TempsAreInUse'
  BY <1>1, <1>2, <1>3, <1>4, SetsFrame, TempsFrame
<1>12. Lines'
  <2>1. /\ IsFiniteSet(Appending') /\ Cardinality(Appending') = Cardinality(Appending) + 1
        /\ {call'[q].id : q \in Appending'} = {call[q].id : q \in Appending} \cup {call'[p].id}
    BY <1>1, <1>3, AppendingFacts DEF Lines
  <2>2. Cardinality(Appending) \in Nat
    BY <1>1, FS_CardinalityType DEF Lines
  <2>3. up /\ logged =>
           /\ Range(ring') \subseteq Range(log) \cup {call'[q].id : q \in Appending'}
           /\ Len(ring') = IF Len(log) + Cardinality(Appending') < RingSize
                           THEN Len(log) + Cardinality(Appending') ELSE RingSize
    <3>1. SUFFICES ASSUME up, logged
                   PROVE  /\ Range(ring') \subseteq Range(log) \cup {call'[q].id : q \in Appending'}
                          /\ Len(ring') = IF Len(log) + Cardinality(Appending') < RingSize
                                          THEN Len(log) + Cardinality(Appending') ELSE RingSize
      OBVIOUS
    <3>2. Range(ring') \subseteq Range(log) \cup {call'[q].id : q \in Appending'}
      BY <1>1, <1>3, <1>5, <2>1, <3>1 DEF Lines
    <3> DEFINE k == Cardinality(Appending)
               kk == Cardinality(Appending')
               n == Len(log)
               m == Len(ring)
    <3>3. /\ k \in Nat /\ kk = k + 1 /\ n \in Nat /\ m \in Nat /\ RingSize \in Nat
          /\ m = (IF n + k < RingSize THEN n + k ELSE RingSize)
          /\ Len(ring') = (IF m < RingSize THEN m + 1 ELSE RingSize)
      BY <1>1, <1>5, <1>6, <2>1, <2>2, <3>1 DEF Lines
    <3> HIDE DEF k, kk, n, m
    <3>4. Len(ring') = IF n + kk < RingSize THEN n + kk ELSE RingSize
      BY <3>3
    <3>5. QED BY <3>2, <3>4 DEF kk, n
  <2>4. QED BY <1>1, <1>3, <2>1, <2>3 DEF Lines
<1>13. QED BY <1>7, <1>8, <1>9, <1>10, <1>11, <1>12 DEF StoresInv

(* The number of an append is a line.                                         *)
LEMMA EntryId ==
  ASSUME Types, Numbers, NEW p \in Callers, call[p].op = "append"
  PROVE  call[p].id \in Entries
<1>1. call[p].id \in 1 .. used /\ used \in 0 .. MaxCalls
  BY DEF Types, Numbers
<1>2. call[p].id \in Ids
  BY <1>1, StateFilesAssumption DEF Ids
<1>3. QED BY <1>2 DEF Entries

(* The end of an append, whatever it left in the file.                        *)
LEMMA AppendEnds ==
  ASSUME StoresInv, NEW p \in Callers, call[p].op = "append", Answer(p), up,
         log' \in Seq(Entries), open' \in BOOLEAN, open' => log' # <<>>,
         UNCHANGED <<up, values, memories, holder, ring, disk, temps, used, alone>>,
         logged' \in BOOLEAN, faults' \in 0 .. MaxFaults,
         logged' => logged /\ ~open' /\ log' = Append(log, call[p].id)
  PROVE  StoresInv'
<1>1. /\ Types /\ Stages /\ Numbers /\ Held /\ Sound(memories, 1 .. used)
      /\ Sound(disk.memories, 1 .. used) /\ Sets /\ Lines /\ TempsAreInUse
  BY DEF StoresInv
<1>3. call' \in [Callers -> CallType] /\ Moved(p) /\ call'[p] = NoCall
  BY <1>1, AnswerMoves
<1>4. p # holder /\ NoCall.op = "none" /\ NoCall.pc = "idle" /\ call[p].pc # "rename"
  BY <1>1 DEF Stages, NoCall
<1>5. Types'
  BY <1>1, <1>3 DEF Types, Entries
<1>6. Stages'
  BY <1>1, <1>3, <1>4 DEF Stages, Moved
<1>7. Numbers' /\ Held'
  <2>1. \A q \in Callers : q # p /\ call[q].op = "remember" /\ call[q].pc = "lock" =>
                               call[q].id \notin DOMAIN memories'
    BY <1>1 DEF Numbers
  <2>2. QED BY <1>1, <1>3, <1>4, <2>1, NumbersFrame, HeldFrame
<1>8. Sets' /\ TempsAreInUse'
  BY <1>1, <1>3, <1>4, SetsFrame, TempsFrame
<1>9. Lines'
  <2>1. /\ IsFiniteSet(Appending') /\ Cardinality(Appending') + 1 = Cardinality(Appending)
        /\ {call[q].id : q \in Appending} = {call'[q].id : q \in Appending'} \cup {call[p].id}
    BY <1>1, <1>3, <1>4, AppendingFacts DEF Lines
  <2>2. Cardinality(Appending') \in Nat
    BY <2>1, FS_CardinalityType
  <2>3. CASE logged'
    <3> DEFINE e == call[p].id
               l == log
    <3>1. e \in Entries /\ l \in Seq(Entries) /\ log' = Append(l, e)
      BY <1>1, <2>3, EntryId DEF Types, Entries
    <3> HIDE DEF e, l
    <3>2. Len(log') = Len(l) + 1 /\ Range(log') = Range(l) \cup {e} /\ Len(l) \in Nat
      BY <3>1, LineFacts
    <3> USE DEF e, l
    <3>3. Len(log) + Cardinality(Appending) = Len(log') + Cardinality(Appending')
      BY <2>1, <2>2, <3>2
    <3>4. QED BY <1>1, <2>1, <2>3, <3>2, <3>3 DEF Lines
  <2>4. QED BY <2>1, <2>3 DEF Lines
<1>10. QED BY <1>1, <1>5, <1>6, <1>7, <1>8, <1>9 DEF StoresInv

(* What an append, complete or cut short, makes of the log.                   *)
LEMMA CutShortFacts ==
  ASSUME Types, NEW e \in Entries, Written(e) \/ CutShort(e)
  PROVE  /\ log' \in Seq(Entries) /\ open' \in BOOLEAN /\ (open' => log' # <<>>)
         /\ Written(e) /\ ~open => log' = Append(log, e)
<1>1. log \in Seq(Entries) /\ (open => log # <<>>) /\ Torn \in Entries /\ open \in BOOLEAN
  BY DEF Types, Entries
<1>2. CASE Written(e)
  BY <1>1, <1>2, LineFacts DEF Written
<1>3. CASE UNCHANGED <<log, open>>
  BY <1>1, <1>3 DEF Written
<1>4. CASE /\ \E line \in {Torn, e} :
                 log' = IF open THEN [log EXCEPT ![Len(log)] = Torn] ELSE Append(log, line)
           /\ open' = TRUE
  <2>1. log' \in Seq(Entries) /\ log' # <<>>
    BY <1>1, <1>4, LineFacts
  <2>2. ~Written(e)
    BY <1>4 DEF Written
  <2>3. QED BY <1>4, <2>1, <2>2
<1>5. QED BY <1>2, <1>3, <1>4 DEF CutShort

(* An append reaches the log, or fails with some of it written.               *)
LEMMA AppendFileKeeps ==
  ASSUME StoresInv, NEW p \in Callers, AppendEntryToFile(p) \/ AppendFails(p)
  PROVE  StoresInv'
<1>1. Types /\ Numbers /\ Lines
  BY DEF StoresInv
<1>2. call[p].op = "append" /\ up /\ Answer(p)
      /\ UNCHANGED <<up, values, memories, holder, ring, disk, temps, used, alone>>
  BY DEF AppendEntryToFile, AppendFails, At, history
<1>3. call[p].id \in Entries
  BY <1>1, <1>2, EntryId
<1>4. CASE AppendEntryToFile(p)
  <2>1. Written(call[p].id) /\ UNCHANGED <<logged, faults>>
    BY <1>4 DEF AppendEntryToFile, history
  <2>2. /\ log' \in Seq(Entries) /\ open' \in BOOLEAN /\ (open' => log' # <<>>)
        /\ ~open => log' = Append(log, call[p].id)
    BY <1>1, <1>3, <2>1, CutShortFacts
  <2>3. ~open'
    BY <2>1 DEF Written
  <2>4. QED BY <1>1, <1>2, <2>1, <2>2, <2>3, AppendEnds DEF Lines, Types
<1>5. CASE AppendFails(p)
  <2>1. CutShort(call[p].id) /\ logged' = FALSE /\ faults < MaxFaults /\ faults' = faults + 1
    BY <1>5 DEF AppendFails, Fault
  <2>2. log' \in Seq(Entries) /\ open' \in BOOLEAN /\ (open' => log' # <<>>)
    BY <1>1, <1>3, <2>1, CutShortFacts
  <2>3. faults' \in 0 .. MaxFaults
    BY <1>1, <2>1, StateFilesAssumption DEF Types
  <2>4. logged' \in BOOLEAN /\ ~logged'
    BY <2>1
  <2>5. QED BY <1>2, <2>2, <2>3, <2>4, AppendEnds
<1>6. QED BY <1>4, <1>5

-----------------------------------------------------------------------------
(* Crash and restart                                                          *)

(* The daemon dies: files stay, calls and lock are gone.                      *)
LEMMA CrashKeeps == ASSUME StoresInv, Crash PROVE StoresInv'
<1>1. /\ Types /\ Stages /\ Numbers /\ Held /\ Sound(memories, 1 .. used)
      /\ Sound(disk.memories, 1 .. used) /\ Sets /\ Lines /\ TempsAreInUse
  BY DEF StoresInv
<1>2. /\ up' = FALSE /\ faults' = faults + 1 /\ faults < MaxFaults /\ holder' = NoId
      /\ logged' = (logged /\ \A p \in Callers : call[p].op # "append")
      /\ alone' = (alone /\ ~SetInFlight)
      /\ temps' = (IF temps = {} THEN {} ELSE {NoId})
      /\ call' = [p \in Callers |-> NoCall]
      /\ UNCHANGED <<values, memories, ring, disk, used>>
      /\ \/ UNCHANGED <<log, open>>
         \/ \E p \in Callers : call[p].op = "append" /\ CutShort(call[p].id)
  BY DEF Crash, Fault, At
<1>3. NoCall \in CallType /\ NoCall.op = "none" /\ NoCall.pc = "idle"
  BY DEF NoCall, CallType, Topics
<1>4. /\ log' \in Seq(Entries) /\ open' \in BOOLEAN /\ (open' => log' # <<>>)
      /\ logged' => UNCHANGED <<log, open>> /\ logged
  <2>1. CASE UNCHANGED <<log, open>>
    BY <1>1, <1>2, <2>1 DEF Types, Entries
  <2>2. ASSUME NEW p \in Callers, call[p].op = "append", CutShort(call[p].id)
        PROVE  /\ log' \in Seq(Entries) /\ open' \in BOOLEAN /\ (open' => log' # <<>>)
               /\ ~logged'
    <3>1. call[p].id \in Entries
      BY <1>1, <2>2, EntryId
    <3>2. QED BY <1>1, <1>2, <2>2, <3>1, CutShortFacts
  <2>3. QED BY <1>2, <2>1, <2>2
<1>5. Types'
  <2>1. faults' \in 0 .. MaxFaults
    BY <1>1, <1>2, StateFilesAssumption DEF Types
  <2>2. logged' \in BOOLEAN /\ alone' \in BOOLEAN /\ up' \in BOOLEAN
    BY <1>2
  <2>3. call' \in [Callers -> CallType] /\ temps' \subseteq Callers \cup {NoId}
    BY <1>2, <1>3
  <2>4. QED BY <1>1, <1>2, <1>4, <2>1, <2>2, <2>3 DEF Types, Entries
<1>6. \A p \in Callers : call'[p] = NoCall /\ p # NoId
  BY <1>2, IdFacts
<1>7. Stages' /\ Numbers' /\ Held'
  BY <1>2, <1>3, <1>6 DEF Stages, Numbers, Held
<1>8. Sets' /\ TempsAreInUse'
  BY <1>2, <1>3, <1>6 DEF Sets, TempsAreInUse
<1>9. Lines'
  <2>1. Appending' = {}
    BY <1>3, <1>6 DEF Appending
  <2>2. QED BY <1>1, <1>2, <1>4, <2>1, FS_EmptySet DEF Lines
<1>10. QED BY <1>1, <1>2, <1>5, <1>7, <1>8, <1>9 DEF StoresInv

(* The daemon starts from its files.                                          *)
LEMMA WithStateDirKeeps == ASSUME StoresInv, WithStateDir PROVE StoresInv'
<1>1. /\ Types /\ Stages /\ Numbers /\ Held /\ Sound(memories, 1 .. used)
      /\ Sound(disk.memories, 1 .. used) /\ Sets /\ Lines /\ TempsAreInUse
  BY DEF StoresInv
<1> DEFINE from == IF Len(log) > RingSize THEN Len(log) - RingSize + 1 ELSE 1
<1>2. /\ ~up /\ up' = TRUE /\ values' = disk.values /\ memories' = disk.memories
      /\ ring' = SubSeq(log, from, Len(log))
      /\ UNCHANGED <<holder, disk, log, open, temps, call, used, alone, logged, faults>>
  BY DEF WithStateDir, LoadShared, LoadMemories, LoadHistory, history
<1>3. \A p \in Callers : call[p] = NoCall /\ call[p].op = "none" /\ call[p].pc = "idle"
  <2>1. NoCall.op = "none" /\ NoCall.pc = "idle"
    BY DEF NoCall
  <2>2. QED BY <1>1, <1>2, <2>1 DEF Stages
<1>4. log \in Seq(Entries) /\ Len(log) \in Nat /\ RingSize \in Nat /\ RingSize > 0
  BY <1>1, StateFilesAssumption DEF Types, Entries
<1>5. from \in 1 .. Len(log) + 1
      /\ Len(log) - from + 1 = IF Len(log) < RingSize THEN Len(log) ELSE RingSize
  <2> DEFINE n == Len(log)
  <2>1. n \in Nat /\ RingSize \in Nat /\ RingSize > 0
        /\ from = IF n > RingSize THEN n - RingSize + 1 ELSE 1
    BY <1>4
  <2> HIDE DEF n, from
  <2>2. from \in 1 .. n + 1 /\ n - from + 1 = IF n < RingSize THEN n ELSE RingSize
    <3>1. CASE n > RingSize
      BY <2>1, <3>1
    <3>2. CASE ~(n > RingSize)
      BY <2>1, <3>2
    <3>3. QED BY <3>1, <3>2
  <2>3. QED BY <2>2 DEF n
<1> HIDE DEF from
<1>6. /\ ring' \in Seq(Entries) /\ Len(ring') = Len(log) - from + 1
      /\ \A i \in 1 .. Len(ring') : ring'[i] = log[from + i - 1] /\ from + i - 1 \in 1 .. Len(log)
  BY <1>2, <1>4, <1>5
<1>7. Len(ring') <= RingSize /\ Range(ring') \subseteq Range(log)
      /\ Len(ring') = IF Len(log) < RingSize THEN Len(log) ELSE RingSize
  <2>1. Range(ring') \subseteq Range(log)
    <3>1. DOMAIN ring' = 1 .. Len(ring') /\ DOMAIN log = 1 .. Len(log)
      BY <1>4, <1>6
    <3>2. QED BY <1>6, <3>1 DEF Range
  <2>2. QED BY <1>4, <1>5, <1>6, <2>1
<1>8. Types'
  BY <1>1, <1>2, <1>6, <1>7 DEF Types, Entries
<1>9. Stages' /\ Numbers'
  BY <1>1, <1>2, <1>3 DEF Stages, Numbers
<1>10. Held'
  BY <1>1, <1>2, <1>3 DEF Held
<1>11. Sets' /\ TempsAreInUse'
  BY <1>1, <1>2, <1>3 DEF Sets, TempsAreInUse
<1>12. Lines'
  <2>1. Appending = {} /\ Appending' = {}
    BY <1>2, <1>3 DEF Appending
  <2>2. Cardinality(Appending') = 0 /\ IsFiniteSet(Appending')
    BY <2>1, FS_EmptySet
  <2>3. Len(log') + Cardinality(Appending') = Len(log)
    BY <1>2, <1>4, <2>2
  <2>4. QED BY <1>1, <1>2, <1>7, <2>2, <2>3 DEF Lines
<1>13. QED BY <1>1, <1>2, <1>8, <1>9, <1>10, <1>11, <1>12 DEF StoresInv

-----------------------------------------------------------------------------
(* The invariant                                                              *)

(* A first start finds no files.                                              *)
LEMMA StoresInit == Init => StoresInv
<1> SUFFICES ASSUME Init PROVE StoresInv
  OBVIOUS
<1> DEFINE none == [i \in {} |-> NoId]
<1>1. none \in MemMaps /\ DOMAIN none = {}
  <2>1. none \in [{} -> Memory]
    OBVIOUS
  <2>2. QED BY <2>1, MapMade
<1>2. NoCall \in CallType /\ NoCall.op = "none" /\ NoCall.pc = "idle"
  BY DEF NoCall, CallType, Topics
<1>3. /\ memories = none /\ disk = [values |-> values, memories |-> none]
      /\ values = [k \in Keys |-> 0] /\ call = [p \in Callers |-> NoCall]
      /\ holder = NoId /\ ring = <<>> /\ log = <<>> /\ temps = {} /\ used = 0 /\ faults = 0
      /\ up /\ ~open /\ alone /\ logged
  BY DEF Init
<1>4. up \in BOOLEAN /\ open \in BOOLEAN /\ alone \in BOOLEAN /\ logged \in BOOLEAN
  BY DEF Init
<1> HIDE DEF none
<1>5. \A p \in Callers : call[p] = NoCall /\ p # NoId
  BY <1>3, IdFacts
<1>6. Types
  <2>1. values \in Values /\ 0 \in 0 .. MaxCalls /\ 0 \in 0 .. MaxFaults
    BY <1>3, StateFilesAssumption DEF Values
  <2>2. disk \in [values : Values, memories : MemMaps] /\ call \in [Callers -> CallType]
    BY <1>1, <1>2, <1>3, <2>1
  <2>3. <<>> \in Seq(Ids \cup {Torn}) /\ Len(<<>>) <= RingSize
    BY StateFilesAssumption
  <2>4. QED BY <1>1, <1>3, <1>4, <2>1, <2>2, <2>3 DEF Types
<1>7. Stages /\ Numbers /\ Sets
  BY <1>2, <1>3, <1>5 DEF Stages, Numbers, Sets
<1>8. Held
  BY <1>3 DEF Held
<1>9. Sound(memories, 1 .. used) /\ Sound(disk.memories, 1 .. used)
  BY <1>1, <1>3 DEF Sound, Mutual
<1>10. Lines
  <2>1. Appending = {}
    BY <1>2, <1>5 DEF Appending
  <2>2. IsFiniteSet(Appending) /\ Cardinality(Appending) = 0
    BY <2>1, FS_EmptySet
  <2>3. Range(ring) = {}
    BY <1>3 DEF Range
  <2>4. Len(ring) = 0 /\ Len(log) = 0
    BY <1>3
  <2>5. QED BY <1>3, <2>2, <2>3, <2>4, StateFilesAssumption DEF Lines
<1>11. TempsAreInUse
  BY <1>3 DEF TempsAreInUse
<1>12. QED BY <1>6, <1>7, <1>8, <1>9, <1>10, <1>11 DEF StoresInv

(* StoresInv is inductive.                                                    *)
LEMMA StoresStep == StoresInv /\ [Next]_vars => StoresInv'
<1> SUFFICES ASSUME StoresInv, [Next]_vars PROVE StoresInv'
  OBVIOUS
<1>1. ASSUME NEW p \in Callers, NEW k \in Keys, SetShared(p, k) PROVE StoresInv'
  BY <1>1, SetSharedKeeps
<1>2. ASSUME NEW p \in Callers, NEW topic \in Topics, NEW olds \in SUBSET Ids,
             Remember(p, topic, olds)
      PROVE  StoresInv'
  BY <1>2, RememberKeeps
<1>3. ASSUME NEW p \in Callers,
             \/ AppendHistory(p) \/ AppendEntryToFile(p) \/ AppendFails(p)
             \/ WriteTemp(p) \/ RenameTemp(p) \/ WriteFails(p) \/ SetAnswer(p)
             \/ RememberRefused(p) \/ RememberLocked(p) \/ RememberOk(p) \/ RememberFails(p)
      PROVE  StoresInv'
  BY <1>3, AppendHistoryKeeps, AppendFileKeeps, WriteTempKeeps, RenameTempKeeps,
     WriteFailsKeeps, SetAnswerKeeps, RefusedKeeps, LockedKeeps, OkKeeps, FailsKeeps
<1>4. CASE Crash
  BY <1>4, CrashKeeps
<1>5. CASE WithStateDir
  BY <1>5, WithStateDirKeeps
<1>6. CASE UNCHANGED vars
  <2>1. /\ UNCHANGED <<up, values, memories, holder, ring, disk, log, open, temps, call, used,
                       alone, logged, faults>>
    BY <1>6 DEF vars, history
  <2>2. Appending' = Appending /\ (SetInFlight <=> SetInFlight')
    BY <2>1 DEF Appending, SetInFlight
  <2>3. Types' /\ Stages' /\ Numbers' /\ Held' /\ TempsAreInUse'
    BY <2>1 DEF StoresInv, Types, Stages, Numbers, Held, TempsAreInUse
  <2>4. Sets' /\ Lines'
    BY <2>1, <2>2 DEF StoresInv, Sets, Lines
  <2>5. QED BY <2>1, <2>3, <2>4 DEF StoresInv
<1>7. QED BY <1>1, <1>2, <1>3, <1>4, <1>5, <1>6 DEF Next

(* The inductive invariant holds.                                             *)
THEOREM StoresInvariant == Spec => []StoresInv
  BY StoresInit, StoresStep, PTL DEF Spec

-----------------------------------------------------------------------------
(* The refinement                                                             *)

PhaseOf(p) == IF call[p].op # "remember" THEN "idle"
              ELSE IF call[p].pc = "saved" THEN "stored" ELSE "asked"
Phase == [p \in Callers |-> PhaseOf(p)]

(* The ledger's definitions under the refinement mapping.                     *)
LEMMA LedgerIs ==
  /\ Phase' = Phase /\ disk'.memories = disk.memories => UNCHANGED Ledger!vars
  /\ \A p \in Callers :
        /\ Ledger!Ask(p) <=> /\ Phase[p] = "idle" /\ Phase' = [Phase EXCEPT ![p] = "asked"]
                             /\ disk'.memories = disk.memories
        /\ Ledger!AnswerOk(p) <=> /\ Phase[p] = "stored" /\ Phase' = [Phase EXCEPT ![p] = "idle"]
                                  /\ disk'.memories = disk.memories
        /\ Ledger!AnswerError(p) <=> /\ Phase[p] = "asked" /\ Phase' = [Phase EXCEPT ![p] = "idle"]
                                     /\ disk'.memories = disk.memories
  /\ Ledger!Crash <=> Phase' = [p \in Callers |-> "idle"] /\ disk'.memories = disk.memories
  BY DEF Ledger!vars, Ledger!Ask, Ledger!AnswerOk, Ledger!AnswerError, Ledger!Crash, Phase, PhaseOf

(* A step of one call moves its phase only.                                   *)
LEMMA PhaseMoves ==
  ASSUME NEW p \in Callers, Moved(p)
  PROVE  /\ Phase' = [Phase EXCEPT ![p] = PhaseOf(p)'] /\ Phase[p] = PhaseOf(p)
         /\ PhaseOf(p)' = PhaseOf(p) => Phase' = Phase
<1>1. \A q \in Callers : q # p => PhaseOf(q)' = PhaseOf(q)
  BY DEF Moved, PhaseOf
<1>2. QED BY <1>1 DEF Phase

(* The rename is where the ledger stores.                                     *)
LEMMA StoreStep ==
  ASSUME StoresInv, NEW p \in Callers, call[p].op = "remember", call[p].pc = "rename",
         p = holder, disk'.memories = call[p].data,
         Phase' = [Phase EXCEPT ![p] = "stored"]
  PROVE  Ledger!Next
<1>1. Types /\ Stages /\ Numbers /\ Held
  BY DEF StoresInv
<1>2. call[p].id \in Ids /\ call[p].topic \in {"a", "b"} /\ call[p].olds \in SUBSET Ids
  <2>1. call[p] \in CallType /\ call[p].id \in 1 .. used /\ used \in 0 .. MaxCalls
    BY <1>1 DEF Types, Numbers
  <2>2. QED BY <2>1, StateFilesAssumption DEF CallType, Ids, Topics
<1>3. PICK id \in Ids, topic \in {"a", "b"}, olds \in SUBSET Ids :
         id = call[p].id /\ topic = call[p].topic /\ olds = call[p].olds
  BY <1>2
<1>4. /\ id \notin DOMAIN disk.memories /\ Unmarked(disk.memories, olds)
      /\ disk'.memories = Marked(disk.memories, id, topic, olds)
  BY <1>1, <1>3, IdFacts DEF Held
<1>5. Phase[p] = "asked"
  BY DEF Phase, PhaseOf
<1>6. Ledger!Store(p, id, topic, olds)
  BY <1>4, <1>5 DEF Ledger!Store, Marked, Unmarked, Phase, PhaseOf
<1>7. olds \in SUBSET DOMAIN disk.memories /\ id \in Ids \ DOMAIN disk.memories
  BY <1>4 DEF Unmarked
<1>8. QED BY <1>6, <1>7 DEF Ledger!Next

(* Every step of the daemon is a step of the ledger or leaves it alone.       *)
LEMMA LedgerStep ==
  ASSUME StoresInv, [Next]_vars
  PROVE  [Ledger!Next]_(Ledger!vars)
<1>1. Types /\ Stages
  BY DEF StoresInv
<1>2. NoCall.op = "none"
  BY DEF NoCall
<1>3. ASSUME NEW p \in Callers, Moved(p), PhaseOf(p)' = PhaseOf(p), disk'.memories = disk.memories
      PROVE  UNCHANGED Ledger!vars
  BY <1>3, PhaseMoves, LedgerIs
<1>4. ASSUME NEW p \in Callers, NEW k \in Keys, SetShared(p, k) PROVE UNCHANGED Ledger!vars
  <2>1. Enter(p, "set", "temp", "a", {}, values')
    BY <1>4 DEF SetShared
  <2>2. Moved(p) /\ call[p].op = "none" /\ call'[p].op = "set" /\ disk' = disk
    BY <1>1, <2>1 DEF Enter, Idle, Moved, Types
  <2>3. QED BY <1>3, <2>2 DEF PhaseOf
<1>5. ASSUME NEW p \in Callers, AppendHistory(p) PROVE UNCHANGED Ledger!vars
  <2>1. Enter(p, "append", "file", "a", {}, <<>>)
    BY <1>5 DEF AppendHistory
  <2>2. Moved(p) /\ call[p].op = "none" /\ call'[p].op = "append" /\ disk' = disk
    BY <1>1, <2>1 DEF Enter, Idle, Moved, Types
  <2>3. QED BY <1>3, <2>2 DEF PhaseOf
<1>6. ASSUME NEW p \in Callers, NEW topic \in Topics, NEW olds \in SUBSET Ids,
             Remember(p, topic, olds)
      PROVE  Ledger!Ask(p)
  <2>1. Enter(p, "remember", "lock", topic, olds, <<>>)
    BY <1>6 DEF Remember
  <2>2. /\ Moved(p) /\ call[p].op = "none" /\ call'[p].op = "remember" /\ call'[p].pc = "lock"
        /\ disk' = disk
    BY <1>1, <2>1 DEF Enter, Idle, Moved, Types
  <2>3. PhaseOf(p) = "idle" /\ PhaseOf(p)' = "asked"
    BY <2>2 DEF PhaseOf
  <2>4. QED BY <2>2, <2>3, PhaseMoves, LedgerIs
<1>7. ASSUME NEW p \in Callers, SetAnswer(p) \/ AppendEntryToFile(p) \/ AppendFails(p)
      PROVE  UNCHANGED Ledger!vars
  <2>1. Answer(p) /\ call[p].op \in {"set", "append"} /\ disk' = disk
    BY <1>7 DEF SetAnswer, AppendEntryToFile, AppendFails, At
  <2>2. Moved(p) /\ call'[p].op = "none"
    BY <1>1, <1>2, <2>1, AnswerMoves
  <2>3. QED BY <1>3, <2>1, <2>2 DEF PhaseOf
<1>8. ASSUME NEW p \in Callers, WriteTemp(p) \/ WriteFails(p) PROVE UNCHANGED Ledger!vars
  <2>1. /\ call[p].pc \in {"temp", "rename"} /\ disk' = disk
        /\ Goto(p, "rename") \/ Goto(p, "failed")
    BY <1>8 DEF WriteTemp, WriteFails
  <2>2. Moved(p) /\ call'[p].op = call[p].op /\ call'[p].pc \in {"rename", "failed"}
    BY <1>1, <2>1, GotoMoves
  <2>3. QED BY <1>3, <2>1, <2>2 DEF PhaseOf
<1>9. ASSUME NEW p \in Callers, RenameTemp(p) PROVE [Ledger!Next]_(Ledger!vars)
  <2>1. /\ call[p].op = "set" => disk'.memories = disk.memories
        /\ call[p].op = "remember" => p = holder /\ disk'.memories = call[p].data
    BY <1>9, RenameTempKeeps
  <2>2. call[p].pc = "rename" /\ Goto(p, "saved")
    BY <1>9 DEF RenameTemp
  <2>3. Moved(p) /\ call'[p].op = call[p].op /\ call'[p].pc = "saved"
    BY <1>1, <2>2, GotoMoves
  <2>4. CASE call[p].op = "set"
    BY <1>3, <2>1, <2>3, <2>4 DEF PhaseOf
  <2>5. CASE call[p].op = "remember"
    <3>1. Phase' = [Phase EXCEPT ![p] = "stored"]
      BY <2>3, <2>5, PhaseMoves DEF PhaseOf
    <3>2. QED BY <2>1, <2>2, <2>5, <3>1, StoreStep
  <2>6. QED BY <1>1, <2>2, <2>4, <2>5 DEF Stages, Types, CallType
<1>10. ASSUME NEW p \in Callers, RememberRefused(p) \/ RememberFails(p) PROVE Ledger!AnswerError(p)
  <2>1. /\ Answer(p) /\ call[p].op = "remember" /\ call[p].pc \in {"lock", "failed"} /\ disk' = disk
    BY <1>10 DEF RememberRefused, RememberFails, At
  <2>2. Moved(p) /\ call'[p].op = "none"
    BY <1>1, <1>2, <2>1, AnswerMoves
  <2>3. PhaseOf(p) = "asked" /\ PhaseOf(p)' = "idle"
    BY <2>1, <2>2 DEF PhaseOf
  <2>4. QED BY <2>1, <2>2, <2>3, PhaseMoves, LedgerIs
<1>11. ASSUME NEW p \in Callers, RememberLocked(p) PROVE UNCHANGED Ledger!vars
  <2>1. /\ call[p].op = "remember" /\ call[p].pc = "lock" /\ disk' = disk
        /\ call' = [call EXCEPT ![p].pc = "temp", ![p].data = memories']
    BY <1>11 DEF RememberLocked, At
  <2>2. Moved(p) /\ call'[p].op = "remember" /\ call'[p].pc = "temp"
    BY <1>1, <2>1 DEF Moved, Types, CallType
  <2>3. QED BY <1>3, <2>1, <2>2 DEF PhaseOf
<1>12. ASSUME NEW p \in Callers, RememberOk(p) PROVE Ledger!AnswerOk(p)
  <2>1. Answer(p) /\ call[p].op = "remember" /\ call[p].pc = "saved" /\ disk' = disk
    BY <1>12 DEF RememberOk, At
  <2>2. Moved(p) /\ call'[p].op = "none"
    BY <1>1, <1>2, <2>1, AnswerMoves
  <2>3. PhaseOf(p) = "stored" /\ PhaseOf(p)' = "idle"
    BY <2>1, <2>2 DEF PhaseOf
  <2>4. QED BY <2>1, <2>2, <2>3, PhaseMoves, LedgerIs
<1>13. ASSUME Crash PROVE Ledger!Crash
  <2>1. call' = [p \in Callers |-> NoCall] /\ disk' = disk
    BY <1>13 DEF Crash
  <2>2. Phase' = [p \in Callers |-> "idle"]
    BY <1>2, <2>1 DEF Phase, PhaseOf
  <2>3. QED BY <2>1, <2>2, LedgerIs
<1>14. ASSUME WithStateDir \/ UNCHANGED vars PROVE UNCHANGED Ledger!vars
  <2>1. call' = call /\ disk' = disk
    BY <1>14 DEF WithStateDir, vars
  <2>2. Phase' = Phase
    BY <2>1 DEF Phase, PhaseOf
  <2>3. QED BY <2>1, <2>2, LedgerIs
<1>15. CASE UNCHANGED vars
  BY <1>14, <1>15
<1>16. CASE Crash \/ WithStateDir
  BY <1>13, <1>14, <1>16 DEF Ledger!Next
<1>17. CASE \E p \in Callers : \/ \E k \in Keys : SetShared(p, k)
                               \/ AppendHistory(p) \/ SetAnswer(p) \/ AppendEntryToFile(p)
                               \/ AppendFails(p) \/ WriteTemp(p) \/ WriteFails(p)
                               \/ RememberLocked(p)
  BY <1>4, <1>5, <1>7, <1>8, <1>11, <1>17
<1>18. CASE \E p \in Callers : RenameTemp(p)
  BY <1>9, <1>18
<1>19. CASE \E p \in Callers : \/ \E topic \in Topics, olds \in SUBSET Ids : Remember(p, topic, olds)
                               \/ RememberRefused(p) \/ RememberFails(p) \/ RememberOk(p)
  <2>1. Ledger!Next
    BY <1>6, <1>10, <1>12, <1>19 DEF Ledger!Next
  <2>2. QED BY <2>1
<1>20. QED BY <1>15, <1>16, <1>17, <1>18, <1>19 DEF Next

(* The memory store, with its lock, its temp file, its rename and its undoing, *)
(* implements the ledger.                                                     *)
THEOREM ImplementsLedger == Spec => LedgerSpec
<1>1. Init => Ledger!Init
  <2>1. SUFFICES ASSUME Init PROVE Ledger!Init
    OBVIOUS
  <2>2. disk.memories = [i \in {} |-> NoId] /\ call = [p \in Callers |-> NoCall]
    BY <2>1 DEF Init
  <2>3. \A p \in Callers : call[p].op = "none"
    BY <2>2 DEF NoCall
  <2>4. QED BY <2>2, <2>3 DEF Ledger!Init
<1>2. StoresInv /\ [Next]_vars => [Ledger!Next]_(Ledger!vars)
  BY LedgerStep
<1>3. QED BY <1>1, <1>2, StoresInvariant, PTL DEF Spec, LedgerSpec, Ledger!Spec

-----------------------------------------------------------------------------
(* The safety properties                                                      *)

(* The order of a recall is transitive.                                       *)
LEMMA RanksInOrder ==
  ASSUME Types, NEW i \in DOMAIN memories, NEW j \in DOMAIN memories, NEW k \in DOMAIN memories,
         RanksBefore(k, j), RanksBefore(j, i)
  PROVE  RanksBefore(k, i)
<1>1. /\ i \in Nat /\ j \in Nat /\ k \in Nat
      /\ memories[i].at \in Nat /\ memories[j].at \in Nat /\ memories[k].at \in Nat
  <2>1. memories[i] \in Memory /\ memories[j] \in Memory /\ memories[k] \in Memory
        /\ DOMAIN memories \subseteq Ids
    BY MapFacts DEF Types
  <2>2. QED BY <2>1, IdFacts DEF Memory
<1>2. QED BY <1>1 DEF RanksBefore

(* What the limit cuts off does not come before anything that is shown.       *)
LEMMA RecallCutsTheLast ==
  ASSUME Types, NEW q, q.limit \in Int, NEW i \in Recall(q), NEW j \in Matches(q) \ Recall(q)
  PROVE  ~RanksBefore(j, i)
<1> DEFINE limit == IF q.limit <= 0 THEN DefaultLimit ELSE q.limit
           before(m) == {k \in Matches(q) : RanksBefore(k, m)}
<1>1. SUFFICES ASSUME RanksBefore(j, i) PROVE FALSE
  OBVIOUS
<1>2. /\ i \in Matches(q) /\ Cardinality(before(i)) < limit
      /\ ~(Cardinality(before(j)) < limit)
  BY DEF Recall
<1>3. Matches(q) \subseteq DOMAIN memories /\ DOMAIN memories \subseteq Ids
  BY MapFacts DEF Matches, Types
<1>4. before(j) \subseteq before(i)
  BY <1>1, <1>2, <1>3, RanksInOrder
<1>5. IsFiniteSet(Matches(q))
  <2>1. IsFiniteSet(Ids)
    BY FS_Interval, StateFilesAssumption DEF Ids
  <2>2. QED BY <1>3, <2>1, FS_Subset
<1>6. IsFiniteSet(before(i)) /\ Cardinality(before(j)) <= Cardinality(before(i))
  <2>1. IsFiniteSet(before(i))
    BY <1>5, FS_Subset
  <2> HIDE DEF before
  <2>2. QED BY <1>4, <2>1, FS_Subset
<1>7. Cardinality(before(i)) \in Nat /\ Cardinality(before(j)) \in Nat
  <2>1. IsFiniteSet(before(j))
    BY <1>5, FS_Subset
  <2> HIDE DEF before
  <2>2. QED BY <1>6, <2>1, FS_CardinalityType
<1>8. limit \in Int
  BY StateFilesAssumption
<1> HIDE DEF before, limit
<1>9. QED BY <1>2, <1>6, <1>7, <1>8

(* What a recall shows is saved, supersedes go both ways, and a limit cuts    *)
(* off the least: in every state, whichever callers raced for the lock and    *)
(* however many writes failed and were undone.                                *)
THEOREM MemoriesHold == Spec => []MemoriesAreRight
<1>1. StoresInv => MemoriesAreRight
  <2> SUFFICES ASSUME StoresInv PROVE MemoriesAreRight
    OBVIOUS
  <2>1. Types /\ Stages /\ Held /\ Sound(memories, 1 .. used)
    BY DEF StoresInv
  <2>2. /\ DOMAIN memories \subseteq Ids /\ DOMAIN disk.memories \subseteq Ids
        /\ \A i \in DOMAIN memories : memories[i] \in Memory
    BY <2>1, MapFacts DEF Types
  <2>3. TypeOK
    <3>1. holder # NoId => call[holder].op = "remember"
      BY <2>1 DEF Types, Stages
    <3>2. \A n \in 1 .. Len(log) : log[n] \in Ids \cup {Torn}
      BY <2>1 DEF Types
    <3>3. QED BY <2>1, <2>2, <3>1, <3>2 DEF TypeOK, Types, Values
  <2>4. RecallsWhatIsSaved /\ SupersedesAreMutual
    BY <2>1 DEF RecallsWhatIsSaved, SupersedesAreMutual, Held, Sound, Mutual
  <2>5. RecallKeepsTheBest
    <3>1. ASSUME NEW q \in [superseded : BOOLEAN, topics : {{}, {"a"}}, limit : {0, 1}],
                 NEW i \in Recall(q), NEW j \in Matches(q) \ Recall(q)
          PROVE  /\ memories[j].by = NoId => memories[i].by = NoId
                 /\ (memories[i].by = NoId <=> memories[j].by = NoId) =>
                       memories[i].at >= memories[j].at
      <4>1. q.limit \in Int
        OBVIOUS
      <4>2. ~RanksBefore(j, i)
        BY <2>1, <4>1, RecallCutsTheLast
      <4>3. i \in DOMAIN memories /\ j \in DOMAIN memories
        BY DEF Recall, Matches
      <4>4. memories[i].at \in Nat /\ memories[j].at \in Nat
        BY <2>2, <4>3, IdFacts DEF Memory
      <4>5. QED BY <4>2, <4>4 DEF RanksBefore
    <3>2. QED BY <3>1 DEF RecallKeepsTheBest
  <2>6. QED BY <2>3, <2>4, <2>5 DEF MemoriesAreRight
<1>2. QED BY <1>1, StoresInvariant, PTL

(* Sets that do not overlap are durable, the ring's lines are in the log, and *)
(* every temp file belongs to a write that goes on or to a dead daemon.       *)
THEOREM FilesHold == Spec => []FilesAreRight
<1>1. StoresInv => FilesAreRight
  <2> SUFFICES ASSUME StoresInv PROVE FilesAreRight
    OBVIOUS
  <2>1. Sets /\ Lines /\ TempsAreInUse /\ Types
    BY DEF StoresInv
  <2>2. SetsAloneAreDurable
    BY <2>1 DEF SetsAloneAreDurable, Sets
  <2>3. RingIsLogged
    <3>1. SUFFICES ASSUME up, logged, \A p \in Callers : call[p].op # "append"
                   PROVE  /\ Range(ring) \subseteq Range(log)
                          /\ Len(ring) = IF Len(log) < RingSize THEN Len(log) ELSE RingSize
      BY DEF RingIsLogged
    <3>2. Appending = {} /\ Cardinality(Appending) = 0
      BY <3>1, FS_EmptySet DEF Appending
    <3>3. {call[p].id : p \in Appending} = {}
      BY <3>2
    <3>4. Len(log) + Cardinality(Appending) = Len(log)
      BY <2>1, <3>2 DEF Types
    <3>5. QED BY <2>1, <3>1, <3>3, <3>4 DEF Lines
  <2>4. QED BY <2>1, <2>2, <2>3 DEF FilesAreRight
<1>2. QED BY <1>1, StoresInvariant, PTL

-----------------------------------------------------------------------------
(* Induction over a range of numbers *)

LEMMA SmallestNumber ==
  ASSUME NEW S \in SUBSET Nat, S # {}
  PROVE  \E x \in S : \A y \in S : x <= y
<1>1. \E x \in S : \A y \in S : ~(<<y, x>> \in OpToRel(<, Nat))
  BY NatLessThanWellFounded, WFMin, Zenon
<1>2. PICK x \in S : \A y \in S : ~(<<y, x>> \in OpToRel(<, Nat))
  BY <1>1
<1>3. \A y \in S : ~(y < x)
  BY <1>2 DEF OpToRel
<1> QED BY <1>3

LEMMA Upwards ==
  ASSUME NEW n \in Nat, NEW S, 0 \in S, \A k \in 0..n : k < n /\ k \in S => k + 1 \in S
  PROVE  \A k \in 0..n : k \in S
<1> DEFINE B == {k \in 0..n : k \notin S}
<1> SUFFICES ASSUME B # {} PROVE FALSE
  OBVIOUS
<1>1. PICK x \in B : \A y \in B : x <= y
  <2>1. B \in SUBSET Nat
    OBVIOUS
  <2> HIDE DEF B
  <2> QED BY <2>1, SmallestNumber
<1>2. x # 0 /\ x \in 0..n
  BY <1>1
<1>3. x - 1 \in 0..n /\ x - 1 \notin B
  BY <1>1, <1>2
<1> QED BY <1>1, <1>2, <1>3

LEMMA Downwards ==
  ASSUME NEW n \in Nat, NEW S, n \in S, \A k \in 0..n : k < n /\ k + 1 \in S => k \in S
  PROVE  \A k \in 0..n : k \in S
<1> DEFINE U == {k \in 0..n : n - k \in S}
<1>1. 0 \in U
  OBVIOUS
<1>2. ASSUME NEW k \in 0..n, k < n, k \in U PROVE k + 1 \in U
  <2>1. n - (k + 1) \in 0..n /\ (n - (k + 1)) + 1 = n - k /\ n - (k + 1) < n
    BY <1>2
  <2>2. (n - (k + 1)) + 1 \in S
    BY <1>2, <2>1
  <2>3. n - (k + 1) \in S
    BY <2>1, <2>2
  <2> QED BY <1>2, <2>3
<1>3. \A k \in 0..n : k \in U
  <2> HIDE DEF U
  <2> QED BY <1>1, <1>2, Upwards
<1>4. ASSUME NEW k \in 0..n PROVE k \in S
  <2>1. n - k \in 0..n /\ n - (n - k) = k
    OBVIOUS
  <2> QED BY <1>3, <2>1
<1> QED BY <1>4

-----------------------------------------------------------------------------
(* The fields *)

Field == Seq(STRING)

LEMMA PrintedType ==
  ASSUME NEW e \in GitEntries
  PROVE  /\ Printed(e) \in Seq(Field) /\ Printed(e)[1] = <<e.x, e.y>> /\ Len(Printed(e)[1]) = 2
         /\ Len(Printed(e)) = IF e.x \in {"R", "C"} \/ e.y \in {"R", "C"} THEN 2 ELSE 1
         /\ Len(Printed(e)) = 2 => Printed(e)[2] = e.old /\ (e.x \in {"R", "C"} \/ e.y \in {"R", "C"})
<1>1. e.x \in STRING /\ e.y \in STRING /\ e.old \in Seq(STRING)
  BY DEF GitEntries
<1> DEFINE f == <<e.x, e.y>>
           g == e.old
<1>2. f \in Field /\ Len(f) = 2 /\ g \in Field
  BY <1>1 DEF Field
<1> HIDE DEF f, g
<1>3. Printed(e) = IF e.x \in {"R", "C"} \/ e.y \in {"R", "C"} THEN <<f, g>> ELSE <<f>>
  BY DEF Printed, f, g
<1>4. Printed(e)[1] = f /\ Printed(e) \in Seq(Field)
  BY <1>2, <1>3
<1>5. /\ Len(Printed(e)) = IF e.x \in {"R", "C"} \/ e.y \in {"R", "C"} THEN 2 ELSE 1
      /\ Len(Printed(e)) = 2 => Printed(e)[2] = g
  BY <1>2, <1>3
<1>6. Len(Printed(e)) = 2 => e.x \in {"R", "C"} \/ e.y \in {"R", "C"}
  <2>1. CASE ~(e.x \in {"R", "C"} \/ e.y \in {"R", "C"})
    BY <1>3, <2>1
  <2> QED BY <2>1
<1> QED BY <1>2, <1>4, <1>5, <1>6 DEF f, g

\* The recursion of Fields has a solution, which goes on with each entry.
LEMMA FieldsSolved ==
  ASSUME NEW es \in Seq(GitEntries)
  PROVE  \E F : F[0] = <<>> /\ (\A k \in 1..Len(es) : F[k] = F[k-1] \o Printed(es[k])) /\ Fields(es) = F[Len(es)]
<1> DEFINE n == Len(es)
           Solves(F, m) == F = [i \in 0..m |-> IF i = 0 THEN <<>> ELSE F[i-1] \o Printed(es[i])]
           S == {m \in 0..n : \E F : Solves(F, m)}
<1>1. n \in Nat
  OBVIOUS
<1>2. 0 \in S
  <2>1. Solves([i \in 0..0 |-> <<>>], 0)
    OBVIOUS
  <2> HIDE DEF Solves
  <2> QED BY <1>1, <2>1
<1>3. ASSUME NEW m \in 0..n, m < n, m \in S PROVE m + 1 \in S
  <2>1. PICK F : Solves(F, m)
    BY <1>3
  <2> DEFINE last == F[m] \o Printed(es[m+1])
             G == [i \in 0..(m+1) |-> IF i = m + 1 THEN last ELSE F[i]]
             H == [i \in 0..(m+1) |-> IF i = 0 THEN <<>> ELSE G[i-1] \o Printed(es[i])]
  <2>2. ASSUME NEW i \in 0..(m+1) PROVE G[i] = H[i]
    <3>1. CASE i = m + 1
      <4>1. m \in 0..(m+1) /\ m # m + 1 /\ (m + 1) - 1 = m /\ m + 1 # 0
        OBVIOUS
      <4>2. G[m] = F[m] /\ G[m+1] = last
        BY <4>1
      <4>3. H[m+1] = G[m] \o Printed(es[m+1])
        BY <4>1
      <4> QED BY <3>1, <4>2, <4>3
    <3>2. CASE i # m + 1 /\ i # 0
      <4>1. i \in 0..m /\ i - 1 \in 0..m /\ i - 1 # m + 1 /\ i - 1 \in 0..(m+1)
        BY <3>2
      <4>2. G[i] = F[i] /\ G[i-1] = F[i-1]
        BY <3>2, <4>1
      <4>3. F[i] = F[i-1] \o Printed(es[i])
        <5> HIDE DEF G, H, last
        <5> QED BY <2>1, <3>2, <4>1
      <4>4. H[i] = G[i-1] \o Printed(es[i])
        BY <3>2
      <4> QED BY <4>2, <4>3, <4>4
    <3>3. CASE i = 0
      <4>1. F[0] = <<>>
        BY <2>1
      <4> QED BY <3>3, <4>1
    <3> QED BY <3>1, <3>2, <3>3
  <2>3. G = H
    BY <2>2
  <2>4. Solves(G, m + 1)
    BY <2>3
  <2>5. m + 1 \in 0..n
    BY <1>1, <1>3
  <2> HIDE DEF Solves, G, n
  <2> QED BY <2>4, <2>5
<1>4. n \in S
  <2> HIDE DEF S, n
  <2>1. \A k \in 0..n : k \in S
    BY <1>1, <1>2, <1>3, Upwards
  <2> QED BY <1>1, <2>1
<1>5. \E F : Solves(F, n)
  BY <1>4
<1> DEFINE F0 == CHOOSE F : Solves(F, n)
<1>6. Solves(F0, n)
  BY <1>5
<1>7. Fields(es) = F0[n]
  BY DEF Fields
<1> HIDE DEF F0
<1>8. \A i \in 0..n : F0[i] = IF i = 0 THEN <<>> ELSE F0[i-1] \o Printed(es[i])
  BY <1>6
<1> HIDE DEF n
<1>9. F0[0] = <<>>
  BY <1>1, <1>8
<1>10. ASSUME NEW k \in 1..n PROVE F0[k] = F0[k-1] \o Printed(es[k])
  <2>1. k \in 0..n /\ k # 0
    BY <1>1
  <2> QED BY <1>8, <2>1, Zenon
<1> QED BY <1>7, <1>9, <1>10 DEF n
\* Where the fields of each entry are.
LEMMA FieldsAt ==
  ASSUME NEW es \in Seq(GitEntries)
  PROVE  /\ Fields(es) \in Seq(Field)
         /\ \E S \in [0..Len(es) -> Nat] :
              /\ S[0] = 0 /\ S[Len(es)] = Len(Fields(es))
              /\ \A k \in 1..Len(es) :
                   /\ S[k] = S[k-1] + Len(Printed(es[k])) /\ S[k] <= Len(Fields(es))
                   /\ Fields(es)[S[k-1] + 1] = <<es[k].x, es[k].y>>
                   /\ Len(Printed(es[k])) = 2 => Fields(es)[S[k-1] + 2] = es[k].old
<1> DEFINE n == Len(es)
           f == Fields(es)
<1>1. PICK F : F[0] = <<>> /\ (\A k \in 1..n : F[k] = F[k-1] \o Printed(es[k])) /\ f = F[n]
  BY FieldsSolved
<1>2. n \in Nat /\ \A k \in 1..n : es[k] \in GitEntries
  OBVIOUS
<1> HIDE DEF n, f
<1>3. F[0] = <<>> /\ \A k \in 1..n : F[k] = F[k-1] \o Printed(es[k])
  BY <1>1
<1>4. \A k \in 0..n : F[k] \in Seq(Field)
  <2> DEFINE T == {k \in 0..n : F[k] \in Seq(Field)}
  <2>1. 0 \in T
    <3>1. <<>> \in Seq(Field) /\ 0 \in 0..n
      BY <1>2
    <3>2. F[0] \in Seq(Field)
      BY <1>3, <3>1, Zenon
    <3> QED BY <3>1, <3>2
  <2>2. ASSUME NEW k \in 0..n, k < n, k \in T PROVE k + 1 \in T
    <3>1. k + 1 \in 1..n /\ (k + 1) - 1 = k
      BY <1>2, <2>2
    <3>2. Printed(es[k+1]) \in Seq(Field)
      BY <3>1, <1>2, PrintedType
    <3>3. F[k+1] = F[k] \o Printed(es[k+1])
      BY <3>1, <1>3
    <3>4. F[k] \in Seq(Field)
      BY <2>2
    <3>5. F[k] \o Printed(es[k+1]) \in Seq(Field)
      BY <3>2, <3>4, ConcatProperties
    <3>6. F[k+1] \in Seq(Field)
      BY <3>3, <3>5, Zenon
    <3> QED BY <3>1, <3>6
  <2>3. \A k \in 0..n : k \in T
    <3> HIDE DEF T
    <3> QED BY <1>2, <2>1, <2>2, Upwards
  <2> QED BY <2>3
<1> DEFINE S == [k \in 0..n |-> Len(F[k])]
<1>5. S \in [0..n -> Nat] /\ S[0] = 0 /\ S[n] = Len(f)
  BY <1>1, <1>2, <1>3, <1>4
<1>6. ASSUME NEW k \in 1..n
      PROVE  /\ S[k] = S[k-1] + Len(Printed(es[k])) /\ S[k] \in Nat /\ S[k-1] \in Nat
             /\ \A p \in 1..S[k-1] : F[k][p] = F[k-1][p]
             /\ \A p \in 1..Len(Printed(es[k])) : F[k][S[k-1] + p] = Printed(es[k])[p]
  <2>0. F[k] = F[k-1] \o Printed(es[k])
    BY <1>3, Zenon
  <2>1. k \in 0..n /\ k - 1 \in 0..n
    BY <1>2
  <2>2. F[k-1] \in Seq(Field) /\ Printed(es[k]) \in Seq(Field)
    BY <2>1, <1>2, <1>4, PrintedType
  <2>3. S[k] = Len(F[k]) /\ S[k-1] = Len(F[k-1])
    BY <2>1
  <2> DEFINE a == F[k-1]
             b == Printed(es[k])
  <2>4. a \in Seq(Field) /\ b \in Seq(Field)
    BY <2>2
  <2> HIDE DEF a, b
  <2>5. /\ Len(a \o b) = Len(a) + Len(b) /\ Len(a) \in Nat /\ Len(b) \in Nat
        /\ \A p \in 1..Len(a) : (a \o b)[p] = a[p]
        /\ \A p \in 1..Len(b) : (a \o b)[Len(a) + p] = b[p]
    BY <2>4
  <2>6. F[k] = a \o b
    BY <2>0 DEF a, b
  <2>7. S[k] = Len(a) + Len(b) /\ S[k-1] = Len(a)
    <3>1. Len(F[k]) = Len(a) + Len(b)
      BY <2>5, <2>6, Zenon
    <3>2. Len(F[k-1]) = Len(a)
      BY DEF a
    <3> HIDE DEF S
    <3> QED BY <2>3, <3>1, <3>2
  <2> HIDE DEF S
  <2>8. \A p \in 1..S[k-1] : F[k][p] = F[k-1][p]
    <3>1. \A p \in 1..Len(a) : F[k][p] = a[p]
      BY <2>5, <2>6, Zenon
    <3> QED BY <2>7, <3>1 DEF a
  <2>9. \A p \in 1..Len(b) : F[k][S[k-1] + p] = b[p]
    <3>1. \A p \in 1..Len(b) : F[k][Len(a) + p] = b[p]
      BY <2>5, <2>6, Zenon
    <3> QED BY <2>7, <3>1, Zenon
  <2>10. S[k] = S[k-1] + Len(b) /\ S[k] \in Nat /\ S[k-1] \in Nat
    BY <2>5, <2>7
  <2> QED BY <2>8, <2>9, <2>10 DEF b
<1>7. \A k \in 0..n : S[k] <= Len(f) /\ \A p \in 1..S[k] : f[p] = F[k][p]
  <2> DEFINE T == {k \in 0..n : S[k] <= Len(f) /\ \A p \in 1..S[k] : f[p] = F[k][p]}
  <2> HIDE DEF S
  <2>0. Len(f) \in Nat
    BY <1>1, <1>2, <1>4
  <2>1. n \in T
    BY <1>1, <1>2, <1>5, <2>0
  <2>2. ASSUME NEW k \in 0..n, k < n, k + 1 \in T PROVE k \in T
    <3>1. k + 1 \in 1..n /\ (k + 1) - 1 = k
      BY <1>2, <2>2
    <3>2. /\ S[k+1] = S[k] + Len(Printed(es[k+1])) /\ S[k+1] \in Nat /\ S[k] \in Nat
          /\ \A p \in 1..S[k] : F[k+1][p] = F[k][p]
      BY <3>1, <1>6
    <3>3. Len(Printed(es[k+1])) \in Nat
      BY <3>1, <1>2, PrintedType
    <3>4. S[k+1] <= Len(f) /\ \A p \in 1..S[k+1] : f[p] = F[k+1][p]
      BY <2>2
    <3>5. S[k] <= S[k+1] /\ S[k] <= Len(f)
      BY <2>0, <3>2, <3>3, <3>4
    <3>6. ASSUME NEW p \in 1..S[k] PROVE f[p] = F[k][p]
      <4>1. p \in 1..S[k+1]
        BY <3>2, <3>5
      <4> QED BY <3>2, <3>4, <4>1
    <3> QED BY <3>5, <3>6
  <2>3. \A k \in 0..n : k \in T
    <3> HIDE DEF T
    <3> QED BY <1>2, <2>1, <2>2, Downwards
  <2> QED BY <2>3
<1>8. ASSUME NEW k \in 1..n
      PROVE  /\ S[k] = S[k-1] + Len(Printed(es[k])) /\ S[k] <= Len(f)
             /\ f[S[k-1] + 1] = <<es[k].x, es[k].y>>
             /\ Len(Printed(es[k])) = 2 => f[S[k-1] + 2] = es[k].old
  <2> HIDE DEF S
  <2>1. /\ S[k] = S[k-1] + Len(Printed(es[k])) /\ S[k] \in Nat /\ S[k-1] \in Nat
        /\ \A p \in 1..Len(Printed(es[k])) : F[k][S[k-1] + p] = Printed(es[k])[p]
    BY <1>6
  <2>2. S[k] <= Len(f) /\ \A p \in 1..S[k] : f[p] = F[k][p]
    BY <1>2, <1>7
  <2>3. /\ Printed(es[k])[1] = <<es[k].x, es[k].y>> /\ Len(Printed(es[k])) \in 1..2
        /\ Len(Printed(es[k])) = 2 => Printed(es[k])[2] = es[k].old
    BY <1>2, PrintedType
  <2>4. f[S[k-1] + 1] = <<es[k].x, es[k].y>>
    <3>1. S[k-1] + 1 \in 1..S[k] /\ 1 \in 1..Len(Printed(es[k]))
      BY <2>1, <2>3
    <3>2. F[k][S[k-1] + 1] = Printed(es[k])[1]
      BY <2>1, <3>1
    <3> QED BY <2>2, <2>3, <3>1, <3>2
  <2>5. ASSUME Len(Printed(es[k])) = 2 PROVE f[S[k-1] + 2] = es[k].old
    <3>1. S[k-1] + 2 \in 1..S[k] /\ 2 \in 1..Len(Printed(es[k]))
      BY <2>1, <2>5
    <3>2. F[k][S[k-1] + 2] = Printed(es[k])[2]
      BY <2>1, <3>1
    <3> QED BY <2>2, <2>3, <2>5, <3>1, <3>2
  <2> QED BY <2>1, <2>2, <2>4, <2>5
<1>9. f \in Seq(Field)
  BY <1>1, <1>2, <1>4
<1> HIDE DEF S
<1> QED BY <1>5, <1>8, <1>9 DEF n, f

-----------------------------------------------------------------------------
(* The parser *)

Counts == [Classes -> Nat]
Bumped(c, class) == IF class = "none" THEN c ELSE [c EXCEPT ![class] = @ + 1]

LEMMA ClassesAre == Classes = {"modified", "added", "deleted", "untracked"} /\ NoCounts = [k \in Classes |-> 0]
BY DEF Classes, NoCounts

LEMMA BumpedType ==
  ASSUME NEW c \in Counts, NEW class \in Classes \union {"none"}
  PROVE  Bumped(c, class) \in Counts
BY DEF Bumped, Counts

\* The recursion of Parse has a solution.
LEMMA ParseSolved ==
  ASSUME NEW f \in Seq(Field)
  PROVE  \E P : /\ Parse(f) = P[1] /\ P[Len(f) + 1] = NoCounts /\ P[Len(f) + 2] = NoCounts
                /\ \A i \in 1..Len(f) :
                     P[i] = IF Len(f[i]) < 2 THEN P[i+1] ELSE Bumped(P[i + Width(f[i])], ClassOf(f[i]))
<1> DEFINE n == Len(f)
           Body(P, i) == IF i > Len(f) THEN NoCounts
                         ELSE IF Len(f[i]) < 2 THEN P[i+1]
                         ELSE LET rest == P[i + Width(f[i])]
                              IN  IF ClassOf(f[i]) = "none" THEN rest
                                  ELSE [rest EXCEPT ![ClassOf(f[i])] = @ + 1]
           Solves(P, a) == P = [i \in a..(n + 2) |-> Body(P, i)]
           S == {k \in 0..n : \E P : Solves(P, k + 1)}
<1>1. n \in Nat /\ n = Len(f)
  OBVIOUS
<1>2. \A i : Width(f[i]) \in {1, 2}
  BY DEF Width
<1>3. n \in S
  <2> DEFINE P == [i \in (n+1)..(n+2) |-> NoCounts]
             Q == [i \in (n+1)..(n+2) |-> Body(P, i)]
  <2>1. ASSUME NEW i \in (n+1)..(n+2) PROVE Body(P, i) = NoCounts
    <3>1. i > Len(f)
      BY <1>1
    <3> QED BY <3>1
  <2> HIDE DEF Body
  <2>2. P = Q
    BY <2>1
  <2>3. Solves(P, n + 1)
    BY <2>2
  <2> HIDE DEF Solves, P, n
  <2> QED BY <1>1, <2>3
<1>4. ASSUME NEW k \in 0..n, k < n, k + 1 \in S PROVE k \in S
  <2>1. PICK P : Solves(P, (k + 1) + 1)
    BY <1>4
  <2> DEFINE a == k + 1
             Q == [i \in a..(n+2) |-> IF i = a THEN Body(P, a) ELSE P[i]]
             R == [i \in a..(n+2) |-> Body(Q, i)]
  <2>2. a \in Nat /\ a >= 1 /\ a <= n
    BY <1>1, <1>4
  <2>3. P = [i \in (a+1)..(n+2) |-> Body(P, i)]
    BY <2>1
  <2> HIDE DEF a, n
  <2>4. \A j \in (a+1)..(n+2) : Q[j] = P[j]
    <3> HIDE DEF Body
    <3> QED BY <1>1, <2>2
  <2>5. ASSUME NEW i \in a..(n+2) PROVE Body(Q, i) = Body(P, i)
    <3>1. CASE i > Len(f)
      BY <3>1
    <3>2. CASE ~(i > Len(f))
      <4>1. i + 1 \in (a+1)..(n+2) /\ i + 2 \in (a+1)..(n+2)
        BY <1>1, <2>2, <3>2
      <4>2. i + Width(f[i]) \in (a+1)..(n+2)
        BY <1>2, <4>1
      <4>3. Q[i+1] = P[i+1] /\ Q[i + Width(f[i])] = P[i + Width(f[i])]
        BY <2>4, <4>1, <4>2
      <4> HIDE DEF Q
      <4> QED BY <4>3
    <3> QED BY <3>1, <3>2
  <2>6. ASSUME NEW i \in a..(n+2) PROVE Q[i] = R[i]
    <3>1. R[i] = Body(P, i)
      <4> HIDE DEF Body, Q
      <4> QED BY <2>5
    <3>2. CASE i = a
      <4> HIDE DEF Body
      <4> QED BY <3>1, <3>2
    <3>3. CASE i # a
      <4>1. i \in (a+1)..(n+2)
        BY <1>1, <2>2, <3>3
      <4> HIDE DEF Body
      <4>2. P[i] = Body(P, i)
        BY <2>3, <4>1
      <4> HIDE DEF Q
      <4> QED BY <2>4, <3>1, <4>1, <4>2
    <3> QED BY <3>2, <3>3
  <2>7. Q = R
    <3> HIDE DEF Body
    <3> QED BY <2>6
  <2>8. Solves(Q, k + 1)
    <3> HIDE DEF Body
    <3> QED BY <2>7 DEF a
  <2> HIDE DEF Solves, Q
  <2> QED BY <2>8
<1>5. 0 \in S
  <2> HIDE DEF S, n
  <2>1. \A k \in 0..n : k \in S
    BY <1>1, <1>3, <1>4, Downwards
  <2> QED BY <1>1, <2>1
<1>6. \E P : Solves(P, 1)
  <2> HIDE DEF Solves
  <2> QED BY <1>5
<1> DEFINE P0 == CHOOSE P : P = [i \in 1..(n + 2) |-> Body(P, i)]
<1>7. P0 = [i \in 1..(n + 2) |-> Body(P0, i)]
  <2> HIDE DEF Body
  <2> QED BY <1>6
<1>8. Parse(f) = P0[1]
  BY DEF Parse
<1> HIDE DEF P0, n
<1>9. \A i \in 1..(n + 2) : P0[i] = Body(P0, i)
  <2> HIDE DEF Body
  <2> QED BY <1>7
<1>10. P0[n+1] = NoCounts /\ P0[n+2] = NoCounts
  <2>1. n + 1 \in 1..(n+2) /\ n + 2 \in 1..(n+2) /\ n + 1 > Len(f) /\ n + 2 > Len(f)
    BY <1>1
  <2> QED BY <1>9, <2>1
<1>11. ASSUME NEW i \in 1..n
       PROVE  P0[i] = IF Len(f[i]) < 2 THEN P0[i+1] ELSE Bumped(P0[i + Width(f[i])], ClassOf(f[i]))
  <2>1. i \in 1..(n+2) /\ ~(i > Len(f))
    BY <1>1
  <2>2. P0[i] = Body(P0, i)
    BY <1>9, <2>1
  <2> QED BY <2>1, <2>2 DEF Bumped
<1> QED BY <1>1, <1>8, <1>10, <1>11
LEMMA ClassType == ASSUME NEW f PROVE ClassOf(f) \in Classes \union {"none"}
BY ClassesAre DEF ClassOf

LetterClass(e) == ClassOf(<<e.x, e.y>>)

\* The parser along the entries: C[k] is what it counts from the fields of entry k + 1 on,
\* and D[k] from the field after the first of these.
LEMMA ParseAt ==
  ASSUME NEW es \in Seq(GitEntries)
  PROVE  \E C, D \in [0..Len(es) -> Counts] :
           /\ Parse(Fields(es)) = C[0] /\ C[Len(es)] = NoCounts /\ D[Len(es)] = NoCounts
           /\ \A k \in 1..Len(es) :
                /\ Len(Printed(es[k])) = 1 => C[k-1] = Bumped(C[k], LetterClass(es[k])) /\ D[k-1] = C[k]
                /\ Len(Printed(es[k])) = 2 =>
                     /\ C[k-1] = Bumped(IF es[k].x \in {"R", "C"} THEN C[k] ELSE D[k-1], LetterClass(es[k]))
                     /\ \/ D[k-1] = C[k]
                        \/ \E class \in Classes \union {"none"} :
                             D[k-1] = Bumped(C[k], class) \/ D[k-1] = Bumped(D[k], class)
<1> DEFINE n == Len(es)
           f == Fields(es)
           L == Len(f)
<1>1. PICK S \in [0..n -> Nat] :
        /\ S[0] = 0 /\ S[n] = L
        /\ \A k \in 1..n :
             /\ S[k] = S[k-1] + Len(Printed(es[k])) /\ S[k] <= L
             /\ f[S[k-1] + 1] = <<es[k].x, es[k].y>>
             /\ Len(Printed(es[k])) = 2 => f[S[k-1] + 2] = es[k].old
  BY FieldsAt
<1>2. f \in Seq(Field) /\ L \in Nat
  BY FieldsAt
<1>3. PICK P : /\ Parse(f) = P[1] /\ P[L + 1] = NoCounts /\ P[L + 2] = NoCounts
               /\ \A i \in 1..L :
                    P[i] = IF Len(f[i]) < 2 THEN P[i+1] ELSE Bumped(P[i + Width(f[i])], ClassOf(f[i]))
  BY <1>2, ParseSolved
<1>4. n \in Nat /\ \A k \in 1..n : es[k] \in GitEntries
  OBVIOUS
<1> HIDE DEF n, f, L
<1>5. NoCounts \in Counts
  BY ClassesAre DEF Counts
<1>6. \A k \in 0..L : P[k+1] \in Counts /\ P[k+2] \in Counts
  <2> DEFINE T == {k \in 0..L : P[k+1] \in Counts /\ P[k+2] \in Counts}
  <2>1. L \in T
    BY <1>2, <1>3, <1>5
  <2>2. ASSUME NEW k \in 0..L, k < L, k + 1 \in T PROVE k \in T
    <3>1. k + 1 \in 1..L
      BY <1>2, <2>2
    <3>2. P[(k+1)+1] \in Counts /\ P[(k+1)+2] \in Counts
      BY <2>2
    <3>3. (k+1) + 1 = k + 2
      OBVIOUS
    <3>4. P[k+1] = P[(k+1)+1] \/ P[k+1] = Bumped(P[(k+1) + Width(f[k+1])], ClassOf(f[k+1]))
      BY <1>3, <3>1, Zenon
    <3>5. Width(f[k+1]) \in {1, 2}
      BY DEF Width
    <3>6. P[k+1] \in Counts
      BY <3>2, <3>4, <3>5, BumpedType, ClassType
    <3> QED BY <3>2, <3>3, <3>6
  <2>3. \A k \in 0..L : k \in T
    <3> HIDE DEF T
    <3> QED BY <1>2, <2>1, <2>2, Downwards
  <2> QED BY <2>3
<1> DEFINE C == [k \in 0..n |-> P[S[k] + 1]]
           D == [k \in 0..n |-> P[S[k] + 2]]
<1>7. \A k \in 0..n : S[k] \in 0..L
  <2>1. ASSUME NEW k \in 0..n PROVE S[k] \in 0..L
    <3>1. CASE k = 0
      BY <1>1, <1>2, <3>1
    <3>2. CASE k # 0
      <4>1. k \in 1..n
        BY <1>4, <3>2
      <4> QED BY <1>1, <1>2, <4>1
    <3> QED BY <3>1, <3>2
  <2> QED BY <2>1
<1>8. C \in [0..n -> Counts] /\ D \in [0..n -> Counts]
  BY <1>6, <1>7
<1>9. \A k \in 0..n : C[k] = P[S[k] + 1] /\ D[k] = P[S[k] + 2]
  OBVIOUS
<1> HIDE DEF C, D
<1>10. Parse(f) = C[0] /\ C[n] = NoCounts /\ D[n] = NoCounts
  <2>1. 0 \in 0..n /\ n \in 0..n /\ S[0] + 1 = 1
    BY <1>1, <1>4
  <2>2. S[n] + 1 = L + 1 /\ S[n] + 2 = L + 2
    BY <1>1
  <2> QED BY <1>3, <1>9, <2>1, <2>2
<1>11. ASSUME NEW k \in 1..n
       PROVE  /\ Len(Printed(es[k])) = 1 => C[k-1] = Bumped(C[k], LetterClass(es[k])) /\ D[k-1] = C[k]
              /\ Len(Printed(es[k])) = 2 =>
                   /\ C[k-1] = Bumped(IF es[k].x \in {"R", "C"} THEN C[k] ELSE D[k-1], LetterClass(es[k]))
                   /\ \/ D[k-1] = C[k]
                      \/ \E class \in Classes \union {"none"} :
                           D[k-1] = Bumped(C[k], class) \/ D[k-1] = Bumped(D[k], class)
  <2> DEFINE s == S[k-1]
             w == Width(f[s+1])
             e == es[k]
  <2>1. k \in 0..n /\ k - 1 \in 0..n
    BY <1>4
  <2>2. s \in Nat /\ S[k] = s + Len(Printed(e)) /\ S[k] <= L /\ f[s+1] = <<e.x, e.y>>
        /\ (Len(Printed(e)) = 2 => f[s+2] = e.old)
    BY <1>1, <2>1
  <2>3. C[k-1] = P[s+1] /\ D[k-1] = P[s+2] /\ C[k] = P[S[k]+1] /\ D[k] = P[S[k]+2]
    BY <1>9, <2>1
  <2>4. /\ Len(Printed(e)) = (IF e.x \in {"R", "C"} \/ e.y \in {"R", "C"} THEN 2 ELSE 1) /\ Len(Printed(e)[1]) = 2
        /\ Printed(e)[1] = <<e.x, e.y>>
    BY <1>4, PrintedType
  <2>5. w = IF e.x \in {"R", "C"} THEN 2 ELSE 1
    BY <2>2 DEF Width
  <2> HIDE DEF s, w, e
  <2>6. s + 1 \in 1..L
    BY <1>2, <2>2, <2>4
  <2>7. Len(f[s+1]) = 2
    BY <2>2, <2>4, Zenon
  <2>8. P[s+1] = Bumped(P[(s+1) + w], LetterClass(e))
    <3>1. P[s+1] = IF Len(f[s+1]) < 2 THEN P[(s+1)+1] ELSE Bumped(P[(s+1) + w], ClassOf(f[s+1]))
      BY <1>3, <2>6, Zenon DEF w
    <3>2. ~(Len(f[s+1]) < 2)
      BY <2>7
    <3> QED BY <3>1, <3>2, <2>2, Zenon DEF LetterClass
  <2>9. CASE Len(Printed(e)) = 1
    <3>0. e.x \notin {"R", "C"}
      BY <2>4, <2>9
    <3>1. w = 1 /\ S[k] = s + 1 /\ (s+1) + w = s + 2 /\ S[k] + 1 = s + 2
      BY <2>2, <2>5, <2>9, <3>0
    <3> QED BY <2>3, <2>8, <2>9, <3>1 DEF e
  <2>10. CASE Len(Printed(e)) = 2
    <3>1. S[k] = s + 2 /\ s + 2 \in 1..L /\ S[k] + 1 = s + 3 /\ S[k] + 2 = s + 4
      BY <1>2, <2>2, <2>10
    <3>2. C[k-1] = Bumped(IF e.x \in {"R", "C"} THEN C[k] ELSE D[k-1], LetterClass(e))
      <4>1. CASE e.x \in {"R", "C"}
        <5>1. (s+1) + w = s + 3
          BY <2>2, <2>5, <4>1
        <5> QED BY <2>3, <2>8, <3>1, <4>1, <5>1
      <4>2. CASE e.x \notin {"R", "C"}
        <5>1. (s+1) + w = s + 2
          BY <2>2, <2>5, <4>2
        <5> QED BY <2>3, <2>8, <3>1, <4>2, <5>1
      <4> QED BY <4>1, <4>2
    <3>3. P[s+2] = P[(s+2)+1] \/ P[s+2] = Bumped(P[(s+2) + Width(f[s+2])], ClassOf(f[s+2]))
      BY <1>3, <3>1, Zenon
    <3>4. Width(f[s+2]) \in {1, 2} /\ ClassOf(f[s+2]) \in Classes \union {"none"}
      BY ClassType DEF Width
    <3>5. (s+2) + 1 = s + 3 /\ (s+2) + 2 = s + 4
      BY <2>2
    <3>6. \/ P[s+2] = P[s+3] \/ P[s+2] = Bumped(P[s+3], ClassOf(f[s+2])) \/ P[s+2] = Bumped(P[s+4], ClassOf(f[s+2]))
      BY <3>3, <3>4, <3>5
    <3>7. \/ D[k-1] = C[k] \/ D[k-1] = Bumped(C[k], ClassOf(f[s+2])) \/ D[k-1] = Bumped(D[k], ClassOf(f[s+2]))
      BY <2>3, <3>1, <3>6
    <3> QED BY <2>10, <3>2, <3>4, <3>7 DEF e
  <2> QED BY <2>4, <2>9, <2>10 DEF e
<1> QED BY <1>8, <1>10, <1>11 DEF n, f

\* The parser finds every entry.
LEMMA ParsedRight ==
  ASSUME NEW es \in Seq(GitEntries), \A i \in DOMAIN es : es[i].y \notin {"R", "C"}
  PROVE  Parse(Fields(es)) = [c \in Classes |-> Cardinality({i \in DOMAIN es : LetterClass(es[i]) = c})]
<1> DEFINE n == Len(es)
           OfClass(k, c) == {i \in (k+1)..n : LetterClass(es[i]) = c}
           Count(k) == [c \in Classes |-> Cardinality(OfClass(k, c))]
<1>1. n \in Nat /\ (\A k \in 1..n : es[k] \in GitEntries) /\ DOMAIN es = 1..n
  OBVIOUS
<1>2. PICK C, D \in [0..n -> Counts] :
           /\ Parse(Fields(es)) = C[0] /\ C[n] = NoCounts
           /\ \A k \in 1..n :
                /\ Len(Printed(es[k])) = 1 => C[k-1] = Bumped(C[k], LetterClass(es[k]))
                /\ Len(Printed(es[k])) = 2 =>
                     C[k-1] = Bumped(IF es[k].x \in {"R", "C"} THEN C[k] ELSE D[k-1], LetterClass(es[k]))
  BY ParseAt
<1>3. \A k \in 1..n : C[k-1] = Bumped(C[k], LetterClass(es[k]))
  <2>1. ASSUME NEW k \in 1..n PROVE C[k-1] = Bumped(C[k], LetterClass(es[k]))
    <3>1. Len(Printed(es[k])) = IF es[k].x \in {"R", "C"} \/ es[k].y \in {"R", "C"} THEN 2 ELSE 1
      BY <1>1, PrintedType
    <3>2. es[k].y \notin {"R", "C"}
      BY <1>1
    <3>3. CASE es[k].x \in {"R", "C"}
      <4>1. Len(Printed(es[k])) = 2
        BY <3>1, <3>3
      <4> QED BY <1>2, <3>3, <4>1
    <3>4. CASE es[k].x \notin {"R", "C"}
      <4>1. Len(Printed(es[k])) = 1
        BY <3>1, <3>2, <3>4
      <4> QED BY <1>2, <4>1
    <3> QED BY <3>3, <3>4
  <2> QED BY <2>1
<1> HIDE DEF n
<1>4. \A k \in 0..n : \A c : IsFiniteSet(OfClass(k, c)) /\ Cardinality(OfClass(k, c)) \in Nat
  <2>1. ASSUME NEW k \in 0..n, NEW c PROVE IsFiniteSet(OfClass(k, c)) /\ Cardinality(OfClass(k, c)) \in Nat
    <3>1. IsFiniteSet((k+1)..n)
      BY <1>1, FS_Interval
    <3>2. OfClass(k, c) \subseteq (k+1)..n
      OBVIOUS
    <3> HIDE DEF OfClass
    <3> QED BY <3>1, <3>2, FS_Subset, FS_CardinalityType
  <2> QED BY <2>1
<1>5. \A k \in 0..n : C[k] = Count(k)
  <2> DEFINE T == {k \in 0..n : C[k] = Count(k)}
  <2>1. n \in T
    <3>1. \A c : OfClass(n, c) = {}
      BY <1>1
    <3>2. Count(n) = [c \in Classes |-> 0]
      BY <3>1, FS_EmptySet
    <3>3. C[n] = [c \in Classes |-> 0]
      BY <1>2, ClassesAre
    <3> HIDE DEF Count
    <3> QED BY <1>1, <3>2, <3>3
  <2>2. ASSUME NEW k \in 0..n, k < n, k + 1 \in T PROVE k \in T
    <3>1. k + 1 \in 1..n /\ (k + 1) - 1 = k /\ k + 1 \in 0..n
      BY <1>1, <2>2
    <3> DEFINE a == LetterClass(es[k+1])
    <3>2. C[k] = Bumped(Count(k+1), a)
      <4>1. C[k+1] = Count(k+1)
        BY <2>2
      <4>2. C[(k+1)-1] = Bumped(C[k+1], a)
        BY <1>3, <3>1
      <4> HIDE DEF Count, a
      <4> QED BY <3>1, <4>1, <4>2
    <3>3. ASSUME NEW c \in Classes
          PROVE  Cardinality(OfClass(k, c)) =
                    IF c = a THEN Cardinality(OfClass(k+1, c)) + 1 ELSE Cardinality(OfClass(k+1, c))
      <4>1. CASE c = a
        <5>1. OfClass(k, c) = OfClass(k+1, c) \union {k+1} /\ k + 1 \notin OfClass(k+1, c)
          BY <1>1, <3>1, <4>1
        <5>2. IsFiniteSet(OfClass(k+1, c))
          BY <1>4, <3>1
        <5> HIDE DEF OfClass
        <5> QED BY <4>1, <5>1, <5>2, FS_AddElement
      <4>2. CASE c # a
        <5>1. OfClass(k, c) = OfClass(k+1, c)
          BY <1>1, <3>1, <4>2
        <5> QED BY <4>2, <5>1
      <4> QED BY <4>1, <4>2
    <3> HIDE DEF OfClass, a
    <3>4. "none" \notin Classes
      BY ClassesAre
    <3>5. Count(k) = Bumped(Count(k+1), a)
      <4>1. CASE a = "none"
        <5>1. \A c \in Classes : Cardinality(OfClass(k, c)) = Cardinality(OfClass(k+1, c))
          BY <3>3, <3>4, <4>1
        <5> QED BY <4>1, <5>1 DEF Bumped
      <4>2. CASE a # "none"
        <5>1. Bumped(Count(k+1), a) = [c \in Classes |->
                            IF c = a THEN Cardinality(OfClass(k+1, c)) + 1 ELSE Cardinality(OfClass(k+1, c))]
          BY <4>2 DEF Bumped
        <5> QED BY <3>3, <5>1
      <4> QED BY <4>1, <4>2
    <3>6. C[k] = Count(k)
      <4> HIDE DEF Count
      <4> QED BY <3>2, <3>5
    <3> HIDE DEF Count
    <3> QED BY <3>6
  <2>3. \A k \in 0..n : k \in T
    <3> HIDE DEF T
    <3> QED BY <1>1, <2>1, <2>2, Downwards
  <2> QED BY <2>3
<1>6. C[0] = Count(0)
  <2> HIDE DEF Count
  <2> QED BY <1>1, <1>5
<1>7. \A c : OfClass(0, c) = {i \in DOMAIN es : LetterClass(es[i]) = c}
  BY <1>1
<1> HIDE DEF OfClass
<1> QED BY <1>2, <1>6, <1>7
-----------------------------------------------------------------------------
(* The diffs *)

Changing == {"modified", "added", "deleted"}
Changed(c) == c.modified + c.added + c.deleted
Named(es) == NumStat(es, FALSE) \union NumStat(es, TRUE)

LEMMA ChangedBumped ==
  ASSUME NEW c \in Counts, NEW class \in Classes \union {"none"}
  PROVE  /\ Changed(c) \in Nat
         /\ Changed(Bumped(c, class)) = IF class \in Changing THEN Changed(c) + 1 ELSE Changed(c)
BY ClassesAre DEF Counts, Bumped, Changed, Changing

\* What the diffs name for an entry.
LEMMA NamedOf ==
  ASSUME NEW es \in Seq(GitEntries), NEW k \in DOMAIN es
  PROVE  /\ LetterClass(es[k]) \in Changing <=> Tracked(es[k])
         /\ Tracked(es[k]) => <<k, "new">> \in Named(es)
         /\ "R" \in {es[k].x, es[k].y} => <<k, "old">> \in Named(es)
         /\ es[k].x \in {"R", "C"} \/ es[k].y \in {"R", "C"} => Tracked(es[k])
<1> DEFINE e == es[k]
<1>1. e.x # " " \/ e.y # " "
  <2>1. e \in GitEntries
    OBVIOUS
  <2> HIDE DEF e
  <2> QED BY <2>1 DEF GitEntries
<1>2. LetterClass(e) \in Changing <=> Tracked(e)
  <2>1. <<e.x, e.y>>[1] = e.x /\ <<e.x, e.y>>[2] = e.y
    OBVIOUS
  <2>2. (<<e.x, e.y>> = <<"?", "?">> <=> (e.x = "?" /\ e.y = "?"))
        /\ (<<e.x, e.y>> = <<"!", "!">> <=> (e.x = "!" /\ e.y = "!"))
    OBVIOUS
  <2> QED BY <2>1, <2>2 DEF LetterClass, ClassOf, Changing, Tracked
<1>3. Tracked(e) => <<k, "new">> \in Named(es)
  <2>1. CASE e.x # " "
    BY <2>1 DEF Named, NumStat
  <2>2. CASE e.y # " "
    BY <2>2 DEF Named, NumStat
  <2> QED BY <1>1, <2>1, <2>2
<1>4. "R" \in {e.x, e.y} => <<k, "old">> \in Named(es)
  BY DEF Named, NumStat
<1>5. e.x \in {"R", "C"} \/ e.y \in {"R", "C"} => Tracked(e)
  BY DEF Tracked
<1> QED BY <1>2, <1>3, <1>4, <1>5

LEMMA NamedType ==
  ASSUME NEW es \in Seq(GitEntries)
  PROVE  /\ IsFiniteSet(Named(es))
         /\ \A p \in Named(es) : p = <<p[1], p[2]>> /\ p[1] \in DOMAIN es /\ Tracked(es[p[1]])
<1> DEFINE I == DOMAIN es
           K == {"new", "old"}
<1>1. IsFiniteSet(I) /\ IsFiniteSet(K)
  <2>1. DOMAIN es = 1..Len(es) /\ Len(es) \in Nat
    OBVIOUS
  <2>2. IsFiniteSet(1..Len(es))
    BY <2>1, FS_Interval
  <2>3. IsFiniteSet({"new", "old"})
    <3>1. IsFiniteSet({"new"}) /\ IsFiniteSet({"old"}) /\ {"new", "old"} = {"new"} \union {"old"}
      BY FS_Singleton
    <3> QED BY <3>1, FS_Union
  <2> QED BY <2>1, <2>2, <2>3
<1>2. IsFiniteSet(I \X K)
  <2> HIDE DEF I, K
  <2> QED BY <1>1, FS_Product
<1>3. ASSUME NEW p \in Named(es) PROVE \E i \in I : p \in {<<i, "new">>, <<i, "old">>} /\ Tracked(es[i])
  <2>1. ASSUME NEW cached \in BOOLEAN, p \in NumStat(es, cached)
        PROVE  \E i \in I : p \in {<<i, "new">>, <<i, "old">>} /\ Tracked(es[i])
    <3> DEFINE letter(i) == IF cached THEN es[i].x ELSE es[i].y
    <3>1. \/ \E i \in I : p = <<i, "new">> /\ Tracked(es[i])
          \/ \E i \in I : p = <<i, "old">> /\ letter(i) = "R"
      BY <2>1 DEF NumStat
    <3>2. \A i : letter(i) = "R" => Tracked(es[i])
      BY DEF Tracked
    <3> QED BY <3>1, <3>2
  <2> QED BY <2>1 DEF Named
<1>4. Named(es) \subseteq I \X K
  BY <1>3
<1>5. ASSUME NEW p \in Named(es) PROVE p = <<p[1], p[2]>> /\ p[1] \in DOMAIN es /\ Tracked(es[p[1]])
  BY <1>3
<1> QED BY <1>2, <1>4, <1>5, FS_Subset

\* The parser counts no more changes than the diffs name paths, and some if they name one.
LEMMA FilesCover ==
  ASSUME NEW es \in Seq(GitEntries), \A i \in DOMAIN es : es[i].y # "C"
  PROVE  /\ Cardinality(Named(es)) >= Changed(Parse(Fields(es)))
         /\ Changed(Parse(Fields(es))) = 0 => Named(es) = {}
<1> DEFINE n == Len(es)
           From(k) == {p \in Named(es) : p[1] > k}
           W(k) == Cardinality(From(k))
<1>1. n \in Nat /\ (\A k \in 1..n : es[k] \in GitEntries) /\ DOMAIN es = 1..n
  OBVIOUS
<1>2. PICK C, D \in [0..n -> Counts] :
           /\ Parse(Fields(es)) = C[0] /\ C[n] = NoCounts /\ D[n] = NoCounts
           /\ \A k \in 1..n :
                /\ Len(Printed(es[k])) = 1 => C[k-1] = Bumped(C[k], LetterClass(es[k])) /\ D[k-1] = C[k]
                /\ Len(Printed(es[k])) = 2 =>
                     /\ C[k-1] = Bumped(IF es[k].x \in {"R", "C"} THEN C[k] ELSE D[k-1], LetterClass(es[k]))
                     /\ \/ D[k-1] = C[k]
                        \/ \E class \in Classes \union {"none"} :
                             D[k-1] = Bumped(C[k], class) \/ D[k-1] = Bumped(D[k], class)
  BY ParseAt
<1>3. Changed(NoCounts) = 0
  BY DEF Changed, NoCounts
<1>4. \A k \in Int : IsFiniteSet(From(k)) /\ W(k) \in Nat
  <2>1. ASSUME NEW k \in Int PROVE IsFiniteSet(From(k)) /\ W(k) \in Nat
    <3>1. From(k) \subseteq Named(es) /\ IsFiniteSet(Named(es))
      BY NamedType
    <3> HIDE DEF From
    <3> QED BY <3>1, FS_Subset, FS_CardinalityType
  <2> QED BY <2>1
<1> HIDE DEF n
\* One entry more.
<1>5. ASSUME NEW k \in 1..n
      PROVE  /\ W(k-1) >= W(k)
             /\ Tracked(es[k]) => W(k-1) >= W(k) + 1
             /\ Tracked(es[k]) /\ "R" \in {es[k].x, es[k].y} => W(k-1) >= W(k) + 2
  <2> DEFINE new == <<k, "new">>
             old == <<k, "old">>
  <2>1. new # old /\ new[1] = k /\ old[1] = k
    OBVIOUS
  <2>2. k - 1 \in Int /\ k \in Int
    BY <1>1
  <2>3. From(k) \subseteq From(k-1)
    <3>1. \A p \in Named(es) : p[1] \in Int
      BY <1>1, NamedType
    <3> QED BY <2>2, <3>1
  <2>4. W(k-1) >= W(k)
    <3> HIDE DEF From
    <3> QED BY <1>4, <2>2, <2>3, FS_Subset
  <2>5. ASSUME Tracked(es[k]) PROVE new \in From(k-1) /\ new \notin From(k)
    <3>1. new \in Named(es)
      BY <1>1, <2>5, NamedOf
    <3> HIDE DEF new
    <3> QED BY <2>1, <2>2, <3>1
  <2>6. ASSUME "R" \in {es[k].x, es[k].y} PROVE old \in From(k-1) /\ old \notin From(k)
    <3>1. old \in Named(es)
      BY <1>1, <2>6, NamedOf
    <3> HIDE DEF old
    <3> QED BY <2>1, <2>2, <3>1
  <2> HIDE DEF new, old, From
  <2>7. ASSUME Tracked(es[k]) PROVE W(k-1) >= W(k) + 1
    <3>1. From(k) \union {new} \subseteq From(k-1)
      BY <2>3, <2>5, <2>7
    <3>2. /\ IsFiniteSet(From(k) \union {new})
          /\ Cardinality(From(k) \union {new}) = W(k) + 1
      BY <1>4, <2>2, <2>5, <2>7, FS_AddElement
    <3> QED BY <1>4, <2>2, <3>1, <3>2, FS_Subset
  <2>8. ASSUME Tracked(es[k]), "R" \in {es[k].x, es[k].y} PROVE W(k-1) >= W(k) + 2
    <3> DEFINE U == From(k) \union {new}
    <3>1. U \union {old} \subseteq From(k-1) /\ old \notin U
      BY <2>1, <2>3, <2>5, <2>6, <2>8
    <3>2. IsFiniteSet(U) /\ Cardinality(U) = W(k) + 1
      BY <1>4, <2>2, <2>5, <2>8, FS_AddElement
    <3> HIDE DEF U
    <3>3. IsFiniteSet(U \union {old}) /\ Cardinality(U \union {old}) = (W(k) + 1) + 1
      BY <3>1, <3>2, FS_AddElement
    <3> QED BY <1>4, <2>2, <3>1, <3>3, FS_Subset
  <2> QED BY <2>4, <2>7, <2>8
<1>6. /\ \A k \in 0..n : C[k] \in Counts /\ D[k] \in Counts /\ Changed(C[k]) \in Nat /\ Changed(D[k]) \in Nat
  BY <1>2, ChangedBumped
<1>7. \A k \in 0..n : W(k) \in Nat
  <2> HIDE DEF W
  <2> QED BY <1>1, <1>4
<1> HIDE DEF W, From
<1>8. \A k \in 0..n : /\ Changed(C[k]) <= W(k) /\ Changed(D[k]) <= W(k)
                      /\ Changed(C[k]) = 0 => \A j \in (k+1)..n : ~Tracked(es[j])
  <2> DEFINE T == {k \in 0..n : /\ Changed(C[k]) <= W(k) /\ Changed(D[k]) <= W(k)
                                /\ Changed(C[k]) = 0 => \A j \in (k+1)..n : ~Tracked(es[j])}
  <2>1. n \in T
    <3>1. n \in 0..n /\ (n+1)..n = {}
      BY <1>1
    <3> QED BY <1>2, <1>3, <1>7, <3>1
  <2>2. ASSUME NEW i \in 0..n, i < n, i + 1 \in T PROVE i \in T
    <3> DEFINE k == i + 1
    <3>1. k \in 1..n /\ k - 1 = i /\ k \in 0..n
      BY <1>1, <2>2
    <3>2. /\ Changed(C[k]) <= W(k) /\ Changed(D[k]) <= W(k)
          /\ Changed(C[k]) = 0 => \A j \in (k+1)..n : ~Tracked(es[j])
      BY <2>2
    <3> HIDE DEF k
    <3>3. /\ W(i) >= W(k)
          /\ Tracked(es[k]) => W(i) >= W(k) + 1
          /\ Tracked(es[k]) /\ "R" \in {es[k].x, es[k].y} => W(i) >= W(k) + 2
      BY <1>5, <3>1
    <3>4. /\ Len(Printed(es[k])) = 1 => C[i] = Bumped(C[k], LetterClass(es[k])) /\ D[i] = C[k]
          /\ Len(Printed(es[k])) = 2 =>
               /\ C[i] = Bumped(IF es[k].x \in {"R", "C"} THEN C[k] ELSE D[i], LetterClass(es[k]))
               /\ \/ D[i] = C[k]
                  \/ \E class \in Classes \union {"none"} :
                       D[i] = Bumped(C[k], class) \/ D[i] = Bumped(D[k], class)
      BY <1>2, <3>1
    <3>5. W(i) \in Nat /\ W(k) \in Nat
      BY <1>7, <3>1
    <3>6. /\ C[k] \in Counts /\ D[k] \in Counts /\ C[i] \in Counts /\ D[i] \in Counts
          /\ Changed(C[k]) \in Nat /\ Changed(D[k]) \in Nat /\ Changed(C[i]) \in Nat /\ Changed(D[i]) \in Nat
      BY <1>6, <3>1
    <3>7. /\ LetterClass(es[k]) \in Classes \union {"none"}
          /\ LetterClass(es[k]) \in Changing <=> Tracked(es[k])
          /\ es[k].x \in {"R", "C"} \/ es[k].y \in {"R", "C"} => Tracked(es[k])
      BY <1>1, <3>1, NamedOf, ClassType DEF LetterClass
    <3>8. Len(Printed(es[k])) = IF es[k].x \in {"R", "C"} \/ es[k].y \in {"R", "C"} THEN 2 ELSE 1
      BY <1>1, <3>1, PrintedType
    <3>0. Len(Printed(es[k])) = 2 => es[k].x \in {"R", "C"} \/ es[k].y \in {"R", "C"}
      BY <1>1, <3>1, PrintedType
    <3>9. CASE Len(Printed(es[k])) = 1
      <4>1. C[i] = Bumped(C[k], LetterClass(es[k])) /\ D[i] = C[k]
        BY <3>4, <3>9
      <4>2. Changed(C[i]) = IF Tracked(es[k]) THEN Changed(C[k]) + 1 ELSE Changed(C[k])
        BY <3>6, <3>7, <4>1, ChangedBumped
      <4>3. Changed(C[i]) <= W(i) /\ Changed(D[i]) <= W(i)
        <5>1. Changed(D[i]) = Changed(C[k])
          BY <4>1
        <5> QED BY <3>2, <3>3, <3>5, <3>6, <4>2, <5>1
      <4>4. ASSUME Changed(C[i]) = 0 PROVE \A j \in (i+1)..n : ~Tracked(es[j])
        <5>1. ~Tracked(es[k]) /\ Changed(C[k]) = 0
          BY <3>6, <4>2, <4>4
        <5>2. \A j \in (i+1)..n : j = k \/ j \in (k+1)..n
          BY <1>1, <3>1
        <5> QED BY <3>2, <5>1, <5>2
      <4> QED BY <4>3, <4>4
    <3>10. CASE Len(Printed(es[k])) = 2
      <4>1. Tracked(es[k])
        BY <3>7, <3>0, <3>10
      <4>2. Changed(D[i]) <= W(k) + 1
        <5>1. ASSUME NEW class \in Classes \union {"none"}
              PROVE  Changed(Bumped(C[k], class)) <= W(k) + 1 /\ Changed(Bumped(D[k], class)) <= W(k) + 1
          <6>1. Changed(Bumped(C[k], class)) \in {Changed(C[k]), Changed(C[k]) + 1}
            BY <3>6, ChangedBumped
          <6>2. Changed(Bumped(D[k], class)) \in {Changed(D[k]), Changed(D[k]) + 1}
            BY <3>6, ChangedBumped
          <6> QED BY <3>2, <3>5, <3>6, <6>1, <6>2
        <5>2. CASE D[i] = C[k]
          <6>1. Changed(D[i]) = Changed(C[k])
            BY <5>2
          <6> QED BY <3>2, <3>5, <3>6, <6>1
        <5> QED BY <3>4, <3>10, <5>1, <5>2
      <4>3. CASE es[k].x \in {"R", "C"}
        <5>1. Changed(C[i]) = Changed(C[k]) + 1
          <6>1. C[i] = Bumped(C[k], LetterClass(es[k]))
            BY <3>4, <3>10, <4>3
          <6> QED BY <3>6, <3>7, <4>1, <6>1, ChangedBumped
        <5> QED BY <3>2, <3>3, <3>5, <3>6, <4>1, <4>2, <5>1
      <4>4. CASE es[k].x \notin {"R", "C"}
        <5>1. es[k].y = "R"
          <6>1. es[k].y # "C"
            BY <1>1, <3>1
          <6> QED BY <3>0, <3>10, <4>4, <6>1
        <5>2. Changed(C[i]) = Changed(D[i]) + 1
          <6>1. C[i] = Bumped(D[i], LetterClass(es[k]))
            BY <3>4, <3>10, <4>4
          <6> QED BY <3>6, <3>7, <4>1, <6>1, ChangedBumped
        <5>3. W(i) >= W(k) + 2
          BY <3>3, <4>1, <5>1
        <5> QED BY <3>5, <3>6, <4>2, <5>2, <5>3
      <4> QED BY <4>3, <4>4
    <3> QED BY <3>8, <3>9, <3>10
  <2>3. \A k \in 0..n : k \in T
    <3> HIDE DEF T
    <3> QED BY <1>1, <2>1, <2>2, Downwards
  <2> QED BY <2>3
<1>9. 0 \in 0..n
  BY <1>1
<1>10. From(0) = Named(es)
  BY <1>1, NamedType DEF From
<1>11. Cardinality(Named(es)) >= Changed(Parse(Fields(es)))
  <2>1. W(0) = Cardinality(Named(es))
    BY <1>10 DEF W
  <2>2. Changed(C[0]) <= W(0) /\ W(0) \in Nat /\ Changed(C[0]) \in Nat
    BY <1>6, <1>7, <1>8, <1>9
  <2> QED BY <1>2, <2>1, <2>2
<1>12. ASSUME Changed(Parse(Fields(es))) = 0 PROVE Named(es) = {}
  <2>1. \A j \in 1..n : ~Tracked(es[j])
    BY <1>2, <1>8, <1>9, <1>12
  <2> QED BY <1>1, <2>1, NamedType
<1> QED BY <1>11, <1>12
-----------------------------------------------------------------------------
(* The inductive invariant *)

Views == [entries : Seq(GitEntries), edits : Nat, time : Nat, whole : BOOLEAN, alone : BOOLEAN]
Paths == Nat \X {"new", "old"}
Asks == [pc : {"idle", "status", "diff", "cached", "insert", "failed"}, since : Nat, counts : Counts,
         files : SUBSET Paths, view : Views]

TreeInv == /\ tree \in [history : Histories, edits : Nat] /\ tree.edits < Len(tree.history) /\ time \in Nat
           /\ ask \in [Askers -> Asks]

\* A status is that of the tree that was seen; of one that did not change, the files too.
Belongs(v, s) ==
  /\ s.state # "error" => s.counts = Parse(Fields(v.entries))
  /\ v.whole => s.state # "error" /\ s.files = IF Dirty(s.counts) THEN Named(v.entries) ELSE {}

\* The last answer is the cache's, if it holds one.
AnswerInv ==
  /\ cache.filled \in BOOLEAN /\ answer.view \in Views /\ answer.at \in Nat /\ answer.back \in BOOLEAN
  /\ answer.view.edits <= tree.edits /\ Belongs(answer.view, answer.status)
  /\ cache.filled =>
       /\ cache.view = answer.view /\ cache.status = answer.status
       /\ cache.at \in Nat /\ cache.at <= time /\ cache.at - cache.view.time <= MaxGit
  /\ ShownIsRecent /\ GoesBackOnlyInARace

\* The call a of a connection at time t, the tree being tr and the last answer of its edit e: it
\* keeps what it saw, and sees no older tree than was last shown if nobody overlaps it.
Collecting(a, tr, t, e) ==
  LET v == a.view
  IN  /\ a.pc # "idle" => a.since <= t /\ t - a.since <= MaxGit
      /\ a.pc = "status" => a.files = {}
      /\ a.pc \notin {"idle", "status"} =>
           /\ a.since <= v.time /\ v.time <= t
           /\ v.edits <= tr.edits /\ v.entries = tr.history[v.edits + 1]
           /\ v.alone => e <= v.edits
      /\ a.pc \in {"diff", "cached", "insert"} => a.counts = Parse(Fields(v.entries))
      /\ a.pc \in {"diff", "cached"} => Dirty(a.counts)
      /\ a.pc = "failed" => ~v.whole
      /\ v.whole => /\ a.pc = "diff" => a.files = {}
                    /\ a.pc = "cached" => a.files = NumStat(v.entries, FALSE)
                    /\ a.pc = "insert" => a.files = IF Dirty(a.counts) THEN Named(v.entries) ELSE {}

\* A collection that nobody overlaps has no other beside it.
Unshared(c) == Busy(c) /\ ask[c].view.alone => \A d \in Askers \ {c} : ~Busy(d)

Collects(c) == Collecting(ask[c], tree, time, answer.view.edits) /\ Unshared(c)

GitInv == TreeInv /\ AnswerInv /\ \A c \in Askers : Collects(c)

LEMMA NowType == ASSUME TreeInv PROVE Now \in Seq(GitEntries)
<1>1. tree.history \in Seq(Seq(GitEntries)) /\ tree.edits + 1 \in 1..Len(tree.history)
  BY GitAssumption DEF TreeInv
<1> QED BY <1>1 DEF Now

LEMMA ParseType == ASSUME NEW es \in Seq(GitEntries) PROVE Parse(Fields(es)) \in Counts
<1>1. \E C \in [0..Len(es) -> Counts] : Parse(Fields(es)) = C[0]
  BY ParseAt
<1>2. 0 \in 0..Len(es)
  OBVIOUS
<1> QED BY <1>1, <1>2

LEMMA PathsType == ASSUME NEW es \in Seq(GitEntries), NEW b \in BOOLEAN PROVE NumStat(es, b) \subseteq Paths
<1>1. DOMAIN es \subseteq Nat
  OBVIOUS
<1>2. ASSUME NEW p \in NumStat(es, b) PROVE \E i \in DOMAIN es : p = <<i, "new">> \/ p = <<i, "old">>
  BY DEF NumStat
<1> QED BY <1>1, <1>2 DEF Paths

LEMMA NoAskType == NoAsk \in Asks /\ NoView \in Views
<1>1. NoView \in Views
  BY DEF NoView, Views
<1>2. NoCounts \in Counts
  BY ClassesAre DEF Counts
<1> HIDE DEF Views
<1> QED BY <1>1, <1>2 DEF NoAsk, Asks

-----------------------------------------------------------------------------
(* The steps *)

LEMMA InitGit == ASSUME GitInit PROVE GitInv
<1>1. TreeInv
  <2>1. \A h \in Histories : h \in Seq(Seq(GitEntries)) /\ h # <<>>
    BY GitAssumption
  <2>2. \A h \in Histories : Len(h) > 0
    BY <2>1, EmptySeq
  <2> QED BY <2>2, NoAskType DEF GitInit, TreeInv
<1>2. AnswerInv
  BY GitAssumption, NoAskType DEF GitInit, AnswerInv, NoCache, NoAnswer, Unavailable, NoView, Belongs, ShownIsRecent,
     GoesBackOnlyInARace
<1>3. \A c \in Askers : Collects(c)
  BY DEF GitInit, Collects, Collecting, Unshared, Busy, NoAsk, NoView
<1> QED BY <1>1, <1>2, <1>3 DEF GitInv

LEMMA LookHitKeeps == ASSUME NEW c \in Askers, GitInv, LookHit(c) PROVE GitInv'
<1>1. TreeInv'
  BY DEF LookHit, GitInv, TreeInv
<1>2. answer'.view = answer.view /\ answer'.status = answer.status /\ answer'.at = time /\ answer'.back = FALSE
  <2> DEFINE back == cache.view.edits < answer.view.edits
  <2>1. answer' = [status |-> cache.status, view |-> cache.view, at |-> time, back |-> back]
    BY DEF LookHit, Give
  <2>2. cache.filled /\ cache.view = answer.view /\ cache.status = answer.status /\ answer.view \in Views
    BY DEF LookHit, Young, GitInv, AnswerInv
  <2>3. ~back
    <3>1. answer.view.edits \in Nat
      BY <2>2 DEF Views
    <3> QED BY <2>2, <3>1
  <2>4. back = FALSE
    BY <2>3
  <2> HIDE DEF back
  <2> QED BY <2>1, <2>2, <2>4
<1>3. ShownIsRecent'
  <2>1. time - cache.at <= TTL /\ cache.at - cache.view.time <= MaxGit
        /\ cache.view = answer.view /\ cache.at \in Nat
    BY DEF LookHit, Young, GitInv, AnswerInv
  <2>2. time \in Nat /\ answer.view.time \in Nat /\ TTL \in Nat /\ MaxGit \in Nat
    BY GitAssumption DEF GitInv, AnswerInv, TreeInv, Views
  <2> QED BY <1>2, <2>1, <2>2 DEF ShownIsRecent
<1>4. AnswerInv'
  <2>1. UNCHANGED <<tree, time, cache, ask>>
    BY DEF LookHit
  <2>2. Belongs(answer.view, answer.status)' /\ GoesBackOnlyInARace'
    BY <1>2 DEF GitInv, AnswerInv, Belongs, GoesBackOnlyInARace
  <2>3. time \in Nat
    BY DEF GitInv, TreeInv
  <2> QED BY <1>2, <1>3, <2>1, <2>2, <2>3 DEF GitInv, AnswerInv
<1>5. \A d \in Askers : Collects(d)'
  BY <1>2 DEF LookHit, GitInv, Collects, Unshared, Busy
<1> QED BY <1>1, <1>4, <1>5 DEF GitInv

WithAlone(a, b) == [a EXCEPT !.view.alone = b]

LEMMA AloneSet ==
  ASSUME NEW a \in Asks, NEW b \in BOOLEAN, NEW r, r = WithAlone(a, b)
  PROVE  /\ r \in Asks /\ r.pc = a.pc /\ r.since = a.since /\ r.counts = a.counts /\ r.files = a.files
         /\ r.view.entries = a.view.entries /\ r.view.edits = a.view.edits /\ r.view.time = a.view.time
         /\ r.view.whole = a.view.whole /\ r.view.alone = b
<1> DEFINE v == [a.view EXCEPT !.alone = b]
<1>1. a.view \in Views
  BY DEF Asks
<1>2. v \in Views /\ v.entries = a.view.entries /\ v.edits = a.view.edits /\ v.time = a.view.time
      /\ v.whole = a.view.whole /\ v.alone = b
  BY <1>1 DEF Views
<1>3. r = [a EXCEPT !.view = v]
  BY DEF Asks, WithAlone
<1> HIDE DEF v
<1>4. r \in Asks /\ r.pc = a.pc /\ r.since = a.since /\ r.counts = a.counts /\ r.files = a.files /\ r.view = v
  <2> HIDE DEF Views
  <2> QED BY <1>2, <1>3 DEF Asks
<1> QED BY <1>2, <1>4

LEMMA LookMissKeeps == ASSUME NEW c \in Askers, GitInv, LookMiss(c) PROVE GitInv'
<1> DEFINE single == {d \in Askers : Busy(d)} = {}
           mine == [NoAsk EXCEPT !.pc = "status", !.since = time, !.view.alone = single]
<1>1. /\ UNCHANGED <<tree, time, cache, answer>> /\ ~Busy(c) /\ ask'[c] = mine /\ DOMAIN ask' = Askers
      /\ \A d \in Askers \ {c} : ask'[d] = [ask[d] EXCEPT !.view.alone = @ /\ ~Busy(d)]
      /\ ask' = [d \in Askers |-> ask'[d]]
  BY DEF LookMiss
<1>2. /\ mine \in Asks /\ mine.pc = "status" /\ mine.since = time /\ mine.view.alone = single /\ mine.files = {}
      /\ mine.view.whole = FALSE
  <2>1. time \in Nat /\ single \in BOOLEAN
    BY DEF GitInv, TreeInv
  <2>2. NoCounts \in Counts
    BY ClassesAre DEF Counts
  <2> HIDE DEF single
  <2> DEFINE start == [NoAsk EXCEPT !.pc = "status", !.since = time]
  <2>3. /\ start \in Asks /\ start.pc = "status" /\ start.since = time /\ start.files = {} /\ start.view.whole = FALSE
    BY <2>1, NoAskType DEF Asks, NoAsk, NoView
  <2>4. mine = WithAlone(start, single)
    BY DEF NoAsk, WithAlone
  <2> HIDE DEF start, mine
  <2>5. /\ mine \in Asks /\ mine.pc = start.pc /\ mine.since = start.since /\ mine.files = start.files
        /\ mine.view.whole = start.view.whole /\ mine.view.alone = single
    BY <2>1, <2>3, <2>4, AloneSet
  <2> QED BY <2>3, <2>5, Zenon
<1> HIDE DEF mine
<1>3. ASSUME NEW d \in Askers, d # c
      PROVE  /\ ask'[d] \in Asks /\ ask'[d].pc = ask[d].pc /\ ask'[d].since = ask[d].since
             /\ ask'[d].counts = ask[d].counts /\ ask'[d].files = ask[d].files
             /\ ask'[d].view.entries = ask[d].view.entries /\ ask'[d].view.edits = ask[d].view.edits
             /\ ask'[d].view.time = ask[d].view.time /\ ask'[d].view.whole = ask[d].view.whole
             /\ Busy(d) => ~ask'[d].view.alone
  <2>1. ask[d] \in Asks /\ ask'[d] = [ask[d] EXCEPT !.view.alone = @ /\ ~Busy(d)]
    BY <1>1, <1>3 DEF GitInv, TreeInv
  <2> DEFINE b == ask[d].view.alone /\ ~Busy(d)
  <2>2. b \in BOOLEAN /\ (Busy(d) => ~b)
    OBVIOUS
  <2> HIDE DEF b
  <2>3. ask'[d] = WithAlone(ask[d], b)
    BY <2>1 DEF b, WithAlone
  <2> DEFINE a == ask[d]
             r == ask'[d]
  <2>4. a \in Asks /\ r = WithAlone(a, b)
    BY <2>1, <2>3
  <2>5. Busy(d) => ~b
    BY <2>2
  <2> HIDE DEF a, r
  <2>6. /\ r \in Asks /\ r.pc = a.pc /\ r.since = a.since /\ r.counts = a.counts /\ r.files = a.files
        /\ r.view.entries = a.view.entries /\ r.view.edits = a.view.edits /\ r.view.time = a.view.time
        /\ r.view.whole = a.view.whole /\ r.view.alone = b
    BY <2>2, <2>4, AloneSet
  <2>7. Busy(d) => ~r.view.alone
    BY <2>5, <2>6, Zenon
  <2> QED BY <2>6, <2>7, Zenon DEF a, r
<1>4. TreeInv'
  <2>1. \A d \in Askers : ask'[d] \in Asks
    BY <1>1, <1>2, <1>3
  <2> QED BY <1>1, <2>1 DEF GitInv, TreeInv
<1>5. AnswerInv'
  BY <1>1 DEF GitInv, AnswerInv, Belongs, ShownIsRecent, GoesBackOnlyInARace
<1>6. Collects(c)'
  <2>1. single => \A d \in Askers \ {c} : ~Busy(d)'
    BY <1>3 DEF Busy
  <2>2. time \in Nat /\ MaxGit \in Nat
    BY GitAssumption DEF GitInv, TreeInv
  <2> HIDE DEF single
  <2> QED BY <1>1, <1>2, <2>1, <2>2 DEF Collects, Collecting, Unshared
<1>7. ASSUME NEW d \in Askers, d # c PROVE Collects(d)'
  <2>1. Collects(d)
    BY DEF GitInv
  <2>2. ask'[d].pc # "idle" => ~ask'[d].view.alone
    BY <1>3, <1>7 DEF Busy
  <2>3. UNCHANGED <<tree, time, answer>>
    BY <1>1
  <2> QED BY <1>3, <1>7, <2>1, <2>2, <2>3 DEF Collects, Collecting, Unshared, Busy
<1> QED BY <1>4, <1>5, <1>6, <1>7 DEF GitInv

WithStatus(a, p, k, v) == [a EXCEPT !.pc = p, !.counts = k, !.view = v]

LEMMA StatusSet ==
  ASSUME NEW a \in Asks, NEW p \in {"diff", "insert", "failed"}, NEW k \in Counts, NEW v \in Views,
         NEW r, r = WithStatus(a, p, k, v)
  PROVE  r \in Asks /\ r.pc = p /\ r.since = a.since /\ r.counts = k /\ r.files = a.files /\ r.view = v
<1> HIDE DEF Views, Counts, Paths
<1> QED BY DEF Asks, WithStatus

LEMMA GitStatusRanKeeps == ASSUME NEW c \in Askers, GitInv, GitStatusRan(c) PROVE GitInv'
<1> DEFINE K == Parse(Fields(Now))
<1>1. PICK ok \in BOOLEAN :
        ask' = [ask EXCEPT ![c].pc = IF ~ok THEN "failed" ELSE IF Dirty(K) THEN "diff" ELSE "insert",
                           ![c].counts = IF ok THEN K ELSE NoCounts,
                           ![c].view = [entries |-> Now, edits |-> tree.edits, time |-> time,
                                        whole |-> ok, alone |-> ask[c].view.alone]]
  BY DEF GitStatusRan
<1>2. UNCHANGED <<tree, time, cache, answer>> /\ ask[c].pc = "status"
  BY DEF GitStatusRan
<1> DEFINE p == IF ~ok THEN "failed" ELSE IF Dirty(K) THEN "diff" ELSE "insert"
           k == IF ok THEN K ELSE NoCounts
           v == [entries |-> Now, edits |-> tree.edits, time |-> time, whole |-> ok, alone |-> ask[c].view.alone]
           a == ask[c]
           r == ask'[c]
<1>3. a \in Asks /\ ask \in [Askers -> Asks] /\ a.view \in Views /\ time \in Nat /\ tree.edits \in Nat
  BY DEF GitInv, TreeInv, Asks
<1>4. Now \in Seq(GitEntries) /\ K \in Counts /\ NoCounts \in Counts
  <2>1. Now \in Seq(GitEntries)
    BY NowType DEF GitInv
  <2> QED BY <2>1, ParseType, ClassesAre DEF Counts
<1>5. /\ v \in Views /\ v.entries = Now /\ v.edits = tree.edits /\ v.time = time /\ v.whole = ok
      /\ v.alone = a.view.alone
  BY <1>3, <1>4 DEF Views
<1>6. /\ p \in {"diff", "insert", "failed"} /\ k \in Counts /\ (p = "failed" <=> ~ok)
      /\ (p # "failed" => k = K) /\ (p = "diff" => Dirty(k)) /\ (p = "insert" => ~Dirty(k))
  <2> HIDE DEF K
  <2> QED BY <1>4
<1>7. r = WithStatus(a, p, k, v) /\ \A d \in Askers \ {c} : ask'[d] = ask[d]
  <2> HIDE DEF p, k, v
  <2>1. ask' = [ask EXCEPT ![c].pc = p, ![c].counts = k, ![c].view = v]
    BY <1>1 DEF p, k, v
  <2> QED BY <1>3, <2>1 DEF WithStatus
<1>8. r \in Asks /\ r.pc = p /\ r.since = a.since /\ r.counts = k /\ r.files = a.files /\ r.view = v
  <2> HIDE DEF p, k, v, a, r, K
  <2>1. a \in Asks /\ p \in {"diff", "insert", "failed"} /\ k \in Counts /\ v \in Views
        /\ r = WithStatus(a, p, k, v)
    BY <1>3, <1>5, <1>6, <1>7
  <2> QED BY ONLY <2>1, StatusSet
<1> HIDE DEF p, k, v, K
<1>9. TreeInv'
  <2>1. ask' \in [Askers -> Asks]
    <3>1. \A d \in Askers : ask'[d] \in Asks
      BY <1>3, <1>7, <1>8
    <3>2. ask' = [d \in Askers |-> ask'[d]]
      BY <1>1, <1>3
    <3> QED BY <3>1, <3>2
  <2> QED BY <1>2, <2>1 DEF GitInv, TreeInv
<1>10. AnswerInv'
  BY <1>2 DEF GitInv, AnswerInv, Belongs, ShownIsRecent, GoesBackOnlyInARace
<1>11. \A d \in Askers : Busy(d)' <=> Busy(d)
  BY <1>2, <1>6, <1>7, <1>8 DEF Busy
<1>12. Collecting(r, tree, time, answer.view.edits)
  <2>1. Collecting(a, tree, time, answer.view.edits) /\ a.pc = "status"
    BY <1>2 DEF GitInv, Collects
  <2>2. a.since <= time /\ time - a.since <= MaxGit /\ a.files = {}
    BY <2>1 DEF Collecting
  <2>3. answer.view.edits <= tree.edits
    BY DEF GitInv, AnswerInv
  <2>4. v.entries = tree.history[v.edits + 1]
    BY <1>5 DEF Now
  <2>5. p # "failed" => k = Parse(Fields(v.entries))
    BY <1>5, <1>6 DEF K
  <2> HIDE DEF a, r
  <2>6. /\ r.since = a.since /\ r.files = {} /\ r.view.time = time /\ r.view.edits = tree.edits
        /\ r.view.entries = tree.history[r.view.edits + 1] /\ r.pc \in {"diff", "insert", "failed"}
        /\ r.pc # "failed" => r.counts = Parse(Fields(r.view.entries))
    BY <1>5, <1>6, <1>8, <2>2, <2>4, <2>5, Zenon
  <2>7. (r.pc = "failed" => ~r.view.whole) /\ (r.pc = "diff" => Dirty(r.counts))
        /\ (r.pc = "insert" => ~Dirty(r.counts))
    BY <1>5, <1>6, <1>8, Zenon
  <2>8. time <= time /\ tree.edits <= tree.edits
    BY <1>3
  <2> HIDE DEF v, p, k
  <2> QED BY <2>2, <2>3, <2>6, <2>7, <2>8 DEF Collecting
<1>13. Unshared(c)'
  BY <1>5, <1>8, <1>11 DEF GitInv, Collects, Unshared
<1>14. ASSUME NEW d \in Askers, d # c PROVE Collects(d)'
  <2>1. Collects(d) /\ ask'[d] = ask[d]
    BY <1>7, <1>14 DEF GitInv
  <2> QED BY <1>2, <1>11, <2>1 DEF Collects, Unshared
<1> QED BY <1>2, <1>9, <1>10, <1>12, <1>13, <1>14 DEF GitInv, Collects

WithDiff(a, p, f, b) == [a EXCEPT !.pc = p, !.files = f, !.view.whole = b]

LEMMA DiffSet ==
  ASSUME NEW a \in Asks, NEW p \in {"cached", "insert"}, NEW f \in SUBSET Paths, NEW b \in BOOLEAN,
         NEW r, r = WithDiff(a, p, f, b)
  PROVE  /\ r \in Asks /\ r.pc = p /\ r.since = a.since /\ r.counts = a.counts /\ r.files = f
         /\ r.view.entries = a.view.entries /\ r.view.edits = a.view.edits /\ r.view.time = a.view.time
         /\ r.view.alone = a.view.alone /\ r.view.whole = b
<1> DEFINE v == [a.view EXCEPT !.whole = b]
<1>1. a.view \in Views
  BY DEF Asks
<1>2. v \in Views /\ v.entries = a.view.entries /\ v.edits = a.view.edits /\ v.time = a.view.time
      /\ v.alone = a.view.alone /\ v.whole = b
  BY <1>1 DEF Views
<1>3. r = [a EXCEPT !.pc = p, !.files = f, !.view = v]
  BY DEF Asks, WithDiff
<1> HIDE DEF v
<1>4. r \in Asks /\ r.pc = p /\ r.since = a.since /\ r.counts = a.counts /\ r.files = f /\ r.view = v
  <2> HIDE DEF Views, Counts, Paths
  <2> QED BY <1>2, <1>3 DEF Asks
<1> QED BY <1>2, <1>4

LEMMA DiffRanKeeps == ASSUME NEW c \in Askers, GitInv, DiffRan(c) PROVE GitInv'
<1> DEFINE a == ask[c]
           r == ask'[c]
           cached == a.pc = "cached"
<1>1. PICK ok \in BOOLEAN :
        ask' = [ask EXCEPT ![c].pc = IF cached THEN "insert" ELSE "cached",
                           ![c].files = IF ok THEN Collected(a.files, cached) ELSE a.files,
                           ![c].view.whole = @ /\ ok /\ tree.edits = a.view.edits]
  BY DEF DiffRan
<1>2. UNCHANGED <<tree, time, cache, answer>> /\ a.pc \in {"diff", "cached"}
  BY DEF DiffRan
<1> DEFINE p == IF cached THEN "insert" ELSE "cached"
           f == IF ok THEN Collected(a.files, cached) ELSE a.files
           b == a.view.whole /\ ok /\ tree.edits = a.view.edits
<1>3. a \in Asks /\ ask \in [Askers -> Asks] /\ a.view \in Views /\ time \in Nat /\ tree.edits \in Nat
  BY DEF GitInv, TreeInv, Asks
<1>4. p \in {"cached", "insert"} /\ b \in BOOLEAN /\ cached \in BOOLEAN /\ (b => a.view.whole)
  OBVIOUS
<1>5. f \in SUBSET Paths
  <2>1. a.files \in SUBSET Paths
    <3> HIDE DEF a, Paths
    <3> QED BY <1>3 DEF Asks
  <2>2. Now \in Seq(GitEntries)
    BY NowType DEF GitInv
  <2> HIDE DEF cached, Paths
  <2>3. NumStat(Now, cached) \subseteq Paths
    BY <1>4, <2>2, PathsType
  <2> QED BY <2>1, <2>3 DEF Collected
<1>6. r = WithDiff(a, p, f, b) /\ \A d \in Askers \ {c} : ask'[d] = ask[d]
  <2>1. ask' = [ask EXCEPT ![c].pc = p, ![c].files = f, ![c].view.whole = b]
    BY <1>1
  <2> HIDE DEF p, f, b
  <2> QED BY <1>3, <2>1 DEF WithDiff
<1>7. /\ r \in Asks /\ r.pc = p /\ r.since = a.since /\ r.counts = a.counts /\ r.files = f
      /\ r.view.entries = a.view.entries /\ r.view.edits = a.view.edits /\ r.view.time = a.view.time
      /\ r.view.alone = a.view.alone /\ r.view.whole = b
  <2> HIDE DEF p, f, b, a, r
  <2> QED BY ONLY <1>3, <1>4, <1>5, <1>6, DiffSet
<1>8. TreeInv'
  <2>1. ask' \in [Askers -> Asks]
    <3>1. \A d \in Askers : ask'[d] \in Asks
      BY <1>3, <1>6, <1>7
    <3>2. ask' = [d \in Askers |-> ask'[d]]
      BY <1>1, <1>3
    <3> QED BY <3>1, <3>2
  <2> QED BY <1>2, <2>1 DEF GitInv, TreeInv
<1>9. AnswerInv'
  BY <1>2 DEF GitInv, AnswerInv, Belongs, ShownIsRecent, GoesBackOnlyInARace
<1>10. \A d \in Askers : Busy(d)' <=> Busy(d)
  <2> HIDE DEF f, b
  <2> QED BY <1>2, <1>6, <1>7 DEF Busy
<1>11. Collecting(r, tree, time, answer.view.edits)
  <2>1. Collecting(a, tree, time, answer.view.edits)
    BY DEF GitInv, Collects
  \* A diff that worked on the tree that was seen.
  <2>2. ASSUME b
        PROVE  f = IF cached THEN Named(a.view.entries) ELSE NumStat(a.view.entries, FALSE)
    <3>1. ok /\ a.view.whole /\ tree.edits = a.view.edits
      BY <2>2
    <3>2. Now = a.view.entries
      BY <1>2, <2>1, <3>1 DEF Collecting, Now
    <3>3. f = a.files \union NumStat(a.view.entries, cached)
      BY <3>1, <3>2 DEF Collected
    <3>4. CASE cached
      <4>1. a.files = NumStat(a.view.entries, FALSE) /\ cached = TRUE
        BY <2>1, <3>1, <3>4 DEF Collecting
      <4> HIDE DEF f, cached
      <4> QED BY <3>3, <4>1 DEF Named
    <3>5. CASE ~cached
      <4>1. a.files = {} /\ cached = FALSE
        BY <1>2, <2>1, <3>1, <3>5 DEF Collecting
      <4> HIDE DEF f, cached
      <4> QED BY <3>3, <4>1
    <3> QED BY <3>4, <3>5
  <2>3. /\ a.since <= time /\ time - a.since <= MaxGit /\ a.since <= a.view.time /\ a.view.time <= time
        /\ a.view.edits <= tree.edits /\ a.view.entries = tree.history[a.view.edits + 1]
        /\ a.view.alone => answer.view.edits <= a.view.edits
        /\ a.counts = Parse(Fields(a.view.entries)) /\ Dirty(a.counts)
    BY <1>2, <2>1 DEF Collecting
  <2>4. p = IF cached THEN "insert" ELSE "cached"
    OBVIOUS
  <2> HIDE DEF p, f, b, a, r, cached
  <2>5. r.view.whole => r.files = IF cached THEN Named(r.view.entries) ELSE NumStat(r.view.entries, FALSE)
    BY <1>7, <2>2
  <2>6. /\ r.since <= time /\ time - r.since <= MaxGit /\ r.since <= r.view.time /\ r.view.time <= time
        /\ r.view.edits <= tree.edits /\ r.view.entries = tree.history[r.view.edits + 1]
        /\ r.view.alone => answer.view.edits <= r.view.edits
        /\ r.counts = Parse(Fields(r.view.entries)) /\ Dirty(r.counts)
    BY <1>7, <2>3
  <2>7. r.pc \in {"cached", "insert"} /\ (r.pc = "insert" <=> cached)
    BY <1>7, <2>4
  <2> QED BY <2>5, <2>6, <2>7 DEF Collecting
<1>12. Unshared(c)'
  <2> HIDE DEF p, f, b
  <2> QED BY <1>7, <1>10 DEF GitInv, Collects, Unshared
<1>13. ASSUME NEW d \in Askers, d # c PROVE Collects(d)'
  <2>1. Collects(d) /\ ask'[d] = ask[d]
    BY <1>6, <1>13 DEF GitInv
  <2> QED BY <1>2, <1>10, <2>1 DEF Collects, Unshared
<1> QED BY <1>2, <1>8, <1>9, <1>11, <1>12, <1>13 DEF GitInv, Collects

LEMMA InsertKeeps == ASSUME NEW c \in Askers, GitInv, Insert(c) PROVE GitInv'
<1> DEFINE a == ask[c]
           v == a.view
           s == IF a.pc = "failed" THEN Unavailable ELSE StatusOf(a.counts, a.files)
           back == v.edits < answer.view.edits
<1>1. /\ UNCHANGED <<tree, time>> /\ a.pc \in {"insert", "failed"} /\ ask' = [ask EXCEPT ![c] = NoAsk]
      /\ cache' = [filled |-> TRUE, at |-> time, view |-> v, status |-> s]
      /\ answer' = [status |-> s, view |-> v, at |-> time, back |-> back]
  BY DEF Insert, Give
<1>2. a \in Asks /\ ask \in [Askers -> Asks] /\ time \in Nat /\ tree.edits \in Nat /\ answer.view \in Views
  BY DEF GitInv, TreeInv, AnswerInv
<1>3. v \in Views /\ v.time \in Nat /\ v.edits \in Nat /\ v.alone \in BOOLEAN
      /\ a.since \in Nat /\ answer.view.edits \in Nat
  <2>1. v \in Views /\ a.since \in Nat
    <3> HIDE DEF Views
    <3> QED BY <1>2 DEF Asks
  <2> QED BY <1>2, <2>1 DEF Views
<1>4. Collecting(a, tree, time, answer.view.edits)
  BY DEF GitInv, Collects
<1>5. /\ time - a.since <= MaxGit /\ a.since <= v.time /\ v.time <= time /\ v.edits <= tree.edits
      /\ v.alone => answer.view.edits <= v.edits
      /\ a.pc = "insert" => a.counts = Parse(Fields(v.entries))
      /\ a.pc = "failed" => ~v.whole
      /\ a.pc = "insert" /\ v.whole => a.files = IF Dirty(a.counts) THEN Named(v.entries) ELSE {}
  <2> HIDE DEF a
  <2> QED BY <1>1, <1>4 DEF Collecting
<1>6. Belongs(v, s)
  <2>1. CASE a.pc = "failed"
    <3>1. s.state = "error" /\ ~v.whole
      BY <1>5, <2>1 DEF Unavailable
    <3> HIDE DEF s, v
    <3> QED BY <3>1 DEF Belongs
  <2>2. CASE a.pc = "insert"
    <3>1. s.state \in {"dirty", "clean"} /\ s.counts = a.counts /\ s.files = a.files
      BY <2>2 DEF StatusOf
    <3> HIDE DEF s, a
    <3> QED BY <1>5, <2>2, <3>1 DEF Belongs
  <2> QED BY <1>1, <2>1, <2>2
<1>7. back \in BOOLEAN /\ (back => ~v.alone)
  BY <1>3, <1>5
<1> HIDE DEF s, back
<1>8. /\ answer'.status = s /\ answer'.view = v /\ answer'.at = time /\ answer'.back = back
      /\ cache'.filled = TRUE /\ cache'.at = time /\ cache'.view = v /\ cache'.status = s
  <2> HIDE DEF v
  <2> QED BY <1>1
<1>9. ask'[c] = NoAsk /\ \A d \in Askers \ {c} : ask'[d] = ask[d]
  BY <1>1, <1>2
<1>10. TreeInv'
  <2>1. ask' \in [Askers -> Asks]
    <3> HIDE DEF Asks
    <3> QED BY <1>1, <1>2, NoAskType
  <2> QED BY <1>1, <2>1 DEF GitInv, TreeInv
<1>11. AnswerInv'
  <2>1. time - v.time <= MaxGit /\ time - v.time <= TTL + MaxGit
    BY <1>2, <1>3, <1>5, GitAssumption
  <2>2. ShownIsRecent' /\ GoesBackOnlyInARace' /\ Belongs(answer.view, answer.status)'
    <3> HIDE DEF v
    <3>1. ShownIsRecent'
      BY <1>8, <2>1 DEF ShownIsRecent
    <3>2. GoesBackOnlyInARace'
      BY <1>7, <1>8 DEF GoesBackOnlyInARace
    <3>3. Belongs(answer'.view, answer'.status)
      BY <1>6, <1>8
    <3> QED BY <3>1, <3>2, <3>3 DEF Belongs
  <2>3. time <= time
    BY <1>2
  <2>4. answer'.view \in Views /\ answer'.at \in Nat /\ answer'.back \in BOOLEAN /\ cache'.filled \in BOOLEAN
    BY <1>2, <1>3, <1>7, <1>8
  <2> HIDE DEF v
  <2> QED BY <1>1, <1>2, <1>5, <1>8, <2>1, <2>2, <2>3, <2>4 DEF AnswerInv
<1>12. Collects(c)'
  BY <1>9 DEF Collects, Collecting, Unshared, Busy, NoAsk, NoView
<1>13. ASSUME NEW d \in Askers, d # c PROVE Collects(d)'
  <2>1. Collecting(ask[d], tree, time, answer.view.edits) /\ Unshared(d) /\ ask'[d] = ask[d]
    BY <1>9, <1>13 DEF GitInv, Collects
  <2>2. Busy(d) => ~ask[d].view.alone
    BY <1>1, <1>13, <2>1 DEF Unshared, Busy
  <2> DEFINE z == ask[d]
             e == answer'.view.edits
  <2>3. Collecting(z, tree, time, answer.view.edits) /\ (z.pc # "idle" => ~z.view.alone)
    BY <2>1, <2>2 DEF Busy
  <2>4. Collecting(z, tree, time, e)
    <3> HIDE DEF z, e
    <3> QED BY <2>3 DEF Collecting
  <2>5. Unshared(d)'
    BY <2>1, <2>2 DEF Unshared, Busy
  <2> QED BY <1>1, <2>1, <2>4, <2>5 DEF Collects
<1> QED BY <1>10, <1>11, <1>12, <1>13 DEF GitInv

LEMMA EditTreeKeeps == ASSUME GitInv, EditTree PROVE GitInv'
<1>1. UNCHANGED <<time, cache, ask, answer>> /\ tree.edits + 1 < Len(tree.history)
      /\ tree' = [tree EXCEPT !.edits = @ + 1]
  BY DEF EditTree
<1>2. tree \in [history : Histories, edits : Nat] /\ time \in Nat
  BY DEF GitInv, TreeInv
<1>3. tree' \in [history : Histories, edits : Nat] /\ tree'.history = tree.history /\ tree'.edits = tree.edits + 1
  BY <1>1, <1>2
<1>4. TreeInv'
  BY <1>1, <1>3 DEF GitInv, TreeInv
<1>5. AnswerInv'
  <2>1. answer.view.edits \in Nat /\ tree.edits \in Nat
    BY <1>2 DEF GitInv, AnswerInv, Views
  <2> QED BY <1>1, <1>3, <2>1 DEF GitInv, AnswerInv, Belongs, ShownIsRecent, GoesBackOnlyInARace
<1>6. ASSUME NEW c \in Askers PROVE Collects(c)'
  <2> DEFINE a == ask[c]
             e == answer.view.edits
  <2>1. Collecting(a, tree, time, e) /\ Unshared(c) /\ a \in Asks
    BY DEF GitInv, TreeInv, Collects
  <2>2. a.view.edits \in Nat /\ tree.edits \in Nat
    BY <1>2, <2>1 DEF Asks, Views
  <2>3. a.view.edits <= tree.edits => a.view.edits <= tree'.edits
    BY <1>3, <2>2
  <2>4. Collecting(a, tree', time, e)
    <3> HIDE DEF a, e
    <3> QED BY <1>3, <2>1, <2>3 DEF Collecting
  <2>5. Unshared(c)'
    BY <1>1, <2>1 DEF Unshared, Busy
  <2> QED BY <1>1, <2>4, <2>5 DEF Collects
<1> QED BY <1>4, <1>5, <1>6 DEF GitInv

LEMMA TimePassesKeeps == ASSUME GitInv, TimePasses PROVE GitInv'
<1>1. /\ UNCHANGED <<tree, cache, ask, answer>> /\ time' = time + 1
      /\ \A c \in Askers : Busy(c) => time - ask[c].since < MaxGit
  BY DEF TimePasses
<1>2. time \in Nat /\ time' \in Nat
  BY <1>1 DEF GitInv, TreeInv
<1>3. TreeInv'
  BY <1>1, <1>2 DEF GitInv, TreeInv
<1>4. AnswerInv'
  BY <1>1, <1>2 DEF GitInv, AnswerInv, Belongs, ShownIsRecent, GoesBackOnlyInARace
<1>5. ASSUME NEW c \in Askers PROVE Collects(c)'
  <2> DEFINE a == ask[c]
             e == answer.view.edits
  <2>1. Collecting(a, tree, time, e) /\ Unshared(c) /\ a \in Asks
    BY DEF GitInv, TreeInv, Collects
  <2>2. a.since \in Nat /\ a.view.time \in Nat
    BY <2>1 DEF Asks, Views
  <2>3. a.pc # "idle" => time - a.since < MaxGit
    BY <1>1 DEF Busy
  <2>4. MaxGit \in Nat
    BY GitAssumption
  <2>5. /\ a.since <= time => a.since <= time'
        /\ a.view.time <= time => a.view.time <= time'
        /\ time - a.since < MaxGit => time' - a.since <= MaxGit
    BY <1>1, <1>2, <2>2, <2>4
  <2>6. Collecting(a, tree, time', e)
    <3> HIDE DEF a, e
    <3> QED BY <2>1, <2>3, <2>5 DEF Collecting
  <2>7. Unshared(c)'
    BY <1>1, <2>1 DEF Unshared, Busy
  <2> QED BY <1>1, <2>6, <2>7 DEF Collects
<1> QED BY <1>3, <1>4, <1>5 DEF GitInv

LEMMA StepGit == ASSUME GitInv, [GitNext]_gitVars PROVE GitInv'
<1>1. CASE UNCHANGED gitVars
  <2>1. UNCHANGED <<tree, time, cache, ask, answer>>
    BY <1>1 DEF gitVars
  <2> QED BY <2>1 DEF GitInv, TreeInv, AnswerInv, Belongs, ShownIsRecent, GoesBackOnlyInARace, Collects, Collecting,
                      Unshared, Busy
<1>2. CASE GitNext
  BY <1>2, LookHitKeeps, LookMissKeeps, GitStatusRanKeeps, DiffRanKeeps, InsertKeeps, EditTreeKeeps, TimePassesKeeps
     DEF GitNext
<1> QED BY <1>1, <1>2

-----------------------------------------------------------------------------
(* What an answer says *)

LEMMA CountsFollow == ASSUME GitInv PROVE CountsAreRight
<1> DEFINE seen == answer.view.entries
           class(i) == ClassOf(<<seen[i].x, seen[i].y>>)
<1>1. SUFFICES ASSUME answer.status.state # "error", \A i \in DOMAIN seen : seen[i].y \notin {"R", "C"}
               PROVE  answer.status.counts = [k \in Classes |-> Cardinality({i \in DOMAIN seen : class(i) = k})]
  BY DEF CountsAreRight
<1>2. seen \in Seq(GitEntries) /\ answer.status.counts = Parse(Fields(seen))
  BY <1>1 DEF GitInv, AnswerInv, Belongs, Views
<1>3. Parse(Fields(seen)) = [k \in Classes |-> Cardinality({i \in DOMAIN seen : LetterClass(seen[i]) = k})]
  <2> HIDE DEF seen
  <2> QED BY <1>1, <1>2, ParsedRight
<1>4. \A i : LetterClass(seen[i]) = class(i)
  BY DEF LetterClass
<1> HIDE DEF seen
<1> QED BY <1>2, <1>3, <1>4

LEMMA NumbersFollow == ASSUME GitInv PROVE NumbersBelongTogether
<1> DEFINE seen == answer.view.entries
           s == answer.status
<1>1. SUFFICES ASSUME answer.view.whole, \A i \in DOMAIN seen : seen[i].y # "C"
               PROVE  Cardinality(s.files) >= Changed(s.counts) /\ (Changed(s.counts) = 0 => s.files = {})
  BY DEF NumbersBelongTogether, Changed
<1>2. /\ seen \in Seq(GitEntries) /\ s.counts = Parse(Fields(seen))
      /\ s.files = IF Dirty(s.counts) THEN Named(seen) ELSE {}
  BY <1>1 DEF GitInv, AnswerInv, Belongs, Views
<1> HIDE DEF seen, s
<1>3. CASE Dirty(s.counts)
  BY <1>1, <1>2, <1>3, FilesCover
<1>4. CASE ~Dirty(s.counts)
  <2>1. s.counts \in Counts
    BY <1>2, ParseType
  <2>2. Changed(s.counts) = 0
    BY <1>4, <2>1, ClassesAre DEF Dirty, Counts, Changed
  <2>3. Cardinality({}) = 0
    BY FS_EmptySet
  <2> QED BY <1>2, <1>4, <2>2, <2>3
<1> QED BY <1>3, <1>4

\* What every answer of status_for may rely on, for any histories of the work tree, any number of
\* connections that ask at once, any lifetime of the cache and any time git takes: the counts are
\* those of the tree that git status saw, numbers from an undisturbed collection agree, nothing
\* is shown beyond the cache's lifetime and one collection, and what is shown goes back in time
\* only through collections that overlap.
THEOREM GitHolds == GitSpec => []GitIsRight
<1>1. GitInit => GitInv
  BY InitGit
<1>2. GitInv /\ [GitNext]_gitVars => GitInv'
  BY StepGit
<1>3. GitInv => GitIsRight
  BY CountsFollow, NumbersFollow DEF GitIsRight, GitInv, AnswerInv
<1> QED BY <1>1, <1>2, <1>3, PTL DEF GitSpec

-----------------------------------------------------------------------------
(* Loading a tree of projects: files and paths *)

Children == [project : Projects, abs : BOOLEAN, prefix : Names]
ChildMaps == UNION {[D -> Children] : D \in SUBSET ToSet(ChildOrder)}
Overlays == [dropped : SUBSET Names, spaces : SUBSET Names, unmounted : SUBSET ToSet(ChildOrder), children : ChildMaps]
Configs == [spaces : SUBSET Names, children : ChildMaps, depth : Nat, width : Nat, root : BOOLEAN, team : BOOLEAN,
            overlay : Overlays]

\* A disk has a config or nothing for every project.
IsDisk(d) == \A p \in Projects : d[p] = Gone \/ IsConfig(d[p])

\* The names of children are parts.
LEMMA ChildNamesAreParts == \A k \in ToSet(ChildOrder) : <<k>> \in Names /\ k \in Parts
BY ConfigTreeAssumption DEF ToSet, Names

\* A config is a record of known fields.
LEMMA ConfigIs ==
  ASSUME NEW c, IsConfig(c)
  PROVE  c \in Configs
<1>1. \A f : AreChildren(f) => f \in ChildMaps
  BY DEF AreChildren, ChildMaps, Children
<1>2. c.overlay \in Overlays
  <2>1. c.overlay = [dropped |-> c.overlay.dropped, spaces |-> c.overlay.spaces, unmounted |-> c.overlay.unmounted,
                     children |-> c.overlay.children]
    BY DEF IsConfig
  <2>2. QED BY <1>1, <2>1 DEF IsConfig, Overlays
<1>3. c.depth \in Nat /\ c.width \in Nat
  BY DEF IsConfig
<1> DEFINE o == c.overlay
<1> HIDE DEF o
<1>4. c = [spaces |-> c.spaces, children |-> c.children, depth |-> c.depth, width |-> c.width, root |-> c.root,
           team |-> c.team, overlay |-> o]
  BY DEF IsConfig, o
<1>5. c.spaces \in SUBSET Names /\ c.children \in ChildMaps /\ c.root \in BOOLEAN /\ c.team \in BOOLEAN
  BY <1>1 DEF IsConfig
<1>6. QED BY <1>2, <1>3, <1>4, <1>5 DEF Configs, o

\* What load_local_config returns: every child has a prefix.
LEMMA LocalFacts ==
  ASSUME NEW c, IsConfig(c)
  PROVE  /\ Local(c) \in Configs
         /\ DOMAIN Local(c).children \subseteq ToSet(ChildOrder)
         /\ \A k \in DOMAIN Local(c).children : Local(c).children[k] \in Children /\ Local(c).children[k].prefix # <<>>
<1>1. c \in Configs
  BY ConfigIs
<1> DEFINE o == Overlaid(c)
<1>2. o \in Configs
  <2>1. CASE ~c.team
    BY <1>1, <2>1 DEF Overlaid
  <2>2. CASE c.team
    <3> DEFINE D == (DOMAIN c.children \ c.overlay.unmounted) \union DOMAIN c.overlay.children
               ch == [n \in D |-> IF n \in DOMAIN c.overlay.children THEN c.overlay.children[n] ELSE c.children[n]]
               sp == (c.spaces \ c.overlay.dropped) \union c.overlay.spaces
    <3>1. o = [c EXCEPT !.spaces = sp, !.children = ch]
      BY <2>2 DEF Overlaid
    <3>2. c.children \in ChildMaps /\ c.overlay.children \in ChildMaps /\ sp \in SUBSET Names
      BY <1>1 DEF Configs, Overlays
    <3>3. D \in SUBSET ToSet(ChildOrder) /\ ch \in [D -> Children]
      BY <3>2 DEF ChildMaps
    <3>4. ch \in ChildMaps
      BY <3>3 DEF ChildMaps
    <3> HIDE DEF ch, sp, o
    <3>5. QED BY <1>1, <3>1, <3>2, <3>4 DEF Configs
  <2>3. QED BY <2>1, <2>2
<1> DEFINE ch == [n \in DOMAIN o.children |-> Prefixed(n, o.children[n])]
<1>3. Local(c) = [o EXCEPT !.children = ch]
  BY DEF Local
<1> HIDE DEF o
<1>4. PICK D \in SUBSET ToSet(ChildOrder) : o.children \in [D -> Children]
  BY <1>2 DEF Configs, ChildMaps
<1>5. ASSUME NEW n \in D PROVE ch[n] \in Children /\ ch[n].prefix # <<>>
  <2>1. o.children[n] \in Children /\ <<n>> \in Names /\ ch[n] = Prefixed(n, o.children[n]) /\ <<n>> # <<>>
    BY <1>4, ChildNamesAreParts
  <2> HIDE DEF ch
  <2>2. QED BY <2>1 DEF Prefixed, Children
<1>6. ch \in [D -> Children]
  BY <1>4, <1>5
<1> HIDE DEF ch
<1>7. ch \in ChildMaps
  BY <1>6 DEF ChildMaps
<1>8. Local(c).children = ch /\ Local(c) \in Configs
  BY <1>2, <1>3, <1>7 DEF Configs
<1>9. QED BY <1>5, <1>6, <1>8

\* The paths that can be opened.
AllPaths == UNION {[1..n -> Projects] : n \in 1..MaxPath}

LEMMA PathsAre ==
  \A p : p \in AllPaths <=> p \in Seq(Projects) /\ Len(p) \in 1..MaxPath
<1> SUFFICES ASSUME NEW p PROVE p \in AllPaths <=> p \in Seq(Projects) /\ Len(p) \in 1..MaxPath
  OBVIOUS
<1>1. ASSUME NEW n \in 1..MaxPath, p \in [1..n -> Projects] PROVE p \in Seq(Projects) /\ Len(p) = n
  <2>1. n \in Nat
    BY <1>1, ConfigTreeAssumption
  <2>2. QED BY <1>1, <2>1
<1>2. ASSUME p \in Seq(Projects) PROVE p \in [1..Len(p) -> Projects]
  BY <1>2
<1>3. QED BY <1>1, <1>2 DEF AllPaths

\* There are finitely many levels.
LEMMA LevelsAreFinite ==
  /\ MaxLevel \in Nat /\ MaxPath \in Nat
  /\ IsFiniteSet(Projects \X (1..MaxPath)) /\ Cardinality(Projects \X (1..MaxPath)) = MaxLevel
<1>1. IsFiniteSet(Projects) /\ MaxPath \in Nat
  BY ConfigTreeAssumption
<1>2. IsFiniteSet(1..MaxPath) /\ Cardinality(1..MaxPath) = MaxPath
  BY <1>1, FS_Interval
<1>3. Cardinality(Projects) \in Nat
  BY <1>1, FS_CardinalityType
<1>4. MaxLevel \in Nat
  BY <1>1, <1>3 DEF MaxLevel
<1>5. QED BY <1>1, <1>2, <1>4, FS_Product DEF MaxLevel


-----------------------------------------------------------------------------
(* Mounts *)

MountSet == [names : Names, path : AllPaths, prefix : Names, above : Seq(AllPaths)]

\* The i-th path on the way to a mount, itself included.
OnWay(m, i) == IF i = Len(m.above) + 1 THEN m.path ELSE m.above[i]

\* Every path on the way was set out from at its first project, as many levels up as it is long.
SetsOut(m) ==
  \A i \in 1..(Len(m.above)+1) : /\ Len(OnWay(m, i)) <= i
                                 /\ OnWay(m, i - Len(OnWay(m, i)) + 1) = <<OnWay(m, i)[1]>>

\* What holds of the mounts n levels down.
AtLevel(d, n, m) ==
  /\ m \in MountSet /\ Len(m.above) = n /\ Len(m.names) = n /\ Len(m.path) <= n + 1
  /\ IsInjective(m.above) /\ d[Last(m.path)] # Gone
  /\ (m.prefix = <<>> => m = RootMount) /\ SetsOut(m)

\* The levels follow from one another.
LEMMA LevelsSolved ==
  ASSUME NEW d
  PROVE  /\ DOMAIN Levels(d) = 0..MaxLevel
         /\ Levels(d)[0] = {RootMount}
         /\ \A k \in 1..MaxLevel : Levels(d)[k] = NextLevel(d, Levels(d)[k-1])
<1> DEFINE n == MaxLevel
           R == {RootMount}
           Solves(F, m) == F = [i \in 0..m |-> IF i = 0 THEN R ELSE NextLevel(d, F[i-1])]
           S == {m \in 0..n : \E F : Solves(F, m)}
<1>1. n \in Nat
  BY LevelsAreFinite
<1> HIDE DEF R, n
<1>2. 0 \in S
  <2>1. Solves([i \in 0..0 |-> R], 0)
    OBVIOUS
  <2> HIDE DEF Solves
  <2>2. QED BY <1>1, <2>1
<1>3. ASSUME NEW m \in 0..n, m < n, m \in S PROVE m + 1 \in S
  <2>1. PICK F : Solves(F, m)
    BY <1>3
  <2> DEFINE last == NextLevel(d, F[m])
             G == [i \in 0..(m+1) |-> IF i = m + 1 THEN last ELSE F[i]]
             H == [i \in 0..(m+1) |-> IF i = 0 THEN R ELSE NextLevel(d, G[i-1])]
  <2>2. ASSUME NEW i \in 0..(m+1) PROVE G[i] = H[i]
    <3>1. CASE i = m + 1
      <4>1. m \in 0..(m+1) /\ m # m + 1 /\ (m + 1) - 1 = m /\ m + 1 # 0
        OBVIOUS
      <4>2. G[m] = F[m] /\ G[m+1] = last
        BY <4>1
      <4>3. H[m+1] = NextLevel(d, G[m])
        BY <4>1
      <4>4. QED BY <3>1, <4>2, <4>3
    <3>2. CASE i # m + 1 /\ i # 0
      <4>1. i \in 0..m /\ i - 1 \in 0..m /\ i - 1 # m + 1 /\ i - 1 \in 0..(m+1)
        BY <3>2
      <4>2. G[i] = F[i] /\ G[i-1] = F[i-1]
        BY <3>2, <4>1
      <4>3. F[i] = NextLevel(d, F[i-1])
        <5> HIDE DEF G, H, last
        <5>1. QED BY <2>1, <3>2, <4>1
      <4>4. H[i] = NextLevel(d, G[i-1])
        BY <3>2
      <4>5. QED BY <4>2, <4>3, <4>4
    <3>3. CASE i = 0
      <4>1. F[0] = R
        BY <2>1
      <4>2. QED BY <3>3, <4>1
    <3>4. QED BY <3>1, <3>2, <3>3
  <2>3. G = H
    BY <2>2
  <2>4. Solves(G, m + 1)
    BY <2>3
  <2>5. m + 1 \in 0..n
    BY <1>1, <1>3
  <2> HIDE DEF Solves, G
  <2>6. QED BY <2>4, <2>5
<1>4. n \in S
  <2> HIDE DEF S
  <2>1. \A k \in 0..n : k \in S
    BY <1>1, <1>2, <1>3, Upwards
  <2>2. QED BY <1>1, <2>1
<1>5. \E F : Solves(F, n)
  BY <1>4
<1> DEFINE A == CHOOSE F : Solves(F, n)
<1>6. Solves(A, n)
  BY <1>5
<1>7. Levels(d) = A
  BY DEF Levels, R, n
<1> HIDE DEF A
<1>8. DOMAIN A = 0..n /\ \A i \in 0..n : A[i] = IF i = 0 THEN R ELSE NextLevel(d, A[i-1])
  BY <1>6
<1>9. A[0] = R
  BY <1>1, <1>8
<1>10. ASSUME NEW k \in 1..n PROVE A[k] = NextLevel(d, A[k-1])
  <2>1. k \in 0..n /\ k # 0
    BY <1>1
  <2>2. QED BY <1>8, <2>1, Zenon
<1>11. QED BY <1>7, <1>8, <1>9, <1>10 DEF n, R

\* The root is a mount, on no level but the first.
LEMMA RootFacts ==
  ASSUME NEW d, d[Root] # Gone
  PROVE  AtLevel(d, 0, RootMount)
<1>1. <<Root>> \in Seq(Projects) /\ Len(<<Root>>) = 1 /\ Last(<<Root>>) = Root
  BY ConfigTreeAssumption DEF Last
<1>2. <<Root>> \in AllPaths
  <2>1. 1 \in 1..MaxPath
    BY ConfigTreeAssumption
  <2>2. QED BY <1>1, <2>1, PathsAre
<1>3. <<>> \in Names /\ <<>> \in Seq(AllPaths) /\ Len(<<>>) = 0 /\ IsInjective(<<>>)
  BY DEF Names, IsInjective
<1>4. SetsOut(RootMount)
  <2>1. RootMount.path = <<Root>> /\ RootMount.above = <<>> /\ Len(RootMount.above) + 1 = 1
    BY DEF RootMount
  <2>2. OnWay(RootMount, 1) = <<Root>>
    BY <2>1 DEF OnWay
  <2> DEFINE p == OnWay(RootMount, 1)
  <2>3. Len(p) = 1 /\ p = <<p[1]>>
    BY <2>2
  <2> HIDE DEF p
  <2>4. Len(p) <= 1 /\ 1 - Len(p) + 1 = 1
    BY <2>3
  <2>5. OnWay(RootMount, 1 - Len(p) + 1) = <<p[1]>>
    <3>1. OnWay(RootMount, 1 - Len(p) + 1) = p
      BY <2>4 DEF p
    <3>2. QED BY <2>3, <3>1
  <2>6. \A i \in 1..1 : i = 1
    OBVIOUS
  <2>7. QED BY <2>1, <2>4, <2>5, <2>6 DEF SetsOut, p
<1>5. QED BY <1>1, <1>2, <1>3, <1>4 DEF AtLevel, RootMount, MountSet

\* The children of a mount have names.
LEMMA PartsOfNames ==
  ASSUME NEW d, IsDisk(d), NEW m \in MountSet, d[Last(m.path)] # Gone
  PROVE  /\ Last(m.path) \in Projects /\ FileAt(d, m) \in Configs
         /\ DOMAIN FileAt(d, m).children \subseteq ToSet(ChildOrder)
         /\ \A k \in DOMAIN FileAt(d, m).children :
              k \in Parts /\ FileAt(d, m).children[k] \in Children /\ FileAt(d, m).children[k].prefix # <<>>
<1>1. m.path \in Seq(Projects) /\ Len(m.path) \in 1..MaxPath
  BY PathsAre DEF MountSet
<1>2. Last(m.path) \in Projects
  BY <1>1 DEF Last
<1>3. QED BY <1>2, LocalFacts, ChildNamesAreParts DEF IsDisk, FileAt

\* What a child of a mount is.
LEMMA ChildFacts ==
  ASSUME NEW d, IsDisk(d), NEW m \in MountSet, d[Last(m.path)] # Gone,
         NEW k \in DOMAIN FileAt(d, m).children, Present(d, MountIn(d, m, k).path)
  PROVE  LET x == MountIn(d, m, k)
             child == FileAt(d, m).children[k]
         IN  /\ x \in MountSet /\ x.names = Append(m.names, k) /\ x.above = Append(m.above, m.path)
             /\ x.path = PathOf(m.path, child) /\ x.prefix = m.prefix \o child.prefix
             /\ child \in Children /\ child.prefix # <<>> /\ x.prefix # <<>>
             /\ d[Last(x.path)] # Gone /\ Len(x.path) <= Len(m.path) + 1
             /\ Len(x.names) = Len(m.names) + 1 /\ Len(x.above) = Len(m.above) + 1
<1> DEFINE x == MountIn(d, m, k)
           child == FileAt(d, m).children[k]
<1>1. m.path \in Seq(Projects) /\ Len(m.path) \in 1..MaxPath /\ m.names \in Seq(Parts) /\ m.prefix \in Seq(Parts) /\ m.above \in Seq(AllPaths)
      /\ m.path \in AllPaths
  BY PathsAre DEF MountSet, Names
<1>3. child \in Children /\ child.prefix # <<>>
  BY PartsOfNames
<1>4. k \in Parts
  BY PartsOfNames
<1>5. /\ x.names = Append(m.names, k) /\ x.above = Append(m.above, m.path)
      /\ x.path = PathOf(m.path, child) /\ x.prefix = m.prefix \o child.prefix
      /\ x = [names |-> x.names, path |-> x.path, prefix |-> x.prefix, above |-> x.above]
  BY DEF MountIn
<1>6. d[Last(x.path)] # Gone /\ Len(x.path) <= MaxPath
  BY DEF Present
<1> HIDE DEF x, child
<1>7. x.path \in Seq(Projects) /\ Len(x.path) >= 1 /\ Len(x.path) <= Len(m.path) + 1
  <2>1. child.project \in Projects
    BY <1>3 DEF Children
  <2>2. CASE child.abs
    <3>1. x.path = <<child.project>>
      BY <1>5, <2>2 DEF PathOf
    <3>2. QED BY <1>1, <2>1, <3>1
  <2>3. CASE ~child.abs
    <3>1. x.path = Append(m.path, child.project)
      BY <1>5, <2>3 DEF PathOf
    <3>2. QED BY <1>1, <2>1, <3>1
  <2>4. QED BY <2>2, <2>3
<1>8. x.path \in AllPaths
  BY <1>6, <1>7, PathsAre, ConfigTreeAssumption
<1>9. child.prefix \in Seq(Parts)
  BY <1>3 DEF Children, Names
<1>10. x.prefix \in Seq(Parts) /\ x.prefix # <<>>
  BY <1>1, <1>3, <1>5, <1>9, ConcatProperties, ConcatEqualIffEmpty
<1>11. x.names \in Seq(Parts) /\ Len(x.names) = Len(m.names) + 1
  BY <1>1, <1>4, <1>5
<1>12. x.above \in Seq(AllPaths) /\ Len(x.above) = Len(m.above) + 1
  BY <1>1, <1>5
<1>13. x \in MountSet
  BY <1>5, <1>8, <1>10, <1>11, <1>12 DEF MountSet, Names
<1>14. QED BY <1>3, <1>5, <1>6, <1>7, <1>10, <1>11, <1>12, <1>13 DEF x, child

\* A child of a relative directory was set out from where its parent was, any other at itself.
LEMMA ChildSetsOut ==
  ASSUME NEW d, IsDisk(d), NEW m \in MountSet, d[Last(m.path)] # Gone, SetsOut(m),
         NEW k \in DOMAIN FileAt(d, m).children, Present(d, MountIn(d, m, k).path)
  PROVE  SetsOut(MountIn(d, m, k))
<1> DEFINE x == MountIn(d, m, k)
           child == FileAt(d, m).children[k]
           n == Len(m.above) + 1
<1>1. x.path = PathOf(m.path, child) /\ x.above = Append(m.above, m.path) /\ child.project \in Projects
  BY ChildFacts DEF Children
<1>2. m.path \in Seq(Projects) /\ Len(m.path) \in Nat /\ Len(m.path) >= 1 /\ m.above \in Seq(AllPaths)
  BY PathsAre, ConfigTreeAssumption DEF MountSet
<1> HIDE DEF x, child
<1>3. n \in Nat /\ n >= 1 /\ Len(x.above) = n
  BY <1>1, <1>2
<1>4. \A i \in 1..n : OnWay(x, i) = OnWay(m, i)
  <2>1. ASSUME NEW i \in 1..n PROVE OnWay(x, i) = OnWay(m, i)
    <3>1. i # Len(x.above) + 1
      BY <1>3
    <3>2. CASE i = n
      BY <1>1, <1>2, <3>1, <3>2 DEF OnWay
    <3>3. CASE i # n
      <4>1. i \in 1..Len(m.above)
        BY <1>2, <3>3
      <4>2. x.above[i] = m.above[i]
        BY <1>1, <1>2, <4>1
      <4>3. QED BY <3>1, <3>3, <4>2 DEF OnWay
    <3>4. QED BY <3>2, <3>3
  <2>2. QED BY <2>1
<1>5. OnWay(x, n + 1) = x.path /\ OnWay(m, n) = m.path
  BY <1>3 DEF OnWay
<1>6. \A i \in 1..n : Len(OnWay(m, i)) \in Nat /\ Len(OnWay(m, i)) >= 1
  <2>1. \A p \in AllPaths : Len(p) \in Nat /\ Len(p) >= 1
    BY PathsAre, ConfigTreeAssumption
  <2>2. ASSUME NEW i \in 1..n PROVE OnWay(m, i) \in AllPaths
    <3>1. m.path \in AllPaths
      BY DEF MountSet
    <3>2. i # n => i \in 1..Len(m.above)
      BY <1>2
    <3>3. i # n => m.above[i] \in AllPaths
      BY <1>2, <3>2
    <3>4. QED BY <3>1, <3>3 DEF OnWay
  <2>3. QED BY <2>1, <2>2
<1>7. ASSUME NEW i \in 1..n
      PROVE  Len(OnWay(x, i)) <= i /\ OnWay(x, i - Len(OnWay(x, i)) + 1) = <<OnWay(x, i)[1]>>
  <2> DEFINE l == Len(OnWay(m, i))
             j == i - l + 1
  <2>1. l <= i /\ OnWay(m, j) = <<OnWay(m, i)[1]>>
    BY DEF SetsOut
  <2>2. l \in Nat /\ l >= 1
    BY <1>6
  <2> HIDE DEF l
  <2>3. j \in 1..n
    BY <1>3, <2>1, <2>2
  <2> HIDE DEF j
  <2>4. OnWay(x, i) = OnWay(m, i) /\ OnWay(x, j) = OnWay(m, j)
    BY <1>4, <2>3
  <2>5. QED BY <2>1, <2>4 DEF l, j
<1>8. Len(x.path) <= n + 1 /\ OnWay(x, (n + 1) - Len(x.path) + 1) = <<x.path[1]>>
  <2>1. CASE child.abs
    <3>1. x.path = <<child.project>>
      BY <1>1, <2>1 DEF PathOf
    <3>2. Len(x.path) = 1 /\ (n + 1) - 1 + 1 = n + 1 /\ 1 <= n + 1 /\ <<x.path[1]>> = x.path
      BY <1>3, <3>1
    <3>3. QED BY <1>5, <3>2
  <2>2. CASE ~child.abs
    <3> DEFINE l == Len(m.path)
    <3>1. x.path = Append(m.path, child.project)
      BY <1>1, <2>2 DEF PathOf
    <3>2. Len(x.path) = l + 1 /\ x.path[1] = m.path[1]
      BY <1>1, <1>2, <3>1
    <3>3. n \in 1..n
      BY <1>3
    <3>4. l <= n /\ OnWay(x, n - l + 1) = <<m.path[1]>>
      BY <1>4, <1>5, <1>7, <3>3
    <3> HIDE DEF l
    <3>5. (n + 1) - (l + 1) + 1 = n - l + 1 /\ l + 1 <= n + 1
      BY <1>2, <1>3, <3>4 DEF l
    <3>6. QED BY <3>2, <3>4, <3>5
  <2>3. QED BY <2>1, <2>2
<1>9. \A i \in 1..(Len(x.above)+1) : i \in 1..n \/ i = n + 1
  BY <1>3
<1>10. SetsOut(x)
  <2> HIDE DEF n
  <2>1. QED BY <1>5, <1>7, <1>8, <1>9 DEF SetsOut
<1>11. QED BY <1>10 DEF x

\* What holds on every level.
LEMMA LevelType ==
  ASSUME NEW d, IsDisk(d), d[Root] # Gone
  PROVE  \A n \in 0..MaxLevel : \A m \in Levels(d)[n] : AtLevel(d, n, m)
<1> DEFINE K == MaxLevel
           S == {n \in 0..K : \A m \in Levels(d)[n] : AtLevel(d, n, m)}
<1>1. K \in Nat
  BY LevelsAreFinite
<1>2. 0 \in S
  BY <1>1, LevelsSolved, RootFacts
<1>3. ASSUME NEW n \in 0..K, n < K, n \in S PROVE n + 1 \in S
  <2>1. n + 1 \in 1..K /\ (n + 1) - 1 = n
    BY <1>1, <1>3
  <2>2. Levels(d)[n+1] = NextLevel(d, Levels(d)[n])
    <3> HIDE DEF K
    <3>1. QED BY <2>1, LevelsSolved DEF K
  <2>3. ASSUME NEW x \in NextLevel(d, Levels(d)[n]) PROVE AtLevel(d, n + 1, x)
    <3>1. PICK m \in Levels(d)[n] : ~Contains(m.above, m.path) /\ x \in MountsIn(d, m)
      BY DEF NextLevel
    <3>2. PICK k \in DOMAIN FileAt(d, m).children : x = MountIn(d, m, k) /\ Present(d, x.path)
      BY <3>1 DEF MountsIn
    <3>3. AtLevel(d, n, m)
      BY <1>3
    <3>4. /\ x \in MountSet /\ x.names = Append(m.names, k) /\ x.above = Append(m.above, m.path)
          /\ x.prefix # <<>> /\ d[Last(x.path)] # Gone /\ Len(x.path) <= Len(m.path) + 1
          /\ Len(x.names) = Len(m.names) + 1 /\ Len(x.above) = Len(m.above) + 1
      BY <3>2, <3>3, ChildFacts DEF AtLevel
    <3>5. m.above \in Seq(AllPaths) /\ m.path \in AllPaths /\ Len(m.path) \in Nat /\ Len(x.path) \in Nat
      BY <3>3, <3>4, PathsAre DEF AtLevel, MountSet
    <3>6. IsInjective(x.above)
      <4>1. \A i \in 1..Len(m.above) : m.above[i] # m.path
        BY <3>1, <3>5 DEF Contains
      <4>2. \A i, j \in 1..Len(m.above) : m.above[i] = m.above[j] => i = j
        BY <3>3, <3>5 DEF AtLevel, IsInjective
      <4>3. DOMAIN x.above = 1..(Len(m.above)+1) /\ x.above[Len(m.above)+1] = m.path
            /\ \A i \in 1..Len(m.above) : x.above[i] = m.above[i]
        BY <3>4, <3>5
      <4>4. \A i \in 1..(Len(m.above)+1) : i \in 1..Len(m.above) \/ i = Len(m.above) + 1
        BY <3>5
      <4>5. QED BY <4>1, <4>2, <4>3, <4>4 DEF IsInjective
    <3>7. Len(x.path) <= (n + 1) + 1 /\ Len(x.above) = n + 1 /\ Len(x.names) = n + 1
      BY <3>3, <3>4, <3>5 DEF AtLevel
    <3>8. SetsOut(x)
      BY <3>1, <3>2, <3>3, ChildSetsOut DEF AtLevel
    <3>9. QED BY <3>4, <3>6, <3>7, <3>8 DEF AtLevel
  <2>4. QED BY <2>1, <2>2, <2>3
<1>4. \A n \in 0..K : n \in S
  <2> HIDE DEF S, K
  <2>1. QED BY <1>1, <1>2, <1>3, Upwards
<1>5. QED BY <1>4

\* A mount is on the level of its depth.
LEMMA MountType ==
  ASSUME NEW d, IsDisk(d), d[Root] # Gone
  PROVE  /\ RootMount \in MountsOf(d)
         /\ \A m \in MountsOf(d) : /\ AtLevel(d, Len(m.above), m) /\ Len(m.above) \in 0..MaxLevel
                                   /\ m \in Levels(d)[Len(m.above)]
<1> DEFINE K == MaxLevel
<1>1. K \in Nat
  BY LevelsAreFinite
<1>2. \A m : m \in MountsOf(d) <=> \E n \in 0..K : m \in Levels(d)[n]
  BY LevelsSolved DEF MountsOf
<1>3. RootMount \in MountsOf(d)
  BY <1>1, <1>2, LevelsSolved
<1>4. ASSUME NEW m \in MountsOf(d)
      PROVE  AtLevel(d, Len(m.above), m) /\ Len(m.above) \in 0..K /\ m \in Levels(d)[Len(m.above)]
  <2>1. PICK n \in 0..K : m \in Levels(d)[n]
    BY <1>2
  <2>2. AtLevel(d, n, m)
    BY <2>1, LevelType
  <2>3. Len(m.above) = n
    BY <2>2 DEF AtLevel
  <2>4. QED BY <2>1, <2>2, <2>3
<1>5. QED BY <1>3, <1>4

\* Any mount but the root is a child of one that is not below itself.
LEMMA MountIsIn ==
  ASSUME NEW d, IsDisk(d), d[Root] # Gone, NEW x \in MountsOf(d), Len(x.above) # 0
  PROVE  \E m \in MountsOf(d) : /\ ~Contains(m.above, m.path) /\ Len(m.above) = Len(x.above) - 1
                                /\ \E k \in DOMAIN FileAt(d, m).children : x = MountIn(d, m, k) /\ Present(d, x.path)
<1> DEFINE n == Len(x.above)
<1>1. n \in 1..MaxLevel /\ n - 1 \in 0..MaxLevel /\ x \in Levels(d)[n]
  <2>1. n \in 0..MaxLevel /\ x \in Levels(d)[n]
    BY MountType
  <2>2. QED BY <2>1, LevelsAreFinite
<1>2. x \in NextLevel(d, Levels(d)[n-1])
  BY <1>1, LevelsSolved
<1>3. PICK m \in Levels(d)[n-1] : ~Contains(m.above, m.path) /\ x \in MountsIn(d, m)
  BY <1>2 DEF NextLevel
<1>4. m \in MountsOf(d) /\ Len(m.above) = n - 1
  <2>1. m \in MountsOf(d)
    BY <1>1, <1>3, LevelsSolved DEF MountsOf
  <2>2. AtLevel(d, n - 1, m)
    BY <1>1, <1>3, LevelType
  <2>3. QED BY <2>1, <2>2 DEF AtLevel
<1>5. QED BY <1>3, <1>4 DEF MountsIn

\* No path is on the way twice, so a mount that is not below itself is not on the last level.
LEMMA MountsAreClosed ==
  ASSUME NEW d, IsDisk(d), d[Root] # Gone, NEW m \in MountsOf(d), ~Contains(m.above, m.path)
  PROVE  MountsIn(d, m) \subseteq MountsOf(d)
<1> DEFINE n == Len(m.above)
           K == MaxLevel
<1>1. AtLevel(d, n, m) /\ n \in 0..K /\ m \in Levels(d)[n] /\ K \in Nat
  BY MountType, LevelsAreFinite
<1>2. n < K
  <2> SUFFICES ASSUME n = K PROVE FALSE
    BY <1>1
  <2> DEFINE w(i) == OnWay(m, i)
             T == Projects \X (1..MaxPath)
             f == [i \in 1..(K+1) |-> <<w(i)[1], Len(w(i))>>]
  <2>1. m.above \in Seq(AllPaths) /\ m.path \in AllPaths /\ SetsOut(m)
    BY <1>1 DEF AtLevel, MountSet
  <2>2. \A i \in 1..(K+1) : w(i) \in Seq(Projects) /\ Len(w(i)) \in 1..MaxPath /\ Len(w(i)) \in Nat
    <3>1. ASSUME NEW i \in 1..(K+1) PROVE w(i) \in AllPaths
      <4>1. i # n + 1 => i \in 1..n
        BY <1>1
      <4>2. i # n + 1 => m.above[i] \in AllPaths
        BY <2>1, <4>1
      <4>3. QED BY <2>1, <4>2 DEF OnWay
    <3>2. QED BY <3>1, PathsAre, ConfigTreeAssumption
  <2>3. f \in [1..(K+1) -> T]
    <3>1. \A i \in 1..(K+1) : w(i)[1] \in Projects
      <4> HIDE DEF w
      <4>1. QED BY <2>2, ConfigTreeAssumption
    <3> HIDE DEF w
    <3>2. QED BY <2>2, <3>1
  <2>4. IsFiniteSet(1..(K+1)) /\ Cardinality(1..(K+1)) = K + 1
    BY <1>1, FS_Interval
  <2>5. PICK i, j \in 1..(K+1) : i # j /\ f[i] = f[j]
    <3>1. IsFiniteSet(T) /\ Cardinality(T) < Cardinality(1..(K+1))
      BY <1>1, <2>4, LevelsAreFinite
    <3> HIDE DEF f, T
    <3>2. QED BY <2>3, <2>4, <3>1, FS_PigeonHole
  <2>6. w(i)[1] = w(j)[1] /\ Len(w(i)) = Len(w(j))
    <3> HIDE DEF w
    <3>1. QED BY <2>5
  <2> DEFINE l == Len(w(i))
             a == i - l + 1
             b == j - l + 1
  <2>7. l <= i /\ l <= j /\ w(a) = w(b)
    BY <1>1, <2>1, <2>5, <2>6 DEF SetsOut
  <2>8. l \in Nat /\ l >= 1
    BY <2>2, ConfigTreeAssumption
  <2> HIDE DEF l
  <2>9. a \in 1..(K+1) /\ b \in 1..(K+1) /\ a # b
    BY <1>1, <2>5, <2>7, <2>8
  <2> HIDE DEF a, b
  <2>10. \A c \in 1..K : m.above[c] # m.path
    BY <1>1, <2>1 DEF Contains
  <2>11. \A c, e \in 1..K : m.above[c] = m.above[e] => c = e
    BY <1>1, <2>1 DEF AtLevel, IsInjective
  <2>12. \A c \in 1..(K+1) : (c \in 1..K /\ w(c) = m.above[c]) \/ (c = K + 1 /\ w(c) = m.path)
    BY <1>1 DEF OnWay
  <2> HIDE DEF w
  <2>13. QED BY <2>7, <2>9, <2>10, <2>11, <2>12
<1>3. n + 1 \in 1..K /\ n + 1 \in 0..K /\ (n + 1) - 1 = n
  BY <1>1, <1>2
<1>4. Levels(d)[n+1] = NextLevel(d, Levels(d)[n])
  <2> HIDE DEF n, K
  <2>1. QED BY <1>3, LevelsSolved DEF K
<1>5. MountsIn(d, m) \subseteq Levels(d)[n+1]
  BY <1>1, <1>4 DEF NextLevel
<1>6. QED BY <1>3, <1>5, LevelsSolved DEF MountsOf

\* Whatever holds the root, and with a mount its children, holds all mounts.
LEMMA MountsAreLeast ==
  ASSUME NEW d, IsDisk(d), d[Root] # Gone, NEW S, RootMount \in S,
         \A m \in MountsOf(d) : m \in S /\ ~Contains(m.above, m.path) => MountsIn(d, m) \subseteq S
  PROVE  MountsOf(d) \subseteq S
<1> DEFINE K == MaxLevel
           T == {n \in 0..K : Levels(d)[n] \subseteq S}
<1>1. K \in Nat
  BY LevelsAreFinite
<1>2. 0 \in T
  BY <1>1, LevelsSolved
<1>3. ASSUME NEW n \in 0..K, n < K, n \in T PROVE n + 1 \in T
  <2>1. n + 1 \in 1..K /\ n + 1 \in 0..K /\ (n + 1) - 1 = n
    BY <1>1, <1>3
  <2>2. Levels(d)[n+1] = NextLevel(d, Levels(d)[n])
    <3> HIDE DEF K
    <3>1. QED BY <2>1, LevelsSolved DEF K
  <2>3. Levels(d)[n] \subseteq MountsOf(d) /\ Levels(d)[n] \subseteq S
    BY <1>3, LevelsSolved DEF MountsOf
  <2>4. NextLevel(d, Levels(d)[n]) \subseteq S
    BY <2>3 DEF NextLevel
  <2>5. QED BY <2>1, <2>2, <2>4
<1>4. \A n \in 0..K : n \in T
  <2> HIDE DEF T, K
  <2>1. QED BY <1>1, <1>2, <1>3, Upwards
<1>5. QED BY <1>4, LevelsSolved DEF MountsOf

\* The names on the way tell a mount.
LEMMA NamesTell ==
  ASSUME NEW d, IsDisk(d), d[Root] # Gone
  PROVE  \A m, x \in MountsOf(d) : m.names = x.names => m = x
<1> DEFINE S == {m \in MountsOf(d) : \A x \in MountsOf(d) : m.names = x.names => m = x}
<1>1. \A m \in MountsOf(d) : /\ m \in MountSet /\ Len(m.names) = Len(m.above) /\ m.names \in Seq(Parts)
                             /\ Len(m.above) \in 0..MaxLevel /\ m \in Levels(d)[Len(m.above)]
                             /\ d[Last(m.path)] # Gone
  BY MountType DEF AtLevel, MountSet, Names
<1>2. RootMount \in S
  <2>1. ASSUME NEW x \in MountsOf(d), RootMount.names = x.names PROVE RootMount = x
    <3>1. Len(x.above) = 0
      BY <1>1, <2>1 DEF RootMount
    <3>2. QED BY <1>1, <3>1, LevelsSolved
  <2>2. QED BY <2>1, MountType
<1>3. ASSUME NEW m \in MountsOf(d), m \in S, ~Contains(m.above, m.path), NEW y \in MountsIn(d, m) PROVE y \in S
  <2>1. y \in MountsOf(d)
    BY <1>3, MountsAreClosed
  <2>2. PICK k \in DOMAIN FileAt(d, m).children : y = MountIn(d, m, k) /\ Present(d, y.path)
    BY <1>3 DEF MountsIn
  <2>3. y.names = Append(m.names, k) /\ Len(y.above) = Len(m.above) + 1
    BY <1>1, <2>2, ChildFacts
  <2>4. ASSUME NEW x \in MountsOf(d), y.names = x.names PROVE y = x
    <3>1. Len(x.above) # 0
      BY <1>1, <1>3, <2>1, <2>3, <2>4
    <3>2. PICK p \in MountsOf(d) : \E j \in DOMAIN FileAt(d, p).children : x = MountIn(d, p, j) /\ Present(d, x.path)
      BY <3>1, MountIsIn
    <3>3. PICK j \in DOMAIN FileAt(d, p).children : x = MountIn(d, p, j) /\ Present(d, x.path)
      BY <3>2
    <3>4. x.names = Append(p.names, j)
      <4>1. p \in MountSet /\ d[Last(p.path)] # Gone
        BY <1>1, <3>2
      <4>2. QED BY <3>3, <4>1, ChildFacts
    <3>5. p.names = m.names /\ j = k
      <4>1. p.names \in Seq(Parts) /\ m.names \in Seq(Parts) /\ j \in Parts /\ k \in Parts
        BY <1>1, <2>2, <3>2, <3>3, PartsOfNames
      <4>2. Append(m.names, k) = Append(p.names, j)
        BY <2>3, <2>4, <3>4
      <4>3. QED BY <4>1, <4>2, AppendInjective
    <3>6. p = m
      BY <1>3, <3>5
    <3>7. QED BY <2>2, <3>3, <3>5, <3>6
  <2>5. QED BY <2>1, <2>4
<1>4. MountsOf(d) \subseteq S
  <2> HIDE DEF S
  <2>1. QED BY <1>2, <1>3, MountsAreLeast
<1>5. QED BY <1>4

-----------------------------------------------------------------------------
(* The steps of a walk *)

Flats == UNION {[D -> Projects \X Names] : D \in SUBSET Names}
Openings == [names : Names, path : Seq(Projects), prefix : Names, mount : Names]
Frames == [names : Names, path : Seq(Projects), prefix : Names, mount : Names, config : Configs,
           todo : SUBSET ToSet(ChildOrder), flat : Flats]
Rows == [name : Names, of : Projects \X Names, under : Names]
Marks == [phase : {"validate", "merge"}, names : Names, path : Seq(Projects), prefix : Names]
Reasons == {"", "missing", "cycle", "depth", "width", "reserved", "prefix"}
Walks ==
  [phase : {"idle", "validate", "merge", "loaded", "refused"}, reason : Reasons, entering : Openings, stack : Seq(Frames),
   seen : SUBSET Seq(Projects), depthCap : Nat, widthCap : Nat, prefixes : SUBSET Names, orchestrators : SUBSET Names,
   spaces : SUBSET Names, mounts : SUBSET Marks, flat : Flats, tree : SUBSET Rows]

FrameOK(f) == f.path # <<>> /\ f.todo \subseteq DOMAIN f.config.children

RootEntry == [NoEntry EXCEPT !.path = <<Root>>]

TreeTypes ==
  /\ files = [p \in Projects |-> files[p]] /\ IsDisk(files)
  /\ walk \in Walks /\ edits \in Nat
  /\ \A i \in 1..Len(walk.stack) : FrameOK(walk.stack[i])
  /\ walk.phase = "idle" => walk = NoWalk
  /\ walk.entering # NoEntry => walk.entering.path # <<>>
  /\ Walking /\ walk.stack = <<>> => walk.entering = RootEntry

\* Where the walk is: about to read a file, at a child, or done with the children.
Reading == Walking /\ walk.entering # NoEntry
Looping == Walking /\ walk.entering = NoEntry /\ walk.stack # <<>> /\ Top.todo # {}
Returning == Walking /\ walk.entering = NoEntry /\ walk.stack # <<>> /\ Top.todo = {}

Kid == FirstChild(Top.todo)
KidConfig == Top.config.children[Kid]
KidPrefix == Top.prefix \o KidConfig.prefix
KidPath == PathOf(Top.path, KidConfig)
KidEntry == [names |-> Append(Top.names, Kid), path |-> KidPath, prefix |-> KidPrefix, mount |-> KidConfig.prefix]

Begun ==
  [walk EXCEPT !.phase = "validate", !.entering.path = <<Root>>,
               !.depthCap = Local(files[Root]).depth, !.widthCap = Local(files[Root]).width,
               !.orchestrators = IF Local(files[Root]).root THEN {<<Orchestrator>>} ELSE {}]
Skipped == [walk EXCEPT !.stack = Append(Below, [Top EXCEPT !.todo = @ \ {Kid}])]
Claimed ==
  [Skipped EXCEPT !.entering = KidEntry,
                  !.prefixes = IF Validating THEN @ \union {KidPrefix} ELSE @,
                  !.orchestrators = IF Validating THEN @ \union {SessionName(KidPrefix)} ELSE @]
Up == [walk EXCEPT !.seen = @ \ {Top.path}, !.stack = Below]
Popped == [Up EXCEPT !.stack = Append(Front(Below), [Last(Below) EXCEPT !.flat = MergedInto(@, Top)])]
Again == [Up EXCEPT !.phase = "merge", !.entering = RootEntry, !.seen = {}]
Done == [Up EXCEPT !.phase = "loaded", !.flat = Top.flat]

Here == Last(walk.entering.path)
Content == Local(files[Here])

\* Why a walk may end with an error.
Reason ==
  \/ walk.phase = "idle" /\ files[Root] = Gone
  \/ /\ Reading
     /\ \/ walk.entering.path \in walk.seen \/ TooDeep
        \/ files[Here] = Gone /\ walk.stack = <<>>
        \/ files[Here] # Gone /\ (TooWide(Content) \/ Reserved(Content))
  \/ /\ Looping /\ Validating /\ Present(files, KidPath)
     /\ KidPrefix \in walk.prefixes \/ SessionName(KidPrefix) \in walk.spaces

Stopped == \E r \in Reasons : Refuse(r)

\* What a step of the walk does, and when.
BeginStep == walk.phase = "idle" /\ files[Root] # Gone /\ walk' = Begun
StopStep == Reason /\ Stopped
DropStep == Reading /\ files[Here] = Gone /\ walk.stack # <<>> /\ walk' = Unclaimed(walk.entering)
EnterStep ==
  /\ Reading /\ walk.entering.path \notin walk.seen /\ ~TooDeep /\ files[Here] # Gone
  /\ ~TooWide(Content) /\ ~Reserved(Content) /\ walk' = Entered(walk.entering, Here, Content)
SkipStep == Looping /\ ~Present(files, KidPath) /\ walk' = Skipped
ClaimStep ==
  /\ Looping /\ Present(files, KidPath) /\ walk' = Claimed
  /\ Validating => KidPrefix \notin walk.prefixes /\ SessionName(KidPrefix) \notin walk.spaces
PopStep == Returning /\ Below # <<>> /\ walk' = Popped
AgainStep == Returning /\ Below = <<>> /\ Validating /\ walk' = Again
DoneStep == Returning /\ Below = <<>> /\ ~Validating /\ walk' = Done

WalkStep ==
  \/ BeginStep \/ StopStep \/ DropStep \/ EnterStep \/ SkipStep \/ ClaimStep \/ PopStep \/ AgainStep \/ DoneStep

LEMMA LoadIs ==
  ASSUME Load
  PROVE  WalkStep /\ files' = files /\ edits' = edits /\ loader' = loader /\ cfg' = cfg
<1>1. CASE Start
  <2>1. files' = files /\ edits' = edits /\ loader' = loader /\ cfg' = cfg /\ walk.phase = "idle"
    BY <1>1 DEF Start
  <2>2. CASE files[Root] = Gone
    <3>1. Stopped
      <4>1. Refuse("missing")
        BY <1>1, <2>2 DEF Start
      <4>2. QED BY <4>1 DEF Stopped, Reasons
    <3>2. QED BY <2>1, <2>2, <3>1 DEF WalkStep, StopStep, Reason
  <2>3. CASE files[Root] # Gone
    <3>1. walk' = Begun
      BY <1>1, <2>3 DEF Start, Begun
    <3>2. QED BY <2>1, <2>3, <3>1 DEF WalkStep, BeginStep
  <2>4. QED BY <2>2, <2>3
<1>2. CASE ReadFile
  <2> DEFINE e == walk.entering
  <2>1. files' = files /\ edits' = edits /\ loader' = loader /\ cfg' = cfg /\ Reading
    BY <1>2 DEF ReadFile, Reading
  <2>2. CASE e.path \in walk.seen
    <3>1. Stopped
      <4>1. Refuse("cycle")
        BY <1>2, <2>2 DEF ReadFile
      <4>2. QED BY <4>1 DEF Stopped, Reasons
    <3>2. QED BY <2>1, <2>2, <3>1 DEF WalkStep, StopStep, Reason
  <2>3. CASE e.path \notin walk.seen /\ TooDeep
    <3>1. Stopped
      <4>1. Refuse("depth")
        BY <1>2, <2>3 DEF ReadFile
      <4>2. QED BY <4>1 DEF Stopped, Reasons
    <3>2. QED BY <2>1, <2>3, <3>1 DEF WalkStep, StopStep, Reason
  <2>4. CASE e.path \notin walk.seen /\ ~TooDeep /\ files[Here] = Gone
    <3>1. IF walk.stack = <<>> THEN Refuse("missing") ELSE walk' = Unclaimed(e)
      BY <1>2, <2>4 DEF ReadFile, Here
    <3>2. CASE walk.stack = <<>>
      <4>1. Stopped
        <5>1. Refuse("missing")
          BY <3>1, <3>2
        <5>2. QED BY <5>1 DEF Stopped, Reasons
      <4>2. QED BY <2>1, <2>4, <3>2, <4>1 DEF WalkStep, StopStep, Reason
    <3>3. CASE walk.stack # <<>>
      BY <2>1, <2>4, <3>1, <3>3 DEF WalkStep, DropStep
    <3>4. QED BY <3>2, <3>3
  <2>5. CASE e.path \notin walk.seen /\ ~TooDeep /\ files[Here] # Gone
    <3>1. (CASE TooWide(Content) -> Refuse("width")
             [] ~TooWide(Content) /\ Reserved(Content) -> Refuse("reserved")
             [] OTHER -> walk' = Entered(e, Here, Content))
      BY <1>2, <2>5 DEF ReadFile, Here, Content
    <3>2. CASE TooWide(Content)
      <4>1. Stopped
        <5>1. Refuse("width")
          BY <3>1, <3>2
        <5>2. QED BY <5>1 DEF Stopped, Reasons
      <4>2. QED BY <2>1, <2>5, <3>2, <4>1 DEF WalkStep, StopStep, Reason
    <3>3. CASE ~TooWide(Content) /\ Reserved(Content)
      <4>1. Stopped
        <5>1. Refuse("reserved")
          BY <3>1, <3>3
        <5>2. QED BY <5>1 DEF Stopped, Reasons
      <4>2. QED BY <2>1, <2>5, <3>3, <4>1 DEF WalkStep, StopStep, Reason
    <3>4. CASE ~TooWide(Content) /\ ~Reserved(Content)
      <4>1. walk' = Entered(e, Here, Content)
        BY <3>1, <3>4
      <4>2. QED BY <2>1, <2>5, <3>4, <4>1 DEF WalkStep, EnterStep
    <3>5. QED BY <3>2, <3>3, <3>4
  <2>6. QED BY <2>2, <2>3, <2>4, <2>5
<1>3. CASE NextChild
  <2> DEFINE there == Present(files, KidPath)
             session == SessionName(KidPrefix)
  <2>1. files' = files /\ edits' = edits /\ loader' = loader /\ cfg' = cfg /\ Looping
    BY <1>3 DEF NextChild, Looping
  <2>2. CASE ~there
    <3>1. walk' = Skipped
      BY <1>3, <2>2 DEF NextChild, Skipped, KidPath, KidConfig, Kid
    <3>2. QED BY <2>1, <2>2, <3>1 DEF WalkStep, SkipStep
  <2>3. CASE there /\ Validating /\ KidPrefix \in walk.prefixes
    <3>1. Stopped
      <4>1. Refuse("prefix")
        BY <1>3, <2>3 DEF NextChild, KidPath, KidConfig, Kid, KidPrefix
      <4>2. QED BY <4>1 DEF Stopped, Reasons
    <3>2. QED BY <2>1, <2>3, <3>1 DEF WalkStep, StopStep, Reason
  <2>4. CASE there /\ Validating /\ KidPrefix \notin walk.prefixes /\ session \in walk.spaces
    <3>1. Stopped
      <4>1. Refuse("reserved")
        BY <1>3, <2>4 DEF NextChild, KidPath, KidConfig, Kid, KidPrefix
      <4>2. QED BY <4>1 DEF Stopped, Reasons
    <3>2. QED BY <2>1, <2>4, <3>1 DEF WalkStep, StopStep, Reason
  <2>5. CASE there /\ (Validating => KidPrefix \notin walk.prefixes /\ session \notin walk.spaces)
    <3>1. walk' = Claimed
      BY <1>3, <2>5 DEF NextChild, KidPath, KidConfig, Kid, KidPrefix, Claimed, Skipped, KidEntry
    <3>2. QED BY <2>1, <2>5, <3>1 DEF WalkStep, ClaimStep
  <2>6. QED BY <2>2, <2>3, <2>4, <2>5
<1>4. CASE Return
  <2>1. files' = files /\ edits' = edits /\ loader' = loader /\ cfg' = cfg /\ Returning
    BY <1>4 DEF Return, Returning
  <2>2. CASE Below # <<>>
    <3>1. walk' = Popped
      BY <1>4, <2>2 DEF Return, Popped, Up
    <3>2. QED BY <2>1, <2>2, <3>1 DEF WalkStep, PopStep
  <2>3. CASE Below = <<>> /\ Validating
    <3>1. walk' = Again
      BY <1>4, <2>3 DEF Return, Again, Up, RootEntry
    <3>2. QED BY <2>1, <2>3, <3>1 DEF WalkStep, AgainStep
  <2>4. CASE Below = <<>> /\ ~Validating
    <3>1. walk' = Done
      BY <1>4, <2>4 DEF Return, Done, Up
    <3>2. QED BY <2>1, <2>4, <3>1 DEF WalkStep, DoneStep
  <2>5. QED BY <2>2, <2>3, <2>4
<1>5. QED BY <1>1, <1>2, <1>3, <1>4 DEF Load

\* The last of a sequence is taken off or replaced.
LEMMA LastFacts ==
  ASSUME NEW S, NEW s \in Seq(S), s # <<>>
  PROVE  /\ Len(s) \in Nat /\ Len(s) >= 1 /\ Last(s) = s[Len(s)] /\ Last(s) \in S
         /\ Front(s) \in Seq(S) /\ Len(Front(s)) = Len(s) - 1 /\ \A i \in 1..(Len(s)-1) : Front(s)[i] = s[i]
         /\ \A x \in S : LET t == Append(Front(s), x)
                         IN  t \in Seq(S) /\ Len(t) = Len(s) /\ t[Len(s)] = x /\ \A i \in 1..(Len(s)-1) : t[i] = s[i]
<1>1. Len(s) \in Nat /\ Len(s) >= 1
  BY EmptySeq
<1>2. Last(s) = s[Len(s)] /\ Last(s) \in S
  BY <1>1 DEF Last
<1>3. Front(s) \in Seq(S) /\ Len(Front(s)) = Len(s) - 1 /\ \A i \in 1..(Len(s)-1) : Front(s)[i] = s[i]
  <2>1. \A i \in 1..(Len(s)-1) : s[i] \in S
    BY <1>1
  <2>2. Front(s) = SubSeq(s, 1, Len(s) - 1)
    BY DEF Front
  <2>3. /\ SubSeq(s, 1, Len(s)-1) \in Seq(S)
        /\ Len(SubSeq(s, 1, Len(s)-1)) = IF 1 <= Len(s)-1 THEN (Len(s)-1)-1+1 ELSE 0
        /\ \A i \in 1..((Len(s)-1)-1+1) : SubSeq(s, 1, Len(s)-1)[i] = s[1+i-1]
    BY <1>1, <2>1, SubSeqProperties
  <2>4. Len(Front(s)) = Len(s) - 1
    <3> DEFINE f == Front(s)
               n == Len(s) - 1
    <3>1. n \in Nat /\ Len(f) = IF 1 <= n THEN n - 1 + 1 ELSE 0
      BY <1>1, <2>2, <2>3
    <3> HIDE DEF f, n
    <3>2. Len(f) = n
      BY <3>1
    <3>3. QED BY <3>2 DEF f, n
  <2>5. \A i \in 1..(Len(s)-1) : i \in 1..((Len(s)-1)-1+1) /\ 1+i-1 = i
    BY <1>1
  <2>6. QED BY <2>2, <2>3, <2>4, <2>5
<1>4. ASSUME NEW x \in S
      PROVE  LET t == Append(Front(s), x)
             IN  t \in Seq(S) /\ Len(t) = Len(s) /\ t[Len(s)] = x /\ \A i \in 1..(Len(s)-1) : t[i] = s[i]
  <2> DEFINE f == Front(s)
             t == Append(f, x)
  <2> HIDE DEF f
  <2>1. /\ t \in Seq(S) /\ Len(t) = Len(f) + 1 /\ t[Len(f)+1] = x
        /\ \A i \in 1..Len(f) : t[i] = f[i]
    BY <1>3, AppendProperties DEF f
  <2> HIDE DEF t
  <2>2. QED BY <1>1, <1>3, <2>1 DEF f, t
<1>5. QED BY <1>1, <1>2, <1>3, <1>4

\* The first child left is one of them.
LEMMA FirstChildFacts ==
  ASSUME NEW todo \in SUBSET ToSet(ChildOrder), todo # {}
  PROVE  FirstChild(todo) \in todo
<1> DEFINE I == {i \in DOMAIN ChildOrder : ChildOrder[i] \in todo}
<1>1. I \in SUBSET Nat /\ I # {}
  <2>1. DOMAIN ChildOrder = 1..Len(ChildOrder) /\ Len(ChildOrder) \in Nat
    BY ConfigTreeAssumption
  <2>2. QED BY <2>1 DEF ToSet
<1>2. PICK x \in I : \A y \in I : x <= y
  <2> HIDE DEF I
  <2>1. QED BY <1>1, SmallestNumber
<1>3. Min(I) \in I
  <2> HIDE DEF I
  <2>1. QED BY <1>2 DEF Min
<1>4. FirstChild(todo) = ChildOrder[Min(I)]
  BY DEF FirstChild
<1>5. QED BY <1>3, <1>4

\* What each step leaves, field by field.
LEMMA BegunIs ==
  ASSUME TreeTypes, walk.phase = "idle", files[Root] # Gone
  PROVE  /\ Begun \in Walks /\ Begun.phase = "validate" /\ Begun.entering = RootEntry /\ Begun.stack = <<>>
         /\ Begun.seen = {} /\ Begun.prefixes = {} /\ Begun.spaces = {} /\ Begun.mounts = {} /\ Begun.tree = {}
         /\ Begun.depthCap = Local(files[Root]).depth /\ Begun.widthCap = Local(files[Root]).width
         /\ Begun.orchestrators = IF Local(files[Root]).root THEN {<<Orchestrator>>} ELSE {}
<1> DEFINE c == Local(files[Root])
           o == IF c.root THEN {<<Orchestrator>>} ELSE {}
<1>1. walk = NoWalk /\ walk \in Walks
  BY DEF TreeTypes
<1>2. c \in Configs
  BY LocalFacts, ConfigTreeAssumption DEF TreeTypes, IsDisk
<1>3. c.depth \in Nat /\ c.width \in Nat /\ o \in SUBSET Names
  <2>1. <<Orchestrator>> \in Names
    BY ConfigTreeAssumption DEF Names
  <2>2. QED BY <1>2, <2>1 DEF Configs
<1>4. [walk.entering EXCEPT !.path = <<Root>>] = RootEntry
  BY <1>1 DEF NoWalk, RootEntry
<1>5. RootEntry \in Openings
  <2>1. <<>> \in Names /\ <<Root>> \in Seq(Projects)
    BY ConfigTreeAssumption DEF Names
  <2>2. QED BY <2>1 DEF RootEntry, NoEntry, Openings
<1> HIDE DEF c, o
<1>6. Begun = [walk EXCEPT !.phase = "validate", !.entering = RootEntry, !.depthCap = c.depth, !.widthCap = c.width,
                           !.orchestrators = o]
  BY <1>1, <1>4 DEF Begun, c, o, Walks
<1> HIDE DEF RootEntry
<1>7. Begun \in Walks
  BY <1>1, <1>3, <1>5, <1>6 DEF Walks
<1>8. QED BY <1>1, <1>6, <1>7 DEF NoWalk, c, o

LEMMA StoppedIs ==
  ASSUME TreeTypes, Stopped
  PROVE  /\ walk' \in Walks /\ walk'.phase = "refused" /\ walk'.mounts = walk.mounts
         /\ walk'.stack = walk.stack /\ walk'.entering = walk.entering /\ walk'.depthCap = walk.depthCap
<1>1. PICK r \in Reasons : walk' = [walk EXCEPT !.phase = "refused", !.reason = r]
  BY DEF Stopped, Refuse
<1>2. walk \in Walks
  BY DEF TreeTypes
<1>3. QED BY <1>1, <1>2 DEF Walks

LEMMA NoEntryIs == NoEntry \in Openings /\ NoEntry.path = <<>> /\ NoEntry.prefix = <<>>
<1>1. <<>> \in Names /\ <<>> \in Seq(Projects)
  BY DEF Names
<1>2. QED BY <1>1 DEF NoEntry, Openings

LEMMA RootEntryIs ==
  /\ RootEntry \in Openings /\ RootEntry.path = <<Root>> /\ RootEntry.prefix = <<>> /\ RootEntry.names = <<>>
  /\ RootEntry # NoEntry /\ RootEntry.path # <<>>
<1>1. <<>> \in Names /\ <<Root>> \in Seq(Projects) /\ <<Root>> # <<>>
  BY ConfigTreeAssumption DEF Names
<1>2. QED BY <1>1 DEF RootEntry, NoEntry, Openings

LEMMA UnclaimedIs ==
  ASSUME TreeTypes
  PROVE  LET w == Unclaimed(walk.entering)
         IN  /\ w \in Walks /\ w.phase = walk.phase /\ w.entering = NoEntry /\ w.stack = walk.stack
             /\ w.mounts = walk.mounts /\ w.tree = walk.tree /\ w.depthCap = walk.depthCap
             /\ w.prefixes = walk.prefixes \ {walk.entering.prefix}
             /\ w.orchestrators = walk.orchestrators \ {SessionName(walk.entering.prefix)}
<1> DEFINE sn == SessionName(walk.entering.prefix)
           w == [walk EXCEPT !.seen = @ \union {walk.entering.path}, !.entering = NoEntry,
                             !.prefixes = @ \ {walk.entering.prefix}, !.orchestrators = @ \ {sn}]
<1>1. Unclaimed(walk.entering) = w
  BY DEF Unclaimed
<1>2. walk \in Walks /\ NoEntry \in Openings
  BY NoEntryIs DEF TreeTypes
<1>3. walk.entering.path \in Seq(Projects)
  BY <1>2 DEF Walks, Openings
<1> HIDE DEF sn, NoEntry
<1>4. w \in Walks
  BY <1>2, <1>3 DEF Walks
<1>5. QED BY <1>1, <1>2, <1>4 DEF Walks, sn

NewFrame(e, p, c) ==
  [names |-> e.names, path |-> e.path, prefix |-> e.prefix, mount |-> e.mount, config |-> c,
   todo |-> DOMAIN c.children, flat |-> [n \in c.spaces |-> <<p, n>>]]

\* The file that is read.
LEMMA ContentIs ==
  ASSUME TreeTypes, walk.entering # NoEntry, files[Here] # Gone
  PROVE  /\ Here \in Projects /\ Content \in Configs /\ walk.entering \in Openings /\ walk.entering.path # <<>>
         /\ DOMAIN Content.children \subseteq ToSet(ChildOrder) /\ Content.spaces \in SUBSET Names
         /\ NewFrame(walk.entering, Here, Content) \in Frames
         /\ FrameOK(NewFrame(walk.entering, Here, Content))
<1>1. walk.entering \in Openings /\ walk.entering.path # <<>>
  BY DEF TreeTypes, Walks
<1>2. Here \in Projects
  <2>1. walk.entering.path \in Seq(Projects)
    BY <1>1 DEF Openings
  <2>2. QED BY <1>1, <2>1, LastFacts DEF Here
<1>3. Content \in Configs /\ DOMAIN Content.children \subseteq ToSet(ChildOrder)
  BY <1>2, LocalFacts DEF Content, TreeTypes, IsDisk
<1>4. Content.spaces \in SUBSET Names
  BY <1>3 DEF Configs
<1> DEFINE flat == [n \in Content.spaces |-> <<Here, n>>]
<1> HIDE DEF Content, Here
<1>5. flat \in Flats
  <2>1. flat \in [Content.spaces -> Projects \X Names]
    BY <1>2, <1>4
  <2> HIDE DEF flat
  <2>2. QED BY <1>4, <2>1 DEF Flats
<1>6. NewFrame(walk.entering, Here, Content) \in Frames
  <2> HIDE DEF flat
  <2>1. NewFrame(walk.entering, Here, Content) =
          [names |-> walk.entering.names, path |-> walk.entering.path, prefix |-> walk.entering.prefix,
           mount |-> walk.entering.mount, config |-> Content, todo |-> DOMAIN Content.children, flat |-> flat]
    BY DEF NewFrame, flat
  <2>2. QED BY <1>1, <1>3, <1>5, <2>1 DEF Openings, Frames
<1>7. FrameOK(NewFrame(walk.entering, Here, Content))
  BY <1>1 DEF FrameOK, NewFrame
<1>8. QED BY <1>1, <1>2, <1>3, <1>4, <1>6, <1>7

LEMMA EnteredIs ==
  ASSUME TreeTypes, Walking, walk.entering # NoEntry, files[Here] # Gone
  PROVE  LET e == walk.entering
             w == Entered(e, Here, Content)
         IN  /\ w \in Walks /\ w.phase = walk.phase /\ w.entering = NoEntry /\ w.seen = walk.seen \union {e.path}
             /\ w.stack = Append(walk.stack, NewFrame(e, Here, Content))
             /\ w.mounts = walk.mounts \union {[phase |-> walk.phase, names |-> e.names, path |-> e.path, prefix |-> e.prefix]}
             /\ w.spaces = IF Validating THEN walk.spaces \union {e.prefix \o n : n \in Content.spaces} ELSE walk.spaces
             /\ w.tree = IF Validating THEN walk.tree
                         ELSE walk.tree \union {[name |-> e.prefix \o n, of |-> <<Here, n>>, under |-> e.prefix] : n \in Content.spaces}
             /\ w.depthCap = walk.depthCap /\ w.widthCap = walk.widthCap /\ w.prefixes = walk.prefixes
             /\ w.orchestrators = walk.orchestrators
<1> DEFINE e == walk.entering
           frame == NewFrame(e, Here, Content)
           mark == [phase |-> walk.phase, names |-> e.names, path |-> e.path, prefix |-> e.prefix]
           names == {e.prefix \o n : n \in Content.spaces}
           rows == {[name |-> e.prefix \o n, of |-> <<Here, n>>, under |-> e.prefix] : n \in Content.spaces}
           w == [walk EXCEPT !.seen = @ \union {e.path}, !.entering = NoEntry, !.stack = Append(@, frame),
                             !.mounts = @ \union {mark},
                             !.spaces = IF Validating THEN @ \union names ELSE @,
                             !.tree = IF Validating THEN @ ELSE @ \union rows]
<1>1. Entered(e, Here, Content) = w
  BY DEF Entered, NewFrame
<1>2. walk \in Walks /\ NoEntry \in Openings /\ walk.phase \in {"validate", "merge"}
  BY NoEntryIs DEF TreeTypes, Walking
<1>3. Here \in Projects /\ Content \in Configs /\ e \in Openings /\ frame \in Frames /\ Content.spaces \in SUBSET Names
  BY ContentIs
<1> HIDE DEF frame, NoEntry, Content, Here
<1>4. mark \in Marks /\ e.path \in Seq(Projects)
  BY <1>2, <1>3 DEF Marks, Openings
<1>5. \A n \in Content.spaces : n \in Names /\ e.prefix \o n \in Names
  BY <1>3, ConcatProperties DEF Openings, Names
<1>6. names \in SUBSET Names /\ rows \in SUBSET Rows
  <2>1. \A n \in Content.spaces : [name |-> e.prefix \o n, of |-> <<Here, n>>, under |-> e.prefix] \in Rows
    BY <1>3, <1>5 DEF Rows, Openings
  <2>2. QED BY <1>5, <2>1
<1>7. Append(walk.stack, frame) \in Seq(Frames)
  BY <1>2, <1>3, AppendProperties DEF Walks
<1> HIDE DEF mark, names, rows
<1>8. w \in Walks
  BY <1>2, <1>4, <1>6, <1>7 DEF Walks
<1>9. /\ w.phase = walk.phase /\ w.entering = NoEntry /\ w.seen = walk.seen \union {e.path}
      /\ w.stack = Append(walk.stack, frame) /\ w.mounts = walk.mounts \union {mark}
      /\ w.spaces = IF Validating THEN walk.spaces \union names ELSE walk.spaces
      /\ w.tree = IF Validating THEN walk.tree ELSE walk.tree \union rows
      /\ w.depthCap = walk.depthCap /\ w.widthCap = walk.widthCap /\ w.prefixes = walk.prefixes
      /\ w.orchestrators = walk.orchestrators
  BY <1>2 DEF Walks
<1> HIDE DEF w, e
<1>10. QED BY <1>1, <1>8, <1>9 DEF frame, mark, names, rows, e

\* The frame on top, and the child it is at.
LEMMA TopIs ==
  ASSUME TreeTypes, walk.stack # <<>>
  PROVE  /\ Top \in Frames /\ Top = walk.stack[Len(walk.stack)] /\ FrameOK(Top) /\ Len(walk.stack) \in Nat /\ Len(walk.stack) >= 1
         /\ Below \in Seq(Frames) /\ Len(Below) = Len(walk.stack) - 1 /\ \A i \in 1..(Len(walk.stack)-1) : Below[i] = walk.stack[i]
<1>1. walk.stack \in Seq(Frames)
  BY DEF TreeTypes, Walks
<1> DEFINE st == walk.stack
<1> HIDE DEF st
<1>2. /\ Len(st) \in Nat /\ Len(st) >= 1 /\ Last(st) = st[Len(st)] /\ Last(st) \in Frames
      /\ Front(st) \in Seq(Frames) /\ Len(Front(st)) = Len(st) - 1 /\ \A i \in 1..(Len(st)-1) : Front(st)[i] = st[i]
  <2>1. st \in Seq(Frames) /\ st # <<>>
    BY <1>1 DEF st
  <2>2. QED BY <2>1, LastFacts
<1>3. FrameOK(st[Len(st)])
  BY <1>2 DEF TreeTypes, st
<1>4. Top = Last(st) /\ Below = Front(st)
  BY DEF Top, Below, st
<1>5. QED BY <1>2, <1>3, <1>4 DEF st

LEMMA KidIs ==
  ASSUME TreeTypes, walk.stack # <<>>, Top.todo # {}
  PROVE  /\ Kid \in Top.todo /\ Kid \in DOMAIN Top.config.children /\ Kid \in Parts /\ KidConfig \in Children
         /\ KidEntry \in Openings /\ KidEntry.path # <<>>
         /\ KidPath \in Seq(Projects) /\ KidPrefix \in Names /\ SessionName(KidPrefix) \in Names
<1>1. Top \in Frames /\ FrameOK(Top)
  BY TopIs
<1>2. Kid \in Top.todo /\ Kid \in ToSet(ChildOrder) /\ Kid \in DOMAIN Top.config.children
  <2>1. Top.todo \in SUBSET ToSet(ChildOrder)
    BY <1>1 DEF Frames
  <2>2. QED BY <1>1, <2>1, FirstChildFacts DEF Kid, FrameOK
<1>3. Kid \in Parts
  BY <1>2, ChildNamesAreParts
<1>4. KidConfig \in Children
  <2>1. Top.config.children \in ChildMaps
    BY <1>1 DEF Frames, Configs
  <2> DEFINE ch == Top.config.children
  <2> HIDE DEF ch
  <2>2. PICK D \in SUBSET ToSet(ChildOrder) : ch \in [D -> Children]
    BY <2>1 DEF ChildMaps, ch
  <2>3. ch[Kid] \in Children
    BY <1>2, <2>2 DEF ch
  <2>4. QED BY <2>3 DEF KidConfig, ch
<1>5. Top.path \in Seq(Projects) /\ Top.prefix \in Names /\ Top.names \in Names /\ KidConfig.prefix \in Names
      /\ KidConfig.project \in Projects
  BY <1>1, <1>4 DEF Frames, Children
<1>6. KidPath \in Seq(Projects) /\ KidPath # <<>>
  <2>1. CASE KidConfig.abs
    <3>1. KidPath = <<KidConfig.project>>
      BY <2>1 DEF KidPath, PathOf
    <3>2. QED BY <1>5, <3>1
  <2>2. CASE ~KidConfig.abs
    <3>1. KidPath = Append(Top.path, KidConfig.project)
      BY <2>2 DEF KidPath, PathOf
    <3>2. QED BY <1>5, <3>1, AppendProperties
  <2>3. QED BY <2>1, <2>2
<1>7. KidPrefix \in Names
  BY <1>5, ConcatProperties DEF KidPrefix, Names
<1>8. SessionName(KidPrefix) \in Names
  BY <1>7, AppendProperties, ConfigTreeAssumption DEF SessionName, Names
<1>9. Append(Top.names, Kid) \in Names
  BY <1>3, <1>5, AppendProperties DEF Names
<1>10. KidEntry \in Openings /\ KidEntry.path = KidPath
  BY <1>5, <1>6, <1>7, <1>9 DEF KidEntry, Openings
<1>11. QED BY <1>2, <1>3, <1>4, <1>6, <1>7, <1>8, <1>10

LEMMA SkippedIs ==
  ASSUME TreeTypes, walk.stack # <<>>
  PROVE  LET s == Skipped.stack
             n == Len(walk.stack)
         IN  /\ Skipped \in Walks /\ Len(s) = n /\ \A i \in 1..(n-1) : s[i] = walk.stack[i]
             /\ s[n] = [Top EXCEPT !.todo = @ \ {Kid}] /\ s[n] \in Frames
             /\ Skipped.phase = walk.phase /\ Skipped.entering = walk.entering /\ Skipped.seen = walk.seen
             /\ Skipped.mounts = walk.mounts /\ Skipped.spaces = walk.spaces /\ Skipped.tree = walk.tree
             /\ Skipped.depthCap = walk.depthCap /\ Skipped.widthCap = walk.widthCap
             /\ Skipped.prefixes = walk.prefixes /\ Skipped.orchestrators = walk.orchestrators
<1> DEFINE x == [Top EXCEPT !.todo = @ \ {Kid}]
           s == Append(Below, x)
           n == Len(walk.stack)
<1>1. Skipped = [walk EXCEPT !.stack = s] /\ walk \in Walks /\ walk.stack \in Seq(Frames)
  BY DEF Skipped, TreeTypes, Walks
<1>2. x \in Frames
  <2>1. Top \in Frames
    BY TopIs
  <2>2. QED BY <2>1 DEF Frames
<1> HIDE DEF x
<1>3. s \in Seq(Frames) /\ Len(s) = n /\ s[n] = x /\ \A i \in 1..(n-1) : s[i] = walk.stack[i]
  <2> DEFINE st == walk.stack
  <2>1. st \in Seq(Frames) /\ st # <<>> /\ s = Append(Front(st), x)
    BY <1>1 DEF Below
  <2> HIDE DEF st, s
  <2>2. s \in Seq(Frames) /\ Len(s) = Len(st) /\ s[Len(st)] = x /\ \A i \in 1..(Len(st)-1) : s[i] = st[i]
    BY <1>2, <2>1, LastFacts
  <2>3. QED BY <2>2 DEF st
<1> HIDE DEF s, n
<1>4. Skipped \in Walks /\ Skipped.stack = s
      /\ Skipped.phase = walk.phase /\ Skipped.entering = walk.entering /\ Skipped.seen = walk.seen
      /\ Skipped.mounts = walk.mounts /\ Skipped.spaces = walk.spaces /\ Skipped.tree = walk.tree
      /\ Skipped.depthCap = walk.depthCap /\ Skipped.widthCap = walk.widthCap
      /\ Skipped.prefixes = walk.prefixes /\ Skipped.orchestrators = walk.orchestrators
  BY <1>1, <1>3 DEF Walks
<1>5. QED BY <1>2, <1>3, <1>4 DEF n, x

LEMMA ClaimedIs ==
  ASSUME TreeTypes, walk.stack # <<>>, Top.todo # {}
  PROVE  /\ Claimed \in Walks /\ Claimed.stack = Skipped.stack /\ Claimed.entering = KidEntry
         /\ Claimed.phase = walk.phase /\ Claimed.seen = walk.seen
         /\ Claimed.mounts = walk.mounts /\ Claimed.spaces = walk.spaces /\ Claimed.tree = walk.tree
         /\ Claimed.depthCap = walk.depthCap /\ Claimed.widthCap = walk.widthCap
         /\ Claimed.prefixes = IF Validating THEN walk.prefixes \union {KidPrefix} ELSE walk.prefixes
         /\ Claimed.orchestrators = IF Validating THEN walk.orchestrators \union {SessionName(KidPrefix)} ELSE walk.orchestrators
<1>1. Skipped \in Walks
  BY SkippedIs
<1>2. KidEntry \in Openings /\ KidPrefix \in Names /\ SessionName(KidPrefix) \in Names
  BY KidIs
<1>3. /\ Claimed \in Walks /\ Claimed.stack = Skipped.stack /\ Claimed.entering = KidEntry
      /\ Claimed.phase = Skipped.phase /\ Claimed.seen = Skipped.seen
      /\ Claimed.mounts = Skipped.mounts /\ Claimed.spaces = Skipped.spaces /\ Claimed.tree = Skipped.tree
      /\ Claimed.depthCap = Skipped.depthCap /\ Claimed.widthCap = Skipped.widthCap
      /\ Claimed.prefixes = IF Validating THEN Skipped.prefixes \union {KidPrefix} ELSE Skipped.prefixes
      /\ Claimed.orchestrators = IF Validating THEN Skipped.orchestrators \union {SessionName(KidPrefix)} ELSE Skipped.orchestrators
  BY <1>1, <1>2 DEF Claimed, Walks
<1>4. QED BY <1>3, SkippedIs

\* What a child's workspaces become.
LEMMA MergedIs ==
  ASSUME NEW flat \in Flats, NEW frame \in Frames
  PROVE  LET m == MergedInto(flat, frame)
         IN  /\ m \in Flats /\ DOMAIN m = DOMAIN flat \union {frame.mount \o n : n \in DOMAIN frame.flat}
             /\ \A n \in DOMAIN flat : m[n] = flat[n]
             /\ \A n \in DOMAIN m \ DOMAIN flat : \E k \in DOMAIN frame.flat : n = frame.mount \o k /\ m[n] = frame.flat[k]
<1> DEFINE names == {frame.mount \o n : n \in DOMAIN frame.flat}
           m == MergedInto(flat, frame)
<1>1. PICK D \in SUBSET Names : flat \in [D -> Projects \X Names]
  BY DEF Flats
<1>2. frame.flat \in Flats /\ frame.mount \in Names
  BY DEF Frames
<1>3. PICK F \in SUBSET Names : frame.flat \in [F -> Projects \X Names]
  BY <1>2 DEF Flats
<1>4. m = [n \in DOMAIN flat \union names |->
             IF n \in DOMAIN flat THEN flat[n] ELSE frame.flat[CHOOSE k \in DOMAIN frame.flat : frame.mount \o k = n]]
  BY DEF MergedInto
<1>5. names \in SUBSET Names
  <2>1. \A n \in DOMAIN frame.flat : frame.mount \o n \in Names
    BY <1>2, <1>3, ConcatProperties DEF Names
  <2>2. QED BY <2>1
<1>6. \A n \in names : LET k == CHOOSE k \in DOMAIN frame.flat : frame.mount \o k = n
                       IN  k \in DOMAIN frame.flat /\ frame.mount \o k = n
  OBVIOUS
<1> HIDE DEF names, m
<1>7. DOMAIN m = DOMAIN flat \union names /\ \A n \in DOMAIN flat : m[n] = flat[n]
  BY <1>4
<1>8. ASSUME NEW n \in DOMAIN m \ DOMAIN flat PROVE \E k \in DOMAIN frame.flat : n = frame.mount \o k /\ m[n] = frame.flat[k]
  <2> DEFINE k == CHOOSE j \in DOMAIN frame.flat : frame.mount \o j = n
  <2>1. n \in names /\ m[n] = frame.flat[k]
    BY <1>4, <1>7, <1>8
  <2>2. k \in DOMAIN frame.flat /\ frame.mount \o k = n
    BY <1>6, <2>1
  <2> HIDE DEF k
  <2>3. QED BY <2>1, <2>2
<1>9. m \in Flats
  <2>1. \A n \in DOMAIN m : m[n] \in Projects \X Names
    BY <1>1, <1>3, <1>7, <1>8
  <2>2. DOMAIN m \in SUBSET Names
    BY <1>1, <1>5, <1>7
  <2>3. m \in [DOMAIN m -> Projects \X Names]
    BY <1>4, <2>1
  <2>4. QED BY <2>2, <2>3 DEF Flats
<1>10. QED BY <1>7, <1>8, <1>9 DEF m, names

LEMMA PoppedIs ==
  ASSUME TreeTypes, walk.stack # <<>>, Below # <<>>
  PROVE  LET s == Popped.stack
             n == Len(walk.stack) - 1
         IN  /\ Popped \in Walks /\ n >= 1 /\ Len(s) = n /\ \A i \in 1..(n-1) : s[i] = walk.stack[i]
             /\ s[n] = [walk.stack[n] EXCEPT !.flat = MergedInto(@, Top)] /\ s[n] \in Frames
             /\ Popped.phase = walk.phase /\ Popped.entering = walk.entering /\ Popped.seen = walk.seen \ {Top.path}
             /\ Popped.mounts = walk.mounts /\ Popped.spaces = walk.spaces /\ Popped.tree = walk.tree
             /\ Popped.depthCap = walk.depthCap /\ Popped.widthCap = walk.widthCap
             /\ Popped.prefixes = walk.prefixes /\ Popped.orchestrators = walk.orchestrators
<1> DEFINE n == Len(walk.stack) - 1
           x == [Last(Below) EXCEPT !.flat = MergedInto(@, Top)]
           s == Append(Front(Below), x)
<1>1. /\ Top \in Frames /\ Below \in Seq(Frames) /\ Len(Below) = n /\ \A i \in 1..n : Below[i] = walk.stack[i]
  BY TopIs
<1>2. n \in Nat /\ n >= 1 /\ Last(Below) = Below[n] /\ Last(Below) \in Frames
  BY <1>1, LastFacts
<1>3. Last(Below) = walk.stack[n]
  BY <1>1, <1>2
<1>4. x \in Frames
  <2>1. Last(Below).flat \in Flats
    BY <1>2 DEF Frames
  <2>2. MergedInto(Last(Below).flat, Top) \in Flats
    BY <1>1, <2>1, MergedIs
  <2>3. QED BY <1>2, <2>2 DEF Frames
<1> HIDE DEF x, n
<1>5. s \in Seq(Frames) /\ Len(s) = n /\ s[n] = x /\ \A i \in 1..(n-1) : s[i] = Below[i]
  BY <1>1, <1>4, LastFacts
<1>6. \A i \in 1..(n-1) : s[i] = walk.stack[i]
  BY <1>1, <1>2, <1>5
<1> HIDE DEF s
<1>7. walk \in Walks
  BY DEF TreeTypes
<1>8. Popped = [walk EXCEPT !.seen = @ \ {Top.path}, !.stack = s]
  <2>1. Up = [walk EXCEPT !.seen = @ \ {Top.path}, !.stack = Below]
    BY DEF Up
  <2>2. Popped = [Up EXCEPT !.stack = s]
    BY DEF Popped, s, x
  <2>3. QED BY <1>7, <2>1, <2>2 DEF Walks
<1>9. /\ Popped \in Walks /\ Popped.stack = s
      /\ Popped.phase = walk.phase /\ Popped.entering = walk.entering /\ Popped.seen = walk.seen \ {Top.path}
      /\ Popped.mounts = walk.mounts /\ Popped.spaces = walk.spaces /\ Popped.tree = walk.tree
      /\ Popped.depthCap = walk.depthCap /\ Popped.widthCap = walk.widthCap
      /\ Popped.prefixes = walk.prefixes /\ Popped.orchestrators = walk.orchestrators
  BY <1>5, <1>7, <1>8 DEF Walks
<1>10. x = [walk.stack[n] EXCEPT !.flat = MergedInto(@, Top)]
  BY <1>3 DEF x
<1>11. QED BY <1>2, <1>4, <1>5, <1>6, <1>9, <1>10 DEF n

LEMMA AgainIs ==
  ASSUME TreeTypes, walk.stack # <<>>, Below = <<>>
  PROVE  /\ Again \in Walks /\ Again.phase = "merge" /\ Again.entering = RootEntry /\ Again.seen = {} /\ Again.stack = <<>>
         /\ Again.mounts = walk.mounts /\ Again.tree = walk.tree
         /\ Again.depthCap = walk.depthCap /\ Again.widthCap = walk.widthCap
<1>1. walk \in Walks /\ RootEntry \in Openings /\ <<>> \in Seq(Frames)
  BY RootEntryIs DEF TreeTypes
<1> HIDE DEF RootEntry
<1>2. Up = [walk EXCEPT !.seen = @ \ {Top.path}, !.stack = <<>>]
  BY DEF Up
<1>3. Again = [walk EXCEPT !.seen = {}, !.stack = <<>>, !.phase = "merge", !.entering = RootEntry]
  BY <1>1, <1>2 DEF Again, Walks
<1>4. QED BY <1>1, <1>3 DEF Walks

LEMMA DoneIs ==
  ASSUME TreeTypes, walk.stack # <<>>, Below = <<>>
  PROVE  /\ Done \in Walks /\ Done.phase = "loaded" /\ Done.entering = walk.entering /\ Done.stack = <<>>
         /\ Done.mounts = walk.mounts /\ Done.tree = walk.tree /\ Done.flat = Top.flat
         /\ Done.depthCap = walk.depthCap /\ Done.widthCap = walk.widthCap
<1>1. walk \in Walks /\ <<>> \in Seq(Frames)
  BY DEF TreeTypes
<1>2. Top.flat \in Flats
  BY TopIs DEF Frames
<1>3. Up = [walk EXCEPT !.seen = @ \ {Top.path}, !.stack = <<>>]
  BY DEF Up
<1>4. Done = [walk EXCEPT !.seen = @ \ {Top.path}, !.stack = <<>>, !.phase = "loaded", !.flat = Top.flat]
  BY <1>1, <1>3 DEF Done, Walks
<1>5. QED BY <1>1, <1>2, <1>4 DEF Walks

-----------------------------------------------------------------------------
(* Types, names and claims, whatever is edited meanwhile *)

\* A call that is not begun.
LEMMA NoWalkIs ==
  /\ NoWalk \in Walks /\ NoWalk.stack = <<>> /\ NoWalk.entering = NoEntry /\ NoWalk.phase = "idle"
  /\ NoWalk.tree = {} /\ NoWalk.mounts = {} /\ \A i \in 1..Len(NoWalk.stack) : FrameOK(NoWalk.stack[i])
<1>2. NoWalk.flat \in Flats
  <2>1. [n \in {} |-> n] \in [{} -> Projects \X Names]
    OBVIOUS
  <2>2. QED BY <2>1 DEF NoWalk, Flats
<1>3. NoWalk \in Walks
  <2> DEFINE f == NoWalk.flat
  <2>1. NoWalk = [phase |-> "idle", reason |-> "", entering |-> NoEntry, stack |-> <<>>, seen |-> {},
                  depthCap |-> 0, widthCap |-> 0, prefixes |-> {}, orchestrators |-> {}, spaces |-> {},
                  mounts |-> {}, flat |-> f, tree |-> {}]
    BY DEF NoWalk
  <2>2. NoEntry \in Openings /\ <<>> \in Seq(Frames)
    BY NoEntryIs
  <2>3. f \in Flats
    BY <1>2
  <2> HIDE DEF NoWalk, f, NoEntry
  <2>4. QED BY <2>1, <2>2, <2>3 DEF Walks, Reasons
<1>4. /\ NoWalk.stack = <<>> /\ NoWalk.entering = NoEntry /\ NoWalk.phase = "idle"
      /\ NoWalk.tree = {} /\ NoWalk.mounts = {}
  BY DEF NoWalk
<1>5. \A i \in 1..Len(NoWalk.stack) : FrameOK(NoWalk.stack[i])
  BY <1>4
<1>6. QED BY <1>3, <1>4, <1>5

LEMMA TypesInit ==
  ASSUME TreeInit
  PROVE  TreeTypes
<1>1. files = [p \in Projects |-> files[p]] /\ IsDisk(files)
  BY ConfigTreeAssumption DEF TreeInit, IsDisk
<1>2. walk = NoWalk /\ edits = 0
  BY DEF TreeInit
<1> HIDE DEF NoWalk
<1>3. QED BY <1>1, <1>2, NoWalkIs DEF TreeTypes, Walking

\* People write configs, or nothing.
LEMMA EditKeepsTypes ==
  ASSUME TreeTypes, NEW p \in Projects, Delete(p) \/ Rewrite(p)
  PROVE  TreeTypes' /\ walk' = walk /\ edits' = edits + 1
<1>1. PICK c : (c = Gone \/ IsConfig(c)) /\ files' = [files EXCEPT ![p] = c] /\ walk' = walk /\ edits' = edits + 1
  <2>1. CASE Delete(p)
    BY <2>1 DEF Delete, Edit
  <2>2. CASE Rewrite(p)
    BY <2>2, ConfigTreeAssumption DEF Rewrite, Edit
  <2>3. QED BY <2>1, <2>2
<1>2. files = [q \in Projects |-> files[q]] /\ \A q \in Projects : files[q] = Gone \/ IsConfig(files[q])
  BY DEF TreeTypes, IsDisk
<1>3. files' = [q \in Projects |-> IF q = p THEN c ELSE files[q]]
  BY <1>1, <1>2
<1>4. files' = [q \in Projects |-> files'[q]] /\ IsDisk(files')
  <2>1. files' = [q \in Projects |-> files'[q]]
    BY <1>3
  <2>2. \A q \in Projects : files'[q] = Gone \/ IsConfig(files'[q])
    BY <1>1, <1>2, <1>3
  <2>3. QED BY <2>1, <2>2 DEF IsDisk
<1>5. edits' \in Nat
  BY <1>1 DEF TreeTypes
<1>6. QED BY <1>1, <1>4, <1>5 DEF TreeTypes, Walking

\* Types of the new walk, from those of its stack and entry.
LEMMA TypesFollow ==
  ASSUME TreeTypes, files' = files, edits' = edits, walk' \in Walks, walk'.phase # "idle",
         \A i \in 1..Len(walk'.stack) : FrameOK(walk'.stack[i]),
         walk'.entering # NoEntry => walk'.entering.path # <<>>,
         walk'.phase \in {"validate", "merge"} /\ walk'.stack = <<>> => walk'.entering = RootEntry
  PROVE  TreeTypes'
BY DEF TreeTypes, Walking

LEMMA WalkKeepsTypes ==
  ASSUME TreeTypes, WalkStep, files' = files, edits' = edits
  PROVE  TreeTypes'
<1>1. /\ walk \in Walks /\ walk.stack \in Seq(Frames) /\ Len(walk.stack) \in Nat
      /\ \A i \in 1..Len(walk.stack) : FrameOK(walk.stack[i])
      /\ walk.entering # NoEntry => walk.entering.path # <<>>
  BY DEF TreeTypes, Walks
<1>2. CASE BeginStep
  <2>1. walk' \in Walks /\ walk'.phase = "validate" /\ walk'.entering = RootEntry /\ walk'.stack = <<>>
    BY <1>2, BegunIs DEF BeginStep
  <2>2. QED BY <2>1, RootEntryIs, TypesFollow
<1>3. CASE StopStep
  <2>1. walk' \in Walks /\ walk'.phase = "refused" /\ walk'.stack = walk.stack /\ walk'.entering = walk.entering
    BY <1>3, StoppedIs DEF StopStep
  <2>2. QED BY <1>1, <2>1, TypesFollow
<1>4. CASE DropStep
  <2>1. walk' \in Walks /\ walk'.phase = walk.phase /\ walk'.entering = NoEntry /\ walk'.stack = walk.stack
    BY <1>4, UnclaimedIs DEF DropStep
  <2>2. walk'.phase # "idle"
    BY <1>4, <2>1 DEF Reading, Walking, DropStep
  <2>3. QED BY <1>1, <1>4, <2>1, <2>2, TypesFollow DEF DropStep
<1>5. CASE EnterStep
  <2> DEFINE frame == NewFrame(walk.entering, Here, Content)
  <2>1. walk' \in Walks /\ walk'.phase = walk.phase /\ walk'.entering = NoEntry /\ walk'.stack = Append(walk.stack, frame)
    BY <1>5, EnteredIs DEF Reading, EnterStep
  <2>2. frame \in Frames /\ FrameOK(frame)
    BY <1>5, ContentIs DEF Reading, EnterStep
  <2>3. walk'.phase # "idle"
    BY <1>5, <2>1 DEF Reading, Walking, EnterStep
  <2> HIDE DEF frame
  <2>4. /\ walk'.stack # <<>> /\ Len(walk'.stack) = Len(walk.stack) + 1 /\ walk'.stack[Len(walk.stack)+1] = frame
        /\ \A i \in 1..Len(walk.stack) : walk'.stack[i] = walk.stack[i]
    BY <1>1, <2>1, <2>2, AppendProperties
  <2>5. \A i \in 1..Len(walk'.stack) : FrameOK(walk'.stack[i])
    <3>1. \A i \in 1..(Len(walk.stack)+1) : i \in 1..Len(walk.stack) \/ i = Len(walk.stack) + 1
      BY <1>1
    <3>2. QED BY <1>1, <2>2, <2>4, <3>1
  <2>6. QED BY <2>1, <2>3, <2>4, <2>5, TypesFollow
<1>6. CASE SkipStep \/ ClaimStep
  <2> DEFINE n == Len(walk.stack)
  <2>1. walk.stack # <<>> /\ Top.todo # {} /\ walk.phase # "idle" /\ walk.entering = NoEntry
    BY <1>6 DEF Looping, Walking, SkipStep, ClaimStep
  <2>2. /\ walk' \in Walks /\ walk'.phase = walk.phase /\ walk'.stack = Skipped.stack
        /\ walk'.entering = NoEntry \/ walk'.entering = KidEntry
    BY <1>6, <2>1, SkippedIs, ClaimedIs DEF SkipStep, ClaimStep
  <2>3. /\ Len(Skipped.stack) = n /\ \A i \in 1..(n-1) : Skipped.stack[i] = walk.stack[i]
        /\ Skipped.stack[n] = [Top EXCEPT !.todo = @ \ {Kid}]
    BY <2>1, SkippedIs
  <2>4. FrameOK([Top EXCEPT !.todo = @ \ {Kid}])
    <3>1. Top \in Frames /\ FrameOK(Top)
      BY <2>1, TopIs
    <3>2. QED BY <3>1 DEF FrameOK, Frames
  <2>5. n >= 1 /\ n \in Nat
    BY <2>1, TopIs
  <2>6. \A i \in 1..Len(walk'.stack) : FrameOK(walk'.stack[i])
    <3>1. \A i \in 1..n : i \in 1..(n-1) \/ i = n
      BY <2>5
    <3> HIDE DEF n
    <3>2. \A i \in 1..(n-1) : FrameOK(walk.stack[i])
      BY <1>1, <2>5 DEF n
    <3>3. QED BY <2>2, <2>3, <2>4, <3>1, <3>2
  <2>7. walk'.entering # NoEntry => walk'.entering.path # <<>>
    BY <2>1, <2>2, KidIs
  <2>8. walk'.stack # <<>>
    BY <2>2, <2>3, <2>5
  <2>9. QED BY <2>1, <2>2, <2>6, <2>7, <2>8, TypesFollow
<1>7. CASE PopStep
  <2> DEFINE n == Len(walk.stack) - 1
  <2>1. walk.stack # <<>> /\ walk.phase # "idle" /\ walk.entering = NoEntry
    BY <1>7 DEF Returning, Walking, PopStep
  <2>2. /\ walk' \in Walks /\ walk'.phase = walk.phase /\ walk'.entering = NoEntry /\ n >= 1
        /\ Len(walk'.stack) = n /\ \A i \in 1..(n-1) : walk'.stack[i] = walk.stack[i]
        /\ walk'.stack[n] = [walk.stack[n] EXCEPT !.flat = MergedInto(@, Top)]
    BY <1>7, <2>1, PoppedIs DEF PopStep
  <2>3. n \in Nat /\ n \in 1..Len(walk.stack) /\ \A i \in 1..(n-1) : i \in 1..Len(walk.stack)
    BY <1>1, <2>2
  <2>4. FrameOK(walk'.stack[n])
    <3> HIDE DEF n
    <3>1. walk.stack[n] \in Frames /\ FrameOK(walk.stack[n])
      BY <1>1, <2>3
    <3>2. QED BY <2>2, <3>1 DEF FrameOK, Frames
  <2>5. \A i \in 1..Len(walk'.stack) : FrameOK(walk'.stack[i])
    <3>1. \A i \in 1..n : i \in 1..(n-1) \/ i = n
      BY <2>3
    <3> HIDE DEF n
    <3>2. QED BY <1>1, <2>2, <2>3, <2>4, <3>1
  <2>6. walk'.stack # <<>>
    BY <2>2, <2>3
  <2>7. QED BY <2>1, <2>2, <2>5, <2>6, TypesFollow
<1>8. CASE AgainStep
  <2>1. walk' \in Walks /\ walk'.phase = "merge" /\ walk'.entering = RootEntry /\ walk'.stack = <<>>
    BY <1>8, AgainIs DEF Returning, AgainStep
  <2>2. QED BY <2>1, RootEntryIs, TypesFollow
<1>9. CASE DoneStep
  <2>1. walk' \in Walks /\ walk'.phase = "loaded" /\ walk'.entering = walk.entering /\ walk'.stack = <<>>
    BY <1>9, DoneIs DEF Returning, DoneStep
  <2>2. QED BY <1>1, <2>1, TypesFollow
<1>10. QED BY <1>2, <1>3, <1>4, <1>5, <1>6, <1>7, <1>8, <1>9 DEF WalkStep

\* The prefixes on the stack lengthen one another.
TreeChain ==
  Walking =>
    /\ \A i \in 1..(Len(walk.stack)-1) : walk.stack[i+1].prefix = walk.stack[i].prefix \o walk.stack[i+1].mount
    /\ walk.stack # <<>> => walk.stack[1].prefix = <<>>
    /\ walk.stack # <<>> /\ walk.entering # NoEntry => walk.entering.prefix = Top.prefix \o walk.entering.mount

\* The same prefixes and mounts make the same chain.
LEMMA ChainFollows ==
  ASSUME TreeTypes, TreeTypes', TreeChain, Walking, walk.stack # <<>>, walk'.stack # <<>>,
         Len(walk'.stack) <= Len(walk.stack),
         \A i \in 1..Len(walk'.stack) : walk'.stack[i].prefix = walk.stack[i].prefix /\ walk'.stack[i].mount = walk.stack[i].mount,
         walk'.entering # NoEntry => walk'.entering.prefix = walk'.stack[Len(walk'.stack)].prefix \o walk'.entering.mount
  PROVE  TreeChain'
<1> DEFINE n == Len(walk.stack)
           k == Len(walk'.stack)
<1>1. n \in Nat /\ k \in Nat /\ k >= 1 /\ k <= n
  <2>1. walk.stack \in Seq(Frames) /\ walk'.stack \in Seq(Frames)
    BY DEF TreeTypes, Walks
  <2>2. QED BY <2>1, EmptySeq
<1>2. /\ \A i \in 1..(n-1) : walk.stack[i+1].prefix = walk.stack[i].prefix \o walk.stack[i+1].mount
      /\ walk.stack[1].prefix = <<>>
  BY DEF TreeChain
<1>3. \A i \in 1..(k-1) : i \in 1..k /\ i + 1 \in 1..k /\ i \in 1..(n-1)
  BY <1>1
<1>4. Top' = walk'.stack[k]
  BY <1>1 DEF Top, Last
<1>5. 1 \in 1..k
  BY <1>1
<1> HIDE DEF n, k
<1>6. \A i \in 1..(k-1) : walk'.stack[i+1].prefix = walk'.stack[i].prefix \o walk'.stack[i+1].mount
  BY <1>2, <1>3 DEF k
<1>7. walk'.stack[1].prefix = <<>>
  BY <1>2, <1>5 DEF k
<1>8. QED BY <1>4, <1>6, <1>7 DEF TreeChain, k

LEMMA WalkKeepsChain ==
  ASSUME TreeTypes, TreeTypes', TreeChain, WalkStep, files' = files
  PROVE  TreeChain'
<1>1. walk \in Walks /\ walk.stack \in Seq(Frames) /\ Len(walk.stack) \in Nat
  BY DEF TreeTypes, Walks
<1>2. CASE BeginStep
  <2>1. walk'.stack = <<>>
    BY <1>2, BegunIs DEF BeginStep
  <2>2. QED BY <2>1 DEF TreeChain
<1>3. CASE StopStep
  <2>1. walk'.phase = "refused"
    BY <1>3, StoppedIs DEF StopStep
  <2>2. QED BY <2>1 DEF TreeChain, Walking
<1>4. CASE DropStep
  <2>1. walk'.entering = NoEntry /\ walk'.stack = walk.stack
    BY <1>4, UnclaimedIs DEF DropStep
  <2>2. QED BY <1>1, <1>4, <2>1, ChainFollows DEF Reading, DropStep
<1>5. CASE EnterStep
  <2> DEFINE frame == NewFrame(walk.entering, Here, Content)
             n == Len(walk.stack)
             t == walk'.stack
  <2>1. walk'.entering = NoEntry /\ t = Append(walk.stack, frame)
    BY <1>5, EnteredIs DEF Reading, EnterStep
  <2>2. frame \in Frames /\ frame.prefix = walk.entering.prefix /\ frame.mount = walk.entering.mount
    BY <1>5, ContentIs DEF Reading, NewFrame, EnterStep
  <2> HIDE DEF frame, t
  <2>3. t # <<>> /\ Len(t) = n + 1 /\ t[n+1] = frame /\ \A i \in 1..n : t[i] = walk.stack[i]
    BY <1>1, <2>1, <2>2, AppendProperties
  <2>4. CASE walk.stack = <<>>
    <3>1. walk.entering = RootEntry /\ n = 0
      BY <1>5, <2>4 DEF TreeTypes, Reading, EnterStep
    <3>2. Len(t) = 1 /\ t[1].prefix = <<>>
      BY <2>2, <2>3, <3>1, RootEntryIs
    <3>3. QED BY <2>1, <3>2 DEF TreeChain, t
  <2>5. CASE walk.stack # <<>>
    <3>1. /\ \A i \in 1..(n-1) : walk.stack[i+1].prefix = walk.stack[i].prefix \o walk.stack[i+1].mount
          /\ walk.stack[1].prefix = <<>> /\ walk.entering.prefix = walk.stack[n].prefix \o walk.entering.mount
      BY <1>5, <2>5, TopIs DEF TreeChain, Reading, EnterStep
    <3>2. n \in Nat /\ n >= 1
      BY <2>5, TopIs
    <3>3. t[n+1].prefix = t[n].prefix \o t[n+1].mount /\ t[1].prefix = <<>>
      <4>1. n \in 1..n /\ 1 \in 1..n
        BY <3>2
      <4>2. t[n] = walk.stack[n] /\ t[1] = walk.stack[1]
        BY <2>3, <4>1
      <4> HIDE DEF n
      <4>3. QED BY <2>2, <2>3, <3>1, <4>2
    <3>4. ASSUME NEW i \in 1..n PROVE t[i+1].prefix = t[i].prefix \o t[i+1].mount
      <4>1. CASE i = n
        BY <3>3, <4>1
      <4>2. CASE i # n
        <5>1. i \in 1..(n-1) /\ i + 1 \in 1..n
          BY <3>2, <4>2
        <5>2. QED BY <2>3, <3>1, <5>1
      <4>3. QED BY <4>1, <4>2
    <3>5. Len(t) - 1 = n
      BY <1>1, <2>3
    <3> HIDE DEF n
    <3>6. QED BY <2>1, <3>3, <3>4, <3>5 DEF TreeChain, t
  <2>6. QED BY <2>4, <2>5
<1>6. CASE SkipStep \/ ClaimStep
  <2> DEFINE n == Len(walk.stack)
             x == [Top EXCEPT !.todo = @ \ {Kid}]
  <2>1. walk.stack # <<>> /\ Top.todo # {} /\ Walking /\ walk.entering = NoEntry
    BY <1>6 DEF Looping, SkipStep, ClaimStep
  <2>2. /\ walk'.stack = Skipped.stack
        /\ walk'.entering = NoEntry \/ walk'.entering = KidEntry
    BY <1>6, <2>1, SkippedIs, ClaimedIs DEF SkipStep, ClaimStep
  <2>3. /\ Len(Skipped.stack) = n /\ \A i \in 1..(n-1) : Skipped.stack[i] = walk.stack[i]
        /\ Skipped.stack[n] = x
    BY <2>1, SkippedIs
  <2>4. n >= 1 /\ n \in Nat /\ Top = walk.stack[n] /\ Top \in Frames
    BY <2>1, TopIs
  <2>5. x.prefix = Top.prefix /\ x.mount = Top.mount
    BY <2>4 DEF Frames
  <2> HIDE DEF x
  <2>6. \A i \in 1..n : walk'.stack[i].prefix = walk.stack[i].prefix /\ walk'.stack[i].mount = walk.stack[i].mount
    <3>1. \A i \in 1..n : i \in 1..(n-1) \/ i = n
      BY <2>4
    <3>2. QED BY <2>2, <2>3, <2>4, <2>5, <3>1
  <2>7. walk'.entering # NoEntry => walk'.entering.prefix = walk'.stack[n].prefix \o walk'.entering.mount
    <3>1. KidEntry.prefix = Top.prefix \o KidEntry.mount
      BY DEF KidEntry, KidPrefix
    <3> HIDE DEF n
    <3>2. walk'.stack[n].prefix = Top.prefix
      BY <2>2, <2>3, <2>5
    <3>3. QED BY <2>2, <3>1, <3>2
  <2>8. Len(walk'.stack) = n /\ walk'.stack # <<>> /\ n <= n
    BY <2>2, <2>3, <2>4
  <2> HIDE DEF n
  <2>9. QED BY <2>1, <2>6, <2>7, <2>8, ChainFollows DEF n
<1>7. CASE PopStep
  <2> DEFINE n == Len(walk.stack) - 1
             x == [walk.stack[n] EXCEPT !.flat = MergedInto(@, Top)]
  <2>1. walk.stack # <<>> /\ Walking /\ walk.entering = NoEntry
    BY <1>7 DEF Returning, PopStep
  <2>2. /\ walk'.entering = NoEntry /\ n >= 1
        /\ Len(walk'.stack) = n /\ \A i \in 1..(n-1) : walk'.stack[i] = walk.stack[i]
        /\ walk'.stack[n] = x
    BY <1>7, <2>1, PoppedIs DEF PopStep
  <2>3. n \in Nat /\ n \in 1..Len(walk.stack) /\ n <= Len(walk.stack)
    BY <1>1, <2>2
  <2>4. x.prefix = walk.stack[n].prefix /\ x.mount = walk.stack[n].mount
    <3> HIDE DEF n
    <3>1. walk.stack[n] \in Frames
      BY <1>1, <2>3
    <3>2. QED BY <3>1 DEF Frames
  <2> HIDE DEF x
  <2>5. \A i \in 1..n : walk'.stack[i].prefix = walk.stack[i].prefix /\ walk'.stack[i].mount = walk.stack[i].mount
    <3>1. \A i \in 1..n : i \in 1..(n-1) \/ i = n
      BY <2>3
    <3>2. QED BY <2>2, <2>4, <3>1
  <2>6. walk'.stack # <<>>
    BY <2>2, <2>3
  <2> HIDE DEF n
  <2>7. QED BY <2>1, <2>2, <2>3, <2>5, <2>6, ChainFollows
<1>8. CASE AgainStep
  <2>1. walk'.stack = <<>>
    BY <1>8, AgainIs DEF Returning, AgainStep
  <2>2. QED BY <2>1 DEF TreeChain
<1>9. CASE DoneStep
  <2>1. walk'.phase = "loaded"
    BY <1>9, DoneIs DEF Returning, DoneStep
  <2>2. QED BY <2>1 DEF TreeChain, Walking
<1>10. QED BY <1>2, <1>3, <1>4, <1>5, <1>6, <1>7, <1>8, <1>9 DEF WalkStep

\* The claims are of marked prefixes, and the root is marked first.
TreeClaims ==
  Validating =>
    /\ walk.prefixes \subseteq {m.prefix : m \in walk.mounts} \union {walk.entering.prefix}
    /\ walk.orchestrators \subseteq {<<Orchestrator>>} \union {SessionName(x) : x \in walk.prefixes}
    /\ walk.stack # <<>> => <<>> \in {m.prefix : m \in walk.mounts}

LEMMA WalkKeepsClaims ==
  ASSUME TreeTypes, TreeClaims, WalkStep, files' = files
  PROVE  TreeClaims'
<1> DEFINE O == {<<Orchestrator>>} \union {SessionName(x) : x \in walk.prefixes}
           M == {m.prefix : m \in walk.mounts}
           e == walk.entering
<1> SUFFICES ASSUME walk'.phase = "validate"
             PROVE  /\ walk'.prefixes \subseteq {m.prefix : m \in walk'.mounts} \union {walk'.entering.prefix}
                    /\ walk'.orchestrators \subseteq {<<Orchestrator>>} \union {SessionName(x) : x \in walk'.prefixes}
                    /\ walk'.stack # <<>> => <<>> \in {m.prefix : m \in walk'.mounts}
  BY DEF TreeClaims, Validating
<1>1. CASE BeginStep
  <2>1. walk'.prefixes = {} /\ walk'.orchestrators \subseteq {<<Orchestrator>>} /\ walk'.stack = <<>>
    BY <1>1, BegunIs DEF BeginStep
  <2>2. QED BY <2>1
<1>2. CASE StopStep
  BY <1>2, StoppedIs DEF StopStep
<1>3. CASE DropStep
  <2>1. /\ walk.phase = "validate" /\ walk'.stack = walk.stack /\ walk'.mounts = walk.mounts
        /\ walk'.prefixes = walk.prefixes \ {e.prefix} /\ walk'.orchestrators = walk.orchestrators \ {SessionName(e.prefix)}
    BY <1>3, UnclaimedIs DEF DropStep
  <2>2. walk.prefixes \subseteq M \union {e.prefix} /\ walk.orchestrators \subseteq O /\ (walk.stack # <<>> => <<>> \in M)
    BY <2>1 DEF TreeClaims, Validating
  <2>3. \A o \in walk'.orchestrators : o = <<Orchestrator>> \/ \E x \in walk'.prefixes : o = SessionName(x)
    <3>1. \A o \in walk.orchestrators : o = <<Orchestrator>> \/ \E x \in walk.prefixes : o = SessionName(x)
      BY <2>2
    <3>2. QED BY <2>1, <3>1
  <2>4. QED BY <2>1, <2>2, <2>3
<1>4. CASE EnterStep
  <2> DEFINE mark == [phase |-> walk.phase, names |-> e.names, path |-> e.path, prefix |-> e.prefix]
  <2>1. /\ walk.phase = "validate" /\ walk'.mounts = walk.mounts \union {mark} /\ walk'.prefixes = walk.prefixes
        /\ walk'.orchestrators = walk.orchestrators
    BY <1>4, EnteredIs DEF EnterStep, Reading
  <2>2. walk.prefixes \subseteq M \union {e.prefix} /\ walk.orchestrators \subseteq O /\ (walk.stack # <<>> => <<>> \in M)
    BY <2>1 DEF TreeClaims, Validating
  <2>3. mark \in walk'.mounts /\ mark.prefix = e.prefix
    BY <2>1
  <2>4. walk.stack = <<>> => e.prefix = <<>>
    BY <1>4, RootEntryIs DEF TreeTypes, EnterStep, Reading
  <2> HIDE DEF mark
  <2>5. M \subseteq {m.prefix : m \in walk'.mounts} /\ e.prefix \in {m.prefix : m \in walk'.mounts}
    BY <2>1, <2>3
  <2>6. QED BY <2>1, <2>2, <2>4, <2>5
<1>5. CASE SkipStep
  <2>1. /\ walk.phase = "validate" /\ walk.stack # <<>> /\ walk'.mounts = walk.mounts /\ walk'.prefixes = walk.prefixes
        /\ walk'.orchestrators = walk.orchestrators /\ walk'.entering = walk.entering
    BY <1>5, SkippedIs DEF SkipStep, Looping
  <2>2. QED BY <2>1 DEF TreeClaims, Validating
<1>6. CASE ClaimStep
  <2>1. /\ walk.phase = "validate" /\ walk.stack # <<>> /\ walk'.mounts = walk.mounts /\ Validating /\ walk.entering = NoEntry
    BY <1>6, ClaimedIs DEF ClaimStep, Looping, Validating
  <2>2. /\ walk'.prefixes = walk.prefixes \union {KidPrefix} /\ walk'.entering = KidEntry
        /\ walk'.orchestrators = walk.orchestrators \union {SessionName(KidPrefix)}
    BY <1>6, <2>1, ClaimedIs DEF ClaimStep, Looping
  <2>3. walk.prefixes \subseteq M \union {e.prefix} /\ walk.orchestrators \subseteq O /\ <<>> \in M
    BY <2>1 DEF TreeClaims
  <2>4. e.prefix = <<>> /\ KidEntry.prefix = KidPrefix
    BY <2>1, NoEntryIs DEF KidEntry
  <2>5. QED BY <2>1, <2>2, <2>3, <2>4
<1>7. CASE PopStep
  <2>1. /\ walk.phase = "validate" /\ walk.stack # <<>> /\ walk'.mounts = walk.mounts /\ walk'.prefixes = walk.prefixes
        /\ walk'.orchestrators = walk.orchestrators /\ walk'.entering = walk.entering
    BY <1>7, PoppedIs DEF PopStep, Returning
  <2>2. QED BY <2>1 DEF TreeClaims, Validating
<1>8. CASE AgainStep
  BY <1>8, AgainIs DEF AgainStep, Returning
<1>9. CASE DoneStep
  BY <1>9, DoneIs DEF DoneStep, Returning
<1>10. QED BY <1>1, <1>2, <1>3, <1>4, <1>5, <1>6, <1>7, <1>8, <1>9 DEF WalkStep

\* Every name a frame has is a row's, with what it means there, and every row's name a frame has.
FrameHasRows(f, rows) == \A n \in DOMAIN f.flat : \E row \in rows : row.name = f.prefix \o n /\ row.of = f.flat[n]
RowIn(row, f) == \E n \in DOMAIN f.flat : row.name = f.prefix \o n

HasRow == \A i \in 1..Len(walk.stack) : FrameHasRows(walk.stack[i], walk.tree)
HasName == \A row \in walk.tree : \E i \in 1..Len(walk.stack) : RowIn(row, walk.stack[i])

TreeViews ==
  /\ walk.phase \in {"idle", "validate"} => walk.tree = {}
  /\ walk.phase = "merge" => HasRow /\ HasName
  /\ FlatShowsWhatWasRead

\* Rows are of the prefix and the workspaces of a frame, and stay when others come.
LEMMA RowsOfFrames ==
  ASSUME NEW f, NEW g, f.prefix = g.prefix, f.flat = g.flat
  PROVE  /\ \A rows : FrameHasRows(f, rows) <=> FrameHasRows(g, rows)
         /\ \A row : RowIn(row, f) <=> RowIn(row, g)
BY Zenon DEF FrameHasRows, RowIn

LEMMA RowsStay == \A f, S, T : S \subseteq T /\ FrameHasRows(f, S) => FrameHasRows(f, T)
BY Zenon DEF FrameHasRows

\* Frames that keep their prefixes and workspaces keep their rows.
LEMMA SameRows ==
  ASSUME HasRow, HasName, walk'.tree = walk.tree, Len(walk'.stack) = Len(walk.stack),
         \A i \in 1..Len(walk.stack) : walk'.stack[i].prefix = walk.stack[i].prefix /\ walk'.stack[i].flat = walk.stack[i].flat
  PROVE  HasRow' /\ HasName'
<1> DEFINE s == walk.stack
           t == walk'.stack
           D == 1..Len(walk.stack)
<1>1. /\ \A i \in D : FrameHasRows(s[i], walk.tree)
      /\ \A row \in walk.tree : \E i \in D : RowIn(row, s[i])
      /\ \A i \in D : t[i].prefix = s[i].prefix /\ t[i].flat = s[i].flat
  BY DEF HasRow, HasName
<1>2. 1..Len(t) = D
  OBVIOUS
<1> HIDE DEF s, t, D
<1>3. (\A i \in D : FrameHasRows(t[i], walk.tree)) /\ \A row \in walk.tree : \E i \in D : RowIn(row, t[i])
  BY <1>1, RowsOfFrames
<1>4. QED BY <1>2, <1>3 DEF HasRow, HasName, t

LEMMA WalkKeepsViews ==
  ASSUME TreeTypes, TreeChain, TreeViews, WalkStep, files' = files
  PROVE  TreeViews'
<1> DEFINE e == walk.entering
           s == walk.stack
           t == walk'.stack
<1> SUFFICES /\ walk'.phase \in {"idle", "validate"} => walk'.tree = {}
             /\ walk'.phase = "merge" => HasRow' /\ HasName'
             /\ FlatShowsWhatWasRead'
  BY DEF TreeViews
<1>1. walk \in Walks /\ s \in Seq(Frames) /\ Len(s) \in Nat
  BY DEF TreeTypes, Walks
<1>2. walk'.phase # "loaded" => FlatShowsWhatWasRead'
  BY DEF FlatShowsWhatWasRead
<1>3. CASE BeginStep
  <2>1. walk'.tree = {} /\ walk'.phase = "validate"
    BY <1>3, BegunIs DEF BeginStep
  <2>2. QED BY <1>2, <2>1
<1>4. CASE StopStep
  <2>1. walk'.phase = "refused"
    BY <1>4, StoppedIs DEF StopStep
  <2>2. QED BY <1>2, <2>1
<1>5. CASE DropStep
  <2>1. walk'.phase = walk.phase /\ t = s /\ walk'.tree = walk.tree /\ walk'.phase # "loaded"
    BY <1>5, UnclaimedIs DEF DropStep, Reading, Walking
  <2>2. walk'.phase = "merge" => HasRow' /\ HasName'
    BY <2>1, SameRows DEF TreeViews
  <2>3. QED BY <1>2, <2>1, <2>2 DEF TreeViews
<1>6. CASE EnterStep
  <2> DEFINE frame == NewFrame(e, Here, Content)
             rows == {[name |-> e.prefix \o n, of |-> <<Here, n>>, under |-> e.prefix] : n \in Content.spaces}
             k == Len(s)
  <2>1. /\ walk'.phase = walk.phase /\ t = Append(s, frame) /\ walk'.phase # "loaded"
        /\ walk'.tree = IF Validating THEN walk.tree ELSE walk.tree \union rows
    BY <1>6, EnteredIs DEF EnterStep, Reading, Walking
  <2>2. frame \in Frames
    BY <1>6, ContentIs DEF EnterStep, Reading
  <2>3. frame.prefix = e.prefix /\ frame.flat = [n \in Content.spaces |-> <<Here, n>>]
    BY DEF NewFrame
  <2>4. Len(t) = k + 1 /\ t[k+1] = frame /\ \A i \in 1..k : t[i] = s[i]
    <3> HIDE DEF frame, t
    <3>1. QED BY <1>1, <2>1, <2>2, AppendProperties
  <2>5. ASSUME walk.phase = "merge" PROVE HasRow' /\ HasName'
    <3>1. walk'.tree = walk.tree \union rows /\ HasRow /\ HasName
      BY <2>1, <2>5 DEF Validating, TreeViews
    <3>2. 1..(k+1) = (1..k) \union {k+1}
      BY <1>1
    <3>3. (\A i \in 1..k : FrameHasRows(s[i], walk.tree)) /\ \A row \in walk.tree : \E i \in 1..k : RowIn(row, s[i])
      BY <3>1 DEF HasRow, HasName
    <3>4. FrameHasRows(frame, rows) /\ \A row \in rows : RowIn(row, frame)
      <4>1. DOMAIN frame.flat = Content.spaces /\ \A n \in Content.spaces : frame.flat[n] = <<Here, n>>
        BY <2>3
      <4>2. \A n \in Content.spaces : \E row \in rows : row.name = e.prefix \o n /\ row.of = <<Here, n>>
        <5> DEFINE R(n) == [name |-> e.prefix \o n, of |-> <<Here, n>>, under |-> e.prefix]
        <5>1. \A n \in Content.spaces : R(n) \in rows
          OBVIOUS
        <5>2. \A n \in Content.spaces : R(n).name = e.prefix \o n /\ R(n).of = <<Here, n>>
          OBVIOUS
        <5> HIDE DEF R, rows
        <5>3. QED BY <5>1, <5>2, Zenon
      <4>3. \A row \in rows : \E n \in Content.spaces : row.name = e.prefix \o n
        OBVIOUS
      <4> HIDE DEF frame, rows, Here, Content
      <4>4. FrameHasRows(frame, rows)
        BY <2>3, <4>1, <4>2, Zenon DEF FrameHasRows
      <4>5. \A row \in rows : RowIn(row, frame)
        BY <2>3, <4>1, <4>3, Zenon DEF RowIn
      <4>6. QED BY <4>4, <4>5
    <3> DEFINE D == 1..k
               z == k + 1
               T == walk'.tree
    <3> HIDE DEF frame, rows, k, t, s, D, z, T
    <3>5. (\A i \in D \union {z} : FrameHasRows(t[i], T)) /\ \A row \in T : \E i \in D \union {z} : RowIn(row, t[i])
      <4>1. t[z] = frame /\ (\A i \in D : t[i] = s[i]) /\ T = walk.tree \union rows
        BY <2>4, <3>1 DEF D, z, T
      <4>2. walk.tree \subseteq T /\ rows \subseteq T
        BY <4>1
      <4>3. \A i \in D \union {z} : FrameHasRows(t[i], T)
        BY <3>3, <3>4, <4>1, <4>2, RowsStay DEF D
      <4>4. \A row \in T : \E i \in D \union {z} : RowIn(row, t[i])
        BY <3>3, <3>4, <4>1 DEF D
      <4>5. QED BY <4>3, <4>4
    <3>6. 1..Len(t) = D \union {z}
      BY <2>4, <3>2 DEF D, z
    <3>7. QED BY <3>5, <3>6 DEF HasRow, HasName, t, T
  <2>6. walk.phase = "validate" => walk'.tree = {}
    BY <2>1 DEF TreeViews, Validating
  <2>7. walk.phase # "idle"
    BY <1>6 DEF EnterStep, Reading, Walking
  <2>8. QED BY <1>2, <2>1, <2>5, <2>6, <2>7
<1>7. CASE SkipStep \/ ClaimStep
  <2> DEFINE n == Len(s)
             x == [Top EXCEPT !.todo = @ \ {Kid}]
  <2>1. s # <<>> /\ Top.todo # {} /\ walk.phase # "loaded"
    BY <1>7 DEF SkipStep, ClaimStep, Looping, Walking
  <2>2. walk'.phase = walk.phase /\ walk'.tree = walk.tree /\ t = Skipped.stack
    BY <1>7, <2>1, SkippedIs, ClaimedIs DEF SkipStep, ClaimStep
  <2>3. Len(t) = n /\ (\A i \in 1..(n-1) : t[i] = s[i]) /\ t[n] = x
    BY <2>1, <2>2, SkippedIs
  <2>4. n \in Nat /\ n >= 1 /\ Top = s[n] /\ Top \in Frames
    BY <2>1, TopIs
  <2>5. x.prefix = Top.prefix /\ x.flat = Top.flat
    BY <2>4 DEF Frames
  <2> HIDE DEF x, t, s
  <2>6. \A i \in 1..n : t[i].prefix = s[i].prefix /\ t[i].flat = s[i].flat
    <3>1. \A i \in 1..n : i \in 1..(n-1) \/ i = n
      BY <2>4
    <3>2. QED BY <2>3, <2>4, <2>5, <3>1
  <2>7. walk'.phase = "merge" => HasRow' /\ HasName'
    BY <2>2, <2>3, <2>6, SameRows DEF TreeViews, s, t
  <2>8. QED BY <1>2, <2>1, <2>2, <2>7 DEF TreeViews
<1>8. CASE PopStep
  <2> DEFINE n == Len(s) - 1
             above == s[n]
             m == MergedInto(above.flat, Top)
             x == [above EXCEPT !.flat = m]
             T == walk.tree
  <2>1. s # <<>> /\ walk.phase # "loaded" /\ Walking /\ Below # <<>> /\ walk' = Popped
    BY <1>8 DEF PopStep, Returning, Walking
  <2>2. /\ walk'.phase = walk.phase /\ walk'.tree = T /\ n >= 1
        /\ Len(t) = n /\ (\A i \in 1..(n-1) : t[i] = s[i]) /\ t[n] = x
    BY <2>1, PoppedIs
  <2>3. n \in Nat /\ n \in 1..Len(s) /\ n + 1 = Len(s) /\ Len(s) \in 1..Len(s) /\ n \in 1..(Len(s)-1)
        /\ \A i \in 1..(n-1) : i \in 1..Len(s)
    BY <1>1, <2>2
  <2>4. Top = s[n+1] /\ Top \in Frames /\ above \in Frames /\ Top.prefix = above.prefix \o Top.mount
    <3>1. Top = s[Len(s)] /\ Top \in Frames
      BY <2>1, TopIs
    <3>2. s[n+1].prefix = s[n].prefix \o s[n+1].mount
      BY <2>1, <2>3 DEF TreeChain
    <3> HIDE DEF n
    <3>3. s[n] \in Frames
      BY <1>1, <2>3
    <3>4. QED BY <2>3, <3>1, <3>2, <3>3
  <2>5. x.prefix = above.prefix /\ x.flat = m
    <3> HIDE DEF m, above
    <3>1. QED BY <2>4 DEF Frames
  <2>6. above.flat \in Flats /\ Top.flat \in Flats /\ above.prefix \in Names /\ Top.mount \in Names
    <3> HIDE DEF above
    <3>1. QED BY <2>4 DEF Frames
  <2>7. /\ DOMAIN m = DOMAIN above.flat \union {Top.mount \o j : j \in DOMAIN Top.flat}
        /\ \A j \in DOMAIN above.flat : m[j] = above.flat[j]
        /\ \A j \in DOMAIN m \ DOMAIN above.flat : \E k \in DOMAIN Top.flat : j = Top.mount \o k /\ m[j] = Top.flat[k]
    <3> HIDE DEF above
    <3>1. QED BY <2>4, <2>6, MergedIs DEF m
  <2>8. \A k \in DOMAIN Top.flat : Top.prefix \o k = above.prefix \o (Top.mount \o k)
    <3>1. \A k \in DOMAIN Top.flat : k \in Names
      BY <2>6 DEF Flats
    <3> HIDE DEF above
    <3> DEFINE a == above.prefix
               b == Top.mount
    <3>2. a \in Seq(Parts) /\ b \in Seq(Parts) /\ Top.prefix = a \o b /\ \A k \in DOMAIN Top.flat : k \in Seq(Parts)
      BY <2>4, <2>6, <3>1 DEF Names
    <3> HIDE DEF a, b
    <3>3. \A k \in DOMAIN Top.flat : (a \o b) \o k = a \o (b \o k)
      BY <3>2, ConcatAssociative
    <3>4. QED BY <3>2, <3>3 DEF a, b
  <2>9. ASSUME walk.phase = "merge" PROVE HasRow' /\ HasName'
    <3>1. (\A i \in 1..Len(s) : FrameHasRows(s[i], T)) /\ \A row \in T : \E i \in 1..Len(s) : RowIn(row, s[i])
      BY <2>9 DEF TreeViews, HasRow, HasName
    <3>2. /\ \A i \in 1..n : i \in 1..(n-1) \/ i = n
          /\ \A i \in 1..Len(s) : i \in 1..(n-1) \/ i = n \/ i = n + 1
          /\ \A i \in 1..(n-1) : i \in 1..n
          /\ n \in 1..n
      BY <2>2, <2>3
    <3> HIDE DEF n, above, m, x, T, s, t
    <3>3. s[n] = above
      BY DEF above
    <3>4. FrameHasRows(above, T) /\ FrameHasRows(Top, T)
      BY <2>3, <2>4, <3>1, <3>3
    <3>5. FrameHasRows(x, T)
      <4>1. ASSUME NEW j \in DOMAIN m
            PROVE  \E row \in T : row.name = above.prefix \o j /\ row.of = m[j]
        <5>1. CASE j \in DOMAIN above.flat
          <6>1. PICK row \in T : row.name = above.prefix \o j /\ row.of = above.flat[j]
            BY <3>4, <5>1 DEF FrameHasRows
          <6>2. m[j] = above.flat[j]
            BY <2>7, <5>1
          <6>3. QED BY <6>1, <6>2
        <5>2. CASE j \notin DOMAIN above.flat
          <6>1. PICK k \in DOMAIN Top.flat : j = Top.mount \o k /\ m[j] = Top.flat[k]
            BY <2>7, <4>1, <5>2
          <6>2. PICK row \in T : row.name = Top.prefix \o k /\ row.of = Top.flat[k]
            BY <3>4 DEF FrameHasRows
          <6>3. row.name = above.prefix \o j
            BY <2>8, <6>1, <6>2
          <6>4. QED BY <6>1, <6>2, <6>3
        <5>3. QED BY <5>1, <5>2
      <4>2. QED BY <2>5, <4>1, Zenon DEF FrameHasRows
    <3>6. \A row : RowIn(row, above) \/ RowIn(row, Top) => RowIn(row, x)
      <4>1. ASSUME NEW row, NEW j \in DOMAIN above.flat, row.name = above.prefix \o j PROVE RowIn(row, x)
        <5>1. j \in DOMAIN x.flat /\ row.name = x.prefix \o j
          BY <2>5, <2>7, <4>1
        <5>2. QED BY <5>1 DEF RowIn
      <4>2. ASSUME NEW row, NEW j \in DOMAIN Top.flat, row.name = Top.prefix \o j PROVE RowIn(row, x)
        <5>1. Top.mount \o j \in DOMAIN x.flat /\ row.name = x.prefix \o (Top.mount \o j)
          BY <2>5, <2>7, <2>8, <4>2
        <5>2. QED BY <5>1, Zenon DEF RowIn
      <4>3. QED BY <4>1, <4>2 DEF RowIn
    <3>7. \A i \in 1..n : FrameHasRows(t[i], T)
      BY <2>2, <2>3, <3>1, <3>2, <3>5
    <3>8. ASSUME NEW row \in T PROVE \E i \in 1..n : RowIn(row, t[i])
      <4>1. PICK i \in 1..Len(s) : RowIn(row, s[i])
        BY <3>1
      <4>2. CASE i \in 1..(n-1)
        <5>1. t[i] = s[i] /\ i \in 1..n
          BY <2>2, <3>2, <4>2
        <5>2. QED BY <4>1, <5>1
      <4>3. CASE i = n \/ i = n + 1
        <5>1. RowIn(row, t[n])
          BY <2>2, <2>4, <3>3, <3>6, <4>1, <4>3
        <5>2. QED BY <3>2, <5>1
      <4>4. QED BY <3>2, <4>2, <4>3
    <3>9. Len(t) = n /\ walk'.tree = T
      BY <2>2
    <3>10. QED BY <3>7, <3>8, <3>9 DEF HasRow, HasName, t
  <2>10. walk.phase # "idle"
    BY <2>1 DEF Walking
  <2>11. QED BY <1>2, <2>1, <2>2, <2>9, <2>10 DEF TreeViews
<1>9. CASE AgainStep
  <2>1. s # <<>> /\ walk'.phase = "merge" /\ t = <<>> /\ walk'.tree = walk.tree /\ Validating
    BY <1>9, AgainIs DEF AgainStep, Returning
  <2>2. walk'.tree = {}
    BY <2>1 DEF TreeViews, Validating
  <2>3. HasRow' /\ HasName'
    BY <2>1, <2>2 DEF HasRow, HasName
  <2>4. QED BY <1>2, <2>1, <2>3
<1>10. CASE DoneStep
  <2> DEFINE T == walk.tree
             f == Top.flat
  <2>1. s # <<>> /\ Below = <<>> /\ walk.phase = "merge"
    BY <1>10 DEF DoneStep, Returning, Walking, Validating
  <2>2. walk'.phase = "loaded" /\ walk'.tree = T /\ walk'.flat = f
    BY <1>10, <2>1, DoneIs DEF DoneStep
  <2>3. Top \in Frames /\ Top = s[Len(s)] /\ Len(s) = 1
    BY <1>1, <2>1, TopIs
  <2>4. Top.prefix = <<>> /\ f \in Flats
    <3>1. s[1].prefix = <<>>
      BY <2>1 DEF TreeChain, Walking
    <3>2. QED BY <2>3, <3>1 DEF Frames
  <2>5. \A n \in DOMAIN f : <<>> \o n = n
    <3>1. \A n \in DOMAIN f : n \in Seq(Parts)
      BY <2>4 DEF Flats, Names
    <3>2. QED BY <3>1, ConcatEmptySeq
  <2>6. /\ \A n \in DOMAIN f : \E row \in T : row.name = n /\ row.of = f[n]
        /\ \A row \in T : row.name \in DOMAIN f
    <3>1. HasRow /\ HasName
      BY <2>1 DEF TreeViews
    <3>2. 1..Len(s) = {1}
      BY <2>3
    <3>3. Top = s[1]
      BY <2>3
    <3>4. FrameHasRows(Top, T) /\ \A row \in T : RowIn(row, Top)
      BY <3>1, <3>2, <3>3 DEF HasRow, HasName
    <3>5. /\ \A n \in DOMAIN f : \E row \in T : row.name = <<>> \o n /\ row.of = f[n]
          /\ \A row \in T : \E n \in DOMAIN f : row.name = <<>> \o n
      BY <2>4, <3>4, Zenon DEF FrameHasRows, RowIn
    <3> HIDE DEF f, T
    <3>6. QED BY <2>5, <3>5
  <2> HIDE DEF T, f
  <2>7. DOMAIN f = {row.name : row \in T}
    BY <2>6
  <2>8. \A row \in T : (\A r2 \in T : r2.name = row.name => r2 = row) => f[row.name] = row.of
    BY <2>6
  <2>9. FlatShowsWhatWasRead'
    BY <2>2, <2>7, <2>8 DEF FlatShowsWhatWasRead, Shows
  <2>10. QED BY <2>2, <2>9
<1>11. QED BY <1>3, <1>4, <1>5, <1>6, <1>7, <1>8, <1>9, <1>10 DEF WalkStep

\* The names of the projects that were read, and the children that are still to be looked for.
MarkedNames == {k.names : k \in walk.mounts}
FreshFor(x) == \A i \in 1..Len(walk.stack) : \A c \in walk.stack[i].todo : x # Append(walk.stack[i].names, c)
EntryOrder ==
  /\ Len(walk.entering.names) = Len(walk.stack) /\ walk.entering.names \notin MarkedNames
  /\ walk.stack = <<>> => walk.entering.names = <<>>
  /\ walk.stack # <<>> => \E c \in Parts : walk.entering.names = Append(Top.names, c)
  /\ FreshFor(walk.entering.names)

\* No project is read twice by the same names, and none before its parent.
TreeOrder ==
  Validating =>
    /\ \A i \in 1..Len(walk.stack) : Len(walk.stack[i].names) = i - 1 /\ walk.stack[i].names \in MarkedNames
    /\ \A x \in MarkedNames : FreshFor(x)
    /\ \A x \in MarkedNames : x = <<>> \/ \E y \in MarkedNames : \E c \in Parts : x = Append(y, c)
    /\ walk.entering # NoEntry => EntryOrder

\* Frames that go away, and children that were looked for, leave the rest as it was.
LEMMA OrderFollows ==
  ASSUME TreeOrder, walk.phase = "validate", walk'.mounts = walk.mounts,
         Len(walk.stack) \in Nat, Len(walk'.stack) \in Nat, Len(walk'.stack) <= Len(walk.stack),
         \A i \in 1..Len(walk'.stack) :
           walk'.stack[i].names = walk.stack[i].names /\ walk'.stack[i].todo \subseteq walk.stack[i].todo,
         walk'.entering # NoEntry => EntryOrder'
  PROVE  TreeOrder' /\ \A x : FreshFor(x) => FreshFor(x)'
<1> DEFINE s == walk.stack
           t == walk'.stack
           D == 1..Len(walk.stack)
           C == 1..Len(walk'.stack)
<1>1. MarkedNames' = MarkedNames
  BY DEF MarkedNames
<1>2. /\ \A i \in D : Len(s[i].names) = i - 1 /\ s[i].names \in MarkedNames
      /\ \A x \in MarkedNames : FreshFor(x)
      /\ \A x \in MarkedNames : x = <<>> \/ \E y \in MarkedNames : \E c \in Parts : x = Append(y, c)
  BY DEF TreeOrder, Validating
<1>3. \A i \in C : i \in D /\ t[i].names = s[i].names /\ t[i].todo \subseteq s[i].todo
  OBVIOUS
<1>4. \A x : FreshFor(x) <=> \A i \in D : \A c \in s[i].todo : x # Append(s[i].names, c)
  BY DEF FreshFor
<1>5. \A x : FreshFor(x)' <=> \A i \in C : \A c \in t[i].todo : x # Append(t[i].names, c)
  BY DEF FreshFor
<1> HIDE DEF s, t, D, C
<1>6. \A x : FreshFor(x) => FreshFor(x)'
  <2>1. ASSUME NEW x, FreshFor(x), NEW i \in C, NEW c \in t[i].todo PROVE x # Append(t[i].names, c)
    <3>1. i \in D /\ c \in s[i].todo /\ t[i].names = s[i].names
      BY <1>3, <2>1
    <3>2. x # Append(s[i].names, c)
      BY <1>4, <2>1, <3>1
    <3>3. QED BY <3>1, <3>2
  <2>2. QED BY <1>5, <2>1
<1>7. \A i \in C : Len(t[i].names) = i - 1 /\ t[i].names \in MarkedNames
  BY <1>2, <1>3
<1> HIDE DEF MarkedNames, FreshFor, EntryOrder
<1>8. \A x \in MarkedNames' : FreshFor(x)'
  BY <1>1, <1>2, <1>6
<1>9. \A x \in MarkedNames' : x = <<>> \/ \E y \in MarkedNames' : \E c \in Parts : x = Append(y, c)
  BY <1>1, <1>2
<1>10. \A i \in C : Len(t[i].names) = i - 1 /\ t[i].names \in MarkedNames'
  BY <1>1, <1>7
<1>11. TreeOrder'
  BY <1>8, <1>9, <1>10 DEF TreeOrder, C, t
<1>12. QED BY <1>6, <1>11

LEMMA WalkKeepsOrder ==
  ASSUME TreeTypes, TreeTypes', TreeOrder, WalkStep, files' = files
  PROVE  TreeOrder'
<1> DEFINE e == walk.entering
           s == walk.stack
           t == walk'.stack
<1> SUFFICES ASSUME walk'.phase = "validate" PROVE TreeOrder'
  BY DEF TreeOrder, Validating
<1>1. walk \in Walks /\ s \in Seq(Frames) /\ Len(s) \in Nat /\ t \in Seq(Frames) /\ Len(t) \in Nat
  BY DEF TreeTypes, Walks
<1>2. CASE BeginStep
  <2>1. walk'.mounts = {} /\ t = <<>> /\ walk'.entering = RootEntry
    BY <1>2, BegunIs DEF BeginStep
  <2>2. MarkedNames' = {} /\ Len(t) = 0
    BY <2>1 DEF MarkedNames
  <2>3. walk'.entering.names = <<>> /\ Len(walk'.entering.names) = 0
    BY <2>1, RootEntryIs
  <2>4. EntryOrder'
    BY <2>1, <2>2, <2>3 DEF EntryOrder, FreshFor
  <2>5. QED BY <2>2, <2>4 DEF TreeOrder
<1>3. CASE StopStep
  BY <1>3, StoppedIs DEF StopStep
<1>4. CASE DropStep
  <2>1. walk.phase = "validate" /\ walk'.mounts = walk.mounts /\ t = s /\ walk'.entering = NoEntry
    BY <1>4, UnclaimedIs DEF DropStep
  <2>2. QED BY <1>1, <2>1, OrderFollows
<1>5. CASE EnterStep
  <2> DEFINE frame == NewFrame(e, Here, Content)
             mark == [phase |-> walk.phase, names |-> e.names, path |-> e.path, prefix |-> e.prefix]
             k == Len(s)
             x == e.names
             M == MarkedNames
  <2>1. /\ walk.phase = "validate" /\ walk'.mounts = walk.mounts \union {mark} /\ t = Append(s, frame)
        /\ walk'.entering = NoEntry /\ walk.entering # NoEntry
    BY <1>5, EnteredIs DEF EnterStep, Reading
  <2>2. frame \in Frames /\ e \in Openings /\ DOMAIN Content.children \subseteq ToSet(ChildOrder)
    BY <1>5, ContentIs DEF EnterStep, Reading
  <2>3. frame.names = x /\ frame.todo = DOMAIN Content.children
    BY DEF NewFrame
  <2>4. x \in Seq(Parts) /\ \A c \in frame.todo : c \in Parts
    BY <2>2, <2>3, ChildNamesAreParts DEF Openings, Names
  <2>5. Len(t) = k + 1 /\ t[k+1] = frame /\ \A i \in 1..k : t[i] = s[i]
    <3> HIDE DEF frame, t
    <3>1. QED BY <1>1, <2>1, <2>2, AppendProperties
  <2>6. MarkedNames' = M \union {x}
    <3>1. mark.names = x
      OBVIOUS
    <3> HIDE DEF mark
    <3>2. QED BY <2>1, <3>1 DEF MarkedNames
  <2>7. /\ \A i \in 1..k : Len(s[i].names) = i - 1 /\ s[i].names \in M
        /\ \A y \in M : FreshFor(y)
        /\ \A y \in M : y = <<>> \/ \E z \in M : \E c \in Parts : y = Append(z, c)
        /\ EntryOrder
    BY <2>1 DEF TreeOrder, Validating
  <2>8. /\ Len(x) = k /\ x \notin M /\ FreshFor(x)
        /\ s = <<>> => x = <<>>
        /\ s # <<>> => \E c \in Parts : x = Append(Top.names, c)
    BY <2>7 DEF EntryOrder
  <2>9. s # <<>> => Top.names \in M
    <3>1. ASSUME s # <<>> PROVE Top = s[k] /\ k \in 1..k
      BY <3>1, TopIs
    <3>2. QED BY <2>7, <3>1
  <2>10. M \in SUBSET Seq(Parts)
    BY <1>1 DEF MarkedNames, Walks, Marks, Names
  <2>11. \A y \in M \union {x} : \A c \in frame.todo : y # Append(x, c)
    <3> SUFFICES ASSUME NEW y \in M \union {x}, NEW c \in frame.todo, y = Append(x, c) PROVE FALSE
      OBVIOUS
    <3>1. c \in Parts
      BY <2>4
    <3>2. Len(y) = Len(x) + 1 /\ y # <<>>
      BY <2>4, <3>1, AppendProperties
    <3>3. y # x
      BY <2>4, <3>2
    <3>4. PICK z \in M : \E d \in Parts : y = Append(z, d)
      BY <2>7, <3>2, <3>3
    <3>5. PICK d \in Parts : y = Append(z, d)
      BY <3>4
    <3>6. z \in Seq(Parts)
      BY <2>10
    <3> HIDE DEF x, M
    <3>7. z = x
      <4>1. Append(x, c) = Append(z, d)
        BY <3>5
      <4>2. QED BY <2>4, <3>1, <3>6, <4>1, AppendInjective
    <3>8. QED BY <2>8, <3>7
  <2>12. 1..(k+1) = (1..k) \union {k+1} /\ (k + 1) - 1 = k
    BY <1>1
  <2>13. \A y : FreshFor(y) <=> \A i \in 1..k : \A c \in s[i].todo : y # Append(s[i].names, c)
    BY DEF FreshFor
  <2>14. \A y : FreshFor(y)' <=> \A i \in 1..Len(t) : \A c \in t[i].todo : y # Append(t[i].names, c)
    BY DEF FreshFor
  <2> HIDE DEF k, x, M, frame, t, s
  <2>15. \A y \in M \union {x} : FreshFor(y)'
    <3> SUFFICES ASSUME NEW y \in M \union {x}, NEW i \in 1..Len(t), NEW c \in t[i].todo PROVE y # Append(t[i].names, c)
      BY <2>14
    <3>1. CASE i \in 1..k
      <4>1. t[i] = s[i] /\ FreshFor(y)
        BY <2>5, <2>7, <2>8, <3>1
      <4>2. QED BY <2>13, <3>1, <4>1
    <3>2. CASE i = k + 1
      <4>1. t[i].names = x /\ c \in frame.todo
        BY <2>3, <2>5, <3>2
      <4>2. QED BY <2>11, <4>1
    <3>3. QED BY <2>5, <2>12, <3>1, <3>2
  <2>16. \A i \in 1..Len(t) : Len(t[i].names) = i - 1 /\ t[i].names \in M \union {x}
    <3> SUFFICES ASSUME NEW i \in 1..Len(t) PROVE Len(t[i].names) = i - 1 /\ t[i].names \in M \union {x}
      OBVIOUS
    <3>1. CASE i \in 1..k
      BY <2>5, <2>7, <3>1
    <3>2. CASE i = k + 1
      BY <2>3, <2>5, <2>8, <2>12, <3>2
    <3>3. QED BY <2>5, <2>12, <3>1, <3>2
  <2>17. \A y \in M \union {x} : y = <<>> \/ \E z \in M \union {x} : \E c \in Parts : y = Append(z, c)
    <3>1. x = <<>> \/ \E z \in M : \E c \in Parts : x = Append(z, c)
      BY <2>8, <2>9
    <3>2. QED BY <2>7, <3>1, Zenon
  <2> DEFINE N == MarkedNames'
  <2>18. N = M \union {x}
    BY <2>6
  <2> HIDE DEF N
  <2>19. /\ \A i \in 1..Len(t) : Len(t[i].names) = i - 1 /\ t[i].names \in N
         /\ \A y \in N : FreshFor(y)'
         /\ \A y \in N : y = <<>> \/ \E z \in N : \E c \in Parts : y = Append(z, c)
    BY <2>15, <2>16, <2>17, <2>18
  <2> HIDE DEF FreshFor, EntryOrder
  <2>20. QED BY <2>1, <2>19 DEF TreeOrder, t, N
<1>6. CASE SkipStep \/ ClaimStep
  <2> DEFINE n == Len(s)
             f == [Top EXCEPT !.todo = @ \ {Kid}]
             x == Append(Top.names, Kid)
  <2>1. s # <<>> /\ Top.todo # {} /\ walk.entering = NoEntry
    BY <1>6 DEF SkipStep, ClaimStep, Looping
  <2>2. /\ walk.phase = "validate" /\ walk'.mounts = walk.mounts /\ t = Skipped.stack
        /\ walk'.entering = NoEntry \/ walk'.entering = KidEntry
    BY <1>6, <2>1, SkippedIs, ClaimedIs DEF SkipStep, ClaimStep
  <2>3. Len(t) = n /\ (\A i \in 1..(n-1) : t[i] = s[i]) /\ t[n] = f
    BY <2>1, <2>2, SkippedIs
  <2>4. n \in Nat /\ n >= 1 /\ Top = s[n] /\ Top \in Frames /\ n \in 1..n
    BY <2>1, TopIs
  <2>5. f.names = Top.names /\ f.todo = Top.todo \ {Kid}
    BY <2>4 DEF Frames
  <2>6. \A i \in 1..n : i \in 1..(n-1) \/ i = n
    BY <2>4
  <2> HIDE DEF f, n, s, t
  <2>7. \A i \in 1..Len(t) : t[i].names = s[i].names /\ t[i].todo \subseteq s[i].todo
    BY <2>3, <2>4, <2>5, <2>6
  <2>8. /\ \A i \in 1..n : Len(s[i].names) = i - 1 /\ s[i].names \in MarkedNames
        /\ \A y \in MarkedNames : FreshFor(y)
    BY <2>2 DEF TreeOrder, Validating, s, n
  <2>9. Kid \in Top.todo /\ Kid \in Parts /\ Top.names \in Seq(Parts)
    BY <2>1, <2>4, KidIs DEF Frames, Names, s
  <2>10. Len(x) = n
    <3>1. Len(x) = Len(Top.names) + 1
      BY <2>9, AppendProperties
    <3>2. Len(Top.names) = n - 1
      BY <2>4, <2>8
    <3>3. QED BY <2>4, <3>1, <3>2
  <2>11. x \notin MarkedNames
    BY <2>4, <2>8, <2>9 DEF FreshFor, s, n
  <2>12. \A i \in 1..Len(t) : \A c \in t[i].todo : x # Append(t[i].names, c)
    <3> SUFFICES ASSUME NEW i \in 1..n, NEW c \in t[i].todo, x = Append(t[i].names, c) PROVE FALSE
      BY <2>3
    <3>1. t[i] \in Frames
      BY <1>1, <2>3
    <3>2. t[i].names \in Seq(Parts) /\ c \in Parts /\ t[i].names = s[i].names
      BY <2>3, <2>7, <3>1, ChildNamesAreParts DEF Frames, Names
    <3>3. Len(x) = Len(s[i].names) + 1
      BY <3>2, AppendProperties
    <3>4. i = n
      BY <2>4, <2>8, <2>10, <3>3
    <3>5. c # Kid /\ t[i].names = Top.names
      BY <2>3, <2>4, <2>5, <3>4
    <3> DEFINE a == Top.names
               b == Kid
    <3>6. a \in Seq(Parts) /\ b \in Parts /\ c \in Parts /\ Append(a, b) = Append(a, c) /\ c # b
      BY <2>9, <3>2, <3>5
    <3> HIDE DEF a, b, x
    <3>7. QED BY <3>6, AppendInjective
  <2>13. ASSUME walk'.entering = KidEntry PROVE EntryOrder'
    <3>1. walk'.entering.names = x
      BY <2>13 DEF KidEntry
    <3>2. walk'.stack # <<>> /\ Top'.names = Top.names
      <4>1. t # <<>> /\ Last(t) = t[n]
        BY <1>1, <2>3, <2>4 DEF Last
      <4>2. QED BY <2>3, <2>5, <4>1 DEF Top, t
    <3>3. MarkedNames' = MarkedNames
      BY <2>2 DEF MarkedNames
    <3>5. Len(walk'.entering.names) = Len(walk'.stack)
      BY <2>3, <2>10, <3>1 DEF t
    <3>6. \E c \in Parts : walk'.entering.names = Append(Top'.names, c)
      BY <2>9, <3>1, <3>2
    <3>7. FreshFor(walk.entering.names)'
      BY <2>12, <3>1 DEF FreshFor, t
    <3>8. (walk.entering.names \notin MarkedNames)'
      BY <2>11, <3>1, <3>3
    <3> HIDE DEF MarkedNames, FreshFor, x
    <3>9. QED BY <3>2, <3>5, <3>6, <3>7, <3>8 DEF EntryOrder
  <2>14. Len(t) <= Len(s)
    BY <2>3, <2>4 DEF n
  <2>15. walk'.entering # NoEntry => EntryOrder'
    BY <2>2, <2>13
  <2>16. QED BY <1>1, <2>2, <2>7, <2>14, <2>15, OrderFollows DEF s, t
<1>7. CASE PopStep
  <2> DEFINE n == Len(s) - 1
             f == [s[n] EXCEPT !.flat = MergedInto(@, Top)]
  <2>1. s # <<>> /\ Below # <<>> /\ walk.entering = NoEntry /\ walk' = Popped
    BY <1>7 DEF PopStep, Returning
  <2>2. /\ walk.phase = "validate" /\ walk'.mounts = walk.mounts /\ walk'.entering = NoEntry /\ n >= 1
        /\ Len(t) = n /\ (\A i \in 1..(n-1) : t[i] = s[i]) /\ t[n] = f
    BY <2>1, PoppedIs
  <2>3. n \in Nat /\ n \in 1..Len(s) /\ n <= Len(s) /\ \A i \in 1..n : i \in 1..(n-1) \/ i = n
    BY <1>1, <2>2
  <2>4. f.names = s[n].names /\ f.todo = s[n].todo
    <3> HIDE DEF n
    <3>1. s[n] \in Frames
      BY <1>1, <2>3
    <3>2. QED BY <3>1 DEF Frames
  <2> HIDE DEF f, n, s, t
  <2>5. \A i \in 1..Len(t) : t[i].names = s[i].names /\ t[i].todo \subseteq s[i].todo
    BY <2>2, <2>3, <2>4
  <2>6. Len(t) <= Len(s)
    BY <2>2, <2>3
  <2>7. QED BY <1>1, <2>2, <2>5, <2>6, OrderFollows DEF s, t
<1>8. CASE AgainStep
  BY <1>8, AgainIs DEF AgainStep, Returning
<1>9. CASE DoneStep
  BY <1>9, DoneIs DEF DoneStep, Returning
<1>10. QED BY <1>2, <1>3, <1>4, <1>5, <1>6, <1>7, <1>8, <1>9 DEF WalkStep

-----------------------------------------------------------------------------
(* The mounts that a walk is at, while nobody edits the files *)

Way(n) == [j \in 1..n |-> walk.stack[j].path]
FrameMount(i) ==
  [names |-> walk.stack[i].names, path |-> walk.stack[i].path, prefix |-> walk.stack[i].prefix, above |-> Way(i - 1)]
EntryMount ==
  [names |-> walk.entering.names, path |-> walk.entering.path, prefix |-> walk.entering.prefix,
   above |-> Way(Len(walk.stack))]

Quiet == edits = 0 /\ files[Root] # Gone

\* Every frame is at a mount that is not below itself, and has what its file says.
TreePlaces ==
  Quiet /\ Walking =>
    /\ \A i \in 1..Len(walk.stack) : /\ FrameMount(i) \in Mounts /\ ~Contains(Way(i - 1), walk.stack[i].path)
                                     /\ walk.stack[i].config = FileAt(files, FrameMount(i))
    /\ walk.entering # NoEntry => EntryMount \in Mounts
    /\ walk.seen = {walk.stack[i].path : i \in 1..Len(walk.stack)}
    /\ walk.depthCap = Local(files[Root]).depth /\ walk.widthCap = Local(files[Root]).width

\* The frames that stay are where they were.
LEMMA PlacesStay ==
  ASSUME NEW n \in Nat,
         \A j \in 1..n : /\ walk'.stack[j].names = walk.stack[j].names /\ walk'.stack[j].path = walk.stack[j].path
                         /\ walk'.stack[j].prefix = walk.stack[j].prefix
  PROVE  (\A i \in 0..n : Way(i)' = Way(i)) /\ \A i \in 1..n : FrameMount(i)' = FrameMount(i)
<1>1. ASSUME NEW i \in 0..n PROVE Way(i)' = Way(i)
  <2>1. \A j \in 1..i : walk'.stack[j].path = walk.stack[j].path
    OBVIOUS
  <2>2. QED BY <2>1 DEF Way
<1>2. ASSUME NEW i \in 1..n PROVE FrameMount(i)' = FrameMount(i)
  <2>1. i - 1 \in 0..n
    OBVIOUS
  <2>2. [j \in 1..(i-1) |-> walk'.stack[j].path] = [j \in 1..(i-1) |-> walk.stack[j].path]
    OBVIOUS
  <2>3. QED BY <2>2 DEF FrameMount, Way
<1>3. QED BY <1>1, <1>2

\* The way down is a sequence.
LEMMA WayIs ==
  ASSUME TreeTypes, NEW n \in 0..Len(walk.stack)
  PROVE  /\ Way(n) \in Seq(Seq(Projects)) /\ Len(Way(n)) = n /\ \A j \in 1..n : Way(n)[j] = walk.stack[j].path
         /\ n = 0 => Way(n) = <<>>
         /\ n # 0 => Way(n) = Append(Way(n - 1), walk.stack[n].path)
<1>1. walk.stack \in Seq(Frames) /\ Len(walk.stack) \in Nat /\ n \in Nat
  BY DEF TreeTypes, Walks
<1>2. \A j \in 1..n : walk.stack[j].path \in Seq(Projects)
  <2>1. \A j \in 1..n : walk.stack[j] \in Frames
    BY <1>1
  <2>2. QED BY <2>1 DEF Frames
<1> DEFINE P(j) == walk.stack[j].path
           w(k) == [j \in 1..k |-> P(j)]
           S == Seq(Projects)
<1>3. ASSUME NEW k \in 0..n PROVE w(k) \in Seq(S) /\ Len(w(k)) = k /\ \A j \in 1..k : w(k)[j] = P(j)
  <2>1. k \in Nat /\ \A j \in 1..k : P(j) \in S
    BY <1>1, <1>2
  <2> HIDE DEF P, S
  <2>2. QED BY <2>1
<1>4. Way(n) = w(n) /\ Way(n - 1) = w(n - 1)
  BY DEF Way
<1>5. Way(n) \in Seq(S) /\ Len(Way(n)) = n /\ \A j \in 1..n : Way(n)[j] = P(j)
  <2> HIDE DEF w, P, S
  <2>1. n \in 0..n
    BY <1>1
  <2>2. QED BY <1>3, <1>4, <2>1
<1>6. n = 0 => Way(n) = <<>>
  <2> DEFINE a == Way(n)
  <2> HIDE DEF a, S
  <2>1. a \in Seq(S) /\ (n = 0 => Len(a) = 0)
    BY <1>5 DEF a
  <2>2. QED BY <2>1, EmptySeq DEF a
<1>7. ASSUME n # 0 PROVE Way(n) = Append(Way(n - 1), walk.stack[n].path)
  <2> DEFINE a == Way(n)
             b == Way(n - 1)
             c == Append(b, P(n))
  <2>1. n - 1 \in 0..n /\ n \in 1..n
    BY <1>1, <1>7
  <2>2. b \in Seq(S) /\ Len(b) = n - 1 /\ \A j \in 1..(n-1) : b[j] = P(j)
    <3> HIDE DEF w, P, S
    <3>1. QED BY <1>3, <1>4, <2>1
  <2>3. P(n) \in S
    BY <1>2, <2>1
  <2> HIDE DEF S, P, b, a
  <2>4. c \in Seq(S) /\ Len(c) = n /\ c[n] = P(n) /\ \A j \in 1..(n-1) : c[j] = P(j)
    BY <1>1, <2>1, <2>2, <2>3, AppendProperties
  <2>5. a \in Seq(S) /\ Len(a) = n /\ \A j \in 1..n : a[j] = P(j)
    BY <1>5 DEF a
  <2>6. \A j \in 1..n : a[j] = c[j]
    <3>1. \A j \in 1..n : j \in 1..(n-1) \/ j = n
      BY <1>1
    <3> HIDE DEF c
    <3>2. QED BY <2>4, <2>5, <3>1
  <2> HIDE DEF c
  <2>7. a = c
    BY <2>4, <2>5, <2>6, SeqEqual
  <2>8. QED BY <2>7 DEF a, b, c, P
<1>8. QED BY <1>5, <1>6, <1>7 DEF P, S

\* What a mount is, for the files of now.
LEMMA MountIs ==
  ASSUME TreeTypes, Quiet
  PROVE  /\ RootMount \in Mounts
         /\ \A m \in Mounts : /\ m \in MountSet /\ files[Last(m.path)] # Gone /\ Len(m.names) = Len(m.above)
                              /\ m.prefix = <<>> => m = RootMount
         /\ \A m, x \in Mounts : m.names = x.names => m = x
<1>1. IsDisk(files) /\ files[Root] # Gone
  BY DEF TreeTypes, Quiet
<1>2. /\ RootMount \in MountsOf(files) /\ \A m \in MountsOf(files) : AtLevel(files, Len(m.above), m)
  BY <1>1, MountType
<1>3. QED BY <1>1, <1>2, NamesTell DEF Mounts, AtLevel

\* The child that a frame is at is a mount in the frame's, if its file is there.
LEMMA KidMount ==
  ASSUME TreeTypes, TreePlaces, Quiet, Looping
  PROVE  LET m == FrameMount(Len(walk.stack))
             x == MountIn(files, m, Kid)
         IN  /\ m \in Mounts /\ ~Contains(m.above, m.path) /\ Kid \in DOMAIN FileAt(files, m).children
             /\ Top.config = FileAt(files, m)
             /\ x = [names |-> KidEntry.names, path |-> KidPath, prefix |-> KidPrefix, above |-> Way(Len(walk.stack))]
             /\ Present(files, KidPath) => x \in MountsIn(files, m) /\ x \in Mounts /\ KidPrefix # <<>>
<1> DEFINE n == Len(walk.stack)
           m == FrameMount(n)
           x == MountIn(files, m, Kid)
<1>1. walk.stack # <<>> /\ Top.todo # {} /\ Walking
  BY DEF Looping
<1>2. n \in Nat /\ n >= 1 /\ Top = walk.stack[n] /\ Top \in Frames /\ n \in 1..n /\ n \in 0..n
  BY <1>1, TopIs
<1>3. m \in Mounts /\ ~Contains(Way(n - 1), walk.stack[n].path) /\ walk.stack[n].config = FileAt(files, m)
  BY <1>1, <1>2 DEF TreePlaces
<1>4. m.names = Top.names /\ m.path = Top.path /\ m.prefix = Top.prefix /\ m.above = Way(n - 1)
  BY <1>2 DEF FrameMount
<1>5. Top.config = FileAt(files, m) /\ Kid \in DOMAIN FileAt(files, m).children
  BY <1>1, <1>2, <1>3, KidIs
<1>6. Way(n) = Append(Way(n - 1), Top.path)
  <2>1. n # 0 /\ n \in 0..Len(walk.stack)
    BY <1>2
  <2> HIDE DEF n
  <2>2. Way(n) = Append(Way(n - 1), walk.stack[n].path)
    BY <2>1, WayIs
  <2>3. QED BY <1>2, <2>2
<1> HIDE DEF n, m
<1>7. x = [names |-> Append(Top.names, Kid), path |-> KidPath, prefix |-> KidPrefix, above |-> Way(n)]
  BY <1>4, <1>5, <1>6 DEF MountIn, KidPath, KidPrefix, KidConfig
<1>8. x = [names |-> KidEntry.names, path |-> KidPath, prefix |-> KidPrefix, above |-> Way(n)]
  BY <1>7 DEF KidEntry
<1>9. ASSUME Present(files, KidPath) PROVE x \in MountsIn(files, m) /\ x \in Mounts /\ KidPrefix # <<>>
  <2>1. x.path = KidPath /\ x.prefix = KidPrefix
    BY <1>7
  <2> HIDE DEF x
  <2>2. Present(files, x.path) /\ x = MountIn(files, m, Kid)
    BY <1>9, <2>1 DEF x
  <2>3. x \in MountsIn(files, m)
    BY <1>5, <2>2 DEF MountsIn
  <2>4. IsDisk(files) /\ files[Root] # Gone
    BY DEF TreeTypes, Quiet
  <2>5. x \in Mounts
    BY <1>3, <1>4, <1>2, <2>3, <2>4, MountsAreClosed DEF Mounts
  <2>6. m \in MountSet /\ files[Last(m.path)] # Gone
    BY <1>3, MountIs
  <2>7. x.prefix # <<>>
    BY <1>5, <2>2, <2>4, <2>6, ChildFacts
  <2>8. QED BY <2>1, <2>3, <2>5, <2>7
<1>10. ~Contains(m.above, m.path)
  BY <1>2, <1>3, <1>4
<1>11. QED BY <1>3, <1>5, <1>8, <1>9, <1>10 DEF m, n

\* A walk begins at the root.
LEMMA PlacesBegin ==
  ASSUME TreeTypes', Quiet', walk'.stack = <<>>, walk'.entering = RootEntry, walk'.seen = {},
         walk'.depthCap = Local(files'[Root]).depth, walk'.widthCap = Local(files'[Root]).width
  PROVE  TreePlaces' /\ EntryMount' = RootMount
<1>1. Len(walk'.stack) = 0 /\ 0 \in 0..Len(walk'.stack)
  OBVIOUS
<1>2. Way(0)' = <<>>
  <2>1. [j \in 1..0 |-> walk'.stack[j].path] \in Seq({}) /\ Len([j \in 1..0 |-> walk'.stack[j].path]) = 0
    <3>1. 0 \in Nat /\ \A j \in 1..0 : walk'.stack[j].path \in {}
      OBVIOUS
    <3> DEFINE P(j) == walk'.stack[j].path
    <3> HIDE DEF P
    <3>2. [j \in 1..0 |-> P(j)] \in Seq({}) /\ Len([j \in 1..0 |-> P(j)]) = 0
      BY <3>1 DEF P
    <3>3. QED BY <3>2 DEF P
  <2>2. [j \in 1..0 |-> walk'.stack[j].path] = <<>>
    <3> DEFINE a == [j \in 1..0 |-> walk'.stack[j].path]
    <3>1. a \in Seq({}) /\ Len(a) = 0
      BY <2>1
    <3> HIDE DEF a
    <3>2. a = <<>>
      BY <3>1, EmptySeq
    <3>3. QED BY <3>2 DEF a
  <2>3. QED BY <2>2 DEF Way
<1>3. EntryMount' = RootMount
  <2>1. RootEntry.names = <<>> /\ RootEntry.path = <<Root>> /\ RootEntry.prefix = <<>>
    BY RootEntryIs
  <2> HIDE DEF RootEntry
  <2>2. Way(Len(walk.stack))' = <<>>
    <3>1. Way(Len(walk.stack))' = [j \in 1..Len(walk'.stack) |-> walk'.stack[j].path]
      BY DEF Way
    <3>2. Way(0)' = [j \in 1..0 |-> walk'.stack[j].path]
      BY DEF Way
    <3>3. QED BY <1>1, <1>2, <3>1, <3>2
  <2> HIDE DEF Way
  <2>3. EntryMount' = [names |-> walk'.entering.names, path |-> walk'.entering.path, prefix |-> walk'.entering.prefix,
                       above |-> Way(Len(walk.stack))']
    BY DEF EntryMount
  <2>4. QED BY <2>1, <2>2, <2>3 DEF RootMount
<1>4. RootMount \in Mounts'
  <2>1. IsDisk(files') /\ files'[Root] # Gone
    BY DEF TreeTypes, Quiet
  <2>2. RootMount \in MountsOf(files')
    BY <2>1, MountType
  <2>3. QED BY <2>2 DEF Mounts
<1>5. {walk'.stack[i].path : i \in 1..Len(walk'.stack)} = {}
  BY <1>1
<1>6. EntryMount' \in Mounts'
  BY <1>3, <1>4
<1> HIDE DEF EntryMount, Mounts, Way, FrameMount
<1>7. QED BY <1>1, <1>3, <1>5, <1>6 DEF TreePlaces

\* A project that is read has the frame on top.
LEMMA EnterPlaces ==
  ASSUME TreeTypes, EnterStep
  PROVE  LET n == Len(walk.stack)
         IN  /\ Len(walk'.stack) = n + 1 /\ walk'.entering = NoEntry
             /\ \A i \in 1..n : walk'.stack[i] = walk.stack[i] /\ FrameMount(i)' = FrameMount(i) /\ Way(i - 1)' = Way(i - 1)
             /\ \A i \in {n + 1} : /\ FrameMount(i)' = EntryMount /\ Way(i - 1)' = Way(n)
                                  /\ walk'.stack[i].path = walk.entering.path /\ walk'.stack[i].config = Content
                                  /\ walk'.stack[i].todo = DOMAIN Content.children
<1> DEFINE e == walk.entering
           s == walk.stack
           t == walk'.stack
           n == Len(s)
           frame == NewFrame(e, Here, Content)
<1>1. walk \in Walks /\ s \in Seq(Frames) /\ n \in Nat
  BY DEF TreeTypes, Walks
<1>2. t = Append(s, frame) /\ walk'.entering = NoEntry
  BY EnteredIs DEF EnterStep, Reading
<1>3. frame \in Frames
  BY ContentIs DEF EnterStep, Reading
<1>4. /\ frame.names = e.names /\ frame.path = e.path /\ frame.prefix = e.prefix /\ frame.config = Content
      /\ frame.todo = DOMAIN Content.children
  BY DEF NewFrame
<1> HIDE DEF frame, t
<1>5. Len(t) = n + 1 /\ t[n+1] = frame /\ \A i \in 1..n : t[i] = s[i]
  BY <1>1, <1>2, <1>3, AppendProperties
<1>6. (\A i \in 0..n : Way(i)' = Way(i)) /\ \A i \in 1..n : FrameMount(i)' = FrameMount(i)
  <2>1. \A j \in 1..n : /\ walk'.stack[j].names = walk.stack[j].names /\ walk'.stack[j].path = walk.stack[j].path
                        /\ walk'.stack[j].prefix = walk.stack[j].prefix
    BY <1>5 DEF t
  <2> HIDE DEF n
  <2>2. QED BY <1>1, <2>1, PlacesStay
<1>7. ASSUME NEW i \in {n + 1} PROVE FrameMount(i)' = EntryMount /\ Way(i - 1)' = Way(n)
  <2>1. i - 1 = n /\ i - 1 \in 0..n /\ i = n + 1
    BY <1>1
  <2>2. Way(i - 1)' = Way(n)
    <3>1. Way(i - 1)' = Way(i - 1)
      BY <1>6, <2>1
    <3> HIDE DEF Way, n
    <3>2. QED BY <2>1, <3>1
  <2>3. t[i].names = e.names /\ t[i].path = e.path /\ t[i].prefix = e.prefix
    BY <1>4, <1>5, <2>1
  <2>4. FrameMount(i)' = [names |-> t[i].names, path |-> t[i].path, prefix |-> t[i].prefix, above |-> Way(i - 1)']
    BY DEF FrameMount, t
  <2>5. EntryMount = [names |-> e.names, path |-> e.path, prefix |-> e.prefix, above |-> Way(n)]
    BY DEF EntryMount
  <2> HIDE DEF EntryMount, Way, FrameMount, n, e
  <2>6. QED BY <2>2, <2>3, <2>4, <2>5
<1>8. \A i \in 1..n : i - 1 \in 0..n
  BY <1>1
<1> HIDE DEF n
<1>9. QED BY <1>2, <1>4, <1>5, <1>6, <1>7, <1>8 DEF t, n

\* Looking for a child moves no frame.
LEMMA LoopPlaces ==
  ASSUME TreeTypes, SkipStep \/ ClaimStep
  PROVE  LET n == Len(walk.stack)
         IN  /\ Len(walk'.stack) = n /\ n \in 1..n
             /\ \A i \in 1..n : /\ FrameMount(i)' = FrameMount(i) /\ Way(i - 1)' = Way(i - 1)
                                /\ walk'.stack[i].path = walk.stack[i].path /\ walk'.stack[i].config = walk.stack[i].config
                                /\ walk'.stack[i].todo = IF i = n THEN walk.stack[i].todo \ {Kid} ELSE walk.stack[i].todo
<1> DEFINE s == walk.stack
           t == walk'.stack
           n == Len(s)
           f == [Top EXCEPT !.todo = @ \ {Kid}]
<1>1. s # <<>> /\ Top.todo # {}
  BY DEF SkipStep, ClaimStep, Looping
<1>2. t = Skipped.stack
  BY <1>1, SkippedIs, ClaimedIs DEF SkipStep, ClaimStep
<1>3. Len(t) = n /\ (\A i \in 1..(n-1) : t[i] = s[i]) /\ t[n] = f
  BY <1>1, <1>2, SkippedIs
<1>4. n \in Nat /\ n \in 1..n /\ Top = s[n] /\ Top \in Frames
  BY <1>1, TopIs
<1>5. \A i \in 1..n : (i \in 1..(n-1) \/ i = n) /\ i - 1 \in 0..n
  BY <1>4
<1>6. /\ f.names = Top.names /\ f.path = Top.path /\ f.prefix = Top.prefix /\ f.config = Top.config
      /\ f.todo = Top.todo \ {Kid}
  BY <1>4 DEF Frames
<1>7. n \notin 1..(n-1)
  BY <1>4
<1> HIDE DEF f, n, t
<1>8. \A i \in 1..n : /\ t[i].names = s[i].names /\ t[i].path = s[i].path /\ t[i].prefix = s[i].prefix
                      /\ t[i].config = s[i].config
                      /\ t[i].todo = IF i = n THEN s[i].todo \ {Kid} ELSE s[i].todo
  BY <1>3, <1>4, <1>5, <1>6, <1>7
<1>9. (\A i \in 0..n : Way(i)' = Way(i)) /\ \A i \in 1..n : FrameMount(i)' = FrameMount(i)
  BY <1>4, <1>8, PlacesStay DEF t
<1>10. QED BY <1>3, <1>4, <1>5, <1>8, <1>9 DEF n, t

\* The frames below the one on top stay.
LEMMA PopPlaces ==
  ASSUME TreeTypes, PopStep
  PROVE  LET n == Len(walk.stack)
             k == Len(walk'.stack)
         IN  /\ k \in Nat /\ n = k + 1 /\ walk'.entering = NoEntry
             /\ \A i \in 1..k : /\ FrameMount(i)' = FrameMount(i) /\ Way(i - 1)' = Way(i - 1)
                                /\ walk'.stack[i].path = walk.stack[i].path /\ walk'.stack[i].config = walk.stack[i].config
                                /\ walk'.stack[i].todo = walk.stack[i].todo
<1> DEFINE s == walk.stack
           t == walk'.stack
           n == Len(s)
           k == n - 1
           f == [s[k] EXCEPT !.flat = MergedInto(@, Top)]
<1>1. walk \in Walks /\ s \in Seq(Frames) /\ n \in Nat
  BY DEF TreeTypes, Walks
<1>2. s # <<>> /\ Below # <<>> /\ walk' = Popped /\ walk.entering = NoEntry
  BY DEF PopStep, Returning
<1>3. Len(t) = k /\ k >= 1 /\ (\A i \in 1..(k-1) : t[i] = s[i]) /\ t[k] = f /\ walk'.entering = NoEntry
  BY <1>2, PoppedIs
<1>4. k \in Nat /\ k \in 1..n /\ n = k + 1 /\ \A i \in 1..k : (i \in 1..(k-1) \/ i = k) /\ i - 1 \in 0..k
  BY <1>1, <1>3
<1> HIDE DEF k
<1>5. f.names = s[k].names /\ f.path = s[k].path /\ f.prefix = s[k].prefix /\ f.config = s[k].config /\ f.todo = s[k].todo
  <2>1. s[k] \in Frames
    BY <1>1, <1>4
  <2>2. QED BY <2>1 DEF Frames
<1> HIDE DEF f, n, t
<1>6. \A i \in 1..k : /\ t[i].names = s[i].names /\ t[i].path = s[i].path /\ t[i].prefix = s[i].prefix
                      /\ t[i].config = s[i].config /\ t[i].todo = s[i].todo
  BY <1>3, <1>4, <1>5
<1>7. (\A i \in 0..k : Way(i)' = Way(i)) /\ \A i \in 1..k : FrameMount(i)' = FrameMount(i)
  BY <1>4, <1>6, PlacesStay DEF t
<1>8. Len(t) = k
  BY <1>3
<1>9. QED BY <1>3, <1>4, <1>6, <1>7, <1>8 DEF n, t

\* The mount of the child that is about to be read.
LEMMA ClaimPlaces ==
  ASSUME TreeTypes, TreePlaces, Quiet, ClaimStep
  PROVE  /\ EntryMount' = MountIn(files, FrameMount(Len(walk.stack)), Kid) /\ walk'.entering = KidEntry /\ KidEntry # NoEntry
         /\ EntryMount' \in Mounts /\ EntryMount'.prefix = KidPrefix /\ KidPrefix # <<>>
         /\ EntryMount'.names = Append(Top.names, Kid)
<1> DEFINE n == Len(walk.stack)
           x == MountIn(files, FrameMount(n), Kid)
<1>1. Looping /\ Present(files, KidPath) /\ walk' = Claimed /\ walk.stack # <<>> /\ Top.todo # {}
  BY DEF ClaimStep, Looping
<1>2. /\ x = [names |-> KidEntry.names, path |-> KidPath, prefix |-> KidPrefix, above |-> Way(n)] /\ x \in Mounts
      /\ KidPrefix # <<>>
  BY <1>1, KidMount
<1>3. walk'.entering = KidEntry /\ KidEntry.path # <<>> /\ NoEntry.path = <<>>
  BY <1>1, ClaimedIs, KidIs, NoEntryIs
<1>4. KidEntry.path = KidPath /\ KidEntry.prefix = KidPrefix /\ KidEntry.names = Append(Top.names, Kid)
  BY DEF KidEntry
<1>5. [j \in 1..Len(walk'.stack) |-> walk'.stack[j].path] = Way(n)
  <2>1. Len(walk'.stack) = n /\ \A i \in 1..n : walk'.stack[i].path = walk.stack[i].path
    BY LoopPlaces
  <2> HIDE DEF n
  <2>2. QED BY <2>1 DEF Way
<1>6. EntryMount' = [names |-> walk'.entering.names, path |-> walk'.entering.path, prefix |-> walk'.entering.prefix,
                     above |-> [j \in 1..Len(walk'.stack) |-> walk'.stack[j].path]]
  BY DEF EntryMount, Way
<1> DEFINE y == EntryMount'
<1> HIDE DEF KidEntry, EntryMount, n, x, y, NoEntry
<1>7. y = x
  BY <1>2, <1>3, <1>4, <1>5, <1>6 DEF y
<1>8. y.prefix = KidPrefix /\ y.names = Append(Top.names, Kid)
  BY <1>2, <1>4, <1>7
<1>9. QED BY <1>2, <1>3, <1>7, <1>8 DEF x, y, n

LEMMA WalkKeepsPlaces ==
  ASSUME TreeTypes, TreeTypes', TreePlaces, WalkStep, files' = files, edits' = edits
  PROVE  TreePlaces'
<1> DEFINE e == walk.entering
           s == walk.stack
           t == walk'.stack
           n == Len(s)
           c == Local(files[Root])
           Placed(i) == FrameMount(i) \in Mounts /\ ~Contains(Way(i - 1), s[i].path) /\ s[i].config = FileAt(files, FrameMount(i))
<1> SUFFICES ASSUME Quiet, walk'.phase \in {"validate", "merge"} PROVE TreePlaces'
  BY DEF TreePlaces, Quiet, Walking
<1>1. walk \in Walks /\ s \in Seq(Frames) /\ n \in Nat
  BY DEF TreeTypes, Walks
<1>2. Mounts' = Mounts /\ Quiet'
  BY DEF Mounts, Quiet
<1>3. Walking => /\ \A i \in 1..n : Placed(i)
                 /\ walk.entering # NoEntry => EntryMount \in Mounts
                 /\ walk.seen = {s[i].path : i \in 1..n} /\ walk.depthCap = c.depth /\ walk.widthCap = c.width
  BY DEF TreePlaces
<1>4. ASSUME walk'.depthCap = c.depth, walk'.widthCap = c.width, walk'.seen = {t[i].path : i \in 1..Len(t)},
             walk'.entering # NoEntry => EntryMount' \in Mounts,
             \A i \in 1..Len(t) : /\ FrameMount(i)' \in Mounts /\ ~Contains(Way(i - 1)', t[i].path)
                                   /\ t[i].config = FileAt(files, FrameMount(i)')
      PROVE  TreePlaces'
  <2> DEFINE Q(i) == /\ FrameMount(i)' \in Mounts' /\ ~Contains(Way(i - 1)', t[i].path)
                     /\ t[i].config = FileAt(files', FrameMount(i)')
  <2>1. \A i \in 1..Len(t) : Q(i)
    <3> HIDE DEF FrameMount, Way, Mounts
    <3>1. QED BY <1>2, <1>4
  <2> HIDE DEF FrameMount, Way, Mounts, EntryMount
  <2>2. QED BY <1>2, <1>4, <2>1 DEF TreePlaces
<1>5. CASE BeginStep
  <2>1. t = <<>> /\ walk'.entering = RootEntry /\ walk'.seen = {} /\ walk'.depthCap = c.depth /\ walk'.widthCap = c.width
    BY <1>5, BegunIs DEF BeginStep
  <2>2. QED BY <1>2, <2>1, PlacesBegin
<1>6. CASE StopStep
  BY <1>6, StoppedIs DEF StopStep
<1>7. CASE DropStep
  <2>1. Walking /\ walk.entering # NoEntry /\ files[Here] = Gone
    BY <1>7 DEF DropStep, Reading
  <2>2. EntryMount \in Mounts /\ EntryMount.path = e.path
    BY <1>3, <2>1 DEF EntryMount
  <2>3. files[Last(e.path)] # Gone
    <3> HIDE DEF EntryMount
    <3>1. QED BY <2>2, MountIs
  <2>4. QED BY <2>1, <2>3 DEF Here
<1>8. CASE EnterStep
  <2>1. Walking /\ e # NoEntry /\ e.path \notin walk.seen
    BY <1>8 DEF EnterStep, Reading
  <2>2. /\ walk'.seen = walk.seen \union {e.path} /\ walk'.depthCap = walk.depthCap /\ walk'.widthCap = walk.widthCap
    BY <1>8, <2>1, EnteredIs DEF EnterStep
  <2>3. /\ Len(t) = n + 1 /\ walk'.entering = NoEntry
        /\ \A i \in 1..n : t[i] = s[i] /\ FrameMount(i)' = FrameMount(i) /\ Way(i - 1)' = Way(i - 1)
        /\ \A i \in {n + 1} : /\ FrameMount(i)' = EntryMount /\ Way(i - 1)' = Way(n)
                             /\ t[i].path = e.path /\ t[i].config = Content
    BY <1>8, EnterPlaces
  <2>4. EntryMount \in Mounts /\ ~Contains(Way(n), e.path)
    <3>1. n \in 0..Len(walk.stack)
      BY <1>1
    <3>2. Len(Way(n)) = n /\ \A j \in 1..n : Way(n)[j] = s[j].path
      BY <3>1, WayIs
    <3>3. \A j \in 1..n : s[j].path # e.path
      BY <1>3, <2>1
    <3>4. ~Contains(Way(n), e.path)
      BY <3>2, <3>3 DEF Contains
    <3>5. QED BY <1>3, <2>1, <3>4
  <2>5. FileAt(files, EntryMount) = Content
    BY DEF FileAt, EntryMount, Content, Here
  <2>6. 1..(n+1) = (1..n) \union {n+1} /\ walk.seen = {s[i].path : i \in 1..n}
    BY <1>1, <1>3, <2>1
  <2>7. \A i \in 1..n : Placed(i)
    BY <1>3, <2>1
  <2> HIDE DEF n, t, s, FrameMount, Way, EntryMount, Mounts
  <2>8. ASSUME NEW i \in 1..Len(t)
        PROVE  /\ FrameMount(i)' \in Mounts /\ ~Contains(Way(i - 1)', t[i].path)
               /\ t[i].config = FileAt(files, FrameMount(i)')
    <3>1. CASE i \in 1..n
      BY <2>3, <2>7, <3>1
    <3>2. CASE i \in {n + 1}
      BY <2>3, <2>4, <2>5, <3>2
    <3>3. QED BY <2>3, <2>6, <3>1, <3>2
  <2>9. walk'.seen = {t[i].path : i \in 1..Len(t)}
    BY <2>2, <2>3, <2>6
  <2>10. QED BY <1>3, <1>4, <2>1, <2>2, <2>3, <2>8, <2>9 DEF t
<1>9. CASE SkipStep \/ ClaimStep
  <2>1. s # <<>> /\ Top.todo # {} /\ Walking
    BY <1>9 DEF SkipStep, ClaimStep, Looping
  <2>2. walk'.seen = walk.seen /\ walk'.depthCap = walk.depthCap /\ walk'.widthCap = walk.widthCap
    BY <1>9, <2>1, SkippedIs, ClaimedIs DEF SkipStep, ClaimStep
  <2>3. /\ Len(t) = n
        /\ \A i \in 1..n : /\ FrameMount(i)' = FrameMount(i) /\ Way(i - 1)' = Way(i - 1)
                           /\ t[i].path = s[i].path /\ t[i].config = s[i].config
    BY <1>9, LoopPlaces
  <2>4. walk'.entering # NoEntry => EntryMount' \in Mounts
    <3>1. CASE SkipStep
      <4>1. walk'.entering = walk.entering /\ walk.entering = NoEntry
        BY <2>1, <3>1, SkippedIs DEF SkipStep, Looping
      <4>2. QED BY <4>1
    <3>2. CASE ClaimStep
      BY <3>2, ClaimPlaces
    <3>3. QED BY <1>9, <3>1, <3>2
  <2>5. walk.seen = {s[i].path : i \in 1..n} /\ \A i \in 1..n : Placed(i)
    BY <1>3, <2>1
  <2> HIDE DEF n, t, s, FrameMount, Way, EntryMount, Mounts
  <2>6. \A i \in 1..Len(t) : /\ FrameMount(i)' \in Mounts /\ ~Contains(Way(i - 1)', t[i].path)
                             /\ t[i].config = FileAt(files, FrameMount(i)')
    BY <2>3, <2>5
  <2>7. walk'.seen = {t[i].path : i \in 1..Len(t)}
    BY <2>2, <2>3, <2>5
  <2>8. QED BY <1>3, <1>4, <2>1, <2>2, <2>4, <2>6, <2>7 DEF t
<1>10. CASE PopStep
  <2> DEFINE k == Len(t)
  <2>1. s # <<>> /\ Walking
    BY <1>10 DEF PopStep, Returning
  <2>2. /\ walk'.seen = walk.seen \ {Top.path} /\ walk'.depthCap = walk.depthCap /\ walk'.widthCap = walk.widthCap
    BY <1>10, <2>1, PoppedIs DEF PopStep
  <2>3. /\ k \in Nat /\ n = k + 1 /\ walk'.entering = NoEntry
        /\ \A i \in 1..k : /\ FrameMount(i)' = FrameMount(i) /\ Way(i - 1)' = Way(i - 1)
                           /\ t[i].path = s[i].path /\ t[i].config = s[i].config
    BY <1>10, PopPlaces
  <2>4. Top = s[n]
    BY <2>1, TopIs
  <2>5. 1..n = (1..k) \union {n} /\ n \in 1..n /\ n - 1 = k /\ k \in 0..n
    BY <2>3
  <2>6. walk.seen = {s[i].path : i \in 1..n} /\ \A i \in 1..n : Placed(i)
    BY <1>3, <2>1
  <2>7. \A j \in 1..k : s[j].path # s[n].path
    <3>1. Len(Way(n - 1)) = k /\ \A j \in 1..k : Way(n - 1)[j] = s[j].path
      <4>1. n - 1 \in 0..Len(walk.stack)
        BY <2>5
      <4> DEFINE q == n - 1
      <4>2. q = k
        BY <2>5
      <4> HIDE DEF q, k
      <4>3. Len(Way(q)) = q /\ \A j \in 1..q : Way(q)[j] = s[j].path
        BY <4>1, WayIs DEF q
      <4>4. QED BY <4>2, <4>3 DEF q
    <3>2. ~Contains(Way(n - 1), s[n].path)
      BY <2>5, <2>6
    <3>3. QED BY <3>1, <3>2 DEF Contains
  <2> HIDE DEF n, t, s, k, FrameMount, Way, EntryMount, Mounts
  <2>8. \A i \in 1..k : /\ FrameMount(i)' \in Mounts /\ ~Contains(Way(i - 1)', t[i].path)
                        /\ t[i].config = FileAt(files, FrameMount(i)')
    BY <2>3, <2>5, <2>6
  <2>9. walk'.seen = {t[i].path : i \in 1..k}
    <3>1. {t[i].path : i \in 1..k} = {s[i].path : i \in 1..k}
      BY <2>3
    <3>2. walk'.seen = {s[i].path : i \in 1..n} \ {s[n].path}
      BY <2>2, <2>4, <2>6
    <3>3. QED BY <2>5, <2>7, <3>1, <3>2
  <2>10. QED BY <1>3, <1>4, <2>1, <2>2, <2>3, <2>8, <2>9 DEF t, k
<1>11. CASE AgainStep
  <2>1. s # <<>> /\ Walking
    BY <1>11 DEF AgainStep, Returning
  <2>2. t = <<>> /\ walk'.entering = RootEntry /\ walk'.seen = {} /\ walk'.depthCap = c.depth /\ walk'.widthCap = c.width
    BY <1>3, <1>11, <2>1, AgainIs DEF AgainStep
  <2>3. QED BY <1>2, <2>2, PlacesBegin
<1>12. CASE DoneStep
  BY <1>12, DoneIs DEF DoneStep, Returning
<1>13. QED BY <1>5, <1>6, <1>7, <1>8, <1>9, <1>10, <1>11, <1>12 DEF WalkStep

-----------------------------------------------------------------------------
(* What was read and claimed, and what is left *)

\* The walk that is going on marks what it reads.
Mark(m) == [phase |-> walk.phase, names |-> m.names, path |-> m.path, prefix |-> m.prefix]
ReadMounts == {m \in Mounts : Mark(m) \in walk.mounts}
NearMounts == ReadMounts \union (IF walk.entering # NoEntry THEN {EntryMount} ELSE {})

\* A child of what was read is near, or still to be looked for.
LeftAt(m, k) == \E i \in 1..Len(walk.stack) : m = FrameMount(i) /\ k \in walk.stack[i].todo
Covered(m) ==
  \A k \in DOMAIN FileAt(files, m).children :
    Present(files, MountIn(files, m, k).path) => MountIn(files, m, k) \in NearMounts \/ LeftAt(m, k)
TreeCover ==
  Quiet /\ Walking =>
    /\ \A i \in 1..Len(walk.stack) : FrameMount(i) \in ReadMounts
    /\ \A m \in ReadMounts : Covered(m)
    /\ RootMount \in NearMounts

\* What was read is a mount, with the caps of the root's file.
TreeMarks ==
  Quiet => /\ \A k \in walk.mounts : \E m \in Mounts : m.path = k.path
           /\ walk.phase = "loaded" => walk.depthCap = Local(files[Root]).depth
           /\ Validating => \A k \in walk.mounts : k.phase = "validate"

SoundMount(m) ==
  /\ ~Contains(m.above, m.path)
  /\ ~(Local(files[Root]).depth # 0 /\ Len(m.above) > Local(files[Root]).depth)
  /\ ~(Local(files[Root]).width # 0 /\ Cardinality(DOMAIN FileAt(files, m).children) > Local(files[Root]).width)
SpacesOf(m) == {m.prefix \o w : w \in FileAt(files, m).spaces}

\* What was read is sound, and the claims are exactly what is near.
TreeClean ==
  Quiet /\ Validating =>
    /\ \A m \in ReadMounts : SoundMount(m)
    /\ \A m, x \in NearMounts : m.prefix = x.prefix => m = x
    /\ walk.prefixes = {m.prefix : m \in NearMounts} \ {<<>>}
    /\ walk.spaces = UNION {SpacesOf(m) : m \in ReadMounts}
    /\ walk.orchestrators = UNION {Sessions(files, m) : m \in NearMounts}
    /\ walk.spaces \intersect walk.orchestrators = {}

\* The verdict is right.
TreeVerdict ==
  edits = 0 =>
    /\ files[Root] = Gone => walk.phase \in {"idle", "refused"}
    /\ walk.phase = "refused" => Faulty
    /\ walk.phase \in {"merge", "loaded"} => ~Faulty

\* What a fault is, over the mounts.
LEMMA FaultyIs ==
  ASSUME Quiet
  PROVE  Faulty <=> \/ \E m \in Mounts : ~SoundMount(m)
                    \/ \E m, x \in Mounts : m # x /\ m.prefix = x.prefix
                    \/ \E m, x \in Mounts : SpacesOf(m) \intersect Sessions(files, x) # {}
<1> DEFINE F1 == \E m \in Mounts : \/ Contains(m.above, m.path)
                                   \/ Local(files[Root]).depth # 0 /\ Len(m.above) > Local(files[Root]).depth
                                   \/ Local(files[Root]).width # 0 /\ Cardinality(DOMAIN FileAt(files, m).children) > Local(files[Root]).width
           F2 == \E m, n \in Mounts : m # n /\ m.prefix = n.prefix
           F3 == \E m, n \in Mounts : \E w \in FileAt(files, m).spaces : m.prefix \o w \in Sessions(files, n)
<1>1. Faulty <=> F1 \/ F2 \/ F3
  BY Zenon DEF Faulty, Quiet
<1>2. F1 <=> \E m \in Mounts : ~SoundMount(m)
  BY Zenon DEF SoundMount
<1>3. F3 <=> \E m, x \in Mounts : SpacesOf(m) \intersect Sessions(files, x) # {}
  <2>1. \A m, x : (\E w \in FileAt(files, m).spaces : m.prefix \o w \in Sessions(files, x)) <=> SpacesOf(m) \intersect Sessions(files, x) # {}
    BY DEF SpacesOf
  <2> HIDE DEF SpacesOf
  <2>2. QED BY <2>1, Zenon
<1> HIDE DEF F1, F3
<1>4. QED BY <1>1, <1>2, <1>3

\* Reading a project adds its mount, which was near already.
LEMMA EnterNear ==
  ASSUME TreeTypes, TreePlaces, Quiet, EnterStep, files' = files
  PROVE  /\ EntryMount \in Mounts /\ NearMounts = ReadMounts \union {EntryMount}
         /\ ReadMounts' = NearMounts /\ NearMounts' = NearMounts
<1> DEFINE e == walk.entering
           mark == [phase |-> walk.phase, names |-> e.names, path |-> e.path, prefix |-> e.prefix]
           x == EntryMount
<1>1. Reading /\ Walking /\ e # NoEntry
  BY DEF EnterStep, Reading
<1>2. walk'.mounts = walk.mounts \union {mark} /\ walk'.entering = NoEntry /\ walk'.phase = walk.phase
  BY <1>1, EnteredIs DEF EnterStep
<1>3. x \in Mounts
  BY <1>1 DEF TreePlaces
<1>4. Mark(x) = mark
  BY <1>1 DEF Mark, EntryMount
<1>5. \A m \in Mounts : Mark(m) = Mark(x) <=> m = x
  <2>1. \A m : Mark(m).names = m.names
    BY DEF Mark
  <2> HIDE DEF x, Mark
  <2>2. QED BY <1>3, <2>1, MountIs
<1>6. Mounts' = Mounts /\ \A m : Mark(m)' = Mark(m)
  BY <1>2 DEF Mounts, Mark
<1> HIDE DEF x, mark, Mark, Mounts
<1>7. NearMounts = ReadMounts \union {x}
  BY <1>1 DEF NearMounts, x
<1>8. ReadMounts' = {m \in Mounts : Mark(m) \in walk'.mounts}
  BY <1>6 DEF ReadMounts
<1>9. ReadMounts' = ReadMounts \union {x}
  BY <1>2, <1>3, <1>4, <1>5, <1>8 DEF ReadMounts
<1>10. NearMounts' = ReadMounts'
  BY <1>2 DEF NearMounts
<1>11. QED BY <1>3, <1>7, <1>9, <1>10 DEF x

\* Steps that read nothing.
LEMMA SameRead ==
  ASSUME files' = files, walk'.mounts = walk.mounts, walk'.phase = walk.phase
  PROVE  /\ ReadMounts' = ReadMounts
         /\ walk.entering = NoEntry => NearMounts = ReadMounts
         /\ walk'.entering = NoEntry => NearMounts' = ReadMounts
         /\ walk'.entering # NoEntry => NearMounts' = ReadMounts \union {EntryMount'}
<1>1. ReadMounts' = ReadMounts
  BY DEF ReadMounts, Mounts, Mark
<1> HIDE DEF ReadMounts, EntryMount
<1>2. QED BY <1>1 DEF NearMounts

\* The second walk has read nothing when it begins.
LEMMA NothingMerged ==
  ASSUME TreeMarks, Quiet, Validating, walk'.phase = "merge", walk'.mounts = walk.mounts
  PROVE  ReadMounts' = {}
<1>1. \A k \in walk.mounts : k.phase = "validate"
  BY DEF TreeMarks
<1>2. \A m : Mark(m)'.phase = "merge"
  BY DEF Mark
<1>3. \A m : Mark(m)' \notin walk'.mounts
  <2> HIDE DEF Mark
  <2>1. QED BY <1>1, <1>2
<1> HIDE DEF Mark, Mounts
<1>4. QED BY <1>3 DEF ReadMounts

LEMMA WalkKeepsCover ==
  ASSUME TreeTypes, TreeTypes', TreePlaces, TreeCover, TreeMarks, WalkStep, files' = files, edits' = edits
  PROVE  TreeCover'
<1> SUFFICES ASSUME Quiet, walk'.phase \in {"validate", "merge"} PROVE TreeCover'
  BY DEF TreeCover, Quiet, Walking
<1> DEFINE s == walk.stack
           t == walk'.stack
           n == Len(s)
           Kids(m) == DOMAIN FileAt(files, m).children
           There(m, k) == Present(files, MountIn(files, m, k).path)
<1>1. walk \in Walks /\ s \in Seq(Frames) /\ n \in Nat
  BY DEF TreeTypes, Walks
<1>2. Walking => /\ \A i \in 1..n : FrameMount(i) \in ReadMounts
                 /\ \A m \in ReadMounts : \A k \in Kids(m) : There(m, k) => MountIn(files, m, k) \in NearMounts \/ LeftAt(m, k)
                 /\ RootMount \in NearMounts
  BY DEF TreeCover, Covered
<1>3. ASSUME \A i \in 1..Len(t) : FrameMount(i)' \in ReadMounts',
             RootMount \in NearMounts',
             \A m \in ReadMounts' : \A k \in Kids(m) : There(m, k) =>
               MountIn(files, m, k) \in NearMounts' \/ \E i \in 1..Len(t) : m = FrameMount(i)' /\ k \in t[i].todo
      PROVE  TreeCover'
  <2> HIDE DEF FrameMount, ReadMounts, NearMounts
  <2>1. \A m, k : LeftAt(m, k)' <=> \E i \in 1..Len(t) : m = FrameMount(i)' /\ k \in t[i].todo
    BY DEF LeftAt
  <2> HIDE DEF LeftAt
  <2>2. \A m \in ReadMounts' : Covered(m)'
    BY <1>3, <2>1 DEF Covered
  <2> HIDE DEF Covered
  <2>3. QED BY <1>3, <2>2 DEF TreeCover
<1> HIDE DEF Kids, There
<1>4. CASE BeginStep
  <2>1. /\ t = <<>> /\ walk'.entering = RootEntry /\ walk'.seen = {} /\ walk'.mounts = {}
        /\ walk'.depthCap = Local(files[Root]).depth /\ walk'.widthCap = Local(files[Root]).width
    BY <1>4, BegunIs DEF BeginStep
  <2>2. Quiet' /\ EntryMount' = RootMount
    <3>1. Quiet'
      BY DEF Quiet
    <3>2. QED BY <2>1, <3>1, PlacesBegin
  <2>3. ReadMounts' = {}
    BY <2>1 DEF ReadMounts
  <2>4. walk'.entering # NoEntry /\ Len(t) = 0
    BY <2>1, RootEntryIs
  <2> HIDE DEF ReadMounts, EntryMount
  <2>5. NearMounts' = {RootMount}
    BY <2>2, <2>3, <2>4 DEF NearMounts
  <2> HIDE DEF NearMounts, FrameMount
  <2>6. QED BY <1>3, <2>3, <2>4, <2>5
<1>5. CASE StopStep
  BY <1>5, StoppedIs DEF StopStep
<1>6. CASE DropStep
  <2>1. Walking /\ walk.entering # NoEntry /\ files[Here] = Gone
    BY <1>6 DEF DropStep, Reading
  <2>2. EntryMount \in Mounts /\ EntryMount.path = walk.entering.path
    BY <2>1 DEF EntryMount, TreePlaces
  <2>3. files[Last(walk.entering.path)] # Gone
    <3> HIDE DEF EntryMount
    <3>1. QED BY <2>2, MountIs
  <2>4. QED BY <2>1, <2>3 DEF Here
<1>7. CASE EnterStep
  <2>1. Walking
    BY <1>7 DEF EnterStep, Reading
  <2>2. /\ EntryMount \in Mounts /\ NearMounts = ReadMounts \union {EntryMount}
        /\ ReadMounts' = NearMounts /\ NearMounts' = NearMounts
    BY <1>7, <2>1, EnterNear
  <2>3. /\ Len(t) = n + 1
        /\ \A i \in 1..n : t[i] = s[i] /\ FrameMount(i)' = FrameMount(i)
        /\ \A i \in {n + 1} : FrameMount(i)' = EntryMount /\ t[i].todo = DOMAIN Content.children
    BY <1>7, EnterPlaces
  <2>4. FileAt(files, EntryMount) = Content
    BY DEF FileAt, EntryMount, Content, Here
  <2>5. 1..(n+1) = (1..n) \union {n+1} /\ n + 1 \in 1..(n+1)
    BY <1>1
  <2>6. \A m, k : LeftAt(m, k) <=> \E i \in 1..n : m = FrameMount(i) /\ k \in s[i].todo
    BY DEF LeftAt
  <2> HIDE DEF n, s, t, FrameMount, ReadMounts, NearMounts, EntryMount, LeftAt
  <2>7. \A i \in 1..Len(t) : FrameMount(i)' \in ReadMounts'
    <3> SUFFICES ASSUME NEW i \in 1..Len(t) PROVE FrameMount(i)' \in NearMounts
      BY <2>2
    <3>1. CASE i \in 1..n
      BY <1>2, <2>1, <2>2, <2>3, <3>1
    <3>2. CASE i \in {n + 1}
      BY <2>2, <2>3, <3>2
    <3>3. QED BY <2>3, <2>5, <3>1, <3>2
  <2>8. ASSUME NEW m \in ReadMounts', NEW k \in Kids(m), There(m, k)
        PROVE  MountIn(files, m, k) \in NearMounts' \/ \E i \in 1..Len(t) : m = FrameMount(i)' /\ k \in t[i].todo
    <3>1. CASE m \in ReadMounts
      <4>1. MountIn(files, m, k) \in NearMounts \/ LeftAt(m, k)
        BY <1>2, <2>1, <2>8, <3>1
      <4>2. ASSUME NEW i \in 1..n, m = FrameMount(i), k \in s[i].todo PROVE \E j \in 1..Len(t) : m = FrameMount(j)' /\ k \in t[j].todo
        <5>1. i \in 1..Len(t) /\ m = FrameMount(i)' /\ k \in t[i].todo
          BY <2>3, <2>5, <4>2
        <5>2. QED BY <5>1
      <4>3. QED BY <2>2, <2>6, <4>1, <4>2
    <3>2. CASE m = EntryMount
      <4>1. PICK i \in {n + 1} : TRUE
        OBVIOUS
      <4>2. i \in 1..Len(t) /\ FrameMount(i)' = EntryMount /\ k \in t[i].todo
        BY <2>3, <2>4, <2>5, <2>8, <3>2, <4>1 DEF Kids
      <4>3. QED BY <3>2, <4>2
    <3>3. QED BY <2>2, <2>8, <3>1, <3>2
  <2>9. QED BY <1>2, <1>3, <2>1, <2>2, <2>7, <2>8 DEF t
<1>8. CASE SkipStep \/ ClaimStep
  <2> DEFINE m0 == FrameMount(n)
             x == MountIn(files, m0, Kid)
  <2>1. s # <<>> /\ Top.todo # {} /\ Looping /\ walk.entering = NoEntry
    BY <1>8 DEF SkipStep, ClaimStep, Looping
  <2>2. walk'.mounts = walk.mounts /\ walk'.phase = walk.phase /\ Walking
    BY <1>8, <2>1, SkippedIs, ClaimedIs DEF SkipStep, ClaimStep, Looping
  <2>3. /\ Len(t) = n /\ n \in 1..n
        /\ \A i \in 1..n : FrameMount(i)' = FrameMount(i) /\ t[i].todo = IF i = n THEN s[i].todo \ {Kid} ELSE s[i].todo
    BY <1>8, LoopPlaces
  <2>4. x = [names |-> KidEntry.names, path |-> KidPath, prefix |-> KidPrefix, above |-> Way(n)]
    BY <2>1, KidMount
  <2>5. x.path = KidPath
    BY <2>4
  <2>6. /\ ReadMounts' = ReadMounts /\ NearMounts = ReadMounts
        /\ NearMounts' = ReadMounts \/ NearMounts' = ReadMounts \union {EntryMount'}
    BY <2>1, <2>2, SameRead
  <2>7. Present(files, KidPath) => x \in NearMounts'
    <3> SUFFICES ASSUME Present(files, KidPath) PROVE x \in NearMounts'
      OBVIOUS
    <3>1. ClaimStep
      BY <1>8 DEF SkipStep
    <3>2. EntryMount' = x /\ walk'.entering # NoEntry
      BY <3>1, ClaimPlaces
    <3>3. NearMounts' = ReadMounts \union {EntryMount'}
      BY <2>2, <3>2, SameRead
    <3> HIDE DEF x, NearMounts, EntryMount
    <3>4. QED BY <3>2, <3>3
  <2>8. \A m, k : LeftAt(m, k) <=> \E i \in 1..n : m = FrameMount(i) /\ k \in s[i].todo
    BY DEF LeftAt
  <2> HIDE DEF n, s, t, FrameMount, ReadMounts, NearMounts, EntryMount, LeftAt, x
  <2>9. \A i \in 1..Len(t) : FrameMount(i)' \in ReadMounts'
    BY <1>2, <2>2, <2>3, <2>6
  <2>10. ASSUME NEW m \in ReadMounts', NEW k \in Kids(m), There(m, k)
         PROVE  MountIn(files, m, k) \in NearMounts' \/ \E i \in 1..Len(t) : m = FrameMount(i)' /\ k \in t[i].todo
    <3>1. MountIn(files, m, k) \in NearMounts \/ LeftAt(m, k)
      BY <1>2, <2>2, <2>6, <2>10
    <3>2. CASE MountIn(files, m, k) \in NearMounts
      BY <2>6, <3>2
    <3>3. CASE LeftAt(m, k)
      <4>1. PICK i \in 1..n : m = FrameMount(i) /\ k \in s[i].todo
        BY <2>8, <3>3
      <4>2. CASE i = n /\ k = Kid
        <5>1. MountIn(files, m, k) = x
          BY <4>1, <4>2 DEF x
        <5>2. Present(files, KidPath)
          BY <2>5, <2>10, <5>1 DEF There
        <5>3. QED BY <2>7, <5>1, <5>2
      <4>3. CASE ~(i = n /\ k = Kid)
        <5>1. i \in 1..Len(t) /\ m = FrameMount(i)' /\ k \in t[i].todo
          BY <2>3, <4>1, <4>3
        <5>2. QED BY <5>1
      <4>4. QED BY <4>2, <4>3
    <3>4. QED BY <3>1, <3>2, <3>3
  <2>11. RootMount \in NearMounts'
    BY <1>2, <2>2, <2>6
  <2>12. QED BY <1>3, <2>9, <2>10, <2>11 DEF t
<1>9. CASE PopStep
  <2>1. s # <<>> /\ Top.todo = {} /\ walk.entering = NoEntry
    BY <1>9 DEF PopStep, Returning
  <2>2. walk'.mounts = walk.mounts /\ walk'.phase = walk.phase /\ Walking
    BY <1>9, <2>1, PoppedIs DEF PopStep, Returning
  <2>3. /\ Len(t) \in Nat /\ n = Len(t) + 1 /\ walk'.entering = NoEntry
        /\ \A i \in 1..Len(t) : FrameMount(i)' = FrameMount(i) /\ t[i].todo = s[i].todo
    BY <1>9, PopPlaces
  <2>4. Top = s[n]
    BY <2>1, TopIs
  <2>5. ReadMounts' = ReadMounts /\ NearMounts = ReadMounts /\ NearMounts' = ReadMounts
    BY <2>1, <2>2, <2>3, SameRead
  <2>6. \A i \in 1..n : i \in 1..Len(t) \/ i = n
    BY <2>3
  <2>7. \A i \in 1..Len(t) : i \in 1..n
    BY <2>3
  <2>8. \A m, k : LeftAt(m, k) <=> \E i \in 1..n : m = FrameMount(i) /\ k \in s[i].todo
    BY DEF LeftAt
  <2> HIDE DEF n, s, t, FrameMount, ReadMounts, NearMounts, LeftAt
  <2>9. \A i \in 1..Len(t) : FrameMount(i)' \in ReadMounts'
    BY <1>2, <2>2, <2>3, <2>5, <2>7
  <2>10. ASSUME NEW m \in ReadMounts', NEW k \in Kids(m), There(m, k)
         PROVE  MountIn(files, m, k) \in NearMounts' \/ \E i \in 1..Len(t) : m = FrameMount(i)' /\ k \in t[i].todo
    <3>1. MountIn(files, m, k) \in NearMounts \/ LeftAt(m, k)
      BY <1>2, <2>2, <2>5, <2>10
    <3>2. ASSUME LeftAt(m, k) PROVE \E i \in 1..Len(t) : m = FrameMount(i)' /\ k \in t[i].todo
      <4>1. PICK i \in 1..n : m = FrameMount(i) /\ k \in s[i].todo
        BY <2>8, <3>2
      <4>2. i \in 1..Len(t)
        BY <2>1, <2>4, <2>6, <4>1
      <4>3. QED BY <2>3, <4>1, <4>2
    <3>3. QED BY <2>5, <3>1, <3>2
  <2>11. RootMount \in NearMounts'
    BY <1>2, <2>2, <2>5
  <2>12. QED BY <1>3, <2>9, <2>10, <2>11 DEF t
<1>10. CASE AgainStep
  <2>1. Walking /\ Validating /\ walk.stack # <<>> /\ Below = <<>>
    BY <1>10 DEF AgainStep, Returning
  <2>2. /\ t = <<>> /\ walk'.entering = RootEntry /\ walk'.seen = {} /\ walk'.mounts = walk.mounts
        /\ walk'.phase = "merge" /\ walk'.depthCap = walk.depthCap /\ walk'.widthCap = walk.widthCap
    BY <1>10, <2>1, AgainIs DEF AgainStep
  <2>3. walk'.depthCap = Local(files[Root]).depth /\ walk'.widthCap = Local(files[Root]).width
    BY <2>1, <2>2 DEF TreePlaces
  <2>4. Quiet' /\ EntryMount' = RootMount
    <3>1. Quiet'
      BY DEF Quiet
    <3>2. QED BY <2>2, <2>3, <3>1, PlacesBegin
  <2>5. ReadMounts' = {}
    BY <2>1, <2>2, NothingMerged
  <2>6. walk'.entering # NoEntry /\ Len(t) = 0
    BY <2>2, RootEntryIs
  <2> HIDE DEF ReadMounts, EntryMount
  <2>7. NearMounts' = {RootMount}
    BY <2>4, <2>5, <2>6 DEF NearMounts
  <2> HIDE DEF NearMounts, FrameMount
  <2>8. QED BY <1>3, <2>5, <2>6, <2>7
<1>11. CASE DoneStep
  BY <1>11, DoneIs DEF DoneStep, Returning
<1>12. QED BY <1>4, <1>5, <1>6, <1>7, <1>8, <1>9, <1>10, <1>11 DEF WalkStep

\* The claims of a walk that begins.
LEMMA RootSessions ==
  Sessions(files, RootMount) = IF Local(files[Root]).root THEN {<<Orchestrator>>} ELSE {}
<1>1. RootMount.prefix = <<>> /\ SessionName(<<>>) = <<Orchestrator>>
  BY DEF RootMount, SessionName
<1>2. QED BY <1>1 DEF Sessions

\* The file that is about to be read, as a mount.
LEMMA EntryIs ==
  ASSUME TreeTypes, TreePlaces, Quiet, Reading
  PROVE  /\ EntryMount \in Mounts /\ EntryMount.prefix = walk.entering.prefix /\ EntryMount.path = walk.entering.path
         /\ EntryMount.above = Way(Len(walk.stack)) /\ Len(EntryMount.above) = Len(walk.stack)
         /\ FileAt(files, EntryMount) = Content /\ files[Here] # Gone
         /\ Contains(EntryMount.above, EntryMount.path) <=> walk.entering.path \in walk.seen
         /\ SpacesOf(EntryMount) = {walk.entering.prefix \o w : w \in Content.spaces}
<1> DEFINE n == Len(walk.stack)
<1>1. Walking /\ walk.entering # NoEntry
  BY DEF Reading
<1>2. EntryMount \in Mounts /\ walk.seen = {walk.stack[i].path : i \in 1..n}
  BY <1>1 DEF TreePlaces
<1>3. EntryMount.prefix = walk.entering.prefix /\ EntryMount.path = walk.entering.path /\ EntryMount.above = Way(n)
  BY DEF EntryMount
<1>4. n \in 0..Len(walk.stack)
  BY DEF TreeTypes, Walks
<1>5. Len(Way(n)) = n /\ \A j \in 1..n : Way(n)[j] = walk.stack[j].path
  BY <1>4, WayIs
<1> HIDE DEF EntryMount
<1>6. FileAt(files, EntryMount) = Content
  BY <1>3 DEF FileAt, Content, Here
<1>7. files[Here] # Gone
  BY <1>2, <1>3, MountIs DEF Here
<1>8. Contains(EntryMount.above, EntryMount.path) <=> walk.entering.path \in walk.seen
  BY <1>2, <1>3, <1>5 DEF Contains
<1>9. SpacesOf(EntryMount) = {walk.entering.prefix \o w : w \in Content.spaces}
  BY <1>3, <1>6 DEF SpacesOf
<1>10. QED BY <1>2, <1>3, <1>5, <1>6, <1>7, <1>8, <1>9

LEMMA WalkKeepsClean ==
  ASSUME TreeTypes, TreeTypes', TreePlaces, TreeClean, WalkStep, files' = files, edits' = edits
  PROVE  TreeClean'
<1> SUFFICES ASSUME Quiet, walk'.phase = "validate" PROVE TreeClean'
  BY DEF TreeClean, Quiet, Validating
<1> DEFINE e == walk.entering
           x0 == EntryMount
           Rd == ReadMounts
           Nr == NearMounts
<1>1. Validating =>
        /\ \A m \in Rd : SoundMount(m)
        /\ \A m, x \in Nr : m.prefix = x.prefix => m = x
        /\ walk.prefixes = {m.prefix : m \in Nr} \ {<<>>}
        /\ walk.spaces = UNION {SpacesOf(m) : m \in Rd}
        /\ walk.orchestrators = UNION {Sessions(files, m) : m \in Nr}
        /\ walk.spaces \intersect walk.orchestrators = {}
  BY DEF TreeClean
<1>2. ASSUME \A m \in ReadMounts' : SoundMount(m),
             \A m, x \in NearMounts' : m.prefix = x.prefix => m = x,
             walk'.prefixes = {m.prefix : m \in NearMounts'} \ {<<>>},
             walk'.spaces = UNION {SpacesOf(m) : m \in ReadMounts'},
             walk'.orchestrators = UNION {Sessions(files, m) : m \in NearMounts'},
             walk'.spaces \intersect walk'.orchestrators = {}
      PROVE  TreeClean'
  <2> HIDE DEF ReadMounts, NearMounts
  <2>1. \A m : SoundMount(m)' <=> SoundMount(m)
    BY DEF SoundMount
  <2>2. \A m : SpacesOf(m)' = SpacesOf(m)
    BY DEF SpacesOf
  <2>3. \A m : Sessions(files', m) = Sessions(files, m)
    OBVIOUS
  <2> HIDE DEF SoundMount, SpacesOf, Sessions
  <2>4. UNION {SpacesOf(m)' : m \in ReadMounts'} = UNION {SpacesOf(m) : m \in ReadMounts'}
    BY <2>2
  <2>5. UNION {Sessions(files', m) : m \in NearMounts'} = UNION {Sessions(files, m) : m \in NearMounts'}
    BY <2>3
  <2>6. QED BY <1>2, <2>1, <2>4, <2>5 DEF TreeClean
<1>3. CASE BeginStep
  <2>1. /\ walk'.stack = <<>> /\ walk'.entering = RootEntry /\ walk'.seen = {} /\ walk'.mounts = {}
        /\ walk'.depthCap = Local(files[Root]).depth /\ walk'.widthCap = Local(files[Root]).width
        /\ walk'.prefixes = {} /\ walk'.spaces = {}
        /\ walk'.orchestrators = IF Local(files[Root]).root THEN {<<Orchestrator>>} ELSE {}
    BY <1>3, BegunIs DEF BeginStep
  <2>2. Quiet' /\ EntryMount' = RootMount
    <3>1. Quiet'
      BY DEF Quiet
    <3>2. QED BY <2>1, <3>1, PlacesBegin
  <2>3. ReadMounts' = {}
    BY <2>1 DEF ReadMounts
  <2>4. walk'.entering # NoEntry
    BY <2>1, RootEntryIs
  <2> HIDE DEF ReadMounts, EntryMount
  <2>5. NearMounts' = {RootMount}
    BY <2>2, <2>3, <2>4 DEF NearMounts
  <2>6. RootMount.prefix = <<>>
    BY DEF RootMount
  <2>7. walk'.orchestrators = Sessions(files, RootMount)
    BY <2>1, RootSessions
  <2> HIDE DEF NearMounts, RootMount, Sessions
  <2>8. QED BY <1>2, <2>1, <2>3, <2>5, <2>6, <2>7
<1>4. CASE StopStep
  BY <1>4, StoppedIs DEF StopStep
<1>5. CASE DropStep
  <2>1. Reading /\ files[Here] = Gone
    BY <1>5 DEF DropStep
  <2>2. QED BY <2>1, EntryIs
<1>6. CASE EnterStep
  <2>1. Validating /\ Reading /\ walk.phase = "validate"
    BY <1>6, EnteredIs DEF EnterStep, Reading, Validating
  <2>2. /\ Nr = Rd \union {x0} /\ ReadMounts' = Nr /\ NearMounts' = Nr
    BY <1>6, <2>1, EnterNear
  <2>3. /\ walk'.prefixes = walk.prefixes /\ walk'.orchestrators = walk.orchestrators
        /\ walk'.spaces = walk.spaces \union {e.prefix \o w : w \in Content.spaces}
    BY <1>6, <2>1, EnteredIs DEF EnterStep, Reading
  <2>4. e.path \notin walk.seen /\ ~TooDeep /\ ~TooWide(Content) /\ ~Reserved(Content)
    BY <1>6 DEF EnterStep
  <2>5. walk.depthCap = Local(files[Root]).depth /\ walk.widthCap = Local(files[Root]).width
    BY <2>1 DEF TreePlaces, Reading
  <2>6. SoundMount(x0)
    <3>1. ~Contains(x0.above, x0.path) /\ Len(x0.above) = Len(walk.stack) /\ FileAt(files, x0) = Content
      BY <2>1, <2>4, EntryIs
    <3> HIDE DEF x0
    <3>2. QED BY <2>1, <2>4, <2>5, <3>1 DEF SoundMount, TooDeep, TooWide
  <2>7. SpacesOf(x0) = {e.prefix \o w : w \in Content.spaces}
    BY <2>1, EntryIs
  <2>8. SpacesOf(x0) \intersect walk.orchestrators = {}
    BY <2>1, <2>4, <2>7 DEF Reserved
  <2> HIDE DEF x0, Rd, Nr, ReadMounts, NearMounts, SoundMount, SpacesOf, Sessions
  <2>9. walk'.spaces = UNION {SpacesOf(m) : m \in ReadMounts'}
    <3>1. walk.spaces = UNION {SpacesOf(m) : m \in Rd} /\ ReadMounts' = Rd \union {x0}
      BY <1>1, <2>1, <2>2
    <3>2. walk'.spaces = walk.spaces \union SpacesOf(x0)
      BY <2>3, <2>7
    <3>3. QED BY <3>1, <3>2
  <2>10. walk'.spaces \intersect walk'.orchestrators = {}
    BY <1>1, <2>1, <2>3, <2>7, <2>8
  <2>11. \A m \in ReadMounts' : SoundMount(m)
    BY <1>1, <2>1, <2>2, <2>6
  <2>12. \A m, x \in NearMounts' : m.prefix = x.prefix => m = x
    BY <1>1, <2>1, <2>2
  <2>13. walk'.prefixes = {m.prefix : m \in NearMounts'} \ {<<>>}
    BY <1>1, <2>1, <2>2, <2>3
  <2>14. walk'.orchestrators = UNION {Sessions(files, m) : m \in NearMounts'}
    BY <1>1, <2>1, <2>2, <2>3
  <2>15. QED BY <1>2, <2>9, <2>10, <2>11, <2>12, <2>13, <2>14
<1>7. CASE SkipStep
  <2>1. walk.stack # <<>> /\ walk.entering = NoEntry
    BY <1>7 DEF SkipStep, Looping
  <2>2. /\ walk.phase = "validate" /\ walk'.mounts = walk.mounts /\ walk'.prefixes = walk.prefixes /\ walk'.spaces = walk.spaces
        /\ walk'.orchestrators = walk.orchestrators /\ walk'.entering = NoEntry
    BY <1>7, <2>1, SkippedIs DEF SkipStep
  <2>3. ReadMounts' = Rd /\ Nr = Rd /\ NearMounts' = Rd /\ Validating
    BY <2>1, <2>2, SameRead DEF Validating
  <2> HIDE DEF Rd, Nr, ReadMounts, NearMounts
  <2>4. QED BY <1>1, <1>2, <2>2, <2>3
<1>8. CASE ClaimStep
  <2> DEFINE x1 == EntryMount'
  <2>1. walk.stack # <<>> /\ walk.entering = NoEntry /\ Top.todo # {}
    BY <1>8 DEF ClaimStep, Looping
  <2>2. walk.phase = "validate" /\ walk'.mounts = walk.mounts /\ walk'.spaces = walk.spaces /\ Validating
    BY <1>8, <2>1, ClaimedIs DEF ClaimStep, Validating
  <2>3. /\ walk'.prefixes = walk.prefixes \union {KidPrefix}
        /\ walk'.orchestrators = walk.orchestrators \union {SessionName(KidPrefix)}
        /\ KidPrefix \notin walk.prefixes /\ SessionName(KidPrefix) \notin walk.spaces
    BY <1>8, <2>1, <2>2, ClaimedIs DEF ClaimStep
  <2>4. x1.prefix = KidPrefix /\ KidPrefix # <<>> /\ walk'.entering # NoEntry
    BY <1>8, ClaimPlaces
  <2>5. ReadMounts' = Rd /\ Nr = Rd /\ NearMounts' = Nr \union {x1}
    BY <2>1, <2>2, <2>4, SameRead
  <2> HIDE DEF x1, Rd, Nr, ReadMounts, NearMounts
  <2>6. Sessions(files, x1) = {SessionName(KidPrefix)}
    BY <2>4 DEF Sessions
  <2>7. \A m \in Nr : m.prefix # KidPrefix
    BY <1>1, <2>2, <2>3, <2>4
  <2> HIDE DEF Sessions, SoundMount, SpacesOf
  <2>8. \A m, x \in NearMounts' : m.prefix = x.prefix => m = x
    BY <1>1, <2>2, <2>4, <2>5, <2>7
  <2>9. walk'.prefixes = {m.prefix : m \in NearMounts'} \ {<<>>}
    BY <1>1, <2>2, <2>3, <2>4, <2>5
  <2>10. walk'.orchestrators = UNION {Sessions(files, m) : m \in NearMounts'}
    BY <1>1, <2>2, <2>3, <2>5, <2>6
  <2>11. walk'.spaces \intersect walk'.orchestrators = {}
    BY <1>1, <2>2, <2>3
  <2>12. QED BY <1>1, <1>2, <2>2, <2>5, <2>8, <2>9, <2>10, <2>11
<1>9. CASE PopStep
  <2>1. walk.stack # <<>> /\ walk.entering = NoEntry /\ Below # <<>>
    BY <1>9 DEF PopStep, Returning
  <2>2. /\ walk.phase = "validate" /\ walk'.mounts = walk.mounts /\ walk'.prefixes = walk.prefixes /\ walk'.spaces = walk.spaces
        /\ walk'.orchestrators = walk.orchestrators /\ walk'.entering = NoEntry
    BY <1>9, <2>1, PoppedIs DEF PopStep
  <2>3. ReadMounts' = Rd /\ Nr = Rd /\ NearMounts' = Rd /\ Validating
    BY <2>1, <2>2, SameRead DEF Validating
  <2> HIDE DEF Rd, Nr, ReadMounts, NearMounts
  <2>4. QED BY <1>1, <1>2, <2>2, <2>3
<1>10. CASE AgainStep
  BY <1>10, AgainIs DEF AgainStep, Returning
<1>11. CASE DoneStep
  BY <1>11, DoneIs DEF DoneStep, Returning
<1>12. QED BY <1>3, <1>4, <1>5, <1>6, <1>7, <1>8, <1>9, <1>10, <1>11 DEF WalkStep

\* A walk that ends with an error met a fault.
LEMMA StopsAtFaults ==
  ASSUME TreeTypes, TreePlaces, TreeClean, TreeOrder, edits = 0, Reason
  PROVE  Faulty
<1>1. CASE files[Root] = Gone
  BY <1>1 DEF Faulty
<1>2. CASE files[Root] # Gone
  <2>1. Quiet
    BY <1>2 DEF Quiet
  <2>2. \A m \in Mounts : ~SoundMount(m) => Faulty
    BY <2>1, FaultyIs
  <2>3. \A m, x \in Mounts : m # x /\ m.prefix = x.prefix => Faulty
    BY <2>1, FaultyIs
  <2>4. \A m, x \in Mounts : \A y \in SpacesOf(m) : y \in Sessions(files, x) => Faulty
    <3>1. \A m, x \in Mounts : SpacesOf(m) \intersect Sessions(files, x) # {} => Faulty
      BY <2>1, FaultyIs
    <3> HIDE DEF Faulty, Mounts, SpacesOf, Sessions
    <3>2. QED BY <3>1
  <2>5. ReadMounts \subseteq Mounts
    BY DEF ReadMounts
  <2>6. Reading => NearMounts \subseteq Mounts
    <3>1. Reading => EntryMount \in Mounts
      BY <2>1, EntryIs
    <3> HIDE DEF EntryMount, Mounts, ReadMounts
    <3>2. QED BY <2>5, <3>1 DEF NearMounts, Reading
  <2>7. CASE Reading
    <3> DEFINE x == EntryMount
    <3>1. /\ x \in Mounts /\ Len(x.above) = Len(walk.stack) /\ FileAt(files, x) = Content /\ files[Here] # Gone
          /\ Contains(x.above, x.path) <=> walk.entering.path \in walk.seen
          /\ SpacesOf(x) = {walk.entering.prefix \o w : w \in Content.spaces}
      BY <2>1, <2>7, EntryIs
    <3>2. walk.depthCap = Local(files[Root]).depth /\ walk.widthCap = Local(files[Root]).width
      BY <2>1, <2>7 DEF TreePlaces, Reading
    <3> HIDE DEF x
    <3>3. CASE walk.entering.path \in walk.seen
      BY <2>2, <3>1, <3>3 DEF SoundMount
    <3>4. CASE TooDeep
      BY <2>2, <3>1, <3>2, <3>4 DEF SoundMount, TooDeep
    <3>5. CASE TooWide(Content)
      BY <2>2, <3>1, <3>2, <3>5 DEF SoundMount, TooWide
    <3>6. CASE Reserved(Content)
      <4>1. Validating /\ \E w \in Content.spaces : walk.entering.prefix \o w \in walk.orchestrators
        BY <3>6 DEF Reserved
      <4>2. PICK y \in SpacesOf(x) : y \in walk.orchestrators
        BY <3>1, <4>1
      <4>3. walk.orchestrators = UNION {Sessions(files, m) : m \in NearMounts}
        BY <2>1, <4>1 DEF TreeClean
      <4> HIDE DEF Sessions, NearMounts, SpacesOf
      <4>4. PICK m \in NearMounts : y \in Sessions(files, m)
        BY <4>2, <4>3
      <4>5. QED BY <2>4, <2>6, <2>7, <3>1, <4>2, <4>4
    <3>7. Looping => FALSE
      BY <2>7 DEF Looping, Reading
    <3>8. walk.phase # "idle"
      BY <2>7 DEF Reading, Walking
    <3>9. QED BY <3>1, <3>3, <3>4, <3>5, <3>6, <3>7, <3>8 DEF Reason
  <2>8. CASE Looping /\ Validating /\ Present(files, KidPath) /\ (KidPrefix \in walk.prefixes \/ SessionName(KidPrefix) \in walk.spaces)
    <3> DEFINE x == MountIn(files, FrameMount(Len(walk.stack)), Kid)
    <3>1. /\ x = [names |-> KidEntry.names, path |-> KidPath, prefix |-> KidPrefix, above |-> Way(Len(walk.stack))]
          /\ x \in Mounts /\ KidPrefix # <<>>
      BY <2>1, <2>8, KidMount
    <3>2. x.names = Append(Top.names, Kid) /\ x.prefix = KidPrefix
      BY <3>1 DEF KidEntry
    <3> HIDE DEF x
    <3>3. x \notin ReadMounts
      <4> SUFFICES ASSUME x \in ReadMounts PROVE FALSE
        OBVIOUS
      <4>1. Mark(x) \in walk.mounts /\ Mark(x).names = x.names
        BY DEF ReadMounts, Mark
      <4>2. x.names \in MarkedNames
        BY <4>1 DEF MarkedNames
      <4>3. FreshFor(x.names)
        BY <2>8, <4>2 DEF TreeOrder
      <4>4. walk.stack # <<>> /\ Top.todo # {}
        BY <2>8 DEF Looping
      <4>5. Len(walk.stack) \in 1..Len(walk.stack) /\ Top = walk.stack[Len(walk.stack)] /\ Kid \in Top.todo
        BY <4>4, TopIs, KidIs
      <4>6. QED BY <3>2, <4>3, <4>5 DEF FreshFor
    <3>4. NearMounts = ReadMounts
      BY <2>8 DEF NearMounts, Looping
    <3>5. /\ walk.prefixes = {m.prefix : m \in NearMounts} \ {<<>>}
          /\ walk.spaces = UNION {SpacesOf(m) : m \in ReadMounts}
      BY <2>1, <2>8 DEF TreeClean
    <3> HIDE DEF NearMounts, ReadMounts, Mounts, SpacesOf
    <3>6. CASE KidPrefix \in walk.prefixes
      <4>1. PICK m \in ReadMounts : m.prefix = KidPrefix
        BY <3>4, <3>5, <3>6
      <4>2. m # x /\ m \in Mounts
        BY <2>5, <3>3, <4>1
      <4>3. QED BY <2>3, <3>1, <3>2, <4>1, <4>2
    <3>7. CASE SessionName(KidPrefix) \in walk.spaces
      <4>1. PICK m \in ReadMounts : SessionName(KidPrefix) \in SpacesOf(m)
        BY <3>5, <3>7
      <4>2. Sessions(files, x) = {SessionName(KidPrefix)}
        BY <3>1, <3>2 DEF Sessions
      <4>3. QED BY <2>4, <2>5, <3>1, <4>1, <4>2
    <3>8. QED BY <2>8, <3>6, <3>7
  <2>9. CASE walk.phase = "idle" /\ files[Root] = Gone
    BY <1>2, <2>9
  <2>10. QED BY <2>7, <2>8, <2>9 DEF Reason
<1>3. QED BY <1>1, <1>2

\* When a walk is done every mount was read.
LEMMA AllMountsRead ==
  ASSUME TreeTypes, TreeCover, Quiet, Returning, Below = <<>>
  PROVE  Mounts \subseteq ReadMounts /\ NearMounts = ReadMounts
<1>1. walk.stack # <<>> /\ Top.todo = {} /\ walk.entering = NoEntry /\ Walking
  BY DEF Returning
<1>2. Len(walk.stack) = 1 /\ Top = walk.stack[1]
  <2>1. Len(Below) = Len(walk.stack) - 1 /\ Top = walk.stack[Len(walk.stack)] /\ Len(walk.stack) \in Nat
    BY <1>1, TopIs
  <2>2. Len(Below) = 0
    OBVIOUS
  <2>3. Len(walk.stack) = 1
    BY <2>1, <2>2
  <2>4. QED BY <2>1, <2>3
<1>3. NearMounts = ReadMounts
  BY <1>1 DEF NearMounts
<1>4. \A m, k : ~LeftAt(m, k)
  <2>1. \A i \in 1..Len(walk.stack) : walk.stack[i].todo = {}
    BY <1>1, <1>2
  <2>2. QED BY <2>1 DEF LeftAt
<1>5. \A m \in ReadMounts : \A k \in DOMAIN FileAt(files, m).children :
        Present(files, MountIn(files, m, k).path) => MountIn(files, m, k) \in ReadMounts
  <2>1. \A m \in ReadMounts : Covered(m)
    BY <1>1 DEF TreeCover
  <2> HIDE DEF ReadMounts, LeftAt
  <2>2. QED BY <1>3, <1>4, <2>1 DEF Covered
<1>6. RootMount \in ReadMounts
  BY <1>1, <1>3 DEF TreeCover
<1>7. IsDisk(files) /\ files[Root] # Gone
  BY DEF TreeTypes, Quiet
<1>8. \A m \in ReadMounts : MountsIn(files, m) \subseteq ReadMounts
  <2> HIDE DEF ReadMounts
  <2>1. QED BY <1>5 DEF MountsIn
<1>9. Mounts \subseteq ReadMounts
  <2> DEFINE S == ReadMounts
  <2>1. RootMount \in S /\ \A m \in MountsOf(files) : m \in S /\ ~Contains(m.above, m.path) => MountsIn(files, m) \subseteq S
    BY <1>6, <1>8
  <2> HIDE DEF S
  <2>2. MountsOf(files) \subseteq S
    BY <1>7, <2>1, MountsAreLeast
  <2>3. QED BY <2>2 DEF S, Mounts
<1>10. QED BY <1>3, <1>9

LEMMA AllIsRead ==
  ASSUME TreeTypes, TreePlaces, TreeCover, TreeClean, Quiet, Validating, Returning, Below = <<>>
  PROVE  ~Faulty
<1>3. NearMounts = ReadMounts
  BY AllMountsRead
<1>9. Mounts \subseteq ReadMounts
  BY AllMountsRead
<1>10. /\ \A m \in ReadMounts : SoundMount(m)
       /\ \A m, x \in NearMounts : m.prefix = x.prefix => m = x
       /\ walk.spaces = UNION {SpacesOf(m) : m \in ReadMounts}
       /\ walk.orchestrators = UNION {Sessions(files, m) : m \in NearMounts}
       /\ walk.spaces \intersect walk.orchestrators = {}
  BY DEF TreeClean
<1> HIDE DEF ReadMounts, NearMounts, Mounts, SoundMount, SpacesOf, Sessions
<1>11. \A m, x \in Mounts : SpacesOf(m) \intersect Sessions(files, x) = {}
  BY <1>3, <1>9, <1>10
<1>12. QED BY <1>3, <1>9, <1>10, <1>11, FaultyIs

LEMMA WalkKeepsVerdict ==
  ASSUME TreeTypes, TreePlaces, TreeCover, TreeClean, TreeOrder, TreeVerdict, WalkStep, files' = files, edits' = edits
  PROVE  TreeVerdict'
<1> SUFFICES ASSUME edits = 0
             PROVE  /\ files[Root] = Gone => walk'.phase \in {"idle", "refused"}
                    /\ walk'.phase = "refused" => Faulty
                    /\ walk'.phase \in {"merge", "loaded"} => ~Faulty
  <2>1. Faulty' <=> Faulty
    BY DEF Faulty, Mounts
  <2> HIDE DEF Faulty
  <2>2. QED BY <2>1 DEF TreeVerdict
<1>1. /\ files[Root] = Gone => walk.phase \in {"idle", "refused"}
      /\ walk.phase = "refused" => Faulty
      /\ walk.phase \in {"merge", "loaded"} => ~Faulty
  BY DEF TreeVerdict
<1>2. Walking => files[Root] # Gone /\ Quiet
  BY <1>1 DEF Walking, Quiet
<1> HIDE DEF Faulty
<1>3. CASE BeginStep
  <2>1. walk'.phase = "validate" /\ files[Root] # Gone
    BY <1>3, BegunIs DEF BeginStep
  <2>2. QED BY <2>1
<1>4. CASE StopStep
  <2>1. walk'.phase = "refused" /\ Faulty
    BY <1>4, StoppedIs, StopsAtFaults DEF StopStep
  <2>2. QED BY <2>1
<1>5. CASE DropStep
  <2>1. Walking /\ walk'.phase = walk.phase
    BY <1>5, UnclaimedIs DEF DropStep, Reading
  <2>2. QED BY <1>1, <1>2, <2>1
<1>6. CASE EnterStep
  <2>1. Walking /\ walk'.phase = walk.phase
    BY <1>6, EnteredIs DEF EnterStep, Reading
  <2>2. QED BY <1>1, <1>2, <2>1
<1>7. CASE SkipStep
  <2>1. Walking /\ walk'.phase = walk.phase
    BY <1>7, SkippedIs DEF SkipStep, Looping
  <2>2. QED BY <1>1, <1>2, <2>1
<1>8. CASE ClaimStep
  <2>1. Walking /\ walk'.phase = walk.phase
    BY <1>8, ClaimedIs DEF ClaimStep, Looping
  <2>2. QED BY <1>1, <1>2, <2>1
<1>9. CASE PopStep
  <2>1. Walking /\ walk'.phase = walk.phase
    BY <1>9, PoppedIs DEF PopStep, Returning
  <2>2. QED BY <1>1, <1>2, <2>1
<1>10. CASE AgainStep
  <2>1. Walking /\ walk.stack # <<>> /\ Below = <<>> /\ Validating /\ Returning /\ walk' = Again
    BY <1>10 DEF AgainStep, Returning
  <2>2. walk'.phase = "merge" /\ ~Faulty
    BY <1>2, <2>1, AgainIs, AllIsRead
  <2>3. QED BY <1>2, <2>1, <2>2
<1>11. CASE DoneStep
  <2>1. Walking /\ walk.phase = "merge" /\ walk'.phase = "loaded"
    BY <1>11, DoneIs DEF DoneStep, Returning, Walking, Validating
  <2>2. QED BY <1>1, <1>2, <2>1
<1>12. QED BY <1>3, <1>4, <1>5, <1>6, <1>7, <1>8, <1>9, <1>10, <1>11 DEF WalkStep

-----------------------------------------------------------------------------
(* No project below itself *)

\* The beginnings of a mount's path are paths of mounts.
LEMMA BeginningsAreMounts ==
  ASSUME TreeTypes, Quiet
  PROVE  \A m \in Mounts : \A i \in 1..Len(m.path) : \E x \in Mounts : x.path = SubSeq(m.path, 1, i)
<1> DEFINE Good(m) == \A i \in 1..Len(m.path) : \E x \in Mounts : x.path = SubSeq(m.path, 1, i)
           S == {m \in Mounts : Good(m)}
<1>1. IsDisk(files) /\ files[Root] # Gone
  BY DEF TreeTypes, Quiet
<1>2. \A m \in Mounts : /\ m \in MountSet /\ m.path \in Seq(Projects) /\ Len(m.path) \in Nat /\ Len(m.path) >= 1
                        /\ files[Last(m.path)] # Gone /\ SubSeq(m.path, 1, Len(m.path)) = m.path
  <2>1. \A m \in Mounts : m \in MountSet /\ files[Last(m.path)] # Gone
    BY MountIs
  <2>2. \A m \in Mounts : m.path \in Seq(Projects) /\ Len(m.path) \in 1..MaxPath
    BY <2>1, PathsAre DEF MountSet
  <2>3. \A p \in Seq(Projects) : SubSeq(p, 1, Len(p)) = p
    BY SubSeqFull
  <2>4. QED BY <2>1, <2>2, <2>3, ConfigTreeAssumption
<1>3. ASSUME NEW m \in Mounts, Len(m.path) = 1 PROVE Good(m)
  BY <1>2, <1>3
<1>4. RootMount \in S
  <2>1. RootMount \in Mounts /\ Len(RootMount.path) = 1
    BY MountIs DEF RootMount
  <2>2. QED BY <1>3, <2>1
<1>5. ASSUME NEW m \in Mounts, Good(m), ~Contains(m.above, m.path), NEW y \in MountsIn(files, m) PROVE y \in S
  <2>1. y \in Mounts
    BY <1>1, <1>5, MountsAreClosed DEF Mounts
  <2>2. PICK k \in DOMAIN FileAt(files, m).children : y = MountIn(files, m, k) /\ Present(files, y.path)
    BY <1>5 DEF MountsIn
  <2> DEFINE child == FileAt(files, m).children[k]
  <2>3. y.path = PathOf(m.path, child) /\ child \in Children
    <3>1. m \in MountSet /\ files[Last(m.path)] # Gone
      BY <1>2
    <3>2. Present(files, MountIn(files, m, k).path)
      BY <2>2
    <3> HIDE DEF Good, S
    <3>3. MountIn(files, m, k).path = PathOf(m.path, child) /\ child \in Children
      BY <1>1, <3>1, <3>2, ChildFacts
    <3>4. QED BY <2>2, <3>3
  <2>4. child.project \in Projects
    BY <2>3 DEF Children
  <2> HIDE DEF child, S
  <2>5. Good(y)
    <3>1. CASE child.abs
      <4>1. Len(y.path) = 1
        BY <2>3, <3>1 DEF PathOf
      <4>2. QED BY <1>3, <2>1, <4>1
    <3>2. CASE ~child.abs
      <4> DEFINE a == m.path
                 p == child.project
      <4>1. y.path = Append(a, p)
        BY <2>3, <3>2 DEF PathOf
      <4>2. a \in Seq(Projects) /\ p \in Projects /\ Len(a) \in Nat /\ Len(y.path) = Len(a) + 1
        BY <1>2, <2>4, <4>1, AppendProperties
      <4> HIDE DEF a, p
      <4>3. ASSUME NEW i \in 1..(Len(a)+1) PROVE \E x \in Mounts : x.path = SubSeq(y.path, 1, i)
        <5>1. CASE i = Len(a) + 1
          BY <1>2, <2>1, <4>2, <5>1
        <5>2. CASE i # Len(a) + 1
          <6>1. i \in 1..Len(a)
            BY <4>2, <5>2
          <6>2. PICK x \in Mounts : x.path = SubSeq(a, 1, i)
            BY <1>5, <6>1 DEF a
          <6>3. SubSeq(Append(a, p), 1, i) = SubSeq(a, 1, i)
            <7> DEFINE b == Append(a, p)
                       u == SubSeq(b, 1, i)
                       v == SubSeq(a, 1, i)
            <7>1. b \in Seq(Projects) /\ Len(b) = Len(a) + 1 /\ \A j \in 1..Len(a) : b[j] = a[j]
              BY <4>2, AppendProperties
            <7> HIDE DEF b
            <7>2. i \in Nat /\ i >= 1 /\ i <= Len(a) /\ i <= Len(b) /\ \A j \in 1..i : j \in 1..Len(a) /\ j \in 1..Len(b) /\ 1 + j - 1 = j
              BY <4>2, <6>1, <7>1
            <7>3. v \in Seq(Projects) /\ Len(v) = i /\ \A j \in 1..i : v[j] = a[j]
              <8>1. \A j \in 1..i : a[j] \in Projects
                BY <4>2, <7>2
              <8>2. QED BY <7>2, <8>1, SubSeqProperties
            <7>4. u \in Seq(Projects) /\ Len(u) = i /\ \A j \in 1..i : u[j] = b[j]
              <8>1. \A j \in 1..i : b[j] \in Projects
                BY <7>1, <7>2
              <8>2. QED BY <7>2, <8>1, SubSeqProperties
            <7> HIDE DEF u, v
            <7>5. \A j \in 1..i : u[j] = v[j]
              BY <7>1, <7>2, <7>3, <7>4
            <7>6. u = v
              BY <7>3, <7>4, <7>5, SeqEqual
            <7>7. QED BY <7>6 DEF u, v, b
          <6>4. QED BY <4>1, <6>2, <6>3
        <5>3. QED BY <5>1, <5>2
      <4>4. QED BY <4>2, <4>3
    <3>3. QED BY <3>1, <3>2
  <2>6. QED BY <2>1, <2>5 DEF S
<1>6. Mounts \subseteq S
  <2>1. \A m \in S : m \in Mounts /\ Good(m)
    OBVIOUS
  <2> HIDE DEF S, Good
  <2>2. \A m \in MountsOf(files) : m \in S /\ ~Contains(m.above, m.path) => MountsIn(files, m) \subseteq S
    BY <1>5, <2>1
  <2>3. MountsOf(files) \subseteq S
    BY <1>1, <1>4, <2>2, MountsAreLeast
  <2>4. QED BY <2>3 DEF Mounts
<1>7. QED BY <1>6

\* A path goes from a project to a relative child of it.
RelativeChild(p, q) == \E k \in DOMAIN Local(files[p]).children : /\ ~Local(files[p]).children[k].abs
                                                                  /\ Local(files[p]).children[k].project = q
LEMMA StepsAreChildren ==
  ASSUME TreeTypes, Quiet
  PROVE  \A m \in Mounts : \A i \in 1..(Len(m.path)-1) : RelativeChild(m.path[i], m.path[i+1])
<1> DEFINE Good(m) == \A i \in 1..(Len(m.path)-1) : RelativeChild(m.path[i], m.path[i+1])
           S == {m \in Mounts : Good(m)}
<1>1. IsDisk(files) /\ files[Root] # Gone
  BY DEF TreeTypes, Quiet
<1>2. \A m \in Mounts : m \in MountSet /\ m.path \in Seq(Projects) /\ Len(m.path) \in Nat /\ Len(m.path) >= 1 /\ files[Last(m.path)] # Gone
  <2>1. \A m \in Mounts : m \in MountSet /\ files[Last(m.path)] # Gone
    BY MountIs
  <2>2. \A m \in Mounts : m.path \in Seq(Projects) /\ Len(m.path) \in 1..MaxPath
    BY <2>1, PathsAre DEF MountSet
  <2>3. QED BY <2>1, <2>2, ConfigTreeAssumption
<1>3. ASSUME NEW m \in Mounts, Len(m.path) = 1 PROVE Good(m)
  BY <1>3
<1>4. RootMount \in S
  <2>1. RootMount \in Mounts /\ Len(RootMount.path) = 1
    BY MountIs DEF RootMount
  <2>2. QED BY <1>3, <2>1
<1>5. ASSUME NEW m \in Mounts, Good(m), ~Contains(m.above, m.path), NEW y \in MountsIn(files, m) PROVE y \in S
  <2>1. y \in Mounts
    BY <1>1, <1>5, MountsAreClosed DEF Mounts
  <2>2. PICK k \in DOMAIN FileAt(files, m).children : y = MountIn(files, m, k) /\ Present(files, y.path)
    BY <1>5 DEF MountsIn
  <2> DEFINE child == FileAt(files, m).children[k]
  <2>3. y.path = PathOf(m.path, child) /\ child \in Children
    <3>1. m \in MountSet /\ files[Last(m.path)] # Gone
      BY <1>2
    <3>2. Present(files, MountIn(files, m, k).path)
      BY <2>2
    <3> HIDE DEF Good, S
    <3>3. MountIn(files, m, k).path = PathOf(m.path, child) /\ child \in Children
      BY <1>1, <3>1, <3>2, ChildFacts
    <3>4. QED BY <2>2, <3>3
  <2>4. child.project \in Projects
    BY <2>3 DEF Children
  <2>5. ~child.abs => RelativeChild(Last(m.path), child.project)
    BY <2>2 DEF RelativeChild, FileAt
  <2> HIDE DEF child, S
  <2>6. Good(y)
    <3>1. CASE child.abs
      <4>1. Len(y.path) = 1
        BY <2>3, <3>1 DEF PathOf
      <4>2. QED BY <1>3, <2>1, <4>1
    <3>2. CASE ~child.abs
      <4> DEFINE a == m.path
                 p == child.project
      <4>1. y.path = Append(a, p) /\ RelativeChild(Last(a), p)
        BY <2>3, <2>5, <3>2 DEF PathOf
      <4>2. a \in Seq(Projects) /\ p \in Projects /\ Len(a) \in Nat /\ Len(a) >= 1
        BY <1>2, <2>4
      <4> HIDE DEF a, p
      <4>3. Len(y.path) = Len(a) + 1 /\ y.path[Len(a)+1] = p /\ \A j \in 1..Len(a) : y.path[j] = a[j]
        BY <4>1, <4>2, AppendProperties
      <4>4. ASSUME NEW i \in 1..Len(a) PROVE RelativeChild(y.path[i], y.path[i+1])
        <5>1. CASE i = Len(a)
          BY <4>1, <4>2, <4>3, <5>1 DEF Last
        <5>2. CASE i # Len(a)
          <6>1. i \in 1..(Len(a)-1) /\ i + 1 \in 1..Len(a)
            BY <4>2, <5>2
          <6>2. RelativeChild(a[i], a[i+1])
            BY <1>5, <6>1 DEF a
          <6>3. QED BY <4>3, <6>1, <6>2
        <5>3. QED BY <5>1, <5>2
      <4>5. Len(y.path) - 1 = Len(a)
        BY <4>2, <4>3
      <4>6. QED BY <4>4, <4>5
    <3>3. QED BY <3>1, <3>2
  <2>7. QED BY <2>1, <2>6 DEF S
<1>6. Mounts \subseteq S
  <2>1. \A m \in S : m \in Mounts /\ Good(m)
    OBVIOUS
  <2> HIDE DEF S, Good
  <2>2. \A m \in MountsOf(files) : m \in S /\ ~Contains(m.above, m.path) => MountsIn(files, m) \subseteq S
    BY <1>5, <2>1
  <2>3. MountsOf(files) \subseteq S
    BY <1>1, <1>4, <2>2, MountsAreLeast
  <2>4. QED BY <2>3 DEF Mounts
<1>7. QED BY <1>6

\* A path that comes back to a project goes on to the longest that can be opened, and so below
\* every cap that is smaller.
LEMMA CapsStopCycles ==
  ASSUME TreeTypes, Quiet, ~Faulty, Local(files[Root]).depth \in 1..(MaxPath - 2), NEW m \in Mounts
  PROVE  IsInjective(m.path)
<1> DEFINE p == m.path
           d == Local(files[Root]).depth
<1>1. IsDisk(files) /\ files[Root] # Gone /\ MaxPath \in Nat
  BY ConfigTreeAssumption DEF TreeTypes, Quiet
<1>2. \A x \in Mounts : /\ x \in MountSet /\ x.path \in Seq(Projects) /\ Len(x.path) \in 1..MaxPath
                        /\ files[Last(x.path)] # Gone /\ x.above \in Seq(AllPaths) /\ Len(x.path) <= Len(x.above) + 1
  <2>1. \A x \in MountsOf(files) : AtLevel(files, Len(x.above), x)
    BY <1>1, MountType
  <2>2. \A x \in Mounts : x \in MountSet /\ files[Last(x.path)] # Gone /\ Len(x.path) <= Len(x.above) + 1
    BY <2>1 DEF Mounts, AtLevel
  <2>3. QED BY <2>2, PathsAre DEF MountSet
<1>3. \A x \in Mounts : ~Contains(x.above, x.path) /\ ~(d # 0 /\ Len(x.above) > d)
  <2>1. \A x \in Mounts : SoundMount(x)
    BY FaultyIs
  <2>2. QED BY <2>1 DEF SoundMount
<1>4. p \in Seq(Projects) /\ Len(p) \in Nat /\ DOMAIN p = 1..Len(p)
  BY <1>2
<1> SUFFICES ASSUME NEW i \in 1..Len(p), NEW j \in 1..Len(p), i < j, p[i] = p[j] PROVE FALSE
  BY <1>4 DEF IsInjective
<1>5. i \in Nat /\ j \in Nat /\ i >= 1 /\ i <= MaxPath /\ MaxPath - i \in Nat
  BY <1>1, <1>2, <1>4
\* A mount that ends at a project of the way from i to j has one that ends at the next.
<1>6. ASSUME NEW x \in Mounts, NEW t \in i..(j-1), Last(x.path) = p[t], Len(x.path) < MaxPath
      PROVE  \E y \in Mounts : Len(y.path) = Len(x.path) + 1 /\ Last(y.path) = p[t+1]
  <2>1. t \in 1..(Len(p)-1) /\ t + 1 \in 1..Len(p)
    BY <1>4, <1>5
  <2>2. RelativeChild(p[t], p[t+1])
    BY <2>1, StepsAreChildren
  <2>3. PICK k \in DOMAIN FileAt(files, x).children : /\ ~FileAt(files, x).children[k].abs
                                                      /\ FileAt(files, x).children[k].project = p[t+1]
    BY <1>6, <2>2 DEF RelativeChild, FileAt
  <2> DEFINE y == MountIn(files, x, k)
             q == p[t+1]
  <2>4. y.path = Append(x.path, q)
    BY <2>3 DEF MountIn, PathOf
  <2>5. q \in Projects
    BY <1>4, <2>1
  <2>6. files[q] # Gone
    <3>1. PICK z \in Mounts : z.path = SubSeq(p, 1, t + 1)
      BY <2>1, BeginningsAreMounts
    <3>2. Last(z.path) = q
      <4>1. t + 1 \in Nat /\ t + 1 >= 1 /\ t + 1 <= Len(p) /\ \A n \in 1..(t+1) : p[n] \in Projects /\ 1 + n - 1 = n
        BY <1>4, <2>1
      <4>2. Len(SubSeq(p, 1, t + 1)) = t + 1 /\ SubSeq(p, 1, t + 1)[t + 1] = p[t + 1]
        BY <4>1, <2>1, SubSeqProperties
      <4>3. QED BY <3>1, <4>2 DEF Last
    <3>3. QED BY <1>2, <3>2
  <2>7. Len(y.path) = Len(x.path) + 1 /\ Last(y.path) = q
    <3> DEFINE a == x.path
               b == y.path
    <3>1. a \in Seq(Projects) /\ Len(a) \in Nat /\ b = Append(a, q)
      BY <1>2, <2>4
    <3> HIDE DEF a, b, q
    <3>2. Len(b) = Len(a) + 1 /\ b[Len(a)+1] = q
      BY <2>5, <3>1, AppendProperties
    <3>3. QED BY <3>2 DEF a, b, Last
  <2>8. Present(files, y.path)
    <3> HIDE DEF y, q
    <3>1. Len(x.path) + 1 <= MaxPath
      BY <1>1, <1>2, <1>6
    <3>2. QED BY <2>6, <2>7, <3>1 DEF Present
  <2>9. y \in Mounts
    <3>1. y \in MountsIn(files, x)
      BY <2>3, <2>8 DEF MountsIn
    <3> HIDE DEF y
    <3>2. QED BY <1>1, <1>3, <3>1, MountsAreClosed DEF Mounts
  <2> HIDE DEF y
  <2>10. QED BY <2>7, <2>9
<1> DEFINE N == MaxPath - i
           S == {n \in 0..N : \E x \in Mounts : \E t \in i..(j-1) : Len(x.path) = i + n /\ Last(x.path) = p[t]}
<1>7. 0 \in S
  <2>1. PICK x \in Mounts : x.path = SubSeq(p, 1, i)
    BY BeginningsAreMounts
  <2>2. Len(SubSeq(p, 1, i)) = i /\ SubSeq(p, 1, i)[i] = p[i]
    <3>1. i <= Len(p) /\ \A n \in 1..i : p[n] \in Projects /\ 1 + n - 1 = n
      BY <1>4, <1>5
    <3>2. i \in 1..i
      BY <1>5
    <3>3. QED BY <1>4, <1>5, <3>1, <3>2, SubSeqProperties
  <2>3. Len(x.path) = i + 0 /\ Last(x.path) = p[i]
    BY <1>5, <2>1, <2>2 DEF Last
  <2>4. i \in i..(j-1) /\ 0 \in 0..N
    BY <1>5
  <2>5. QED BY <2>3, <2>4
<1>8. ASSUME NEW n \in 0..N, n < N, n \in S PROVE n + 1 \in S
  <2>1. PICK x \in Mounts, t \in i..(j-1) : Len(x.path) = i + n /\ Last(x.path) = p[t]
    BY <1>8
  <2>2. Len(x.path) < MaxPath /\ n + 1 \in 0..N
    <3>1. n < MaxPath - i /\ n \in Nat /\ MaxPath \in Nat /\ i \in Nat
      BY <1>1, <1>5, <1>8
    <3>2. i + n < MaxPath /\ n + 1 \in 0..(MaxPath - i)
      BY ONLY <3>1
    <3>3. QED BY <2>1, <3>2
  <2>3. PICK y \in Mounts : Len(y.path) = Len(x.path) + 1 /\ Last(y.path) = p[t+1]
    BY <1>6, <2>1, <2>2
  <2>4. Len(y.path) = i + (n + 1)
    BY <1>5, <2>1, <2>3
  <2>5. PICK u \in i..(j-1) : p[u] = p[t+1]
    <3>1. CASE t = j - 1
      <4>1. t + 1 = j /\ i \in i..(j-1)
        BY <1>5, <3>1
      <4>2. QED BY <4>1
    <3>2. CASE t # j - 1
      <4>1. t + 1 \in i..(j-1)
        BY <1>5, <3>2
      <4>2. QED BY <4>1
    <3>3. QED BY <3>1, <3>2
  <2>6. QED BY <2>2, <2>3, <2>4, <2>5
<1>9. N \in S
  <2> HIDE DEF S, N
  <2>1. N \in Nat
    BY <1>5 DEF N
  <2>2. \A n \in 0..N : n \in S
    BY <1>7, <1>8, <2>1, Upwards
  <2>3. N \in 0..N
    BY <2>1
  <2>4. QED BY <2>2, <2>3
<1>10. PICK x \in Mounts : Len(x.path) = i + N
  BY <1>9
<1>11. Len(x.above) >= MaxPath - 1 /\ Len(x.above) \in Nat
  <2>1. Len(x.path) = MaxPath
    BY <1>1, <1>5, <1>10
  <2>2. x.above \in Seq(AllPaths) /\ Len(x.path) <= Len(x.above) + 1
    BY <1>2
  <2>3. Len(x.above) \in Nat
    BY <2>2
  <2>4. QED BY <1>1, <2>1, <2>2, <2>3
<1>12. d # 0 /\ d <= MaxPath - 2 /\ d \in Nat
  BY <1>1
<1>13. QED BY <1>1, <1>3, <1>11, <1>12

LEMMA WalkKeepsMarks ==
  ASSUME TreeTypes, TreePlaces, TreeMarks, WalkStep, files' = files, edits' = edits
  PROVE  TreeMarks'
<1> SUFFICES ASSUME Quiet
             PROVE  /\ \A k \in walk'.mounts : \E m \in Mounts : m.path = k.path
                    /\ walk'.phase = "loaded" => walk'.depthCap = Local(files[Root]).depth
                    /\ walk'.phase = "validate" => \A k \in walk'.mounts : k.phase = "validate"
  <2>1. Mounts' = Mounts /\ (Quiet' <=> Quiet)
    BY DEF Mounts, Quiet
  <2> HIDE DEF Mounts, Quiet
  <2>2. QED BY <2>1 DEF TreeMarks, Validating
<1>1. /\ \A k \in walk.mounts : \E m \in Mounts : m.path = k.path
      /\ walk.phase = "validate" => \A k \in walk.mounts : k.phase = "validate"
  BY DEF TreeMarks, Validating
<1> HIDE DEF Mounts
<1>2. CASE BeginStep
  <2>1. walk'.mounts = {} /\ walk'.phase = "validate"
    BY <1>2, BegunIs DEF BeginStep
  <2>2. QED BY <2>1
<1>3. CASE StopStep
  <2>1. walk'.mounts = walk.mounts /\ walk'.phase = "refused"
    BY <1>3, StoppedIs DEF StopStep
  <2>2. QED BY <1>1, <2>1
<1>4. CASE DropStep
  <2>1. walk'.mounts = walk.mounts /\ walk'.phase # "loaded" /\ walk'.phase = walk.phase
    BY <1>4, UnclaimedIs DEF DropStep, Reading, Walking
  <2>2. QED BY <1>1, <2>1
<1>5. CASE EnterStep
  <2> DEFINE e == walk.entering
             mark == [phase |-> walk.phase, names |-> e.names, path |-> e.path, prefix |-> e.prefix]
  <2>1. walk'.mounts = walk.mounts \union {mark} /\ walk'.phase # "loaded" /\ Reading /\ walk'.phase = walk.phase
    BY <1>5, EnteredIs DEF EnterStep, Reading, Walking
  <2>2. EntryMount \in Mounts /\ EntryMount.path = e.path
    BY <2>1, EntryIs
  <2>3. mark.path = e.path /\ mark.phase = walk.phase
    OBVIOUS
  <2> HIDE DEF mark, EntryMount
  <2>4. QED BY <1>1, <2>1, <2>2, <2>3
<1>6. CASE SkipStep \/ ClaimStep
  <2>1. walk'.mounts = walk.mounts /\ walk'.phase # "loaded" /\ walk'.phase = walk.phase
    BY <1>6, SkippedIs, ClaimedIs DEF SkipStep, ClaimStep, Looping, Walking
  <2>2. QED BY <1>1, <2>1
<1>7. CASE PopStep
  <2>1. walk'.mounts = walk.mounts /\ walk'.phase # "loaded" /\ walk'.phase = walk.phase
    BY <1>7, PoppedIs DEF PopStep, Returning, Walking
  <2>2. QED BY <1>1, <2>1
<1>8. CASE AgainStep
  <2>1. walk'.mounts = walk.mounts /\ walk'.phase = "merge"
    BY <1>8, AgainIs DEF AgainStep, Returning
  <2>2. QED BY <1>1, <2>1
<1>9. CASE DoneStep
  <2>1. walk'.mounts = walk.mounts /\ walk'.depthCap = walk.depthCap /\ Walking /\ walk'.phase = "loaded"
    BY <1>9, DoneIs DEF DoneStep, Returning
  <2>2. QED BY <1>1, <2>1 DEF TreePlaces
<1>10. QED BY <1>2, <1>3, <1>4, <1>5, <1>6, <1>7, <1>8, <1>9 DEF WalkStep

\* What was merged are the workspaces of what was read, in the end those of the whole tree.
TreeRows ==
  Quiet => /\ walk.phase = "merge" => walk.tree = UNION {RowsOf(files, m) : m \in ReadMounts}
           /\ walk.phase = "loaded" => walk.tree = AllRows

LEMMA WalkKeepsRows ==
  ASSUME TreeTypes, TreeViews, TreePlaces, TreeCover, TreeMarks, TreeRows, WalkStep, files' = files, edits' = edits
  PROVE  TreeRows'
<1> SUFFICES ASSUME Quiet
             PROVE  /\ walk'.phase = "merge" => walk'.tree = UNION {RowsOf(files, m) : m \in ReadMounts'}
                    /\ walk'.phase = "loaded" => walk'.tree = AllRows
  <2>1. AllRows' = AllRows /\ (Quiet' <=> Quiet)
    BY DEF AllRows, Mounts, Quiet
  <2> HIDE DEF AllRows, Quiet, ReadMounts
  <2>2. QED BY <2>1 DEF TreeRows
<1>1. walk.phase = "merge" => walk.tree = UNION {RowsOf(files, m) : m \in ReadMounts}
  BY DEF TreeRows
<1>2. ASSUME walk'.phase = walk.phase, walk'.mounts = walk.mounts, walk'.tree = walk.tree, Walking
      PROVE  /\ walk'.phase = "merge" => walk'.tree = UNION {RowsOf(files, m) : m \in ReadMounts'}
             /\ walk'.phase = "loaded" => walk'.tree = AllRows
  <2>1. ReadMounts' = ReadMounts /\ walk'.phase # "loaded"
    BY <1>2, SameRead DEF Walking
  <2> HIDE DEF ReadMounts, RowsOf, AllRows
  <2>2. QED BY <1>1, <1>2, <2>1
<1>3. CASE BeginStep
  BY <1>3, BegunIs DEF BeginStep
<1>4. CASE StopStep
  BY <1>4, StoppedIs DEF StopStep
<1>5. CASE DropStep
  <2>1. walk'.phase = walk.phase /\ walk'.mounts = walk.mounts /\ walk'.tree = walk.tree /\ Walking
    BY <1>5, UnclaimedIs DEF DropStep, Reading
  <2>2. QED BY <1>2, <2>1
<1>6. CASE EnterStep
  <2> DEFINE e == walk.entering
             x == EntryMount
             rows == {[name |-> e.prefix \o n, of |-> <<Here, n>>, under |-> e.prefix] : n \in Content.spaces}
  <2>1. Reading /\ Walking /\ walk.phase # "loaded" /\ walk'.phase = walk.phase
        /\ walk'.tree = IF Validating THEN walk.tree ELSE walk.tree \union rows
    BY <1>6, EnteredIs DEF EnterStep, Reading, Walking
  <2>2. ReadMounts' = ReadMounts \union {x}
    BY <1>6, EnterNear
  <2>3. RowsOf(files, x) = rows
    <3>1. x.prefix = e.prefix /\ x.path = e.path /\ FileAt(files, x) = Content
      BY <2>1, EntryIs
    <3> HIDE DEF x
    <3>2. QED BY <3>1 DEF RowsOf, Here
  <2> HIDE DEF x, rows, ReadMounts, RowsOf, AllRows
  <2>4. UNION {RowsOf(files, m) : m \in ReadMounts \union {x}} = (UNION {RowsOf(files, m) : m \in ReadMounts}) \union rows
    BY <2>3
  <2>5. walk.phase = "merge" => walk'.tree = UNION {RowsOf(files, m) : m \in ReadMounts \union {x}}
    <3> DEFINE old == UNION {RowsOf(files, m) : m \in ReadMounts}
               new == UNION {RowsOf(files, m) : m \in ReadMounts \union {x}}
    <3>1. new = old \union rows
      BY <2>3, <2>4
    <3>2. walk.phase = "merge" => walk.tree = old /\ walk'.tree = walk.tree \union rows
      BY <1>1, <2>1 DEF Validating
    <3> HIDE DEF old, new
    <3>3. walk.phase = "merge" => walk'.tree = new
      BY <3>1, <3>2
    <3>4. QED BY <3>3 DEF new
  <2>6. QED BY <2>1, <2>2, <2>5
<1>7. CASE SkipStep \/ ClaimStep
  <2>1. walk'.phase = walk.phase /\ walk'.mounts = walk.mounts /\ walk'.tree = walk.tree /\ Walking
    BY <1>7, SkippedIs, ClaimedIs DEF SkipStep, ClaimStep, Looping
  <2>2. QED BY <1>2, <2>1
<1>8. CASE PopStep
  <2>1. walk'.phase = walk.phase /\ walk'.mounts = walk.mounts /\ walk'.tree = walk.tree /\ Walking
    BY <1>8, PoppedIs DEF PopStep, Returning
  <2>2. QED BY <1>2, <2>1
<1>9. CASE AgainStep
  <2>1. Validating /\ walk'.phase = "merge" /\ walk'.mounts = walk.mounts /\ walk'.tree = walk.tree
    BY <1>9, AgainIs DEF AgainStep, Returning
  <2>2. walk.tree = {}
    BY <2>1 DEF TreeViews, Validating
  <2>3. ReadMounts' = {}
    BY <2>1, NothingMerged
  <2> HIDE DEF ReadMounts, RowsOf
  <2>4. QED BY <2>1, <2>2, <2>3
<1>10. CASE DoneStep
  <2>1. Returning /\ Below = <<>> /\ walk.phase = "merge" /\ walk'.phase = "loaded" /\ walk'.tree = walk.tree
    BY <1>10, DoneIs DEF DoneStep, Returning, Walking, Validating
  <2>2. Mounts \subseteq ReadMounts /\ ReadMounts \subseteq Mounts
    BY <2>1, AllMountsRead DEF ReadMounts
  <2> HIDE DEF ReadMounts, Mounts, RowsOf
  <2>3. ReadMounts = Mounts
    BY <2>2
  <2>4. QED BY <1>1, <2>1, <2>3 DEF AllRows
<1>11. QED BY <1>3, <1>4, <1>5, <1>6, <1>7, <1>8, <1>9, <1>10 DEF WalkStep

-----------------------------------------------------------------------------
(* The theorem *)

\* What Config::load returned is the whole tree, as long as nobody edits it.
TreeConfig == edits = 0 /\ loader = "load_tree" => files[Root] # Gone /\ Shows(cfg, AllRows)

WalkInv ==
  /\ TreeTypes /\ TreeChain /\ TreeClaims /\ TreeViews /\ TreeOrder
  /\ TreePlaces /\ TreeCover /\ TreeClean /\ TreeVerdict /\ TreeMarks /\ TreeRows
LoadsInv == WalkInv /\ TreeConfig

LEMMA LoadsInit ==
  ASSUME TreeInit
  PROVE  LoadsInv
<1>1. TreeTypes
  BY TypesInit
<1>2. walk.phase = "idle" /\ walk.tree = {} /\ walk.mounts = {} /\ loader # "load_tree"
  BY DEF TreeInit, NoWalk
<1>3. ~Walking /\ ~Validating
  BY <1>2 DEF Walking, Validating
<1>4. TreeChain /\ TreeClaims /\ TreeOrder
  BY <1>3 DEF TreeChain, TreeClaims, TreeOrder
<1>5. TreeViews
  BY <1>2 DEF TreeViews, FlatShowsWhatWasRead
<1>6. TreePlaces
  BY <1>3 DEF TreePlaces
<1>7. TreeCover
  BY <1>3 DEF TreeCover
<1>8. TreeClean
  BY <1>3 DEF TreeClean
<1>9. TreeVerdict /\ TreeMarks
  BY <1>2 DEF TreeVerdict, TreeMarks
<1>10. TreeRows /\ TreeConfig
  BY <1>2 DEF TreeRows, TreeConfig
<1>11. QED BY <1>1, <1>4, <1>5, <1>6, <1>7, <1>8, <1>9, <1>10 DEF LoadsInv, WalkInv

\* The second call begins as the first did, with what the first returned.
LEMMA NextCallKeepsLoads ==
  ASSUME LoadsInv, NextCall
  PROVE  LoadsInv'
<1>1. /\ walk' = NoWalk /\ files' = files /\ edits' = edits /\ cfg' = walk.flat
      /\ walk.phase = "loaded"
  BY DEF NextCall
<1>2. walk'.phase = "idle" /\ walk'.tree = {} /\ walk'.mounts = {}
  BY <1>1, NoWalkIs
<1>3. ~Walking' /\ ~Validating'
  BY <1>2 DEF Walking, Validating
<1>4. TreeTypes'
  <2> HIDE DEF NoWalk
  <2>1. IsDisk(files') /\ files' = [p \in Projects |-> files'[p]] /\ edits' \in Nat
    BY <1>1 DEF LoadsInv, WalkInv, TreeTypes
  <2>2. QED BY <1>1, <1>3, <2>1, NoWalkIs DEF TreeTypes
<1>5. TreeChain' /\ TreeClaims' /\ TreeOrder'
  BY <1>3 DEF TreeChain, TreeClaims, TreeOrder
<1>6. TreeViews'
  BY <1>2 DEF TreeViews, FlatShowsWhatWasRead
<1>7. TreePlaces'
  BY <1>3 DEF TreePlaces
<1>8. TreeCover'
  BY <1>3 DEF TreeCover
<1>9. TreeClean'
  BY <1>3 DEF TreeClean
<1>10. TreeVerdict' /\ TreeMarks'
  BY <1>2 DEF TreeVerdict, TreeMarks
<1>11. TreeRows'
  BY <1>2 DEF TreeRows
<1>12. TreeConfig'
  <2> SUFFICES ASSUME edits = 0 PROVE files[Root] # Gone /\ Shows(walk.flat, AllRows)
    <3>1. AllRows' = AllRows
      BY <1>1 DEF AllRows, Mounts
    <3> HIDE DEF AllRows
    <3>2. QED BY <1>1, <3>1 DEF TreeConfig, Shows
  <2>1. Quiet
    BY <1>1 DEF LoadsInv, WalkInv, TreeVerdict, Quiet
  <2>2. walk.tree = AllRows
    BY <1>1, <2>1 DEF LoadsInv, WalkInv, TreeRows
  <2>3. Shows(walk.flat, walk.tree)
    BY <1>1 DEF LoadsInv, WalkInv, TreeViews, FlatShowsWhatWasRead
  <2> HIDE DEF AllRows, Shows
  <2>4. QED BY <2>1, <2>2, <2>3 DEF Quiet
<1>13. QED BY <1>4, <1>5, <1>6, <1>7, <1>8, <1>9, <1>10, <1>11, <1>12 DEF LoadsInv, WalkInv

\* What was returned stays what the files say.
LEMMA ConfigStays ==
  ASSUME TreeConfig, files' = files, edits' = edits, loader' = loader, cfg' = cfg
  PROVE  TreeConfig'
<1>1. AllRows' = AllRows
  BY DEF AllRows, Mounts
<1> HIDE DEF AllRows
<1>2. QED BY <1>1 DEF TreeConfig, Shows

\* A step that leaves the walk alone keeps the order.
LEMMA OrderStays ==
  ASSUME TreeOrder, walk' = walk
  PROVE  TreeOrder'
<1>1. MarkedNames' = MarkedNames /\ (Validating' <=> Validating)
  BY DEF MarkedNames, Validating
<1>2. ASSUME NEW CONSTANT x PROVE FreshFor(x)' <=> FreshFor(x)
  BY DEF FreshFor
<1>3. FreshFor(walk.entering.names)' <=> FreshFor(walk.entering.names)
  BY DEF FreshFor
<1>4. EntryOrder' <=> EntryOrder
  BY <1>1, <1>3 DEF EntryOrder, Top
<1> DEFINE M == MarkedNames
<1>5. (\A x \in M : FreshFor(x)) => \A x \in M : FreshFor(x)'
  BY <1>2
<1>6. QED BY <1>1, <1>4, <1>5 DEF TreeOrder

\* An edit leaves the walk alone, and ends the quiet.
LEMMA EditKeepsLoads ==
  ASSUME LoadsInv, NEW p \in Projects, Delete(p) \/ Rewrite(p)
  PROVE  LoadsInv'
<1>1. TreeTypes' /\ walk' = walk /\ edits' = edits + 1 /\ edits \in Nat
  BY EditKeepsTypes DEF LoadsInv, WalkInv, TreeTypes
<1>2. edits' # 0 /\ ~Quiet'
  BY <1>1 DEF Quiet
<1>3. TreeChain'
  BY <1>1 DEF LoadsInv, WalkInv, TreeChain, Walking, Top
<1>4. TreeClaims'
  BY <1>1 DEF LoadsInv, WalkInv, TreeClaims, Validating
<1>5. TreeViews'
  BY <1>1 DEF LoadsInv, WalkInv, TreeViews, FlatShowsWhatWasRead, HasRow, HasName
<1>6. TreeOrder'
  BY <1>1, OrderStays DEF LoadsInv, WalkInv
<1>7. TreePlaces' /\ TreeCover' /\ TreeClean' /\ TreeMarks'
  BY <1>2 DEF TreePlaces, TreeCover, TreeClean, TreeMarks
<1>8. TreeVerdict' /\ TreeRows' /\ TreeConfig'
  BY <1>2 DEF TreeVerdict, TreeRows, TreeConfig
<1>9. QED BY <1>1, <1>3, <1>4, <1>5, <1>6, <1>7, <1>8 DEF LoadsInv, WalkInv

LEMMA LoadsNext ==
  ASSUME LoadsInv, [TreeNext]_treeVars
  PROVE  LoadsInv'
<1>1. CASE Load
  <2>1. WalkStep /\ files' = files /\ edits' = edits /\ loader' = loader /\ cfg' = cfg
    BY <1>1, LoadIs
  <2>2. /\ TreeTypes /\ TreeChain /\ TreeClaims /\ TreeViews /\ TreeOrder
        /\ TreePlaces /\ TreeCover /\ TreeClean /\ TreeVerdict /\ TreeMarks /\ TreeRows /\ TreeConfig
    BY DEF LoadsInv, WalkInv
  <2>3. TreeTypes'
    BY <2>1, <2>2, WalkKeepsTypes
  <2>4. TreeChain' /\ TreeClaims' /\ TreeViews' /\ TreeOrder'
    BY <2>1, <2>2, <2>3, WalkKeepsChain, WalkKeepsClaims, WalkKeepsViews, WalkKeepsOrder
  <2>5. TreePlaces' /\ TreeCover' /\ TreeClean' /\ TreeVerdict' /\ TreeMarks' /\ TreeRows'
    BY <2>1, <2>2, <2>3, WalkKeepsPlaces, WalkKeepsCover, WalkKeepsClean, WalkKeepsVerdict, WalkKeepsMarks, WalkKeepsRows
  <2>6. TreeConfig'
    BY <2>1, <2>2, ConfigStays
  <2>7. QED BY <2>3, <2>4, <2>5, <2>6 DEF LoadsInv, WalkInv
<1>2. CASE \E p \in Projects : Delete(p) \/ Rewrite(p)
  BY <1>2, EditKeepsLoads
<1>3. CASE UNCHANGED treeVars
  <2>1. walk' = walk /\ files' = files /\ edits' = edits /\ loader' = loader /\ cfg' = cfg
    BY <1>3 DEF treeVars
  <2>2. TreeTypes' /\ TreeChain' /\ TreeClaims' /\ TreeViews' /\ TreeOrder'
    <3>1. TreeTypes'
      BY <2>1 DEF LoadsInv, WalkInv, TreeTypes, Walking
    <3>2. TreeChain'
      BY <2>1 DEF LoadsInv, WalkInv, TreeChain, Walking, Top
    <3>3. TreeClaims'
      BY <2>1 DEF LoadsInv, WalkInv, TreeClaims, Validating
    <3>4. TreeViews'
      BY <2>1 DEF LoadsInv, WalkInv, TreeViews, FlatShowsWhatWasRead, HasRow, HasName
    <3>5. TreeOrder'
      BY <2>1, OrderStays DEF LoadsInv, WalkInv
    <3>6. QED BY <3>1, <3>2, <3>3, <3>4, <3>5
  <2>3. TreePlaces'
    BY <2>1 DEF LoadsInv, WalkInv, TreePlaces, Quiet, Walking, FrameMount, EntryMount, Way, Mounts
  <2>4. TreeCover'
    BY <2>1 DEF LoadsInv, WalkInv, TreeCover, Quiet, Walking, Covered, LeftAt, ReadMounts, Mark, NearMounts, FrameMount, EntryMount, Way, Mounts
  <2>5. TreeClean'
    <3>1. ReadMounts' = ReadMounts
      BY <2>1 DEF ReadMounts, Mark, Mounts
    <3>2. EntryMount' = EntryMount
      BY <2>1 DEF EntryMount, Way
    <3> HIDE DEF ReadMounts, EntryMount
    <3>3. NearMounts' = NearMounts
      BY <2>1, <3>1, <3>2 DEF NearMounts
    <3> HIDE DEF NearMounts
    <3>4. QED BY <2>1, <3>1, <3>3 DEF LoadsInv, WalkInv, TreeClean, Quiet, Validating, SoundMount, SpacesOf
  <2>6. TreeVerdict'
    BY <2>1 DEF LoadsInv, WalkInv, TreeVerdict, Faulty, Mounts
  <2>7. TreeMarks'
    BY <2>1 DEF LoadsInv, WalkInv, TreeMarks, Quiet, Mounts, Validating
  <2>8. TreeRows' /\ TreeConfig'
    <3>1. TreeRows'
      BY <2>1 DEF LoadsInv, WalkInv, TreeRows, Quiet, ReadMounts, Mark, Mounts, AllRows
    <3>2. QED BY <2>1, <3>1, ConfigStays DEF LoadsInv
  <2>9. QED BY <2>2, <2>3, <2>4, <2>5, <2>6, <2>7, <2>8 DEF LoadsInv, WalkInv
<1>4. CASE NextCall
  BY <1>4, NextCallKeepsLoads
<1>5. QED BY <1>1, <1>2, <1>3, <1>4 DEF TreeNext

LEMMA LoadsFollow ==
  ASSUME LoadsInv
  PROVE  LoadsAreRight
<1>1. ExactlyTheFaultyAreRefused
  <2> SUFFICES ASSUME Ended, edits = 0 PROVE (walk.phase = "refused") <=> Faulty
    BY DEF ExactlyTheFaultyAreRefused, Faulty
  <2>1. walk.phase = "refused" => Faulty
    BY DEF LoadsInv, WalkInv, TreeVerdict
  <2>2. walk.phase # "refused" => ~Faulty
    BY DEF LoadsInv, WalkInv, TreeVerdict, Ended
  <2>3. QED BY <2>1, <2>2
<1>2. FlatShowsWhatWasRead /\ LoadsTheWholeTree /\ ViewsAgree
  <2>1. FlatShowsWhatWasRead
    BY DEF LoadsInv, WalkInv, TreeViews
  <2>2. ASSUME walk.phase = "loaded", edits = 0 PROVE walk.tree = AllRows
    <3>1. Quiet
      BY <2>2 DEF LoadsInv, WalkInv, TreeVerdict, Quiet
    <3>2. QED BY <2>2, <3>1 DEF LoadsInv, WalkInv, TreeRows
  <2>3. ASSUME edits = 0, loader = "load_tree" PROVE Shows(cfg, AllRows)
    BY <2>3 DEF LoadsInv, TreeConfig
  <2> HIDE DEF AllRows, Shows
  <2>4. QED BY <2>1, <2>2, <2>3 DEF LoadsTheWholeTree, ViewsAgree
<1>3. NoProjectHoldsItself
  <2> SUFFICES ASSUME walk.phase = "loaded", edits = 0, walk.depthCap \in 1..(MaxPath - 2), NEW k \in walk.mounts
               PROVE  IsInjective(k.path)
    BY DEF NoProjectHoldsItself
  <2>1. Quiet /\ ~Faulty
    <3>1. files[Root] # Gone /\ ~Faulty
      BY DEF LoadsInv, WalkInv, TreeVerdict
    <3>2. QED BY <3>1 DEF Quiet
  <2>2. walk.depthCap = Local(files[Root]).depth
    BY <2>1 DEF LoadsInv, WalkInv, TreeMarks
  <2>3. PICK m \in Mounts : m.path = k.path
    BY <2>1 DEF LoadsInv, WalkInv, TreeMarks
  <2>4. IsInjective(m.path)
    BY <2>1, <2>2, CapsStopCycles DEF LoadsInv, WalkInv
  <2>5. QED BY <2>3, <2>4
<1>4. ClaimsAreReal
  BY DEF LoadsInv, WalkInv, TreeClaims, ClaimsAreReal
<1>5. QED BY <1>1, <1>2, <1>3, <1>4 DEF LoadsAreRight

\* Whatever the files say and whatever is edited while they are read and between two calls
\* (Config::load, then Config::load_tree): a call refuses exactly the faulty trees that nobody edits
\* meanwhile and loads the others whole; its flat map shows what it read; the two calls agree while
\* nobody edits; where depth is capped no project is held below itself; and no claim stays of a
\* project that went away.
THEOREM LoadsHold == TreeSpec => []LoadsAreRight
<1>1. TreeInit => LoadsInv
  BY LoadsInit
<1>2. LoadsInv /\ [TreeNext]_treeVars => LoadsInv'
  BY LoadsNext
<1>3. LoadsInv => LoadsAreRight
  BY LoadsFollow
<1>4. QED BY <1>1, <1>2, <1>3, PTL DEF TreeSpec
=============================================================================
