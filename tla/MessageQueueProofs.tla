------------------------- MODULE MessageQueueProofs -------------------------
(***************************************************************************)
(* Proofs about the inboxes and their flusher, for any number of           *)
(* workspaces, senders, tasks and messages, any cap, and any number of     *)
(* failed writes and crashes.  The lemmas about Those say what picking     *)
(* messages out of a queue keeps; counting ranks replaces the induction    *)
(* over the queue that the loop of dequeue would call for.                 *)
(***************************************************************************)
EXTENDS MessageQueue, FiniteSetTheorems, FunctionTheorems, TLAPS

-----------------------------------------------------------------------------
(* Picking places out of a sequence                                           *)

(* The rank of a place counts the places up to it: ranks go up with places    *)
(* and fill 1..Cardinality(S).                                                *)
LEMMA Ranks ==
  ASSUME NEW n \in Nat, NEW S \in SUBSET (1..n)
  PROVE  /\ IsFiniteSet(S) /\ Cardinality(S) \in 0..n
         /\ \A i \in S : i \in Int /\ Rank(S, i) \in Int /\ Rank(S, i) \in 1..Cardinality(S)
         /\ \A i, j \in S : i < j => Rank(S, i) < Rank(S, j)
         /\ \A k \in 1..Cardinality(S) : \E i \in S : Rank(S, i) = k
<1> DEFINE c == Cardinality(S)
           Below(i) == {j \in S : j <= i}
<1>1. IsFiniteSet(1..n) /\ Cardinality(1..n) = n
  BY FS_Interval
<1>0. \A i \in S : i \in Int
  OBVIOUS
<1>2. IsFiniteSet(S) /\ c \in 0..n
  <2>1. IsFiniteSet(S) /\ Cardinality(S) <= n
    BY <1>1, FS_Subset
  <2>2. Cardinality(S) \in Nat
    BY <2>1, FS_CardinalityType
  <2>3. QED BY <2>1, <2>2
<1>3. \A i \in S : /\ IsFiniteSet(Below(i)) /\ Cardinality(Below(i)) \in 1..c
                   /\ Rank(S, i) = Cardinality(Below(i)) /\ Cardinality(Below(i)) \in Int
  <2> SUFFICES ASSUME NEW i \in S
               PROVE  /\ IsFiniteSet(Below(i)) /\ Cardinality(Below(i)) \in 1..c
                      /\ Cardinality(Below(i)) \in Int
    BY DEF Rank
  <2>1. Below(i) \in SUBSET S /\ i \in Below(i)
    OBVIOUS
  <2>2. IsFiniteSet(Below(i)) /\ Cardinality(Below(i)) <= c /\ Cardinality(Below(i)) \in Nat
    BY <1>2, <2>1, FS_Subset, FS_CardinalityType
  <2>3. Cardinality(Below(i)) # 0
    BY <2>1, <2>2, FS_EmptySet
  <2>4. QED BY <1>2, <2>2, <2>3
<1>4. \A i, j \in S : i < j => Rank(S, i) < Rank(S, j)
  <2> SUFFICES ASSUME NEW i \in S, NEW j \in S, i < j
               PROVE  Cardinality(Below(i)) < Cardinality(Below(j))
    BY <1>3
  <2>1. Below(i) \in SUBSET Below(j) /\ j \in Below(j) /\ j \notin Below(i)
    <3>1. \A x \in S : x <= i => x <= j
      BY <1>0
    <3>2. j <= j /\ ~(j <= i)
      BY <1>0
    <3>3. QED BY <3>1, <3>2
  <2>2. /\ Cardinality(Below(i)) <= Cardinality(Below(j))
        /\ Cardinality(Below(i)) # Cardinality(Below(j))
    BY <1>3, <2>1, FS_Subset
  <2>3. QED BY <1>3, <2>2
<1>5. \A k \in 1..c : \E i \in S : Rank(S, i) = k
  <2> DEFINE r == [i \in S |-> Rank(S, i)]
             R == {r[i] : i \in S}
  <2>1. R \in SUBSET (1..c)
    BY <1>3
  <2>2. r \in [S -> R] /\ \A i, j \in S : r[i] = r[j] => i = j
    <3>0. \A i \in S : Rank(S, i) \in Int
      BY <1>3
    <3>1. \A i, j \in S : i # j => Rank(S, i) # Rank(S, j)
      BY <1>0, <1>4, <3>0
    <3>2. QED BY <3>1
  <2>3. r \in Bijection(S, R)
    BY <2>2 DEF Bijection, Injection, Surjection, IsInjective
  <2>4. ExistsBijection(S, R)
    BY <2>3 DEF ExistsBijection
  <2>5. Cardinality(R) = c
    BY <1>2, <2>4, FS_Bijection
  <2>6. IsFiniteSet(1..c) /\ Cardinality(1..c) = c
    BY <1>2, FS_Interval
  <2>7. R = 1..c
    BY <2>1, <2>5, <2>6, FS_Subset
  <2>8. QED BY <2>7
<1>6. QED BY <1>0, <1>2, <1>3, <1>4, <1>5

(* Nth finds the places of S one after the other.                             *)
LEMMA NthPlace ==
  ASSUME NEW n \in Nat, NEW S \in SUBSET (1..n)
  PROVE  /\ \A k \in 1..Cardinality(S) : Nth(S, k) \in S
         /\ \A k, l \in 1..Cardinality(S) : k < l => Nth(S, k) < Nth(S, l)
         /\ \A i \in S : \E k \in 1..Cardinality(S) : Nth(S, k) = i
<1>1. \A k \in 1..Cardinality(S) : Nth(S, k) \in S /\ Rank(S, Nth(S, k)) = k
  <2> SUFFICES ASSUME NEW k \in 1..Cardinality(S)
               PROVE  Nth(S, k) \in S /\ Rank(S, Nth(S, k)) = k
    OBVIOUS
  <2>1. \E i \in S : Rank(S, i) = k
    BY Ranks
  <2>2. QED BY <2>1, Zenon DEF Nth
<1>2. \A k, l \in 1..Cardinality(S) : k < l => Nth(S, k) < Nth(S, l)
  <2> SUFFICES ASSUME NEW k \in 1..Cardinality(S), NEW l \in 1..Cardinality(S), k < l,
                      ~(Nth(S, k) < Nth(S, l))
               PROVE  FALSE
    OBVIOUS
  <2>1. Nth(S, l) = Nth(S, k) \/ Nth(S, l) < Nth(S, k)
    <3>1. Nth(S, l) \in Int /\ Nth(S, k) \in Int
      BY <1>1, Ranks
    <3>2. QED BY <3>1
  <2>2. Rank(S, Nth(S, l)) = Rank(S, Nth(S, k)) \/ Rank(S, Nth(S, l)) < Rank(S, Nth(S, k))
    BY <1>1, <2>1, Ranks
  <2>3. QED BY <1>1, <2>2
<1>3. \A i \in S : \E k \in 1..Cardinality(S) : Nth(S, k) = i
  <2> SUFFICES ASSUME NEW i \in S
               PROVE  \E k \in 1..Cardinality(S) : Nth(S, k) = i
    OBVIOUS
  <2> DEFINE k == Rank(S, i)
  <2>1. k \in 1..Cardinality(S)
    BY Ranks
  <2>2. Nth(S, k) \in S /\ Rank(S, Nth(S, k)) = Rank(S, i)
    BY <1>1, <2>1
  <2>3. Nth(S, k) = i
    <3> DEFINE j == Nth(S, k)
    <3>1. j \in S /\ i \in S /\ Rank(S, j) = Rank(S, i)
      BY <2>2
    <3>6. j \in Int /\ i \in Int /\ Rank(S, i) \in Int
      BY <3>1, Ranks
    <3> HIDE DEF j, k
    <3>2. ~(j < i) /\ ~(i < j)
      BY <3>1, <3>6, Ranks
    <3>3. j = i
      BY <3>6, <3>2
    <3>4. QED BY <3>3 DEF j
  <2>4. QED BY <2>1, <2>3
<1>4. QED BY <1>1, <1>2, <1>3

(* What is picked keeps its order, and is what stood at the places picked.    *)
LEMMA Picked ==
  ASSUME NEW T, NEW q \in Seq(T), NEW S \in SUBSET DOMAIN q
  PROVE  /\ Those(q, S) \in Seq(T) /\ Len(Those(q, S)) <= Len(q)
         /\ \A k \in DOMAIN Those(q, S) : \E i \in S : Those(q, S)[k] = q[i]
         /\ \A i \in S : \E k \in DOMAIN Those(q, S) : Those(q, S)[k] = q[i]
         /\ \A k, l \in DOMAIN Those(q, S) : k < l =>
              \E i, j \in S : i < j /\ Those(q, S)[k] = q[i] /\ Those(q, S)[l] = q[j]
<1> DEFINE c == Cardinality(S)
           p == Those(q, S)
<1>1. Len(q) \in Nat /\ DOMAIN q = 1..Len(q) /\ S \in SUBSET (1..Len(q))
  OBVIOUS
<1>2. c \in Nat /\ c <= Len(q)
  BY <1>1, Ranks
<1>3. /\ \A k \in 1..c : Nth(S, k) \in S
      /\ \A k, l \in 1..c : k < l => Nth(S, k) < Nth(S, l)
      /\ \A i \in S : \E k \in 1..c : Nth(S, k) = i
  BY <1>1, NthPlace
<1>4. p = [k \in 1..c |-> q[Nth(S, k)]]
  BY DEF Those
<1> HIDE DEF p, c
<1>5. \A i \in S : q[i] \in T
  BY <1>1
<1>6. p \in [1..c -> T]
  BY <1>3, <1>4, <1>5
<1>7. p \in Seq(T) /\ Len(p) = c /\ DOMAIN p = 1..c
  BY <1>2, <1>6
<1>8. \A k \in 1..c : p[k] = q[Nth(S, k)]
  BY <1>4
<1>9. p \in Seq(T) /\ Len(p) <= Len(q)
  BY <1>2, <1>7
<1>10. \A k \in DOMAIN p : \E i \in S : p[k] = q[i]
  BY <1>3, <1>7, <1>8
<1>11. \A i \in S : \E k \in DOMAIN p : p[k] = q[i]
  BY <1>3, <1>7, <1>8
<1>12. \A k, l \in DOMAIN p : k < l => \E i, j \in S : i < j /\ p[k] = q[i] /\ p[l] = q[j]
  BY <1>3, <1>7, <1>8
<1>13. QED BY <1>9, <1>10, <1>11, <1>12 DEF p

-----------------------------------------------------------------------------
(* The inductive invariant                                                    *)

(* A message sequence goes up, and is not longer than the cap.                *)
Rising(q)  == \A i, j \in DOMAIN q : i < j => q[i].id < q[j].id
InOrder(q) == Rising(q) /\ Len(q) <= MaxSize
UpTo(q, n) == \A i \in DOMAIN q : q[i].id <= n
Sound(m)   == \A w \in Workspaces : InOrder(m[w]) /\ UpTo(m[w], sent)

(* What waits, was delivered and was discarded in one workspace does not      *)
(* overlap, and one sender's messages were delivered in order and before the  *)
(* ones that wait: this is what makes the order of delivery inductive.        *)
Apart(q, d, x) ==
  /\ \A i, j \in DOMAIN d : d[i].id = d[j].id => i = j
  /\ Ids(d) \intersect (Ids(q) \union x) = {} /\ Ids(q) \intersect x = {}
InTurn(q, d) ==
  /\ \A i, j \in DOMAIN d : i < j /\ d[i].from = d[j].from => d[i].id < d[j].id
  /\ \A i \in DOMAIN d, j \in DOMAIN q : d[i].from = q[j].from => d[i].id < q[j].id
Every(q, d, x) == Ids(q) \union Ids(d) \union x

(* Memory, the file and the snapshot between them are sound.                  *)
Copies == Sound(queue) /\ Sound(disk) /\ (snapshot # NoSnapshot => Sound(snapshot[1]))
Past   == \A w \in Workspaces : UpTo(delivered[w], sent) /\ discarded[w] \in SUBSET (1..sent)
Account ==
  faults = 0 =>
    /\ UNION {Every(queue[w], delivered[w], discarded[w]) : w \in Workspaces} = 1..sent
    /\ \A w \in Workspaces :
         Apart(queue[w], delivered[w], discarded[w]) /\ InTurn(queue[w], delivered[w])
Saved ==
  ~dirty => /\ snapshot = NoSnapshot => disk = queue
            /\ snapshot # NoSnapshot => snapshot[1] = queue

QueueInv == TypeOK /\ Copies /\ Past /\ Account /\ Saved

-----------------------------------------------------------------------------
(* What the operations do to one inbox                                        *)

(* A message has a number.                                                    *)
LEMMA Numbered ==
  ASSUME NEW q \in Seq(Message)
  PROVE  \A i \in DOMAIN q : q[i] \in Message /\ q[i].id \in Int /\ i \in Int
<1>1. \A i \in DOMAIN q : q[i] \in Message /\ i \in Int
  OBVIOUS
<1>2. \A m \in Message : m.id \in Int
  BY QueueAssumption DEF Message
<1>3. QED BY <1>1, <1>2

(* Picking messages out of an inbox leaves an inbox.                          *)
LEMMA PickedInbox ==
  ASSUME NEW q \in Seq(Message), Rising(q), NEW S \in SUBSET DOMAIN q
  PROVE  /\ Those(q, S) \in Seq(Message) /\ Len(Those(q, S)) <= Len(q)
         /\ Rising(Those(q, S)) /\ Ids(Those(q, S)) = {q[i].id : i \in S}
         /\ Ids(Those(q, S)) \in SUBSET Ids(q)
<1> DEFINE p == Those(q, S)
<1>1. /\ p \in Seq(Message) /\ Len(p) <= Len(q)
      /\ \A k \in DOMAIN p : \E i \in S : p[k] = q[i]
      /\ \A i \in S : \E k \in DOMAIN p : p[k] = q[i]
      /\ \A k, l \in DOMAIN p : k < l => \E i, j \in S : i < j /\ p[k] = q[i] /\ p[l] = q[j]
  BY Picked
<1> HIDE DEF p
<1>2. Rising(p)
  <2> SUFFICES ASSUME NEW k \in DOMAIN p, NEW l \in DOMAIN p, k < l
               PROVE  p[k].id < p[l].id
    BY DEF Rising
  <2>1. PICK i \in S, j \in S : i < j /\ p[k] = q[i] /\ p[l] = q[j]
    BY <1>1
  <2>2. i \in DOMAIN q /\ j \in DOMAIN q
    OBVIOUS
  <2>3. q[i].id < q[j].id
    BY <2>1, <2>2 DEF Rising
  <2>4. QED BY <2>1, <2>3
<1>3. Ids(p) = {q[i].id : i \in S}
  BY <1>1 DEF Ids
<1>4. Ids(p) \in SUBSET Ids(q)
  BY <1>3 DEF Ids
<1>5. QED BY <1>1, <1>2, <1>3, <1>4 DEF p

(* The cap keeps the newest messages of an inbox.                             *)
LEMMA CappedInbox ==
  ASSUME NEW q \in Seq(Message), Rising(q)
  PROVE  /\ Capped(q) \in Seq(Message) /\ InOrder(Capped(q))
         /\ \A i \in DOMAIN Capped(q) : \E j \in DOMAIN q : Capped(q)[i] = q[j]
         /\ Ids(Capped(q)) \in SUBSET Ids(q)
<1> DEFINE p == Capped(q)
           n == Len(q)
           d == IF n > MaxSize THEN n - MaxSize ELSE 0
<1>1. n \in Nat /\ DOMAIN q = 1..n /\ MaxSize \in Nat /\ MaxSize # 0
  BY QueueAssumption
<1>2. /\ p \in Seq(Message) /\ Len(p) <= MaxSize /\ d \in Nat
      /\ \A i \in DOMAIN p : i \in Int /\ i + d \in DOMAIN q /\ p[i] = q[i + d]
  <2>1. CASE n > MaxSize
    <3>1. p = SubSeq(q, n - MaxSize + 1, n) /\ d = n - MaxSize
      BY <2>1 DEF Capped
    <3>2. p \in Seq(Message) /\ Len(p) = MaxSize /\ \A i \in 1..MaxSize : p[i] = q[d + i]
      BY <1>1, <2>1, <3>1
    <3>3. QED BY <1>1, <2>1, <3>1, <3>2
  <2>2. CASE ~(n > MaxSize)
    <3>1. p = q /\ d = 0
      BY <2>2 DEF Capped
    <3>2. QED BY <1>1, <2>2, <3>1
  <2>3. QED BY <2>1, <2>2
<1> HIDE DEF p, d
<1>3. \A i, j \in DOMAIN p : i < j => i + d < j + d
  BY <1>2
<1>4. Rising(p)
  BY <1>2, <1>3 DEF Rising
<1>5. \A i \in DOMAIN p : \E j \in DOMAIN q : p[i] = q[j]
  BY <1>2
<1>6. Ids(p) \in SUBSET Ids(q)
  BY <1>5 DEF Ids
<1>7. QED BY <1>2, <1>4, <1>5, <1>6 DEF p, InOrder

(* A step that touches one inbox, and accounts for what it takes away.        *)
LEMMA InboxStep ==
  ASSUME QueueInv, NEW w \in Workspaces,
         NEW q \in Seq(Message), NEW d \in Seq(Message), NEW x, NEW n \in 0..MaxMessages,
         sent <= n, InOrder(q), UpTo(q, n), UpTo(d, n), x \in SUBSET (1..n),
         faults = 0 => /\ Apart(q, d, x) /\ InTurn(q, d)
                       /\ Every(q, d, x) = Every(queue[w], delivered[w], discarded[w])
                                             \union ((sent + 1)..n),
         queue' = [queue EXCEPT ![w] = q], delivered' = [delivered EXCEPT ![w] = d],
         discarded' = [discarded EXCEPT ![w] = x], sent' = n, dirty' = TRUE,
         UNCHANGED <<snapshot, disk, flusher, faults>>
  PROVE  QueueInv'
<1>1. /\ queue'[w] = q /\ \A v \in Workspaces : v # w => queue'[v] = queue[v]
      /\ delivered'[w] = d /\ \A v \in Workspaces : v # w => delivered'[v] = delivered[v]
      /\ discarded'[w] = x /\ \A v \in Workspaces : v # w => discarded'[v] = discarded[v]
  BY DEF QueueInv, TypeOK, Inboxes
<1>2. /\ sent \in Int /\ n \in Int /\ sent >= 0 /\ 1..sent \subseteq 1..n
      /\ 1..n = (1..sent) \union ((sent + 1)..n) /\ n <= MaxMessages /\ MaxMessages \in Int
  BY QueueAssumption DEF QueueInv, TypeOK
<1>3. /\ queue \in Inboxes /\ disk \in Inboxes /\ delivered \in Inboxes
      /\ \A v \in Workspaces : queue[v] \in Seq(Message) /\ disk[v] \in Seq(Message)
                                /\ delivered[v] \in Seq(Message)
      /\ snapshot # NoSnapshot => snapshot[1] \in Inboxes
  <2>1. queue \in Inboxes /\ disk \in Inboxes /\ delivered \in Inboxes
    BY DEF QueueInv, TypeOK
  <2>2. snapshot # NoSnapshot => snapshot[1] \in Inboxes
    BY DEF QueueInv, TypeOK
  <2>3. QED BY <2>1, <2>2 DEF Inboxes
<1>4. TypeOK'
  <2>1. queue' \in Inboxes /\ delivered' \in Inboxes
    BY <1>3 DEF Inboxes
  <2>2. discarded' \in [Workspaces -> SUBSET (1..MaxMessages)]
    <3>1. x \in SUBSET (1..MaxMessages)
      BY <1>2
    <3>2. QED BY <3>1 DEF QueueInv, TypeOK
  <2>3. sent' \in 0..MaxMessages
    OBVIOUS
  <2>4. dirty' \in BOOLEAN
    OBVIOUS
  <2>5. QED BY <2>1, <2>2, <2>3, <2>4 DEF QueueInv, TypeOK
<1>5. \A s \in Seq(Message) : UpTo(s, sent) => UpTo(s, n)
  BY <1>2, Numbered DEF UpTo
<1>6. Copies'
  <2>1. Sound(queue)'
    BY <1>1, <1>3, <1>5 DEF QueueInv, Copies, Sound
  <2>2. Sound(disk)'
    BY <1>3, <1>5 DEF QueueInv, Copies, Sound
  <2>3. (snapshot # NoSnapshot => Sound(snapshot[1]))'
    BY <1>3, <1>5 DEF QueueInv, Copies, Sound, Inboxes
  <2>4. QED BY <2>1, <2>2, <2>3 DEF Copies
<1>7. Past'
  BY <1>1, <1>2, <1>3, <1>5 DEF QueueInv, Past
<1>8. Account'
  <2> SUFFICES ASSUME faults = 0
               PROVE  /\ UNION {Every(queue'[v], delivered'[v], discarded'[v]) : v \in Workspaces} = 1..n
                      /\ \A v \in Workspaces : Apart(queue'[v], delivered'[v], discarded'[v])
                                                /\ InTurn(queue'[v], delivered'[v])
    BY DEF Account, Every, Apart, InTurn
  <2>1. \A v \in Workspaces : Apart(queue'[v], delivered'[v], discarded'[v])
                              /\ InTurn(queue'[v], delivered'[v])
    BY <1>1 DEF QueueInv, Account
  <2>2. UNION {Every(queue'[v], delivered'[v], discarded'[v]) : v \in Workspaces} = 1..n
    <3> DEFINE Old(v) == Every(queue[v], delivered[v], discarded[v])
               New(v) == Every(queue'[v], delivered'[v], discarded'[v])
               more == (sent + 1)..n
    <3>1. UNION {Old(v) : v \in Workspaces} = 1..sent
      BY DEF QueueInv, Account
    <3>2. New(w) = Old(w) \union more
      BY <1>1
    <3>3. \A v \in Workspaces : v # w => New(v) = Old(v)
      BY <1>1
    <3>4. 1..n = (1..sent) \union more
      BY <1>2
    <3> HIDE DEF Old, New, more
    <3>5. UNION {New(v) : v \in Workspaces} = (UNION {Old(v) : v \in Workspaces}) \union more
      BY <3>2, <3>3
    <3>6. UNION {New(v) : v \in Workspaces} = 1..n
      BY <3>1, <3>4, <3>5
    <3>7. QED BY <3>6 DEF New
  <2>3. QED BY <2>1, <2>2
<1>9. Saved'
  BY DEF Saved
<1>10. QED BY <1>4, <1>6, <1>7, <1>8, <1>9 DEF QueueInv

(* What QueueInv says of one inbox.                                           *)
LEMMA OneInbox ==
  ASSUME QueueInv, NEW w \in Workspaces
  PROVE  /\ queue[w] \in Seq(Message) /\ delivered[w] \in Seq(Message)
         /\ Rising(queue[w]) /\ Len(queue[w]) <= MaxSize /\ UpTo(queue[w], sent)
         /\ UpTo(delivered[w], sent) /\ discarded[w] \in SUBSET (1..sent)
         /\ faults = 0 => /\ Apart(queue[w], delivered[w], discarded[w])
                          /\ InTurn(queue[w], delivered[w])
         /\ sent \in Int /\ sent \in 0..MaxMessages
<1>1. queue[w] \in Seq(Message) /\ delivered[w] \in Seq(Message)
  BY DEF QueueInv, TypeOK, Inboxes
<1>2. Rising(queue[w]) /\ Len(queue[w]) <= MaxSize /\ UpTo(queue[w], sent)
  BY DEF QueueInv, Copies, Sound, InOrder
<1>3. UpTo(delivered[w], sent) /\ discarded[w] \in SUBSET (1..sent)
  BY DEF QueueInv, Past
<1>4. faults = 0 => /\ Apart(queue[w], delivered[w], discarded[w])
                    /\ InTurn(queue[w], delivered[w])
  BY DEF QueueInv, Account
<1>5. sent \in Int /\ sent \in 0..MaxMessages
  BY QueueAssumption DEF QueueInv, TypeOK
<1>6. QED BY <1>1, <1>2, <1>3, <1>4, <1>5

(* The messages of an inbox are its numbers, in a set of numbers.             *)
LEMMA NumbersOf ==
  ASSUME NEW q \in Seq(Message), NEW n \in Int, UpTo(q, n)
  PROVE  Ids(q) \in SUBSET (1..n)
<1>1. \A m \in Message : m.id \in Int /\ m.id >= 1
  BY QueueAssumption DEF Message
<1>2. \A i \in DOMAIN q : q[i] \in Message /\ q[i].id <= n
  BY Numbered DEF UpTo
<1>3. QED BY <1>1, <1>2 DEF Ids

(* enqueue appends the newest message and drops the oldest over the cap.      *)
LEMMA EnqueueKeeps ==
  ASSUME QueueInv, NEW w \in Workspaces, NEW f \in Senders, NEW t \in Tasks \union {NoTask},
         Enqueue(w, f, t)
  PROVE  QueueInv'
<1> DEFINE n == sent + 1
           m == [id |-> n, from |-> f, task |-> t]
           old == queue[w]
           grown == Append(old, m)
           q == Capped(grown)
           d == delivered[w]
           x == discarded[w] \union (Ids(grown) \ Ids(q))
<1>1. /\ sent < MaxMessages /\ sent' = n /\ queue' = [queue EXCEPT ![w] = q]
      /\ discarded' = [discarded EXCEPT ![w] = x] /\ dirty' = TRUE
      /\ UNCHANGED <<snapshot, disk, flusher, delivered, faults>>
  BY DEF Enqueue
<1>2. n \in 0..MaxMessages /\ n \in 1..MaxMessages /\ n \in Int /\ sent < n /\ sent <= n
      /\ (sent + 1)..n = {n} /\ 1..n = (1..sent) \union {n} /\ n \notin 1..sent
  BY <1>1, OneInbox, QueueAssumption
<1>3. m \in Message /\ m.id = n /\ m.from = f
  BY <1>2 DEF Message
<1>4. delivered' = [delivered EXCEPT ![w] = d]
  BY <1>1 DEF QueueInv, TypeOK, Inboxes
<1> HIDE DEF m
<1>5. /\ old \in Seq(Message) /\ d \in Seq(Message) /\ Rising(old) /\ UpTo(old, sent)
      /\ UpTo(d, sent) /\ discarded[w] \in SUBSET (1..sent)
      /\ Ids(old) \in SUBSET (1..sent) /\ Ids(d) \in SUBSET (1..sent)
  BY OneInbox, NumbersOf
<1> HIDE DEF n, old, d
<1>6. /\ grown \in Seq(Message) /\ DOMAIN grown = 1..(Len(old) + 1) /\ Len(old) \in Nat
      /\ DOMAIN old = 1..Len(old)
      /\ \A i \in 1..Len(old) : grown[i] = old[i] /\ grown[Len(old) + 1] = m
      /\ grown[Len(old) + 1] = m
  BY <1>3, <1>5
<1>7. /\ \A i \in DOMAIN grown : /\ i \in Int
                                /\ \/ i \in DOMAIN old /\ grown[i] = old[i]
                                   \/ i = Len(old) + 1 /\ grown[i] = m
      /\ \A i \in DOMAIN old : i \in DOMAIN grown /\ grown[i] = old[i]
      /\ Len(old) + 1 \in DOMAIN grown
  BY <1>6
<1>8. \A i \in DOMAIN old : old[i].id < n /\ old[i].id \in Int
  BY <1>2, <1>5, Numbered DEF UpTo
<1> HIDE DEF grown
<1>9. Rising(grown) /\ UpTo(grown, n)
  <2>1. Rising(grown)
    <3> SUFFICES ASSUME NEW i \in DOMAIN grown, NEW j \in DOMAIN grown, i < j
                 PROVE  grown[i].id < grown[j].id
      BY DEF Rising
    <3>1. i \in DOMAIN old /\ grown[i] = old[i]
      BY <1>6, <1>7
    <3>2. CASE j \in DOMAIN old /\ grown[j] = old[j]
      BY <1>5, <3>1, <3>2 DEF Rising
    <3>3. CASE grown[j] = m
      BY <1>3, <1>8, <3>1, <3>3
    <3>4. QED BY <1>7, <3>2, <3>3
  <2>2. UpTo(grown, n)
    BY <1>2, <1>3, <1>7, <1>8 DEF UpTo
  <2>3. QED BY <2>1, <2>2
<1>10. Ids(grown) = Ids(old) \union {n}
  <2>1. \A i \in DOMAIN grown : grown[i].id \in Ids(old) \union {n}
    BY <1>3, <1>7 DEF Ids
  <2>2. n \in Ids(grown)
    BY <1>3, <1>6, <1>7 DEF Ids
  <2>3. Ids(old) \in SUBSET Ids(grown)
    BY <1>7 DEF Ids
  <2>4. QED BY <2>1, <2>2, <2>3 DEF Ids
<1>11. /\ q \in Seq(Message) /\ InOrder(q) /\ Ids(q) \in SUBSET Ids(grown)
       /\ \A i \in DOMAIN q : \E j \in DOMAIN grown : q[i] = grown[j]
  BY <1>6, <1>9, CappedInbox
<1> HIDE DEF q
<1>12. UpTo(q, n) /\ UpTo(d, n) /\ x \in SUBSET (1..n)
  <2>1. UpTo(q, n)
    BY <1>9, <1>11 DEF UpTo
  <2>2. UpTo(d, n)
    <3>1. \A i \in DOMAIN d : d[i].id \in Int /\ d[i].id <= sent
      BY <1>5, Numbered DEF UpTo
    <3>2. sent \in Int
      BY OneInbox
    <3>3. QED BY <1>2, <3>1, <3>2 DEF UpTo
  <2>3. x \in SUBSET (1..n)
    BY <1>2, <1>5, <1>10
  <2>4. QED BY <2>1, <2>2, <2>3
<1>13. ASSUME faults = 0
       PROVE  /\ Apart(q, d, x) /\ InTurn(q, d)
              /\ Every(q, d, x) = Every(old, d, discarded[w]) \union ((sent + 1)..n)
  <2>1. Apart(old, d, discarded[w]) /\ InTurn(old, d)
    BY <1>13, OneInbox DEF old, d
  <2>2. Ids(d) \intersect (Ids(old) \union discarded[w]) = {} /\ Ids(old) \intersect discarded[w] = {}
    BY <2>1 DEF Apart
  <2>3. Ids(d) \intersect (Ids(q) \union x) = {} /\ Ids(q) \intersect x = {}
    BY <1>2, <1>5, <1>10, <1>11, <2>2
  <2>4. Apart(q, d, x)
    BY <2>1, <2>3 DEF Apart
  <2>5. \A i \in DOMAIN d, j \in DOMAIN q : d[i].from = q[j].from => d[i].id < q[j].id
    <3> SUFFICES ASSUME NEW i \in DOMAIN d, NEW j \in DOMAIN q, d[i].from = q[j].from
                 PROVE  d[i].id < q[j].id
      OBVIOUS
    <3>1. PICK k \in DOMAIN grown : q[j] = grown[k]
      BY <1>11
    <3>2. CASE k \in DOMAIN old /\ grown[k] = old[k]
      BY <2>1, <3>1, <3>2 DEF InTurn
    <3>3. CASE grown[k] = m
      <4>1. d[i].id \in Int /\ d[i].id <= sent /\ sent \in Int
        BY <1>5, Numbered, OneInbox DEF UpTo
      <4>2. QED BY <1>2, <1>3, <3>1, <3>3, <4>1
    <3>4. QED BY <1>7, <3>2, <3>3
  <2>6. InTurn(q, d)
    BY <2>1, <2>5 DEF InTurn
  <2>7. Every(q, d, x) = Every(old, d, discarded[w]) \union {n}
    BY <1>10, <1>11 DEF Every
  <2>8. QED BY <1>2, <2>4, <2>6, <2>7
<1> HIDE DEF x
<1>14. QED BY <1>1, <1>2, <1>4, <1>5, <1>11, <1>12, <1>13, InboxStep DEF old, d

(* remove_task_messages moves messages from the inbox to the discarded ones.  *)
LEMMA RemoveKeeps ==
  ASSUME QueueInv, NEW w \in Workspaces, NEW t \in Tasks, RemoveTaskMessages(w, t)
  PROVE  QueueInv'
<1> DEFINE old == queue[w]
           S == {i \in DOMAIN old : old[i].task # t}
           q == Those(old, S)
           d == delivered[w]
           x == discarded[w] \union (Ids(old) \ Ids(q))
<1>1. /\ queue' = [queue EXCEPT ![w] = q] /\ discarded' = [discarded EXCEPT ![w] = x]
      /\ dirty' = TRUE /\ UNCHANGED <<snapshot, disk, flusher, sent, delivered, faults>>
  BY DEF RemoveTaskMessages
<1>2. /\ old \in Seq(Message) /\ d \in Seq(Message) /\ Rising(old) /\ Len(old) <= MaxSize
      /\ UpTo(old, sent) /\ UpTo(d, sent) /\ discarded[w] \in SUBSET (1..sent)
      /\ Ids(old) \in SUBSET (1..sent) /\ sent \in Int /\ sent \in 0..MaxMessages
  BY OneInbox, NumbersOf
<1>3. delivered' = [delivered EXCEPT ![w] = d] /\ sent' = sent /\ sent <= sent
  BY <1>1, <1>2 DEF QueueInv, TypeOK, Inboxes
<1>4. S \in SUBSET DOMAIN old
  OBVIOUS
<1> HIDE DEF old, S, d
<1>5. /\ q \in Seq(Message) /\ Len(q) <= Len(old) /\ Rising(q) /\ Ids(q) \in SUBSET Ids(old)
      /\ \A k \in DOMAIN q : \E i \in DOMAIN old : q[k] = old[i]
  BY <1>2, <1>4, PickedInbox, Picked
<1> HIDE DEF q
<1>6. InOrder(q) /\ UpTo(q, sent) /\ x \in SUBSET (1..sent)
  <2>1. Len(q) <= MaxSize
    BY <1>2, <1>5, QueueAssumption
  <2>2. UpTo(q, sent)
    BY <1>2, <1>5 DEF UpTo
  <2>3. QED BY <1>2, <1>5, <2>1, <2>2 DEF InOrder
<1>7. ASSUME faults = 0
      PROVE  /\ Apart(q, d, x) /\ InTurn(q, d)
             /\ Every(q, d, x) = Every(old, d, discarded[w]) \union ((sent + 1)..sent)
  <2>1. Apart(old, d, discarded[w]) /\ InTurn(old, d)
    BY <1>7, OneInbox DEF old, d
  <2>2. Ids(d) \intersect (Ids(old) \union discarded[w]) = {} /\ Ids(old) \intersect discarded[w] = {}
    BY <2>1 DEF Apart
  <2>3. Ids(d) \intersect (Ids(q) \union x) = {} /\ Ids(q) \intersect x = {}
    BY <1>5, <2>2
  <2>4. Apart(q, d, x)
    BY <2>1, <2>3 DEF Apart
  <2>5. InTurn(q, d)
    BY <1>5, <2>1 DEF InTurn
  <2>6. Every(q, d, x) = Every(old, d, discarded[w])
    BY <1>5 DEF Every
  <2>7. (sent + 1)..sent = {}
    BY <1>2
  <2>8. QED BY <2>4, <2>5, <2>6, <2>7
<1> HIDE DEF x
<1>8. QED BY <1>1, <1>2, <1>3, <1>5, <1>6, <1>7, InboxStep DEF old, d

(* dequeue takes one sender's messages from the front: none it leaves is      *)
(* older than one it takes of the same sender.                                *)
LEMMA TakenFirst ==
  ASSUME NEW q \in Seq(Message), NEW limit \in Int, NEW from,
         NEW i \in Taken(q, limit, from), NEW j \in DOMAIN q \ Taken(q, limit, from),
         q[i].from = q[j].from
  PROVE  i < j
<1> DEFINE W == Wanted(q, from)
<1>1. W \in SUBSET (1..Len(q)) /\ Len(q) \in Nat
  BY DEF Wanted
<1>2. i \in W /\ Rank(W, i) <= limit
  BY DEF Taken
<1>3. j \in W
  BY <1>2 DEF Wanted
<1>4. ~(Rank(W, j) <= limit)
  BY <1>3 DEF Taken
<1> HIDE DEF W
<1>5. Rank(W, i) \in Int /\ Rank(W, j) \in Int /\ i \in Int /\ j \in Int
      /\ (j < i => Rank(W, j) < Rank(W, i))
  BY <1>1, <1>2, <1>3, Ranks
<1>6. j # i
  OBVIOUS
<1>7. QED BY <1>2, <1>4, <1>5, <1>6

(* dequeue moves messages from the inbox to the end of the delivered ones.    *)
LEMMA DequeueKeeps ==
  ASSUME QueueInv, NEW w \in Workspaces, NEW limit \in Int, NEW from, Dequeue(w, limit, from)
  PROVE  QueueInv'
<1> DEFINE old == queue[w]
           S == Taken(old, limit, from)
           R == DOMAIN old \ S
           p == Those(old, S)
           q == Those(old, R)
           d == delivered[w]
           e == d \o p
           x == discarded[w]
<1>1. /\ queue' = [queue EXCEPT ![w] = q] /\ delivered' = [delivered EXCEPT ![w] = e]
      /\ dirty' = TRUE /\ UNCHANGED <<snapshot, disk, flusher, sent, discarded, faults>>
  BY DEF Dequeue
<1>2. /\ old \in Seq(Message) /\ d \in Seq(Message) /\ Rising(old) /\ Len(old) <= MaxSize
      /\ UpTo(old, sent) /\ UpTo(d, sent) /\ x \in SUBSET (1..sent)
      /\ sent \in Int /\ sent \in 0..MaxMessages
  BY OneInbox
<1>3. discarded' = [discarded EXCEPT ![w] = x] /\ sent' = sent /\ sent <= sent
  BY <1>1, <1>2 DEF QueueInv, TypeOK
<1>4. S \in SUBSET DOMAIN old /\ R \in SUBSET DOMAIN old /\ S \union R = DOMAIN old
      /\ S \intersect R = {}
  BY DEF Taken, Wanted
<1>5. \A i \in S, j \in R : old[i].from = old[j].from => i < j
  BY <1>2, TakenFirst
<1> HIDE DEF old, S, R, d, x
<1>6. /\ q \in Seq(Message) /\ Len(q) <= Len(old) /\ Rising(q)
      /\ Ids(q) = {old[i].id : i \in R}
      /\ \A k \in DOMAIN q : \E i \in R : q[k] = old[i]
  BY <1>2, <1>4, PickedInbox, Picked
<1>7. /\ p \in Seq(Message) /\ Rising(p) /\ Ids(p) = {old[i].id : i \in S}
      /\ \A k \in DOMAIN p : \E i \in S : p[k] = old[i]
  BY <1>2, <1>4, PickedInbox, Picked
<1> HIDE DEF p, q
<1>8. /\ e \in Seq(Message) /\ Len(d) \in Int
      /\ \A i \in DOMAIN e : /\ i \in Int
                            /\ \/ i <= Len(d) /\ i \in DOMAIN d /\ e[i] = d[i]
                               \/ i > Len(d) /\ i - Len(d) \in DOMAIN p /\ e[i] = p[i - Len(d)]
      /\ \A i \in DOMAIN d : i \in DOMAIN e /\ e[i] = d[i] /\ i <= Len(d)
      /\ \A i \in DOMAIN p : Len(d) + i \in DOMAIN e /\ e[Len(d) + i] = p[i]
  BY <1>2, <1>7
<1> HIDE DEF e
<1>9. /\ \A i, j \in DOMAIN old : i # j => old[i].id # old[j].id
      /\ \A i \in DOMAIN old : old[i].id \in Int /\ i \in Int
  <2>1. \A i \in DOMAIN old : old[i].id \in Int /\ i \in Int
    BY <1>2, Numbered
  <2>2. \A i, j \in DOMAIN old : i # j => i < j \/ j < i
    BY <2>1
  <2>3. \A i, j \in DOMAIN old : i < j => old[i].id # old[j].id
    BY <1>2, <2>1 DEF Rising
  <2>4. QED BY <2>1, <2>2, <2>3
<1>10. Ids(q) \intersect Ids(p) = {} /\ Ids(q) \union Ids(p) = Ids(old)
  <2>1. Ids(q) \intersect Ids(p) = {}
    BY <1>4, <1>6, <1>7, <1>9
  <2>2. Ids(q) \union Ids(p) = Ids(old)
    BY <1>4, <1>6, <1>7 DEF Ids
  <2>3. QED BY <2>1, <2>2
<1>11. Ids(e) = Ids(d) \union Ids(p)
  <2>1. \A i \in DOMAIN e : e[i].id \in Ids(d) \union Ids(p)
    BY <1>8 DEF Ids
  <2>2. Ids(d) \in SUBSET Ids(e) /\ Ids(p) \in SUBSET Ids(e)
    BY <1>8 DEF Ids
  <2>3. QED BY <2>1, <2>2 DEF Ids
<1>12. InOrder(q) /\ UpTo(q, sent) /\ UpTo(e, sent)
  <2>1. Len(q) <= MaxSize
    BY <1>2, <1>6, QueueAssumption
  <2>2. UpTo(q, sent) /\ UpTo(p, sent)
    BY <1>2, <1>4, <1>6, <1>7 DEF UpTo
  <2>3. UpTo(e, sent)
    BY <1>2, <1>8, <2>2 DEF UpTo
  <2>4. QED BY <1>6, <2>1, <2>2, <2>3 DEF InOrder
<1>13. ASSUME faults = 0
       PROVE  /\ Apart(q, e, x) /\ InTurn(q, e)
              /\ Every(q, e, x) = Every(old, d, x) \union ((sent + 1)..sent)
  <2>1. Apart(old, d, x) /\ InTurn(old, d)
    BY <1>13, OneInbox DEF old, d, x
  <2>2. Ids(d) \intersect (Ids(old) \union x) = {} /\ Ids(old) \intersect x = {}
    BY <2>1 DEF Apart
  <2>3. Ids(e) \intersect (Ids(q) \union x) = {} /\ Ids(q) \intersect x = {}
    BY <1>10, <1>11, <2>2
  <2>4. \A i \in DOMAIN d, k \in DOMAIN p :
          d[i].id # p[k].id /\ (d[i].from = p[k].from => d[i].id < p[k].id)
    <3> SUFFICES ASSUME NEW i \in DOMAIN d, NEW k \in DOMAIN p
                 PROVE  d[i].id # p[k].id /\ (d[i].from = p[k].from => d[i].id < p[k].id)
      OBVIOUS
    <3>1. PICK j \in S : p[k] = old[j]
      BY <1>7
    <3>2. j \in DOMAIN old /\ old[j].id \in Ids(old) /\ d[i].id \in Ids(d)
      BY <1>4 DEF Ids
    <3>3. QED BY <2>1, <2>2, <3>1, <3>2 DEF InTurn
  <2>5. \A k, l \in DOMAIN p : k # l => p[k].id # p[l].id
    <3>1. \A k \in DOMAIN p : p[k].id \in Int /\ k \in Int
      BY <1>7, Numbered
    <3>2. \A k, l \in DOMAIN p : k # l => k < l \/ l < k
      BY <3>1
    <3>3. \A k, l \in DOMAIN p : k < l => p[k].id # p[l].id
      BY <1>7, <3>1 DEF Rising
    <3>4. QED BY <3>2, <3>3
  <2>6. \A i, j \in DOMAIN e : e[i].id = e[j].id => i = j
    <3> SUFFICES ASSUME NEW i \in DOMAIN e, NEW j \in DOMAIN e, e[i].id = e[j].id
                 PROVE  i = j
      OBVIOUS
    <3> DEFINE InD(k) == k <= Len(d) /\ k \in DOMAIN d /\ e[k] = d[k]
               InP(k) == k > Len(d) /\ k - Len(d) \in DOMAIN p /\ e[k] = p[k - Len(d)]
    <3>1. (InD(i) \/ InP(i)) /\ (InD(j) \/ InP(j)) /\ i \in Int /\ j \in Int
      BY <1>8
    <3>2. CASE InD(i) /\ InD(j)
      BY <2>1, <3>2 DEF Apart
    <3>3. CASE InP(i) /\ InP(j)
      <4>1. i - Len(d) = j - Len(d)
        BY <2>5, <3>3
      <4>2. QED BY <1>8, <3>1, <4>1
    <3>4. CASE InD(i) /\ InP(j)
      BY <2>4, <3>4
    <3>5. CASE InP(i) /\ InD(j)
      BY <2>4, <3>5
    <3>6. QED BY <3>1, <3>2, <3>3, <3>4, <3>5
  <2>7. Apart(q, e, x)
    BY <2>3, <2>6 DEF Apart
  <2>8. ASSUME NEW i \in DOMAIN e, NEW j \in DOMAIN e, i < j, e[i].from = e[j].from
        PROVE  e[i].id < e[j].id
    <3> DEFINE InD(k) == k <= Len(d) /\ k \in DOMAIN d /\ e[k] = d[k]
               InP(k) == k > Len(d) /\ k - Len(d) \in DOMAIN p /\ e[k] = p[k - Len(d)]
    <3>1. (InD(i) \/ InP(i)) /\ (InD(j) \/ InP(j)) /\ i \in Int /\ j \in Int /\ Len(d) \in Int
      BY <1>8
    <3>2. CASE InD(i) /\ InD(j)
      BY <2>1, <2>8, <3>2 DEF InTurn
    <3>3. CASE InP(i) /\ InP(j)
      <4>1. i - Len(d) < j - Len(d)
        BY <2>8, <3>1
      <4>2. QED BY <1>7, <3>3, <4>1 DEF Rising
    <3>4. CASE InD(i) /\ InP(j)
      BY <2>4, <2>8, <3>4
    <3>5. CASE InP(i) /\ InD(j)
      BY <2>8, <3>1, <3>5
    <3>6. QED BY <3>1, <3>2, <3>3, <3>4, <3>5
  <2>9. ASSUME NEW i \in DOMAIN e, NEW j \in DOMAIN q, e[i].from = q[j].from
        PROVE  e[i].id < q[j].id
    <3>1. PICK k \in R : q[j] = old[k]
      BY <1>6
    <3>2. CASE i \in DOMAIN d /\ e[i] = d[i]
      BY <1>4, <2>1, <2>9, <3>1, <3>2 DEF InTurn
    <3>3. CASE i - Len(d) \in DOMAIN p /\ e[i] = p[i - Len(d)]
      <4>1. PICK l \in S : e[i] = old[l]
        BY <1>7, <3>3
      <4>2. l < k /\ l \in DOMAIN old /\ k \in DOMAIN old
        BY <1>4, <1>5, <2>9, <3>1, <4>1
      <4>3. old[l].id < old[k].id
        BY <1>2, <4>2 DEF Rising
      <4>4. QED BY <3>1, <4>1, <4>3
    <3>4. QED BY <1>8, <3>2, <3>3
  <2>10. InTurn(q, e)
    BY <2>8, <2>9 DEF InTurn
  <2>11. Every(q, e, x) = Every(old, d, x)
    BY <1>10, <1>11 DEF Every
  <2>12. (sent + 1)..sent = {}
    BY <1>2
  <2>13. QED BY <2>7, <2>10, <2>11, <2>12
<1>14. QED BY <1>1, <1>2, <1>3, <1>6, <1>8, <1>12, <1>13, InboxStep DEF old, d, x

-----------------------------------------------------------------------------
(* The flusher, and the end of the process                                    *)

(* FlushBegin, FlushWrite, FlushFail, FinalFlush, Shutdown, Drop and Crash    *)
(* move copies of the map around and leave the messages alone.                *)
LEMMA FlusherKeeps ==
  ASSUME QueueInv, Flusher \/ Shutdown \/ Drop \/ Crash
  PROVE  QueueInv'
<1>1. UNCHANGED <<sent, delivered, discarded>>
  BY DEF Flusher, FlushBegin, FlushWrite, FlushFail, FinalFlush, Shutdown, Drop, Crash, Load
<1>2. /\ <<queue>> # NoSnapshot /\ <<queue>>[1] = queue
      /\ snapshot # NoSnapshot => snapshot[1] \in Inboxes /\ snapshot = <<snapshot[1]>>
  BY DEF QueueInv, TypeOK, NoSnapshot
<1>3. faults \in 0..MaxFaults /\ MaxFaults \in Nat
  BY QueueAssumption DEF QueueInv, TypeOK
<1>4. Past'
  BY <1>1 DEF QueueInv, Past
<1>5. CASE FlushBegin
  <2>1. TypeOK'
    BY <1>5, <1>2 DEF FlushBegin, QueueInv, TypeOK
  <2>2. Copies' /\ Account' /\ Saved'
    BY <1>5, <1>2 DEF FlushBegin, QueueInv, Copies, Sound, Account, Saved
  <2>3. QED BY <1>4, <2>1, <2>2 DEF QueueInv
<1>6. CASE FlushWrite
  <2>1. TypeOK'
    BY <1>6, <1>2 DEF FlushWrite, AfterFlush, QueueInv, TypeOK
  <2>2. Copies' /\ Account' /\ Saved'
    BY <1>6, <1>2 DEF FlushWrite, QueueInv, Copies, Sound, Account, Saved
  <2>3. QED BY <1>4, <2>1, <2>2 DEF QueueInv
<1>7. CASE FlushFail
  <2>1. faults' \in 0..MaxFaults /\ faults' # 0
    BY <1>7, <1>3 DEF FlushFail
  <2>2. TypeOK'
    BY <1>7, <2>1 DEF FlushFail, AfterFlush, QueueInv, TypeOK
  <2>3. Copies' /\ Account' /\ Saved'
    BY <1>7, <2>1 DEF FlushFail, QueueInv, Copies, Sound, Account, Saved
  <2>4. QED BY <1>4, <2>2, <2>3 DEF QueueInv
<1>8. CASE FinalFlush \/ Shutdown \/ Drop
  <2>1. /\ UNCHANGED <<queue, dirty, snapshot, disk, faults>>
        /\ flusher' \in {"running", "stopping", "final", "stopped", "dropped"}
    BY <1>8 DEF FinalFlush, Shutdown, Drop
  <2>2. TypeOK'
    BY <1>1, <2>1 DEF QueueInv, TypeOK
  <2>3. Copies' /\ Account' /\ Saved'
    BY <1>1, <2>1 DEF QueueInv, Copies, Sound, Account, Saved
  <2>4. QED BY <1>4, <2>2, <2>3 DEF QueueInv
<1>9. CASE Crash
  <2>1. faults' \in 0..MaxFaults /\ faults' # 0
    BY <1>9, <1>3 DEF Crash
  <2>2. TypeOK'
    BY <1>9, <2>1 DEF Crash, Load, QueueInv, TypeOK
  <2>3. Copies' /\ Account' /\ Saved'
    BY <1>9, <2>1 DEF Crash, Load, QueueInv, Copies, Sound, Account, Saved
  <2>4. QED BY <1>4, <2>2, <2>3 DEF QueueInv
<1>10. QED BY <1>5, <1>6, <1>7, <1>8, <1>9 DEF Flusher

-----------------------------------------------------------------------------
(* The specification                                                          *)

(* A daemon without a queue.json starts with empty inboxes.                   *)
LEMMA StartsEmpty == Init => QueueInv
<1> SUFFICES ASSUME Init PROVE QueueInv
  OBVIOUS
<1>1. \A w \in Workspaces : queue[w] = <<>> /\ delivered[w] = <<>> /\ discarded[w] = {}
  BY DEF Init
<1>2. TypeOK
  <2>1. [w \in Workspaces |-> <<>>] \in Inboxes
    BY DEF Inboxes
  <2>2. 0 \in 0..MaxMessages /\ 0 \in 0..MaxFaults
    BY QueueAssumption
  <2>3. QED BY <2>1, <2>2 DEF Init, TypeOK
<1>3. Copies
  <2>1. InOrder(<<>>) /\ UpTo(<<>>, 0)
    BY QueueAssumption DEF InOrder, Rising, UpTo
  <2>2. QED BY <1>1, <2>1 DEF Init, Copies, Sound
<1>4. Past
  BY <1>1 DEF Init, Past, UpTo
<1>5. Account
  <2>1. \A w \in Workspaces : Every(queue[w], delivered[w], discarded[w]) = {}
    BY <1>1 DEF Every, Ids
  <2>2. 1..sent = {}
    BY DEF Init
  <2>3. Apart(<<>>, <<>>, {}) /\ InTurn(<<>>, <<>>)
    BY DEF Apart, InTurn, Ids
  <2>4. QED BY <1>1, <2>1, <2>2, <2>3 DEF Account
<1>6. Saved
  BY DEF Init, Saved
<1>7. QED BY <1>2, <1>3, <1>4, <1>5, <1>6 DEF QueueInv

(* Every operation, flush, failure and restart keeps the invariant.           *)
LEMMA StepsKeep ==
  ASSUME QueueInv, [Next]_vars
  PROVE  QueueInv'
<1>1. CASE UNCHANGED vars
  BY <1>1 DEF vars, QueueInv, TypeOK, Copies, Sound, Past, Account, Saved
<1>2. ASSUME NEW w \in Workspaces, NEW f \in Senders, NEW t \in Tasks \union {NoTask},
             Enqueue(w, f, t)
      PROVE  QueueInv'
  BY <1>2, EnqueueKeeps
<1>3. ASSUME NEW w \in Workspaces, NEW limit \in 1..MaxSize, NEW f \in Senders \union {Anyone},
             Dequeue(w, limit, f)
      PROVE  QueueInv'
  <2>1. limit \in Int
    BY QueueAssumption
  <2>2. QED BY <1>3, <2>1, DequeueKeeps
<1>4. ASSUME NEW w \in Workspaces, NEW t \in Tasks, RemoveTaskMessages(w, t)
      PROVE  QueueInv'
  BY <1>4, RemoveKeeps
<1>5. CASE Flusher \/ Shutdown \/ Drop \/ Crash
  BY <1>5, FlusherKeeps
<1>6. QED BY <1>1, <1>2, <1>3, <1>4, <1>5 DEF Next, Operations

(* The invariant holds for every queue.rs daemon that starts empty.           *)
THEOREM QueueInvariant == Spec => []QueueInv
BY StartsEmpty, StepsKeep, PTL DEF Spec

(* An inbox never outgrows its cap and stays in the order of sending, through *)
(* reads with a limit and a filter, purges and reloads of an older snapshot;  *)
(* and until a fault one sender's messages are read in order (dequeue).       *)
THEOREM OrderHolds == Spec => []OrderIsKept
<1>1. QueueInv => OrderIsKept
  <2> SUFFICES ASSUME QueueInv PROVE OrderIsKept
    OBVIOUS
  <2>1. InboxInOrder
    BY DEF QueueInv, Copies, Sound, InOrder, Rising, InboxInOrder
  <2>2. SenderOrder
    BY DEF QueueInv, Account, InTurn, SenderOrder
  <2>3. QED BY <2>1, <2>2 DEF OrderIsKept
<1>2. QED BY <1>1, QueueInvariant, PTL

(* Until a fault every message sent waits, was read once, or was dropped on   *)
(* purpose (enqueue's cap, remove_task_messages): none twice, none missing.   *)
THEOREM NothingVanishes == Spec => []Conservation
<1>1. QueueInv => Conservation
  BY DEF QueueInv, Account, Apart, Every, Conservation
<1>2. QED BY <1>1, QueueInvariant, PTL

(* The dirty flag that flush lowers before its write never hides a change:    *)
(* with the flag down and no write running, queue.json is the map in memory.  *)
THEOREM CleanHolds == Spec => []CleanIsSaved
<1>1. QueueInv => CleanIsSaved
  BY DEF QueueInv, Saved, CleanIsSaved
<1>2. QED BY <1>1, QueueInvariant, PTL
=============================================================================
