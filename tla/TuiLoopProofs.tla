---------------------------- MODULE TuiLoopProofs ----------------------------
(***************************************************************************)
(* Proofs about the panel of `ax top', for any config trees, sessions,     *)
(* tasks and messages and every interleaving of keys, refreshes, workers   *)
(* and changes of the world.  First the helpers: what an order, a clamp or *)
(* a rebuilt list returns.  Then the inductive invariant: every cursor is  *)
(* on a row of its list; an open menu of a workspace is on the row of that *)
(* workspace unless it has been off the list; a request carries the target *)
(* of its menu until it hits; a form that is shut has its request waiting  *)
(* or running; and the loop is only where it has something to do.  One     *)
(* lemma per key, drain, worker and change shows that the invariant is     *)
(* kept.                                                                   *)
(***************************************************************************)
EXTENDS TuiLoop, FiniteSetTheorems, SequenceTheorems, TLAPS

-----------------------------------------------------------------------------
(* The helpers *)

LEMMA LeastNumber ==
  ASSUME NEW S \in SUBSET Nat, S # {}
  PROVE  \E x \in S : \A y \in S : x <= y
<1>1. \E x \in S : \A y \in S : ~(<<y, x>> \in OpToRel(<, Nat))
  BY NatLessThanWellFounded, WFMin, Zenon
<1>2. PICK x \in S : \A y \in S : ~(<<y, x>> \in OpToRel(<, Nat))
  BY <1>1
<1>3. \A y \in S : ~(y < x)
  BY <1>2 DEF OpToRel
<1> QED BY <1>3

LEMMA MinIsLeast ==
  ASSUME NEW S \in SUBSET Nat, S # {}
  PROVE  Min(S) \in S /\ \A y \in S : Min(S) <= y
<1>1. \E x \in S : \A y \in S : x =< y
  BY LeastNumber
<1> QED BY <1>1 DEF Min

\* By induction over the size of the set.
LEMMA GreatestNumber ==
  ASSUME NEW S \in SUBSET Nat, S # {}, IsFiniteSet(S)
  PROVE  \E x \in S : \A y \in S : x >= y
<1> DEFINE Bad(V) == V # {} /\ IsFiniteSet(V) /\ ~\E x \in V : \A y \in V : x >= y
           Sizes == {n \in Nat : \E V \in SUBSET Nat : Bad(V) /\ Cardinality(V) = n}
<1>1. SUFFICES ASSUME Sizes # {} PROVE FALSE
  BY FS_CardinalityType
<1>2. PICK n \in Sizes : \A m \in Sizes : n <= m
  BY <1>1, LeastNumber
<1>3. PICK V \in SUBSET Nat : Bad(V) /\ Cardinality(V) = n
  BY <1>2
<1>4. PICK x \in V : TRUE
  BY <1>3
<1> DEFINE U == V \ {x}
<1>5. IsFiniteSet(U) /\ Cardinality(U) = n - 1 /\ Cardinality(U) \in Nat
  BY <1>3, <1>4, FS_RemoveElement, FS_CardinalityType
<1>6. ~Bad(U)
  <2> SUFFICES ASSUME Bad(U) PROVE FALSE
    OBVIOUS
  <2>1. n - 1 \in Sizes
    BY <1>5
  <2> QED BY <2>1, <1>2
<1>7. CASE U = {}
  <2>1. \A y \in V : x >= y
    BY <1>7, <1>4
  <2> QED BY <2>1, <1>3, <1>4
<1>8. CASE U # {}
  <2>1. PICK z \in U : \A y \in U : z >= y
    BY <1>8, <1>6, <1>5
  <2>2. \/ \A y \in V : x >= y
        \/ \A y \in V : z >= y
    BY <2>1, <1>4
  <2> QED BY <2>2, <2>1, <1>3, <1>4
<1> QED BY <1>7, <1>8

LEMMA MaxIsGreatest ==
  ASSUME NEW S \in SUBSET Nat, S # {}, IsFiniteSet(S)
  PROVE  Max(S) \in S /\ \A y \in S : Max(S) >= y
<1>1. \E x \in S : \A y \in S : x >= y
  BY GreatestNumber
<1> QED BY <1>1 DEF Max

\* R is a total order on S.
Orders(R, S) ==
  /\ \A x \in S : <<x, x>> \notin R
  /\ \A x, y, z \in S : <<x, y>> \in R /\ <<y, z>> \in R => <<x, z>> \in R
  /\ \A x, y \in S : x # y => <<x, y>> \in R \/ <<y, x>> \in R

\* How many elements of S come before x.
Rank(R, S, x) == Cardinality({y \in S : <<y, x>> \in R})

\* In a finite set with a total order every number of elements less than all comes before
\* some element: those numbers are different for different elements.
LEMMA Ranks ==
  ASSUME NEW S, IsFiniteSet(S), NEW R, Orders(R, S), NEW k \in 1..Cardinality(S)
  PROVE  \E x \in S : Rank(R, S, x) = k - 1
<1> DEFINE Below(x) == {y \in S : <<y, x>> \in R}
           n == Cardinality(S)
           f == [x \in S |-> Cardinality(Below(x))]
<1> USE DEF Orders, Rank
<1>0. n \in Nat
  BY FS_CardinalityType
<1>1. ASSUME NEW x \in S
      PROVE  IsFiniteSet(Below(x)) /\ Cardinality(Below(x)) \in 0..(n - 1)
  <2>1. Below(x) \in SUBSET S /\ x \notin Below(x)
    OBVIOUS
  <2>2. IsFiniteSet(Below(x)) /\ Cardinality(Below(x)) <= n /\ (n = Cardinality(Below(x)) => S = Below(x))
    BY <2>1, FS_Subset
  <2>3. Cardinality(Below(x)) \in Nat /\ Cardinality(Below(x)) # n
    BY <2>1, <2>2, FS_CardinalityType
  <2> QED BY <2>2, <2>3, <1>0
<1>2. ASSUME NEW x \in S, NEW y \in S, <<x, y>> \in R
      PROVE  Cardinality(Below(x)) < Cardinality(Below(y))
  <2>1. Below(x) \in SUBSET Below(y) /\ x \in Below(y) /\ x \notin Below(x)
    BY <1>2
  <2>2. IsFiniteSet(Below(y)) /\ Cardinality(Below(y)) \in Nat /\ Cardinality(Below(x)) \in Nat
    <3> HIDE DEF Below
    <3>1. IsFiniteSet(Below(y)) /\ Cardinality(Below(y)) \in 0..(n - 1) /\ Cardinality(Below(x)) \in 0..(n - 1)
      BY <1>1
    <3> QED BY <3>1
  <2>3. /\ Cardinality(Below(x)) <= Cardinality(Below(y))
        /\ Cardinality(Below(y)) = Cardinality(Below(x)) => Below(y) = Below(x)
    BY <2>1, <2>2, FS_Subset
  <2> QED BY <2>1, <2>2, <2>3
<1>3. f \in Injection(S, 0..(n - 1))
  <2>1. f \in [S -> 0..(n - 1)]
    BY <1>1
  <2>2. ASSUME NEW x \in S, NEW y \in S, x # y
        PROVE  f[x] # f[y]
    <3>0. f[x] = Cardinality(Below(x)) /\ f[y] = Cardinality(Below(y))
      OBVIOUS
    <3>1. f[x] = Cardinality(Below(x)) /\ f[y] = Cardinality(Below(y)) /\ f[x] \in Nat /\ f[y] \in Nat
      <4> HIDE DEF Below, f
      <4>1. Cardinality(Below(y)) \in 0..(n - 1) /\ Cardinality(Below(x)) \in 0..(n - 1)
        BY <1>1
      <4> QED BY <3>0, <4>1
    <3>2. CASE <<x, y>> \in R
      BY <3>1, <3>2, <1>2
    <3>3. CASE <<y, x>> \in R
      BY <3>1, <3>3, <1>2
    <3> QED BY <2>2, <3>2, <3>3
  <2> QED BY <2>1, <2>2 DEF Injection, IsInjective
<1>4. IsFiniteSet(0..(n - 1)) /\ Cardinality(0..(n - 1)) = n
  <2> HIDE DEF n
  <2>1. 0 \in Int /\ n - 1 \in Int
    BY <1>0
  <2>2. IsFiniteSet(0..(n - 1)) /\ Cardinality(0..(n - 1)) = IF 0 > n - 1 THEN 0 ELSE (n - 1) - 0 + 1
    BY <2>1, FS_Interval
  <2> QED BY <2>2, <1>0
<1>5. f \in Surjection(S, 0..(n - 1))
  BY <1>3, <1>4, FS_Injection
<1>6. k - 1 \in 0..(n - 1)
  BY <1>0
<1>7. \E x \in S : f[x] = k - 1
  BY <1>5, <1>6 DEF Surjection
<1> QED BY <1>7

LEMMA KeptType ==
  ASSUME NEW T, NEW s \in Seq(T), NEW I \in SUBSET DOMAIN s
  PROVE  Kept(s, I) \in Seq(T) /\ Len(Kept(s, I)) = Cardinality(I) /\ Cardinality(I) \in Nat
<1> DEFINE R == {p \in I \X I : p[1] < p[2]}
           at == InOrder(I, <)
<1>1. I \in SUBSET Nat /\ IsFiniteSet(I) /\ Cardinality(I) \in Nat
  <2>1. DOMAIN s = 1..Len(s) /\ Len(s) \in Nat
    OBVIOUS
  <2>2. IsFiniteSet(1..Len(s))
    BY <2>1, FS_Interval
  <2> QED BY <2>1, <2>2, FS_Subset, FS_CardinalityType
<1>2. ASSUME NEW k \in 1..Cardinality(I)
      PROVE  \E x \in I : Cardinality({y \in I : y < x}) = k - 1
  <2>1. Orders(R, I)
    BY <1>1 DEF Orders
  <2>2. \E x \in I : Rank(R, I, x) = k - 1
    <3> HIDE DEF R
    <3> QED BY <2>1, <1>1, Ranks
  <2>3. \A x \in I : {y \in I : <<y, x>> \in R} = {y \in I : y < x}
    OBVIOUS
  <2> QED BY <2>2, <2>3 DEF Rank
<1>3. at \in [1..Cardinality(I) -> I]
  BY <1>2 DEF InOrder
<1>4. Kept(s, I) = [k \in 1..Cardinality(I) |-> s[at[k]]]
  BY <1>3 DEF Kept
<1> HIDE DEF at
<1>5. \A k \in 1..Cardinality(I) : s[at[k]] \in T
  BY <1>3
<1> QED BY <1>1, <1>4, <1>5

-----------------------------------------------------------------------------
(* What the lists are built of *)

RowSet == [name : Names, live : BOOLEAN] \union {Header}

LEMMA SnapshotType ==
  ASSUME NEW d \in Disks
  PROVE  Snapshot(d) \in Seq(Task)
<1> DEFINE ids == {x \in TaskIds : d[x] # NoTask}
           S == {d[t] : t \in ids}
           R == {p \in S \X S : DisplayBefore(p[1], p[2])}
<1>1. /\ S \subseteq Task
      /\ \A x, y \in S : x # y => x.id # y.id
  BY DEF Disks
<1>2. IsFiniteSet(S) /\ Cardinality(S) \in Nat
  <2> DEFINE f == [t \in ids |-> d[t]]
  <2>1. f \in Surjection(ids, S)
    BY DEF Surjection
  <2>2. IsFiniteSet(ids)
    BY TuiListsAssumption, FS_Subset
  <2> HIDE DEF f, S
  <2>3. IsFiniteSet(S)
    BY <2>1, <2>2, FS_Surjection
  <2> QED BY <2>3, FS_CardinalityType
<1>3. \A x \in S : /\ x.id \in Nat /\ x.updated \in Nat
                   /\ StatusOrder(x.status) \in 0..2
  <2> HIDE DEF S
  <2> QED BY <1>1, TuiListsAssumption DEF Task, Statuses, Open, StatusOrder
<1>4. Orders(R, S)
  <2> HIDE DEF S
  <2>1. \A x \in S : <<x, x>> \notin R
    BY <1>3 DEF DisplayBefore
  <2>2. \A x, y, z \in S : <<x, y>> \in R /\ <<y, z>> \in R => <<x, z>> \in R
    BY <1>3 DEF DisplayBefore
  <2>3. \A x, y \in S : x # y => <<x, y>> \in R \/ <<y, x>> \in R
    BY <1>1, <1>3 DEF DisplayBefore
  <2> QED BY <2>1, <2>2, <2>3 DEF Orders
<1>5. ASSUME NEW k \in 1..Cardinality(S)
      PROVE  \E x \in S : Cardinality({y \in S : DisplayBefore(y, x)}) = k - 1
  <2>1. \E x \in S : Rank(R, S, x) = k - 1
    <3> HIDE DEF R, S
    <3> QED BY <1>2, <1>4, Ranks
  <2>2. \A x \in S : {y \in S : <<y, x>> \in R} = {y \in S : DisplayBefore(y, x)}
    <3> HIDE DEF S
    <3> QED OBVIOUS
  <2> HIDE DEF R, S
  <2> QED BY <2>1, <2>2 DEF Rank
<1>6. Snapshot(d) = [k \in 1..Cardinality(S) |-> CHOOSE x \in S : Cardinality({y \in S : DisplayBefore(y, x)}) = k - 1]
  BY DEF Snapshot, InOrder
<1> HIDE DEF S, R
<1>7. Snapshot(d) \in [1..Cardinality(S) -> Task]
  BY <1>1, <1>5, <1>6
<1> QED BY <1>2, <1>7

LEMMA SessionsType ==
  ASSUME NEW s
  PROVE  Sessions(s) \in Seq(Names)
<1>1. Order \in Seq(Names)
  BY TuiListsAssumption DEF Names
<1> QED BY <1>1, KeptType DEF Sessions

LEMMA BuildType ==
  ASSUME NEW t \in Trees, NEW s
  PROVE  BuildEntries(t, s) \in Seq(RowSet)
<1>1. CASE t # NoTree
  <2>1. t \in Seq(Names \union {Header})
    BY <1>1, TuiListsAssumption DEF Names
  <2> DEFINE strays == Sessions(s \ ToSet(t))
             first == [i \in DOMAIN t |-> IF t[i] = Header THEN Header ELSE Row(t[i], t[i] \in s)]
             more == [i \in DOMAIN strays |-> Row(strays[i], TRUE)]
  <2>2. first \in Seq(RowSet)
    <3>1. \A i \in DOMAIN t : (IF t[i] = Header THEN Header ELSE Row(t[i], t[i] \in s)) \in RowSet
      BY <2>1 DEF RowSet, Row
    <3>2. DOMAIN t = 1..Len(t) /\ Len(t) \in Nat
      BY <2>1
    <3> QED BY <3>1, <3>2
  <2>3. strays \in Seq(Names)
    BY SessionsType
  <2>4. more \in Seq(RowSet)
    <3> HIDE DEF strays
    <3>1. \A i \in DOMAIN strays : Row(strays[i], TRUE) \in RowSet
      BY <2>3 DEF RowSet, Row
    <3>2. DOMAIN strays = 1..Len(strays) /\ Len(strays) \in Nat
      BY <2>3
    <3>3. more \in [1..Len(strays) -> RowSet]
      BY <3>1, <3>2
    <3> HIDE DEF more
    <3> QED BY <3>2, <3>3
  <2>5. <<Header>> \in Seq(RowSet) /\ <<>> \in Seq(RowSet)
    BY DEF RowSet
  <2>6. TreeRows(t, s) = first \o (IF strays = <<>> THEN <<>> ELSE <<Header>> \o more)
    BY DEF TreeRows
  <2> HIDE DEF first, more, strays
  <2>7. TreeRows(t, s) \in Seq(RowSet)
    BY <2>2, <2>4, <2>5, <2>6
  <2> QED BY <2>7, <1>1 DEF BuildEntries
<1>2. CASE t = NoTree
  <2> DEFINE names == Sessions(s)
             name(i) == names[(i + 1) \div 2]
             pairs == [i \in 1..(2 * Len(names)) |-> IF i % 2 = 1 THEN Header ELSE Row(LastPart[name(i)], TRUE)]
             I == {i \in DOMAIN pairs : i % 2 = 1 => LastPart[name(i)] # name(i)}
  <2>1. names \in Seq(Names) /\ Len(names) \in Nat
    BY SessionsType
  <2>2. \A i \in 1..(2 * Len(names)) : (IF i % 2 = 1 THEN Header ELSE Row(LastPart[name(i)], TRUE)) \in RowSet
    <3> HIDE DEF names
    <3>1. SUFFICES ASSUME NEW i \in 1..(2 * Len(names)) PROVE name(i) \in Names
      BY TuiListsAssumption DEF RowSet, Row, Names
    <3>2. (i + 1) \div 2 \in 1..Len(names)
      BY <2>1
    <3> QED BY <2>1, <3>2
  <2>3. pairs \in Seq(RowSet)
    <3> HIDE DEF names, name
    <3>1. 2 * Len(names) \in Nat
      BY <2>1
    <3>2. pairs \in [1..(2 * Len(names)) -> RowSet]
      BY <2>2
    <3> HIDE DEF pairs
    <3> QED BY <3>1, <3>2
  <2>4. FallbackRows(s) = Kept(pairs, I)
    BY DEF FallbackRows
  <2> HIDE DEF pairs, names, name
  <2>5. FallbackRows(s) \in Seq(RowSet)
    BY <2>3, <2>4, KeptType
  <2> QED BY <2>5, <1>2 DEF BuildEntries
<1> QED BY <1>1, <1>2

LEMMA SelectableType ==
  ASSUME NEW rs \in Seq(RowSet)
  PROVE  /\ Selectable(rs) \in SUBSET (Nat \ {0}) /\ IsFiniteSet(Selectable(rs))
         /\ Cardinality(Selectable(rs)) \in Nat
         /\ \A i \in Selectable(rs) : i \in DOMAIN rs /\ rs[i].name \in Names
<1>1. DOMAIN rs = 1..Len(rs) /\ Len(rs) \in Nat
  OBVIOUS
<1>2. IsFiniteSet(1..Len(rs)) /\ Selectable(rs) \in SUBSET (1..Len(rs))
  BY <1>1, FS_Interval DEF Selectable
<1>3. IsFiniteSet(Selectable(rs))
  BY <1>2, FS_Subset
<1>4. \A i \in Selectable(rs) : i \in DOMAIN rs /\ rs[i].name \in Names
  BY DEF Selectable, RowSet
<1> QED BY <1>1, <1>2, <1>3, <1>4, FS_CardinalityType

\* Reselect finds the workspace again where it is listed, and a row where there is one.
LEMMA ReselectFinds ==
  ASSUME NEW rs \in Seq(RowSet), selected \in Nat
  PROVE  /\ Reselect(rs) \in Nat
         /\ Selectable(rs) # {} => Reselect(rs) \in Selectable(rs)
         /\ SelectedName # NoName /\ Listed(rs, SelectedName) => NameAt(rs, Reselect(rs)) = SelectedName
<1> DEFINE all == Selectable(rs)
           same == {i \in all : SelectedName # NoName /\ rs[i].name = SelectedName}
           later == {i \in all : i >= selected}
<1>1. all \in SUBSET Nat /\ IsFiniteSet(all)
  BY SelectableType
<1>2. same # {} => Min(same) \in same
  BY <1>1, MinIsLeast
<1>3. later # {} => Min(later) \in later
  BY <1>1, MinIsLeast
<1>4. all # {} => Max(all) \in all
  BY <1>1, MaxIsGreatest
<1>5. Reselect(rs) = IF all = {} THEN 1 ELSE IF same # {} THEN Min(same) ELSE IF later # {} THEN Min(later) ELSE Max(all)
  BY DEF Reselect
<1>6. SelectedName # NoName /\ Listed(rs, SelectedName) => same # {}
  BY DEF Listed
<1>0. same \subseteq all /\ later \subseteq all
  OBVIOUS
<1> HIDE DEF all
<1>7. Reselect(rs) \in Nat /\ (all # {} => Reselect(rs) \in all)
  <2> HIDE DEF same, later
  <2>1. CASE all = {}
    BY <2>1, <1>5
  <2>2. CASE all # {} /\ same # {}
    BY <2>2, <1>0, <1>1, <1>2, <1>5
  <2>3. CASE all # {} /\ same = {} /\ later # {}
    BY <2>3, <1>0, <1>1, <1>3, <1>5
  <2>4. CASE all # {} /\ same = {} /\ later = {}
    BY <2>4, <1>1, <1>4, <1>5
  <2> QED BY <2>1, <2>2, <2>3, <2>4
<1>8. same # {} => Reselect(rs) \in all /\ rs[Reselect(rs)].name = SelectedName
  BY <1>2, <1>5
<1> QED BY <1>6, <1>7, <1>8 DEF all, NameAt

LEMMA TouchedType ==
  ASSUME disk \in Disks, NEW task \in Task, NEW status \in Statuses
  PROVE  Touched(task, status) \in Task /\ Touched(task, status).id = task.id
<1> DEFINE ids == {x \in TaskIds : disk[x] # NoTask}
           S == {0} \union {disk[t].updated : t \in ids}
<1>1. S \in SUBSET Nat
  BY DEF Disks, Task
<1>2. IsFiniteSet(S)
  <2> DEFINE f == [t \in ids |-> disk[t].updated]
             T == {disk[t].updated : t \in ids}
  <2>1. f \in Surjection(ids, T)
    BY DEF Surjection
  <2>2. IsFiniteSet(ids)
    BY TuiListsAssumption, FS_Subset
  <2>3. S = T \union {0}
    OBVIOUS
  <2> HIDE DEF f, T, S
  <2>4. IsFiniteSet(T)
    BY <2>1, <2>2, FS_Surjection
  <2> QED BY <2>3, <2>4, FS_AddElement
<1>3. Max(S) \in Nat
  <2>1. S # {}
    OBVIOUS
  <2> HIDE DEF S
  <2> QED BY <1>1, <1>2, <2>1, MaxIsGreatest
<1>4. Touched(task, status) = [task EXCEPT !.status = status, !.version = @ + 1, !.updated = Max(S) + 1]
  BY DEF Touched
<1> DEFINE m == Max(S) + 1
<1>5. m \in Nat
  BY <1>3
<1>6. Touched(task, status) = [task EXCEPT !.status = status, !.version = @ + 1, !.updated = m]
  BY <1>4
<1> HIDE DEF m, S, ids
<1>7. [task EXCEPT !.status = status, !.version = @ + 1, !.updated = m] \in Task
  <2>1. task.version + 1 \in Nat
    BY DEF Task
  <2> DEFINE v == task.version + 1
  <2> HIDE DEF v
  <2>2. [task EXCEPT !.status = status, !.version = v, !.updated = m] \in Task
    BY <1>5, <2>1 DEF Task, v
  <2> QED BY <2>2 DEF v
<1>8. [task EXCEPT !.status = status, !.version = @ + 1, !.updated = m].id = task.id
  BY DEF Task
<1> QED BY <1>6, <1>7, <1>8

-----------------------------------------------------------------------------
(* The inductive invariant *)

WorldInv == tree \in Trees /\ disk \in Disks /\ history \in Nat /\ usage \in Nat

AgentsInv ==
  /\ rows \in Seq(RowSet) /\ selected \in Nat
  /\ Selectable(rows) # {} => selected \in Selectable(rows)
TasksInv == tasks \in Seq(Task) /\ task_cursor \in Nat /\ task_cursor <= Most(Len(Filtered) - 1, 0)
MessagesInv ==
  /\ shown \in Nat \X Nat /\ shown[2] <= history /\ Shown(shown) >= 0 /\ message_cursor \in Nat /\ follow \in BOOLEAN
  /\ message_cursor <= Most(Shown(shown) - 1, 0)
  /\ follow => message_cursor = Most(Shown(shown) - 1, 0)
TokensInv == tokens \in Nat /\ token_cursor \in Nat /\ token_cursor <= Most(tokens - 1, 0)
PlaceInv == view \in {"agents", "messages", "tasks", "tokens", "stream"} /\ (view = "stream" => pinned # NoName)
ListsInv == AgentsInv /\ TasksInv /\ MessagesInv /\ TokensInv /\ PlaceInv

\* What the menus, requests and jobs are.
TaskMenu == <<"wake", "task_interrupt", "retry", "cancel">>
Menus == [actions : {AgentActions(TRUE), AgentActions(FALSE), TaskMenu}, at : Nat, confirm : BOOLEAN,
          target : Targets, lost : BOOLEAN]
Lifecycles == [act : {"restart", "stop"}, name : Names, shown : Targets, lost : BOOLEAN]
Pendings == [lifecycle : Lifecycles \union {None}, action : Actions \union {None}, create : Names \union {None}, message : BOOLEAN]
Jobs == [action : ActionJobs \union {None}, message : Results \union {None}]

\* A menu of a workspace is on the row of that workspace while it is listed; whatever was
\* asked for names the task of its menu, or the workspace unless that was off the list.
MenuInv ==
  overlay # None =>
    /\ overlay \in Menus /\ overlay.at \in 1..Len(overlay.actions)
    /\ overlay.actions # TaskMenu /\ ~overlay.lost => SelectedName = overlay.target
WorkInv ==
  /\ pending \in Pendings /\ jobs \in Jobs /\ asks \in 0..MaxAsks /\ forced \in BOOLEAN
  /\ pending.lifecycle # None /\ pending.lifecycle.name # pending.lifecycle.shown => pending.lifecycle.lost
  /\ pending.action # None => pending.action.task = pending.action.shown
  /\ jobs.action # None => jobs.action.ask.task = jobs.action.ask.shown
  /\ TaskHitsTheShown /\ OnlyTheVanishedIsMissed

\* A form that is shut has the request of its kind under way, and only that one.
Shut(kind) == form # None /\ form.submitting /\ form.kind = kind
FormInv ==
  /\ help \in BOOLEAN /\ form \in Forms \union {None}
  /\ overlay # None => form = None /\ ~help
  /\ form # None => ~help
  /\ pending.create # None => Shut("create")
  /\ pending.message \/ jobs.message # None => Shut("message")
  /\ ~(pending.message /\ jobs.message # None)
  /\ form # None /\ form.submitting => pending.create # None \/ pending.message \/ jobs.message # None

\* The loop is where it has something to do.
PhaseInv ==
  /\ phase \in {"lifecycle", "action", "create", "message", "input", "refresh"}
  /\ phase = "lifecycle" => pending.lifecycle # None
  /\ phase = "action" => pending.action # None \/ jobs.action # None
  /\ phase = "create" => pending.create # None
  /\ phase = "message" => pending.message \/ jobs.message # None

PanelInv == WorldInv /\ ListsInv /\ MenuInv /\ WorkInv /\ FormInv /\ PhaseInv

LEMMA AgentsStay == ASSUME AgentsInv, UNCHANGED agents PROVE AgentsInv'
BY DEF AgentsInv, agents, Selectable

LEMMA TasksStay == ASSUME TasksInv, UNCHANGED tasklist PROVE TasksInv'
BY DEF TasksInv, tasklist, Filtered

LEMMA MessagesStay ==
  ASSUME MessagesInv, UNCHANGED messages, history \in Nat, history' \in Nat, history' >= history
  PROVE  MessagesInv'
BY DEF MessagesInv, messages, Shown

LEMMA TokensStay == ASSUME TokensInv, UNCHANGED tokenlist PROVE TokensInv'
BY DEF TokensInv, tokenlist

LEMMA PlaceStays == ASSUME PlaceInv, UNCHANGED <<view, pinned>> PROVE PlaceInv'
BY DEF PlaceInv

LEMMA ListsStay ==
  ASSUME ListsInv, history \in Nat, history' \in Nat, history' >= history, UNCHANGED lists, UNCHANGED <<view, pinned>>
  PROVE  ListsInv'
<1>1. UNCHANGED agents /\ UNCHANGED tasklist /\ UNCHANGED messages /\ UNCHANGED tokenlist
  BY DEF lists
<1> QED BY <1>1, AgentsStay, TasksStay, MessagesStay, TokensStay, PlaceStays DEF ListsInv

LEMMA GoOnPhase ==
  ASSUME NEW k \in 1..5, GoOn(k)
  PROVE  PhaseInv'
<1> DEFINE left == {i \in k..Len(Parts) : HasWork(Parts[i])}
<1>0. Len(Parts) = 4
  BY DEF Parts
<1>1. CASE left # {}
  <2>1. left \in SUBSET Nat
    BY <1>0
  <2>2. Min(left) \in left
    BY <1>1, <2>1, MinIsLeast
  <2>3. Min(left) \in 1..4 /\ HasWork(Parts[Min(left)])
    BY <2>2, <1>0
  <2>4. phase' = Parts[Min(left)]
    BY <1>1 DEF GoOn
  <2> DEFINE i == Min(left)
  <2> HIDE DEF i, left
  <2>5. i \in 1..4 /\ HasWork(Parts[i]) /\ phase' = Parts[i]
    BY <2>3, <2>4 DEF i
  <2>6. phase' \in {"lifecycle", "action", "create", "message"} /\ HasWork(phase')
    BY <2>5 DEF Parts
  <2> QED BY <2>6 DEF HasWork, PhaseInv
<1>2. CASE left = {}
  <2>1. phase' \in {"input", "refresh"}
    BY <1>2 DEF GoOn
  <2> QED BY <2>1 DEF PhaseInv
<1> QED BY <1>1, <1>2

LEMMA NameType ==
  ASSUME AgentsInv
  PROVE  SelectedName \in Names \union {NoName}
BY SelectableType DEF AgentsInv, SelectedName, NameAt

LEMMA FilteredType ==
  ASSUME NEW ts \in Seq(Task), NEW f
  PROVE  FilterTasks(ts, f) \in Seq(Task) /\ Len(FilterTasks(ts, f)) \in Nat
<1>1. {i \in DOMAIN ts : Passes(ts[i], f)} \in SUBSET DOMAIN ts
  OBVIOUS
<1>2. FilterTasks(ts, f) \in Seq(Task)
  BY <1>1, KeptType DEF FilterTasks
<1> QED BY <1>2

LEMMA SelectedTaskType ==
  ASSUME TasksInv, SelectedTask # NoTask
  PROVE  SelectedTask \in Task
<1>1. Filtered \in Seq(Task) /\ Len(Filtered) \in Nat
  BY FilteredType DEF TasksInv, Filtered
<1> QED BY <1>1 DEF TasksInv, SelectedTask

LEMMA ClampFits ==
  ASSUME NEW c \in Nat, NEW n \in Nat
  PROVE  ClampTo(c, n) \in Nat /\ ClampTo(c, n) <= Most(n - 1, 0)
BY DEF ClampTo, Least, Most

LEMMA DefaultAssigneeType ==
  ASSUME AgentsInv, TasksInv
  PROVE  DefaultAssignee \in Names \union {NoName}
<1>1. Known \subseteq Names
  <2>1. \A i \in Selectable(rows) : rows[i].name \in Names
    BY SelectableType DEF AgentsInv
  <2>2. \A i \in DOMAIN tasks : tasks[i].assignee \in Names
    <3>1. \A i \in DOMAIN tasks : tasks[i] \in Task
      BY DEF TasksInv
    <3> QED BY <3>1 DEF Task
  <2> QED BY <2>1, <2>2 DEF Known
<1>2. SelectedTask # NoTask => SelectedTask.assignee \in Names
  BY SelectedTaskType DEF Task
<1>3. ASSUME Known # {}
      PROVE  \E w \in Known : \A v \in Known : v = w \/ \E i, j \in DOMAIN Order : i < j /\ Order[i] = w /\ Order[j] = v
  <2> DEFINE I == {i \in DOMAIN Order : Order[i] \in Known}
  <2>1. DOMAIN Order \subseteq Nat
    BY TuiListsAssumption
  <2>2. \A v \in Known : \E i \in DOMAIN Order : Order[i] = v
    BY <1>1 DEF Names, ToSet
  <2>3. I \in SUBSET Nat /\ I # {}
    BY <1>3, <2>1, <2>2
  <2>4. PICK i \in I : \A j \in I : i <= j
    BY <2>3, LeastNumber
  <2>5. ASSUME NEW v \in Known, v # Order[i]
        PROVE  \E k, j \in DOMAIN Order : k < j /\ Order[k] = Order[i] /\ Order[j] = v
    <3>1. PICK j \in DOMAIN Order : Order[j] = v
      BY <2>2
    <3>2. j \in I /\ i # j /\ i \in Nat /\ j \in Nat
      BY <3>1, <2>5, <2>3
    <3>3. i < j
      BY <3>2, <2>4
    <3> QED BY <3>1, <3>3
  <2> QED BY <2>4, <2>5
<1>4. Known # {} => DefaultAssignee \in Names \union {NoName}
  <2> SUFFICES ASSUME Known # {} PROVE DefaultAssignee \in Names \union {NoName}
    OBVIOUS
  <2> DEFINE C == CHOOSE w \in Known : \A v \in Known : v = w \/ \E i, j \in DOMAIN Order : i < j /\ Order[i] = w /\ Order[j] = v
  <2>1. C \in Known
    BY <1>3
  <2> HIDE DEF C
  <2>2. DefaultAssignee \in {SelectedTask.assignee, SelectedName, C} /\ (SelectedTask = NoTask => DefaultAssignee \in {SelectedName, C})
    BY DEF DefaultAssignee, C
  <2> QED BY <2>1, <2>2, <1>1, <1>2, NameType
<1> QED BY <1>2, <1>4, NameType DEF DefaultAssignee

-----------------------------------------------------------------------------
(* What leaves a part of the panel alone *)

LEMMA MenuStays ==
  ASSUME MenuInv, UNCHANGED overlay, UNCHANGED <<rows, selected>>
  PROVE  MenuInv'
BY DEF MenuInv, SelectedName, NameAt, Selectable

LEMMA NoMenu ==
  ASSUME overlay' = None
  PROVE  MenuInv'
BY DEF MenuInv

LEMMA WorkStays ==
  ASSUME WorkInv, UNCHANGED work
  PROVE  WorkInv'
BY DEF WorkInv, work, TaskHitsTheShown, OnlyTheVanishedIsMissed

LEMMA FormStays ==
  ASSUME FormInv, UNCHANGED <<help, overlay, form>>, UNCHANGED <<pending, jobs>>
  PROVE  FormInv'
BY DEF FormInv, Shut

\* The last request stays, and so does what it hit.
LEMMA LastStays ==
  ASSUME WorkInv, UNCHANGED last
  PROVE  TaskHitsTheShown' /\ OnlyTheVanishedIsMissed'
BY DEF WorkInv, TaskHitsTheShown, OnlyTheVanishedIsMissed

LEMMA KeyFrame ==
  ASSUME PanelInv, Event, UNCHANGED lists, UNCHANGED place
  PROVE  /\ WorldInv' /\ ListsInv' /\ PhaseInv'
         /\ UNCHANGED <<rows, selected>> /\ SelectedName' = SelectedName
<1>1. UNCHANGED <<tree, sessions, disk, history, usage>> /\ GoOn(1)
  BY DEF Event, world
<1>2. WorldInv' /\ history' \in Nat /\ history \in Nat /\ history' >= history
  BY <1>1 DEF PanelInv, WorldInv
<1>3. ListsInv'
  BY <1>2, ListsStay DEF PanelInv, place
<1>4. PhaseInv'
  BY <1>1, GoOnPhase
<1>5. UNCHANGED <<rows, selected>>
  BY DEF lists, agents
<1>6. SelectedName' = SelectedName
  BY <1>5 DEF SelectedName, NameAt, Selectable
<1> QED BY <1>2, <1>3, <1>4, <1>5, <1>6

-----------------------------------------------------------------------------
(* The keys that leave the lists alone *)

LEMMA NoEventKeeps == ASSUME PanelInv, NoEvent PROVE PanelInv'
<1>1. UNCHANGED lists /\ UNCHANGED place /\ UNCHANGED modal /\ UNCHANGED work /\ Event
  BY DEF NoEvent, NoWork
<1>2. UNCHANGED <<help, overlay, form>> /\ UNCHANGED <<pending, jobs>>
  BY <1>1 DEF modal, work
<1> QED BY <1>1, <1>2, KeyFrame, MenuStays, WorkStays, FormStays DEF PanelInv

LEMMA HelpKeyKeeps == ASSUME PanelInv, HelpKey PROVE PanelInv'
<1>1. /\ UNCHANGED lists /\ UNCHANGED place /\ UNCHANGED work /\ Event
      /\ form = None /\ overlay = None /\ help' = ~help /\ UNCHANGED <<overlay, form>>
  BY DEF HelpKey, NoWork
<1>2. UNCHANGED <<pending, jobs>>
  BY <1>1 DEF work
<1>3. FormInv'
  BY <1>1, <1>2 DEF PanelInv, FormInv, Shut
<1> QED BY <1>1, <1>3, KeyFrame, MenuStays, WorkStays DEF PanelInv

LEMMA RefreshKeyKeeps == ASSUME PanelInv, RefreshKey PROVE PanelInv'
<1>1. /\ UNCHANGED lists /\ UNCHANGED place /\ UNCHANGED modal /\ Event
      /\ forced' = TRUE /\ UNCHANGED <<pending, jobs>> /\ UNCHANGED <<asks, last>>
  BY DEF RefreshKey
<1>2. UNCHANGED <<help, overlay, form>>
  BY <1>1 DEF modal
<1>3. WorkInv'
  BY <1>1, LastStays DEF PanelInv, WorkInv
<1> QED BY <1>1, <1>2, <1>3, KeyFrame, MenuStays, FormStays DEF PanelInv

LEMMA OpenOverlayKeeps == ASSUME PanelInv, OpenOverlay PROVE PanelInv'
<1>1. /\ UNCHANGED lists /\ UNCHANGED place /\ UNCHANGED work /\ Event
      /\ Browsing /\ UNCHANGED <<help, form>>
  BY DEF OpenOverlay, NoWork
<1>2. UNCHANGED <<pending, jobs>>
  BY <1>1 DEF work
<1>3. FormInv'
  BY <1>1, <1>2 DEF PanelInv, FormInv, Shut, Browsing
<1>4. SelectedName' = SelectedName
  BY <1>1, KeyFrame
<1>5. ASSUME SelectedName # NoName /\ overlay' = Menu(AgentActions(rows[selected].live), SelectedName)
      PROVE  MenuInv'
  <2>1. SelectedName \in Names
    BY <1>5, NameType DEF PanelInv, ListsInv
  <2>2. AgentActions(rows[selected].live) \in {AgentActions(TRUE), AgentActions(FALSE)} /\ 1 \in 1..Len(AgentActions(rows[selected].live))
    BY DEF AgentActions
  <2> QED BY <1>4, <1>5, <2>1, <2>2 DEF MenuInv, Menus, Menu, Targets
<1>6. ASSUME /\ SelectedTask # NoTask /\ TaskActions(SelectedTask) # <<>>
             /\ overlay' = Menu(TaskActions(SelectedTask), Target(SelectedTask.id, SelectedTask.version))
      PROVE  MenuInv'
  <2>1. SelectedTask \in Task
    BY <1>6, SelectedTaskType DEF PanelInv, ListsInv
  <2>2. TaskActions(SelectedTask) = TaskMenu
    BY <1>6 DEF TaskActions, TaskMenu
  <2>3. Target(SelectedTask.id, SelectedTask.version) \in Targets
    BY <2>1 DEF Target, Targets, Task
  <2>4. 1 \in 1..Len(TaskMenu)
    BY DEF TaskMenu
  <2> QED BY <1>6, <2>2, <2>3, <2>4 DEF MenuInv, Menus, Menu
<1>7. MenuInv'
  BY <1>5, <1>6 DEF OpenOverlay
<1> QED BY <1>1, <1>3, <1>7, KeyFrame, WorkStays DEF PanelInv

LEMMA OverlayMoveKeeps == ASSUME PanelInv, OverlayMove PROVE PanelInv'
<1>1. /\ UNCHANGED lists /\ UNCHANGED place /\ UNCHANGED work /\ Event
      /\ overlay # None /\ UNCHANGED <<help, form>>
  BY DEF OverlayMove, NoWork
<1>2. UNCHANGED <<pending, jobs>>
  BY <1>1 DEF work
<1>3. FormInv'
  BY <1>1, <1>2 DEF PanelInv, FormInv, Shut
<1>4. SelectedName' = SelectedName
  BY <1>1, KeyFrame
<1>5. PICK d \in {-1, 1} :
        overlay' = [overlay EXCEPT !.at = Most(1, Least(@ + d, Len(overlay.actions))), !.confirm = FALSE]
  BY DEF OverlayMove
<1>6. overlay \in Menus /\ overlay.at \in 1..Len(overlay.actions)
  BY <1>1 DEF PanelInv, MenuInv
<1>7. Len(overlay.actions) \in Nat \ {0}
  BY <1>6 DEF Menus, AgentActions, TaskMenu
<1>8. Most(1, Least(overlay.at + d, Len(overlay.actions))) \in 1..Len(overlay.actions)
  BY <1>5, <1>6, <1>7 DEF Most, Least
<1> DEFINE at == Most(1, Least(overlay.at + d, Len(overlay.actions)))
<1> HIDE DEF at
<1>9. /\ overlay' \in Menus /\ overlay'.at = at /\ overlay'.actions = overlay.actions
      /\ overlay'.lost = overlay.lost /\ overlay'.target = overlay.target
  <2>1. at \in Nat /\ overlay' = [overlay EXCEPT !.at = at, !.confirm = FALSE]
    BY <1>5, <1>7, <1>8 DEF at
  <2> QED BY <2>1, <1>6 DEF Menus
<1>10. MenuInv'
  BY <1>1, <1>4, <1>8, <1>9 DEF PanelInv, MenuInv, at
<1> QED BY <1>1, <1>3, <1>10, KeyFrame, WorkStays DEF PanelInv

LEMMA OverlayEscKeeps == ASSUME PanelInv, OverlayEsc \/ ActivateNothing PROVE PanelInv'
<1>1. /\ UNCHANGED lists /\ UNCHANGED place /\ UNCHANGED work /\ Event
      /\ overlay' = None /\ UNCHANGED <<help, form>>
  BY DEF OverlayEsc, ActivateNothing, NoWork
<1>2. UNCHANGED <<pending, jobs>>
  BY <1>1 DEF work
<1>3. FormInv'
  BY <1>1, <1>2 DEF PanelInv, FormInv, Shut
<1> QED BY <1>1, <1>3, KeyFrame, WorkStays, NoMenu DEF PanelInv

LEMMA AskConfirmKeeps == ASSUME PanelInv, AskConfirm PROVE PanelInv'
<1>1. /\ UNCHANGED lists /\ UNCHANGED place /\ UNCHANGED work /\ Event
      /\ overlay # None /\ UNCHANGED <<help, form>> /\ overlay' = [overlay EXCEPT !.confirm = TRUE]
  BY DEF AskConfirm, NoWork
<1>2. UNCHANGED <<pending, jobs>>
  BY <1>1 DEF work
<1>3. FormInv'
  BY <1>1, <1>2 DEF PanelInv, FormInv, Shut
<1>4. SelectedName' = SelectedName
  BY <1>1, KeyFrame
<1>5. overlay \in Menus
  BY <1>1 DEF PanelInv, MenuInv
<1>6. /\ overlay' \in Menus /\ overlay'.at = overlay.at /\ overlay'.actions = overlay.actions
      /\ overlay'.lost = overlay.lost /\ overlay'.target = overlay.target
  BY <1>1, <1>5 DEF Menus
<1>7. MenuInv'
  BY <1>1, <1>4, <1>6 DEF PanelInv, MenuInv
<1> QED BY <1>1, <1>3, <1>7, KeyFrame, WorkStays DEF PanelInv

\* Which menu an action is on.
LEMMA CurrentType ==
  ASSUME MenuInv, overlay # None
  PROVE  /\ overlay \in Menus
         /\ IsTaskAction(Current) => Current \in {"wake", "task_interrupt", "retry", "cancel"}
         /\ ~IsTaskAction(Current) => overlay.actions # TaskMenu
<1>1. overlay \in Menus /\ overlay.at \in 1..Len(overlay.actions)
  BY DEF MenuInv
<1>2. overlay.actions = TaskMenu => IsTaskAction(Current)
  <2> SUFFICES ASSUME overlay.actions = TaskMenu PROVE IsTaskAction(Current)
    OBVIOUS
  <2>1. overlay.at \in 1..4
    BY <1>1 DEF TaskMenu
  <2> QED BY <2>1 DEF IsTaskAction, Current, TaskMenu
<1> QED BY <1>1, <1>2 DEF IsTaskAction

LEMMA ActivateTaskKeeps == ASSUME PanelInv, ActivateTask PROVE PanelInv'
<1>1. /\ UNCHANGED lists /\ UNCHANGED place /\ Event
      /\ overlay # None /\ overlay' = None /\ UNCHANGED <<help, form>>
      /\ IsTaskAction(Current) /\ asks < MaxAsks /\ asks' = asks + 1
      /\ UNCHANGED <<jobs, forced, last>>
      /\ pending' = [pending EXCEPT !.action = [act |-> Current, task |-> overlay.target, shown |-> overlay.target]]
  BY DEF ActivateTask, Ask, TaskOf
<1>2. overlay.target \in Targets /\ Current \in {"wake", "task_interrupt", "retry", "cancel"}
  BY <1>1, CurrentType DEF PanelInv, Menus
<1> DEFINE new == [act |-> Current, task |-> overlay.target, shown |-> overlay.target]
<1>3. new \in Actions /\ new.task = new.shown
  BY <1>2 DEF Actions
<1> HIDE DEF new
<1>4. pending \in Pendings /\ pending' = [pending EXCEPT !.action = new]
  BY <1>1 DEF new, PanelInv, WorkInv
<1>5. /\ pending' \in Pendings /\ pending'.action = new /\ pending'.lifecycle = pending.lifecycle
      /\ pending'.create = pending.create /\ pending'.message = pending.message
  BY <1>3, <1>4 DEF Pendings
<1>6. asks' \in 0..MaxAsks
  BY <1>1, TuiLoopAssumption DEF PanelInv, WorkInv
<1>7. WorkInv'
  BY <1>1, <1>3, <1>5, <1>6, LastStays DEF PanelInv, WorkInv
<1>8. FormInv'
  BY <1>1, <1>5 DEF PanelInv, FormInv, Shut
<1> QED BY <1>1, <1>7, <1>8, KeyFrame, NoMenu DEF PanelInv

LEMMA ActivateLifecycleKeeps == ASSUME PanelInv, ActivateLifecycle PROVE PanelInv'
<1>1. /\ UNCHANGED lists /\ UNCHANGED place /\ Event
      /\ overlay # None /\ overlay' = None /\ UNCHANGED <<help, form>>
      /\ Current \in {"restart", "stop"} /\ SelectedName # NoName /\ asks < MaxAsks /\ asks' = asks + 1
      /\ UNCHANGED <<jobs, forced, last>>
      /\ pending' = [pending EXCEPT !.lifecycle =
                       [act |-> Current, name |-> SelectedName, shown |-> overlay.target, lost |-> overlay.lost]]
  BY DEF ActivateLifecycle, Ask, ActsOn
<1>2. overlay \in Menus /\ overlay.actions # TaskMenu
  BY <1>1, CurrentType DEF PanelInv, IsTaskAction
<1>3. SelectedName \in Names
  BY <1>1, NameType DEF PanelInv, ListsInv
<1> DEFINE new == [act |-> Current, name |-> SelectedName, shown |-> overlay.target, lost |-> overlay.lost]
<1>4. new \in Lifecycles
  BY <1>1, <1>2, <1>3 DEF Lifecycles, Menus
<1>5. new.name # new.shown => new.lost
  BY <1>1, <1>2 DEF PanelInv, MenuInv, Menus
<1> HIDE DEF new
<1>6. pending \in Pendings /\ pending' = [pending EXCEPT !.lifecycle = new]
  BY <1>1 DEF new, PanelInv, WorkInv
<1>7. /\ pending' \in Pendings /\ pending'.lifecycle = new /\ pending'.action = pending.action
      /\ pending'.create = pending.create /\ pending'.message = pending.message
  BY <1>4, <1>6 DEF Pendings
<1>8. asks' \in 0..MaxAsks
  BY <1>1, TuiLoopAssumption DEF PanelInv, WorkInv
<1>9. WorkInv'
  BY <1>1, <1>5, <1>7, <1>8, LastStays DEF PanelInv, WorkInv
<1>10. FormInv'
  BY <1>1, <1>7 DEF PanelInv, FormInv, Shut
<1> QED BY <1>1, <1>9, <1>10, KeyFrame, NoMenu DEF PanelInv

LEMMA InterruptKeeps == ASSUME PanelInv, Interrupt PROVE PanelInv'
<1>1. /\ UNCHANGED lists /\ UNCHANGED place /\ Event /\ UNCHANGED <<help, form>>
      /\ overlay # None /\ Current = "interrupt" /\ UNCHANGED <<pending, jobs, forced, asks>>
  BY DEF Interrupt
<1>2. CASE UNCHANGED <<overlay, last>>
  <2>1. UNCHANGED work
    BY <1>1, <1>2 DEF work
  <2>2. UNCHANGED overlay /\ UNCHANGED <<help, overlay, form>> /\ UNCHANGED <<pending, jobs>>
    BY <1>1, <1>2
  <2> QED BY <1>1, <2>1, <2>2, KeyFrame, MenuStays, WorkStays, FormStays DEF PanelInv
<1>3. CASE /\ overlay' = None
           /\ last' = [act |-> "interrupt", hit |-> SelectedName, shown |-> overlay.target, lost |-> overlay.lost]
  <2>1. overlay \in Menus /\ overlay.actions # TaskMenu
    BY <1>1, CurrentType DEF PanelInv, IsTaskAction
  <2>2. TaskHitsTheShown' /\ OnlyTheVanishedIsMissed'
    BY <1>1, <1>3, <2>1 DEF PanelInv, MenuInv, Menus, TaskHitsTheShown, OnlyTheVanishedIsMissed, IsTaskAction
  <2>3. WorkInv'
    BY <1>1, <2>2 DEF PanelInv, WorkInv
  <2>4. FormInv'
    BY <1>1, <1>3 DEF PanelInv, FormInv, Shut
  <2> QED BY <1>1, <1>3, <2>3, <2>4, KeyFrame, NoMenu DEF PanelInv
<1> QED BY <1>2, <1>3 DEF Interrupt

-----------------------------------------------------------------------------
(* Forms *)

LEMMA OpenFormKeeps == ASSUME PanelInv, OpenForm PROVE PanelInv'
<1>1. /\ UNCHANGED lists /\ UNCHANGED place /\ Event /\ Browsing /\ UNCHANGED <<help, overlay>>
      /\ UNCHANGED <<jobs, forced, asks, last>>
      /\ pending' = [pending EXCEPT !.create = None, !.message = FALSE]
      /\ form' = MessageForm \/ form' = CreateForm(DefaultAssignee)
  BY DEF OpenForm
<1>2. form' \in Forms /\ ~form'.submitting
  <2>1. DefaultAssignee \in Names \union {NoName}
    BY DefaultAssigneeType DEF PanelInv, ListsInv
  <2> HIDE DEF Names
  <2>2. CreateForm(DefaultAssignee) \in Forms /\ ~CreateForm(DefaultAssignee).submitting
    BY <2>1 DEF Forms, CreateForm
  <2>3. MessageForm \in Forms /\ ~MessageForm.submitting
    BY DEF Forms, MessageForm
  <2> QED BY <1>1, <2>2, <2>3
<1>3. /\ pending' \in Pendings /\ pending'.lifecycle = pending.lifecycle /\ pending'.action = pending.action
      /\ pending'.create = None /\ pending'.message = FALSE
  BY <1>1 DEF PanelInv, WorkInv, Pendings
<1>4. WorkInv'
  BY <1>1, <1>3, LastStays DEF PanelInv, WorkInv
<1>5. form = None /\ ~help /\ overlay = None /\ jobs.message = None
  BY <1>1 DEF PanelInv, FormInv, Browsing, Shut
<1>6. FormInv'
  BY <1>1, <1>2, <1>3, <1>5 DEF PanelInv, FormInv, Shut
<1> QED BY <1>1, <1>4, <1>6, KeyFrame, MenuStays DEF PanelInv

LEMMA TypeKeeps == ASSUME PanelInv, Type PROVE PanelInv'
<1>1. /\ UNCHANGED lists /\ UNCHANGED place /\ Event /\ Editing /\ UNCHANGED <<help, overlay>> /\ UNCHANGED work
      /\ \/ form' = [form EXCEPT !.text = ~@]
         \/ \E a \in Names \union {NoName} : form' = [form EXCEPT !.assignee = a]
  BY DEF Type, NoWork
<1>2. form \in Forms /\ ~form.submitting /\ form # None
  BY <1>1 DEF PanelInv, FormInv, Editing
<1>3. form' \in Forms /\ ~form'.submitting
  BY <1>1, <1>2 DEF Forms
<1>4. UNCHANGED <<pending, jobs>>
  BY <1>1 DEF work
<1>5. FormInv'
  BY <1>1, <1>2, <1>3, <1>4 DEF PanelInv, FormInv, Shut
<1> QED BY <1>1, <1>5, KeyFrame, MenuStays, WorkStays DEF PanelInv

LEMMA FormEscKeeps == ASSUME PanelInv, FormEsc PROVE PanelInv'
<1>1. /\ UNCHANGED lists /\ UNCHANGED place /\ Event /\ Editing /\ UNCHANGED <<help, overlay>>
      /\ UNCHANGED <<jobs, forced, asks, last>> /\ form' = None
      /\ pending' = [pending EXCEPT !.create = None, !.message = FALSE]
  BY DEF FormEsc
<1>3. /\ pending' \in Pendings /\ pending'.lifecycle = pending.lifecycle /\ pending'.action = pending.action
      /\ pending'.create = None /\ pending'.message = FALSE
  BY <1>1 DEF PanelInv, WorkInv, Pendings
<1>4. WorkInv'
  BY <1>1, <1>3, LastStays DEF PanelInv, WorkInv
<1>5. jobs.message = None
  BY <1>1 DEF PanelInv, FormInv, Editing, Shut
<1>6. FormInv'
  BY <1>1, <1>3, <1>5 DEF PanelInv, FormInv, Shut
<1> QED BY <1>1, <1>4, <1>6, KeyFrame, MenuStays DEF PanelInv

LEMMA SubmitKeeps == ASSUME PanelInv, Submit PROVE PanelInv'
<1>1. /\ UNCHANGED lists /\ UNCHANGED place /\ Event /\ Editing /\ Valid /\ UNCHANGED <<help, overlay>>
      /\ UNCHANGED <<jobs, forced, last>> /\ form' = [form EXCEPT !.submitting = TRUE]
      /\ asks < MaxAsks /\ asks' = asks + 1
      /\ pending' = IF form.kind = "create" THEN [pending EXCEPT !.create = form.assignee]
                    ELSE [pending EXCEPT !.message = TRUE]
  BY DEF Submit, Ask
<1>2. form \in Forms /\ ~form.submitting /\ form # None
  BY <1>1 DEF PanelInv, FormInv, Editing
<1>3. form' \in Forms /\ form'.submitting /\ form'.kind = form.kind /\ form' # None
  BY <1>1, <1>2, TuiLoopAssumption DEF Forms
<1>4. pending.create = None /\ ~pending.message /\ jobs.message = None
  BY <1>2 DEF PanelInv, FormInv, Shut
<1>5. form.kind = "create" => form.assignee \in Names /\ form.assignee # None
  BY <1>1, <1>2, TuiLoopAssumption DEF Valid, Forms
<1>6. /\ pending' \in Pendings /\ pending'.lifecycle = pending.lifecycle /\ pending'.action = pending.action
      /\ form.kind = "create" => pending'.create # None /\ pending'.message = pending.message
      /\ form.kind # "create" => pending'.create = pending.create /\ pending'.message = TRUE
  BY <1>1, <1>5 DEF PanelInv, WorkInv, Pendings
<1>7. asks' \in 0..MaxAsks
  BY <1>1, TuiLoopAssumption DEF PanelInv, WorkInv
<1>8. WorkInv'
  BY <1>1, <1>6, <1>7, LastStays DEF PanelInv, WorkInv
<1>9. form.kind \in {"create", "message"}
  BY <1>2 DEF Forms
<1>10. FormInv'
  BY <1>1, <1>2, <1>3, <1>4, <1>6, <1>9 DEF PanelInv, FormInv, Shut
<1> QED BY <1>1, <1>8, <1>10, KeyFrame, MenuStays DEF PanelInv

-----------------------------------------------------------------------------
(* The keys that move in the lists *)

LEMMA MoveSelectionFits ==
  ASSUME AgentsInv, NEW d, MoveSelection(d)
  PROVE  AgentsInv'
<1> DEFINE all == Selectable(rows)
           up == {i \in all : i < selected}
           dn == {i \in all : i > selected}
           rest == all \ {Min(all)}
<1>1. all \in SUBSET Nat /\ IsFiniteSet(all) /\ Cardinality(all) \in Nat
  BY SelectableType DEF AgentsInv
<1>2. up \in SUBSET all /\ IsFiniteSet(up)
  BY <1>1, FS_Subset
<1>3. up # {} => Max(up) \in up
  BY <1>1, <1>2, MaxIsGreatest
<1>4. dn # {} => Min(dn) \in dn
  BY <1>1, MinIsLeast
<1>5. selected' \in Nat /\ (all # {} => selected' \in all) /\ rows' = rows
  <2>1. rows' = rows /\ selected \in Nat /\ (all # {} => selected \in all)
    BY DEF MoveSelection, AgentsInv
  <2>2. CASE all = {}
    BY <2>1, <2>2 DEF MoveSelection
  <2>3. CASE all # {}
    <3>1. selected' = IF d < 0 THEN (IF up = {} THEN selected ELSE Max(up)) ELSE (IF dn = {} THEN selected ELSE Min(dn))
      BY <2>1, <2>3 DEF MoveSelection
    <3> HIDE DEF all
    <3> QED BY <2>1, <2>3, <3>1, <1>1, <1>3, <1>4
  <2> QED BY <2>2, <2>3
<1> QED BY <1>5 DEF AgentsInv, Selectable

LEMMA ScrollFits ==
  ASSUME MessagesInv, NEW d \in {-1, 1}, ScrollMessages(d), history \in Nat, UNCHANGED history
  PROVE  MessagesInv'
<1>1. shown' = shown /\ Shown(shown) \in Int
  BY DEF ScrollMessages, MessagesInv, Shown
<1> DEFINE n == Shown(shown)
<1>2. /\ message_cursor' = IF n = 0 THEN 0 ELSE Most(0, Least(message_cursor + d, n - 1))
      /\ follow' = (n = 0 \/ message_cursor' + 1 = n)
  BY DEF ScrollMessages
<1>3. Shown(shown)' = n
  BY <1>1 DEF Shown
<1> HIDE DEF n
<1>4. message_cursor \in Nat /\ n \in Int
  BY <1>1 DEF MessagesInv, n
<1>5. /\ message_cursor' \in Nat /\ message_cursor' <= Most(n - 1, 0) /\ follow' \in BOOLEAN
      /\ follow' => message_cursor' = Most(n - 1, 0)
  <2>1. follow' \in BOOLEAN /\ (follow' => (n = 0 \/ message_cursor' + 1 = n))
    BY <1>2
  <2>2. message_cursor' = IF n = 0 THEN 0 ELSE Most(0, Least(message_cursor + d, n - 1))
    BY <1>2
  <2>3. message_cursor' \in Nat /\ message_cursor' <= Most(n - 1, 0)
    BY <2>2, <1>4 DEF Most, Least
  <2>4. n = 0 \/ message_cursor' + 1 = n => message_cursor' = Most(n - 1, 0)
    BY <2>2, <2>3, <1>4 DEF Most, Least
  <2> QED BY <2>1, <2>3, <2>4
<1> QED BY <1>1, <1>3, <1>5 DEF MessagesInv

LEMMA ListEventKeeps == ASSUME PanelInv, ListEvent PROVE PanelInv'
<1>1. /\ UNCHANGED place /\ UNCHANGED modal /\ UNCHANGED work /\ Event /\ overlay = None
  BY DEF ListEvent, NoWork
<1>2. UNCHANGED <<help, overlay, form>> /\ UNCHANGED <<pending, jobs>> /\ UNCHANGED <<tree, sessions, disk, history, usage>>
      /\ UNCHANGED <<view, focus, pinned>> /\ overlay' = None
  BY <1>1 DEF modal, work, Event, world, place
<1>3. WorldInv' /\ PhaseInv' /\ FormInv' /\ WorkInv' /\ MenuInv'
  BY <1>1, <1>2, GoOnPhase, FormStays, WorkStays, NoMenu DEF Event, PanelInv, WorldInv
<1>4. PICK d \in {-1, 1} : MoveSelection(d) \/ MoveTaskSelection(d) \/ ScrollMessages(d) \/ ScrollTokens(d)
  BY DEF ListEvent
<1>5. PlaceInv'
  BY <1>2, PlaceStays DEF PanelInv, ListsInv
<1>6. UNCHANGED agents => AgentsInv'
  BY AgentsStay DEF PanelInv, ListsInv
<1>7. UNCHANGED tasklist => TasksInv'
  BY TasksStay DEF PanelInv, ListsInv
<1>8. UNCHANGED messages => MessagesInv'
  BY <1>2, MessagesStay DEF PanelInv, ListsInv, WorldInv
<1>9. UNCHANGED tokenlist => TokensInv'
  BY TokensStay DEF PanelInv, ListsInv
<1>10. ASSUME MoveSelection(d) PROVE ListsInv'
  <2>1. UNCHANGED tasklist /\ UNCHANGED messages /\ UNCHANGED tokenlist
    BY <1>10 DEF MoveSelection
  <2> QED BY <1>10, <2>1, <1>5, <1>7, <1>8, <1>9, MoveSelectionFits DEF PanelInv, ListsInv
<1>11. ASSUME MoveTaskSelection(d) PROVE ListsInv'
  <2>1. /\ UNCHANGED agents /\ UNCHANGED <<tasks, filter>> /\ UNCHANGED messages /\ UNCHANGED tokenlist
        /\ task_cursor' = ClampTo(Most(task_cursor + d, 0), Len(Filtered))
    BY <1>11 DEF MoveTaskSelection
  <2>2. Len(Filtered) \in Nat /\ Most(task_cursor + d, 0) \in Nat
    BY FilteredType DEF PanelInv, ListsInv, TasksInv, Filtered, Most
  <2>3. Filtered' = Filtered
    BY <2>1 DEF Filtered
  <2>4. TasksInv'
    BY <2>1, <2>2, <2>3, ClampFits DEF PanelInv, ListsInv, TasksInv
  <2> QED BY <2>1, <2>4, <1>5, <1>6, <1>8, <1>9 DEF ListsInv
<1>12. ASSUME ScrollMessages(d) PROVE ListsInv'
  <2>1. UNCHANGED agents /\ UNCHANGED tasklist /\ UNCHANGED tokenlist
    BY <1>12 DEF ScrollMessages
  <2>2. MessagesInv'
    BY <1>12, <1>2, ScrollFits DEF PanelInv, ListsInv, WorldInv
  <2> QED BY <2>1, <2>2, <1>5, <1>6, <1>7, <1>9 DEF ListsInv
<1>13. ASSUME ScrollTokens(d) PROVE ListsInv'
  <2>1. /\ UNCHANGED agents /\ UNCHANGED tasklist /\ UNCHANGED messages /\ tokens' = tokens
        /\ token_cursor' = ClampTo(Most(token_cursor + d, 0), tokens)
    BY <1>13 DEF ScrollTokens
  <2>2. tokens \in Nat /\ Most(token_cursor + d, 0) \in Nat
    BY DEF PanelInv, ListsInv, TokensInv, Most
  <2>3. TokensInv'
    BY <2>1, <2>2, ClampFits DEF TokensInv
  <2> QED BY <2>1, <2>3, <1>5, <1>6, <1>7, <1>8 DEF ListsInv
<1> QED BY <1>3, <1>4, <1>10, <1>11, <1>12, <1>13 DEF PanelInv

LEMMA MessageEndsKeeps == ASSUME PanelInv, MessageEnds PROVE PanelInv'
<1>1. /\ UNCHANGED place /\ UNCHANGED modal /\ UNCHANGED work /\ Event /\ overlay = None
      /\ UNCHANGED shown /\ UNCHANGED agents /\ UNCHANGED tasklist /\ UNCHANGED tokenlist
      /\ \/ follow' = TRUE /\ message_cursor' = Most(Shown(shown) - 1, 0)
         \/ follow' = FALSE /\ message_cursor' = 0
  BY DEF MessageEnds, NoWork, Browsing, MessagesToHead, MessagesToTail
<1>2. UNCHANGED <<help, overlay, form>> /\ UNCHANGED <<pending, jobs>> /\ UNCHANGED <<tree, sessions, disk, history, usage>>
      /\ UNCHANGED <<view, pinned>> /\ overlay' = None
  BY <1>1 DEF modal, work, Event, world, place
<1>3. WorldInv' /\ PhaseInv' /\ FormInv' /\ WorkInv' /\ MenuInv'
  BY <1>1, <1>2, GoOnPhase, FormStays, WorkStays, NoMenu DEF Event, PanelInv, WorldInv
<1>4. Shown(shown)' = Shown(shown) /\ Shown(shown) \in Int
  BY <1>1 DEF Shown, PanelInv, ListsInv, MessagesInv
<1>5. MessagesInv'
  <2> DEFINE m == Most(Shown(shown) - 1, 0)
  <2>1. m \in Nat /\ (Most(Shown(shown) - 1, 0))' = m
    BY <1>4 DEF Most
  <2>2. \/ follow' = TRUE /\ message_cursor' = m
        \/ follow' = FALSE /\ message_cursor' = 0
    BY <1>1
  <2> HIDE DEF m
  <2>3. message_cursor' \in Nat /\ message_cursor' <= m /\ follow' \in BOOLEAN /\ (follow' => message_cursor' = m)
    <3>1. m <= m /\ 0 <= m
      BY <2>1
    <3>2. CASE follow' = TRUE /\ message_cursor' = m
      BY <3>1, <3>2, <2>1
    <3>3. CASE follow' = FALSE /\ message_cursor' = 0
      BY <3>1, <3>3
    <3> QED BY <2>2, <3>2, <3>3
  <2>4. shown' \in Nat \X Nat /\ shown'[2] <= history' /\ Shown(shown)' >= 0
    BY <1>1, <1>2, <1>4 DEF PanelInv, ListsInv, MessagesInv
  <2> QED BY <2>1, <2>3, <2>4 DEF MessagesInv
<1> QED BY <1>1, <1>2, <1>3, <1>5, AgentsStay, TasksStay, TokensStay, PlaceStays DEF PanelInv, ListsInv

LEMMA FocusKeyKeeps == ASSUME PanelInv, FocusKey PROVE PanelInv'
<1>1. /\ UNCHANGED lists /\ UNCHANGED <<view, pinned>> /\ UNCHANGED modal /\ UNCHANGED work /\ Event
  BY DEF FocusKey, NoWork
<1>2. UNCHANGED <<help, overlay, form>> /\ UNCHANGED <<pending, jobs>> /\ UNCHANGED <<tree, sessions, disk, history, usage>>
      /\ UNCHANGED <<rows, selected>>
  BY <1>1 DEF modal, work, Event, world, lists, agents
<1>3. WorldInv' /\ PhaseInv' /\ FormInv' /\ WorkInv' /\ MenuInv'
  BY <1>1, <1>2, GoOnPhase, FormStays, WorkStays, MenuStays DEF Event, PanelInv, WorldInv
<1>4. ListsInv'
  BY <1>1, <1>2, ListsStay DEF PanelInv, WorldInv
<1> QED BY <1>3, <1>4 DEF PanelInv

LEMMA TabKeyKeeps == ASSUME PanelInv, TabKey PROVE PanelInv'
<1>1. PICK v \in (ToSet(Tabs) \intersect scene) \ {view} : ShowTab(v)
  BY DEF TabKey
<1>2. /\ UNCHANGED modal /\ UNCHANGED work /\ Event
      /\ view' = v /\ UNCHANGED <<focus, pinned>> /\ UNCHANGED agents /\ UNCHANGED <<tasks, filter>> /\ UNCHANGED messages
      /\ tokens' = tokens
      /\ task_cursor' = ClampTo(task_cursor, Len(Filtered)) /\ token_cursor' = ClampTo(token_cursor, tokens)
  BY <1>1 DEF TabKey, NoWork, ShowTab
<1>3. UNCHANGED <<help, overlay, form>> /\ UNCHANGED <<pending, jobs>> /\ UNCHANGED <<tree, sessions, disk, history, usage>>
      /\ UNCHANGED <<rows, selected>>
  BY <1>2 DEF modal, work, Event, world, agents
<1>4. WorldInv' /\ PhaseInv' /\ FormInv' /\ WorkInv' /\ MenuInv'
  BY <1>2, <1>3, GoOnPhase, FormStays, WorkStays, MenuStays DEF Event, PanelInv, WorldInv
<1>5. PlaceInv'
  <2>1. v \in {"agents", "messages", "tasks", "tokens", "stream"} /\ (v = "stream" => pinned # NoName)
    BY <1>1 DEF Tabs, ToSet
  <2> QED BY <2>1, <1>2 DEF PlaceInv
<1>6. TasksInv'
  <2>1. Len(Filtered) \in Nat /\ Filtered' = Filtered
    BY <1>2, FilteredType DEF PanelInv, ListsInv, TasksInv, Filtered
  <2> QED BY <1>2, <2>1, ClampFits DEF PanelInv, ListsInv, TasksInv
<1>7. TokensInv'
  BY <1>2, ClampFits DEF PanelInv, ListsInv, TokensInv
<1>8. ListsInv'
  BY <1>2, <1>3, <1>5, <1>6, <1>7, AgentsStay, MessagesStay DEF PanelInv, ListsInv, WorldInv
<1> QED BY <1>4, <1>8 DEF PanelInv

LEMMA FilterKeyKeeps == ASSUME PanelInv, FilterKey PROVE PanelInv'
<1>1. /\ UNCHANGED modal /\ UNCHANGED work /\ Event /\ UNCHANGED place
      /\ UNCHANGED agents /\ UNCHANGED tasks /\ UNCHANGED messages /\ UNCHANGED tokenlist
      /\ task_cursor' = ClampTo(task_cursor, Len(FilterTasks(tasks, filter')))
  BY DEF FilterKey, NoWork, CycleTaskFilter
<1>2. UNCHANGED <<help, overlay, form>> /\ UNCHANGED <<pending, jobs>> /\ UNCHANGED <<tree, sessions, disk, history, usage>>
      /\ UNCHANGED <<rows, selected>> /\ UNCHANGED <<view, pinned>>
  BY <1>1 DEF modal, work, Event, world, agents, place
<1>3. WorldInv' /\ PhaseInv' /\ FormInv' /\ WorkInv' /\ MenuInv'
  BY <1>1, <1>2, GoOnPhase, FormStays, WorkStays, MenuStays DEF Event, PanelInv, WorldInv
<1>4. TasksInv'
  <2>1. Len(FilterTasks(tasks, filter')) \in Nat /\ Filtered' = FilterTasks(tasks, filter')
    BY <1>1, FilteredType DEF PanelInv, ListsInv, TasksInv, Filtered
  <2> QED BY <1>1, <2>1, ClampFits DEF PanelInv, ListsInv, TasksInv
<1>5. ListsInv'
  BY <1>1, <1>2, <1>4, AgentsStay, MessagesStay, TokensStay, PlaceStays DEF PanelInv, ListsInv, WorldInv
<1> QED BY <1>3, <1>5 DEF PanelInv

LEMMA SwitchKeeps == ASSUME PanelInv, Switch PROVE PanelInv'
<1>1. /\ UNCHANGED lists /\ UNCHANGED work /\ Event /\ UNCHANGED <<help, form>> /\ overlay' = None /\ SelectedName # NoName
      /\ view' \in {"stream", "tasks", "messages"} /\ (view' = "stream" => pinned' = SelectedName)
  BY DEF Switch, NoWork
<1>2. UNCHANGED <<pending, jobs>> /\ UNCHANGED <<tree, sessions, disk, history, usage>>
  BY <1>1 DEF work, Event, world
<1>3. FormInv'
  BY <1>1, <1>2 DEF PanelInv, FormInv, Shut
<1>4. WorldInv' /\ PhaseInv' /\ WorkInv' /\ MenuInv'
  BY <1>1, <1>2, GoOnPhase, WorkStays, NoMenu DEF Event, PanelInv, WorldInv
<1>5. PlaceInv'
  BY <1>1 DEF PlaceInv
<1>6. UNCHANGED agents /\ UNCHANGED tasklist /\ UNCHANGED messages /\ UNCHANGED tokenlist
  BY <1>1 DEF lists
<1>7. ListsInv'
  BY <1>2, <1>5, <1>6, AgentsStay, TasksStay, MessagesStay, TokensStay DEF PanelInv, ListsInv, WorldInv
<1> QED BY <1>3, <1>4, <1>7 DEF PanelInv

-----------------------------------------------------------------------------
(* Refreshes *)

\* The selected message stays the selected one while the buffer begins where it did.
LEMMA MessagesFit ==
  ASSUME MessagesInv, history \in Nat, UNCHANGED history, RefreshMessages
  PROVE  /\ MessagesInv'
         /\ ~follow /\ shown'[1] = shown[1] => shown'[1] + message_cursor' = SelectedMessage
<1> DEFINE n == Shown(shown')
           c == message_cursor
<1>1. /\ shown' \in Nat \X Nat /\ shown'[2] <= history
      /\ shown'[1] = shown[1] => Shown(shown') >= Shown(shown)
      /\ Shown(shown') \in Int /\ Shown(shown) \in Int
  <2>1. shown' = <<Most(1, history - Buffer + 1), history>> \/ shown' = shown
    BY DEF RefreshMessages
  <2>2. Most(1, history - Buffer + 1) \in Nat
    BY TuiListsAssumption DEF Most
  <2> QED BY <2>1, <2>2 DEF MessagesInv, Shown
<1>2. /\ message_cursor' = IF n = 0 THEN 0 ELSE IF follow THEN n - 1 ELSE Least(c, n - 1)
      /\ follow' = (follow \/ n = 0)
  BY DEF RefreshMessages
<1>3. n >= 0 /\ Shown(shown) >= 0
  <2>1. Shown(shown) >= 0
    BY DEF MessagesInv
  <2>2. Shown(<<Most(1, history - Buffer + 1), history>>) >= 0
    BY TuiListsAssumption DEF Shown, Most
  <2> QED BY <2>1, <2>2 DEF RefreshMessages
<1>4. /\ c \in Nat /\ follow \in BOOLEAN /\ c <= Most(Shown(shown) - 1, 0)
      /\ follow => c = Most(Shown(shown) - 1, 0)
  BY DEF MessagesInv
<1> HIDE DEF n, c
<1>5. n \in Nat
  BY <1>1, <1>3 DEF n
<1>6. message_cursor' \in Nat /\ message_cursor' <= Most(n - 1, 0)
  BY <1>2, <1>4, <1>5 DEF Most, Least
<1>7. follow' \in BOOLEAN /\ (follow' => follow \/ n = 0)
  BY <1>2
<1>8. follow \/ n = 0 => message_cursor' = Most(n - 1, 0)
  BY <1>2, <1>5 DEF Most
<1>9. MessagesInv'
  BY <1>1, <1>3, <1>6, <1>7, <1>8 DEF MessagesInv, n
<1>10. ~follow /\ shown'[1] = shown[1] => message_cursor' = c
  <2> SUFFICES ASSUME ~follow, n >= Shown(shown) PROVE message_cursor' = c
    BY <1>1 DEF n
  <2> DEFINE m == Shown(shown)
  <2>1. m \in Nat /\ n >= m /\ c <= Most(m - 1, 0)
    BY <1>1, <1>3, <1>4
  <2> HIDE DEF m
  <2> QED BY <1>2, <1>4, <1>5, <2>1 DEF Most, Least
<1> QED BY <1>9, <1>10 DEF SelectedMessage, c

LEMMA TasksFit ==
  ASSUME TasksInv, disk \in Disks, RefreshTasks
  PROVE  TasksInv'
<1>1. tasks' \in Seq(Task)
  BY SnapshotType DEF RefreshTasks
<1>2. Len(FilterTasks(tasks', filter)) \in Nat /\ Filtered' = FilterTasks(tasks', filter)
  BY <1>1, FilteredType DEF RefreshTasks, Filtered
<1> QED BY <1>1, <1>2, ClampFits DEF RefreshTasks, TasksInv

LEMMA AgentsFit ==
  ASSUME AgentsInv, tree \in Trees, RefreshAgents
  PROVE  /\ AgentsInv'
         /\ SelectedName # NoName /\ Listed(rows', SelectedName) => NameAt(rows', selected') = SelectedName
<1>1. rows' \in Seq(RowSet) /\ selected' = Reselect(rows')
  BY BuildType DEF RefreshAgents
<1>2. /\ Reselect(rows') \in Nat
      /\ Selectable(rows') # {} => Reselect(rows') \in Selectable(rows')
      /\ SelectedName # NoName /\ Listed(rows', SelectedName) => NameAt(rows', Reselect(rows')) = SelectedName
  BY <1>1, ReselectFinds DEF AgentsInv
<1> QED BY <1>1, <1>2 DEF AgentsInv, Selectable

LEMMA RefreshKeeps == ASSUME PanelInv, Refresh PROVE PanelInv'
<1>1. /\ phase' = "input" /\ forced' = FALSE
      /\ RefreshAgents /\ RefreshMessages /\ RefreshTasks /\ RefreshUsage /\ UNCHANGED place
      /\ UNCHANGED world /\ UNCHANGED <<help, form>> /\ UNCHANGED <<pending, jobs>> /\ UNCHANGED <<asks, last>>
      /\ overlay' = IF overlay = None THEN None ELSE [overlay EXCEPT !.lost = @ \/ ~Listed(rows', overlay.target)]
  BY DEF Refresh, RefreshAll
<1>2. UNCHANGED <<tree, sessions, disk, history, usage>> /\ UNCHANGED <<view, pinned>>
  BY <1>1 DEF world, place
<1>3. WorldInv' /\ PhaseInv'
  BY <1>1, <1>2 DEF PanelInv, WorldInv, PhaseInv
<1>4. WorkInv'
  BY <1>1, LastStays DEF PanelInv, WorkInv
<1>5. TokensInv'
  <2>1. CASE tokens' = usage /\ token_cursor' = ClampTo(token_cursor, usage)
    BY <2>1, ClampFits DEF PanelInv, WorldInv, ListsInv, TokensInv
  <2>2. CASE UNCHANGED tokenlist
    BY <2>2, TokensStay DEF PanelInv, ListsInv
  <2> QED BY <1>1, <2>1, <2>2 DEF RefreshUsage
<1>6. ListsInv'
  BY <1>1, <1>2, <1>5, MessagesFit, TasksFit, AgentsFit, PlaceStays DEF PanelInv, ListsInv, WorldInv
<1>7. CASE overlay = None
  BY <1>1, <1>3, <1>4, <1>6, <1>7, FormStays, NoMenu DEF PanelInv
<1>8. CASE overlay # None
  <2>1. overlay \in Menus /\ overlay' = [overlay EXCEPT !.lost = @ \/ ~Listed(rows', overlay.target)]
    BY <1>1, <1>8 DEF PanelInv, MenuInv
  <2> DEFINE gone == overlay.lost \/ ~Listed(rows', overlay.target)
  <2>2. gone \in BOOLEAN /\ (~gone => ~overlay.lost /\ Listed(rows', overlay.target))
    OBVIOUS
  <2> HIDE DEF gone
  <2>3. /\ overlay' \in Menus /\ overlay'.lost = gone /\ overlay'.actions = overlay.actions
        /\ overlay'.at = overlay.at /\ overlay'.target = overlay.target
    BY <2>1, <2>2 DEF Menus, gone
  <2>4. ASSUME overlay.actions # TaskMenu, ~gone PROVE SelectedName' = overlay.target
    <3>1. SelectedName = overlay.target /\ Listed(rows', SelectedName)
      BY <1>8, <2>2, <2>4 DEF PanelInv, MenuInv
    <3>2. SelectedName # NoName
      <4>1. rows' \in Seq(RowSet)
        BY <1>6 DEF ListsInv, AgentsInv
      <4> QED BY <3>1, <4>1, SelectableType, TuiListsAssumption DEF Listed, Names
    <3> QED BY <1>1, <3>1, <3>2, AgentsFit DEF PanelInv, ListsInv, WorldInv, SelectedName
  <2>5. MenuInv'
    BY <1>8, <2>3, <2>4 DEF PanelInv, MenuInv
  <2>6. FormInv'
    BY <1>1, <1>8 DEF PanelInv, FormInv, Shut
  <2> QED BY <1>3, <1>4, <1>6, <2>5, <2>6 DEF PanelInv
<1> QED BY <1>7, <1>8

-----------------------------------------------------------------------------
(* What the keys asked for *)

LEMMA DrainLifecycleKeeps == ASSUME PanelInv, DrainLifecycle PROVE PanelInv'
<1>1. /\ phase = "lifecycle" /\ pending' = [pending EXCEPT !.lifecycle = None] /\ GoOn(2)
      /\ UNCHANGED <<tree, disk, history, usage>> /\ UNCHANGED lists /\ UNCHANGED place /\ UNCHANGED modal
      /\ UNCHANGED jobs /\ UNCHANGED <<forced, asks>>
  BY DEF DrainLifecycle
<1>2. /\ UNCHANGED <<help, overlay, form>> /\ UNCHANGED <<rows, selected>> /\ UNCHANGED <<view, pinned>>
  BY <1>1 DEF modal, lists, agents, place
<1>3. /\ pending' \in Pendings /\ pending'.lifecycle = None /\ pending'.action = pending.action
      /\ pending'.create = pending.create /\ pending'.message = pending.message
  BY <1>1 DEF PanelInv, WorkInv, Pendings
<1>4. WorldInv' /\ PhaseInv' /\ MenuInv' /\ ListsInv'
  BY <1>1, <1>2, GoOnPhase, MenuStays, ListsStay DEF PanelInv, WorldInv
<1>5. FormInv'
  BY <1>1, <1>2, <1>3 DEF PanelInv, FormInv, Shut
<1>6. pending.lifecycle \in Lifecycles /\ (pending.lifecycle.name # pending.lifecycle.shown => pending.lifecycle.lost)
  BY <1>1 DEF PanelInv, PhaseInv, WorkInv, Pendings
<1>7. TaskHitsTheShown' /\ OnlyTheVanishedIsMissed'
  <2>1. CASE UNCHANGED <<sessions, last>>
    BY <2>1, LastStays DEF PanelInv
  <2>2. CASE last' = [act |-> pending.lifecycle.act, hit |-> pending.lifecycle.name,
                      shown |-> pending.lifecycle.shown, lost |-> pending.lifecycle.lost]
    BY <2>2, <1>6 DEF TaskHitsTheShown, OnlyTheVanishedIsMissed, IsTaskAction, Lifecycles
  <2> QED BY <2>1, <2>2 DEF DrainLifecycle
<1>8. WorkInv'
  BY <1>1, <1>3, <1>7 DEF PanelInv, WorkInv
<1> QED BY <1>4, <1>5, <1>8 DEF PanelInv

LEMMA PollActionKeeps == ASSUME PanelInv, PollAction PROVE PanelInv'
<1>1. /\ phase = "action" /\ GoOn(3) /\ UNCHANGED agents /\ UNCHANGED messages /\ UNCHANGED tokenlist
      /\ UNCHANGED world /\ UNCHANGED place /\ UNCHANGED modal /\ UNCHANGED <<forced, asks, last>>
  BY DEF PollAction
<1>2. /\ UNCHANGED <<help, overlay, form>> /\ UNCHANGED <<rows, selected>> /\ UNCHANGED <<view, pinned>>
      /\ UNCHANGED <<tree, sessions, disk, history, usage>>
  BY <1>1 DEF modal, agents, place, world
<1>3. TasksInv'
  <2>1. UNCHANGED tasklist \/ RefreshTasks
    BY DEF PollAction
  <2> QED BY <2>1, TasksStay, TasksFit DEF PanelInv, ListsInv, WorldInv
<1>4. WorldInv' /\ PhaseInv' /\ MenuInv' /\ ListsInv'
  BY <1>1, <1>2, <1>3, GoOnPhase, MenuStays, AgentsStay, MessagesStay, TokensStay, PlaceStays
     DEF PanelInv, WorldInv, ListsInv
<1>5. pending \in Pendings /\ jobs \in Jobs
  BY DEF PanelInv, WorkInv
<1>6. /\ pending' \in Pendings /\ jobs' \in Jobs
      /\ pending'.lifecycle = pending.lifecycle /\ pending'.create = pending.create /\ pending'.message = pending.message
      /\ jobs'.message = jobs.message
      /\ pending'.action # None => pending'.action.task = pending'.action.shown
      /\ jobs'.action # None => jobs'.action.ask.task = jobs'.action.ask.shown
  <2>1. CASE UNCHANGED <<jobs, pending>>
    BY <2>1, <1>5 DEF PanelInv, WorkInv
  <2>2. CASE jobs' = [jobs EXCEPT !.action = None] /\ UNCHANGED pending
    BY <2>2, <1>5 DEF PanelInv, WorkInv, Jobs
  <2>3. CASE /\ jobs.action = None
             /\ jobs' = [jobs EXCEPT !.action = [ask |-> pending.action, result |-> "running"]]
             /\ pending' = [pending EXCEPT !.action = None]
    <3>1. pending.action \in Actions /\ pending.action.task = pending.action.shown
      BY <1>1, <1>5, <2>3 DEF PanelInv, PhaseInv, WorkInv, Pendings
    <3>2. /\ pending' \in Pendings /\ pending'.action = None
          /\ pending'.lifecycle = pending.lifecycle /\ pending'.create = pending.create /\ pending'.message = pending.message
      BY <1>5, <2>3 DEF Pendings
    <3> DEFINE job == [ask |-> pending.action, result |-> "running"]
    <3>3. job \in [ask : Actions, result : Results] /\ job.ask = pending.action
      BY <3>1 DEF Results
    <3> HIDE DEF job
    <3>4. jobs' \in Jobs /\ jobs'.message = jobs.message /\ jobs'.action = job
      <4>1. jobs' = [jobs EXCEPT !.action = job]
        BY <2>3 DEF job
      <4> QED BY <1>5, <3>3, <4>1 DEF Jobs, ActionJobs
    <3> QED BY <3>1, <3>2, <3>3, <3>4
  <2> QED BY <2>1, <2>2, <2>3 DEF PollAction
<1>7. WorkInv'
  BY <1>1, <1>6, LastStays DEF PanelInv, WorkInv
<1>8. FormInv'
  BY <1>2, <1>6 DEF PanelInv, FormInv, Shut
<1> QED BY <1>4, <1>7, <1>8 DEF PanelInv

\* A task that is touched, or a new one, in its place.
LEMMA DiskTouched ==
  ASSUME disk \in Disks, NEW id, NEW task \in Task, id \in TaskIds => task.id = id
  PROVE  [disk EXCEPT ![id] = task] \in Disks
BY DEF Disks

LEMMA DrainCreateKeeps == ASSUME PanelInv, DrainCreate PROVE PanelInv'
<1>1. /\ phase = "create" /\ pending' = [pending EXCEPT !.create = None] /\ GoOn(4)
      /\ UNCHANGED <<tree, sessions, history, usage>> /\ UNCHANGED agents /\ UNCHANGED messages /\ UNCHANGED tokenlist
      /\ UNCHANGED <<focus, pinned>> /\ UNCHANGED <<help, overlay>> /\ UNCHANGED <<jobs, asks, last>>
  BY DEF DrainCreate
<1>2. UNCHANGED overlay /\ UNCHANGED <<rows, selected>>
  BY <1>1 DEF agents
<1>3. /\ pending' \in Pendings /\ pending'.lifecycle = pending.lifecycle /\ pending'.action = pending.action
      /\ pending'.create = None /\ pending'.message = pending.message
  BY <1>1 DEF PanelInv, WorkInv, Pendings
<1>4. Shut("create") /\ form \in Forms /\ pending.create \in Names /\ ~pending.message /\ jobs.message = None
  BY <1>1 DEF PanelInv, PhaseInv, FormInv, Shut, WorkInv, Pendings
<1>5. Reopened \in Forms /\ ~Reopened.submitting
  BY <1>4 DEF Reopened, Forms
<1>6. /\ form' = None \/ form' = Reopened
      /\ UNCHANGED view \/ view' = "tasks"
      /\ UNCHANGED forced \/ forced' = TRUE
  BY DEF DrainCreate
<1>7. FormInv'
  BY <1>1, <1>3, <1>4, <1>5, <1>6 DEF PanelInv, FormInv, Shut
<1>8. WorkInv'
  BY <1>1, <1>3, <1>6, LastStays DEF PanelInv, WorkInv
<1>9. PlaceInv'
  BY <1>1, <1>6 DEF PanelInv, ListsInv, PlaceInv
<1>10. disk' \in Disks
  <2>1. CASE UNCHANGED disk
    BY <2>1 DEF PanelInv, WorldInv
  <2>2. ASSUME NEW id \in TaskIds, disk' = [disk EXCEPT ![id] = NewTask(id, pending.create)]
        PROVE  disk' \in Disks
    <3> DEFINE first == [id |-> id, status |-> "pending", version |-> 0, updated |-> 0, assignee |-> pending.create]
    <3>1. first \in Task /\ first.id = id
      BY <1>4 DEF Task, Statuses, Open
    <3>2. "pending" \in Statuses
      BY DEF Statuses, Open
    <3>3. NewTask(id, pending.create) = Touched(first, "pending")
      BY DEF NewTask
    <3> HIDE DEF first
    <3>4. NewTask(id, pending.create) \in Task /\ NewTask(id, pending.create).id = id
      BY <3>1, <3>2, <3>3, TouchedType DEF PanelInv, WorldInv
    <3> QED BY <2>2, <3>4, DiskTouched DEF PanelInv, WorldInv
  <2> QED BY <2>1, <2>2 DEF DrainCreate
<1>11. TasksInv'
  <2>1. CASE UNCHANGED tasklist
    BY <2>1, TasksStay DEF PanelInv, ListsInv
  <2>2. CASE /\ tasks' = Snapshot(disk') /\ UNCHANGED filter
             /\ task_cursor' = ClampTo(task_cursor, Len(FilterTasks(tasks', filter)))
    <3>1. tasks' \in Seq(Task)
      BY <1>10, <2>2, SnapshotType
    <3>2. Len(FilterTasks(tasks', filter)) \in Nat /\ Filtered' = FilterTasks(tasks', filter)
      BY <2>2, <3>1, FilteredType DEF Filtered
    <3> QED BY <2>2, <3>1, <3>2, ClampFits DEF PanelInv, ListsInv, TasksInv
  <2> QED BY <2>1, <2>2 DEF DrainCreate
<1>12. WorldInv' /\ PhaseInv' /\ MenuInv' /\ ListsInv'
  BY <1>1, <1>2, <1>9, <1>10, <1>11, GoOnPhase, MenuStays, AgentsStay, MessagesStay, TokensStay
     DEF PanelInv, WorldInv, ListsInv
<1> QED BY <1>7, <1>8, <1>12 DEF PanelInv

LEMMA PollMessageKeeps == ASSUME PanelInv, PollMessage PROVE PanelInv'
<1>1. /\ phase = "message" /\ GoOn(5) /\ UNCHANGED agents /\ UNCHANGED tasklist /\ UNCHANGED tokenlist
      /\ UNCHANGED world /\ UNCHANGED place /\ UNCHANGED <<help, overlay>> /\ UNCHANGED <<asks, last>>
  BY DEF PollMessage
<1>2. /\ UNCHANGED overlay /\ UNCHANGED <<rows, selected>> /\ UNCHANGED <<view, pinned>>
      /\ UNCHANGED <<tree, sessions, disk, history, usage>>
  BY <1>1 DEF agents, place, world
<1>3. MessagesInv'
  <2>1. UNCHANGED messages \/ RefreshMessages
    BY DEF PollMessage
  <2> QED BY <1>2, <2>1, MessagesStay, MessagesFit DEF PanelInv, ListsInv, WorldInv
<1>4. WorldInv' /\ PhaseInv' /\ MenuInv' /\ ListsInv'
  BY <1>1, <1>2, <1>3, GoOnPhase, MenuStays, AgentsStay, TasksStay, TokensStay, PlaceStays
     DEF PanelInv, WorldInv, ListsInv
<1>5. /\ pending \in Pendings /\ jobs \in Jobs /\ Shut("message") /\ form \in Forms /\ pending.create = None
      /\ None \notin Results
  BY <1>1, TuiLoopAssumption DEF PanelInv, PhaseInv, FormInv, Shut, WorkInv, Results
<1>6. CASE UNCHANGED <<jobs, pending, messages, form, forced>>
  <2>1. UNCHANGED work /\ UNCHANGED <<help, overlay, form>> /\ UNCHANGED <<pending, jobs>>
    BY <1>1, <1>6 DEF work
  <2> QED BY <1>4, <2>1, WorkStays, FormStays DEF PanelInv
<1>7. CASE /\ jobs.message \in {"ok", "failed"} /\ jobs' = [jobs EXCEPT !.message = None] /\ UNCHANGED pending
           /\ form' = Answered(jobs.message) /\ forced' = (forced \/ jobs.message = "ok")
  <2>1. jobs' \in Jobs /\ jobs'.message = None /\ jobs'.action = jobs.action
    BY <1>5, <1>7 DEF Jobs
  <2>2. ~pending.message
    BY <1>5, <1>7 DEF PanelInv, FormInv, Results
  <2>3. form' = None \/ (form' \in Forms /\ ~form'.submitting)
    BY <1>5, <1>7 DEF Answered, Reopened, Forms
  <2>4. FormInv'
    BY <1>1, <1>5, <1>7, <2>1, <2>2, <2>3 DEF PanelInv, FormInv, Shut
  <2>5. WorkInv'
    BY <1>1, <1>7, <2>1, LastStays DEF PanelInv, WorkInv
  <2> QED BY <1>4, <2>4, <2>5 DEF PanelInv
<1>8. CASE /\ jobs.message = None /\ jobs' = [jobs EXCEPT !.message = "running"]
           /\ pending' = [pending EXCEPT !.message = FALSE] /\ UNCHANGED <<messages, form, forced>>
  <2>1. jobs' \in Jobs /\ jobs'.message = "running" /\ jobs'.action = jobs.action
    BY <1>5, <1>8 DEF Jobs, Results
  <2>2. /\ pending' \in Pendings /\ pending'.lifecycle = pending.lifecycle /\ pending'.action = pending.action
        /\ pending'.create = pending.create /\ pending'.message = FALSE
    BY <1>5, <1>8 DEF Pendings
  <2>3. "running" # None
    BY <1>5 DEF Results
  <2>4. FormInv'
    BY <1>1, <1>5, <1>8, <2>1, <2>2, <2>3 DEF PanelInv, FormInv, Shut
  <2>5. WorkInv'
    BY <1>1, <1>8, <2>1, <2>2, LastStays DEF PanelInv, WorkInv
  <2> QED BY <1>4, <2>4, <2>5 DEF PanelInv
<1> QED BY <1>6, <1>7, <1>8 DEF PollMessage

-----------------------------------------------------------------------------
(* The workers and the world *)

\* The panel while the loop does nothing.
LEMMA PanelStays ==
  ASSUME PanelInv, WorldInv', WorkInv', history' >= history,
         UNCHANGED lists, UNCHANGED place, UNCHANGED phase, UNCHANGED modal, UNCHANGED pending,
         jobs.action # None => jobs'.action # None,
         jobs.message # None <=> jobs'.message # None
  PROVE  PanelInv'
<1>1. /\ UNCHANGED <<help, overlay, form>> /\ UNCHANGED <<rows, selected>> /\ UNCHANGED <<view, pinned>>
  BY DEF modal, lists, agents, place
<1>2. MenuInv' /\ ListsInv'
  BY <1>1, MenuStays, ListsStay DEF PanelInv, WorldInv
<1>3. FormInv'
  BY <1>1 DEF PanelInv, FormInv, Shut
<1>4. PhaseInv'
  BY DEF PanelInv, PhaseInv
<1> QED BY <1>2, <1>3, <1>4 DEF PanelInv

LEMMA ActionWorkerKeeps ==
  ASSUME PanelInv, ActionWorker, UNCHANGED <<changes, scene, lists, place, phase, modal>>
  PROVE  PanelInv'
<1> DEFINE ask == jobs.action.ask
           id == ask.task.id
<1>1. /\ jobs.action # None /\ UNCHANGED <<tree, sessions, history, usage>> /\ UNCHANGED pending /\ UNCHANGED <<forced, asks>>
  BY DEF ActionWorker
<1>2. jobs \in Jobs /\ jobs.action \in [ask : Actions, result : Results] /\ ask \in Actions /\ ask.task = ask.shown
  <2>1. jobs \in Jobs /\ jobs.action \in [ask : Actions, result : Results] /\ ask.task = ask.shown
    BY <1>1 DEF PanelInv, WorkInv, Jobs, ActionJobs
  <2> QED BY <2>1
<1>3. \E r \in {"ok", "failed"} : jobs' = [jobs EXCEPT !.action.result = r]
  BY DEF ActionWorker
<1>4. jobs' \in Jobs /\ jobs'.action \in [ask : Actions, result : Results] /\ jobs'.action.ask = ask /\ jobs'.message = jobs.message
  BY <1>2, <1>3 DEF Jobs, ActionJobs, Results
<1>5. jobs'.action # None
  BY <1>4, TuiLoopAssumption DEF ActionJobs
<1>6. TaskHitsTheShown' /\ OnlyTheVanishedIsMissed'
  <2>1. CASE UNCHANGED <<disk, last>>
    BY <2>1, LastStays DEF PanelInv
  <2>2. CASE last' = [act |-> ask.act, hit |-> ask.task, shown |-> ask.shown]
    BY <2>2, <1>2 DEF TaskHitsTheShown, OnlyTheVanishedIsMissed, IsTaskAction, Actions
  <2> QED BY <2>1, <2>2 DEF ActionWorker
<1>7. disk' \in Disks
  <2>0. disk \in Disks
    BY DEF PanelInv, WorldInv
  <2>1. CASE UNCHANGED disk
    BY <2>0, <2>1
  <2>2. ASSUME NEW s \in {"pending", "done"}, disk[id] # NoTask, disk' = [disk EXCEPT ![id] = Touched(disk[id], s)]
        PROVE  disk' \in Disks
    <3> HIDE DEF id
    <3>1. CASE id \in TaskIds
      <4>1. disk[id] \in Task /\ disk[id].id = id
        BY <2>0, <2>2, <3>1 DEF Disks
      <4>2. s \in Statuses
        BY DEF Statuses, Open
      <4>3. Touched(disk[id], s) \in Task /\ Touched(disk[id], s).id = id
        BY <2>0, <4>1, <4>2, TouchedType
      <4> QED BY <2>0, <2>2, <4>3, DiskTouched
    <3>2. CASE id \notin TaskIds
      <4>1. disk' = disk
        BY <2>0, <2>2, <3>2 DEF Disks
      <4> QED BY <2>0, <4>1
    <3> QED BY <3>1, <3>2
  <2> QED BY <2>1, <2>2, <1>2 DEF ActionWorker, Actions
<1>8. WorldInv' /\ history' >= history
  BY <1>1, <1>7 DEF PanelInv, WorldInv
<1>9. WorkInv'
  BY <1>1, <1>2, <1>4, <1>6 DEF PanelInv, WorkInv
<1> QED BY <1>1, <1>4, <1>5, <1>8, <1>9, PanelStays

LEMMA MessageWorkerKeeps ==
  ASSUME PanelInv, MessageWorker, UNCHANGED <<changes, scene, lists, place, phase, modal>>
  PROVE  PanelInv'
<1>1. /\ jobs.message = "running" /\ UNCHANGED <<tree, sessions, disk, usage>> /\ UNCHANGED pending /\ UNCHANGED <<forced, asks, last>>
      /\ history' = history + 1 \/ UNCHANGED history
      /\ \E r \in {"ok", "failed"} : jobs' = [jobs EXCEPT !.message = r]
  BY DEF MessageWorker
<1>2. jobs' \in Jobs /\ jobs'.message \in {"ok", "failed"} /\ jobs'.action = jobs.action
  BY <1>1 DEF PanelInv, WorkInv, Jobs, Results
<1>3. jobs'.message # None /\ jobs.message # None
  BY <1>1, <1>2, TuiLoopAssumption DEF Results
<1>4. WorldInv' /\ history' >= history
  BY <1>1 DEF PanelInv, WorldInv
<1>5. WorkInv'
  BY <1>1, <1>2, LastStays DEF PanelInv, WorkInv
<1> QED BY <1>1, <1>2, <1>3, <1>4, <1>5, PanelStays

LEMMA WorldKeeps == ASSUME PanelInv, World PROVE PanelInv'
<1>1. Change /\ UNCHANGED lists /\ UNCHANGED place /\ UNCHANGED phase /\ UNCHANGED modal /\ UNCHANGED work
  BY DEF World
<1>2. WorkInv' /\ UNCHANGED pending /\ UNCHANGED jobs
  BY <1>1, WorkStays DEF PanelInv, work
<1>3. WorldInv' /\ history' >= history
  <2>0. tree \in Trees /\ disk \in Disks /\ history \in Nat /\ usage \in Nat
    BY DEF PanelInv, WorldInv
  <2>1. CASE UNCHANGED <<tree, disk, history, usage>>
    BY <2>0, <2>1 DEF WorldInv
  <2>2. CASE tree' \in Trees /\ UNCHANGED <<sessions, disk, history, usage>>
    BY <2>0, <2>2 DEF WorldInv
  <2>3. CASE history' = history + 1 /\ UNCHANGED <<tree, sessions, disk, usage>>
    BY <2>0, <2>3 DEF WorldInv
  <2>4. CASE usage' \in 0..MaxUsage /\ UNCHANGED <<tree, sessions, disk, history>>
    BY <2>0, <2>4, TuiListsAssumption DEF WorldInv
  <2>5. ASSUME NEW t \in TaskIds, NEW s \in Statuses, disk[t] # NoTask,
               disk' = [disk EXCEPT ![t] = Touched(disk[t], s)], UNCHANGED <<tree, sessions, history, usage>>
        PROVE  WorldInv' /\ history' >= history
    <3>1. disk[t] \in Task /\ disk[t].id = t
      BY <2>0, <2>5 DEF Disks
    <3>2. Touched(disk[t], s) \in Task /\ Touched(disk[t], s).id = t
      BY <2>0, <3>1, TouchedType
    <3>3. disk' \in Disks
      BY <2>0, <2>5, <3>2, DiskTouched
    <3> QED BY <2>0, <2>5, <3>3 DEF WorldInv
  <2> QED BY <1>1, <2>1, <2>2, <2>3, <2>4, <2>5 DEF Change
<1> QED BY <1>1, <1>2, <1>3, PanelStays

-----------------------------------------------------------------------------
(* The theorems *)

LEMMA InitPanel == ASSUME Init PROVE PanelInv
<1>1. PICK w \in Worlds :
        tree = w.tree /\ sessions = w.sessions /\ disk = w.disk /\ history = w.history /\ usage = w.usage /\ asks = w.asks
  BY DEF Init
<1>2. WorldInv /\ asks \in 0..MaxAsks
  BY <1>1, TuiLoopAssumption DEF WorldInv
<1>3. ListsInit /\ phase = "refresh" /\ help = FALSE /\ overlay = None /\ form = None /\ forced = FALSE /\ last = None
      /\ pending = [lifecycle |-> None, action |-> None, create |-> None, message |-> FALSE]
      /\ jobs = [action |-> None, message |-> None]
  BY DEF Init
<1>4. AgentsInv
  BY <1>3 DEF ListsInit, AgentsInv, Selectable
<1>5. TasksInv
  <2>1. tasks = <<>> /\ tasks \in Seq(Task) /\ task_cursor = 0
    BY <1>3 DEF ListsInit
  <2>2. Len(Filtered) \in Nat
    BY <2>1, FilteredType DEF Filtered
  <2> QED BY <2>1, <2>2 DEF TasksInv, Most
<1>6. MessagesInv
  <2>1. shown = <<1, 0>> /\ message_cursor = 0 /\ follow = TRUE /\ history \in Nat
    BY <1>2, <1>3 DEF ListsInit, WorldInv
  <2>2. Shown(shown) = 0
    BY <2>1 DEF Shown
  <2> QED BY <2>1, <2>2 DEF MessagesInv, Most
<1>7. TokensInv /\ PlaceInv
  BY <1>3 DEF ListsInit, TokensInv, PlaceInv, Most
<1>8. MenuInv /\ FormInv /\ PhaseInv
  BY <1>3 DEF MenuInv, FormInv, PhaseInv
<1>9. WorkInv
  BY <1>2, <1>3 DEF WorkInv, Pendings, Jobs, TaskHitsTheShown, OnlyTheVanishedIsMissed
<1> QED BY <1>2, <1>4, <1>5, <1>6, <1>7, <1>8, <1>9 DEF PanelInv, ListsInv

LEMMA StepPanel == ASSUME PanelInv, [Next]_vars PROVE PanelInv'
<1>1. CASE Key
  BY <1>1, NoEventKeeps, HelpKeyKeeps, ListEventKeeps, MessageEndsKeeps, FocusKeyKeeps, TabKeyKeeps, FilterKeyKeeps,
     RefreshKeyKeeps, OpenOverlayKeeps, OverlayMoveKeeps, OverlayEscKeeps, AskConfirmKeeps, ActivateTaskKeeps,
     ActivateLifecycleKeeps, SwitchKeeps, InterruptKeeps, OpenFormKeeps, TypeKeeps, FormEscKeeps, SubmitKeeps DEF Key
<1>2. CASE Drain
  BY <1>2, DrainLifecycleKeeps, PollActionKeeps, DrainCreateKeeps, PollMessageKeeps, RefreshKeeps DEF Drain
<1>3. CASE Worker
  BY <1>3, ActionWorkerKeeps, MessageWorkerKeeps DEF Worker
<1>4. CASE World
  BY <1>4, WorldKeeps
<1>5. CASE UNCHANGED vars
  <2>1. UNCHANGED <<world, lists, place, phase, modal, work>>
    BY <1>5 DEF vars
  <2>2. WorldInv' /\ history' >= history
    BY <2>1 DEF PanelInv, WorldInv, world
  <2>3. WorkInv' /\ UNCHANGED pending /\ UNCHANGED jobs
    BY <2>1, WorkStays DEF PanelInv, work
  <2> QED BY <2>1, <2>2, <2>3, PanelStays
<1> QED BY <1>1, <1>2, <1>3, <1>4, <1>5 DEF Next, Loop

LEMMA PanelGives == ASSUME PanelInv PROVE ActsOnTheShown
<1>1. CursorsAreOnRows
  BY DEF PanelInv, ListsInv, AgentsInv, TasksInv, MessagesInv, TokensInv, PlaceInv, CursorsAreOnRows
<1>2. SubmittedIsUnderWay
  BY DEF PanelInv, FormInv, Shut, SubmittedIsUnderWay
<1>3. TaskHitsTheShown /\ OnlyTheVanishedIsMissed
  BY DEF PanelInv, WorkInv
<1>4. overlay # None => overlay.at \in DOMAIN overlay.actions
  <2> SUFFICES ASSUME overlay # None PROVE overlay.at \in DOMAIN overlay.actions
    OBVIOUS
  <2>1. overlay.at \in 1..Len(overlay.actions) /\ overlay.actions \in {AgentActions(TRUE), AgentActions(FALSE), TaskMenu}
    BY DEF PanelInv, MenuInv, Menus
  <2> QED BY <2>1 DEF AgentActions, TaskMenu
<1>5. view \in ToSet(Tabs)
  <2>1. view \in {"agents", "messages", "tasks", "tokens", "stream"} /\ (view = "stream" => pinned # NoName)
    BY DEF PanelInv, ListsInv, PlaceInv
  <2>2. CASE pinned = NoName
    <3>1. Tabs = <<"agents", "messages", "tasks", "tokens">>
      BY <2>2 DEF Tabs
    <3> QED BY <2>1, <2>2, <3>1 DEF ToSet
  <2>3. CASE pinned # NoName
    <3>1. Tabs = <<"agents", "messages", "tasks", "tokens", "stream">>
      BY <2>3 DEF Tabs
    <3> QED BY <2>1, <3>1 DEF ToSet
  <2> QED BY <2>2, <2>3
<1>6. phase \in ToSet(Parts) \union {"input", "refresh"}
  <2>1. phase \in {"lifecycle", "action", "create", "message", "input", "refresh"}
    BY DEF PanelInv, PhaseInv
  <2> QED BY <2>1 DEF ToSet, Parts
<1>7. TypeOK
  BY <1>4, <1>5, <1>6 DEF TypeOK, PanelInv, FormInv, WorkInv
<1> QED BY <1>1, <1>2, <1>3, <1>7 DEF ActsOnTheShown

LEMMA PanelAlways == Spec => []PanelInv
<1>1. Init => PanelInv
  BY InitPanel
<1>2. PanelInv /\ [Next]_vars => PanelInv'
  BY StepPanel
<1> QED BY <1>1, <1>2, PTL DEF Spec

\* The panel acts on what it showed, for any lists, keys and changes: handle_overlay_key,
\* the drains of app.rs and the workers hit the task and version, or the workspace while it
\* stayed listed, that the menu was opened on; cursors are on rows; and no form stays shut
\* without a request under way.
THEOREM PanelActsOnTheShown == Spec => []ActsOnTheShown
<1>1. PanelInv => ActsOnTheShown
  BY PanelGives
<1> QED BY <1>1, PanelAlways, PTL
-----------------------------------------------------------------------------
(* The operator's place *)

PlaceStep ==
  /\ rows' # rows /\ SelectedName # NoName
       /\ (\E i \in Selectable(rows') : rows'[i].name = SelectedName)
     => NameAt(rows', selected') = SelectedName
  /\ shown' # shown /\ ~follow /\ shown'[1] = shown[1]
     => shown'[1] + message_cursor' = SelectedMessage

\* Only a refresh of its list changes what a list shows.
LEMMA KeysShowTheSame == ASSUME Key PROVE UNCHANGED rows /\ UNCHANGED shown
<1>1. CASE UNCHANGED lists
  BY <1>1 DEF lists, agents, messages
<1>2. CASE ListEvent
  BY <1>2 DEF ListEvent, MoveSelection, MoveTaskSelection, ScrollMessages, ScrollTokens, agents, messages
<1>3. CASE MessageEnds
  BY <1>3 DEF MessageEnds, MessagesToHead, MessagesToTail, agents
<1>4. CASE TabKey
  BY <1>4 DEF TabKey, ShowTab, agents, messages
<1>5. CASE FilterKey
  BY <1>5 DEF FilterKey, CycleTaskFilter, agents, messages
<1>6. \/ UNCHANGED lists \/ ListEvent \/ MessageEnds \/ TabKey \/ FilterKey
  BY DEF Key, NoEvent, HelpKey, FocusKey, RefreshKey, OpenOverlay, OverlayMove, OverlayEsc, AskConfirm, ActivateTask,
         ActivateLifecycle, ActivateNothing, Switch, Interrupt, OpenForm, Type, FormEsc, Submit
<1> QED BY <1>1, <1>2, <1>3, <1>4, <1>5, <1>6

LEMMA StepKeepsPlace == ASSUME PanelInv, [Next]_vars PROVE PlaceStep
<1>1. CASE UNCHANGED rows /\ UNCHANGED shown
  BY <1>1 DEF PlaceStep
<1>2. CASE Refresh
  <2>1. RefreshAgents /\ RefreshMessages /\ UNCHANGED world
    BY <1>2 DEF Refresh, RefreshAll
  <2>2. UNCHANGED history
    BY <2>1 DEF world
  <2> QED BY <2>1, <2>2, AgentsFit, MessagesFit DEF PlaceStep, Listed, PanelInv, ListsInv, WorldInv
<1>3. CASE PollMessage
  <2>1. UNCHANGED agents /\ UNCHANGED world /\ (UNCHANGED messages \/ RefreshMessages)
    BY <1>3 DEF PollMessage
  <2>2. UNCHANGED rows /\ UNCHANGED history /\ (UNCHANGED shown \/ RefreshMessages)
    BY <2>1 DEF agents, world, messages
  <2> QED BY <2>2, MessagesFit DEF PlaceStep, PanelInv, ListsInv, WorldInv
<1>4. CASE DrainLifecycle \/ Worker \/ World \/ UNCHANGED vars
  <2>1. UNCHANGED lists
    BY <1>4 DEF DrainLifecycle, Worker, World, vars
  <2> QED BY <1>1, <2>1 DEF lists, agents, messages
<1>5. CASE PollAction \/ DrainCreate
  BY <1>1, <1>5 DEF PollAction, DrainCreate, agents, messages
<1>6. CASE Key
  BY <1>1, <1>6, KeysShowTheSame
<1> QED BY <1>2, <1>3, <1>4, <1>5, <1>6 DEF Next, Loop, Drain

\* What no refresh does to the operator's place (rebuild_agents, reconcile_message_cursor):
\* the workspace that was selected stays selected while it is listed, and the message that
\* was read stays the one under the cursor while the buffer begins where it did.
THEOREM RefreshesKeepThePlace == Spec => PlaceIsKept
<1>1. PanelInv /\ [Next]_vars => [PlaceStep]_lists
  BY StepKeepsPlace
<1> QED BY <1>1, PanelAlways, PTL DEF Spec, PlaceIsKept, PlaceStep
=============================================================================
