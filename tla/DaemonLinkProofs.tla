-------------------------- MODULE DaemonLinkProofs --------------------------
(***************************************************************************)
(* Proofs about the daemon under its clients, for any number of            *)
(* connections, names, registrations, calls, messages, faults and          *)
(* restarts.                                                               *)
(*                                                                         *)
(* The registry (RegistryInv): generations are never given twice while the *)
(* daemon lives, so the late disconnect of a connection that was replaced  *)
(* cannot match its successor's entry.                                     *)
(*                                                                         *)
(* The link (LinkInv): call and place in the program of its tool name one  *)
(* request or one answer, a message is in one place, and a call whose      *)
(* answer is lost gets no other one.  The steps of the link are brought    *)
(* down to four events (Shed, Begin, Move, Answered), each shown to keep   *)
(* the part of the invariant that is about calls, messages and what is     *)
(* under way (FlowInv); then every action is shown to be one of them.      *)
(***************************************************************************)
EXTENDS DaemonLink, FiniteSetTheorems, FunctionTheorems, SequenceTheorems, TLAPS

(* A connection has a generation when it has a name, and drains the channel   *)
(* of that generation.                                                        *)
Consistent ==
  \A c \in Connections :
    /\ conn[c].channel = conn[c].id
    /\ conn[c].id # 0 <=> conn[c].workspace \in Workspaces
    /\ conn[c].id # 0 => conn[c].open /\ conn[c].id \in granted[c]

(* No two connections have the same generation.                               *)
Distinct ==
  \A c, d \in Connections : conn[c].id # 0 /\ conn[c].id = conn[d].id => c = d

(* The inductive invariant of the registry.                                   *)
RegistryInv == TypeOK /\ Consistent /\ Distinct /\ NamesAreHeld

-----------------------------------------------------------------------------
(* The registry's steps                                                       *)

(* A new connection has no name and no generation (accept in server.rs).       *)
LEMMA AcceptKeeps ==
  ASSUME RegistryInv, NEW c \in Connections, Accept(c)
  PROVE  RegistryInv'
<1> DEFINE yes == TRUE
           new == [open |-> yes, workspace |-> Unnamed, id |-> 0, channel |-> 0]
<1>1. /\ conn' = [conn EXCEPT ![c] = new] /\ UNCHANGED <<entries, next_id, granted, claim>>
      /\ yes \in BOOLEAN /\ yes
  BY DEF Accept, Accepted
<1> HIDE DEF yes
<1>2. /\ new.open = yes /\ new.workspace = Unnamed /\ new.id = 0 /\ new.channel = 0
      /\ new \in [open : BOOLEAN, workspace : Workspaces \union {Unnamed},
                  id : 0..next_id, channel : 0..next_id]
  BY <1>1 DEF RegistryInv, TypeOK
<1> HIDE DEF new
<1>3. conn'[c] = new /\ \A d \in Connections : d # c => conn'[d] = conn[d]
  BY <1>1 DEF RegistryInv, TypeOK
<1>4. TypeOK'
  BY <1>1, <1>2 DEF RegistryInv, TypeOK
<1>5. Consistent' /\ Distinct'
  BY <1>1, <1>2, <1>3, RegistryAssumption DEF RegistryInv, Consistent, Distinct
<1>6. NamesAreHeld'
  BY <1>1, <1>2, <1>3, RegistryAssumption
  DEF RegistryInv, NamesAreHeld, LastOneIsReachable, PushesDoNotStray
<1>7. QED BY <1>4, <1>5, <1>6 DEF RegistryInv

(* A registration takes a generation nobody has, so the connection it evicts   *)
(* keeps a number that no entry carries (register_with_idle).                  *)
LEMMA RegisterKeeps ==
  ASSUME RegistryInv, NEW c \in Connections, NEW w \in Workspaces, Register(c, w)
  PROVE  RegistryInv'
<1> DEFINE yes == TRUE
           id == next_id + 1
           new == [open |-> yes, workspace |-> w, id |-> id, channel |-> id]
<1>1. /\ next_id < MaxId /\ next_id' = id /\ entries' = [entries EXCEPT ![w] = id]
      /\ conn' = [conn EXCEPT ![c] = new]
      /\ granted' = [granted EXCEPT ![c] = granted[c] \union {id}]
      /\ claim' = [claim EXCEPT ![w] = c] /\ yes \in BOOLEAN /\ yes
  BY DEF Register
<1>2. /\ id \in 1..MaxId /\ \A n \in 0..next_id : n \in 0..id /\ n # id
      /\ \A n \in 1..next_id : n \in 1..id
      /\ id \in 0..id /\ id \in 1..id /\ id # 0
  BY <1>1, RegistryAssumption DEF RegistryInv, TypeOK
<1> HIDE DEF yes, id
<1>3. /\ new.open = yes /\ new.workspace = w /\ new.id = id /\ new.channel = id
      /\ new \in [open : BOOLEAN, workspace : Workspaces \union {Unnamed},
                  id : 0..id, channel : 0..id]
  BY <1>1, <1>2
<1>3a. new.open
  BY <1>1, <1>3, Zenon
<1> HIDE DEF new
<1>4. /\ conn'[c] = new /\ \A d \in Connections : d # c => conn'[d] = conn[d]
      /\ entries'[w] = id /\ \A v \in Workspaces : v # w => entries'[v] = entries[v]
      /\ granted'[c] = granted[c] \union {id}
      /\ \A d \in Connections : d # c => granted'[d] = granted[d]
      /\ claim'[w] = c /\ \A v \in Workspaces : v # w => claim'[v] = claim[v]
  BY <1>1 DEF RegistryInv, TypeOK
<1>5. /\ \A d \in Connections : /\ conn[d].id \in 0..next_id /\ conn[d].channel \in 0..next_id
                                /\ conn[d].open \in BOOLEAN
                                /\ conn[d].workspace \in Workspaces \union {Unnamed}
      /\ \A v \in Workspaces : entries[v] \in 0..next_id
  BY DEF RegistryInv, TypeOK
<1>6. TypeOK'
  <2>1. next_id' \in 0..MaxId
    BY <1>1, <1>2
  <2>1a. entries' \in [Workspaces -> 0..id]
    <3>1. \A v \in Workspaces : entries[v] \in 0..id
      BY <1>2, <1>5
    <3>2. QED BY <1>1, <1>2, <3>1 DEF RegistryInv, TypeOK
  <2>2. conn' \in [Connections -> [open : BOOLEAN, workspace : Workspaces \union {Unnamed},
                                   id : 0..id, channel : 0..id]]
    <3>1. \A d \in Connections :
            conn[d] \in [open : BOOLEAN, workspace : Workspaces \union {Unnamed},
                         id : 0..next_id, channel : 0..next_id]
      BY DEF RegistryInv, TypeOK
    <3>2. \A d \in Connections :
            conn[d] \in [open : BOOLEAN, workspace : Workspaces \union {Unnamed},
                         id : 0..id, channel : 0..id]
      BY <1>2, <3>1
    <3>3. QED BY <1>1, <1>3, <3>2 DEF RegistryInv, TypeOK
  <2>3. granted' \in [Connections -> SUBSET (1..id)]
    BY <1>1, <1>2 DEF RegistryInv, TypeOK
  <2>4. claim' \in [Workspaces -> Connections \union {Nobody}]
    BY <1>1 DEF RegistryInv, TypeOK
  <2>5. QED BY <1>1, <2>1, <2>2, <2>3, <2>4, <2>1a DEF TypeOK
<1>7. Consistent'
  <2> SUFFICES ASSUME NEW d \in Connections
               PROVE  /\ conn'[d].channel = conn'[d].id
                      /\ conn'[d].id # 0 <=> conn'[d].workspace \in Workspaces
                      /\ conn'[d].id # 0 => conn'[d].open /\ conn'[d].id \in granted'[d]
    BY DEF Consistent
  <2>1. CASE d = c
    <3>1. conn'[d] = new /\ conn'[d].open
      BY <1>4, <1>3a, <2>1
    <3>2. conn'[d].id = id /\ conn'[d].channel = id /\ conn'[d].workspace = w /\ id \in granted'[d]
      BY <1>3, <1>4, <2>1
    <3>3. QED BY <1>2, <3>1, <3>2
  <2>2. CASE d # c
    BY <1>4, <2>2 DEF RegistryInv, Consistent
  <2>3. QED BY <2>1, <2>2
<1>8. Distinct'
  BY <1>2, <1>3, <1>4, <1>5 DEF RegistryInv, Distinct
<1>9. LastOneIsReachable'
  <2> SUFFICES ASSUME NEW v \in Workspaces, NEW d \in Connections, claim'[v] = d,
                      conn'[d].workspace = v
               PROVE  conn'[d].open /\ entries'[v] = conn'[d].id /\ conn'[d].channel = entries'[v]
    BY DEF LastOneIsReachable
  <2>1. CASE v = w
    <3>1. conn'[d] = new /\ conn'[d].open
      BY <1>4, <1>3a, <2>1
    <3>2. conn'[d].id = id /\ conn'[d].channel = id /\ entries'[v] = id
      BY <1>3, <1>4, <2>1
    <3>3. QED BY <3>1, <3>2
  <2>2. CASE v # w
    <3>1. d # c
      BY <1>3, <1>4, <2>2
    <3>2. claim[v] = d /\ conn[d].workspace = v /\ conn'[d] = conn[d] /\ entries'[v] = entries[v]
      BY <1>4, <2>2, <3>1
    <3>3. QED BY <3>2 DEF RegistryInv, NamesAreHeld, LastOneIsReachable
  <2>3. QED BY <2>1, <2>2
<1>10. PushesDoNotStray'
  BY <1>1, <1>2, <1>3, <1>4, <1>5 DEF RegistryInv, NamesAreHeld, PushesDoNotStray
<1>11. QED BY <1>6, <1>7, <1>8, <1>9, <1>10 DEF RegistryInv, NamesAreHeld

(* unregister_if removes the entry of the leaving connection's own generation  *)
(* only, and by Distinct no other connection has that one.                     *)
LEMMA DisconnectKeeps ==
  ASSUME RegistryInv, NEW c \in Connections, Disconnect(c)
  PROVE  RegistryInv'
<1> DEFINE no == FALSE
           new == [open |-> no, workspace |-> Unnamed, id |-> 0, channel |-> 0]
<1>1. /\ conn' = [conn EXCEPT ![c] = new] /\ next_id' = next_id /\ no \in BOOLEAN /\ ~no
      /\ granted' = [granted EXCEPT ![c] = {}]
      /\ claim' = [w \in Workspaces |-> IF claim[w] = c THEN Nobody ELSE claim[w]]
      /\ entries' = [v \in Workspaces |-> IF v = conn[c].workspace /\ entries[v] = conn[c].id
                                          THEN 0 ELSE entries[v]]
  BY DEF Disconnect, Closed, UnregisterIf
<1> HIDE DEF no
<1>2. /\ new.open = no /\ new.workspace = Unnamed /\ new.id = 0 /\ new.channel = 0
      /\ new \in [open : BOOLEAN, workspace : Workspaces \union {Unnamed},
                  id : 0..next_id, channel : 0..next_id]
  BY <1>1 DEF RegistryInv, TypeOK
<1> HIDE DEF new
<1>3. /\ conn'[c] = new /\ \A d \in Connections : d # c => conn'[d] = conn[d]
      /\ granted'[c] = {} /\ \A d \in Connections : d # c => granted'[d] = granted[d]
  BY <1>1 DEF RegistryInv, TypeOK
<1>4. TypeOK'
  <2>1. entries' \in [Workspaces -> 0..next_id]
    BY <1>1 DEF RegistryInv, TypeOK
  <2>2. granted' \in [Connections -> SUBSET (1..next_id)]
    BY <1>1 DEF RegistryInv, TypeOK
  <2>3. QED BY <1>1, <1>2, <2>1, <2>2 DEF RegistryInv, TypeOK
<1>5. Consistent' /\ Distinct'
  BY <1>2, <1>3, RegistryAssumption DEF RegistryInv, Consistent, Distinct
<1>6. LastOneIsReachable'
  <2> SUFFICES ASSUME NEW w \in Workspaces, NEW d \in Connections, claim'[w] = d,
                      conn'[d].workspace = w
               PROVE  conn'[d].open /\ entries'[w] = conn'[d].id /\ conn'[d].channel = entries'[w]
    BY DEF LastOneIsReachable
  <2>1. d # c /\ claim[w] = d /\ conn[d].workspace = w
    BY <1>1, <1>2, <1>3, RegistryAssumption
  <2>2. conn[d].open /\ entries[w] = conn[d].id /\ conn[d].channel = entries[w] /\ conn[d].id # 0
    BY <2>1 DEF RegistryInv, NamesAreHeld, LastOneIsReachable, Consistent
  <2>3. conn[c].id # conn[d].id
    BY <2>1, <2>2 DEF RegistryInv, Distinct
  <2>4. entries'[w] = entries[w]
    BY <1>1, <2>2, <2>3
  <2>5. QED BY <1>3, <2>1, <2>2, <2>4
<1>7. PushesDoNotStray'
  BY <1>1, <1>2, <1>3 DEF RegistryInv, NamesAreHeld, PushesDoNotStray
<1>8. QED BY <1>4, <1>5, <1>6, <1>7 DEF RegistryInv, NamesAreHeld

(* A restarted daemon counts from zero again, and no connection is left.       *)
LEMMA RestartKeeps ==
  ASSUME RegistryInv, DaemonRestarts
  PROVE  RegistryInv'
<1> DEFINE no == FALSE
           new == [open |-> no, workspace |-> Unnamed, id |-> 0, channel |-> 0]
<1>1. /\ conn' = [c \in Connections |-> new] /\ next_id' = 0 /\ no \in BOOLEAN /\ ~no
      /\ granted' = [c \in Connections |-> {}] /\ claim' = [w \in Workspaces |-> Nobody]
      /\ entries' = [w \in Workspaces |-> 0]
  BY DEF DaemonRestarts, Closed
<1> HIDE DEF no
<1>2. /\ new.open = no /\ new.workspace = Unnamed /\ new.id = 0 /\ new.channel = 0
      /\ new \in [open : BOOLEAN, workspace : Workspaces \union {Unnamed}, id : 0..0, channel : 0..0]
  BY <1>1
<1> HIDE DEF new
<1>3. TypeOK'
  <2>1. next_id' \in 0..MaxId
    BY <1>1, RegistryAssumption
  <2>2. /\ entries' \in [Workspaces -> 0..0] /\ granted' \in [Connections -> SUBSET (1..0)]
        /\ claim' \in [Workspaces -> Connections \union {Nobody}]
    BY <1>1
  <2>3. QED BY <1>1, <1>2, <2>1, <2>2 DEF TypeOK
<1>4. Consistent' /\ Distinct' /\ NamesAreHeld'
  BY <1>1, <1>2, RegistryAssumption
  DEF Consistent, Distinct, NamesAreHeld, LastOneIsReachable, PushesDoNotStray
<1>5. QED BY <1>3, <1>4 DEF RegistryInv

-----------------------------------------------------------------------------
(* The specification                                                          *)

(* The clients that are there from the beginning have a generation each.       *)
LEMMA StartIsRegistered == LInit => RegistryInv
<1> SUFFICES ASSUME LInit PROVE RegistryInv
  OBVIOUS
<1> DEFINE n == Cardinality(Present)
           id == CHOOSE g \in [Present -> 1..n] : \A c, d \in Present : g[c] = g[d] => c = d
           yes == TRUE
           no == FALSE
           Up(c) == [open |-> yes, workspace |-> Name[c], id |-> id[c], channel |-> id[c]]
           off == [open |-> no, workspace |-> Unnamed, id |-> 0, channel |-> 0]
           Owner(w) == CHOOSE c \in Present : Name[c] = w
           Owned(w) == \E c \in Present : Name[c] = w
<1>1. n \in Nat /\ n <= MaxId
  BY FS_CardinalityType, DaemonLinkAssumption
<1>2. \E g \in [Present -> 1..n] : \A c, d \in Present : g[c] = g[d] => c = d
  <2>1. ExistsBijection(Present, 1..n)
    BY FS_CardinalityType, Fun_ExistsBijSymmetric, DaemonLinkAssumption
  <2>2. PICK g : g \in Bijection(Present, 1..n)
    BY <2>1 DEF ExistsBijection
  <2>3. g \in [Present -> 1..n] /\ \A c, d \in Present : g[c] = g[d] => c = d
    BY <2>2 DEF Bijection, Injection, IsInjective
  <2>4. QED BY <2>3
<1>3. id \in [Present -> 1..n] /\ \A c, d \in Present : id[c] = id[d] => c = d
  BY <1>2, Zenon
<1>4. /\ entries = [w \in Workspaces |-> IF Owned(w) THEN id[Owner(w)] ELSE 0]
      /\ conn = [c \in Connections |-> IF c \in Present THEN Up(c) ELSE off]
      /\ granted = [c \in Connections |-> IF c \in Present THEN {id[c]} ELSE {}]
      /\ next_id = n
      /\ claim = [w \in Workspaces |-> IF Owned(w) THEN Owner(w) ELSE Nobody]
      /\ yes \in BOOLEAN /\ yes /\ no \in BOOLEAN /\ ~no
  BY Zenon DEF LInit, Closed
<1>5. \A w : Owned(w) => Owner(w) \in Present /\ Name[Owner(w)] = w
  BY Zenon
<1> HIDE DEF yes, no, id, Owner, n
<1>6. \A c \in Present : id[c] \in 1..n /\ id[c] \in 0..n /\ id[c] # 0 /\ c \in Connections
                          /\ Name[c] \in Workspaces
  BY <1>1, <1>3, DaemonLinkAssumption
<1>7. \A c \in Present : /\ Up(c).open = yes /\ Up(c).workspace = Name[c]
                          /\ Up(c).id = id[c] /\ Up(c).channel = id[c]
                          /\ Up(c) \in [open : BOOLEAN, workspace : Workspaces \union {Unnamed},
                                        id : 0..n, channel : 0..n]
  BY <1>4, <1>6
<1>8. /\ off.open = no /\ off.workspace = Unnamed /\ off.id = 0 /\ off.channel = 0
      /\ off \in [open : BOOLEAN, workspace : Workspaces \union {Unnamed}, id : 0..n, channel : 0..n]
  BY <1>1, <1>4
<1> HIDE DEF Up, off
<1>9. \A c \in Present : Owned(Name[c]) /\ Owner(Name[c]) = c
  BY <1>5, DaemonLinkAssumption
<1>10. /\ \A c \in Connections : conn[c] = IF c \in Present THEN Up(c) ELSE off
       /\ \A c \in Connections : granted[c] = IF c \in Present THEN {id[c]} ELSE {}
       /\ \A w \in Workspaces : entries[w] = IF Owned(w) THEN id[Owner(w)] ELSE 0
       /\ \A w \in Workspaces : claim[w] = IF Owned(w) THEN Owner(w) ELSE Nobody
  BY <1>4
<1>11. TypeOK
  <2>1. next_id \in 0..MaxId /\ 0 \in 0..n
    BY <1>1, <1>4, RegistryAssumption
  <2>2. entries \in [Workspaces -> 0..n]
    BY <1>4, <1>5, <1>6, <2>1
  <2>3. conn \in [Connections -> [open : BOOLEAN, workspace : Workspaces \union {Unnamed},
                                  id : 0..n, channel : 0..n]]
    BY <1>4, <1>7, <1>8
  <2>4. granted \in [Connections -> SUBSET (1..n)]
    BY <1>4, <1>6
  <2>5. claim \in [Workspaces -> Connections \union {Nobody}]
    BY <1>4, <1>5, <1>6
  <2>6. QED BY <1>4, <2>1, <2>2, <2>3, <2>4, <2>5 DEF TypeOK
<1> HIDE DEF Owned
<1>12. Consistent
  <2> SUFFICES ASSUME NEW c \in Connections
               PROVE  /\ conn[c].channel = conn[c].id
                      /\ conn[c].id # 0 <=> conn[c].workspace \in Workspaces
                      /\ conn[c].id # 0 => conn[c].open /\ conn[c].id \in granted[c]
    BY DEF Consistent
  <2>1. CASE c \in Present
    BY <1>4, <1>6, <1>7, <1>10, <2>1
  <2>2. CASE c \notin Present
    BY <1>8, <1>10, <2>2, RegistryAssumption
  <2>3. QED BY <2>1, <2>2
<1>13. Distinct
  BY <1>3, <1>7, <1>8, <1>10 DEF Distinct
<1>14. LastOneIsReachable
  <2> SUFFICES ASSUME NEW w \in Workspaces, NEW c \in Connections, claim[w] = c
               PROVE  conn[c].open /\ entries[w] = conn[c].id /\ conn[c].channel = entries[w]
    BY DEF LastOneIsReachable
  <2>1. Owned(w) /\ c = Owner(w) /\ c \in Present
    BY <1>5, <1>10, RegistryAssumption
  <2>2. QED BY <1>4, <1>7, <1>10, <2>1
<1>15. PushesDoNotStray
  <2> SUFFICES ASSUME NEW w \in Workspaces, NEW c \in Connections, entries[w] # 0,
                      conn[c].channel = entries[w]
               PROVE  entries[w] \in granted[c] /\ conn[c].workspace = w
    BY DEF PushesDoNotStray
  <2>1. Owned(w) /\ Owner(w) \in Present /\ Name[Owner(w)] = w /\ entries[w] = id[Owner(w)]
    BY <1>5, <1>10
  <2>2. c \in Present /\ conn[c].channel = id[c]
    BY <1>7, <1>8, <1>10
  <2>3. c = Owner(w)
    BY <1>3, <2>1, <2>2
  <2>4. QED BY <1>7, <1>10, <2>1, <2>2, <2>3
<1>16. QED BY <1>11, <1>12, <1>13, <1>14, <1>15 DEF RegistryInv, NamesAreHeld

(* Everything else leaves the registry alone.                                  *)
LEMMA OthersKeep ==
  ASSUME RegistryInv, UNCHANGED vars
  PROVE  RegistryInv'
BY DEF RegistryInv, vars, TypeOK, Consistent, Distinct, NamesAreHeld, LastOneIsReachable,
       PushesDoNotStray

(* Every step of the daemon and its clients keeps the invariant.               *)
LEMMA StepKeeps ==
  ASSUME RegistryInv, [LNext]_lvars
  PROVE  RegistryInv'
<1>1. CASE UNCHANGED lvars
  BY <1>1, OthersKeep DEF lvars
<1>2. ASSUME NEW c \in Connections, Dial(c) PROVE RegistryInv'
  BY <1>2, AcceptKeeps DEF Dial
<1>3. ASSUME NEW c \in Connections, Exit(c) PROVE RegistryInv'
  BY <1>3, OthersKeep DEF Exit
<1>4. ASSUME NEW c \in Connections, Handle(c) PROVE RegistryInv'
  <2> DEFINE r == Head(toServer[c])
  <2>1. \/ HandleRegister(c, r) \/ HandleSend(c, r)
        \/ HandleRead(c, r) \/ HandleList(c, r) \/ HandleMetrics(c, r)
    BY <1>4 DEF Handle
  <2> HIDE DEF r
  <2>2. CASE HandleRegister(c, r)
    <3>1. Register(c, Name[c]) /\ Name[c] \in Workspaces
      BY <2>2, DaemonLinkAssumption DEF HandleRegister
    <3>2. QED BY <3>1, RegisterKeeps
  <2>3. CASE HandleSend(c, r)
    BY <2>3, OthersKeep DEF HandleSend
  <2>4. CASE HandleRead(c, r) \/ HandleList(c, r) \/ HandleMetrics(c, r)
    BY <2>4, OthersKeep DEF HandleRead, HandleList, HandleMetrics
  <2>5. QED BY <2>1, <2>2, <2>3, <2>4
<1>5. ASSUME NEW c \in Connections, PutReply(c) \/ ForwardPush(c) PROVE RegistryInv'
  BY <1>5, OthersKeep DEF PutReply, ForwardPush
<1>6. ASSUME NEW c \in Connections, Hangup(c) PROVE RegistryInv'
  BY <1>6, DisconnectKeeps DEF Hangup
<1>7. ASSUME NEW c \in Connections, Listen(c) PROVE RegistryInv'
  BY <1>7, OthersKeep DEF Listen, Receive, ReaderEnds
<1>8. ASSUME NEW c \in Connections, NEW tool, NEW to, NEW re, StartCall(c, tool, to, re)
      PROVE  RegistryInv'
  BY <1>8, OthersKeep DEF StartCall
<1>9. ASSUME NEW n \in DOMAIN calls, Poll(n) \/ Deadline(n) \/ Timeout(n) PROVE RegistryInv'
  BY <1>9, OthersKeep DEF Poll, Deadline, Timeout
<1>10. CASE DaemonRestarts
  BY <1>10, RestartKeeps
<1>11. CASE FlushQueue
  BY <1>11, OthersKeep DEF FlushQueue
<1>12. QED
  BY <1>1, <1>2, <1>3, <1>4, <1>5, <1>6, <1>7, <1>8, <1>9, <1>10, <1>11 DEF LNext, Serve

(* The last connection to register a name is the one reachable under it, and   *)
(* what is pushed to the name goes to a connection that was granted that very   *)
(* registration: however registrations, evictions, late disconnects and daemon *)
(* restarts interleave (registry.rs, handle_connection in server.rs).          *)
THEOREM NamesHold == LSpec => []NamesAreHeld
<1>1. RegistryInv => NamesAreHeld
  BY DEF RegistryInv
<1>2. QED BY <1>1, StartIsRegistered, StepKeeps, PTL DEF LSpec

-----------------------------------------------------------------------------
(* What is under way between the calls and the daemon                         *)

(* Tools that make one request.                                               *)
Once     == {"connect", "send_message", "read_messages", "status_reporter"}
Kinds    == {"register", "send", "read", "list", "metrics"}
Places   == {"wait", "sleep"} \union Ended
Call     == [conn : Connections, tool : Tools \union {"connect"}, to : Workspaces, re : Nat,
             at : Places, kind : Kinds \union {"none"}, seq : Nat,
             polls : Nat, got : SUBSET Message, clean : BOOLEAN]
Question == [call : Nat, seq : Nat, kind : Kinds, to : Workspaces, re : Nat]

(* All of the link's state is well formed.                                    *)
LinkType ==
  /\ process \in [Connections -> {"off", "dialing", "up", "cut"}]
  /\ calls \in Seq(Call)
  /\ toServer \in [Connections -> Seq(Question)]
  /\ reply \in [Connections -> Answer \union {NoReply}]
  /\ outgoing \in [Connections -> Seq(Answer \union {Push})]
  /\ outbox \in [Connections -> 0..Capacity]
  /\ inbox \in [Workspaces -> SUBSET Message] /\ saved \in [Workspaces -> SUBSET Message]
  /\ dropped \in SUBSET [msg : Message, call : Nat]
  /\ faults \in 0..MaxFaults
  /\ \A c \in Connections : Len(outgoing[c]) <= Capacity
  /\ \A w \in Workspaces : \A m \in inbox[w] : m.to = w
  /\ \A w \in Workspaces : \A m \in saved[w] : m.to = w

(* The requests and the answers under way on a connection.                    *)
Requests(c) == Range(toServer[c])
OnWire(o, p) == (Range(o) \union {p}) \ {NoReply, Push}
Answers(c)  == OnWire(outgoing[c], reply[c])

(* The place of a request in the program of its tool.                         *)
Stage(tool, kind, seq) ==
  \/ tool \in Once /\ kind = First(tool) /\ seq = 1
  \/ tool = "request_message" /\ kind = "send" /\ seq = 1
  \/ tool = "request_message" /\ kind \in {"read", "list"} /\ seq >= 2
  \/ tool = "inspect_agent" /\ kind = "list" /\ seq = 1
  \/ tool = "inspect_agent" /\ kind = "send" /\ seq = 2
  \/ tool = "inspect_agent" /\ kind = "read" /\ seq >= 3

Active(n) == calls[n].at \notin Ended

(* A call that has not ended is at a place of its program, its client lives,  *)
(* and a client that blocks or dials has one such call.                       *)
CallsInv ==
  /\ \A n \in DOMAIN calls : Active(n) =>
       /\ Stage(calls[n].tool, calls[n].kind, calls[n].seq)
       /\ calls[n].at = "sleep" => calls[n].kind = "read" /\ calls[n].tool \in Polling
       /\ process[calls[n].conn] # "off"
       /\ process[calls[n].conn] = "dialing" <=> calls[n].tool = "connect"
  /\ \A n, k \in DOMAIN calls :
       /\ Active(n) /\ Active(k) /\ calls[n].conn = calls[k].conn
       /\ calls[n].conn \notin Mcp \/ process[calls[n].conn] = "dialing"
       => n = k

(* What is under way belongs to a call of the connection and is not ahead of  *)
(* it.                                                                        *)
ItemsInv ==
  \A c \in Connections :
    /\ \A r \in Requests(c) :
         /\ r.call \in DOMAIN calls /\ calls[r.call].conn = c
         /\ Stage(calls[r.call].tool, r.kind, r.seq)
         /\ r.to = calls[r.call].to /\ r.re = calls[r.call].re
         /\ calls[r.call].tool \in Once => calls[r.call].at # "ok"
         /\ Active(r.call) => r.seq <= calls[r.call].seq
    /\ \A e \in Answers(c) :
         /\ e.call \in DOMAIN calls /\ calls[e.call].conn = c
         /\ calls[e.call].tool \in Once => e.seq = 1 /\ calls[e.call].at # "ok"
         /\ Active(e.call) => e.seq <= calls[e.call].seq

(* Call and place name one request or one answer, not both.                   *)
KeysInv ==
  \A c \in Connections :
    /\ \A r, s \in Requests(c) : r.call = s.call /\ r.seq = s.seq => r = s
    /\ \A e, f \in Answers(c) : e.call = f.call /\ e.seq = f.seq => e = f
    /\ \A r \in Requests(c), e \in Answers(c) : ~(r.call = e.call /\ r.seq = e.seq)

(* No request and no answer is in line twice; what waits for the line is not  *)
(* on it.                                                                     *)
Line(s)    == \A i, j \in DOMAIN s : s[i] = s[j] => i = j
Wire(o, p) == /\ \A i, j \in DOMAIN o : o[i] = o[j] /\ o[i] # Push => i = j
              /\ \A i \in DOMAIN o : o[i] # p

LinesInv == \A c \in Connections : Line(toServer[c]) /\ Wire(outgoing[c], reply[c])

(* A connection takes the name of its client with the first request; until    *)
(* then nothing else is on it, and when both ends are gone nothing is left.   *)
ConnInv ==
  \A c \in Connections :
    /\ conn[c].open => conn[c].workspace \in {Name[c], Unnamed}
    /\ conn[c].open /\ conn[c].workspace = Unnamed =>
         /\ process[c] \in {"dialing", "off"} /\ Answers(c) = {}
         /\ \A r \in Requests(c) : r.kind = "register"
    /\ ~conn[c].open => reply[c] = NoReply
    /\ ~conn[c].open /\ process[c] = "off" => \A e \in Answers(c) : e.got = {}
    /\ process[c] = "dialing" => /\ \A r \in Requests(c) : r.kind = "register"
                                 /\ \A e \in Answers(c) : e.got = {}

Got(m)     == \E n \in DOMAIN calls : m \in calls[n].got
Lost(m)    == \E d \in dropped : d.msg = m
Carried(m) == \E c \in Connections : \E e \in Answers(c) : m \in e.got
Unread(m)  == \E w \in Workspaces : m \in inbox[w]
Kept(m)    == \E w \in Workspaces : m \in saved[w]
Known(m)   == Unread(m) \/ Carried(m) \/ Got(m) \/ Lost(m) \/ m \in missing

(* A message that no restart brought back is in one place.                    *)
PlacesInv ==
  \A m : m \notin again =>
    /\ Unread(m) => ~Got(m) /\ ~Lost(m) /\ ~Carried(m)
    /\ Carried(m) => ~Got(m) /\ ~Lost(m)
    /\ Lost(m) => ~Got(m)
    /\ \A c, d \in Connections : \A e \in Answers(c), f \in Answers(d) : m \in e.got /\ m \in f.got => e = f
    /\ \A n, k \in DOMAIN calls : m \in calls[n].got /\ m \in calls[k].got => n = k

(* A call sends one message: who has sent will not send again.                *)
Authored(n) ==
  /\ n \in DOMAIN calls
  /\ ~(calls[n].tool = "inspect_agent" /\ Active(n) /\ calls[n].seq = 1)
  /\ \A c \in Connections : \A r \in Requests(c) : r.call = n => r.kind # "send"

AuthorInv == \A m : Known(m) \/ Kept(m) => m.by = 0 \/ Authored(m.by)

(* The message a call sends.                                                  *)
Its(n) == [by |-> n, from |-> Name[calls[n].conn], to |-> calls[n].to, re |-> calls[n].re]

(* A send that succeeds has sent; whose answer is lost gets no other one.     *)
FateInv ==
  /\ \A n \in DOMAIN calls : calls[n].tool = "send_message" /\ calls[n].at = "ok" => Known(Its(n))
  /\ \A c \in Connections : \A e \in Answers(c) :
       e.ok /\ calls[e.call].tool = "send_message" => Known(Its(e.call))
  /\ \A d \in dropped :
       /\ d.call \in DOMAIN calls
       /\ \/ calls[d.call].tool \in Polling
          \/ /\ calls[d.call].at # "ok"
             /\ \A c \in Connections : /\ \A r \in Requests(c) : r.call # d.call
                                       /\ \A e \in Answers(c) : e.call # d.call

(* To a caller that nothing else was sent, only its answer comes.  A call on  *)
(* a dead connection does not read the inbox any more.                        *)
CleanInv ==
  \A n \in DOMAIN calls :
    /\ calls[n].tool \in Polling /\ calls[n].at = "ok" => calls[n].got # {}
    /\ calls[n].clean =>
         /\ calls[n].tool \in Polling
         /\ Active(n) /\ conn[calls[n].conn].open =>
              \A m \in inbox[Name[calls[n].conn]] : m.from = calls[n].to => m.re = n
         /\ \A c \in Connections : \A e \in Answers(c) :
              Active(n) /\ e.call = n => \A m \in e.got : m.from = calls[n].to /\ m.re = n
         /\ \A m \in calls[n].got : m.from = calls[n].to /\ m.re = n

(* The inductive invariant of the link.                                       *)
LinkInv ==
  /\ RegistryInv /\ LinkType /\ CallsInv /\ ItemsInv /\ KeysInv /\ LinesInv /\ ConnInv
  /\ PlacesInv /\ AuthorInv /\ FateInv /\ CleanInv

-----------------------------------------------------------------------------
(* Lines                                                                      *)

(* What is in a line that grows.                                              *)
LEMMA RangeOfAppend ==
  ASSUME NEW S, NEW s \in Seq(S), NEW x
  PROVE  /\ Range(Append(s, x)) = Range(s) \union {x}
         /\ DOMAIN Append(s, x) = DOMAIN s \union {Len(s) + 1} /\ Len(s) + 1 \notin DOMAIN s
         /\ \A i \in DOMAIN s : Append(s, x)[i] = s[i]
         /\ Append(s, x)[Len(s) + 1] = x
BY DEF Range

(* What is in a line that shrinks.                                            *)
LEMMA RangeOfTail ==
  ASSUME NEW S, NEW s \in Seq(S), s # <<>>
  PROVE  /\ Range(Tail(s)) \subseteq Range(s) /\ Range(s) = Range(Tail(s)) \union {Head(s)}
         /\ Head(s) = s[1] /\ 1 \in DOMAIN s /\ Head(s) \in S
         /\ \A i \in DOMAIN Tail(s) : i + 1 \in DOMAIN s /\ i + 1 # 1 /\ Tail(s)[i] = s[i + 1] /\ i \in Int
<1>1. /\ Len(s) \in Nat /\ Len(s) > 0 /\ DOMAIN s = 1..Len(s) /\ Head(s) = s[1] /\ s[1] \in S
      /\ Tail(s) \in Seq(S) /\ Len(Tail(s)) = Len(s) - 1 /\ DOMAIN Tail(s) = 1..(Len(s) - 1)
      /\ \A i \in 1..(Len(s) - 1) : Tail(s)[i] = s[i + 1]
  BY HeadTailProperties, EmptySeq
<1>2. \A i \in DOMAIN Tail(s) : i + 1 \in DOMAIN s /\ i + 1 # 1 /\ Tail(s)[i] = s[i + 1] /\ i \in Int
  BY <1>1
<1>3. Range(Tail(s)) \subseteq Range(s)
  BY <1>2 DEF Range
<1>4. ASSUME NEW j \in DOMAIN s, j # 1 PROVE s[j] \in Range(Tail(s))
  <2>1. j - 1 \in DOMAIN Tail(s) /\ Tail(s)[j - 1] = s[j]
    BY <1>1, <1>4
  <2>2. QED BY <2>1 DEF Range
<1>5. Range(s) = Range(Tail(s)) \union {Head(s)}
  BY <1>1, <1>3, <1>4 DEF Range
<1>6. QED BY <1>1, <1>2, <1>3, <1>5

(* Taking the head takes it out, when it is there once.                       *)
LEMMA RangeWithoutHead ==
  ASSUME NEW S, NEW s \in Seq(S), s # <<>>, \A i \in DOMAIN s : s[i] = Head(s) => i = 1
  PROVE  Range(Tail(s)) = Range(s) \ {Head(s)}
<1>1. \A i \in DOMAIN Tail(s) : Tail(s)[i] # Head(s)
  BY RangeOfTail
<1>2. Head(s) \notin Range(Tail(s))
  BY <1>1 DEF Range
<1>3. QED BY <1>2, RangeOfTail

(* A line grows by what is not in it.                                         *)
LEMMA LineGrows ==
  ASSUME NEW S, NEW s \in Seq(S), Line(s), NEW x, x \notin Range(s)
  PROVE  Line(Append(s, x))
BY RangeOfAppend DEF Line, Range

(* The head of a line is in it once.                                          *)
LEMMA LineShrinks ==
  ASSUME NEW S, NEW s \in Seq(S), s # <<>>, Line(s)
  PROVE  Line(Tail(s)) /\ Range(Tail(s)) = Range(s) \ {Head(s)}
<1>1. Range(Tail(s)) = Range(s) \ {Head(s)}
  BY RangeOfTail, RangeWithoutHead DEF Line
<1>2. ASSUME NEW i \in DOMAIN Tail(s), NEW j \in DOMAIN Tail(s), Tail(s)[i] = Tail(s)[j] PROVE i = j
  <2>1. s[i + 1] = s[j + 1] /\ i + 1 \in DOMAIN s /\ j + 1 \in DOMAIN s /\ i \in Int /\ j \in Int
    BY <1>2, RangeOfTail
  <2>2. i + 1 = j + 1
    BY <2>1 DEF Line
  <2>3. QED BY <2>1, <2>2
<1>3. QED BY <1>1, <1>2 DEF Line

(* An answer or a push is put on the wire.                                    *)
LEMMA WireGrows ==
  ASSUME NEW o \in Seq(Answer \union {Push}), NEW p, Wire(o, p), NEW x \in Answer \union {Push},
         x = Push \/ x \notin Range(o), x # p
  PROVE  Wire(Append(o, x), p) /\ OnWire(Append(o, x), p) = OnWire(o, p) \union ({x} \ {Push})
<1>1. x # NoReply
  BY DaemonLinkAssumption
<1>2. OnWire(Append(o, x), p) = OnWire(o, p) \union ({x} \ {Push})
  BY <1>1, RangeOfAppend DEF OnWire
<1>3. Wire(Append(o, x), p)
  BY RangeOfAppend DEF Wire, Range
<1>4. QED BY <1>2, <1>3

(* An answer or a push is read from the wire.                                 *)
LEMMA WireShrinks ==
  ASSUME NEW o \in Seq(Answer \union {Push}), NEW p, Wire(o, p), o # <<>>
  PROVE  /\ Wire(Tail(o), p) /\ OnWire(Tail(o), p) = OnWire(o, p) \ {Head(o)}
         /\ Head(o) # Push => Head(o) \in OnWire(o, p)
<1>1. Head(o) \in Answer \union {Push} /\ Head(o) # NoReply /\ Head(o) # p
  BY RangeOfTail, DaemonLinkAssumption DEF Wire
<1>2. OnWire(Tail(o), p) = OnWire(o, p) \ {Head(o)}
  <2>1. CASE Head(o) = Push
    BY <2>1, RangeOfTail DEF OnWire
  <2>2. CASE Head(o) # Push
    <3>1. Range(Tail(o)) = Range(o) \ {Head(o)}
      BY <2>2, RangeOfTail, RangeWithoutHead DEF Wire
    <3>2. QED BY <1>1, <3>1 DEF OnWire
  <2>3. QED BY <2>1, <2>2
<1>3. ASSUME NEW i \in DOMAIN Tail(o), NEW j \in DOMAIN Tail(o), Tail(o)[i] = Tail(o)[j], Tail(o)[i] # Push
      PROVE  i = j
  <2>1. o[i + 1] = o[j + 1] /\ o[i + 1] # Push /\ i + 1 \in DOMAIN o /\ j + 1 \in DOMAIN o /\ i \in Int /\ j \in Int
    BY <1>3, RangeOfTail
  <2>2. i + 1 = j + 1
    BY <2>1 DEF Wire
  <2>3. QED BY <2>1, <2>2
<1>4. \A i \in DOMAIN Tail(o) : Tail(o)[i] # p
  BY RangeOfTail DEF Wire
<1>5. Head(o) # Push => Head(o) \in OnWire(o, p)
  BY <1>1, RangeOfTail DEF OnWire
<1>6. QED BY <1>2, <1>3, <1>4, <1>5 DEF Wire

(* An empty line.                                                             *)
LEMMA NothingInLine ==
  /\ \A S : <<>> \in Seq(S) /\ Range(<<>>) = {} /\ Line(<<>>) /\ Len(<<>>) = 0
  /\ OnWire(<<>>, NoReply) = {} /\ \A p : Wire(<<>>, p)
BY DEF Range, Line, Wire, OnWire

(* The fields of calls, requests and answers.                                 *)
LEMMA Typed ==
  ASSUME LinkType
  PROVE  /\ \A c \in Connections : \A r \in Requests(c) :
              /\ r \in Question /\ r.call \in Nat /\ r.seq \in Nat /\ r.kind \in Kinds
              /\ r.to \in Workspaces /\ r.re \in Nat
         /\ \A c \in Connections : \A e \in Answers(c) :
              /\ e \in Answer /\ e.call \in Nat /\ e.seq \in Nat /\ e.ok \in BOOLEAN
              /\ e.got \in SUBSET Message /\ e.found \in BOOLEAN
         /\ \A n \in DOMAIN calls :
              /\ n \in Nat /\ n # 0 /\ n <= Len(calls)
              /\ calls[n] \in Call /\ calls[n].conn \in Connections /\ calls[n].tool \in Tools \union {"connect"}
              /\ calls[n].to \in Workspaces /\ calls[n].re \in Nat /\ calls[n].at \in Places
              /\ calls[n].kind \in Kinds \union {"none"} /\ calls[n].seq \in Nat /\ calls[n].polls \in Nat
              /\ calls[n].got \in SUBSET Message /\ calls[n].clean \in BOOLEAN
         /\ Len(calls) \in Nat /\ DOMAIN calls = 1..Len(calls)
<1>1. \A c \in Connections : \A r \in Requests(c) : r \in Question
  <2>1. \A c \in Connections : toServer[c] \in Seq(Question)
    BY DEF LinkType
  <2>2. QED BY <2>1 DEF Requests, Range
<1>2. \A c \in Connections : \A e \in Answers(c) : e \in Answer
  <2>1. \A c \in Connections : outgoing[c] \in Seq(Answer \union {Push}) /\ reply[c] \in Answer \union {NoReply}
    BY DEF LinkType
  <2>2. QED BY <2>1 DEF Answers, OnWire, Range
<1>3. Len(calls) \in Nat /\ DOMAIN calls = 1..Len(calls) /\ \A n \in DOMAIN calls : calls[n] \in Call
  BY DEF LinkType
<1>4. \A r \in Question : /\ r.call \in Nat /\ r.seq \in Nat /\ r.kind \in Kinds
                          /\ r.to \in Workspaces /\ r.re \in Nat
  BY DEF Question
<1>5. \A e \in Answer : /\ e.call \in Nat /\ e.seq \in Nat /\ e.ok \in BOOLEAN
                        /\ e.got \in SUBSET Message /\ e.found \in BOOLEAN
  BY DEF Answer
<1>6. \A k \in Call :
        /\ k.conn \in Connections /\ k.tool \in Tools \union {"connect"}
        /\ k.to \in Workspaces /\ k.re \in Nat /\ k.at \in Places
        /\ k.kind \in Kinds \union {"none"} /\ k.seq \in Nat /\ k.polls \in Nat
        /\ k.got \in SUBSET Message /\ k.clean \in BOOLEAN
  BY DEF Call
<1>7. \A n \in DOMAIN calls : n \in Nat /\ n # 0 /\ n <= Len(calls)
  BY <1>3
<1>8. QED BY <1>1, <1>2, <1>3, <1>4, <1>5, <1>6, <1>7

-----------------------------------------------------------------------------
(* What the steps do to the calls, the messages and what is under way         *)

SameQuestion(k, l) == k.conn = l.conn /\ k.tool = l.tool /\ k.to = l.to /\ k.re = l.re

(* Requests and answers go away, answers with their messages into `dropped',  *)
(* and calls fail; the inboxes are saved, or go back to what was saved.       *)
Shed ==
  /\ \A c \in Connections : Requests(c)' \subseteq Requests(c) /\ Answers(c)' \subseteq Answers(c)
  /\ DOMAIN calls' = DOMAIN calls
  /\ \A n \in DOMAIN calls :
       \/ calls'[n] = calls[n]
       \/ /\ SameQuestion(calls'[n], calls[n]) /\ calls'[n].at \in {"error", "gone"}
          /\ calls'[n].got = calls[n].got /\ calls'[n].clean = calls[n].clean
  /\ \A w \in Workspaces : \A m \in inbox'[w] : m \in inbox[w] \/ (m \in saved[w] /\ m \in again')
  /\ \A w \in Workspaces : \A m \in inbox[w] : m \in inbox'[w] \/ m \in missing'
  /\ \A w \in Workspaces : \A m \in saved'[w] : m \in saved[w] \/ m \in inbox[w]
  /\ missing \subseteq missing' /\ again \subseteq again' /\ \A m \in missing' : m \in missing \/ Unread(m)
  /\ \A c \in Connections : conn'[c].open => conn[c].open /\ inbox' = inbox
  /\ dropped \subseteq dropped'
  /\ \A d \in dropped' : d \notin dropped =>
       \E c \in Connections : \E e \in Answers(c) : e \notin Answers(c)' /\ d.call = e.call /\ d.msg \in e.got
  /\ \A c \in Connections : \A e \in Answers(c) : e \notin Answers(c)' =>
       \A m \in e.got : \E d \in dropped' : d.msg = m

FlowInv == ItemsInv /\ KeysInv /\ PlacesInv /\ AuthorInv /\ FateInv /\ CleanInv

(* What is shed is accounted for: every message of it is in `dropped'.        *)
LEMMA ShedKeeps ==
  ASSUME LinkType, FlowInv, Shed
  PROVE  FlowInv'
<1> USE DEF FlowInv
<1>1. ItemsInv'
  BY DEF ItemsInv, Shed, SameQuestion, Active, Ended
<1>2. KeysInv'
  BY DEF KeysInv, Shed
<1>3. /\ \A m : Unread(m)' => Unread(m) \/ (Kept(m) /\ m \in again')
      /\ \A m : Unread(m) => Unread(m)' \/ m \in missing'
      /\ \A m : Kept(m)' => Kept(m) \/ Unread(m)
      /\ \A m : m \in missing' => m \in missing \/ Unread(m)
      /\ \A m : m \in missing => m \in missing'
      /\ \A m : m \notin again' => m \notin again
      /\ \A m : Got(m)' <=> Got(m)
      /\ \A m : Carried(m)' => Carried(m)
      /\ \A m : Lost(m) => Lost(m)'
      /\ \A m : Lost(m)' => Lost(m) \/ Carried(m)
      /\ \A m : Carried(m) => Carried(m)' \/ Lost(m)'
  <2>1. /\ \A m : Unread(m)' => Unread(m) \/ (Kept(m) /\ m \in again')
        /\ \A m : Unread(m) => Unread(m)' \/ m \in missing'
        /\ \A m : Kept(m)' => Kept(m) \/ Unread(m)
    BY DEF Unread, Kept, Shed
  <2>2. QED BY <2>1 DEF Got, Carried, Lost, Shed
<1>4. ASSUME NEW m, m \notin again', Carried(m)' PROVE ~Lost(m)'
  <2> SUFFICES ASSUME Lost(m)' PROVE FALSE
    OBVIOUS
  <2>1. PICK c \in Connections : \E e \in Answers(c)' : m \in e.got
    BY <1>4 DEF Carried
  <2>2. PICK e \in Answers(c)' : m \in e.got
    BY <2>1
  <2>3. e \in Answers(c) /\ Carried(m)
    BY <2>2 DEF Shed, Carried
  <2>4. ~Lost(m) /\ m \notin again
    BY <1>3, <1>4, <2>3 DEF PlacesInv
  <2>5. PICK d \in dropped' : d.msg = m /\ d \notin dropped
    BY <2>4 DEF Lost
  <2>6. PICK b \in Connections : \E f \in Answers(b) : f \notin Answers(b)' /\ m \in f.got
    BY <2>5 DEF Shed
  <2>6a. PICK f \in Answers(b) : f \notin Answers(b)' /\ m \in f.got
    BY <2>6
  <2>7. e = f
    BY <2>2, <2>3, <2>4, <2>6a DEF PlacesInv
  <2>8. b = c
    BY <2>3, <2>7 DEF ItemsInv
  <2>9. QED BY <2>2, <2>6a, <2>7, <2>8
<1>5. PlacesInv'
  <2> SUFFICES ASSUME NEW m, m \notin again'
               PROVE  /\ Unread(m)' => ~Got(m)' /\ ~Lost(m)' /\ ~Carried(m)'
                      /\ Carried(m)' => ~Got(m)' /\ ~Lost(m)'
                      /\ Lost(m)' => ~Got(m)'
                      /\ \A c, d \in Connections : \A e \in Answers(c)', f \in Answers(d)' :
                           m \in e.got /\ m \in f.got => e = f
                      /\ \A n, k \in DOMAIN calls' : m \in calls'[n].got /\ m \in calls'[k].got => n = k
    BY DEF PlacesInv
  <2>0. m \notin again
    BY <1>3
  <2>1. Unread(m)' => ~Got(m)' /\ ~Lost(m)' /\ ~Carried(m)'
    BY <1>3, <2>0 DEF PlacesInv
  <2>2. (Carried(m)' => ~Got(m)' /\ ~Lost(m)') /\ (Lost(m)' => ~Got(m)')
    BY <1>3, <1>4, <2>0 DEF PlacesInv
  <2>3. \A c, d \in Connections : \A e \in Answers(c)', f \in Answers(d)' : m \in e.got /\ m \in f.got => e = f
    BY <2>0 DEF PlacesInv, Shed
  <2>4. \A n, k \in DOMAIN calls' : m \in calls'[n].got /\ m \in calls'[k].got => n = k
    BY <2>0 DEF PlacesInv, Shed
  <2>5. QED BY <2>1, <2>2, <2>3, <2>4
<1>6. /\ \A m : Known(m) => Known(m)'
      /\ \A m : Known(m)' \/ Kept(m)' => Known(m) \/ Kept(m)
  BY <1>3 DEF Known
<1>7. AuthorInv'
  <2>1. \A n : Authored(n) => Authored(n)'
    BY DEF Authored, Shed, SameQuestion, Active, Ended
  <2>2. QED BY <1>6, <2>1 DEF AuthorInv
<1>8. FateInv'
  <2>1. \A n \in DOMAIN calls : Its(n)' = Its(n)
    BY DEF Its, Shed, SameQuestion
  <2>2. ASSUME NEW n \in DOMAIN calls', calls'[n].tool = "send_message", calls'[n].at = "ok"
        PROVE  Known(Its(n))'
    <3>1. n \in DOMAIN calls /\ calls[n].tool = "send_message" /\ calls[n].at = "ok"
      BY <2>2 DEF Shed
    <3>2. Known(Its(n))
      BY <3>1 DEF FateInv
    <3>3. QED BY <1>6, <2>1, <3>1, <3>2
  <2>3. ASSUME NEW c \in Connections, NEW e \in Answers(c)', e.ok, calls'[e.call].tool = "send_message"
        PROVE  Known(Its(e.call))'
    <3>1. e \in Answers(c) /\ e.call \in DOMAIN calls /\ calls[e.call].tool = "send_message"
      BY <2>3 DEF Shed, ItemsInv, SameQuestion
    <3>2. Known(Its(e.call))
      BY <2>3, <3>1 DEF FateInv
    <3>3. QED BY <1>6, <2>1, <3>1, <3>2
  <2>4. ASSUME NEW d \in dropped'
        PROVE  /\ d.call \in DOMAIN calls'
               /\ \/ calls'[d.call].tool \in Polling
                  \/ /\ calls'[d.call].at # "ok"
                     /\ \A c \in Connections : /\ \A r \in Requests(c)' : r.call # d.call
                                               /\ \A e \in Answers(c)' : e.call # d.call
    <3>1. CASE d \in dropped
      BY <3>1 DEF FateInv, Shed, SameQuestion
    <3>2. CASE d \notin dropped
      <4>1. PICK c \in Connections : \E e \in Answers(c) : e \notin Answers(c)' /\ d.call = e.call /\ d.msg \in e.got
        BY <3>2, <2>4 DEF Shed
      <4>2. PICK e \in Answers(c) : e \notin Answers(c)' /\ d.call = e.call
        BY <4>1
      <4>3. d.call \in DOMAIN calls' /\ calls[d.call].conn = c /\ calls'[d.call].tool = calls[d.call].tool
        BY <4>2 DEF ItemsInv, Shed, SameQuestion
      <4>4. CASE calls[d.call].tool \in Polling
        BY <4>3, <4>4
      <4>5. CASE calls[d.call].tool \notin Polling
        <5>1. calls[d.call] \in Call
          BY <4>3 DEF LinkType, Shed
        <5>2. calls[d.call].tool \in Once /\ e.seq = 1 /\ calls'[d.call].at # "ok"
          BY <4>2, <4>3, <4>5, <5>1 DEF Call, Tools, Polling, Once, ItemsInv, Shed
        <5>3. \A b \in Connections : \A r \in Requests(b)' : r.call # d.call
          BY <4>2, <4>3, <5>2 DEF ItemsInv, KeysInv, Shed, Stage, Once
        <5>4. \A b \in Connections : \A f \in Answers(b)' : f.call # d.call
          BY <4>2, <4>3, <5>2 DEF ItemsInv, KeysInv, Shed
        <5>5. QED BY <4>3, <5>2, <5>3, <5>4
      <4>6. QED BY <4>4, <4>5
    <3>3. QED BY <3>1, <3>2
  <2>5. QED BY <2>2, <2>3, <2>4 DEF FateInv
<1>9. CleanInv'
  <2> SUFFICES ASSUME NEW n \in DOMAIN calls'
               PROVE  (/\ calls[n].tool \in Polling /\ calls[n].at = "ok" => calls[n].got # {}
                       /\ calls[n].clean =>
                            /\ calls[n].tool \in Polling
                            /\ Active(n) /\ conn[calls[n].conn].open =>
                                 \A m \in inbox[Name[calls[n].conn]] : m.from = calls[n].to => m.re = n
                            /\ \A c \in Connections : \A e \in Answers(c) :
                                 Active(n) /\ e.call = n => \A m \in e.got : m.from = calls[n].to /\ m.re = n
                            /\ \A m \in calls[n].got : m.from = calls[n].to /\ m.re = n)'
    BY DEF CleanInv
  <2>1. n \in DOMAIN calls /\ (Active(n)' => Active(n)) /\ calls[n].conn \in Connections
    BY Typed DEF Shed, Active, Ended
  <2>2. QED BY <2>1 DEF CleanInv, Shed, SameQuestion
<1>10. QED BY <1>1, <1>2, <1>5, <1>7, <1>8, <1>9

(* Call k begins on connection c, with a request unless it fails at once.     *)
Begin(c, k) ==
  LET n == Len(calls) + 1
  IN  /\ calls' = Append(calls, k) /\ k \in Call /\ k.conn = c /\ k.got = {} /\ k.at \in {"wait", "error"}
      /\ k.at = "wait" => Stage(k.tool, k.kind, k.seq) /\ k.seq = 1
      /\ k.clean => k.tool \in Polling /\ \A m \in inbox[Name[c]] : m.from # k.to
      /\ \A d \in Connections : \A r \in Requests(d)' :
           r \in Requests(d) \/ (d = c /\ k.at = "wait" /\ r = Request(n, k))
      /\ \A d \in Connections : Answers(d)' \subseteq Answers(d)
      /\ \A d \in Connections : \A e \in Answers(d) : e \notin Answers(d)' => e.got = {}
      /\ \A l \in DOMAIN calls : Active(l) /\ conn'[calls[l].conn].open => conn[calls[l].conn].open
      /\ UNCHANGED <<inbox, saved, missing, again, dropped>>

(* A new call has a number that nothing under way carries.                    *)
LEMMA BeginKeeps ==
  ASSUME LinkType, FlowInv, NEW c \in Connections, NEW k, Begin(c, k)
  PROVE  FlowInv'
<1> USE DEF FlowInv
<1> DEFINE n == Len(calls) + 1
<1>1. /\ n \notin DOMAIN calls /\ DOMAIN calls' = DOMAIN calls \union {n}
      /\ calls'[n] = k /\ \A l \in DOMAIN calls : calls'[l] = calls[l]
      /\ n \in Nat /\ n # 0
  <2>1. calls \in Seq(Call) /\ Len(calls) \in Nat
    BY DEF LinkType
  <2>2. QED BY <2>1, RangeOfAppend DEF Begin
<1> DEFINE q == Request(n, k)
<1>2. q.call = n /\ q.seq = k.seq /\ q.kind = k.kind /\ q.to = k.to /\ q.re = k.re
  BY DEF Request
<1>3. \A d \in Connections : \A r \in Requests(d)' : r \in Requests(d) \/ (d = c /\ k.at = "wait" /\ r = q)
  BY DEF Begin
<1>3a. k.at = "wait" => Stage(k.tool, k.kind, k.seq) /\ k.seq = 1
  BY DEF Begin
<1> HIDE DEF n, q
<1>4. \A d \in Connections : /\ \A r \in Requests(d) : r.call \in DOMAIN calls /\ r.call # n
                             /\ \A e \in Answers(d) : e.call \in DOMAIN calls /\ e.call # n
  BY <1>1 DEF ItemsInv
<1>5. ItemsInv'
  <2> SUFFICES ASSUME NEW d \in Connections
               PROVE  (/\ \A r \in Requests(d) :
                            /\ r.call \in DOMAIN calls /\ calls[r.call].conn = d
                            /\ Stage(calls[r.call].tool, r.kind, r.seq)
                            /\ r.to = calls[r.call].to /\ r.re = calls[r.call].re
                            /\ calls[r.call].tool \in Once => calls[r.call].at # "ok"
                            /\ Active(r.call) => r.seq <= calls[r.call].seq
                       /\ \A e \in Answers(d) :
                            /\ e.call \in DOMAIN calls /\ calls[e.call].conn = d
                            /\ calls[e.call].tool \in Once => e.seq = 1 /\ calls[e.call].at # "ok"
                            /\ Active(e.call) => e.seq <= calls[e.call].seq)'
    BY DEF ItemsInv
  <2>1. ASSUME NEW r \in Requests(d)'
        PROVE  /\ r.call \in DOMAIN calls' /\ calls'[r.call].conn = d
               /\ Stage(calls'[r.call].tool, r.kind, r.seq)
               /\ r.to = calls'[r.call].to /\ r.re = calls'[r.call].re
               /\ calls'[r.call].tool \in Once => calls'[r.call].at # "ok"
               /\ Active(r.call)' => r.seq <= calls'[r.call].seq
    <3>1. CASE r \in Requests(d)
      BY <1>1, <1>4, <3>1 DEF ItemsInv, Active
    <3>2. CASE d = c /\ k.at = "wait" /\ r = q
      <4>1. r.call = n /\ calls'[n] = k /\ k.conn = d /\ n \in DOMAIN calls'
        BY <1>1, <1>2, <3>2 DEF Begin
      <4>2. QED BY <1>2, <1>3a, <3>2, <4>1
    <3>3. QED BY <1>3, <3>1, <3>2
  <2>2. ASSUME NEW e \in Answers(d)'
        PROVE  /\ e.call \in DOMAIN calls' /\ calls'[e.call].conn = d
               /\ calls'[e.call].tool \in Once => e.seq = 1 /\ calls'[e.call].at # "ok"
               /\ Active(e.call)' => e.seq <= calls'[e.call].seq
    <3>1. e \in Answers(d)
      BY DEF Begin
    <3>2. QED BY <1>1, <1>4, <3>1 DEF ItemsInv, Active
  <2>3. QED BY <2>1, <2>2 DEF Active
<1>6. KeysInv'
  <2>1. \A d \in Connections : Answers(d)' \subseteq Answers(d)
    BY DEF Begin
  <2>2. QED BY <1>2, <1>3, <1>4, <2>1 DEF KeysInv
<1>7. /\ \A m : Unread(m)' <=> Unread(m)
      /\ \A m : Got(m)' <=> Got(m)
      /\ \A m : Carried(m)' <=> Carried(m)
      /\ \A m : Lost(m)' <=> Lost(m)
      /\ \A m : Kept(m)' <=> Kept(m)
      /\ missing' = missing /\ again' = again
  <2>1. \A m : Got(m)' <=> Got(m)
    BY <1>1 DEF Got, Begin
  <2>2. QED BY <2>1 DEF Unread, Carried, Lost, Kept, Begin
<1>8. PlacesInv'
  <2>1. \A d \in Connections : Answers(d)' \subseteq Answers(d)
    BY DEF Begin
  <2>2. \A l, j \in DOMAIN calls' : \A m : m \in calls'[l].got /\ m \in calls'[j].got => l = j \/ m \in again
    BY <1>1 DEF Begin, PlacesInv
  <2>3. \A b, d \in Connections : \A e \in Answers(b)', f \in Answers(d)' :
          \A m : m \in e.got /\ m \in f.got => e = f \/ m \in again
    BY <2>1 DEF PlacesInv
  <2>4. QED BY <1>7, <2>2, <2>3 DEF PlacesInv
<1>9. \A m : Known(m)' <=> Known(m)
  BY <1>7 DEF Known
<1>10. AuthorInv'
  <2>1. \A l : Authored(l) => Authored(l)'
    BY <1>1, <1>2, <1>3 DEF Authored, Active
  <2>2. QED BY <1>7, <1>9, <2>1 DEF AuthorInv
<1>11. FateInv'
  <2>1. \A l \in DOMAIN calls : Its(l)' = Its(l)
    BY <1>1 DEF Its
  <2>2. ASSUME NEW l \in DOMAIN calls', calls'[l].tool = "send_message", calls'[l].at = "ok"
        PROVE  Known(Its(l))'
    <3>1. l \in DOMAIN calls /\ calls[l].tool = "send_message" /\ calls[l].at = "ok"
      BY <1>1, <2>2 DEF Begin
    <3>2. Known(Its(l))
      BY <3>1 DEF FateInv
    <3>3. QED BY <1>9, <2>1, <3>1, <3>2
  <2>3. ASSUME NEW b \in Connections, NEW e \in Answers(b)', e.ok, calls'[e.call].tool = "send_message"
        PROVE  Known(Its(e.call))'
    <3>1. e \in Answers(b) /\ e.call \in DOMAIN calls /\ calls[e.call].tool = "send_message"
      BY <1>1, <1>4, <2>3 DEF Begin
    <3>2. Known(Its(e.call))
      BY <2>3, <3>1 DEF FateInv
    <3>3. QED BY <1>9, <2>1, <3>1, <3>2
  <2>4. ASSUME NEW d \in dropped'
        PROVE  /\ d.call \in DOMAIN calls'
               /\ \/ calls'[d.call].tool \in Polling
                  \/ /\ calls'[d.call].at # "ok"
                     /\ \A b \in Connections : /\ \A r \in Requests(b)' : r.call # d.call
                                               /\ \A e \in Answers(b)' : e.call # d.call
    <3>1. d \in dropped /\ d.call \in DOMAIN calls /\ calls'[d.call] = calls[d.call]
      BY <1>1, <2>4 DEF Begin, FateInv
    <3>2. \A b \in Connections : Answers(b)' \subseteq Answers(b)
      BY DEF Begin
    <3>3. QED BY <1>1, <1>2, <1>3, <3>1, <3>2 DEF FateInv
  <2>5. QED BY <2>2, <2>3, <2>4 DEF FateInv
<1>12. CleanInv'
  <2> SUFFICES ASSUME NEW l \in DOMAIN calls'
               PROVE  (/\ calls[l].tool \in Polling /\ calls[l].at = "ok" => calls[l].got # {}
                       /\ calls[l].clean =>
                            /\ calls[l].tool \in Polling
                            /\ Active(l) /\ conn[calls[l].conn].open =>
                                 \A m \in inbox[Name[calls[l].conn]] : m.from = calls[l].to => m.re = l
                            /\ \A b \in Connections : \A e \in Answers(b) :
                                 Active(l) /\ e.call = l => \A m \in e.got : m.from = calls[l].to /\ m.re = l
                            /\ \A m \in calls[l].got : m.from = calls[l].to /\ m.re = l)'
    BY DEF CleanInv
  <2>1. CASE l = n
    <3>1. \A b \in Connections : \A e \in Answers(b)' : e.call # n
      BY <1>4 DEF Begin
    <3>2. QED BY <1>1, <2>1, <3>1 DEF Begin
  <2>2. CASE l \in DOMAIN calls
    <3>1. /\ calls'[l] = calls[l] /\ (Active(l)' <=> Active(l))
          /\ \A b \in Connections : Answers(b)' \subseteq Answers(b)
      BY <1>1, <2>2 DEF Begin, Active
    <3>2. QED BY <2>2, <3>1 DEF CleanInv, Begin
  <2>3. QED BY <1>1, <2>1, <2>2
<1>13. QED BY <1>5, <1>6, <1>8, <1>10, <1>11, <1>12

(* Call n goes on as k: it may have taken answers, and may ask again.         *)
Move(n, k) ==
  /\ n \in DOMAIN calls /\ Active(n) /\ calls' = [calls EXCEPT ![n] = k] /\ k \in Call
  /\ SameQuestion(k, calls[n]) /\ k.clean = calls[n].clean
  /\ k.at \notin Ended => k.seq = calls[n].seq \/ k.seq = calls[n].seq + 1
  /\ \A d \in Connections : \A r \in Requests(d)' :
       \/ r \in Requests(d)
       \/ /\ d = k.conn /\ r = Request(n, k) /\ k.at = "wait" /\ k.seq = calls[n].seq + 1
          /\ Stage(k.tool, k.kind, k.seq)
  /\ \A d \in Connections : Answers(d)' \subseteq Answers(d)
  /\ \A d \in Connections : \A e \in Answers(d) :
       e \notin Answers(d)' => d = k.conn /\ e.call = n /\ e.got \subseteq k.got
  /\ calls[n].got \subseteq k.got
  /\ \A m \in k.got : m \notin calls[n].got => \E e \in Answers(k.conn) : e \notin Answers(k.conn)' /\ m \in e.got
  /\ k.at = "ok" => /\ k.tool \in Polling => k.got # {}
                    /\ \E e \in Answers(k.conn) : e \notin Answers(k.conn)' /\ e.ok
  /\ UNCHANGED <<conn, inbox, saved, missing, again, dropped>>

(* A call that goes on asks at a place it has not been at.                    *)
LEMMA MoveKeeps ==
  ASSUME LinkType, CallsInv, FlowInv, NEW n, NEW k, Move(n, k)
  PROVE  FlowInv'
<1> USE DEF FlowInv
<1>1. /\ n \in DOMAIN calls /\ Active(n) /\ DOMAIN calls' = DOMAIN calls
      /\ calls'[n] = k /\ \A l \in DOMAIN calls : l # n => calls'[l] = calls[l]
      /\ SameQuestion(k, calls[n]) /\ k.clean = calls[n].clean
      /\ \A l \in DOMAIN calls : SameQuestion(calls'[l], calls[l]) /\ calls'[l].clean = calls[l].clean
      /\ k.conn \in Connections
  <2>1. calls \in Seq(Call) /\ k \in Call /\ calls' = [calls EXCEPT ![n] = k]
    BY DEF LinkType, Move
  <2>2. k.conn \in Connections
    BY <2>1 DEF Call
  <2>3. QED BY <2>1, <2>2 DEF Move, SameQuestion
<1>2. k.seq \in Nat /\ calls[n].seq \in Nat /\ calls[n] \in Call /\ Stage(calls[n].tool, calls[n].kind, calls[n].seq)
  <2>1. k \in Call
    BY DEF Move
  <2>2. k.seq \in Nat
    BY <2>1 DEF Call
  <2>3. QED BY <1>1, <2>2, Typed DEF CallsInv
<1>2a. calls[n].seq >= 1
  BY <1>2 DEF Stage
<1> DEFINE q == Request(n, k)
           asks == k.at = "wait" /\ k.seq = calls[n].seq + 1 /\ Stage(k.tool, k.kind, k.seq)
<1>3. q.call = n /\ q.seq = k.seq /\ q.kind = k.kind /\ q.to = k.to /\ q.re = k.re
  BY DEF Request
<1>4. /\ \A d \in Connections : \A r \in Requests(d)' : r \in Requests(d) \/ (d = k.conn /\ r = q /\ asks)
      /\ \A d \in Connections : Answers(d)' \subseteq Answers(d)
  BY DEF Move
<1> HIDE DEF q
<1>5. ItemsInv'
  <2>1. ASSUME NEW d \in Connections, NEW r \in Requests(d)'
        PROVE  /\ r.call \in DOMAIN calls' /\ calls'[r.call].conn = d
               /\ Stage(calls'[r.call].tool, r.kind, r.seq)
               /\ r.to = calls'[r.call].to /\ r.re = calls'[r.call].re
               /\ calls'[r.call].tool \in Once => calls'[r.call].at # "ok"
               /\ Active(r.call)' => r.seq <= calls'[r.call].seq
    <3>1. CASE r \in Requests(d) /\ r.call # n
      BY <1>1, <2>1, <3>1 DEF ItemsInv, Active
    <3>2. CASE r \in Requests(d) /\ r.call = n
      <4>1. /\ r.call \in DOMAIN calls' /\ calls'[r.call].conn = d
            /\ Stage(calls'[r.call].tool, r.kind, r.seq)
            /\ r.to = calls'[r.call].to /\ r.re = calls'[r.call].re
        BY <1>1, <2>1, <3>2 DEF ItemsInv, SameQuestion
      <4>2. r.seq <= calls[n].seq /\ r.seq \in Nat
        BY <1>1, <2>1, <3>2, Typed DEF ItemsInv
      <4>3. Active(r.call)' => r.seq <= calls'[r.call].seq
        BY <1>1, <1>2, <3>2, <4>2 DEF Move, Active
      <4>4. ASSUME calls'[n].tool \in Once, calls'[n].at = "ok" PROVE FALSE
        <5>1. PICK e \in Answers(k.conn) : e \notin Answers(k.conn)' /\ e.call = n
          BY <1>1, <4>4 DEF Move
        <5>2. e.seq = 1 /\ r.seq = 1 /\ k.conn = d
          BY <1>1, <2>1, <3>2, <4>1, <4>4, <5>1 DEF ItemsInv, SameQuestion, Stage, Once
        <5>3. QED BY <3>2, <5>1, <5>2 DEF KeysInv
      <4>5. QED BY <3>2, <4>1, <4>3, <4>4
    <3>3. CASE d = k.conn /\ r = q /\ asks
      <4>1. r.call = n /\ calls'[n] = k /\ k.conn = d /\ n \in DOMAIN calls'
        BY <1>1, <1>3, <3>3
      <4>2. QED BY <1>2, <1>3, <3>3, <4>1
    <3>4. QED BY <1>4, <2>1, <3>1, <3>2, <3>3
  <2>2. ASSUME NEW d \in Connections, NEW e \in Answers(d)'
        PROVE  /\ e.call \in DOMAIN calls' /\ calls'[e.call].conn = d
               /\ calls'[e.call].tool \in Once => e.seq = 1 /\ calls'[e.call].at # "ok"
               /\ Active(e.call)' => e.seq <= calls'[e.call].seq
    <3>1. e \in Answers(d)
      BY <1>4, <2>2
    <3>2. CASE e.call # n
      BY <1>1, <2>2, <3>1, <3>2 DEF ItemsInv, Active
    <3>3. CASE e.call = n
      <4>1. /\ e.call \in DOMAIN calls' /\ calls'[e.call].conn = d
            /\ calls'[e.call].tool \in Once => e.seq = 1
            /\ e.seq <= calls[n].seq
        BY <1>1, <2>2, <3>1, <3>3 DEF ItemsInv, SameQuestion
      <4>3. e.seq \in Nat
        BY <3>1, Typed
      <4>4. Active(e.call)' => e.seq <= calls'[e.call].seq
        BY <1>1, <1>2, <3>3, <4>1, <4>3 DEF Move, Active
      <4>5. ASSUME calls'[n].tool \in Once, calls'[n].at = "ok" PROVE FALSE
        <5>1. PICK f \in Answers(k.conn) : f \notin Answers(k.conn)' /\ f.call = n
          BY <1>1, <4>5 DEF Move
        <5>2. e.seq = 1 /\ f.seq = 1 /\ k.conn = d
          BY <1>1, <2>2, <3>3, <4>1, <4>5, <5>1 DEF ItemsInv, SameQuestion
        <5>3. QED BY <2>2, <3>1, <3>3, <5>1, <5>2 DEF KeysInv
      <4>6. QED BY <3>3, <4>1, <4>4, <4>5
    <3>4. QED BY <3>2, <3>3
  <2>3. QED BY <2>1, <2>2 DEF ItemsInv
<1>6. KeysInv'
  <2>1. ASSUME NEW d \in Connections
        PROVE  /\ \A r \in Requests(d) : r.call = n => r.seq # calls[n].seq + 1
               /\ \A e \in Answers(d) : e.call = n => e.seq # calls[n].seq + 1
    <3>1. /\ \A r \in Requests(d) : r.seq \in Nat
          /\ \A e \in Answers(d) : e.seq \in Nat
      BY Typed
    <3>2. QED BY <1>1, <1>2, <3>1 DEF ItemsInv
  <2>2. QED BY <1>3, <1>4, <2>1 DEF KeysInv
<1>7. /\ \A m : Unread(m)' <=> Unread(m)
      /\ \A m : Lost(m)' <=> Lost(m)
      /\ \A m : Got(m) => Got(m)'
      /\ \A m : Got(m)' => Got(m) \/ Carried(m)
      /\ \A m : Carried(m)' => Carried(m)
      /\ \A m : Carried(m) => Carried(m)' \/ Got(m)'
      /\ \A m : Kept(m)' <=> Kept(m)
      /\ missing' = missing /\ again' = again
  <2>1. \A m : Got(m) => Got(m)'
    BY <1>1 DEF Got, Move
  <2>2. ASSUME NEW m, Got(m)', ~Got(m) PROVE Carried(m)
    BY <1>1, <2>2 DEF Got, Carried, Move
  <2>3. ASSUME NEW m, Carried(m), ~Carried(m)' PROVE Got(m)'
    BY <1>1, <2>3 DEF Got, Carried, Move
  <2>4. QED BY <1>4, <2>1, <2>2, <2>3 DEF Unread, Lost, Carried, Kept, Move
<1>8. ASSUME NEW m, m \notin again, m \in k.got, m \notin calls[n].got
      PROVE  ~Got(m) /\ ~Lost(m) /\ ~Unread(m) /\ ~Carried(m)'
  <2>1. PICK e \in Answers(k.conn) : e \notin Answers(k.conn)' /\ m \in e.got
    BY <1>8 DEF Move
  <2>2. Carried(m)
    BY <1>1, <2>1 DEF Carried
  <2>3. ASSUME NEW d \in Connections, NEW f \in Answers(d)', m \in f.got PROVE FALSE
    <3>1. f \in Answers(d)
      BY <1>4, <2>3
    <3>2. e = f
      BY <1>1, <1>8, <2>1, <2>3, <3>1 DEF PlacesInv
    <3>3. d = k.conn
      BY <1>1, <2>1, <2>3, <3>1, <3>2 DEF ItemsInv
    <3>4. QED BY <2>1, <2>3, <3>2, <3>3
  <2>4. QED BY <1>8, <2>2, <2>3 DEF PlacesInv, Carried
<1>9. PlacesInv'
  <2>1. \A m : m \notin again /\ Got(m)' => ~Unread(m)' /\ ~Lost(m)' /\ ~Carried(m)'
    <3>1. ASSUME NEW m, Got(m)', ~Got(m) PROVE m \in k.got /\ m \notin calls[n].got
      BY <1>1, <3>1 DEF Got
    <3>2. QED BY <1>7, <1>8, <3>1 DEF PlacesInv
  <2>2. ASSUME NEW l \in DOMAIN calls', NEW j \in DOMAIN calls', NEW m, m \notin again,
               m \in calls'[l].got, m \in calls'[j].got
        PROVE  l = j
    BY <1>1, <1>8, <2>2 DEF PlacesInv, Got
  <2>3. \A b, d \in Connections : \A e \in Answers(b)', f \in Answers(d)' :
          \A m : m \in e.got /\ m \in f.got => e = f \/ m \in again
    BY <1>4 DEF PlacesInv
  <2>4. QED BY <1>7, <2>1, <2>2, <2>3 DEF PlacesInv
<1>10. \A m : Known(m)' <=> Known(m)
  BY <1>7 DEF Known
<1>11. AuthorInv'
  <2>1. ASSUME NEW l, Authored(l) PROVE Authored(l)'
    <3>1. l \in DOMAIN calls' /\ calls'[l].tool = calls[l].tool
      BY <1>1, <2>1 DEF Authored, SameQuestion
    <3>2. ~(calls'[l].tool = "inspect_agent" /\ Active(l)' /\ calls'[l].seq = 1)
      <4>1. CASE l # n
        BY <1>1, <2>1, <4>1 DEF Authored, Active
      <4>2. CASE l = n
        BY <1>1, <1>2, <1>2a, <2>1, <4>2 DEF Authored, Active, Move, SameQuestion
      <4>3. QED BY <4>1, <4>2
    <3>3. ASSUME NEW c \in Connections, NEW r \in Requests(c)', r.call = l, r.kind = "send" PROVE FALSE
      <4>1. r = q /\ asks /\ l = n /\ k.kind = "send" /\ k.seq = calls[n].seq + 1 /\ Stage(k.tool, k.kind, k.seq)
        BY <1>3, <1>4, <2>1, <3>3 DEF Authored
      <4>2. k.tool = "inspect_agent" /\ calls[n].seq = 1
        BY <1>2, <1>2a, <4>1 DEF Stage
      <4>3. QED BY <1>1, <2>1, <4>1, <4>2 DEF Authored, SameQuestion
    <3>4. QED BY <3>1, <3>2, <3>3 DEF Authored
  <2>2. QED BY <1>7, <1>10, <2>1 DEF AuthorInv
<1>12. FateInv'
  <2>1. \A l \in DOMAIN calls : Its(l)' = Its(l)
    BY <1>1 DEF Its, SameQuestion
  <2>2. ASSUME NEW l \in DOMAIN calls', calls'[l].tool = "send_message", calls'[l].at = "ok"
        PROVE  Known(Its(l))'
    <3>1. l \in DOMAIN calls /\ calls[l].tool = "send_message"
      BY <1>1, <2>2 DEF SameQuestion
    <3>2. Known(Its(l))
      <4>1. CASE l # n
        BY <1>1, <2>2, <3>1, <4>1 DEF FateInv
      <4>2. CASE l = n
        <5>1. PICK e \in Answers(k.conn) : e.ok /\ e.call = n
          BY <1>1, <2>2, <4>2 DEF Move
        <5>2. QED BY <1>1, <3>1, <4>2, <5>1 DEF FateInv
      <4>3. QED BY <4>1, <4>2
    <3>3. QED BY <1>10, <2>1, <3>1, <3>2
  <2>3. ASSUME NEW b \in Connections, NEW e \in Answers(b)', e.ok, calls'[e.call].tool = "send_message"
        PROVE  Known(Its(e.call))'
    <3>1. e \in Answers(b) /\ e.call \in DOMAIN calls /\ calls[e.call].tool = "send_message"
      BY <1>1, <1>4, <2>3 DEF ItemsInv, SameQuestion
    <3>2. Known(Its(e.call))
      BY <2>3, <3>1 DEF FateInv
    <3>3. QED BY <1>10, <2>1, <3>1, <3>2
  <2>4. ASSUME NEW d \in dropped'
        PROVE  /\ d.call \in DOMAIN calls'
               /\ \/ calls'[d.call].tool \in Polling
                  \/ /\ calls'[d.call].at # "ok"
                     /\ \A b \in Connections : /\ \A r \in Requests(b)' : r.call # d.call
                                               /\ \A e \in Answers(b)' : e.call # d.call
    <3>1. d \in dropped /\ d.call \in DOMAIN calls /\ d.call \in DOMAIN calls' /\ calls'[d.call].tool = calls[d.call].tool
      BY <1>1, <2>4 DEF Move, FateInv, SameQuestion
    <3>2. CASE calls[d.call].tool \in Polling
      BY <3>1, <3>2
    <3>3. CASE calls[d.call].tool \notin Polling
      <4>1. /\ calls[d.call].at # "ok"
            /\ \A b \in Connections : /\ \A r \in Requests(b) : r.call # d.call
                                      /\ \A e \in Answers(b) : e.call # d.call
        BY <3>1, <3>3 DEF FateInv
      <4>2. calls'[d.call].at # "ok"
        BY <1>1, <3>1, <4>1 DEF Move
      <4>3. asks => k.tool \in Polling
        BY <1>2, <1>2a DEF Stage, Polling
      <4>4. \A b \in Connections : \A r \in Requests(b)' : r.call # d.call
        BY <1>1, <1>3, <1>4, <3>3, <4>1, <4>3 DEF SameQuestion
      <4>5. QED BY <1>4, <3>1, <4>1, <4>2, <4>4
    <3>4. QED BY <3>2, <3>3
  <2>5. QED BY <2>2, <2>3, <2>4 DEF FateInv
<1>13. CleanInv'
  <2> SUFFICES ASSUME NEW l \in DOMAIN calls'
               PROVE  (/\ calls[l].tool \in Polling /\ calls[l].at = "ok" => calls[l].got # {}
                       /\ calls[l].clean =>
                            /\ calls[l].tool \in Polling
                            /\ Active(l) /\ conn[calls[l].conn].open =>
                                 \A m \in inbox[Name[calls[l].conn]] : m.from = calls[l].to => m.re = l
                            /\ \A b \in Connections : \A e \in Answers(b) :
                                 Active(l) /\ e.call = l => \A m \in e.got : m.from = calls[l].to /\ m.re = l
                            /\ \A m \in calls[l].got : m.from = calls[l].to /\ m.re = l)'
    BY DEF CleanInv
  <2>1. /\ l \in DOMAIN calls /\ inbox' = inbox /\ conn' = conn
        /\ SameQuestion(calls'[l], calls[l]) /\ calls'[l].clean = calls[l].clean
        /\ Active(l)' => Active(l)
    BY <1>1 DEF Move, Active
  <2>2. calls'[l].tool \in Polling /\ calls'[l].at = "ok" => calls'[l].got # {}
    BY <1>1, <2>1 DEF CleanInv, Move, SameQuestion
  <2>3. ASSUME calls'[l].clean, NEW m \in calls'[l].got PROVE m.from = calls'[l].to /\ m.re = l
    <3>1. CASE m \in calls[l].got
      BY <2>1, <2>3, <3>1 DEF CleanInv, SameQuestion
    <3>2. CASE m \notin calls[l].got
      <4>1. l = n /\ m \in k.got
        BY <1>1, <2>1, <2>3, <3>2
      <4>2. PICK e \in Answers(k.conn) : e.call = n /\ m \in e.got
        BY <1>1, <3>2, <4>1 DEF Move
      <4>3. QED BY <1>1, <2>1, <2>3, <4>1, <4>2 DEF CleanInv, SameQuestion
    <3>3. QED BY <3>1, <3>2
  <2>4. QED BY <1>4, <2>1, <2>2, <2>3 DEF CleanInv, SameQuestion
<1>14. QED BY <1>5, <1>6, <1>9, <1>11, <1>12, <1>13

(* The daemon answers request r with e: it has taken the messages of e from   *)
(* the inbox, or put one there.                                               *)
Answered(c, r, e, new) ==
  /\ r \in Requests(c) /\ e \in Answer /\ e.call = r.call /\ e.seq = r.seq
  /\ Requests(c)' = Requests(c) \ {r} /\ Answers(c)' = Answers(c) \union {e}
  /\ \A d \in Connections : d # c => Requests(d)' = Requests(d) /\ Answers(d)' = Answers(d)
  /\ dropped' = dropped /\ DOMAIN calls' = DOMAIN calls
  /\ \A n \in DOMAIN calls :
       /\ SameQuestion(calls'[n], calls[n]) /\ calls'[n].at = calls[n].at /\ calls'[n].seq = calls[n].seq
       /\ calls'[n].got = calls[n].got
       /\ calls'[n].clean =>
            /\ calls[n].clean
            /\ \A m \in new : calls[n].to = m.from /\ Name[calls[n].conn] = m.to => m.re = n
  /\ \A w \in Workspaces : \A m \in inbox'[w] : (m \in inbox[w] /\ m \notin e.got) \/ (m \in new /\ m.to = w)
  /\ \A w \in Workspaces : \A m \in inbox[w] : m \in inbox'[w] \/ m \in e.got \/ m \in missing'
  /\ saved' = saved /\ again' = again
  /\ missing \subseteq missing' /\ \A m \in missing' : m \in missing \/ Unread(m)
  /\ conn[c].open /\ \A d \in Connections : conn'[d].open => conn[d].open
  /\ \A m \in new : m.to \in Workspaces /\ m \in inbox'[m.to]
  /\ \A m \in e.got : m \in inbox[Name[c]] /\ (calls[r.call].tool \in Polling => m.from = r.to)
  /\ new \subseteq {Its(r.call)} /\ (new # {} => r.kind = "send" /\ e.got = {})
  /\ e.ok /\ calls[r.call].tool = "send_message" => Its(r.call) \in new

(* An answer takes the place of its request, a message that of the right to send. *)
LEMMA AnsweredKeeps ==
  ASSUME LinkType, CallsInv, FlowInv,
         NEW c \in Connections, NEW r, NEW e, NEW new, Answered(c, r, e, new)
  PROVE  FlowInv'
<1> USE DEF FlowInv
<1>1. /\ r \in Requests(c) /\ e.call = r.call /\ e.seq = r.seq /\ r.call \in DOMAIN calls
      /\ calls[r.call].conn = c /\ Name[c] \in Workspaces
      /\ Stage(calls[r.call].tool, r.kind, r.seq)
  BY DaemonLinkAssumption DEF Answered, ItemsInv
<1>2. /\ \A d \in Connections : Requests(d)' \subseteq Requests(d)
      /\ \A d \in Connections : \A f \in Answers(d)' : f \in Answers(d) \/ (d = c /\ f = e)
      /\ \A d \in Connections : Answers(d) \subseteq Answers(d)'
      /\ e \in Answers(c)' /\ r \notin Requests(c)'
  BY DEF Answered
<1>3. /\ DOMAIN calls' = DOMAIN calls /\ dropped' = dropped
      /\ \A n \in DOMAIN calls :
           /\ SameQuestion(calls'[n], calls[n]) /\ calls'[n].at = calls[n].at /\ calls'[n].seq = calls[n].seq
           /\ calls'[n].got = calls[n].got
  BY DEF Answered
<1>4. ItemsInv'
  <2>1. ASSUME NEW d \in Connections, NEW s \in Requests(d)'
        PROVE  /\ s.call \in DOMAIN calls' /\ calls'[s.call].conn = d
               /\ Stage(calls'[s.call].tool, s.kind, s.seq)
               /\ s.to = calls'[s.call].to /\ s.re = calls'[s.call].re
               /\ calls'[s.call].tool \in Once => calls'[s.call].at # "ok"
               /\ Active(s.call)' => s.seq <= calls'[s.call].seq
    <3>1. s \in Requests(d)
      BY <1>2, <2>1
    <3>2. QED BY <1>3, <2>1, <3>1 DEF ItemsInv, Active, SameQuestion
  <2>2. ASSUME NEW d \in Connections, NEW f \in Answers(d)'
        PROVE  /\ f.call \in DOMAIN calls' /\ calls'[f.call].conn = d
               /\ calls'[f.call].tool \in Once => f.seq = 1 /\ calls'[f.call].at # "ok"
               /\ Active(f.call)' => f.seq <= calls'[f.call].seq
    <3>1. CASE f \in Answers(d)
      BY <1>3, <2>2, <3>1 DEF ItemsInv, Active, SameQuestion
    <3>2. CASE d = c /\ f = e
      <4>1. calls[r.call].tool \in Once => r.seq = 1
        BY <1>1 DEF Stage, Once
      <4>2. QED BY <1>1, <1>3, <3>2, <4>1 DEF ItemsInv, Active, SameQuestion
    <3>3. QED BY <1>2, <2>2, <3>1, <3>2
  <2>3. QED BY <2>1, <2>2 DEF ItemsInv
<1>5. KeysInv'
  BY <1>1, <1>2 DEF KeysInv
<1>6. ASSUME NEW m \in new PROVE ~Known(m) /\ m = Its(r.call) /\ r.kind = "send" /\ e.got = {}
  <2>1. m = Its(r.call) /\ r.kind = "send" /\ e.got = {}
    BY <1>6 DEF Answered
  <2>2. m.by = r.call /\ m.by # 0
    BY <1>1, <2>1, Typed DEF Its
  <2>3. ~Authored(m.by)
    BY <1>1, <2>1, <2>2 DEF Authored
  <2>4. QED BY <2>1, <2>2, <2>3 DEF AuthorInv
<1>7. /\ \A m : Got(m)' <=> Got(m)
      /\ \A m : Lost(m)' <=> Lost(m)
      /\ \A m : Carried(m)' <=> Carried(m) \/ m \in e.got
      /\ \A m : m \in e.got => Unread(m)
      /\ \A m : Unread(m)' => (Unread(m) /\ m \notin e.got) \/ m \in new
      /\ \A m : Unread(m) => Unread(m)' \/ m \in e.got \/ m \in missing'
      /\ \A m \in new : Unread(m)'
      /\ \A m : Kept(m)' <=> Kept(m)
      /\ \A m : m \in missing => m \in missing'
      /\ \A m : m \in missing' => m \in missing \/ Unread(m)
      /\ again' = again
  <2>1. \A m : Got(m)' <=> Got(m)
    BY <1>3 DEF Got
  <2>2. \A m : Lost(m)' <=> Lost(m)
    BY <1>3 DEF Lost
  <2>3. \A m : Carried(m)' <=> Carried(m) \/ m \in e.got
    BY <1>2 DEF Carried
  <2>4. \A m : m \in e.got => Unread(m)
    BY <1>1 DEF Unread, Answered
  <2>5. /\ \A m : Unread(m)' => (Unread(m) /\ m \notin e.got) \/ m \in new
        /\ \A m : Unread(m) => Unread(m)' \/ m \in e.got \/ m \in missing'
        /\ \A m \in new : Unread(m)'
    BY DEF Unread, Answered
  <2>6. /\ \A m : Kept(m)' <=> Kept(m)
        /\ \A m : m \in missing => m \in missing'
        /\ \A m : m \in missing' => m \in missing \/ Unread(m)
        /\ again' = again
    BY DEF Kept, Answered
  <2>7. QED BY <2>1, <2>2, <2>3, <2>4, <2>5, <2>6
<1>8. PlacesInv'
  <2>1. /\ \A m : m \notin again /\ Unread(m)' => ~Got(m)' /\ ~Lost(m)' /\ ~Carried(m)'
        /\ \A m : m \notin again /\ Carried(m)' => ~Got(m)' /\ ~Lost(m)'
        /\ \A m : m \notin again /\ Lost(m)' => ~Got(m)'
    BY <1>6, <1>7 DEF PlacesInv, Known
  <2>2. ASSUME NEW b \in Connections, NEW d \in Connections, NEW f \in Answers(b)', NEW g \in Answers(d)',
               NEW m, m \notin again, m \in f.got, m \in g.got
        PROVE  f = g
    <3>1. f \in Answers(b) => Carried(m)
      BY <2>2 DEF Carried
    <3>2. g \in Answers(d) => Carried(m)
      BY <2>2 DEF Carried
    <3>3. m \in e.got => ~Carried(m)
      BY <1>7, <2>2 DEF PlacesInv
    <3>4. QED BY <1>2, <2>2, <3>1, <3>2, <3>3 DEF PlacesInv
  <2>3. \A n, l \in DOMAIN calls' : \A m : m \in calls'[n].got /\ m \in calls'[l].got => n = l \/ m \in again
    BY <1>3 DEF PlacesInv
  <2>4. QED BY <1>7, <2>1, <2>2, <2>3 DEF PlacesInv
<1>9. /\ \A m : Known(m)' \/ Kept(m)' => Known(m) \/ Kept(m) \/ m \in new
      /\ \A m : Known(m) => Known(m)'
      /\ \A m \in new : Known(m)'
  BY <1>7 DEF Known
<1>10. AuthorInv'
  <2>1. ASSUME NEW n, Authored(n) PROVE Authored(n)'
    BY <1>2, <1>3, <2>1 DEF Authored, Active, SameQuestion
  <2>2. ASSUME NEW m \in new PROVE Authored(m.by)'
    <3>1. m.by = r.call /\ r.kind = "send"
      BY <1>6, <2>2 DEF Its
    <3>2. r.call \in DOMAIN calls'
      BY <1>1, <1>3
    <3>3. ~(calls'[r.call].tool = "inspect_agent" /\ Active(r.call)' /\ calls'[r.call].seq = 1)
      <4>1. calls[r.call].tool = "inspect_agent" => r.seq = 2
        BY <1>1, <3>1 DEF Stage, Once
      <4>2. Active(r.call) => r.seq <= calls[r.call].seq
        BY <1>1 DEF ItemsInv
      <4>3. QED BY <1>1, <1>3, <4>1, <4>2, Typed DEF Active, SameQuestion
    <3>4. ASSUME NEW d \in Connections, NEW s \in Requests(d)', s.call = r.call, s.kind = "send" PROVE FALSE
      <4>1. s \in Requests(d) /\ d = c /\ Stage(calls[r.call].tool, s.kind, s.seq)
        BY <1>1, <1>2, <3>4 DEF ItemsInv
      <4>2. s.seq = r.seq
        BY <1>1, <3>1, <3>4, <4>1 DEF Stage, Once
      <4>3. s = r
        BY <1>1, <3>4, <4>1, <4>2 DEF KeysInv
      <4>4. QED BY <1>2, <3>4, <4>1, <4>3
    <3>5. QED BY <3>1, <3>2, <3>3, <3>4 DEF Authored
  <2>3. QED BY <1>9, <2>1, <2>2 DEF AuthorInv
<1>11. FateInv'
  <2>1. \A n \in DOMAIN calls : Its(n)' = Its(n)
    BY <1>3 DEF Its, SameQuestion
  <2>2. ASSUME NEW n \in DOMAIN calls', calls'[n].tool = "send_message", calls'[n].at = "ok"
        PROVE  Known(Its(n))'
    <3>1. n \in DOMAIN calls /\ calls[n].tool = "send_message" /\ calls[n].at = "ok"
      BY <1>3, <2>2 DEF SameQuestion
    <3>2. Known(Its(n))
      BY <3>1 DEF FateInv
    <3>3. QED BY <1>9, <2>1, <3>1, <3>2
  <2>3. ASSUME NEW b \in Connections, NEW f \in Answers(b)', f.ok, calls'[f.call].tool = "send_message"
        PROVE  Known(Its(f.call))'
    <3>1. f.call \in DOMAIN calls /\ calls[f.call].tool = "send_message"
      BY <1>3, <1>4, <2>3 DEF ItemsInv, SameQuestion
    <3>2. CASE f \in Answers(b)
      <4>1. Known(Its(f.call))
        BY <2>3, <3>1, <3>2 DEF FateInv
      <4>2. QED BY <1>9, <2>1, <3>1, <4>1
    <3>3. CASE f = e
      <4>1. Its(f.call) \in new
        BY <1>1, <2>3, <3>1, <3>3 DEF Answered
      <4>2. QED BY <1>9, <2>1, <3>1, <4>1
    <3>4. QED BY <1>2, <2>3, <3>2, <3>3
  <2>4. ASSUME NEW d \in dropped'
        PROVE  /\ d.call \in DOMAIN calls'
               /\ \/ calls'[d.call].tool \in Polling
                  \/ /\ calls'[d.call].at # "ok"
                     /\ \A b \in Connections : /\ \A s \in Requests(b)' : s.call # d.call
                                               /\ \A f \in Answers(b)' : f.call # d.call
    <3>1. d \in dropped /\ d.call \in DOMAIN calls /\ d.call \in DOMAIN calls'
          /\ calls'[d.call].tool = calls[d.call].tool /\ calls'[d.call].at = calls[d.call].at
      BY <1>3, <2>4 DEF FateInv, SameQuestion
    <3>2. QED BY <1>1, <1>2, <3>1 DEF FateInv
  <2>5. QED BY <2>2, <2>3, <2>4 DEF FateInv
<1>12. CleanInv'
  <2> SUFFICES ASSUME NEW n \in DOMAIN calls'
               PROVE  (/\ calls[n].tool \in Polling /\ calls[n].at = "ok" => calls[n].got # {}
                       /\ calls[n].clean =>
                            /\ calls[n].tool \in Polling
                            /\ Active(n) /\ conn[calls[n].conn].open =>
                                 \A m \in inbox[Name[calls[n].conn]] : m.from = calls[n].to => m.re = n
                            /\ \A b \in Connections : \A f \in Answers(b) :
                                 Active(n) /\ f.call = n => \A m \in f.got : m.from = calls[n].to /\ m.re = n
                            /\ \A m \in calls[n].got : m.from = calls[n].to /\ m.re = n)'
    BY DEF CleanInv
  <2>1. /\ n \in DOMAIN calls /\ SameQuestion(calls'[n], calls[n]) /\ calls'[n].at = calls[n].at
        /\ calls'[n].got = calls[n].got /\ (Active(n)' <=> Active(n)) /\ calls[n].conn \in Connections
        /\ calls'[n].clean => calls[n].clean
    BY <1>3, Typed DEF Answered, Active
  <2>2. calls'[n].tool \in Polling /\ calls'[n].at = "ok" => calls'[n].got # {}
    BY <2>1 DEF CleanInv, SameQuestion
  <2>3. ASSUME calls'[n].clean, Active(n)', conn'[calls'[n].conn].open,
               NEW m \in inbox'[Name[calls'[n].conn]], m.from = calls'[n].to
        PROVE  m.re = n
    <3>0. Active(n) /\ conn[calls[n].conn].open
      BY <2>1, <2>3 DEF Answered, SameQuestion
    <3>1. Name[calls[n].conn] \in Workspaces
      BY <2>1, Typed, DaemonLinkAssumption
    <3>2. CASE m \in inbox[Name[calls[n].conn]]
      BY <2>1, <2>3, <3>0, <3>2 DEF CleanInv, SameQuestion
    <3>3. CASE m \in new /\ m.to = Name[calls[n].conn]
      BY <2>1, <2>3, <3>3 DEF Answered, SameQuestion
    <3>4. QED BY <2>1, <2>3, <3>1, <3>2, <3>3 DEF Answered, SameQuestion
  <2>4. ASSUME calls'[n].clean, Active(n)', NEW b \in Connections, NEW f \in Answers(b)', f.call = n, NEW m \in f.got
        PROVE  m.from = calls'[n].to /\ m.re = n
    <3>1. CASE f \in Answers(b)
      BY <2>1, <2>4, <3>1 DEF CleanInv, SameQuestion
    <3>2. CASE f = e
      <4>1. n = r.call /\ calls[n].tool \in Polling /\ calls[n].conn = c /\ r.to = calls[n].to
        BY <1>1, <2>1, <2>4, <3>2 DEF CleanInv, ItemsInv
      <4>2. m \in inbox[Name[c]] /\ m.from = r.to /\ conn[c].open
        BY <2>4, <3>2, <4>1 DEF Answered
      <4>3. QED BY <2>1, <2>4, <4>1, <4>2 DEF CleanInv, SameQuestion
    <3>3. QED BY <1>2, <2>4, <3>1, <3>2
  <2>5. QED BY <2>1, <2>2, <2>3, <2>4 DEF CleanInv, SameQuestion
<1>13. QED BY <1>4, <1>5, <1>8, <1>10, <1>11, <1>12

-----------------------------------------------------------------------------
(* The steps that lose answers                                                *)

(* The messages of one answer.                                                *)
LEMMA CargoIs ==
  ASSUME NEW e \in Answer \union {NoReply, Push}
  PROVE  /\ \A x \in Cargo(e) : /\ e \in Answer /\ e \notin {NoReply, Push} /\ x.call = e.call /\ x.msg \in e.got
                                /\ x \in [msg : Message, call : Nat]
         /\ e \in Answer => \A m \in e.got : \E x \in Cargo(e) : x.msg = m
<1>1. CASE e \in {NoReply, Push}
  BY <1>1, DaemonLinkAssumption DEF Cargo
<1>2. CASE e \notin {NoReply, Push}
  <2>1. Cargo(e) = {[msg |-> m, call |-> e.call] : m \in e.got} /\ e.call \in Nat /\ e.got \subseteq Message
    BY <1>2 DEF Cargo, Answer
  <2>2. ASSUME NEW x \in Cargo(e) PROVE x.call = e.call /\ x.msg \in e.got /\ x \in [msg : Message, call : Nat]
    <3>1. PICK m \in e.got : x = [msg |-> m, call |-> e.call]
      BY <2>1, <2>2
    <3>2. m \in Message
      BY <2>1
    <3>3. QED BY <2>1, <3>1, <3>2
  <2>3. ASSUME NEW m \in e.got PROVE \E x \in Cargo(e) : x.msg = m
    <3>1. [msg |-> m, call |-> e.call] \in Cargo(e) /\ [msg |-> m, call |-> e.call].msg = m
      BY <2>1, <2>3
    <3>2. QED BY <3>1
  <2>4. QED BY <1>2, <2>2, <2>3
<1>3. QED BY <1>1, <1>2

(* The messages of all answers on a line.                                     *)
LEMMA CargoOfIs ==
  ASSUME NEW o \in Seq(Answer \union {Push})
  PROVE  /\ \A x \in CargoOf(o) : /\ \E e \in Range(o) \ {NoReply, Push} : x.call = e.call /\ x.msg \in e.got
                                  /\ x \in [msg : Message, call : Nat]
         /\ \A e \in Range(o) \ {NoReply, Push} : \A m \in e.got : \E x \in CargoOf(o) : x.msg = m
<1>1. \A i \in DOMAIN o : o[i] \in Answer \union {NoReply, Push} /\ o[i] \in Range(o)
  BY DEF Range
<1>2. ASSUME NEW x \in CargoOf(o)
      PROVE  /\ \E e \in Range(o) \ {NoReply, Push} : x.call = e.call /\ x.msg \in e.got
             /\ x \in [msg : Message, call : Nat]
  <2>1. PICK i \in DOMAIN o : x \in Cargo(o[i])
    BY <1>2 DEF CargoOf
  <2>2. QED BY <1>1, <2>1, CargoIs
<1>3. ASSUME NEW e \in Range(o) \ {NoReply, Push}, NEW m \in e.got PROVE \E x \in CargoOf(o) : x.msg = m
  <2>1. PICK i \in DOMAIN o : o[i] = e
    BY <1>3 DEF Range
  <2>2. e \in Answer
    BY <1>1, <1>3, <2>1
  <2>3. PICK x \in Cargo(e) : x.msg = m
    BY <1>3, <2>2, CargoIs
  <2>4. QED BY <2>1, <2>3 DEF CargoOf
<1>4. QED BY <1>2, <1>3

(* The answer that waited goes out.                                           *)
LEMMA PutReplyKeeps ==
  ASSUME LinkInv, NEW c \in Connections, PutReply(c)
  PROVE  LinkInv'
<1> DEFINE o == outgoing[c]
           p == reply[c]
<1>1. /\ o \in Seq(Answer \union {Push}) /\ p \in Answer /\ Wire(o, p) /\ p # NoReply /\ Len(o) < Capacity
      /\ NoReply \notin Answer /\ Push \notin Answer /\ NoReply # Push
  BY DaemonLinkAssumption DEF LinkInv, LinkType, LinesInv, PutReply
<1>2. /\ outgoing'[c] = Append(o, p) /\ reply'[c] = NoReply
      /\ \A d \in Connections : d # c => outgoing'[d] = outgoing[d] /\ reply'[d] = reply[d]
      /\ UNCHANGED <<process, calls, toServer, outbox, inbox, saved, missing, again, dropped, faults>> /\ UNCHANGED vars
      /\ outgoing' = [outgoing EXCEPT ![c] = Append(o, p)] /\ reply' = [reply EXCEPT ![c] = NoReply]
  BY DEF LinkInv, LinkType, PutReply, file
<1>3. Append(o, p) \in Seq(Answer \union {Push}) /\ Len(Append(o, p)) = Len(o) + 1 /\ Len(o) \in Nat
  BY <1>1
<1> HIDE DEF o, p
<1>4. Wire(Append(o, p), NoReply) /\ OnWire(Append(o, p), NoReply) = OnWire(o, p)
  <2>1. p \notin Range(o)
    BY <1>1 DEF Wire, Range
  <2>2. Wire(o, NoReply) /\ OnWire(o, NoReply) \union {p} = OnWire(o, p)
    BY <1>1 DEF Wire, OnWire
  <2>3. Wire(Append(o, p), NoReply) /\ OnWire(Append(o, p), NoReply) = OnWire(o, NoReply) \union ({p} \ {Push})
    BY <1>1, <2>1, <2>2, WireGrows
  <2>4. {p} \ {Push} = {p}
    BY <1>1
  <2>5. QED BY <2>2, <2>3, <2>4
<1>5. RegistryInv'
  BY <1>2, OthersKeep DEF LinkInv
<1>6. LinkType'
  BY <1>1, <1>2, <1>3, DaemonLinkAssumption DEF LinkInv, LinkType
<1>7. LinesInv'
  BY <1>2, <1>4 DEF LinkInv, LinesInv
<1>8. \A d \in Connections : Requests(d)' = Requests(d) /\ Answers(d)' = Answers(d)
  BY <1>2, <1>4 DEF Requests, Answers, o, p
<1>9. CallsInv'
  BY <1>2 DEF LinkInv, CallsInv, Active
<1>10. ConnInv'
  BY <1>2, <1>8 DEF LinkInv, ConnInv, vars
<1>11. Shed
  BY <1>2, <1>8 DEF Shed, vars
<1>12. QED BY <1>5, <1>6, <1>7, <1>9, <1>10, <1>11, ShedKeeps DEF LinkInv, FlowInv

(* A push goes out and carries nothing.                                       *)
LEMMA ForwardPushKeeps ==
  ASSUME LinkInv, NEW c \in Connections, ForwardPush(c)
  PROVE  LinkInv'
<1> DEFINE o == outgoing[c]
           p == reply[c]
<1>1. /\ o \in Seq(Answer \union {Push}) /\ p \in Answer \union {NoReply} /\ Wire(o, p) /\ Len(o) < Capacity
      /\ Push \notin Answer /\ NoReply # Push /\ outbox[c] \in 0..Capacity /\ outbox[c] > 0
  BY DaemonLinkAssumption DEF LinkInv, LinkType, LinesInv, ForwardPush
<1>2. /\ outgoing'[c] = Append(o, Push)
      /\ \A d \in Connections : d # c => outgoing'[d] = outgoing[d]
      /\ UNCHANGED <<process, calls, toServer, reply, inbox, saved, missing, again, dropped, faults>> /\ UNCHANGED vars
      /\ outgoing' = [outgoing EXCEPT ![c] = Append(o, Push)] /\ outbox' = [outbox EXCEPT ![c] = outbox[c] - 1]
  BY DEF LinkInv, LinkType, ForwardPush, file
<1>3. Append(o, Push) \in Seq(Answer \union {Push}) /\ Len(Append(o, Push)) = Len(o) + 1 /\ Len(o) \in Nat
  BY <1>1
<1> HIDE DEF o, p
<1>4. Wire(Append(o, Push), p) /\ OnWire(Append(o, Push), p) = OnWire(o, p)
  <2>1. Wire(Append(o, Push), p) /\ OnWire(Append(o, Push), p) = OnWire(o, p) \union ({Push} \ {Push})
    BY <1>1, WireGrows
  <2>2. QED BY <2>1
<1>5. RegistryInv'
  BY <1>2, OthersKeep DEF LinkInv
<1>6. LinkType'
  BY <1>1, <1>2, <1>3, DaemonLinkAssumption DEF LinkInv, LinkType
<1>7. LinesInv'
  BY <1>2, <1>4 DEF LinkInv, LinesInv, p
<1>8. \A d \in Connections : Requests(d)' = Requests(d) /\ Answers(d)' = Answers(d)
  BY <1>2, <1>4 DEF Requests, Answers, o, p
<1>9. CallsInv'
  BY <1>2 DEF LinkInv, CallsInv, Active
<1>10. ConnInv'
  BY <1>2, <1>8 DEF LinkInv, ConnInv, vars
<1>11. Shed
  BY <1>2, <1>8 DEF Shed, vars
<1>12. QED BY <1>5, <1>6, <1>7, <1>9, <1>10, <1>11, ShedKeeps DEF LinkInv, FlowInv

(* The connection loop ends: what was on the connection is lost.              *)
LEMMA HangupKeeps ==
  ASSUME LinkInv, NEW c \in Connections, Hangup(c)
  PROVE  LinkInv'
<1> DEFINE gone == Cargo(reply[c]) \union CargoOf(outgoing[c])
<1>1. /\ toServer'[c] = <<>> /\ reply'[c] = NoReply /\ outgoing'[c] = <<>>
      /\ \A d \in Connections : d # c => /\ toServer'[d] = toServer[d] /\ reply'[d] = reply[d]
                                         /\ outgoing'[d] = outgoing[d]
      /\ toServer' = [toServer EXCEPT ![c] = <<>>] /\ reply' = [reply EXCEPT ![c] = NoReply]
      /\ outgoing' = [outgoing EXCEPT ![c] = <<>>] /\ outbox' = [outbox EXCEPT ![c] = 0]
      /\ dropped' = dropped \union gone
      /\ UNCHANGED <<process, calls, inbox, saved, missing, again, faults>> /\ Disconnect(c) /\ process[c] = "off"
  BY DEF LinkInv, LinkType, Hangup, file
<1>2. RegistryInv'
  BY <1>1, DisconnectKeeps DEF LinkInv
<1>3. conn'[c].open = FALSE /\ \A d \in Connections : d # c => conn'[d] = conn[d]
  BY <1>1 DEF LinkInv, RegistryInv, TypeOK, Disconnect, Closed
<1>4. Requests(c)' = {} /\ Answers(c)' = {}
      /\ \A d \in Connections : d # c => Requests(d)' = Requests(d) /\ Answers(d)' = Answers(d)
  BY <1>1, NothingInLine DEF Requests, Answers
<1>5. /\ \A x \in gone : x \in [msg : Message, call : Nat] /\ \E e \in Answers(c) : x.call = e.call /\ x.msg \in e.got
      /\ \A e \in Answers(c) : \A m \in e.got : \E x \in gone : x.msg = m
  <2>1. outgoing[c] \in Seq(Answer \union {Push}) /\ reply[c] \in Answer \union {NoReply}
    BY DEF LinkInv, LinkType
  <2>2. \A x \in Cargo(reply[c]) : x \in [msg : Message, call : Nat] /\ \E e \in Answers(c) : x.call = e.call /\ x.msg \in e.got
    BY <2>1, CargoIs DEF Answers, OnWire
  <2>3. \A x \in CargoOf(outgoing[c]) : x \in [msg : Message, call : Nat] /\ \E e \in Answers(c) : x.call = e.call /\ x.msg \in e.got
    BY <2>1, CargoOfIs DEF Answers, OnWire
  <2>4. ASSUME NEW e \in Answers(c), NEW m \in e.got PROVE \E x \in gone : x.msg = m
    <3>1. CASE e = reply[c]
      BY <2>1, <2>4, <3>1, CargoIs DEF Answers, OnWire
    <3>2. CASE e # reply[c]
      <4>1. e \in Range(outgoing[c]) \ {NoReply, Push}
        BY <2>4, <3>2 DEF Answers, OnWire
      <4>2. QED BY <2>1, <2>4, <4>1, CargoOfIs
    <3>3. QED BY <3>1, <3>2
  <2>5. QED BY <2>2, <2>3, <2>4
<1> HIDE DEF gone
<1>6. LinkType'
  BY <1>1, <1>5, NothingInLine, DaemonLinkAssumption DEF LinkInv, LinkType
<1>7. LinesInv'
  BY <1>1, NothingInLine DEF LinkInv, LinesInv
<1>8. CallsInv'
  BY <1>1 DEF LinkInv, CallsInv, Active
<1>9. ConnInv'
  BY <1>1, <1>3, <1>4 DEF LinkInv, ConnInv
<1>10. Shed
  BY <1>1, <1>3, <1>4, <1>5 DEF Shed
<1>11. QED BY <1>2, <1>6, <1>7, <1>8, <1>9, <1>10, ShedKeeps DEF LinkInv, FlowInv

(* A call at its end.                                                         *)
LEMMA FinishedIs ==
  ASSUME NEW k \in Call, NEW how \in Ended
  PROVE  /\ Finished(k, how) \in Call /\ SameQuestion(Finished(k, how), k) /\ Finished(k, how).at = how
         /\ Finished(k, how).got = k.got /\ Finished(k, how).clean = k.clean
BY DEF Finished, Call, SameQuestion, Places

(* Some calls end.                                                            *)
LEMMA SomeFinish ==
  ASSUME LinkType, NEW N, NEW how \in {"error", "gone"},
         calls' = [n \in DOMAIN calls |-> IF n \in N THEN Finished(calls[n], how) ELSE calls[n]]
  PROVE  /\ calls' \in Seq(Call) /\ DOMAIN calls' = DOMAIN calls
         /\ \A n \in DOMAIN calls :
              /\ n \notin N => calls'[n] = calls[n]
              /\ n \in N => /\ SameQuestion(calls'[n], calls[n]) /\ calls'[n].at = how
                            /\ calls'[n].got = calls[n].got /\ calls'[n].clean = calls[n].clean
<1>1. how \in Ended /\ Len(calls) \in Nat /\ DOMAIN calls = 1..Len(calls)
  BY Typed DEF Ended
<1>2. \A n \in DOMAIN calls : Finished(calls[n], how) \in Call /\ calls[n] \in Call
  BY <1>1, FinishedIs, Typed
<1>3. calls' \in [1..Len(calls) -> Call]
  BY <1>1, <1>2
<1>4. calls' \in Seq(Call)
  BY <1>1, <1>3
<1>5. QED BY <1>1, <1>2, <1>4, FinishedIs

(* The inboxes are saved.                                                     *)
LEMMA FlushKeeps ==
  ASSUME LinkInv, FlushQueue
  PROVE  LinkInv'
<1>1. /\ saved' = inbox /\ UNCHANGED vars
      /\ UNCHANGED <<process, calls, toServer, reply, outgoing, outbox, inbox, missing, again, dropped, faults>>
  BY DEF FlushQueue
<1>2. RegistryInv'
  BY <1>1, OthersKeep DEF LinkInv
<1>3. \A d \in Connections : Requests(d)' = Requests(d) /\ Answers(d)' = Answers(d)
  BY <1>1 DEF Requests, Answers
<1>4. LinkType' /\ LinesInv' /\ CallsInv'
  BY <1>1 DEF LinkInv, LinkType, LinesInv, CallsInv, Active
<1>5. ConnInv'
  BY <1>1, <1>3 DEF LinkInv, ConnInv, vars
<1>6. Shed
  BY <1>1, <1>3 DEF Shed, vars
<1>7. QED BY <1>2, <1>4, <1>5, <1>6, ShedKeeps DEF LinkInv, FlowInv

(* The daemon restarts: the inboxes go back to what was saved, what it had    *)
(* not written to a socket is lost, and what it had written for a client that *)
(* is gone.                                                                   *)
LEMMA DaemonRestartsKeeps ==
  ASSUME LinkInv, DaemonRestarts
  PROVE  LinkInv'
<1> DEFINE Gone(c) == Cargo(reply[c]) \union (IF process[c] = "off" THEN CargoOf(outgoing[c]) ELSE {})
<1>1. /\ \A c \in Connections : /\ toServer'[c] = <<>> /\ reply'[c] = NoReply /\ outbox'[c] = 0
                                /\ outgoing'[c] = IF process[c] = "off" THEN <<>> ELSE outgoing[c]
                                /\ conn'[c].open = FALSE
      /\ toServer' = [c \in Connections |-> <<>>] /\ reply' = [c \in Connections |-> NoReply]
      /\ outbox' = [c \in Connections |-> 0]
      /\ outgoing' = [c \in Connections |-> IF process[c] = "off" THEN <<>> ELSE outgoing[c]]
      /\ UNCHANGED <<process, calls, saved>> /\ inbox' = saved /\ faults < MaxFaults /\ faults' = faults + 1
  BY DEF DaemonRestarts, Fault, Closed
<1>2. \A x : x \in dropped' <=> x \in dropped \/ \E c \in Connections : x \in Gone(c)
  <2> DEFINE lost == {Cargo(reply[c]) : c \in Connections}
             left == {CargoOf(outgoing[c]) : c \in {d \in Connections : process[d] = "off"}}
  <2>1. dropped' = UNION ({dropped} \union lost \union left)
    BY DEF DaemonRestarts
  <2>2. /\ \A x : x \in UNION lost <=> \E c \in Connections : x \in Cargo(reply[c])
        /\ \A x : x \in UNION left <=> \E c \in Connections : process[c] = "off" /\ x \in CargoOf(outgoing[c])
    OBVIOUS
  <2> HIDE DEF lost, left
  <2>2a. \A x : x \in dropped' <=> x \in dropped \/ x \in UNION lost \/ x \in UNION left
    BY <2>1
  <2>3. \A c, x : x \in Gone(c) <=> x \in Cargo(reply[c]) \/ (process[c] = "off" /\ x \in CargoOf(outgoing[c]))
    OBVIOUS
  <2> HIDE DEF Gone
  <2>4. QED BY <2>2, <2>2a, <2>3
<1>2a. /\ \A m : m \in missing' <=> m \in missing \/ \E w \in Workspaces : m \in inbox[w] /\ m \notin saved[w]
       /\ \A m : m \in again' <=> m \in again \/ \E w \in Workspaces : m \in saved[w] /\ m \notin inbox[w]
  <2> DEFINE left == {inbox[w] \ saved[w] : w \in Workspaces}
             back == {saved[w] \ inbox[w] : w \in Workspaces}
  <2>1. missing' = missing \union UNION left /\ again' = again \union UNION back
    BY DEF DaemonRestarts
  <2>2. /\ \A m : m \in UNION left <=> \E w \in Workspaces : m \in inbox[w] /\ m \notin saved[w]
        /\ \A m : m \in UNION back <=> \E w \in Workspaces : m \in saved[w] /\ m \notin inbox[w]
    OBVIOUS
  <2> HIDE DEF left, back
  <2>3. QED BY <2>1, <2>2
<1>3. RegistryInv'
  BY RestartKeeps DEF LinkInv
<1>4. ASSUME NEW c \in Connections
      PROVE  /\ Requests(c)' = {} /\ Answers(c)' \subseteq Answers(c) /\ Wire(outgoing'[c], NoReply)
             /\ \A x \in Gone(c) : /\ x \in [msg : Message, call : Nat]
                                   /\ \E e \in Answers(c) : e \notin Answers(c)' /\ x.call = e.call /\ x.msg \in e.got
             /\ \A e \in Answers(c) : e \notin Answers(c)' => \A m \in e.got : \E x \in Gone(c) : x.msg = m
             /\ process[c] = "off" => Answers(c)' = {}
  <2>1. /\ outgoing[c] \in Seq(Answer \union {Push}) /\ reply[c] \in Answer \union {NoReply}
        /\ Wire(outgoing[c], reply[c]) /\ NoReply \notin Answer \union {Push} /\ Push \notin Answer
    BY <1>4, DaemonLinkAssumption DEF LinkInv, LinkType, LinesInv
  <2>2. Requests(c)' = {}
    BY <1>1, <1>4, NothingInLine DEF Requests
  <2>3. process[c] = "off" => Answers(c)' = {}
    BY <1>1, <1>4, NothingInLine DEF Answers
  <2>4. process[c] # "off" => Answers(c)' = Range(outgoing[c]) \ {NoReply, Push}
    BY <1>1, <1>4 DEF Answers, OnWire
  <2>5. Answers(c) = (Range(outgoing[c]) \union {reply[c]}) \ {NoReply, Push}
    BY DEF Answers, OnWire
  <2>6. reply[c] \notin Range(outgoing[c]) /\ Wire(outgoing'[c], NoReply)
    <3>1. Wire(outgoing[c], NoReply) /\ reply[c] \notin Range(outgoing[c])
      BY <2>1 DEF Wire, Range
    <3>2. QED BY <1>1, <1>4, <3>1, NothingInLine
  <2>7. \A x \in Cargo(reply[c]) : /\ x \in [msg : Message, call : Nat]
                                   /\ \E e \in Answers(c) : e \notin Answers(c)' /\ x.call = e.call /\ x.msg \in e.got
    BY <2>1, <2>3, <2>4, <2>5, <2>6, CargoIs
  <2>8. ASSUME process[c] = "off"
        PROVE  \A x \in CargoOf(outgoing[c]) :
                 /\ x \in [msg : Message, call : Nat]
                 /\ \E e \in Answers(c) : e \notin Answers(c)' /\ x.call = e.call /\ x.msg \in e.got
    BY <2>1, <2>3, <2>5, <2>8, CargoOfIs
  <2>9. ASSUME NEW e \in Answers(c), e \notin Answers(c)', NEW m \in e.got PROVE \E x \in Gone(c) : x.msg = m
    <3>1. CASE e = reply[c]
      <4>1. \E x \in Cargo(reply[c]) : x.msg = m
        BY <2>1, <2>5, <2>9, <3>1, CargoIs
      <4>2. QED BY <4>1
    <3>2. CASE e # reply[c]
      <4>1. process[c] = "off" /\ e \in Range(outgoing[c]) \ {NoReply, Push}
        BY <2>4, <2>5, <2>9, <3>2
      <4>2. \E x \in CargoOf(outgoing[c]) : x.msg = m
        BY <2>1, <2>9, <4>1, CargoOfIs
      <4>3. QED BY <4>1, <4>2
    <3>3. QED BY <3>1, <3>2
  <2>10. \A x \in Gone(c) : x \in Cargo(reply[c]) \/ (process[c] = "off" /\ x \in CargoOf(outgoing[c]))
    OBVIOUS
  <2>11. Answers(c)' \subseteq Answers(c)
    BY <2>3, <2>4, <2>5
  <2> HIDE DEF Gone
  <2>12. QED BY <2>2, <2>3, <2>6, <2>7, <2>8, <2>9, <2>10, <2>11
<1> HIDE DEF Gone
<1>5. LinkType'
  <2>1. \A c \in Connections : outgoing'[c] \in Seq(Answer \union {Push}) /\ Len(outgoing'[c]) <= Capacity
    BY <1>1, NothingInLine, DaemonLinkAssumption DEF LinkInv, LinkType
  <2>2. outgoing' \in [Connections -> Seq(Answer \union {Push})]
    BY <1>1, <2>1
  <2>3. toServer' \in [Connections -> Seq(Question)] /\ reply' \in [Connections -> Answer \union {NoReply}]
        /\ outbox' \in [Connections -> 0..Capacity]
    BY <1>1, NothingInLine, DaemonLinkAssumption
  <2>4. dropped' \in SUBSET [msg : Message, call : Nat]
    BY <1>2, <1>4 DEF LinkInv, LinkType
  <2>5. faults' \in 0..MaxFaults
    BY <1>1, DaemonLinkAssumption DEF LinkInv, LinkType
  <2>6. QED BY <1>1, <2>1, <2>2, <2>3, <2>4, <2>5 DEF LinkInv, LinkType
<1>6. LinesInv'
  BY <1>1, <1>4, NothingInLine DEF LinesInv
<1>7. CallsInv'
  BY <1>1 DEF LinkInv, CallsInv, Active
<1>8. ConnInv'
  BY <1>1, <1>4 DEF LinkInv, ConnInv
<1>9. Shed
  <2>1. /\ \A c \in Connections : Requests(c)' \subseteq Requests(c) /\ Answers(c)' \subseteq Answers(c)
        /\ DOMAIN calls' = DOMAIN calls /\ \A n \in DOMAIN calls : calls'[n] = calls[n]
        /\ dropped \subseteq dropped'
    BY <1>1, <1>2, <1>4
  <2>1a. /\ \A w \in Workspaces : \A m \in inbox'[w] : m \in inbox[w] \/ (m \in saved[w] /\ m \in again')
         /\ \A w \in Workspaces : \A m \in inbox[w] : m \in inbox'[w] \/ m \in missing'
         /\ \A w \in Workspaces : \A m \in saved'[w] : m \in saved[w]
         /\ missing \subseteq missing' /\ again \subseteq again' /\ \A m \in missing' : m \in missing \/ Unread(m)
         /\ \A c \in Connections : ~conn'[c].open
    BY <1>1, <1>2a DEF Unread
  <2>2. \A d \in dropped' : d \notin dropped =>
          \E c \in Connections : \E e \in Answers(c) : e \notin Answers(c)' /\ d.call = e.call /\ d.msg \in e.got
    BY <1>2, <1>4
  <2>3. \A c \in Connections : \A e \in Answers(c) : e \notin Answers(c)' =>
          \A m \in e.got : \E d \in dropped' : d.msg = m
    BY <1>2, <1>4
  <2>4. QED BY <2>1, <2>1a, <2>2, <2>3 DEF Shed
<1>10. QED BY <1>3, <1>5, <1>6, <1>7, <1>8, <1>9, ShedKeeps DEF LinkInv, FlowInv

(* End of file: the calls that wait fail.                                     *)
LEMMA ReaderEndsKeeps ==
  ASSUME LinkInv, NEW c \in Connections, ReaderEnds(c)
  PROVE  LinkInv'
<1> DEFINE N == {n \in Running(c) : calls[n].at = "wait"}
<1>1. /\ process[c] \in {"dialing", "up"} /\ outgoing[c] = <<>> /\ ~conn[c].open
      /\ process' = [process EXCEPT ![c] = IF process[c] = "dialing" THEN "off" ELSE "cut"]
      /\ calls' = [n \in DOMAIN calls |-> IF n \in N THEN Finished(calls[n], "error") ELSE calls[n]]
      /\ UNCHANGED <<toServer, reply, outgoing, outbox, inbox, saved, missing, again, dropped, faults>> /\ UNCHANGED vars
  BY DEF ReaderEnds, file
<1>2. LinkType
  BY DEF LinkInv
<1> HIDE DEF N
<1>3. /\ calls' \in Seq(Call) /\ DOMAIN calls' = DOMAIN calls
      /\ \A n \in DOMAIN calls :
           /\ n \notin N => calls'[n] = calls[n]
           /\ n \in N => /\ SameQuestion(calls'[n], calls[n]) /\ calls'[n].at = "error"
                         /\ calls'[n].got = calls[n].got /\ calls'[n].clean = calls[n].clean
  BY <1>1, <1>2, SomeFinish
<1>4. process'[c] \in {"off", "cut"} /\ (process'[c] = "off" <=> process[c] = "dialing")
      /\ \A d \in Connections : d # c => process'[d] = process[d]
  BY <1>1, <1>2 DEF LinkType
<1>5. RegistryInv'
  BY <1>1, OthersKeep DEF LinkInv
<1>6. LinkType'
  BY <1>1, <1>3 DEF LinkInv, LinkType
<1>7. LinesInv'
  BY <1>1 DEF LinkInv, LinesInv
<1>8. \A d \in Connections : Requests(d)' = Requests(d) /\ Answers(d)' = Answers(d)
  BY <1>1 DEF Requests, Answers
<1>9. CallsInv'
  <2>1. \A n \in DOMAIN calls : Active(n)' => /\ n \notin N /\ Active(n) /\ calls'[n] = calls[n]
    BY <1>3 DEF Active, Ended
  <2>2. ASSUME NEW n \in DOMAIN calls, Active(n), n \notin N
        PROVE  process[calls[n].conn] = process'[calls[n].conn]
               \/ (calls[n].conn = c /\ process[c] = "up" /\ process'[c] = "cut")
    <3>1. CASE calls[n].conn # c
      BY <1>4, <3>1, <1>2, Typed
    <3>2. CASE calls[n].conn = c
      <4>1. calls[n].at = "sleep"
        BY <1>2, <2>2, <3>2, Typed DEF N, Running, Active, Places
      <4>2. calls[n].tool # "connect"
        BY <2>2, <4>1 DEF LinkInv, CallsInv, Polling
      <4>3. process[c] # "dialing"
        BY <2>2, <3>2, <4>2 DEF LinkInv, CallsInv
      <4>4. QED BY <1>1, <1>4, <3>2, <4>3
    <3>3. QED BY <3>1, <3>2
  <2>3. QED BY <1>3, <2>1, <2>2 DEF LinkInv, CallsInv
<1>10. ConnInv'
  <2>1. Answers(c) = {}
    BY <1>1, NothingInLine DEF LinkInv, ConnInv, Answers
  <2>2. QED BY <1>1, <1>4, <1>8, <2>1 DEF LinkInv, ConnInv, vars
<1>11. Shed
  BY <1>1, <1>3, <1>8 DEF Shed, vars
<1>12. QED BY <1>5, <1>6, <1>7, <1>9, <1>10, <1>11, ShedKeeps DEF LinkInv, FlowInv

(* A process is gone, and its calls with it.                                  *)
LEMMA ExitKeeps ==
  ASSUME LinkInv, NEW c \in Connections, Exit(c)
  PROVE  LinkInv'
<1> DEFINE N == Running(c)
<1>1. /\ process' = [process EXCEPT ![c] = "off"]
      /\ calls' = [n \in DOMAIN calls |-> IF n \in N THEN Finished(calls[n], "gone") ELSE calls[n]]
      /\ UNCHANGED <<toServer, reply, outbox, inbox, saved, missing, again>> /\ UNCHANGED vars
      /\ faults' = faults \/ (faults < MaxFaults /\ faults' = faults + 1)
  BY DEF Exit, Fault, file
<1>2. LinkType
  BY DEF LinkInv
<1>2a. \A n \in DOMAIN calls : n \in N <=> calls[n].conn = c /\ Active(n)
  BY DEF Running, Active
<1> HIDE DEF N
<1>3. /\ calls' \in Seq(Call) /\ DOMAIN calls' = DOMAIN calls
      /\ \A n \in DOMAIN calls :
           /\ n \notin N => calls'[n] = calls[n]
           /\ n \in N => /\ SameQuestion(calls'[n], calls[n]) /\ calls'[n].at = "gone"
                         /\ calls'[n].got = calls[n].got /\ calls'[n].clean = calls[n].clean
  BY <1>1, <1>2, SomeFinish
<1>4. process'[c] = "off" /\ \A d \in Connections : d # c => process'[d] = process[d]
  BY <1>1, <1>2 DEF LinkType
<1>5. RegistryInv'
  BY <1>1, OthersKeep DEF LinkInv
<1>6. CallsInv'
  <2>1. \A n \in DOMAIN calls : Active(n)' => Active(n) /\ calls'[n] = calls[n] /\ calls[n].conn # c
    BY <1>2a, <1>3 DEF Active, Ended
  <2>2. QED BY <1>2, <1>3, <1>4, <2>1, Typed DEF LinkInv, CallsInv
<1>7. faults' \in 0..MaxFaults /\ process' \in [Connections -> {"off", "dialing", "up", "cut"}]
  BY <1>1, <1>2, DaemonLinkAssumption DEF LinkType
<1>8. CASE conn[c].open
  <2>1. UNCHANGED <<outgoing, dropped>>
    BY <1>8 DEF Exit
  <2>2. LinkType' /\ LinesInv'
    BY <1>1, <1>3, <1>7, <2>1 DEF LinkInv, LinkType, LinesInv
  <2>3. \A d \in Connections : Requests(d)' = Requests(d) /\ Answers(d)' = Answers(d)
    BY <1>1, <2>1 DEF Requests, Answers
  <2>4. ConnInv'
    BY <1>1, <1>4, <1>8, <2>3 DEF LinkInv, ConnInv, vars
  <2>5. Shed
    BY <1>1, <1>3, <2>1, <2>3 DEF Shed, vars
  <2>6. QED BY <1>5, <1>6, <2>2, <2>4, <2>5, ShedKeeps DEF LinkInv, FlowInv
<1>9. CASE ~conn[c].open
  <2>1. outgoing' = [outgoing EXCEPT ![c] = <<>>] /\ dropped' = dropped \union CargoOf(outgoing[c])
    BY <1>9 DEF Exit
  <2>2. reply[c] = NoReply /\ outgoing[c] \in Seq(Answer \union {Push})
    BY <1>9 DEF LinkInv, ConnInv, LinkType
  <2>3. outgoing'[c] = <<>> /\ \A d \in Connections : d # c => outgoing'[d] = outgoing[d]
    BY <1>2, <2>1 DEF LinkType
  <2>4. Answers(c) = Range(outgoing[c]) \ {NoReply, Push}
    BY <2>2 DEF Answers, OnWire
  <2>5. /\ \A x \in CargoOf(outgoing[c]) : /\ x \in [msg : Message, call : Nat]
                                           /\ \E e \in Answers(c) : x.call = e.call /\ x.msg \in e.got
        /\ \A e \in Answers(c) : \A m \in e.got : \E x \in CargoOf(outgoing[c]) : x.msg = m
    BY <2>2, <2>4, CargoOfIs
  <2>6. /\ Answers(c)' = {} /\ \A d \in Connections : d # c => Answers(d)' = Answers(d)
        /\ \A d \in Connections : Requests(d)' = Requests(d)
    BY <1>1, <2>2, <2>3, NothingInLine DEF Requests, Answers
  <2>7. LinkType'
    BY <1>1, <1>3, <1>7, <2>1, <2>3, <2>5, NothingInLine, DaemonLinkAssumption DEF LinkInv, LinkType
  <2>8. LinesInv'
    BY <1>1, <2>3, NothingInLine DEF LinkInv, LinesInv
  <2>9. ConnInv'
    BY <1>1, <1>4, <1>9, <2>6 DEF LinkInv, ConnInv, vars
  <2>10. Shed
    BY <1>1, <1>3, <2>1, <2>5, <2>6 DEF Shed, vars
  <2>11. QED BY <1>5, <1>6, <2>7, <2>8, <2>9, <2>10, ShedKeeps DEF LinkInv, FlowInv
<1>10. QED BY <1>8, <1>9

-----------------------------------------------------------------------------
(* The steps that begin a call                                                *)

(* A new call, before its first request.                                      *)
LEMMA NewCallIs ==
  ASSUME NEW c \in Connections, NEW tool \in Tools \union {"connect"}, NEW to \in Workspaces, NEW re \in Nat
  PROVE  LET k == NewCall(c, tool, to, re)
         IN  /\ k \in Call /\ k.conn = c /\ k.tool = tool /\ k.to = to /\ k.re = re /\ k.at = "wait"
             /\ k.kind = First(tool) /\ k.seq = 1 /\ k.got = {}
             /\ k.clean => tool \in Polling /\ \A m \in inbox[Name[c]] : m.from # to
             /\ Stage(tool, First(tool), 1) /\ First(tool) \in Kinds
<1> DEFINE u == tool \in Polling /\ Undisturbed(Name[c], to)
           f == First(tool)
           k == NewCall(c, tool, to, re)
<1>1. k = [conn |-> c, tool |-> tool, to |-> to, re |-> re, at |-> "wait", kind |-> f, seq |-> 1,
           polls |-> 0, got |-> {}, clean |-> u]
  BY DEF NewCall
<1>2. u \in BOOLEAN /\ (u => tool \in Polling /\ \A m \in inbox[Name[c]] : m.from # to)
  BY DEF Undisturbed
<1>3. f \in Kinds
  BY DEF First, Kinds, Tools
<1>4. Stage(tool, f, 1)
  BY DEF First, Stage, Tools, Once
<1> HIDE DEF u, f
<1>5. k \in Call
  BY <1>1, <1>2, <1>3 DEF Call, Places, Ended
<1>6. /\ k.conn = c /\ k.tool = tool /\ k.to = to /\ k.re = re /\ k.at = "wait"
      /\ k.kind = f /\ k.seq = 1 /\ k.got = {} /\ k.clean = u
  BY <1>1
<1> HIDE DEF k
<1>7. k.clean => tool \in Polling /\ \A m \in inbox[Name[c]] : m.from # to
  BY <1>2, <1>6
<1>8. QED BY <1>3, <1>4, <1>5, <1>6, <1>7 DEF f, k

(* The request a call makes.                                                  *)
LEMMA RequestIs ==
  ASSUME NEW n \in Nat, NEW k \in Call, k.kind \in Kinds
  PROVE  Request(n, k) \in Question /\ Request(n, k).call = n /\ Request(n, k).seq = k.seq
         /\ Request(n, k).kind = k.kind
BY DEF Request, Question, Call

(* A client connects and asks for its registration.                           *)
LEMMA DialKeeps ==
  ASSUME LinkInv, NEW c \in Connections, Dial(c)
  PROVE  LinkInv'
<1> DEFINE n == Len(calls) + 1
           k == NewCall(c, "connect", Name[c], 0)
           q == Request(n, k)
<1>1. /\ process[c] = "off" /\ Accept(c) /\ process' = [process EXCEPT ![c] = "dialing"]
      /\ calls' = Append(calls, k) /\ toServer' = [toServer EXCEPT ![c] = <<q>>]
      /\ outgoing' = [outgoing EXCEPT ![c] = <<>>] /\ UNCHANGED <<reply, outbox, inbox, saved, missing, again, dropped, faults>>
  BY DEF Dial, file
<1>2. LinkType
  BY DEF LinkInv
<1>3. /\ k \in Call /\ k.conn = c /\ k.tool = "connect" /\ k.at = "wait" /\ k.kind = "register" /\ k.seq = 1
      /\ k.got = {} /\ ~k.clean /\ Stage("connect", "register", 1)
  <2>1. Name[c] \in Workspaces /\ 0 \in Nat /\ First("connect") = "register" /\ "connect" \notin Polling
    BY DaemonLinkAssumption DEF First, Polling
  <2>2. QED BY <2>1, NewCallIs
<1>4. n \in Nat
  BY <1>2, Typed
<1> HIDE DEF k
<1>5. q \in Question /\ q.kind = "register"
  BY <1>3, <1>4, RequestIs DEF Kinds
<1>6. /\ toServer'[c] = <<q>> /\ outgoing'[c] = <<>> /\ process'[c] = "dialing"
      /\ \A d \in Connections : d # c => toServer'[d] = toServer[d] /\ outgoing'[d] = outgoing[d] /\ process'[d] = process[d]
  BY <1>1, <1>2 DEF LinkType
<1>7. ~conn[c].open /\ conn'[c].open /\ conn'[c].workspace = Unnamed
      /\ \A d \in Connections : d # c => conn'[d] = conn[d]
  BY <1>1 DEF Accept, Accepted, LinkInv, RegistryInv, TypeOK
<1>8. reply[c] = NoReply /\ \A e \in Answers(c) : e.got = {}
  BY <1>1, <1>7 DEF LinkInv, ConnInv
<1> HIDE DEF q
<1>9. <<q>> \in Seq(Question) /\ Range(<<q>>) = {q} /\ Line(<<q>>)
  BY <1>5 DEF Range, Line
<1>10. /\ Requests(c)' = {q} /\ Answers(c)' = {}
       /\ \A d \in Connections : d # c => Requests(d)' = Requests(d) /\ Answers(d)' = Answers(d)
  BY <1>1, <1>6, <1>8, <1>9, NothingInLine DEF Requests, Answers
<1>11. RegistryInv'
  BY <1>1, AcceptKeeps DEF LinkInv
<1>12. LinkType'
  <2>1. calls' \in Seq(Call)
    BY <1>1, <1>2, <1>3 DEF LinkType
  <2>2. QED BY <1>1, <1>2, <1>6, <1>9, <2>1, NothingInLine, DaemonLinkAssumption DEF LinkType
<1>13. LinesInv'
  BY <1>1, <1>6, <1>9, NothingInLine DEF LinkInv, LinesInv
<1>14. ConnInv'
  BY <1>1, <1>5, <1>6, <1>7, <1>10 DEF LinkInv, ConnInv
<1>15. Begin(c, k)
  <2>1. q = Request(Len(calls) + 1, k)
    BY DEF q
  <2>2. \A l \in DOMAIN calls : Active(l) => calls[l].conn # c /\ calls[l].conn \in Connections
    BY <1>1, <1>2, Typed DEF LinkInv, CallsInv
  <2>3. QED BY <1>1, <1>3, <1>7, <1>8, <1>10, <2>1, <2>2 DEF Begin
<1>16. CallsInv'
  <2>1. /\ n \notin DOMAIN calls /\ DOMAIN calls' = DOMAIN calls \union {n}
        /\ calls'[n] = k /\ \A l \in DOMAIN calls : calls'[l] = calls[l]
    BY <1>1, <1>2, RangeOfAppend DEF LinkType
  <2> HIDE DEF n
  <2>2. \A l \in DOMAIN calls : Active(l) => calls[l].conn # c
    BY <1>1 DEF LinkInv, CallsInv
  <2>3. \A l \in DOMAIN calls : calls[l].conn \in Connections
    BY <1>2, Typed
  <2>4. QED BY <1>3, <1>6, <2>1, <2>2, <2>3 DEF LinkInv, CallsInv, Active
<1>17. QED BY <1>11, <1>12, <1>13, <1>14, <1>15, <1>16, BeginKeeps DEF LinkInv, FlowInv

(* A client calls a tool.                                                     *)
LEMMA StartCallKeeps ==
  ASSUME LinkInv, NEW c \in Connections, NEW tool \in Tools, NEW to \in Workspaces, NEW re \in Nat,
         StartCall(c, tool, to, re)
  PROVE  LinkInv'
<1> DEFINE n == Len(calls) + 1
           k == NewCall(c, tool, to, re)
<1>1. /\ process[c] \in {"up", "cut"} /\ Free(c)
      /\ IF process[c] = "cut" THEN calls' = Append(calls, Finished(k, "error")) /\ UNCHANGED toServer
         ELSE calls' = Append(calls, k) /\ toServer' = [toServer EXCEPT ![c] = Append(toServer[c], Request(n, k))]
      /\ UNCHANGED <<process, reply, outgoing, outbox, inbox, saved, missing, again, dropped, faults>> /\ UNCHANGED vars
  BY DEF StartCall, file
<1>2. LinkType /\ "connect" \notin Tools
  BY DEF LinkInv, Tools
<1>3. /\ k \in Call /\ k.conn = c /\ k.tool = tool /\ k.to = to /\ k.at = "wait" /\ k.kind = First(tool) /\ k.seq = 1
      /\ k.got = {} /\ Stage(tool, First(tool), 1) /\ First(tool) \in Kinds
      /\ k.clean => tool \in Polling /\ \A m \in inbox[Name[c]] : m.from # to
  BY NewCallIs
<1>4. n \in Nat
  BY <1>2, Typed
<1> HIDE DEF k
<1>5. RegistryInv'
  BY <1>1, OthersKeep DEF LinkInv
<1>6. ASSUME NEW l \in Call, calls' = Append(calls, l)
      PROVE  /\ calls' \in Seq(Call) /\ n \notin DOMAIN calls /\ DOMAIN calls' = DOMAIN calls \union {n}
             /\ calls'[n] = l /\ \A j \in DOMAIN calls : calls'[j] = calls[j]
  BY <1>2, <1>6, RangeOfAppend DEF LinkType
<1>7. \A d \in Connections : Answers(d)' = Answers(d)
  BY <1>1 DEF Answers
<1>8. CASE process[c] = "cut"
  <2> DEFINE l == Finished(k, "error")
  <2>1. calls' = Append(calls, l) /\ UNCHANGED toServer
    BY <1>1, <1>8
  <2>2. l \in Call /\ l.conn = c /\ l.at = "error" /\ l.got = {} /\ l.clean = k.clean /\ l.tool = tool /\ l.to = to
    BY <1>3, FinishedIs DEF Ended, SameQuestion
  <2> HIDE DEF l
  <2>3. \A d \in Connections : Requests(d)' = Requests(d)
    BY <2>1 DEF Requests
  <2>4. LinkType' /\ LinesInv' /\ ConnInv'
    <3>1. calls' \in Seq(Call)
      BY <1>6, <2>1, <2>2
    <3>2. QED BY <1>1, <1>7, <2>1, <2>3, <3>1 DEF LinkInv, LinkType, LinesInv, ConnInv, vars
  <2>5. CallsInv'
    <3> HIDE DEF n
    <3>1. QED BY <1>1, <1>6, <2>1, <2>2 DEF LinkInv, CallsInv, Active, Ended
  <2>6. Begin(c, l)
    BY <1>1, <1>3, <1>7, <2>1, <2>2, <2>3 DEF Begin, vars
  <2>7. QED BY <1>5, <2>4, <2>5, <2>6, BeginKeeps DEF LinkInv, FlowInv
<1>9. CASE process[c] # "cut"
  <2> DEFINE q == Request(n, k)
  <2>1. calls' = Append(calls, k) /\ toServer' = [toServer EXCEPT ![c] = Append(toServer[c], q)] /\ process[c] = "up"
    BY <1>1, <1>9
  <2>2. q \in Question /\ q.call = n
    BY <1>3, <1>4, RequestIs
  <2>2a. q = Request(Len(calls) + 1, k)
    OBVIOUS
  <2> HIDE DEF q
  <2>3. /\ calls' \in Seq(Call) /\ n \notin DOMAIN calls /\ DOMAIN calls' = DOMAIN calls \union {n}
        /\ calls'[n] = k /\ \A j \in DOMAIN calls : calls'[j] = calls[j]
    BY <1>3, <1>6, <2>1
  <2>4. q \notin Requests(c) /\ toServer[c] \in Seq(Question) /\ Line(toServer[c])
    BY <2>2, <2>3 DEF LinkInv, ItemsInv, LinkType, LinesInv
  <2>5. /\ toServer'[c] = Append(toServer[c], q) /\ Append(toServer[c], q) \in Seq(Question)
        /\ \A d \in Connections : d # c => toServer'[d] = toServer[d]
    BY <1>2, <2>1, <2>2, <2>4 DEF LinkType
  <2>6. /\ Requests(c)' = Requests(c) \union {q} /\ Line(toServer'[c])
        /\ \A d \in Connections : d # c => Requests(d)' = Requests(d)
    BY <2>4, <2>5, RangeOfAppend, LineGrows DEF Requests
  <2>7. LinkType'
    BY <1>1, <1>2, <2>1, <2>3, <2>5 DEF LinkType
  <2>8. LinesInv'
    BY <1>1, <2>5, <2>6 DEF LinkInv, LinesInv
  <2>9. ConnInv'
    BY <1>1, <1>7, <2>1, <2>6 DEF LinkInv, ConnInv, vars
  <2>10. CallsInv'
    <3>1. c \notin Mcp => \A j \in DOMAIN calls : calls[j].conn = c => ~Active(j)
      BY <1>1 DEF Free, Running, Active
    <3> HIDE DEF n
    <3>2. QED BY <1>1, <1>2, <1>3, <2>1, <2>3, <3>1 DEF LinkInv, CallsInv, Active
  <2>11. Begin(c, k)
    BY <1>1, <1>3, <1>7, <2>1, <2>2a, <2>6 DEF Begin, vars
  <2>12. QED BY <1>5, <2>7, <2>8, <2>9, <2>10, <2>11, BeginKeeps DEF LinkInv, FlowInv
<1>10. QED BY <1>8, <1>9

-----------------------------------------------------------------------------
(* The steps that take a call further                                         *)

(* What a tool does next fits its program.                                    *)
Fits(tool, kind, seq, next) ==
  /\ next \in Kinds \union {"sleep"} \union Ended
  /\ next \in Kinds => tool \in Polling /\ Stage(tool, next, seq + 1)
  /\ next = "sleep" => tool \in Polling /\ kind = "read"

(* What a tool does next fits its program.                                    *)
LEMMA FollowFits ==
  ASSUME NEW tool \in Tools \union {"connect"}, NEW kind, NEW seq \in Nat, Stage(tool, kind, seq),
         NEW ok \in BOOLEAN, NEW got, NEW found \in BOOLEAN
  PROVE  LET next == Follow(tool, kind, ok, got, found)
         IN  /\ Fits(tool, kind, seq, next)
             /\ next = "ok" => ok /\ (tool \in Polling => got # {})
<1> DEFINE next == Follow(tool, kind, ok, got, found)
           empty == got = {}
           r == AfterRead(ok, got, "error")
           s == AfterRead(ok, got, "list")
<1>1. /\ r \in {"error", "sleep", "ok"} /\ (r = "ok" => ok /\ got # {})
      /\ s \in {"list", "sleep", "ok"} /\ (s = "ok" => ok /\ got # {})
  BY DEF AfterRead
<1> HIDE DEF r, s
<1>2. CASE tool \in Once
  <2>1. next \in {"ok", "error"} /\ (next = "ok" => ok)
    BY <1>2 DEF Follow, Once
  <2> HIDE DEF next
  <2>2. QED BY <1>2, <2>1 DEF Fits, Once, Polling, Kinds, Ended, next
<1>3. CASE tool = "request_message"
  <2>1. CASE kind = "send" /\ seq = 1
    <3>1. next \in {"read", "error"}
      BY <1>3, <2>1 DEF Follow, RequestMessage
    <3> HIDE DEF next
    <3>2. QED BY <1>3, <2>1, <3>1 DEF Fits, Stage, Polling, Kinds, Ended, next
  <2>2. CASE kind = "read" /\ seq >= 2
    <3>1. next = s
      BY <1>3, <2>2 DEF Follow, RequestMessage, s
    <3> HIDE DEF next
    <3>2. QED BY <1>1, <1>3, <2>2, <3>1 DEF Fits, Stage, Polling, Kinds, Ended, next
  <2>3. CASE kind = "list"
    <3>1. next = "error"
      BY <1>3, <2>3 DEF Follow, RequestMessage
    <3> HIDE DEF next
    <3>2. QED BY <1>3, <2>3, <3>1 DEF Fits, Stage, Polling, Kinds, Ended, next
  <2>4. QED BY <1>3, <2>1, <2>2, <2>3 DEF Stage, Once
<1>4. CASE tool = "inspect_agent"
  <2>1. CASE kind = "list" /\ seq = 1
    <3>1. next \in {"send", "error"}
      BY <1>4, <2>1 DEF Follow, InspectAgent
    <3> HIDE DEF next
    <3>2. QED BY <1>4, <2>1, <3>1 DEF Fits, Stage, Polling, Kinds, Ended, next
  <2>2. CASE kind = "send" /\ seq = 2
    <3>1. next \in {"read", "error"}
      BY <1>4, <2>2 DEF Follow, InspectAgent
    <3> HIDE DEF next
    <3>2. QED BY <1>4, <2>2, <3>1 DEF Fits, Stage, Polling, Kinds, Ended, next
  <2>3. CASE kind = "read" /\ seq >= 3
    <3>1. next = r
      BY <1>4, <2>3 DEF Follow, InspectAgent, r
    <3> HIDE DEF next
    <3>2. QED BY <1>1, <1>4, <2>3, <3>1 DEF Fits, Stage, Polling, Kinds, Ended, next
  <2>4. QED BY <1>4, <2>1, <2>2, <2>3 DEF Stage, Once
<1>5. QED BY <1>2, <1>3, <1>4 DEF Tools, Once

(* How a call goes on.                                                        *)
LEMMA ProceedIs ==
  ASSUME LinkType, NEW n \in DOMAIN calls, NEW next, NEW got \in SUBSET Message, Proceed(n, next, got),
         Fits(calls[n].tool, calls[n].kind, calls[n].seq, next), calls[n].kind \in Kinds
  PROVE  \E k \in Call :
           /\ calls' = [calls EXCEPT ![n] = k]
           /\ SameQuestion(k, calls[n]) /\ k.clean = calls[n].clean /\ k.got = calls[n].got \union got
           /\ \/ /\ next \in Kinds /\ k.at = "wait" /\ k.kind = next /\ k.seq = calls[n].seq + 1
                 /\ toServer' = [toServer EXCEPT ![calls[n].conn] = Append(toServer[calls[n].conn], Request(n, k))]
              \/ /\ next = "sleep" /\ k.at = "sleep" /\ k.kind = calls[n].kind /\ k.seq = calls[n].seq
                 /\ UNCHANGED toServer
              \/ /\ k.at \in Ended /\ (k.at = "ok" => next = "ok") /\ next # "sleep"
                 /\ UNCHANGED toServer
<1> DEFINE c == calls[n].conn
           asks == next \notin Ended \union {"sleep"} /\ process[c] # "cut"
           call == [calls[n] EXCEPT !.got = calls[n].got \union got]
           polls == IF call.at = "sleep" THEN call.polls + 1 ELSE call.polls
           how == IF next \in Ended THEN next ELSE "error"
           k == IF asks THEN [call EXCEPT !.at = "wait", !.kind = next, !.seq = call.seq + 1, !.polls = polls]
                ELSE IF next = "sleep" THEN [call EXCEPT !.at = "sleep"] ELSE Finished(call, how)
<1>1. calls' = [calls EXCEPT ![n] = k]
  BY DEF Proceed
<1>2. toServer' = IF asks THEN [toServer EXCEPT ![c] = Append(toServer[c], Request(n, calls'[n]))] ELSE toServer
  BY DEF Proceed
<1>3. calls[n] \in Call /\ calls'[n] = k /\ calls[n].got \subseteq Message
  BY <1>1, Typed DEF LinkType
<1>4. /\ call \in Call /\ SameQuestion(call, calls[n]) /\ call.clean = calls[n].clean /\ call.at = calls[n].at
      /\ call.got = calls[n].got \union got /\ call.kind = calls[n].kind /\ call.seq = calls[n].seq
  BY <1>3 DEF Call, SameQuestion
<1> HIDE DEF call
<1>5. polls \in Nat /\ call.seq + 1 \in Nat
  BY <1>4 DEF Call
<1>6. CASE asks
  <2>1. k = [call EXCEPT !.at = "wait", !.kind = next, !.seq = call.seq + 1, !.polls = polls]
    BY <1>6
  <2>2. next \in Kinds
    BY <1>6 DEF Fits
  <2> HIDE DEF polls, asks
  <2>3. /\ k \in Call /\ SameQuestion(k, call) /\ k.clean = call.clean /\ k.got = call.got
        /\ k.at = "wait" /\ k.kind = next /\ k.seq = call.seq + 1
    BY <1>4, <1>5, <2>1, <2>2 DEF Call, SameQuestion, Places
  <2>4. toServer' = [toServer EXCEPT ![c] = Append(toServer[c], Request(n, k))]
    BY <1>2, <1>3, <1>6
  <2> HIDE DEF k
  <2>5. QED BY <1>1, <1>4, <2>2, <2>3, <2>4 DEF SameQuestion
<1>7. CASE ~asks /\ next = "sleep"
  <2>1. k = [call EXCEPT !.at = "sleep"] /\ UNCHANGED toServer
    BY <1>2, <1>7
  <2>2. /\ k \in Call /\ SameQuestion(k, call) /\ k.clean = call.clean /\ k.got = call.got
        /\ k.at = "sleep" /\ k.kind = call.kind /\ k.seq = call.seq
    BY <1>4, <2>1 DEF Call, SameQuestion, Places
  <2> HIDE DEF k, asks
  <2>3. QED BY <1>1, <1>4, <1>7, <2>1, <2>2 DEF SameQuestion
<1>8. CASE ~asks /\ next # "sleep"
  <2>1. k = Finished(call, how) /\ UNCHANGED toServer
    BY <1>2, <1>8
  <2>2. how \in Ended /\ (how = "ok" => next = "ok")
    BY DEF Ended
  <2> HIDE DEF how, k, asks
  <2>3. k \in Call /\ SameQuestion(k, call) /\ k.clean = call.clean /\ k.got = call.got /\ k.at = how
    BY <1>4, <2>1, <2>2, FinishedIs
  <2>4. QED BY <1>1, <1>4, <1>8, <2>1, <2>2, <2>3 DEF SameQuestion
<1>9. QED BY <1>6, <1>7, <1>8

(* Call n of connection c takes the messages `got' from the answers it reads, *)
(* and succeeds only with one that says so.                                   *)
Takes(c, n, next, got, ok) ==
  /\ \A d \in Connections : Answers(d)' \subseteq Answers(d)
  /\ \A d \in Connections : \A e \in Answers(d) :
       e \notin Answers(d)' => d = c /\ e.call = n /\ e.got \subseteq got
  /\ \A m \in got : \E e \in Answers(c) : e \notin Answers(c)' /\ m \in e.got
  /\ next = "ok" /\ calls[n].tool \in Polling => got # {}
  /\ (ok \/ next = "ok") => \E e \in Answers(c) : e \notin Answers(c)' /\ e.ok

(* A call that goes on keeps the invariant, whether it read an answer or not. *)
LEMMA GoesOn ==
  ASSUME LinkInv, NEW n \in DOMAIN calls, Active(n), NEW c, c = calls[n].conn,
         NEW next, NEW got \in SUBSET Message, Proceed(n, next, got),
         Fits(calls[n].tool, calls[n].kind, calls[n].seq, next),
         NEW ok \in BOOLEAN, process' = Settled(n, ok), Takes(c, n, next, got, ok),
         UNCHANGED vars, UNCHANGED <<reply, outbox, inbox, saved, missing, again, dropped>>, faults' \in 0..MaxFaults,
         outgoing' \in [Connections -> Seq(Answer \union {Push})],
         \A d \in Connections : Len(outgoing'[d]) <= Capacity /\ Wire(outgoing'[d], reply[d])
  PROVE  LinkInv'
<1>1. LinkType /\ c \in Connections /\ calls[n] \in Call /\ calls[n].seq \in Nat /\ Stage(calls[n].tool, calls[n].kind, calls[n].seq)
  BY Typed DEF LinkInv, CallsInv
<1>2. calls[n].kind \in Kinds
  <2>1. \A tool : tool \in Once => First(tool) \in Kinds
    BY DEF First, Once, Kinds
  <2>2. QED BY <1>1, <2>1 DEF Stage, Kinds
<1>3. PICK k \in Call :
        /\ calls' = [calls EXCEPT ![n] = k]
        /\ SameQuestion(k, calls[n]) /\ k.clean = calls[n].clean /\ k.got = calls[n].got \union got
        /\ \/ /\ next \in Kinds /\ k.at = "wait" /\ k.kind = next /\ k.seq = calls[n].seq + 1
              /\ toServer' = [toServer EXCEPT ![calls[n].conn] = Append(toServer[calls[n].conn], Request(n, k))]
           \/ /\ next = "sleep" /\ k.at = "sleep" /\ k.kind = calls[n].kind /\ k.seq = calls[n].seq
              /\ UNCHANGED toServer
           \/ /\ k.at \in Ended /\ (k.at = "ok" => next = "ok") /\ next # "sleep"
              /\ UNCHANGED toServer
  BY <1>1, <1>2, ProceedIs
<1> DEFINE q == Request(n, k)
           asks == next \in Kinds /\ k.at = "wait" /\ k.kind = next /\ k.seq = calls[n].seq + 1
<1>4. /\ k.conn = c /\ k.tool = calls[n].tool /\ k.got = calls[n].got \union got
      /\ calls' \in Seq(Call) /\ DOMAIN calls' = DOMAIN calls /\ calls'[n] = k
      /\ \A l \in DOMAIN calls : l # n => calls'[l] = calls[l]
  <2>1. k.conn = c /\ k.tool = calls[n].tool /\ k.got = calls[n].got \union got
    BY <1>3 DEF SameQuestion
  <2>2. calls \in Seq(Call) /\ calls' = [calls EXCEPT ![n] = k] /\ k \in Call
    BY <1>1, <1>3 DEF LinkType
  <2>3. QED BY <2>1, <2>2
<1>5. asks => Stage(k.tool, k.kind, k.seq) /\ k.tool \in Polling
  BY <1>4 DEF Fits
<1>6. n \in Nat /\ (asks => q \in Question /\ q.call = n /\ q.seq = k.seq /\ k.kind \in Kinds)
  BY <1>1, <1>3, Typed, RequestIs
<1>7. asks => q \notin Requests(c)
  <2>1. \A r \in Requests(c) : r.call = n => r.seq <= calls[n].seq /\ r.seq \in Nat
    BY <1>1, Typed DEF LinkInv, ItemsInv
  <2>2. QED BY <1>1, <1>6, <2>1
<1>8. \/ asks /\ toServer' = [toServer EXCEPT ![c] = Append(toServer[c], q)]
      \/ next = "sleep" /\ k.at = "sleep" /\ k.kind = calls[n].kind /\ k.seq = calls[n].seq /\ toServer' = toServer
      \/ k.at \in Ended /\ (k.at = "ok" => next = "ok") /\ next # "sleep" /\ toServer' = toServer
  BY <1>3
<1> HIDE DEF q, asks
<1>9. /\ toServer' \in [Connections -> Seq(Question)]
      /\ \A d \in Connections : Line(toServer'[d])
      /\ \A d \in Connections : \A r \in Requests(d)' : r \in Requests(d) \/ (d = c /\ r = q /\ asks)
  <2>1. toServer \in [Connections -> Seq(Question)] /\ \A d \in Connections : Line(toServer[d])
    BY DEF LinkInv, LinkType, LinesInv
  <2>2. CASE toServer' = toServer
    BY <2>1, <2>2 DEF Requests
  <2>3. CASE asks /\ toServer' = [toServer EXCEPT ![c] = Append(toServer[c], q)]
    <3>1. q \in Question /\ q \notin Range(toServer[c])
      BY <1>6, <1>7, <2>3 DEF Requests
    <3>2. /\ Append(toServer[c], q) \in Seq(Question) /\ toServer'[c] = Append(toServer[c], q)
          /\ \A d \in Connections : d # c => toServer'[d] = toServer[d]
      BY <1>1, <2>1, <2>3, <3>1
    <3>3. Line(toServer'[c]) /\ Range(toServer'[c]) = Range(toServer[c]) \union {q}
      BY <1>1, <2>1, <3>1, <3>2, RangeOfAppend, LineGrows
    <3>4. toServer' \in [Connections -> Seq(Question)]
      BY <1>1, <2>1, <2>3, <3>2
    <3>5. QED BY <2>1, <2>3, <3>2, <3>3, <3>4 DEF Requests
  <2>4. QED BY <1>8, <2>2, <2>3
<1>10. RegistryInv'
  BY OthersKeep DEF LinkInv
<1>11. /\ process' \in [Connections -> {"off", "dialing", "up", "cut"}]
       /\ calls[n].tool # "connect" => process' = process
       /\ calls[n].tool = "connect" => /\ process'[c] = IF ok THEN "up" ELSE "off"
                                       /\ \A d \in Connections : d # c => process'[d] = process[d]
  BY <1>1 DEF Settled, LinkType
<1>12. LinkType'
  BY <1>1, <1>4, <1>9, <1>11 DEF LinkType
<1>13. LinesInv'
  BY <1>9 DEF LinesInv
<1>14. calls[n].tool = "connect" <=> process[c] = "dialing"
  BY DEF LinkInv, CallsInv
<1>15. /\ process[c] # "off" /\ (calls[n].tool = "connect" => ~asks /\ k.at \in Ended)
  <2>1. process[c] # "off"
    BY DEF LinkInv, CallsInv
  <2>2. calls[n].tool = "connect" => calls[n].tool \notin Polling
    BY DEF Polling
  <2>3. QED BY <1>4, <1>5, <1>8, <2>1, <2>2 DEF Fits
<1>16. CallsInv'
  <2>1. ASSUME NEW l \in DOMAIN calls, Active(l)'
        PROVE  Active(l) /\ process'[calls[l].conn] = process[calls[l].conn]
               /\ calls'[l].conn = calls[l].conn /\ calls'[l].tool = calls[l].tool
    <3>1. Active(l) /\ calls'[l].conn = calls[l].conn /\ calls'[l].tool = calls[l].tool
      BY <1>4, <2>1 DEF Active
    <3>2. CASE calls[n].tool # "connect"
      BY <1>11, <3>1, <3>2
    <3>3. CASE calls[n].tool = "connect"
      <4>1. l # n
        BY <1>4, <1>15, <2>1, <3>3 DEF Active
      <4>2. calls[l].conn # c
        BY <1>14, <3>1, <3>3, <4>1 DEF LinkInv, CallsInv
      <4>3. calls[l].conn \in Connections
        BY <1>1, Typed
      <4>4. QED BY <1>11, <3>1, <3>3, <4>2, <4>3
    <3>4. QED BY <3>2, <3>3
  <2>2. ASSUME NEW l \in DOMAIN calls, Active(l)'
        PROVE  /\ Stage(calls'[l].tool, calls'[l].kind, calls'[l].seq)
               /\ calls'[l].at = "sleep" => calls'[l].kind = "read" /\ calls'[l].tool \in Polling
    <3>1. CASE l # n
      BY <1>4, <2>1, <2>2, <3>1 DEF LinkInv, CallsInv
    <3>2. CASE l = n
      <4>1. k.at \notin Ended
        BY <1>4, <2>2, <3>2 DEF Active
      <4>2. CASE asks
        BY <1>4, <1>5, <3>2, <4>2 DEF asks
      <4>3. CASE next = "sleep" /\ k.at = "sleep" /\ k.kind = calls[n].kind /\ k.seq = calls[n].seq
        BY <1>1, <1>4, <3>2, <4>3 DEF Fits
      <4>4. QED BY <1>8, <4>1, <4>2, <4>3
    <3>3. QED BY <3>1, <3>2
  <2>3. QED BY <1>4, <2>1, <2>2 DEF LinkInv, CallsInv
<1>17. ConnInv'
  <2> SUFFICES ASSUME NEW d \in Connections
               PROVE  (/\ conn[d].open => conn[d].workspace \in {Name[d], Unnamed}
                       /\ conn[d].open /\ conn[d].workspace = Unnamed =>
                            /\ process[d] \in {"dialing", "off"} /\ Answers(d) = {}
                            /\ \A r \in Requests(d) : r.kind = "register"
                       /\ ~conn[d].open => reply[d] = NoReply
                       /\ ~conn[d].open /\ process[d] = "off" => \A e \in Answers(d) : e.got = {}
                       /\ process[d] = "dialing" => /\ \A r \in Requests(d) : r.kind = "register"
                                                    /\ \A e \in Answers(d) : e.got = {})'
    BY DEF ConnInv
  <2>1. conn' = conn /\ reply' = reply /\ Answers(d)' \subseteq Answers(d)
    BY DEF vars, Takes
  <2>2. CASE d # c
    <3>1. Requests(d)' \subseteq Requests(d) /\ process'[d] = process[d]
      BY <1>9, <1>11, <2>2
    <3>2. QED BY <2>1, <3>1 DEF LinkInv, ConnInv
  <2>3. CASE d = c /\ calls[n].tool # "connect"
    <3>1. process' = process /\ process[d] \notin {"off", "dialing"}
      BY <1>11, <1>14, <1>15, <2>3
    <3>2. QED BY <2>1, <3>1 DEF LinkInv, ConnInv
  <2>4. CASE d = c /\ calls[n].tool = "connect"
    <3>1. Requests(d)' \subseteq Requests(d) /\ process[d] = "dialing" /\ process'[d] = IF ok THEN "up" ELSE "off"
      BY <1>9, <1>11, <1>14, <1>15, <2>4
    <3>2. ok => Answers(d) # {}
      BY <2>4 DEF Takes
    <3>3. QED BY <2>1, <3>1, <3>2 DEF LinkInv, ConnInv
  <2>5. QED BY <2>2, <2>3, <2>4
<1>18. Move(n, k)
  <2>1. /\ n \in DOMAIN calls /\ Active(n) /\ calls' = [calls EXCEPT ![n] = k] /\ k \in Call
        /\ SameQuestion(k, calls[n]) /\ k.clean = calls[n].clean
        /\ UNCHANGED <<conn, inbox, saved, missing, again, dropped>>
    BY <1>3 DEF vars
  <2>2. k.at \notin Ended => k.seq = calls[n].seq \/ k.seq = calls[n].seq + 1
    BY <1>8 DEF asks
  <2>3. \A d \in Connections : \A r \in Requests(d)' :
          \/ r \in Requests(d)
          \/ /\ d = k.conn /\ r = Request(n, k) /\ k.at = "wait" /\ k.seq = calls[n].seq + 1
             /\ Stage(k.tool, k.kind, k.seq)
    BY <1>4, <1>5, <1>9 DEF asks, q
  <2>4. \A d \in Connections : \A e \in Answers(d) :
          e \notin Answers(d)' => d = k.conn /\ e.call = n /\ e.got \subseteq k.got
    BY <1>4 DEF Takes
  <2>5. /\ calls[n].got \subseteq k.got
        /\ \A m \in k.got : m \notin calls[n].got =>
             \E e \in Answers(k.conn) : e \notin Answers(k.conn)' /\ m \in e.got
    BY <1>4 DEF Takes
  <2>6. k.at = "ok" => /\ k.tool \in Polling => k.got # {}
                       /\ \E e \in Answers(k.conn) : e \notin Answers(k.conn)' /\ e.ok
    <3>1. k.at = "ok" => next = "ok"
      BY <1>8 DEF asks
    <3>2. QED BY <1>4, <3>1 DEF Takes
  <2>7. QED BY <2>1, <2>2, <2>3, <2>4, <2>5, <2>6 DEF Move, Takes
<1>19. QED BY <1>1, <1>10, <1>12, <1>13, <1>16, <1>17, <1>18, MoveKeeps DEF LinkInv, FlowInv

(* The daemon's answers stay where they are.                                  *)
LEMMA WireStays ==
  ASSUME LinkInv, UNCHANGED <<reply, outgoing>>
  PROVE  /\ outgoing' \in [Connections -> Seq(Answer \union {Push})]
         /\ \A d \in Connections : Len(outgoing'[d]) <= Capacity /\ Wire(outgoing'[d], reply[d])
         /\ \A d \in Connections : Answers(d)' = Answers(d)
BY DEF LinkInv, LinkType, LinesInv, Answers

(* A polling tool reads again, or its deadline has come.                      *)
LEMMA PollKeeps ==
  ASSUME LinkInv, NEW n \in DOMAIN calls, Poll(n) \/ Deadline(n)
  PROVE  LinkInv'
<1> DEFINE no == FALSE
           next == IF Poll(n) THEN "read" ELSE IF calls[n].tool = "request_message" THEN "list" ELSE "error"
<1>1. /\ calls[n].at = "sleep" /\ Proceed(n, next, {}) /\ process' = process
      /\ UNCHANGED <<reply, outgoing, outbox, inbox, saved, missing, again, dropped, faults>> /\ UNCHANGED vars
      /\ next \in {"read", "list", "error"} /\ (next = "list" => calls[n].tool = "request_message")
      /\ no \in BOOLEAN /\ ~no
  BY DEF Poll, Deadline, file
<1> HIDE DEF no, next
<1>2. Active(n) /\ LinkType
  BY <1>1 DEF Active, Ended, LinkInv
<1>3. calls[n].tool \in Polling /\ calls[n].kind = "read" /\ Stage(calls[n].tool, calls[n].kind, calls[n].seq) /\ calls[n].seq \in Nat
  BY <1>1, <1>2, Typed DEF LinkInv, CallsInv
<1>4. Fits(calls[n].tool, calls[n].kind, calls[n].seq, next)
  BY <1>1, <1>3 DEF Fits, Stage, Polling, Kinds, Ended, Once
<1>5. process' = Settled(n, no)
  BY <1>1, <1>3 DEF Settled, Polling
<1>6. faults' \in 0..MaxFaults
  BY <1>1, <1>2 DEF LinkType
<1>7. {} \in SUBSET Message /\ next # "ok"
  BY <1>1
<1>8. PICK c : c = calls[n].conn
  OBVIOUS
<1>9. Takes(c, n, next, {}, no)
  BY <1>1, <1>7, WireStays DEF Takes
<1>10. QED BY <1>1, <1>2, <1>4, <1>5, <1>6, <1>7, <1>8, <1>9, WireStays, GoesOn

(* A request times out; its answer may still come.                            *)
LEMMA TimeoutKeeps ==
  ASSUME LinkInv, NEW n \in DOMAIN calls, Timeout(n)
  PROVE  LinkInv'
<1> DEFINE no == FALSE
           next == Follow(calls[n].tool, calls[n].kind, no, {}, no)
<1>1. /\ calls[n].at = "wait" /\ Proceed(n, next, {}) /\ process' = Settled(n, no)
      /\ UNCHANGED <<reply, outgoing, outbox, inbox, saved, missing, again, dropped>> /\ UNCHANGED vars
      /\ faults < MaxFaults /\ faults' = faults + 1
      /\ no \in BOOLEAN /\ ~no
  BY DEF Timeout, Resume, Fault, file
<1> HIDE DEF no
<1>2. Active(n) /\ LinkType
  BY <1>1 DEF Active, Ended, LinkInv
<1>3. Stage(calls[n].tool, calls[n].kind, calls[n].seq) /\ calls[n].seq \in Nat /\ calls[n].tool \in Tools \union {"connect"}
  BY <1>1, <1>2, Typed DEF LinkInv, CallsInv
<1>4. Fits(calls[n].tool, calls[n].kind, calls[n].seq, next) /\ next # "ok"
  BY <1>1, <1>3, FollowFits
<1>5. faults' \in 0..MaxFaults
  BY <1>1, <1>2, DaemonLinkAssumption DEF LinkType
<1> HIDE DEF next
<1>6. {} \in SUBSET Message
  OBVIOUS
<1>7. PICK c : c = calls[n].conn
  OBVIOUS
<1>8. Takes(c, n, next, {}, no)
  BY <1>1, <1>4, WireStays DEF Takes
<1>9. QED BY <1>1, <1>2, <1>4, <1>5, <1>6, <1>7, <1>8, WireStays, GoesOn

(* A client reads an answer: the call that waits for it takes it, and what    *)
(* nobody waits for is dropped with its messages.                             *)
LEMMA ReceiveKeeps ==
  ASSUME LinkInv, NEW c \in Connections, Receive(c)
  PROVE  LinkInv'
<1> DEFINE o == outgoing[c]
           e == Head(o)
<1>1. /\ o # <<>> /\ outgoing' = [outgoing EXCEPT ![c] = Tail(o)] /\ process[c] \in {"dialing", "up"}
      /\ UNCHANGED <<reply, outbox, inbox, saved, missing, again, faults>> /\ UNCHANGED vars
  BY DEF Receive, file
<1>2. LinkType /\ o \in Seq(Answer \union {Push}) /\ Wire(o, reply[c]) /\ Len(o) <= Capacity
  BY DEF LinkInv, LinkType, LinesInv
<1>3. /\ Tail(o) \in Seq(Answer \union {Push}) /\ Len(Tail(o)) <= Capacity
      /\ outgoing'[c] = Tail(o) /\ \A d \in Connections : d # c => outgoing'[d] = outgoing[d]
  <2>1. Tail(o) \in Seq(Answer \union {Push}) /\ Len(Tail(o)) = Len(o) - 1 /\ Len(o) \in Nat
    BY <1>1, <1>2, HeadTailProperties
  <2>2. Len(Tail(o)) <= Capacity
    BY <1>2, <2>1, DaemonLinkAssumption
  <2>3. QED BY <1>1, <1>2, <2>1, <2>2 DEF LinkType
<1>4. /\ Wire(Tail(o), reply[c]) /\ OnWire(Tail(o), reply[c]) = OnWire(o, reply[c]) \ {e}
      /\ e # Push => e \in OnWire(o, reply[c])
  BY <1>1, <1>2, WireShrinks
<1>5. /\ Answers(c)' = Answers(c) \ {e} /\ \A d \in Connections : d # c => Answers(d)' = Answers(d)
      /\ e # Push => e \in Answers(c)
  BY <1>1, <1>3, <1>4 DEF Answers
<1>6. /\ outgoing' \in [Connections -> Seq(Answer \union {Push})]
      /\ \A d \in Connections : Len(outgoing'[d]) <= Capacity /\ Wire(outgoing'[d], reply[d])
  BY <1>1, <1>2, <1>3, <1>4 DEF LinkInv, LinkType, LinesInv
<1>6a. e \in Answer \union {Push}
  BY <1>1, <1>2, RangeOfTail
<1>7. CASE e # Push /\ Awaited(c, e) # {}
  <2>1. PICK n \in Awaited(c, e) : Resume(n, e.ok, e.got, e.found) /\ UNCHANGED dropped
    BY <1>7 DEF Receive
  <2>3. n \in DOMAIN calls /\ calls[n].conn = c /\ Active(n) /\ n = e.call
    BY DEF Awaited, Running, Active
  <2> DEFINE next == Follow(calls[n].tool, calls[n].kind, e.ok, e.got, e.found)
  <2>4. Proceed(n, next, e.got) /\ process' = Settled(n, e.ok)
    BY <2>1 DEF Resume
  <2> HIDE DEF e
  <2>5. e.got \in SUBSET Message /\ e.ok \in BOOLEAN /\ e.found \in BOOLEAN
    BY <1>2, <1>5, <1>7, Typed
  <2>6. Stage(calls[n].tool, calls[n].kind, calls[n].seq) /\ calls[n].seq \in Nat /\ calls[n].tool \in Tools \union {"connect"}
    BY <1>2, <2>3, Typed DEF LinkInv, CallsInv
  <2>7. Fits(calls[n].tool, calls[n].kind, calls[n].seq, next) /\ (next = "ok" => e.ok /\ (calls[n].tool \in Polling => e.got # {}))
    BY <2>5, <2>6, FollowFits
  <2> HIDE DEF next
  <2>8. faults' \in 0..MaxFaults
    BY <1>1, <1>2 DEF LinkType
  <2>9. /\ \A d \in Connections : Answers(d)' \subseteq Answers(d)
        /\ \A d \in Connections : \A f \in Answers(d) :
             f \notin Answers(d)' => d = c /\ f.call = n /\ f.got \subseteq e.got
    BY <1>5, <2>3
  <2>10. e \in Answers(c) /\ e \notin Answers(c)'
    BY <1>5, <1>7
  <2> DEFINE got == e.got
             ok == e.ok
  <2>11. Takes(c, n, next, got, ok)
    BY <2>7, <2>9, <2>10 DEF Takes
  <2>12. /\ got \in SUBSET Message /\ ok \in BOOLEAN /\ Proceed(n, next, got) /\ process' = Settled(n, ok)
         /\ UNCHANGED <<reply, outbox, inbox, saved, missing, again, dropped>> /\ UNCHANGED vars
         /\ c = calls[n].conn /\ n \in DOMAIN calls /\ Active(n)
    BY <1>1, <2>1, <2>3, <2>4, <2>5
  <2> HIDE DEF got, ok
  <2>14. QED BY <1>6, <2>7, <2>8, <2>11, <2>12, GoesOn
<1>8. CASE ~(e # Push /\ Awaited(c, e) # {})
  <2>1. dropped' = dropped \union Cargo(e) /\ UNCHANGED <<process, calls, toServer>>
    BY <1>8 DEF Receive
  <2> HIDE DEF e
  <2>2. RegistryInv' /\ CallsInv'
    BY <1>1, <2>1, OthersKeep DEF LinkInv, CallsInv, Active
  <2>3. \A d \in Connections : Requests(d)' = Requests(d) /\ Answers(d)' \subseteq Answers(d)
    BY <1>5, <2>1 DEF Requests
  <2>4. ConnInv'
    BY <1>1, <2>1, <2>3 DEF LinkInv, ConnInv, vars
  <2>5. /\ \A x \in Cargo(e) : /\ e \in Answers(c) /\ e \notin Answers(c)' /\ x.call = e.call /\ x.msg \in e.got
                               /\ x \in [msg : Message, call : Nat]
        /\ \A f \in Answers(c) : f \notin Answers(c)' => \A m \in f.got : \E x \in Cargo(e) : x.msg = m
    <3>1. e \in Answer \union {NoReply, Push}
      BY <1>6a
    <3>2. \A f \in Answers(c) : f \notin Answers(c)' => f = e /\ f \in Answer
      BY <1>2, <1>5, Typed
    <3>3. QED BY <1>5, <3>1, <3>2, CargoIs
  <2>6. LinkType'
    BY <1>1, <1>6, <2>1, <2>5 DEF LinkInv, LinkType
  <2>7. LinesInv'
    BY <1>1, <1>6, <2>1 DEF LinkInv, LinesInv
  <2>8. Shed
    BY <1>1, <1>5, <2>1, <2>3, <2>5 DEF Shed, vars
  <2>9. QED BY <2>2, <2>4, <2>6, <2>7, <2>8, ShedKeeps DEF LinkInv, FlowInv
<1>9. QED BY <1>7, <1>8

-----------------------------------------------------------------------------
(* The daemon's handlers                                                      *)

(* The lines stay well formed when the daemon answers on connection c.        *)
Wired(c) ==
  /\ toServer' \in [Connections -> Seq(Question)] /\ reply' \in [Connections -> Answer \union {NoReply}]
  /\ outgoing' \in [Connections -> Seq(Answer \union {Push})] /\ outbox' \in [Connections -> 0..Capacity]
  /\ \A d \in Connections : Len(outgoing'[d]) <= Capacity
  /\ \A d \in Connections : d # c => reply'[d] = reply[d]
  /\ LinesInv'

(* Request r is the next that the loop of connection c handles.               *)
Due(c, r) == conn[c].open /\ reply[c] = NoReply /\ toServer[c] # <<>> /\ r = Head(toServer[c])

(* Request r leaves the line of connection c, and answer e is on its way.     *)
Responded(c, r, e) ==
  /\ r \in Requests(c) /\ e.call = r.call /\ e.seq = r.seq
  /\ Requests(c)' = Requests(c) \ {r} /\ Answers(c)' = Answers(c) \union {e}
  /\ \A d \in Connections : d # c => Requests(d)' = Requests(d) /\ Answers(d)' = Answers(d)
  /\ Wired(c)

(* The daemon answers request r of connection c: r leaves the line, answer e  *)
(* is on its way, and the pushes do not carry anything.                       *)
LEMMA RespondIs ==
  ASSUME LinkInv, NEW c \in Connections, NEW r, Due(c, r), NEW ok, ok \in BOOLEAN, NEW got, got \in SUBSET Message,
         NEW found, found \in BOOLEAN, NEW ds, Respond(c, r, ok, got, found, ds)
  PROVE  \E e \in Answer : e.ok = ok /\ e.got = got /\ Responded(c, r, e)
<1> DEFINE e == [call |-> r.call, seq |-> r.seq, ok |-> ok, got |-> got, found |-> found]
           s == toServer[c]
           o == outgoing[c]
<1>1. /\ toServer' = [toServer EXCEPT ![c] = Tail(s)]
      /\ reply' = [reply EXCEPT ![c] = IF Room(c) THEN NoReply ELSE e]
      /\ outgoing' = [d \in Connections |->
            IF d = c /\ Room(c) THEN Append(o, e)
            ELSE IF d \in ds /\ Room(d) THEN Append(outgoing[d], Push)
            ELSE outgoing[d]]
      /\ outbox' = [d \in Connections |->
            IF d \in ds /\ ~Room(d) /\ outbox[d] < Capacity THEN outbox[d] + 1 ELSE outbox[d]]
  BY DEF Respond
<1>2. /\ LinkType /\ s \in Seq(Question) /\ s # <<>> /\ r = Head(s) /\ Line(s)
      /\ \A d \in Connections : /\ outgoing[d] \in Seq(Answer \union {Push}) /\ Wire(outgoing[d], reply[d])
                                /\ Len(outgoing[d]) <= Capacity /\ Len(outgoing[d]) \in Nat
                                /\ outbox[d] \in 0..Capacity /\ reply[d] \in Answer \union {NoReply}
                                /\ toServer[d] \in Seq(Question) /\ Line(toServer[d])
      /\ Capacity \in Nat /\ NoReply # Push /\ NoReply \notin Answer /\ Push \notin Answer
  BY DaemonLinkAssumption DEF LinkInv, LinkType, LinesInv, Due
<1>3. r \in Requests(c) /\ r.call \in Nat /\ r.seq \in Nat
  <2>1. r \in Requests(c)
    BY <1>2, RangeOfTail DEF Requests
  <2>2. QED BY <1>2, <2>1, Typed
<1>4. e \in Answer /\ e.call = r.call /\ e.seq = r.seq /\ e.ok = ok /\ e.got = got
  BY <1>3 DEF Answer
<1> HIDE DEF e, s, o
<1>5. /\ Line(Tail(s)) /\ Range(Tail(s)) = Range(s) \ {r} /\ Tail(s) \in Seq(Question)
  BY <1>2, LineShrinks
<1>6. e \notin Answers(c) /\ e # NoReply /\ e # Push
  BY <1>2, <1>3, <1>4 DEF LinkInv, KeysInv
<1>7. /\ e \notin Range(o) /\ o \in Seq(Answer \union {Push}) /\ Wire(o, NoReply)
  BY <1>2, <1>6 DEF Answers, OnWire, o, Due
<1>8. /\ toServer' \in [Connections -> Seq(Question)] /\ toServer'[c] = Tail(s)
      /\ \A d \in Connections : d # c => toServer'[d] = toServer[d]
  BY <1>1, <1>2, <1>5 DEF LinkType
<1>9. /\ reply' \in [Connections -> Answer \union {NoReply}]
      /\ reply'[c] = IF Room(c) THEN NoReply ELSE e
      /\ \A d \in Connections : d # c => reply'[d] = reply[d]
  BY <1>1, <1>2, <1>4 DEF LinkType
<1>10. outbox' \in [Connections -> 0..Capacity]
  <2>1. \A d \in Connections : outbox[d] < Capacity => outbox[d] + 1 \in 0..Capacity
    BY <1>2
  <2>2. QED BY <1>1, <1>2, <2>1
<1>11. Room(c) => /\ outgoing'[c] = Append(o, e) /\ Append(o, e) \in Seq(Answer \union {Push})
                  /\ Len(Append(o, e)) <= Capacity
                  /\ Wire(Append(o, e), NoReply) /\ OnWire(Append(o, e), NoReply) = OnWire(o, NoReply) \union {e}
  <2>1. Wire(Append(o, e), NoReply) /\ OnWire(Append(o, e), NoReply) = OnWire(o, NoReply) \union ({e} \ {Push})
    BY <1>4, <1>6, <1>7, WireGrows
  <2>2. {e} \ {Push} = {e}
    BY <1>6
  <2>3. Append(o, e) \in Seq(Answer \union {Push}) /\ Len(Append(o, e)) = Len(o) + 1
    BY <1>4, <1>7
  <2>4. Room(c) => outgoing'[c] = Append(o, e)
    BY <1>1
  <2>5. Room(c) => Len(o) + 1 <= Capacity
    BY <1>2 DEF Room, o
  <2>6. QED BY <2>1, <2>2, <2>3, <2>4, <2>5
<1>12. ~Room(c) => /\ outgoing'[c] = o /\ Wire(o, e) /\ OnWire(o, e) = OnWire(o, NoReply) \union {e}
                   /\ Len(o) <= Capacity
  <2>1. ~Room(c) => outgoing'[c] = o
    BY <1>1 DEF o
  <2>2. Wire(o, e)
    BY <1>7 DEF Wire, Range
  <2>3. OnWire(o, e) = OnWire(o, NoReply) \union {e}
    BY <1>6 DEF OnWire
  <2>4. QED BY <1>2, <2>1, <2>2, <2>3 DEF o
<1>13. ASSUME NEW d \in Connections, d # c
       PROVE  /\ outgoing'[d] \in Seq(Answer \union {Push}) /\ Len(outgoing'[d]) <= Capacity
              /\ Wire(outgoing'[d], reply[d]) /\ OnWire(outgoing'[d], reply[d]) = OnWire(outgoing[d], reply[d])
  <2>1. CASE outgoing'[d] = outgoing[d]
    BY <1>2, <2>1
  <2>2. CASE Room(d) /\ outgoing'[d] = Append(outgoing[d], Push)
    <3>0. /\ outgoing[d] \in Seq(Answer \union {Push}) /\ Wire(outgoing[d], reply[d])
          /\ Push # reply[d] /\ Push \in Answer \union {Push}
      BY <1>2
    <3>1. /\ Wire(Append(outgoing[d], Push), reply[d])
          /\ OnWire(Append(outgoing[d], Push), reply[d]) = OnWire(outgoing[d], reply[d]) \union ({Push} \ {Push})
      BY <3>0, WireGrows
    <3>2. /\ Append(outgoing[d], Push) \in Seq(Answer \union {Push})
          /\ Len(Append(outgoing[d], Push)) = Len(outgoing[d]) + 1
      BY <1>2
    <3>3. Len(outgoing[d]) + 1 <= Capacity
      BY <1>2, <2>2 DEF Room
    <3>4. QED BY <2>2, <3>1, <3>2, <3>3
  <2>3. QED BY <1>1, <1>13, <2>1, <2>2
<1>14. Requests(c)' = Requests(c) \ {r} /\ \A d \in Connections : d # c => Requests(d)' = Requests(d)
  BY <1>5, <1>8 DEF Requests, s
<1>15. Answers(c)' = Answers(c) \union {e} /\ \A d \in Connections : d # c => Answers(d)' = Answers(d)
  <2>1. Answers(c) = OnWire(o, NoReply) /\ Answers(c)' = OnWire(outgoing'[c], reply'[c])
    BY DEF Answers, o, Due
  <2>2. Answers(c)' = Answers(c) \union {e}
    BY <1>9, <1>11, <1>12, <2>1
  <2>3. QED BY <1>9, <1>13, <2>2 DEF Answers
<1>16. outgoing' \in [Connections -> Seq(Answer \union {Push})] /\ \A d \in Connections : Len(outgoing'[d]) <= Capacity
  <2>1. outgoing'[c] \in Seq(Answer \union {Push}) /\ Len(outgoing'[c]) <= Capacity
    BY <1>7, <1>11, <1>12
  <2>2. \A d \in Connections : outgoing'[d] \in Seq(Answer \union {Push})
    BY <1>13, <2>1
  <2>3. outgoing' = [d \in Connections |-> outgoing'[d]]
    BY <1>1
  <2>4. QED BY <1>13, <2>1, <2>2, <2>3
<1>17. LinesInv'
  <2>1. Line(toServer'[c]) /\ Wire(outgoing'[c], reply'[c])
    BY <1>5, <1>8, <1>9, <1>11, <1>12
  <2>2. \A d \in Connections : d # c => Line(toServer'[d]) /\ Wire(outgoing'[d], reply'[d])
    BY <1>2, <1>8, <1>9, <1>13
  <2>3. QED BY <2>1, <2>2 DEF LinesInv
<1>18. Wired(c)
  BY <1>8, <1>9, <1>10, <1>16, <1>17 DEF Wired
<1>19. Responded(c, r, e)
  BY <1>3, <1>4, <1>14, <1>15, <1>18 DEF Responded
<1>20. QED BY <1>4, <1>19

(* A handler that answers as a request of its kind is answered keeps the      *)
(* invariant.                                                                 *)
LEMMA HandledKeeps ==
  ASSUME LinkInv, NEW c \in Connections, NEW r, NEW e, NEW new, Answered(c, r, e, new), Wired(c),
         RegistryInv', process' = process,
         calls' \in Seq(Call), \A n \in DOMAIN calls : calls'[n].kind = calls[n].kind,
         inbox' \in [Workspaces -> SUBSET Message], \A w \in Workspaces : \A m \in inbox'[w] : m.to = w,
         faults' \in 0..MaxFaults,
         conn'[c].open, conn'[c].workspace = Name[c], \A d \in Connections : d # c => conn'[d] = conn[d],
         r.kind = "register" => e.got = {}
  PROVE  LinkInv'
<1>1. dropped' = dropped /\ saved' = saved
  BY DEF Answered
<1>2. LinkType'
  BY <1>1 DEF LinkInv, LinkType, Wired
<1>3. LinesInv'
  BY DEF Wired
<1>4. CallsInv'
  BY DEF LinkInv, CallsInv, Active, Answered, SameQuestion
<1>5. ConnInv'
  <2> SUFFICES ASSUME NEW d \in Connections
               PROVE  (/\ conn[d].open => conn[d].workspace \in {Name[d], Unnamed}
                       /\ conn[d].open /\ conn[d].workspace = Unnamed =>
                            /\ process[d] \in {"dialing", "off"} /\ Answers(d) = {}
                            /\ \A s \in Requests(d) : s.kind = "register"
                       /\ ~conn[d].open => reply[d] = NoReply
                       /\ ~conn[d].open /\ process[d] = "off" => \A f \in Answers(d) : f.got = {}
                       /\ process[d] = "dialing" => /\ \A s \in Requests(d) : s.kind = "register"
                                                    /\ \A f \in Answers(d) : f.got = {})'
    BY DEF ConnInv
  <2>1. CASE d # c
    <3>1. /\ conn'[d] = conn[d] /\ reply'[d] = reply[d] /\ process'[d] = process[d]
          /\ Requests(d)' = Requests(d) /\ Answers(d)' = Answers(d)
      BY <2>1 DEF Answered, Wired
    <3>2. QED BY <3>1 DEF LinkInv, ConnInv
  <2>2. CASE d = c
    <3>1. Name[c] # Unnamed
      BY DaemonLinkAssumption, RegistryAssumption
    <3>2. r \in Requests(c) /\ Requests(c)' \subseteq Requests(c) /\ Answers(c)' = Answers(c) \union {e}
      BY DEF Answered
    <3>3. QED BY <2>2, <3>1, <3>2 DEF LinkInv, ConnInv
  <2>3. QED BY <2>1, <2>2
<1>6. FlowInv'
  BY AnsweredKeeps DEF LinkInv, FlowInv
<1>7. QED BY <1>2, <1>3, <1>4, <1>5, <1>6 DEF LinkInv, FlowInv

(* Whose request it is, by its kind.                                          *)
LEMMA AskedBy ==
  ASSUME LinkInv, NEW c \in Connections, NEW r \in Requests(c)
  PROVE  /\ r.call \in DOMAIN calls /\ calls[r.call].conn = c
         /\ r.to = calls[r.call].to /\ r.re = calls[r.call].re /\ r \in Question
         /\ calls[r.call].tool = "send_message" => r.kind = "send"
         /\ conn[c].open /\ r.kind # "register" => conn[c].workspace = Name[c]
<1>1. r.call \in DOMAIN calls /\ calls[r.call].conn = c /\ r.to = calls[r.call].to /\ r.re = calls[r.call].re
      /\ Stage(calls[r.call].tool, r.kind, r.seq)
  BY DEF LinkInv, ItemsInv
<1>2. calls[r.call].tool = "send_message" => r.kind = "send"
  BY <1>1 DEF Stage, First
<1>3. QED BY <1>1, <1>2, Typed DEF LinkInv, ConnInv

(* A request that changes nothing but the line it is on.                      *)
LEMMA QuietlyAnswered ==
  ASSUME LinkInv, NEW c \in Connections, NEW r, NEW e \in Answer,
         r.kind # "send", e.got = {}, Responded(c, r, e), UNCHANGED <<calls, inbox, saved, missing, again, dropped>>,
         conn[c].open, \A d \in Connections : conn'[d].open => conn[d].open
  PROVE  /\ Answered(c, r, e, {}) /\ calls' \in Seq(Call) /\ \A n \in DOMAIN calls : calls'[n].kind = calls[n].kind
         /\ inbox' \in [Workspaces -> SUBSET Message] /\ \A w \in Workspaces : \A m \in inbox'[w] : m.to = w
<1>1. calls[r.call].tool # "send_message"
  BY AskedBy DEF Responded
<1>2. Answered(c, r, e, {})
  BY <1>1 DEF Responded, Answered, SameQuestion
<1>3. QED BY <1>2 DEF LinkInv, LinkType

(* The registration gives the connection the name of its client.              *)
LEMMA HandleRegisterKeeps ==
  ASSUME LinkInv, NEW c \in Connections, NEW r, Due(c, r), UNCHANGED <<process, saved, again, dropped>>,
         HandleRegister(c, r)
  PROVE  LinkInv'
<1> DEFINE yes == TRUE
           no == FALSE
<1>1. /\ r.kind = "register" /\ Register(c, Name[c]) /\ Respond(c, r, yes, {}, no, {})
      /\ UNCHANGED <<inbox, saved, missing, again, calls, faults>> /\ yes \in BOOLEAN /\ no \in BOOLEAN /\ yes
  BY DEF HandleRegister
<1>2. Name[c] \in Workspaces
  BY DaemonLinkAssumption
<1>3. RegistryInv'
  BY <1>1, <1>2, RegisterKeeps DEF LinkInv
<1>4. /\ conn'[c] = [open |-> yes, workspace |-> Name[c], id |-> next_id', channel |-> next_id']
      /\ \A d \in Connections : d # c => conn'[d] = conn[d]
  BY <1>1 DEF Register, LinkInv, RegistryInv, TypeOK
<1> HIDE DEF yes, no
<1>5. conn'[c].open /\ conn'[c].workspace = Name[c]
  <2>1. conn'[c].open = yes /\ conn'[c].workspace = Name[c]
    BY <1>4
  <2>2. QED BY <1>1, <2>1
<1>6. Respond(c, r, yes, {}, no, {}) /\ yes \in BOOLEAN /\ no \in BOOLEAN /\ {} \in SUBSET Message
  BY <1>1
<1>7. PICK e \in Answer : e.ok = yes /\ e.got = {} /\ Responded(c, r, e)
  BY <1>6, RespondIs
<1>8. faults' \in 0..MaxFaults
  BY <1>1 DEF LinkInv, LinkType
<1>9. /\ Answered(c, r, e, {}) /\ calls' \in Seq(Call) /\ \A n \in DOMAIN calls : calls'[n].kind = calls[n].kind
      /\ inbox' \in [Workspaces -> SUBSET Message] /\ \A w \in Workspaces : \A m \in inbox'[w] : m.to = w
  <2>1. /\ UNCHANGED <<calls, inbox, saved, missing, again, dropped>> /\ r.kind # "send"
        /\ conn[c].open /\ \A d \in Connections : conn'[d].open => conn[d].open
    BY <1>1, <1>4 DEF Due
  <2>2. QED BY <1>7, <2>1, QuietlyAnswered
<1>10. QED BY <1>1, <1>3, <1>4, <1>5, <1>7, <1>8, <1>9, HandledKeeps DEF Responded, Due

(* Of the other requests the registry is only read.                           *)
LEMMA HandledAsNamed ==
  ASSUME LinkInv, NEW c \in Connections, conn[c].open, NEW r \in Requests(c), r.kind # "register", UNCHANGED vars
  PROVE  /\ RegistryInv' /\ conn'[c].open /\ conn'[c].workspace = Name[c]
         /\ \A d \in Connections : d # c => conn'[d] = conn[d]
<1>1. RegistryInv'
  BY OthersKeep DEF LinkInv
<1>2. conn' = conn
  BY DEF vars
<1>3. QED BY <1>1, <1>2, AskedBy

(* What is asked of the registry, a listing or the metrics, is answered from  *)
(* it.                                                                        *)
LEMMA HandleListKeeps ==
  ASSUME LinkInv, NEW c \in Connections, NEW r, Due(c, r), UNCHANGED <<process, saved, again, dropped>>,
         HandleList(c, r) \/ HandleMetrics(c, r)
  PROVE  LinkInv'
<1> DEFINE ok == IF r.kind = "list" THEN TRUE ELSE entries[conn[c].workspace] # 0
           found == IF r.kind = "list" THEN entries[r.to] # 0 ELSE FALSE
<1>1. /\ r.kind \in {"list", "metrics"} /\ Respond(c, r, ok, {}, found, {})
      /\ UNCHANGED <<inbox, saved, missing, again, calls, faults>> /\ UNCHANGED vars /\ ok \in BOOLEAN /\ found \in BOOLEAN
  <2>1. CASE HandleList(c, r)
    BY <2>1 DEF HandleList
  <2>2. CASE HandleMetrics(c, r)
    BY <2>2 DEF HandleMetrics
  <2>3. QED BY <2>1, <2>2
<1> HIDE DEF ok, found
<1>2. {} \in SUBSET Message
  OBVIOUS
<1>3. PICK e \in Answer : e.ok = ok /\ e.got = {} /\ Responded(c, r, e)
  BY <1>1, <1>2, RespondIs
<1>4. faults' \in 0..MaxFaults
  BY <1>1 DEF LinkInv, LinkType
<1>5. /\ Answered(c, r, e, {}) /\ calls' \in Seq(Call) /\ \A n \in DOMAIN calls : calls'[n].kind = calls[n].kind
      /\ inbox' \in [Workspaces -> SUBSET Message] /\ \A w \in Workspaces : \A m \in inbox'[w] : m.to = w
  <2>1. /\ UNCHANGED <<calls, inbox, saved, missing, again, dropped>> /\ r.kind # "send"
        /\ conn[c].open /\ \A d \in Connections : conn'[d].open => conn[d].open
    BY <1>1 DEF Due, vars
  <2>2. QED BY <1>3, <2>1, QuietlyAnswered
<1>6. QED BY <1>1, <1>3, <1>4, <1>5, HandledAsNamed, HandledKeeps DEF Responded, Due

(* A read takes what it wants out of the inbox of the connection's name.      *)
LEMMA HandleReadKeeps ==
  ASSUME LinkInv, NEW c \in Connections, NEW r, Due(c, r), UNCHANGED <<process, saved, again, dropped>>,
         HandleRead(c, r)
  PROVE  LinkInv'
<1> DEFINE yes == TRUE
           no == FALSE
           w == conn[c].workspace
           got == Wanted(w, r)
<1>1. /\ r.kind = "read" /\ Respond(c, r, yes, got, no, {})
      /\ inbox' = [inbox EXCEPT ![w] = inbox[w] \ got]
      /\ UNCHANGED <<missing, calls, faults>> /\ UNCHANGED vars /\ yes \in BOOLEAN /\ no \in BOOLEAN /\ yes
  BY DEF HandleRead
<1>2. r \in Requests(c)
  <2>1. toServer[c] \in Seq(Question)
    BY DEF LinkInv, LinkType
  <2>2. QED BY <2>1, RangeOfTail DEF Requests, Due
<1>3. w = Name[c] /\ w \in Workspaces
  BY <1>1, <1>2, AskedBy, DaemonLinkAssumption DEF Due
<1>4. /\ got \in SUBSET Message /\ inbox \in [Workspaces -> SUBSET Message]
      /\ \A m \in got : m \in inbox[w] /\ (calls[r.call].tool \in Polling => m.from = r.to)
  BY <1>3 DEF LinkInv, LinkType, Wanted
<1>5. /\ inbox'[w] = inbox[w] \ got /\ \A v \in Workspaces : v # w => inbox'[v] = inbox[v]
      /\ inbox' \in [Workspaces -> SUBSET Message]
      /\ \A v \in Workspaces : \A m \in inbox'[v] : m.to = v
  BY <1>1, <1>3, <1>4 DEF LinkInv, LinkType
<1> HIDE DEF yes, no, w, got
<1>5a. \A v \in Workspaces : \A m \in inbox[v] : m \in got => v = w
  <2>1. \A v \in Workspaces : \A m \in inbox[v] : m.to = v
    BY DEF LinkInv, LinkType
  <2>2. QED BY <1>3, <1>4, <2>1
<1>5b. Respond(c, r, yes, got, no, {}) /\ yes \in BOOLEAN /\ no \in BOOLEAN /\ got \in SUBSET Message
  BY <1>1, <1>4
<1>6. PICK e \in Answer : e.ok = yes /\ e.got = got /\ Responded(c, r, e)
  BY <1>5b, RespondIs
<1>7. faults' \in 0..MaxFaults /\ calls' \in Seq(Call) /\ \A n \in DOMAIN calls : calls'[n].kind = calls[n].kind
  BY <1>1 DEF LinkInv, LinkType
<1>8. Answered(c, r, e, {})
  <2>1. calls[r.call].tool # "send_message"
    BY <1>1, <1>2, AskedBy
  <2>2. /\ \A v \in Workspaces : \A m \in inbox'[v] : m \in inbox[v] /\ m \notin got
        /\ \A v \in Workspaces : \A m \in inbox[v] : m \in inbox'[v] \/ m \in got
    BY <1>3, <1>5, <1>5a
  <2>3. \A m \in got : m \in inbox[Name[c]] /\ (calls[r.call].tool \in Polling => m.from = r.to)
    BY <1>3, <1>4
  <2>4. conn[c].open /\ conn' = conn
    BY <1>1 DEF Due, vars
  <2>5. QED BY <1>1, <1>6, <2>1, <2>2, <2>3, <2>4 DEF Responded, Answered, SameQuestion
<1>9. r.kind # "register"
  BY <1>1
<1>10. QED BY <1>1, <1>2, <1>5, <1>6, <1>7, <1>8, <1>9, HandledAsNamed, HandledKeeps DEF Responded, Due

(* Whoever waits for something else is told to expect more than its answer.   *)
LEMMA UnaskedIs ==
  ASSUME LinkType, NEW from, NEW re, NEW to, calls' = Unasked(from, re, to)
  PROVE  /\ calls' \in Seq(Call) /\ DOMAIN calls' = DOMAIN calls
         /\ \A n \in DOMAIN calls :
              /\ SameQuestion(calls'[n], calls[n]) /\ calls'[n].at = calls[n].at /\ calls'[n].seq = calls[n].seq
              /\ calls'[n].got = calls[n].got /\ calls'[n].kind = calls[n].kind
              /\ calls'[n].clean => calls[n].clean /\ (calls[n].to = from /\ Name[calls[n].conn] = to => re = n)
<1> DEFINE no == FALSE
<1>1. /\ no \in BOOLEAN /\ ~no
      /\ calls' = [n \in DOMAIN calls |->
                     IF calls[n].to = from /\ Name[calls[n].conn] = to /\ re # n
                     THEN [calls[n] EXCEPT !.clean = no] ELSE calls[n]]
  BY DEF Unasked
<1> HIDE DEF no
<1>2. \A k \in Call : /\ [k EXCEPT !.clean = no] \in Call /\ SameQuestion([k EXCEPT !.clean = no], k)
                      /\ [k EXCEPT !.clean = no].at = k.at /\ [k EXCEPT !.clean = no].seq = k.seq
                      /\ [k EXCEPT !.clean = no].got = k.got /\ [k EXCEPT !.clean = no].kind = k.kind
                      /\ [k EXCEPT !.clean = no].clean = no
  BY <1>1 DEF Call, SameQuestion
<1>3. calls \in Seq(Call) /\ DOMAIN calls = 1..Len(calls) /\ Len(calls) \in Nat /\ \A n \in DOMAIN calls : calls[n] \in Call
  BY DEF LinkType
<1>4. DOMAIN calls' = DOMAIN calls /\ \A n \in DOMAIN calls : calls'[n] \in Call
  BY <1>1, <1>2, <1>3
<1>5. calls' \in [1..Len(calls) -> Call]
  <2>1. calls' = [n \in DOMAIN calls |-> calls'[n]]
    BY <1>1
  <2>2. QED BY <1>3, <1>4, <2>1
<1>6. calls' \in Seq(Call)
  BY <1>3, <1>5
<1>7. ASSUME NEW n \in DOMAIN calls
      PROVE  /\ SameQuestion(calls'[n], calls[n]) /\ calls'[n].at = calls[n].at /\ calls'[n].seq = calls[n].seq
             /\ calls'[n].got = calls[n].got /\ calls'[n].kind = calls[n].kind
             /\ calls'[n].clean => calls[n].clean /\ (calls[n].to = from /\ Name[calls[n].conn] = to => re = n)
  <2>1. CASE calls[n].to = from /\ Name[calls[n].conn] = to /\ re # n
    <3>1. calls'[n] = [calls[n] EXCEPT !.clean = no] /\ calls[n] \in Call
      BY <1>1, <1>3, <2>1
    <3>2. calls'[n].clean = no
      BY <1>2, <3>1
    <3>3. ~calls'[n].clean
      BY <1>1, <3>2
    <3>4. QED BY <1>2, <3>1, <3>3
  <2>2. CASE ~(calls[n].to = from /\ Name[calls[n].conn] = to /\ re # n)
    <3>1. calls'[n] = calls[n]
      BY <1>1, <2>2
    <3>2. QED BY <2>2, <3>1 DEF SameQuestion
  <2>3. QED BY <2>1, <2>2
<1>8. QED BY <1>4, <1>6, <1>7

(* A message that is not for its sender goes into the inbox of its target,    *)
(* whether the dispatch that follows succeeds or not.                         *)
LEMMA HandleSendKeeps ==
  ASSUME LinkInv, NEW c \in Connections, NEW r, Due(c, r), UNCHANGED <<process, saved, again, dropped>>,
         HandleSend(c, r)
  PROVE  LinkInv'
<1> DEFINE no == FALSE
           w == conn[c].workspace
           m == [by |-> r.call, from |-> w, to |-> r.to, re |-> r.re]
<1>0. no \in BOOLEAN /\ ~no /\ {} \in SUBSET Message
  OBVIOUS
<1>1. r.kind = "send" /\ UNCHANGED vars /\ conn[c].open /\ conn' = conn
  BY DEF HandleSend, Due, vars
<1>2. r \in Requests(c)
  <2>1. toServer[c] \in Seq(Question)
    BY DEF LinkInv, LinkType
  <2>2. QED BY <2>1, RangeOfTail DEF Requests, Due
<1>3. w = Name[c] /\ w \in Workspaces
  BY <1>1, <1>2, AskedBy, DaemonLinkAssumption DEF Due
<1>4. /\ r.call \in DOMAIN calls /\ calls[r.call].conn = c
      /\ r.to = calls[r.call].to /\ r.re = calls[r.call].re
      /\ r.call \in Nat /\ r.to \in Workspaces /\ r.re \in Nat /\ LinkType
  BY <1>2, AskedBy, Typed DEF LinkInv
<1>5. m \in Message /\ m.from = w /\ m.to = r.to /\ m.re = r.re /\ m = Its(r.call)
  BY <1>3, <1>4 DEF Message, Its
<1>6. /\ RegistryInv' /\ conn'[c].open /\ conn'[c].workspace = Name[c]
      /\ \A d \in Connections : d # c => conn'[d] = conn[d]
  BY <1>1, <1>2, HandledAsNamed DEF Due
<1>7. CASE r.to = w
  <2>1. Respond(c, r, no, {}, no, {}) /\ UNCHANGED <<inbox, saved, missing, again, calls, faults>>
    BY <1>7 DEF HandleSend
  <2> HIDE DEF no, w, m
  <2>2. PICK e \in Answer : e.ok = no /\ e.got = {} /\ Responded(c, r, e)
    BY <1>0, <2>1, RespondIs
  <2>3. ~e.ok
    BY <1>0, <2>2
  <2>4. Answered(c, r, e, {})
    BY <1>1, <2>1, <2>2, <2>3 DEF Answered, Responded, SameQuestion
  <2>5. /\ calls' \in Seq(Call) /\ \A n \in DOMAIN calls : calls'[n].kind = calls[n].kind
        /\ inbox' \in [Workspaces -> SUBSET Message] /\ \A v \in Workspaces : \A x \in inbox'[v] : x.to = v
        /\ faults' \in 0..MaxFaults
    BY <1>4, <2>1 DEF LinkType
  <2>6. QED BY <1>1, <1>6, <2>2, <2>4, <2>5, HandledKeeps DEF Responded
<1>8. CASE r.to # w
  <2>0. PICK old \in SUBSET inbox[r.to] :
          inbox' = [inbox EXCEPT ![r.to] = (inbox[r.to] \ old) \union {m}] /\ missing' = missing \union old
    <3>1. Enqueue(r.to, m)
      BY <1>8 DEF HandleSend
    <3> HIDE DEF m
    <3>2. QED BY <3>1 DEF Enqueue
  <2>1. /\ calls' = Unasked(w, r.re, r.to)
        /\ faults' \in 0..MaxFaults
        /\ \E ok \in BOOLEAN : Respond(c, r, ok, {}, no, Holders(r.to))
    <3>1. /\ calls' = Unasked(w, r.re, r.to)
          /\ \/ Respond(c, r, TRUE, {}, no, Holders(r.to)) /\ UNCHANGED faults
             \/ Respond(c, r, FALSE, {}, no, Holders(r.to)) /\ Fault
      BY <1>8 DEF HandleSend
    <3>2. faults' \in 0..MaxFaults
      <4>1. faults' = faults \/ (faults < MaxFaults /\ faults' = faults + 1)
        BY <3>1 DEF Fault
      <4>2. faults \in 0..MaxFaults /\ MaxFaults \in Nat
        BY <1>4, DaemonLinkAssumption DEF LinkType
      <4>3. QED BY <4>1, <4>2
    <3>3. \E ok \in BOOLEAN : Respond(c, r, ok, {}, no, Holders(r.to))
      BY <3>1, Zenon
    <3>4. QED BY <3>1, <3>2, <3>3
  <2>2. PICK ok \in BOOLEAN : Respond(c, r, ok, {}, no, Holders(r.to))
    BY <2>1
  <2>2a. Respond(c, r, ok, {}, no, Holders(r.to)) /\ ok \in BOOLEAN
    BY <2>2
  <2> HIDE DEF no, w, m
  <2>3. PICK e \in Answer : e.ok = ok /\ e.got = {} /\ Responded(c, r, e)
    BY <1>0, <2>2a, RespondIs
  <2>4. /\ calls' \in Seq(Call) /\ DOMAIN calls' = DOMAIN calls
        /\ \A n \in DOMAIN calls :
              /\ SameQuestion(calls'[n], calls[n]) /\ calls'[n].at = calls[n].at /\ calls'[n].seq = calls[n].seq
              /\ calls'[n].got = calls[n].got /\ calls'[n].kind = calls[n].kind
              /\ calls'[n].clean => calls[n].clean /\ (calls[n].to = w /\ Name[calls[n].conn] = r.to => r.re = n)
    BY <1>4, <2>1, UnaskedIs
  <2>5. /\ inbox'[r.to] = (inbox[r.to] \ old) \union {m} /\ \A v \in Workspaces : v # r.to => inbox'[v] = inbox[v]
        /\ inbox' \in [Workspaces -> SUBSET Message] /\ \A v \in Workspaces : \A x \in inbox'[v] : x.to = v
    BY <1>4, <1>5, <2>0 DEF LinkType
  <2>6. Answered(c, r, e, {m})
    <3>1. /\ \A v \in Workspaces : \A x \in inbox'[v] : x \in inbox[v] \/ (x \in {m} /\ x.to = v)
          /\ \A v \in Workspaces : \A x \in inbox[v] : x \in inbox'[v] \/ x \in missing'
          /\ \A x \in {m} : x.to \in Workspaces /\ x \in inbox'[x.to]
          /\ missing \subseteq missing' /\ \A x \in missing' : x \in missing \/ Unread(x)
      BY <1>4, <1>5, <2>0, <2>5 DEF Unread
    <3>2. \A n \in DOMAIN calls : calls'[n].clean =>
            \A x \in {m} : calls[n].to = x.from /\ Name[calls[n].conn] = x.to => x.re = n
      BY <1>5, <2>4
    <3>3. {m} \subseteq {Its(r.call)} /\ Its(r.call) \in {m}
      BY <1>5
    <3>4. QED BY <1>1, <2>3, <2>4, <3>1, <3>2, <3>3 DEF Answered, Responded
  <2>7. r.kind = "register" => e.got = {}
    BY <1>1
  <2>8. QED BY <1>6, <2>1, <2>3, <2>4, <2>5, <2>6, <2>7, HandledKeeps DEF Responded
<1>9. QED BY <1>7, <1>8

(* The connection loop handles a request.                                     *)
LEMMA HandleKeeps ==
  ASSUME LinkInv, NEW c \in Connections, Handle(c)
  PROVE  LinkInv'
<1>1. PICK r : r = Head(toServer[c])
  OBVIOUS
<1>2. /\ Due(c, r) /\ UNCHANGED <<process, saved, again, dropped>>
      /\ \/ HandleRegister(c, r) \/ HandleSend(c, r)
         \/ HandleRead(c, r) \/ HandleList(c, r) \/ HandleMetrics(c, r)
  BY <1>1 DEF Handle, Due
<1>3. QED BY <1>2, HandleRegisterKeeps, HandleSendKeeps, HandleReadKeeps, HandleListKeeps

-----------------------------------------------------------------------------
(* All steps                                                                  *)

(* At the start nothing is under way and nobody has called.                   *)
LEMMA StartIsLinked == LInit => LinkInv
<1> SUFFICES ASSUME LInit PROVE LinkInv
  OBVIOUS
<1>1. /\ process = [c \in Connections |-> IF c \in Present THEN "up" ELSE "off"]
      /\ calls = <<>>
      /\ toServer = [c \in Connections |-> <<>>] /\ reply = [c \in Connections |-> NoReply]
      /\ outgoing = [c \in Connections |-> <<>>] /\ outbox = [c \in Connections |-> 0]
      /\ inbox = [w \in Workspaces |-> {m \in Waiting : m.to = w}]
      /\ saved = inbox /\ missing = {} /\ dropped = {} /\ faults = 0
  BY DEF LInit
<1>2. DOMAIN calls = {} /\ \A c \in Connections : Requests(c) = {} /\ Answers(c) = {}
  <2>1. \A c \in Connections : toServer[c] = <<>> /\ outgoing[c] = <<>> /\ reply[c] = NoReply
    BY <1>1
  <2>2. QED BY <1>1, <2>1, NothingInLine DEF Requests, Answers
<1>3. RegistryInv
  BY StartIsRegistered
<1>4. \A m \in Waiting : m \in Message /\ m.by = 0
  <2>1. Waiting \subseteq [by : {0}, from : Workspaces, to : Workspaces, re : {0}]
    BY DaemonLinkAssumption
  <2>2. QED BY <2>1 DEF Message
<1>5. LinkType
  <2>1. /\ process \in [Connections -> {"off", "dialing", "up", "cut"}]
        /\ reply \in [Connections -> Answer \union {NoReply}] /\ dropped \in SUBSET [msg : Message, call : Nat]
    BY <1>1
  <2>2. outbox \in [Connections -> 0..Capacity] /\ faults \in 0..MaxFaults
    BY <1>1, DaemonLinkAssumption
  <2>3. inbox \in [Workspaces -> SUBSET Message] /\ \A w \in Workspaces : \A m \in inbox[w] : m.to = w
    BY <1>1, <1>4
  <2>4. /\ calls \in Seq(Call) /\ toServer \in [Connections -> Seq(Question)]
        /\ outgoing \in [Connections -> Seq(Answer \union {Push})]
        /\ \A c \in Connections : Len(outgoing[c]) <= Capacity
    BY <1>1, NothingInLine, DaemonLinkAssumption
  <2>5. QED BY <1>1, <2>1, <2>2, <2>3, <2>4 DEF LinkType
<1>6. CallsInv /\ ItemsInv /\ KeysInv /\ CleanInv
  BY <1>2 DEF CallsInv, ItemsInv, KeysInv, CleanInv
<1>7. LinesInv
  BY <1>1, NothingInLine DEF LinesInv
<1>8. ConnInv
  <2>1. ASSUME NEW c \in Connections
        PROVE  IF c \in Present THEN conn[c].open /\ conn[c].workspace = Name[c] ELSE ~conn[c].open
    <3> DEFINE yes == TRUE
               no == FALSE
    <3>1. /\ c \in Present => \E x : conn[c] = [open |-> yes, workspace |-> Name[c], id |-> x, channel |-> x]
          /\ c \notin Present => conn[c] = [open |-> no, workspace |-> Unnamed, id |-> 0, channel |-> 0]
          /\ yes /\ ~no
      BY DEF LInit, Closed
    <3> HIDE DEF yes, no
    <3>2. ASSUME c \in Present PROVE conn[c].open = yes /\ conn[c].workspace = Name[c]
      <4>1. PICK x : conn[c] = [open |-> yes, workspace |-> Name[c], id |-> x, channel |-> x]
        BY <3>1, <3>2
      <4>2. QED BY <4>1
    <3>3. c \notin Present => conn[c].open = no
      BY <3>1
    <3>4. QED BY <3>1, <3>2, <3>3
  <2>2. \A c \in Connections : reply[c] = NoReply /\ process[c] # "dialing" /\ Name[c] # Unnamed
    BY <1>1, DaemonLinkAssumption, RegistryAssumption
  <2>3. QED BY <1>2, <2>1, <2>2 DEF ConnInv
<1>9. \A m : /\ ~Got(m) /\ ~Lost(m) /\ ~Carried(m)
             /\ Unread(m) \/ Kept(m) => m.by = 0
  BY <1>1, <1>2, <1>4 DEF Got, Lost, Carried, Unread, Kept
<1>10. PlacesInv
  BY <1>2, <1>9 DEF PlacesInv
<1>11. AuthorInv
  BY <1>1, <1>9 DEF AuthorInv, Known
<1>12. FateInv
  BY <1>1, <1>2 DEF FateInv
<1>13. QED BY <1>3, <1>5, <1>6, <1>7, <1>8, <1>10, <1>11, <1>12 DEF LinkInv

(* Every step of the daemon and its clients keeps the invariant.              *)
LEMMA LinkKeeps ==
  ASSUME LinkInv, [LNext]_lvars
  PROVE  LinkInv'
<1>1. CASE UNCHANGED lvars
  <2>1. /\ UNCHANGED vars /\ UNCHANGED <<process, calls, toServer, reply, outgoing, outbox, inbox, saved, missing, again, dropped, faults>>
    BY <1>1 DEF lvars, link, file
  <2>2. RegistryInv'
    BY <2>1, OthersKeep DEF LinkInv
  <2>3. \A d \in Connections : Requests(d)' = Requests(d) /\ Answers(d)' = Answers(d)
    BY <2>1 DEF Requests, Answers
  <2>4. LinkType' /\ LinesInv' /\ CallsInv'
    BY <2>1 DEF LinkInv, LinkType, LinesInv, CallsInv, Active
  <2>5. ConnInv'
    BY <2>1, <2>3 DEF LinkInv, ConnInv, vars
  <2>6. Shed
    BY <2>1, <2>3 DEF Shed, vars
  <2>7. QED BY <2>2, <2>4, <2>5, <2>6, ShedKeeps DEF LinkInv, FlowInv
<1>2. ASSUME NEW c \in Connections, NEW use \in Uses[c], NEW re \in Received(Name[c], use[2]),
             StartCall(c, use[1], use[2], re)
      PROVE  LinkInv'
  <2>1. use[1] \in Tools /\ use[2] \in Workspaces
    BY DaemonLinkAssumption
  <2>2. re \in Nat
    <3>1. LinkType
      BY DEF LinkInv
    <3>2. \A n \in DOMAIN calls : \A m \in calls[n].got : m \in Message /\ m.by \in Nat
      BY <3>1, Typed DEF Message
    <3>3. QED BY <1>2, <3>2 DEF Received
  <2>3. QED BY <1>2, <2>1, <2>2, StartCallKeeps
<1>3. ASSUME NEW c \in Connections, Dial(c) \/ Exit(c) \/ Serve(c) \/ Listen(c) PROVE LinkInv'
  BY <1>3, DialKeeps, ExitKeeps, HandleKeeps, PutReplyKeeps, ForwardPushKeeps, HangupKeeps,
     ReceiveKeeps, ReaderEndsKeeps DEF Serve, Listen
<1>4. ASSUME NEW n \in DOMAIN calls, Poll(n) \/ Deadline(n) \/ Timeout(n) PROVE LinkInv'
  BY <1>4, PollKeeps, TimeoutKeeps
<1>5. QED BY <1>1, <1>2, <1>3, <1>4, FlushKeeps, DaemonRestartsKeeps DEF LNext

-----------------------------------------------------------------------------
(* What the invariant says of messages and answers                            *)

(* A blocking client has one call at most.                                    *)
LEMMA OneAtATime ==
  ASSUME LinkInv, NEW c \in Connections, c \notin Mcp
  PROVE  Cardinality(Running(c)) <= 1
<1>1. \A n, k \in Running(c) : n = k
  BY DEF LinkInv, CallsInv, Running, Active
<1>2. CASE Running(c) = {}
  BY <1>2, FS_EmptySet
<1>3. CASE Running(c) # {}
  <2>1. PICK n : Running(c) = {n}
    BY <1>1, <1>3
  <2>2. QED BY <2>1, FS_Singleton
<1>4. QED BY <1>2, <1>3

(* What an answer carries is in transit.                                      *)
LEMMA CarriedIsInTransit ==
  ASSUME LinkType, NEW m, Carried(m)
  PROVE  InTransit(m)
<1>1. PICK c \in Connections : \E e \in Answers(c) : m \in e.got
  BY DEF Carried
<1>2. PICK e \in Answers(c) : m \in e.got
  BY <1>1
<1>3. outgoing[c] \in Seq(Answer \union {Push}) /\ reply[c] \in Answer \union {NoReply} /\ e \in Answer
  BY <1>2, Typed DEF LinkType
<1>4. \E x \in Cargo(reply[c]) \union CargoOf(outgoing[c]) : x.msg = m
  <2>1. CASE e = reply[c]
    BY <1>2, <1>3, <2>1, CargoIs
  <2>2. CASE e # reply[c]
    <3>1. e \in Range(outgoing[c]) \ {NoReply, Push}
      BY <1>2, <2>2 DEF Answers, OnWire
    <3>2. QED BY <1>2, <1>3, <3>1, CargoOfIs
  <2>3. QED BY <2>1, <2>2
<1>5. QED BY <1>4 DEF InTransit

(* The invariant says that messages and answers are kept.                     *)
LEMMA LinkedAnswers == LinkInv => AnswersAreKept
<1> SUFFICES ASSUME LinkInv PROVE AnswersAreKept
  OBVIOUS
<1>1. LinkType
  BY DEF LinkInv
<1>2. LTypeOK
  <2>1. TypeOK
    BY DEF LinkInv, RegistryInv
  <2>2. \A n \in DOMAIN calls : calls[n].at \in {"wait", "sleep"} \union Ended
    BY <1>1, Typed DEF Places
  <2>3. QED BY <1>1, <2>1, <2>2, OneAtATime DEF LTypeOK, LinkType
<1>3. NothingLostQuietly
  <2>1. ASSUME NEW n \in DOMAIN calls, calls[n].tool = "send_message", calls[n].at = "ok"
        PROVE  \E m \in [by : {n}, from : {Name[calls[n].conn]}, to : {calls[n].to}, re : {calls[n].re}] :
                  Sent(m) \/ InTransit(m) \/ m \in missing
    <3> DEFINE m == Its(n)
    <3>1. Known(m)
      BY <2>1 DEF LinkInv, FateInv
    <3>2. m \in [by : {n}, from : {Name[calls[n].conn]}, to : {calls[n].to}, re : {calls[n].re}]
      BY DEF Its
    <3> HIDE DEF m
    <3>3. Unread(m) => m \in inbox[m.to]
      BY <1>1 DEF Unread, LinkType
    <3>4. Sent(m) \/ InTransit(m) \/ m \in missing
      BY <1>1, <3>1, <3>3, CarriedIsInTransit DEF Known, Sent, Got, Lost
    <3>5. QED BY <3>2, <3>4
  <2>2. ASSUME NEW d \in dropped
        PROVE  /\ d.msg \notin calls[d.call].got \/ d.msg \in again
               /\ calls[d.call].at = "ok" => calls[d.call].tool \in Polling
    <3>1. d.call \in DOMAIN calls /\ (calls[d.call].at = "ok" => calls[d.call].tool \in Polling)
      BY DEF LinkInv, FateInv
    <3>2. ~Got(d.msg) \/ d.msg \in again
      BY DEF LinkInv, PlacesInv, Lost
    <3>3. QED BY <3>1, <3>2 DEF Got
  <2>3. \A n, k \in DOMAIN calls : n # k => calls[n].got \intersect calls[k].got \subseteq again
    BY DEF LinkInv, PlacesInv
  <2>4. QED BY <2>1, <2>2, <2>3 DEF NothingLostQuietly
<1>4. RepliesAreToTheQuestion
  BY DEF LinkInv, CleanInv, RepliesAreToTheQuestion
<1>5. QED BY <1>2, <1>3, <1>4 DEF AnswersAreKept

(* No message is lost without an error, none is handed to two calls, and a    *)
(* reply answers the question of the call that returns it: however calls      *)
(* overlap, time out and are answered late, clients exit and the daemon       *)
(* restarts (daemon_client.rs and poll_for_reply in server.rs of              *)
(* ax-mcp-server; handle_connection and the message handlers of ax-daemon).   *)
(* Exactly the messages that a full inbox drops and those a restart loses or  *)
(* brings back, because they were not flushed (queue.rs), are excepted.       *)
THEOREM AnswersHold == LSpec => []AnswersAreKept
<1>1. QED BY StartIsLinked, LinkKeeps, LinkedAnswers, PTL DEF LSpec
=============================================================================
