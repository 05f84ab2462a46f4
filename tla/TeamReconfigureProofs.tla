------------------------ MODULE TeamReconfigureProofs ------------------------
(***************************************************************************)
(* The lease of the team controller and the config it leaves in force, for *)
(* any number of clients, tickets, failed writes and restarts.  How a plan *)
(* is computed does not matter for that, so nothing is said of it there.   *)
(* The last part is about plans: what a list of changes, of any length,    *)
(* makes of an overlay (ChangesShow, by induction over the list), and that *)
(* every overlay planned, stored or on disk is coherent.                   *)
(*                                                                         *)
(* The agents of a team are started by the launcher, which shares nothing  *)
(* with the controller: its proofs come last, and share the induction over *)
(* a range that plans need.                                                *)
(***************************************************************************)
EXTENDS TeamReconfigure, AgentLaunch, WellFoundedInduction, TLAPS

Records(plans) == [pc : {"ready", "planned", "saving", "ticket", "taken", "got"},
                   plan : plans, token : Nat, late : BOOLEAN]

\* What the proof needs of the types; `plans' is whatever was planned so far.
Shape == /\ \E plans : client \in [Clients -> Records(plans)]
         /\ lease \in [token : Nat, expired : BOOLEAN]
         /\ tokens \in Nat

\* No token is from the future and no two tickets are alike.
TokensInv == /\ lease.token <= tokens
             /\ \A c \in Clients : client[c].token <= tokens
             /\ \A c \in Clients : client[c].pc = "ticket" => client[c].token # 0
             /\ \A c, d \in Clients :
                  /\ client[c].pc = "ticket" /\ client[d].pc = "ticket"
                  /\ client[c].token = client[d].token
                  => c = d

\* A begin_apply between its two steps holds the lock, and nobody has a lease then.
LockInv == /\ \A c \in Clients : client[c].pc = "saving" => holder = c
           /\ holder # Nobody => ~LeaseActive

\* A ticket in time is the one the lease is for.
TicketInv == \A c \in Clients :
               client[c].pc = "ticket" /\ ~client[c].late
                 => LeaseActive /\ lease.token = client[c].token

LeaseInv == Shape /\ TokensInv /\ LockInv /\ TicketInv

\* Replacing the record of one client leaves the others alone.
LEMMA OneClient ==
  ASSUME NEW plans, client \in [Clients -> Records(plans)], NEW c \in Clients,
         NEW more, NEW r \in Records(more), client' = [client EXCEPT ![c] = r]
  PROVE  /\ \E ps : client' \in [Clients -> Records(ps)]
         /\ client'[c] = r
         /\ \A d \in Clients : d # c => client'[d] = client[d]
<1> DEFINE all == plans \union more
<1>1. client \in [Clients -> Records(all)] /\ r \in Records(all)
  BY DEF Records
<1> HIDE DEF all
<1>2. client' \in [Clients -> Records(all)]
  BY <1>1
<1>3. QED BY <1>1, <1>2

\* A client that is done, or gives up, is like a new one.
LEMMA IdleRecord ==
  /\ Idle \in Records({NoState})
  /\ Idle.pc = "ready" /\ Idle.token = 0 /\ Idle.late = FALSE
  BY DEF Idle, Records

\* A step in which one client moves without holding a ticket afterwards, and the lease stays
\* or, when that client had its ticket, goes.
LEMMA QuietStep ==
  ASSUME LeaseInv, NEW plans, client \in [Clients -> Records(plans)], NEW c \in Clients,
         NEW more, NEW r \in Records(more), client' = [client EXCEPT ![c] = r],
         r.pc # "ticket", r.token <= tokens, tokens' = tokens,
         \/ lease' = lease
         \/ lease' = NoLease /\ client[c].pc = "ticket" /\ client[c].token = lease.token,
         r.pc = "saving" => holder' = c,
         \A d \in Clients : d # c /\ client[d].pc = "saving" => holder' = holder,
         holder' # Nobody => ~LeaseActive
  PROVE  LeaseInv'
<1>1. /\ \E ps : client' \in [Clients -> Records(ps)]
      /\ client'[c] = r
      /\ \A d \in Clients : d # c => client'[d] = client[d]
  BY OneClient
<1>2. /\ NoLease \in [token : Nat, expired : BOOLEAN] /\ NoLease.token = 0
  BY DEF NoLease
<1>3. /\ lease \in [token : Nat, expired : BOOLEAN] /\ tokens \in Nat
      /\ lease.token <= tokens
  BY DEF LeaseInv, Shape, TokensInv
<1>4. Shape'
  BY <1>1, <1>2, <1>3 DEF Shape
<1>5. TokensInv'
  <2>1. lease'.token <= tokens'
    BY <1>2, <1>3
  <2>2. QED BY <1>1, <2>1 DEF LeaseInv, TokensInv
<1>6. LockInv'
  <2>1. \A d \in Clients : client'[d].pc = "saving" => holder' = d
    BY <1>1 DEF LeaseInv, LockInv
  <2>2. holder' # Nobody => ~LeaseActive'
    BY <1>2 DEF LeaseActive
  <2>3. QED BY <2>1, <2>2 DEF LockInv
<1>7. TicketInv'
  <2>1. ASSUME NEW d \in Clients, client'[d].pc = "ticket", ~client'[d].late
        PROVE  LeaseActive' /\ lease'.token = client'[d].token
    <3>1. d # c /\ client'[d] = client[d]
      BY <1>1, <2>1
    <3>2. LeaseActive /\ lease.token = client[d].token
      BY <2>1, <3>1 DEF LeaseInv, TicketInv
    <3>3. lease' = lease
      BY <2>1, <3>1, <3>2 DEF LeaseInv, TokensInv
    <3>4. QED BY <3>1, <3>2, <3>3 DEF LeaseActive
  <2>2. QED BY <2>1 DEF TicketInv
<1>8. QED BY <1>4, <1>5, <1>6, <1>7 DEF LeaseInv

\* begin_apply hands out a ticket: the lock kept every other lease out.
LEMMA CommitKeepsLease ==
  ASSUME LeaseInv, NEW c \in Clients, Commit(c)
  PROVE  LeaseInv'
<1>1. PICK plans : client \in [Clients -> Records(plans)]
  BY DEF LeaseInv, Shape
<1>2. /\ lease \in [token : Nat, expired : BOOLEAN] /\ tokens \in Nat
      /\ lease.token <= tokens
      /\ \A d \in Clients : client[d].token <= tokens /\ client[d].token \in Nat
  BY <1>1 DEF LeaseInv, Shape, TokensInv, Records
<1>3. client[c].pc = "saving" /\ holder = c /\ holder' = Nobody /\ c # Nobody /\ ~LeaseActive
  BY TeamAssumption DEF Commit, LeaseInv, LockInv
<1>4. \A d \in Clients : d # c => client[d].pc # "saving"
  BY <1>3 DEF LeaseInv, LockInv
<1>5. CASE client' = [client EXCEPT ![c] = Idle] /\ UNCHANGED <<lease, tokens>>
  <2>1. Idle.pc # "ticket" /\ Idle.pc # "saving" /\ Idle.token <= tokens
    BY IdleRecord, <1>2
  <2>2. QED BY <1>1, <1>3, <1>4, <1>5, <2>1, IdleRecord, QuietStep
<1>6. CASE /\ tokens' = tokens + 1
           /\ lease' = [token |-> tokens', expired |-> FALSE]
           /\ client' = [client EXCEPT ![c] = [Idle EXCEPT !.pc = "ticket", !.token = tokens']]
  <2> DEFINE r == [Idle EXCEPT !.pc = "ticket", !.token = tokens']
  <2>1. tokens' \in Nat /\ tokens' = tokens + 1
    BY <1>2, <1>6
  <2>2. r \in Records({NoState}) /\ r.pc = "ticket" /\ r.token = tokens'
    BY <2>1, IdleRecord DEF Records
  <2>3. client' = [client EXCEPT ![c] = r]
    BY <1>6
  <2> HIDE DEF r
  <2>4. /\ \E ps : client' \in [Clients -> Records(ps)]
        /\ client'[c] = r
        /\ \A d \in Clients : d # c => client'[d] = client[d]
    BY <1>1, <2>2, <2>3, OneClient
  <2>5. /\ lease'.token = tokens' /\ lease'.expired = FALSE
        /\ lease' \in [token : Nat, expired : BOOLEAN]
    BY <1>6, <2>1
  <2>6. Shape'
    BY <2>1, <2>4, <2>5 DEF Shape
  <2>7. TokensInv'
    <3>1. \A d \in Clients : d # c => client'[d].token < tokens'
      BY <1>2, <2>1, <2>4
    <3>2. lease'.token <= tokens' /\ \A d \in Clients : client'[d].token <= tokens'
      BY <1>2, <2>1, <2>2, <2>4, <2>5
    <3>3. \A d \in Clients : client'[d].pc = "ticket" => client'[d].token # 0
      BY <1>2, <2>1, <2>2, <2>4 DEF LeaseInv, TokensInv
    <3>4. ASSUME NEW d \in Clients, NEW e \in Clients, client'[d].pc = "ticket",
                 client'[e].pc = "ticket", client'[d].token = client'[e].token
          PROVE  d = e
      <4>1. CASE d = c \/ e = c
        BY <1>2, <2>1, <2>2, <2>4, <3>1, <3>4, <4>1
      <4>2. CASE d # c /\ e # c
        BY <2>4, <3>4, <4>2 DEF LeaseInv, TokensInv
      <4>3. QED BY <4>1, <4>2
    <3>5. QED BY <3>2, <3>3, <3>4 DEF TokensInv
  <2>8. LockInv'
    <3>1. \A d \in Clients : client'[d].pc # "saving"
      BY <1>4, <2>2, <2>4
    <3>2. QED BY <1>3, <3>1 DEF LockInv
  <2>9. TicketInv'
    <3>1. LeaseActive'
      BY <1>2, <2>1, <2>5 DEF LeaseActive
    <3>2. \A d \in Clients : d # c => ~(client[d].pc = "ticket" /\ ~client[d].late)
      BY <1>3 DEF LeaseInv, TicketInv
    <3>3. QED BY <2>2, <2>4, <2>5, <3>1, <3>2 DEF TicketInv
  <2>10. QED BY <2>6, <2>7, <2>8, <2>9 DEF LeaseInv
<1>7. QED BY <1>5, <1>6 DEF Commit

\* Expiry and restart make every ticket they strip of its lease late.
LEMMA LossMakesLate ==
  ASSUME LeaseInv, Expire \/ Restart
  PROVE  LeaseInv'
<1>1. PICK plans : client \in [Clients -> Records(plans)]
  BY DEF LeaseInv, Shape
<1>2. /\ lease \in [token : Nat, expired : BOOLEAN] /\ tokens \in Nat /\ tokens' = tokens
      /\ lease.token <= tokens
  BY DEF LeaseInv, Shape, TokensInv, Expire, Restart
<1>3. CASE Expire
  <2>1. /\ LeaseActive /\ holder' = holder /\ holder = Nobody
        /\ lease' = [lease EXCEPT !.expired = TRUE]
        /\ client' = [c \in Clients |->
                        [client[c] EXCEPT !.late = @ \/ client[c].token = lease.token]]
    BY <1>3 DEF Expire, LeaseInv, LockInv
  <2>2. lease'.token = lease.token /\ lease' \in [token : Nat, expired : BOOLEAN]
    BY <1>2, <2>1
  <2>3. ASSUME NEW c \in Clients
        PROVE  /\ client'[c] \in Records(plans)
               /\ client'[c].pc = client[c].pc /\ client'[c].token = client[c].token
               /\ client[c].token = lease.token => client'[c].late
               /\ client[c].late => client'[c].late
    <3> DEFINE r == client[c]
               b == r.late \/ r.token = lease.token
    <3>1. r \in Records(plans) /\ b \in BOOLEAN
      BY <1>1
    <3>2. client'[c] = [r EXCEPT !.late = b]
      BY <2>1
    <3>3. /\ r.late => b
          /\ r.token = lease.token => b
      OBVIOUS
    <3> HIDE DEF b, r
    <3>4. /\ [r EXCEPT !.late = b] \in Records(plans)
          /\ [r EXCEPT !.late = b].pc = r.pc /\ [r EXCEPT !.late = b].token = r.token
          /\ [r EXCEPT !.late = b].late = b
      BY <3>1 DEF Records
    <3>5. QED BY <3>2, <3>3, <3>4 DEF r
  <2>4. client' \in [Clients -> Records(plans)]
    BY <2>1, <2>3
  <2>5. Shape'
    BY <1>2, <2>2, <2>4 DEF Shape
  <2>6. TokensInv'
    BY <1>2, <2>2, <2>3 DEF LeaseInv, TokensInv
  <2>7. LockInv'
    BY <2>1, <2>3 DEF LeaseInv, LockInv
  <2>8. \A c \in Clients : client'[c].pc = "ticket" => client'[c].late
    BY <2>3 DEF LeaseInv, TicketInv
  <2>9. TicketInv'
    BY <2>8 DEF TicketInv
  <2>10. QED BY <2>5, <2>6, <2>7, <2>9 DEF LeaseInv
<1>4. CASE Restart
  <2> DEFINE all == plans \union {NoState}
  <2>1. /\ holder' = Nobody /\ lease' = NoLease
        /\ client' = [c \in Clients |-> IF client[c].pc = "ticket"
                                        THEN [client[c] EXCEPT !.late = TRUE] ELSE Idle]
    BY <1>4 DEF Restart
  <2>2. lease'.token = 0 /\ lease' \in [token : Nat, expired : BOOLEAN]
    BY <2>1 DEF NoLease
  <2>3. ASSUME NEW c \in Clients
        PROVE  /\ client'[c] \in Records(all)
               /\ client'[c].pc = "ticket" => /\ client[c].pc = "ticket" /\ client'[c].late
                                              /\ client'[c].token = client[c].token
               /\ client'[c].pc \in {"ready", "ticket"}
               /\ client'[c].token \in {0, client[c].token}
    <3> DEFINE r == client[c]
               s == [r EXCEPT !.late = TRUE]
    <3>1. r \in Records(plans)
      BY <1>1
    <3>2. client'[c] = IF r.pc = "ticket" THEN s ELSE Idle
      BY <2>1
    <3> HIDE DEF r
    <3>3. /\ s \in Records(plans)
          /\ s.pc = r.pc /\ s.token = r.token /\ s.late
      BY <3>1 DEF Records
    <3> HIDE DEF s
    <3>4. s \in Records(all) /\ Idle \in Records(all)
      BY <3>3, IdleRecord DEF Records
    <3>5. QED BY <3>2, <3>3, <3>4, IdleRecord DEF r
  <2>4. client' \in [Clients -> Records(all)]
    BY <2>1, <2>3
  <2>5. Shape'
    BY <1>2, <2>2, <2>4 DEF Shape
  <2>6. TokensInv'
    <3>1. 0 <= tokens
      BY <1>2
    <3>2. QED BY <1>2, <2>2, <2>3, <3>1 DEF LeaseInv, TokensInv
  <2>7. LockInv'
    BY <2>1, <2>3 DEF LockInv
  <2>8. TicketInv'
    BY <2>3 DEF TicketInv
  <2>9. QED BY <2>5, <2>6, <2>7, <2>8 DEF LeaseInv
<1>5. QED BY <1>3, <1>4

\* Every other step of a client moves that client only and hands out no ticket.
LEMMA ClientStep ==
  ASSUME LeaseInv, NEW c \in Clients,
         \/ \E chs \in Requests : Plan(c, chs)
         \/ Refuse(c) \/ Save(c)
         \/ FinishTake(c) \/ FinishUnknown(c) \/ FinishGet(c) \/ FinishPut(c)
  PROVE  LeaseInv'
<1> DEFINE q == client[c]
<1>1. PICK plans : client \in [Clients -> Records(plans)]
  BY DEF LeaseInv, Shape
<1>2. /\ q \in Records(plans) /\ q.token <= tokens /\ q.token \in Nat
      /\ tokens \in Nat /\ tokens' = tokens
  BY <1>1 DEF LeaseInv, Shape, TokensInv, Records,
              Plan, Refuse, Save, FinishTake, FinishUnknown, FinishGet, FinishPut
<1>3. holder # Nobody => ~LeaseActive
  BY DEF LeaseInv, LockInv
<1>4. Idle.pc # "ticket" /\ Idle.pc # "saving" /\ Idle.token <= tokens
  BY IdleRecord, <1>2
<1>5. ASSUME client' = [client EXCEPT ![c] = Idle], lease' = lease, holder' = holder
      PROVE  LeaseInv'
  BY <1>1, <1>2, <1>3, <1>4, <1>5, IdleRecord, QuietStep
<1>6. ASSUME NEW pc \in {"planned", "saving", "got"}, NEW x,
             client' = [client EXCEPT ![c] = [q EXCEPT !.pc = pc, !.plan = x]],
             lease' = lease,
             \/ holder' = holder /\ pc # "saving"
             \/ holder' = c /\ holder = Nobody /\ ~LeaseActive
      PROVE  LeaseInv'
  <2> DEFINE r == [q EXCEPT !.pc = pc, !.plan = x]
  <2> HIDE DEF q
  <2>1. r \in Records({x}) /\ r.pc = pc /\ r.token = q.token
    BY <1>2 DEF Records
  <2>2. client' = [client EXCEPT ![c] = r]
    BY <1>6
  <2> HIDE DEF r
  <2>3. r.pc # "ticket" /\ r.token <= tokens /\ (r.pc = "saving" => holder' = c)
    BY <1>2, <1>6, <2>1
  <2>4. holder' # Nobody => ~LeaseActive
    BY <1>3, <1>6
  <2>5. ASSUME NEW d \in Clients, d # c, client[d].pc = "saving"
        PROVE  holder' = holder
    <3>1. holder = d
      BY <2>5 DEF LeaseInv, LockInv
    <3>2. d # Nobody
      BY TeamAssumption
    <3>3. QED BY <1>6, <3>1, <3>2
  <2>6. QED BY <1>1, <1>2, <1>6, <2>1, <2>2, <2>3, <2>4, <2>5, QuietStep
<1>7. ASSUME NEW chs \in Requests, Plan(c, chs)
      PROVE  LeaseInv'
  <2> DEFINE x == [revision |-> state.revision + 1,
                   overlay |-> ApplyChanges(state.overlay, chs)[Len(chs)]]
  <2>1. client' = [client EXCEPT ![c].pc = "planned", ![c].plan = x]
    BY <1>7 DEF Plan
  <2>2. lease' = lease /\ holder' = holder
    BY <1>7 DEF Plan
  <2> HIDE DEF x
  <2>3. client' = [client EXCEPT ![c] = [q EXCEPT !.pc = "planned", !.plan = x]]
    BY <1>1, <2>1
  <2>4. QED BY <1>6, <2>2, <2>3
<1>8. CASE Refuse(c) \/ FinishUnknown(c) \/ FinishPut(c)
  BY <1>5, <1>8 DEF Refuse, FinishUnknown, FinishPut
<1>9. CASE Save(c)
  <2>1. lease' = lease /\ holder = Nobody /\ ~LeaseActive
    BY <1>9 DEF Save
  <2>2. CASE client' = [client EXCEPT ![c] = Idle] /\ holder' = holder
    BY <1>5, <2>1, <2>2
  <2>3. CASE client' = [client EXCEPT ![c].pc = "saving"] /\ holder' = c
    <3>1. [q EXCEPT !.pc = "saving"] = [q EXCEPT !.pc = "saving", !.plan = q.plan]
      BY <1>2 DEF Records
    <3>2. client' = [client EXCEPT ![c] = [q EXCEPT !.pc = "saving", !.plan = q.plan]]
      BY <1>1, <2>3, <3>1
    <3>3. QED BY <1>6, <2>1, <2>3, <3>2
  <2>4. QED BY <1>9, <2>2, <2>3 DEF Save
<1>10. CASE FinishTake(c)
  <2> DEFINE r == [Idle EXCEPT !.pc = "taken"]
  <2>1. /\ client' = [client EXCEPT ![c] = r] /\ lease' = NoLease /\ holder' = holder
        /\ client[c].pc = "ticket" /\ client[c].token = lease.token
    BY <1>10 DEF FinishTake
  <2>2. r \in Records({NoState}) /\ r.pc = "taken" /\ r.token = 0
    BY IdleRecord DEF Records
  <2> HIDE DEF r
  <2>3. r.pc # "ticket" /\ r.pc # "saving" /\ r.token <= tokens
    BY <1>2, <2>2
  <2>4. QED BY <1>1, <1>2, <1>3, <2>1, <2>2, <2>3, QuietStep
<1>11. CASE FinishGet(c)
  <2>1. client' = [client EXCEPT ![c].pc = "got", ![c].plan = state]
    BY <1>11 DEF FinishGet
  <2>2. client' = [client EXCEPT ![c] = [q EXCEPT !.pc = "got", !.plan = state]]
    BY <1>1, <2>1
  <2>3. lease' = lease /\ holder' = holder
    BY <1>11 DEF FinishGet
  <2>4. QED BY <1>6, <2>2, <2>3
<1>12. QED BY <1>7, <1>8, <1>9, <1>10, <1>11

\* Nobody has a ticket when the daemon starts.
LEMMA LeaseInit == Init => LeaseInv
<1> SUFFICES ASSUME Init PROVE LeaseInv
  OBVIOUS
<1>1. client \in [Clients -> Records({NoState})] /\ \A c \in Clients : client[c] = Idle
  BY IdleRecord DEF Init
<1>2. lease \in [token : Nat, expired : BOOLEAN] /\ lease.token = 0 /\ tokens = 0
  BY DEF Init, NoLease
<1>3. Shape
  BY <1>1, <1>2 DEF Shape
<1>4. TokensInv
  BY <1>1, <1>2, IdleRecord DEF TokensInv
<1>5. LockInv /\ TicketInv
  BY <1>1, IdleRecord DEF LockInv, TicketInv, Init
<1>6. QED BY <1>3, <1>4, <1>5 DEF LeaseInv

\* Every step keeps the lease invariant.
LEMMA LeaseNext == LeaseInv /\ [Next]_vars => LeaseInv'
<1> SUFFICES ASSUME LeaseInv, [Next]_vars PROVE LeaseInv'
  OBVIOUS
<1>1. CASE UNCHANGED vars
  <2>1. client' = client /\ lease' = lease /\ tokens' = tokens /\ holder' = holder
    BY <1>1 DEF vars
  <2>2. QED
    BY <2>1 DEF LeaseInv, Shape, TokensInv, LockInv, TicketInv, LeaseActive
<1>2. QED
  BY <1>1, ClientStep, CommitKeepsLease, LossMakesLate DEF Next, HandleApply, HandleFinish

\* begin_apply never gives out a second ticket while one is in time: the lock it holds
\* between writing the config and storing the lease keeps the check valid.
THEOREM LeaseExcludes == Spec => []OneAtATime
<1>1. LeaseInv => OneAtATime
  <2> SUFFICES ASSUME LeaseInv, NEW c \in Clients, NEW d \in Clients,
                      client[c].pc = "ticket", ~client[c].late,
                      client[d].pc = "ticket", ~client[d].late
               PROVE  c = d
    BY DEF OneAtATime
  <2>1. client[c].token = client[d].token
    BY DEF LeaseInv, TicketInv
  <2>2. QED BY <2>1 DEF LeaseInv, TokensInv
<1>2. QED BY <1>1, LeaseInit, LeaseNext, PTL DEF Spec

-----------------------------------------------------------------------------
(* The config in force *)

\* The config a begin_apply has written is the one it is about to store, and a
\* finish_apply that was not overtaken will put back what is stored anyway.
CopyInv == /\ \A c \in Clients :
                client[c].pc = "saving" /\ HasChanges(client[c].plan.overlay)
                  => file = Materialize(client[c].plan.overlay)
           /\ \A c \in Clients :
                client[c].pc = "got" /\ c \notin overtaken => client[c].plan = state
           /\ excused \in BOOLEAN

ConfigInv == LeaseInv /\ CopyInv /\ EffectiveIsCurrent

\* The client's record is a record, and its fields can be updated one by one.
LEMMA OneField ==
  ASSUME LeaseInv, NEW c \in Clients, NEW r, NEW more, r \in Records(more),
         client' = [client EXCEPT ![c] = r]
  PROVE  client'[c] = r /\ \A d \in Clients : d # c => client'[d] = client[d]
<1>1. PICK plans : client \in [Clients -> Records(plans)]
  BY DEF LeaseInv, Shape
<1>2. QED BY <1>1, OneClient

\* A step that moves one client and neither the stored state nor the file.
LEMMA ConfigFrame ==
  ASSUME CopyInv, EffectiveIsCurrent, NEW c \in Clients,
         \A d \in Clients : d # c => client'[d] = client[d],
         client'[c].pc # "saving",
         client'[c].pc = "got" => client'[c].plan = state,
         state' = state, file' = file, holder' = holder, excused' = excused,
         overtaken \subseteq overtaken' \union {c}
  PROVE  CopyInv' /\ EffectiveIsCurrent'
<1>1. CopyInv'
  <2>1. ASSUME NEW d \in Clients, client'[d].pc = "saving",
               HasChanges(client'[d].plan.overlay)
        PROVE  file' = Materialize(client'[d].plan.overlay)
    BY <2>1 DEF CopyInv
  <2>2. ASSUME NEW d \in Clients, client'[d].pc = "got", d \notin overtaken'
        PROVE  client'[d].plan = state'
    BY <2>2 DEF CopyInv
  <2>3. QED BY <2>1, <2>2 DEF CopyInv, HasChanges, Materialize
<1>2. EffectiveIsCurrent'
  BY DEF EffectiveIsCurrent, InForce, HasChanges, Materialize
<1>3. QED BY <1>1, <1>2

\* begin_apply writes the config it planned, or fails and leaves the file as it was or
\* the step is excused.
LEMMA SaveKeepsConfig ==
  ASSUME LeaseInv, CopyInv, EffectiveIsCurrent, NEW c \in Clients, Save(c)
  PROVE  CopyInv' /\ EffectiveIsCurrent'
<1> DEFINE ov == client[c].plan.overlay
           written == IF HasChanges(ov) THEN Materialize(ov) ELSE file
<1>1. PICK plans : client \in [Clients -> Records(plans)]
  BY DEF LeaseInv, Shape
<1>2. /\ client[c].pc = "planned" /\ holder = Nobody /\ c # Nobody
      /\ state' = state /\ overtaken' = overtaken
  BY TeamAssumption DEF Save
<1>3. \A d \in Clients : client[d].pc # "saving"
  BY <1>2, TeamAssumption DEF LeaseInv, LockInv
<1>4. CASE /\ holder' = c /\ file' = written /\ excused' = excused
           /\ client' = [client EXCEPT ![c].pc = "saving"]
  <2> DEFINE r == [client[c] EXCEPT !.pc = "saving"]
  <2>1. r \in Records(plans) /\ r.pc = "saving" /\ r.plan = client[c].plan
    BY <1>1 DEF Records
  <2>2. client' = [client EXCEPT ![c] = r]
    BY <1>1, <1>4
  <2> HIDE DEF r
  <2>3. client'[c] = r /\ \A d \in Clients : d # c => client'[d] = client[d]
    BY <2>1, <2>2, OneField
  <2>4. ASSUME NEW d \in Clients, client'[d].pc = "saving"
        PROVE  d = c
    BY <1>3, <2>3, <2>4
  <2>5. HasChanges(ov) => file' = Materialize(ov)
    BY <1>4
  <2>6. client'[c].plan.overlay = ov
    BY <2>1, <2>3
  <2>7. ASSUME NEW d \in Clients, client'[d].pc = "got", d \notin overtaken
        PROVE  client'[d].plan = state
    BY <2>1, <2>3, <2>7 DEF CopyInv
  <2> HIDE DEF ov
  <2>8. CopyInv'
    BY <1>2, <1>4, <2>4, <2>5, <2>6, <2>7 DEF CopyInv, HasChanges, Materialize
  <2>9. EffectiveIsCurrent'
    BY <1>2, <1>4 DEF EffectiveIsCurrent
  <2>10. QED BY <2>8, <2>9
<1>5. CASE /\ holder' = holder /\ file' \in {file, written}
           /\ excused' = (excused \/ file' # file)
           /\ client' = [client EXCEPT ![c] = Idle]
  <2>1. client'[c] = Idle /\ \A d \in Clients : d # c => client'[d] = client[d]
    BY <1>5, IdleRecord, OneField
  <2>2. \A d \in Clients : client'[d].pc # "saving"
    BY <1>3, <2>1, IdleRecord
  <2>3. CASE file' = file
    <3>1. excused' = excused
      BY <1>5, <2>3 DEF CopyInv
    <3>2. client'[c].pc # "saving" /\ client'[c].pc # "got"
      BY <2>1, IdleRecord
    <3>3. QED BY <1>2, <1>5, <2>1, <2>3, <3>1, <3>2, ConfigFrame
  <2>4. CASE file' # file
    <3>1. excused' = TRUE
      BY <1>5, <2>4
    <3>2. \A d \in Clients : client'[d].pc = "got" /\ d \notin overtaken
                               => client'[d].plan = state
      BY <2>1, IdleRecord DEF CopyInv
    <3>3. QED BY <1>2, <2>2, <3>1, <3>2 DEF CopyInv, EffectiveIsCurrent
  <2>5. QED BY <2>3, <2>4
<1>6. QED BY <1>4, <1>5 DEF Save

\* Everyone else with a copy of a state that is replaced is overtaken.
LEMMA CopiesAreMarked ==
  ASSUME CopyInv, NEW c \in Clients,
         \A d \in Clients : d # c => client'[d] = client[d],
         overtaken' = Overtakes(c) \ {c}
  PROVE  \A d \in Clients : d # c /\ client'[d].pc = "got" /\ d \notin overtaken'
           => client'[d].plan = state'
<1> SUFFICES ASSUME NEW d \in Clients, d # c, client'[d].pc = "got", d \notin overtaken'
             PROVE  client'[d].plan = state'
  OBVIOUS
<1>1. state' = state /\ d \notin overtaken
  BY DEF Overtakes
<1>2. QED BY <1>1 DEF CopyInv

\* Storing the planned state puts the config that was just written in force.
LEMMA CommitKeepsConfig ==
  ASSUME LeaseInv, CopyInv, NEW c \in Clients, Commit(c)
  PROVE  CopyInv' /\ EffectiveIsCurrent'
<1> DEFINE r == client'[c]
<1>1. /\ client[c].pc = "saving" /\ state' = client[c].plan /\ file' = file
      /\ overtaken' = Overtakes(c) \ {c} /\ excused' = FALSE
  BY DEF Commit
<1>2. /\ r.pc \in {"ready", "ticket"}
      /\ \A d \in Clients : d # c => client'[d] = client[d]
  <2>1. CASE client' = [client EXCEPT ![c] = Idle]
    <3>1. client'[c] = Idle /\ \A d \in Clients : d # c => client'[d] = client[d]
      BY <2>1, IdleRecord, OneField
    <3>2. QED BY <3>1, IdleRecord
  <2>2. CASE /\ tokens' = tokens + 1
             /\ client' = [client EXCEPT ![c] = [Idle EXCEPT !.pc = "ticket", !.token = tokens']]
    <3> DEFINE k == [Idle EXCEPT !.pc = "ticket", !.token = tokens']
    <3>1. tokens' \in Nat
      BY <2>2 DEF LeaseInv, Shape
    <3>2. k \in Records({NoState}) /\ k.pc = "ticket" /\ client' = [client EXCEPT ![c] = k]
      BY <2>2, <3>1, IdleRecord DEF Records
    <3> HIDE DEF k
    <3>3. client'[c] = k /\ \A d \in Clients : d # c => client'[d] = client[d]
      BY <3>2, OneField
    <3>4. QED BY <3>2, <3>3
  <2>3. QED BY <2>1, <2>2 DEF Commit
<1> HIDE DEF r
<1>3. \A d \in Clients : client'[d].pc # "saving"
  <2>1. \A d \in Clients : d # c => client[d].pc # "saving"
    BY <1>1 DEF LeaseInv, LockInv
  <2>2. QED BY <1>2, <2>1 DEF r
<1>4. \A d \in Clients : client'[d].pc = "got" /\ d \notin overtaken' => client'[d].plan = state'
  BY <1>1, <1>2, CopiesAreMarked DEF r
<1>5. CopyInv'
  BY <1>1, <1>3, <1>4 DEF CopyInv
<1>6. EffectiveIsCurrent'
  <2> DEFINE ov == client[c].plan.overlay
  <2>1. state'.overlay = ov /\ (HasChanges(ov) => file' = Materialize(ov))
    BY <1>1 DEF CopyInv
  <2>2. ~HasChanges(ov) => ov = NoOverlay
    BY DEF HasChanges
  <2> HIDE DEF ov
  <2>3. InForce' = IF HasChanges(ov) THEN file' ELSE Materialize(NoOverlay)
    BY <2>1 DEF InForce, HasChanges, Materialize
  <2>4. InForce' = Materialize(ov)
    BY <2>1, <2>2, <2>3
  <2>5. QED BY <2>1, <2>4 DEF EffectiveIsCurrent, Materialize
<1>7. QED BY <1>5, <1>6

\* finish_apply puts back what is stored, or was overtaken, which is excused.
LEMMA PutKeepsConfig ==
  ASSUME LeaseInv, CopyInv, EffectiveIsCurrent, NEW c \in Clients, FinishPut(c)
  PROVE  CopyInv' /\ EffectiveIsCurrent'
<1>1. /\ client[c].pc = "got" /\ state' = client[c].plan /\ file' = file /\ holder' = holder
      /\ client' = [client EXCEPT ![c] = Idle]
      /\ overtaken' = Overtakes(c) \ {c} /\ excused' = (excused \/ c \in overtaken)
  BY DEF FinishPut
<1>2. client'[c] = Idle /\ \A d \in Clients : d # c => client'[d] = client[d]
  BY <1>1, IdleRecord, OneField
<1>3. client'[c].pc # "saving" /\ client'[c].pc # "got"
  BY <1>2, IdleRecord
<1>4. CASE c \in overtaken
  <2>1. excused' = TRUE
    BY <1>1, <1>4
  <2>2. \A d \in Clients : client'[d].pc = "got" /\ d \notin overtaken' => client'[d].plan = state'
    BY <1>1, <1>2, <1>3, CopiesAreMarked
  <2>3. ASSUME NEW d \in Clients, client'[d].pc = "saving",
               HasChanges(client'[d].plan.overlay)
        PROVE  file' = Materialize(client'[d].plan.overlay)
    <3>1. d # c /\ client'[d] = client[d]
      BY <1>2, <1>3, <2>3
    <3>2. QED BY <1>1, <2>3, <3>1 DEF CopyInv
  <2>4. QED BY <2>1, <2>2, <2>3 DEF CopyInv, EffectiveIsCurrent, HasChanges, Materialize
<1>5. CASE c \notin overtaken
  <2>1. state' = state
    BY <1>1, <1>5 DEF CopyInv
  <2>2. excused' = excused
    BY <1>1, <1>5 DEF CopyInv
  <2>3. overtaken' = overtaken \ {c}
    BY <1>1, <2>1 DEF Overtakes
  <2>4. QED BY <1>1, <1>2, <1>3, <2>1, <2>2, <2>3, ConfigFrame
<1>6. QED BY <1>4, <1>5

\* The steps of a client that write nothing.
LEMMA ReadKeepsConfig ==
  ASSUME LeaseInv, CopyInv, EffectiveIsCurrent, NEW c \in Clients,
         \/ \E chs \in Requests : Plan(c, chs)
         \/ Refuse(c) \/ FinishTake(c) \/ FinishUnknown(c) \/ FinishGet(c)
  PROVE  CopyInv' /\ EffectiveIsCurrent'
<1> DEFINE q == client[c]
<1>1. PICK plans : client \in [Clients -> Records(plans)]
  BY DEF LeaseInv, Shape
<1>2. q \in Records(plans)
  BY <1>1
<1>3. /\ state' = state /\ file' = file /\ holder' = holder /\ excused' = excused
      /\ overtaken \subseteq overtaken' \union {c}
  BY DEF Plan, Refuse, FinishTake, FinishUnknown, FinishGet
<1>4. ASSUME NEW r, NEW more, r \in Records(more), client' = [client EXCEPT ![c] = r],
             r.pc # "saving", r.pc = "got" => r.plan = state
      PROVE  CopyInv' /\ EffectiveIsCurrent'
  <2>1. client'[c] = r /\ \A d \in Clients : d # c => client'[d] = client[d]
    BY <1>4, OneField
  <2>2. QED BY <1>3, <1>4, <2>1, ConfigFrame
<1>5. ASSUME NEW pc \in {"planned", "got"}, NEW x, pc = "got" => x = state,
             client' = [client EXCEPT ![c].pc = pc, ![c].plan = x]
      PROVE  CopyInv' /\ EffectiveIsCurrent'
  <2> DEFINE r == [q EXCEPT !.pc = pc, !.plan = x]
  <2>1. client' = [client EXCEPT ![c] = r]
    BY <1>1, <1>5
  <2> HIDE DEF q
  <2>2. r \in Records({x}) /\ r.pc = pc /\ r.plan = x
    BY <1>2 DEF Records
  <2> HIDE DEF r
  <2>3. QED BY <1>4, <1>5, <2>1, <2>2
<1>6. ASSUME NEW chs \in Requests, Plan(c, chs)
      PROVE  CopyInv' /\ EffectiveIsCurrent'
  <2> DEFINE x == [revision |-> state.revision + 1,
                   overlay |-> ApplyChanges(state.overlay, chs)[Len(chs)]]
  <2>1. client' = [client EXCEPT ![c].pc = "planned", ![c].plan = x]
    BY <1>6 DEF Plan
  <2> HIDE DEF x
  <2>2. QED BY <1>5, <2>1
<1>7. CASE Refuse(c) \/ FinishUnknown(c)
  <2>1. client' = [client EXCEPT ![c] = Idle]
    BY <1>7 DEF Refuse, FinishUnknown
  <2>2. QED BY <1>4, <2>1, IdleRecord
<1>8. CASE FinishTake(c)
  <2> DEFINE r == [Idle EXCEPT !.pc = "taken"]
  <2>1. r \in Records({NoState}) /\ r.pc = "taken" /\ client' = [client EXCEPT ![c] = r]
    BY <1>8, IdleRecord DEF Records, FinishTake
  <2> HIDE DEF r
  <2>2. QED BY <1>4, <2>1
<1>9. CASE FinishGet(c)
  <2>1. client' = [client EXCEPT ![c].pc = "got", ![c].plan = state]
    BY <1>9 DEF FinishGet
  <2>2. QED BY <1>5, <2>1
<1>10. QED BY <1>6, <1>7, <1>8, <1>9

\* A lease that runs out changes no config; a restart is excused.
LEMMA LossKeepsConfig ==
  ASSUME LeaseInv, CopyInv, EffectiveIsCurrent, Expire \/ Restart
  PROVE  CopyInv' /\ EffectiveIsCurrent'
<1>1. PICK plans : client \in [Clients -> Records(plans)]
  BY DEF LeaseInv, Shape
<1>2. CASE Expire
  <2>1. /\ state' = state /\ file' = file /\ holder' = holder /\ excused' = excused
        /\ overtaken' = overtaken
    BY <1>2 DEF Expire
  <2>2. ASSUME NEW c \in Clients
        PROVE  client'[c].pc = client[c].pc /\ client'[c].plan = client[c].plan
    <3> DEFINE r == client[c]
               b == r.late \/ r.token = lease.token
    <3>1. r \in Records(plans) /\ client'[c] = [r EXCEPT !.late = b]
      BY <1>1, <1>2 DEF Expire
    <3> HIDE DEF r, b
    <3>2. QED BY <3>1 DEF Records, r
  <2>3. CopyInv'
    BY <2>1, <2>2 DEF CopyInv, HasChanges, Materialize
  <2>4. EffectiveIsCurrent'
    BY <2>1 DEF EffectiveIsCurrent, InForce, HasChanges, Materialize
  <2>5. QED BY <2>3, <2>4
<1>3. CASE Restart
  <2>1. excused' = TRUE
    BY <1>3 DEF Restart
  <2>2. ASSUME NEW c \in Clients
        PROVE  client'[c].pc \in {"ready", "ticket"}
    <3> DEFINE r == client[c]
               s == [r EXCEPT !.late = TRUE]
    <3>1. r \in Records(plans) /\ client'[c] = IF r.pc = "ticket" THEN s ELSE Idle
      BY <1>1, <1>3 DEF Restart
    <3> HIDE DEF r
    <3>2. s.pc = r.pc
      BY <3>1 DEF Records
    <3> HIDE DEF s
    <3>3. QED BY <3>1, <3>2, IdleRecord
  <2>3. \A c \in Clients : client'[c].pc # "saving" /\ client'[c].pc # "got"
    BY <2>2
  <2>4. QED BY <2>1, <2>3 DEF CopyInv, EffectiveIsCurrent
<1>4. QED BY <1>2, <1>3

\* A daemon without team state runs the base config.
LEMMA ConfigInit == Init => ConfigInv
<1> SUFFICES ASSUME Init PROVE ConfigInv
  OBVIOUS
<1>1. LeaseInv
  BY LeaseInit
<1>2. \A c \in Clients : client[c].pc = "ready"
  BY IdleRecord DEF Init
<1>3. CopyInv
  BY <1>2 DEF CopyInv, Init
<1>4. state.overlay = NoOverlay
  BY DEF Init, NoState
<1>5. EffectiveIsCurrent
  BY <1>4 DEF EffectiveIsCurrent, InForce, HasChanges
<1>6. QED BY <1>1, <1>3, <1>5 DEF ConfigInv

\* Every step keeps the config invariant.
LEMMA ConfigNext == ConfigInv /\ [Next]_vars => ConfigInv'
<1> SUFFICES ASSUME ConfigInv, [Next]_vars PROVE ConfigInv'
  OBVIOUS
<1>1. LeaseInv /\ CopyInv /\ EffectiveIsCurrent /\ LeaseInv'
  BY LeaseNext DEF ConfigInv
<1>2. CASE UNCHANGED vars
  <2>1. /\ client' = client /\ state' = state /\ file' = file /\ holder' = holder
        /\ overtaken' = overtaken /\ excused' = excused
    BY <1>2 DEF vars
  <2>2. CopyInv' /\ EffectiveIsCurrent'
    BY <1>1, <2>1 DEF CopyInv, EffectiveIsCurrent, InForce, HasChanges, Materialize
  <2>3. QED BY <1>1, <2>2 DEF ConfigInv
<1>3. CASE Next
  <2>1. CopyInv' /\ EffectiveIsCurrent'
    BY <1>1, <1>3, SaveKeepsConfig, CommitKeepsConfig, PutKeepsConfig, ReadKeepsConfig,
       LossKeepsConfig DEF Next, HandleApply, HandleFinish
  <2>2. QED BY <1>1, <2>1 DEF ConfigInv
<1>4. QED BY <1>2, <1>3

\* Outside begin_apply the team runs the config its stored overlay stands for, save after
\* the events EffectiveIsCurrent excuses, and the next stored plan mends those.
THEOREM ConfigFollowsState == Spec => []EffectiveIsCurrent
<1>1. ConfigInv => EffectiveIsCurrent
  BY DEF ConfigInv
<1>2. QED BY <1>1, ConfigInit, ConfigNext, PTL DEF Spec

-----------------------------------------------------------------------------
(* What a list of changes does *)

\* A set of numbers has a smallest one.
LEMMA SmallestNumber ==
  ASSUME NEW S \in SUBSET Nat, S # {}
  PROVE  \E x \in S : \A y \in S : x <= y
<1>1. PICK x \in S : \A y \in S : ~(<<y, x>> \in OpToRel(<, Nat))
  BY NatLessThanWellFounded, WFMin, Zenon
<1>2. \A y \in S : ~(y < x)
  BY <1>1 DEF OpToRel
<1>3. QED BY <1>2

\* Induction over a range, with a set in the place of the induction hypothesis.
LEMMA Upwards ==
  ASSUME NEW n \in Nat, NEW S, 0 \in S, \A k \in 0..n : k < n /\ k \in S => k + 1 \in S
  PROVE  \A k \in 0..n : k \in S
<1> DEFINE B == {k \in 0..n : k \notin S}
<1> SUFFICES ASSUME B # {} PROVE FALSE
  OBVIOUS
<1>1. PICK x \in B : \A y \in B : x <= y
  <2>1. B \in SUBSET Nat
    OBVIOUS
  <2> HIDE DEF B
  <2>2. QED BY <2>1, SmallestNumber
<1>2. x # 0 /\ x \in 0..n
  BY <1>1
<1>3. x - 1 \in 0..n /\ x - 1 \notin B
  BY <1>1, <1>2
<1>4. QED BY <1>1, <1>2, <1>3

\* apply_changes goes from overlay to overlay, one change at a time.
LEMMA ChangesSolved ==
  ASSUME NEW ov, NEW chs \in Seq(Changes)
  PROVE  /\ ApplyChanges(ov, chs)[0] = ov
         /\ \A k \in 1..Len(chs) :
              ApplyChanges(ov, chs)[k] = ApplySingleChange(ApplyChanges(ov, chs)[k-1], chs[k])
<1> DEFINE n == Len(chs)
           Solves(F, m) == F = [i \in 0..m |-> IF i = 0 THEN ov ELSE ApplySingleChange(F[i-1], chs[i])]
           S == {m \in 0..n : \E F : Solves(F, m)}
<1>1. n \in Nat
  OBVIOUS
<1>2. 0 \in S
  <2>1. Solves([i \in 0..0 |-> ov], 0)
    OBVIOUS
  <2> HIDE DEF Solves
  <2>2. QED BY <1>1, <2>1
<1>3. ASSUME NEW m \in 0..n, m < n, m \in S PROVE m + 1 \in S
  <2>1. PICK F : Solves(F, m)
    BY <1>3
  <2> DEFINE last == ApplySingleChange(F[m], chs[m+1])
             G == [i \in 0..(m+1) |-> IF i = m + 1 THEN last ELSE F[i]]
             H == [i \in 0..(m+1) |-> IF i = 0 THEN ov ELSE ApplySingleChange(G[i-1], chs[i])]
  <2>2. ASSUME NEW i \in 0..(m+1) PROVE G[i] = H[i]
    <3>1. CASE i = m + 1
      <4>1. m \in 0..(m+1) /\ m # m + 1 /\ (m + 1) - 1 = m /\ m + 1 # 0
        OBVIOUS
      <4>2. G[m] = F[m] /\ G[m+1] = last
        BY <4>1
      <4>3. H[m+1] = ApplySingleChange(G[m], chs[m+1])
        BY <4>1
      <4>4. QED BY <3>1, <4>2, <4>3
    <3>2. CASE i # m + 1 /\ i # 0
      <4>1. i \in 0..m /\ i - 1 \in 0..m /\ i - 1 # m + 1 /\ i - 1 \in 0..(m+1)
        BY <3>2
      <4>2. G[i] = F[i] /\ G[i-1] = F[i-1]
        BY <3>2, <4>1
      <4>3. F[i] = ApplySingleChange(F[i-1], chs[i])
        <5> HIDE DEF G, H, last
        <5>1. QED BY <2>1, <3>2, <4>1
      <4>4. H[i] = ApplySingleChange(G[i-1], chs[i])
        BY <3>2
      <4>5. QED BY <4>2, <4>3, <4>4
    <3>3. CASE i = 0
      <4>1. F[0] = ov
        BY <2>1
      <4>2. QED BY <3>3, <4>1
    <3>4. QED BY <3>1, <3>2, <3>3
  <2>3. G = H
    BY <2>2
  <2>4. Solves(G, m + 1)
    BY <2>3
  <2>5. m + 1 \in 0..n
    BY <1>1, <1>3
  <2> HIDE DEF Solves, G, n
  <2>6. QED BY <2>4, <2>5
<1>4. n \in S
  <2> HIDE DEF S, n
  <2>1. \A k \in 0..n : k \in S
    BY <1>1, <1>2, <1>3, Upwards
  <2>2. QED BY <1>1, <2>1
<1>5. \E F : Solves(F, n)
  BY <1>4
<1> DEFINE A == CHOOSE F : Solves(F, n)
<1>6. Solves(A, n)
  BY <1>5
<1>7. ApplyChanges(ov, chs) = A
  BY DEF ApplyChanges
<1> HIDE DEF A
<1>8. \A i \in 0..n : A[i] = IF i = 0 THEN ov ELSE ApplySingleChange(A[i-1], chs[i])
  BY <1>6
<1> HIDE DEF n
<1>9. A[0] = ov
  BY <1>1, <1>8
<1>10. ASSUME NEW k \in 1..n PROVE A[k] = ApplySingleChange(A[k-1], chs[k])
  <2>1. k \in 0..n /\ k # 0
    BY <1>1
  <2>2. QED BY <1>8, <2>1, Zenon
<1>11. QED BY <1>7, <1>9, <1>10 DEF n

\* Tombstones that make sense, as OverlayIsCoherent asks of the stored overlay.
Coherent(ov) ==
  /\ ov \in Overlay
  /\ ov.removed \intersect (ov.added \union ov.disabled) = {}
  /\ ov.disabled \subseteq Base \union ov.added

\* A change shows in an overlay.
Shows(ov, ch) ==
  IF ch.name = Root THEN Materialize(ov).root = (ch.op = "enable")
  ELSE /\ ch.op = "add" => Present(ov, ch.name)
       /\ ch.op = "remove" => ~Present(ov, ch.name)
       /\ ch.op = "disable" => ~Present(ov, ch.name) \/ ch.name \in ov.added
       /\ ch.op = "enable" /\ ch.name \in Base => Present(ov, ch.name)

\* Two overlays say the same of a name.
Alike(ov, new, n) ==
  IF n = Root THEN ov.root = new.root
  ELSE /\ n \in ov.added <=> n \in new.added
       /\ n \in ov.removed <=> n \in new.removed
       /\ n \in ov.disabled <=> n \in new.disabled

LEMMA AlikeShows ==
  ASSUME NEW ov \in Overlay, NEW new \in Overlay, NEW ch \in Changes, Alike(ov, new, ch.name), Shows(ov, ch)
  PROVE  Shows(new, ch)
<1>1. CASE ch.name = Root
  <2>1. ov.root = new.root
    BY <1>1 DEF Alike
  <2>2. QED BY <1>1, <2>1 DEF Shows, Materialize
<1>2. CASE ch.name # Root
  <2>1. Present(ov, ch.name) <=> Present(new, ch.name)
    BY <1>2 DEF Alike, Present, Materialize
  <2>2. ch.name \in ov.added <=> ch.name \in new.added
    BY <1>2 DEF Alike
  <2>3. QED BY <1>2, <2>1, <2>2, Zenon DEF Shows
<1>3. QED BY <1>1, <1>2

\* One change keeps an overlay coherent, shows in it, and leaves the other names alone.
LEMMA ChangeShows ==
  ASSUME NEW ov, Coherent(ov), NEW ch \in Changes
  PROVE  LET new == ApplySingleChange(ov, ch)
         IN  /\ Coherent(new) /\ Shows(new, ch)
             /\ \A n \in Names \union {Root} : n # ch.name => Alike(ov, new, n)
<1> DEFINE new == ApplySingleChange(ov, ch)
           m == ch.name
<1>1. ov \in Overlay /\ Base \subseteq Names /\ Root \notin Names
  BY TeamAssumption DEF Coherent
<1>2. CASE m = Root
  <2> DEFINE w == IF ch.op = "disable" THEN "off" ELSE "on"
  <2>1. new = [ov EXCEPT !.root = w] /\ ch.op \in {"disable", "enable"}
    BY <1>1, <1>2 DEF ApplySingleChange, Changes
  <2>2. w \in {"on", "off"} /\ (w = "off" <=> ch.op = "disable")
    BY <2>1
  <2> HIDE DEF new, w
  <2>3. /\ new \in Overlay /\ new.added = ov.added /\ new.removed = ov.removed /\ new.disabled = ov.disabled
        /\ new.root = w
    BY <1>1, <2>1, <2>2 DEF Overlay
  <2>4. Coherent(new)
    BY <2>3 DEF Coherent
  <2>5. Shows(new, ch)
    BY <1>2, <2>1, <2>2, <2>3 DEF Shows, Materialize
  <2>6. QED BY <1>2, <2>3, <2>4, <2>5 DEF Alike, new
<1>3. CASE m # Root
  <2>0. new = ApplyEntryChange(ov, ch.op, m) /\ m \in Names /\ ch.op \in {"add", "remove", "disable", "enable"}
    BY <1>1, <1>3 DEF ApplySingleChange, Changes
  <2> HIDE DEF new
  \* What a new overlay of this shape says.
  <2>1. ASSUME NEW a \in {ov.added, ov.added \union {m}, ov.added \ {m}},
               NEW r \in {ov.removed, ov.removed \union {m}, ov.removed \ {m}},
               NEW d \in {ov.disabled, ov.disabled \union {m}, ov.disabled \ {m}},
               new = [ov EXCEPT !.added = a, !.removed = r, !.disabled = d]
        PROVE  /\ new \in Overlay /\ new.added = a /\ new.removed = r /\ new.disabled = d
               /\ \A n \in Names \union {Root} : n # m => Alike(ov, new, n)
    <3>1. a \in SUBSET Names /\ r \in SUBSET Names /\ d \in SUBSET Names
      BY <1>1, <2>0, <2>1 DEF Overlay
    <3>2. new \in Overlay /\ new.added = a /\ new.removed = r /\ new.disabled = d /\ new.root = ov.root
      BY <1>1, <2>1, <3>1 DEF Overlay
    <3>3. QED BY <2>1, <3>2 DEF Alike
  <2>2. CASE ch.op = "add"
    <3>1. new = [ov EXCEPT !.added = ov.added \union {m}, !.removed = ov.removed \ {m}, !.disabled = ov.disabled \ {m}]
      BY <1>1, <2>0, <2>2 DEF ApplyEntryChange, Overlay
    <3>2. /\ new \in Overlay /\ new.added = ov.added \union {m} /\ new.removed = ov.removed \ {m}
          /\ new.disabled = ov.disabled \ {m} /\ \A n \in Names \union {Root} : n # m => Alike(ov, new, n)
      BY <2>1, <3>1
    <3>3. Coherent(new) /\ Shows(new, ch)
      BY <1>3, <2>2, <3>2 DEF Coherent, Shows, Present, Materialize
    <3>4. QED BY <3>2, <3>3 DEF new
  <2>3. CASE ch.op = "remove" /\ Present(ov, m)
    <3>1. new = [ov EXCEPT !.added = ov.added \ {m}, !.removed = ov.removed \union {m}, !.disabled = ov.disabled \ {m}]
      BY <1>1, <2>0, <2>3 DEF ApplyEntryChange, Overlay
    <3>2. /\ new \in Overlay /\ new.added = ov.added \ {m} /\ new.removed = ov.removed \union {m}
          /\ new.disabled = ov.disabled \ {m} /\ \A n \in Names \union {Root} : n # m => Alike(ov, new, n)
      BY <2>1, <3>1
    <3>3. Coherent(new) /\ Shows(new, ch)
      BY <1>3, <2>3, <3>2 DEF Coherent, Shows, Present, Materialize
    <3>4. QED BY <3>2, <3>3 DEF new
  <2>4. CASE ch.op = "disable" /\ Present(ov, m)
    <3>1. new = [ov EXCEPT !.added = ov.added, !.removed = ov.removed \ {m}, !.disabled = ov.disabled \union {m}]
      BY <1>1, <2>0, <2>4 DEF ApplyEntryChange, Overlay
    <3>2. /\ new \in Overlay /\ new.added = ov.added /\ new.removed = ov.removed \ {m}
          /\ new.disabled = ov.disabled \union {m} /\ \A n \in Names \union {Root} : n # m => Alike(ov, new, n)
      BY <2>1, <3>1
    <3>3. m \in Base \union ov.added
      BY <2>4 DEF Present, Materialize
    <3>4. Coherent(new) /\ Shows(new, ch)
      BY <1>3, <2>4, <3>2, <3>3 DEF Coherent, Shows, Present, Materialize
    <3>5. QED BY <3>2, <3>4 DEF new
  <2>5. CASE ch.op = "enable" /\ m \in ov.removed
    <3>1. new = [ov EXCEPT !.added = ov.added, !.removed = ov.removed \ {m}, !.disabled = ov.disabled]
      BY <1>1, <2>0, <2>5 DEF ApplyEntryChange, Overlay
    <3>2. /\ new \in Overlay /\ new.added = ov.added /\ new.removed = ov.removed \ {m}
          /\ new.disabled = ov.disabled /\ \A n \in Names \union {Root} : n # m => Alike(ov, new, n)
      BY <2>1, <3>1
    <3>3. m \notin ov.disabled
      BY <2>5 DEF Coherent
    <3>4. Coherent(new) /\ Shows(new, ch)
      BY <1>3, <2>5, <3>2, <3>3 DEF Coherent, Shows, Present, Materialize
    <3>5. QED BY <3>2, <3>4 DEF new
  <2>6. CASE ch.op = "enable" /\ m \notin ov.removed
    <3>1. new = [ov EXCEPT !.added = ov.added, !.removed = ov.removed, !.disabled = ov.disabled \ {m}]
      BY <1>1, <2>0, <2>6 DEF ApplyEntryChange, Overlay
    <3>2. /\ new \in Overlay /\ new.added = ov.added /\ new.removed = ov.removed
          /\ new.disabled = ov.disabled \ {m} /\ \A n \in Names \union {Root} : n # m => Alike(ov, new, n)
      BY <2>1, <3>1
    <3>3. Coherent(new) /\ Shows(new, ch)
      BY <1>3, <2>6, <3>2 DEF Coherent, Shows, Present, Materialize
    <3>4. QED BY <3>2, <3>3 DEF new
  <2>7. CASE ch.op \in {"remove", "disable"} /\ ~Present(ov, m)
    <3>1. new = ov
      BY <2>0, <2>7 DEF ApplyEntryChange
    <3>2. Shows(new, ch)
      BY <1>3, <2>7, <3>1 DEF Shows
    <3>3. \A n \in Names \union {Root} : Alike(ov, new, n)
      BY <3>1 DEF Alike
    <3>4. QED BY <3>1, <3>2, <3>3 DEF new
  <2>8. QED BY <2>0, <2>2, <2>3, <2>4, <2>5, <2>6, <2>7
<1>4. QED BY <1>2, <1>3

\* After a list of changes the overlay is coherent and shows the last change to every name.
LEMMA ChangesShow ==
  ASSUME NEW ov, Coherent(ov), NEW chs \in Seq(Changes)
  PROVE  LET new == ApplyChanges(ov, chs)[Len(chs)]
         IN  /\ Coherent(new)
             /\ \A i \in DOMAIN chs :
                  (\A j \in DOMAIN chs : j > i => chs[j].name # chs[i].name) => Shows(new, chs[i])
<1> DEFINE n == Len(chs)
           A == ApplyChanges(ov, chs)
           Latest(i, k) == \A j \in (i+1)..k : chs[j].name # chs[i].name
           S == {k \in 0..n : Coherent(A[k]) /\ \A i \in 1..k : Latest(i, k) => Shows(A[k], chs[i])}
<1>1. n \in Nat /\ DOMAIN chs = 1..n /\ \A k \in 1..n : chs[k] \in Changes /\ chs[k].name \in Names \union {Root}
  <2>1. \A ch \in Changes : ch.name \in Names \union {Root}
    BY DEF Changes
  <2>2. QED BY <2>1
<1>2. A[0] = ov /\ \A k \in 1..n : A[k] = ApplySingleChange(A[k-1], chs[k])
  BY ChangesSolved
<1> HIDE DEF n, A
<1>3. 0 \in S
  <2>1. 1..0 = {} /\ 0 \in 0..n
    BY <1>1
  <2>2. QED BY <1>2, <2>1
<1>4. ASSUME NEW k \in 0..n, k < n, k \in S PROVE k + 1 \in S
  <2> DEFINE l == k + 1
  <2>1. l \in 1..n /\ l - 1 = k /\ l \in 0..n /\ chs[l] \in Changes
    BY <1>1, <1>4
  <2>2. Coherent(A[k]) /\ \A i \in 1..k : Latest(i, k) => Shows(A[k], chs[i])
    BY <1>4
  <2>3. A[l] = ApplySingleChange(A[k], chs[l])
    BY <1>2, <2>1
  <2>4. /\ Coherent(A[l]) /\ Shows(A[l], chs[l])
        /\ \A m \in Names \union {Root} : m # chs[l].name => Alike(A[k], A[l], m)
    BY <2>1, <2>2, <2>3, ChangeShows
  <2>5. ASSUME NEW i \in 1..l, Latest(i, l) PROVE Shows(A[l], chs[i])
    <3>1. CASE i = l
      BY <2>4, <3>1
    <3>2. CASE i # l
      <4>1. i \in 1..k /\ i \in 1..n /\ l \in (i+1)..l /\ \A j \in (i+1)..k : j \in (i+1)..l
        BY <1>1, <2>1, <3>2
      <4>2. Shows(A[k], chs[i]) /\ chs[l].name # chs[i].name
        BY <2>2, <2>5, <4>1
      <4>3. Alike(A[k], A[l], chs[i].name) /\ chs[i] \in Changes
        BY <1>1, <2>4, <4>1, <4>2
      <4>4. A[k] \in Overlay /\ A[l] \in Overlay
        BY <2>2, <2>4 DEF Coherent
      <4>5. QED BY <4>2, <4>3, <4>4, AlikeShows
    <3>3. QED BY <3>1, <3>2
  <2>6. QED BY <2>1, <2>4, <2>5
<1>5. n \in S
  <2> HIDE DEF S
  <2>1. \A k \in 0..n : k \in S
    BY <1>1, <1>3, <1>4, Upwards
  <2>2. QED BY <1>1, <2>1
<1>6. ASSUME NEW i \in DOMAIN chs, \A j \in DOMAIN chs : j > i => chs[j].name # chs[i].name
      PROVE  Shows(A[n], chs[i])
  <2>1. i \in 1..n /\ \A j \in (i+1)..n : j \in DOMAIN chs /\ j > i
    BY <1>1, <1>6
  <2>2. QED BY <1>5, <1>6, <2>1
<1>7. QED BY <1>5, <1>6 DEF n, A

-----------------------------------------------------------------------------
(* Overlays that are stored, written or planned *)

OverlaysInv == /\ LeaseInv
               /\ Coherent(state.overlay) /\ Coherent(disk.overlay)
               /\ \A c \in Clients : Coherent(client[c].plan.overlay)

LEMMA NothingIsCoherent == Coherent(NoOverlay) /\ NoState.overlay = NoOverlay /\ Idle.plan = NoState
BY DEF NoOverlay, NoState, Idle, Coherent, Overlay

\* Replacing one client's record by one whose plan is coherent.
LEMMA OnePlan ==
  ASSUME OverlaysInv, NEW c \in Clients, NEW r, client' = [client EXCEPT ![c] = r], Coherent(r.plan.overlay)
  PROVE  \A d \in Clients : Coherent(client'[d].plan.overlay)
<1>1. DOMAIN client = Clients
  BY DEF OverlaysInv, LeaseInv, Shape
<1>2. client'[c] = r /\ \A d \in Clients : d # c => client'[d] = client[d]
  BY <1>1
<1>3. QED BY <1>2 DEF OverlaysInv

\* The steps of a client.
LEMMA ClientKeepsOverlays ==
  ASSUME OverlaysInv, NEW c \in Clients,
         \/ \E chs \in Requests : Plan(c, chs)
         \/ Refuse(c) \/ Save(c) \/ Commit(c)
         \/ FinishTake(c) \/ FinishUnknown(c) \/ FinishGet(c) \/ FinishPut(c)
  PROVE  /\ Coherent(state'.overlay) /\ Coherent(disk'.overlay)
         /\ \A d \in Clients : Coherent(client'[d].plan.overlay)
<1> DEFINE q == client[c]
<1>1. PICK plans : client \in [Clients -> Records(plans)]
  BY DEF OverlaysInv, LeaseInv, Shape
<1>2. q \in Records(plans) /\ Coherent(q.plan.overlay) /\ Coherent(state.overlay) /\ Coherent(disk.overlay)
  BY <1>1 DEF OverlaysInv
<1>3. ASSUME NEW r, client' = [client EXCEPT ![c] = r], r.plan = NoState
      PROVE  \A d \in Clients : Coherent(client'[d].plan.overlay)
  <2>1. Coherent(r.plan.overlay)
    BY <1>3, NothingIsCoherent
  <2>2. QED BY <1>3, <2>1, OnePlan
<1>4. ASSUME NEW pc, NEW x, client' = [client EXCEPT ![c].pc = pc, ![c].plan = x], Coherent(x.overlay)
      PROVE  \A d \in Clients : Coherent(client'[d].plan.overlay)
  <2> DEFINE r == [q EXCEPT !.pc = pc, !.plan = x]
  <2>1. client' = [client EXCEPT ![c] = r]
    BY <1>1, <1>4
  <2>2. r.plan = x
    BY <1>2 DEF Records
  <2> HIDE DEF r
  <2>3. QED BY <1>4, <2>1, <2>2, OnePlan
<1>5. ASSUME NEW chs \in Requests, Plan(c, chs)
      PROVE  /\ state' = state /\ disk' = disk
             /\ \A d \in Clients : Coherent(client'[d].plan.overlay)
  <2> DEFINE new == ApplyChanges(state.overlay, chs)[Len(chs)]
             x == [revision |-> state.revision + 1, overlay |-> new]
  <2>1. client' = [client EXCEPT ![c].pc = "planned", ![c].plan = x] /\ state' = state /\ disk' = disk
    BY <1>5 DEF Plan
  <2>2. Coherent(new)
    BY <1>2, TeamAssumption, ChangesShow
  <2>3. x.overlay = new
    OBVIOUS
  <2> HIDE DEF x, new
  <2>4. QED BY <1>4, <2>1, <2>2, <2>3
<1>6. CASE Refuse(c) \/ FinishUnknown(c)
  BY <1>2, <1>3, <1>6, NothingIsCoherent DEF Refuse, FinishUnknown
<1>7. CASE Save(c)
  <2>1. state' = state /\ disk' = disk
    BY <1>7 DEF Save
  <2>2. CASE client' = [client EXCEPT ![c] = Idle]
    BY <1>2, <1>3, <2>1, <2>2, NothingIsCoherent
  <2>3. CASE client' = [client EXCEPT ![c].pc = "saving"]
    <3> DEFINE r == [q EXCEPT !.pc = "saving"]
    <3>1. client' = [client EXCEPT ![c] = r]
      BY <1>1, <2>3
    <3>2. r.plan = q.plan
      BY <1>2 DEF Records
    <3> HIDE DEF r
    <3>3. QED BY <1>2, <2>1, <3>1, <3>2, OnePlan
  <2>4. QED BY <1>7, <2>2, <2>3 DEF Save
<1>8. CASE Commit(c)
  <2>1. state' = q.plan /\ disk' \in {disk, q.plan}
    BY <1>8 DEF Commit
  <2>2. CASE client' = [client EXCEPT ![c] = Idle]
    BY <1>2, <1>3, <2>1, <2>2, NothingIsCoherent
  <2>3. CASE client' = [client EXCEPT ![c] = [Idle EXCEPT !.pc = "ticket", !.token = tokens']]
    <3> DEFINE r == [Idle EXCEPT !.pc = "ticket", !.token = tokens']
    <3>1. r.plan = NoState
      BY DEF Idle
    <3> HIDE DEF r
    <3>2. client' = [client EXCEPT ![c] = r]
      BY <2>3 DEF r
    <3>3. QED BY <1>2, <1>3, <2>1, <3>1, <3>2
  <2>4. QED BY <1>8, <2>2, <2>3 DEF Commit
<1>9. CASE FinishTake(c)
  <2> DEFINE r == [Idle EXCEPT !.pc = "taken"]
  <2>1. r.plan = NoState
    BY DEF Idle
  <2> HIDE DEF r
  <2>2. client' = [client EXCEPT ![c] = r] /\ state' = state /\ disk' = disk
    BY <1>9 DEF FinishTake, r
  <2>3. QED BY <1>2, <1>3, <2>1, <2>2
<1>10. CASE FinishGet(c)
  BY <1>2, <1>4, <1>10 DEF FinishGet
<1>11. CASE FinishPut(c)
  <2>1. client' = [client EXCEPT ![c] = Idle] /\ state' = q.plan /\ disk' \in {disk, q.plan}
    BY <1>11 DEF FinishPut
  <2>2. QED BY <1>2, <1>3, <2>1, NothingIsCoherent
<1>12. QED BY <1>2, <1>5, <1>6, <1>7, <1>8, <1>9, <1>10, <1>11

\* Expiry and restart plan nothing; a restart reads the file.
LEMMA LossKeepsOverlays ==
  ASSUME OverlaysInv, Expire \/ Restart
  PROVE  /\ Coherent(state'.overlay) /\ Coherent(disk'.overlay)
         /\ \A d \in Clients : Coherent(client'[d].plan.overlay)
<1>1. PICK plans : client \in [Clients -> Records(plans)]
  BY DEF OverlaysInv, LeaseInv, Shape
<1>2. state' \in {state, disk} /\ disk' = disk
  BY DEF Expire, Restart
<1>3. ASSUME NEW d \in Clients PROVE Coherent(client'[d].plan.overlay)
  <2> DEFINE r == client[d]
             b == r.late \/ r.token = lease.token
  <2>1. r \in Records(plans) /\ Coherent(r.plan.overlay)
    BY <1>1 DEF OverlaysInv
  <2>2. client'[d] = [r EXCEPT !.late = b] \/ client'[d] = [r EXCEPT !.late = TRUE] \/ client'[d] = Idle
    BY DEF Expire, Restart
  <2> HIDE DEF r, b
  <2>3. [r EXCEPT !.late = b].plan = r.plan /\ [r EXCEPT !.late = TRUE].plan = r.plan
    BY <2>1 DEF Records
  <2>4. client'[d].plan = r.plan \/ client'[d].plan = NoState
    BY <2>2, <2>3, NothingIsCoherent
  <2>5. QED BY <2>1, <2>4, NothingIsCoherent
<1>4. QED BY <1>2, <1>3 DEF OverlaysInv

LEMMA OverlaysInit == Init => OverlaysInv
BY LeaseInit, NothingIsCoherent DEF Init, OverlaysInv

LEMMA OverlaysNext == OverlaysInv /\ [Next]_vars => OverlaysInv'
<1> SUFFICES ASSUME OverlaysInv, [Next]_vars PROVE OverlaysInv'
  OBVIOUS
<1>1. LeaseInv'
  BY LeaseNext DEF OverlaysInv
<1>2. /\ Coherent(state'.overlay) /\ Coherent(disk'.overlay)
      /\ \A d \in Clients : Coherent(client'[d].plan.overlay)
  <2>1. CASE UNCHANGED vars
    BY <2>1 DEF vars, OverlaysInv
  <2>2. CASE Next
    BY <2>2, ClientKeepsOverlays, LossKeepsOverlays DEF Next, HandleApply, HandleFinish
  <2>3. QED BY <2>1, <2>2
<1>3. QED BY <1>1, <1>2 DEF OverlaysInv, Coherent

\* Whatever lists of changes are asked for, and whichever plans are overtaken, refused or lost
\* with a failed write or a restart, the stored overlay has no contradicting tombstones.
THEOREM OverlaysHold == Spec => []OverlayIsCoherent
<1>1. OverlaysInv => OverlayIsCoherent
  BY DEF OverlaysInv, OverlayIsCoherent, Coherent
<1>2. QED BY <1>1, OverlaysInit, OverlaysNext, PTL DEF Spec

\* Every change of a request, of any length, shows in the plan that begin_apply makes of it, unless a
\* later change of the request is about the same name.
THEOREM ChangesHold == Spec => ChangesTakeEffect
<1>1. ASSUME OverlaysInv, NEW c \in Clients, NEW chs \in Requests, Plan(c, chs)
      PROVE  LET ov == client'[c].plan.overlay
             IN  \A i \in DOMAIN chs :
                   (\A j \in DOMAIN chs : j > i => chs[j].name # chs[i].name) => Shows(ov, chs[i])
  <2> DEFINE new == ApplyChanges(state.overlay, chs)[Len(chs)]
             x == [revision |-> state.revision + 1, overlay |-> new]
             q == client[c]
             r == [q EXCEPT !.pc = "planned", !.plan = x]
  <2>1. \A i \in DOMAIN chs :
          (\A j \in DOMAIN chs : j > i => chs[j].name # chs[i].name) => Shows(new, chs[i])
    BY <1>1, TeamAssumption, ChangesShow DEF OverlaysInv
  <2>2. PICK plans : client \in [Clients -> Records(plans)]
    BY <1>1 DEF OverlaysInv, LeaseInv, Shape
  <2>3. client' = [client EXCEPT ![c].pc = "planned", ![c].plan = x]
    BY <1>1 DEF Plan
  <2>4. x.overlay = new
    OBVIOUS
  <2> HIDE DEF x, new
  <2>5. client'[c] = r /\ q \in Records(plans)
    BY <2>2, <2>3
  <2>6. r.plan = x
    <3> HIDE DEF q
    <3>1. QED BY <2>5 DEF Records
  <2>7. client'[c].plan.overlay = new
    BY <2>4, <2>5, <2>6
  <2>8. QED BY <2>1, <2>7
<1>2. OverlaysInv /\ [Next]_vars =>
        [\A c \in Clients, chs \in Requests : Plan(c, chs) =>
           LET ov == client'[c].plan.overlay
           IN  \A i \in DOMAIN chs :
                 (\A j \in DOMAIN chs : j > i => chs[j].name # chs[i].name) =>
                   IF chs[i].name = Root THEN Materialize(ov).root = (chs[i].op = "enable")
                   ELSE /\ chs[i].op = "add" => Present(ov, chs[i].name)
                        /\ chs[i].op = "remove" => ~Present(ov, chs[i].name)
                        /\ chs[i].op = "disable" => ~Present(ov, chs[i].name) \/ chs[i].name \in ov.added
                        /\ chs[i].op = "enable" /\ chs[i].name \in Base => Present(ov, chs[i].name)]_vars
  BY <1>1, Zenon DEF Shows
<1>3. QED BY <1>2, OverlaysInit, OverlaysNext, PTL DEF Spec, ChangesTakeEffect

-----------------------------------------------------------------------------
(* The text of config.toml *)

\* Min is the smallest of numbers, Max the largest of those in a range.
LEMMA MinIsSmallest ==
  ASSUME NEW S \in SUBSET Nat, S # {}
  PROVE  Min(S) \in S /\ \A y \in S : Min(S) <= y
<1>1. \E x \in S : \A y \in S : x <= y
  BY SmallestNumber
<1>2. QED BY <1>1 DEF Min

LEMMA MaxIsLargest ==
  ASSUME NEW n \in Nat, NEW S \in SUBSET (0..n), S # {}
  PROVE  Max(S) \in S /\ \A y \in S : Max(S) >= y
<1> DEFINE T == {n - x : x \in S}
<1>1. T \in SUBSET Nat /\ T # {}
  <2>1. \A y \in S : n - y \in Nat
    OBVIOUS
  <2>2. QED BY <2>1
<1>2. PICK x \in T : \A y \in T : x <= y
  <2> HIDE DEF T
  <2>1. QED BY <1>1, SmallestNumber
<1>3. PICK m \in S : x = n - m
  BY <1>2
<1>4. ASSUME NEW y \in S PROVE m >= y
  <2>1. n - y \in T
    OBVIOUS
  <2>2. n - m <= n - y
    BY <1>2, <1>3, <2>1
  <2>3. QED BY <2>2
<1>5. QED BY <1>3, <1>4 DEF Max

\* The section of a line is that of the last header above it.
LEMMA SectionAbove ==
  ASSUME NEW S, NEW c \in Seq(S), NEW i \in DOMAIN c
  PROVE  /\ (\A j \in Headers(c) : ~(j < i)) => SectionOf(c, i) = TopLevel
         /\ \A j \in Headers(c) :
              j < i /\ (\A k \in Headers(c) : k < i => k <= j) => SectionOf(c, i) = c[j].name
<1> DEFINE above == {j \in Headers(c) : j < i}
<1>1. Headers(c) \subseteq 1..Len(c) /\ Len(c) \in Nat /\ i \in 1..Len(c)
  BY DEF Headers
<1>2. above \in SUBSET (0..Len(c))
  BY <1>1
<1>3. SectionOf(c, i) = IF above = {} THEN TopLevel ELSE c[Max(above)].name
  BY DEF SectionOf
<1>4. ASSUME \A j \in Headers(c) : ~(j < i) PROVE SectionOf(c, i) = TopLevel
  BY <1>3, <1>4
<1>5. ASSUME NEW j \in Headers(c), j < i, \A k \in Headers(c) : k < i => k <= j
      PROVE  SectionOf(c, i) = c[j].name
  <2>1. j \in above /\ \A k \in above : k <= j
    BY <1>5
  <2>2. above # {}
    BY <2>1
  <2> HIDE DEF above
  <2>3. Max(above) \in above /\ \A y \in above : Max(above) >= y
    BY <1>1, <1>2, <2>2, MaxIsLargest
  <2>4. Max(above) = j
    <3>1. Max(above) <= j /\ Max(above) >= j /\ Max(above) \in 0..Len(c) /\ j \in 0..Len(c)
      BY <1>2, <2>1, <2>3
    <3>2. QED BY <1>1, <3>1
  <2>5. QED BY <1>3, <2>2, <2>4
<1>6. QED BY <1>4, <1>5

\* There is such a header, or none above the line at all.
LEMMA HeaderAbove ==
  ASSUME NEW S, NEW c \in Seq(S), NEW i \in DOMAIN c
  PROVE  \/ \A j \in Headers(c) : ~(j < i)
         \/ \E j \in Headers(c) : j < i /\ \A k \in Headers(c) : k < i => k <= j
<1> DEFINE above == {j \in Headers(c) : j < i}
<1>1. above \in SUBSET (0..Len(c)) /\ Len(c) \in Nat
  BY DEF Headers
<1>2. CASE above = {}
  BY <1>2
<1>3. CASE above # {}
  <2>1. Max(above) \in above /\ \A y \in above : Max(above) >= y
    <3> HIDE DEF above
    <3>1. QED BY <1>1, <1>3, MaxIsLargest
  <2>2. \A y \in above : y <= Max(above)
    BY <1>1, <2>1
  <2>3. QED BY <2>1, <2>2
<1>4. QED BY <1>2, <1>3

\* The lines of c are among those of r in their order, and r has no other header than x,
\* below all of them.
Embeds(c, r, h, x) ==
  /\ h \in [DOMAIN c -> DOMAIN r]
  /\ \A i, j \in DOMAIN c : i < j => h[i] < h[j]
  /\ \A i \in DOMAIN c : r[h[i]].kind = c[i].kind /\ r[h[i]].name = c[i].name
  /\ \A j \in Headers(r) : (\E i \in DOMAIN c : j = h[i]) \/ (j = x /\ \A i \in DOMAIN c : h[i] < x)

LEMMA SectionsKept ==
  ASSUME NEW S, NEW c \in Seq(S), NEW r \in Seq(S), NEW h, NEW x, Embeds(c, r, h, x)
  PROVE  \A i \in DOMAIN c : SectionOf(r, h[i]) = SectionOf(c, i)
<1> SUFFICES ASSUME NEW i \in DOMAIN c PROVE SectionOf(r, h[i]) = SectionOf(c, i)
  OBVIOUS
<1>1. DOMAIN c \subseteq Nat /\ DOMAIN r \subseteq Nat
  OBVIOUS
<1>2. ASSUME NEW m \in DOMAIN c, NEW k \in DOMAIN c, h[m] < h[k] PROVE m < k
  <2>1. m \in Nat /\ k \in Nat /\ h[m] \in Nat /\ h[k] \in Nat
    BY <1>1 DEF Embeds
  <2>2. ~(k < m) /\ k # m
    BY <1>2, <2>1 DEF Embeds
  <2>3. QED BY <2>1, <2>2
<1>3. \A m \in Headers(c) : m \in DOMAIN c /\ h[m] \in Headers(r) /\ r[h[m]].name = c[m].name
  BY DEF Embeds, Headers
<1>4. \A m \in Headers(r) : m < h[i] => \E k \in Headers(c) : m = h[k] /\ k < i
  <2> SUFFICES ASSUME NEW m \in Headers(r), m < h[i] PROVE \E k \in Headers(c) : m = h[k] /\ k < i
    OBVIOUS
  <2>1. m \in DOMAIN r /\ h[i] \in DOMAIN r
    BY DEF Headers, Embeds
  <2>2. ~(h[i] < m)
    BY <1>1, <2>1
  <2>3. PICK k \in DOMAIN c : m = h[k]
    BY <2>2 DEF Embeds
  <2>4. k \in Headers(c) /\ k < i
    BY <1>2, <2>3 DEF Headers, Embeds
  <2>5. QED BY <2>3, <2>4
<1>5. h[i] \in DOMAIN r
  BY DEF Embeds
<1>6. CASE \A j \in Headers(c) : ~(j < i)
  <2>1. \A j \in Headers(r) : ~(j < h[i])
    BY <1>4, <1>6
  <2>2. QED BY <1>5, <1>6, <2>1, SectionAbove
<1>7. ASSUME NEW j \in Headers(c), j < i, \A k \in Headers(c) : k < i => k <= j
      PROVE  SectionOf(r, h[i]) = SectionOf(c, i)
  <2>1. SectionOf(c, i) = c[j].name
    BY <1>7, SectionAbove
  <2>2. h[j] \in Headers(r) /\ h[j] < h[i]
    BY <1>3, <1>7 DEF Embeds
  <2>3. ASSUME NEW k \in Headers(r), k < h[i] PROVE k <= h[j]
    <3>1. PICK m \in Headers(c) : k = h[m] /\ m < i
      BY <1>4, <2>3
    <3>2. m <= j /\ m \in DOMAIN c /\ j \in DOMAIN c
      BY <1>3, <1>7, <3>1
    <3>3. m = j \/ m < j
      BY <1>1, <3>2
    <3>4. h[m] \in Nat /\ h[j] \in Nat
      BY <1>1, <3>2 DEF Embeds
    <3>5. QED BY <3>1, <3>2, <3>3, <3>4 DEF Embeds
  <2>4. SectionOf(r, h[i]) = r[h[j]].name
    BY <1>5, <2>2, <2>3, SectionAbove
  <2>5. QED BY <1>3, <2>1, <2>4
<1>8. QED BY <1>6, <1>7, HeaderAbove

\* r says what c says, but of one entry, which it says once.
SetTo(c, r, s, k, v) ==
  /\ Toml(r)
  /\ Said(r) = {e \in Said(c) : <<e[1], e[2]>> # <<s, k>>} \union {<<s, k, v>>}

\* What an insertion or a replacement at line p has to be for that.
LEMMA OneEntry ==
  ASSUME NEW S, NEW c \in Seq(S), NEW r \in Seq(S), NEW h, NEW x, NEW s, NEW k, NEW v, NEW p \in DOMAIN r,
         Toml(c), Embeds(c, r, h, x), r[p] = Entry(k, v), SectionOf(r, p) = s,
         \A i \in DOMAIN c : h[i] # p => r[h[i]] = c[i],
         \A j \in KeyLines(r) : j = p \/ \E i \in DOMAIN c : j = h[i],
         \A i \in KeyLines(c) : SectionOf(c, i) = s /\ c[i].name = k => h[i] = p,
         \A j \in DOMAIN r : /\ r[j].kind \in {"header", "key", "blank"}
                             /\ r[j].kind = "header" => r[j].name # TopLevel,
         x \in Headers(r) => \A i \in Headers(c) : c[i].name # r[x].name
  PROVE  SetTo(c, r, s, k, v)
<1>1. DOMAIN c \subseteq Nat /\ DOMAIN r \subseteq Nat
  OBVIOUS
<1>2. \A i \in DOMAIN c : h[i] \in DOMAIN r /\ SectionOf(r, h[i]) = SectionOf(c, i)
  <2>1. \A i \in DOMAIN c : h[i] \in DOMAIN r
    BY DEF Embeds
  <2>2. \A i \in DOMAIN c : SectionOf(r, h[i]) = SectionOf(c, i)
    BY ONLY c \in Seq(S), r \in Seq(S), Embeds(c, r, h, x), SectionsKept
  <2>3. QED BY <2>1, <2>2
<1>3. ASSUME NEW i \in DOMAIN c, NEW j \in DOMAIN c, h[i] = h[j] PROVE i = j
  <2>1. i \in Nat /\ j \in Nat /\ h[i] \in Nat /\ h[j] \in Nat
    BY <1>1, <1>2
  <2>2. ~(i < j) /\ ~(j < i)
    BY <1>3, <2>1 DEF Embeds
  <2>3. QED BY <2>1, <2>2
<1>4. p \in KeyLines(r) /\ r[p].name = k /\ r[p].value = v
  BY DEF KeyLines, Entry
<1>5. ASSUME NEW j \in KeyLines(r), j # p
      PROVE  \E i \in KeyLines(c) : j = h[i] /\ r[j] = c[i] /\ SectionOf(r, j) = SectionOf(c, i)
                                    /\ ~(SectionOf(c, i) = s /\ c[i].name = k)
  <2>1. PICK i \in DOMAIN c : j = h[i]
    BY <1>5
  <2>2. r[j] = c[i] /\ SectionOf(r, j) = SectionOf(c, i)
    BY <1>2, <1>5, <2>1
  <2>3. i \in KeyLines(c)
    BY <2>2 DEF KeyLines
  <2>4. QED BY <1>5, <2>1, <2>2, <2>3
<1>6. ASSUME NEW i \in KeyLines(c), ~(SectionOf(c, i) = s /\ c[i].name = k)
      PROVE  h[i] \in KeyLines(r) /\ h[i] # p /\ r[h[i]] = c[i] /\ SectionOf(r, h[i]) = SectionOf(c, i)
  <2>1. i \in DOMAIN c /\ c[i].kind = "key"
    BY DEF KeyLines
  <2>2. r[h[i]].name = c[i].name /\ SectionOf(r, h[i]) = SectionOf(c, i)
    BY <1>2, <2>1 DEF Embeds
  <2>3. h[i] # p
    BY <1>4, <1>6, <2>2
  <2>4. QED BY <1>2, <2>1, <2>2, <2>3 DEF KeyLines
<1>7. Said(r) \subseteq {e \in Said(c) : <<e[1], e[2]>> # <<s, k>>} \union {<<s, k, v>>}
  <2> SUFFICES ASSUME NEW j \in KeyLines(r)
               PROVE  <<SectionOf(r, j), r[j].name, r[j].value>>
                        \in {e \in Said(c) : <<e[1], e[2]>> # <<s, k>>} \union {<<s, k, v>>}
    BY DEF Said
  <2>1. CASE j = p
    BY <1>4, <2>1
  <2>2. CASE j # p
    <3>1. PICK i \in KeyLines(c) : /\ r[j] = c[i] /\ SectionOf(r, j) = SectionOf(c, i)
                                   /\ ~(SectionOf(c, i) = s /\ c[i].name = k)
      BY <1>5, <2>2
    <3> DEFINE e == <<SectionOf(c, i), c[i].name, c[i].value>>
    <3>2. e \in Said(c)
      BY DEF Said
    <3>3. e[1] = SectionOf(c, i) /\ e[2] = c[i].name
      OBVIOUS
    <3>4. <<e[1], e[2]>> # <<s, k>>
      BY <3>1, <3>3
    <3>5. e = <<SectionOf(r, j), r[j].name, r[j].value>>
      BY <3>1
    <3> HIDE DEF e
    <3>6. QED BY <3>2, <3>4, <3>5
  <2>3. QED BY <2>1, <2>2
<1>8. {e \in Said(c) : <<e[1], e[2]>> # <<s, k>>} \union {<<s, k, v>>} \subseteq Said(r)
  <2>1. <<s, k, v>> \in Said(r)
    BY <1>4 DEF Said
  <2>2. ASSUME NEW e \in Said(c), <<e[1], e[2]>> # <<s, k>> PROVE e \in Said(r)
    <3>1. PICK i \in KeyLines(c) : e = <<SectionOf(c, i), c[i].name, c[i].value>>
      BY DEF Said
    <3>2. ~(SectionOf(c, i) = s /\ c[i].name = k)
      BY <2>2, <3>1
    <3>3. h[i] \in KeyLines(r) /\ r[h[i]] = c[i] /\ SectionOf(r, h[i]) = SectionOf(c, i)
      BY <1>6, <3>2
    <3>4. QED BY <3>1, <3>3 DEF Said
  <2>3. QED BY <2>1, <2>2
<1>9. ASSUME NEW i \in Headers(r), NEW j \in Headers(r), r[i].name = r[j].name PROVE i = j
  <2>1. ASSUME NEW m \in Headers(r), m # x PROVE \E n \in Headers(c) : m = h[n] /\ r[m].name = c[n].name
    <3>1. PICK n \in DOMAIN c : m = h[n]
      BY <2>1 DEF Embeds
    <3>2. n \in Headers(c) /\ r[m].name = c[n].name
      BY <3>1 DEF Embeds, Headers
    <3>3. QED BY <3>1, <3>2
  <2>2. CASE i = x /\ j = x
    BY <2>2
  <2>3. CASE i = x /\ j # x
    BY <1>9, <2>1, <2>3
  <2>4. CASE i # x /\ j = x
    BY <1>9, <2>1, <2>4
  <2>5. CASE i # x /\ j # x
    <3>1. PICK m \in Headers(c) : i = h[m] /\ r[i].name = c[m].name
      BY <2>1, <2>5
    <3>2. PICK n \in Headers(c) : j = h[n] /\ r[j].name = c[n].name
      BY <2>1, <2>5
    <3>3. m = n
      BY <1>9, <3>1, <3>2 DEF Toml, WellFormed
    <3>4. QED BY <3>1, <3>2, <3>3
  <2>6. QED BY <2>2, <2>3, <2>4, <2>5
<1>10. ASSUME NEW i \in KeyLines(r), NEW j \in KeyLines(r), SectionOf(r, i) = SectionOf(r, j), r[i].name = r[j].name
       PROVE  i = j
  <2>1. CASE i = p /\ j = p
    BY <2>1
  <2>2. CASE i = p /\ j # p
    BY <1>4, <1>5, <1>10, <2>2
  <2>3. CASE i # p /\ j = p
    BY <1>4, <1>5, <1>10, <2>3
  <2>4. CASE i # p /\ j # p
    <3>1. PICK m \in KeyLines(c) : i = h[m] /\ r[i] = c[m] /\ SectionOf(r, i) = SectionOf(c, m)
      BY <1>5, <2>4
    <3>2. PICK n \in KeyLines(c) : j = h[n] /\ r[j] = c[n] /\ SectionOf(r, j) = SectionOf(c, n)
      BY <1>5, <2>4
    <3>3. m = n
      BY <1>10, <3>1, <3>2 DEF Toml, WellFormed
    <3>4. QED BY <3>1, <3>2, <3>3
  <2>5. QED BY <2>1, <2>2, <2>3, <2>4
<1>11. WellFormed(r)
  BY <1>9, <1>10 DEF WellFormed
<1>12. r \in Seq(ToSet(r))
  BY DEF ToSet
<1>13. QED BY <1>7, <1>8, <1>11, <1>12 DEF SetTo, Toml

LEMMA EntryReplaced ==
  ASSUME NEW c, Toml(c), NEW k, NEW v, NEW q \in KeyLines(c), c[q].name = k
  PROVE  SetTo(c, [c EXCEPT ![q] = Entry(k, v)], SectionOf(c, q), k, v)
<1> DEFINE S == ToSet(c) \union {Entry(k, v)}
           r == [c EXCEPT ![q] = Entry(k, v)]
           h == [i \in DOMAIN c |-> i]
           s == SectionOf(c, q)
<1>1. c \in Seq(S)
  BY DEF Toml
<1>2. q \in DOMAIN c /\ c[q].kind = "key"
  BY DEF KeyLines
<1>3. Entry(k, v).kind = "key" /\ Entry(k, v).name = k
  BY DEF Entry
<1>4. r \in Seq(S) /\ DOMAIN r = DOMAIN c /\ r[q] = Entry(k, v) /\ \A i \in DOMAIN c : i # q => r[i] = c[i]
  BY <1>1, <1>2
<1>5. \A i \in DOMAIN c : h[i] = i
  OBVIOUS
<1>6. h \in [DOMAIN c -> DOMAIN r]
  BY <1>4
<1> HIDE DEF S, r, h, s
<1>7. Embeds(c, r, h, 0)
  BY <1>2, <1>3, <1>4, <1>5, <1>6 DEF Embeds, Headers
<1>8. SectionOf(r, q) = s
  <2>1. SectionOf(r, h[q]) = SectionOf(c, q)
    BY <1>1, <1>2, <1>4, <1>7, SectionsKept
  <2>2. QED BY <1>2, <1>5, <2>1 DEF s
<1>9. \A j \in KeyLines(r) : j = q \/ \E i \in DOMAIN c : j = h[i]
  BY <1>4, <1>5 DEF KeyLines
<1>10. \A i \in KeyLines(c) : SectionOf(c, i) = s /\ c[i].name = k => h[i] = q
  BY <1>5 DEF s, Toml, WellFormed, KeyLines
<1>11. \A j \in DOMAIN r : /\ r[j].kind \in {"header", "key", "blank"}
                           /\ r[j].kind = "header" => r[j].name # TopLevel
  BY <1>3, <1>4 DEF Toml
<1>12. 0 \notin Headers(r)
  BY <1>1, <1>4 DEF Headers
<1>13. \A i \in DOMAIN c : h[i] # q => r[h[i]] = c[i]
  BY <1>4, <1>5
<1>14. q \in DOMAIN r
  BY <1>2, <1>4
<1>15. SetTo(c, r, s, k, v)
  BY ONLY <1>1, <1>4, <1>7, <1>8, <1>9, <1>10, <1>11, <1>12, <1>13, <1>14, Toml(c), OneEntry
<1>16. QED BY <1>15 DEF r, s

\* A new entry, the line p of the file made.
Inserted(c, r, p, e) ==
  /\ Len(r) = Len(c) + 1 /\ r[p] = e
  /\ \A i \in 1..Len(c) : (i < p => r[i] = c[i]) /\ (i >= p => r[i + 1] = c[i])

LEMMA EntryInserted ==
  ASSUME NEW c, Toml(c), NEW k, NEW v, NEW s, NEW p \in 1..(Len(c) + 1),
         NEW r \in Seq(ToSet(c) \union {Entry(k, v)}), Inserted(c, r, p, Entry(k, v)),
         \/ s = TopLevel /\ \A j \in Headers(c) : ~(j < p)
         \/ \E j \in Headers(c) : j < p /\ c[j].name = s /\ \A m \in Headers(c) : m < p => m <= j,
         \A i \in KeyLines(c) : ~(SectionOf(c, i) = s /\ c[i].name = k)
  PROVE  SetTo(c, r, s, k, v)
<1> DEFINE S == ToSet(c) \union {Entry(k, v)}
           h == [i \in DOMAIN c |-> IF i < p THEN i ELSE i + 1]
<1>1. c \in Seq(S) /\ r \in Seq(S) /\ Len(c) \in Nat /\ DOMAIN c = 1..Len(c) /\ DOMAIN r = 1..(Len(c) + 1)
  BY DEF Toml, Inserted
<1>2. Entry(k, v).kind = "key" /\ Entry(k, v).name = k
  BY DEF Entry
<1>3. p \in DOMAIN r /\ p \in Nat
  BY <1>1
<1>4. ASSUME NEW i \in DOMAIN c
      PROVE  h[i] \in DOMAIN r /\ h[i] # p /\ r[h[i]] = c[i] /\ (i < p => h[i] = i) /\ (i >= p => h[i] = i + 1)
  BY <1>1, <1>3 DEF Inserted
<1>5. ASSUME NEW j \in DOMAIN r, j # p PROVE \E i \in DOMAIN c : j = h[i]
  <2>1. CASE j < p
    <3>1. j \in DOMAIN c
      BY <1>1, <2>1
    <3>2. QED BY <2>1, <3>1, <1>4
  <2>2. CASE j > p
    <3>1. j - 1 \in DOMAIN c /\ j - 1 >= p /\ (j - 1) + 1 = j
      BY <1>1, <2>2
    <3>2. h[j - 1] = j
      BY <3>1, <1>4
    <3>3. QED BY <3>1, <3>2
  <2>3. QED BY <1>1, <1>3, <1>5, <2>1, <2>2
<1>6. h \in [DOMAIN c -> DOMAIN r]
  <2>1. \A i \in DOMAIN c : h[i] \in DOMAIN r
    BY <1>4
  <2>2. QED BY <2>1
<1>7. \A i, j \in DOMAIN c : i < j => h[i] < h[j]
  BY <1>1, <1>3
<1> HIDE DEF S, h
<1>8. Embeds(c, r, h, 0)
  <2>1. \A i \in DOMAIN c : r[h[i]].kind = c[i].kind /\ r[h[i]].name = c[i].name
    BY <1>4
  <2>2. \A j \in Headers(r) : j # p /\ j \in DOMAIN r
    BY <1>2 DEF Headers, Inserted
  <2>3. QED BY <1>5, <1>6, <1>7, <2>1, <2>2 DEF Embeds
<1>9. \A j \in Headers(c) : j \in DOMAIN c /\ (j < p => j \in Headers(r) /\ r[j] = c[j])
  BY <1>1, <1>4 DEF Headers
<1>10. \A j \in Headers(r) : j < p => j \in Headers(c)
  BY <1>1, <1>3 DEF Headers, Inserted
<1>11. SectionOf(r, p) = s
  <2>1. CASE s = TopLevel /\ \A j \in Headers(c) : ~(j < p)
    <3>1. \A j \in Headers(r) : ~(j < p)
      BY <1>10, <2>1
    <3>2. QED BY <1>1, <1>3, <2>1, <3>1, SectionAbove
  <2>2. ASSUME NEW j \in Headers(c), j < p, c[j].name = s, \A m \in Headers(c) : m < p => m <= j
        PROVE  SectionOf(r, p) = s
    <3>1. j \in Headers(r) /\ r[j].name = s /\ \A m \in Headers(r) : m < p => m <= j
      BY <1>9, <1>10, <2>2
    <3>2. QED BY <1>1, <1>3, <2>2, <3>1, SectionAbove
  <2>3. QED BY <2>1, <2>2
<1>12. \A j \in KeyLines(r) : j = p \/ \E i \in DOMAIN c : j = h[i]
  BY <1>5 DEF KeyLines
<1>13. \A j \in DOMAIN r : /\ r[j].kind \in {"header", "key", "blank"}
                           /\ r[j].kind = "header" => r[j].name # TopLevel
  <2> SUFFICES ASSUME NEW j \in DOMAIN r
               PROVE  r[j].kind \in {"header", "key", "blank"} /\ (r[j].kind = "header" => r[j].name # TopLevel)
    OBVIOUS
  <2>1. CASE j = p
    BY <1>2, <2>1 DEF Inserted
  <2>2. CASE j # p
    <3>1. PICK i \in DOMAIN c : j = h[i]
      BY <1>5, <2>2
    <3>2. r[j] = c[i]
      BY <1>4, <3>1
    <3>3. QED BY <3>2 DEF Toml
  <2>3. QED BY <2>1, <2>2
<1>14. 0 \notin Headers(r)
  BY <1>1 DEF Headers
<1>15. \A i \in DOMAIN c : h[i] # p => r[h[i]] = c[i]
  BY <1>4
<1>16. r[p] = Entry(k, v)
  BY DEF Inserted
<1>17. \A i \in KeyLines(c) : SectionOf(c, i) = s /\ c[i].name = k => h[i] = p
  OBVIOUS
<1>18. QED
  BY ONLY <1>1, <1>3, <1>8, <1>11, <1>12, <1>13, <1>14, <1>15, <1>16, <1>17, Toml(c), OneEntry

\* A new section below the file, for a new entry.
LEMMA SectionAdded ==
  ASSUME NEW c, Toml(c), NEW k, NEW v, NEW s, s # TopLevel, \A j \in Headers(c) : c[j].name # s
  PROVE  SetTo(c, (IF c # <<>> THEN Append(c, Blank) ELSE c) \o <<Header(s), Entry(k, v)>>, s, k, v)
<1> DEFINE S == ToSet(c) \union {Entry(k, v), Blank, Header(s)}
           spaced == IF c # <<>> THEN Append(c, Blank) ELSE c
           r == spaced \o <<Header(s), Entry(k, v)>>
           h == [i \in DOMAIN c |-> i]
           x == Len(spaced) + 1
           p == Len(spaced) + 2
<1>1. c \in Seq(S) /\ Len(c) \in Nat /\ DOMAIN c = 1..Len(c)
  BY DEF Toml
<1>2. /\ Entry(k, v).kind = "key" /\ Header(s).kind = "header" /\ Header(s).name = s /\ Blank.kind = "blank"
  BY DEF Entry, Header, Blank
<1>3. /\ spaced \in Seq(S) /\ Len(spaced) \in Len(c)..(Len(c) + 1)
      /\ \A i \in 1..Len(spaced) : IF i \in DOMAIN c THEN spaced[i] = c[i] ELSE spaced[i] = Blank
  <2>1. CASE c # <<>>
    <3>1. spaced = Append(c, Blank)
      BY <2>1
    <3>2. Blank \in S
      OBVIOUS
    <3> HIDE DEF S, spaced
    <3>3. QED BY <1>1, <3>1, <3>2
  <2>2. CASE c = <<>>
    <3>1. spaced = c
      BY <2>2
    <3> HIDE DEF S, spaced
    <3>2. QED BY <1>1, <3>1
  <2>3. QED BY <2>1, <2>2
<1>4. Header(s) \in S /\ Entry(k, v) \in S
  OBVIOUS
<1>5. \A i \in DOMAIN c : h[i] = i
  OBVIOUS
<1> HIDE DEF S, spaced
<1>6. /\ r \in Seq(S) /\ Len(r) = p /\ DOMAIN r = 1..p /\ r[x] = Header(s) /\ r[p] = Entry(k, v)
      /\ \A i \in 1..Len(spaced) : r[i] = spaced[i]
  <2>1. <<Header(s), Entry(k, v)>> \in Seq(S) /\ Len(<<Header(s), Entry(k, v)>>) = 2
    BY <1>4
  <2>2. Len(spaced) \in Nat
    BY <1>3
  <2>3. QED BY <1>3, <2>1, <2>2
<1>7. /\ x \in DOMAIN r /\ p \in DOMAIN r /\ x \in Nat /\ p = x + 1 /\ x > Len(c)
      /\ \A i \in DOMAIN r : i = x \/ i = p \/ i \in 1..Len(spaced)
  BY <1>1, <1>3, <1>6
<1>8. \A i \in DOMAIN c : i \in DOMAIN r /\ i \in 1..Len(spaced) /\ r[i] = c[i] /\ i # p /\ i < x
  BY <1>1, <1>3, <1>6, <1>7
<1>9. h \in [DOMAIN c -> DOMAIN r]
  BY <1>8
<1> HIDE DEF r, h, x, p
<1>10. \A j \in DOMAIN r : j = x \/ j = p \/ (j \in DOMAIN c /\ r[j] = c[j]) \/ r[j] = Blank
  BY <1>3, <1>6, <1>7, <1>8
<1>11. Embeds(c, r, h, x)
  <2>1. \A j \in Headers(r) : j = x \/ j \in DOMAIN c
    BY <1>2, <1>6, <1>10 DEF Headers
  <2>2. \A j \in Headers(r) : (\E i \in DOMAIN c : j = h[i]) \/ (j = x /\ \A i \in DOMAIN c : h[i] < x)
    BY <1>5, <1>8, <2>1
  <2>3. QED BY <1>5, <1>8, <1>9, <2>2 DEF Embeds
<1>12. SectionOf(r, p) = s
  <2>1. x \in Headers(r) /\ r[x].name = s
    BY <1>2, <1>6, <1>7 DEF Headers
  <2>2. \A m \in Headers(r) : m < p => m <= x
    BY <1>6, <1>7 DEF Headers
  <2>3. x < p
    BY <1>7
  <2>4. QED BY <1>6, <1>7, <2>1, <2>2, <2>3, SectionAbove
<1>13. \A j \in KeyLines(r) : j = p \/ \E i \in DOMAIN c : j = h[i]
  BY <1>2, <1>5, <1>6, <1>10 DEF KeyLines
<1>14. ASSUME NEW i \in KeyLines(c) PROVE ~(SectionOf(c, i) = s)
  <2>1. i \in DOMAIN c
    BY DEF KeyLines
  <2>2. SectionOf(c, i) = TopLevel \/ \E j \in Headers(c) : SectionOf(c, i) = c[j].name
    BY ONLY <1>1, <2>1, HeaderAbove, SectionAbove
  <2>3. QED BY <2>2
<1>15. \A j \in DOMAIN r : /\ r[j].kind \in {"header", "key", "blank"}
                           /\ r[j].kind = "header" => r[j].name # TopLevel
  BY <1>2, <1>6, <1>10 DEF Toml
<1>16. x \in Headers(r) => \A i \in Headers(c) : c[i].name # r[x].name
  BY <1>2, <1>6
<1>17. \A i \in DOMAIN c : h[i] # p => r[h[i]] = c[i]
  BY <1>5, <1>8
<1>18. \A i \in KeyLines(c) : SectionOf(c, i) = s /\ c[i].name = k => h[i] = p
  BY <1>14
<1>19. c \in Seq(S) /\ r \in Seq(S) /\ p \in DOMAIN r /\ r[p] = Entry(k, v)
  BY <1>1, <1>6, <1>7
<1>20. SetTo(c, r, s, k, v)
  BY ONLY <1>19, <1>11, <1>12, <1>13, <1>15, <1>16, <1>17, <1>18, Toml(c), OneEntry
<1>21. QED BY <1>20 DEF r, spaced

\* What split_lines loses says nothing.
LEMMA SplitSays ==
  ASSUME NEW text, Toml(text)
  PROVE  Toml(Split(text)) /\ Said(Split(text)) = Said(text)
<1> DEFINE S == ToSet(text)
           full == {i \in DOMAIN text : text[i] # Blank} \union {0}
           n == Max(full)
           c == SubSeq(text, 1, n)
           h == [i \in DOMAIN c |-> i]
<1>1. text \in Seq(S) /\ Len(text) \in Nat /\ DOMAIN text = 1..Len(text)
  BY DEF Toml
<1>2. full \in SUBSET (0..Len(text)) /\ full # {}
  BY <1>1
<1>3. n \in 0..Len(text) /\ \A i \in DOMAIN text : i > n => text[i] = Blank
  <2> HIDE DEF full
  <2>1. n \in full /\ \A y \in full : n >= y
    BY <1>1, <1>2, MaxIsLargest
  <2>2. n \in 0..Len(text)
    BY <1>2, <2>1
  <2>3. \A i \in DOMAIN text : i > n => i \notin full
    BY <1>1, <2>1, <2>2
  <2>4. QED BY <2>2, <2>3 DEF full
<1> HIDE DEF S, n, full
<1>4. c \in Seq(S) /\ DOMAIN c = 1..n /\ \A i \in 1..n : c[i] = text[i]
  BY <1>1, <1>3
<1>5. \A i \in DOMAIN c : h[i] = i /\ i \in DOMAIN text
  BY <1>1, <1>3, <1>4
<1>6. h \in [DOMAIN c -> DOMAIN text]
  BY <1>5
<1> HIDE DEF c, h
<1>7. \A i \in DOMAIN text : i \in DOMAIN c \/ text[i].kind = "blank"
  <2>1. Blank.kind = "blank"
    BY DEF Blank
  <2>2. QED BY <1>1, <1>3, <1>4, <2>1
<1>8. Headers(text) = Headers(c) /\ KeyLines(text) = KeyLines(c)
  BY <1>4, <1>5, <1>7 DEF Headers, KeyLines
<1>9. Embeds(c, text, h, 0)
  BY <1>4, <1>5, <1>6, <1>8 DEF Embeds, Headers
<1>10. \A i \in DOMAIN c : SectionOf(text, i) = SectionOf(c, i)
  <2>1. \A i \in DOMAIN c : SectionOf(text, h[i]) = SectionOf(c, i)
    <3>1. text \in Seq(S) /\ c \in Seq(S)
      BY <1>1, <1>4
    <3>2. QED BY ONLY <1>9, <3>1, SectionsKept
  <2>2. QED BY <1>5, <2>1
<1>11. \A i \in KeyLines(c) : i \in DOMAIN c /\ text[i] = c[i] /\ SectionOf(text, i) = SectionOf(c, i)
  BY <1>4, <1>10 DEF KeyLines
<1>12. Said(c) = Said(text)
  BY <1>8, <1>11 DEF Said
<1>13. \A i \in Headers(c) : text[i] = c[i]
  BY <1>4 DEF Headers
<1>14. WellFormed(c)
  BY <1>8, <1>11, <1>13 DEF WellFormed, Toml
<1>15. c \in Seq(ToSet(c))
  <2>1. c \in Seq(S)
    BY <1>4
  <2>2. QED BY ONLY <2>1 DEF ToSet
<1>16. Toml(c)
  BY <1>4, <1>5, <1>14, <1>15 DEF Toml
<1>17. QED BY <1>12, <1>16 DEF Split, c, n, full

LEMMA InsertAtInserts ==
  ASSUME NEW S, NEW c \in Seq(S), NEW e, NEW p \in 1..(Len(c) + 1)
  PROVE  InsertAt(c, p, e) \in Seq(S \union {e}) /\ Inserted(c, InsertAt(c, p, e), p, e)
<1> DEFINE u == SubSeq(c, 1, p - 1)
           w == SubSeq(c, p, Len(c))
           T == S \union {e}
<1>1. Len(c) \in Nat /\ p \in Nat /\ c \in Seq(T) /\ \A i \in 1..Len(c) : c[i] \in T
  OBVIOUS
<1>2. u \in Seq(T) /\ Len(u) = p - 1 /\ \A i \in 1..(p - 1) : u[i] = c[i]
  <2> HIDE DEF T
  <2>1. QED BY <1>1
<1>3. w \in Seq(T) /\ Len(w) = Len(c) - p + 1 /\ \A i \in 1..(Len(c) - p + 1) : w[i] = c[i + p - 1]
  <2> HIDE DEF T
  <2>1. CASE p = Len(c) + 1
    <3>1. w = <<>>
      BY <1>1, <2>1
    <3>2. QED BY <1>1, <2>1, <3>1
  <2>2. CASE p <= Len(c)
    BY <1>1, <2>2
  <2>3. QED BY <1>1, <2>1, <2>2
<1>4. <<e>> \in Seq(T)
  OBVIOUS
<1> DEFINE d == u \o <<e>>
<1> HIDE DEF u, w, T
<1>5. d \in Seq(T) /\ Len(d) = p /\ d[p] = e /\ \A i \in 1..(p - 1) : d[i] = u[i]
  BY <1>1, <1>2, <1>4
<1> HIDE DEF d
<1> DEFINE r == d \o w
<1>6. /\ r \in Seq(T) /\ Len(r) = Len(c) + 1
      /\ \A i \in 1..p : r[i] = d[i]
      /\ \A i \in 1..(Len(c) - p + 1) : r[p + i] = w[i]
  BY <1>1, <1>3, <1>5
<1>7. InsertAt(c, p, e) = r
  BY DEF InsertAt, r, d, u, w
<1> HIDE DEF r
<1>8. ASSUME NEW i \in 1..Len(c) PROVE (i < p => r[i] = c[i]) /\ (i >= p => r[i + 1] = c[i])
  <2>1. ASSUME i < p PROVE r[i] = c[i]
    <3>1. i \in 1..p /\ i \in 1..(p - 1)
      BY <1>1, <2>1
    <3>2. QED BY <1>2, <1>5, <1>6, <3>1
  <2>2. ASSUME i >= p PROVE r[i + 1] = c[i]
    <3> DEFINE m == i - p + 1
    <3>1. m \in 1..(Len(c) - p + 1) /\ p + m = i + 1 /\ m + p - 1 = i
      BY <1>1, <2>2
    <3> HIDE DEF m
    <3>2. QED BY <1>3, <1>6, <3>1
  <2>3. QED BY <2>1, <2>2
<1>9. r[p] = e
  BY <1>1, <1>5, <1>6
<1>10. QED BY <1>6, <1>7, <1>8, <1>9 DEF Inserted, T

LEMMA AppendInserts ==
  ASSUME NEW S, NEW c \in Seq(S), NEW e
  PROVE  Append(c, e) \in Seq(S \union {e}) /\ Inserted(c, Append(c, e), Len(c) + 1, e)
<1>1. Len(c) \in Nat /\ c \in Seq(S \union {e}) /\ e \in S \union {e}
  OBVIOUS
<1>2. QED BY <1>1 DEF Inserted

\* A line below a header is in a section with a name.
LEMMA NamedBelow ==
  ASSUME NEW c, Toml(c), NEW i \in DOMAIN c
  PROVE  \/ SectionOf(c, i) = TopLevel /\ \A j \in Headers(c) : ~(j < i)
         \/ SectionOf(c, i) # TopLevel /\ \E j \in Headers(c) : /\ j < i /\ SectionOf(c, i) = c[j].name
                                                                /\ \A m \in Headers(c) : m < i => m <= j
<1>1. c \in Seq(ToSet(c)) /\ \A j \in Headers(c) : c[j].name # TopLevel
  BY DEF Toml, Headers
<1>2. CASE \A j \in Headers(c) : ~(j < i)
  BY <1>1, <1>2, SectionAbove
<1>3. ASSUME NEW j \in Headers(c), j < i, \A m \in Headers(c) : m < i => m <= j
      PROVE  SectionOf(c, i) # TopLevel /\ SectionOf(c, i) = c[j].name
  BY <1>1, <1>3, SectionAbove
<1>4. QED BY <1>1, <1>2, <1>3, HeaderAbove

LEMMA UpsertTopSays ==
  ASSUME NEW text, Toml(text), NEW k, NEW v
  PROVE  SetTo(text, UpsertTop(text, k, v), TopLevel, k, v)
<1> DEFINE c     == Split(text)
           stops == {i \in DOMAIN c : c[i].kind = "header" \/ (c[i].kind = "key" /\ c[i].name = k)}
           first == Min(stops)
           r     == UpsertTop(text, k, v)
<1>1. Toml(c) /\ Said(c) = Said(text)
  BY SplitSays
<1>2. c \in Seq(ToSet(c)) /\ DOMAIN c = 1..Len(c) /\ Len(c) \in Nat
  BY <1>1 DEF Toml
<1>3. r = CASE stops = {} -> Append(c, Entry(k, v))
            [] stops # {} /\ first \in Headers(c) -> InsertAt(c, first, Entry(k, v))
            [] OTHER -> [c EXCEPT ![first] = Entry(k, v)]
  BY DEF UpsertTop
<1>4. stops \in SUBSET Nat /\ stops \subseteq DOMAIN c
  BY <1>2
<1>5. ASSUME stops # {} PROVE first \in stops /\ \A y \in stops : first <= y
  <2> HIDE DEF stops
  <2>1. QED BY <1>4, <1>5, MinIsSmallest
<1>6. Headers(c) \subseteq stops /\ \A i \in KeyLines(c) : i \in DOMAIN c /\ (c[i].name = k => i \in stops)
  BY DEF Headers, KeyLines
<1>7. \A i \in stops : i \in Headers(c) \/ (i \in KeyLines(c) /\ c[i].name = k)
  BY DEF Headers, KeyLines
<1> HIDE DEF c, stops, first, r
<1>8. ASSUME stops # {} PROVE first \in 1..Len(c) /\ \A j \in Headers(c) : ~(j < first)
  <2>1. first \in stops /\ first \in DOMAIN c
    BY <1>4, <1>5, <1>8
  <2>2. first \in 1..Len(c)
    BY <1>2, <2>1
  <2>3. ASSUME NEW j \in Headers(c) PROVE ~(j < first)
    <3>1. j \in stops /\ j \in Nat /\ first \in Nat
      BY <1>4, <1>6, <2>1
    <3>2. first <= j
      BY <1>5, <1>8, <3>1
    <3>3. QED BY <3>1, <3>2
  <2>4. QED BY <2>2, <2>3
<1>9. SetTo(c, r, TopLevel, k, v)
  <2>1. CASE stops = {}
    <3>1. r = Append(c, Entry(k, v))
      BY <1>3, <2>1
    <3>2. r \in Seq(ToSet(c) \union {Entry(k, v)}) /\ Inserted(c, r, Len(c) + 1, Entry(k, v))
      BY <1>2, <3>1, AppendInserts
    <3>3. Len(c) + 1 \in 1..(Len(c) + 1) /\ \A j \in Headers(c) : ~(j < Len(c) + 1)
      BY <1>2, <1>6, <2>1
    <3>4. \A i \in KeyLines(c) : ~(SectionOf(c, i) = TopLevel /\ c[i].name = k)
      BY <1>6, <2>1
    <3>5. QED BY ONLY <1>1, <3>2, <3>3, <3>4, EntryInserted
  <2>2. CASE stops # {} /\ first \in Headers(c)
    <3>1. r = InsertAt(c, first, Entry(k, v))
      BY <1>3, <2>2
    <3>2. first \in 1..(Len(c) + 1)
      BY <1>2, <1>8, <2>2
    <3>3. r \in Seq(ToSet(c) \union {Entry(k, v)}) /\ Inserted(c, r, first, Entry(k, v))
      BY <1>2, <3>1, <3>2, InsertAtInserts
    <3>4. \A j \in Headers(c) : ~(j < first)
      BY <1>8, <2>2
    <3>5. ASSUME NEW i \in KeyLines(c), SectionOf(c, i) = TopLevel, c[i].name = k PROVE FALSE
      <4>1. i \in DOMAIN c /\ first <= i /\ ~(first < i)
        BY <1>1, <1>5, <1>6, <2>2, <3>5, NamedBelow
      <4>2. i = first
        BY <1>2, <3>2, <4>1
      <4>3. c[i].kind = "key" /\ c[i].kind = "header"
        BY <2>2, <4>2 DEF KeyLines, Headers
      <4>4. QED BY <4>3
    <3>6. \A i \in KeyLines(c) : ~(SectionOf(c, i) = TopLevel /\ c[i].name = k)
      BY <3>5
    <3>7. QED BY ONLY <1>1, <3>2, <3>3, <3>4, <3>6, EntryInserted
  <2>3. CASE stops # {} /\ first \notin Headers(c)
    <3>1. r = [c EXCEPT ![first] = Entry(k, v)]
      BY <1>3, <2>3
    <3>2. first \in KeyLines(c) /\ c[first].name = k /\ first \in DOMAIN c
      BY <1>4, <1>5, <1>7, <2>3
    <3>3. \A j \in Headers(c) : ~(j < first)
      BY <1>8, <2>3
    <3>4. SectionOf(c, first) = TopLevel
      BY <1>1, <3>2, <3>3, NamedBelow
    <3>5. QED BY ONLY <1>1, <3>1, <3>2, <3>4, EntryReplaced
  <2>4. QED BY <2>1, <2>2, <2>3
<1>10. QED BY <1>1, <1>9 DEF SetTo, r

LEMMA UpsertInSays ==
  ASSUME NEW text, Toml(text), NEW s, s # TopLevel, NEW k, NEW v
  PROVE  SetTo(text, UpsertIn(text, s, k, v), s, k, v)
<1> DEFINE c      == Split(text)
           starts == {i \in Headers(c) : c[i].name = s}
           start  == Min(starts)
           end    == SectionEnd(c, start)
           same   == {i \in (start + 1)..(end - 1) : c[i].kind = "key" /\ c[i].name = k}
           spaced == IF c # <<>> THEN Append(c, Blank) ELSE c
           r      == UpsertIn(text, s, k, v)
<1>1. Toml(c) /\ Said(c) = Said(text)
  BY SplitSays
<1>2. c \in Seq(ToSet(c)) /\ DOMAIN c = 1..Len(c) /\ Len(c) \in Nat /\ Headers(c) \subseteq 1..Len(c)
  BY <1>1 DEF Toml, Headers
<1>3. r = CASE starts = {} -> spaced \o <<Header(s), Entry(k, v)>>
            [] starts # {} /\ same # {} -> [c EXCEPT ![Min(same)] = Entry(k, v)]
            [] OTHER -> InsertAt(c, end, Entry(k, v))
  BY DEF UpsertIn
<1>4. SetTo(c, r, s, k, v)
  <2>1. CASE starts = {}
    <3>1. r = spaced \o <<Header(s), Entry(k, v)>>
      BY <1>3, <2>1
    <3>2. \A j \in Headers(c) : c[j].name # s
      BY <2>1
    <3> HIDE DEF c, r
    <3>3. QED BY <1>1, <3>1, <3>2, SectionAdded
  <2>2. CASE starts # {}
    <3> DEFINE ends == {i \in Headers(c) : i > start} \union {Len(c) + 1}
    <3>1. start \in Headers(c) /\ c[start].name = s /\ start \in 1..Len(c)
      <4>1. starts \in SUBSET Nat
        BY <1>2
      <4>2. start \in starts
        <5> HIDE DEF starts
        <5>1. QED BY <2>2, <4>1, MinIsSmallest
      <4>3. start \in Headers(c) /\ c[start].name = s
        <5> HIDE DEF start
        <5>1. QED BY <4>2
      <4>4. QED BY <1>2, <4>3
    <3>2. end = Min(ends)
      BY DEF SectionEnd
    <3> HIDE DEF c, r, start, end
    <3>3. \A j \in Headers(c) : c[j].name = s => j = start
      BY <1>1, <3>1 DEF Toml, WellFormed
    <3>4. end \in ends /\ \A y \in ends : end <= y
      <4>1. ends \in SUBSET Nat /\ ends # {}
        BY <1>2
      <4> HIDE DEF ends
      <4>2. QED BY <3>2, <4>1, MinIsSmallest
    <3>5. end \in 1..(Len(c) + 1) /\ start < end
      BY <1>2, <3>1, <3>4
    <3>6. ASSUME NEW m \in Headers(c), m < end PROVE m <= start
      <4>1. m \in 1..Len(c) /\ ~(m \in ends)
        <5>1. m \in 1..Len(c)
          BY <1>2
        <5>2. ~(end <= m)
          BY <1>2, <3>5, <3>6, <5>1
        <5>3. QED BY <3>4, <5>1, <5>2
      <4>2. ~(m > start)
        BY <4>1
      <4>3. QED BY <1>2, <3>1, <4>1, <4>2
    <3>7. ASSUME NEW i \in KeyLines(c), SectionOf(c, i) = s, c[i].name = k PROVE i \in same
      <4>1. i \in 1..Len(c) /\ c[i].kind = "key"
        BY <1>2 DEF KeyLines
      <4>2. PICK j \in Headers(c) : j < i /\ c[j].name = s /\ \A m \in Headers(c) : m < i => m <= j
        BY <1>1, <1>2, <3>7, <4>1, NamedBelow
      <4>3. j = start
        BY <3>3, <4>2
      <4>4. i < end
        <5>1. CASE end = Len(c) + 1
          BY <1>2, <4>1, <5>1
        <5>2. CASE end \in Headers(c)
          <6>1. ~(end < i)
            <7>1. ~(end <= start)
              BY <1>2, <3>1, <3>5
            <7>2. QED BY <4>2, <4>3, <5>2, <7>1
          <6>2. end # i
            BY <4>1, <5>2 DEF Headers
          <6>3. QED BY <1>2, <3>5, <4>1, <6>1, <6>2
        <5>3. QED BY <3>4, <5>1, <5>2
      <4>5. i \in (start + 1)..(end - 1)
        BY <1>2, <3>1, <3>5, <4>1, <4>2, <4>3, <4>4
      <4>6. QED BY <3>7, <4>1, <4>5
    <3>8. CASE same # {}
      <4> DEFINE q == Min(same)
      <4>1. same \in SUBSET Nat
        BY <1>2, <3>1, <3>5
      <4>2. q \in same
        <5> HIDE DEF same
        <5>1. QED BY <3>8, <4>1, MinIsSmallest
      <4>3. r = [c EXCEPT ![q] = Entry(k, v)]
        <5> HIDE DEF same
        <5>1. QED BY <1>3, <2>2, <3>8
      <4> HIDE DEF q
      <4>4. q \in (start + 1)..(end - 1) /\ c[q].kind = "key" /\ c[q].name = k
        BY <4>2
      <4>5. q \in 1..Len(c) /\ start < q /\ q < end
        BY <1>2, <3>1, <3>5, <4>4
      <4>6. q \in KeyLines(c) /\ q \in DOMAIN c
        BY <1>2, <4>4, <4>5 DEF KeyLines
      <4>7. \A m \in Headers(c) : m < q => m <= start
        <5>1. \A m \in Headers(c) : m < q => m < end
          BY <1>2, <3>5, <4>5
        <5>2. QED BY <3>6, <5>1
      <4>8. SectionOf(c, q) = s
        <5>1. c \in Seq(ToSet(c))
          BY <1>2
        <5>2. SectionOf(c, q) = c[start].name
          BY ONLY <3>1, <4>5, <4>6, <4>7, <5>1, SectionAbove
        <5>3. QED BY <3>1, <5>2
      <4>9. QED BY ONLY <1>1, <4>3, <4>4, <4>6, <4>8, EntryReplaced
    <3>9. CASE same = {}
      <4>1. r = InsertAt(c, end, Entry(k, v))
        <5> HIDE DEF same
        <5>1. QED BY <1>3, <2>2, <3>9
      <4>2. r \in Seq(ToSet(c) \union {Entry(k, v)}) /\ Inserted(c, r, end, Entry(k, v))
        BY <1>2, <3>5, <4>1, InsertAtInserts
      <4>3. \A i \in KeyLines(c) : ~(SectionOf(c, i) = s /\ c[i].name = k)
        <5> HIDE DEF same
        <5>1. QED BY <3>7, <3>9
      <4>4. \E j \in Headers(c) : j < end /\ c[j].name = s /\ \A m \in Headers(c) : m < end => m <= j
        BY <3>1, <3>5, <3>6
      <4>5. end \in 1..(Len(c) + 1)
        BY <3>5
      <4>6. QED BY ONLY <1>1, <4>2, <4>3, <4>4, <4>5, EntryInserted
    <3>10. QED BY <3>8, <3>9
  <2>3. QED BY <2>1, <2>2
<1>5. QED BY <1>1, <1>4 DEF SetTo, r

\* What ax sets is a section and a key each.
AxKeyNames == {"model_reasoning_effort", "model_provider", "model", "web_search", "name", "base_url", "env_key", "wire_api",
               "trust_level", "command", "args"}
AxKeyPairs == {TopLevel, "provider", "project", "mcp"} \X AxKeyNames

LEMMA AxKeysArePairs ==
  ASSUME NEW x, NEW v
  PROVE  AxKeys(x, v) \in Seq(AxKeyPairs)
<1> DEFINE With(what, keys) == IF what \subseteq Given(x, v) THEN keys ELSE <<>>
           k1 == << <<TopLevel, "model_reasoning_effort">> >>
           k2 == With({"id"}, << <<TopLevel, "model_provider">> >>)
           k3 == With({"id", "model"}, << <<TopLevel, "model">> >>)
           k4 == With({"id", "url"}, << <<"provider", "name">>, <<"provider", "base_url">> >>)
           k5 == With({"id", "url", "env"}, << <<"provider", "env_key">> >>)
           k6 == With({"id", "url"}, << <<"provider", "wire_api">>, <<TopLevel, "web_search">> >>)
           k7 == << <<"project", "trust_level">>, <<"mcp", "command">>, <<"mcp", "args">> >>
<1> DEFINE Pair(s, k) == <<s, k>> \in AxKeyPairs
<1>0. /\ Pair(TopLevel, "model_reasoning_effort") /\ Pair(TopLevel, "model_provider") /\ Pair(TopLevel, "model")
      /\ Pair("provider", "name") /\ Pair("provider", "base_url") /\ Pair("provider", "env_key")
      /\ Pair("provider", "wire_api") /\ Pair(TopLevel, "web_search")
      /\ Pair("project", "trust_level") /\ Pair("mcp", "command") /\ Pair("mcp", "args")
  <2>1. ASSUME NEW s \in {TopLevel, "provider", "project", "mcp"}, NEW k \in AxKeyNames
        PROVE  Pair(s, k)
    BY DEF AxKeyPairs
  <2> HIDE DEF Pair
  <2>2. QED BY <2>1 DEF AxKeyNames
<1>1. /\ \A e \in AxKeyPairs : <<e>> \in Seq(AxKeyPairs)
      /\ \A e, f \in AxKeyPairs : <<e, f>> \in Seq(AxKeyPairs)
      /\ \A e, f, g \in AxKeyPairs : <<e, f, g>> \in Seq(AxKeyPairs)
      /\ <<>> \in Seq(AxKeyPairs)
  OBVIOUS
<1>2. k1 \in Seq(AxKeyPairs) /\ k7 \in Seq(AxKeyPairs)
  BY <1>0, <1>1, Zenon
<1>3. /\ k2 \in Seq(AxKeyPairs) /\ k3 \in Seq(AxKeyPairs) /\ k4 \in Seq(AxKeyPairs)
      /\ k5 \in Seq(AxKeyPairs) /\ k6 \in Seq(AxKeyPairs)
  BY <1>0, <1>1, Zenon
<1>4. AxKeys(x, v) = k1 \o k2 \o k3 \o k4 \o k5 \o k6 \o k7
  BY DEF AxKeys
<1> HIDE DEF k1, k2, k3, k4, k5, k6, k7
<1>5. QED BY <1>2, <1>3, <1>4

\* prepare_codex_home goes from text to text, one entry at a time.
LEMMA RenderedSolved ==
  ASSUME NEW x, NEW v
  PROVE  \E A : /\ A[0] = x.base /\ Rendered(x, v) = A[Len(AxKeys(x, v))]
                /\ \A k \in 1..Len(AxKeys(x, v)) : A[k] = Upsert(A[k-1], AxKeys(x, v)[k], v)
<1> DEFINE keys == AxKeys(x, v)
           n == Len(keys)
           Solves(F, m) == F = [i \in 0..m |-> IF i = 0 THEN x.base ELSE Upsert(F[i-1], keys[i], v)]
           S == {m \in 0..n : \E F : Solves(F, m)}
<1>1. n \in Nat
  BY AxKeysArePairs
<1>2. 0 \in S
  <2>1. Solves([i \in 0..0 |-> x.base], 0)
    OBVIOUS
  <2> HIDE DEF Solves
  <2>2. QED BY <1>1, <2>1
<1>3. ASSUME NEW m \in 0..n, m < n, m \in S PROVE m + 1 \in S
  <2>1. PICK F : Solves(F, m)
    BY <1>3
  <2> DEFINE last == Upsert(F[m], keys[m+1], v)
             G == [i \in 0..(m+1) |-> IF i = m + 1 THEN last ELSE F[i]]
             H == [i \in 0..(m+1) |-> IF i = 0 THEN x.base ELSE Upsert(G[i-1], keys[i], v)]
  <2>2. ASSUME NEW i \in 0..(m+1) PROVE G[i] = H[i]
    <3>1. CASE i = m + 1
      <4>1. m \in 0..(m+1) /\ m # m + 1 /\ (m + 1) - 1 = m /\ m + 1 # 0
        OBVIOUS
      <4>2. G[m] = F[m] /\ G[m+1] = last
        BY <4>1
      <4>3. H[m+1] = Upsert(G[m], keys[m+1], v)
        BY <4>1
      <4>4. QED BY <3>1, <4>2, <4>3
    <3>2. CASE i # m + 1 /\ i # 0
      <4>1. i \in 0..m /\ i - 1 \in 0..m /\ i - 1 # m + 1 /\ i - 1 \in 0..(m+1)
        BY <3>2
      <4>2. G[i] = F[i] /\ G[i-1] = F[i-1]
        BY <3>2, <4>1
      <4>3. F[i] = Upsert(F[i-1], keys[i], v)
        <5> HIDE DEF G, H, last
        <5>1. QED BY <2>1, <3>2, <4>1
      <4>4. H[i] = Upsert(G[i-1], keys[i], v)
        BY <3>2
      <4>5. QED BY <4>2, <4>3, <4>4
    <3>3. CASE i = 0
      <4>1. F[0] = x.base
        BY <2>1
      <4>2. QED BY <3>3, <4>1
    <3>4. QED BY <3>1, <3>2, <3>3
  <2>3. G = H
    BY <2>2
  <2>4. Solves(G, m + 1)
    BY <2>3
  <2>5. m + 1 \in 0..n
    BY <1>1, <1>3
  <2> HIDE DEF Solves, G, n
  <2>6. QED BY <2>4, <2>5
<1>4. n \in S
  <2> HIDE DEF S, n
  <2>1. \A k \in 0..n : k \in S
    BY <1>1, <1>2, <1>3, Upwards
  <2>2. QED BY <1>1, <2>1
<1>5. \E F : Solves(F, n)
  BY <1>4
<1> DEFINE A == CHOOSE F : Solves(F, n)
<1>6. Solves(A, n)
  BY <1>5
<1>7. Rendered(x, v) = A[n]
  BY DEF Rendered
<1> HIDE DEF A
<1>8. \A i \in 0..n : A[i] = IF i = 0 THEN x.base ELSE Upsert(A[i-1], keys[i], v)
  BY <1>6
<1> HIDE DEF n
<1>9. A[0] = x.base
  BY <1>1, <1>8
<1>10. ASSUME NEW k \in 1..n PROVE A[k] = Upsert(A[k-1], keys[k], v)
  <2>1. k \in 0..n /\ k # 0
    BY <1>1
  <2>2. QED BY <1>8, <2>1, Zenon
<1>11. QED BY <1>7, <1>9, <1>10 DEF n

\* What is said when the first n entries of ax are set.
SaidWith(base, keys, v, n) ==
  LET ax == {keys[i] : i \in 1..n}
  IN  {e \in Said(base) : <<e[1], e[2]>> \notin ax} \union {<<k[1], k[2], v>> : k \in ax}

LEMMA RenderedSays ==
  ASSUME NEW at, Toml(at.base), NEW v
  PROVE  /\ Toml(Rendered(at, v))
         /\ Said(Rendered(at, v)) = {e \in Said(at.base) : <<e[1], e[2]>> \notin ToSet(AxKeys(at, v))}
                                     \union {<<k[1], k[2], v>> : k \in ToSet(AxKeys(at, v))}
<1> DEFINE keys == AxKeys(at, v)
           base == at.base
           N == Len(keys)
<1>1. N \in Nat /\ DOMAIN keys = 1..N /\ \A i \in 1..N : keys[i] = <<keys[i][1], keys[i][2]>>
  <2>1. keys \in Seq(AxKeyPairs) /\ \A e \in AxKeyPairs : e = <<e[1], e[2]>>
    BY AxKeysArePairs DEF AxKeyPairs
  <2> HIDE DEF keys
  <2>2. QED BY <2>1
<1>2. PICK A : /\ A[0] = base /\ Rendered(at, v) = A[N]
               /\ \A k \in 1..N : A[k] = Upsert(A[k-1], keys[k], v)
  BY RenderedSolved
<1> HIDE DEF N, keys, base
<1> DEFINE S == {n \in 0..N : Toml(A[n]) /\ Said(A[n]) = SaidWith(base, keys, v, n)}
<1>3. 0 \in S
  <2>1. SaidWith(base, keys, v, 0) = Said(base)
    BY DEF SaidWith
  <2>2. QED BY <1>1, <1>2, <2>1 DEF base
<1>4. ASSUME NEW n \in 0..N, n < N, n \in S PROVE n + 1 \in S
  <2> DEFINE m == n + 1
             s == keys[m][1]
             k == keys[m][2]
  <2>1. m \in 1..N /\ m - 1 = n
    BY <1>1, <1>4
  <2> HIDE DEF m
  <2>2. keys[m] = <<s, k>>
    BY <1>1, <2>1
  <2>3. A[m] = Upsert(A[n], keys[m], v)
    BY <1>2, <2>1
  <2>4. Toml(A[n]) /\ Said(A[n]) = SaidWith(base, keys, v, n)
    BY <1>4
  <2>5. A[m] = IF s = TopLevel THEN UpsertTop(A[n], k, v) ELSE UpsertIn(A[n], s, k, v)
    BY <2>3 DEF Upsert
  <2> HIDE DEF s, k
  <2>6. SetTo(A[n], A[m], s, k, v)
    BY <2>4, <2>5, UpsertTopSays, UpsertInSays
  <2>7. Toml(A[m]) /\ Said(A[m]) = {e \in SaidWith(base, keys, v, n) : <<e[1], e[2]>> # <<s, k>>} \union {<<s, k, v>>}
    BY <2>4, <2>6 DEF SetTo
  <2>8. {e \in SaidWith(base, keys, v, n) : <<e[1], e[2]>> # <<s, k>>} \union {<<s, k, v>>} = SaidWith(base, keys, v, m)
    <3> DEFINE old == {keys[i] : i \in 1..n}
               new == {keys[i] : i \in 1..m}
    <3>1. new = old \union {<<s, k>>}
      <4>1. 1..m = (1..n) \union {m}
        BY <1>1, <2>1
      <4>2. QED BY <2>2, <4>1
    <3>2. \A x \in old : x = <<x[1], x[2]>>
      <4>1. \A i \in 1..n : i \in 1..N
        BY <1>1, <1>4
      <4>2. QED BY <1>1, <4>1
    <3>3. /\ SaidWith(base, keys, v, n) = {e \in Said(base) : <<e[1], e[2]>> \notin old} \union {<<x[1], x[2], v>> : x \in old}
          /\ SaidWith(base, keys, v, m) = {e \in Said(base) : <<e[1], e[2]>> \notin new} \union {<<x[1], x[2], v>> : x \in new}
      BY DEF SaidWith
    <3> HIDE DEF old, new
    <3>4. {<<x[1], x[2], v>> : x \in new} = {<<x[1], x[2], v>> : x \in old} \union {<<s, k, v>>}
      <4> DEFINE both == {<<x[1], x[2], v>> : x \in old \union {<<s, k>>}}
      <4>1. <<s, k>>[1] = s /\ <<s, k>>[2] = k
        OBVIOUS
      <4>2. \A e \in both : e \in {<<x[1], x[2], v>> : x \in old} \union {<<s, k, v>>}
        BY <4>1
      <4>3. <<s, k, v>> \in both
        <5>1. <<<<s, k>>[1], <<s, k>>[2], v>> \in both
          OBVIOUS
        <5>2. <<<<s, k>>[1], <<s, k>>[2], v>> = <<s, k, v>>
          BY <4>1
        <5> HIDE DEF both
        <5>3. QED BY <5>1, <5>2
      <4>4. {<<x[1], x[2], v>> : x \in old} \subseteq both
        OBVIOUS
      <4>5. both = {<<x[1], x[2], v>> : x \in new}
        BY <3>1
      <4> HIDE DEF both
      <4>6. QED BY <4>2, <4>3, <4>4, <4>5
    <3>5. \A x \in old : <<x[1], x[2], v>>[1] = x[1] /\ <<x[1], x[2], v>>[2] = x[2]
      OBVIOUS
    <3> DEFINE L == {e \in SaidWith(base, keys, v, n) : <<e[1], e[2]>> # <<s, k>>} \union {<<s, k, v>>}
    <3>6. ASSUME NEW e \in L PROVE e \in SaidWith(base, keys, v, m)
      <4>1. CASE e = <<s, k, v>>
        BY <3>3, <3>4, <4>1
      <4>2. CASE e \in Said(base) /\ <<e[1], e[2]>> \notin old /\ <<e[1], e[2]>> # <<s, k>>
        BY <3>1, <3>3, <4>2
      <4>3. CASE e \in {<<x[1], x[2], v>> : x \in old}
        BY <3>3, <3>4, <4>3
      <4>4. QED BY <3>3, <4>1, <4>2, <4>3
    <3>7. ASSUME NEW e \in SaidWith(base, keys, v, m) PROVE e \in L
      <4>1. CASE e \in Said(base) /\ <<e[1], e[2]>> \notin new
        BY <3>1, <3>3, <4>1
      <4>2. CASE e = <<s, k, v>>
        BY <4>2
      <4>3. ASSUME NEW x \in old, e = <<x[1], x[2], v>> PROVE e \in L
        <5>1. <<e[1], e[2]>> = x /\ e[1] = x[1] /\ e[2] = x[2]
          BY <3>2, <3>5, <4>3
        <5>2. CASE x = <<s, k>>
          <6>1. x[1] = s /\ x[2] = k
            BY <5>2
          <6>2. QED BY <4>3, <6>1
        <5>3. CASE x # <<s, k>>
          <6>1. e \in SaidWith(base, keys, v, n)
            BY <3>3, <4>3
          <6>2. QED BY <5>1, <5>3, <6>1
        <5>4. QED BY <5>2, <5>3
      <4>4. QED BY <3>3, <3>4, <4>1, <4>2, <4>3
    <3>8. L = SaidWith(base, keys, v, m)
      <4> HIDE DEF L
      <4>1. QED BY <3>6, <3>7
    <3>9. QED BY <3>8
  <2>9. m \in S
    <3>1. m \in 0..N
      BY <1>1, <2>1
    <3>2. Toml(A[m]) /\ Said(A[m]) = SaidWith(base, keys, v, m)
      BY <2>7, <2>8
    <3>3. QED BY <3>1, <3>2
  <2>10. QED BY <2>9 DEF m
<1>5. N \in S
  <2> HIDE DEF S
  <2>1. \A n \in 0..N : n \in S
    BY <1>1, <1>3, <1>4, Upwards
  <2>2. QED BY <1>1, <2>1
<1>6. ToSet(keys) = {keys[i] : i \in 1..N}
  BY <1>1 DEF ToSet
<1>7. QED BY <1>2, <1>5, <1>6 DEF SaidWith, keys, base

-----------------------------------------------------------------------------
(* Launches *)

Texts == {NoText, TornText, MixedText} \union {Rendered(x, n) : x \in Worlds, n \in (1..2) \union {Default}}
Auths == {"none", "link", "file"}
ShownStates == {"none", "busy", "idle"}
LaunchJobs == [at : {"off", "begun", "made", "clear", "linked", "writing", "ready", "spawn", "running"},
               id : Nat, fresh : BOOLEAN, extra : BOOLEAN, resume : BOOLEAN, talk : Nat, alone : BOOLEAN,
               link : BOOLEAN, late : SUBSET ShownStates, text : Texts, file : Nat, auth : Auths]
Homes == [made : BOOLEAN, auth : Auths, config : Texts, file : Nat]
Talks == Seq([id : Nat, by : Workspaces])
TalksDirs == {TalksDir(w) : w \in Workspaces}

LaunchTypes ==
  /\ world \in Worlds /\ settings \in 1..2 /\ launches \in Nat
  /\ homes \in [Workspaces -> Homes]
  /\ jobs \in [Workspaces -> [Roles -> LaunchJobs]]
  /\ talks \in [TalksDirs -> Talks]
  /\ title \in [Workspaces -> ShownStates]
  /\ forgotten \in [Workspaces -> Nat]

Own(w) == \A v \in Workspaces : TalksDir(v) = TalksDir(w) => v = w

\* A text that ax wrote, with settings that the project has or had, or the default's.
GoodText(text) == \E n \in (1..settings) \union {Default} : text = Rendered(world, n)

\* How far the preparation of the home h got, for the job j.
HomeFits(j, h) ==
  /\ j.at \in {"made", "clear", "linked", "writing", "ready", "spawn"} => h.made
  /\ j.at = "clear" => h.auth = "none"
  /\ j.at \in {"linked", "writing", "ready", "spawn"} => (world.auth => h.auth = "link")
  /\ j.at = "writing" => GoodText(j.text) /\ j.file = h.file /\ h.config = TornText
  /\ j.at \in {"ready", "spawn"} => GoodText(h.config)
  /\ j.at = "running" => GoodText(j.text) /\ (world.auth => j.auth = "link")

\* A job of a workspace, beside another, and what its window shows.
JobFits(w, j, other, h) ==
  /\ j.alone /\ j.at # "off" => other.at = "off"
  /\ j.alone /\ ~Claude(w) => HomeFits(j, h)
  /\ j.resume => Claude(w)
ShownFits(j, shown) == j.at = "running" <=> shown = "busy"

\* The conversations kept for a workspace with a directory of its own.
TalksFit(w, j, past, kept) ==
  /\ j.id <= launches /\ past <= launches
  /\ j.at # "off" => past <= j.id
  /\ Own(w) => /\ \A i \in 1..Len(kept) : kept[i].id >= past
               /\ j.at = "running" => j.talk >= past

Fits(w) ==
  /\ JobFits(w, jobs[w].agent, jobs[w].artifacts, homes[w])
  /\ ShownFits(jobs[w].agent, title[w])
  /\ TalksFit(w, jobs[w].agent, forgotten[w], talks[TalksDir(w)])

LaunchInv == LaunchTypes /\ \A w \in Workspaces : Fits(w)

\* What StartsPrepared asks of a text.
PreparedText(text) ==
  /\ text \notin {NoText, TornText, MixedText}
  /\ WellFormed(text)
  /\ \E v \in (1..settings) \union {Default} :
       LET ax == ToSet(AxKeys(world, v))
       IN  Said(text) = {e \in Said(world.base) : <<e[1], e[2]>> \notin ax} \union {<<k[1], k[2], v>> : k \in ax}

\* The text that ax writes is that.
LEMMA GoodTextSays ==
  ASSUME LaunchTypes, NEW text, GoodText(text)
  PROVE  PreparedText(text)
<1>1. PICK n \in (1..settings) \union {Default} : text = Rendered(world, n)
  BY DEF GoodText
<1>2. Toml(world.base)
  BY AgentLaunchAssumption DEF LaunchTypes
<1>3. /\ Toml(text)
      /\ Said(text) = {e \in Said(world.base) : <<e[1], e[2]>> \notin ToSet(AxKeys(world, n))}
                        \union {<<k[1], k[2], n>> : k \in ToSet(AxKeys(world, n))}
  BY <1>1, <1>2, RenderedSays
<1>4. ~Toml(TornText) /\ ~Toml(NoText) /\ ~Toml(MixedText)
  BY DEF Toml, TornText, NoText, MixedText
<1>5. WellFormed(text)
  BY <1>3 DEF Toml
<1>6. QED BY <1>3, <1>4, <1>5 DEF PreparedText

LEMMA LaunchInvEnough ==
  ASSUME LaunchInv PROVE LaunchesAreSafe
<1>1. StartsPrepared
  <2> SUFFICES ASSUME NEW w \in Workspaces, Runs(w), ~Claude(w), Job(w, "agent").alone
               PROVE  PreparedText(Job(w, "agent").text) /\ (world.auth => Job(w, "agent").auth = "link")
    BY DEF StartsPrepared, PreparedText
  <2>1. GoodText(Job(w, "agent").text) /\ (world.auth => Job(w, "agent").auth = "link")
    BY DEF LaunchInv, Fits, JobFits, HomeFits, Job, Runs
  <2>2. LaunchTypes
    BY DEF LaunchInv
  <2>3. QED BY <2>1, <2>2, GoodTextSays
<1>2. NothingFromBefore
  BY DEF LaunchInv, Fits, TalksFit, NothingFromBefore, Runs, Job, Own
<1>3. ShownAsItIs
  BY DEF LaunchInv, Fits, ShownFits, ShownAsItIs, Runs, Job
<1>4. QED BY <1>1, <1>2, <1>3 DEF LaunchesAreSafe

LEMMA LaunchInvInit ==
  ASSUME LaunchInit PROVE LaunchInv
<1>1. NoJob \in LaunchJobs /\ NoHome \in Homes
  BY DEF NoJob, NoHome, LaunchJobs, Homes, Texts, Auths, ShownStates
<1>2. NoJob.at = "off" /\ NoJob.resume = FALSE /\ NoJob.id = 0
  BY DEF NoJob
<1>3. LaunchTypes
  <2>1. <<>> \in Talks
    BY DEF Talks
  <2>2. homes \in [Workspaces -> Homes] /\ jobs \in [Workspaces -> [Roles -> LaunchJobs]]
    BY <1>1 DEF LaunchInit
  <2>3. talks \in [TalksDirs -> Talks]
    BY <2>1 DEF LaunchInit, TalksDirs, TalksDir
  <2>4. QED BY <2>2, <2>3 DEF LaunchInit, LaunchTypes, ShownStates
<1>4. ASSUME NEW w \in Workspaces PROVE Fits(w)
  <2>1. jobs[w].agent = NoJob /\ title[w] = "none" /\ forgotten[w] = 0 /\ launches = 0
    BY DEF LaunchInit, Roles
  <2>2. talks[TalksDir(w)] = <<>>
    BY DEF LaunchInit, TalksDir
  <2>3. QED BY <1>2, <2>1, <2>2 DEF Fits, JobFits, HomeFits, ShownFits, TalksFit
<1>5. QED BY <1>3, <1>4 DEF LaunchInv

\* A step for w leaves the others as they are.
LEMMA OthersFit ==
  ASSUME LaunchInv, NEW w \in Workspaces, LaunchTypes', Fits(w)',
         world' = world, settings' = settings, launches' >= launches,
         \A v \in Workspaces \ {w} :
           jobs'[v] = jobs[v] /\ homes'[v] = homes[v] /\ title'[v] = title[v] /\ forgotten'[v] = forgotten[v],
         \A d \in TalksDirs : d # TalksDir(w) => talks'[d] = talks[d]
  PROVE  LaunchInv'
<1> SUFFICES ASSUME NEW v \in Workspaces, v # w PROVE Fits(v)'
  BY DEF LaunchInv
<1>1. jobs'[v] = jobs[v] /\ homes'[v] = homes[v] /\ title'[v] = title[v] /\ forgotten'[v] = forgotten[v]
  OBVIOUS
<1>2. Fits(v) /\ LaunchTypes
  BY DEF LaunchInv
<1>3. /\ TalksDir(v)' = TalksDir(v) /\ Claude(v)' = Claude(v) /\ Own(v)' = Own(v)
      /\ \A text : GoodText(text)' = GoodText(text)
  BY DEF TalksDir, Claude, Own, GoodText
<1>4. JobFits(v, jobs[v].agent, jobs[v].artifacts, homes[v])'
  <2>1. JobFits(v, jobs[v].agent, jobs[v].artifacts, homes[v])
    BY <1>2 DEF Fits
  <2>2. QED BY <1>1, <1>3, <2>1 DEF JobFits, HomeFits
<1>5. ShownFits(jobs[v].agent, title[v])'
  BY <1>1, <1>2 DEF Fits, ShownFits
<1>6. TalksFit(v, jobs[v].agent, forgotten[v], talks[TalksDir(v)])'
  <2>1. TalksFit(v, jobs[v].agent, forgotten[v], talks[TalksDir(v)])
    BY <1>2 DEF Fits
  <2>2. jobs[v].agent.id \in Nat /\ forgotten[v] \in Nat /\ launches \in Nat /\ launches' \in Nat
    BY <1>2 DEF LaunchTypes, LaunchJobs, Roles
  <2>3. Own(v) => TalksDir(v) # TalksDir(w)
    BY DEF Own
  <2>4. Own(v) => talks'[TalksDir(v)] = talks[TalksDir(v)]
    BY <2>3 DEF TalksDirs, TalksDir
  <2>5. QED BY <1>1, <1>3, <2>1, <2>2, <2>4 DEF TalksFit
<1>7. QED BY <1>4, <1>5, <1>6 DEF Fits

\* One job is replaced.
LEMMA JobPut ==
  ASSUME LaunchTypes, NEW w \in Workspaces, NEW role \in Roles, NEW j \in LaunchJobs,
         jobs' = [jobs EXCEPT ![w] = [@ EXCEPT ![role] = j]]
  PROVE  /\ jobs' \in [Workspaces -> [Roles -> LaunchJobs]]
         /\ jobs'[w][role] = j
         /\ \A r \in Roles : r # role => jobs'[w][r] = jobs[w][r]
         /\ \A v \in Workspaces \ {w} : jobs'[v] = jobs[v]
BY DEF LaunchTypes

\* What is typed of one workspace.
LEMMA TypesAt ==
  ASSUME LaunchTypes, NEW w \in Workspaces
  PROVE  /\ jobs[w] \in [Roles -> LaunchJobs]
         /\ jobs[w].agent \in LaunchJobs /\ jobs[w].artifacts \in LaunchJobs
         /\ homes[w] \in Homes /\ title[w] \in ShownStates /\ forgotten[w] \in Nat
         /\ TalksDir(w) \in TalksDirs /\ talks[TalksDir(w)] \in Talks
<1>1. TalksDir(w) \in TalksDirs
  BY DEF TalksDirs, TalksDir
<1>2. QED BY <1>1 DEF LaunchTypes, Roles

LEMMA NoJobFits ==
  /\ NoJob \in LaunchJobs /\ NoHome \in Homes
  /\ NoJob.at = "off" /\ NoJob.resume = FALSE /\ NoJob.id = 0
BY DEF NoJob, NoHome, LaunchJobs, Homes, Texts, Auths, ShownStates

\* A job that goes on with its preparation, or fails, with a home made of the one there was.
LEMMA PrepareStep ==
  ASSUME LaunchInv, NEW w \in Workspaces, NEW role \in Roles, NEW k \in LaunchJobs, NEW g \in Homes,
         jobs' = [jobs EXCEPT ![w] = [@ EXCEPT ![role] = k]],
         homes' = [homes EXCEPT ![w] = g],
         UNCHANGED <<world, settings, talks, title, launches, forgotten>>,
         jobs[w][role].at # "off", role = "agent" => jobs[w][role].at # "running",
         k = NoJob \/ (k.id = jobs[w][role].id /\ k.at # "running"),
         role = "agent" => JobFits(w, k, jobs[w].artifacts, g)
  PROVE  LaunchInv'
<1>1. LaunchTypes /\ Fits(w)
  BY DEF LaunchInv
<1>2. /\ jobs' \in [Workspaces -> [Roles -> LaunchJobs]]
      /\ jobs'[w][role] = k
      /\ \A r \in Roles : r # role => jobs'[w][r] = jobs[w][r]
      /\ \A v \in Workspaces \ {w} : jobs'[v] = jobs[v]
  BY <1>1, JobPut
<1>3. homes' \in [Workspaces -> Homes] /\ homes'[w] = g /\ \A v \in Workspaces \ {w} : homes'[v] = homes[v]
  BY <1>1 DEF LaunchTypes
<1>4. LaunchTypes'
  BY <1>1, <1>2, <1>3 DEF LaunchTypes, TalksDirs, TalksDir
<1>5. /\ Claude(w)' = Claude(w) /\ Own(w)' = Own(w) /\ TalksDir(w)' = TalksDir(w)
      /\ \A j, h : HomeFits(j, h)' = HomeFits(j, h)
  BY DEF Claude, Own, TalksDir, HomeFits, GoodText
<1>6. forgotten[w] \in Nat /\ launches \in Nat
  BY <1>1 DEF LaunchTypes
<1>7. Fits(w)'
  <2>1. CASE role = "agent"
    <3>1. jobs'[w].agent = k /\ jobs'[w].artifacts = jobs[w].artifacts
      BY <1>2, <2>1 DEF Roles
    <3>2. JobFits(w, k, jobs[w].artifacts, g)
      BY <2>1
    <3>3. JobFits(w, jobs[w].agent, jobs[w].artifacts, homes[w])'
      BY <1>3, <1>5, <3>1, <3>2 DEF JobFits
    <3>4. ShownFits(jobs[w].agent, title[w])'
      BY <1>1, <2>1, <3>1, NoJobFits DEF Fits, ShownFits
    <3>5. TalksFit(w, jobs[w].agent, forgotten[w], talks[TalksDir(w)])'
      BY <1>1, <1>5, <1>6, <2>1, <3>1, NoJobFits DEF Fits, TalksFit
    <3>6. QED BY <3>3, <3>4, <3>5 DEF Fits
  <2>2. CASE role = "artifacts"
    <3>1. jobs'[w].agent = jobs[w].agent
      BY <1>2, <2>2 DEF Roles
    <3>2. ~jobs[w].agent.alone \/ jobs[w].agent.at = "off"
      BY <1>1, <2>2 DEF Fits, JobFits
    <3>3. JobFits(w, jobs[w].agent, jobs[w].artifacts, homes[w])'
      BY <1>1, <1>5, <3>1, <3>2 DEF Fits, JobFits, HomeFits
    <3>4. ShownFits(jobs[w].agent, title[w])'
      BY <1>1, <3>1 DEF Fits, ShownFits
    <3>5. TalksFit(w, jobs[w].agent, forgotten[w], talks[TalksDir(w)])'
      BY <1>1, <1>5, <3>1 DEF Fits, TalksFit
    <3>6. QED BY <3>3, <3>4, <3>5 DEF Fits
  <2>3. QED BY <2>1, <2>2 DEF Roles
<1>8. QED BY <1>1, <1>2, <1>3, <1>4, <1>7, OthersFit DEF LaunchTypes

\* What the steps of a preparation make of a job and of a home.
JobAt(j, place) == [j EXCEPT !.at = place]
JobWriting(j, text, node) == [j EXCEPT !.at = "writing", !.text = text, !.file = node]
HomeWithAuth(h, auth) == [h EXCEPT !.auth = auth]
HomeWithConfig(h, text) == [h EXCEPT !.config = text]

LEMMA JobAtIsJob ==
  ASSUME NEW j \in LaunchJobs,
         NEW place \in {"off", "begun", "made", "clear", "linked", "writing", "ready", "spawn", "running"}
  PROVE  /\ JobAt(j, place) \in LaunchJobs /\ JobAt(j, place).at = place
         /\ JobAt(j, place).id = j.id /\ JobAt(j, place).alone = j.alone /\ JobAt(j, place).resume = j.resume
         /\ JobAt(j, place).text = j.text /\ JobAt(j, place).file = j.file
BY DEF LaunchJobs, JobAt

LEMMA JobWritingIsJob ==
  ASSUME NEW j \in LaunchJobs, NEW text \in Texts, NEW node \in Nat
  PROVE  /\ JobWriting(j, text, node) \in LaunchJobs /\ JobWriting(j, text, node).at = "writing"
         /\ JobWriting(j, text, node).id = j.id /\ JobWriting(j, text, node).alone = j.alone
         /\ JobWriting(j, text, node).resume = j.resume /\ JobWriting(j, text, node).text = text
         /\ JobWriting(j, text, node).file = node
BY DEF LaunchJobs, JobWriting

LEMMA HomeWithAuthIsHome ==
  ASSUME NEW h \in Homes, NEW auth \in Auths
  PROVE  /\ HomeWithAuth(h, auth) \in Homes /\ HomeWithAuth(h, auth).auth = auth
         /\ HomeWithAuth(h, auth).made = h.made /\ HomeWithAuth(h, auth).config = h.config
BY DEF Homes, HomeWithAuth

LEMMA HomeWithConfigIsHome ==
  ASSUME NEW h \in Homes, NEW text \in Texts
  PROVE  /\ HomeWithConfig(h, text) \in Homes /\ HomeWithConfig(h, text).config = text
         /\ HomeWithConfig(h, text).made = h.made /\ HomeWithConfig(h, text).auth = h.auth
         /\ HomeWithConfig(h, text).file = h.file
BY DEF Homes, HomeWithConfig

LEMMA SameHome ==
  ASSUME LaunchTypes, NEW w \in Workspaces, homes' = homes
  PROVE  homes' = [homes EXCEPT ![w] = homes[w]] /\ homes[w] \in Homes
BY DEF LaunchTypes

\* A preparation that fails.
LEMMA FailsFits ==
  ASSUME LaunchInv, NEW w \in Workspaces, NEW role \in Roles, jobs[w][role].at \notin {"off", "running"},
         Fails(w, role), UNCHANGED <<homes, world, settings, talks, title, launches, forgotten>>
  PROVE  LaunchInv'
<1>1. LaunchTypes
  BY DEF LaunchInv
<1>2. jobs' = [jobs EXCEPT ![w] = [@ EXCEPT ![role] = NoJob]]
  BY DEF Fails
<1>3. homes' = [homes EXCEPT ![w] = homes[w]] /\ homes[w] \in Homes
  BY <1>1, SameHome
<1>4. JobFits(w, NoJob, jobs[w].artifacts, homes[w])
  BY NoJobFits DEF JobFits, HomeFits
<1>5. NoJob \in LaunchJobs
  BY NoJobFits
<1>6. QED BY <1>2, <1>3, <1>4, <1>5, PrepareStep

LEMMA MakeHomeFits ==
  ASSUME LaunchInv, NEW w \in Workspaces, NEW role \in Roles, MakeHome(w, role)
  PROVE  LaunchInv'
<1> DEFINE j == jobs[w][role]
           h == homes[w]
           g == IF j.fresh THEN [NoHome EXCEPT !.made = TRUE, !.file = h.file + 1] ELSE [h EXCEPT !.made = TRUE]
<1>1. LaunchTypes /\ Fits(w)
  BY DEF LaunchInv
<1>2. j \in LaunchJobs /\ h \in Homes /\ j.at = "begun" /\ ~Claude(w)
  BY <1>1, TypesAt DEF MakeHome, At, Job, Roles
<1>3. g \in Homes /\ g.made = TRUE
  <2>1. ASSUME NEW n \in Nat
        PROVE  [NoHome EXCEPT !.made = TRUE, !.file = n] \in Homes /\ [NoHome EXCEPT !.made = TRUE, !.file = n].made = TRUE
    BY NoJobFits DEF Homes
  <2>4. h.file + 1 \in Nat
    BY <1>2 DEF Homes
  <2>2. [h EXCEPT !.made = TRUE] \in Homes /\ [h EXCEPT !.made = TRUE].made = TRUE
    BY <1>2 DEF Homes
  <2>3. QED BY <2>1, <2>2, <2>4
<1>4. /\ jobs' = [jobs EXCEPT ![w] = [@ EXCEPT ![role] = JobAt(j, "made")]]
      /\ homes' = [homes EXCEPT ![w] = g]
      /\ UNCHANGED <<world, settings, talks, title, launches, forgotten>>
  BY DEF MakeHome, Goes, Job, JobAt
<1>5. j.at \notin {"off", "running"}
  BY <1>2
<1> HIDE DEF j, g, h
<1> DEFINE k == JobAt(j, "made")
<1>6. /\ k \in LaunchJobs /\ k.at = "made" /\ k.id = j.id /\ k.alone = j.alone /\ k.resume = j.resume
  BY <1>2, JobAtIsJob
<1> HIDE DEF k
<1>7. role = "agent" => JobFits(w, k, jobs[w].artifacts, g)
  BY <1>1, <1>2, <1>3, <1>6 DEF Fits, JobFits, HomeFits, j
<1>8. QED BY <1>3, <1>4, <1>5, <1>6, <1>7, PrepareStep DEF j, k

LEMMA ClearAuthFits ==
  ASSUME LaunchInv, NEW w \in Workspaces, NEW role \in Roles, ClearAuth(w, role)
  PROVE  LaunchInv'
<1> DEFINE j == jobs[w][role]
           h == homes[w]
<1>1. LaunchTypes /\ Fits(w)
  BY DEF LaunchInv
<1>2. j \in LaunchJobs /\ h \in Homes /\ j.at = "made"
  BY <1>1, TypesAt DEF ClearAuth, At, Job, Roles
<1>3. UNCHANGED <<world, settings, talks, title, launches, forgotten>>
  BY DEF ClearAuth
<1>4. j.at \notin {"off", "running"}
  BY <1>2
<1>5. CASE ~world.auth \/ h.auth = "link"
  <2> DEFINE k == JobAt(j, "linked")
  <2>1. jobs' = [jobs EXCEPT ![w] = [@ EXCEPT ![role] = k]] /\ homes' = homes
    BY <1>5 DEF ClearAuth, Goes, Job, JobAt
  <2>2. homes' = [homes EXCEPT ![w] = h]
    BY <1>1, <2>1, SameHome
  <2> HIDE DEF j, h
  <2>3. /\ k \in LaunchJobs /\ k.at = "linked" /\ k.id = j.id /\ k.alone = j.alone /\ k.resume = j.resume
    BY <1>2, JobAtIsJob
  <2> HIDE DEF k
  <2>4. role = "agent" => JobFits(w, k, jobs[w].artifacts, h)
    BY <1>1, <1>2, <1>5, <2>3 DEF Fits, JobFits, HomeFits, j, h
  <2>5. QED BY <1>2, <1>3, <1>4, <2>1, <2>2, <2>3, <2>4, PrepareStep DEF j
<1>6. CASE ~(~world.auth \/ h.auth = "link")
  <2> DEFINE k == JobAt(j, "clear")
             g == HomeWithAuth(h, "none")
  <2>1. jobs' = [jobs EXCEPT ![w] = [@ EXCEPT ![role] = k]] /\ homes' = [homes EXCEPT ![w] = g]
    BY <1>6 DEF ClearAuth, Goes, Job, JobAt, HomeWithAuth
  <2> HIDE DEF j, h
  <2>2. /\ k \in LaunchJobs /\ k.at = "clear" /\ k.id = j.id /\ k.alone = j.alone /\ k.resume = j.resume
    BY <1>2, JobAtIsJob
  <2>3. g \in Homes /\ g.auth = "none" /\ g.made = h.made
    BY <1>2, HomeWithAuthIsHome DEF Auths
  <2> HIDE DEF k, g
  <2>4. role = "agent" => JobFits(w, k, jobs[w].artifacts, g)
    BY <1>1, <1>2, <2>2, <2>3 DEF Fits, JobFits, HomeFits, j, h
  <2>5. QED BY <1>3, <1>4, <2>1, <2>2, <2>3, <2>4, PrepareStep DEF j
<1>7. QED BY <1>5, <1>6

LEMMA LinkAuthFits ==
  ASSUME LaunchInv, NEW w \in Workspaces, NEW role \in Roles, LinkAuth(w, role)
  PROVE  LaunchInv'
<1> DEFINE j == jobs[w][role]
           h == homes[w]
<1>1. LaunchTypes /\ Fits(w)
  BY DEF LaunchInv
<1>2. j \in LaunchJobs /\ h \in Homes /\ j.at = "clear"
  BY <1>1, TypesAt DEF LinkAuth, At, Job, Roles
<1>3. UNCHANGED <<world, settings, talks, title, launches, forgotten>>
  BY DEF LinkAuth
<1>4. j.at \notin {"off", "running"}
  BY <1>2
<1>5. CASE h.auth # "none" \/ ~h.made
  <2>1. Fails(w, role) /\ UNCHANGED homes
    BY <1>5 DEF LinkAuth
  <2>2. QED BY <1>3, <1>4, <2>1, FailsFits
<1>6. CASE ~(h.auth # "none" \/ ~h.made)
  <2> DEFINE k == JobAt(j, "linked")
             g == HomeWithAuth(h, "link")
  <2>1. jobs' = [jobs EXCEPT ![w] = [@ EXCEPT ![role] = k]] /\ homes' = [homes EXCEPT ![w] = g]
    BY <1>6 DEF LinkAuth, Goes, Job, JobAt, HomeWithAuth
  <2> HIDE DEF j, h
  <2>2. /\ k \in LaunchJobs /\ k.at = "linked" /\ k.id = j.id /\ k.alone = j.alone /\ k.resume = j.resume
    BY <1>2, JobAtIsJob
  <2>3. g \in Homes /\ g.auth = "link" /\ g.made = h.made
    BY <1>2, HomeWithAuthIsHome DEF Auths
  <2> HIDE DEF k, g
  <2>4. role = "agent" => JobFits(w, k, jobs[w].artifacts, g)
    BY <1>1, <1>2, <2>2, <2>3 DEF Fits, JobFits, HomeFits, j, h
  <2>5. QED BY <1>3, <1>4, <2>1, <2>2, <2>3, <2>4, PrepareStep DEF j
<1>7. QED BY <1>5, <1>6

LEMMA TruncateConfigFits ==
  ASSUME LaunchInv, NEW w \in Workspaces, NEW role \in Roles, TruncateConfig(w, role)
  PROVE  LaunchInv'
<1> DEFINE j == jobs[w][role]
           h == homes[w]
<1>1. LaunchTypes /\ Fits(w)
  BY DEF LaunchInv
<1>2. j \in LaunchJobs /\ h \in Homes /\ j.at = "linked"
  BY <1>1, TypesAt DEF TruncateConfig, At, Job, Roles
<1>3. UNCHANGED <<world, settings, talks, title, launches, forgotten>>
  BY DEF TruncateConfig
<1>4. j.at \notin {"off", "running"}
  BY <1>2
<1>5. CASE ~h.made
  <2>1. Fails(w, role) /\ UNCHANGED homes
    BY <1>5 DEF TruncateConfig
  <2>2. QED BY <1>3, <1>4, <2>1, FailsFits
<1>6. CASE h.made
  <2>7. PICK v \in {settings, Default} :
          jobs' = [jobs EXCEPT ![w] = [@ EXCEPT ![role] = JobWriting(j, Rendered(world, v), h.file)]]
    BY <1>6 DEF TruncateConfig, JobWriting
  <2> DEFINE text == Rendered(world, v)
             k == JobWriting(j, text, h.file)
             g == HomeWithConfig(h, TornText)
  <2>1. jobs' = [jobs EXCEPT ![w] = [@ EXCEPT ![role] = k]] /\ homes' = [homes EXCEPT ![w] = g]
    BY <1>6, <2>7 DEF TruncateConfig, HomeWithConfig
  <2>2. text \in Texts /\ GoodText(text)
    <3>1. world \in Worlds /\ settings \in 1..2 /\ settings \in 1..settings
      BY <1>1 DEF LaunchTypes
    <3>2. QED BY <3>1 DEF Texts, GoodText
  <2> HIDE DEF j, h, text
  <2>3. /\ k \in LaunchJobs /\ k.at = "writing" /\ k.id = j.id /\ k.alone = j.alone /\ k.resume = j.resume
        /\ k.text = text /\ k.file = h.file
    <3>1. h.file \in Nat
      BY <1>2 DEF Homes
    <3>2. QED BY <1>2, <2>2, <3>1, JobWritingIsJob
  <2>4. g \in Homes /\ g.auth = h.auth /\ g.made = h.made /\ g.config = TornText /\ g.file = h.file
    BY <1>2, HomeWithConfigIsHome DEF Texts
  <2> HIDE DEF k, g
  <2>5. role = "agent" => JobFits(w, k, jobs[w].artifacts, g)
    BY <1>1, <1>2, <2>2, <2>3, <2>4 DEF Fits, JobFits, HomeFits, j, h
  <2>6. QED BY <1>3, <1>4, <2>1, <2>3, <2>4, <2>5, PrepareStep DEF j
<1>7. QED BY <1>5, <1>6

LEMMA WriteConfigFits ==
  ASSUME LaunchInv, NEW w \in Workspaces, NEW role \in Roles, WriteConfig(w, role)
  PROVE  LaunchInv'
<1> DEFINE j == jobs[w][role]
           h == homes[w]
           k == IF role = "agent" THEN JobAt(j, "ready") ELSE NoJob
<1>1. LaunchTypes /\ Fits(w)
  BY DEF LaunchInv
<1>2. j \in LaunchJobs /\ h \in Homes /\ j.at = "writing"
  BY <1>1, TypesAt DEF WriteConfig, At, Job, Roles
<1>3. UNCHANGED <<world, settings, talks, title, launches, forgotten>>
  BY DEF WriteConfig
<1>4. j.at \notin {"off", "running"}
  BY <1>2
<1>5. jobs' = [jobs EXCEPT ![w] = [@ EXCEPT ![role] = k]]
  BY DEF WriteConfig, Goes, Fails, JobAt
<1>6. PICK text \in Texts : /\ homes' = [homes EXCEPT ![w] = HomeWithConfig(h, text)]
                            /\ j.file = h.file /\ h.config = TornText => text = j.text
  <2>1. CASE j.file = h.file
    <3>1. PICK text \in Overwritten(h.config, j.text) : homes' = [homes EXCEPT ![w].config = text]
      BY <2>1 DEF WriteConfig, Job
    <3>2. text \in {j.text, MixedText} /\ (h.config = TornText => text = j.text)
      BY <3>1 DEF Overwritten
    <3>3. text \in Texts
      BY <1>2, <3>2 DEF LaunchJobs, Texts
    <3>4. QED BY <3>1, <3>2, <3>3 DEF HomeWithConfig
  <2>2. CASE j.file # h.file
    <3>1. homes' = homes
      BY <2>2 DEF WriteConfig, Job
    <3>2. h.config \in Texts /\ HomeWithConfig(h, h.config) = h
      BY <1>2 DEF Homes, HomeWithConfig
    <3>3. homes' = [homes EXCEPT ![w] = h]
      BY <1>1, <3>1, SameHome
    <3>4. QED BY <2>2, <3>2, <3>3
  <2>3. QED BY <2>1, <2>2
<1> DEFINE g == HomeWithConfig(h, text)
<1> HIDE DEF j, h
<1>9. /\ JobAt(j, "ready") \in LaunchJobs /\ JobAt(j, "ready").at = "ready" /\ JobAt(j, "ready").id = j.id
      /\ JobAt(j, "ready").alone = j.alone /\ JobAt(j, "ready").resume = j.resume
  BY <1>2, JobAtIsJob
<1>10. k \in LaunchJobs /\ (k = NoJob \/ (k.id = j.id /\ k.at # "running"))
  BY <1>9, NoJobFits
<1>11. role = "agent" => k = JobAt(j, "ready")
  OBVIOUS
<1>12. g \in Homes /\ g.auth = h.auth /\ g.made = h.made /\ g.config = text
  BY <1>2, HomeWithConfigIsHome
<1>15. homes' = [homes EXCEPT ![w] = g]
  BY <1>6
<1> HIDE DEF k, g
<1>13. role = "agent" => JobFits(w, k, jobs[w].artifacts, g)
  BY <1>1, <1>2, <1>6, <1>9, <1>11, <1>12 DEF Fits, JobFits, HomeFits, j, h
<1>14. QED BY <1>3, <1>4, <1>5, <1>10, <1>12, <1>13, <1>15, PrepareStep DEF j

\* A step of the agent of w, which may be reported, and may begin or forget conversations.
LEMMA AgentStep ==
  ASSUME LaunchInv, NEW w \in Workspaces, NEW k \in LaunchJobs, NEW shown \in ShownStates,
         NEW past \in Nat, NEW kept \in Talks,
         jobs' = [jobs EXCEPT ![w] = [@ EXCEPT !["agent"] = k]],
         title' = [title EXCEPT ![w] = shown],
         forgotten' = [forgotten EXCEPT ![w] = past], talks' = [talks EXCEPT ![TalksDir(w)] = kept],
         UNCHANGED <<world, settings, homes>>, launches' \in Nat, launches' >= launches,
         JobFits(w, k, jobs[w].artifacts, homes[w]),
         ShownFits(k, shown),
         k.id <= launches' /\ past <= launches' /\ (k.at # "off" => past <= k.id),
         Own(w) => (\A i \in 1..Len(kept) : kept[i].id >= past) /\ (k.at = "running" => k.talk >= past)
  PROVE  LaunchInv'
<1>1. LaunchTypes /\ Fits(w)
  BY DEF LaunchInv
<1>2. /\ jobs' \in [Workspaces -> [Roles -> LaunchJobs]]
      /\ jobs'[w]["agent"] = k
      /\ \A r \in Roles : r # "agent" => jobs'[w][r] = jobs[w][r]
      /\ \A v \in Workspaces \ {w} : jobs'[v] = jobs[v]
  BY <1>1, JobPut DEF Roles
<1>3. /\ title' \in [Workspaces -> ShownStates] /\ title'[w] = shown /\ \A v \in Workspaces \ {w} : title'[v] = title[v]
      /\ forgotten' \in [Workspaces -> Nat] /\ forgotten'[w] = past
      /\ \A v \in Workspaces \ {w} : forgotten'[v] = forgotten[v]
  BY <1>1 DEF LaunchTypes
<1>4. /\ talks' \in [TalksDirs -> Talks] /\ talks'[TalksDir(w)] = kept /\ \A d \in TalksDirs : d # TalksDir(w) => talks'[d] = talks[d]
  <2>1. TalksDir(w) \in TalksDirs /\ talks \in [TalksDirs -> Talks]
    BY <1>1, TypesAt DEF LaunchTypes
  <2> HIDE DEF TalksDirs, TalksDir, Talks
  <2>2. QED BY <2>1
<1>5. LaunchTypes'
  <2>1. TalksDirs' = TalksDirs
    BY DEF TalksDirs, TalksDir
  <2>2. QED BY <1>1, <1>2, <1>3, <1>4, <2>1 DEF LaunchTypes
<1>6. /\ Claude(w)' = Claude(w) /\ Own(w)' = Own(w) /\ TalksDir(w)' = TalksDir(w)
      /\ \A j, h : HomeFits(j, h)' = HomeFits(j, h)
  BY DEF Claude, Own, TalksDir, HomeFits, GoodText
<1>7. Fits(w)'
  <2>1. jobs'[w].agent = k /\ jobs'[w].artifacts = jobs[w].artifacts
    BY <1>2 DEF Roles
  <2>2. JobFits(w, jobs[w].agent, jobs[w].artifacts, homes[w])'
    BY <1>6, <2>1 DEF JobFits
  <2>3. ShownFits(jobs[w].agent, title[w])'
    BY <1>3, <2>1 DEF ShownFits
  <2>4. TalksFit(w, jobs[w].agent, forgotten[w], talks[TalksDir(w)])'
    BY <1>3, <1>4, <1>6, <2>1 DEF TalksFit
  <2>5. QED BY <2>2, <2>3, <2>4 DEF Fits
<1>8. QED BY <1>2, <1>3, <1>4, <1>5, <1>7, OthersFit

\* What a step leaves alone, in the form of that lemma.
LEMMA Kept ==
  ASSUME LaunchTypes, NEW w \in Workspaces
  PROVE  /\ title' = title => title' = [title EXCEPT ![w] = title[w]]
         /\ forgotten' = forgotten => forgotten' = [forgotten EXCEPT ![w] = forgotten[w]]
         /\ talks' = talks => talks' = [talks EXCEPT ![TalksDir(w)] = talks[TalksDir(w)]]
<1>1. TalksDir(w) \in TalksDirs
  BY DEF TalksDirs, TalksDir
<1>2. /\ title' = title => title' = [title EXCEPT ![w] = title[w]]
      /\ forgotten' = forgotten => forgotten' = [forgotten EXCEPT ![w] = forgotten[w]]
  BY DEF LaunchTypes
<1>3. talks' = talks => talks' = [talks EXCEPT ![TalksDir(w)] = talks[TalksDir(w)]]
  BY <1>1 DEF LaunchTypes
<1>4. QED BY <1>2, <1>3

JobBegun(id, fresh, extra, alone) ==
  [NoJob EXCEPT !.at = "begun", !.id = id, !.fresh = fresh, !.extra = extra, !.alone = alone]

LEMMA LaunchFits ==
  ASSUME LaunchInv, NEW w \in Workspaces, Launch(w)
  PROVE  LaunchInv'
<1> DEFINE id == launches + 1
<1>1. LaunchTypes /\ Fits(w)
  BY DEF LaunchInv
<1>2. launches \in Nat /\ id \in Nat /\ launches' = id /\ jobs[w].agent.at = "off"
  BY <1>1 DEF LaunchTypes, Launch, At, Job
<1>3. PICK fresh \in BOOLEAN, extra \in BOOLEAN :
        jobs' = [jobs EXCEPT ![w] = [@ EXCEPT !["agent"] = JobBegun(id, fresh, extra, At(w, "artifacts", "off"))]]
  BY DEF Launch, JobBegun
<1>4. UNCHANGED <<world, settings, homes, talks, title, forgotten>>
  BY DEF Launch
<1>5. PICK alone \in BOOLEAN : alone = At(w, "artifacts", "off")
  BY DEF At
<1> HIDE DEF id
<1> DEFINE k == JobBegun(id, fresh, extra, alone)
<1>6. k \in LaunchJobs /\ k.at = "begun" /\ k.id = id /\ k.alone = alone /\ k.resume = FALSE
  BY ONLY <1>2, fresh \in BOOLEAN, extra \in BOOLEAN, alone \in BOOLEAN, NoJobFits DEF JobBegun, LaunchJobs
<1>7. /\ title' = [title EXCEPT ![w] = title[w]]
      /\ forgotten' = [forgotten EXCEPT ![w] = forgotten[w]] /\ talks' = [talks EXCEPT ![TalksDir(w)] = talks[TalksDir(w)]]
  BY <1>1, <1>4, Kept
<1>8. title[w] \in ShownStates /\ forgotten[w] \in Nat /\ talks[TalksDir(w)] \in Talks
  BY <1>1, TypesAt
<1>9. jobs' = [jobs EXCEPT ![w] = [@ EXCEPT !["agent"] = k]]
  BY <1>3, <1>5
<1> HIDE DEF k
<1>10. JobFits(w, k, jobs[w].artifacts, homes[w])
  BY <1>5, <1>6 DEF JobFits, HomeFits, At, Job
<1>11. ShownFits(k, title[w])
  BY <1>1, <1>2, <1>6 DEF Fits, ShownFits
<1>12. k.id <= launches' /\ forgotten[w] <= launches' /\ (k.at # "off" => forgotten[w] <= k.id)
  BY <1>1, <1>2, <1>6, <1>8 DEF Fits, TalksFit, id
<1>13. Own(w) => /\ \A i \in 1..Len(talks[TalksDir(w)]) : talks[TalksDir(w)][i].id >= forgotten[w]
                 /\ k.at = "running" => k.talk >= forgotten[w]
  BY <1>1, <1>6 DEF Fits, TalksFit
<1>14. launches' \in Nat /\ launches' >= launches
  BY <1>2 DEF id
<1>15. QED BY <1>4, <1>6, <1>7, <1>8, <1>9, <1>10, <1>11, <1>12, <1>13, <1>14, AgentStep

LEMMA PrepareClaudeFits ==
  ASSUME LaunchInv, NEW w \in Workspaces, PrepareClaude(w)
  PROVE  LaunchInv'
<1> DEFINE j == jobs[w].agent
           k == JobAt(j, "ready")
           past == IF j.fresh THEN j.id ELSE forgotten[w]
           kept == IF j.fresh THEN <<>> ELSE talks[TalksDir(w)]
<1>1. LaunchTypes /\ Fits(w)
  BY DEF LaunchInv
<1>2. /\ j \in LaunchJobs /\ j.at = "begun" /\ Claude(w) /\ title[w] \in ShownStates
      /\ forgotten[w] \in Nat /\ talks[TalksDir(w)] \in Talks
  BY <1>1, TypesAt DEF PrepareClaude, At, Job
<1>3. /\ jobs' = [jobs EXCEPT ![w] = [@ EXCEPT !["agent"] = k]]
      /\ talks' = [talks EXCEPT ![TalksDir(w)] = kept] /\ forgotten' = [forgotten EXCEPT ![w] = past]
      /\ UNCHANGED <<world, settings, homes, title, launches>>
  BY DEF PrepareClaude, Goes, Job, JobAt
<1>4. past \in Nat /\ kept \in Talks
  BY <1>2 DEF LaunchJobs, Talks
<1>5. /\ j.fresh => past = j.id /\ kept = <<>>
      /\ ~j.fresh => past = forgotten[w] /\ kept = talks[TalksDir(w)]
  OBVIOUS
<1>6. j.id \in Nat /\ launches \in Nat
  BY <1>1, <1>2 DEF LaunchJobs, LaunchTypes
<1>7. /\ title' = [title EXCEPT ![w] = title[w]]
  BY <1>1, <1>3, Kept
<1>8. TalksFit(w, j, forgotten[w], talks[TalksDir(w)]) /\ JobFits(w, j, jobs[w].artifacts, homes[w])
      /\ ShownFits(j, title[w])
  BY <1>1 DEF Fits
<1> HIDE DEF j, past, kept
<1>9. k \in LaunchJobs /\ k.at = "ready" /\ k.id = j.id /\ k.alone = j.alone /\ k.resume = j.resume
  BY <1>2, JobAtIsJob
<1> HIDE DEF k
<1>10. JobFits(w, k, jobs[w].artifacts, homes[w])
  BY <1>2, <1>8, <1>9 DEF JobFits
<1>11. ShownFits(k, title[w])
  BY <1>2, <1>8, <1>9 DEF ShownFits
<1>12. k.id <= launches' /\ past <= launches' /\ (k.at # "off" => past <= k.id)
  BY <1>2, <1>3, <1>5, <1>6, <1>8, <1>9 DEF TalksFit
<1>13. Own(w) => \A i \in 1..Len(kept) : kept[i].id >= past
  <2>1. CASE j.fresh
    BY <1>5, <2>1
  <2>2. CASE ~j.fresh
    BY <1>5, <1>8, <2>2 DEF TalksFit
  <2>3. QED BY <2>1, <2>2
<1>14. launches' \in Nat /\ launches' >= launches /\ k.at # "running"
  BY <1>3, <1>6, <1>9
<1>15. QED BY <1>2, <1>3, <1>4, <1>7, <1>9, <1>10, <1>11, <1>12, <1>13, <1>14, AgentStep

JobConnected(j, up, resume) == [j EXCEPT !.link = up, !.at = "spawn", !.resume = resume]

LEMMA ConnectFits ==
  ASSUME LaunchInv, NEW w \in Workspaces, Connect(w)
  PROVE  LaunchInv'
<1> DEFINE j == jobs[w].agent
<1>1. LaunchTypes /\ Fits(w)
  BY DEF LaunchInv
<1>2. /\ j \in LaunchJobs /\ j.at = "ready" /\ title[w] \in ShownStates
      /\ forgotten[w] \in Nat /\ talks[TalksDir(w)] \in Talks
  BY <1>1, TypesAt DEF Connect, At, Job
<1>3. PICK up \in BOOLEAN :
        jobs' = [jobs EXCEPT ![w] = [@ EXCEPT !["agent"] = JobConnected(j, up, Claude(w) /\ ~j.fresh /\ ~j.extra)]]
  BY DEF Connect, Job, JobConnected
<1>4. PICK resume \in BOOLEAN : resume = (Claude(w) /\ ~j.fresh /\ ~j.extra)
  OBVIOUS
<1>5. UNCHANGED <<world, settings, homes, talks, title, launches, forgotten>>
  BY DEF Connect
<1> DEFINE k == JobConnected(j, up, resume)
<1>6. jobs' = [jobs EXCEPT ![w] = [@ EXCEPT !["agent"] = k]]
  BY <1>3, <1>4
<1>7. j.id \in Nat /\ launches \in Nat
  BY <1>1, <1>2 DEF LaunchJobs, LaunchTypes
<1>8. /\ title' = [title EXCEPT ![w] = title[w]]
      /\ forgotten' = [forgotten EXCEPT ![w] = forgotten[w]] /\ talks' = [talks EXCEPT ![TalksDir(w)] = talks[TalksDir(w)]]
  BY <1>1, <1>5, Kept
<1>9. TalksFit(w, j, forgotten[w], talks[TalksDir(w)]) /\ JobFits(w, j, jobs[w].artifacts, homes[w])
      /\ ShownFits(j, title[w])
  BY <1>1 DEF Fits
<1> HIDE DEF j
<1>10. k \in LaunchJobs /\ k.at = "spawn" /\ k.id = j.id /\ k.alone = j.alone /\ k.resume = resume
  BY ONLY <1>2, up \in BOOLEAN, resume \in BOOLEAN DEF JobConnected, LaunchJobs
<1> HIDE DEF k
<1>11. JobFits(w, k, jobs[w].artifacts, homes[w])
  BY <1>2, <1>4, <1>9, <1>10 DEF JobFits, HomeFits
<1>12. ShownFits(k, title[w])
  BY <1>2, <1>9, <1>10 DEF ShownFits
<1>13. k.id <= launches' /\ forgotten[w] <= launches' /\ (k.at # "off" => forgotten[w] <= k.id)
  BY <1>2, <1>5, <1>7, <1>9, <1>10 DEF TalksFit
<1>14. Own(w) => /\ \A i \in 1..Len(talks[TalksDir(w)]) : talks[TalksDir(w)][i].id >= forgotten[w]
                 /\ k.at = "running" => k.talk >= forgotten[w]
  BY <1>9, <1>10 DEF TalksFit
<1>15. launches' \in Nat /\ launches' >= launches
  BY <1>5, <1>7
<1>16. QED BY <1>2, <1>5, <1>6, <1>8, <1>10, <1>11, <1>12, <1>13, <1>14, <1>15, AgentStep

\* A report leaves the title of the state that is reported, however it ends.
LEMMA EmittedShows ==
  ASSUME NEW w \in Workspaces, NEW shown \in ShownStates, NEW end, Emitted(w, shown, end)
  PROVE  title' = [title EXCEPT ![w] = shown]
<1> DEFINE late == Job(w, "agent").late
           own == [mine |-> TRUE, state |-> shown]
           m == CHOOSE x \in Answers(late, shown) : x.mine
<1>1. own \in Answers(late, shown) /\ own.mine
  BY DEF Answers
<1>2. m \in Answers(late, shown) /\ m.mine
  BY <1>1
<1> HIDE DEF m
<1>3. m = own
  BY <1>2 DEF Answers
<1>4. Taken(late, shown) = m.state
  BY DEF Taken, m
<1>5. Taken(late, shown) = shown
  BY <1>3, <1>4
<1>6. QED BY <1>5 DEF Emitted

LEMMA LateIsLate ==
  ASSUME NEW j \in LaunchJobs, NEW shown \in ShownStates, NEW end \in Ends(j)
  PROVE  LateAfter(j, shown, end) \in SUBSET ShownStates
<1>1. j.late \in SUBSET ShownStates
  BY DEF LaunchJobs
<1>2. end \in {"answer", "error", "silence"}
  BY DEF Ends
<1>3. CASE end = "answer"
  BY <1>3 DEF LateAfter
<1>4. CASE end = "error"
  BY <1>1, <1>4 DEF LateAfter
<1>5. CASE end = "silence"
  BY <1>1, <1>5 DEF LateAfter
<1>6. QED BY <1>2, <1>3, <1>4, <1>5

JobRunning(j, late, talk, text, auth) ==
  [j EXCEPT !.at = "running", !.late = late, !.talk = talk, !.text = text, !.auth = auth]

LEMMA SpawnFits ==
  ASSUME LaunchInv, NEW w \in Workspaces, Spawn(w)
  PROVE  LaunchInv'
<1> DEFINE j == jobs[w].agent
           kept == talks[TalksDir(w)]
           begun == [id |-> j.id, by |-> w]
           talk == IF j.resume /\ kept # <<>> THEN Last(kept).id ELSE j.id
           now == IF j.resume \/ ~Claude(w) THEN kept ELSE Append(kept, begun)
<1>1. LaunchTypes /\ Fits(w)
  BY DEF LaunchInv
<1>2. /\ j \in LaunchJobs /\ j.at = "spawn" /\ homes[w] \in Homes
      /\ forgotten[w] \in Nat /\ kept \in Talks
  BY <1>1, TypesAt DEF Spawn, At, Job
<1>3. PICK end \in Ends(j) :
        /\ Emitted(w, "busy", end)
        /\ jobs' = [jobs EXCEPT ![w] = [@ EXCEPT !["agent"] =
                      JobRunning(j, LateAfter(j, "busy", end), talk, homes[w].config, homes[w].auth)]]
  BY DEF Spawn, Job, JobRunning
<1>4. PICK late \in SUBSET ShownStates : late = LateAfter(j, "busy", end)
  BY <1>2, <1>3, LateIsLate DEF ShownStates
<1>5. "busy" \in ShownStates /\ title' = [title EXCEPT ![w] = "busy"]
  BY <1>3, EmittedShows DEF ShownStates
<1>6. UNCHANGED <<world, settings, homes, launches, forgotten>>
  BY DEF Spawn
<1>7. forgotten' = [forgotten EXCEPT ![w] = forgotten[w]]
  BY <1>1, <1>6, Kept
<1>8. talks' = [talks EXCEPT ![TalksDir(w)] = now]
  <2>1. CASE j.resume \/ ~Claude(w)
    <3>1. talks' = talks
      BY <2>1 DEF Spawn, Job
    <3>2. QED BY <1>1, <2>1, <3>1, Kept
  <2>2. CASE ~(j.resume \/ ~Claude(w))
    BY <2>2 DEF Spawn, Job
  <2>3. QED BY <2>1, <2>2
<1>9. j.id \in Nat /\ launches \in Nat
  BY <1>1, <1>2 DEF LaunchJobs, LaunchTypes
<1>10. TalksFit(w, j, forgotten[w], kept) /\ JobFits(w, j, jobs[w].artifacts, homes[w])
  BY <1>1 DEF Fits
<1> HIDE DEF j, kept
<1>11. talk \in Nat /\ (Own(w) => talk >= forgotten[w])
  <2>1. CASE j.resume /\ kept # <<>>
    <3> DEFINE T == [id : Nat, by : Workspaces]
    <3>1. Len(kept) \in 1..Len(kept) /\ kept[Len(kept)].id \in Nat
      <4>1. kept \in Seq(T) /\ \A e \in T : e.id \in Nat
        BY <1>2 DEF Talks
      <4> HIDE DEF T
      <4>2. QED BY <2>1, <4>1
    <3>2. talk = kept[Len(kept)].id
      BY <2>1 DEF Last
    <3>3. QED BY <1>10, <3>1, <3>2 DEF TalksFit
  <2>2. CASE ~(j.resume /\ kept # <<>>)
    BY <1>2, <1>9, <1>10, <2>2 DEF TalksFit
  <2>3. QED BY <2>1, <2>2
<1>12. now \in Talks /\ (Own(w) => \A i \in 1..Len(now) : now[i].id >= forgotten[w])
  <2>1. CASE j.resume \/ ~Claude(w)
    BY <1>2, <1>10, <2>1 DEF TalksFit
  <2>2. CASE ~(j.resume \/ ~Claude(w))
    <3>1. begun \in [id : Nat, by : Workspaces] /\ begun.id = j.id
      BY <1>9
    <3> HIDE DEF begun
    <3>2. now = Append(kept, begun) /\ kept \in Seq([id : Nat, by : Workspaces])
      BY <1>2, <2>2 DEF Talks
    <3> DEFINE T == [id : Nat, by : Workspaces]
    <3>3. now \in Talks /\ \A i \in 1..Len(now) : now[i] = begun \/ (i \in 1..Len(kept) /\ now[i] = kept[i])
      <4>1. begun \in T /\ kept \in Seq(T) /\ now = Append(kept, begun) /\ Talks = Seq(T)
        BY <3>1, <3>2 DEF Talks
      <4> HIDE DEF T, now
      <4>2. QED BY <4>1
    <3>4. j.id >= forgotten[w]
      BY <1>2, <1>9, <1>10 DEF TalksFit
    <3>5. QED BY <1>10, <3>1, <3>3, <3>4 DEF TalksFit
  <2>3. QED BY <2>1, <2>2
<1>13. homes[w].config \in Texts /\ homes[w].auth \in Auths
  BY <1>2 DEF Homes
<1> HIDE DEF talk, now
<1> DEFINE k == JobRunning(j, late, talk, homes[w].config, homes[w].auth)
<1>14. /\ k \in LaunchJobs /\ k.at = "running" /\ k.id = j.id /\ k.alone = j.alone /\ k.resume = j.resume
       /\ k.talk = talk /\ k.text = homes[w].config /\ k.auth = homes[w].auth
  BY ONLY <1>2, late \in SUBSET ShownStates, <1>11, <1>13 DEF JobRunning, LaunchJobs
<1>15. jobs' = [jobs EXCEPT ![w] = [@ EXCEPT !["agent"] = k]]
  BY <1>3, <1>4
<1> HIDE DEF k
<1>16. JobFits(w, k, jobs[w].artifacts, homes[w])
  BY <1>2, <1>10, <1>14 DEF JobFits, HomeFits
<1>17. ShownFits(k, "busy")
  BY <1>5, <1>14 DEF ShownFits
<1>18. k.id <= launches' /\ forgotten[w] <= launches' /\ (k.at # "off" => forgotten[w] <= k.id)
  BY <1>2, <1>6, <1>9, <1>10, <1>14 DEF TalksFit
<1>19. Own(w) => /\ \A i \in 1..Len(now) : now[i].id >= forgotten[w]
                 /\ k.at = "running" => k.talk >= forgotten[w]
  BY <1>11, <1>12, <1>14
<1>20. launches' \in Nat /\ launches' >= launches
  BY <1>6, <1>9
<1>21. QED BY <1>2, <1>5, <1>6, <1>7, <1>8, <1>12, <1>14, <1>15, <1>16, <1>17, <1>18, <1>19, <1>20, AgentStep

LEMMA SpawnFailsFits ==
  ASSUME LaunchInv, NEW w \in Workspaces, SpawnFails(w)
  PROVE  LaunchInv'
<1>1. jobs[w]["agent"].at \notin {"off", "running"} /\ "agent" \in Roles
  BY DEF SpawnFails, At, Job, Roles
<1>2. QED BY <1>1, FailsFits DEF SpawnFails

JobLate(j, late) == [j EXCEPT !.late = late]

LEMMA ReportFits ==
  ASSUME LaunchInv, NEW w \in Workspaces, Report(w)
  PROVE  LaunchInv'
<1> DEFINE j == jobs[w].agent
<1>1. LaunchTypes /\ Fits(w)
  BY DEF LaunchInv
<1>2. /\ j \in LaunchJobs /\ j.at = "running" /\ title[w] \in ShownStates
      /\ forgotten[w] \in Nat /\ talks[TalksDir(w)] \in Talks
  BY <1>1, TypesAt DEF Report, Runs
<1>3. TalksFit(w, j, forgotten[w], talks[TalksDir(w)]) /\ JobFits(w, j, jobs[w].artifacts, homes[w])
  BY <1>1 DEF Fits
<1>4. PICK end \in Ends(j) :
        /\ Emitted(w, "busy", end)
        /\ jobs' = [jobs EXCEPT ![w] = [@ EXCEPT !["agent"] = JobLate(j, LateAfter(j, "busy", end))]]
  BY DEF Report, Job, JobLate
<1>5. UNCHANGED <<world, settings, homes, talks, launches, forgotten>>
  BY DEF Report
<1>6. PICK late \in SUBSET ShownStates : late = LateAfter(j, "busy", end)
  BY <1>2, <1>4, LateIsLate DEF ShownStates
<1>7. "busy" \in ShownStates /\ title' = [title EXCEPT ![w] = "busy"]
  BY <1>4, EmittedShows DEF ShownStates
<1> DEFINE k == JobLate(j, late)
<1>8. /\ forgotten' = [forgotten EXCEPT ![w] = forgotten[w]] /\ talks' = [talks EXCEPT ![TalksDir(w)] = talks[TalksDir(w)]]
  BY <1>1, <1>5, Kept
<1>9. j.id \in Nat /\ launches \in Nat
  BY <1>1, <1>2 DEF LaunchJobs, LaunchTypes
<1>10. jobs' = [jobs EXCEPT ![w] = [@ EXCEPT !["agent"] = k]]
  BY <1>4, <1>6
<1> HIDE DEF j
<1>11. /\ k \in LaunchJobs /\ k.at = "running" /\ k.id = j.id /\ k.alone = j.alone /\ k.resume = j.resume
       /\ k.talk = j.talk /\ k.text = j.text /\ k.auth = j.auth
  BY ONLY <1>2, late \in SUBSET ShownStates DEF JobLate, LaunchJobs
<1> HIDE DEF k
<1>12. JobFits(w, k, jobs[w].artifacts, homes[w])
  BY <1>2, <1>3, <1>11 DEF JobFits, HomeFits
<1>13. ShownFits(k, "busy")
  BY <1>11 DEF ShownFits
<1>14. k.id <= launches' /\ forgotten[w] <= launches' /\ (k.at # "off" => forgotten[w] <= k.id)
  BY <1>2, <1>3, <1>5, <1>9, <1>11 DEF TalksFit
<1>15. Own(w) => /\ \A i \in 1..Len(talks[TalksDir(w)]) : talks[TalksDir(w)][i].id >= forgotten[w]
                 /\ k.at = "running" => k.talk >= forgotten[w]
  BY <1>2, <1>3, <1>11 DEF TalksFit
<1>16. launches' \in Nat /\ launches' >= launches
  BY <1>5, <1>9
<1>17. QED BY <1>2, <1>5, <1>7, <1>8, <1>10, <1>11, <1>12, <1>13, <1>14, <1>15, <1>16, AgentStep

JobAgain(j, late) == [j EXCEPT !.at = "spawn", !.resume = FALSE, !.late = late]

LEMMA ExitFits ==
  ASSUME LaunchInv, NEW w \in Workspaces, Exit(w)
  PROVE  LaunchInv'
<1> DEFINE j == jobs[w].agent
<1>1. LaunchTypes /\ Fits(w)
  BY DEF LaunchInv
<1>2. /\ j \in LaunchJobs /\ j.at = "running" /\ title[w] \in ShownStates
      /\ forgotten[w] \in Nat /\ talks[TalksDir(w)] \in Talks
  BY <1>1, TypesAt DEF Exit, Runs
<1>3. TalksFit(w, j, forgotten[w], talks[TalksDir(w)]) /\ JobFits(w, j, jobs[w].artifacts, homes[w])
  BY <1>1 DEF Fits
<1>4. PICK ok \in BOOLEAN, end \in Ends(j) :
        /\ Emitted(w, "idle", end)
        /\ jobs' = [jobs EXCEPT ![w] = [@ EXCEPT !["agent"] =
                      IF ok \/ ~j.resume THEN NoJob ELSE JobAgain(j, LateAfter(j, "idle", end))]]
  BY DEF Exit, Job, JobAgain
<1>5. UNCHANGED <<world, settings, homes, talks, launches, forgotten>>
  BY DEF Exit
<1>6. PICK late \in SUBSET ShownStates : late = LateAfter(j, "idle", end)
  BY <1>2, <1>4, LateIsLate DEF ShownStates
<1> DEFINE k == IF ok \/ ~j.resume THEN NoJob ELSE JobAgain(j, late)
<1>7. "idle" \in ShownStates /\ title' = [title EXCEPT ![w] = "idle"]
  BY <1>4, EmittedShows DEF ShownStates
<1>8. /\ forgotten' = [forgotten EXCEPT ![w] = forgotten[w]] /\ talks' = [talks EXCEPT ![TalksDir(w)] = talks[TalksDir(w)]]
  BY <1>1, <1>5, Kept
<1>9. j.id \in Nat /\ launches \in Nat
  BY <1>1, <1>2 DEF LaunchJobs, LaunchTypes
<1>10. jobs' = [jobs EXCEPT ![w] = [@ EXCEPT !["agent"] = k]]
  BY <1>4, <1>6
<1> HIDE DEF j
<1>11. /\ JobAgain(j, late) \in LaunchJobs /\ JobAgain(j, late).at = "spawn" /\ JobAgain(j, late).id = j.id
       /\ JobAgain(j, late).alone = j.alone /\ JobAgain(j, late).resume = FALSE
  BY ONLY <1>2, late \in SUBSET ShownStates DEF JobAgain, LaunchJobs
<1>12. \/ k = NoJob
       \/ k = JobAgain(j, late) /\ Claude(w)
  BY <1>3 DEF JobFits
<1> HIDE DEF k
<1>13. k \in LaunchJobs /\ k.at \in {"off", "spawn"} /\ k.resume = FALSE
  BY <1>11, <1>12, NoJobFits
<1>14. k = NoJob \/ (k.id = j.id /\ k.alone = j.alone /\ Claude(w))
  BY <1>11, <1>12
<1>15. JobFits(w, k, jobs[w].artifacts, homes[w])
  BY <1>2, <1>3, <1>13, <1>14, NoJobFits DEF JobFits, HomeFits
<1>16. ShownFits(k, "idle")
  BY <1>13 DEF ShownFits
<1>17. k.id <= launches' /\ forgotten[w] <= launches' /\ (k.at # "off" => forgotten[w] <= k.id)
  BY <1>2, <1>3, <1>5, <1>9, <1>14, NoJobFits DEF TalksFit
<1>18. Own(w) => /\ \A i \in 1..Len(talks[TalksDir(w)]) : talks[TalksDir(w)][i].id >= forgotten[w]
                 /\ k.at = "running" => k.talk >= forgotten[w]
  BY <1>3, <1>13 DEF TalksFit
<1>19. launches' \in Nat /\ launches' >= launches
  BY <1>5, <1>9
<1>20. QED BY <1>2, <1>5, <1>7, <1>8, <1>10, <1>13, <1>15, <1>16, <1>17, <1>18, <1>19, AgentStep

LEMMA KillFits ==
  ASSUME LaunchInv, NEW w \in Workspaces, NEW role \in Roles, Kill(w, role)
  PROVE  LaunchInv'
<1>1. LaunchTypes /\ Fits(w)
  BY DEF LaunchInv
<1>2. /\ homes[w] \in Homes /\ forgotten[w] \in Nat /\ talks[TalksDir(w)] \in Talks
  BY <1>1, TypesAt
<1>3. /\ jobs[w][role].at # "off"
      /\ jobs' = [jobs EXCEPT ![w] = [@ EXCEPT ![role] = NoJob]]
      /\ UNCHANGED <<world, settings, homes, talks, launches, forgotten>>
  BY DEF Kill, At, Job, Fails
<1>4. NoJob \in LaunchJobs /\ JobFits(w, NoJob, jobs[w].artifacts, homes[w])
  BY NoJobFits DEF JobFits, HomeFits
<1>5. CASE role = "agent"
  <2>1. title' = [title EXCEPT ![w] = "none"] /\ "none" \in ShownStates
    BY <1>5 DEF Kill, ShownStates
  <2>2. /\ forgotten' = [forgotten EXCEPT ![w] = forgotten[w]] /\ talks' = [talks EXCEPT ![TalksDir(w)] = talks[TalksDir(w)]]
    BY <1>1, <1>3, Kept
  <2>3. ShownFits(NoJob, "none")
    BY NoJobFits DEF ShownFits
  <2>4. launches \in Nat
    BY <1>1 DEF LaunchTypes
  <2>5. NoJob.id <= launches' /\ forgotten[w] <= launches' /\ (NoJob.at # "off" => forgotten[w] <= NoJob.id)
    BY <1>1, <1>3, <2>4, NoJobFits DEF Fits, TalksFit
  <2>6. Own(w) => /\ \A i \in 1..Len(talks[TalksDir(w)]) : talks[TalksDir(w)][i].id >= forgotten[w]
                  /\ NoJob.at = "running" => NoJob.talk >= forgotten[w]
    BY <1>1, NoJobFits DEF Fits, TalksFit
  <2>7. launches' \in Nat /\ launches' >= launches
    BY <1>3, <2>4
  <2>8. jobs' = [jobs EXCEPT ![w] = [@ EXCEPT !["agent"] = NoJob]]
    BY <1>3, <1>5
  <2>9. QED BY <1>2, <1>3, <1>4, <2>1, <2>2, <2>3, <2>5, <2>6, <2>7, <2>8, AgentStep
<1>6. CASE role = "artifacts"
  <2>1. title' = title
    BY <1>6 DEF Kill
  <2>2. homes' = [homes EXCEPT ![w] = homes[w]]
    BY <1>1, <1>3, SameHome
  <2>3. role # "agent"
    BY <1>6
  <2>4. QED BY <1>2, <1>3, <1>4, <2>1, <2>2, <2>3, PrepareStep
<1>7. QED BY <1>5, <1>6 DEF Roles

JobShared(j) == [j EXCEPT !.alone = FALSE]

LEMMA RefreshFits ==
  ASSUME LaunchInv, NEW w \in Workspaces, Refresh(w)
  PROVE  LaunchInv'
<1> DEFINE j == jobs[w].agent
           k == JobShared(j)
           begun == JobAt(NoJob, "begun")
<1>1. LaunchTypes /\ Fits(w)
  BY DEF LaunchInv
<1>2. j \in LaunchJobs /\ jobs[w] \in [Roles -> LaunchJobs]
  BY <1>1, TypesAt
<1>3. UNCHANGED <<world, settings, homes, talks, title, launches, forgotten>>
  BY DEF Refresh
<1>4. jobs' = [jobs EXCEPT ![w] = [[@ EXCEPT !["artifacts"] = begun] EXCEPT !["agent"] = k]]
  <2>1. jobs' = [jobs EXCEPT ![w].artifacts = [NoJob EXCEPT !.at = "begun"], ![w].agent.alone = FALSE]
    BY DEF Refresh
  <2>2. jobs \in [Workspaces -> [Roles -> LaunchJobs]]
    BY <1>1 DEF LaunchTypes
  <2>3. QED BY <2>1, <2>2 DEF JobAt, JobShared, Roles
<1> HIDE DEF j
<1>5. /\ k \in LaunchJobs /\ k.at = j.at /\ k.id = j.id /\ k.alone = FALSE /\ k.resume = j.resume
      /\ k.talk = j.talk
  BY ONLY <1>2 DEF JobShared, LaunchJobs
<1>6. begun \in LaunchJobs
  BY JobAtIsJob, NoJobFits
<1> HIDE DEF k, begun
<1>7. /\ jobs' \in [Workspaces -> [Roles -> LaunchJobs]] /\ jobs'[w].agent = k
      /\ \A v \in Workspaces \ {w} : jobs'[v] = jobs[v]
  BY <1>1, <1>4, <1>5, <1>6 DEF LaunchTypes, Roles
<1>8. LaunchTypes'
  BY <1>1, <1>3, <1>7 DEF LaunchTypes, TalksDirs, TalksDir
<1>9. JobFits(w, jobs[w].agent, jobs[w].artifacts, homes[w])'
  <2>1. j.resume => Claude(w)
    BY <1>1 DEF Fits, JobFits, j
  <2>2. Claude(w)' = Claude(w)
    BY <1>3 DEF Claude
  <2>3. QED BY <1>5, <1>7, <2>1, <2>2 DEF JobFits
<1>10. ShownFits(jobs[w].agent, title[w])'
  BY <1>1, <1>3, <1>5, <1>7 DEF Fits, ShownFits, j
<1>11. TalksFit(w, jobs[w].agent, forgotten[w], talks[TalksDir(w)])'
  <2>1. Own(w)' = Own(w) /\ TalksDir(w)' = TalksDir(w)
    BY <1>3 DEF Own, TalksDir
  <2>2. QED BY <1>1, <1>3, <1>5, <1>7, <2>1 DEF Fits, TalksFit, j
<1>12. Fits(w)'
  BY <1>9, <1>10, <1>11 DEF Fits
<1>13. launches' >= launches
  BY <1>1, <1>3 DEF LaunchTypes
<1>14. QED BY <1>3, <1>7, <1>8, <1>12, <1>13, OthersFit

LEMMA ReplaceAuthFits ==
  ASSUME LaunchInv, NEW w \in Workspaces, ReplaceAuth(w)
  PROVE  LaunchInv'
<1> DEFINE g == HomeWithAuth(homes[w], "file")
<1>1. LaunchTypes /\ Fits(w) /\ homes[w] \in Homes
  BY TypesAt DEF LaunchInv
<1>2. /\ homes' = [homes EXCEPT ![w] = g]
      /\ UNCHANGED <<world, settings, talks, jobs, title, launches, forgotten>>
  BY DEF ReplaceAuth, HomeWithAuth
<1>3. g \in Homes
  BY <1>1, HomeWithAuthIsHome DEF Auths
<1> HIDE DEF g
<1>4. homes' \in [Workspaces -> Homes] /\ homes'[w] = g /\ \A v \in Workspaces \ {w} : homes'[v] = homes[v]
  BY <1>1, <1>2, <1>3 DEF LaunchTypes
<1>5. LaunchTypes'
  BY <1>1, <1>2, <1>4 DEF LaunchTypes, TalksDirs, TalksDir
<1>6. JobFits(w, jobs[w].agent, jobs[w].artifacts, homes[w])'
  <2>1. jobs[w].agent.at = "running"
    BY DEF ReplaceAuth, At, Job
  <2>2. JobFits(w, jobs[w].agent, jobs[w].artifacts, homes[w])
    BY <1>1 DEF Fits
  <2>3. QED BY <1>2, <2>1, <2>2 DEF JobFits, HomeFits, Claude, GoodText
<1>7. ShownFits(jobs[w].agent, title[w])' /\ TalksFit(w, jobs[w].agent, forgotten[w], talks[TalksDir(w)])'
  BY <1>1, <1>2 DEF Fits, ShownFits, TalksFit, Own, TalksDir
<1>8. Fits(w)'
  BY <1>6, <1>7 DEF Fits
<1>9. launches' >= launches
  BY <1>1, <1>2 DEF LaunchTypes
<1>10. QED BY <1>2, <1>4, <1>5, <1>8, <1>9, OthersFit

LEMMA EditSettingsFits ==
  ASSUME LaunchInv, EditSettings
  PROVE  LaunchInv'
<1>1. LaunchTypes
  BY DEF LaunchInv
<1>2. settings = 1 /\ settings' = 2 /\ UNCHANGED <<world, homes, talks, jobs, title, launches, forgotten>>
  BY DEF EditSettings
<1>3. LaunchTypes'
  BY <1>1, <1>2 DEF LaunchTypes, TalksDirs, TalksDir
<1>4. \A text : GoodText(text) => GoodText(text)'
  BY <1>2 DEF GoodText
<1>5. ASSUME NEW w \in Workspaces PROVE Fits(w)'
  <2>1. Fits(w)
    BY DEF LaunchInv
  <2>2. JobFits(w, jobs[w].agent, jobs[w].artifacts, homes[w])'
    <3>1. Claude(w)' = Claude(w)
      BY <1>2 DEF Claude
    <3>2. JobFits(w, jobs[w].agent, jobs[w].artifacts, homes[w])
      BY <2>1 DEF Fits
    <3>3. QED BY <1>2, <1>4, <3>1, <3>2 DEF JobFits, HomeFits
  <2>3. ShownFits(jobs[w].agent, title[w])' /\ TalksFit(w, jobs[w].agent, forgotten[w], talks[TalksDir(w)])'
    BY <1>2, <2>1 DEF Fits, ShownFits, TalksFit, Own, TalksDir
  <2>4. QED BY <2>2, <2>3 DEF Fits
<1>6. QED BY <1>3, <1>5 DEF LaunchInv

LEMMA LaunchInvKept ==
  ASSUME LaunchInv, [LaunchNext]_launchVars
  PROVE  LaunchInv'
<1>1. CASE UNCHANGED launchVars
  BY <1>1 DEF launchVars, LaunchInv, LaunchTypes, TalksDirs, TalksDir, Fits, JobFits, HomeFits, ShownFits, TalksFit,
              GoodText, Own, TalksDir, Claude
<1>2. ASSUME NEW w \in Workspaces,
             Launch(w) \/ Refresh(w) \/ PrepareClaude(w) \/ Connect(w) \/ Spawn(w) \/ SpawnFails(w)
               \/ Report(w) \/ Exit(w) \/ ReplaceAuth(w)
      PROVE  LaunchInv'
  BY <1>2, LaunchFits, RefreshFits, PrepareClaudeFits, ConnectFits, SpawnFits, SpawnFailsFits,
         ReportFits, ExitFits, ReplaceAuthFits
<1>3. ASSUME NEW w \in Workspaces, NEW role \in Roles, Prepare(w, role) PROVE LaunchInv'
  BY <1>3, MakeHomeFits, ClearAuthFits, LinkAuthFits, TruncateConfigFits, WriteConfigFits DEF Prepare
<1>4. ASSUME NEW w \in Workspaces, NEW role \in Roles, Kill(w, role) PROVE LaunchInv'
  BY <1>4, KillFits
<1>5. CASE EditSettings
  BY <1>5, EditSettingsFits
<1>6. QED BY <1>1, <1>2, <1>3, <1>4, <1>5 DEF LaunchNext

\* Every launch may rely on what LaunchesAreSafe says: whatever the user's config.toml and
\* the project's providers, with any number of workspaces, launches, kills and directories.
THEOREM LaunchesHold == LaunchSpec => []LaunchesAreSafe
<1>1. LaunchInit => LaunchInv
  BY LaunchInvInit
<1>2. LaunchInv /\ [LaunchNext]_launchVars => LaunchInv'
  BY LaunchInvKept
<1>3. LaunchInv => LaunchesAreSafe
  BY LaunchInvEnough
<1>4. QED BY <1>1, <1>2, <1>3, PTL DEF LaunchSpec
=============================================================================
