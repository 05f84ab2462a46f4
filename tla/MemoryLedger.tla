---------------------------- MODULE MemoryLedger ----------------------------
(* What the durable memory store promises its callers (the comment on top of  *)
(* memory.rs): a memory and the supersede marks it sets appear together or    *)
(* not at all, a caller hears "ok" only about a memory that is stored and     *)
(* "error" only about one that is not, and a restart changes nothing.         *)
EXTENDS Naturals

CONSTANTS Callers, Ids, NoId

VARIABLES stored,  \* the memories: a function from some Ids to Memory
          phase    \* per caller: "idle", "asked" or "stored"

vars == <<stored, phase>>

(* The stamps of an entry are the Id of the call that set them.               *)
Memory == [topic : {"a", "b"}, supersedes : SUBSET Ids,
           by : Ids \cup {NoId}, at : Ids]

Init ==
    /\ stored = [i \in {} |-> NoId]
    /\ phase = [p \in Callers |-> "idle"]

Ask(p) ==
    /\ phase[p] = "idle"
    /\ phase' = [phase EXCEPT ![p] = "asked"]
    /\ UNCHANGED stored

(* Only memories that exist and are not superseded yet can be superseded.     *)
Store(p, id, topic, olds) ==
    /\ phase[p] = "asked"
    /\ \A o \in olds : stored[o].by = NoId
    /\ stored' = [i \in DOMAIN stored \cup {id} |->
                     IF i = id THEN [topic |-> topic, supersedes |-> olds,
                                     by |-> NoId, at |-> id]
                     ELSE IF i \in olds THEN [stored[i] EXCEPT !.by = id, !.at = id]
                     ELSE stored[i]]
    /\ phase' = [phase EXCEPT ![p] = "stored"]

AnswerOk(p) ==
    /\ phase[p] = "stored"
    /\ phase' = [phase EXCEPT ![p] = "idle"]
    /\ UNCHANGED stored

AnswerError(p) ==
    /\ phase[p] = "asked"
    /\ phase' = [phase EXCEPT ![p] = "idle"]
    /\ UNCHANGED stored

(* The daemon dies: nobody is answered, what is stored stays.                 *)
Crash ==
    /\ phase' = [p \in Callers |-> "idle"]
    /\ UNCHANGED stored

Next ==
    \/ \E p \in Callers :
          \/ Ask(p) \/ AnswerOk(p) \/ AnswerError(p)
          \/ \E id \in Ids \ DOMAIN stored, topic \in {"a", "b"} :
                \E olds \in SUBSET DOMAIN stored : Store(p, id, topic, olds)
    \/ Crash

Spec == Init /\ [][Next]_vars
=============================================================================
