------------------------------ MODULE Registry ------------------------------
(***************************************************************************)
(* What ApplianceRepository (src/fixit_mcp/repository/base.py) promises    *)
(* its callers about one household, whatever stores it.  Several processes *)
(* (server microVMs, the seeding script) call the same store at once, so a *)
(* call is not a point in time but a window: `span` remembers what was     *)
(* owned all through it, what was owned at some moment of it, and what was *)
(* stored during it.  An answer is right when some moment of the window    *)
(* explains it, one appliance at a time; no call promises a snapshot of    *)
(* the whole household.                                                    *)
(***************************************************************************)
CONSTANTS
  Callers,      \* the processes that call the repository
  Appliances,   \* appliance ids
  None          \* the id of a listing

VARIABLES
  owned,   \* the ids the household owns
  call,    \* call[c]: the operation of c, its argument and its answer
  span,    \* span[c]: what happened to the household since c's call began
  late     \* writes whose caller was told they failed and that may yet land

vars == <<owned, call, span, late>>

Operations == {"list", "add", "remove"}
Says(word)      == [says |-> word, ids |-> {}]
Reports(ids)    == [says |-> "ids", ids |-> ids]
Waiting         == Says("waiting")
Answers         == {Says(word) : word \in {"ok", "true", "false", "error"}}
                     \cup {Reports(ids) : ids \in SUBSET Appliances}
Calls      == [op : Operations \cup {None}, id : Appliances \cup {None}, answer : Answers \cup {Waiting}]
Windows    == [always : SUBSET Appliances, ever : SUBSET Appliances, joined : SUBSET Appliances]
Writes     == [op : {"add", "remove"}, id : Appliances]

NoCall   == [op |-> None, id |-> None, answer |-> Says("ok")]
Empty    == [always |-> {}, ever |-> {}, joined |-> {}]
Running(c) == call[c].answer = Waiting

(* Every window when the household becomes `after`, the ids of `stored`    *)
(* having just been written (again, perhaps).                              *)
Watched(windows, after, stored) ==
  [c \in DOMAIN windows |->
     [always |-> windows[c].always \cap after,
      ever   |-> windows[c].ever \cup after,
      joined |-> windows[c].joined \cup stored]]

(* The ids a listing has no excuse to miss. *)
Steady(w) == w.always \ w.joined

Init ==
  /\ owned \in SUBSET Appliances
  /\ call = [c \in Callers |-> NoCall]
  /\ span = [c \in Callers |-> Empty]
  /\ late = {}

Invoke(c, op, id) ==
  /\ ~Running(c)
  /\ (op = "list") <=> (id = None)
  /\ call' = [call EXCEPT ![c] = [op |-> op, id |-> id, answer |-> Waiting]]
  /\ span' = [span EXCEPT ![c] = [always |-> owned, ever |-> owned, joined |-> {}]]
  /\ UNCHANGED <<owned, late>>

Effect(w) ==
  /\ owned' \in IF w.op = "add" THEN {owned \cup {w.id}} ELSE {owned, owned \ {w.id}}
  /\ span' = Watched(span, owned', IF w.op = "add" THEN {w.id} ELSE {})

(* The write of a running call lands. *)
Land(c) ==
  /\ Running(c) /\ call[c].op # "list"
  /\ Effect(call[c])
  /\ UNCHANGED <<call, late>>

(* The write of a call that was reported failed lands after all. *)
LandLate ==
  \E w \in late :
    /\ Effect(w)
    /\ late' \in {late, late \ {w}}
    /\ UNCHANGED call

Explains(w, op, id, answer) ==
  \/ /\ op = "list" /\ answer.says = "ids"
     /\ Steady(w) \subseteq answer.ids /\ answer.ids \subseteq w.ever
  \/ op = "add"    /\ answer.says = "ok"    /\ id \in w.ever
  \/ op = "remove" /\ answer.says = "true"  /\ id \in w.ever /\ (id \in owned => id \in w.joined)
  \/ op = "remove" /\ answer.says = "false" /\ id \notin Steady(w)

Return(c) ==
  /\ Running(c)
  /\ \E answer \in Answers \ {Says("error")} :
       /\ Explains(span[c], call[c].op, call[c].id, answer)
       /\ call' = [call EXCEPT ![c].answer = answer]
  /\ UNCHANGED <<owned, span, late>>

Fail(c) ==
  /\ Running(c)
  /\ call' = [call EXCEPT ![c].answer = Says("error")]
  /\ late' \in {late} \cup
       IF call[c].op = "list" THEN {} ELSE {late \cup {[op |-> call[c].op, id |-> call[c].id]}}
  /\ UNCHANGED <<owned, span>>

Next ==
  \/ \E c \in Callers :
       \/ \E op \in Operations, id \in Appliances \cup {None} : Invoke(c, op, id)
       \/ Land(c)
       \/ Return(c)
       \/ Fail(c)
  \/ LandLate

Spec == Init /\ [][Next]_vars

TypeOK ==
  /\ owned \subseteq Appliances
  /\ call \in [Callers -> Calls]
  /\ span \in [Callers -> Windows]
  /\ late \subseteq Writes
=============================================================================
