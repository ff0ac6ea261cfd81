--------------------------- MODULE MemoryRegistry ---------------------------
(***************************************************************************)
(* The registry on AgentCore Memory, one household of it                   *)
(* (repository/agentcore_memory.py), as server processes and runs of       *)
(* scripts/seed_agentcore_memory.py use it at the same time.  The store is *)
(* a set of events, several of which may describe the same appliance.  A   *)
(* listing reads pages, newest event first; a remove is a listing followed *)
(* by one DeleteEvent for each event found; an add is one CreateEvent.     *)
(* Every one of these requests can fail, whether or not the service        *)
(* carried it out, and a request abandoned after the client's read timeout *)
(* may be carried out later still.                                         *)
(*                                                                         *)
(* `call` and `span` are those of Registry; span and `since` are history.  *)
(***************************************************************************)
EXTENDS Integers, FiniteSets, FiniteSetsExt, Functions

CONSTANTS
  Servers, Seeders,    \* server processes; runs of the seeding script
  Seeds, Added,        \* ids of DEFAULT_SEED; ids add_appliance may draw
  None,
  PageSize,            \* _LIST_PAGE_SIZE
  MaxCalls,            \* bound: calls one server makes
  MaxEvents,           \* bound: events ever created
  MaxLate              \* bound: abandoned requests outstanding at once

ASSUME SizesAssumption == {PageSize, MaxCalls, MaxEvents, MaxLate} \subseteq Nat /\ PageSize > 0
ASSUME IdsAssumption ==
  /\ Seeds \cap Added = {} /\ Servers \cap Seeders = {}
  /\ None \notin Seeds \cup Added \cup {"list", "add", "remove"}
  /\ IsFiniteSet(Seeds \cup Added) /\ Cardinality(Seeds \cup Added) <= MaxEvents

VARIABLES
  events,    \* live events: their creation number and the appliance they hold
  created,   \* events ever created
  late,      \* abandoned requests the service may still carry out
  call, span,
  io,        \* io[c]: how far the AWS calls of c's repository call have come
  issued,    \* ids add_appliance has drawn
  made,      \* calls each server has made
  plan,      \* plan[s]: where seeding run s is and the ids it still has to do
  since      \* since[s]: ids stored since run s began, ids lost since it looked

vars == <<events, created, late, call, span, io, issued, made, plan, since>>

Callers    == Servers \cup Seeders
Appliances == Seeds \cup Added
Owned(evs) == {e.id : e \in evs}

R == INSTANCE Registry WITH
       owned <- Owned(events),
       late  <- {[op |-> w.op, id |-> w.event.id] : w \in late}

Idle == [doing |-> "nothing", cursor |-> 0, found |-> {}, request |-> "none"]

Init ==
  /\ \E ids \in SUBSET Appliances :
       /\ \E order \in Bijection(ids, 1..Cardinality(ids)) :
            events = {[no |-> order[i], id |-> i] : i \in ids}
       /\ created = Cardinality(ids)
       /\ issued = ids \cap Added
  /\ late = {}
  /\ call = [c \in Callers |-> R!NoCall]
  /\ span = [c \in Callers |-> R!Empty]
  /\ io = [c \in Callers |-> Idle]
  /\ made = [s \in Servers |-> 0]
  /\ plan \in [Seeders -> [stage : {"start"}, reset : BOOLEAN, todo : {{}}]]
  /\ since = [s \in Seeders |-> [stored |-> {}, lost |-> {}]]

-----------------------------------------------------------------------------
(* The store. *)

Becomes(evs, stored) ==
  /\ events' = evs
  /\ span' = R!Watched(span, Owned(evs), stored)
  /\ since' = [s \in Seeders |->
                 [stored |-> since[s].stored \cup stored,
                  lost   |-> since[s].lost \cup (Owned(events) \ Owned(evs))]]

Create(id) ==
  /\ created < MaxEvents
  /\ created' = created + 1
  /\ Becomes(events \cup {[no |-> created + 1, id |-> id]}, {id})

Delete(e) == Becomes(events \ {e}, {}) /\ UNCHANGED created

Newest(evs) == CHOOSE e \in evs : \A f \in evs : f.no <= e.no

(* One page of ListEvents: the newest events older than the cursor. *)
Older(cursor) == {e \in events : e.no < cursor}
Page(cursor)  == {e \in Older(cursor) : Cardinality({f \in Older(cursor) : f.no > e.no}) < PageSize}

-----------------------------------------------------------------------------
(* The repository's three calls. *)

Begin(c, op, id) ==
  /\ call' = [call EXCEPT ![c] = [op |-> op, id |-> id, answer |-> R!Waiting]]
  /\ span' = [span EXCEPT ![c] = [always |-> Owned(events), ever |-> Owned(events), joined |-> {}]]
  /\ io' = [io EXCEPT ![c] =
       IF op = "add"
       THEN [doing |-> "create", cursor |-> 0, found |-> {[no |-> 0, id |-> id]}, request |-> "sent"]
       ELSE [doing |-> "list", cursor |-> created + MaxEvents + 1, found |-> {}, request |-> "none"]]
  /\ UNCHANGED <<events, created, late>>

AnswerAndCallOn(c, value) ==
  /\ call' = [call EXCEPT ![c].answer = value]
  /\ UNCHANGED io

Answer(c, value) ==
  /\ call' = [call EXCEPT ![c].answer = value]
  /\ io' = [io EXCEPT ![c] = Idle]

Rest == UNCHANGED <<issued, made, plan>>

(* ListEvents follows nextToken to the last page (_list_events). *)
ReadPage(c) ==
  /\ io[c].doing = "list"
  /\ LET page  == Page(io[c].cursor)
         found == io[c].found \cup page
         mine  == {e \in found : e.id = call[c].id}
     IN \/ /\ page # Older(io[c].cursor)
           /\ io' = [io EXCEPT ![c].found = found, ![c].cursor = Min({e.no : e \in page})]
           /\ UNCHANGED call
        \/ /\ page = Older(io[c].cursor)
           /\ \/ call[c].op = "list" /\ Answer(c, R!Reports(Owned(found)))
              \/ call[c].op = "remove" /\ mine = {} /\ Answer(c, R!Says("false"))
              \/ /\ call[c].op = "remove" /\ mine # {}
                 /\ io' = [io EXCEPT ![c] = [doing |-> "delete", cursor |-> 0, found |-> mine, request |-> "sent"]]
                 /\ UNCHANGED call
  /\ UNCHANGED <<events, created, late, span, since>> /\ Rest

(* The service carries out the request c waits for. *)
Land(c) ==
  /\ io[c].request = "sent"
  /\ \/ io[c].doing = "create" /\ Create(call[c].id)
     \/ io[c].doing = "delete" /\ Delete(Newest(io[c].found))
  /\ io' = [io EXCEPT ![c].request = "landed"]
  /\ UNCHANGED <<late, call>> /\ Rest

(* Its response arrives: the add is over, the remove goes on to its next   *)
(* event.                                                                  *)
Respond(c) ==
  /\ io[c].request = "landed"
  /\ LET left == io[c].found \ {Newest(io[c].found)} IN
       \/ io[c].doing = "create" /\ Answer(c, R!Says("ok"))
       \/ io[c].doing = "delete" /\ left = {} /\ Answer(c, R!Says("true"))
       \/ /\ io[c].doing = "delete" /\ left # {}
          /\ io' = [io EXCEPT ![c].found = left, ![c].request = "sent"]
          /\ UNCHANGED call
  /\ UNCHANGED <<events, created, late, span, since>> /\ Rest

FailAsEmpty(c) ==
  /\ io[c].doing # "nothing"
  /\ Answer(c, IF call[c].op = "list" THEN R!Reports({}) ELSE R!Says("error"))
  /\ UNCHANGED <<events, created, late, span, since>> /\ Rest

(* The AWS call raises: throttled, refused, or no response in time on      *)
(* either attempt, in which case the request may be carried out later.     *)
Fail(c) ==
  /\ io[c].doing # "nothing"
  /\ Answer(c, R!Says("error"))
  /\ \/ UNCHANGED late
     \/ /\ io[c].request = "sent" /\ Cardinality(late) < MaxLate
        /\ late' = late \cup {[op |-> call[c].op, event |-> Newest(io[c].found)]}
  /\ UNCHANGED <<events, created, span, since>> /\ Rest

LandLate ==
  \E w \in late :
    /\ \/ w.op = "add" /\ Create(w.event.id)
       \/ w.op = "remove" /\ Delete(w.event)
    /\ late' = late \ {w}
    /\ UNCHANGED <<call, io>> /\ Rest

-----------------------------------------------------------------------------
(* Their callers. *)

(* The three registry tools; add_appliance draws a fresh id each time. *)
Tool(s) ==
  /\ ~R!Running(s) /\ made[s] < MaxCalls
  /\ made' = [made EXCEPT ![s] = @ + 1]
  /\ \/ Begin(s, "list", None) /\ UNCHANGED issued
     \/ \E id \in Appliances : Begin(s, "remove", id) /\ UNCHANGED issued
     \/ \E id \in Added \ issued : Begin(s, "add", id) /\ issued' = issued \cup {id}
  /\ UNCHANGED <<plan, since>>

Goes(s, stage, todo) == plan' = [plan EXCEPT ![s].stage = stage, ![s].todo = todo]

(* Run s lists the household to see which seeds are missing. *)
Look(s) ==
  /\ Begin(s, "list", None) /\ Goes(s, "looking", {})
  /\ since' = [since EXCEPT ![s].lost = {}]

Do(s, op, stage, ids) ==
  \E id \in ids : Begin(s, op, id) /\ Goes(s, stage, ids \ {id}) /\ UNCHANGED since

ClearSeedsOnly(s, ids) ==
  IF ids \cap Seeds = {} THEN Look(s) ELSE Do(s, "remove", "clearing", ids \cap Seeds)

Clear(s, ids) == IF ids = {} THEN Look(s) ELSE Do(s, "remove", "clearing", ids)

StopAsDone(s, stage) == Goes(s, "done", {}) /\ UNCHANGED <<events, created, late, call, span, io, since>>

Stop(s, stage) == Goes(s, stage, {}) /\ UNCHANGED <<events, created, late, call, span, io, since>>

Fill(s, ids) == IF ids = {} THEN Stop(s, "done") ELSE Do(s, "add", "filling", ids)

(* seed_demo_households, each step ending where the next repository call begins. *)
Seed(s) ==
  /\ ~R!Running(s)
  /\ UNCHANGED <<issued, made>>
  /\ LET answer == call[s].answer
         stage  == plan[s].stage
     IN \/ /\ stage = "start" /\ plan[s].reset
           /\ Begin(s, "list", None) /\ Goes(s, "listing", {})
           /\ since' = [since EXCEPT ![s].stored = {}]
        \/ /\ stage = "start" /\ ~plan[s].reset /\ Look(s)
        \/ stage \notin {"start", "done", "raised"} /\ answer = R!Says("error") /\ Stop(s, "raised")
        \/ stage = "listing"  /\ answer # R!Says("error") /\ Clear(s, answer.ids)
        \/ stage = "clearing" /\ answer # R!Says("error") /\ Clear(s, plan[s].todo)
        \/ stage = "looking"  /\ answer # R!Says("error") /\ Fill(s, Seeds \ answer.ids)
        \/ stage = "filling"  /\ answer # R!Says("error") /\ Fill(s, plan[s].todo)

Next ==
  \/ \E c \in Callers : ReadPage(c) \/ Land(c) \/ Respond(c) \/ Fail(c)
  \/ LandLate
  \/ \E s \in Servers : Tool(s)
  \/ \E s \in Seeders : Seed(s)

Spec == Init /\ [][Next]_vars

-----------------------------------------------------------------------------
Events == [no : 0..MaxEvents, id : Appliances]

(* Every variable keeps its type, and AWS is only called for a call that runs. *)
TypeOK ==
  /\ R!TypeOK
  /\ events \subseteq Events /\ created \in 0..MaxEvents
  /\ late \subseteq [op : {"add", "remove"}, event : Events]
  /\ \A c \in Callers :
       /\ io[c].doing \in {"nothing", "list", "create", "delete"}
       /\ io[c].request \in {"none", "sent", "landed"}
       /\ io[c].doing = "nothing" <=> ~R!Running(c)
       /\ io[c].found \subseteq Events /\ io[c].cursor \in Nat
  /\ issued \subseteq Added /\ made \in [Servers -> 0..MaxCalls]
  /\ \A s \in Seeders :
       /\ plan[s].stage \in {"start", "listing", "clearing", "looking", "filling", "done", "raised"}
       /\ plan[s].todo \subseteq Appliances
       /\ since[s] \in [stored : SUBSET Appliances, lost : SUBSET Appliances]

Finishes(s) == plan'[s].stage = "done" /\ plan[s].stage # "done"

(* The protocol of repository/base.py, for every interleaving of pages,    *)
(* single deletions, abandoned requests and duplicate events: a listing    *)
(* reports an appliance that stayed and none that was never there, an add  *)
(* that returned was stored, a remove says True only of an appliance that  *)
(* is gone unless it was stored again meanwhile, and False only of one     *)
(* that was missing at some moment.                                        *)
ImplementsRegistry == R!Spec

(* A run of the seeding script that returns leaves every demo appliance in *)
(* the household, but for those another caller removed after it looked.    *)
SeedRunComplete ==
  [][\A s \in Seeders : Finishes(s) => Seeds \subseteq Owned(events)' \cup since[s].lost]_vars

(* --reset removes every appliance the household had when the run began:   *)
(* what is left besides the demo appliances was stored during the run.     *)
ResetClears ==
  [][\A s \in Seeders : Finishes(s) /\ plan[s].reset
        => Owned(events)' \ Seeds \subseteq since[s].stored]_vars
=============================================================================
