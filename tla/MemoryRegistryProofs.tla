------------------------- MODULE MemoryRegistryProofs -------------------------
(***************************************************************************)
(* The registry on AgentCore Memory keeps the promises of Registry, and a  *)
(* run of the seeding script does what it says, for any number of servers, *)
(* runs, appliances, events and failures, and pages of any size.           *)
(***************************************************************************)
EXTENDS MemoryRegistry, Induction

(***************************************************************************)
(* Where the AWS calls of a repository call are                            *)
(***************************************************************************)
Stages == {"start", "listing", "clearing", "looking", "filling", "done", "raised"}

Io ==
  [doing : {"nothing", "list", "create", "delete"}, cursor : Nat, found : SUBSET Events,
   request : {"none", "sent", "landed"}]

Types ==
  /\ events \subseteq Events /\ created \in 0 .. MaxEvents
  /\ late \subseteq [op : {"add", "remove"}, event : Events]
  /\ call \in [Callers -> R!Calls] /\ span \in [Callers -> R!Windows] /\ io \in [Callers -> Io]
  /\ issued \subseteq Added /\ made \in [Servers -> 0 .. MaxCalls]
  /\ plan \in [Seeders -> [stage : Stages, reset : BOOLEAN, todo : SUBSET Appliances]]
  /\ since \in [Seeders -> [stored : SUBSET Appliances, lost : SUBSET Appliances]]

(* The service numbers events as it creates them.                          *)
Numbered ==
  /\ IsFiniteSet(events) /\ \A e \in events : e.no <= created
  /\ \A c \in Callers : \A e \in io[c].found : e.no <= created

(* What a window says of the household while its call runs, and after.     *)
Window(c) ==
  /\ span[c].always \subseteq Owned(events)
  /\ call[c].op # None =>
       Owned(events) \subseteq (span[c].always \cup span[c].joined) \cap span[c].ever

(* What c is after: a listing has still to read what it has not found, a   *)
(* remove has still to delete what is left.                                *)
Doing(c) ==
  LET id == call[c].id
      left == {e \in events : e.id \notin span[c].joined /\ e \notin io[c].found}
  IN  /\ io[c].doing = "nothing" <=> ~R!Running(c)
      /\ io[c].doing = "list" =>
           /\ call[c].op \in {"list", "remove"} /\ io[c].request = "none"
           /\ Owned(io[c].found) \subseteq span[c].ever
           /\ \A e \in left : e.no < io[c].cursor
      /\ io[c].doing = "create" =>
           /\ call[c].op = "add" /\ io[c].request # "none"
           /\ io[c].found = {[no |-> 0, id |-> id]}
           /\ io[c].request = "landed" => id \in span[c].ever
      /\ io[c].doing = "delete" =>
           /\ call[c].op = "remove" /\ io[c].request # "none"
           /\ io[c].found # {} /\ Owned(io[c].found) = {id} /\ id \in span[c].ever
           /\ id \notin Owned(left)
           /\ io[c].request = "landed" => Newest(io[c].found) \notin events
      /\ io[c].doing = "nothing" => io[c].request = "none"

(* What an answer says, from the moment it was given on.                   *)
Answered(c) ==
  LET answer == call[c].answer
      id == call[c].id
  IN  /\ call[c].op \in {"add", "remove"} => id \in Appliances
      /\ answer.says \in
           {"waiting", "error"} \cup CASE call[c].op = "list" -> {"ids"}
                                           [] call[c].op = "add" -> {"ok"}
                                           [] call[c].op = "remove" -> {"true", "false"}
                                           [] OTHER -> {"ok"}
      /\ answer.says = "ids" => R!Steady(span[c]) \subseteq answer.ids /\ answer.ids \subseteq span[c].ever
      /\ answer.says \in {"true", "false"} => (id \in Owned(events) => id \in span[c].joined)

CallInv == \A c \in Callers : Window(c) /\ Doing(c) /\ Answered(c)

(***************************************************************************)
(* Where a run of the seeding script is                                    *)
(***************************************************************************)
Here(s) == Owned(events) \cup since[s].lost

(* The seed that is being added is in the household, or was.               *)
Filled(s) == io[s].request = "landed" \/ call[s].answer.says = "ok" => call[s].id \in Here(s)

Clearing(s) ==
  /\ plan[s].reset /\ span[s].joined \subseteq since[s].stored
  /\ plan[s].stage = "listing" => call[s].op = "list"
  /\ plan[s].stage = "clearing" =>
       /\ call[s].op = "remove"
       /\ Owned(events) \subseteq since[s].stored \cup plan[s].todo \cup {call[s].id}

Filling(s) ==
  /\ plan[s].reset => Owned(events) \subseteq since[s].stored
  /\ plan[s].stage = "looking" => call[s].op = "list" /\ span[s].ever \subseteq Here(s)
  /\ plan[s].stage = "filling" =>
       /\ call[s].op = "add" /\ Filled(s)
       /\ Seeds \subseteq plan[s].todo \cup {call[s].id} \cup Here(s)

Seeding(s) ==
  /\ plan[s].stage \in {"listing", "clearing"} => Clearing(s)
  /\ plan[s].stage \in {"looking", "filling"} => Filling(s)
  /\ plan[s].stage \in {"start", "done", "raised"} => ~R!Running(s)

SeedInv == \A s \in Seeders : Seeding(s)

(***************************************************************************)
(* Events and their numbers                                                *)
(***************************************************************************)
LEMMA SmallestIs ==
  ASSUME NEW S \in SUBSET Nat, S # {}
  PROVE  Min(S) \in S /\ \A y \in S : Min(S) <= y
<1>1. \E x \in S : \A y \in S : x <= y
  BY LeastExists
<1> QED
  BY <1>1 DEF Min

LEMMA NewestIs ==
  ASSUME NEW evs \in SUBSET Events, evs # {}
  PROVE  Newest(evs) \in evs /\ \A f \in evs : f.no <= Newest(evs).no
<1>0. MaxEvents \in Nat /\ \A e \in Events : e.no \in 0 .. MaxEvents
  BY SizesAssumption DEF Events
<1> DEFINE S == {MaxEvents - e.no : e \in evs}
<1>1. S \in SUBSET Nat /\ S # {}
  BY <1>0
<1>2. PICK x \in S : \A y \in S : x <= y
  BY <1>1, LeastExists
<1>3. PICK e \in evs : x = MaxEvents - e.no
  BY <1>2
<1>4. ASSUME NEW f \in evs
      PROVE  f.no <= e.no
  <2>1. MaxEvents - f.no \in S
    OBVIOUS
  <2>2. MaxEvents - e.no <= MaxEvents - f.no
    BY <1>2, <1>3, <2>1
  <2>3. f.no \in Nat /\ e.no \in Nat
    BY <1>0
  <2> QED
    BY <1>0, <2>2, <2>3
<1> HIDE DEF S
<1>5. \E g \in evs : \A f \in evs : f.no <= g.no
  BY <1>4
<1> QED
  BY <1>5 DEF Newest

(* A page that is not the last is of the newest events, and the next is of *)
(* those older than all of it.                                             *)
LEMMA PageIsNewest ==
  ASSUME events \in SUBSET Events, IsFiniteSet(events), NEW cursor \in Nat
  PROVE  /\ Page(cursor) \subseteq Older(cursor) /\ Older(cursor) \subseteq events
         /\ Page(cursor) # Older(cursor) =>
              /\ Min({e.no : e \in Page(cursor)}) \in Nat
              /\ \A f \in Older(cursor) \ Page(cursor) : f.no < Min({e.no : e \in Page(cursor)})
<1> DEFINE O == Older(cursor)
           P == Page(cursor)
           After(e) == {f \in O : f.no > e.no}
           S == {e.no : e \in P}
<1>0. MaxEvents \in Nat /\ \A e \in Events : e.no \in Nat
  BY SizesAssumption DEF Events
<1>1. P \subseteq O /\ O \subseteq events
  BY DEF Page, Older
<1>2. \A e \in O : e \in P <=> Cardinality(After(e)) < PageSize
  BY DEF Page
<1>3. \A e \in O : IsFiniteSet(After(e)) /\ Cardinality(After(e)) \in Nat
  <2> TAKE e \in O
  <2>1. After(e) \in SUBSET events
    BY <1>1
  <2> QED
    BY <2>1, FS_Subset, FS_CardinalityType
<1>4. PageSize \in Nat /\ PageSize > 0
  BY SizesAssumption
<1> SUFFICES ASSUME P # O
             PROVE  Min(S) \in Nat /\ \A f \in O \ P : f.no < Min(S)
  BY <1>1
<1>5. \A e, f \in O : e \in P /\ f \notin P => f.no < e.no
  <2> SUFFICES ASSUME NEW e \in O, NEW f \in O, e \in P, f \notin P, ~(f.no < e.no) PROVE FALSE
    OBVIOUS
  <2>1. e.no \in Nat /\ f.no \in Nat /\ e.no <= f.no
    BY <1>0, <1>1
  <2>2. After(f) \in SUBSET After(e)
    <3> SUFFICES ASSUME NEW g \in O, g.no > f.no PROVE g.no > e.no
      OBVIOUS
    <3>1. g.no \in Nat
      BY <1>0, <1>1
    <3> QED
      BY <2>1, <3>1
  <2>3. Cardinality(After(f)) <= Cardinality(After(e))
    BY <1>3, <2>2, FS_Subset
  <2>4. Cardinality(After(e)) < PageSize /\ ~(Cardinality(After(f)) < PageSize)
    BY <1>2
  <2> HIDE DEF After
  <2> QED
    BY <1>3, <1>4, <2>3, <2>4
<1>6. P # {}
  <2>1. O # {} /\ O \in SUBSET Events
    BY <1>1
  <2>2. PICK e \in O : \A f \in O : f.no <= e.no
    BY <2>1, NewestIs
  <2>3. After(e) = {}
    BY <1>0, <1>1, <2>2
  <2>4. Cardinality(After(e)) = 0
    BY <2>3, FS_EmptySet
  <2>5. e \in P
    BY <1>2, <1>4, <2>4
  <2> QED
    BY <2>5
<1>7. S \in SUBSET Nat /\ S # {}
  BY <1>0, <1>1, <1>6
<1>8. Min(S) \in S
  BY <1>7, SmallestIs
<1>9. PICK e \in P : Min(S) = e.no
  BY <1>8
<1> QED
  BY <1>1, <1>5, <1>7, <1>8, <1>9

(***************************************************************************)
(* The types are kept                                                      *)
(***************************************************************************)
LEMMA AnswerTypes ==
  /\ \A a \in R!Answers \cup {R!Waiting} :
       /\ a.ids \in SUBSET Appliances
       /\ a = R!Waiting <=> a.says = "waiting"
       /\ a = R!Says("error") <=> a.says = "error"
       /\ a.says = "ids" \/ a.ids = {}
  /\ \A word \in {"ok", "true", "false", "error"} : R!Says(word) \in R!Answers /\ R!Says(word).says = word
  /\ \A ids \in SUBSET Appliances :
       R!Reports(ids) \in R!Answers /\ R!Reports(ids).says = "ids" /\ R!Reports(ids).ids = ids
  /\ R!Waiting.says = "waiting" /\ R!Waiting.ids = {} /\ R!Waiting \notin R!Answers
<1>1. ASSUME NEW a \in R!Answers \cup {R!Waiting}
      PROVE  /\ a.ids \in SUBSET Appliances
             /\ a = R!Waiting <=> a.says = "waiting"
             /\ a = R!Says("error") <=> a.says = "error"
             /\ a.says = "ids" \/ a.ids = {}
  <2>1. CASE \E word \in {"ok", "true", "false", "error", "waiting"} : a = [says |-> word, ids |-> {}]
    BY <2>1 DEF R!Waiting, R!Says
  <2>2. CASE \E ids \in SUBSET Appliances : a = [says |-> "ids", ids |-> ids]
    BY <2>2 DEF R!Waiting, R!Says
  <2> QED
    BY <2>1, <2>2 DEF R!Answers, R!Waiting, R!Says, R!Reports
<1>2. \A word \in {"ok", "true", "false", "error"} : R!Says(word) \in R!Answers /\ R!Says(word).says = word
  BY DEF R!Answers, R!Says
<1>3. \A ids \in SUBSET Appliances :
         R!Reports(ids) \in R!Answers /\ R!Reports(ids).says = "ids" /\ R!Reports(ids).ids = ids
  BY DEF R!Answers, R!Reports
<1>4. R!Waiting.says = "waiting" /\ R!Waiting.ids = {} /\ R!Waiting \notin R!Answers
  BY DEF R!Answers, R!Waiting, R!Says, R!Reports
<1> QED
  BY <1>1, <1>2, <1>3, <1>4

LEMMA IdleTypes ==
  /\ Idle \in Io /\ Idle.doing = "nothing" /\ Idle.request = "none" /\ Idle.found = {}
  /\ R!NoCall \in R!Calls /\ R!NoCall.op = None /\ R!NoCall.answer = R!Says("ok")
  /\ R!Empty \in R!Windows
<1>1. R!Says("ok") \in R!Answers
  BY AnswerTypes
<1> QED
  BY <1>1 DEF Idle, Io, R!NoCall, R!Empty, R!Calls, R!Windows

LEMMA OwnedTypes ==
  ASSUME NEW evs \in SUBSET Events
  PROVE  Owned(evs) \in SUBSET Appliances
  BY DEF Owned, Events

(***************************************************************************)
(* What a request does to the store, and to every window on it             *)
(***************************************************************************)
Watches(stored) ==
  /\ span' \in [Callers -> R!Windows]
  /\ \A c \in Callers :
       /\ span'[c].always = span[c].always \cap Owned(events')
       /\ span'[c].ever = span[c].ever \cup Owned(events')
       /\ span'[c].joined = span[c].joined \cup stored
  /\ since' \in [Seeders -> [stored : SUBSET Appliances, lost : SUBSET Appliances]]
  /\ \A s \in Seeders :
       /\ since'[s].stored = since[s].stored \cup stored
       /\ since'[s].lost = since[s].lost \cup (Owned(events) \ Owned(events'))

Changed(stored) ==
  /\ events' \subseteq Events /\ IsFiniteSet(events')
  /\ created' \in created .. MaxEvents /\ \A e \in events' : e.no <= created'
  /\ \A e \in events' : e \in events \/ (e.id \in stored /\ e.no > created)
  /\ stored \subseteq Owned(events')
  /\ Watches(stored)

LEMMA BecomesWatches ==
  ASSUME Types, NEW evs \in SUBSET Events, NEW stored \in SUBSET Appliances, Becomes(evs, stored)
  PROVE  events' = evs /\ Watches(stored)
<1>1. events' = evs /\ Owned(evs) \in SUBSET Appliances /\ Owned(events) \in SUBSET Appliances
  BY OwnedTypes DEF Becomes, Types
<1>2. DOMAIN span = Callers /\ span \in [Callers -> R!Windows]
  BY DEF Types
<1>3. span' = [c \in Callers |->
                 [always |-> span[c].always \cap Owned(evs), ever |-> span[c].ever \cup Owned(evs),
                  joined |-> span[c].joined \cup stored]]
  BY <1>2 DEF Becomes, R!Watched
<1>4. \A c \in Callers : span[c] \in R!Windows
  BY <1>2
<1>5. span' \in [Callers -> R!Windows]
  BY <1>1, <1>3, <1>4 DEF R!Windows
<1>6. since' = [s \in Seeders |->
                  [stored |-> since[s].stored \cup stored,
                   lost |-> since[s].lost \cup (Owned(events) \ Owned(evs))]]
  BY DEF Becomes
<1>7. since' \in [Seeders -> [stored : SUBSET Appliances, lost : SUBSET Appliances]]
  BY <1>1, <1>6 DEF Types
<1> QED
  BY <1>1, <1>3, <1>5, <1>6, <1>7 DEF Watches

LEMMA CreateChanges ==
  ASSUME Types, Numbered, NEW id \in Appliances, Create(id)
  PROVE  /\ Changed({id})
         /\ events' = events \cup {[no |-> created + 1, id |-> id]}
<1> DEFINE new == [no |-> created + 1, id |-> id]
           evs == events \cup {new}
<1>0. created \in Nat /\ MaxEvents \in Nat /\ created < MaxEvents /\ created' = created + 1
  BY SizesAssumption DEF Types, Create
<1>1. new \in Events /\ events \in SUBSET Events
  BY <1>0 DEF Types, Events
<1>2. events' = evs /\ Watches({id})
  BY <1>1, BecomesWatches DEF Create
<1>3. IsFiniteSet(events')
  BY <1>2, FS_AddElement DEF Numbered
<1>4. \A e \in events : e.no <= created /\ e.no \in Nat
  BY <1>0, <1>1 DEF Numbered, Events
<1>5. \A e \in events' : e.no <= created' /\ (e \in events \/ (e.id \in {id} /\ e.no > created))
  BY <1>0, <1>2, <1>4
<1>6. {id} \subseteq Owned(events')
  <2>1. new \in events' /\ new.id = id
    BY <1>2
  <2> QED
    BY <2>1 DEF Owned
<1>7. created' \in created .. MaxEvents
  BY <1>0
<1> QED
  BY <1>1, <1>2, <1>3, <1>5, <1>6, <1>7 DEF Changed

LEMMA DeleteChanges ==
  ASSUME Types, Numbered, NEW e, Delete(e)
  PROVE  Changed({}) /\ events' = events \ {e}
<1>0. created \in Nat /\ MaxEvents \in Nat /\ created <= MaxEvents /\ created' = created
  BY SizesAssumption DEF Types, Delete
<1>1. events \ {e} \in SUBSET Events
  BY DEF Types
<1>2. events' = events \ {e} /\ Watches({})
  BY <1>1, BecomesWatches DEF Delete
<1>3. IsFiniteSet(events')
  BY <1>2, FS_RemoveElement DEF Numbered
<1>4. \A f \in events' : f.no <= created' /\ f \in events
  BY <1>0, <1>2 DEF Numbered
<1>5. created' \in created .. MaxEvents
  BY <1>0
<1> QED
  BY <1>1, <1>2, <1>3, <1>4, <1>5 DEF Changed

(* The history of the calls that a change of the store leaves alone.       *)
LEMMA WindowWatches ==
  ASSUME NEW stored, Changed(stored), NEW c \in Callers, Window(c), call'[c].op = call[c].op
  PROVE  Window(c)'
<1>1. \A x \in Owned(events') : x \in Owned(events) \/ x \in stored
  BY DEF Owned, Changed
<1> QED
  BY <1>1 DEF Window, Changed, Watches

LEMMA AnsweredWatches ==
  ASSUME NEW stored, Changed(stored), NEW c \in Callers, Answered(c), call'[c] = call[c]
  PROVE  Answered(c)'
<1>1. \A x \in Owned(events') : x \in Owned(events) \/ x \in stored
  BY DEF Owned, Changed
<1>2. R!Steady(span'[c]) \subseteq R!Steady(span[c]) /\ span[c].ever \subseteq span'[c].ever
  BY DEF R!Steady, Changed, Watches
<1>3. R!Steady(span[c])' = R!Steady(span'[c])
  BY DEF R!Steady
<1> QED
  BY <1>1, <1>2, <1>3 DEF Answered, Changed, Watches

LEMMA LeftWatches ==
  ASSUME NEW stored, Changed(stored), NEW c \in Callers, NEW found
  PROVE  {e \in events' : e.id \notin span'[c].joined /\ e \notin found}
           \subseteq {e \in events : e.id \notin span[c].joined /\ e \notin found}
  BY DEF Changed, Watches

LEMMA DoingWatches ==
  ASSUME NEW stored, Types, Numbered, Changed(stored), NEW c \in Callers, Doing(c),
         call'[c] = call[c], io'[c] = io[c]
  PROVE  Doing(c)'
<1>1. {e \in events' : e.id \notin span'[c].joined /\ e \notin io[c].found}
        \subseteq {e \in events : e.id \notin span[c].joined /\ e \notin io[c].found}
  BY LeftWatches
<1>2. span[c].ever \subseteq span'[c].ever
  BY DEF Changed, Watches
<1>3. io[c].found # {} /\ Newest(io[c].found) \notin events => Newest(io[c].found) \notin events'
  <2> SUFFICES ASSUME io[c].found # {}, Newest(io[c].found) \in events' PROVE Newest(io[c].found) \in events
    OBVIOUS
  <2>1. io[c].found \in SUBSET Events
    BY DEF Types, Io
  <2>2. Newest(io[c].found) \in io[c].found
    BY <2>1, NewestIs
  <2>3. Newest(io[c].found).no <= created
    BY <2>2 DEF Numbered
  <2>4. Newest(io[c].found).no \in Nat /\ created \in Nat
    BY <2>1, <2>2, SizesAssumption DEF Types, Events
  <2> QED
    BY <2>3, <2>4 DEF Changed
<1>4. R!Running(c)' <=> R!Running(c)
  BY DEF R!Running
<1> QED
  BY <1>1, <1>2, <1>3, <1>4 DEF Doing, Owned

LEMMA SameCall ==
  ASSUME NEW c \in Callers, Window(c) /\ Doing(c) /\ Answered(c), events' = events,
         call'[c] = call[c], io'[c] = io[c], span'[c] = span[c]
  PROVE  (Window(c) /\ Doing(c) /\ Answered(c))'
<1>1. Window(c)'
  BY DEF Window
<1>2. (R!Running(c) <=> R!Running(c)') /\ R!Steady(span[c])' = R!Steady(span[c])
  BY DEF R!Running, R!Steady
<1>3. Doing(c)'
  BY <1>2 DEF Doing
<1>4. Answered(c)'
  BY <1>2 DEF Answered
<1> QED
  BY <1>1, <1>3, <1>4

(***************************************************************************)
(* A repository call begins                                                *)
(***************************************************************************)
Invokes(c, op, id) ==
  \/ op = "list" /\ id = None
  \/ op \in {"add", "remove"} /\ id \in Appliances

Begun(c, op, id) ==
  /\ call' \in [Callers -> R!Calls] /\ span' \in [Callers -> R!Windows] /\ io' \in [Callers -> Io]
  /\ call'[c] = [op |-> op, id |-> id, answer |-> R!Waiting]
  /\ span'[c] = [always |-> Owned(events), ever |-> Owned(events), joined |-> {}]
  /\ io'[c] = IF op = "add"
              THEN [doing |-> "create", cursor |-> 0, found |-> {[no |-> 0, id |-> id]}, request |-> "sent"]
              ELSE [doing |-> "list", cursor |-> created + MaxEvents + 1, found |-> {}, request |-> "none"]
  /\ \A d \in Callers : d # c => call'[d] = call[d] /\ span'[d] = span[d] /\ io'[d] = io[d]
  /\ UNCHANGED <<events, created, late>>

LEMMA BeginTypes ==
  ASSUME Types, NEW c \in Callers, NEW op, NEW id, Invokes(c, op, id), Begin(c, op, id)
  PROVE  Begun(c, op, id)
<1>1. [op |-> op, id |-> id, answer |-> R!Waiting] \in R!Calls
  BY DEF Invokes, R!Calls, R!Operations
<1>2. [always |-> Owned(events), ever |-> Owned(events), joined |-> {}] \in R!Windows
  BY OwnedTypes DEF R!Windows, Types
<1>3. created + MaxEvents + 1 \in Nat /\ 0 \in Nat /\ 0 \in 0 .. MaxEvents
  BY SizesAssumption DEF Types
<1>4. op = "add" => {[no |-> 0, id |-> id]} \in SUBSET Events
  BY <1>3 DEF Invokes, Events
<1>5. (IF op = "add"
       THEN [doing |-> "create", cursor |-> 0, found |-> {[no |-> 0, id |-> id]}, request |-> "sent"]
       ELSE [doing |-> "list", cursor |-> created + MaxEvents + 1, found |-> {}, request |-> "none"]) \in Io
  BY <1>3, <1>4 DEF Io
<1> QED
  BY <1>1, <1>2, <1>5 DEF Begun, Begin, Types

LEMMA BeginCalls ==
  ASSUME Types, Numbered, CallInv, NEW c \in Callers, NEW op, NEW id, Invokes(c, op, id), Begun(c, op, id)
  PROVE  Numbered' /\ CallInv'
<1>1. /\ call'[c] = [op |-> op, id |-> id, answer |-> R!Waiting]
      /\ span'[c] = [always |-> Owned(events), ever |-> Owned(events), joined |-> {}]
      /\ io'[c] = IF op = "add"
                  THEN [doing |-> "create", cursor |-> 0, found |-> {[no |-> 0, id |-> id]}, request |-> "sent"]
                  ELSE [doing |-> "list", cursor |-> created + MaxEvents + 1, found |-> {}, request |-> "none"]
      /\ \A d \in Callers : d # c => call'[d] = call[d] /\ span'[d] = span[d] /\ io'[d] = io[d]
      /\ UNCHANGED <<events, created, late>>
  BY DEF Begun
<1>2. created \in Nat /\ MaxEvents \in Nat /\ \A e \in events : e.no \in Nat /\ e.no <= created
  BY SizesAssumption DEF Types, Numbered, Events
<1>3. \A e \in io'[c].found : e.no <= created
  BY <1>1, <1>2
<1>4. Numbered'
  BY <1>1, <1>3 DEF Numbered
<1>5. R!Running(c)'
  BY <1>1 DEF R!Running
<1>6. Window(c)'
  BY <1>1 DEF Window
<1>7. Doing(c)'
  <2>1. CASE op = "add"
    <3>1. call'[c].op = "add" /\ call'[c].id = id /\ io'[c].doing = "create" /\ io'[c].request = "sent"
          /\ io'[c].found = {[no |-> 0, id |-> id]}
      BY <1>1, <2>1
    <3> QED
      BY <1>5, <3>1 DEF Doing
  <2>2. CASE op # "add"
    <3>1. /\ call'[c].op \in {"list", "remove"} /\ io'[c].doing = "list" /\ io'[c].request = "none"
          /\ io'[c].found = {} /\ io'[c].cursor = created + MaxEvents + 1 /\ events' = events
      BY <1>1, <2>2 DEF Invokes
    <3>2. \A e \in events : e.no < created + MaxEvents + 1
      BY <1>2
    <3> QED
      BY <1>5, <3>1, <3>2 DEF Doing, Owned
  <2> QED
    BY <2>1, <2>2
<1>8. Answered(c)'
  <2>1. call'[c].op \in {"add", "remove"} => call'[c].id \in Appliances
    BY <1>1 DEF Invokes
  <2>2. call'[c].answer.says = "waiting"
    BY <1>1, AnswerTypes
  <2> QED
    BY <2>1, <2>2 DEF Answered
<1>9. ASSUME NEW d \in Callers, d # c
      PROVE  (Window(d) /\ Doing(d) /\ Answered(d))'
  BY <1>1, <1>9, SameCall DEF CallInv
<1> QED
  BY <1>4, <1>6, <1>7, <1>8, <1>9 DEF CallInv

(***************************************************************************)
(* A repository call goes on: one page, one request, or its answer         *)
(***************************************************************************)
Alone(c) == \A d \in Callers : d # c => call'[d] = call[d] /\ io'[d] = io[d]

(* The store and the windows are as they were.                             *)
Still == UNCHANGED <<events, created, span>>

(* What c may answer.                                                      *)
Right(c, value) ==
  /\ value.says \in {"error"} \cup CASE call[c].op = "list" -> {"ids"}
                                     [] call[c].op = "add" -> {"ok"}
                                     [] call[c].op = "remove" -> {"true", "false"}
                                     [] OTHER -> {"ok"}
  /\ value.says = "ids" => R!Steady(span[c]) \subseteq value.ids /\ value.ids \subseteq span[c].ever
  /\ value.says \in {"true", "false"} => (call[c].id \in Owned(events) => call[c].id \in span[c].joined)
  /\ value.says = "true" => call[c].id \in span[c].ever
  /\ value.says = "ok" => io[c].doing = "create" /\ io[c].request = "landed"

Replied(c, value) ==
  /\ call' \in [Callers -> R!Calls] /\ io' \in [Callers -> Io]
  /\ call'[c] = [op |-> call[c].op, id |-> call[c].id, answer |-> value]
  /\ io'[c] = Idle
  /\ Alone(c)

LEMMA RepliedTypes ==
  ASSUME Types, NEW c \in Callers, NEW value \in R!Answers, Answer(c, value)
  PROVE  Replied(c, value)
<1>1. call[c] \in R!Calls
  BY DEF Types
<1>2. [op |-> call[c].op, id |-> call[c].id, answer |-> value] = [call[c] EXCEPT !.answer = value]
      /\ [op |-> call[c].op, id |-> call[c].id, answer |-> value] \in R!Calls
  BY <1>1 DEF R!Calls
<1>3. call' = [call EXCEPT ![c] = [op |-> call[c].op, id |-> call[c].id, answer |-> value]]
  BY <1>2 DEF Answer
<1>4. io' = [io EXCEPT ![c] = Idle]
  BY DEF Answer
<1> QED
  BY <1>2, <1>3, <1>4, IdleTypes DEF Types, Replied, Alone

LEMMA AnswerCalls ==
  ASSUME Types, Numbered, CallInv, NEW c \in Callers, NEW value \in R!Answers, Replied(c, value),
         Right(c, value), Still
  PROVE  Numbered' /\ CallInv'
<1>1. /\ call'[c].op = call[c].op /\ call'[c].id = call[c].id /\ call'[c].answer = value
      /\ io'[c] = Idle /\ \A d \in Callers : d # c => call'[d] = call[d] /\ io'[d] = io[d]
      /\ events' = events /\ span' = span /\ created' = created
  BY DEF Replied, Still, Alone
<1>2. Numbered'
  BY <1>1, IdleTypes DEF Numbered
<1>3. ~R!Running(c)'
  BY <1>1, AnswerTypes DEF R!Running
<1>4. Window(c)'
  BY <1>1 DEF CallInv, Window
<1>5. Doing(c)'
  BY <1>1, <1>3, IdleTypes DEF Doing
<1>6. Answered(c)'
  <2>1. R!Steady(span[c])' = R!Steady(span[c])
    BY <1>1 DEF R!Steady
  <2>2. call[c].op \in {"add", "remove"} => call[c].id \in Appliances
    BY DEF CallInv, Answered
  <2> QED
    BY <1>1, <2>1, <2>2 DEF Answered, Right
<1>7. ASSUME NEW d \in Callers, d # c
      PROVE  (Window(d) /\ Doing(d) /\ Answered(d))'
  BY <1>1, <1>7, SameCall DEF CallInv
<1> QED
  BY <1>2, <1>4, <1>5, <1>6, <1>7 DEF CallInv

(* io[c] becomes `to`, the call still running.                             *)
Continues(c, to) ==
  /\ call' = call /\ io' \in [Callers -> Io] /\ io'[c] = to
  /\ \A d \in Callers : d # c => io'[d] = io[d]

LEMMA GoesOn ==
  ASSUME Types, NEW c \in Callers, NEW to \in Io, io' = [io EXCEPT ![c] = to], call' = call
  PROVE  Continues(c, to)
  BY DEF Types, Continues

LEMMA ContinueCalls ==
  ASSUME Types, Numbered, CallInv, NEW c \in Callers, NEW to \in Io, Continues(c, to), Still,
         \A e \in to.found : e.no <= created, Doing(c)'
  PROVE  Numbered' /\ CallInv'
<1>1. /\ call' = call /\ io'[c] = to /\ \A d \in Callers : d # c => io'[d] = io[d]
      /\ events' = events /\ span' = span /\ created' = created
  BY DEF Continues, Still
<1>2. Numbered'
  BY <1>1 DEF Numbered
<1>3. Window(c)'
  BY <1>1 DEF CallInv, Window
<1>4. Answered(c)'
  <2>1. R!Steady(span[c])' = R!Steady(span[c])
    BY <1>1 DEF R!Steady
  <2> QED
    BY <1>1, <2>1 DEF CallInv, Answered
<1>5. ASSUME NEW d \in Callers, d # c
      PROVE  (Window(d) /\ Doing(d) /\ Answered(d))'
  BY <1>1, <1>5, SameCall DEF CallInv
<1> QED
  BY <1>2, <1>3, <1>4, <1>5 DEF CallInv

KeepsOn(c) ==
  \E to \in Io :
    /\ Continues(c, to) /\ \A e \in to.found : e.no <= created
    /\ to.request # "landed" /\ Doing(c)'

Replies(c) == \E value \in R!Answers : Replied(c, value) /\ Right(c, value) /\ value.says # "error"

Outside == UNCHANGED <<late, since, issued, made, plan>>

LEMMA ReadPageSteps ==
  ASSUME Types, Numbered, CallInv, NEW c \in Callers, ReadPage(c)
  PROVE  R!Running(c) /\ Still /\ Outside /\ (KeepsOn(c) \/ Replies(c))
<1> DEFINE cursor == io[c].cursor
           page == Page(cursor)
           older == Older(cursor)
           found == io[c].found \cup page
           mine == {e \in found : e.id = call[c].id}
           left == {e \in events : e.id \notin span[c].joined /\ e \notin io[c].found}
<1>0. /\ io[c] \in Io /\ cursor \in Nat /\ io[c].found \in SUBSET Events
      /\ events \in SUBSET Events /\ IsFiniteSet(events) /\ call[c] \in R!Calls
  BY DEF Types, Numbered, Io
<1>1. /\ page \subseteq older /\ older \subseteq events
      /\ page # older => /\ Min({e.no : e \in page}) \in Nat
                         /\ \A f \in older \ page : f.no < Min({e.no : e \in page})
  BY <1>0, PageIsNewest
<1>2. io[c].doing = "list" /\ Still /\ Outside
  BY DEF ReadPage, Rest, Still, Outside
<1>3. R!Running(c) /\ call[c].op \in {"list", "remove"} /\ Owned(io[c].found) \subseteq span[c].ever
      /\ \A e \in left : e \in older
  BY <1>2 DEF CallInv, Doing, Older
<1>4. found \in SUBSET Events /\ \A e \in found : e.no <= created
  BY <1>0, <1>1 DEF Numbered
<1>5. Owned(found) \subseteq span[c].ever
  <2>1. Owned(events) \subseteq span[c].ever
    <3>1. call[c].op # None
      BY <1>3, <1>0, IdsAssumption DEF CallInv, Window
    <3> QED
      BY <3>1 DEF CallInv, Window
  <2> QED
    BY <1>1, <1>3, <2>1 DEF Owned
<1>6. CASE page # older /\ io' = [io EXCEPT ![c].found = found, ![c].cursor = Min({e.no : e \in page})]
           /\ call' = call
  <2> DEFINE m == Min({e.no : e \in page})
             to == [doing |-> "list", cursor |-> m, found |-> found, request |-> io[c].request]
  <2>1. io' = [io EXCEPT ![c] = [doing |-> io[c].doing, cursor |-> m, found |-> found, request |-> io[c].request]]
    <3>1. io \in [Callers -> Io]
      BY DEF Types
    <3>2. ASSUME NEW f, NEW k
          PROVE  [io EXCEPT ![c].found = f, ![c].cursor = k] =
                   [io EXCEPT ![c] = [doing |-> io[c].doing, cursor |-> k, found |-> f, request |-> io[c].request]]
      <4> DEFINE one == [doing |-> io[c].doing, cursor |-> io[c].cursor, found |-> f, request |-> io[c].request]
                 two == [doing |-> io[c].doing, cursor |-> k, found |-> f, request |-> io[c].request]
                 g == [io EXCEPT ![c] = one]
      <4>1. [io[c] EXCEPT !.found = f] = one /\ [one EXCEPT !.cursor = k] = two
        BY <3>1 DEF Io
      <4> HIDE DEF one, two
      <4>2. g[c] = one /\ [g EXCEPT ![c] = two] = [io EXCEPT ![c] = two]
        BY <3>1
      <4>3. [io EXCEPT ![c].found = f] = g /\ [g EXCEPT ![c].cursor = k] = [g EXCEPT ![c] = two]
        BY <4>1, <4>2
      <4> HIDE DEF g
      <4>4. [io EXCEPT ![c].found = f, ![c].cursor = k] = [g EXCEPT ![c].cursor = k]
        BY <4>3, Zenon
      <4> QED
        BY <4>2, <4>3, <4>4 DEF two, g
    <3> HIDE DEF found
    <3> QED
      BY <1>6, <3>2
  <2>2. to \in Io /\ io' = [io EXCEPT ![c] = to]
    BY <1>0, <1>1, <1>2, <1>4, <1>6, <2>1 DEF Io
  <2>3. Continues(c, to)
    BY <1>6, <2>2, GoesOn
  <2>4. to.request = "none"
    BY <1>2 DEF CallInv, Doing
  <2>5. ASSUME NEW e \in events, e.id \notin span[c].joined, e \notin found
        PROVE  e.no < m
    BY <1>1, <1>3, <1>6, <2>5
  <2> HIDE DEF page, older, m
  <2>6. to.doing = "list" /\ to.found = found /\ to.cursor = m
    OBVIOUS
  <2>7. R!Running(c)'
    BY <1>3, <2>3 DEF R!Running, Continues
  <2> HIDE DEF found, to
  <2>8. io'[c] = to /\ call' = call /\ events' = events /\ span' = span
    BY <1>2, <2>3 DEF Continues, Still
  <2>9. Doing(c)'
    BY <1>3, <1>5, <2>4, <2>5, <2>6, <2>7, <2>8 DEF Doing
  <2> QED
    BY <1>2, <1>3, <1>4, <2>2, <2>3, <2>4, <2>6, <2>9 DEF KeepsOn
<1>7. CASE page = older /\ call[c].op = "list" /\ Answer(c, R!Reports(Owned(found)))
  <2> DEFINE value == R!Reports(Owned(found))
  <2>1. Owned(found) \in SUBSET Appliances
    BY <1>4, OwnedTypes
  <2>2. value \in R!Answers /\ value.says = "ids" /\ value.ids = Owned(found)
    BY <2>1, AnswerTypes
  <2>3. R!Steady(span[c]) \subseteq Owned(found)
    <3> SUFFICES ASSUME NEW x \in span[c].always, x \notin span[c].joined PROVE x \in Owned(found)
      BY DEF R!Steady
    <3>1. PICK e \in events : e.id = x
      BY DEF CallInv, Window, Owned
    <3>2. e \in found
      BY <1>3, <1>7, <3>1
    <3> QED
      BY <3>1, <3>2 DEF Owned
  <2> HIDE DEF value
  <2>4. Replied(c, value)
    BY <1>7, <2>2, RepliedTypes DEF value
  <2>5. Right(c, value)
    BY <1>5, <1>7, <2>2, <2>3 DEF Right
  <2> QED
    BY <1>2, <1>3, <2>2, <2>4, <2>5 DEF Replies
<1>8. CASE page = older /\ call[c].op = "remove" /\ mine = {} /\ Answer(c, R!Says("false"))
  <2>1. R!Says("false") \in R!Answers /\ R!Says("false").says = "false"
    BY AnswerTypes
  <2>2. Replied(c, R!Says("false"))
    BY <1>8, <2>1, RepliedTypes
  <2>3. call[c].id \in Owned(events) => call[c].id \in span[c].joined
    <3> SUFFICES ASSUME NEW e \in events, e.id = call[c].id, e.id \notin span[c].joined PROVE FALSE
      BY DEF Owned
    <3>1. e \in found
      BY <1>3, <1>8
    <3> QED
      BY <1>8, <3>1
  <2>4. Right(c, R!Says("false"))
    BY <1>8, <2>1, <2>3 DEF Right
  <2> QED
    BY <1>2, <1>3, <2>1, <2>2, <2>4 DEF Replies
<1>9. CASE page = older /\ call[c].op = "remove" /\ mine # {} /\ call' = call
           /\ io' = [io EXCEPT ![c] = [doing |-> "delete", cursor |-> 0, found |-> mine, request |-> "sent"]]
  <2> DEFINE to == [doing |-> "delete", cursor |-> 0, found |-> mine, request |-> "sent"]
  <2>1. to \in Io
    BY <1>4 DEF Io
  <2>2. Continues(c, to)
    BY <1>9, <2>1, GoesOn
  <2>3. R!Running(c)' /\ io'[c] = to /\ call' = call /\ events' = events /\ span' = span
    BY <1>2, <1>3, <2>2 DEF R!Running, Continues, Still
  <2>4. ASSUME NEW e \in events, e.id \notin span[c].joined, e \notin mine
        PROVE  e.id # call[c].id
    BY <1>3, <1>9, <2>4
  <2>5. \A e \in mine : e.id = call[c].id /\ e \in found
    OBVIOUS
  <2>6. Owned(mine) = {call[c].id} /\ call[c].id \in span[c].ever
    BY <1>5, <1>9, <2>5 DEF Owned
  <2>7. to.doing = "delete" /\ to.found = mine /\ to.request = "sent"
    OBVIOUS
  <2> HIDE DEF mine, to
  <2>8. call[c].id \notin Owned({e \in events : e.id \notin span[c].joined /\ e \notin mine})
    BY <2>4 DEF Owned
  <2>9. Doing(c)'
    BY <1>9, <2>3, <2>6, <2>7, <2>8 DEF Doing
  <2> QED
    BY <1>2, <1>3, <1>4, <2>1, <2>2, <2>5, <2>7, <2>9 DEF KeepsOn
<1>10. \/ page # older /\ io' = [io EXCEPT ![c].found = found, ![c].cursor = Min({e.no : e \in page})]
          /\ call' = call
       \/ page = older /\ call[c].op = "list" /\ Answer(c, R!Reports(Owned(found)))
       \/ page = older /\ call[c].op = "remove" /\ mine = {} /\ Answer(c, R!Says("false"))
       \/ page = older /\ call[c].op = "remove" /\ mine # {} /\ call' = call
          /\ io' = [io EXCEPT ![c] = [doing |-> "delete", cursor |-> 0, found |-> mine, request |-> "sent"]]
  BY Zenon DEF ReadPage
<1> QED
  BY <1>6, <1>7, <1>8, <1>9, <1>10

(* The store carries out a request.                                        *)
Carried(op, id) ==
  \/ op = "add" /\ Changed({id}) /\ Owned(events') = Owned(events) \cup {id}
  \/ op = "remove" /\ Changed({}) /\ Owned(events') \in {Owned(events), Owned(events) \ {id}}

LEMMA CreateCarries ==
  ASSUME Types, Numbered, NEW id \in Appliances, Create(id)
  PROVE  Carried("add", id)
<1>1. Changed({id}) /\ events' = events \cup {[no |-> created + 1, id |-> id]}
  BY CreateChanges
<1>2. [no |-> created + 1, id |-> id].id = id
  OBVIOUS
<1>3. Owned(events') = Owned(events) \cup {id}
  BY <1>1, <1>2 DEF Owned
<1> QED
  BY <1>1, <1>3 DEF Carried

LEMMA DeleteCarries ==
  ASSUME Types, Numbered, NEW e, Delete(e)
  PROVE  Carried("remove", e.id)
<1>1. Changed({}) /\ events' = events \ {e}
  BY DeleteChanges
<1>2. Owned(events') \in {Owned(events), Owned(events) \ {e.id}}
  <2>1. Owned(events) \ {e.id} \subseteq Owned(events') /\ Owned(events') \subseteq Owned(events)
    BY <1>1 DEF Owned
  <2>2. CASE e.id \in Owned(events')
    BY <2>1, <2>2
  <2>3. CASE e.id \notin Owned(events')
    BY <2>1, <2>3
  <2> QED
    BY <2>2, <2>3
<1> QED
  BY <1>1, <1>2 DEF Carried

LEMMA CarriedCalls ==
  ASSUME Types, Numbered, CallInv, NEW op, NEW id, Carried(op, id), call' = call,
         NEW C \in SUBSET Callers, \A d \in C : io'[d] = io[d]
  PROVE  /\ IsFiniteSet(events') /\ \A e \in events' : e.no <= created'
         /\ \A d \in Callers : \A e \in io[d].found : e.no <= created'
         /\ \A d \in Callers : Window(d)' /\ Answered(d)'
         /\ \A d \in C : Doing(d)'
<1>1. PICK stored : Changed(stored)
  BY DEF Carried
<1>2. \A d \in Callers : Window(d)' /\ Answered(d)'
  BY <1>1, WindowWatches, AnsweredWatches DEF CallInv
<1>3. \A d \in C : Doing(d)'
  BY <1>1, DoingWatches DEF CallInv
<1>4. ASSUME NEW d \in Callers, NEW e \in io[d].found
      PROVE  e.no <= created'
  <2>1. e.no <= created /\ e \in Events
    BY DEF Numbered, Types, Io
  <2>2. e.no \in Nat /\ created \in Nat /\ created' \in created .. MaxEvents /\ MaxEvents \in Nat
    BY <1>1, <2>1, SizesAssumption DEF Events, Types, Changed
  <2> QED
    BY <2>1, <2>2
<1> QED
  BY <1>1, <1>2, <1>3, <1>4 DEF Changed

LEMMA LandSteps ==
  ASSUME Types, Numbered, CallInv, NEW c \in Callers, Land(c)
  PROVE  /\ R!Running(c) /\ call[c].op \in {"add", "remove"} /\ Carried(call[c].op, call[c].id)
         /\ io' \in [Callers -> Io] /\ io'[c] = [io[c] EXCEPT !.request = "landed"] /\ Alone(c)
         /\ UNCHANGED <<late, call, issued, made, plan>>
         /\ Numbered' /\ CallInv'
<1>0. io \in [Callers -> Io] /\ io[c] \in Io /\ call[c] \in R!Calls
  BY DEF Types
<1>1. io[c].request = "sent" /\ UNCHANGED <<late, call, issued, made, plan>>
      /\ io' = [io EXCEPT ![c].request = "landed"]
  BY DEF Land, Rest
<1>2. [io[c] EXCEPT !.request = "landed"] \in Io
  BY <1>0 DEF Io
<1>3. io' \in [Callers -> Io] /\ io'[c] = [io[c] EXCEPT !.request = "landed"] /\ Alone(c)
  BY <1>0, <1>1, <1>2 DEF Alone
<1>4. R!Running(c) /\ call[c].op \in {"add", "remove"} /\ call[c].id \in Appliances
      /\ (call[c].op = "add" <=> io[c].doing = "create") /\ (call[c].op = "remove" <=> io[c].doing = "delete")
  <2>1. io[c].doing \in {"create", "delete"}
    BY <1>0, <1>1 DEF CallInv, Doing, Io
  <2> QED
    BY <2>1 DEF CallInv, Doing, Answered
<1>5. ASSUME call[c].op = "remove"
      PROVE  /\ Newest(io[c].found) \in io[c].found /\ Newest(io[c].found).id = call[c].id
             /\ Delete(Newest(io[c].found))
  <2>1. io[c].found # {} /\ Owned(io[c].found) = {call[c].id} /\ io[c].found \in SUBSET Events
    BY <1>0, <1>4, <1>5 DEF CallInv, Doing, Io
  <2>2. Newest(io[c].found) \in io[c].found
    BY <2>1, NewestIs
  <2>3. Delete(Newest(io[c].found))
    BY <1>4, <1>5 DEF Land
  <2> QED
    BY <2>1, <2>2, <2>3 DEF Owned
<1>6. Carried(call[c].op, call[c].id)
  <2>1. CASE call[c].op = "add"
    <3>1. Create(call[c].id)
      BY <1>4, <2>1 DEF Land
    <3> QED
      BY <1>4, <2>1, <3>1, CreateCarries
  <2>2. CASE call[c].op = "remove"
    BY <1>5, <2>2, DeleteCarries
  <2> QED
    BY <1>4, <2>1, <2>2
<1>7. /\ IsFiniteSet(events') /\ \A e \in events' : e.no <= created'
      /\ \A d \in Callers : \A e \in io[d].found : e.no <= created'
      /\ \A d \in Callers : Window(d)' /\ Answered(d)'
      /\ \A d \in Callers \ {c} : Doing(d)'
  BY <1>1, <1>3, <1>6, CarriedCalls DEF Alone
<1>8. io'[c].found = io[c].found /\ io'[c].doing = io[c].doing /\ io'[c].request = "landed"
      /\ io'[c].cursor = io[c].cursor /\ call'[c] = call[c]
  BY <1>0, <1>1, <1>3 DEF Io
<1>9. Numbered'
  <2>1. \A d \in Callers : io'[d].found = io[d].found
    BY <1>3, <1>8 DEF Alone
  <2> QED
    BY <1>7, <2>1 DEF Numbered
<1>10. Doing(c)'
  <2>0. R!Running(c)'
    BY <1>4, <1>8 DEF R!Running
  <2>1. CASE call[c].op = "add"
    <3>1. call[c].id \in span'[c].ever
      BY <1>6, <2>1 DEF Carried, Changed, Watches
    <3>2. io'[c].doing = "create" /\ io[c].found = {[no |-> 0, id |-> call[c].id]}
      BY <1>4, <1>8, <2>1 DEF CallInv, Doing
    <3> QED
      BY <1>8, <2>0, <2>1, <3>1, <3>2 DEF Doing
  <2>2. CASE call[c].op = "remove"
    <3>1. Newest(io[c].found) \notin events'
      BY <1>5, <2>2, DeleteChanges
    <3>2. /\ io'[c].doing = "delete" /\ io[c].found # {} /\ Owned(io[c].found) = {call[c].id}
          /\ call[c].id \in span[c].ever
          /\ call[c].id \notin Owned({e \in events : e.id \notin span[c].joined /\ e \notin io[c].found})
      BY <1>4, <1>8, <2>2 DEF CallInv, Doing
    <3>3. Changed({})
      BY <1>6, <2>2 DEF Carried
    <3>4. call[c].id \in span'[c].ever
      BY <3>2, <3>3 DEF Changed, Watches
    <3>5. {e \in events' : e.id \notin span'[c].joined /\ e \notin io[c].found}
            \subseteq {e \in events : e.id \notin span[c].joined /\ e \notin io[c].found}
      BY <3>3, LeftWatches
    <3>6. call[c].id \notin Owned({e \in events' : e.id \notin span'[c].joined /\ e \notin io[c].found})
      BY <3>2, <3>5 DEF Owned
    <3> QED
      BY <1>8, <2>0, <2>2, <3>1, <3>2, <3>4, <3>6 DEF Doing
  <2> QED
    BY <1>4, <2>1, <2>2
<1> QED
  BY <1>1, <1>3, <1>4, <1>6, <1>7, <1>9, <1>10 DEF CallInv

LEMMA RespondSteps ==
  ASSUME Types, Numbered, CallInv, NEW c \in Callers, Respond(c)
  PROVE  R!Running(c) /\ Still /\ Outside /\ (KeepsOn(c) \/ Replies(c))
<1> DEFINE new == Newest(io[c].found)
           left == io[c].found \ {new}
           to == [doing |-> "delete", cursor |-> io[c].cursor, found |-> left, request |-> "sent"]
<1>0. io \in [Callers -> Io] /\ io[c] \in Io /\ call[c] \in R!Calls
  BY DEF Types
<1>1. io[c].request = "landed" /\ Still /\ Outside
  BY DEF Respond, Rest, Still, Outside
<1>2. io[c].doing \in {"create", "delete"} /\ R!Running(c)
  BY <1>0, <1>1 DEF CallInv, Doing, Io
<1>3. \/ io[c].doing = "create" /\ Answer(c, R!Says("ok"))
      \/ io[c].doing = "delete" /\ left = {} /\ Answer(c, R!Says("true"))
      \/ io[c].doing = "delete" /\ left # {} /\ call' = call
         /\ io' = [io EXCEPT ![c].found = left, ![c].request = "sent"]
  BY Zenon DEF Respond
<1>4. CASE io[c].doing = "create" /\ Answer(c, R!Says("ok"))
  <2>1. R!Says("ok") \in R!Answers /\ R!Says("ok").says = "ok"
    BY AnswerTypes
  <2>2. Replied(c, R!Says("ok"))
    BY <1>4, <2>1, RepliedTypes
  <2>3. call[c].op = "add"
    BY <1>4 DEF CallInv, Doing
  <2>4. Right(c, R!Says("ok"))
    BY <1>1, <1>4, <2>1, <2>3 DEF Right
  <2> QED
    BY <1>1, <1>2, <2>1, <2>2, <2>4 DEF Replies
<1>5. ASSUME io[c].doing = "delete"
      PROVE  /\ call[c].op = "remove" /\ io[c].found # {} /\ Owned(io[c].found) = {call[c].id}
             /\ call[c].id \in span[c].ever /\ new \notin events
             /\ io[c].found \in SUBSET Events /\ new \in io[c].found
             /\ \A e \in events : e.id = call[c].id => e.id \in span[c].joined \/ e \in left
  <2>1. /\ call[c].op = "remove" /\ io[c].found # {} /\ Owned(io[c].found) = {call[c].id}
        /\ call[c].id \in span[c].ever /\ new \notin events
        /\ call[c].id \notin Owned({e \in events : e.id \notin span[c].joined /\ e \notin io[c].found})
    BY <1>1, <1>5 DEF CallInv, Doing
  <2>2. io[c].found \in SUBSET Events
    BY <1>0 DEF Io
  <2>3. new \in io[c].found
    BY <2>1, <2>2, NewestIs
  <2>4. \A e \in events : e.id = call[c].id => e.id \in span[c].joined \/ e \in left
    BY <2>1 DEF Owned
  <2> QED
    BY <2>1, <2>2, <2>3, <2>4
<1>6. CASE io[c].doing = "delete" /\ left = {} /\ Answer(c, R!Says("true"))
  <2>1. R!Says("true") \in R!Answers /\ R!Says("true").says = "true"
    BY AnswerTypes
  <2>2. Replied(c, R!Says("true"))
    BY <1>6, <2>1, RepliedTypes
  <2>3. call[c].id \in Owned(events) => call[c].id \in span[c].joined
    BY <1>5, <1>6 DEF Owned
  <2>4. Right(c, R!Says("true"))
    BY <1>5, <1>6, <2>1, <2>3 DEF Right
  <2> QED
    BY <1>1, <1>2, <2>1, <2>2, <2>4 DEF Replies
<1>7. CASE io[c].doing = "delete" /\ left # {} /\ call' = call
           /\ io' = [io EXCEPT ![c].found = left, ![c].request = "sent"]
  <2>1. to \in Io
    BY <1>0, <1>5, <1>7 DEF Io
  <2>2. io' = [io EXCEPT ![c] = to]
    <3> DEFINE one == [doing |-> io[c].doing, cursor |-> io[c].cursor, found |-> left, request |-> io[c].request]
               g == [io EXCEPT ![c] = one]
    <3> HIDE DEF left, new
    <3>1. [io[c] EXCEPT !.found = left] = one /\ [one EXCEPT !.request = "sent"] = to
      BY <1>0, <1>7 DEF Io
    <3> HIDE DEF one, to
    <3>2. g[c] = one /\ [g EXCEPT ![c] = to] = [io EXCEPT ![c] = to]
      BY <1>0
    <3>3. [io EXCEPT ![c].found = left] = g /\ [g EXCEPT ![c].request = "sent"] = [g EXCEPT ![c] = to]
      BY <3>1, <3>2
    <3> HIDE DEF g
    <3>4. [io EXCEPT ![c].found = left, ![c].request = "sent"] = [g EXCEPT ![c].request = "sent"]
      BY <3>3, Zenon
    <3> QED
      BY <1>7, <3>2, <3>3, <3>4
  <2>3. Continues(c, to)
    BY <1>7, <2>1, <2>2, GoesOn
  <2>4. R!Running(c)' /\ io'[c] = to /\ call' = call /\ events' = events /\ span' = span
    BY <1>1, <1>2, <2>3 DEF R!Running, Continues, Still
  <2>5. Owned(left) = {call[c].id}
    BY <1>5, <1>7 DEF Owned
  <2>6. to.doing = "delete" /\ to.found = left /\ to.request = "sent"
    OBVIOUS
  <2>7. \A e \in left : e.no <= created
    BY DEF Numbered
  <2> HIDE DEF left, to
  <2>8. call[c].id \notin Owned({e \in events : e.id \notin span[c].joined /\ e \notin left})
    BY <1>5, <1>7 DEF Owned
  <2>9. Doing(c)'
    BY <1>5, <1>7, <2>4, <2>5, <2>6, <2>8 DEF Doing
  <2> QED
    BY <1>1, <1>2, <2>1, <2>3, <2>6, <2>7, <2>9 DEF KeepsOn
<1> QED
  BY <1>3, <1>4, <1>6, <1>7

LEMMA SettledCalls ==
  ASSUME Types, Numbered, CallInv, NEW c \in Callers, Still, KeepsOn(c) \/ Replies(c)
  PROVE  Numbered' /\ CallInv' /\ call' \in [Callers -> R!Calls] /\ io' \in [Callers -> Io] /\ Alone(c)
<1>1. CASE KeepsOn(c)
  <2>1. PICK to \in Io : Continues(c, to) /\ (\A e \in to.found : e.no <= created) /\ Doing(c)'
    BY <1>1 DEF KeepsOn
  <2> QED
    BY <2>1, ContinueCalls DEF Continues, Alone, Types
<1>2. CASE Replies(c)
  <2>1. PICK value \in R!Answers : Replied(c, value) /\ Right(c, value)
    BY <1>2 DEF Replies
  <2> QED
    BY <2>1, AnswerCalls DEF Replied
<1> QED
  BY <1>1, <1>2

LEMMA FailSteps ==
  ASSUME Types, Numbered, CallInv, NEW c \in Callers, Fail(c)
  PROVE  /\ R!Running(c) /\ Still /\ UNCHANGED <<since, issued, made, plan>>
         /\ Replied(c, R!Says("error"))
         /\ \/ late' = late
            \/ /\ call[c].op \in {"add", "remove"}
               /\ \E e \in Events : e.id = call[c].id /\ late' = late \cup {[op |-> call[c].op, event |-> e]}
         /\ Numbered' /\ CallInv'
<1>0. io[c] \in Io /\ call[c] \in R!Calls
  BY DEF Types
<1>1. io[c].doing # "nothing" /\ Still /\ UNCHANGED <<since, issued, made, plan>>
      /\ Answer(c, R!Says("error"))
  BY DEF Fail, Rest, Still
<1>2. R!Running(c)
  BY <1>1 DEF CallInv, Doing
<1>3. R!Says("error") \in R!Answers /\ R!Says("error").says = "error"
  BY AnswerTypes
<1>4. Replied(c, R!Says("error"))
  BY <1>1, <1>3, RepliedTypes
<1>5. Right(c, R!Says("error"))
  BY <1>3 DEF Right
<1>6. Numbered' /\ CallInv'
  BY <1>1, <1>3, <1>4, <1>5, AnswerCalls
<1>7. CASE io[c].request = "sent" /\ late' = late \cup {[op |-> call[c].op, event |-> Newest(io[c].found)]}
  <2>1. io[c].doing \in {"create", "delete"}
    BY <1>0, <1>7 DEF CallInv, Doing, Io
  <2>2. io[c].found # {} /\ Owned(io[c].found) = {call[c].id} /\ call[c].op \in {"add", "remove"}
    <3>1. CASE io[c].doing = "create"
      <4>1. io[c].found = {[no |-> 0, id |-> call[c].id]} /\ call[c].op = "add"
        BY <3>1 DEF CallInv, Doing
      <4> QED
        BY <4>1 DEF Owned
    <3>2. CASE io[c].doing = "delete"
      BY <3>2 DEF CallInv, Doing
    <3> QED
      BY <2>1, <3>1, <3>2
  <2>3. Newest(io[c].found) \in io[c].found /\ io[c].found \in SUBSET Events
    BY <1>0, <2>2, NewestIs DEF Io
  <2>4. Newest(io[c].found).id = call[c].id
    BY <2>2, <2>3 DEF Owned
  <2> QED
    BY <1>1, <1>2, <1>4, <1>6, <1>7, <2>2, <2>3, <2>4
<1>8. late' = late \/ (io[c].request = "sent" /\ late' = late \cup {[op |-> call[c].op, event |-> Newest(io[c].found)]})
  BY Zenon DEF Fail
<1> QED
  BY <1>1, <1>2, <1>4, <1>6, <1>7, <1>8

LEMMA LandLateSteps ==
  ASSUME Types, Numbered, CallInv, LandLate
  PROVE  /\ \E w \in late : Carried(w.op, w.event.id) /\ late' = late \ {w}
         /\ UNCHANGED <<call, io, issued, made, plan>>
         /\ Numbered' /\ CallInv'
<1>1. PICK w \in late : /\ \/ w.op = "add" /\ Create(w.event.id)
                           \/ w.op = "remove" /\ Delete(w.event)
                        /\ late' = late \ {w} /\ UNCHANGED <<call, io, issued, made, plan>>
  BY Zenon DEF LandLate, Rest
<1>2. w.event \in Events /\ w.event.id \in Appliances
  BY DEF Types, Events
<1>3. Carried(w.op, w.event.id)
  BY <1>1, <1>2, CreateCarries, DeleteCarries
<1>4. /\ IsFiniteSet(events') /\ \A e \in events' : e.no <= created'
      /\ \A d \in Callers : \A e \in io[d].found : e.no <= created'
      /\ \A d \in Callers : Window(d)' /\ Answered(d)'
      /\ \A d \in Callers : Doing(d)'
  BY <1>1, <1>3, CarriedCalls
<1> QED
  BY <1>1, <1>3, <1>4 DEF Numbered, CallInv

(***************************************************************************)
(* The callers                                                             *)
(***************************************************************************)
LEMMA ToolSteps ==
  ASSUME Types, NEW s \in Servers, Tool(s)
  PROVE  /\ ~R!Running(s) /\ UNCHANGED <<plan, since>>
         /\ \E op, id : Invokes(s, op, id) /\ Begun(s, op, id)
         /\ issued' \subseteq Added /\ made' \in [Servers -> 0 .. MaxCalls]
<1>0. s \in Callers
  BY DEF Callers
<1>1. ~R!Running(s) /\ UNCHANGED <<plan, since>>
  BY Zenon DEF Tool
<1>2. \E op, id : Invokes(s, op, id) /\ Begin(s, op, id)
  <2>1. CASE Begin(s, "list", None)
    BY <2>1 DEF Invokes
  <2>2. CASE \E id \in Appliances : Begin(s, "remove", id)
    BY <2>2 DEF Invokes
  <2>3. CASE \E id \in Added \ issued : Begin(s, "add", id)
    BY <2>3 DEF Invokes, Appliances
  <2>4. \/ Begin(s, "list", None) \/ \E id \in Appliances : Begin(s, "remove", id)
        \/ \E id \in Added \ issued : Begin(s, "add", id)
    BY Zenon DEF Tool
  <2> QED
    BY <2>1, <2>2, <2>3, <2>4
<1>3. \E op, id : Invokes(s, op, id) /\ Begun(s, op, id)
  BY <1>0, <1>2, BeginTypes
<1>4. issued' \subseteq Added
  BY DEF Tool, Types
<1>5. made' \in [Servers -> 0 .. MaxCalls]
  <2>1. made[s] < MaxCalls /\ made' = [made EXCEPT ![s] = made[s] + 1]
    BY Zenon DEF Tool
  <2>2. made[s] + 1 \in 0 .. MaxCalls
    BY <2>1, SizesAssumption DEF Types
  <2> QED
    BY <2>1, <2>2 DEF Types
<1> QED
  BY <1>1, <1>3, <1>4, <1>5

(* A run of the script looks at the household, or stores or removes one    *)
(* appliance, or ends.                                                     *)
PlanGoes(s, stage, todo) ==
  /\ plan' \in [Seeders -> [stage : Stages, reset : BOOLEAN, todo : SUBSET Appliances]]
  /\ plan'[s].stage = stage /\ plan'[s].reset = plan[s].reset /\ plan'[s].todo = todo
  /\ \A t \in Seeders : t # s => plan'[t] = plan[t]

Looks(s) ==
  /\ Begun(s, "list", None) /\ PlanGoes(s, "looking", {})
  /\ since' = [since EXCEPT ![s].lost = {}]

Does(s, op, stage, ids) ==
  /\ since' = since
  /\ \E id \in ids : Invokes(s, op, id) /\ Begun(s, op, id) /\ PlanGoes(s, stage, ids \ {id})

Ends(s, stage) ==
  /\ PlanGoes(s, stage, {}) /\ UNCHANGED <<events, created, late, call, span, io, since>>

LEMMA PlanTypes ==
  ASSUME Types, NEW s \in Seeders, NEW stage \in Stages, NEW todo \in SUBSET Appliances, Goes(s, stage, todo)
  PROVE  PlanGoes(s, stage, todo)
<1>1. plan \in [Seeders -> [stage : Stages, reset : BOOLEAN, todo : SUBSET Appliances]]
  BY DEF Types
<1> DEFINE one == [stage |-> stage, reset |-> plan[s].reset, todo |-> plan[s].todo]
           two == [stage |-> stage, reset |-> plan[s].reset, todo |-> todo]
           g == [plan EXCEPT ![s] = one]
<1>2. [plan[s] EXCEPT !.stage = stage] = one /\ [one EXCEPT !.todo = todo] = two
      /\ two \in [stage : Stages, reset : BOOLEAN, todo : SUBSET Appliances]
  BY <1>1
<1>3. two.stage = stage /\ two.reset = plan[s].reset /\ two.todo = todo
  OBVIOUS
<1> HIDE DEF one, two
<1>4. g[s] = one /\ [g EXCEPT ![s] = two] = [plan EXCEPT ![s] = two]
  BY <1>1
<1>5. [plan EXCEPT ![s].stage = stage] = g /\ [g EXCEPT ![s].todo = todo] = [g EXCEPT ![s] = two]
  BY <1>2, <1>4
<1> HIDE DEF g
<1>6. plan' = [g EXCEPT ![s].todo = todo]
  BY <1>5, Zenon DEF Goes
<1> QED
  BY <1>1, <1>2, <1>3, <1>4, <1>5, <1>6 DEF PlanGoes

LEMMA LookLooks ==
  ASSUME Types, NEW s \in Seeders, Look(s)
  PROVE  Looks(s)
<1>1. s \in Callers /\ Begin(s, "list", None) /\ Goes(s, "looking", {})
      /\ since' = [since EXCEPT ![s].lost = {}]
  BY DEF Callers, Look
<1> QED
  BY <1>1, BeginTypes, PlanTypes DEF Looks, Invokes, Stages

LEMMA DoDoes ==
  ASSUME Types, NEW s \in Seeders, NEW op \in {"add", "remove"}, NEW stage \in Stages,
         NEW ids \in SUBSET Appliances, Do(s, op, stage, ids)
  PROVE  Does(s, op, stage, ids)
<1>1. PICK id \in ids : Begin(s, op, id) /\ Goes(s, stage, ids \ {id}) /\ since' = since
  BY DEF Do
<1>2. s \in Callers /\ Invokes(s, op, id) /\ ids \ {id} \in SUBSET Appliances
  BY DEF Callers, Invokes
<1> QED
  BY <1>1, <1>2, BeginTypes, PlanTypes DEF Does

LEMMA StopEnds ==
  ASSUME Types, NEW s \in Seeders, NEW stage \in Stages, Stop(s, stage)
  PROVE  Ends(s, stage)
  BY PlanTypes DEF Stop, Ends

(* What run s has still to remove, or to add.                              *)
ToClear(s, ids) ==
  /\ call[s].answer.says # "error"
  /\ \/ plan[s].stage = "listing" /\ ids = call[s].answer.ids
     \/ plan[s].stage = "clearing" /\ ids = plan[s].todo

ToFill(s, ids) ==
  /\ call[s].answer.says # "error"
  /\ \/ plan[s].stage = "looking" /\ ids = Seeds \ call[s].answer.ids
     \/ plan[s].stage = "filling" /\ ids = plan[s].todo

Lists(s) ==
  /\ Begun(s, "list", None) /\ PlanGoes(s, "listing", {})
  /\ since' = [since EXCEPT ![s].stored = {}]

Clears(s, ids) ==
  /\ ToClear(s, ids)
  /\ \/ ids = {} /\ Looks(s)
     \/ Does(s, "remove", "clearing", ids)

Fills(s, ids) ==
  /\ ToFill(s, ids)
  /\ \/ ids = {} /\ Ends(s, "done")
     \/ Does(s, "add", "filling", ids)

LEMMA SeedSteps ==
  ASSUME Types, NEW s \in Seeders, Seed(s)
  PROVE  /\ ~R!Running(s) /\ UNCHANGED <<issued, made>>
         /\ \/ plan[s].stage = "start" /\ plan[s].reset /\ Lists(s)
            \/ plan[s].stage = "start" /\ ~plan[s].reset /\ Looks(s)
            \/ plan[s].stage \notin {"start", "done", "raised"} /\ Ends(s, "raised")
            \/ \E ids \in SUBSET Appliances : Clears(s, ids) \/ Fills(s, ids)
<1> DEFINE answer == call[s].answer
           todo == plan[s].todo
           stage == plan[s].stage
<1>0. s \in Callers /\ call[s] \in R!Calls /\ plan[s] \in [stage : Stages, reset : BOOLEAN, todo : SUBSET Appliances]
  BY DEF Callers, Types
<1>1. /\ answer.ids \in SUBSET Appliances /\ (answer = R!Says("error") <=> answer.says = "error")
      /\ todo \in SUBSET Appliances /\ Seeds \ answer.ids \in SUBSET Appliances
  <2>1. answer \in R!Answers \cup {R!Waiting}
    BY <1>0 DEF R!Calls
  <2> QED
    BY <1>0, <2>1, AnswerTypes DEF Appliances
<1>2. /\ ~R!Running(s) /\ UNCHANGED <<issued, made>>
      /\ \/ /\ stage = "start" /\ plan[s].reset
            /\ Begin(s, "list", None) /\ Goes(s, "listing", {})
            /\ since' = [since EXCEPT ![s].stored = {}]
         \/ stage = "start" /\ ~plan[s].reset /\ Look(s)
         \/ stage \notin {"start", "done", "raised"} /\ answer = R!Says("error") /\ Stop(s, "raised")
         \/ stage = "listing"  /\ answer # R!Says("error") /\ Clear(s, answer.ids)
         \/ stage = "clearing" /\ answer # R!Says("error") /\ Clear(s, todo)
         \/ stage = "looking"  /\ answer # R!Says("error") /\ Fill(s, Seeds \ answer.ids)
         \/ stage = "filling"  /\ answer # R!Says("error") /\ Fill(s, todo)
  BY Zenon DEF Seed
<1>3. ASSUME Begin(s, "list", None), Goes(s, "listing", {}), since' = [since EXCEPT ![s].stored = {}]
      PROVE  Lists(s)
  <2>1. Begun(s, "list", None)
    BY <1>0, <1>3, BeginTypes DEF Invokes
  <2>2. PlanGoes(s, "listing", {})
    BY <1>3, PlanTypes DEF Stages
  <2> QED
    BY <1>3, <2>1, <2>2 DEF Lists
<1>4. ASSUME NEW ids \in SUBSET Appliances, Clear(s, ids), ToClear(s, ids)
      PROVE  Clears(s, ids)
  <2>1. CASE ids = {}
    BY <1>4, <2>1, LookLooks DEF Clear, Clears
  <2>2. CASE ids # {}
    <3>1. Do(s, "remove", "clearing", ids)
      BY <1>4, <2>2 DEF Clear
    <3>2. Does(s, "remove", "clearing", ids)
      BY <3>1, DoDoes DEF Stages
    <3> QED
      BY <1>4, <3>2 DEF Clears
  <2> QED
    BY <2>1, <2>2
<1>5. ASSUME NEW ids \in SUBSET Appliances, Fill(s, ids), ToFill(s, ids)
      PROVE  Fills(s, ids)
  <2>1. CASE ids = {}
    <3>1. Ends(s, "done")
      BY <1>5, <2>1, StopEnds DEF Fill, Stages
    <3> QED
      BY <1>5, <2>1, <3>1 DEF Fills
  <2>2. CASE ids # {}
    <3>1. Do(s, "add", "filling", ids)
      BY <1>5, <2>2 DEF Fill
    <3>2. Does(s, "add", "filling", ids)
      BY <3>1, DoDoes DEF Stages
    <3> QED
      BY <1>5, <3>2 DEF Fills
  <2> QED
    BY <2>1, <2>2
<1>6. Stop(s, "raised") => Ends(s, "raised")
  BY StopEnds DEF Stages
<1>7. stage = "listing" /\ answer # R!Says("error") => ToClear(s, answer.ids)
  BY <1>1 DEF ToClear
<1>8. stage = "clearing" /\ answer # R!Says("error") => ToClear(s, todo)
  BY <1>1 DEF ToClear
<1>9. stage = "looking" /\ answer # R!Says("error") => ToFill(s, Seeds \ answer.ids)
  BY <1>1 DEF ToFill
<1>10. stage = "filling" /\ answer # R!Says("error") => ToFill(s, todo)
  BY <1>1 DEF ToFill
<1>11. Look(s) => Looks(s)
  BY LookLooks
<1> HIDE DEF answer, todo
<1>12. CASE stage = "start"
  BY <1>2, <1>3, <1>11, <1>12
<1>13. CASE answer = R!Says("error") /\ stage \notin {"start", "done", "raised"}
  BY <1>2, <1>6, <1>13
<1>14. CASE answer # R!Says("error") /\ stage \in {"listing", "clearing"}
  <2>1. \E ids \in SUBSET Appliances : Clear(s, ids) /\ ToClear(s, ids)
    BY <1>1, <1>2, <1>7, <1>8, <1>14
  <2> QED
    BY <1>2, <1>4, <2>1
<1>15. CASE answer # R!Says("error") /\ stage \in {"looking", "filling"}
  <2>1. \E ids \in SUBSET Appliances : Fill(s, ids) /\ ToFill(s, ids)
    BY <1>1, <1>2, <1>9, <1>10, <1>15
  <2> QED
    BY <1>2, <1>5, <2>1
<1> QED
  BY <1>2, <1>12, <1>13, <1>14, <1>15

(***************************************************************************)
(* The types, the numbers and the calls, from the first state on           *)
(***************************************************************************)
Inv == Types /\ Numbered /\ CallInv

LEMMA InitNumbers ==
  ASSUME Init
  PROVE  /\ events \in SUBSET Events /\ created \in 0 .. MaxEvents
         /\ IsFiniteSet(events) /\ \A e \in events : e.no <= created
<1>0. PICK ids \in SUBSET Appliances :
        /\ \E order \in Bijection(ids, 1..Cardinality(ids)) : events = {[no |-> order[i], id |-> i] : i \in ids}
        /\ created = Cardinality(ids)
  BY DEF Init
<1>1. PICK order \in Bijection(ids, 1..Cardinality(ids)) : events = {[no |-> order[i], id |-> i] : i \in ids}
  BY <1>0
<1>2. IsFiniteSet(ids) /\ Cardinality(ids) <= Cardinality(Appliances)
  BY IdsAssumption, FS_Subset DEF Appliances
<1>3. Cardinality(ids) \in Nat /\ Cardinality(Appliances) \in Nat /\ MaxEvents \in Nat
  BY <1>2, IdsAssumption, SizesAssumption, FS_CardinalityType DEF Appliances
<1>4. Cardinality(ids) <= MaxEvents
  BY <1>2, <1>3, IdsAssumption DEF Appliances
<1>5. order \in [ids -> 1 .. Cardinality(ids)]
  BY DEF Bijection, Injection
<1>6. ASSUME NEW i \in ids
      PROVE  [no |-> order[i], id |-> i] \in Events /\ order[i] <= created
  <2>1. order[i] \in 1 .. Cardinality(ids)
    BY <1>5
  <2>2. order[i] \in 0 .. MaxEvents /\ order[i] <= created
    BY <1>0, <1>3, <1>4, <2>1
  <2> QED
    BY <2>2 DEF Events
<1>7. IsFiniteSet(events)
  <2> DEFINE f == [i \in ids |-> [no |-> order[i], id |-> i]]
  <2>1. f \in Surjection(ids, events)
    BY <1>1 DEF Surjection
  <2> QED
    BY <1>2, <2>1, FS_Surjection
<1>8. \A e \in events : e \in Events /\ e.no <= created
  BY <1>1, <1>6
<1> QED
  BY <1>0, <1>3, <1>4, <1>7, <1>8

LEMMA InitInv ==
  ASSUME Init
  PROVE  Inv /\ SeedInv
<1>1. /\ events \in SUBSET Events /\ created \in 0 .. MaxEvents
      /\ IsFiniteSet(events) /\ \A e \in events : e.no <= created
  BY InitNumbers
<1>2. /\ late = {} /\ call = [c \in Callers |-> R!NoCall] /\ span = [c \in Callers |-> R!Empty]
      /\ io = [c \in Callers |-> Idle] /\ made = [s \in Servers |-> 0]
      /\ plan \in [Seeders -> [stage : {"start"}, reset : BOOLEAN, todo : {{}}]]
      /\ since = [s \in Seeders |-> [stored |-> {}, lost |-> {}]] /\ issued \subseteq Added
  BY DEF Init
<1>3. Types
  <2>1. plan \in [Seeders -> [stage : Stages, reset : BOOLEAN, todo : SUBSET Appliances]]
    BY <1>2 DEF Stages
  <2> QED
    BY <1>1, <1>2, <2>1, IdleTypes, SizesAssumption DEF Types
<1>4. Numbered
  BY <1>1, <1>2, IdleTypes DEF Numbered
<1>5. CallInv
  <2> SUFFICES ASSUME NEW c \in Callers PROVE Window(c) /\ Doing(c) /\ Answered(c)
    BY DEF CallInv
  <2>1. call[c] = R!NoCall /\ span[c] = R!Empty /\ io[c] = Idle
    BY <1>2
  <2>2. call[c].op = None /\ call[c].answer.says = "ok" /\ ~R!Running(c) /\ span[c].always = {}
    BY <2>1, IdleTypes, AnswerTypes DEF R!Empty, R!Running
  <2>3. None \notin {"list", "add", "remove"}
    BY IdsAssumption
  <2>4. Window(c)
    BY <2>2 DEF Window
  <2>5. Doing(c)
    BY <2>1, <2>2, IdleTypes DEF Doing
  <2>6. Answered(c)
    BY <2>2, <2>3 DEF Answered
  <2> QED
    BY <2>4, <2>5, <2>6
<1>6. SeedInv
  <2> SUFFICES ASSUME NEW s \in Seeders PROVE Seeding(s)
    BY DEF SeedInv
  <2>1. plan[s].stage = "start" /\ s \in Callers
    BY <1>2 DEF Callers
  <2>2. ~R!Running(s)
    BY <1>2, <2>1, IdleTypes, AnswerTypes DEF R!Running
  <2> QED
    BY <2>1, <2>2 DEF Seeding
<1> QED
  BY <1>3, <1>4, <1>5, <1>6 DEF Inv

LEMMA SettledTypes ==
  ASSUME Inv, NEW c \in Callers, ReadPage(c) \/ Respond(c)
  PROVE  Inv'
<1>1. R!Running(c) /\ Still /\ Outside /\ (KeepsOn(c) \/ Replies(c))
  BY ReadPageSteps, RespondSteps DEF Inv
<1>2. Numbered' /\ CallInv' /\ call' \in [Callers -> R!Calls] /\ io' \in [Callers -> Io]
  BY <1>1, SettledCalls DEF Inv
<1>3. Types'
  BY <1>1, <1>2 DEF Inv, Types, Still, Outside
<1> QED
  BY <1>2, <1>3 DEF Inv

LEMMA ChangedTypes ==
  ASSUME Types, NEW op, NEW id, Carried(op, id), late' \subseteq late, call' = call,
         io' \in [Callers -> Io], UNCHANGED <<issued, made, plan>>
  PROVE  Types'
<1>1. PICK stored : Changed(stored)
  BY DEF Carried
<1>2. /\ events' \subseteq Events /\ created' \in created .. MaxEvents /\ span' \in [Callers -> R!Windows]
      /\ since' \in [Seeders -> [stored : SUBSET Appliances, lost : SUBSET Appliances]]
  BY <1>1 DEF Changed, Watches
<1>3. created' \in 0 .. MaxEvents
  BY <1>2, SizesAssumption DEF Types
<1> QED
  BY <1>2, <1>3 DEF Types

LEMMA LandTypes ==
  ASSUME Inv, NEW c \in Callers, Land(c)
  PROVE  Inv'
<1>1. /\ Carried(call[c].op, call[c].id) /\ io' \in [Callers -> Io]
      /\ UNCHANGED <<late, call, issued, made, plan>> /\ Numbered' /\ CallInv'
  BY LandSteps DEF Inv
<1> QED
  BY <1>1, ChangedTypes DEF Inv

LEMMA LandLateTypes ==
  ASSUME Inv, LandLate
  PROVE  Inv'
<1>1. PICK w \in late : Carried(w.op, w.event.id) /\ late' = late \ {w}
  BY LandLateSteps DEF Inv
<1>2. UNCHANGED <<call, io, issued, made, plan>> /\ Numbered' /\ CallInv'
  BY LandLateSteps DEF Inv
<1>3. io' \in [Callers -> Io] /\ late' \subseteq late
  BY <1>1, <1>2 DEF Inv, Types
<1> QED
  BY <1>1, <1>2, <1>3, ChangedTypes DEF Inv

LEMMA FailTypes ==
  ASSUME Inv, NEW c \in Callers, Fail(c)
  PROVE  Inv'
<1>1. /\ Still /\ UNCHANGED <<since, issued, made, plan>> /\ Replied(c, R!Says("error"))
      /\ Numbered' /\ CallInv'
      /\ \/ late' = late
         \/ /\ call[c].op \in {"add", "remove"}
            /\ \E e \in Events : e.id = call[c].id /\ late' = late \cup {[op |-> call[c].op, event |-> e]}
  BY FailSteps DEF Inv
<1>2. late' \subseteq [op : {"add", "remove"}, event : Events]
  <2>1. \A e \in Events : call[c].op \in {"add", "remove"} =>
          [op |-> call[c].op, event |-> e] \in [op : {"add", "remove"}, event : Events]
    OBVIOUS
  <2>2. late \subseteq [op : {"add", "remove"}, event : Events]
    BY DEF Inv, Types
  <2> QED
    BY <1>1, <2>1, <2>2
<1>3. Types'
  BY <1>1, <1>2 DEF Inv, Types, Still, Replied
<1> QED
  BY <1>1, <1>3 DEF Inv

LEMMA ToolTypes ==
  ASSUME Inv, NEW s \in Servers, Tool(s)
  PROVE  Inv'
<1>1. /\ UNCHANGED <<plan, since>> /\ issued' \subseteq Added /\ made' \in [Servers -> 0 .. MaxCalls]
  BY ToolSteps DEF Inv
<1>2. PICK op, id : Invokes(s, op, id) /\ Begun(s, op, id)
  BY ToolSteps DEF Inv
<1>3. s \in Callers
  BY DEF Callers
<1>4. Numbered' /\ CallInv'
  BY <1>2, <1>3, BeginCalls DEF Inv
<1>5. Types'
  BY <1>1, <1>2 DEF Inv, Types, Begun
<1> QED
  BY <1>4, <1>5 DEF Inv

(* What a step of run s changes: nothing of the store, and of the other    *)
(* processes nothing.                                                      *)
LEMMA SeedBegins ==
  ASSUME Types, NEW s \in Seeders, Seed(s)
  PROVE  /\ UNCHANGED <<issued, made>>
         /\ \/ UNCHANGED <<events, created, late, call, span, io, since>>
            \/ \E op, id : Invokes(s, op, id) /\ Begun(s, op, id)
         /\ since' \in [Seeders -> [stored : SUBSET Appliances, lost : SUBSET Appliances]]
         /\ plan' \in [Seeders -> [stage : Stages, reset : BOOLEAN, todo : SUBSET Appliances]]
         /\ \A t \in Seeders : t # s => plan'[t] = plan[t] /\ since'[t] = since[t]
<1>1. since \in [Seeders -> [stored : SUBSET Appliances, lost : SUBSET Appliances]]
  BY DEF Types
<1>2. ASSUME NEW ids, Does(s, "remove", "clearing", ids) \/ Does(s, "add", "filling", ids)
      PROVE  /\ \E op, id : Invokes(s, op, id) /\ Begun(s, op, id)
             /\ since' = since /\ \E stage, todo : PlanGoes(s, stage, todo)
  <2>1. PICK op, stage : Does(s, op, stage, ids)
    BY <1>2
  <2> QED
    BY <2>1 DEF Does
<1>3. ASSUME Lists(s) \/ Looks(s)
      PROVE  /\ \E op, id : Invokes(s, op, id) /\ Begun(s, op, id)
             /\ \E stage, todo : PlanGoes(s, stage, todo)
             /\ since' \in [Seeders -> [stored : SUBSET Appliances, lost : SUBSET Appliances]]
             /\ \A t \in Seeders : t # s => since'[t] = since[t]
  <2>1. Begun(s, "list", None) /\ Invokes(s, "list", None) /\ \E stage, todo : PlanGoes(s, stage, todo)
    BY <1>3 DEF Lists, Looks, Invokes
  <2>2. CASE since' = [since EXCEPT ![s].stored = {}]
    BY <1>1, <2>1, <2>2
  <2>3. CASE since' = [since EXCEPT ![s].lost = {}]
    BY <1>1, <2>1, <2>3
  <2> QED
    BY <1>3, <2>2, <2>3 DEF Lists, Looks
<1>4. ASSUME NEW stage, Ends(s, stage)
      PROVE  UNCHANGED <<events, created, late, call, span, io, since>> /\ \E todo : PlanGoes(s, stage, todo)
  BY <1>4 DEF Ends
<1>5. \A stage, todo : PlanGoes(s, stage, todo) =>
        /\ plan' \in [Seeders -> [stage : Stages, reset : BOOLEAN, todo : SUBSET Appliances]]
        /\ \A t \in Seeders : t # s => plan'[t] = plan[t]
  BY DEF PlanGoes
<1>6. /\ UNCHANGED <<issued, made>>
      /\ \/ Lists(s) \/ Looks(s) \/ \E stage : Ends(s, stage)
         \/ \E ids : Does(s, "remove", "clearing", ids) \/ Does(s, "add", "filling", ids)
  BY SeedSteps DEF Clears, Fills
<1> QED
  BY <1>1, <1>2, <1>3, <1>4, <1>5, <1>6

LEMMA SeedTypes ==
  ASSUME Inv, NEW s \in Seeders, Seed(s)
  PROVE  Inv'
<1>0. s \in Callers
  BY DEF Callers
<1>1. /\ UNCHANGED <<issued, made>>
      /\ \/ UNCHANGED <<events, created, late, call, span, io, since>>
         \/ \E op, id : Invokes(s, op, id) /\ Begun(s, op, id)
      /\ since' \in [Seeders -> [stored : SUBSET Appliances, lost : SUBSET Appliances]]
      /\ plan' \in [Seeders -> [stage : Stages, reset : BOOLEAN, todo : SUBSET Appliances]]
  BY SeedBegins DEF Inv
<1>2. CASE UNCHANGED <<events, created, late, call, span, io, since>>
  <2>1. Types' /\ Numbered'
    BY <1>1, <1>2 DEF Inv, Types, Numbered
  <2>2. CallInv'
    BY <1>2, SameCall DEF Inv, CallInv
  <2> QED
    BY <2>1, <2>2 DEF Inv
<1>3. CASE \E op, id : Invokes(s, op, id) /\ Begun(s, op, id)
  <2>1. PICK op, id : Invokes(s, op, id) /\ Begun(s, op, id)
    BY <1>3
  <2>2. Numbered' /\ CallInv'
    BY <1>0, <2>1, BeginCalls DEF Inv
  <2>3. Types'
    BY <1>1, <2>1 DEF Inv, Types, Begun
  <2> QED
    BY <2>2, <2>3 DEF Inv
<1> QED
  BY <1>1, <1>2, <1>3

LEMMA NextInv ==
  ASSUME Inv, [Next]_vars
  PROVE  Inv'
<1>1. CASE UNCHANGED vars
  <2>1. Types' /\ Numbered'
    BY <1>1 DEF Inv, vars, Types, Numbered
  <2>2. CallInv'
    BY <1>1, SameCall DEF Inv, CallInv, vars
  <2> QED
    BY <2>1, <2>2 DEF Inv
<1>2. CASE Next
  BY <1>2, SettledTypes, LandTypes, FailTypes, LandLateTypes, ToolTypes, SeedTypes DEF Next
<1> QED
  BY <1>1, <1>2

(***************************************************************************)
(* The runs of the seeding script                                          *)
(***************************************************************************)
LEMMA SameSeed ==
  ASSUME NEW s \in Seeders, Seeding(s), events' = events, call'[s] = call[s], io'[s] = io[s],
         span'[s] = span[s], plan'[s] = plan[s], since'[s] = since[s]
  PROVE  Seeding(s)'
<1>1. (R!Running(s) <=> R!Running(s)') /\ Here(s)' = Here(s)
  BY DEF R!Running, Here
<1>2. Filled(s) => Filled(s)'
  BY <1>1 DEF Filled
<1>3. (Clearing(s) => Clearing(s)') /\ (Filling(s) => Filling(s)')
  BY <1>1, <1>2 DEF Clearing, Filling
<1> QED
  BY <1>1, <1>3 DEF Seeding

(* A write lands, perhaps the one run s waits for.                         *)
LEMMA ChangedSeeds ==
  ASSUME NEW stored, Changed(stored), NEW s \in Seeders, Seeding(s), call' = call, plan' = plan,
         io'[s].request = "landed" =>
           io[s].request = "landed" \/ (call[s].op = "add" => call[s].id \in Owned(events'))
  PROVE  Seeding(s)'
<1>0. s \in Callers
  BY DEF Callers
<1>1. /\ \A x \in Owned(events') : x \in Owned(events) \/ x \in stored
      /\ span'[s].joined = span[s].joined \cup stored /\ span'[s].ever = span[s].ever \cup Owned(events')
      /\ since'[s].stored = since[s].stored \cup stored
      /\ since'[s].lost = since[s].lost \cup (Owned(events) \ Owned(events'))
  BY <1>0 DEF Owned, Changed, Watches
<1>2. Here(s) \subseteq Here(s)' /\ Owned(events') \subseteq Here(s)'
  BY <1>1 DEF Here
<1>3. (R!Running(s) <=> R!Running(s)')
  BY DEF R!Running
<1>4. Clearing(s) => Clearing(s)'
  BY <1>1 DEF Clearing
<1>5. Filled(s) /\ call[s].op = "add" => Filled(s)'
  BY <1>2 DEF Filled
<1>6. Filling(s) => Filling(s)'
  BY <1>1, <1>2, <1>5 DEF Filling
<1> QED
  BY <1>3, <1>4, <1>6 DEF Seeding

(* The call of run s goes on, or is answered.                              *)
LEMMA SettledSeeds ==
  ASSUME NEW s \in Seeders, R!Running(s), Still, since' = since, plan' = plan, Seeding(s),
         \/ call' = call /\ io'[s].request # "landed"
         \/ \E value \in R!Answers : Replied(s, value) /\ Right(s, value)
  PROVE  Seeding(s)'
<1>0. s \in Callers
  BY DEF Callers
<1>1. plan[s].stage \notin {"start", "done", "raised"} /\ Here(s)' = Here(s)
      /\ events' = events /\ span' = span
  BY DEF Seeding, Still, Here
<1>2. CASE call' = call /\ io'[s].request # "landed"
  <2>1. Filled(s) => Filled(s)'
    BY <1>1, <1>2 DEF Filled
  <2> QED
    BY <1>1, <1>2, <2>1 DEF Seeding, Clearing, Filling
<1>3. CASE \E value \in R!Answers : Replied(s, value) /\ Right(s, value)
  <2>1. PICK value \in R!Answers : Replied(s, value) /\ Right(s, value)
    BY <1>3
  <2>2. call'[s].op = call[s].op /\ call'[s].id = call[s].id /\ call'[s].answer = value
        /\ io'[s].request = "none"
    BY <2>1, IdleTypes DEF Replied
  <2>3. Filled(s) => Filled(s)'
    BY <1>1, <2>1, <2>2 DEF Filled, Right
  <2> QED
    BY <1>1, <2>2, <2>3 DEF Seeding, Clearing, Filling
<1> QED
  BY <1>2, <1>3

(* When run s clears, what it has not listed yet was stored meanwhile;     *)
(* when it fills, what it does not add is there, or was taken away.        *)
LEMMA ClearsAll ==
  ASSUME Inv, NEW s \in Seeders, Seeding(s), ~R!Running(s), NEW ids \in SUBSET Appliances, ToClear(s, ids)
  PROVE  plan[s].reset /\ Owned(events) \subseteq since[s].stored \cup ids
<1>0. s \in Callers /\ call[s] \in R!Calls
  BY DEF Callers, Inv, Types
<1>1. plan[s].stage \in {"listing", "clearing"} /\ Clearing(s) /\ Window(s) /\ Answered(s)
  BY <1>0 DEF ToClear, Seeding, Inv, CallInv
<1>2. plan[s].reset /\ span[s].joined \subseteq since[s].stored
  BY <1>1 DEF Clearing
<1>3. call[s].answer.says \notin {"waiting", "error"}
  <2>1. call[s].answer \in R!Answers \cup {R!Waiting}
    BY <1>0 DEF R!Calls
  <2> QED
    BY <2>1, AnswerTypes DEF R!Running, ToClear
<1>4. CASE plan[s].stage = "listing"
  <2>1. call[s].op = "list" /\ call[s].op # None
    BY <1>1, <1>4, IdsAssumption DEF Clearing
  <2>2. call[s].answer.says = "ids" /\ R!Steady(span[s]) \subseteq ids
    BY <1>1, <1>3, <1>4, <2>1 DEF Answered, ToClear
  <2>3. Owned(events) \subseteq span[s].always \cup span[s].joined
    BY <1>1, <2>1 DEF Window
  <2> QED
    BY <1>2, <2>2, <2>3 DEF R!Steady
<1>5. CASE plan[s].stage = "clearing"
  <2>1. call[s].op = "remove" /\ ids = plan[s].todo
        /\ Owned(events) \subseteq since[s].stored \cup plan[s].todo \cup {call[s].id}
    BY <1>1, <1>5 DEF Clearing, ToClear
  <2>2. call[s].answer.says \in {"true", "false"}
    BY <1>1, <1>3, <2>1 DEF Answered
  <2>3. call[s].id \in Owned(events) => call[s].id \in span[s].joined
    BY <1>1, <2>2 DEF Answered
  <2> QED
    BY <1>2, <2>1, <2>3
<1> QED
  BY <1>1, <1>4, <1>5

LEMMA FillsAll ==
  ASSUME Inv, NEW s \in Seeders, Seeding(s), ~R!Running(s), NEW ids \in SUBSET Appliances, ToFill(s, ids)
  PROVE  /\ plan[s].reset => Owned(events) \subseteq since[s].stored
         /\ Seeds \subseteq ids \cup Here(s)
<1>0. s \in Callers /\ call[s] \in R!Calls
  BY DEF Callers, Inv, Types
<1>1. plan[s].stage \in {"looking", "filling"} /\ Filling(s) /\ Answered(s)
  BY <1>0 DEF ToFill, Seeding, Inv, CallInv
<1>2. call[s].answer.says \notin {"waiting", "error"}
  <2>1. call[s].answer \in R!Answers \cup {R!Waiting}
    BY <1>0 DEF R!Calls
  <2> QED
    BY <2>1, AnswerTypes DEF R!Running, ToFill
<1>3. CASE plan[s].stage = "looking"
  <2>1. call[s].op = "list" /\ span[s].ever \subseteq Here(s) /\ ids = Seeds \ call[s].answer.ids
    BY <1>1, <1>3 DEF Filling, ToFill
  <2>2. call[s].answer.ids \subseteq span[s].ever
    BY <1>1, <1>2, <2>1 DEF Answered
  <2> QED
    BY <1>1, <2>1, <2>2 DEF Filling
<1>4. CASE plan[s].stage = "filling"
  <2>1. call[s].op = "add" /\ Filled(s) /\ ids = plan[s].todo
        /\ Seeds \subseteq plan[s].todo \cup {call[s].id} \cup Here(s)
    BY <1>1, <1>4 DEF Filling, ToFill
  <2>2. call[s].answer.says = "ok"
    BY <1>1, <1>2, <2>1 DEF Answered
  <2> QED
    BY <1>1, <2>1, <2>2 DEF Filled, Filling
<1> QED
  BY <1>1, <1>3, <1>4

LEMMA BeginsSeed ==
  ASSUME NEW s \in Seeders, NEW op, NEW id, Begun(s, op, id)
  PROVE  /\ events' = events /\ call'[s].op = op /\ call'[s].id = id /\ R!Running(s)'
         /\ span'[s].ever = Owned(events) /\ span'[s].joined = {}
         /\ io'[s].request # "landed" /\ call'[s].answer.says = "waiting"
<1>1. call'[s] = [op |-> op, id |-> id, answer |-> R!Waiting] /\ events' = events
      /\ span'[s] = [always |-> Owned(events), ever |-> Owned(events), joined |-> {}]
  BY DEF Begun
<1>2. io'[s].request # "landed"
  BY DEF Begun
<1> QED
  BY <1>1, <1>2, AnswerTypes DEF R!Running

LEMMA LooksSeed ==
  ASSUME Types, NEW s \in Seeders, Looks(s), plan[s].reset => Owned(events) \subseteq since[s].stored
  PROVE  Seeding(s)'
<1>1. events' = events /\ call'[s].op = "list" /\ span'[s].ever = Owned(events)
  BY BeginsSeed DEF Looks
<1>2. plan'[s].stage = "looking" /\ plan'[s].reset = plan[s].reset
  BY DEF Looks, PlanGoes
<1>3. since'[s].stored = since[s].stored
  BY DEF Looks, Types
<1> QED
  BY <1>1, <1>2, <1>3 DEF Seeding, Filling, Here

LEMMA SeedSeeds ==
  ASSUME Inv, NEW s \in Seeders, Seeding(s), Seed(s)
  PROVE  Seeding(s)'
<1>1. ~R!Running(s) /\ Types
  BY SeedSteps DEF Inv
<1>2. CASE plan[s].stage = "start" /\ plan[s].reset /\ Lists(s)
  <2>1. call'[s].op = "list" /\ span'[s].joined = {}
    BY <1>2, BeginsSeed DEF Lists
  <2>2. plan'[s].stage = "listing" /\ plan'[s].reset
    BY <1>2 DEF Lists, PlanGoes
  <2> QED
    BY <2>1, <2>2 DEF Seeding, Clearing
<1>3. CASE plan[s].stage = "start" /\ ~plan[s].reset /\ Looks(s)
  BY <1>1, <1>3, LooksSeed
<1>4. CASE \E stage \in {"done", "raised"} : Ends(s, stage)
  <2>1. plan'[s].stage \in {"done", "raised"} /\ call' = call
    BY <1>4 DEF Ends, PlanGoes
  <2> QED
    BY <1>1, <2>1 DEF Seeding, R!Running
<1>5. ASSUME NEW ids \in SUBSET Appliances, Clears(s, ids)
      PROVE  Seeding(s)'
  <2>1. plan[s].reset /\ Owned(events) \subseteq since[s].stored \cup ids
    BY <1>1, <1>5, ClearsAll DEF Clears
  <2>2. CASE ids = {} /\ Looks(s)
    BY <1>1, <2>1, <2>2, LooksSeed
  <2>3. CASE Does(s, "remove", "clearing", ids)
    <3>1. PICK id \in ids : Begun(s, "remove", id) /\ PlanGoes(s, "clearing", ids \ {id})
      BY <2>3 DEF Does
    <3>2. events' = events /\ call'[s].op = "remove" /\ call'[s].id = id /\ span'[s].joined = {}
      BY <3>1, BeginsSeed
    <3>3. plan'[s].stage = "clearing" /\ plan'[s].reset /\ plan'[s].todo = ids \ {id} /\ since' = since
      BY <2>1, <2>3, <3>1 DEF PlanGoes, Does
    <3> QED
      BY <2>1, <3>2, <3>3 DEF Seeding, Clearing
  <2> QED
    BY <1>5, <2>2, <2>3 DEF Clears
<1>6. ASSUME NEW ids \in SUBSET Appliances, Fills(s, ids), Does(s, "add", "filling", ids)
      PROVE  Seeding(s)'
  <2>1. Seeds \subseteq ids \cup Here(s) /\ (plan[s].reset => Owned(events) \subseteq since[s].stored)
    BY <1>1, <1>6, FillsAll DEF Fills
  <2>2. PICK id \in ids : Begun(s, "add", id) /\ PlanGoes(s, "filling", ids \ {id})
    BY <1>6 DEF Does
  <2>3. events' = events /\ call'[s].op = "add" /\ call'[s].id = id
        /\ io'[s].request # "landed" /\ call'[s].answer.says = "waiting"
    BY <2>2, BeginsSeed
  <2>4. plan'[s].stage = "filling" /\ plan'[s].reset = plan[s].reset /\ plan'[s].todo = ids \ {id}
        /\ since' = since
    BY <1>6, <2>2 DEF PlanGoes, Does
  <2>5. Filled(s)'
    BY <2>3 DEF Filled
  <2> QED
    BY <2>1, <2>3, <2>4, <2>5 DEF Seeding, Filling, Here
<1>7. \/ plan[s].stage = "start" /\ plan[s].reset /\ Lists(s)
      \/ plan[s].stage = "start" /\ ~plan[s].reset /\ Looks(s)
      \/ Ends(s, "raised")
      \/ \E ids \in SUBSET Appliances : Clears(s, ids) \/ Fills(s, ids)
  BY <1>1, SeedSteps
<1>8. ASSUME NEW ids \in SUBSET Appliances, Fills(s, ids)
      PROVE  Ends(s, "done") \/ Does(s, "add", "filling", ids)
  BY <1>8 DEF Fills
<1> QED
  BY <1>2, <1>3, <1>4, <1>5, <1>6, <1>7, <1>8

LEMMA NextSeedInv ==
  ASSUME Inv, SeedInv, [Next]_vars
  PROVE  SeedInv'
<1> SUFFICES ASSUME NEW s \in Seeders PROVE Seeding(s)'
  BY DEF SeedInv
<1>0. s \in Callers /\ Seeding(s) /\ s \notin Servers
  BY IdsAssumption DEF Callers, SeedInv
<1>1. CASE UNCHANGED vars
  BY <1>0, <1>1, SameSeed DEF vars
<1>2. ASSUME NEW c \in Callers, Still, since' = since, plan' = plan, Alone(c), R!Running(c),
             \/ call' = call /\ io'[c].request # "landed"
             \/ \E value \in R!Answers : Replied(c, value) /\ Right(c, value)
      PROVE  Seeding(s)'
  <2>1. CASE c = s
    BY <1>0, <1>2, <2>1, SettledSeeds
  <2>2. CASE c # s
    <3>1. call'[s] = call[s] /\ io'[s] = io[s] /\ events' = events /\ span' = span
      BY <1>0, <1>2, <2>2 DEF Alone, Still
    <3> QED
      BY <1>0, <1>2, <3>1, SameSeed
  <2> QED
    BY <2>1, <2>2
<1>3. ASSUME NEW c \in Callers, ReadPage(c) \/ Respond(c)
      PROVE  Seeding(s)'
  <2>1. R!Running(c) /\ Still /\ Outside /\ (KeepsOn(c) \/ Replies(c))
    BY <1>3, ReadPageSteps, RespondSteps DEF Inv
  <2>2. Alone(c)
    BY <2>1, SettledCalls DEF Inv
  <2>3. \/ call' = call /\ io'[c].request # "landed"
        \/ \E value \in R!Answers : Replied(c, value) /\ Right(c, value)
    BY <2>1 DEF KeepsOn, Continues, Replies
  <2> QED
    BY <1>2, <2>1, <2>2, <2>3 DEF Outside
<1>4. ASSUME NEW c \in Callers, Fail(c)
      PROVE  Seeding(s)'
  <2>1. R!Running(c) /\ Still /\ UNCHANGED <<since, plan>> /\ Replied(c, R!Says("error"))
    BY <1>4, FailSteps DEF Inv
  <2>2. R!Says("error") \in R!Answers /\ Right(c, R!Says("error"))
    BY AnswerTypes DEF Right
  <2> QED
    BY <1>2, <2>1, <2>2 DEF Replied
<1>5. ASSUME NEW c \in Callers, Land(c)
      PROVE  Seeding(s)'
  <2>1. /\ call[c].op \in {"add", "remove"} /\ Carried(call[c].op, call[c].id) /\ Alone(c)
        /\ UNCHANGED <<call, plan>>
    BY <1>5, LandSteps DEF Inv
  <2>2. PICK stored : Changed(stored) /\ (call[c].op = "add" => stored = {call[c].id})
    BY <2>1 DEF Carried
  <2>3. io'[s].request = "landed" =>
          io[s].request = "landed" \/ (call[s].op = "add" => call[s].id \in Owned(events'))
    <3>1. CASE c = s
      BY <2>2, <3>1 DEF Changed
    <3>2. CASE c # s
      BY <1>0, <2>1, <3>2 DEF Alone
    <3> QED
      BY <3>1, <3>2
  <2> QED
    BY <1>0, <2>1, <2>2, <2>3, ChangedSeeds
<1>6. ASSUME LandLate
      PROVE  Seeding(s)'
  <2>1. PICK w \in late : Carried(w.op, w.event.id)
    BY <1>6, LandLateSteps DEF Inv
  <2>2. PICK stored : Changed(stored)
    BY <2>1 DEF Carried
  <2>3. UNCHANGED <<call, io, plan>>
    BY <1>6, LandLateSteps DEF Inv
  <2> QED
    BY <1>0, <2>2, <2>3, ChangedSeeds
<1>7. ASSUME NEW t \in Servers, Tool(t)
      PROVE  Seeding(s)'
  <2>1. UNCHANGED <<plan, since>> /\ \E op, id : Begun(t, op, id)
    BY <1>7, ToolSteps DEF Inv
  <2>2. events' = events /\ call'[s] = call[s] /\ span'[s] = span[s] /\ io'[s] = io[s]
    BY <1>0, <2>1 DEF Begun
  <2> QED
    BY <1>0, <2>1, <2>2, SameSeed
<1>8. ASSUME NEW t \in Seeders, Seed(t)
      PROVE  Seeding(s)'
  <2>1. CASE t = s
    BY <1>0, <1>8, <2>1, SeedSeeds
  <2>2. CASE t # s
    <3>1. plan'[s] = plan[s] /\ since'[s] = since[s]
          /\ (UNCHANGED <<events, call, span, io>> \/ \E op, id : Begun(t, op, id))
      BY <1>8, <2>2, SeedBegins DEF Inv
    <3>2. events' = events /\ call'[s] = call[s] /\ span'[s] = span[s] /\ io'[s] = io[s]
      BY <1>0, <2>2, <3>1 DEF Begun
    <3> QED
      BY <1>0, <3>1, <3>2, SameSeed
  <2> QED
    BY <2>1, <2>2
<1> QED
  BY <1>1, <1>3, <1>4, <1>5, <1>6, <1>7, <1>8 DEF Next

LEMMA InvAlways ==
  Spec => [](Inv /\ SeedInv)
<1>1. Init => Inv /\ SeedInv
  BY InitInv
<1>2. Inv /\ SeedInv /\ [Next]_vars => (Inv /\ SeedInv)'
  BY NextInv, NextSeedInv
<1> QED
  BY <1>1, <1>2, PTL DEF Spec

(* Every variable keeps its type, an AWS request is under way only for a   *)
(* repository call that runs, and what was abandoned is a write            *)
(* (agentcore_memory.py).                                                  *)
THEOREM RegistryTypeCorrect == Spec => []TypeOK
<1>1. Inv => TypeOK
  <2> SUFFICES ASSUME Inv PROVE TypeOK
    OBVIOUS
  <2>1. Types /\ \A c \in Callers : io[c].doing = "nothing" <=> ~R!Running(c)
    BY DEF Inv, CallInv, Doing
  <2>2. {[op |-> w.op, id |-> w.event.id] : w \in late} \subseteq R!Writes
    BY <2>1 DEF Types, R!Writes, Events
  <2>3. Owned(events) \in SUBSET Appliances
    BY <2>1, OwnedTypes DEF Types
  <2>4. R!TypeOK
    BY <2>1, <2>2, <2>3 DEF R!TypeOK, Types
  <2>5. \A c \in Callers : io[c] \in Io
    BY <2>1 DEF Types
  <2>6. \A s \in Seeders :
          plan[s] \in [stage : Stages, reset : BOOLEAN, todo : SUBSET Appliances]
          /\ since[s] \in [stored : SUBSET Appliances, lost : SUBSET Appliances]
    BY <2>1 DEF Types
  <2>7. \A c \in Callers :
          /\ io[c].doing \in {"nothing", "list", "create", "delete"}
          /\ io[c].request \in {"none", "sent", "landed"}
          /\ io[c].doing = "nothing" <=> ~R!Running(c)
          /\ io[c].found \subseteq Events /\ io[c].cursor \in Nat
    BY <2>1, <2>5 DEF Io
  <2>8. \A s \in Seeders :
          /\ plan[s].stage \in {"start", "listing", "clearing", "looking", "filling", "done", "raised"}
          /\ plan[s].todo \subseteq Appliances
          /\ since[s] \in [stored : SUBSET Appliances, lost : SUBSET Appliances]
    BY <2>6 DEF Stages
  <2> QED
    BY <2>1, <2>4, <2>7, <2>8 DEF TypeOK, Types
<1> QED
  BY <1>1, InvAlways, PTL

(* A run that returns had nothing left to add.                             *)
LEMMA FinishesFilled ==
  ASSUME Inv, SeedInv, Next, NEW s \in Seeders, Finishes(s)
  PROVE  /\ Seeds \subseteq Owned(events)' \cup since[s].lost
         /\ plan[s].reset => Owned(events)' \subseteq since[s].stored
<1>1. PICK t \in Seeders : Seed(t)
  <2>1. plan' # plan
    BY DEF Finishes
  <2>2. \A c \in Callers : ~(ReadPage(c) \/ Respond(c))
    BY <2>1, ReadPageSteps, RespondSteps DEF Inv, Outside
  <2>3. \A c \in Callers : ~(Land(c) \/ Fail(c))
    BY <2>1, LandSteps, FailSteps DEF Inv
  <2>4. ~LandLate /\ \A t \in Servers : ~Tool(t)
    BY <2>1, LandLateSteps, ToolSteps DEF Inv
  <2> QED
    BY <2>2, <2>3, <2>4 DEF Next
<1>2. t = s
  BY <1>1, SeedBegins DEF Inv, Finishes
<1>3. /\ ~R!Running(s)
      /\ \/ Lists(s) \/ Looks(s) \/ Ends(s, "raised")
         \/ \E ids \in SUBSET Appliances : Clears(s, ids) \/ Fills(s, ids)
  BY <1>1, <1>2, SeedSteps DEF Inv
<1>4. ~Lists(s) /\ ~Looks(s) /\ ~Ends(s, "raised") /\ \A op, ids : ~Does(s, op, "clearing", ids)
      /\ ~Does(s, op, "filling", ids)
  BY DEF Finishes, Lists, Looks, Ends, Does, PlanGoes
<1>5. PICK ids \in SUBSET Appliances : ids = {} /\ ToFill(s, ids) /\ Ends(s, "done")
  BY <1>3, <1>4 DEF Clears, Fills
<1>6. Seeding(s)
  BY DEF SeedInv
<1>7. Seeds \subseteq Here(s) /\ (plan[s].reset => Owned(events) \subseteq since[s].stored)
  BY <1>3, <1>5, <1>6, FillsAll
<1>8. Owned(events)' = Owned(events)
  BY <1>5 DEF Ends
<1> QED
  BY <1>7, <1>8 DEF Here

(* A run of scripts/seed_agentcore_memory.py that returns leaves every     *)
(* demo appliance in the household, but for those another caller removed   *)
(* after it looked, whatever the servers and other runs do meanwhile.      *)
THEOREM SeedComplete == Spec => SeedRunComplete
<1>1. Inv /\ SeedInv /\ [Next]_vars =>
        [\A s \in Seeders : Finishes(s) => Seeds \subseteq Owned(events)' \cup since[s].lost]_vars
  BY FinishesFilled
<1> QED
  BY <1>1, InvAlways, PTL DEF Spec, SeedRunComplete

(* With --reset nothing but the demo appliances is left, unless it was     *)
(* stored during the run.                                                  *)
THEOREM ResetCleared == Spec => ResetClears
<1>1. Inv /\ SeedInv /\ [Next]_vars =>
        [\A s \in Seeders : Finishes(s) /\ plan[s].reset
           => Owned(events)' \ Seeds \subseteq since[s].stored]_vars
  BY FinishesFilled
<1> QED
  BY <1>1, InvAlways, PTL DEF Spec, ResetClears

(***************************************************************************)
(* Every step is a step of Registry, or none of its steps                  *)
(***************************************************************************)
Kept(writes)  == {[op |-> w.op, id |-> w.event.id] : w \in writes}

LEMMA WatchesWatched ==
  ASSUME Types, NEW stored, Watches(stored)
  PROVE  span' = R!Watched(span, Owned(events'), stored)
<1> DEFINE one(c) == [always |-> span[c].always \cap Owned(events'),
                      ever   |-> span[c].ever \cup Owned(events'),
                      joined |-> span[c].joined \cup stored]
<1>1. DOMAIN span = Callers /\ span' \in [Callers -> R!Windows]
  BY DEF Types, Watches
<1>2. ASSUME NEW c \in Callers
      PROVE  span'[c] = one(c)
  <2>1. span'[c] \in R!Windows
    BY <1>1
  <2>2. span'[c] = [always |-> span'[c].always, ever |-> span'[c].ever, joined |-> span'[c].joined]
    BY <2>1 DEF R!Windows
  <2> QED
    BY <2>2 DEF Watches
<1>3. span' = [c \in Callers |-> one(c)]
  BY <1>1, <1>2
<1> QED
  BY <1>1, <1>3 DEF R!Watched

LEMMA CarriedEffect ==
  ASSUME Types, NEW w, w.op \in {"add", "remove"}, Carried(w.op, w.id)
  PROVE  R!Effect(w)
<1>1. CASE w.op = "add"
  <2>1. Watches({w.id}) /\ Owned(events') = Owned(events) \cup {w.id}
    BY <1>1 DEF Carried, Changed
  <2>2. span' = R!Watched(span, Owned(events'), {w.id})
    BY <2>1, WatchesWatched
  <2> QED
    BY <1>1, <2>1, <2>2 DEF R!Effect
<1>2. CASE w.op = "remove"
  <2>1. Watches({}) /\ Owned(events') \in {Owned(events), Owned(events) \ {w.id}}
    BY <1>2 DEF Carried, Changed
  <2>2. span' = R!Watched(span, Owned(events'), {})
    BY <2>1, WatchesWatched
  <2> QED
    BY <1>2, <2>1, <2>2 DEF R!Effect
<1> QED
  BY <1>1, <1>2

LEMMA RepliedReturns ==
  ASSUME Types, NEW c \in Callers, NEW value, Replied(c, value)
  PROVE  call' = [call EXCEPT ![c].answer = value]
<1>1. call \in [Callers -> R!Calls] /\ call' \in [Callers -> R!Calls] /\ call[c] \in R!Calls
  BY DEF Types, Replied
<1>2. [call[c] EXCEPT !.answer = value] = [op |-> call[c].op, id |-> call[c].id, answer |-> value]
  BY <1>1 DEF R!Calls
<1>3. call' = [call EXCEPT ![c] = [op |-> call[c].op, id |-> call[c].id, answer |-> value]]
  BY <1>1 DEF Replied, Alone
<1> QED
  BY <1>2, <1>3

LEMMA BegunInvokes ==
  ASSUME Types, NEW c \in Callers, ~R!Running(c), NEW op, NEW id, Invokes(c, op, id), Begun(c, op, id)
  PROVE  R!Next
<1>1. op \in R!Operations /\ id \in Appliances \cup {None} /\ ((op = "list") <=> (id = None))
  BY IdsAssumption DEF Invokes, R!Operations, Appliances
<1>2. call \in [Callers -> R!Calls] /\ span \in [Callers -> R!Windows]
      /\ call' \in [Callers -> R!Calls] /\ span' \in [Callers -> R!Windows]
  BY DEF Types, Begun
<1>3. call' = [call EXCEPT ![c] = [op |-> op, id |-> id, answer |-> R!Waiting]]
  BY <1>2 DEF Begun
<1>4. span' = [span EXCEPT ![c] = [always |-> Owned(events), ever |-> Owned(events), joined |-> {}]]
  BY <1>2 DEF Begun
<1>5. events' = events /\ late' = late
  BY DEF Begun
<1>6. R!Invoke(c, op, id)
  BY <1>1, <1>3, <1>4, <1>5 DEF R!Invoke
<1> QED
  BY <1>1, <1>6 DEF R!Next

(* The answer is one the window explains.                                  *)
LEMMA RightExplains ==
  ASSUME Inv, NEW c \in Callers, R!Running(c), NEW value \in R!Answers, Right(c, value), value.says # "error"
  PROVE  R!Explains(span[c], call[c].op, call[c].id, value)
<1>1. io[c].doing \in {"list", "create", "delete"} /\ Window(c) /\ Doing(c)
  BY DEF Inv, CallInv, Doing, Types, Io
<1>2. call[c].op \in {"list", "add", "remove"}
  BY <1>1 DEF Doing
<1>3. CASE call[c].op = "list"
  <2>1. value.says = "ids"
    BY <1>3 DEF Right
  <2> QED
    BY <1>3, <2>1 DEF Right, R!Explains
<1>4. CASE call[c].op = "add"
  <2>1. value.says = "ok"
    BY <1>4 DEF Right
  <2>2. call[c].id \in span[c].ever
    BY <1>1, <2>1 DEF Right, Doing
  <2> QED
    BY <1>4, <2>1, <2>2 DEF R!Explains
<1>5. CASE call[c].op = "remove"
  <2>1. value.says \in {"true", "false"} /\ (value.says = "true" => call[c].id \in span[c].ever)
        /\ (call[c].id \in Owned(events) => call[c].id \in span[c].joined)
    BY <1>5 DEF Right
  <2>2. call[c].id \notin R!Steady(span[c])
    BY <1>1, <2>1 DEF Window, R!Steady
  <2> QED
    BY <1>5, <2>1, <2>2 DEF R!Explains
<1> QED
  BY <1>2, <1>3, <1>4, <1>5

Nothing == UNCHANGED <<Owned(events), call, span, Kept(late)>>

LEMMA SettledRefines ==
  ASSUME Inv, NEW c \in Callers, ReadPage(c) \/ Respond(c)
  PROVE  R!Next \/ Nothing
<1>1. R!Running(c) /\ Still /\ Outside /\ (KeepsOn(c) \/ Replies(c))
  BY ReadPageSteps, RespondSteps DEF Inv
<1>2. events' = events /\ span' = span /\ late' = late
  BY <1>1 DEF Still, Outside
<1>3. CASE KeepsOn(c)
  BY <1>2, <1>3 DEF KeepsOn, Continues, Nothing
<1>4. CASE Replies(c)
  <2>1. PICK value \in R!Answers : Replied(c, value) /\ Right(c, value) /\ value.says # "error"
    BY <1>4 DEF Replies
  <2>2. R!Explains(span[c], call[c].op, call[c].id, value)
    BY <1>1, <2>1, RightExplains
  <2>3. call' = [call EXCEPT ![c].answer = value]
    BY <2>1, RepliedReturns DEF Inv
  <2>4. value \in R!Answers \ {R!Says("error")}
    BY <2>1, AnswerTypes
  <2>5. R!Return(c)
    BY <1>1, <1>2, <2>2, <2>3, <2>4 DEF R!Return
  <2> QED
    BY <2>5 DEF R!Next
<1> QED
  BY <1>1, <1>3, <1>4

LEMMA LandRefines ==
  ASSUME Inv, NEW c \in Callers, Land(c)
  PROVE  R!Next
<1>1. /\ R!Running(c) /\ call[c].op \in {"add", "remove"} /\ Carried(call[c].op, call[c].id)
      /\ UNCHANGED <<late, call>>
  BY LandSteps DEF Inv
<1>2. R!Effect(call[c])
  BY <1>1, CarriedEffect DEF Inv
<1>3. R!Land(c)
  BY <1>1, <1>2 DEF R!Land
<1> QED
  BY <1>3 DEF R!Next

LEMMA FailRefines ==
  ASSUME Inv, NEW c \in Callers, Fail(c)
  PROVE  R!Next
<1>1. /\ R!Running(c) /\ Still /\ Replied(c, R!Says("error"))
      /\ \/ late' = late
         \/ /\ call[c].op \in {"add", "remove"}
            /\ \E e \in Events : e.id = call[c].id /\ late' = late \cup {[op |-> call[c].op, event |-> e]}
  BY FailSteps DEF Inv
<1>2. call' = [call EXCEPT ![c].answer = R!Says("error")]
  BY <1>1, RepliedReturns DEF Inv
<1>3. \/ Kept(late') = Kept(late)
      \/ call[c].op # "list" /\ Kept(late') = Kept(late) \cup {[op |-> call[c].op, id |-> call[c].id]}
  <2>1. CASE late' = late
    BY <2>1
  <2>2. ASSUME NEW e \in Events, e.id = call[c].id, late' = late \cup {[op |-> call[c].op, event |-> e]}
        PROVE  Kept(late') = Kept(late) \cup {[op |-> call[c].op, id |-> call[c].id]}
    <3> DEFINE w == [op |-> call[c].op, event |-> e]
    <3>1. w.op = call[c].op /\ w.event.id = call[c].id /\ late' = late \cup {w}
      BY <2>2
    <3> HIDE DEF w
    <3>2. ASSUME NEW kept
          PROVE  kept \in Kept(late') <=> kept \in Kept(late) \/ kept = [op |-> w.op, id |-> w.event.id]
      BY <3>1 DEF Kept
    <3> QED
      BY <3>1, <3>2
  <2> QED
    BY <1>1, <2>1, <2>2
<1>4. Kept(late') \in {Kept(late)} \cup
        IF call[c].op = "list" THEN {} ELSE {Kept(late) \cup {[op |-> call[c].op, id |-> call[c].id]}}
  BY <1>3
<1>5. R!Fail(c)
  BY <1>1, <1>2, <1>4 DEF R!Fail, Still, Kept
<1> QED
  BY <1>5 DEF R!Next

LEMMA LandLateRefines ==
  ASSUME Inv, LandLate
  PROVE  R!Next
<1>1. PICK w \in late : Carried(w.op, w.event.id) /\ late' = late \ {w}
  BY LandLateSteps DEF Inv
<1>2. call' = call
  BY LandLateSteps DEF Inv
<1> DEFINE v == [op |-> w.op, id |-> w.event.id]
<1>3. w.op \in {"add", "remove"} /\ v.op = w.op /\ v.id = w.event.id /\ v \in Kept(late)
  BY DEF Inv, Types, Kept
<1>4. Kept(late') \in {Kept(late), Kept(late) \ {v}}
  <2>1. Kept(late) \ {v} \subseteq Kept(late') /\ Kept(late') \subseteq Kept(late)
    BY <1>1 DEF Kept
  <2> HIDE DEF v
  <2>2. CASE v \in Kept(late')
    BY <2>1, <2>2
  <2>3. CASE v \notin Kept(late')
    BY <2>1, <2>3
  <2> QED
    BY <2>2, <2>3
<1> HIDE DEF v
<1>5. R!Effect(v)
  BY <1>1, <1>3, CarriedEffect DEF Inv
<1>6. R!LandLate
  BY <1>2, <1>3, <1>4, <1>5 DEF R!LandLate, Kept
<1> QED
  BY <1>6 DEF R!Next

LEMMA NextRefines ==
  ASSUME Inv, [Next]_vars
  PROVE  [R!Next]_(R!vars)
<1>1. Nothing => UNCHANGED R!vars
  BY DEF Nothing, R!vars, Kept
<1>2. CASE UNCHANGED vars
  <2>1. Nothing
    BY <1>2 DEF vars, Nothing
  <2> QED
    BY <1>1, <2>1
<1>3. ASSUME NEW s \in Servers, Tool(s)
      PROVE  R!Next
  <2>1. s \in Callers /\ ~R!Running(s) /\ \E op, id : Invokes(s, op, id) /\ Begun(s, op, id)
    BY <1>3, ToolSteps DEF Inv, Callers
  <2> QED
    BY <2>1, BegunInvokes DEF Inv
<1>4. ASSUME NEW s \in Seeders, Seed(s)
      PROVE  R!Next \/ Nothing
  <2>1. s \in Callers /\ ~R!Running(s)
    BY <1>4, SeedSteps DEF Inv, Callers
  <2>2. \/ UNCHANGED <<events, created, late, call, span, io, since>>
        \/ \E op, id : Invokes(s, op, id) /\ Begun(s, op, id)
    BY <1>4, SeedBegins DEF Inv
  <2>3. CASE UNCHANGED <<events, created, late, call, span, io, since>>
    BY <2>3 DEF Nothing
  <2>4. CASE \E op, id : Invokes(s, op, id) /\ Begun(s, op, id)
    BY <2>1, <2>4, BegunInvokes DEF Inv
  <2> QED
    BY <2>2, <2>3, <2>4
<1>5. CASE Next
  <2>1. R!Next \/ Nothing
    BY <1>3, <1>4, <1>5, SettledRefines, LandRefines, FailRefines, LandLateRefines DEF Next
  <2> QED
    BY <1>1, <2>1
<1> QED
  BY <1>2, <1>5

(* What ApplianceRepository (repository/base.py) promises its callers of   *)
(* each answer, the calls on AgentCore Memory keep, page by page and       *)
(* request by request: whatever the other processes do in between, however *)
(* many requests fail, and whether or not the service carried them out.    *)
THEOREM RegistryImplemented == Spec => ImplementsRegistry
<1>1. Init => R!Init
  <2> SUFFICES ASSUME Init PROVE R!Init
    OBVIOUS
  <2>1. events \in SUBSET Events
    BY InitNumbers
  <2>2. Owned(events) \in SUBSET Appliances
    BY <2>1, OwnedTypes
  <2>3. late = {} /\ call = [c \in Callers |-> R!NoCall] /\ span = [c \in Callers |-> R!Empty]
    BY DEF Init
  <2> QED
    BY <2>2, <2>3 DEF R!Init
<1>2. Inv /\ SeedInv /\ [Next]_vars => [R!Next]_(R!vars)
  BY NextRefines
<1>3. Spec => [](Inv /\ SeedInv)
  BY InvAlways
<1> QED
  BY <1>1, <1>2, <1>3, PTL DEF Spec, R!Spec, ImplementsRegistry

===============================================================================
