--------------------------- MODULE HouseholdsProofs ---------------------------
(***************************************************************************)
(* Safety of Households, for any number of conversations, households and   *)
(* seeds.  What may go wrong is a hypothesis: each theorem says without    *)
(* which hazards it holds, and holds with all the others.                  *)
(***************************************************************************)
EXTENDS Households, Induction

(***************************************************************************)
(* The inductive invariant that all theorems share                         *)
(***************************************************************************)

(* A household belongs to one conversation of the process that runs.       *)
SessionAt(s) ==
    /\ household[s] # Nobody => up /\ household[s] \in drawn
    /\ pc[s] # "idle" => household[s] \notin seeded \cup {Nobody}
    /\ pc[s] = "add" <=> missing[s] # <<>>
    /\ \A t \in Sessions : household[s] = household[t] /\ household[s] # Nobody => s = t

(* A call that its client still waits for is that of the seed it is at.    *)
Awaits(s, c) ==
    /\ pc[s] = "add" /\ household[s] = c.household /\ Head(missing[s]) = c.seed

CallAt(c) ==
    /\ c.household \in drawn
    /\ IF c.late THEN "late_call" \in Hazards ELSE \E s \in Sessions : Awaits(s, c)

CleanupAt ==
    /\ cleanup.state # "off" => ~up \/ "overlap" \in Hazards
    /\ IF cleanup.state = "remove" THEN cleanup.current \in HouseholdIds
       ELSE cleanup.current = Nobody /\ cleanup.found = {}
    /\ \A a \in cleanup.found : a.household = cleanup.current

HouseholdsInv ==
    /\ TypeOK
    /\ \A s \in Sessions : SessionAt(s)
    /\ seeded \subseteq drawn /\ (seeded # {} => up)
    /\ \A c \in calls : CallAt(c)
    /\ \A a \in stored : a.household \in drawn \cup {Foreign}
    /\ CleanupAt
    /\ ForeignUntouched

(***************************************************************************)
(* What each property needs besides                                        *)
(***************************************************************************)
Holds(h, seed) == \E a \in stored : a.household = h /\ a.seed = seed

(* A household that may hold an appliance is recorded, or is about to be   *)
(* recorded again by the cleanup that is at work.                          *)
Recorded(h) ==
    IF cleanup.state = "off" THEN h \in ledger
    ELSE h \in ledger \cap (cleanup.queue \cup cleanup.remaining \cup {cleanup.current})

CleanableInv ==
    /\ \A s \in Sessions : household[s] # Nobody => household[s] \in ledger
    /\ \A a \in stored : a.household \in HouseholdIds => Recorded(a.household)

(* Every seed of a household that is being seeded is there or to come.     *)
CompleteAt(s) ==
    pc[s] = "add" =>
        \A seed \in SeedSet :
            \/ Holds(household[s], seed)
            \/ \E i \in DOMAIN missing[s] :
                  missing[s][i] = seed /\ (i = 1 => AddCall(s, seed) \in calls)

CompleteInv ==
    /\ \A s \in Sessions : CompleteAt(s)
    /\ SeededMeansComplete

(* What is to come is not there.                                           *)
FreshAt(s) ==
    /\ \A i, j \in DOMAIN missing[s] : missing[s][i] = missing[s][j] => i = j
    /\ \A i \in DOMAIN missing[s] :
          Holds(household[s], missing[s][i]) => i = 1 /\ AddCall(s, missing[s][1]) \notin calls

FreshInv ==
    /\ \A s \in Sessions : FreshAt(s)
    /\ NoDuplicateSeeds

(***************************************************************************)
(* The seeding                                                             *)
(***************************************************************************)
LEMMA SeedsAreSeeds == Seeds \in Seq(SeedSet) /\ Foreign \notin HouseholdIds /\ Nobody \notin HouseholdIds
BY HouseholdsAssumption

(* What a listing lacks, in the order of the seeds, each of them once.     *)
LEMMA MissingSeeds ==
  ASSUME NEW listing
  PROVE  /\ SeedsMissingFrom(listing) \in Seq(SeedSet)
         /\ \A i \in DOMAIN SeedsMissingFrom(listing) :
               \A a \in listing : a.seed # SeedsMissingFrom(listing)[i]
         /\ \A i, j \in DOMAIN SeedsMissingFrom(listing) :
               SeedsMissingFrom(listing)[i] = SeedsMissingFrom(listing)[j] => i = j
         /\ \A seed \in SeedSet :
               \/ \E a \in listing : a.seed = seed
               \/ \E i \in DOMAIN SeedsMissingFrom(listing) : SeedsMissingFrom(listing)[i] = seed
<1> DEFINE K == {i \in DOMAIN Seeds : \A a \in listing : a.seed # Seeds[i]}
           t == Keep(Seeds, K)
<1>0. Seeds \in Seq(SeedSet) /\ DOMAIN Seeds = 1 .. Len(Seeds) /\ Len(Seeds) \in Nat
  BY SeedsAreSeeds
<1>1. t \in Seq(SeedSet) /\ \E p : Reads(p, t, Seeds, Len(Seeds), K)
  <2> HIDE DEF K
  <2> QED
    BY <1>0, KeepReads
<1>2. PICK p : Reads(p, t, Seeds, Len(Seeds), K)
  BY <1>1
<1>3. SeedsMissingFrom(listing) = t
  BY DEF SeedsMissingFrom
<1> HIDE DEF t
<1>4. DOMAIN t = 1 .. Len(t) /\ Len(t) \in Nat
  BY <1>1
<1>5. \A j \in 1 .. Len(t) : p[j] \in 1 .. Len(Seeds) /\ p[j] \in K /\ t[j] = Seeds[p[j]]
  BY <1>2 DEF Reads
<1>6. \A i, j \in 1 .. Len(t) : t[i] = t[j] => i = j
  <2> SUFFICES ASSUME NEW i \in 1 .. Len(t), NEW j \in 1 .. Len(t), t[i] = t[j]
               PROVE  i = j
    OBVIOUS
  <2>1. p[i] = p[j]
    BY <1>0, <1>5, HouseholdsAssumption
  <2>2. ~(i < j) /\ ~(j < i)
    BY <1>2, <1>5, <2>1 DEF Reads
  <2> QED
    BY <2>2
<1>7. \A seed \in SeedSet :
        \/ \E a \in listing : a.seed = seed
        \/ \E j \in 1 .. Len(t) : t[j] = seed
  <2> SUFFICES ASSUME NEW seed \in SeedSet, \A a \in listing : a.seed # seed
               PROVE  \E j \in 1 .. Len(t) : t[j] = seed
    OBVIOUS
  <2>1. PICK i \in 1 .. Len(Seeds) : Seeds[i] = seed
    BY <1>0 DEF SeedSet
  <2>2. i \in K
    BY <1>0, <2>1
  <2>3. PICK j \in 1 .. Len(t) : p[j] = i
    BY <1>2, <2>2 DEF Reads
  <2> QED
    BY <1>5, <2>1, <2>3
<1> QED
  BY <1>1, <1>3, <1>4, <1>5, <1>6, <1>7

(* A waiting call of the session's household is the session's own.         *)
LEMMA OwnCall ==
  ASSUME HouseholdsInv, NEW s \in Sessions, NEW c \in calls, ~c.late, household[s] # Nobody,
         c.household = household[s]
  PROVE  Awaits(s, c) /\ c = AddCall(s, Head(missing[s]))
<1>1. PICK t \in Sessions : Awaits(t, c)
  BY DEF HouseholdsInv, CallAt
<1>2. t = s
  BY <1>1 DEF HouseholdsInv, SessionAt, Awaits
<1>3. c = [household |-> c.household, seed |-> c.seed, late |-> c.late] /\ c.late = FALSE
  BY DEF HouseholdsInv, TypeOK, Calls
<1> QED
  BY <1>1, <1>2, <1>3 DEF Awaits, AddCall

LEMMA NextSeed ==
  ASSUME HouseholdsInv, NEW s \in Sessions, pc[s] # "idle", NEW rest \in Seq(SeedSet),
         AddNextOf(s, rest), \A c \in calls : ~c.late => ~Awaits(s, c),
         UNCHANGED <<up, household, drawn, ledger, stored, cleanup>>
  PROVE  HouseholdsInv'
<1>0. /\ pc = [t \in Sessions |-> pc[t]] /\ missing = [t \in Sessions |-> missing[t]]
      /\ household[s] \in HouseholdIds /\ household[s] \in drawn /\ up
      /\ household[s] \notin seeded
  BY DEF HouseholdsInv, TypeOK, SessionAt
<1>1. /\ missing' = [missing EXCEPT ![s] = rest]
      /\ pc' = [pc EXCEPT ![s] = IF rest = <<>> THEN "idle" ELSE "add"]
      /\ seeded' = IF rest = <<>> THEN seeded \cup {household[s]} ELSE seeded
      /\ calls' = IF rest = <<>> THEN calls ELSE calls \cup {AddCall(s, Head(rest))}
      /\ UNCHANGED <<up, household, drawn, ledger, stored, cleanup>>
  BY DEF AddNextOf
<1>2. rest # <<>> => Head(rest) \in SeedSet
  OBVIOUS
<1>3. rest # <<>> => AddCall(s, Head(rest)) \in Calls
  BY <1>0, <1>2 DEF AddCall, Calls
<1>4. TypeOK'
  BY <1>0, <1>1, <1>3 DEF HouseholdsInv, TypeOK
<1>5. ASSUME NEW t \in Sessions
      PROVE  SessionAt(t)'
  <2>1. SessionAt(t) /\ SessionAt(s)
    BY DEF HouseholdsInv
  <2>2. CASE t = s
    BY <1>0, <1>1, <2>1, <2>2 DEF SessionAt
  <2>3. CASE t # s
    <3>1. /\ pc'[t] = pc[t] /\ missing'[t] = missing[t]
          /\ (household[t] # Nobody => household[t] # household[s])
          /\ seeded' \subseteq seeded \cup {household[s]}
      BY <1>0, <1>1, <2>1, <2>3 DEF SessionAt
    <3>2. UNCHANGED <<up, household, drawn>>
      BY <1>1
    <3> QED
      BY <2>1, <3>1, <3>2 DEF SessionAt
  <2> QED
    BY <2>2, <2>3
<1>6. ASSUME NEW c \in calls'
      PROVE  CallAt(c)'
  <2>1. CASE c \in calls
    <3>1. CASE c.late
      BY <1>1, <2>1, <3>1 DEF HouseholdsInv, CallAt
    <3>2. CASE ~c.late
      <4>1. PICK t \in Sessions : Awaits(t, c)
        BY <2>1, <3>2 DEF HouseholdsInv, CallAt
      <4>2. t # s
        BY <2>1, <3>2, <4>1
      <4>3. Awaits(t, c)'
        BY <1>0, <1>1, <4>1, <4>2 DEF Awaits
      <4> QED
        BY <1>1, <2>1, <3>2, <4>3 DEF HouseholdsInv, CallAt
    <3> QED
      BY <3>1, <3>2
  <2>2. CASE c \notin calls
    <3>1. rest # <<>> /\ c = AddCall(s, Head(rest))
      BY <1>1, <2>2
    <3>2. ~c.late /\ c.household = household[s] /\ c.seed = Head(rest)
      BY <3>1 DEF AddCall
    <3>3. Awaits(s, c)'
      BY <1>0, <1>1, <3>1, <3>2 DEF Awaits
    <3> QED
      BY <1>0, <1>1, <3>2, <3>3 DEF CallAt
  <2> QED
    BY <2>1, <2>2
<1>7. CleanupAt' /\ ForeignUntouched' /\ (\A a \in stored' : a.household \in drawn' \cup {Foreign})
  BY <1>1 DEF HouseholdsInv, CleanupAt, ForeignUntouched
<1>8. seeded' \subseteq drawn' /\ (seeded' # {} => up')
  BY <1>0, <1>1 DEF HouseholdsInv
<1> QED
  BY <1>4, <1>5, <1>6, <1>7, <1>8 DEF HouseholdsInv

(* Calls that are given up on run later, or never.                         *)
LEMMA GivenUp ==
  ASSUME HouseholdsInv, NEW gone \in SUBSET calls, GiveUp(gone)
  PROVE  /\ calls' \subseteq Calls
         /\ \A c \in calls' : \/ c \in calls /\ c \notin gone
                              \/ /\ c.late /\ "late_call" \in Hazards
                                 /\ \E d \in gone : c.household = d.household
<1>1. ASSUME NEW c \in gone
      PROVE  /\ [c EXCEPT !.late = TRUE] \in Calls
             /\ [c EXCEPT !.late = TRUE].late
             /\ [c EXCEPT !.late = TRUE].household = c.household
  BY DEF HouseholdsInv, TypeOK, Calls
<1>2. calls \subseteq Calls
  BY DEF HouseholdsInv, TypeOK
<1> QED
  BY <1>1, <1>2 DEF GiveUp

LEMMA SeedingStep ==
  ASSUME HouseholdsInv, NEW s \in Sessions, SeedStep(s)
  PROVE  HouseholdsInv'
<1>0. /\ pc = [t \in Sessions |-> pc[t]] /\ missing = [t \in Sessions |-> missing[t]]
      /\ household = [t \in Sessions |-> household[t]]
      /\ SessionAt(s) /\ missing[s] \in Seq(SeedSet) /\ Nobody \notin HouseholdIds
  BY SeedsAreSeeds DEF HouseholdsInv, TypeOK
<1>1. CASE FirstTurn(s)
  <2>1. PICK h \in HouseholdIds \ drawn :
          /\ household' = [household EXCEPT ![s] = h] /\ drawn' = drawn \cup {h}
          /\ ledger' \in {ledger, ledger \cup {h}}
          /\ pc' = pc \/ pc' = [pc EXCEPT ![s] = "list"]
    BY <1>1 DEF FirstTurn, Record
  <2>2. /\ up /\ pc[s] = "idle" /\ household[s] = Nobody /\ missing[s] = <<>>
        /\ UNCHANGED <<up, seeded, missing, calls, stored, cleanup>>
    BY <1>0, <1>1 DEF FirstTurn, Idle, SessionAt
  <2>3. TypeOK'
    BY <1>0, <2>1, <2>2 DEF HouseholdsInv, TypeOK, Households
  <2>4. ASSUME NEW t \in Sessions
        PROVE  SessionAt(t)'
    <3>1. h \notin seeded /\ h # Nobody /\ \A u \in Sessions : household[u] # h
      BY <1>0, <2>1 DEF HouseholdsInv, SessionAt
    <3>2. household'[s] = h /\ \A u \in Sessions \ {s} : household'[u] = household[u] /\ pc'[u] = pc[u]
      BY <1>0, <2>1
    <3>3. pc'[s] \in {"idle", "list"}
      BY <1>0, <2>1, <2>2
    <3>4. \A u \in Sessions : SessionAt(u)
      BY DEF HouseholdsInv
    <3>5. CASE t = s
      BY <2>1, <2>2, <3>1, <3>2, <3>3, <3>5 DEF SessionAt
    <3>6. CASE t # s
      BY <2>1, <2>2, <3>1, <3>2, <3>4, <3>6 DEF SessionAt
    <3> QED
      BY <3>5, <3>6
  <2>5. ASSUME NEW c \in calls
        PROVE  CallAt(c)'
    <3>1. \A t \in Sessions : Awaits(t, c) => Awaits(t, c)'
      BY <1>0, <2>1, <2>2 DEF Awaits
    <3> QED
      BY <2>1, <3>1 DEF HouseholdsInv, CallAt
  <2>6. CleanupAt' /\ ForeignUntouched' /\ (\A a \in stored' : a.household \in drawn' \cup {Foreign})
    BY <2>1, <2>2 DEF HouseholdsInv, CleanupAt, ForeignUntouched
  <2> QED
    BY <2>1, <2>2, <2>3, <2>4, <2>5, <2>6 DEF HouseholdsInv
<1>2. CASE LaterTurn(s)
  <2>1. /\ up /\ pc[s] = "idle" /\ household[s] \notin seeded \cup {Nobody} /\ missing[s] = <<>>
        /\ pc' = [pc EXCEPT ![s] = "list"]
        /\ UNCHANGED <<up, household, seeded, missing, drawn, ledger, calls, stored, cleanup>>
    BY <1>0, <1>2 DEF LaterTurn, Idle, SessionAt
  <2>2. TypeOK'
    BY <1>0, <2>1 DEF HouseholdsInv, TypeOK
  <2>3. \A t \in Sessions : SessionAt(t)'
    BY <1>0, <2>1 DEF HouseholdsInv, SessionAt
  <2>4. ASSUME NEW c \in calls
        PROVE  CallAt(c)'
    <3>1. \A t \in Sessions : Awaits(t, c) => Awaits(t, c)'
      BY <1>0, <2>1 DEF Awaits
    <3> QED
      BY <2>1, <3>1 DEF HouseholdsInv, CallAt
  <2> QED
    BY <2>1, <2>2, <2>3, <2>4 DEF HouseholdsInv, CleanupAt, ForeignUntouched
<1>3. CASE Listed(s)
  <2>1. PICK listing : AddNextOf(s, SeedsMissingFrom(listing))
    BY <1>3 DEF Listed
  <2>2. pc[s] # "idle" /\ UNCHANGED <<up, household, drawn, ledger, stored, cleanup>>
    BY <1>3 DEF Listed
  <2>3. \A c \in calls : ~c.late => ~Awaits(s, c)
    BY <1>3 DEF Listed, Awaits
  <2>4. PICK rest \in Seq(SeedSet) : AddNextOf(s, rest)
    BY <2>1, MissingSeeds
  <2> QED
    BY <2>2, <2>3, <2>4, NextSeed
<1>4. CASE Added(s)
  <2>1. /\ pc[s] = "add" /\ AddCall(s, Head(missing[s])) \notin calls
        /\ AddNextOf(s, Tail(missing[s])) /\ UNCHANGED <<up, household, drawn, ledger, stored, cleanup>>
    BY <1>4 DEF Added
  <2>2. missing[s] # <<>> /\ household[s] # Nobody
    BY <1>0, <2>1 DEF SessionAt
  <2>3. PICK rest \in Seq(SeedSet) : rest = Tail(missing[s])
    BY <1>0, <2>2, HeadTailProperties
  <2>4. \A c \in calls : ~c.late => ~Awaits(s, c)
    BY <2>1, <2>2, OwnCall DEF Awaits
  <2> QED
    BY <2>1, <2>3, <2>4, NextSeed
<1>5. CASE SeedingFails(s)
  <2> DEFINE gone == {c \in calls : c.household = household[s]}
  <2>1. /\ pc[s] # "idle" /\ GiveUp(gone) /\ missing' = [missing EXCEPT ![s] = <<>>]
        /\ pc' = [pc EXCEPT ![s] = "idle"]
        /\ UNCHANGED <<up, household, seeded, drawn, ledger, stored, cleanup>>
    BY <1>5 DEF SeedingFails, StaysUnseeded
  <2>2. /\ calls' \subseteq Calls
        /\ \A c \in calls' : \/ c \in calls /\ c \notin gone
                             \/ /\ c.late /\ "late_call" \in Hazards
                                /\ \E d \in gone : c.household = d.household
    <3>1. gone \in SUBSET calls
      OBVIOUS
    <3> HIDE DEF gone
    <3> QED
      BY <2>1, <3>1, GivenUp
  <2>3. TypeOK'
    BY <1>0, <2>1, <2>2, EmptySeq DEF HouseholdsInv, TypeOK
  <2>4. \A t \in Sessions : SessionAt(t)'
    BY <1>0, <2>1 DEF HouseholdsInv, SessionAt
  <2>5. ASSUME NEW c \in calls'
        PROVE  CallAt(c)'
    <3>1. CASE c.late /\ "late_call" \in Hazards /\ \E d \in gone : c.household = d.household
      BY <2>1, <3>1 DEF HouseholdsInv, CallAt
    <3>2. CASE c \in calls /\ c.household # household[s]
      <4>1. \A t \in Sessions : Awaits(t, c) => Awaits(t, c)'
        BY <1>0, <2>1, <3>2 DEF Awaits
      <4> QED
        BY <2>1, <3>2, <4>1 DEF HouseholdsInv, CallAt
    <3> QED
      BY <2>2, <3>1, <3>2
  <2> QED
    BY <2>1, <2>3, <2>4, <2>5 DEF HouseholdsInv, CleanupAt, ForeignUntouched
<1> QED
  BY <1>1, <1>2, <1>3, <1>4, <1>5 DEF SeedStep

(***************************************************************************)
(* The server, the process of the demo and the cleanup                     *)
(***************************************************************************)
LEMMA ServerStep ==
  ASSUME HouseholdsInv, NEW c \in calls, ServerAdds(c)
  PROVE  HouseholdsInv'
<1>1. PICK new \in Appliances :
        /\ new.household = c.household /\ new.seed = c.seed /\ stored' = stored \cup {new}
  BY DEF ServerAdds, HouseholdsInv, TypeOK, Calls, Appliances, Households
<1>2. calls' = calls \ {c} /\ UNCHANGED <<demoVars, ledger, cleanup>>
  BY DEF ServerAdds
<1>3. TypeOK'
  BY <1>1, <1>2 DEF HouseholdsInv, TypeOK, demoVars
<1>4. \A d \in calls' : CallAt(d)'
  BY <1>2 DEF HouseholdsInv, CallAt, Awaits, demoVars
<1>5. \A a \in stored' : a.household \in drawn' \cup {Foreign}
  BY <1>1, <1>2 DEF HouseholdsInv, CallAt, demoVars
<1>6. ForeignUntouched' /\ CleanupAt' /\ \A s \in Sessions : SessionAt(s)'
  BY <1>1, <1>2 DEF HouseholdsInv, ForeignUntouched, CleanupAt, SessionAt, demoVars
<1> QED
  BY <1>2, <1>3, <1>4, <1>5, <1>6 DEF HouseholdsInv, demoVars

LEMMA ProcessStep ==
  ASSUME HouseholdsInv, DemoStops \/ DemoStarts
  PROVE  HouseholdsInv'
<1>1. CASE DemoStops
  <2>1. /\ up' = FALSE /\ household' = [s \in Sessions |-> Nobody] /\ seeded' = {}
        /\ pc' = [s \in Sessions |-> "idle"] /\ missing' = [s \in Sessions |-> <<>>]
        /\ GiveUp(calls) /\ UNCHANGED <<drawn, ledger, stored, cleanup>>
    BY <1>1 DEF DemoStops
  <2>2. calls' \subseteq Calls
        /\ \A c \in calls' : /\ c.late /\ "late_call" \in Hazards
                             /\ \E d \in calls : c.household = d.household
    BY <2>1, GivenUp
  <2>3. TypeOK'
    BY <2>1, <2>2, EmptySeq DEF HouseholdsInv, TypeOK
  <2>4. \A s \in Sessions : SessionAt(s)'
    BY <2>1 DEF SessionAt
  <2>5. \A c \in calls' : CallAt(c)'
    BY <2>1, <2>2 DEF HouseholdsInv, CallAt
  <2> QED
    BY <2>1, <2>3, <2>4, <2>5 DEF HouseholdsInv, CleanupAt, ForeignUntouched
<1>2. CASE DemoStarts
  <2>1. /\ ~up /\ (cleanup.state = "off" \/ "overlap" \in Hazards) /\ up' = TRUE
        /\ UNCHANGED <<household, seeded, pc, missing, drawn, ledger, calls, stored, cleanup>>
    BY <1>2 DEF DemoStarts
  <2>2. TypeOK'
    BY <2>1 DEF HouseholdsInv, TypeOK
  <2>3. \A s \in Sessions : SessionAt(s)'
    BY <2>1 DEF HouseholdsInv, SessionAt
  <2>4. \A c \in calls : CallAt(c)'
    BY <2>1 DEF HouseholdsInv, CallAt, Awaits
  <2> QED
    BY <2>1, <2>2, <2>3, <2>4 DEF HouseholdsInv, CleanupAt, ForeignUntouched
<1> QED
  BY <1>1, <1>2

(* The cleanup leaves the demo alone, and takes appliances of demo         *)
(* households out of the store.                                            *)
LEMMA CleanupEffect ==
  ASSUME HouseholdsInv, CleanupStep
  PROVE  /\ UNCHANGED <<demoVars, calls>>
         /\ stored' \subseteq stored
         /\ \A a \in stored \ stored' : a.household \in HouseholdIds
         /\ ledger' \subseteq Households
         /\ cleanup' \in CleanupLocals
         /\ CleanupAt'
<1>0. /\ cleanup \in CleanupLocals /\ ledger \subseteq Households /\ stored \subseteq Appliances
      /\ CleanupAt /\ Foreign \notin HouseholdIds
      /\ cleanup = [state |-> cleanup.state, queue |-> cleanup.queue, current |-> cleanup.current,
                    found |-> cleanup.found, remaining |-> cleanup.remaining]
  <2>1. cleanup \in CleanupLocals /\ ledger \subseteq Households /\ stored \subseteq Appliances /\ CleanupAt
    BY DEF HouseholdsInv, TypeOK
  <2> QED
    BY <2>1, SeedsAreSeeds DEF CleanupLocals
<1>1. NoCleanup \in CleanupLocals
  BY DEF NoCleanup, CleanupLocals
<1>2. CASE CleanupStarts
  <2>1. /\ cleanup' = [NoCleanup EXCEPT !.state = "next", !.queue = ledger]
        /\ ~up \/ "overlap" \in Hazards
        /\ UNCHANGED <<demoVars, ledger, calls, stored>>
    BY <1>2 DEF CleanupStarts
  <2> QED
    BY <1>0, <2>1 DEF CleanupAt, NoCleanup, CleanupLocals, demoVars
<1>3. CASE CleanupVisits
  <2>1. /\ cleanup.state = "next" /\ UNCHANGED <<demoVars, ledger, calls, stored>>
    BY <1>3 DEF CleanupVisits
  <2>2. PICK h \in cleanup.queue :
          \/ cleanup' = [cleanup EXCEPT !.queue = @ \ {h}]
          \/ h # Foreign /\ \E listing \in Listings(h) : EnterHousehold(h, listing)
    BY <1>3 DEF CleanupVisits, Skip
  <2>3. CASE cleanup' = [cleanup EXCEPT !.queue = @ \ {h}]
    BY <1>0, <2>1, <2>3 DEF CleanupAt, CleanupLocals, demoVars
  <2>4. ASSUME h # Foreign, NEW listing \in Listings(h), EnterHousehold(h, listing)
        PROVE  cleanup' \in CleanupLocals /\ CleanupAt'
    <3>1. listing \subseteq Appliances /\ \A a \in listing : a.household = h
      BY <1>0 DEF Listings, AppliancesOf
    <3>2. h \in HouseholdIds
      BY <1>0, <2>4 DEF CleanupLocals, Households
    <3>3. cleanup' = [state |-> "remove", queue |-> cleanup.queue \ {h}, current |-> h,
                      found |-> listing, remaining |-> cleanup.remaining]
      BY <1>0, <2>4 DEF EnterHousehold
    <3> QED
      BY <1>0, <2>1, <3>1, <3>2, <3>3 DEF CleanupAt, CleanupLocals, Households, demoVars
  <2> QED
    BY <1>0, <2>1, <2>2, <2>3, <2>4
<1>4. CASE CleanupRemoves
  <2>1. /\ cleanup.state = "remove" /\ UNCHANGED <<demoVars, ledger, calls>>
    BY <1>4 DEF CleanupRemoves
  <2>2. PICK a \in cleanup.found :
          stored' = stored \ {a} /\ cleanup' = [cleanup EXCEPT !.found = @ \ {a}]
    BY <1>4 DEF CleanupRemoves
  <2>3. a.household \in HouseholdIds
    BY <1>0, <2>1 DEF CleanupAt
  <2>4. cleanup' \in CleanupLocals /\ CleanupAt'
    BY <1>0, <2>1, <2>2 DEF CleanupAt, CleanupLocals, demoVars
  <2> QED
    BY <1>0, <2>1, <2>2, <2>3, <2>4
<1>5. CASE CleanupVerifies \/ CleanupFails
  <2>1. /\ cleanup.state = "remove" /\ UNCHANGED <<demoVars, ledger, calls, stored>>
        /\ LeaveHousehold({}) \/ LeaveHousehold({cleanup.current})
    BY <1>5 DEF CleanupVerifies, CleanupFails
  <2>2. cleanup.current \in HouseholdIds
    BY <1>0, <2>1 DEF CleanupAt
  <2>3. PICK failed \in SUBSET HouseholdIds : LeaveHousehold(failed)
    BY <2>1, <2>2
  <2>4. cleanup' = [state |-> "next", queue |-> cleanup.queue, current |-> Nobody, found |-> {},
                    remaining |-> cleanup.remaining \cup failed]
    BY <1>0, <2>3 DEF LeaveHousehold
  <2> QED
    BY <1>0, <2>1, <2>4 DEF CleanupAt, CleanupLocals, demoVars
<1>6. CASE CleanupWrites \/ CleanupDies
  <2>1. /\ cleanup' = NoCleanup /\ ledger' \in {ledger, cleanup.remaining}
        /\ UNCHANGED <<demoVars, calls, stored>>
    BY <1>6 DEF CleanupWrites, CleanupDies
  <2>2. ledger' \subseteq Households
    BY <1>0, <2>1 DEF CleanupLocals, Households
  <2> QED
    BY <1>1, <2>1, <2>2 DEF CleanupAt, NoCleanup
<1> QED
  BY <1>2, <1>3, <1>4, <1>5, <1>6 DEF CleanupStep

LEMMA CleanupKeeps ==
  ASSUME HouseholdsInv, CleanupStep
  PROVE  HouseholdsInv'
<1>1. /\ UNCHANGED <<demoVars, calls>> /\ stored' \subseteq stored
      /\ \A a \in stored \ stored' : a.household \in HouseholdIds
      /\ ledger' \subseteq Households /\ cleanup' \in CleanupLocals /\ CleanupAt'
  BY CleanupEffect
<1>2. TypeOK'
  BY <1>1 DEF HouseholdsInv, TypeOK, demoVars
<1>3. (\A s \in Sessions : SessionAt(s)') /\ \A c \in calls' : CallAt(c)'
  BY <1>1 DEF HouseholdsInv, SessionAt, CallAt, Awaits, demoVars
<1>4. ForeignUntouched'
  <2>1. \A a \in ForeignAppliances : a.household \notin HouseholdIds
    BY SeedsAreSeeds DEF ForeignAppliances
  <2> QED
    BY <1>1, <2>1 DEF HouseholdsInv, ForeignUntouched
<1> QED
  BY <1>1, <1>2, <1>3, <1>4 DEF HouseholdsInv, demoVars

LEMMA HouseholdsCorrect == Spec => []HouseholdsInv
<1>1. Init => HouseholdsInv
  <2> SUFFICES ASSUME Init PROVE HouseholdsInv
    OBVIOUS
  <2>1. ForeignAppliances \subseteq Appliances
    <3>1. 1 \in 1 .. MaxCopies
      BY HouseholdsAssumption
    <3> QED
      BY <3>1 DEF ForeignAppliances, Appliances, Households
  <2>2. cleanup \in CleanupLocals
    BY DEF Init, NoCleanup, CleanupLocals
  <2>3. TypeOK
    BY <2>1, <2>2, EmptySeq DEF Init, TypeOK, Households
  <2>4. CleanupAt /\ ForeignUntouched
    BY DEF Init, CleanupAt, NoCleanup, ForeignUntouched
  <2>5. (\A s \in Sessions : SessionAt(s)) /\ \A a \in stored : a.household = Foreign
    BY DEF Init, SessionAt, ForeignAppliances
  <2> QED
    BY <2>3, <2>4, <2>5 DEF Init, HouseholdsInv
<1>2. HouseholdsInv /\ [Next]_vars => HouseholdsInv'
  <2> SUFFICES ASSUME HouseholdsInv, [Next]_vars PROVE HouseholdsInv'
    OBVIOUS
  <2>1. CASE UNCHANGED vars
    <3>1. TypeOK'
      BY <2>1 DEF HouseholdsInv, TypeOK, vars, demoVars
    <3> QED
      BY <2>1, <3>1
      DEF HouseholdsInv, SessionAt, CallAt, Awaits, CleanupAt, ForeignUntouched, vars, demoVars
  <2> QED
    BY <2>1, SeedingStep, ServerStep, ProcessStep, CleanupKeeps DEF Next
<1> QED
  BY <1>1, <1>2, PTL DEF Spec

(* The household of every conversation, its calls, its appliances and what *)
(* the cleanup holds of it keep their types.                               *)
THEOREM HouseholdsTypeCorrect == Spec => []TypeOK
<1>1. HouseholdsInv => TypeOK
  BY DEF HouseholdsInv
<1> QED
  BY <1>1, HouseholdsCorrect, PTL

(* The cleanup never touches a household without the demo's prefix, in the *)
(* ledger or not, whatever goes wrong.                                     *)
THEOREM ForeignKept == Spec => []ForeignUntouched
<1>1. HouseholdsInv => ForeignUntouched
  BY DEF HouseholdsInv
<1> QED
  BY <1>1, HouseholdsCorrect, PTL

(***************************************************************************)
(* Seeded means complete, when the cleanup runs alone                      *)
(***************************************************************************)
LEMMA CompleteStays ==
  ASSUME NEW t \in Sessions, CompleteAt(t), stored \subseteq stored',
         pc'[t] = pc[t], missing'[t] = missing[t], household'[t] = household[t],
         \A c \in calls : c.household = household[t] => c \in calls'
  PROVE  CompleteAt(t)'
<1> SUFFICES ASSUME pc[t] = "add", NEW seed \in SeedSet
             PROVE  \/ Holds(household[t], seed)'
                    \/ \E i \in DOMAIN missing[t] :
                          missing[t][i] = seed /\ (i = 1 => AddCall(t, seed)' \in calls')
  BY DEF CompleteAt
<1>1. CASE Holds(household[t], seed)
  BY <1>1 DEF Holds
<1>2. ASSUME NEW i \in DOMAIN missing[t], missing[t][i] = seed, i = 1 => AddCall(t, seed) \in calls
      PROVE  i = 1 => AddCall(t, seed)' \in calls'
  <2>1. AddCall(t, seed)' = AddCall(t, seed) /\ AddCall(t, seed).household = household[t]
    BY DEF AddCall
  <2> QED
    BY <1>2, <2>1
<1> QED
  BY <1>1, <1>2 DEF CompleteAt

LEMMA NextComplete ==
  ASSUME HouseholdsInv, CompleteInv, NEW s \in Sessions, pc[s] # "idle",
         NEW rest \in Seq(SeedSet), AddNextOf(s, rest),
         \A seed \in SeedSet :
            Holds(household[s], seed) \/ \E i \in DOMAIN rest : rest[i] = seed,
         UNCHANGED <<up, household, drawn, ledger, stored, cleanup>>
  PROVE  CompleteInv'
<1>0. /\ pc = [t \in Sessions |-> pc[t]] /\ missing = [t \in Sessions |-> missing[t]]
  BY DEF HouseholdsInv, TypeOK
<1>1. /\ missing'[s] = rest /\ \A t \in Sessions \ {s} : missing'[t] = missing[t] /\ pc'[t] = pc[t]
      /\ calls \subseteq calls' /\ UNCHANGED <<household, stored>>
      /\ pc'[s] = "add" => rest # <<>> /\ AddCall(s, Head(rest)) \in calls'
      /\ \/ seeded' = seeded
         \/ seeded' = seeded \cup {household[s]} /\ rest = <<>>
  BY <1>0 DEF AddNextOf
<1>2. ASSUME NEW t \in Sessions
      PROVE  CompleteAt(t)'
  <2>1. CASE t = s
    <3> SUFFICES ASSUME pc'[s] = "add", NEW seed \in SeedSet, ~Holds(household[s], seed)
                 PROVE  \E i \in DOMAIN rest : rest[i] = seed /\ (i = 1 => AddCall(s, seed)' \in calls')
      BY <1>1, <2>1 DEF CompleteAt, Holds
    <3>1. PICK i \in DOMAIN rest : rest[i] = seed
      OBVIOUS
    <3>2. i = 1 => Head(rest) = seed
      BY <1>1, <3>1
    <3>3. AddCall(s, seed)' = AddCall(s, seed)
      BY <1>1 DEF AddCall
    <3> QED
      BY <1>1, <3>1, <3>2, <3>3
  <2>2. CASE t # s
    BY <1>1, <2>2, CompleteStays DEF CompleteInv
  <2> QED
    BY <2>1, <2>2
<1>3. ASSUME rest = <<>>
      PROVE  \A seed \in SeedSet : Holds(household[s], seed)
  BY <1>3
<1>4. SeededMeansComplete'
  BY <1>1, <1>3 DEF CompleteInv, SeededMeansComplete, AppliancesOf, Holds
<1> QED
  BY <1>2, <1>4 DEF CompleteInv

LEMMA CompleteStep ==
  ASSUME "overlap" \notin Hazards, HouseholdsInv, CompleteInv, Next
  PROVE  CompleteInv'
<1>0. /\ pc = [t \in Sessions |-> pc[t]] /\ missing = [t \in Sessions |-> missing[t]]
      /\ household = [t \in Sessions |-> household[t]]
      /\ \A t \in Sessions : SessionAt(t) /\ CompleteAt(t) /\ missing[t] \in Seq(SeedSet)
  BY DEF HouseholdsInv, TypeOK, CompleteInv
<1>1. ASSUME NEW s \in Sessions, FirstTurn(s) \/ LaterTurn(s)
      PROVE  CompleteInv'
  <2>1. /\ pc[s] = "idle" /\ pc'[s] # "add" /\ UNCHANGED <<seeded, missing, calls, stored>>
        /\ \A t \in Sessions \ {s} : pc'[t] = pc[t] /\ household'[t] = household[t]
    BY <1>0, <1>1 DEF FirstTurn, LaterTurn, Idle
  <2>2. ASSUME NEW t \in Sessions \ {s}
        PROVE  CompleteAt(t)'
    BY <1>0, <2>1, CompleteStays
  <2>3. CompleteAt(s)'
    BY <2>1 DEF CompleteAt
  <2> QED
    BY <2>1, <2>2, <2>3 DEF CompleteInv, SeededMeansComplete, AppliancesOf
<1>2. ASSUME NEW s \in Sessions, Listed(s)
      PROVE  CompleteInv'
  <2>1. PICK listing \in Listings(household[s]) :
          /\ pc[s] # "idle" /\ UNCHANGED <<up, household, drawn, ledger, stored, cleanup>>
          /\ AddNextOf(s, SeedsMissingFrom(listing))
    BY <1>2 DEF Listed
  <2>2. PICK rest : rest = SeedsMissingFrom(listing)
    OBVIOUS
  <2>3. /\ rest \in Seq(SeedSet)
        /\ \A seed \in SeedSet : \/ \E a \in listing : a.seed = seed
                                 \/ \E i \in DOMAIN rest : rest[i] = seed
    BY <2>2, MissingSeeds
  <2>4. listing \subseteq AppliancesOf(household[s])
    BY DEF Listings
  <2>5. \A seed \in SeedSet : Holds(household[s], seed) \/ \E i \in DOMAIN rest : rest[i] = seed
    BY <2>3, <2>4 DEF AppliancesOf, Holds
  <2> QED
    BY <2>1, <2>2, <2>3, <2>5, NextComplete
<1>3. ASSUME NEW s \in Sessions, Added(s)
      PROVE  CompleteInv'
  <2>1. /\ pc[s] = "add" /\ AddCall(s, Head(missing[s])) \notin calls /\ missing[s] # <<>>
        /\ AddNextOf(s, Tail(missing[s])) /\ UNCHANGED <<up, household, drawn, ledger, stored, cleanup>>
    BY <1>0, <1>3 DEF Added, SessionAt
  <2>2. PICK rest : rest = Tail(missing[s])
    OBVIOUS
  <2>3. /\ rest \in Seq(SeedSet) /\ Len(rest) = Len(missing[s]) - 1 /\ Len(missing[s]) \in Nat
        /\ \A i \in 1 .. Len(rest) : rest[i] = missing[s][i + 1]
        /\ DOMAIN rest = 1 .. Len(rest) /\ DOMAIN missing[s] = 1 .. Len(missing[s])
    BY <1>0, <2>1, <2>2, HeadTailProperties
  <2>4. ASSUME NEW seed \in SeedSet, ~Holds(household[s], seed)
        PROVE  \E i \in DOMAIN rest : rest[i] = seed
    <3>1. PICK i \in 1 .. Len(missing[s]) : missing[s][i] = seed /\ (i = 1 => AddCall(s, seed) \in calls)
      BY <1>0, <2>1, <2>3, <2>4 DEF CompleteAt
    <3>2. i # 1
      BY <1>0, <2>1, <3>1
    <3>3. i - 1 \in 1 .. Len(rest) /\ (i - 1) + 1 = i
      BY <2>3, <3>2
    <3> QED
      BY <2>3, <3>1, <3>3
  <2>5. \A seed \in SeedSet : Holds(household[s], seed) \/ \E i \in DOMAIN rest : rest[i] = seed
    BY <2>4
  <2>6. AddNextOf(s, rest) /\ pc[s] # "idle"
    BY <2>1, <2>2
  <2> HIDE <2>2
  <2> QED
    BY <2>1, <2>3, <2>5, <2>6, NextComplete
<1>4. ASSUME NEW s \in Sessions, SeedingFails(s)
      PROVE  CompleteInv'
  <2>1. /\ pc[s] # "idle" /\ missing' = [missing EXCEPT ![s] = <<>>] /\ pc' = [pc EXCEPT ![s] = "idle"]
        /\ \A c \in calls : c.household # household[s] => c \in calls'
        /\ UNCHANGED <<household, seeded, stored>>
    BY <1>4 DEF SeedingFails, StaysUnseeded, GiveUp
  <2>2. ASSUME NEW t \in Sessions \ {s}
        PROVE  CompleteAt(t)'
    <3>1. household[t] # household[s] /\ pc'[t] = pc[t] /\ missing'[t] = missing[t]
      BY <1>0, <2>1 DEF SessionAt
    <3>2. \A c \in calls : c.household = household[t] => c \in calls'
      BY <2>1, <3>1
    <3> QED
      BY <1>0, <2>1, <3>1, <3>2, CompleteStays
  <2>3. CompleteAt(s)'
    BY <1>0, <2>1 DEF CompleteAt
  <2> QED
    BY <2>1, <2>2, <2>3 DEF CompleteInv, SeededMeansComplete, AppliancesOf
<1>5. ASSUME NEW c \in calls, ServerAdds(c)
      PROVE  CompleteInv'
  <2>1. PICK new : new.household = c.household /\ new.seed = c.seed /\ stored' = stored \cup {new}
    BY <1>5 DEF ServerAdds
  <2>2. calls' = calls \ {c} /\ UNCHANGED demoVars
    BY <1>5 DEF ServerAdds
  <2>3. ASSUME NEW t \in Sessions
        PROVE  CompleteAt(t)'
    <3> SUFFICES ASSUME pc[t] = "add", NEW seed \in SeedSet, ~Holds(household[t], seed)'
                 PROVE  \E j \in DOMAIN missing[t] :
                           missing[t][j] = seed /\ (j = 1 => AddCall(t, seed) \in calls')
      BY <2>2 DEF CompleteAt, AddCall, demoVars
    <3>1. ~Holds(household[t], seed)
      BY <2>1, <2>2 DEF Holds, demoVars
    <3>2. AddCall(t, seed) # c
      <4>1. AddCall(t, seed) = c => new.household = household[t] /\ new.seed = seed
        BY <2>1 DEF AddCall
      <4> QED
        BY <2>1, <2>2, <4>1 DEF Holds, demoVars
    <3> QED
      BY <1>0, <2>2, <3>1, <3>2 DEF CompleteAt
  <2> QED
    BY <2>1, <2>2, <2>3 DEF CompleteInv, SeededMeansComplete, AppliancesOf, demoVars
<1>6. CASE DemoStops
  BY <1>6 DEF DemoStops, CompleteInv, CompleteAt, SeededMeansComplete
<1>7. CASE DemoStarts
  BY <1>7 DEF DemoStarts, CompleteInv, CompleteAt, SeededMeansComplete, Holds, AddCall, AppliancesOf
<1>8. CASE CleanupStep
  <2>1. UNCHANGED <<demoVars, calls>>
    BY <1>8, CleanupEffect
  <2>2. stored' = stored \/ ~up
    BY <1>8 DEF CleanupStep, CleanupStarts, CleanupVisits, CleanupRemoves, CleanupVerifies,
                CleanupFails, CleanupWrites, CleanupDies, HouseholdsInv, CleanupAt
  <2>3. CASE stored' = stored
    BY <2>1, <2>3 DEF CompleteInv, CompleteAt, SeededMeansComplete, Holds, AddCall, AppliancesOf, demoVars
  <2>4. CASE ~up
    <3>1. seeded' = {} /\ \A t \in Sessions : pc'[t] = "idle"
      BY <1>0, <2>1, <2>4 DEF HouseholdsInv, SessionAt, demoVars
    <3> QED
      BY <3>1 DEF CompleteInv, CompleteAt, SeededMeansComplete
  <2> QED
    BY <2>2, <2>3, <2>4
<1> QED
  BY <1>1, <1>2, <1>3, <1>4, <1>5, <1>6, <1>7, <1>8 DEF Next, SeedStep

(* A household is served as seeded only when it has all its appliances,    *)
(* whatever crashes, fails to be recorded or runs late, and whatever       *)
(* listing fails silently, if the cleanup does not run beside the demo.    *)
THEOREM SeededComplete == "overlap" \notin Hazards => (Spec => []SeededMeansComplete)
<1> SUFFICES ASSUME "overlap" \notin Hazards PROVE Spec => []SeededMeansComplete
  OBVIOUS
<1>1. Init => CompleteInv
  BY DEF Init, CompleteInv, CompleteAt, SeededMeansComplete
<1>2. HouseholdsInv /\ CompleteInv /\ [Next]_vars => CompleteInv'
  <2> SUFFICES ASSUME HouseholdsInv, CompleteInv, [Next]_vars PROVE CompleteInv'
    OBVIOUS
  <2>1. CASE UNCHANGED vars
    BY <2>1
    DEF vars, demoVars, CompleteInv, CompleteAt, SeededMeansComplete, Holds, AddCall, AppliancesOf
  <2> QED
    BY <2>1, CompleteStep
<1>3. CompleteInv => SeededMeansComplete
  BY DEF CompleteInv
<1> QED
  BY <1>1, <1>2, <1>3, HouseholdsCorrect, PTL DEF Spec

(***************************************************************************)
(* No duplicates, when listings are to be trusted and no call runs late    *)
(***************************************************************************)
LEMMA FreshStays ==
  ASSUME NEW t \in Sessions, FreshAt(t), missing'[t] = missing[t],
         missing[t] # <<>> => household'[t] = household[t],
         \A a \in stored' : a.household = household[t] => a \in stored,
         \A c \in calls' : c.household = household[t] => c \in calls
  PROVE  FreshAt(t)'
<1> SUFFICES ASSUME NEW i \in DOMAIN missing[t],
                    \E a \in stored' : a.household = household'[t] /\ a.seed = missing[t][i]
             PROVE  i = 1 /\ AddCall(t, missing[t][1])' \notin calls'
  BY DEF FreshAt, Holds
<1>1. household'[t] = household[t]
  OBVIOUS
<1>2. /\ AddCall(t, missing[t][1])' = AddCall(t, missing[t][1])
      /\ AddCall(t, missing[t][1]).household = household[t]
  BY <1>1 DEF AddCall
<1>3. Holds(household[t], missing[t][i])
  BY <1>1 DEF Holds
<1> QED
  BY <1>1, <1>2, <1>3 DEF FreshAt

LEMMA NextFresh ==
  ASSUME HouseholdsInv, FreshInv, NEW s \in Sessions, pc[s] # "idle",
         NEW rest \in Seq(SeedSet), AddNextOf(s, rest),
         \A i, j \in DOMAIN rest : rest[i] = rest[j] => i = j,
         \A i \in DOMAIN rest : ~Holds(household[s], rest[i]),
         UNCHANGED <<up, household, drawn, ledger, stored, cleanup>>
  PROVE  FreshInv'
<1>0. missing = [t \in Sessions |-> missing[t]]
  BY DEF HouseholdsInv, TypeOK
<1>1. /\ missing'[s] = rest /\ \A t \in Sessions \ {s} : missing'[t] = missing[t]
      /\ UNCHANGED <<household, stored>>
      /\ \A c \in calls' : c \in calls \/ c = AddCall(s, Head(rest))
  BY <1>0 DEF AddNextOf
<1>2. ASSUME NEW t \in Sessions
      PROVE  FreshAt(t)'
  <2>1. CASE t = s
    BY <1>1, <2>1 DEF FreshAt, Holds
  <2>2. CASE t # s
    <3>1. household[t] # household[s]
      BY <2>2 DEF HouseholdsInv, SessionAt
    <3>2. \A c \in calls' : c.household = household[t] => c \in calls
      BY <1>1, <3>1 DEF AddCall
    <3>3. FreshAt(t) /\ missing'[t] = missing[t]
      BY <1>1, <2>2 DEF FreshInv
    <3> QED
      BY <1>1, <3>2, <3>3, FreshStays
  <2> QED
    BY <2>1, <2>2
<1> QED
  BY <1>1, <1>2 DEF FreshInv, NoDuplicateSeeds

LEMMA FreshStep ==
  ASSUME Hazards \cap {"list_error", "late_call"} = {}, HouseholdsInv, FreshInv, Next
  PROVE  FreshInv'
<1>0. /\ pc = [t \in Sessions |-> pc[t]] /\ missing = [t \in Sessions |-> missing[t]]
      /\ household = [t \in Sessions |-> household[t]]
      /\ \A t \in Sessions : SessionAt(t) /\ FreshAt(t) /\ missing[t] \in Seq(SeedSet)
  BY DEF HouseholdsInv, TypeOK, FreshInv
<1>1. ASSUME NEW s \in Sessions, FirstTurn(s) \/ LaterTurn(s)
      PROVE  FreshInv'
  <2>1. /\ missing[s] = <<>> /\ UNCHANGED <<missing, calls, stored>>
        /\ \A t \in Sessions \ {s} : household'[t] = household[t]
    BY <1>0, <1>1 DEF FirstTurn, LaterTurn, Idle, SessionAt
  <2>2. \A t \in Sessions : FreshAt(t)'
    BY <1>0, <2>1, FreshStays
  <2> QED
    BY <2>1, <2>2 DEF FreshInv, NoDuplicateSeeds
<1>2. ASSUME NEW s \in Sessions, Listed(s)
      PROVE  FreshInv'
  <2>1. /\ pc[s] # "idle" /\ UNCHANGED <<up, household, drawn, ledger, stored, cleanup>>
        /\ AddNextOf(s, SeedsMissingFrom(AppliancesOf(household[s])))
    BY <1>2 DEF Listed, Listings
  <2>2. PICK rest : rest = SeedsMissingFrom(AppliancesOf(household[s]))
    OBVIOUS
  <2>3. /\ rest \in Seq(SeedSet)
        /\ \A i, j \in DOMAIN rest : rest[i] = rest[j] => i = j
        /\ \A i \in DOMAIN rest : \A a \in AppliancesOf(household[s]) : a.seed # rest[i]
    BY <2>2, MissingSeeds
  <2>4. \A i \in DOMAIN rest : ~Holds(household[s], rest[i])
    BY <2>3 DEF AppliancesOf, Holds
  <2>5. AddNextOf(s, rest)
    BY <2>1, <2>2
  <2> HIDE <2>2
  <2> QED
    BY <2>1, <2>3, <2>4, <2>5, NextFresh
<1>3. ASSUME NEW s \in Sessions, Added(s)
      PROVE  FreshInv'
  <2>1. /\ pc[s] # "idle" /\ missing[s] # <<>> /\ AddNextOf(s, Tail(missing[s]))
        /\ UNCHANGED <<up, household, drawn, ledger, stored, cleanup>>
    BY <1>0, <1>3 DEF Added, SessionAt
  <2>2. PICK rest : rest = Tail(missing[s])
    OBVIOUS
  <2>3. /\ rest \in Seq(SeedSet) /\ Len(rest) = Len(missing[s]) - 1 /\ Len(missing[s]) \in Nat
        /\ \A i \in 1 .. Len(rest) : rest[i] = missing[s][i + 1]
        /\ DOMAIN rest = 1 .. Len(rest) /\ DOMAIN missing[s] = 1 .. Len(missing[s])
    BY <1>0, <2>1, <2>2, HeadTailProperties
  <2>4. \A i \in 1 .. Len(rest) : i + 1 \in 1 .. Len(missing[s]) /\ i + 1 # 1
    BY <2>3
  <2>5. \A i, j \in DOMAIN rest : rest[i] = rest[j] => i = j
    <3> SUFFICES ASSUME NEW i \in 1 .. Len(rest), NEW j \in 1 .. Len(rest), rest[i] = rest[j]
                 PROVE  i = j
      BY <2>3
    <3>1. missing[s][i + 1] = missing[s][j + 1]
      BY <2>3
    <3>2. i + 1 = j + 1
      BY <1>0, <2>3, <2>4, <3>1 DEF FreshAt
    <3> QED
      BY <3>2
  <2>6. \A i \in DOMAIN rest : ~Holds(household[s], rest[i])
    BY <1>0, <2>3, <2>4 DEF FreshAt
  <2>7. AddNextOf(s, rest)
    BY <2>1, <2>2
  <2> HIDE <2>2
  <2> QED
    BY <2>1, <2>3, <2>5, <2>6, <2>7, NextFresh
<1>4. ASSUME NEW s \in Sessions, SeedingFails(s)
      PROVE  FreshInv'
  <2>1. /\ pc[s] # "idle" /\ missing' = [missing EXCEPT ![s] = <<>>]
        /\ calls' \subseteq calls /\ UNCHANGED <<household, stored>>
    BY <1>4 DEF SeedingFails, GiveUp
  <2>2. \A t \in Sessions \ {s} : FreshAt(t)'
    BY <1>0, <2>1, FreshStays
  <2>3. FreshAt(s)'
    BY <1>0, <2>1 DEF FreshAt
  <2> QED
    BY <2>1, <2>2, <2>3 DEF FreshInv, NoDuplicateSeeds
<1>5. ASSUME NEW c \in calls, ServerAdds(c)
      PROVE  FreshInv'
  <2>1. PICK new : new.household = c.household /\ new.seed = c.seed /\ stored' = stored \cup {new}
    BY <1>5 DEF ServerAdds
  <2>2. calls' = calls \ {c} /\ UNCHANGED demoVars
    BY <1>5 DEF ServerAdds
  <2>3. PICK s \in Sessions : Awaits(s, c)
    BY DEF HouseholdsInv, CallAt
  <2>4. ~c.late /\ household[s] # Nobody /\ missing[s] # <<>> /\ c.household = household[s]
    BY <1>0, <2>3 DEF HouseholdsInv, CallAt, Awaits, SessionAt
  <2>5. c = AddCall(s, Head(missing[s])) /\ 1 \in DOMAIN missing[s] /\ Head(missing[s]) = missing[s][1]
    BY <1>0, <2>4, OwnCall
  <2>6. c.seed = missing[s][1]
    BY <2>3, <2>5 DEF Awaits
  <2>7. ~Holds(household[s], c.seed)
    BY <1>0, <2>5, <2>6 DEF FreshAt
  <2>8. NoDuplicateSeeds'
    BY <2>1, <2>4, <2>7 DEF FreshInv, NoDuplicateSeeds, Holds
  <2>9. ASSUME NEW t \in Sessions
        PROVE  FreshAt(t)'
    <3>1. CASE t = s
      <4>1. ASSUME NEW i \in DOMAIN missing[s], Holds(household[s], missing[s][i])'
            PROVE  i = 1 /\ AddCall(s, missing[s][1])' \notin calls'
        <5>1. AddCall(s, missing[s][1])' \notin calls'
          BY <2>2, <2>5 DEF AddCall, demoVars
        <5>2. Holds(household[s], missing[s][i]) \/ missing[s][i] = missing[s][1]
          BY <2>1, <2>2, <2>6, <4>1 DEF Holds, demoVars
        <5> QED
          BY <1>0, <2>5, <5>1, <5>2 DEF FreshAt
      <4> QED
        BY <1>0, <2>2, <3>1, <4>1 DEF FreshAt, demoVars
    <3>2. CASE t # s
      <4>1. household[t] # household[s]
        BY <2>4, <3>2 DEF HouseholdsInv, SessionAt
      <4> QED
        BY <1>0, <2>1, <2>2, <2>4, <4>1, FreshStays DEF demoVars
    <3> QED
      BY <3>1, <3>2
  <2> QED
    BY <2>8, <2>9 DEF FreshInv
<1>6. CASE DemoStops
  <2>1. (\A t \in Sessions : missing'[t] = <<>>) /\ stored' = stored
    BY <1>6 DEF DemoStops
  <2> QED
    BY <2>1 DEF FreshInv, FreshAt, NoDuplicateSeeds
<1>7. CASE DemoStarts \/ CleanupStep
  <2>1. UNCHANGED <<household, missing, calls>> /\ stored' \subseteq stored
    BY <1>7, CleanupEffect DEF DemoStarts, demoVars
  <2>2. \A t \in Sessions : FreshAt(t)'
    BY <1>0, <2>1, FreshStays
  <2> QED
    BY <2>1, <2>2 DEF FreshInv, NoDuplicateSeeds
<1> QED
  BY <1>1, <1>2, <1>3, <1>4, <1>5, <1>6, <1>7 DEF Next, SeedStep

(* No appliance of a household is seeded twice, whatever crashes or fails  *)
(* and even beside a cleanup, if no listing fails silently and no call     *)
(* runs after its client has given up on it.                               *)
THEOREM NoDuplicates ==
  Hazards \cap {"list_error", "late_call"} = {} => (Spec => []NoDuplicateSeeds)
<1> SUFFICES ASSUME Hazards \cap {"list_error", "late_call"} = {}
             PROVE  Spec => []NoDuplicateSeeds
  OBVIOUS
<1>1. Init => FreshInv
  <2> SUFFICES ASSUME Init PROVE FreshInv
    OBVIOUS
  <2>1. \A a, b \in ForeignAppliances : a.seed = b.seed => a = b
    BY DEF ForeignAppliances
  <2>2. (\A t \in Sessions : missing[t] = <<>>) /\ stored = ForeignAppliances
    BY DEF Init
  <2> QED
    BY <2>1, <2>2 DEF FreshInv, FreshAt, NoDuplicateSeeds
<1>2. HouseholdsInv /\ FreshInv /\ [Next]_vars => FreshInv'
  <2> SUFFICES ASSUME HouseholdsInv, FreshInv, [Next]_vars PROVE FreshInv'
    OBVIOUS
  <2>1. CASE UNCHANGED vars
    BY <2>1 DEF vars, demoVars, FreshInv, FreshAt, NoDuplicateSeeds, Holds, AddCall
  <2> QED
    BY <2>1, FreshStep
<1>3. FreshInv => NoDuplicateSeeds
  BY DEF FreshInv
<1> QED
  BY <1>1, <1>2, <1>3, HouseholdsCorrect, PTL DEF Spec

(***************************************************************************)
(* Every household can be cleaned up, when only crashes and failed calls   *)
(* disturb it                                                              *)
(***************************************************************************)
LEMMA CleanableStep ==
  ASSUME Hazards = {}, HouseholdsInv, CleanableInv, Next
  PROVE  CleanableInv'
<1>0. /\ household = [t \in Sessions |-> household[t]]
      /\ \A t \in Sessions : SessionAt(t)
      /\ cleanup \in CleanupLocals /\ CleanupAt
      /\ cleanup = [state |-> cleanup.state, queue |-> cleanup.queue, current |-> cleanup.current,
                    found |-> cleanup.found, remaining |-> cleanup.remaining]
  BY DEF HouseholdsInv, TypeOK, CleanupLocals
<1>1. ASSUME NEW s \in Sessions, FirstTurn(s)
      PROVE  CleanableInv'
  <2>1. PICK h \in HouseholdIds \ drawn :
          household' = [household EXCEPT ![s] = h] /\ ledger' = ledger \cup {h}
    BY <1>1 DEF FirstTurn, Record
  <2>2. up /\ UNCHANGED <<stored, cleanup>>
    BY <1>1 DEF FirstTurn, Idle
  <2>3. cleanup.state = "off"
    BY <1>0, <2>2 DEF CleanupAt
  <2> QED
    BY <1>0, <2>1, <2>2, <2>3 DEF CleanableInv, Recorded
<1>2. ASSUME NEW s \in Sessions, LaterTurn(s) \/ Listed(s) \/ Added(s) \/ SeedingFails(s)
      PROVE  CleanableInv'
  <2>1. UNCHANGED <<household, ledger, stored, cleanup>>
    BY <1>2 DEF LaterTurn, Listed, Added, SeedingFails
  <2> QED
    BY <2>1 DEF CleanableInv, Recorded
<1>3. ASSUME NEW c \in calls, ServerAdds(c)
      PROVE  CleanableInv'
  <2>1. PICK new : new.household = c.household /\ stored' = stored \cup {new}
    BY <1>3 DEF ServerAdds
  <2>2. UNCHANGED <<demoVars, ledger, cleanup>>
    BY <1>3 DEF ServerAdds
  <2>3. PICK s \in Sessions : Awaits(s, c)
    BY DEF HouseholdsInv, CallAt
  <2>4. c.household = household[s] /\ household[s] # Nobody /\ up
    BY <1>0, <2>3 DEF Awaits, SessionAt
  <2>5. cleanup.state = "off" /\ c.household \in ledger
    BY <1>0, <2>4 DEF CleanupAt, CleanableInv
  <2> QED
    BY <2>1, <2>2, <2>5 DEF CleanableInv, Recorded, demoVars
<1>4. CASE DemoStops \/ DemoStarts
  <2>1. UNCHANGED <<ledger, stored, cleanup>> /\ \A t \in Sessions : household'[t] \in {household[t], Nobody}
    BY <1>4 DEF DemoStops, DemoStarts
  <2> QED
    BY <2>1 DEF CleanableInv, Recorded
<1>5. CASE CleanupStep
  <2>0. household' = household /\ stored' \subseteq stored
    BY <1>5, CleanupEffect DEF demoVars
  <2>n. Nobody \notin HouseholdIds /\ Foreign \notin HouseholdIds
    BY SeedsAreSeeds
  <2>1. \A t \in Sessions : household[t] = Nobody
    <3>1. ~up
      BY <1>0, <1>5 DEF CleanupStep, CleanupStarts, CleanupVisits, CleanupRemoves, CleanupVerifies,
                CleanupFails, CleanupWrites, CleanupDies, CleanupAt
    <3> QED
      BY <1>0, <3>1 DEF SessionAt
  <2>2. ASSUME NEW a \in stored', a.household \in HouseholdIds
        PROVE  Recorded(a.household)'
    <3>0. a \in stored /\ Recorded(a.household)
      BY <2>0, <2>2 DEF CleanableInv
    <3> DEFINE h == a.household
    <3>1. CASE CleanupStarts
      <4>1. cleanup.state = "off" /\ ledger' = ledger /\ cleanup'.queue = ledger /\ cleanup'.state = "next"
        BY <3>1 DEF CleanupStarts, NoCleanup
      <4> QED
        BY <3>0, <4>1 DEF Recorded
    <3>2. CASE CleanupVisits
      <4>1. PICK g \in cleanup.queue :
              \/ g = Foreign /\ cleanup' = [cleanup EXCEPT !.queue = @ \ {g}]
              \/ \E listing \in Listings(g) : EnterHousehold(g, listing)
        BY <3>2 DEF CleanupVisits, Skip
      <4>2. cleanup.state = "next" /\ ledger' = ledger /\ cleanup.current = Nobody
        BY <1>0, <3>2 DEF CleanupVisits, CleanupAt
      <4>3. CASE g = Foreign /\ cleanup' = [cleanup EXCEPT !.queue = @ \ {g}]
        <5>1. /\ cleanup'.state = "next" /\ cleanup'.queue = cleanup.queue \ {g}
              /\ cleanup'.remaining = cleanup.remaining /\ cleanup'.current = cleanup.current
          BY <1>0, <4>2, <4>3
        <5> QED
          BY <2>2, <2>n, <3>0, <4>2, <4>3, <5>1 DEF Recorded
      <4>4. ASSUME NEW listing \in Listings(g), EnterHousehold(g, listing)
            PROVE  Recorded(h)'
        <5>1. cleanup' = [state |-> "remove", queue |-> cleanup.queue \ {g}, current |-> g,
                          found |-> listing, remaining |-> cleanup.remaining]
          BY <1>0, <4>4 DEF EnterHousehold
        <5> QED
          BY <2>2, <2>n, <3>0, <4>2, <5>1 DEF Recorded
      <4> QED
        BY <4>1, <4>3, <4>4
    <3>3. CASE CleanupRemoves
      <4>1. PICK found : cleanup' = [cleanup EXCEPT !.found = found]
        BY <3>3 DEF CleanupRemoves
      <4>2. ledger' = ledger
        BY <3>3 DEF CleanupRemoves
      <4>3. cleanup' = [state |-> cleanup.state, queue |-> cleanup.queue, current |-> cleanup.current,
                        found |-> found, remaining |-> cleanup.remaining]
        BY <1>0, <4>1
      <4> QED
        BY <3>0, <4>2, <4>3 DEF Recorded
    <3>4. CASE CleanupVerifies \/ CleanupFails
      <4>1. cleanup.state = "remove" /\ ledger' = ledger /\ stored' = stored
        BY <3>4 DEF CleanupVerifies, CleanupFails
      <4>2. PICK failed : LeaveHousehold(failed) /\ (h = cleanup.current => h \in failed)
        <5>1. CASE CleanupFails
          BY <5>1 DEF CleanupFails
        <5>2. CASE CleanupVerifies
          <6>1. LeaveHousehold(IF AppliancesOf(cleanup.current) = {} THEN {} ELSE {cleanup.current})
            BY <5>2 DEF CleanupVerifies, Listings
          <6>2. h = cleanup.current => AppliancesOf(cleanup.current) # {}
            BY <3>0 DEF AppliancesOf
          <6> QED
            BY <6>1, <6>2
        <5> QED
          BY <3>4, <5>1, <5>2
      <4>3. cleanup' = [state |-> "next", queue |-> cleanup.queue, current |-> Nobody,
                        found |-> {}, remaining |-> cleanup.remaining \cup failed]
        BY <1>0, <4>2 DEF LeaveHousehold
      <4> QED
        BY <3>0, <4>1, <4>2, <4>3 DEF Recorded
    <3>5. CASE CleanupWrites
      <4>1. /\ cleanup.state = "next" /\ cleanup.queue = {} /\ ledger' = cleanup.remaining
            /\ cleanup'.state = "off" /\ cleanup.current = Nobody
        BY <1>0, <3>5 DEF CleanupWrites, NoCleanup, CleanupAt
      <4> QED
        BY <2>2, <2>n, <3>0, <4>1 DEF Recorded
    <3>6. CASE CleanupDies
      <4>1. ledger' = ledger /\ cleanup'.state = "off"
        BY <3>6 DEF CleanupDies, NoCleanup
      <4> QED
        BY <3>0, <4>1 DEF Recorded
    <3> QED
      BY <1>5, <3>1, <3>2, <3>3, <3>4, <3>5, <3>6 DEF CleanupStep
  <2> QED
    BY <2>0, <2>1, <2>2 DEF CleanableInv
<1> QED
  BY <1>1, <1>2, <1>3, <1>4, <1>5 DEF Next, SeedStep

(* A demo household that holds an appliance, or is about to, is in the     *)
(* ledger, whichever process died or call failed.                          *)
THEOREM Cleanable == Hazards = {} => (Spec => []EveryHouseholdCleanable)
<1> SUFFICES ASSUME Hazards = {} PROVE Spec => []EveryHouseholdCleanable
  OBVIOUS
<1>1. Init => CleanableInv
  <2> SUFFICES ASSUME Init PROVE CleanableInv
    OBVIOUS
  <2>1. \A a \in stored : a.household \notin HouseholdIds
    BY SeedsAreSeeds DEF Init, ForeignAppliances
  <2>2. \A s \in Sessions : household[s] = Nobody
    BY DEF Init
  <2> QED
    BY <2>1, <2>2 DEF CleanableInv
<1>2. HouseholdsInv /\ CleanableInv /\ [Next]_vars => CleanableInv'
  <2> SUFFICES ASSUME HouseholdsInv, CleanableInv, [Next]_vars PROVE CleanableInv'
    OBVIOUS
  <2>1. CASE UNCHANGED vars
    BY <2>1 DEF vars, demoVars, CleanableInv, Recorded
  <2> QED
    BY <2>1, CleanableStep
<1>3. HouseholdsInv /\ CleanableInv => EveryHouseholdCleanable
  <2> SUFFICES ASSUME HouseholdsInv, CleanableInv, NEW h \in HouseholdIds,
                      AppliancesOf(h) # {} \/ \E c \in calls : c.household = h
               PROVE  h \in ledger
    BY DEF EveryHouseholdCleanable
  <2>1. CASE AppliancesOf(h) # {}
    <3>1. Recorded(h)
      BY <2>1 DEF AppliancesOf, CleanableInv
    <3> QED
      BY <3>1 DEF Recorded
  <2>2. CASE \E c \in calls : c.household = h
    <3>1. PICK s \in Sessions : household[s] = h
      BY <2>2 DEF HouseholdsInv, CallAt, Awaits
    <3> QED
      BY <3>1, SeedsAreSeeds DEF CleanableInv
  <2> QED
    BY <2>1, <2>2
<1> QED
  BY <1>1, <1>2, <1>3, HouseholdsCorrect, PTL DEF Spec

===============================================================================
