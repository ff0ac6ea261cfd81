------------------------------ MODULE Households ------------------------------
(***************************************************************************)
(* Throwaway demo households (demo/households.py, demo/cleanup.py).  The   *)
(* provisioner of the demo process gives each conversation a household of  *)
(* its own, records it in the ledger file and seeds it through the MCP     *)
(* server.  The cleanup command, another process, removes the appliances   *)
(* of the recorded households.  Both processes may die at any step, and a  *)
(* call to the server may fail before or after it ran.  What else may go   *)
(* wrong is the parameter Hazards.                                         *)
(***************************************************************************)
EXTENDS Keeping

CONSTANTS
    Sessions,      \* the session_ids of the demo's conversations
    HouseholdIds,  \* bound: the house-demo-<random> ids that may be drawn
    Foreign,       \* a household id without the house-demo- prefix
    Seeds,         \* HOUSE_002_LIKE_SEED, a tuple
    Hazards,       \* a subset of KnownHazards
    MaxCopies      \* bound: appliances of one household that are one seed

(* overlap: the cleanup command runs while the demo serves.  ledger_fails: *)
(* appending to the ledger file raises.  list_error: list_my_appliances    *)
(* answers isError, with no structuredContent.  late_call: a call that the *)
(* client has given up on runs later.                                      *)
KnownHazards == {"overlap", "ledger_fails", "list_error", "late_call"}

Nobody == "nobody"

SeedSet == {Seeds[i] : i \in DOMAIN Seeds}

ASSUME HouseholdsAssumption ==
    /\ {Foreign, Nobody} \cap HouseholdIds = {}
    /\ Seeds \in Seq(SeedSet)
    /\ \A i, j \in DOMAIN Seeds : Seeds[i] = Seeds[j] => i = j
    /\ Hazards \subseteq KnownHazards
    /\ MaxCopies \in Nat \ {0}

VARIABLES
    up,         \* the demo process runs
    household,  \* HouseholdProvisioner._by_session, or Nobody
    seeded,     \* HouseholdProvisioner._seeded
    pc,         \* per session: where ensure_seeded is suspended
    missing,    \* per session: the seeds to add, the one being added first
    drawn,      \* the ids that were drawn (token_hex never draws one twice)
    ledger,     \* the lines of the ledger file
    calls,      \* add_appliance calls on the wire
    stored,     \* the appliances in the server's repository
    cleanup     \* the locals of remove_households, see CleanupLocals

demoVars == <<up, household, seeded, pc, missing, drawn>>
vars == <<demoVars, ledger, calls, stored, cleanup>>

Households == HouseholdIds \cup {Foreign}
Appliances == [household : Households, seed : SeedSet, copy : 1 .. MaxCopies]
Calls == [household : HouseholdIds, seed : SeedSet, late : BOOLEAN]

(* queue: the ledger's ids still to visit; current: the one being cleaned; *)
(* found: its appliances still to remove; remaining: those that failed.    *)
CleanupLocals ==
    [state : {"off", "next", "remove"}, queue : SUBSET Households,
     current : Households \cup {Nobody}, found : SUBSET Appliances,
     remaining : SUBSET HouseholdIds]

NoCleanup ==
    [state |-> "off", queue |-> {}, current |-> Nobody, found |-> {}, remaining |-> {}]

AppliancesOf(h) == {a \in stored : a.household = h}

(* What a caller of list_my_appliances takes the household to hold: the    *)
(* callers read structuredContent and never look at isError.               *)
Listings(h) ==
    {AppliancesOf(h)} \cup (IF "list_error" \in Hazards THEN {{}} ELSE {})

(***************************************************************************)
(* A turn of the demo: household_for, then ensure_seeded                   *)
(***************************************************************************)
Idle(s) == up /\ pc[s] = "idle"

(* The household is remembered before it is recorded: when recording it    *)
(* raises, the turn fails and the session keeps its household.             *)
RecordNot(h) == UNCHANGED ledger
Record(h) == ledger' = ledger \cup {h}

FirstTurn(s) ==
    /\ Idle(s)
    /\ household[s] = Nobody
    /\ \E h \in HouseholdIds \ drawn :
        /\ household' = [household EXCEPT ![s] = h]
        /\ drawn' = drawn \cup {h}
        /\ \/ Record(h) /\ pc' = [pc EXCEPT ![s] = "list"]
           \/ "ledger_fails" \in Hazards /\ UNCHANGED <<ledger, pc>>
    /\ UNCHANGED <<up, seeded, missing, calls, stored, cleanup>>

LaterTurn(s) ==
    /\ Idle(s)
    /\ household[s] \notin seeded \cup {Nobody}
    /\ pc' = [pc EXCEPT ![s] = "list"]
    /\ UNCHANGED <<up, household, seeded, missing, drawn, ledger, calls, stored, cleanup>>

(* The loop over the seeds goes on with those still missing, or is over.   *)
AddCall(s, seed) == [household |-> household[s], seed |-> seed, late |-> FALSE]

AddNextOf(s, rest) ==
    /\ missing' = [missing EXCEPT ![s] = rest]
    /\ IF rest = <<>>
       THEN /\ seeded' = seeded \cup {household[s]}
            /\ pc' = [pc EXCEPT ![s] = "idle"]
            /\ UNCHANGED calls
       ELSE /\ calls' = calls \cup {AddCall(s, Head(rest))}
            /\ pc' = [pc EXCEPT ![s] = "add"]
            /\ UNCHANGED seeded

AllSeeds(listing) == Seeds
SeedsMissingFrom(listing) ==
    Keep(Seeds, {i \in DOMAIN Seeds : \A a \in listing : a.seed # Seeds[i]})

Listed(s) ==
    /\ pc[s] = "list"
    /\ \E listing \in Listings(household[s]) : AddNextOf(s, SeedsMissingFrom(listing))
    /\ UNCHANGED <<up, household, drawn, ledger, stored, cleanup>>

(* add_appliance on the server: a new appliance, whatever there is.        *)
ServerAdds(c) ==
    /\ \E copy \in 1 .. MaxCopies :
        LET new == [household |-> c.household, seed |-> c.seed, copy |-> copy] IN
        /\ new \notin stored
        /\ stored' = stored \cup {new}
    /\ calls' = calls \ {c}
    /\ UNCHANGED <<demoVars, ledger, cleanup>>

(* The answer of add_appliance arrives.                                    *)
Added(s) ==
    /\ pc[s] = "add"
    /\ AddCall(s, Head(missing[s])) \notin calls
    /\ AddNextOf(s, Tail(missing[s]))
    /\ UNCHANGED <<up, household, drawn, ledger, stored, cleanup>>

(* Calls the client gives up on: without late_call they never run.         *)
GiveUp(gone) ==
    calls' = (calls \ gone) \cup
             (IF "late_call" \in Hazards THEN {[c EXCEPT !.late = TRUE] : c \in gone} ELSE {})

(* The list or the add_appliance call raises, times out, is cancelled or   *)
(* answers isError: the household stays unseeded.                          *)
SeededAnyway(s) == seeded' = seeded \cup {household[s]}
StaysUnseeded(s) == UNCHANGED seeded

SeedingFails(s) ==
    /\ pc[s] \in {"list", "add"}
    /\ GiveUp({c \in calls : c.household = household[s]})
    /\ missing' = [missing EXCEPT ![s] = <<>>]
    /\ pc' = [pc EXCEPT ![s] = "idle"]
    /\ StaysUnseeded(s)
    /\ UNCHANGED <<up, household, drawn, ledger, stored, cleanup>>

DemoStops ==
    /\ up
    /\ up' = FALSE
    /\ household' = [s \in Sessions |-> Nobody]
    /\ seeded' = {}
    /\ pc' = [s \in Sessions |-> "idle"]
    /\ missing' = [s \in Sessions |-> <<>>]
    /\ GiveUp(calls)
    /\ UNCHANGED <<drawn, ledger, stored, cleanup>>

DemoStarts ==
    /\ ~up
    /\ cleanup.state = "off" \/ "overlap" \in Hazards
    /\ up' = TRUE
    /\ UNCHANGED <<household, seeded, pc, missing, drawn, ledger, calls, stored, cleanup>>

(***************************************************************************)
(* demo.cleanup: remove_households                                         *)
(***************************************************************************)
CleanupStarts ==
    /\ cleanup.state = "off"
    /\ ~up \/ "overlap" \in Hazards
    /\ ledger # {}
    /\ cleanup' = [NoCleanup EXCEPT !.state = "next", !.queue = ledger]
    /\ UNCHANGED <<demoVars, ledger, calls, stored>>

(* An id without the demo prefix is skipped; another one is listed.        *)
SkipNone(h) == FALSE
Skip(h) == h = Foreign

EnterHousehold(h, listing) ==
    cleanup' = [cleanup EXCEPT !.state = "remove", !.queue = @ \ {h}, !.current = h, !.found = listing]

CleanupVisits ==
    /\ cleanup.state = "next"
    /\ \E h \in cleanup.queue :
        \/ Skip(h) /\ cleanup' = [cleanup EXCEPT !.queue = @ \ {h}]
        \/ ~Skip(h) /\ \E listing \in Listings(h) : EnterHousehold(h, listing)
    /\ UNCHANGED <<demoVars, ledger, calls, stored>>

CleanupRemoves ==
    /\ cleanup.state = "remove"
    /\ \E a \in cleanup.found :
        /\ stored' = stored \ {a}
        /\ cleanup' = [cleanup EXCEPT !.found = @ \ {a}]
    /\ UNCHANGED <<demoVars, ledger, calls>>

(* The household is left; a failed one is kept for the next run.           *)
LeaveHousehold(failed) ==
    cleanup' = [cleanup EXCEPT !.state = "next", !.current = Nobody, !.found = {},
                               !.remaining = @ \cup failed]

(* The second listing shows whether the household is empty.                *)
CleanupVerifies ==
    /\ cleanup.state = "remove"
    /\ cleanup.found = {}
    /\ \E listing \in Listings(cleanup.current) :
        LeaveHousehold(IF listing = {} THEN {} ELSE {cleanup.current})
    /\ UNCHANGED <<demoVars, ledger, calls, stored>>

(* A call raises or answers isError, or nothing was removed.               *)
CleanupFails ==
    /\ cleanup.state = "remove"
    /\ LeaveHousehold({cleanup.current})
    /\ UNCHANGED <<demoVars, ledger, calls, stored>>

(* The file is rewritten, whatever was appended to it in the meantime.     *)
CleanupWrites ==
    /\ cleanup.state = "next"
    /\ cleanup.queue = {}
    /\ ledger' = cleanup.remaining
    /\ cleanup' = NoCleanup
    /\ UNCHANGED <<demoVars, calls, stored>>

CleanupDies ==
    /\ cleanup.state # "off"
    /\ cleanup' = NoCleanup
    /\ UNCHANGED <<demoVars, ledger, calls, stored>>

(***************************************************************************)
(* The specification                                                       *)
(***************************************************************************)
ForeignAppliances == [household : {Foreign}, seed : SeedSet, copy : {1}]

Init ==
    /\ up = FALSE
    /\ household = [s \in Sessions |-> Nobody]
    /\ seeded = {}
    /\ pc = [s \in Sessions |-> "idle"]
    /\ missing = [s \in Sessions |-> <<>>]
    /\ drawn = {}
    /\ ledger \in {{}, {Foreign}}
    /\ calls = {}
    /\ stored = ForeignAppliances
    /\ cleanup = NoCleanup

SeedStep(s) ==
    FirstTurn(s) \/ LaterTurn(s) \/ Listed(s) \/ Added(s) \/ SeedingFails(s)

CleanupStep ==
    \/ CleanupStarts \/ CleanupVisits \/ CleanupRemoves
    \/ CleanupVerifies \/ CleanupFails \/ CleanupWrites \/ CleanupDies

Next ==
    \/ \E s \in Sessions : SeedStep(s)
    \/ \E c \in calls : ServerAdds(c)
    \/ DemoStops \/ DemoStarts
    \/ CleanupStep

Spec == Init /\ [][Next]_vars

(***************************************************************************)
(* Properties                                                              *)
(***************************************************************************)
TypeOK ==
    /\ up \in BOOLEAN
    /\ household \in [Sessions -> HouseholdIds \cup {Nobody}]
    /\ seeded \subseteq HouseholdIds
    /\ pc \in [Sessions -> {"idle", "list", "add"}]
    /\ missing \in [Sessions -> Seq(SeedSet)]
    /\ drawn \subseteq HouseholdIds
    /\ ledger \subseteq Households
    /\ calls \subseteq Calls
    /\ stored \subseteq Appliances
    /\ cleanup \in CleanupLocals

(* HouseholdLedger: "Written *before* a household is seeded, so a crash    *)
(* mid-seed still leaves it cleanable"; remove_households drops one "once  *)
(* it lists empty".  A demo household that holds an appliance, or is about *)
(* to, is in the ledger, whichever process died or call failed.            *)
EveryHouseholdCleanable ==
    \A h \in HouseholdIds :
        AppliancesOf(h) # {} \/ (\E c \in calls : c.household = h) => h \in ledger

(* ensure_seeded: "Idempotent (lists first and adds only what is missing), *)
(* so a retry after a half-finished seed never duplicates an appliance".   *)
NoDuplicateSeeds ==
    \A a, b \in stored : a.household = b.household /\ a.seed = b.seed => a = b

(* A household is served as seeded only when it has all its appliances.    *)
SeededMeansComplete ==
    \A h \in seeded, seed \in SeedSet : \E a \in AppliancesOf(h) : a.seed = seed

(* demo.cleanup "never touches any household that does not start with      *)
(* house-demo-", though it may be in the file.                             *)
ForeignUntouched == ForeignAppliances \subseteq stored

===============================================================================
