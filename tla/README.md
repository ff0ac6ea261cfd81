# TLA+ models of FixIt

FixIt is an MCP server that explains appliance error codes and symptoms from
manuals and keeps a registry of each household's appliances. Beside the server
(`src/fixit_mcp/`) the repository holds a demo backend that plays the part of
the voice assistant (`demo/`), and the scripts that build the index and deploy
the server (`scripts/`). This directory models that code in TLA+: TLC checks
the models on small instances and TLAPS proves theorems about them for
every instance.

All paths below are relative to the repository.

## 1. Inventory

Each entry: state; operations; what is hard; what makes it correct.

**Chat turn** (`demo/app.py`). State: one `asyncio.Lock` per `session_id`, one
Converse history per `session_id` (in `ConversationStore`). Operations: `POST
/chat` with its failure handler, `refresh_session`. It calls the session
manager, the household provisioner and `run_turn`. Hard: requests of one
`session_id` that overlap; a turn cancelled or timed out in any of its awaits;
evicting a session while answering. Correct: one turn at a time per
`session_id`, every turn is answered, a failed turn leaves no trace, no later
turn runs on a session that may be wedged.

**Orchestrator** (`demo/orchestrator.py`). State: the history it is given, the
locals of `run_turn` (round, tool uses, session, card, snapshot). Operations:
`run_turn`, `repair_history`, `_call_tool_with_retry`, `within`. It calls
Bedrock Converse in a thread, tools on an MCP session, and `refresh_session`.
Hard: lost and late tool calls, a 404 for a forgotten session, retries of
tools that are not idempotent, budgets that expire in an await. Correct: a
toolUse runs `add_appliance` at most once, Bedrock accepts every request,
a rollback drops exactly the failed turn.

**Session manager** (`demo/mcp_session.py`). State: one owner task per
`session_id`, with `_ready`, `_error`, `_close_requested`. Operations: `get`,
`evict`, `aclose`. Hard: owners that die while opening or later; cancelling a
request that awaits an owner's task. Correct: at most one live owner per
`session_id`, none is left open with nobody to close it, a dead one is
replaced.

**Demo households** (`demo/households.py`, `demo/cleanup.py`). State: the
provisioner's `_by_session` and `_seeded` (lost in a crash), the ledger file
(kept), the server's appliances. Operations: `household_for`, `ensure_seeded`,
`HouseholdLedger.record/read/write`, `remove_households`. Two processes share
the file and the server. Hard: crashes and failures between naming, recording,
seeding and cleaning. Correct: a household that has appliances is in the
ledger, no appliance is seeded twice, other households are never touched.

**Spoken replies** (`demo/speech.py`). State: `chars_synthesized`, the audio
cache. Operations: `speak`. Hard: concurrent requests, a thread that outlives
its guard. Correct: the process never pays for more characters than its
budget, every request ends.

**Demo page** (`demo/static/index.html`). State: `pending`, `sessionId`, the
microphone, `createSpeaker`'s token, mute, disabled and current audio.
Operations: `sendMessage`, `speak`, `stop`, `setMuted`, new conversation. It
posts to `/chat` and, for every reply, to `/speak`. Hard: answers that arrive after
a newer reply, a mute or the abort; players that fail late. Correct: one request in
flight, at most one voice, never of a reply that was replaced, muted or left;
every reply is heard; the page never hangs.

**Appliance repositories** (`src/fixit_mcp/repository/`,
`scripts/seed_agentcore_memory.py`). State: a dict, an SQLite table, or the
events of AgentCore Memory. Operations: list, add, remove, seed. Hard:
list-then-delete removal with several servers, restarts that seed an empty
table, events that cannot be read. Correct: each behaves like one registry
per household.

**MCP tools** (`src/fixit_mcp/tools/`, `server.py`). State: what the server loaded
at start-up, and the store. Operations: `add_appliance`, `remove_appliance`,
`list_my_appliances`, `diagnose_error`, `diagnose_symptom`, `check_warranty`.
Hard: the household's appliances, the manuals and the request are narrowed in
several ways that must agree. Correct: an appliance is named only when no other
fits, and the dialogue an answer opens (a choice, an appliance to add) ends in an
answer.

**Retrieval** (`src/fixit_mcp/retrieval/`, `catalog/manifest.py`,
`domain/appliance_types.py`). Immutable indexes. Hard: which of two duplicate
records wins; which words, slips and phrases make a match. Correct: the best
record is served whatever the order; an unknown word only ever weakens a match.

**Manual parsing** (`src/fixit_mcp/ingestion/parser.py`, `text_repair.py`,
`symptom_tables.py`). Functions from PDF text to chunks and tables.

**Extraction pipelines** (`src/fixit_mcp/ingestion/extraction.py`,
`symptom_extraction.py`, `scripts/fetch_manuals.py`, `parse_manuals.py`,
`extract_codes.py`, `extract_symptoms.py`, `add_manual.py`). State: the manifest, the
PDFs, the parsed files, two caches and two indexes, all on disk; the cost spent. Hard:
kills between and in the middle of writes, reruns with other arguments, a cap
checked against an estimate, answers cached by their text. Correct: the index
holds what was read from, and audited against, the manual it cites; a rerun
pays for nothing it has.

**Deployment** (`scripts/deploy_runtime.py`). State: the runtime in AWS, which
changes status by itself. Hard: status and configuration changing between
calls, timeouts. Correct: a deploy that returns left the desired configuration
ready.

**Others**: settings, domain models, logging, cards, reports and
probes (`demo/config.py`, `scripts/run_eval.py`, ...) have no state that changes
while others look, and are not modelled.

## 2. Modules

| Module | Models | Status |
|---|---|---|
| `ConverseHistory` | the message history: `repair_history`, the start of `_run_turn_body`, the contract of Bedrock Converse | done |
| `ChatTurn` | `/chat`, `run_turn`, tool retry, session manager and the wire, for one `session_id`; extends `ConverseHistory` | done |
| `Keeping` | what a list comprehension with a condition keeps of a list; used by four modules | done |
| `Households` | ledger, provisioner, cleanup | done |
| `Speaker` | `/speak`'s budget and cache | done |
| `Page` | the page, the backend's turn lock, and `Speaker` under them; extends `Speaker` | done |
| `Registry` | abstract registry: what list, add and remove promise processes that call it at once | done |
| `MemoryRegistry` | the AgentCore Memory backend and its seeding script, shown to implement `Registry` | done |
| `ErrorCodes`, `SymptomSearch` | the two indexes: loading, look-up, matching, as operators | done |
| `Tools` | the tools over both indexes, the catalog and the SQLite store; extends the two above | done |
| `ManualFiles` | manifest and PDFs, `fetch_manuals.py` | done |
| `CodeExtraction` | `parse_manuals.py`, `extract_codes.py`, `add_manual.py`; extends `ManualFiles` | done |
| `SymptomExtraction` | `extract_symptoms.py`; extends `ManualFiles` | done |
| `Pipelines` | the two composed over one set of files | done |
| `MC...` | instances for TLC | done |
| `Induction` | induction over numbers and over the length of a sequence; recursion up, and down by steps of any length; lemmas about `Keep`, sums and the greatest of a set | lemmas |
| `ChatTurnProofs`, `HistoryProofs` | theorems about `ChatTurn`: control, wire, sessions; history | all safety properties |
| `PageProofs` | theorems about `Speaker` and `Page` | all safety properties |
| `HouseholdsProofs` | theorems about `Households` | all properties |
| `PipelinesProofs` | theorems about `Pipelines` | all properties |
| `MemoryRegistryProofs` | theorems about `MemoryRegistry`, its refinement of `Registry` among them | all properties |
| `ToolsProofs` | theorems about `Tools` and the operators of `ErrorCodes` and `SymptomSearch` | all properties |
| `Deploy` | `deploy`, `wait_for_status`, `delete` against a runtime with its own life | planned, last |

Planned extensions of what is there: in `ChatTurn`, replies with empty content,
shutdown (`SessionManager.aclose`), seeding on a dead session (composition
with `Households`) and an abstract turn (`idle`, `running`, `answered`, with the
turns remembered) that it implements; in `Households`, a torn write of the
ledger.

Planned theorems: that `ChatTurn` implements the abstract turn. No module
declares a RECURSIVE operator: what recurs is a recursive function, so that
every module can be proved about.

## 3. `ChatTurn` and `ConverseHistory`

One request is one element of `Requests`; requests of different `session_id`s
share nothing and are not mixed. `pc[r]` names the await in which the handler
of `r` is suspended, so that an action is everything the event loop runs
between two awaits:

| `pc` | await | left by |
|---|---|---|
| `new` | the request has not arrived | `BeginTurn`, `RejectTurn` |
| `get` | `sessions.get`, `app.py:183` | `SessionReady`, `SessionFailed`, `Cancel` |
| `converse` | the Converse thread, `orchestrator.py:545` | `ModelReplies`, `ModelCallsTools`, `ModelFails` |
| `call` | `call_tool`, `orchestrator.py:369` and `393` | `CallAnswered`, `CallNeedsCard`, `CallRetried`, `CallLost`, `CallBroken`, `CallTerminated`, `RetryTerminated` |
| `refresh` | the old owner's `aclose`, in `evict` | `RefreshClosed`, `RefreshSwallows` |
| `reopen` | `sessions.get`, in `refresh_session` | `Reopened`, `ReopenFailed` |
| `card` | `read_resource` | `CardRead`, `CardFails` |
| `evict` | the evicted owner's `aclose`, `app.py:252` | `EvictClosed`, `EvictCancelled` |

`BudgetExpires` and `Cancel` leave the awaits that a budget or a cancelled
request can interrupt. `turn[r]` holds the locals of `run_turn`; `session[r]`
the owner whose session it calls; `snapshot[r]` the rollback copy. `owners`
is the sequence of all owner tasks ever started, `current` the manager's entry.
`sent` holds the tool calls on the wire, `executed` those whose handler ran: an
attempt stays in `sent` after the client has given up on it, and may be executed
later, or never. The runtime may forget a session (`RuntimeForgets`), after which
its calls are answered 404 without running.

A message is reduced to its role, the turns whose words it holds, its toolUse
blocks and the toolUse blocks its results answer. `Repair` is `repair_history`
on that, `ConverseAccepts` what Bedrock demands of a request (external: the
`ValidationException` quoted by `repair_history`'s docstring and the API's
alternation rule). Bedrock's reply is assumed to hold a text or a toolUse.

### Runs

`turn` (`MCChatTurn.cfg`): three requests, so that a turn can follow a failed
one and a cut-off one and meet the third's lock; two rounds of one tool each, one of
`add_appliance` (not idempotent) and `diagnose_error` (idempotent, with a card);
one fault. One fault is a forgotten session, a dead connection or a failed opening;
lost answers, timeouts and cancellations are not counted and may happen in
every await. Two rounds are the least that distinguish the last round from the others, and one
toolUse per round suffices for retries (a second one is in `turn_liveness`).

* `AddedAtMostOnce`: per toolUse block, `add_appliance` runs at most once. It
  holds because the code retries it only after a 404, and a 404 proves that the
  attempt did not run.
* `AnsweredMeansSettled`: a result in the history means that the call ran and
  nothing of it can run any more.
* `EveryRequestAccepted`: each Converse request is one that Bedrock accepts.
* `OnlyRepliedTurnsRemembered`: between turns the history holds the words of
  exactly the turns that got the model's reply.
* `RefusedSessionNotReused`, `TimedOutSessionNotReused`: neither a session that
  answered 404 in this turn, nor one a past turn timed out on, is called.
* `NoSessionLeaked`: an open session is the manager's or is being closed.

`turn_liveness` (`MCChatTurnLiveness.cfg`): `TurnEnds` for one request (the turn lock
keeps others of the session out), with two tools per round and two faults.

Fairness, and why the code justifies it: a handler whose await is over runs
(the event loop), budgets expire (`asyncio.wait_for`), the Bedrock call ends or
is given up (its own budget), an owner asked to close ends (its HTTP client has
a timeout). `OpeningEnds`, that `initialize()` is answered or fails, is an
assumption about the server: the code sets it no limit. Nothing is assumed of the answers to
tool calls and card reads. `TurnEnds` therefore says: if sessions open, an
accepted turn is answered, except a turn both of whose budgets were swallowed
while it closed sessions.

`turn_hang` drops `OpeningEnds`: the turn waits in `sessions.get` for ever,
which `demo/README.md:169` ("never hangs") denies.

The exception in `TurnEnds` is real. When the turn's budget expires in the
`aclose()` of a refresh, cancelling the turn cancels the owner's task it awaits,
`_run` swallows that, and the turn goes on calling tools with its budget spent
(`RefreshSwallows`), against `demo/config.py:47`, "the whole turn (which bounds the
sum of several rounds)".

## 4. `Households`

The demo process holds `household` (`_by_session`), `seeded` and, per session,
where `ensure_seeded` is suspended; the cleanup process holds `cleanup`; `ledger`
is the file, `calls` the `add_appliance` calls on the wire, `stored` the
server's appliances. `DemoStops` and `CleanupDies` may happen at any step. A
call that fails may have run before it failed.

Whatever else can go wrong is in the constant `Hazards`. `households`
(`Hazards = {}`, two conversations, three household ids so that a restart can draw a new
one, two seeds as in the code) shows `EveryHouseholdCleanable`,
`NoDuplicateSeeds`, `SeededMeansComplete` and `ForeignUntouched`. Adding one
member to `Hazards` in that configuration breaks:

| Hazard | meaning | breaks |
|---|---|---|
| `overlap` | cleanup runs while the demo serves | `EveryHouseholdCleanable`, `SeededMeansComplete` |
| `ledger_fails` | appending to the file raises once | `EveryHouseholdCleanable` |
| `late_call` | a call the client gave up on runs later | `EveryHouseholdCleanable`, `NoDuplicateSeeds` |
| `list_error` | `list_my_appliances` answers `isError` | `EveryHouseholdCleanable`, `NoDuplicateSeeds` |

The last row is checked by `households_duplicate` for `NoDuplicateSeeds`; the
other violation is the same mistake in the cleanup: both callers read `structuredContent` of a listing without looking at `isError`,
so a listing that failed in the server reads as an empty household. That contradicts the
docstrings of `ensure_seeded` and `remove_households`. `MaxCopies = 2` is enough
to see a duplicate. The theorems of section 9 say, for each property, without which
hazards it holds; the table says that those are needed.

## 5. `Speaker` and `Page`

`speak` up to its only await is one action of the event loop (`AnswerAtOnce` or
`StartSynthesis`); the thread goes its own way (`PollyAnswers`), also after the
guard expired or the request was cancelled. A restart, which resets the count,
and removal of cached files are left out.

`Page` extends `Speaker`: a message is a request of `/speak` too, posted when its
reply arrives. JavaScript runs one callback at a time, so an action is one
callback:

| Actions | Code |
|---|---|
| `Type`, `Listen`, `Hear`, `StopListening` | `sendMessage` and the microphone, which may hear a sentence to its end while a message is already in flight |
| `ReplyArrives`, `ErrorArrives`, `GiveUp` | the `then`s of `fetch("/chat")`; `GiveUp` is the abort and a lost connection |
| `AudioArrives`, `NoAudio`, `ConnectionFails` | the `then`s of `fetch("/speak")` |
| `AudioStarts`, `AudioFails`, `AudioEnds`, `BrowserEnds` | what the two players report |
| `NewConversation`, `Mute` | the buttons |
| `TurnBegins`, `TurnEnds` | the backend: `ChatTurn`'s lock and its answer, nothing else of it |

`live` names the message whose token is the current one (the code counts tokens and
compares them only for equality), `sounding` is what the customer hears.

`page`: two messages, so that a reply can replace another and a turn can meet
the lock; two conversations, so that one can be left; a short reply and one that
is too long for `/speak`; room for one reply in the budget, so that the second
meets its limit while the first is in flight.

* `ChargedWithinBudget`: the characters charged are exactly those in flight,
  spoken or cancelled, and within the budget.
* `VoiceIsTheLastReply`: at most one voice, never muted, never of a conversation
  that was left, never of a reply that a newer one replaced.
* `RefusedOnlyAfterGivingUp`: the backend answers `turn_in_progress` only in a
  conversation in which the page gave up on a message: the one way to the lock
  is the abort after 120 s, while the turn goes on.
* `PageNeverStuck`, `SpeakEnds`, `EveryReplyVoiced`: the page is freed, `/speak`
  is answered, and a reply whose audio is asked for is heard from Polly or the browser
  unless something newer, or the customer, stops it.

Fairness (`PageFairSpec`): the abort timer fires (`setTimeout`); the server
takes up what is posted and answers once the thread is done or the guard expired (event
loop, `asyncio.wait_for`); the fetch of an answer that was given is read, and `play()`
settles (browser). Nothing is assumed of turns, of Polly, or of the customer. A
browser without `AbortController` has no timer; `PageNeverStuck` does not hold there. A
browser without `speechSynthesis` has no voice of its own; `EveryReplyVoiced` is about one
that has (without it a reply whose audio fails is only read).

`speaker_billed` (`MCSpeaker`, three requests): the guard refunds a call that is then
billed, so that the process pays for more than its budget.

## 6. `Registry` and `MemoryRegistry`

`Registry` is the protocol of `repository/base.py` for one household and several
calling processes. A call is a window. `span[c]` holds the ids that were owned
all through it (`always`), at some moment of it (`ever`), and those an add
stored during it (`joined`); `Explains` says which answers that allows:

* a list reports every id that stayed, except one that was stored again
  meanwhile, and none that was never there;
* an add that returned was stored at some moment;
* a remove answers True only if the appliance was there, and is gone unless it
  was stored again meanwhile; False only if it was missing at some moment;
* a call may always fail, and its write may land later (`late`).

`MemoryRegistry` is the code: `events` are the live events of the household,
several of which may hold one appliance; `io[c]` is how far the AWS calls of a
repository call have come (`ReadPage` per page of `_list_events`, `Land` and
`Respond` for a CreateEvent or a DeleteEvent, `Fail` for an exception of
`_call`). `Tool` is the three registry tools, `Seed` one step of
`seed_demo_households` up to its next repository call; `plan[s]` is where it
is. A run begins in any household without duplicates, its events in any order. `owned` of `Registry` is the set of ids of `events`, `late` the abandoned
requests without their events.

`memory_registry`: one server call and two runs of the script, with or without
`--reset`, that may overlap; a demo appliance and another one; one event per
page, so that every listing is interrupted; three events, so that there can be
a duplicate; one abandoned request. `ImplementsRegistry` is the refinement;
`SeedRunComplete` and `ResetClears` say what a run that returns has done.

A list may really miss an appliance that was owned throughout: the listing has
read the newer pages, a second seeding run stores a duplicate event, and a
remove that listed before deletes the older event before its page is read. It
takes two seeding runs, three other callers and more than one page (a hundred events in the
code), more than `memory_registry` holds; `Steady` excuses exactly that.

`Servers` are processes: FastMCP runs these synchronous tools on its event loop,
one at a time. Assumed of AgentCore Memory: pages go from new to old and an event that
exists throughout a listing is in one of its pages; a request with one
`clientToken` is carried out at most once, so that boto3's own retry is one
request. Left out: invalid household ids (answered without a call), events that
cannot be read (the list skips them), expiry, and the second demo household of
the script, which is seeded only if the first did not raise. The script's order
within a household is any order here.

## 7. `ErrorCodes`, `SymptomSearch` and `Tools`

`ErrorCodes` and `SymptomSearch` are the two indexes as operators, in the order of the code:
records to index (`LoadIndex`, `BuildGroups`), description to terms
(`AnalyzeQuery`: determiners out, slips mended, then types, phrases and single words),
terms to scored symptoms (`Search`, `NearestPhrases`). The loops over records and words
are recursive functions; where the code's order of a result is never used, the
result is a set (`LoadIndex`, `Search`). A word is a member of
`Vocabulary`; the stemmer, the word tables, edit distance and `difflib` are
CONSTANTS; the logarithm of a weight is a table in thousandths, and a score is in
twentieths of it, so that the factors 0.25 and 0.6 and the half of the
threshold stay whole numbers.

`Tools` is the server over one household: `owned` the rows of the SQLite table,
`files` what was loaded at start-up, `said` the last request with its answer. A tool
answers in one step (a synchronous function over the indexes and one statement under
the store's lock). A call changes none of the other variables; `Told` forgets it, and the
household changes only between calls, which loses nothing since what comes after an
answer could come before the call. `Restart` loads the files anew and seeds an empty
table: by then `add_manual.py` may have appended to the manifest and both indexes
may have been extracted again (`Loads`), while a row keeps the manual that
`add_appliance` found for it, or `""`, for ever (`tools/appliances.py:80`). `known` is
history: how many manuals the server knew when a row was made.

The parameters a caller may leave out are `None`. Brands and models are compared without
case, so names that differ in case only are one name here; names that differ in the
blanks around them are not. `Strip` takes the blanks off where the code does, in
`catalog.find` (`manifest.py:37`), and not where the request is compared with
the rows (`tools/common.py:49-52`, `tools/diagnose.py:200-203`). Types are compared by
`Canonical` (`domain/appliance_types.py`). Types in `owned` and in the symptom files are those that
`normalize_appliance_type` yields: the code normalises both sides at each comparison.

What the files and the household are is said in four named assumptions:

* `CatalogAssumption`: a manifest has one entry per manual id and one per product, with no
  blanks around its names (`scripts/validate_manifest.py` refuses two equal ids or
  products, `scripts/add_manual.py:298-299` strips the names it appends).
* `FilesAssumption`: records are of the catalog's manuals, and a symptom's row has the type of
  its manual (`scripts/extract_symptoms.py:141` takes both from the manifest; the committed
  `data/index/symptoms.json` agrees with it); a word's weight is a natural
  for every number of symptoms it may be in.
* `HouseholdAssumption`: the seed is finite, its ids differ, it was made before any manual was
  counted (`known` is 0), and a seeded appliance with a manual is the product of
  an entry that every catalog has (`repository/in_memory.py:10`).
  `"none"` stands for "not given" and is no type's name.
* `CallsAssumption`: the ids that `add_appliance` draws are new (`uuid4`), and `"none"`
  and `"new"` are no ids.

No assumption is made of the words: stems, synonyms, phrases and slips may be any.

`tools`: a seeded dryer and one more appliance, which may be a washer, the same dryer,
the dryer added as a washer, or the dryer with a blank before its brand (called "tumble
dryer"); every request; 43 sets of files: a catalog with the dryer only, and after it
one with the washer too, so that an appliance may be older than its manual;
error-code files of up to two records of five (so that a
duplicate meets its better, in both orders, with a range among them) and
symptom files of three rows out of six with a continued and a labelled one; descriptions
with a slip, a synonym, a negation, a phrase, types and unknown words. 670,136 states.

* `NeverGuessed`: an appliance is named only if it is the only one of the household
  that fits the request and documents it, and its own manual is cited.
* `DisownedOnlyForCause`: a registered appliance, one whose brand and model are the cited
  manual's whatever blanks were typed around them, is said not to be registered for four
  reasons only: the request gave another id; it was added before its manual was
  (`AddedBefore`); it was added as another type than its manual's and the
  question is about a symptom; or blanks were typed around a name that the request
  gives (`PaddedFor`). Each of the four is needed: without any one of them
  TLC finds the run's instance violating the rest.
* `ProposalsWork`: repeating the question with a choice that was offered is
  answered for that appliance while it is still owned, whatever else was removed and
  whichever appliance was added meanwhile (`Changed`); adding the appliance that was
  suggested makes the question answered for it.
* `BestRecordsServed`: per manual and code the fullest, then the most
  confident record is served, and no range or placeholder.
* `UnknownWordsOnlyDoubt`: a further unknown word brings no manual up, and a
  description that is off topic gets neither an entry nor a phrase. Nothing is claimed
  of the phrases offered for a description that is on topic.

`tools_registered` asks for less: a household that owns the named id and gives no brand or
model is never told of an appliance it has registered that it has not. TLC's shortest
counterexample has two appliances; the request names the id of one and is about a code of the
other, which is said not to be registered. Following the suggestion registers it a
second time, after which questions that were answered are ambiguous. The causes
above give further ways, all without an id: `diagnose_symptom` with an appliance that was added
as another type, and either tool with one that was added before its manual
or that is asked for by a name stored with blanks. The descriptions of `appliance_registered` in
both tools deny it.

Further observations, of which no property is claimed: `diagnose_symptom` asks "which
brand and model is it?" without a parameter for either; a table that became empty is seeded again at
the next start, where `README.md:72` says "the first time it starts".

## 8. `ManualFiles`, `CodeExtraction`, `SymptomExtraction` and `Pipelines`

One operator runs the scripts one after the other over the same files. `tool` and
`batch` hold the locals of the one that runs, and `at` the step to come; a step is one
write, one call to an extractor, or one look at a file. `ToolKilled` and
`BatchKilled` end a script at any step and leave the file it was writing as it
was, finished, or cut (`CutWrite`); `add_manual.py` writes the error-code index to another
file first, so that index is never cut by it, unlike by `extract_codes.py`.
A cut JSON file or PDF cannot be read (`Torn`); a cut manifest is taken as empty,
the case that loses most (YAML that is cut between entries is valid). A
failure inside a script (`ToolFails`, `BatchStops`) loses what it holds in memory.

A manual has editions (`Versions`), which a fetch may meet in any order;
`CandidatesOf` and `TablesOf` are what parsing finds in each. A record is the manual it
cites, the chunk it was read from and by which extractor. Nova's answer to a table
is its verdict at the audit; one cached before the audit was stricter is
rejected when it is read again.

`pipelines`: a manual whose records are in the repository and a new one; two
editions that differ in a chunk and a table; the stub and one Bedrock model; a
cap that meets its limit during the retries; three scripts, so that a rerun can follow a
first run and a fetch in between, and one kill. The manuals named on a command line are
a list of at most `MaxListed` = 2, and one may be named twice: the scripts do not
deduplicate `--manual`, so a manual named twice is processed twice and its records are
in the index twice. 2,224,832 states.

* `OneEntryPerManual`, `IndexedIsInManifest`: `add_manual.py` with any arguments
  and any kills leaves no two entries for an id or a product, and no record in the
  index whose manual is not in the manifest (but for a manifest that was cut).
* `BoughtOnce`: without `--force` a model's answer about a chunk is paid for once,
  and once more for each time that answer was lost in a kill.
* `ExtractorsNeverMix`, `OthersUntouched`, `IndexIsWhatWasRead`: a merge replaces the
  records of its manuals only, by what this extractor said about the text that was
  parsed last: of each manual in the order and as often as it was named. Excepted is a run
  with `--force` that names a manual twice: the index then holds both answers about a
  chunk, and the cache, which the property looks at, the later one only.
* `OnlyAuditedSymptoms`: the symptoms of a manual are all tables of one edition,
  all audited.
* `PassesCapByOneCall`: a run passes its cap by less than one call costs.

`pipelines_family`: the two manuals are of one series and share a chunk. The
cache answers for the second with records that cite the first, and the merge appends
copies of the first manual's records and none of the second's.
`OthersUntouched` and the docstring of `add_manual.py` exclude it; `pipelines` keeps the
manuals' texts apart, which is the assumption of its properties.

## 9. What is proved

Every theorem holds for every value of the constants that the named assumptions
of its module allow; these say that bounds are numbers, that ids of different
kinds differ, and that the files of the repository are as they are (a manifest
with one entry per id, and so on). Each is proved from an inductive invariant; TLC
checked it on a run's instance before it was proved.

**`ChatTurnProofs`** (`TypeCorrect`, `AtMostOnce`, `NoLeak`, `RefusedNotReused`,
`TimedOutNotReused`). `CoreInv` is the foundation: the types, that one turn holds
the lock (`OneTurn`), and that a turn in a tool call, refresh, reopening or card
read is at a toolUse that exists. On it stand

* `WireInv` for `AddedAtMostOnce`, which is not inductive: nothing in it says that
  the attempt about to be sent is new. `Fresh` adds that every attempt of a
  running turn is of an earlier toolUse or of the present one with a number that was
  reached, `UniqueUse` extends the claim to attempts that may still run, and
  `SentIsNotExecuted` is why the retry after a 404 keeps it: that step takes
  the refused attempt off the wire.
* `SessionInv` for the session properties: where a turn stands, which owner is the
  manager's, which it closes, and that the one it calls is none of those that
  refused it or that an earlier turn gave up on. Owners are numbered as they
  start, so a new one is none of the old.

**`HistoryProofs`** (`Accepted`, `Remembered`, `AnsweredSettled`). `HistoryInv`
says what the history is at each await: well-formed up to a last message that may
call tools nobody answered yet, its words those of the turns that were replied to and, while
a turn runs, its own; and that its snapshot is the history before the turn. The
work is in `repair_history`: what dropping dangling toolUses, orphaned results and
empty messages, and merging neighbours, leaves of such a history, for every
length, by induction. `SettledInv` ties each result to the attempts of its toolUse.

**`PageProofs`** (`BudgetKeptByPage`, `PageTypeCorrect`, `OneVoice`,
`RefusalExplained`, and `BudgetKept` for `Speaker` alone). `SpeakerInv`: the
characters charged are the sum over the requests in flight, spoken or cancelled;
a fold over a finite set, so that adding or taking away one request is a lemma by
induction. `PageInv` adds what each message of the page can still cause
(`MessageAt`), whose token is the current one (`Token`), and which answers are
still heeded (`Heeded`).

**`HouseholdsProofs`** (`HouseholdsTypeCorrect`, `ForeignKept` with any hazards;
`SeededComplete` without `overlap`; `NoDuplicates` without
`list_error` and `late_call`; `Cleanable` without hazards). `HouseholdsInv`
says what each conversation, call and cleanup holds where it stands; on it
`CompleteInv` (what is stored or still to be added covers the seeds), `FreshInv` (what is
still to be added, or on the wire, is not stored) and `CleanableInv` (an appliance's
household is in the ledger, or the cleanup that will write it still has it).
The hypotheses are not weaker than the code allows: for each hazard they exclude
the table of section 4 has the property fail. `NoDuplicates` holds with
`overlap`, and `SeededComplete` with `late_call` and `list_error`.

**`PipelinesProofs`** (one theorem for each property of the run). `PipelinesInv` is
the types and what the position of a script says of its locals. `OneEntryInv`,
`CitedInv`, `BoughtInv` (what was bought is in the cache, was lost, or is at hand to
be written), `AuditInv` and `OwnInv`, `ReadInv` are inductive on it. Three theorems
have a hypothesis on the texts:

* `NeverMix` and `OthersKept` need `OwnTexts`, that no two manuals share a chunk.
  `pipelines_family` shows that `OthersUntouched` fails without it.
* `IndexRead` needs `OnceEach` too, that no edition of a manual holds a chunk
  twice: with `--force` the second of two equal chunks is asked again, and its
  answer replaces the cached one after the first was collected. The same holds of a
  manual named twice, which the property itself excepts (`NamedOnce`, when forced);
  without `--force` the theorem says how often its records are there.

**`MemoryRegistryProofs`** (`RegistryTypeCorrect`, `RegistryImplemented`,
`SeedComplete`, `ResetCleared`). `Inv` says, of each call that runs, what its window
says of the household (`Window`), what it still has to find or to delete
(`Doing`: an event that was there throughout and was not found is older than
the cursor; every event of the appliance that was there throughout is among
those to delete), and of each answer what stays true of it (`Answered`). It rests on
two facts about pages and numbers: a page that is not the last leaves only older events,
and the newest of a finite set exists. `SeedInv` follows the script from
step to step. `RegistryImplemented` maps each step: beginning a repository call
is `Invoke`; `Land`, `LandLate` and `Fail` are their namesakes; the last page or response is
`Return`, with an answer that `Explains` allows (`RightExplains`); other pages and
responses, and the end of a script, change nothing that `Registry` sees.

**`ToolsProofs`** (`ToolsTypeCorrect`, `NeverGuesses`, `DisownsOnlyForCause`,
`ProposalsAlwaysWork`, `TheBestRecordIsServed`, `UnknownWordsOnlyRaiseDoubt`), for
index files of any length and any word tables. The invariant itself is short
(`ToolsInv`): the indexes are those of the loaded files (`Loaded`), the household's rows
have ids of their own, made by the seed or drawn so far, and agree with the
catalog, of which they were made when it had `known` entries (`Stored`: a row is linked to its
product's entry if that is one of them, and a linked row stays linked as the catalog
grows, `LinkedIn`, `LinkedAsItGrows`, `LinkedProduct`), and the last answer is what the request gives on the present
household (`Answered`, kept because `CallsUnmoved`: an answer depends on nothing
that a call changes). The work is in what the operators compute:

* `LoadIndexDedupes`: the index is of the file's records, has each manual and code
  once, and for each record one at least as good. The step is `EnteredDedupes`;
  `BetterOf` is a total order, so which of many duplicates wins does not depend on
  the file's order. `TheBestRecordIsServed` follows.
* `AnalyzeWordsType`, by `RecursionDown`: reading always goes on, by one word, two or a
  phrase's length, so a description of any length becomes finitely many terms.
* `HitsNarrow`: a search narrowed to some manuals finds, of what the wider
  search finds, exactly that in those manuals, because whether a description is off topic and
  which symptoms clear the threshold depends on the description and the whole
  index only. The one rule that counts what was found ("one common word") is why the lemma
  supposes that the wider search found something (`CommonNarrows`). With it the
  household's search and the search of all manuals in `diagnose_symptom` agree,
  on which `DisownsOnlyForCause` and both halves of `ProposalsAlwaysWork` rest.
* `WeightsGrow` and `UnknownOnlyDoubts`: an unknown word adds weight to the whole
  and to no symptom's score, makes a lone word one of two, and takes away
  the exception for distinctive words.
* `SymptomCases`, `ErrorCases`, `WarrantyCases`: what each branch of the three tools
  has established when it answers. `NeverGuesses` compares that with `Asking`, what
  fits the request, `DisownedForCause` the causes with `Resolved`. `ChoicesWork` follows the
  question that comes back in any household that still has the choice,
  `SuggestionsWork` in the one that `add_appliance` makes of a product whose manual is
  the one suggested (`ApplianceIs`, of `ManualFor`).

**`Induction`**. The library's induction theorems take an operator as a parameter,
which the provers here cannot instantiate. `LeastExists`, that a set of numbers that is not
empty has a least element, comes from `WFMin`, the library's theorem about
well-founded orders; `NatInduct` (a subset of `Nat` that holds 0 and each successor is
all of `Nat`), `SeqInduct`, `RecursionExists`, `RecursionDown` and
`GreatestExists` follow, and with them what the recursive functions of the
models (`Keep`, `Sums`, `LoadIndex`, `BuildGroups`, `AnalyzeWords`) compute for every
input.

Only model-checked: liveness under fairness (`TurnEnds`, `PageNeverStuck`, `SpeakEnds`,
`EveryReplyVoiced`), which the prover cannot treat. Every invariant and every action property of
the passing runs is a theorem.

## 10. Not modelled

* PDF parsing and text repair: functions on glyph geometry; their results are
  CONSTANTS of the pipelines.
* Configuration, signing, logging, domain validation, cards, the look of the page:
  no state that changes.
* The dict store: atomic calls of one process, as `Tools` has them.
* Deployment: what makes it hard is how AWS changes a runtime's status, of which
  the scripts show little; planned last. Pushing images and rendering policies
  is I/O.
* Reports and probes (`run_eval.py`, `observability.py`, `smoke_test.py`,
  `try_it.py`, `validate_manifest.py`, `measure_runtime_latency.py`).
* Process-wide limits (the thread pool of `asyncio.to_thread`), shutdown, two
  scripts at a time, a torn ledger.

## 11. Running

    tlc -config MCChatTurn.cfg MCChatTurn.tla
    tlapm ChatTurnProofs.tla
    tlapm MemoryRegistryProofs.tla

`PROJECT.json` lists every run with its configuration and properties, the
lines of the source that each definition stands for, the disagreements between
code and documentation the runs show, and the hazards with the properties that
cover them.
