------------------------------- MODULE ChatTurn -------------------------------
(***************************************************************************)
(* The core of the demo backend: how POST /chat serves the requests of one *)
(* session_id.  It composes                                                *)
(*   - the turn lock and the failure handler of demo/app.py,               *)
(*   - run_turn's Converse loop, tool retry and time budgets               *)
(*     (demo/orchestrator.py), over the history of ConverseHistory,        *)
(*   - SessionManager and _SessionOwner (demo/mcp_session.py),             *)
(*   - the wire to the MCP server, which may lose, delay or refuse a call. *)
(* Requests of different session_ids share none of this state.  The        *)
(* household is the fixed one (fresh mode is the module Households).       *)
(***************************************************************************)
EXTENDS ConverseHistory, FiniteSets

CONSTANTS
    Requests,         \* the POST /chat requests made with this session_id
    Tools,            \* the tools the MCP server advertises
    IdempotentTools,  \* _IDEMPOTENT_TOOLS: all of them but add_appliance
    CardTools,        \* the tools with a ui resourceUri
    MaxRounds,        \* max_tool_rounds
    MaxUses,          \* bound: toolUse blocks in one assistant message
    MaxFaults         \* bound: sessions forgotten, broken or failing to open

ASSUME ToolsAssumption ==
    /\ IdempotentTools \subseteq Tools
    /\ CardTools \subseteq Tools

ASSUME BoundsAssumption ==
    /\ MaxRounds \in Nat \ {0}
    /\ MaxUses \in Nat \ {0}
    /\ MaxFaults \in Nat

VARIABLES
    pc,         \* where each request's handler is suspended
    outcome,    \* what /chat answered
    turn,       \* the locals of run_turn, see TurnLocals
    session,    \* run_turn's `session`: the owner whose session it calls
    closing,    \* the owner whose aclose() the request awaits, or NoOwner
    history,    \* the session_id's Converse messages (ConversationStore)
    snapshot,   \* run_turn's deep copy of the repaired history
    owners,     \* the state of every _SessionOwner ever started
    current,    \* SessionManager._owners[session_id], or NoOwner
    forgotten,  \* sessions whose Mcp-Session-Id the runtime no longer knows
    sent,       \* tool-call attempts on the wire, not yet handled
    executed,   \* attempts whose tool handler ran
    faults      \* faults so far, at most MaxFaults

historyVars == <<history, snapshot>>
ownerVars == <<owners, current, forgotten>>
wireVars == <<sent, executed>>
vars == <<pc, outcome, turn, session, closing, historyVars, ownerVars, wireVars, faults>>

NoOwner == 0

PCs == {"new", "get", "converse", "call", "refresh", "reopen", "card", "evict", "done"}

Outcomes == {"none", "rejected", "replied", "apologised", "timeout_converse",
             "timeout_mcp", "transport", "error", "cancelled"}

OwnerStates == {"opening", "ready", "dead", "closed"}

Cards == {"none", "read"}

(* The budgets a swallowed cancellation can use up: see RefreshSwallows.   *)
Budgets == {"tool", "turn"}

(* round: the Converse round, from 1; uses, pos: the tools the model's     *)
(* last message calls and the one being dispatched; attempt: 2 for the     *)
(* retry; card: whether the card was read; spent: budgets whose one        *)
(* cancellation was swallowed; refused: the sessions that answered the     *)
(* turn with a 404 (a history variable).                                   *)
TurnLocals ==
    [round : 0 .. MaxRounds, uses : Seq(Tools), pos : Nat, attempt : 0 .. 2,
     card : Cards, spent : SUBSET Budgets, refused : SUBSET Nat]

NoTurn == [round |-> 0, uses |-> <<>>, pos |-> 0, attempt |-> 0, card |-> "none",
           spent |-> {}, refused |-> {}]

(* A round starts; the toolUse at i is dispatched; it is tried again.      *)
BeginRound(l, card) == [l EXCEPT !.round = @ + 1, !.card = card]

BeginUse(l, plan, i, card) ==
    [l EXCEPT !.uses = plan, !.pos = i, !.attempt = 1, !.card = card,
              !.spent = @ \ {"tool"}]

BeginRetry(l) == [l EXCEPT !.attempt = 2]

Refused(l, o) == [l EXCEPT !.refused = @ \cup {o}]

Spend(l, budget) == [l EXCEPT !.spent = @ \cup {budget}]

InTurn(r) == pc[r] \notin {"new", "done"}

Transition(r, to) == pc' = [pc EXCEPT ![r] = to]

ToolUseOf(r, i, tool) == [turn |-> r, round |-> turn[r].round, pos |-> i, tool |-> tool]

AttemptOf(r, i, tool, n, o) ==
    [turn |-> r, round |-> turn[r].round, pos |-> i, tool |-> tool, n |-> n, owner |-> o]

CurrentTool(r) == turn[r].uses[turn[r].pos]

CurrentAttempt(r) ==
    AttemptOf(r, turn[r].pos, CurrentTool(r), turn[r].attempt, session[r])

(***************************************************************************)
(* Session owners and the server                                           *)
(***************************************************************************)

(* SessionManager.get up to its wait: a missing or dead owner is replaced. *)
Obtain ==
    IF current = NoOwner \/ owners[current] = "dead"
    THEN /\ owners' = Append(owners, "opening")
         /\ current' = Len(owners) + 1
    ELSE UNCHANGED <<owners, current>>

Fault == faults < MaxFaults /\ faults' = faults + 1

(* _SessionOwner._run: initialize() is answered.                           *)
OpenSucceeds(o) ==
    /\ owners[o] = "opening"
    /\ owners' = [owners EXCEPT ![o] = "ready"]
    /\ UNCHANGED <<pc, outcome, turn, session, closing, historyVars, current, forgotten,
                   wireVars, faults>>

(* _run's except branch: while opening, or later when the connection the   *)
(* session lives in breaks.                                                *)
OwnerDies(o) ==
    /\ owners[o] \in {"opening", "ready"}
    /\ Fault
    /\ owners' = [owners EXCEPT ![o] = "dead"]
    /\ UNCHANGED <<pc, outcome, turn, session, closing, historyVars, current, forgotten,
                   wireVars>>

(* The runtime recycles the session: its id now gets a 404 before any tool *)
(* code runs.                                                              *)
RuntimeForgets(o) ==
    /\ owners[o] = "ready"
    /\ o \notin forgotten
    /\ Fault
    /\ forgotten' = forgotten \cup {o}
    /\ UNCHANGED <<pc, outcome, turn, session, closing, historyVars, owners, current, wireVars>>

ServerExecutes(a) ==
    /\ a \in sent
    /\ a.owner \notin forgotten
    /\ sent' = sent \ {a}
    /\ executed' = executed \cup {a}
    /\ UNCHANGED <<pc, outcome, turn, session, closing, historyVars, ownerVars, faults>>

(***************************************************************************)
(* /chat: the turn lock                                                    *)
(***************************************************************************)
BeginTurn(r) ==
    /\ pc[r] = "new"
    /\ \A q \in Requests : ~InTurn(q)
    /\ Transition(r, "get")
    /\ Obtain
    /\ UNCHANGED <<outcome, turn, session, closing, historyVars, forgotten, wireVars, faults>>

RejectTurn(r) ==
    /\ pc[r] = "new"
    /\ \E q \in Requests : InTurn(q)
    /\ Transition(r, "done")
    /\ outcome' = [outcome EXCEPT ![r] = "rejected"]
    /\ UNCHANGED <<turn, session, closing, historyVars, ownerVars, wireVars, faults>>

(***************************************************************************)
(* How a turn ends                                                         *)
(***************************************************************************)
Finish(r, result) ==
    /\ Transition(r, "done")
    /\ outcome' = [outcome EXCEPT ![r] = result]
    /\ turn' = [turn EXCEPT ![r] = NoTurn]

RestoreHistory(r) ==
    /\ history' = snapshot[r]
    /\ snapshot' = [snapshot EXCEPT ![r] = <<>>]

(* An exception leaves run_turn, which restores the snapshot; /chat labels *)
(* it and answers.                                                         *)
Fail(r, result) ==
    /\ Finish(r, result)
    /\ RestoreHistory(r)

(* A tool_call, read_resource or run_turn timeout also evicts the session, *)
(* and answers once the evicted owner's task has ended.                    *)
FailKeepingSession(r) ==
    /\ Fail(r, "timeout_mcp")
    /\ UNCHANGED <<closing, current>>

FailAndEvict(r) ==
    /\ Transition(r, "evict")
    /\ outcome' = [outcome EXCEPT ![r] = "timeout_mcp"]
    /\ turn' = [turn EXCEPT ![r] = NoTurn]
    /\ RestoreHistory(r)
    /\ closing' = [closing EXCEPT ![r] = current]
    /\ current' = NoOwner

(***************************************************************************)
(* Session setup, and the start of run_turn                                *)
(***************************************************************************)

(* sessions.get returns: run_turn repairs the history, takes its snapshot  *)
(* and adds the customer's message.                                        *)
StartBody(r) ==
    /\ snapshot' = [snapshot EXCEPT ![r] = Repair(history)]
    /\ history' = AddUserText(Repair(history), r)

SessionReady(r) ==
    /\ pc[r] = "get"
    /\ owners[current] = "ready"
    /\ session' = [session EXCEPT ![r] = current]
    /\ StartBody(r)
    /\ turn' = [turn EXCEPT ![r] = BeginRound(@, "none")]
    /\ Transition(r, "converse")
    /\ UNCHANGED <<outcome, closing, ownerVars, wireVars, faults>>

(* wait_ready raises the owner's error, whatever class it has.             *)
SessionFailed(r) ==
    /\ pc[r] = "get"
    /\ owners[current] = "dead"
    /\ \E result \in {"transport", "error"} : Finish(r, result)
    /\ UNCHANGED <<session, closing, historyVars, ownerVars, wireVars, faults>>

(***************************************************************************)
(* One Converse call                                                       *)
(***************************************************************************)

(* stopReason end_turn, or max_tokens, which can cut the message off after *)
(* a toolUse block: either way the message is kept and the turn answers.   *)
ModelReplies(r) ==
    /\ pc[r] = "converse"
    /\ \E cutOff \in SUBSET {ToolUseOf(r, 1, tool) : tool \in Tools} :
        /\ Cardinality(cutOff) <= 1
        /\ history' = Append(history, AssistantMessage({r}, cutOff))
    /\ snapshot' = [snapshot EXCEPT ![r] = <<>>]
    /\ Finish(r, "replied")
    /\ UNCHANGED <<session, closing, ownerVars, wireVars, faults>>

ToolPlans == UNION {[1 .. n -> Tools] : n \in 1 .. MaxUses}

UseSet(r, plan) == {ToolUseOf(r, i, plan[i]) : i \in DOMAIN plan}

(* stopReason tool_use: the message is appended before its tools run, and  *)
(* the first of them is called.                                            *)
ModelCallsTools(r) ==
    /\ pc[r] = "converse"
    /\ \E plan \in ToolPlans :
        /\ turn' = [turn EXCEPT ![r] = BeginUse(@, plan, 1, @.card)]
        /\ sent' = sent \cup {AttemptOf(r, 1, plan[1], 1, session[r])}
        /\ history' = Append(history, AssistantMessage({}, UseSet(r, plan)))
    /\ Transition(r, "call")
    /\ UNCHANGED <<outcome, session, closing, snapshot, ownerVars, executed, faults>>

(* boto raises: not a transport error of the MCP side, so a 500.  Or the   *)
(* converse budget expires, which leaves the MCP session alone.            *)
ModelFails(r) ==
    /\ pc[r] = "converse"
    /\ \E result \in {"error", "timeout_converse"} : Fail(r, result)
    /\ UNCHANGED <<session, closing, ownerVars, wireVars, faults>>

(***************************************************************************)
(* One tool call: _call_tool_with_retry and the loop around it             *)
(***************************************************************************)

(* The toolUse at pos is answered and another one follows: it is called.   *)
NextUse(r, card) ==
    LET next == turn[r].pos + 1 IN
    /\ next <= Len(turn[r].uses)
    /\ turn' = [turn EXCEPT ![r] = BeginUse(@, @.uses, next, card)]
    /\ sent' = sent \cup {AttemptOf(r, next, turn[r].uses[next], 1, session[r])}
    /\ Transition(r, "call")
    /\ UNCHANGED <<outcome, historyVars>>

(* All are answered: their results are appended, and a new round starts.   *)
OneRoundTooMany(r, card) ==
    /\ turn[r].pos = Len(turn[r].uses)
    /\ turn[r].round <= MaxRounds
    /\ history' = Append(history, ToolResults(UseSet(r, turn[r].uses)))
    /\ turn' = [turn EXCEPT ![r] = BeginRound(@, card)]
    /\ Transition(r, "converse")
    /\ UNCHANGED <<outcome, snapshot, sent>>

NextRound(r, card) ==
    /\ turn[r].pos = Len(turn[r].uses)
    /\ turn[r].round < MaxRounds
    /\ history' = Append(history, ToolResults(UseSet(r, turn[r].uses)))
    /\ turn' = [turn EXCEPT ![r] = BeginRound(@, card)]
    /\ Transition(r, "converse")
    /\ UNCHANGED <<outcome, snapshot, sent>>

(* ... or max_rounds is exhausted: the turn is undone and apologises.      *)
KeepExhaustedRounds(r) ==
    /\ turn[r].pos = Len(turn[r].uses)
    /\ turn[r].round = MaxRounds
    /\ history' = Append(history, ToolResults(UseSet(r, turn[r].uses)))
    /\ snapshot' = [snapshot EXCEPT ![r] = <<>>]
    /\ Finish(r, "apologised")
    /\ UNCHANGED sent

ExhaustRounds(r) ==
    /\ turn[r].pos = Len(turn[r].uses)
    /\ turn[r].round = MaxRounds
    /\ Fail(r, "apologised")
    /\ UNCHANGED sent

AnswerUse(r, card) == NextUse(r, card) \/ NextRound(r, card) \/ ExhaustRounds(r)

(* The answer arrives, and its status calls for a card the turn lacks.     *)
CallNeedsCard(r) ==
    /\ pc[r] = "call"
    /\ CurrentAttempt(r) \in executed
    /\ turn[r].card = "none"
    /\ CurrentTool(r) \in CardTools
    /\ Transition(r, "card")
    /\ UNCHANGED <<outcome, turn, session, closing, historyVars, ownerVars, wireVars, faults>>

(* The answer (a result or a tool error) arrives and needs no card.        *)
CallAnsweredOrLost(r) ==
    /\ pc[r] = "call"
    /\ CurrentAttempt(r) \in sent \cup executed
    /\ AnswerUse(r, turn[r].card)
    /\ UNCHANGED <<session, closing, ownerVars, executed, faults>>

CallAnswered(r) ==
    /\ pc[r] = "call"
    /\ CurrentAttempt(r) \in executed
    /\ AnswerUse(r, turn[r].card)
    /\ UNCHANGED <<session, closing, ownerVars, executed, faults>>

CardRead(r) ==
    /\ pc[r] = "card"
    /\ owners[session[r]] = "ready"
    /\ session[r] \notin forgotten
    /\ AnswerUse(r, "read")
    /\ UNCHANGED <<session, closing, ownerVars, executed, faults>>

(* _is_retryable_tool_call, for a failure that is not a session 404.       *)
RetryAnyTool(tool) == tool \in Tools

RetryAfterTransportError(tool) == tool \in IdempotentTools

(* A transport error on the first attempt: the request or its answer may   *)
(* have been lost, and a request not handled yet may still be.             *)
CallRetried(r) ==
    /\ pc[r] = "call"
    /\ turn[r].attempt = 1
    /\ RetryAfterTransportError(CurrentTool(r))
    /\ turn' = [turn EXCEPT ![r] = BeginRetry(@)]
    /\ sent' = sent \cup {AttemptOf(r, turn[r].pos, CurrentTool(r), 2, session[r])}
    /\ UNCHANGED <<pc, outcome, session, closing, historyVars, ownerVars, executed, faults>>

CallLost(r) ==
    /\ pc[r] = "call"
    /\ turn[r].attempt = 2 \/ ~RetryAfterTransportError(CurrentTool(r))
    /\ Fail(r, "transport")
    /\ UNCHANGED <<session, closing, ownerVars, wireVars, faults>>

(* A JSON-RPC error, or a session whose owner is dead: never retried.      *)
CallBroken(r) ==
    /\ pc[r] = "call"
    /\ Fail(r, "error")
    /\ UNCHANGED <<session, closing, ownerVars, wireVars, faults>>

(***************************************************************************)
(* A session 404: refresh_session and the retry on the fresh session       *)
(***************************************************************************)
CallRefused(r) ==
    /\ pc[r] = "call"
    /\ CurrentAttempt(r) \in sent
    /\ session[r] \in forgotten
    /\ sent' = sent \ {CurrentAttempt(r)}
    /\ UNCHANGED <<session, owners, forgotten, executed, faults>>

(* The first 404 pops the owner and closes it ...                          *)
CallTerminated(r) ==
    /\ CallRefused(r)
    /\ turn[r].attempt = 1
    /\ turn' = [turn EXCEPT ![r] = Refused(@, session[r])]
    /\ closing' = [closing EXCEPT ![r] = current]
    /\ current' = NoOwner
    /\ Transition(r, "refresh")
    /\ UNCHANGED <<outcome, historyVars>>

(* ... a 404 on a retry is final.                                          *)
RetryTerminated(r) ==
    /\ CallRefused(r)
    /\ turn[r].attempt = 2
    /\ Fail(r, "transport")
    /\ UNCHANGED <<closing, current>>

(* The old owner's task is over: get() starts a new owner.                 *)
AbandonOwner(r) ==
    /\ owners' = Append(owners, "opening")
    /\ current' = Len(owners) + 1
    /\ closing' = [closing EXCEPT ![r] = NoOwner]
    /\ Transition(r, "reopen")

ReplaceOwner(r) ==
    /\ owners' = Append([owners EXCEPT ![closing[r]] = "closed"], "opening")
    /\ current' = Len(owners) + 1
    /\ closing' = [closing EXCEPT ![r] = NoOwner]
    /\ Transition(r, "reopen")

RefreshClosed(r) ==
    /\ pc[r] = "refresh"
    /\ ReplaceOwner(r)
    /\ UNCHANGED <<outcome, turn, session, historyVars, forgotten, wireVars, faults>>

(* A budget expires while aclose() awaits the owner's task: cancelling     *)
(* the turn cancels that task, _run swallows the CancelledError as its own *)
(* error, the await returns, and the turn goes on with the budget spent.   *)
(* A client's cancellation is lost in the same way: RefreshClosed.         *)
RefreshSwallows(r, budget) ==
    /\ pc[r] = "refresh"
    /\ budget \notin turn[r].spent
    /\ turn' = [turn EXCEPT ![r] = Spend(@, budget)]
    /\ ReplaceOwner(r)
    /\ UNCHANGED <<outcome, session, historyVars, forgotten, wireVars, faults>>

ReopenedOnOldSession(r) ==
    /\ pc[r] = "reopen"
    /\ owners[current] = "ready"
    /\ turn' = [turn EXCEPT ![r] = BeginRetry(@)]
    /\ sent' = sent \cup {AttemptOf(r, turn[r].pos, CurrentTool(r), 2, session[r])}
    /\ Transition(r, "call")
    /\ UNCHANGED <<outcome, session, closing, historyVars, ownerVars, executed, faults>>

Reopened(r) ==
    /\ pc[r] = "reopen"
    /\ owners[current] = "ready"
    /\ session' = [session EXCEPT ![r] = current]
    /\ turn' = [turn EXCEPT ![r] = BeginRetry(@)]
    /\ sent' = sent \cup {AttemptOf(r, turn[r].pos, CurrentTool(r), 2, current)}
    /\ Transition(r, "call")
    /\ UNCHANGED <<outcome, closing, historyVars, ownerVars, executed, faults>>

ReopenFailed(r) ==
    /\ pc[r] = "reopen"
    /\ owners[current] = "dead"
    /\ \E result \in {"transport", "error"} : Fail(r, result)
    /\ UNCHANGED <<session, closing, ownerVars, wireVars, faults>>

(* The card's resource read is never retried; a 404 is a transport error.  *)
CardFails(r) ==
    /\ pc[r] = "card"
    /\ \E result \in {"transport", "error"} : Fail(r, result)
    /\ UNCHANGED <<session, closing, ownerVars, wireVars, faults>>

(***************************************************************************)
(* Time budgets and cancellation                                           *)
(***************************************************************************)

BudgetExpiresOutsideCalls(r) ==
    /\ pc[r] = "converse" /\ "turn" \notin turn[r].spent
    /\ FailAndEvict(r)
    /\ UNCHANGED <<session, owners, forgotten, wireVars, faults>>

(* The turn's budget, or the tool's, whose cancellation was not swallowed. *)
(* A card read has a tool budget of its own.                               *)
BudgetExpires(r) ==
    /\ \/ pc[r] = "converse" /\ "turn" \notin turn[r].spent
       \/ pc[r] \in {"call", "reopen"} /\ turn[r].spent # Budgets
       \/ pc[r] = "card"
    /\ FailAndEvict(r)
    /\ UNCHANGED <<session, owners, forgotten, wireVars, faults>>

(* aclose() awaits the evicted owner's task.  An owner that is opening     *)
(* looks at _close_requested only after initialize() is answered.          *)
EvictClosed(r) ==
    /\ pc[r] = "evict"
    /\ owners[closing[r]] \in {"ready", "dead"}
    /\ owners' = [owners EXCEPT ![closing[r]] = "closed"]
    /\ closing' = [closing EXCEPT ![r] = NoOwner]
    /\ Transition(r, "done")
    /\ UNCHANGED <<outcome, turn, session, historyVars, current, forgotten, wireVars, faults>>

(* A client disconnect or a shutdown cancels the handler's task.           *)
Cancel(r) ==
    /\ pc[r] \in {"get", "converse", "call", "reopen", "card"}
    /\ Finish(r, "cancelled")
    /\ IF pc[r] = "get" THEN UNCHANGED historyVars ELSE RestoreHistory(r)
    /\ UNCHANGED <<session, closing, ownerVars, wireVars, faults>>

(* Cancelled while evicting: the cancellation ends the owner's task, open  *)
(* or not, and is swallowed there; the handler answers as it would have.   *)
EvictCancelled(r) ==
    /\ pc[r] = "evict"
    /\ owners' = [owners EXCEPT ![closing[r]] = "closed"]
    /\ closing' = [closing EXCEPT ![r] = NoOwner]
    /\ Transition(r, "done")
    /\ UNCHANGED <<outcome, turn, session, historyVars, current, forgotten, wireVars, faults>>

(***************************************************************************)
(* The specification                                                       *)
(***************************************************************************)
Init ==
    /\ pc = [r \in Requests |-> "new"]
    /\ outcome = [r \in Requests |-> "none"]
    /\ turn = [r \in Requests |-> NoTurn]
    /\ session = [r \in Requests |-> NoOwner]
    /\ closing = [r \in Requests |-> NoOwner]
    /\ history = <<>>
    /\ snapshot = [r \in Requests |-> <<>>]
    /\ owners = <<>>
    /\ current = NoOwner
    /\ forgotten = {}
    /\ sent = {}
    /\ executed = {}
    /\ faults = 0

TurnStep(r) ==
    \/ BeginTurn(r) \/ RejectTurn(r)
    \/ SessionReady(r) \/ SessionFailed(r)
    \/ ModelReplies(r) \/ ModelCallsTools(r) \/ ModelFails(r)
    \/ CallNeedsCard(r) \/ CallAnswered(r) \/ CardRead(r)
    \/ CallRetried(r) \/ CallLost(r) \/ CallBroken(r)
    \/ CallTerminated(r) \/ RetryTerminated(r)
    \/ RefreshClosed(r) \/ (\E budget \in Budgets : RefreshSwallows(r, budget))
    \/ Reopened(r) \/ ReopenFailed(r) \/ CardFails(r)
    \/ BudgetExpires(r) \/ EvictClosed(r) \/ Cancel(r) \/ EvictCancelled(r)

OwnerStep(o) == OpenSucceeds(o) \/ OwnerDies(o) \/ RuntimeForgets(o)

(* Every request has been answered.                                        *)
AllAnswered ==
    /\ \A r \in Requests : pc[r] = "done"
    /\ UNCHANGED vars

Next ==
    \/ \E r \in Requests : TurnStep(r)
    \/ \E o \in DOMAIN owners : OwnerStep(o)
    \/ \E a \in sent : ServerExecutes(a)
    \/ AllAnswered

Spec == Init /\ [][Next]_vars

(***************************************************************************)
(* Invariants                                                              *)
(***************************************************************************)
Attempt == [turn : Requests, round : 1 .. MaxRounds, pos : Nat \ {0}, tool : Tools,
            n : {1, 2}, owner : Nat \ {0}]

(* The control state is well typed.  The shape of the history is the       *)
(* business of EveryRequestAccepted.                                       *)
TypeOK ==
    /\ pc \in [Requests -> PCs]
    /\ outcome \in [Requests -> Outcomes]
    /\ turn \in [Requests -> TurnLocals]
    /\ session \in [Requests -> 0 .. Len(owners)]
    /\ closing \in [Requests -> 0 .. Len(owners)]
    /\ owners \in Seq(OwnerStates)
    /\ current \in 0 .. Len(owners)
    /\ forgotten \subseteq 1 .. Len(owners)
    /\ sent \subseteq Attempt
    /\ executed \subseteq Attempt
    /\ faults \in 0 .. MaxFaults

SameUse(a, b) == a.turn = b.turn /\ a.round = b.round /\ a.pos = b.pos

(* However calls are lost, delayed, refused with a 404 or retried, the     *)
(* server runs a tool that is not idempotent (add_appliance) at most once  *)
(* for each toolUse block of the model: also when an attempt the client    *)
(* has given up on is executed late.                                       *)
AddedAtMostOnce ==
    \A a, b \in executed : a.tool \notin IdempotentTools /\ SameUse(a, b) => a = b

(* When the history says that such a tool was called and answered, it ran, *)
(* and no attempt of it can still run later.                               *)
AnsweredMeansSettled ==
    \A m \in ToSet(history) : \A u \in m.results :
        u.tool \notin IdempotentTools =>
            /\ \E a \in executed : SameUse(a, u)
            /\ \A a \in sent : ~SameUse(a, u)

(* Every Converse call sends a history Bedrock accepts, whatever the turns *)
(* before it did: failed, timed out, were cancelled, ran out of rounds or  *)
(* ended in a message cut off after a toolUse.                             *)
EveryRequestAccepted ==
    \A r \in Requests : pc[r] = "converse" => ConverseAccepts(history)

(* Between turns the history holds the words of exactly the turns whose    *)
(* reply the model gave: a failed turn leaves nothing behind, and neither  *)
(* a later rollback nor a repair loses a turn that was answered.           *)
OnlyRepliedTurnsRemembered ==
    (\A r \in Requests : pc[r] \in {"new", "get", "evict", "done"}) =>
        TurnsRemembered(history) = {r \in Requests : outcome[r] = "replied"}

(* A session that refused a call of this turn with a 404 is never called   *)
(* again by this turn: not by the retry, a later round or the card read.   *)
RefusedSessionNotReused ==
    \A r \in Requests : pc[r] \in {"call", "card"} => session[r] \notin turn[r].refused

(* A session on which a tool call or a card read timed out may be wedged:  *)
(* no later turn runs on it.                                               *)
TimedOutSessionNotReused ==
    \A r, q \in Requests :
        /\ outcome[r] = "timeout_mcp"
        /\ r # q
        /\ pc[q] \in {"converse", "call", "card"}
        => session[q] # session[r]

(* Every open or opening session is the one the next get() hands out, or   *)
(* is being closed: none is left running with nobody to close it.          *)
NoSessionLeaked ==
    \A o \in DOMAIN owners : owners[o] \in {"opening", "ready"} =>
        o = current \/ \E r \in Requests : closing[r] = o

(***************************************************************************)
(* Liveness                                                                *)
(***************************************************************************)

(* asyncio runs what is ready, budgets expire, the Bedrock call ends or is *)
(* given up, and closing an open session ends (its DELETE has the HTTP     *)
(* client's timeout).  Nothing is assumed of the answers to tool calls.    *)
HandlerFairness ==
    \A r \in Requests :
        /\ WF_vars(BeginTurn(r) \/ RejectTurn(r))
        /\ WF_vars(SessionReady(r) \/ SessionFailed(r))
        /\ WF_vars(ModelReplies(r) \/ ModelCallsTools(r) \/ ModelFails(r))
        /\ WF_vars(BudgetExpires(r))
        /\ WF_vars(RefreshClosed(r))
        /\ WF_vars(Reopened(r) \/ ReopenFailed(r))
        /\ WF_vars(EvictClosed(r))

FairSpec == Spec /\ HandlerFairness

(* initialize() is answered, or fails: an assumption about the server that *)
(* no budget of the code enforces.  A request waits for the current owner, *)
(* or for the one it is closing.                                           *)
OpeningEnds ==
    /\ WF_vars(current # NoOwner /\ OpenSucceeds(current))
    /\ \A r \in Requests : WF_vars(closing[r] # NoOwner /\ OpenSucceeds(closing[r]))

OpeningFairSpec == FairSpec /\ OpeningEnds

(* When sessions open, every accepted turn is answered although tool calls *)
(* and card reads may never be, unless both its budgets were swallowed     *)
(* while it closed sessions.                                               *)
TurnEnds ==
    \A r \in Requests : InTurn(r) ~> (pc[r] = "done" \/ turn[r].spent = Budgets)

(* demo/README.md: "A turn never leaves the history half-written, and      *)
(* never hangs".                                                           *)
TurnNeverHangs == \A r \in Requests : InTurn(r) ~> pc[r] = "done"

==============================================================================
