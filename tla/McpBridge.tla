----------------------------- MODULE McpBridge -----------------------------
(***************************************************************************)
(* The JSON-RPC client to the device's tool server: server/mcp_bridge.py,  *)
(* with the two tasks that call it, Session._discover_tools and the turn   *)
(* (through the LLM's tool loop), and Session.run's teardown.              *)
(*                                                                         *)
(* A request parks its caller on a future in _pending; on_message, called  *)
(* by the main loop, resolves it.  The caller sees that only when it is    *)
(* next resumed, and until then its timer or an abort may still interrupt  *)
(* it.  The device may answer late, twice, with an error, or never.        *)
(* Timeouts are those of Python 3.12's wait_for.                           *)
(***************************************************************************)
EXTENDS Naturals, Sequences, FiniteSets

CONSTANTS
    Pages,      \* tools/list answers the device splits its tools into
    MaxCalls,   \* bound: tools/call requests
    RingSize    \* _RECENT_TIMEOUT_RING

ASSUME McpAssumption == Pages \in Nat \ {0} /\ MaxCalls \in Nat /\ RingSize \in Nat \ {0}

Caller == {"discovery", "turn"}
Id == 1..(1 + Pages + MaxCalls)

VARIABLES
    nextId,     \* _next_id
    pending,    \* the keys of _pending
    fut,        \* the future of each request
    timedOut,   \* _timed_out
    tools,      \* pages published in _tools
    page,       \* answers the discovery has had: initialize is 0, then the pages
    gate,       \* discovery_done
    pc,         \* per caller: "ready", "sending", "waiting", and "over" for the discovery
    req,        \* per caller: the id of its request
    interrupt,  \* per caller: what has cancelled it and is not delivered yet
    abandoned,  \* requests whose caller was cancelled
    session     \* "open", "crashed" (on_message raised out of the main loop), "closed"

requests == <<nextId, pending, fut, timedOut>>
vars == <<requests, tools, page, gate, pc, req, interrupt, abandoned, session>>

Init ==
    /\ nextId = 1 /\ pending = {} /\ fut = [i \in Id |-> "none"] /\ timedOut = <<>>
    /\ tools = 0 /\ page = 0 /\ gate = FALSE
    /\ pc = [c \in Caller |-> "ready"] /\ req = [c \in Caller |-> 0]
    /\ interrupt = [c \in Caller |-> {}] /\ abandoned = {} /\ session = "open"

----------------------------------------------------------------------------
(* _send_request *)

FaultIdsComeBack(c) ==
    LET id == Cardinality(pending) + 1
    IN  /\ nextId' = nextId + 1
        /\ pending' = pending \cup {id}
        /\ fut' = [fut EXCEPT ![id] = "pending"]
        /\ req' = [req EXCEPT ![c] = id]
        /\ pc' = [pc EXCEPT ![c] = "sending"]
        /\ UNCHANGED timedOut

\* A new id and future, then the frame is sent.
Issue(c) ==
    /\ nextId' = nextId + 1
    /\ pending' = pending \cup {nextId}
    /\ fut' = [fut EXCEPT ![nextId] = "pending"]
    /\ req' = [req EXCEPT ![c] = nextId]
    /\ pc' = [pc EXCEPT ![c] = "sending"]
    /\ UNCHANGED timedOut

\* Bound: the turn leaves the discovery the ids it may still need.
Reserve == IF pc["discovery"] = "ready" THEN 1 + Pages ELSE Pages - page
Room(c) == c = "discovery" \/ nextId + Reserve < 2 + Pages + MaxCalls

\* The discovery task's first step, or a tool call of the LLM.
Call(c) ==
    /\ pc[c] = "ready" /\ session = "open" /\ Room(c)
    /\ Issue(c)
    /\ UNCHANGED <<tools, page, gate, interrupt, abandoned, session>>

\* The frame is out and, unless the answer was quicker, the caller waits for it.
Sent(c) ==
    /\ pc[c] = "sending" /\ interrupt[c] = {} /\ fut[req[c]] = "pending"
    /\ pc' = [pc EXCEPT ![c] = "waiting"]
    /\ UNCHANGED <<requests, tools, page, gate, req, interrupt, abandoned, session>>

\* task.cancel() on the callers cs: a future being awaited is cancelled unless it is done.
Cancelled(f, cs) ==
    [i \in Id |-> IF f[i] = "pending" /\ \E c \in cs : pc[c] = "waiting" /\ req[c] = i
                  THEN "cancelled" ELSE f[i]]

Busy(c) == pc[c] \in {"sending", "waiting"}

FaultDiscoveryHasNoTimer(c) ==
    /\ c = "turn" /\ pc[c] = "waiting" /\ interrupt[c] = {}
    /\ interrupt' = [interrupt EXCEPT ![c] = {"timeout"}]
    /\ fut' = Cancelled(fut, {c})
    /\ UNCHANGED <<nextId, pending, timedOut, tools, page, gate, pc, req, abandoned, session>>

\* wait_for's timer.
Timer(c) ==
    /\ pc[c] = "waiting" /\ interrupt[c] = {}
    /\ interrupt' = [interrupt EXCEPT ![c] = {"timeout"}]
    /\ fut' = Cancelled(fut, {c})
    /\ UNCHANGED <<nextId, pending, timedOut, tools, page, gate, pc, req, abandoned, session>>

\* The turn is aborted (Session._on_abort).
Abort ==
    /\ Busy("turn") /\ "abort" \notin interrupt["turn"] /\ session = "open"
    /\ interrupt' = [interrupt EXCEPT !["turn"] = @ \cup {"abort"}]
    /\ fut' = Cancelled(fut, {"turn"})
    /\ UNCHANGED <<nextId, pending, timedOut, tools, page, gate, pc, req, abandoned, session>>

----------------------------------------------------------------------------
(* The caller is resumed *)

\* The outcome is there, possibly since before its send returned.
Has(c, outcome) == Busy(c) /\ interrupt[c] = {} /\ fut[req[c]] = outcome
DiscoveryReady == Has("discovery", "answered")

FaultGateOnSuccessOnly(c) ==
    /\ pc' = [pc EXCEPT ![c] = IF c = "discovery" THEN "over" ELSE "ready"]
    /\ req' = [req EXCEPT ![c] = 0]
    /\ interrupt' = [interrupt EXCEPT ![c] = {}]
    /\ gate' = (gate \/ (c = "discovery" /\ DiscoveryReady))

\* A discovery that fails, times out or is cancelled keeps the tools as they are and opens
\* the gate; the tool loop reports a failed call to the LLM and goes on.
Return(c) ==
    /\ pc' = [pc EXCEPT ![c] = IF c = "discovery" THEN "over" ELSE "ready"]
    /\ req' = [req EXCEPT ![c] = 0]
    /\ interrupt' = [interrupt EXCEPT ![c] = {}]
    /\ gate' = (gate \/ c = "discovery")

Failed(c) ==
    /\ Has(c, "failed")
    /\ Return(c)
    /\ UNCHANGED <<requests, tools, page, abandoned, session>>

CallAnswered ==
    /\ Has("turn", "answered")
    /\ Return("turn")
    /\ UNCHANGED <<requests, tools, page, abandoned, session>>

FaultPublishEachPage ==
    /\ DiscoveryReady /\ page < Pages
    /\ page' = page + 1 /\ tools' = page
    /\ Issue("discovery")
    /\ UNCHANGED <<gate, interrupt, abandoned, session>>

\* initialize, then each page but the last (it has a nextCursor): ask for the next one.
NextPage ==
    /\ DiscoveryReady /\ page < Pages
    /\ page' = page + 1
    /\ Issue("discovery")
    /\ UNCHANGED <<tools, gate, interrupt, abandoned, session>>

LastPage ==
    /\ DiscoveryReady /\ page = Pages
    /\ tools' = page
    /\ Return("discovery")
    /\ UNCHANGED <<requests, page, abandoned, session>>

FaultTimeoutKeepsEntry(c) ==
    /\ pc[c] = "waiting" /\ interrupt[c] = {"timeout"}
    /\ timedOut' = Append(timedOut, req[c])
    /\ Return(c)
    /\ UNCHANGED <<nextId, pending, fut, tools, page, abandoned, session>>

\* deque(maxlen): the oldest id falls out.
Remember(r, i) == IF Len(r) = RingSize THEN Append(Tail(r), i) ELSE Append(r, i)

\* TimeoutError: even an answer that came in the same tick is dropped.
TimedOut(c) ==
    /\ pc[c] = "waiting" /\ interrupt[c] = {"timeout"}
    /\ pending' = pending \ {req[c]}
    /\ timedOut' = Remember(timedOut, req[c])
    /\ Return(c)
    /\ UNCHANGED <<nextId, fut, tools, page, abandoned, session>>

\* CancelledError is not handled by _send_request: its entry stays in _pending.
CallerCancelled(c) ==
    /\ Busy(c) /\ "abort" \in interrupt[c]
    /\ abandoned' = abandoned \cup {req[c]}
    /\ Return(c)
    /\ UNCHANGED <<requests, tools, page, session>>

----------------------------------------------------------------------------
(* on_message and the end of the session *)

FaultErrorDropped(i, outcome) ==
    /\ session = "open" /\ i \in pending
    /\ pending' = pending \ {i}
    /\ fut' = [fut EXCEPT ![i] = IF @ = "pending" /\ outcome = "answered" THEN outcome ELSE @]
    /\ UNCHANGED <<nextId, timedOut, tools, page, gate, pc, req, interrupt, abandoned, session>>

FaultAnsweredStays(i, outcome) ==
    /\ session = "open" /\ i \in pending
    /\ IF fut[i] = "pending"
       THEN fut' = [fut EXCEPT ![i] = outcome] /\ UNCHANGED <<pending, session>>
       ELSE session' = "crashed" /\ pending' = pending \ {i} /\ UNCHANGED fut
    /\ UNCHANGED <<nextId, timedOut, tools, page, gate, pc, req, interrupt, abandoned>>

\* An answer to a request still in _pending; it may overtake the return of the send.
Answer(i, outcome) ==
    /\ session = "open" /\ i \in pending
    /\ pending' = pending \ {i}
    /\ IF fut[i] = "pending"
       THEN fut' = [fut EXCEPT ![i] = outcome] /\ UNCHANGED session
       ELSE session' = "crashed" /\ UNCHANGED fut      \* InvalidStateError
    /\ UNCHANGED <<nextId, timedOut, tools, page, gate, pc, req, interrupt, abandoned>>

\* cancel_all(): whoever still waits gets an error.
CancelAll ==
    /\ pending' = {}
    /\ fut' = [i \in Id |-> IF i \in pending /\ Cancelled(fut, {"discovery"})[i] = "pending"
                            THEN "failed" ELSE Cancelled(fut, {"discovery"})[i]]

\* Session.run's finally: the discovery is cancelled, then the bridge, then the turn.
Close ==
    /\ session \in {"open", "crashed"} /\ session' = "closed"
    /\ CancelAll
    /\ interrupt' = [c \in Caller |-> IF Busy(c) THEN interrupt[c] \cup {"abort"} ELSE interrupt[c]]
    /\ pc' = [c \in Caller |-> IF c = "discovery" /\ pc[c] = "ready" THEN "over" ELSE pc[c]]
    /\ UNCHANGED <<nextId, timedOut, tools, page, gate, req, abandoned>>

----------------------------------------------------------------------------

Resume(c) ==
    \/ Failed(c) \/ TimedOut(c) \/ CallerCancelled(c)
    \/ c = "turn" /\ CallAnswered
    \/ c = "discovery" /\ (NextPage \/ LastPage)

Next ==
    \/ \E c \in Caller : Call(c) \/ Sent(c) \/ Timer(c) \/ Resume(c)
    \/ \E i \in Id, outcome \in {"answered", "failed"} : Answer(i, outcome)
    \/ Abort \/ Close

\* The loop runs what is ready, and timers fire: the device need not answer.  After the
\* teardown no caller depends on its timer any more.
Fairness ==
    /\ \A c \in Caller : WF_vars(Sent(c)) /\ WF_vars(session = "open" /\ Timer(c)) /\ WF_vars(Resume(c))
    /\ WF_vars(Call("discovery")) /\ WF_vars(session = "crashed" /\ Close)

Spec == Init /\ [][Next]_vars /\ Fairness

----------------------------------------------------------------------------
(* Properties *)

TypeOK ==
    /\ nextId \in 1..(2 + Pages + MaxCalls)
    /\ pending \subseteq 1..(nextId - 1) /\ abandoned \subseteq 1..(nextId - 1)
    /\ fut \in [Id -> {"none", "pending", "cancelled", "answered", "failed"}]
    /\ timedOut \in Seq(Id) /\ Len(timedOut) <= RingSize
    /\ tools \in 0..Pages /\ page \in 0..Pages /\ gate \in BOOLEAN
    /\ pc \in [Caller -> {"ready", "sending", "waiting", "over"}]
    /\ req \in [Caller -> 0..(nextId - 1)]
    /\ interrupt \in [Caller -> SUBSET {"timeout", "abort"}]
    /\ session \in {"open", "crashed", "closed"}

\* Nothing piles up in _pending: an entry belongs to a caller that still waits for it, or
\* to one that was cancelled (_send_request 74-81 has no except for that).
PendingIsAwaited == \A i \in pending : i \in abandoned \/ \E c \in Caller : req[c] = i

\* A caller never waits on a future nobody can resolve: while it waits uninterrupted, its
\* entry is in _pending or its future is done.
WaitersResolvable ==
    \A c \in Caller : pc[c] = "waiting" /\ interrupt[c] = {} =>
        req[c] \in pending \/ fut[req[c]] \in {"answered", "failed"}

\* The LLM is offered all of the device's tools or none: a discovery that dies between two
\* pages publishes nothing (discover_tools 116-135).
ToolsAllOrNothing == tools \in {0, Pages}

\* "A late response must not blow up" (tests/test_mcp_bridge.py 59): no answer ends the
\* session once its caller has gone.
LateAnswersHarmless ==
    [][session = "open" /\ session' = "crashed" =>
          \E c \in Caller : req[c] \in pending \ pending']_vars

\* What does end it is the answer to a request whose caller was cancelled, or whose timer has
\* fired in the same tick: no duplicate, late or misdirected answer (mcp_bridge.py 78-103).
OnlyCancelledCrash ==
    [][session = "open" /\ session' = "crashed" =>
          \E i \in pending \ pending' :
              i \in abandoned \/ \E c \in Caller : req[c] = i /\ interrupt[c] # {}]_vars

\* What the two tasks see of the bridge is one request and its answer at a time.
Seen(c) ==
    IF req[c] = 0 THEN "none"
    ELSE IF fut[req[c]] \in {"answered", "failed"} THEN fut[req[c]] ELSE "out"

Promise == INSTANCE Rpc WITH call <- [c \in Caller |-> Seen(c)], open <- (session = "open")

\* No answer reaches a call it was not meant for, none comes twice or after the end, and the
\* tools come with the discovery's last answer, whatever times out or is cancelled in between.
ImplementsRpc == Promise!Spec

\* Every call returns, whether or not the device answers.
CallsReturn == \A c \in Caller : (pc[c] = "waiting") ~> (pc[c] # "waiting")

\* A turn that waits for the tools is let through: the discovery ends and opens the gate,
\* however it ends (_discover_tools's finally), unless the session closed.
GateOpens == <>(gate \/ session = "closed")

============================================================================
