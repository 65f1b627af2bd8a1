------------------------------ MODULE ToolLoop ------------------------------
(***************************************************************************)
(* The tool-use loop of the LLM providers: respond() of                    *)
(* server/llm/anthropic_provider.py and server/llm/openai_provider.py, one *)
(* call per session at a time, and the history the session keeps of it     *)
(* (server/session.py 614-632).                                            *)
(*                                                                         *)
(* A message is a record: how many tools it calls, which calls (by their   *)
(* number in the reply) it answers, and whether it holds words to speak.   *)
(* The system prompt, which openai_provider takes off the history and puts *)
(* back in front of each request, is left out of both.                     *)
(***************************************************************************)
EXTENDS Naturals, Sequences, SequencesExt

CONSTANTS
    Session,
    MaxRounds,    \* _MAX_TOOL_ROUNDS
    MaxTurns,     \* bound: turns in all
    MaxCalls      \* bound: tool calls the LLM asks for in all

ASSUME ToolLoopAssumption ==
    MaxRounds \in Nat \ {0} /\ MaxTurns \in Nat /\ MaxCalls \in Nat

VARIABLES
    provider,   \* which of the two the server was started with
    history,    \* _state.history of each session
    loop,       \* its respond(): where it is, and the local variables
    turns,      \* turns begun
    asked       \* tool calls asked for

loopVars == <<provider, history, loop, turns, asked>>

Message(role, calls, cut, answers, text) ==
    [role |-> role, calls |-> calls, cut |-> cut, answers |-> answers, text |-> text]

User == Message("user", 0, FALSE, {}, FALSE)
Reply(calls, cut, text) == Message("assistant", calls, cut, {}, text)
Results(answers) == Message("results", 0, FALSE, answers, FALSE)

\* at: the reply whose calls are being made; next: the number of the next one; base: the
\* length of the history the turn began with; said: the message spoken, 0 for a canned text.
NoLoop == [pc |-> "idle", msgs |-> <<>>, at |-> 0, next |-> 1, round |-> 1, base |-> 0, said |-> 0]

LoopInit ==
    /\ provider \in {"anthropic", "openai"}
    /\ history = [s \in Session |-> <<>>]
    /\ loop = [s \in Session |-> NoLoop]
    /\ turns = 0 /\ asked = 0

Set(s, l) == loop' = [loop EXCEPT ![s] = l]

\* The rule of both APIs: results for every call follow the message that makes it.
Answered(h, i) ==
    \A k \in 1..h[i].calls :
        \E j \in i + 1..Len(h) :
            k \in h[j].answers /\ \A m \in i + 1..j : h[m].role = "results"
Accepted(h) == \A i \in DOMAIN h : Answered(h, i)

----------------------------------------------------------------------------

BeginTurn(s) ==
    /\ loop[s].pc = "idle" /\ turns < MaxTurns
    /\ turns' = turns + 1
    /\ Set(s, [NoLoop EXCEPT !.pc = "request", !.msgs = Append(history[s], User),
                             !.base = Len(history[s])])
    /\ UNCHANGED <<provider, history, asked>>

Return(s, kept, said) ==
    /\ history' = [history EXCEPT ![s] = kept]
    /\ Set(s, IF said = 0 THEN NoLoop
              ELSE [NoLoop EXCEPT !.said = said, !.base = loop[s].base, !.round = loop[s].round])

\* No tool is called, or (anthropic) the reply stops for another reason than a tool call:
\* at max_tokens it may hold the start of one.
LoopDone(r) == r.calls = 0 \/ (provider = "anthropic" /\ r.cut)

Replied(s) ==
    /\ loop[s].pc = "request" /\ Accepted(loop[s].msgs)
    /\ \E calls \in 0..MaxCalls, cut \in BOOLEAN, text \in BOOLEAN :
          LET r == Reply(calls, cut, text)
              m == Append(loop[s].msgs, r)
          IN  /\ cut => provider = "anthropic"
              /\ asked + calls <= MaxCalls
              /\ asked' = asked + calls
              /\ IF LoopDone(r) THEN Return(s, m, IF text THEN Len(m) ELSE 0)
                 ELSE /\ Set(s, [loop[s] EXCEPT !.pc = "tools", !.msgs = m,
                                                !.at = Len(m), !.next = 1])
                      /\ UNCHANGED history
    /\ UNCHANGED <<provider, turns>>

\* wait_for gives up: an apology is spoken, and what there is of the turn is kept.
LlmTimesOut(s) ==
    /\ loop[s].pc = "request"
    /\ Return(s, loop[s].msgs, 0)
    /\ UNCHANGED <<provider, turns, asked>>

\* The request fails after the SDK's retries; the API refuses a history it does not accept.
LlmRaises(s) ==
    /\ loop[s].pc = "request"
    /\ Return(s, history[s], 0)
    /\ UNCHANGED <<provider, turns, asked>>

FaultEarliestText(m) ==
    LET T == {i \in DOMAIN m : m[i].text}
    IN  IF T = {} THEN 0 ELSE CHOOSE i \in T : \A j \in T : i <= j

\* The for loop's else: the most recent words, wherever they are in the messages.
LatestText(m) ==
    LET T == {i \in DOMAIN m : m[i].text}
    IN  IF T = {} THEN 0 ELSE CHOOSE i \in T : \A j \in T : j <= i

FaultKeepsLastResult(l) ==
    IF provider = "openai" THEN Append(l.msgs, Results({l.next}))
    ELSE IF l.next = l.msgs[l.at].calls THEN Append(l.msgs, Results({l.next}))
    ELSE l.msgs

\* openai appends a result at once, anthropic all of a reply's in one message.
WithResult(l) ==
    IF provider = "openai" THEN Append(l.msgs, Results({l.next}))
    ELSE IF l.next = l.msgs[l.at].calls THEN Append(l.msgs, Results(1..l.next))
    ELSE l.msgs

\* A call has its result, be it an error; after the last one comes the next round.
CallDone(s) ==
    LET l == loop[s]
        m == WithResult(l)
    IN  IF l.next < l.msgs[l.at].calls
        THEN Set(s, [l EXCEPT !.pc = "tools", !.msgs = m, !.next = @ + 1]) /\ UNCHANGED history
        ELSE IF l.round < MaxRounds
        THEN Set(s, [l EXCEPT !.pc = "request", !.msgs = m, !.round = @ + 1]) /\ UNCHANGED history
        ELSE Return(s, m, LatestText(m))

\* Arguments that are not a JSON object are answered without calling the tool.
ArgsUnreadable(s) ==
    /\ loop[s].pc = "tools" /\ provider = "openai"
    /\ CallDone(s)
    /\ UNCHANGED <<provider, turns, asked>>

MakeCall(s) ==
    /\ loop[s].pc = "tools"
    /\ Set(s, [loop[s] EXCEPT !.pc = "call"])
    /\ UNCHANGED <<provider, history, turns, asked>>

EndCall(s) ==
    /\ loop[s].pc = "call"
    /\ CallDone(s)
    /\ UNCHANGED <<provider, turns, asked>>

FaultCancelKeeps(s) ==
    /\ loop[s].pc \in {"request", "call"}
    /\ Return(s, loop[s].msgs, 0)
    /\ UNCHANGED <<provider, turns, asked>>

\* CancelledError leaves respond(); the session keeps the history it had.
Cancelled(s) ==
    /\ loop[s].pc \in {"request", "call"}
    /\ Return(s, history[s], 0)
    /\ UNCHANGED <<provider, turns, asked>>

\* The device is back with a new session: _SessionState is new.
FreshSession(s) ==
    /\ history' = [history EXCEPT ![s] = <<>>]
    /\ Set(s, NoLoop)
    /\ UNCHANGED <<provider, turns, asked>>

============================================================================
