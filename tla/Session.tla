------------------------------ MODULE Session ------------------------------
(***************************************************************************)
(* One device connection of the Jarviz backend: server/session.py.         *)
(*                                                                         *)
(* Everything runs on one asyncio event loop, so a step is the code        *)
(* between two suspension points.  Two kinds of task interleave:           *)
(*   - the main task: run() -> _handshake() -> _main_loop(), which handles *)
(*     one device message at a time without suspending;                    *)
(*   - the turn tasks created by _spawn_process(): _process_turn(), whose  *)
(*     program counter is turns[t].pc.                                     *)
(* task.cancel() only requests a cancellation (turns[t].cancel); it is     *)
(* delivered when the task is next resumed, at the await it sits in.       *)
(*                                                                         *)
(* Speech, text and tool results are abstracted to what decides control:   *)
(* is there audio, is there text.  suppress_listen, which only chooses     *)
(* between two log lines, is left out.  Definitions named Fault... are     *)
(* faulty versions of the definition that follows them, for the mutation   *)
(* runs; the specification does not use them.                              *)
(***************************************************************************)
EXTENDS Naturals, FiniteSets

CONSTANTS
    MaxTurns,      \* bound: turns spawned on this connection
    MicCap,        \* _MAX_MIC_BUFFER_BYTES, counted in packets
    Deployments    \* the environments considered; in each,
                   \*   slow:  a WebSocket send may wait (lock taken, slow socket)
                   \*   py311: asyncio.wait_for is Python 3.11's (Dockerfile), not 3.12's

ASSUME SessionAssumption ==
    /\ MaxTurns \in Nat \ {0}
    /\ MicCap \in Nat \ {0}
    /\ Deployments \subseteq [slow : BOOLEAN, py311 : BOOLEAN]

VARIABLES
    env,         \* the deployment this connection runs in
    main,        \* where the main task is
    ws,          \* ws.application_state == CONNECTED
    closed,      \* _state.closed
    listening,   \* _state.listening
    mic,         \* packets in _state.mic_buffer
    notified,    \* _state.mic_cap_notified
    turns,       \* the turn tasks, in the order they were spawned
    current,     \* _state.process_task: 0 is None
    row,         \* this session's state in live_state
    metrics,     \* the session and turn counters of server/metrics.py
    device       \* the device: [speaking: it has been told to speak,
                 \*              barge: BOOT is held, pressed while a turn was running]

link  == <<env, main, ws, closed>>
cycle == <<listening, mic, notified>>
vars  == <<link, cycle, turns, current, row, metrics, device>>

----------------------------------------------------------------------------
(* Types *)

Turn == 1..MaxTurns

Source == {"none", "audio", "blank", "text", "reminder"}

\* Suspension points of _process_turn and _stream_tts, then the ways it ends:
\* "unrun" was cancelled before its first step, "torn" inside its last send.
SendPc == {"stt", "say1", "say2", "stop", "guard"}
LivePc == SendPc \cup {"new", "asr", "tools", "slot", "llm", "stream", "drain", "close"}
Pc     == LivePc \cup {"idle", "done", "unrun", "torn"}

\* cancel: requested, not delivered yet; cancelled: delivered; entered: tts_entered;
\* slot: slot_acquired and not yet released; stops: the tts stops this turn has sent.
TurnRec == [pc : Pc, cancel : BOOLEAN, cancelled : BOOLEAN, source : Source,
            slot : BOOLEAN, entered : BOOLEAN, stops : 0..2]

NoTurn == [pc |-> "idle", cancel |-> FALSE, cancelled |-> FALSE, source |-> "none",
           slot |-> FALSE, entered |-> FALSE, stops |-> 0]

RowState == {"none", "idle", "listening", "processing", "speaking"}

\* The failure and overload tallies, which nothing reads, are left out.
Counter == {"sessions_opened", "sessions_closed", "turns_started", "turns_completed",
            "turns_cancelled"}

----------------------------------------------------------------------------
(* Helpers *)

Live(t) == turns[t].pc \in LivePc

\* _is_turn_active(): the current task exists and is not done.
TurnActive == current # 0 /\ Live(current)

\* metrics.inc
Bump(m, c) == [m EXCEPT ![c] = @ + 1]

\* live_state.set_state: a session without a row is ignored.
RowAs(s) == IF row = "none" THEN row ELSE s
SetRow(s) == row' = RowAs(s)

\* Tasks only interleave where one suspends: a handler that leaves the loop goes on
\* to the teardown, and a send that does not suspend is not seen by the main task.
MainMayRun == env.slow \/ \A t \in Turn : turns[t].pc \notin SendPc
TurnMayRun == main # "leaving"

At(t, p) == TurnMayRun /\ turns[t].pc = p /\ ~turns[t].cancel

Goto(t, r, p) == turns' = [turns EXCEPT ![t] = [r EXCEPT !.pc = p]]

\* task.cancel() on the turns of ts: a request, delivered at the task's next step.
Cancelling(ts) ==
    [t \in Turn |-> IF t \in ts /\ Live(t) THEN [turns[t] EXCEPT !.cancel = TRUE]
                                           ELSE turns[t]]

\* _send_text / _send_bytes: a no-op once closed; a failed send marks the session closed.
CanSend == ws /\ ~closed
Send(effect) ==
    \/ CanSend /\ device' = effect /\ UNCHANGED closed
    \/ CanSend /\ closed' = TRUE /\ UNCHANGED device
    \/ ~CanSend /\ UNCHANGED <<closed, device>>

----------------------------------------------------------------------------
(* run() and _handshake() *)

Init ==
    /\ env \in Deployments
    /\ main = "accepted" /\ ws = TRUE /\ closed = FALSE
    /\ listening = FALSE /\ mic = 0 /\ notified = FALSE
    /\ turns = [t \in Turn |-> NoTurn] /\ current = 0
    /\ row = "none"
    /\ metrics = [c \in Counter |-> 0]
    /\ device = [speaking |-> FALSE, barge |-> FALSE]

\* run() registers the session before it waits for the hello.
Open ==
    /\ main = "accepted"
    /\ main' = "handshake" /\ row' = "idle"
    /\ metrics' = Bump(metrics, "sessions_opened")
    /\ UNCHANGED <<env, ws, closed, cycle, turns, current, device>>

HandshakeOk ==
    /\ main = "handshake"
    /\ \/ main' = "loop" /\ UNCHANGED closed
       \/ main' = "leaving" /\ closed' = TRUE        \* our hello could not be sent
    /\ UNCHANGED <<env, ws, cycle, turns, current, row, metrics, device>>

\* Timeout, disconnect or a wrong first message: run() closes the socket and returns.
HandshakeFails ==
    /\ main = "handshake"
    /\ main' = "ended" /\ ws' = FALSE
    /\ UNCHANGED <<env, closed, cycle, turns, current, row, metrics, device>>

----------------------------------------------------------------------------
(* _main_loop(): one message per step; `while not closed` is tested after it *)

Receive == main = "loop" /\ MainMayRun /\ main' = IF closed THEN "leaving" ELSE "loop"

\* _on_audio_in: past the cap packets are dropped, and the device is told once per cycle.
MicFull == mic + 1 > MicCap

AudioIn ==
    /\ Receive /\ listening
    /\ IF MicFull
       THEN notified' = TRUE /\ UNCHANGED mic
       ELSE mic' = mic + 1 /\ UNCHANGED notified
    /\ UNCHANGED <<env, ws, closed, listening, turns, current, row, metrics, device>>

\* The echo guard of _on_listen lets nothing but a manual start pass while a turn runs.
FaultNoEchoGuard(state, mode) == FALSE
EchoGuarded(state, mode) == TurnActive /\ ~(state = "start" /\ mode = "manual")

\* The device opens a listen cycle (BOOT press, or auto mode after speech).
ListenStart(mode) ==
    /\ Receive
    /\ device' = [device EXCEPT !.barge = IF mode = "manual" THEN TurnActive ELSE @]
    /\ IF EchoGuarded("start", mode)
       THEN UNCHANGED <<listening, mic, notified, row>>
       ELSE /\ listening' = TRUE /\ mic' = 0 /\ notified' = FALSE
            /\ SetRow("listening")
    /\ UNCHANGED <<env, ws, closed, turns, current, metrics>>

\* _spawn_process: cancel the turn in flight, if any, and start another.
Spawn(src) ==
    /\ current < MaxTurns
    /\ current' = current + 1
    /\ turns' = [Cancelling({current}) EXCEPT ![current + 1] =
                    [NoTurn EXCEPT !.pc = "new", !.source = src]]

ListenStop ==
    /\ Receive
    /\ device' = [device EXCEPT !.barge = FALSE]
    /\ IF EchoGuarded("stop", "")
       THEN UNCHANGED <<listening, mic, row, turns, current>>
       ELSE /\ listening' = FALSE /\ mic' = 0
            /\ SetRow("processing")
            /\ Spawn(IF mic > 0 THEN "audio" ELSE "blank")
    /\ UNCHANGED <<env, ws, closed, notified, metrics>>

\* Text the device already has: typed, or a reminder that fired.
ListenDetect(src) ==
    /\ Receive
    /\ IF EchoGuarded("detect", "")
       THEN UNCHANGED <<row, turns, current>>
       ELSE SetRow("processing") /\ Spawn(src)
    /\ UNCHANGED <<env, ws, closed, listening, mic, notified, metrics, device>>

FaultAbortCounts ==
    /\ Receive
    /\ turns' = Cancelling({current})
    /\ metrics' = IF TurnActive THEN Bump(metrics, "turns_cancelled") ELSE metrics
    /\ UNCHANGED <<env, ws, closed, cycle, current, row, device>>

\* _on_abort
Abort ==
    /\ Receive
    /\ turns' = Cancelling({current})
    /\ UNCHANGED <<env, ws, closed, cycle, current, row, metrics, device>>

\* websocket.disconnect, or a handler raised: either way run()'s finally follows.
LoopEnds ==
    /\ main = "loop" /\ MainMayRun
    /\ main' = "leaving"
    /\ UNCHANGED <<env, ws, closed, cycle, turns, current, row, metrics, device>>

\* A send outside the turn (an MCP request, the mic_cap_hit notice) fails.
BackgroundSendFails ==
    /\ main = "loop" /\ MainMayRun /\ CanSend
    /\ closed' = TRUE
    /\ UNCHANGED <<env, main, ws, cycle, turns, current, row, metrics, device>>

FaultTeardownLeavesTurn ==
    /\ main = "leaving"
    /\ main' = "closing" /\ closed' = TRUE /\ ws' = FALSE
    /\ UNCHANGED <<env, cycle, turns, current, row, metrics, device>>

\* The finally of run(), up to the await in _safe_close.
Teardown ==
    /\ main = "leaving"
    /\ main' = "closing" /\ closed' = TRUE /\ ws' = FALSE
    /\ turns' = Cancelling({current})
    /\ UNCHANGED <<env, cycle, current, row, metrics, device>>

SessionClosed ==
    /\ main = "closing" /\ MainMayRun
    /\ main' = "ended" /\ row' = "none"
    /\ metrics' = Bump(metrics, "sessions_closed")
    /\ UNCHANGED <<env, ws, closed, cycle, turns, current, device>>

----------------------------------------------------------------------------
(* _process_turn(): how a turn ends *)

FaultFinishKeepsRow(t, r, how) ==
    /\ Goto(t, [r EXCEPT !.slot = FALSE, !.cancel = FALSE], "done")
    /\ metrics' = Bump(metrics, how)
    /\ IF r.cancelled THEN UNCHANGED row ELSE SetRow("idle")

\* The outer finally: the turn is counted and the dashboard row goes back to idle.
Finish(t, r, how) ==
    /\ Goto(t, [r EXCEPT !.slot = FALSE, !.cancel = FALSE], "done")
    /\ metrics' = Bump(metrics, how)
    /\ SetRow("idle")

\* CancelledError leaves the pipeline: unless _stream_tts was entered, and so has sent its
\* own, a stop is sent before the turn is counted.
FaultAlwaysGuardStop(r) == r.cancelled
NeedsGuardStop(r) == r.cancelled /\ ~r.entered
Unwind(t, r) ==
    IF NeedsGuardStop(r)
    THEN Goto(t, [r EXCEPT !.slot = FALSE, !.cancel = FALSE], "guard") /\ UNCHANGED <<row, metrics>>
    ELSE Finish(t, r, "turns_cancelled")

FaultSlotHeldInDrain(t, r, shown) ==
    IF r.source = "reminder"
    THEN Goto(t, r, "drain") /\ row' = shown /\ UNCHANGED metrics
    ELSE Finish(t, r, "turns_completed")

FaultReminderStaysOpen(t, r, shown) == Finish(t, r, "turns_completed")

\* After TTS the slot is released; a reminder turn then waits before it hangs
\* up, and the row stays as it is shown.
AfterTts(t, r, shown) ==
    IF r.source = "reminder"
    THEN Goto(t, [r EXCEPT !.slot = FALSE], "drain") /\ row' = shown /\ UNCHANGED metrics
    ELSE Finish(t, r, "turns_completed")

\* _stream_tts is entered: text that sanitizes to nothing is not spoken.
Speak(t, blank) ==
    LET r == [turns[t] EXCEPT !.entered = TRUE]
    IN  IF blank THEN AfterTts(t, r, RowAs("speaking"))
        ELSE Goto(t, r, "say1") /\ SetRow("speaking") /\ UNCHANGED metrics

----------------------------------------------------------------------------
(* _process_turn(): ASR, discovery wait, slot, LLM *)

\* The first step: speech goes to ASR, text straight on, silence ends the turn.
Begin(t) ==
    /\ At(t, "new")
    /\ LET started == Bump(metrics, "turns_started")
       IN  CASE turns[t].source = "audio" ->
                    Goto(t, turns[t], "asr") /\ metrics' = started /\ UNCHANGED row
             [] turns[t].source = "blank" ->
                    /\ Goto(t, turns[t], "done")
                    /\ metrics' = Bump(started, "turns_completed")
                    /\ SetRow("idle")
             [] OTHER ->
                    Goto(t, turns[t], "tools") /\ metrics' = started /\ UNCHANGED row
    /\ UNCHANGED <<link, cycle, current, device>>

\* ASR gives speech, or silence: an exception reads as silence.
AsrReturns(t) ==
    /\ At(t, "asr")
    /\ \/ Goto(t, turns[t], "stt") /\ UNCHANGED <<row, metrics>>
       \/ Finish(t, turns[t], "turns_completed")
    /\ UNCHANGED <<link, cycle, current, device>>

SttSent(t) ==
    /\ At(t, "stt")
    /\ Send(device)
    /\ Goto(t, turns[t], "tools")
    /\ UNCHANGED <<env, main, ws, cycle, current, row, metrics>>

\* discovery_done is set, or the 5 s are over.
ToolsWaited(t) ==
    /\ At(t, "tools")
    /\ Goto(t, turns[t], "slot")
    /\ UNCHANGED <<link, cycle, current, row, metrics, device>>

SlotGranted(t) ==
    /\ At(t, "slot")
    /\ Goto(t, [turns[t] EXCEPT !.slot = TRUE], "llm")
    /\ UNCHANGED <<link, cycle, current, row, metrics, device>>

\* The queue timeout: the overload reply is spoken without a slot.
SlotTimeout(t) ==
    /\ At(t, "slot")
    /\ Speak(t, FALSE)
    /\ UNCHANGED <<link, cycle, current, device>>

\* respond() returns text, which may sanitize to nothing, or raises: an apology is spoken.
LlmReturns(t) ==
    /\ At(t, "llm")
    /\ \E blank \in BOOLEAN : Speak(t, blank)
    /\ UNCHANGED <<link, cycle, current, device>>

----------------------------------------------------------------------------
(* _stream_tts() *)

SentenceStartSent(t) ==
    /\ At(t, "say1")
    /\ Send(device)
    /\ Goto(t, turns[t], "say2")
    /\ UNCHANGED <<env, main, ws, cycle, current, row, metrics>>

TtsStartSent(t) ==
    /\ At(t, "say2")
    /\ Send([device EXCEPT !.speaking = TRUE])
    /\ Goto(t, turns[t], "stream")
    /\ UNCHANGED <<env, main, ws, cycle, current, row, metrics>>

\* _emit: what a frame changes here is that its send may fail.
Emit(t) ==
    /\ At(t, "stream")
    /\ Send(device)
    /\ UNCHANGED <<env, main, ws, cycle, turns, current, row, metrics>>

\* The synthesis ends or raises: the finally sends the stop either way.
StreamEnds(t) ==
    /\ At(t, "stream")
    /\ Goto(t, turns[t], "stop")
    /\ UNCHANGED <<link, cycle, current, row, metrics, device>>

Stopped(r) == [r EXCEPT !.stops = @ + 1]

TtsStopSent(t) ==
    /\ At(t, "stop")
    /\ Send([device EXCEPT !.speaking = FALSE])
    /\ LET r == Stopped(turns[t]) IN IF r.cancelled THEN Unwind(t, r) ELSE AfterTts(t, r, row)
    /\ UNCHANGED <<env, main, ws, cycle, current>>

----------------------------------------------------------------------------
(* A reminder turn hangs up: sleep(drain_s), then _safe_close() *)

Drained(t) ==
    /\ At(t, "drain")
    /\ Goto(t, turns[t], "close")
    /\ ws' = FALSE
    /\ UNCHANGED <<env, main, closed, cycle, current, row, metrics, device>>

HungUp(t) ==
    /\ At(t, "close")
    /\ Finish(t, turns[t], "turns_completed")
    /\ UNCHANGED <<link, cycle, current, device>>

----------------------------------------------------------------------------
(* CancelledError is delivered at the await the turn sits in *)

CancelAt(t, pcs) == TurnMayRun /\ turns[t].cancel /\ turns[t].pc \in pcs
Delivered(t) == [turns[t] EXCEPT !.cancel = FALSE, !.cancelled = TRUE]

\* A coroutine cancelled before its first step never runs, its finally included.
CancelUnrun(t) ==
    /\ CancelAt(t, {"new"})
    /\ Goto(t, Delivered(t), "unrun")
    /\ UNCHANGED <<link, cycle, current, row, metrics, device>>

FaultLlmCatchesCancel(t) ==
    /\ CancelAt(t, {"asr", "stt", "tools", "slot", "llm"})
    /\ IF turns[t].pc = "llm"
       THEN Goto(t, [turns[t] EXCEPT !.cancel = FALSE], "llm") /\ UNCHANGED <<row, metrics>>
       ELSE Unwind(t, Delivered(t))
    /\ UNCHANGED <<link, cycle, current, device>>

CancelBeforeTts(t) ==
    /\ CancelAt(t, {"asr", "stt", "tools", "slot", "llm"})
    /\ Unwind(t, Delivered(t))
    /\ UNCHANGED <<link, cycle, current, device>>

\* In the two sends before _stream_tts's try, no stop is sent.  A start that was cancelled
\* while it waited may already have reached the device.
CancelInStart(t) ==
    /\ CancelAt(t, {"say1", "say2"})
    /\ \/ UNCHANGED device
       \/ turns[t].pc = "say2" /\ CanSend /\ device' = [device EXCEPT !.speaking = TRUE]
    /\ Unwind(t, Delivered(t))
    /\ UNCHANGED <<link, cycle, current>>

FaultStreamEndsSilently(t) ==
    /\ CancelAt(t, {"stream"})
    /\ Unwind(t, Delivered(t))
    /\ UNCHANGED <<link, cycle, current, device>>

\* The finally of _stream_tts: a stop is still sent.  While Edge TTS, its audio over, waits
\* for its feeder to end, its `except CancelledError: pass` eats the cancellation;
\* what ends the synthesis after that is bounded by timers, and taken as part of the step.
CancelInStream(t) ==
    /\ CancelAt(t, {"stream"})
    /\ \E r \in {Delivered(t), [turns[t] EXCEPT !.cancel = FALSE]} : Goto(t, r, "stop")
    /\ UNCHANGED <<link, cycle, current, row, metrics, device>>

\* While that stop waits to be sent (it may have gone out), or after it.
CancelAfterStream(t) ==
    /\ CancelAt(t, {"stop", "drain", "close"})
    /\ \/ UNCHANGED device /\ Unwind(t, Delivered(t))
       \/ /\ turns[t].pc = "stop" /\ CanSend
          /\ device' = [device EXCEPT !.speaking = FALSE]
          /\ Unwind(t, Stopped(Delivered(t)))
    /\ UNCHANGED <<link, cycle, current>>

GuardStopSent(t) ==
    /\ At(t, "guard")
    /\ Send([device EXCEPT !.speaking = FALSE])
    /\ Finish(t, Stopped(turns[t]), "turns_cancelled")
    /\ UNCHANGED <<env, main, ws, cycle, current>>

\* `except Exception` around that send does not catch a second CancelledError: the rest of
\* the finally is skipped.
CancelInGuard(t) ==
    /\ CancelAt(t, {"guard"})
    /\ Goto(t, Delivered(t), "torn")
    /\ UNCHANGED <<link, cycle, current, row, metrics, device>>

\* Python 3.11's wait_for returns the result and drops the cancellation when what it
\* waits for completed in the same tick.
CancelSwallowed(t) ==
    /\ env.py311
    /\ CancelAt(t, {"tools", "slot", "llm"})
    /\ LET r == [turns[t] EXCEPT !.cancel = FALSE]
       IN  \/ r.pc = "tools" /\ Goto(t, r, "slot")
           \/ r.pc = "slot" /\ Goto(t, [r EXCEPT !.slot = TRUE], "llm")
           \/ r.pc = "llm" /\ Goto(t, r, "llm")      \* inside an MCP tools/call
    /\ UNCHANGED <<link, cycle, current, row, metrics, device>>

----------------------------------------------------------------------------

MainStep ==
    \/ Open \/ HandshakeOk \/ HandshakeFails
    \/ AudioIn \/ ListenStop \/ Abort \/ LoopEnds
    \/ \E mode \in {"manual", "auto"} : ListenStart(mode)
    \/ \E src \in {"blank", "text", "reminder"} : ListenDetect(src)
    \/ BackgroundSendFails \/ Teardown \/ SessionClosed

\* What the event loop itself guarantees: resumption, timers, cancellation, sends.
LoopStep(t) ==
    \/ Begin(t) \/ SttSent(t) \/ ToolsWaited(t) \/ SlotTimeout(t)
    \/ SentenceStartSent(t) \/ TtsStartSent(t) \/ TtsStopSent(t)
    \/ Drained(t) \/ HungUp(t) \/ GuardStopSent(t)
    \/ CancelUnrun(t) \/ CancelBeforeTts(t) \/ CancelInStart(t) \/ CancelInStream(t)
    \/ CancelAfterStream(t) \/ CancelInGuard(t)

\* What depends on Whisper, the LLM provider, Edge TTS or the other sessions.
ServiceStep(t) ==
    \/ AsrReturns(t) \/ SlotGranted(t) \/ LlmReturns(t) \/ Emit(t) \/ StreamEnds(t)

TurnStep(t) == LoopStep(t) \/ ServiceStep(t) \/ CancelSwallowed(t)

Next == MainStep \/ \E t \in Turn : TurnStep(t)

Fairness ==
    /\ WF_vars(Teardown) /\ WF_vars(SessionClosed)
    /\ \A t \in Turn : WF_vars(LoopStep(t))

Spec == Init /\ [][Next]_vars /\ Fairness

----------------------------------------------------------------------------
(* Properties *)

TypeOK ==
    /\ env \in Deployments
    /\ main \in {"accepted", "handshake", "loop", "leaving", "closing", "ended"}
    /\ ws \in BOOLEAN /\ closed \in BOOLEAN
    /\ listening \in BOOLEAN /\ mic \in 0..MicCap /\ notified \in BOOLEAN
    /\ turns \in [Turn -> TurnRec] /\ current \in 0..MaxTurns
    /\ row \in RowState
    /\ metrics \in [Counter -> Nat]
    /\ device \in [speaking : BOOLEAN, barge : BOOLEAN]

\* At most one pipeline runs per connection: whatever the device sends, a turn is never
\* started while an older one can still send audio (_spawn_process, the echo guard).
OneTurn == \A t, u \in Turn : Live(t) /\ Live(u) => t = u

\* When no turn is running on an open channel the device is not left in Speaking: each
\* tts start was followed by a stop, however the turn ended (session.py 489-494, 688).
DeviceReleased == CanSend /\ device.speaking => \E t \in Turn : Live(t)

\* ... as long as no send has to wait: see DeviceReleased's own run for when one does.
DeviceReleasedIfFast == ~env.slow => DeviceReleased

\* A turn sends at most one tts stop: _stream_tts's finally and the guard in
\* _process_turn exclude each other (session.py 688-691).
OneStopPerTurn == \A t \in Turn : turns[t].stops <= 1

\* What /metrics reports as in_flight is the turns that really run: a turn that began is
\* counted out exactly once, unless a second cancellation tore its finally.
InFlight == metrics["turns_started"] - metrics["turns_completed"] - metrics["turns_cancelled"]
Started  == {t \in Turn : Live(t) /\ turns[t].pc # "new"}
Torn     == {t \in Turn : turns[t].pc = "torn"}
CountedOut == InFlight = Cardinality(Started \cup Torn)

\* The dashboard row says processing or speaking only while a turn is running, unless a
\* turn never ran its finally.
RowTracksTurn ==
    row \in {"processing", "speaking"} =>
        \E t \in Turn : Live(t) \/ turns[t].pc \in {"unrun", "torn"}

\* The shared turn slot is held only while LLM and TTS run: not across the wait before a
\* reminder turn hangs up, nor by a turn that ended (session.py 663-668).  Once run() has
\* returned, and ws.py 100 has given the session's own permit back, it takes no service to
\* free the slot: the turn is about to be cancelled or has only its stop to send.
SlotOnlyInPipeline ==
    \A t \in Turn : turns[t].slot =>
        /\ turns[t].pc \in {"llm", "say1", "say2", "stream", "stop"}
        /\ main = "ended" => turns[t].cancel \/ turns[t].pc = "stop" \/ env.py311

\* A reminder turn that reaches its end uncancelled leaves the channel closed, and never
\* one with the mic open forever (session.py 670-682).
ReminderHangsUp ==
    \A t \in Turn :
        turns[t].pc = "done" /\ turns[t].source = "reminder" /\ ~turns[t].cancelled => ~ws

\* What the device can tell of a turn's position.
PhaseOf(p) ==
    CASE p \in {"stream", "stop"} -> "speaking"
      [] p \in {"drain", "close"} -> "closing"
      [] p \in LivePc \ {"stream", "stop", "drain", "close"} -> "thinking"
      [] OTHER -> "over"

Heard == INSTANCE Voice WITH
             slow  <- env.slow,
             open  <- CanSend,
             turn  <- current,
             phase <- IF current = 0 THEN "over" ELSE PhaseOf(turns[current].pc),
             told  <- device.speaking

\* The device hears one turn at a time, each with at most one start and one stop; no turn
\* goes without its stop unless it is cancelled in the middle of a send, and nothing is said
\* once the channel is gone (session.py 483-497, 688-697, 743-746, 806).
ImplementsVoice == Heard!Spec

\* An abort or a teardown ends the turn even if Whisper, the LLM and Edge TTS never
\* answer: it takes only the event loop.
CancelEndsTurn == \A t \in Turn : turns[t].cancel ~> ~Live(t)

\* ... with the wait_for of Python 3.12.
CancelEndsTurn312 == \A t \in Turn : (turns[t].cancel /\ ~env.py311) ~> ~Live(t)

\* "That one we honor (the subsequent listen.stop cancels the current turn cleanly)",
\* session.py 410-413: when BOOT, pressed during a turn, is released, that turn is over or
\* being cancelled.
PressInterrupts ==
    [][device.barge /\ ~device'.barge =>
          \A t \in Turn : Live(t) => turns'[t].cancel]_vars

\* Once the connection is being torn down, run() returns, and with Python 3.12 no turn
\* outlives it for long.
TeardownCompletes ==
    (main = "leaving") ~> (main = "ended" /\ \A t \in Turn : Live(t) => env.py311)

============================================================================
