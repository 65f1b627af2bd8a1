# Jarviz backend: models, checks and proofs

Jarviz is a voice assistant backend. A device (ESP32 firmware speaking the xiaozhi protocol) asks
the OTA endpoint where to connect, opens one WebSocket, and then alternates between listening and
speaking; the server turns what it hears into text (Whisper), asks an LLM that may call tools *on
the device* (MCP over the same socket), and streams the answer back as paced Opus frames (Edge
TTS). One asyncio process serves all devices.

This directory models the parts of that server where order, cancellation, limits and failure
decide whether it is right: TLA+ modules, TLC configurations that check small instances, and TLAPS
proofs that hold for all instances.

## 1. Inventory

| part (source) | state | operations | talks to |
|---|---|---|---|
| Session (`server/session.py`) | `_SessionState`: listening, mic buffer, echo-guard flag, turn task, closed, history | `run`, `_handshake`, `_main_loop`, `_on_audio_in`, `_on_listen`, `_on_abort`, `_spawn_process`, `_process_turn`, `_stream_tts` | device, all parts below |
| Turn slots (`main.py` 81, `session.py` 556-668) | an `asyncio.Semaphore` for the whole process | acquire with timeout, overload reply, release | the turns of all sessions |
| MCP bridge (`server/mcp_bridge.py`) | next id, pending futures, ring of timed-out ids, tool list | `_send_request`, `on_message`, `discover_tools`, `call_tool`, `cancel_all` | device; called by the discovery task and by the turn |
| TTS pacing (`session.py` 748-806) | frames sent, start time, leftover PCM | `_emit` and the synthesis loop | the device's 40-frame decode queue |
| Admission (`server/ws.py`, `server/cooldown.py`) | two cooldown trackers, the session semaphore | `xiaozhi_v1`, `check_and_mark` | Session, OTA |
| Device tokens (`server/auth.py`) | none on the server; the token each device holds | `mint_token`, `verify_token` | OTA, admission |
| Live state (`server/live_state.py`) | one row per session, transcript ring, reminder counters, reminder mirror | `session_opened/closed`, `set_state`, `update_reminders_from_tool`, ... | Session, LLM tool calls, dashboard |
| Metrics (`server/metrics.py`) | counters, latency ring | `inc`, `snapshot` | everyone |
| Device store (`server/store.py`) | a JSON file, a thread lock, a file lock | `touch_device`, `get_device`, `list_devices` | OTA, Session; other worker processes |
| LLM providers (`server/llm/*`) | the message list of one request | `respond`: a tool loop of at most 6 rounds | LLM API, MCP bridge |
| Whisper (`server/asr/whisper_provider.py`) | model, ready event, inference semaphore | `transcribe` in a thread | Session |
| Edge TTS (`server/tts/edge_provider.py`) | ffmpeg child, feeder task | `synthesize` | Session, ffmpeg, Edge CDN |
| Opus (`server/audio.py`) | encoder and decoder | encode, decode, pad | Session |
| Device (firmware; `scripts/simulate_device.py`) | its reminders, the next id | the `jarviz.*` tools, a reminder that fires | MCP bridge, Session |
| OTA and dashboard endpoints (`server/ota.py`, `server/dashboard.py`) | none of their own | `ota_check`, telemetry reads | cooldown, store, tokens |
| config, log, start-up | none that matters here | | |

### What makes it hard

* **Cancellation.** A turn is cancelled from the outside (abort, a new turn, teardown) at *any* of
  its awaits, and again while it is cleaning up. Where it is then decides whether the device hears
  a `tts stop`, whether the shared slot goes back, whether the turn is counted and whether the
  dashboard row is reset.
* **Echo guard.** While a turn runs nearly all listen events are dropped; the two halves of one
  BOOT press can fall on the two sides of the turn's end.
* **Futures and timers.** A timer, an answer and an abort may hit one MCP request, or one wait for
  a slot, in the same tick of the event loop.
* **Clocks and limits.** The device's decode queue, the mic buffer, the ring of timed-out ids, the
  pool of slots.
* **Ways out.** A connection can end in accept, in the handshake or in the main loop, and every way
  has to settle the permit, the registry and the counters.
* **Files and processes.** Several workers share one JSON file; each can fail or die between two
  writes.
* **Work that outlives its turn.** A cancelled turn leaves a Whisper thread running, a tool call
  the device will still carry out, a synthesis with a child process to clean up.
* **What a turn leaves behind.** The history must stay one the LLM's API accepts, and the dashboard
  learns the reminders of a device only from the tool results it happens to see.
* **The wall clock.** Tokens are aged by a clock somebody may set.

`PROJECT.json` lists every one of these hazards at its line, with the properties that cover it or
the reason that none does.

### What makes each part correct

* Session: one pipeline at a time; a device that was told to speak is told to stop, and only once;
  turns are counted in and out; the row is honest; a cancelled turn ends; teardown completes.
* Turn slots: permits are conserved, no wake-up is lost, first come first served, nobody starves.
* MCP bridge: no caller waits on a future nobody can resolve; nothing leaks; tools are published
  all or none; every call returns; the discovery gate opens.
* TTS pacing: never ahead of the schedule, bounded backlog, nothing dropped, everything spoken.
* Admission: as many connections past the gate as permits taken; the registry, the counters and
  the connections agree; a device is turned away exactly for the cooldown after it last passed.
* Device store: no lost update, no torn file, the lock comes back; a crash loses at most the write
  in flight.
* Admission, tokens: a device that was just answered by OTA is let in, one whose token ran out is
  not, unless the clock was set.
* Tool loop: every request pairs every tool call with a result; a history grows by whole turns; what
  is spoken is the newest text.
* Reminders: the dashboard's list is the device's, unless something it cannot see came between.
* Edge TTS: the whole reply is handed on, a failure is logged, the pipes do not deadlock, and
  neither feeder nor ffmpeg outlives the synthesis.
* Whisper: one model, built once; as many inferences as configured; failed loads and abandoned
  threads do not wedge it.

## 2. Modules

| module | models | main correspondence |
|---|---|---|
| `Session` | one connection | `main` is where `run()` is; `turns[t].pc` is the await the turn task sits in; `cancel` is a requested, `cancelled` a delivered cancellation |
| `Voice` | the abstract promise of a session to its device | turns one after the other, each with one start and one stop |
| `MCSession` | | two deployments for TLC: 3.12 with a socket that may block, 3.11 with one that keeps up |
| `TurnSlots` | the cap on turns | `value`, `waiters`, `fut` are the fields of `asyncio.Semaphore` |
| `SlotPool` | the abstract promise of the cap | running, queued and refused turns |
| `McpBridge` | the bridge and its two callers | `pending`, `timedOut`, `tools`, `nextId` are the fields of `MCPBridge`, `gate` is `discovery_done` |
| `Rpc` | the abstract promise of the bridge to its callers | a call is out, answered or failed; tools published at once |
| `TtsPacing` | one paced reply and the device's queue | time in ticks from `tts_t0`, PCM in half frames |
| `DeviceTokens` | minting and checking tokens | `token` is a token's age by the server's clock, `handed` the time that really passed |
| `Admission` (extends `DeviceTokens`) | the WebSocket endpoint, both cooldown trackers, the OTA gate, the rows of all connections | `stage` is where `xiaozhi_v1` and `run()` are; a tracker is the order of its `OrderedDict` and the age of each hit; `since` and `verdict` record what the gate did |
| `MCAdmission` | | the symmetry of sockets for TLC |
| `DeviceStore` | `touch_device` of several workers | `pc` is the step of load, change, write, rename; `disk` and `tmp` are the two files, whole or cut off |
| `Registry` | the abstract promise of the store | one touch, one step |
| `ToolLoop` | `respond()` of both providers and the session's history | `loop[s]` holds the position and the locals of `respond()`: `msgs`, the round, the reply whose calls are being made |
| `Reminders` | a device's reminders, the answers on their way, the mirror and its counter | `mirror` is `_reminders_by_device` in its order; `store`, `nextId` are `_SIM_REMINDERS`, `_SIM_NEXT_ID`; `drifted` records what the mirror could not see |
| `Conversation` | `ToolLoop` and `Reminders` composed through `_traced_invoke` | a tool call is `Invoke`, then `InvokeReturns` or `InvokeRaises` |
| `EdgeTts` | one synthesis | `feeder`, `ffmpeg`, `gen` are the task, the process and the generator; `stdin`, `stdout` what is in the pipes; `reaped` says that `returncode` is set |
| `WhisperAsr` | the recognizer's threads | `pc` is where each call of `transcribe` is; `ready`, `lock`, `permits` are `_ready`, `_lock`, `_asr_sem` |
| `SessionProofs`, `McpBridgeProofs`, `TurnSlotsProofs`, `TtsPacingProofs`, `AdmissionProofs`, `DeviceStoreProofs`, `ConversationProofs`, `ProviderProofs` | | the theorems and proofs about the modules; the last is about `WhisperAsr` and `EdgeTts` |

A step of `Session`, `TurnSlots`, `McpBridge`, `Admission` and `Conversation` is what the event loop runs between two
suspension points. In `Session`, `MainMayRun` says when the main task may run while a turn is
inside a send: only if sends really suspend (`env.slow`). `TurnMayRun` keeps turns out of the few
statements between the main loop's end and the teardown, which do not suspend. A step of `DeviceStore` is
one file operation of one process; inside a process `touch_device` runs on the event loop's thread
and meets no other. A step of `WhisperAsr` is what
a thread does between two blocking calls; `EdgeTts` interleaves two tasks and a process. The parts that
belong to asyncio (a semaphore's wake-up, what `cancel()` does to a future, how `wait_for` reports
a timer) are modelled from how the code uses them and marked external in the map.

Left out because no property can see it: the words of a message, log lines, latencies, the
transcript, the failure and overload tallies, `suppress_listen` (it only chooses between two log
lines), the arguments of a tool call other than a reminder's id. Definitions named `Fault...` are the faulty
variants used to test the properties; no specification uses them.

### How the parts fit together

`Session` treats the semaphore, the bridge, the LLM, Whisper and the synthesis as services that
may answer at any time or never. `TurnSlots` and `McpBridge` open two of these: what a turn sees
there (`SlotGranted`, `SlotTimeout`; the discovery wait, a tool call) are their `Ask`, `Resume...`
and `Call`, `Return` steps, with the same aborts. `TtsPacing` opens the loop that is the one action
`Emit` in `Session`. What a caller sees of the bridge is `Rpc`: its call is settled at most once, by its
own answer, and not after the session ended. What the device hears of `Session` is `Voice`: `PhaseOf` maps
where a turn is to thinking, speaking, closing or over. `Admission` looks at a connection from outside: its `Registered`,
`HandshakeOk`, `HandshakeFails`, `LoopEnds` and `SessionClosed` are the steps of the same name in
`Session`, for many connections. It takes the session semaphore at the level of `SlotPool`, which
`TurnSlots` shows an `asyncio.Semaphore` used with `wait_for` to implement. `touch_device`, called
by `run()` and by the OTA endpoint, is `DeviceStore`; that it may raise is part of `AcceptFails`
and of `OtaCheck`.

`Conversation` opens `Session`'s step from the LLM's request to its answer (`LlmReturns`, and what
an abort does there); the call it makes for a tool is the `Call` of `McpBridge`, seen as answered,
failed or abandoned. It keeps the device's side of an abandoned call, which `McpBridge` does not
need. `EdgeTts` opens the synthesis that `Session` and `TtsPacing` take chunks from: `Read` is their
`Emit` and `Chunk`, `ClosedEarly` what a cancelled turn does to it. `WhisperAsr` opens
`AsrReturns`.

## 3. Runs

| run | bounds | shows |
|---|---|---|
| `Session` | 2 turns, mic cap 1, both deployments | the safety of a connection, that it refines `Voice`, and two liveness properties (389,604 states) |
| `SessionPress` | 1 turn | **violation**: a BOOT press during a turn is lost |
| `SessionStop` | 1 turn, slow socket | **violation**: a cancellation inside the `tts start` send leaves the device speaking |
| `TurnSlots` | 4 turns, 2 slots | the semaphore is fair, leaks nothing and refines `SlotPool` (55,088 states) |
| `McpBridge` | 2 pages, 2 calls, ring 1 | the bridge under every race of answer, timer, abort and teardown, and that it refines `Rpc` (112,763 states) |
| `McpBridgeLate` | 1 page, 1 call | **violation**: the answer to an aborted call ends the session |
| `TtsPacing` | frame 2, lead 3, queue 5, 15 units, stalls up to 5 | pacing with stalls that fit the headroom (2,216 states) |
| `DeviceStore` | 2 workers, 2 devices, 2 time stamps | the read-modify-write cycle is atomic although processes fail and die in it (25,024 states) |
| `Admission` | 3 sockets, 2 devices (one on the allowlist), 1 permit, cooldown 2 ticks, token life 1 tick, 1 tracked device, 2 sessions | the gates, the cap and the registry (915,037 states, sockets symmetric) |
| `Conversation` | 2 sessions, each with a device of its own (the server would let two share one Device-Id); 2 reminder ids, 1 tracked device, 2 rounds, 2 turns, 2 calls; both providers | the history, the requests and the mirror, whatever times out, fails or is cancelled (288,368 states) |
| `EdgeTts` | 4 chunks of 2 blocks each, both pipes as small as they can be | the end of a synthesis in every order of failures and cancellations (5,183 states) |
| `WhisperAsr` | 4 calls, 3 workers, parallelism 0 | the lazy model and the semaphore (7,360 states) |

Why these bounds are enough. *Session*: only the current turn can be alive (`OneTurn`, proved for
any number), so two turns show everything that one turn can leave to the next; a mic cap of one
packet reaches the cap and the notice. *TurnSlots*: four turns on two slots give two running and
two waiting at once, which is what a hand-over, an interrupted hand-over and an overtaking arrival
need. *McpBridge*: `initialize`, two pages and two calls put a discovery request and a call in
flight together, and a second timeout overflows the ring of one. *TtsPacing*: the reply is longer
than lead and queue together, and ends in a half frame; `2 * 5 - (3 + 2) = 5` is exactly the
headroom, so one tick more of stall is outside it. *DeviceStore*: two workers are all that a lost
update needs, and the second device shows whose record was lost; time may go backwards.
*Admission*: three sockets give one session, one in the queue and one being refused; the second
device pushes the first out of the tracker; a token lives one tick, and the clock is set any number
of times; `MaxOpened` bounds how many sessions are opened in one behaviour, so that a permit is
used, given back and used again. Nothing tells one socket from another and only safety is checked
there, so states that differ in the names of sockets are one. *Conversation*: two calls in one
reply are what pairing needs, two rounds reach the cap after a round that goes on, two turns in one
session a history to build on; one tracked device makes every use of the other forget the first.
The properties also hold with three turns, and with three calls (3.8 million states each).
*EdgeTts*: what can go wrong between two bounded pipes goes wrong when each holds one; four chunks
fill them both and leave one to write. *WhisperAsr*: three workers leave one call without a worker,
one loading and one at the lock; the parallelism of 0 is what `max(1, ...)` must turn into 1.

Every property of a passing run is also run against one faulty variant of a mapped definition
(`mutants`), which must break it.

### Fairness

* `Session`: weak fairness of the teardown and of `LoopStep`, which is what asyncio itself
  guarantees: a ready task is resumed, a timer fires, a delivered cancellation is raised, a send
  returns. There is none for Whisper, the LLM, Edge TTS or a slot becoming free (`ServiceStep`),
  nor for the device. `CancelEndsTurn312` and `TeardownCompletes` therefore hold even if no service
  ever answers; they exclude Python 3.11, whose `wait_for` may swallow a cancellation (the
  Dockerfile runs 3.11).
* `TurnSlots`: a resumed waiter runs, and a running pipeline ends. Nothing is assumed of the queue
  timer: `QueueMoves` shows that FIFO order alone empties the queue. That a pipeline ends is an
  assumption on Edge TTS, which has no timeout.
* `McpBridge`: callers are resumed and, while the session is open, timers fire; the device need
  not answer. `GateOpens` holds because every request has a timer. A crashed session is torn down.
* `DeviceStore`: a worker that holds the file lock goes on (it waits for nothing but the disk).
  Nothing is assumed of those that wait for the lock: `FileLock` polls and has no queue.
* `Admission` and `Conversation`: none; only safety is stated.
* `EdgeTts`: the event loop resumes whoever is ready, a running ffmpeg reads and writes, a SIGKILL
  works, an exit is noticed, and the session asks for the next block until it closes. Nothing is assumed of Edge, which
  may stall for ever, nor of an ffmpeg that was told to terminate. `PlaysOut` therefore says: Edge
  stalls, or the synthesis ends.
* `WhisperAsr`: some thread that can take a step takes it. No fairness among the threads:
  `threading.Semaphore` has no queue, a late call may overtake. `NeverWedges` claims no more than
  that calls go on ending, not that a given call ends.
* `TtsPacing`: synthesis goes on, a due frame is sent, time passes.

## 4. Findings

1. **A BOOT press during a turn is lost** (`session.py` 414-437 against its comment at 410-413).
   The manual `listen.start` passes the echo guard and opens a cycle, but the `listen.stop` that
   should cancel the turn is dropped as unmatched while the turn runs.
2. **A cancelled `tts start`** (`session.py` 743-746 against the comments at 489-494 and 688). Both
   sends lie before the `try` of `_stream_tts`, and `tts_entered` is already set: no stop is sent.
   It takes a send that suspends. `Voice` allows it as `CutOff`, and `SessionImplementsVoice` shows that a
   session loses a stop in no other way.
3. **The answer to an aborted tool call ends the session** (`mcp_bridge.py` 89-103 against
   `tests/test_mcp_bridge.py` 59). The timed-out request is removed from `_pending`, the cancelled
   one is not. `CrashIsCancelled` proves that this is the only way a message ends the session.

Met while modelling and stated as the exceptions of a property:

* a failed handshake leaves its row and its count behind (`session.py` 251-256; `RowsAreSessions`);
* a reply that Anthropic cut at `max_tokens` inside a tool call leaves a history the API refuses, so
  that every later request of the session fails (`anthropic_provider.py` 137; `RequestsPaired`,
  `HistoryGrowsByTurns`);
* at the round cap the text spoken may be one of an earlier turn (`SpokenIsNewest`);
* the mirror drifts when a reminder fires, when a call is given up but carried out, when a device is
  forgotten for the cap, and when the device refuses a deletion: a deletion is mirrored from its
  arguments, whatever the answer (`live_state.py` 279-283; `MirrorExplained`);
* a cancellation while the synthesis waits for ffmpeg to exit skips the kill: a second one, or the first
  if ffmpeg's exit is seen later than the end of its output (`NothingOutlives`);
* after the server's clock was set, a device may be refused with a token minted a moment ago until it
  asks OTA again (`auth.py` 91; `GatesAreExact`);
* a cancellation that reaches the turn while the Edge TTS generator awaits its feeder is eaten
  (`edge_provider.py` 134-137; part of `CancelInStream`).

Met while modelling, outside the models:

* `asyncio.wait_for(acquire(), timeout=0)` gives up before `acquire()` starts: with a queue timeout of
  0 every turn is refused, also when slots are free (`session.py` 570 against `config.py` 126-127).
  `TurnSlots` models timeouts above 0.
* The pacing schedule runs from before the synthesis starts and does not move when it stalls: after a
  stall longer than the headroom the overdue frames overflow the device's queue (`session.py` 754
  against `config.py` 55-62). `NeverDropsWithHeadroom` carries the condition.
* OTA marks the cooldown before `touch_device`; if that fails the device gets a 500, and a 429 when it
  retries (`ota.py` 242-256).
* Devices that send no Device-Id share one entry of the mirror (`live_state.py` 251).
* The `async for` of `_stream_tts` does not close the generator it leaves; the event loop does, later.
* A turn cancelled before its first step leaves the row at "processing". A BOOT press while a reminder
  turn waits to hang up is cut off.
* `_discover_tools` waits for a `TimeoutError` that `_send_request` has turned into a `RuntimeError`;
  `main.py` 79-81 says the turn cap covers ASR, which runs before the slot is taken.
* The simulator's `--idle-after` of 15 s has no effect when nothing arrives: the first 2 s timeout of
  `ws.recv()` after a `tts stop` ends it (`simulate_device.py` 363-367).

## 5. Proofs

TLAPS checks every obligation; nothing is assumed beyond the `ASSUME`s on the constants.

* **`SessionProofs`** (any number of turns, any mic cap, any set of deployments). `IInv` is
  inductive. The goals are not: that a turn sends one stop needs to know which program counters
  come with which flags (`TurnOK`: beyond the first stop only drain, close and done; voiced counters
  have `entered`; a guard was cancelled); that turns never overlap needs that only the *current*
  one can be alive and later ones are idle (`OnlyCurrent`); that the device is released on a fast
  socket needs that a speaking device has a turn in `stream` or `stop` and that no turn is
  cancelled inside a send (`Speaker`). Each of the turn's twenty-odd steps is first reduced to one
  formula, `Shape(t)`, and each of the main task's to `MainShape` (nothing spawned, or one turn
  spawned when none is alive); the invariant is proved once against the two shapes. A third,
  `Tally(t)`, says what a turn's step does to the counters, and that the number of counted turns
  changes with them. From it: `SessionTypeOK`, `AtMostOneTurn`, `AtMostOneStop`, `RowIsHonest`, `SlotOnlyWhileUsed`,
  `RemindersHangUp`, `FastDeviceReleased`, `InFlightIsReal`.
  Two more invariants stand on top of it. `Says(t)` relates what the device hears in a turn's step to
  the turn's phase before and after; with it each step of a turn is a step of `Voice` or a stutter, and
  the main task's steps are its beginnings and its end: `SessionImplementsVoice`. `Leftover` says that
  once `run()` has returned a turn that is left is being cancelled or in its last sends (on 3.12;
  `Wanes(t)` shows that a turn's own steps keep it so), which gives `SlotOnlyWhileUsed` its second
  half: the slot such a turn holds waits for no service.
* **`McpBridgeProofs`** (any number of pages and calls, any ring). `PendingIsAwaited` and
  `WaitersResolvable` are not inductive. `Parked` says that a caller has a request exactly while it is
  busy and shares it with nobody; `Served` what it finds when it is next resumed: an open entry, an
  outcome, which may come before its send returned, or an interruption that is due; `Entries` what each entry of `_pending` stands for: a caller, or one
  that was aborted. `RoomLeft` says that the discovery's share of the ids is still there, `Published` that tools
  appear only when the discovery is over. From it: `BridgeTypeOK`, `NothingPilesUp`, `NobodyStranded`,
  `ToolsAreWhole`, the action property `CrashIsCancelled`, and `BridgeImplementsRpc`, where the answer
  is the step that settles a call and a caller's resumption the one that publishes or leaves.
* **`TurnSlotsProofs`** (any finite set of turns, any number of slots). `IInv` adds `Queueing` to
  the conservation law: a turn has a future exactly while it queues, and is then among the waiters.
  Without it `Wake` could hand a permit to a turn that is not waiting. `Ordered` is inductive with
  it: the queue holds each waiter once (`InLine`), nobody pending stands ahead of a granted one
  (`Fair`), and a free permit beside a pending waiter means a granted one is about to pass it on
  (`Busy`). Lemmas say what removing a waiter and waking one does to the sequence, and cardinalities
  do the rest. The refinement needs both: a locked semaphore means a full pool or a queue
  (`LockedFacts`), a permit free or handed over means room in the pool (`RoomFacts`).
  From it: `SlotsTypeOK`, `PermitsAreConserved`, `NoPermitIdle`, `ServedInOrder`,
  `SemaphoreImplementsPool`.
* **`TtsPacingProofs`** (any frame length, lead, capacity, reply length and stall bound). `IInv`
  adds `Accounting`: every tick was played or quiet, every frame sent is queued, played or dropped.
  From it: `PacingTypeOK`, `NeverAheadOfSchedule`, `BacklogIsBounded`, and `NothingDropped`, whose
  step case needs the backlog bound in the state before a frame arrives.
* **`AdmissionProofs`** (any finite set of sockets, any devices, cap, cooldown and tracker size).
  `IInv` has three parts. `PoolOK` keeps running, queued and refused connections apart, without
  which a refused one could give back a permit it never had. `RowsOK` adds that session numbers are
  not used again and that a lost number belongs to nobody, without which taking one row off could
  take off another's. `GatesOK` adds that the tracker's age of a hit is the time since the device
  passed, and `TokensOK` that the age of a token is the time since it was handed out as long as
  nobody set the clock; together they give `GatesExact`, an action property. Lemmas bound what
  `Without` and `Hit` do to the tracker. From it: `AdmissionTypeOK`, `PermitsMatchSessions`,
  `RowsMatchSessions`, `ActiveMatchesRows`, `GatesExact`.
* **`DeviceStoreProofs`** (any workers, devices and stamps). `IInv` adds `Locking` (whoever is
  between acquire and release holds the lock, and nobody else does) and `Snapshot` (what the holder
  read is still what is on disk unless its read failed, and the temporary file holds what it will
  rename). From it: `StoreTypeOK`, `FileStaysWhole`, `TouchesAreStored`, and
  `StoreImplementsRegistry`: `Replace` is the one step that maps to a touch of `Registry` (or to
  starting it anew after a failed read), `Load` and `Leave` map to the blindness of a worker, all
  others stutter.

* **`ConversationProofs`** (any sessions, rounds, turns and calls, replies with any number of
  calls, any devices and any cap on the tracked ones). `IInv` is about each session alone.
  `RequestsPaired` speaks of requests only; between two of them a reply is being served, and
  `Calling` says which of its calls have their results by then: one at once for OpenAI, none until
  the last for Anthropic. `Grown` (the messages are the history with one turn more) gives the action
  property. Every step is first reduced to `Moves`, what it does to one session; `Speaks` adds what
  the loop remembers of the history while a turn runs. None of this needs the reminders. `MInv`, about
  the mirror, needs of the loop only where its call is: a call that is out is the last request on
  the wire and the only one awaited (`OneCall`), and the mirror becomes the device's list once the
  answer that is there is taken (`InStep`). Lemmas say what adding, removing and forgetting an entry
  of the mirror does to the others. From it: `EveryRequestPaired`, `HistoryIsKept`,
  `NewestIsSpoken`, `MirrorIsExplained`. `Ledger` is about the counter: the reminders the devices made
  and the creations still on their way are together no more than what was counted. A reminder
  is told apart by device and id, a request on its way by device and place in the queue, so that
  a call adds one element; when the device serves one, the others move up and are as many. From it `EveryReminderCounted`, for any set
  of devices and any ids above 0.
* **`ProviderProofs`** has a part for each of the two providers, which share nothing.
  *Edge TTS* (any expansion, any pipe sizes, any length): `IInv` adds `Accounted` (every block the fed
  chunks stand for is in a pipe, in ffmpeg, or handed on), `FfmpegEnds` (what it takes for ffmpeg to end
  by itself) and `Finally` (how far the generator has come in its finally). From it: `EdgeTypeOK`,
  `NothingIsLeft`, `AudioIsWhole`. *Whisper* (any finite set of calls, any number of workers, any integer
  setting): `AsrInv` adds `LoadsUnderLock`: who holds the lock is who builds, and the model is not ready
  meanwhile. From it: `RecognizerTypeOK`, `ModelBuiltOnce`, `ParallelismKept`.

Proved and not run: the type invariants, the bounds `AheadOfSchedule`, `BacklogBounded` and `ActiveIsRows`,
and `OneStopPerTurn`, `DeviceReleasedIfFast` and `ToolsAllOrNothing`, which follow from the refinements
that are run (`ImplementsVoice`, `ImplementsRpc`). Every invariant and every action property that a
passing run checks is proved, and so are all four refinements.

Only model-checked: the liveness properties (`CancelEndsTurn312`, `TeardownCompletes`, `QueueMoves`,
`CallsReturn`, `GateOpens`, `AllSpoken`, `LockComesBack`, `CloseCompletes`, `PlaysOut`,
`NeverWedges`), because liveness under fairness is outside the prover.

## 6. Not modelled, and the plan

The plan was: `Session`, `TurnSlots`, `McpBridge`, `TtsPacing`, `DeviceStore`, `Admission`; then
`ToolLoop` with `Reminders`, composed as `Conversation`; then `EdgeTts`, `WhisperAsr` and
`DeviceTokens`; each with its runs before its proofs. All of it is done. What is left, the most
important first:

1. `Session` and `WhisperAsr` composed. `SlotOnlyInPipeline` bounds what outlives a session's permit
   (`ws.py` 100) for the turn slot; the Whisper thread of an abandoned turn is only bounded by
   `InferenceBounded`.
2. `TurnSlots` with a queue timeout of 0 (`session.py` 572), which needs a `SlotPool` that may refuse a
   turn without having queued it.
3. In `live_state.py`: the transcript ring and the hourly buckets of the reminder chart; in
   `metrics.py`: the latency ring. They are bounded containers that only the dashboard reads.

Not modelled and not planned: the dashboard page (one HTML/JavaScript string that polls), the HTTP
responses other than OTA's, configuration parsing, logging, the Opus codec and the resampler, the
signature inside a token, the mapping of tool names for the LLM, the Windows setup script and the
simulator's command line. They hold no state another part depends on, or are libraries.
