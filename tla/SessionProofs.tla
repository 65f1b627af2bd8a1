--------------------------- MODULE SessionProofs ---------------------------
(***************************************************************************)
(* Safety of one connection for every number of turns, every mic cap and   *)
(* every set of deployments.                                               *)
(*                                                                         *)
(* A turn's step is first reduced to what the invariants can tell of it    *)
(* (TurnShape), and so is a step of the main task (MainShape); the         *)
(* invariants are then proved against these two shapes only.  What a step  *)
(* does to the turn counters (Tally) is a third.                           *)
(***************************************************************************)
EXTENDS Session, FiniteSetTheorems, TLAPS

Voiced == {"say1", "say2", "stream", "stop", "drain", "close"}
Piped  == {"llm", "say1", "say2", "stream", "stop"}

\* What holds of one turn's record, whatever the others do.
TurnOK(r) ==
    /\ r \in TurnRec
    /\ r.stops # 0 => r.stops = 1 /\ r.pc \in {"drain", "close", "done"}
    /\ r.pc \in Voiced => r.entered
    /\ r.slot => r.pc \in Piped
    /\ r.pc \in {"asr", "stt"} => r.source = "audio"
    /\ r.pc = "guard" => r.cancelled

TurnsOK == turns \in [Turn -> TurnRec] /\ \A t \in Turn : TurnOK(turns[t])

\* Only the current turn can be alive, and no later one was ever spawned.
OnlyCurrent ==
    /\ \A t \in Turn : Live(t) => t = current
    /\ \A t \in Turn : t > current => turns[t].pc = "idle"

\* A reminder turn that reaches its close has closed the socket.
HangsUp ==
    \A t \in Turn :
        \/ turns[t].pc = "close"
        \/ turns[t].pc = "done" /\ turns[t].source = "reminder" /\ ~turns[t].cancelled
        => ~ws

\* On a fast socket no turn is cancelled inside a send, and a speaking device has a turn
\* that is still to send it a stop.
Speaker ==
    ~env.slow /\ CanSend =>
        /\ \A t \in Turn : turns[t].pc \in SendPc => ~turns[t].cancel
        /\ device.speaking => \E t \in Turn : turns[t].pc \in {"stream", "stop"}

Rest ==
    /\ env \in Deployments
    /\ main \in {"accepted", "handshake", "loop", "leaving", "closing", "ended"}
    /\ ws \in BOOLEAN /\ closed \in BOOLEAN
    /\ listening \in BOOLEAN /\ mic \in 0..MicCap /\ notified \in BOOLEAN
    /\ current \in 0..MaxTurns
    /\ row \in RowState
    /\ metrics \in [Counter -> Nat]
    /\ device \in [speaking : BOOLEAN, barge : BOOLEAN]

IInv ==
    /\ Rest /\ TurnsOK /\ OnlyCurrent /\ RowTracksTurn /\ HangsUp /\ Speaker

----------------------------------------------------------------------------
(* The shape of a turn's step *)

OthersSame(t) == \A u \in Turn \ {t} : turns'[u] = turns[u]

TurnShape(t) ==
    LET r == turns[t]
        q == turns'[t]
    IN  /\ Live(t)
        /\ turns' \in [Turn -> TurnRec] /\ OthersSame(t) /\ TurnOK(q)
        /\ ~q.cancel /\ q.source = r.source /\ q.pc \notin {"new", "idle"}
        /\ UNCHANGED <<env, main, current, cycle>>
        /\ ws' = ws \/ ws' = FALSE
        /\ q.pc = "close" => ~ws'
        /\ q.pc = "done" => q.cancelled \/ q.source # "reminder" \/ r.pc = "close"

\* The row, and whether the turn goes on.
RowShape(t) ==
    \/ row' = row /\ turns'[t].pc \in LivePc \cup {"unrun", "torn"}
    \/ row' \in {"none", "idle"}
    \/ row' = "speaking" /\ turns'[t].pc \in LivePc

\* The device, and whether its stop is still to come.
DeviceShape(t) ==
    /\ device' \in [speaking : BOOLEAN, barge : BOOLEAN] /\ closed' \in BOOLEAN
    /\ CanSend' => CanSend
    /\ ~env.slow /\ CanSend' /\ (turns[t].pc \in SendPc => ~turns[t].cancel) /\ device'.speaking =>
          \/ turns'[t].pc = "stream"
          \/ /\ device.speaking
             /\ turns[t].pc \in {"stream", "stop"} => turns'[t].pc = "stop"

Shape(t) == TurnShape(t) /\ RowShape(t) /\ DeviceShape(t) /\ metrics' \in [Counter -> Nat]

LEMMA GotoFacts ==
    ASSUME TurnsOK, NEW t \in Turn, NEW r \in TurnRec, NEW p \in Pc, Goto(t, r, p)
    PROVE  /\ turns' \in [Turn -> TurnRec] /\ OthersSame(t)
           /\ turns'[t].pc = p /\ turns'[t].cancel = r.cancel
           /\ turns'[t].cancelled = r.cancelled /\ turns'[t].source = r.source
           /\ turns'[t].slot = r.slot /\ turns'[t].entered = r.entered
           /\ turns'[t].stops = r.stops
<1>1. turns' = [turns EXCEPT ![t] = [r EXCEPT !.pc = p]]
  BY DEF Goto
<1>2. turns'[t] = [r EXCEPT !.pc = p]
  BY <1>1 DEF TurnsOK
<1>3. [r EXCEPT !.pc = p] \in TurnRec
  BY DEF TurnRec
<1>4. turns' \in [Turn -> TurnRec] /\ OthersSame(t)
  BY <1>1, <1>3 DEF TurnsOK, OthersSame
<1>5. /\ turns'[t].pc = p /\ turns'[t].cancel = r.cancel
      /\ turns'[t].cancelled = r.cancelled /\ turns'[t].source = r.source
      /\ turns'[t].slot = r.slot /\ turns'[t].entered = r.entered
      /\ turns'[t].stops = r.stops
  BY <1>2 DEF TurnRec
<1> QED
  BY <1>4, <1>5

\* A record r whose turn may go to p.
Fits(r, p) ==
    /\ r.stops # 0 => r.stops = 1 /\ p \in {"drain", "close", "done"}
    /\ p \in Voiced => r.entered
    /\ r.slot => p \in Piped
    /\ p \in {"asr", "stt"} => r.source = "audio"
    /\ p = "guard" => r.cancelled

LEMMA GotoOK ==
    ASSUME TurnsOK, NEW t \in Turn, NEW r \in TurnRec, NEW p \in Pc, Goto(t, r, p), Fits(r, p)
    PROVE  TurnOK(turns'[t])
<1>1. turns'[t] \in TurnRec
  BY GotoFacts
<1>2. /\ turns'[t].pc = p /\ turns'[t].source = r.source /\ turns'[t].slot = r.slot
      /\ turns'[t].entered = r.entered /\ turns'[t].stops = r.stops
      /\ turns'[t].cancelled = r.cancelled
  BY GotoFacts
<1> QED
  BY <1>1, <1>2 DEF TurnOK, Fits

LEMMA BumpType ==
    ASSUME NEW m \in [Counter -> Nat], NEW c \in Counter
    PROVE  Bump(m, c) \in [Counter -> Nat]
BY DEF Bump

\* What the steps of a turn leave alone, the send and the row aside.
Quiet == UNCHANGED <<env, main, current, cycle, ws>>

Common(t) == TurnShape(t) /\ RowShape(t) /\ metrics' \in [Counter -> Nat]

\* The outer finally ends a turn that has sent at most one stop.
LEMMA FinishShape ==
    ASSUME Rest, TurnsOK, NEW t \in Turn, NEW r \in TurnRec, NEW how \in Counter,
           Finish(t, r, how), Live(t), Quiet, r.source = turns[t].source, r.stops \in {0, 1},
           r.cancelled \/ r.source # "reminder" \/ turns[t].pc = "close"
    PROVE  Common(t) /\ turns'[t].pc = "done"
<1> DEFINE q == [r EXCEPT !.slot = FALSE, !.cancel = FALSE]
<1>1. /\ q \in TurnRec /\ q.cancelled = r.cancelled /\ q.source = r.source
      /\ ~q.slot /\ ~q.cancel /\ q.stops = r.stops
  BY DEF TurnRec
<1>2. Goto(t, q, "done")
  BY DEF Finish
<1>3. "done" \in Pc /\ "done" \notin Voiced
  BY DEF Pc, Voiced
<1> HIDE DEF q
<1>4. Fits(q, "done")
  BY <1>1, <1>3 DEF Fits
<1>5. /\ turns' \in [Turn -> TurnRec] /\ OthersSame(t) /\ TurnOK(turns'[t])
      /\ turns'[t].pc = "done" /\ turns'[t].cancelled = r.cancelled
      /\ turns'[t].source = r.source /\ ~turns'[t].cancel
  BY <1>1, <1>2, <1>3, <1>4, GotoFacts, GotoOK
<1>6. TurnShape(t)
  BY <1>5 DEF TurnShape, Quiet
<1>7. RowShape(t)
  BY DEF RowShape, Finish, SetRow, RowAs, Rest
<1>8. metrics' \in [Counter -> Nat]
  BY BumpType DEF Finish, Rest
<1> QED
  BY <1>5, <1>6, <1>7, <1>8 DEF Common

\* Any other step: the turn goes on to p, or is over without its finally.
LEMMA GoOnShape ==
    ASSUME Rest, TurnsOK, NEW t \in Turn, NEW r \in TurnRec, NEW p \in Pc, Goto(t, r, p), Live(t),
           Quiet, ~r.cancel, r.source = turns[t].source, Fits(r, p),
           p \notin {"new", "idle", "done", "close"}, metrics' \in [Counter -> Nat],
           row' = row \/ (SetRow("speaking") /\ p \in LivePc)
    PROVE  Common(t) /\ turns'[t].pc = p
<1>1. /\ turns' \in [Turn -> TurnRec] /\ OthersSame(t) /\ TurnOK(turns'[t]) /\ turns'[t].pc = p
      /\ turns'[t].source = r.source /\ ~turns'[t].cancel
  BY GotoFacts, GotoOK
<1>2. TurnShape(t)
  BY <1>1 DEF TurnShape, Quiet
<1>3. p \in LivePc \cup {"unrun", "torn"}
  BY DEF Pc
<1>4. RowShape(t)
  BY <1>1, <1>3 DEF RowShape, SetRow, RowAs
<1> QED
  BY <1>1, <1>2, <1>4 DEF Common

LEMMA UnwindShape ==
    ASSUME Rest, TurnsOK, NEW t \in Turn, NEW r \in TurnRec, Unwind(t, r), Live(t), Quiet,
           r.cancelled, r.source = turns[t].source, r.stops \in {0, 1}, r.stops = 0 \/ r.entered
    PROVE  Common(t) /\ turns'[t].pc \in {"guard", "done"} /\ (r.entered => turns'[t].pc = "done")
<1>1. CASE NeedsGuardStop(r)
  <2> DEFINE q == [r EXCEPT !.slot = FALSE, !.cancel = FALSE]
  <2>1. q \in TurnRec /\ ~q.cancel /\ ~q.slot /\ q.source = r.source /\ q.stops = r.stops /\ q.cancelled
    BY DEF TurnRec
  <2>2. Goto(t, q, "guard") /\ UNCHANGED <<row, metrics>>
    BY <1>1 DEF Unwind
  <2>3. "guard" \in Pc /\ "guard" \notin Voiced
    BY DEF Pc, LivePc, SendPc, Voiced
  <2> HIDE DEF q
  <2>4. Fits(q, "guard")
    BY <1>1, <2>1, <2>3 DEF Fits, NeedsGuardStop
  <2>5. row' = row /\ metrics' \in [Counter -> Nat]
    BY <2>2 DEF Rest
  <2>6. Common(t) /\ turns'[t].pc = "guard"
    BY <2>1, <2>2, <2>3, <2>4, <2>5, GoOnShape
  <2> QED
    BY <1>1, <2>6 DEF NeedsGuardStop
<1>2. CASE ~NeedsGuardStop(r)
  BY <1>2, FinishShape DEF Unwind, Counter
<1> QED
  BY <1>1, <1>2

LEMMA AfterTtsShape ==
    ASSUME Rest, TurnsOK, NEW t \in Turn, NEW r \in TurnRec, NEW shown,
           AfterTts(t, r, shown), shown \in {row, RowAs("speaking")}, Live(t), Quiet, ~r.cancel,
           r.source = turns[t].source, r.stops \in {0, 1}, r.entered
    PROVE  Common(t) /\ turns'[t].pc \in {"drain", "done"}
<1>1. CASE r.source = "reminder"
  <2> DEFINE q == [r EXCEPT !.slot = FALSE]
  <2>1. /\ q \in TurnRec /\ ~q.cancel /\ ~q.slot /\ q.source = r.source /\ q.entered
        /\ q.stops \in {0, 1}
    BY DEF TurnRec
  <2>2. Goto(t, q, "drain") /\ row' = shown /\ UNCHANGED metrics
    BY <1>1 DEF AfterTts
  <2>3. "drain" \in Pc /\ "drain" \in LivePc
    BY DEF LivePc, SendPc, Pc
  <2> HIDE DEF q
  <2>4. Fits(q, "drain")
    BY <2>1 DEF Fits
  <2>5. metrics' \in [Counter -> Nat]
    BY <2>2 DEF Rest
  <2>6. row' = row \/ (SetRow("speaking") /\ "drain" \in LivePc)
    BY <2>2, <2>3 DEF SetRow
  <2> QED
    BY <2>1, <2>2, <2>3, <2>4, <2>5, <2>6, GoOnShape
<1>2. CASE r.source # "reminder"
  BY <1>2, FinishShape DEF AfterTts, Counter
<1> QED
  BY <1>1, <1>2

LEMMA SpeakShape ==
    ASSUME Rest, TurnsOK, NEW t \in Turn, NEW blank \in BOOLEAN, Speak(t, blank), Live(t), Quiet,
           ~turns[t].cancel, turns[t].stops = 0
    PROVE  Common(t) /\ turns'[t].pc \in {"drain", "done", "say1"}
<1> DEFINE r == [turns[t] EXCEPT !.entered = TRUE]
<1>1. /\ r \in TurnRec /\ r.entered /\ ~r.cancel /\ r.source = turns[t].source
      /\ r.stops = 0 /\ r.stops \in {0, 1}
  BY DEF TurnRec, TurnsOK
<1>2. CASE blank
  <2>1. AfterTts(t, r, RowAs("speaking"))
    BY <1>2 DEF Speak
  <2> HIDE DEF r
  <2> QED
    BY <1>1, <2>1, AfterTtsShape
<1>3. CASE ~blank
  <2>1. Goto(t, r, "say1") /\ SetRow("speaking") /\ UNCHANGED metrics
    BY <1>3 DEF Speak
  <2>2. "say1" \in LivePc /\ "say1" \in Pc /\ "say1" \in Piped
    BY DEF LivePc, SendPc, Pc, Piped
  <2> HIDE DEF r
  <2>3. Fits(r, "say1")
    BY <1>1, <2>2 DEF Fits
  <2>4. metrics' \in [Counter -> Nat]
    BY <2>1 DEF Rest
  <2> QED
    BY <1>1, <2>1, <2>2, <2>3, <2>4, GoOnShape
<1> QED
  BY <1>2, <1>3

----------------------------------------------------------------------------
(* Every step of a turn has that shape *)

LEMMA AtFacts ==
    ASSUME TurnsOK, NEW t \in Turn, NEW p \in LivePc, At(t, p)
    PROVE  /\ turns[t] \in TurnRec /\ TurnOK(turns[t]) /\ Live(t)
           /\ turns[t].pc = p /\ ~turns[t].cancel
           /\ p \notin {"drain", "close", "done"} => turns[t].stops = 0 /\ turns[t].stops \in {0, 1}
           /\ turns[t].stops \in {0, 1}
BY DEF At, TurnsOK, Live, TurnOK

LEMMA CancelFacts ==
    ASSUME TurnsOK, NEW t \in Turn, NEW ps \in SUBSET LivePc, CancelAt(t, ps)
    PROVE  /\ Delivered(t) \in TurnRec /\ TurnOK(turns[t]) /\ Live(t) /\ turns[t].pc \in ps
           /\ ~Delivered(t).cancel /\ Delivered(t).cancelled /\ turns[t].cancel
           /\ Delivered(t).source = turns[t].source /\ Delivered(t).slot = turns[t].slot
           /\ Delivered(t).entered = turns[t].entered /\ Delivered(t).stops = turns[t].stops
           /\ Delivered(t).stops \in {0, 1}
<1>1. turns[t] \in TurnRec /\ TurnOK(turns[t]) /\ Live(t) /\ turns[t].pc \in ps /\ turns[t].cancel
  BY DEF CancelAt, TurnsOK, Live
<1>2. turns[t].stops \in {0, 1}
  BY <1>1 DEF TurnOK
<1> QED
  BY <1>1, <1>2 DEF Delivered, TurnRec

LEMMA SendFacts ==
    ASSUME Rest, NEW d \in [speaking : BOOLEAN, barge : BOOLEAN], Send(d), UNCHANGED ws
    PROVE  /\ device' \in [speaking : BOOLEAN, barge : BOOLEAN] /\ closed' \in BOOLEAN
           /\ CanSend' => CanSend /\ device' = d
BY DEF Send, Rest, CanSend

\* The device hears nothing of a step outside the spoken part of a reply.
LEMMA UnheardShape ==
    ASSUME Rest, NEW t \in Turn, UNCHANGED <<device, closed>>, UNCHANGED ws \/ ~ws',
           turns[t].pc \notin {"stream", "stop"}
    PROVE  DeviceShape(t)
BY DEF DeviceShape, Rest, CanSend

LEMMA BeginShape == ASSUME Rest, TurnsOK, NEW t \in Turn, Begin(t) PROVE Shape(t)
<1>1. /\ turns[t] \in TurnRec /\ Live(t) /\ turns[t].pc = "new" /\ ~turns[t].cancel
      /\ turns[t].stops = 0 /\ ~turns[t].slot
  BY AtFacts DEF Begin, LivePc, TurnOK, Piped
<1>2. Quiet /\ UNCHANGED <<closed, device, ws>>
  BY DEF Begin, Quiet, link
<1>3. metrics' \in [Counter -> Nat]
  BY BumpType DEF Begin, Rest, Counter
<1>4. PICK p \in {"asr", "done", "tools"} :
          /\ Goto(t, turns[t], p)
          /\ p = "asr" => turns[t].source = "audio"
          /\ p = "done" => turns[t].source = "blank" /\ SetRow("idle")
          /\ p # "done" => UNCHANGED row
  BY DEF Begin
<1>5. p \in Pc /\ p \notin Voiced
  BY DEF Pc, LivePc, SendPc, Voiced
<1>6. Fits(turns[t], p)
  BY <1>1, <1>4, <1>5 DEF Fits
<1>7. ASSUME p = "done" PROVE Common(t)
  <2>1. /\ turns' \in [Turn -> TurnRec] /\ OthersSame(t) /\ TurnOK(turns'[t])
        /\ turns'[t].pc = "done" /\ turns'[t].source = turns[t].source /\ ~turns'[t].cancel
    BY <1>1, <1>4, <1>5, <1>6, <1>7, GotoFacts, GotoOK
  <2>2. TurnShape(t)
    BY <1>1, <1>2, <1>4, <1>7, <2>1 DEF TurnShape, Quiet
  <2>3. RowShape(t)
    BY <1>4, <1>7 DEF RowShape, SetRow, RowAs
  <2> QED
    BY <1>3, <2>2, <2>3 DEF Common
<1>8. ASSUME p # "done" PROVE Common(t)
  BY <1>1, <1>2, <1>3, <1>4, <1>5, <1>6, <1>8, GoOnShape
<1> QED
  BY <1>1, <1>2, <1>3, <1>7, <1>8, UnheardShape DEF Shape, Common

LEMMA AsrShape == ASSUME Rest, TurnsOK, NEW t \in Turn, AsrReturns(t) PROVE Shape(t)
<1>1. /\ turns[t] \in TurnRec /\ Live(t) /\ turns[t].pc = "asr" /\ ~turns[t].cancel
      /\ turns[t].stops = 0 /\ turns[t].stops \in {0, 1} /\ ~turns[t].slot /\ turns[t].source = "audio"
  BY AtFacts DEF AsrReturns, LivePc, TurnOK, Piped
<1>2. Quiet /\ UNCHANGED <<closed, device, ws>>
  BY DEF AsrReturns, Quiet, link
<1>3. CASE Goto(t, turns[t], "stt") /\ UNCHANGED <<row, metrics>>
  <2>1. Fits(turns[t], "stt") /\ "stt" \in Pc
    BY <1>1 DEF Fits, Voiced, Pc, LivePc, SendPc
  <2> QED
    BY <1>1, <1>2, <1>3, <2>1, GoOnShape, UnheardShape DEF Shape, Common, Rest
<1>4. CASE Finish(t, turns[t], "turns_completed")
  <2>1. Common(t)
    BY <1>1, <1>2, <1>4, FinishShape DEF Counter
  <2> QED
    BY <1>1, <1>2, <2>1, UnheardShape DEF Shape, Common
<1>5. \/ Goto(t, turns[t], "stt") /\ UNCHANGED <<row, metrics>>
      \/ Finish(t, turns[t], "turns_completed")
  BY DEF AsrReturns
<1> QED
  BY <1>3, <1>4, <1>5

LEMMA ToolsWaitedShape == ASSUME Rest, TurnsOK, NEW t \in Turn, ToolsWaited(t) PROVE Shape(t)
<1>1. /\ turns[t] \in TurnRec /\ Live(t) /\ turns[t].pc = "tools" /\ ~turns[t].cancel
      /\ turns[t].stops = 0 /\ ~turns[t].slot
  BY AtFacts DEF ToolsWaited, LivePc, TurnOK, Piped
<1>2. Fits(turns[t], "slot") /\ "slot" \in Pc
  BY <1>1 DEF Fits, Voiced, Pc, LivePc, SendPc
<1>3. Quiet /\ UNCHANGED <<closed, device, ws>> /\ Goto(t, turns[t], "slot") /\ row' = row /\ metrics' = metrics
  BY DEF ToolsWaited, Quiet, link
<1> QED
  BY <1>1, <1>2, <1>3, GoOnShape, UnheardShape DEF Shape, Common, Rest

LEMMA SlotGrantedShape == ASSUME Rest, TurnsOK, NEW t \in Turn, SlotGranted(t) PROVE Shape(t)
<1>1. /\ turns[t] \in TurnRec /\ Live(t) /\ turns[t].pc = "slot" /\ ~turns[t].cancel
      /\ turns[t].stops = 0
  BY AtFacts DEF SlotGranted, LivePc
<1> DEFINE r == [turns[t] EXCEPT !.slot = TRUE]
<1>2. r \in TurnRec /\ ~r.cancel /\ r.source = turns[t].source /\ r.stops = 0
  BY <1>1 DEF TurnRec
<1>3. /\ Quiet /\ UNCHANGED <<closed, device, ws>> /\ Goto(t, r, "llm")
      /\ row' = row /\ metrics' = metrics
  BY DEF SlotGranted, Quiet, link
<1> HIDE DEF r
<1>4. Fits(r, "llm") /\ "llm" \in Pc
  BY <1>2 DEF Fits, Voiced, Piped, Pc, LivePc, SendPc
<1> QED
  BY <1>1, <1>2, <1>3, <1>4, GoOnShape, UnheardShape DEF Shape, Common, Rest

LEMMA SlotTimeoutShape == ASSUME Rest, TurnsOK, NEW t \in Turn, SlotTimeout(t) PROVE Shape(t)
<1>1. Live(t) /\ turns[t].pc = "slot" /\ ~turns[t].cancel /\ turns[t].stops = 0
  BY AtFacts DEF SlotTimeout, LivePc
<1>2. Quiet /\ UNCHANGED <<closed, device, ws>> /\ Speak(t, FALSE)
  BY DEF SlotTimeout, Quiet, link
<1> QED
  BY <1>1, <1>2, SpeakShape, UnheardShape DEF Shape, Common

LEMMA LlmShape == ASSUME Rest, TurnsOK, NEW t \in Turn, LlmReturns(t) PROVE Shape(t)
<1>1. Live(t) /\ turns[t].pc = "llm" /\ ~turns[t].cancel /\ turns[t].stops = 0
  BY AtFacts DEF LlmReturns, LivePc
<1>2. Quiet /\ UNCHANGED <<closed, device, ws>> /\ \E blank \in BOOLEAN : Speak(t, blank)
  BY DEF LlmReturns, Quiet, link
<1> QED
  BY <1>1, <1>2, SpeakShape, UnheardShape DEF Shape, Common

LEMMA SttShape == ASSUME Rest, TurnsOK, NEW t \in Turn, SttSent(t) PROVE Shape(t)
<1>1. /\ turns[t] \in TurnRec /\ Live(t) /\ turns[t].pc = "stt" /\ ~turns[t].cancel
      /\ turns[t].stops = 0 /\ ~turns[t].slot
  BY AtFacts DEF SttSent, LivePc, SendPc, TurnOK, Piped
<1>2. /\ Quiet /\ Send(device) /\ Goto(t, turns[t], "tools")
      /\ row' = row /\ metrics' = metrics /\ ws' = ws
  BY DEF SttSent, Quiet
<1>3. Fits(turns[t], "tools") /\ "tools" \in Pc
  BY <1>1 DEF Fits, Voiced, Pc, LivePc, SendPc
<1>4. Common(t)
  BY <1>1, <1>2, <1>3, GoOnShape DEF Rest
<1>5. DeviceShape(t)
  BY <1>1, <1>2, SendFacts DEF DeviceShape, Rest
<1> QED
  BY <1>4, <1>5 DEF Shape, Common

LEMMA SentenceStartShape == ASSUME Rest, TurnsOK, NEW t \in Turn, SentenceStartSent(t) PROVE Shape(t)
<1>1. /\ turns[t] \in TurnRec /\ Live(t) /\ turns[t].pc = "say1" /\ ~turns[t].cancel
      /\ turns[t].stops = 0 /\ turns[t].entered
  BY AtFacts DEF SentenceStartSent, LivePc, SendPc, TurnOK, Voiced
<1>2. /\ Quiet /\ Send(device) /\ Goto(t, turns[t], "say2")
      /\ row' = row /\ metrics' = metrics /\ ws' = ws
  BY DEF SentenceStartSent, Quiet
<1>3. Fits(turns[t], "say2") /\ "say2" \in Pc
  BY <1>1 DEF Fits, Voiced, Piped, Pc, LivePc, SendPc
<1>4. Common(t)
  BY <1>1, <1>2, <1>3, GoOnShape DEF Rest
<1>5. DeviceShape(t)
  BY <1>1, <1>2, SendFacts DEF DeviceShape, Rest
<1> QED
  BY <1>4, <1>5 DEF Shape, Common

LEMMA TtsStartShape == ASSUME Rest, TurnsOK, NEW t \in Turn, TtsStartSent(t) PROVE Shape(t)
<1>1. /\ turns[t] \in TurnRec /\ Live(t) /\ turns[t].pc = "say2" /\ ~turns[t].cancel
      /\ turns[t].stops = 0 /\ turns[t].entered
  BY AtFacts DEF TtsStartSent, LivePc, SendPc, TurnOK, Voiced
<1> DEFINE d == [device EXCEPT !.speaking = TRUE]
<1>2. /\ Quiet /\ Send(d) /\ Goto(t, turns[t], "stream")
      /\ row' = row /\ metrics' = metrics /\ ws' = ws
  BY DEF TtsStartSent, Quiet
<1>3. d \in [speaking : BOOLEAN, barge : BOOLEAN]
  BY DEF Rest
<1>4. Fits(turns[t], "stream") /\ "stream" \in Pc
  BY <1>1 DEF Fits, Voiced, Piped, Pc, LivePc, SendPc
<1> HIDE DEF d
<1>5. Common(t) /\ turns'[t].pc = "stream"
  BY <1>1, <1>2, <1>4, GoOnShape DEF Rest
<1>6. DeviceShape(t)
  BY <1>2, <1>3, <1>5, SendFacts DEF DeviceShape
<1> QED
  BY <1>5, <1>6 DEF Shape, Common

LEMMA EmitShape == ASSUME Rest, TurnsOK, NEW t \in Turn, Emit(t) PROVE Shape(t)
<1>1. /\ turns[t] \in TurnRec /\ TurnOK(turns[t]) /\ Live(t)
      /\ turns[t].pc = "stream" /\ ~turns[t].cancel
  BY AtFacts DEF Emit, LivePc
<1>2. Quiet /\ Send(device) /\ turns' = turns /\ row' = row /\ metrics' = metrics /\ ws' = ws
  BY DEF Emit, Quiet
<1>3. TurnShape(t)
  BY <1>1, <1>2 DEF TurnShape, OthersSame, Quiet, TurnsOK
<1>4. RowShape(t)
  BY <1>1, <1>2 DEF RowShape, LivePc
<1>5. DeviceShape(t)
  BY <1>1, <1>2, SendFacts DEF DeviceShape, Rest
<1> QED
  BY <1>2, <1>3, <1>4, <1>5 DEF Shape, Rest

LEMMA StreamEndsShape == ASSUME Rest, TurnsOK, NEW t \in Turn, StreamEnds(t) PROVE Shape(t)
<1>1. /\ turns[t] \in TurnRec /\ Live(t) /\ turns[t].pc = "stream" /\ ~turns[t].cancel
      /\ turns[t].stops = 0 /\ turns[t].entered
  BY AtFacts DEF StreamEnds, LivePc, TurnOK, Voiced
<1>2. /\ Quiet /\ UNCHANGED <<device, closed, ws>> /\ Goto(t, turns[t], "stop")
      /\ row' = row /\ metrics' = metrics
  BY DEF StreamEnds, Quiet, link
<1>3. Fits(turns[t], "stop") /\ "stop" \in Pc
  BY <1>1 DEF Fits, Voiced, Piped, Pc, LivePc, SendPc
<1>4. Common(t) /\ turns'[t].pc = "stop"
  BY <1>1, <1>2, <1>3, GoOnShape DEF Rest
<1>5. DeviceShape(t)
  BY <1>2, <1>4 DEF DeviceShape, Rest, CanSend
<1> QED
  BY <1>4, <1>5 DEF Shape, Common

LEMMA StoppedFacts ==
    ASSUME NEW r \in TurnRec, r.stops = 0
    PROVE  /\ Stopped(r) \in TurnRec /\ Stopped(r).stops \in {0, 1}
           /\ Stopped(r).cancel = r.cancel /\ Stopped(r).cancelled = r.cancelled
           /\ Stopped(r).source = r.source /\ Stopped(r).entered = r.entered
BY DEF Stopped, TurnRec

LEMMA TtsStopShape == ASSUME Rest, TurnsOK, NEW t \in Turn, TtsStopSent(t) PROVE Shape(t)
<1>1. /\ turns[t] \in TurnRec /\ Live(t) /\ turns[t].pc = "stop" /\ ~turns[t].cancel
      /\ turns[t].stops = 0 /\ turns[t].entered
  BY AtFacts DEF TtsStopSent, LivePc, SendPc, TurnOK, Voiced
<1> DEFINE d == [device EXCEPT !.speaking = FALSE]
           r == Stopped(turns[t])
<1>2. /\ Quiet /\ Send(d) /\ ws' = ws
      /\ IF r.cancelled THEN Unwind(t, r) ELSE AfterTts(t, r, row)
  BY DEF TtsStopSent, Quiet
<1>3. d \in [speaking : BOOLEAN, barge : BOOLEAN] /\ ~d.speaking
  BY DEF Rest
<1>4. /\ r \in TurnRec /\ r.stops \in {0, 1} /\ ~r.cancel /\ r.cancelled \in BOOLEAN
      /\ r.source = turns[t].source /\ r.entered
  BY <1>1, StoppedFacts DEF TurnRec
<1> HIDE DEF d, r
<1>5. Common(t)
  BY <1>1, <1>2, <1>4, UnwindShape, AfterTtsShape
<1>6. DeviceShape(t)
  BY <1>2, <1>3, SendFacts DEF DeviceShape
<1> QED
  BY <1>5, <1>6 DEF Shape, Common

LEMMA DrainedShape == ASSUME Rest, TurnsOK, NEW t \in Turn, Drained(t) PROVE Shape(t)
<1>1. /\ turns[t] \in TurnRec /\ TurnOK(turns[t]) /\ Live(t)
      /\ turns[t].pc = "drain" /\ ~turns[t].cancel
  BY AtFacts DEF Drained, LivePc
<1>2. /\ Goto(t, turns[t], "close")
      /\ UNCHANGED <<env, main, closed, cycle, current, row, metrics, device>>
      /\ ws' = FALSE
  BY DEF Drained
<1>3. Fits(turns[t], "close") /\ "close" \in Pc /\ "close" \in LivePc
  BY <1>1 DEF Fits, TurnOK, Voiced, Piped, Pc, LivePc, SendPc
<1>4. /\ turns' \in [Turn -> TurnRec] /\ OthersSame(t) /\ TurnOK(turns'[t]) /\ turns'[t].pc = "close"
      /\ turns'[t].source = turns[t].source /\ ~turns'[t].cancel
  BY <1>1, <1>2, <1>3, GotoFacts, GotoOK
<1>5. TurnShape(t)
  BY <1>1, <1>2, <1>4 DEF TurnShape
<1>6. RowShape(t)
  BY <1>2, <1>3, <1>4 DEF RowShape
<1>7. DeviceShape(t)
  BY <1>1, <1>2, UnheardShape
<1> QED
  BY <1>2, <1>5, <1>6, <1>7 DEF Shape, Rest

LEMMA HungUpShape == ASSUME Rest, TurnsOK, NEW t \in Turn, HungUp(t) PROVE Shape(t)
<1>1. /\ turns[t] \in TurnRec /\ Live(t) /\ turns[t].pc = "close" /\ ~turns[t].cancel
      /\ turns[t].stops \in {0, 1}
  BY AtFacts DEF HungUp, LivePc
<1>2. Quiet /\ UNCHANGED <<closed, device, ws>> /\ Finish(t, turns[t], "turns_completed")
  BY DEF HungUp, Quiet, link
<1>3. Common(t)
  BY <1>1, <1>2, FinishShape DEF Counter
<1> QED
  BY <1>1, <1>2, <1>3, UnheardShape DEF Shape, Common

----------------------------------------------------------------------------
(* ... when a cancellation is delivered, too *)

LEMMA CancelUnrunShape == ASSUME Rest, TurnsOK, NEW t \in Turn, CancelUnrun(t) PROVE Shape(t)
<1> DEFINE r == Delivered(t)
<1>1. /\ r \in TurnRec /\ Live(t) /\ turns[t].pc = "new" /\ ~r.cancel
      /\ r.source = turns[t].source /\ r.stops = 0 /\ ~r.slot
  BY CancelFacts DEF CancelUnrun, LivePc, TurnOK, Piped
<1>2. Quiet /\ UNCHANGED <<closed, device, ws>> /\ Goto(t, r, "unrun") /\ row' = row /\ metrics' = metrics
  BY DEF CancelUnrun, Quiet, link
<1> HIDE DEF r
<1>3. Fits(r, "unrun") /\ "unrun" \in Pc
  BY <1>1 DEF Fits, Voiced, Pc
<1> QED
  BY <1>1, <1>2, <1>3, GoOnShape, UnheardShape DEF Shape, Common, Rest

LEMMA CancelInGuardShape == ASSUME Rest, TurnsOK, NEW t \in Turn, CancelInGuard(t) PROVE Shape(t)
<1> DEFINE r == Delivered(t)
<1>1. /\ r \in TurnRec /\ Live(t) /\ turns[t].pc = "guard" /\ ~r.cancel
      /\ r.source = turns[t].source /\ r.stops = 0 /\ ~r.slot
  BY CancelFacts DEF CancelInGuard, LivePc, SendPc, TurnOK, Piped
<1>2. Quiet /\ UNCHANGED <<closed, device, ws>> /\ Goto(t, r, "torn") /\ row' = row /\ metrics' = metrics
  BY DEF CancelInGuard, Quiet, link
<1> HIDE DEF r
<1>3. Fits(r, "torn") /\ "torn" \in Pc
  BY <1>1 DEF Fits, Voiced, Pc
<1> QED
  BY <1>1, <1>2, <1>3, GoOnShape, UnheardShape DEF Shape, Common, Rest

LEMMA CancelBeforeTtsShape == ASSUME Rest, TurnsOK, NEW t \in Turn, CancelBeforeTts(t) PROVE Shape(t)
<1> DEFINE ps == {"asr", "stt", "tools", "slot", "llm"}
<1>1. ps \in SUBSET LivePc /\ "stream" \notin ps /\ "stop" \notin ps
  BY DEF LivePc, SendPc
<1>2. /\ Delivered(t) \in TurnRec /\ Live(t) /\ turns[t].pc \in ps /\ Delivered(t).cancelled
      /\ Delivered(t).source = turns[t].source /\ Delivered(t).stops \in {0, 1}
      /\ Delivered(t).stops = 0
  BY <1>1, CancelFacts DEF CancelBeforeTts, TurnOK
<1>3. Quiet /\ UNCHANGED <<closed, device, ws>> /\ Unwind(t, Delivered(t))
  BY DEF CancelBeforeTts, Quiet, link
<1>4. Common(t)
  BY <1>2, <1>3, UnwindShape
<1> QED
  BY <1>1, <1>2, <1>3, <1>4, UnheardShape DEF Shape, Common

LEMMA CancelInStartShape == ASSUME Rest, TurnsOK, NEW t \in Turn, CancelInStart(t) PROVE Shape(t)
<1>1. {"say1", "say2"} \in SUBSET LivePc /\ {"say1", "say2"} \subseteq SendPc
  BY DEF LivePc, SendPc
<1>2. /\ Delivered(t) \in TurnRec /\ Live(t) /\ turns[t].pc \in {"say1", "say2"} /\ turns[t].cancel
      /\ Delivered(t).cancelled /\ Delivered(t).source = turns[t].source
      /\ Delivered(t).stops \in {0, 1} /\ Delivered(t).stops = 0
  BY <1>1, CancelFacts DEF CancelInStart, TurnOK
<1>3. /\ Quiet /\ UNCHANGED <<closed, ws>> /\ Unwind(t, Delivered(t))
      /\ device' \in [speaking : BOOLEAN, barge : BOOLEAN]
  BY DEF CancelInStart, Quiet, link, Rest
<1>4. Common(t)
  BY <1>2, <1>3, UnwindShape
<1>5. DeviceShape(t)
  BY <1>1, <1>2, <1>3 DEF DeviceShape, Rest, CanSend
<1> QED
  BY <1>4, <1>5 DEF Shape, Common

LEMMA CancelInStreamShape == ASSUME Rest, TurnsOK, NEW t \in Turn, CancelInStream(t) PROVE Shape(t)
<1>1. PICK r \in {Delivered(t), [turns[t] EXCEPT !.cancel = FALSE]} : Goto(t, r, "stop")
  BY DEF CancelInStream
<1>2. /\ Delivered(t) \in TurnRec /\ TurnOK(turns[t]) /\ Live(t) /\ turns[t].pc = "stream"
      /\ turns[t] \in TurnRec
  BY CancelFacts DEF CancelInStream, LivePc, TurnOK
<1>3. /\ r \in TurnRec /\ ~r.cancel /\ r.source = turns[t].source
      /\ r.stops = turns[t].stops /\ r.entered = turns[t].entered
  BY <1>2 DEF Delivered, TurnRec
<1>4. r.stops = 0 /\ r.entered
  BY <1>2, <1>3 DEF TurnOK, Voiced
<1>5. /\ Quiet /\ UNCHANGED <<closed, device, ws>>
      /\ row' = row /\ metrics' = metrics
  BY DEF CancelInStream, Quiet, link
<1>6. Fits(r, "stop") /\ "stop" \in Pc
  BY <1>3, <1>4 DEF Fits, Voiced, Piped, Pc, LivePc, SendPc
<1>7. Common(t) /\ turns'[t].pc = "stop"
  BY <1>1, <1>2, <1>3, <1>4, <1>5, <1>6, GoOnShape DEF Rest
<1>8. DeviceShape(t)
  BY <1>5, <1>7 DEF DeviceShape, Rest, CanSend
<1> QED
  BY <1>7, <1>8 DEF Shape, Common

LEMMA CancelAfterStreamShape == ASSUME Rest, TurnsOK, NEW t \in Turn, CancelAfterStream(t) PROVE Shape(t)
<1> DEFINE r == Delivered(t)
<1>1. {"stop", "drain", "close"} \in SUBSET LivePc /\ "stop" \in SendPc
  BY DEF LivePc, SendPc
<1>2. /\ r \in TurnRec /\ Live(t) /\ turns[t].pc \in {"stop", "drain", "close"} /\ turns[t].cancel
      /\ r.cancelled /\ r.source = turns[t].source /\ r.stops \in {0, 1} /\ r.entered
      /\ turns[t].pc = "stop" => r.stops = 0
  BY <1>1, CancelFacts DEF CancelAfterStream, TurnOK, Voiced
<1>3. /\ Quiet /\ UNCHANGED <<closed, ws>>
      /\ device' \in [speaking : BOOLEAN, barge : BOOLEAN]
      /\ turns[t].pc # "stop" => UNCHANGED device
      /\ Unwind(t, r) \/ (turns[t].pc = "stop" /\ Unwind(t, Stopped(r)))
  BY DEF CancelAfterStream, Quiet, link, Rest
<1> HIDE DEF r
<1>4. ASSUME Unwind(t, r) PROVE Common(t)
  BY <1>2, <1>3, <1>4, UnwindShape
<1>5. ASSUME turns[t].pc = "stop", Unwind(t, Stopped(r)) PROVE Common(t)
  BY <1>2, <1>3, <1>5, StoppedFacts, UnwindShape
<1>6. Common(t)
  BY <1>3, <1>4, <1>5
<1>7. DeviceShape(t)
  BY <1>1, <1>2, <1>3 DEF DeviceShape, Rest, CanSend
<1> QED
  BY <1>6, <1>7 DEF Shape, Common

LEMMA GuardStopShape == ASSUME Rest, TurnsOK, NEW t \in Turn, GuardStopSent(t) PROVE Shape(t)
<1>1. /\ turns[t] \in TurnRec /\ Live(t) /\ turns[t].pc = "guard" /\ turns[t].stops = 0
      /\ turns[t].cancelled
  BY AtFacts DEF GuardStopSent, LivePc, SendPc, TurnOK
<1> DEFINE d == [device EXCEPT !.speaking = FALSE]
           r == Stopped(turns[t])
<1>2. Quiet /\ Send(d) /\ ws' = ws /\ Finish(t, r, "turns_cancelled")
  BY DEF GuardStopSent, Quiet
<1>3. d \in [speaking : BOOLEAN, barge : BOOLEAN] /\ ~d.speaking
  BY DEF Rest
<1>4. /\ r \in TurnRec /\ r.stops \in {0, 1} /\ r.cancelled = turns[t].cancelled
      /\ r.source = turns[t].source
  BY <1>1, StoppedFacts
<1> HIDE DEF d, r
<1>5. Common(t)
  BY <1>1, <1>2, <1>4, FinishShape DEF Counter
<1>6. DeviceShape(t)
  BY <1>2, <1>3, SendFacts DEF DeviceShape
<1> QED
  BY <1>5, <1>6 DEF Shape, Common

LEMMA CancelSwallowedShape == ASSUME Rest, TurnsOK, NEW t \in Turn, CancelSwallowed(t) PROVE Shape(t)
<1> DEFINE ps == {"tools", "slot", "llm"}
           r == [turns[t] EXCEPT !.cancel = FALSE]
           s == [r EXCEPT !.slot = TRUE]
<1>1. ps \in SUBSET LivePc /\ "stream" \notin ps /\ "stop" \notin ps
  BY DEF LivePc, SendPc
<1>2. turns[t] \in TurnRec /\ TurnOK(turns[t]) /\ Live(t) /\ turns[t].pc \in ps
  BY <1>1 DEF CancelSwallowed, CancelAt, TurnsOK, Live
<1>3. /\ r \in TurnRec /\ ~r.cancel /\ r.source = turns[t].source /\ r.stops = 0
      /\ (turns[t].pc # "llm" => ~r.slot)
  BY <1>2 DEF TurnRec, TurnOK, Piped
<1>4. s \in TurnRec /\ ~s.cancel /\ s.source = turns[t].source /\ s.stops = 0
  BY <1>3 DEF TurnRec
<1>5. /\ Quiet /\ UNCHANGED <<closed, device, ws>> /\ row' = row /\ metrics' = metrics
      /\ \/ turns[t].pc = "tools" /\ Goto(t, r, "slot")
         \/ turns[t].pc = "slot" /\ Goto(t, s, "llm")
         \/ turns[t].pc = "llm" /\ Goto(t, r, "llm")
  BY DEF CancelSwallowed, Quiet, link
<1>6. metrics' \in [Counter -> Nat]
  BY <1>5 DEF Rest
<1> HIDE DEF r, s
<1>7. ASSUME turns[t].pc = "tools", Goto(t, r, "slot") PROVE Common(t)
  <2>1. Fits(r, "slot") /\ "slot" \in Pc
    BY <1>3, <1>7 DEF Fits, Voiced, Piped, Pc, LivePc, SendPc
  <2> QED
    BY <1>2, <1>3, <1>5, <1>6, <1>7, <2>1, GoOnShape
<1>8. ASSUME Goto(t, s, "llm") PROVE Common(t)
  <2>1. Fits(s, "llm") /\ "llm" \in Pc
    BY <1>4 DEF Fits, Voiced, Piped, Pc, LivePc, SendPc
  <2> QED
    BY <1>2, <1>4, <1>5, <1>6, <1>8, <2>1, GoOnShape
<1>9. ASSUME Goto(t, r, "llm") PROVE Common(t)
  <2>1. Fits(r, "llm") /\ "llm" \in Pc
    BY <1>3 DEF Fits, Voiced, Piped, Pc, LivePc, SendPc
  <2> QED
    BY <1>2, <1>3, <1>5, <1>6, <1>9, <2>1, GoOnShape
<1> QED
  BY <1>1, <1>2, <1>5, <1>7, <1>8, <1>9, UnheardShape DEF Shape, Common

LEMMA TurnStepShape == ASSUME Rest, TurnsOK, NEW t \in Turn, TurnStep(t) PROVE Shape(t)
BY BeginShape, AsrShape, SttShape, ToolsWaitedShape, SlotGrantedShape, SlotTimeoutShape, LlmShape,
   SentenceStartShape, TtsStartShape, EmitShape, StreamEndsShape, TtsStopShape, DrainedShape,
   HungUpShape, CancelUnrunShape, CancelBeforeTtsShape, CancelInStartShape, CancelInStreamShape,
   CancelAfterStreamShape, CancelInGuardShape, CancelSwallowedShape, GuardStopShape
   DEF TurnStep, LoopStep, ServiceStep

----------------------------------------------------------------------------
(* The shape of a step of the main task *)

\* The turns go on as they were, some of them asked to stop.
Kept ==
    /\ current' = current /\ turns' \in [Turn -> TurnRec]
    /\ \A t \in Turn :
          LET r == turns[t]
              q == turns'[t]
          IN  /\ TurnOK(q)
              /\ q.pc = r.pc /\ q.source = r.source /\ q.cancelled = r.cancelled
              /\ q.cancel => r.cancel \/ r.pc \notin SendPc \/ env.slow \/ ~CanSend'

\* No turn was running, and the next one has been created.
Spawned ==
    /\ ~TurnActive /\ current' = current + 1 /\ current' \in Turn
    /\ turns' \in [Turn -> TurnRec] /\ OthersSame(current')
    /\ TurnOK(turns'[current']) /\ turns'[current'].pc = "new" /\ ~turns'[current'].cancel

MainShape ==
    /\ Rest' /\ UNCHANGED env
    /\ ws' => ws
    /\ CanSend' => CanSend
    /\ device'.speaking = device.speaking
    /\ Kept \/ Spawned
    /\ row' = row \/ row' \in {"none", "idle", "listening"} \/ Spawned

LEMMA UnchangedKept == ASSUME TurnsOK, UNCHANGED <<turns, current>> PROVE Kept
BY DEF TurnsOK, Kept

LEMMA CancellingKept ==
    ASSUME TurnsOK, NEW ts, turns' = Cancelling(ts), UNCHANGED <<current, env>>, MainMayRun \/ ~CanSend'
    PROVE  Kept
<1>1. ASSUME NEW t \in Turn
      PROVE  LET r == turns[t]
                 q == turns'[t]
             IN  /\ q \in TurnRec /\ TurnOK(q)
                 /\ q.pc = r.pc /\ q.source = r.source /\ q.cancelled = r.cancelled
                 /\ q.cancel => r.cancel \/ r.pc \notin SendPc \/ env.slow \/ ~CanSend'
  <2>1. turns[t] \in TurnRec /\ TurnOK(turns[t])
    BY DEF TurnsOK
  <2>2. CASE t \in ts /\ Live(t)
    <3> DEFINE q == [turns[t] EXCEPT !.cancel = TRUE]
    <3>1. turns'[t] = q
      BY <2>2 DEF Cancelling
    <3>2. /\ q \in TurnRec /\ q.pc = turns[t].pc /\ q.source = turns[t].source
          /\ q.cancelled = turns[t].cancelled /\ q.slot = turns[t].slot
          /\ q.entered = turns[t].entered /\ q.stops = turns[t].stops
      BY <2>1 DEF TurnRec
    <3> HIDE DEF q
    <3>3. TurnOK(q)
      BY <2>1, <3>2 DEF TurnOK
    <3> QED
      BY <3>1, <3>2, <3>3 DEF MainMayRun
  <2>3. CASE ~(t \in ts /\ Live(t))
    BY <2>1, <2>3 DEF Cancelling
  <2> QED
    BY <2>2, <2>3
<1>2. turns' \in [Turn -> TurnRec]
  <2>1. turns' = [t \in Turn |-> turns'[t]]
    BY DEF Cancelling
  <2> QED
    BY <1>1, <2>1
<1> QED
  BY <1>1, <1>2 DEF Kept

LEMMA SpawnSpawned ==
    ASSUME Rest, TurnsOK, ~TurnActive, NEW src \in Source, Spawn(src)
    PROVE  Spawned /\ current' \in 0..MaxTurns
<1> DEFINE q == [NoTurn EXCEPT !.pc = "new", !.source = src]
<1>1. q \in TurnRec /\ q.pc = "new" /\ ~q.cancel /\ q.stops = 0 /\ ~q.slot
  <2>1. "new" \in Pc /\ "idle" \in Pc /\ "none" \in Source
    BY DEF Pc, LivePc, Source
  <2>2. NoTurn \in TurnRec /\ NoTurn.stops = 0 /\ ~NoTurn.slot /\ ~NoTurn.cancel
    BY <2>1 DEF NoTurn, TurnRec
  <2> QED
    BY <2>1, <2>2 DEF TurnRec
<1>2. TurnOK(q)
  BY <1>1 DEF TurnOK, Voiced
<1>3. current + 1 \in Turn /\ current' = current + 1
  BY SessionAssumption DEF Spawn, Turn, Rest
<1>4. Cancelling({current}) = turns
  BY DEF Cancelling, TurnActive, TurnsOK, Turn
<1>5. turns' = [turns EXCEPT ![current + 1] = q]
  BY <1>4 DEF Spawn
<1> HIDE DEF q
<1>6. turns' \in [Turn -> TurnRec] /\ turns'[current'] = q /\ OthersSame(current')
  BY <1>1, <1>3, <1>5 DEF TurnsOK, OthersSame
<1>7. Spawned
  BY <1>1, <1>2, <1>3, <1>6 DEF Spawned
<1> QED
  BY <1>3, <1>7, SessionAssumption DEF Spawn, Turn

\* What _main_loop's handlers all leave alone.
LEMMA ReceiveFacts ==
    ASSUME Rest, Receive
    PROVE  MainMayRun /\ main' \in {"leaving", "loop"}
BY DEF Receive

LEMMA RowType == ASSUME Rest, NEW s \in RowState, SetRow(s) PROVE row' \in RowState /\ row' \in {"none", s}
BY DEF Rest, SetRow, RowAs

\* A step that only keeps the turns and does not touch the device.
LEMMA KeptShape ==
    ASSUME Rest, Rest', UNCHANGED <<env, device>>, ws' => ws, closed => closed', Kept,
           row' = row \/ row' \in {"none", "idle", "listening"}
    PROVE  MainShape
BY DEF MainShape, CanSend

LEMMA OpenShape == ASSUME Rest, TurnsOK, Open PROVE MainShape
<1>1. Rest'
  BY BumpType DEF Open, Rest, cycle, Counter, RowState
<1> QED
  BY <1>1, UnchangedKept, KeptShape DEF Open

LEMMA HandshakeShape == ASSUME Rest, TurnsOK, HandshakeOk \/ HandshakeFails PROVE MainShape
<1>1. Rest'
  BY DEF HandshakeOk, HandshakeFails, Rest, cycle
<1> QED
  BY <1>1, UnchangedKept, KeptShape DEF HandshakeOk, HandshakeFails, Rest

LEMMA AudioShape == ASSUME Rest, TurnsOK, AudioIn PROVE MainShape
<1>1. mic' \in 0..MicCap /\ notified' \in BOOLEAN
  <2>1. CASE MicFull
    BY <2>1 DEF AudioIn, Rest
  <2>2. CASE mic + 1 <= MicCap
    <3>1. mic' = mic + 1 /\ notified' = notified
      BY <2>2, SessionAssumption DEF AudioIn, MicFull, Rest
    <3> QED
      BY <2>2, <3>1, SessionAssumption DEF Rest
  <2> QED
    BY <2>1, <2>2, SessionAssumption DEF MicFull, Rest
<1>2. Rest'
  BY <1>1, ReceiveFacts DEF AudioIn, Rest
<1> QED
  BY <1>2, UnchangedKept, KeptShape DEF AudioIn

LEMMA StartShape ==
    ASSUME Rest, TurnsOK, NEW mode \in {"manual", "auto"}, ListenStart(mode)
    PROVE  MainShape
<1>1. /\ device' \in [speaking : BOOLEAN, barge : BOOLEAN]
      /\ device'.speaking = device.speaking
  BY DEF ListenStart, Rest, TurnActive
<1>2. /\ listening' \in BOOLEAN /\ mic' \in 0..MicCap /\ notified' \in BOOLEAN
      /\ row' \in RowState /\ (row' = row \/ row' \in {"none", "listening"})
  <2>1. CASE EchoGuarded("start", mode)
    BY <2>1 DEF ListenStart, Rest
  <2>2. CASE ~EchoGuarded("start", mode)
    <3>1. SetRow("listening") /\ listening' = TRUE /\ mic' = 0 /\ notified' = FALSE
      BY <2>2 DEF ListenStart
    <3>2. row' \in RowState /\ row' \in {"none", "listening"}
      BY <3>1, RowType DEF RowState
    <3>3. 0 \in 0..MicCap
      BY SessionAssumption
    <3> QED
      BY <3>1, <3>2, <3>3
  <2> QED
    BY <2>1, <2>2
<1>3. Receive /\ UNCHANGED <<env, ws, closed, turns, current, metrics>>
  BY DEF ListenStart
<1>4. Rest'
  BY <1>1, <1>2, <1>3, ReceiveFacts DEF Rest
<1> QED
  BY <1>1, <1>2, <1>3, <1>4, UnchangedKept DEF MainShape, CanSend

LEMMA StopShape == ASSUME Rest, TurnsOK, ListenStop PROVE MainShape
<1>1. /\ device' \in [speaking : BOOLEAN, barge : BOOLEAN]
      /\ device'.speaking = device.speaking
  BY DEF ListenStop, Rest
<1>2. Receive /\ UNCHANGED <<env, ws, closed, notified, metrics>>
  BY DEF ListenStop
<1>3. CASE EchoGuarded("stop", "")
  <2>1. UNCHANGED <<listening, mic, row, turns, current>>
    BY <1>3 DEF ListenStop
  <2>2. Rest'
    BY <1>1, <1>2, <2>1, ReceiveFacts DEF Rest
  <2> QED
    BY <1>1, <1>2, <2>1, <2>2, UnchangedKept DEF MainShape, CanSend
<1>4. CASE ~EchoGuarded("stop", "")
  <2>1. ~TurnActive
    BY <1>4 DEF EchoGuarded
  <2>2. PICK src \in Source : Spawn(src)
    BY <1>4 DEF ListenStop, Source
  <2>3. Spawned /\ current' \in 0..MaxTurns
    BY <2>1, <2>2, SpawnSpawned
  <2>4. listening' = FALSE /\ mic' = 0 /\ SetRow("processing")
    BY <1>4 DEF ListenStop
  <2>5. row' \in RowState /\ 0 \in 0..MicCap
    BY <2>4, RowType, SessionAssumption DEF RowState
  <2>6. Rest'
    BY <1>1, <1>2, <2>3, <2>4, <2>5, ReceiveFacts DEF Rest
  <2> QED
    BY <1>1, <1>2, <2>3, <2>6 DEF MainShape, CanSend
<1> QED
  BY <1>3, <1>4

LEMMA DetectShape ==
    ASSUME Rest, TurnsOK, NEW src \in {"blank", "text", "reminder"}, ListenDetect(src)
    PROVE  MainShape
<1>1. Receive /\ UNCHANGED <<env, ws, closed, listening, mic, notified, metrics, device>>
  BY DEF ListenDetect
<1>2. CASE EchoGuarded("detect", "")
  <2>1. UNCHANGED <<row, turns, current>>
    BY <1>2 DEF ListenDetect
  <2>2. Rest'
    BY <1>1, <2>1, ReceiveFacts DEF Rest
  <2> QED
    BY <1>1, <2>1, <2>2, UnchangedKept, KeptShape
<1>3. CASE ~EchoGuarded("detect", "")
  <2>1. ~TurnActive /\ Spawn(src) /\ src \in Source /\ SetRow("processing")
    BY <1>3 DEF EchoGuarded, ListenDetect, Source
  <2>2. Spawned /\ current' \in 0..MaxTurns
    BY <2>1, SpawnSpawned
  <2>3. row' \in RowState
    BY <2>1, RowType DEF RowState
  <2>4. Rest'
    BY <1>1, <2>2, <2>3, ReceiveFacts DEF Rest
  <2> QED
    BY <1>1, <2>2, <2>4 DEF MainShape, CanSend
<1> QED
  BY <1>2, <1>3

LEMMA AbortShape == ASSUME Rest, TurnsOK, Abort PROVE MainShape
<1>1. Rest'
  BY ReceiveFacts DEF Abort, Rest, cycle
<1>2. Kept
  BY ReceiveFacts, CancellingKept DEF Abort
<1> QED
  BY <1>1, <1>2, KeptShape DEF Abort

LEMMA LoopEndsShape ==
    ASSUME Rest, TurnsOK, LoopEnds \/ BackgroundSendFails PROVE MainShape
<1>1. Rest'
  BY DEF LoopEnds, BackgroundSendFails, Rest, cycle
<1> QED
  BY <1>1, UnchangedKept, KeptShape DEF LoopEnds, BackgroundSendFails, CanSend

LEMMA TeardownShape == ASSUME Rest, TurnsOK, Teardown \/ SessionClosed PROVE MainShape
<1>1. CASE Teardown
  <2>1. Rest'
    BY <1>1 DEF Teardown, Rest, cycle
  <2>2. Kept
    BY <1>1, CancellingKept DEF Teardown, CanSend
  <2> QED
    BY <1>1, <2>1, <2>2, KeptShape DEF Teardown
<1>2. CASE SessionClosed
  <2>1. Rest'
    BY <1>2, BumpType DEF SessionClosed, Rest, cycle, Counter, RowState
  <2> QED
    BY <1>2, <2>1, UnchangedKept, KeptShape DEF SessionClosed
<1> QED
  BY <1>1, <1>2

LEMMA MainStepShape == ASSUME Rest, TurnsOK, MainStep PROVE MainShape
BY OpenShape, HandshakeShape, AudioShape, StartShape, StopShape, DetectShape, AbortShape,
   LoopEndsShape, TeardownShape
   DEF MainStep

----------------------------------------------------------------------------
(* The inductive invariant *)

LEMMA NoneLive == OnlyCurrent /\ ~TurnActive => \A t \in Turn : ~Live(t)
BY DEF OnlyCurrent, TurnActive, Turn

LEMMA InitIInv == Init => IInv
<1> SUFFICES ASSUME Init PROVE IInv
  OBVIOUS
<1>1. NoTurn \in TurnRec /\ TurnOK(NoTurn)
  <2>1. "idle" \in Pc /\ "none" \in Source
    BY DEF Pc, Source
  <2>2. NoTurn \in TurnRec
    BY <2>1 DEF NoTurn, TurnRec
  <2> QED
    BY <2>2 DEF TurnOK, NoTurn, Voiced
<1>2. \A t \in Turn : turns[t] = NoTurn /\ turns[t].pc = "idle"
  BY DEF Init, NoTurn
<1>3. Rest
  <2>1. current \in 0..MaxTurns /\ mic \in 0..MicCap
    BY SessionAssumption DEF Init
  <2>2. metrics \in [Counter -> Nat] /\ device \in [speaking : BOOLEAN, barge : BOOLEAN]
    BY DEF Init
  <2> QED
    BY <2>1, <2>2 DEF Init, Rest, RowState
<1>4. TurnsOK
  BY <1>1 DEF Init, TurnsOK
<1>5. OnlyCurrent
  BY <1>2 DEF OnlyCurrent, Live, LivePc, SendPc
<1>6. RowTracksTurn /\ HangsUp
  BY <1>2 DEF Init, RowTracksTurn, HangsUp
<1>7. Speaker
  BY <1>2 DEF Init, Speaker, SendPc
<1> QED
  BY <1>3, <1>4, <1>5, <1>6, <1>7 DEF IInv

LEMMA TurnKeepsIInv == ASSUME IInv, NEW t \in Turn, TurnStep(t) PROVE IInv'
<1>1. TurnShape(t) /\ RowShape(t) /\ DeviceShape(t) /\ metrics' \in [Counter -> Nat]
  BY TurnStepShape DEF IInv, Shape
<1>2. \A u \in Turn : u # t => turns'[u] = turns[u]
  BY <1>1 DEF TurnShape, OthersSame
<1>3. Rest'
  <2>1. row' \in RowState
    BY <1>1 DEF IInv, RowShape, Rest, RowState
  <2>2. ws' \in BOOLEAN /\ UNCHANGED <<env, main, current, cycle>>
    BY <1>1 DEF IInv, TurnShape, Rest
  <2> QED
    BY <1>1, <2>1, <2>2 DEF IInv, DeviceShape, Rest, cycle
<1>4. TurnsOK'
  BY <1>1, <1>2 DEF IInv, TurnsOK, TurnShape
<1>5. OnlyCurrent'
  BY <1>1, <1>2 DEF IInv, OnlyCurrent, TurnShape, Live, LivePc, SendPc, Rest, Turn
<1>6. RowTracksTurn'
  <2>1. CASE row' \in {"none", "idle"}
    BY <2>1 DEF RowTracksTurn
  <2>2. CASE turns'[t].pc \in LivePc \cup {"unrun", "torn"}
    BY <2>2 DEF RowTracksTurn, Live
  <2> QED
    BY <1>1, <2>1, <2>2 DEF RowShape
<1>7. HangsUp'
  <2> SUFFICES ASSUME NEW u \in Turn,
                      \/ turns'[u].pc = "close"
                      \/ turns'[u].pc = "done" /\ turns'[u].source = "reminder" /\ ~turns'[u].cancelled
               PROVE  ~ws'
    BY DEF HangsUp
  <2>1. ws' => ws
    BY <1>1 DEF TurnShape, IInv, Rest
  <2>2. CASE u # t
    BY <1>2, <2>1, <2>2 DEF IInv, HangsUp
  <2>3. CASE u = t
    BY <1>1, <2>1, <2>3 DEF IInv, HangsUp, TurnShape
  <2> QED
    BY <2>2, <2>3
<1>8. Speaker'
  <2> SUFFICES ASSUME ~env'.slow, CanSend'
               PROVE  /\ \A u \in Turn : turns'[u].pc \in SendPc => ~turns'[u].cancel
                      /\ device'.speaking => \E u \in Turn : turns'[u].pc \in {"stream", "stop"}
    BY DEF Speaker
  <2>1. ~env.slow /\ CanSend /\ ~turns'[t].cancel
    BY <1>1 DEF TurnShape, DeviceShape
  <2>2. /\ \A u \in Turn : turns[u].pc \in SendPc => ~turns[u].cancel
        /\ device.speaking => \E u \in Turn : turns[u].pc \in {"stream", "stop"}
    BY <2>1 DEF IInv, Speaker
  <2>3. \A u \in Turn : turns'[u].pc \in SendPc => ~turns'[u].cancel
    BY <1>2, <2>1, <2>2
  <2>4. ASSUME device'.speaking PROVE \E u \in Turn : turns'[u].pc \in {"stream", "stop"}
    <3>1. \/ turns'[t].pc = "stream"
          \/ device.speaking /\ (turns[t].pc \in {"stream", "stop"} => turns'[t].pc = "stop")
      BY <1>1, <2>1, <2>2, <2>4 DEF DeviceShape
    <3> QED
      BY <1>2, <2>2, <3>1
  <2> QED
    BY <2>3, <2>4
<1> QED
  BY <1>3, <1>4, <1>5, <1>6, <1>7, <1>8 DEF IInv

LEMMA MainKeepsIInv == ASSUME IInv, MainStep PROVE IInv'
<1>1. MainShape
  BY MainStepShape DEF IInv
<1>2. CASE Kept
  <2>1. \A t \in Turn : /\ turns'[t].pc = turns[t].pc /\ turns'[t].source = turns[t].source
                        /\ turns'[t].cancelled = turns[t].cancelled
    BY <1>2 DEF Kept
  <2>2. TurnsOK' /\ current' = current
    BY <1>2 DEF Kept, TurnsOK
  <2>3. OnlyCurrent'
    BY <2>1, <2>2 DEF IInv, OnlyCurrent, Live
  <2>4. RowTracksTurn'
    BY <1>1, <1>2, <2>1, <2>2 DEF IInv, MainShape, RowTracksTurn, Live, Spawned, Rest
  <2>5. HangsUp'
    BY <1>1, <2>1 DEF IInv, MainShape, HangsUp
  <2>6. Speaker'
    BY <1>1, <1>2, <2>1 DEF IInv, MainShape, Speaker, Kept
  <2> QED
    BY <1>1, <2>2, <2>3, <2>4, <2>5, <2>6 DEF IInv, MainShape
<1>3. CASE Spawned
  <2>1. /\ current' \in Turn /\ current' = current + 1 /\ turns'[current'].pc = "new"
        /\ ~turns'[current'].cancel /\ TurnOK(turns'[current'])
        /\ \A t \in Turn : t # current' => turns'[t] = turns[t]
    BY <1>3 DEF Spawned, OthersSame
  <2>2. \A t \in Turn : ~Live(t)
    BY <1>3, NoneLive DEF IInv, Spawned
  <2>3. TurnsOK'
    BY <1>3, <2>1 DEF IInv, Spawned, TurnsOK
  <2>4. OnlyCurrent'
    BY <2>1, <2>2 DEF IInv, OnlyCurrent, Live, Rest, Turn
  <2>5. RowTracksTurn'
    BY <2>1 DEF RowTracksTurn, Live, LivePc
  <2>6. HangsUp'
    BY <1>1, <2>1 DEF IInv, MainShape, HangsUp
  <2>7. Speaker'
    BY <1>1, <2>1, <2>2 DEF IInv, MainShape, Speaker, Live, LivePc, SendPc
  <2> QED
    BY <1>1, <2>3, <2>4, <2>5, <2>6, <2>7 DEF IInv, MainShape
<1> QED
  BY <1>1, <1>2, <1>3 DEF MainShape

LEMMA StutterKeepsIInv == ASSUME IInv, UNCHANGED vars PROVE IInv'
BY DEF IInv, Rest, TurnsOK, OnlyCurrent, RowTracksTurn, HangsUp, Speaker, Live, CanSend, vars, link, cycle

LEMMA NextIInv == IInv /\ [Next]_vars => IInv'
BY TurnKeepsIInv, MainKeepsIInv, StutterKeepsIInv DEF Next

\* The inductive invariant holds throughout.
THEOREM SessionInvariant == Spec => []IInv
BY InitIInv, NextIInv, PTL DEF Spec

----------------------------------------------------------------------------
(* The turn counters *)

\* Where a turn has been counted in and not yet out.
CountedIn == (LivePc \ {"new"}) \cup {"torn"}
Counted   == {t \in Turn : turns[t].pc \in CountedIn}

\* What a step of a turn does to the counters.
Tally(t) ==
    LET was == turns[t].pc \in CountedIn
        is  == turns'[t].pc \in CountedIn
    IN  \/ metrics' = metrics /\ (was <=> is)
        \/ metrics' = Bump(metrics, "turns_started") /\ ~was /\ is
        \/ metrics' = Bump(Bump(metrics, "turns_started"), "turns_completed") /\ ~was /\ ~is
        \/ \E how \in {"turns_completed", "turns_cancelled"} :
               metrics' = Bump(metrics, how) /\ was /\ ~is

LEMMA CountedInFacts ==
    /\ \A p \in Pc : p \in CountedIn <=> p \notin {"new", "idle", "done", "unrun"}
    /\ CountedIn \subseteq Pc
BY DEF CountedIn, LivePc, SendPc, Pc

LEMMA GotoTally ==
    ASSUME TurnsOK, NEW t \in Turn, NEW r \in TurnRec, NEW p \in CountedIn, Goto(t, r, p),
           turns[t].pc \in CountedIn, UNCHANGED metrics
    PROVE  Tally(t)
<1>1. turns'[t].pc = p
  BY GotoFacts, CountedInFacts
<1> QED
  BY <1>1 DEF Tally

LEMMA FinishTally ==
    ASSUME TurnsOK, NEW t \in Turn, NEW r \in TurnRec,
           NEW how \in {"turns_completed", "turns_cancelled"}, Finish(t, r, how),
           turns[t].pc \in CountedIn
    PROVE  Tally(t)
<1> DEFINE q == [r EXCEPT !.slot = FALSE, !.cancel = FALSE]
<1>1. q \in TurnRec /\ Goto(t, q, "done") /\ metrics' = Bump(metrics, how)
  BY DEF TurnRec, Finish
<1> HIDE DEF q
<1>2. "done" \in Pc /\ "done" \notin CountedIn
  BY CountedInFacts DEF Pc
<1>3. turns'[t].pc = "done"
  BY <1>1, <1>2, GotoFacts
<1> QED
  BY <1>1, <1>2, <1>3 DEF Tally

LEMMA UnwindTally ==
    ASSUME TurnsOK, NEW t \in Turn, NEW r \in TurnRec, Unwind(t, r), turns[t].pc \in CountedIn
    PROVE  Tally(t)
<1> DEFINE q == [r EXCEPT !.slot = FALSE, !.cancel = FALSE]
<1>1. CASE NeedsGuardStop(r)
  <2>1. q \in TurnRec /\ Goto(t, q, "guard") /\ UNCHANGED metrics
    BY <1>1 DEF TurnRec, Unwind
  <2>2. "guard" \in CountedIn
    BY DEF CountedIn, LivePc, SendPc
  <2> QED
    BY <2>1, <2>2, GotoTally
<1>2. CASE ~NeedsGuardStop(r)
  BY <1>2, FinishTally DEF Unwind
<1> QED
  BY <1>1, <1>2

LEMMA AfterTtsTally ==
    ASSUME TurnsOK, NEW t \in Turn, NEW r \in TurnRec, NEW shown, AfterTts(t, r, shown),
           turns[t].pc \in CountedIn
    PROVE  Tally(t)
<1> DEFINE q == [r EXCEPT !.slot = FALSE]
<1>1. CASE r.source = "reminder"
  <2>1. q \in TurnRec /\ Goto(t, q, "drain") /\ UNCHANGED metrics
    BY <1>1 DEF TurnRec, AfterTts
  <2>2. "drain" \in CountedIn
    BY DEF CountedIn, LivePc
  <2> QED
    BY <2>1, <2>2, GotoTally
<1>2. CASE r.source # "reminder"
  BY <1>2, FinishTally DEF AfterTts
<1> QED
  BY <1>1, <1>2

LEMMA SpeakTally ==
    ASSUME TurnsOK, NEW t \in Turn, NEW blank \in BOOLEAN, Speak(t, blank),
           turns[t].pc \in CountedIn
    PROVE  Tally(t)
<1> DEFINE r == [turns[t] EXCEPT !.entered = TRUE]
<1>1. r \in TurnRec
  BY DEF TurnsOK, TurnRec
<1>2. AfterTts(t, r, RowAs("speaking")) \/ (Goto(t, r, "say1") /\ UNCHANGED metrics)
  BY DEF Speak
<1> HIDE DEF r
<1>3. "say1" \in CountedIn
  BY DEF CountedIn, LivePc, SendPc
<1> QED
  BY <1>1, <1>2, <1>3, AfterTtsTally, GotoTally

LEMMA BeginTally == ASSUME Rest, TurnsOK, NEW t \in Turn, Begin(t) PROVE Tally(t)
<1>1. turns[t] \in TurnRec /\ turns[t].pc = "new" /\ "new" \notin CountedIn
  BY AtFacts DEF Begin, LivePc, CountedIn
<1>2. /\ "asr" \in CountedIn /\ "tools" \in CountedIn /\ "done" \notin CountedIn
      /\ {"asr", "tools", "done"} \subseteq Pc
  BY CountedInFacts DEF Pc, LivePc
<1>3. \/ metrics' = Bump(metrics, "turns_started") /\ \E p \in {"asr", "tools"} : Goto(t, turns[t], p)
      \/ /\ metrics' = Bump(Bump(metrics, "turns_started"), "turns_completed")
         /\ Goto(t, turns[t], "done")
  BY DEF Begin
<1>4. ASSUME NEW p \in {"asr", "tools", "done"}, Goto(t, turns[t], p) PROVE turns'[t].pc = p
  BY <1>1, <1>2, <1>4, GotoFacts
<1> QED
  BY <1>1, <1>2, <1>3, <1>4 DEF Tally

\* A turn that goes from one await to the next is not counted.
LEMMA OnwardTally ==
    ASSUME TurnsOK, NEW t \in Turn,
           \/ SttSent(t) \/ ToolsWaited(t) \/ SlotGranted(t) \/ SentenceStartSent(t)
           \/ TtsStartSent(t) \/ Emit(t) \/ StreamEnds(t) \/ Drained(t)
    PROVE  Tally(t)
<1>1. turns[t] \in TurnRec /\ turns[t].pc \in CountedIn /\ UNCHANGED metrics
  BY DEF TurnsOK, SttSent, ToolsWaited, SlotGranted, SentenceStartSent, TtsStartSent, Emit,
         StreamEnds, Drained, At, CountedIn, LivePc, SendPc
<1>2. [turns[t] EXCEPT !.slot = TRUE] \in TurnRec
  BY <1>1 DEF TurnRec
<1>3. {"tools", "slot", "llm", "say2", "stream", "stop", "close"} \subseteq CountedIn
  BY DEF CountedIn, LivePc, SendPc
<1>4. CASE Emit(t)
  BY <1>1, <1>4 DEF Emit, Tally
<1>5. CASE ~Emit(t)
  <2>1. \E r \in TurnRec, p \in CountedIn : Goto(t, r, p)
    BY <1>1, <1>2, <1>3, <1>5 DEF SttSent, ToolsWaited, SlotGranted, SentenceStartSent,
       TtsStartSent, StreamEnds, Drained
  <2> QED
    BY <1>1, <2>1, GotoTally
<1> QED
  BY <1>4, <1>5

\* One that speaks or ends is counted out unless its reminder goes on.
LEMMA EndTally ==
    ASSUME TurnsOK, NEW t \in Turn,
           \/ AsrReturns(t) \/ SlotTimeout(t) \/ LlmReturns(t) \/ TtsStopSent(t)
           \/ HungUp(t) \/ GuardStopSent(t)
    PROVE  Tally(t)
<1>1. /\ turns[t] \in TurnRec /\ turns[t].pc \in CountedIn
      /\ turns[t].pc \in {"stop", "guard"} => turns[t].stops = 0
  BY DEF TurnsOK, TurnOK, AsrReturns, SlotTimeout, LlmReturns, TtsStopSent, HungUp, GuardStopSent,
         At, CountedIn, LivePc, SendPc
<1>2. turns[t].pc \in {"stop", "guard"} => Stopped(turns[t]) \in TurnRec
  BY <1>1, StoppedFacts
<1>3. CASE AsrReturns(t)
  <2>1. "stt" \in CountedIn
    BY DEF CountedIn, LivePc, SendPc
  <2> QED
    BY <1>1, <1>3, <2>1, GotoTally, FinishTally DEF AsrReturns
<1>4. CASE SlotTimeout(t) \/ LlmReturns(t)
  BY <1>1, <1>4, SpeakTally DEF SlotTimeout, LlmReturns
<1>5. CASE TtsStopSent(t)
  BY <1>1, <1>2, <1>5, UnwindTally, AfterTtsTally DEF TtsStopSent, At
<1>6. CASE HungUp(t) \/ GuardStopSent(t)
  BY <1>1, <1>2, <1>6, FinishTally DEF HungUp, GuardStopSent, At
<1> QED
  BY <1>3, <1>4, <1>5, <1>6

\* A turn cancelled before its first step was never counted; any other is counted out, now
\* or after its guard stop, unless that is torn.
LEMMA CancelTally ==
    ASSUME TurnsOK, NEW t \in Turn,
           \/ CancelUnrun(t) \/ CancelBeforeTts(t) \/ CancelInStart(t) \/ CancelInStream(t)
           \/ CancelAfterStream(t) \/ CancelInGuard(t) \/ CancelSwallowed(t)
    PROVE  Tally(t)
<1> DEFINE awake == [turns[t] EXCEPT !.cancel = FALSE]
           slotted == [awake EXCEPT !.slot = TRUE]
<1>1. turns[t] \in TurnRec /\ TurnOK(turns[t])
  BY DEF TurnsOK
<1>2. Delivered(t) \in TurnRec /\ awake \in TurnRec /\ slotted \in TurnRec
  BY <1>1 DEF Delivered, TurnRec
<1>3. turns[t].pc = "stop" => Stopped(Delivered(t)) \in TurnRec
  <2>1. turns[t].pc = "stop" => Delivered(t).stops = 0
    BY <1>1 DEF Delivered, TurnRec, TurnOK
  <2> QED
    BY <1>2, <2>1, StoppedFacts
<1>4. {"stop", "slot", "llm", "torn"} \subseteq CountedIn
  BY DEF CountedIn, LivePc, SendPc
<1>5. CASE CancelUnrun(t)
  <2>1. turns[t].pc = "new" /\ Goto(t, Delivered(t), "unrun") /\ UNCHANGED metrics
    BY <1>5 DEF CancelUnrun, CancelAt
  <2>2. "unrun" \in Pc /\ "unrun" \notin CountedIn /\ "new" \notin CountedIn
    BY DEF Pc, CountedIn, LivePc, SendPc
  <2>3. turns'[t].pc = "unrun"
    BY <1>2, <2>1, <2>2, GotoFacts
  <2> QED
    BY <2>1, <2>2, <2>3 DEF Tally
<1>6. CASE ~CancelUnrun(t)
  <2>1. turns[t].pc \in CountedIn
    BY <1>6 DEF CancelBeforeTts, CancelInStart, CancelInStream, CancelAfterStream, CancelInGuard,
                CancelSwallowed, CancelAt, CountedIn, LivePc, SendPc
  <2>2. CASE CancelBeforeTts(t) \/ CancelInStart(t)
    BY <1>2, <2>1, <2>2, UnwindTally DEF CancelBeforeTts, CancelInStart
  <2>3. CASE CancelAfterStream(t)
    BY <1>2, <1>3, <2>1, <2>3, UnwindTally DEF CancelAfterStream
  <2>4. CASE CancelInStream(t) \/ CancelInGuard(t) \/ CancelSwallowed(t)
    <3>1. UNCHANGED metrics
      BY <2>4 DEF CancelInStream, CancelInGuard, CancelSwallowed
    <3>2. \E r \in TurnRec, p \in CountedIn : Goto(t, r, p)
      BY <1>2, <1>4, <2>4 DEF CancelInStream, CancelInGuard, CancelSwallowed
    <3> QED
      BY <2>1, <3>1, <3>2, GotoTally
  <2> QED
    BY <1>6, <2>2, <2>3, <2>4
<1> QED
  BY <1>5, <1>6

LEMMA TurnTally == ASSUME Rest, TurnsOK, NEW t \in Turn, TurnStep(t) PROVE Tally(t)
BY BeginTally, OnwardTally, EndTally, CancelTally DEF TurnStep, LoopStep, ServiceStep

LEMMA CountedFacts ==
    /\ IsFiniteSet(Turn) /\ IsFiniteSet(Counted) /\ Cardinality(Counted) \in Nat
    /\ Started \cup Torn = Counted
<1>1. IsFiniteSet(Turn)
  BY SessionAssumption, FS_Interval DEF Turn
<1>2. IsFiniteSet(Counted) /\ Cardinality(Counted) \in Nat
  BY <1>1, FS_Subset, FS_CardinalityType DEF Counted
<1>3. Started \cup Torn = Counted
  BY DEF Started, Torn, Counted, CountedIn, Live
<1> QED
  BY <1>1, <1>2, <1>3

LEMMA TurnKeepsCount == ASSUME IInv, CountedOut, NEW t \in Turn, TurnStep(t) PROVE CountedOut'
<1>1. Tally(t) /\ \A u \in Turn : u # t => turns'[u] = turns[u]
  BY TurnTally, TurnStepShape DEF IInv, Shape, TurnShape, OthersSame
<1>2. /\ (Started \cup Torn)' = Counted'
      /\ InFlight = Cardinality(Counted) /\ Cardinality(Counted) \in Nat /\ IsFiniteSet(Counted)
  BY CountedFacts DEF CountedOut, Started, Torn, Counted, CountedIn, Live
<1>3. metrics \in [Counter -> Nat] /\ {"turns_started", "turns_completed", "turns_cancelled"} \subseteq Counter
  BY DEF IInv, Rest, Counter
<1>4. CASE turns[t].pc \in CountedIn <=> turns'[t].pc \in CountedIn
  <2>1. Counted' = Counted
    BY <1>1, <1>4 DEF Counted
  <2>2. InFlight' = InFlight
    BY <1>1, <1>3, <1>4 DEF Tally, Bump, InFlight
  <2> QED
    BY <1>2, <2>1, <2>2 DEF CountedOut
<1>5. CASE turns[t].pc \notin CountedIn /\ turns'[t].pc \in CountedIn
  <2>1. Counted' = Counted \cup {t} /\ t \notin Counted
    BY <1>1, <1>5 DEF Counted
  <2>2. InFlight' = InFlight + 1
    BY <1>1, <1>3, <1>5 DEF Tally, Bump, InFlight
  <2> QED
    BY <1>2, <2>1, <2>2, FS_AddElement DEF CountedOut
<1>6. CASE turns[t].pc \in CountedIn /\ turns'[t].pc \notin CountedIn
  <2>1. Counted' = Counted \ {t} /\ t \in Counted
    BY <1>1, <1>6 DEF Counted
  <2>2. InFlight' = InFlight - 1
    BY <1>1, <1>3, <1>6 DEF Tally, Bump, InFlight
  <2> QED
    BY <1>2, <2>1, <2>2, FS_RemoveElement DEF CountedOut
<1> QED
  BY <1>4, <1>5, <1>6

\* The main task only creates turns and asks them to stop: it counts none in or out.
LEMMA MainKeepsCount == ASSUME IInv, CountedOut, MainStep PROVE CountedOut'
<1>1. Kept \/ Spawned
  BY MainStepShape DEF IInv, MainShape
<1>2. \A t \in Turn : turns'[t].pc \in CountedIn <=> turns[t].pc \in CountedIn
  <2>1. CASE Kept
    BY <2>1 DEF Kept
  <2>2. CASE Spawned
    <3>1. turns'[current'].pc = "new" /\ turns[current'].pc = "idle" /\ current' \in Turn
      BY <2>2 DEF Spawned, IInv, OnlyCurrent, Rest, Turn
    <3>2. "new" \notin CountedIn /\ "idle" \notin CountedIn
      BY DEF CountedIn, LivePc, SendPc
    <3> QED
      BY <2>2, <3>1, <3>2 DEF Spawned, OthersSame
  <2> QED
    BY <1>1, <2>1, <2>2
<1>3. Counted' = Counted /\ (Started \cup Torn)' = Counted' /\ Started \cup Torn = Counted
  BY <1>2 DEF Counted, Started, Torn, CountedIn, Live
<1>4. metrics' = metrics \/ \E c \in {"sessions_opened", "sessions_closed"} : metrics' = Bump(metrics, c)
  BY DEF MainStep, Open, HandshakeOk, HandshakeFails, AudioIn, ListenStart, ListenStop, ListenDetect,
         Abort, LoopEnds, BackgroundSendFails, Teardown, SessionClosed
<1>5. InFlight' = InFlight
  BY <1>4 DEF Bump, InFlight, IInv, Rest, Counter
<1> QED
  BY <1>3, <1>5 DEF CountedOut

----------------------------------------------------------------------------
(* What the device hears, and what is left of a turn when the session ends *)

LEMMA Phases ==
    /\ \A p \in {"new", "asr", "tools", "slot", "llm", "stt", "say1", "say2", "guard"} :
          PhaseOf(p) = "thinking"
    /\ \A p \in {"stream", "stop"} : PhaseOf(p) = "speaking"
    /\ \A p \in {"drain", "close"} : PhaseOf(p) = "closing"
    /\ \A p \in Pc \ LivePc : PhaseOf(p) = "over"
BY DEF PhaseOf, LivePc, SendPc, Pc

\* A turn at p goes to q and the device need not hear of it.
Silent(p, q) ==
    \/ PhaseOf(q) = PhaseOf(p)
    \/ PhaseOf(p) = "thinking" /\ PhaseOf(q) \in {"closing", "over"}
    \/ PhaseOf(p) = "closing" /\ PhaseOf(q) = "over"

\* What the device hears of a step of turn t.
Says(t) ==
    LET p   == turns[t].pc
        q   == turns'[t].pc
        was == device.speaking
        is  == device'.speaking
    IN  \/ ~CanSend' /\ is = was
        \/ /\ CanSend /\ CanSend'
           /\ \/ is = was /\ Silent(p, q)
              \/ is /\ PhaseOf(p) = "thinking" /\ PhaseOf(q) = "speaking"
              \/ ~is /\ PhaseOf(p) = "speaking" /\ PhaseOf(q) \in {"closing", "over"}
              \/ ~is /\ PhaseOf(p) = "thinking" /\ PhaseOf(q) = "over"
              \/ env.slow /\ PhaseOf(p) \in {"thinking", "speaking"} /\ PhaseOf(q) = "over"

\* A turn that is being cancelled, or is at its last awaits, has nothing else left to do.
Last == {"stop", "guard", "drain", "close"}

Wanes(t) ==
    (turns[t].cancel \/ turns[t].pc \in Last) /\ ~env.py311 =>
        turns'[t].pc \in Last \cup (Pc \ LivePc)

LEMMA SilentSays ==
    ASSUME NEW t \in Turn, UNCHANGED <<device, closed, ws>>, Silent(turns[t].pc, turns'[t].pc)
    PROVE  Says(t)
BY DEF Says, CanSend

LEMMA SendHeard ==
    ASSUME Rest, NEW d, Send(d), UNCHANGED ws
    PROVE  /\ CanSend' => CanSend /\ device' = d
           /\ ~CanSend' => device' = device
BY DEF Send, CanSend, Rest

LEMMA SendSays ==
    ASSUME Rest, NEW t \in Turn, Send(device), UNCHANGED ws, Silent(turns[t].pc, turns'[t].pc)
    PROVE  Says(t)
BY SendHeard DEF Says

LEMMA GotoPc ==
    ASSUME TurnsOK, NEW t \in Turn, NEW r \in TurnRec, NEW p, Goto(t, r, p)
    PROVE  turns'[t].pc = p
BY DEF Goto, TurnsOK, TurnRec

LEMMA FinishPc ==
    ASSUME TurnsOK, NEW t \in Turn, NEW r \in TurnRec, NEW how, Finish(t, r, how)
    PROVE  turns'[t].pc = "done"
<1>1. [r EXCEPT !.slot = FALSE, !.cancel = FALSE] \in TurnRec
  BY DEF TurnRec
<1> QED
  BY <1>1, GotoPc DEF Finish

LEMMA UnwindPc ==
    ASSUME TurnsOK, NEW t \in Turn, NEW r \in TurnRec, Unwind(t, r)
    PROVE  turns'[t].pc \in {"guard", "done"} /\ (r.entered => turns'[t].pc = "done")
<1>1. [r EXCEPT !.slot = FALSE, !.cancel = FALSE] \in TurnRec
  BY DEF TurnRec
<1>2. CASE NeedsGuardStop(r)
  BY <1>1, <1>2, GotoPc DEF Unwind, NeedsGuardStop
<1>3. CASE ~NeedsGuardStop(r)
  BY <1>3, FinishPc DEF Unwind
<1> QED
  BY <1>2, <1>3

LEMMA AfterTtsPc ==
    ASSUME TurnsOK, NEW t \in Turn, NEW r \in TurnRec, NEW shown, AfterTts(t, r, shown)
    PROVE  turns'[t].pc \in {"drain", "done"}
<1>1. [r EXCEPT !.slot = FALSE] \in TurnRec
  BY DEF TurnRec
<1> QED
  BY <1>1, GotoPc, FinishPc DEF AfterTts

LEMMA SpeakPc ==
    ASSUME TurnsOK, NEW t \in Turn, NEW blank \in BOOLEAN, Speak(t, blank)
    PROVE  turns'[t].pc \in {"say1", "drain", "done"}
<1> DEFINE r == [turns[t] EXCEPT !.entered = TRUE]
<1>1. r \in TurnRec
  BY DEF TurnsOK, TurnRec
<1>2. IF blank THEN AfterTts(t, r, RowAs("speaking")) ELSE Goto(t, r, "say1")
  BY DEF Speak
<1> HIDE DEF r
<1> QED
  BY <1>1, <1>2, AfterTtsPc, GotoPc

LEMMA TurnTells == ASSUME IInv, NEW t \in Turn, TurnStep(t) PROVE Says(t) /\ Wanes(t)
<1> DEFINE p == turns[t].pc
           q == turns'[t].pc
<1>1. Rest /\ TurnsOK /\ turns[t] \in TurnRec /\ TurnOK(turns[t])
  BY DEF IInv, TurnsOK
<1>2. /\ Delivered(t) \in TurnRec /\ Delivered(t).entered = turns[t].entered
      /\ [turns[t] EXCEPT !.cancel = FALSE] \in TurnRec
      /\ [turns[t] EXCEPT !.slot = TRUE] \in TurnRec
      /\ [turns[t] EXCEPT !.cancel = FALSE, !.slot = TRUE] \in TurnRec
  BY <1>1 DEF Delivered, TurnRec
<1>3. "done" \in Pc \ LivePc /\ "unrun" \in Pc \ LivePc /\ "torn" \in Pc \ LivePc
  BY DEF Pc, LivePc, SendPc
<1>4. ASSUME UNCHANGED <<device, closed, ws>>, ~turns[t].cancel, NEW x, p = x,
             \/ x = "new" /\ q \in {"asr", "done", "tools"}
             \/ x = "asr" /\ q \in {"stt", "done"}
             \/ x = "tools" /\ q = "slot"
             \/ x = "slot" /\ q \in {"llm", "say1", "drain", "done"}
             \/ x = "llm" /\ q \in {"say1", "drain", "done"}
             \/ x = "stream" /\ q = "stop"
             \/ x = "close" /\ q = "done"
      PROVE  Says(t) /\ Wanes(t)
  <2>1. Silent(p, q)
    BY <1>3, <1>4, Phases DEF Silent
  <2> QED
    BY <1>3, <1>4, <2>1, SilentSays DEF Wanes, Last
<1>5. CASE Begin(t)
  BY <1>1, <1>4, <1>5, GotoPc DEF Begin, At, link
<1>6. CASE AsrReturns(t)
  BY <1>1, <1>4, <1>6, GotoPc, FinishPc DEF AsrReturns, At, link
<1>7. CASE ToolsWaited(t)
  BY <1>1, <1>4, <1>7, GotoPc DEF ToolsWaited, At, link
<1>8. CASE SlotGranted(t)
  BY <1>1, <1>2, <1>4, <1>8, GotoPc DEF SlotGranted, At, link
<1>9. CASE SlotTimeout(t) \/ LlmReturns(t)
  BY <1>1, <1>4, <1>9, SpeakPc DEF SlotTimeout, LlmReturns, At, link
<1>10. CASE StreamEnds(t)
  BY <1>1, <1>4, <1>10, GotoPc DEF StreamEnds, At, link
<1>11. CASE HungUp(t)
  BY <1>1, <1>4, <1>11, FinishPc DEF HungUp, At, link
<1>12. CASE SttSent(t) \/ SentenceStartSent(t)
  <2>1. /\ Send(device) /\ UNCHANGED ws /\ ~turns[t].cancel
        /\ (p = "stt" /\ q = "tools") \/ (p = "say1" /\ q = "say2")
    BY <1>1, <1>12, GotoPc DEF SttSent, SentenceStartSent, At
  <2>2. Silent(p, q)
    BY <2>1, Phases DEF Silent
  <2> QED
    BY <1>1, <2>1, <2>2, SendSays DEF Wanes, Last
<1>13. CASE Emit(t)
  BY <1>1, <1>13, SendSays DEF Emit, At, Silent, Wanes, Last
<1>14. CASE TtsStartSent(t)
  <2>1. /\ Send([device EXCEPT !.speaking = TRUE]) /\ UNCHANGED ws /\ ~turns[t].cancel
        /\ p = "say2" /\ q = "stream"
    BY <1>1, <1>14, GotoPc DEF TtsStartSent, At
  <2>2. (CanSend' => CanSend /\ device'.speaking) /\ (~CanSend' => device' = device)
    BY <1>1, <2>1, SendHeard DEF Rest
  <2> QED
    BY <2>1, <2>2, Phases DEF Says, Wanes, Last
<1>15. CASE TtsStopSent(t)
  <2> DEFINE r == Stopped(turns[t])
  <2>1. /\ Send([device EXCEPT !.speaking = FALSE]) /\ UNCHANGED ws /\ p = "stop"
        /\ IF r.cancelled THEN Unwind(t, r) ELSE AfterTts(t, r, row)
    BY <1>15 DEF TtsStopSent, At
  <2>2. turns[t].stops = 0 /\ turns[t].entered
    BY <1>1, <2>1 DEF TurnOK, Voiced
  <2>3. r \in TurnRec /\ r.entered
    BY <1>1, <2>2, StoppedFacts
  <2> HIDE DEF r
  <2>4. q \in {"drain", "done"}
    BY <1>1, <2>1, <2>3, UnwindPc, AfterTtsPc
  <2>5. (CanSend' => CanSend /\ ~device'.speaking) /\ (~CanSend' => device' = device)
    BY <1>1, <2>1, SendHeard DEF Rest
  <2> QED
    BY <1>3, <2>1, <2>4, <2>5, Phases DEF Says, Wanes, Last
<1>16. CASE Drained(t)
  <2>1. ~ws' /\ UNCHANGED device /\ q = "close"
    BY <1>1, <1>16, GotoPc DEF Drained, At
  <2> QED
    BY <2>1 DEF Says, Wanes, Last, CanSend
<1>17. CASE GuardStopSent(t)
  <2>1. /\ Send([device EXCEPT !.speaking = FALSE]) /\ UNCHANGED ws /\ p = "guard"
        /\ Finish(t, Stopped(turns[t]), "turns_cancelled")
    BY <1>17 DEF GuardStopSent, At
  <2>2. Stopped(turns[t]) \in TurnRec
    BY <1>1, <2>1, StoppedFacts DEF TurnOK
  <2>3. q = "done"
    BY <1>1, <2>1, <2>2, FinishPc
  <2>4. (CanSend' => CanSend /\ ~device'.speaking) /\ (~CanSend' => device' = device)
    BY <1>1, <2>1, SendHeard DEF Rest
  <2> QED
    BY <1>3, <2>1, <2>3, <2>4, Phases DEF Says, Wanes, Last
<1>18. CASE CancelUnrun(t) \/ CancelInGuard(t)
  <2>1. /\ UNCHANGED <<device, closed, ws>>
        /\ (p = "new" /\ q = "unrun") \/ (p = "guard" /\ q = "torn")
    BY <1>1, <1>2, <1>18, GotoPc DEF CancelUnrun, CancelInGuard, CancelAt, link
  <2>2. Silent(p, q)
    BY <1>3, <2>1, Phases DEF Silent
  <2> QED
    BY <1>3, <2>1, <2>2, SilentSays DEF Wanes, Last
<1>19. CASE CancelBeforeTts(t)
  <2>1. /\ UNCHANGED <<device, closed, ws>> /\ p \in {"asr", "stt", "tools", "slot", "llm"}
        /\ q \in {"guard", "done"}
    BY <1>1, <1>2, <1>19, UnwindPc DEF CancelBeforeTts, CancelAt, link
  <2>2. Silent(p, q)
    BY <1>3, <2>1, Phases DEF Silent
  <2> QED
    BY <1>3, <2>1, <2>2, SilentSays DEF Wanes, Last
<1>20. CASE CancelInStart(t)
  <2>1. /\ p \in {"say1", "say2"} /\ turns[t].cancel /\ Unwind(t, Delivered(t))
        /\ UNCHANGED <<closed, ws>> /\ (device' = device \/ CanSend)
    BY <1>20 DEF CancelInStart, CancelAt, link
  <2>2. q = "done"
    BY <1>1, <1>2, <2>1, UnwindPc DEF TurnOK, Voiced
  <2>3. CanSend => env.slow
    BY <1>1, <2>1 DEF IInv, Speaker, SendPc
  <2> QED
    BY <1>3, <2>1, <2>2, <2>3, Phases DEF Says, Wanes, Last, CanSend
<1>21. CASE CancelInStream(t)
  <2>1. UNCHANGED <<device, closed, ws>> /\ p = "stream" /\ q = "stop"
    BY <1>1, <1>2, <1>21, GotoPc DEF CancelInStream, CancelAt, link
  <2>2. Silent(p, q)
    BY <2>1, Phases DEF Silent
  <2> QED
    BY <2>1, <2>2, SilentSays DEF Wanes, Last
<1>22. CASE CancelAfterStream(t)
  <2>1. /\ p \in {"stop", "drain", "close"} /\ turns[t].cancel /\ UNCHANGED <<closed, ws>>
        /\ \/ device' = device /\ Unwind(t, Delivered(t))
           \/ p = "stop" /\ CanSend /\ Unwind(t, Stopped(Delivered(t)))
    BY <1>22 DEF CancelAfterStream, CancelAt, link
  <2>2. p = "stop" => Stopped(Delivered(t)) \in TurnRec /\ Stopped(Delivered(t)).entered
    BY <1>1, <1>2, StoppedFacts DEF TurnOK, Voiced, Delivered, TurnRec
  <2>3. q = "done"
    BY <1>1, <1>2, <2>1, <2>2, UnwindPc DEF TurnOK, Voiced
  <2>4. p = "stop" /\ CanSend => env.slow
    BY <1>1, <2>1 DEF IInv, Speaker, SendPc
  <2> QED
    BY <1>3, <2>1, <2>3, <2>4, Phases DEF Says, Wanes, Last, CanSend, Silent
<1>23. CASE CancelSwallowed(t)
  <2>1. /\ UNCHANGED <<device, closed, ws>> /\ env.py311
        /\ p \in {"tools", "slot", "llm"} /\ q \in {"slot", "llm"}
    BY <1>1, <1>2, <1>23, GotoPc DEF CancelSwallowed, CancelAt, link
  <2>2. Silent(p, q)
    BY <2>1, Phases DEF Silent
  <2> QED
    BY <2>1, <2>2, SilentSays DEF Wanes
<1> QED
  BY <1>5, <1>6, <1>7, <1>8, <1>9, <1>10, <1>11, <1>12, <1>13, <1>14, <1>15, <1>16, <1>17, <1>18,
     <1>19, <1>20, <1>21, <1>22, <1>23 DEF TurnStep, LoopStep, ServiceStep

\* No turn before the handshake is over, and after the teardown none that goes on by itself.
Leftover ==
    /\ main \in {"accepted", "handshake"} => current = 0
    /\ main \in {"closing", "ended"} =>
          \A t \in Turn : Live(t) => turns[t].cancel \/ turns[t].pc \in Last \/ env.py311

LEMMA LeftoverInit == Init => Leftover
BY DEF Init, Leftover

LEMMA LeftoverNext == ASSUME IInv, Leftover, [Next]_vars PROVE Leftover'
<1>1. ASSUME NEW t \in Turn, TurnStep(t) PROVE Leftover'
  <2>1. TurnShape(t) /\ Wanes(t)
    BY <1>1, TurnStepShape, TurnTells DEF IInv, Shape
  <2>2. UNCHANGED <<env, main, current>> /\ Live(t) /\ \A u \in Turn : u # t => turns'[u] = turns[u]
    BY <2>1 DEF TurnShape, OthersSame
  <2>3. ASSUME main' \in {"closing", "ended"}, NEW u \in Turn, Live(u)'
        PROVE  (turns[u].cancel \/ turns[u].pc \in Last \/ env.py311)'
    <3>1. CASE u = t
      BY <2>1, <2>2, <2>3, <3>1 DEF Leftover, Wanes, Live
    <3>2. CASE u # t
      BY <2>2, <2>3, <3>2 DEF Leftover, Live
    <3> QED
      BY <3>1, <3>2
  <2> QED
    BY <2>2, <2>3 DEF Leftover
<1>2. CASE MainStep
  <2>1. CASE HandshakeFails
    BY <2>1 DEF HandshakeFails, Leftover, IInv, OnlyCurrent, Live, Turn
  <2>2. CASE Teardown
    <3>1. main' = "closing" /\ turns' = Cancelling({current})
      BY <2>2 DEF Teardown
    <3>2. ASSUME NEW t \in Turn, Live(t)'
          PROVE  turns'[t].cancel
      <4>1. turns[t] \in TurnRec
        BY DEF IInv, TurnsOK
      <4>2. Live(t) /\ t = current
        BY <3>1, <3>2, <4>1 DEF Cancelling, Live, IInv, OnlyCurrent, TurnRec
      <4> QED
        BY <3>1, <4>1, <4>2 DEF Cancelling, TurnRec
    <3> QED
      BY <3>1, <3>2 DEF Leftover
  <2>3. CASE SessionClosed
    BY <2>3 DEF SessionClosed, Leftover, Live
  <2>4. CASE Open
    BY <2>4 DEF Open, Leftover
  <2>5. CASE ~HandshakeFails /\ ~Teardown /\ ~SessionClosed /\ ~Open
    <3>1. main' \in {"loop", "leaving"}
      BY <1>2, <2>5 DEF MainStep, HandshakeOk, AudioIn, ListenStart, ListenStop, ListenDetect, Abort,
                        LoopEnds, BackgroundSendFails, Receive
    <3> QED
      BY <3>1 DEF Leftover
  <2> QED
    BY <2>1, <2>2, <2>3, <2>4, <2>5
<1>3. CASE UNCHANGED vars
  BY <1>3 DEF vars, link, Leftover, Live
<1> QED
  BY <1>1, <1>2, <1>3 DEF Next

----------------------------------------------------------------------------
(* What follows *)

\* Every variable keeps its type, the mic buffer its cap and the stop count its bound.
THEOREM SessionTypeOK == Spec => []TypeOK
<1>1. IInv => TypeOK
  BY DEF IInv, Rest, TurnsOK, TypeOK
<1> QED
  BY <1>1, SessionInvariant, PTL

\* A connection never runs two pipelines at once, however many turns it is asked for.
THEOREM AtMostOneTurn == Spec => []OneTurn
<1>1. IInv => OneTurn
  BY DEF IInv, OnlyCurrent, OneTurn
<1> QED
  BY <1>1, SessionInvariant, PTL

\* _stream_tts's stop and the guard's stop exclude each other.
THEOREM AtMostOneStop == Spec => []OneStopPerTurn
<1>1. IInv => OneStopPerTurn
  BY DEF IInv, TurnsOK, TurnOK, OneStopPerTurn
<1> QED
  BY <1>1, SessionInvariant, PTL

\* The row does not say processing or speaking once all turns are over and had their finally.
THEOREM RowIsHonest == Spec => []RowTracksTurn
<1>1. IInv => RowTracksTurn
  BY DEF IInv
<1> QED
  BY <1>1, SessionInvariant, PTL

\* The turn slot is held in the LLM and TTS part of a turn only, and of a turn that outlives its
\* session only by one that takes no service to end.
THEOREM SlotOnlyWhileUsed == Spec => []SlotOnlyInPipeline
<1>1. IInv /\ Leftover => SlotOnlyInPipeline
  <2> SUFFICES ASSUME IInv, Leftover, NEW t \in Turn, turns[t].slot
               PROVE  /\ turns[t].pc \in {"llm", "say1", "say2", "stream", "stop"}
                      /\ main = "ended" => turns[t].cancel \/ turns[t].pc = "stop" \/ env.py311
    BY DEF SlotOnlyInPipeline
  <2>1. turns[t].pc \in Piped
    BY DEF IInv, TurnsOK, TurnOK
  <2>2. Live(t)
    BY <2>1 DEF Piped, Live, LivePc, SendPc
  <2> QED
    BY <2>1, <2>2 DEF Leftover, Last, Piped
<1>2. IInv /\ Leftover /\ [Next]_vars => Leftover'
  BY LeftoverNext
<1> QED
  BY <1>1, <1>2, LeftoverInit, SessionInvariant, PTL DEF Spec

\* A reminder turn that was not cancelled has hung up.
THEOREM RemindersHangUp == Spec => []ReminderHangsUp
<1>1. IInv => ReminderHangsUp
  BY DEF IInv, HangsUp, ReminderHangsUp
<1> QED
  BY <1>1, SessionInvariant, PTL

\* On a socket that keeps up, a device that speaks has a turn that will still stop it.
THEOREM FastDeviceReleased == Spec => []DeviceReleasedIfFast
<1>1. IInv => DeviceReleasedIfFast
  BY DEF IInv, Speaker, DeviceReleasedIfFast, DeviceReleased, Live, LivePc, SendPc
<1> QED
  BY <1>1, SessionInvariant, PTL

\* in_flight, as /metrics computes it, is the number of turns that run, whatever was cancelled.
THEOREM InFlightIsReal == Spec => []CountedOut
<1>1. Init => CountedOut
  <2> SUFFICES ASSUME Init PROVE CountedOut
    OBVIOUS
  <2>1. InFlight = 0
    BY DEF Init, InFlight, Counter
  <2>2. Started \cup Torn = {}
    BY DEF Init, NoTurn, Started, Torn, Live, LivePc, SendPc
  <2> QED
    BY <2>1, <2>2, FS_EmptySet DEF CountedOut
<1>2. IInv /\ CountedOut /\ [Next]_vars => CountedOut'
  <2>1. ASSUME UNCHANGED vars, CountedOut PROVE CountedOut'
    BY <2>1 DEF vars, link, cycle, CountedOut, InFlight, Started, Torn, Live
  <2> QED
    BY <2>1, TurnKeepsCount, MainKeepsCount DEF Next
<1> QED
  BY <1>1, <1>2, SessionInvariant, PTL DEF Spec

\* Seen by the device, every behaviour of a session is one of Voice.
THEOREM SessionImplementsVoice == Spec => ImplementsVoice
<1>1. Init => Heard!Init
  BY SessionAssumption DEF Init, Heard!Init, CanSend
<1>2. ASSUME IInv, NEW t \in Turn, TurnStep(t) PROVE Heard!Next \/ UNCHANGED Heard!voiceVars
  <2>1. /\ UNCHANGED <<env, current>> /\ current = t /\ current \in Turn /\ Says(t)
        /\ device'.speaking \in BOOLEAN
    BY <1>2, TurnStepShape, TurnTells DEF IInv, Shape, TurnShape, OnlyCurrent, DeviceShape
  <2>2. current # 0
    BY <2>1 DEF Turn
  <2>3. CASE ~CanSend'
    BY <2>1, <2>3 DEF Says, Heard!Next, Heard!Gone
  <2>4. CASE CanSend /\ CanSend'
    BY <2>1, <2>2, <2>4
       DEF Says, Silent, Heard!Next, Heard!Goes, Heard!Start, Heard!Stop, Heard!Hush, Heard!Pass,
           Heard!StayOpen, Heard!CutOff, Heard!voiceVars
  <2> QED
    BY <2>1, <2>3, <2>4 DEF Says
<1>3. ASSUME IInv, MainStep PROVE Heard!Next \/ UNCHANGED Heard!voiceVars
  <2>1. MainShape /\ Rest
    BY <1>3, MainStepShape DEF IInv
  <2>2. UNCHANGED env /\ device'.speaking = device.speaking /\ (CanSend' => CanSend)
    BY <2>1 DEF MainShape
  <2>3. CASE ~CanSend'
    BY <2>2, <2>3 DEF Heard!Next, Heard!Gone
  <2>4. CASE CanSend' /\ Kept
    <3>1. current' = current /\ (current # 0 => turns'[current].pc = turns[current].pc)
      BY <2>1, <2>4 DEF Kept, Rest, Turn
    <3> QED
      BY <2>2, <2>4, <3>1 DEF Heard!voiceVars
  <2>5. CASE CanSend' /\ Spawned
    <3>1. /\ current' = current + 1 /\ current' # 0 /\ turns'[current'].pc = "new"
      BY <2>5 DEF Spawned, Turn
    <3>2. current # 0 => PhaseOf(turns[current].pc) = "over"
      <4>1. current # 0 => current \in Turn
        BY <2>1 DEF Rest, Turn
      <4>2. current # 0 => turns[current].pc \in Pc \ LivePc
        BY <1>3, <2>5, <4>1 DEF Spawned, TurnActive, Live, IInv, TurnsOK, TurnRec
      <4> QED
        BY <4>2, Phases
    <3>3. PhaseOf(turns'[current'].pc) = "thinking"
      BY <3>1, Phases
    <3> QED
      BY <2>2, <2>5, <3>1, <3>2, <3>3 DEF Heard!Next, Heard!Begin
  <2> QED
    BY <2>1, <2>3, <2>4, <2>5 DEF MainShape
<1>4. ASSUME UNCHANGED vars PROVE UNCHANGED Heard!voiceVars
  BY <1>4 DEF vars, link, CanSend, Heard!voiceVars
<1>5. IInv /\ [Next]_vars => [Heard!Next]_Heard!voiceVars
  BY <1>2, <1>3, <1>4 DEF Next
<1> QED
  BY <1>1, <1>5, SessionInvariant, PTL DEF Spec, ImplementsVoice, Heard!Spec

============================================================================
