----------------------------- MODULE TtsPacing -----------------------------
(***************************************************************************)
(* The pacing of one spoken reply: Session._stream_tts and its _emit       *)
(* (server/session.py 748-806) against the device's decode queue.          *)
(*                                                                         *)
(* Time is counted in ticks from tts_t0, the instant the synthesis is      *)
(* started; the device plays a frame in FrameTicks ticks as soon as it has *)
(* one.  PCM comes in chunks of any size, in units of half a frame.        *)
(***************************************************************************)
EXTENDS Integers

CONSTANTS
    FrameTicks,   \* FRAME_DURATION_MS
    LeadTicks,    \* JARVIZ_TTS_JITTER_BUFFER_MS
    QueueCap,     \* the firmware's MAX_DECODE_PACKETS_IN_QUEUE
    Units,        \* PCM the synthesis yields for this reply, in half frames
    MaxQuiet      \* bound: ticks the device waits for audio, before the first frame and
                  \* in later stalls of the synthesis or the network

ASSUME PacingAssumption ==
    /\ FrameTicks \in Nat \ {0} /\ LeadTicks \in Nat /\ QueueCap \in Nat \ {0}
    /\ Units \in Nat /\ MaxQuiet \in Nat

VARIABLES
    now,        \* time.monotonic() - tts_t0
    made,       \* units of PCM synthesized so far
    ended,      \* the synthesis is over
    sent,       \* frames_sent
    queue,      \* the device's decode queue, the frame being played included
    phase,      \* ticks the device has played of that frame
    played,     \* frames it has played
    dropped,    \* frames it had no room for
    quiet       \* ticks it had nothing to play

serverVars == <<made, ended, sent>>
deviceVars == <<queue, phase, played, dropped, quiet>>
vars == <<now, serverVars, deviceVars>>

Init ==
    /\ now = 0 /\ made = 0 /\ ended = FALSE /\ sent = 0
    /\ queue = 0 /\ phase = 0 /\ played = 0 /\ dropped = 0 /\ quiet = 0

----------------------------------------------------------------------------
(* _stream_tts *)

FaultDropsTail == made >= 2 * (sent + 1)

\* encode_pcm pads what is left at the end to a whole frame.
PaddedRest == ended /\ made > 2 * sent

\* A frame can be encoded.
FrameReady == made >= 2 * (sent + 1) \/ PaddedRest

\* The next chunk is pulled only when every whole frame of the last one was sent.
Chunk(n) ==
    /\ ~ended /\ ~FrameReady /\ made + n <= Units
    /\ made' = made + n
    /\ UNCHANGED <<now, ended, sent, deviceVars>>

SynthesisEnds ==
    /\ ~ended /\ ~FrameReady /\ made = Units
    /\ ended' = TRUE
    /\ UNCHANGED <<now, made, sent, deviceVars>>

FaultNoPacing == TRUE

\* _emit, with JARVIZ_TTS_PACING_ENABLED: `delay = target - now` has run out.
Due == now >= sent * FrameTicks - LeadTicks

\* The frame reaches the device, which drops it if its queue is full.
Emit ==
    /\ FrameReady /\ Due
    /\ sent' = sent + 1
    /\ IF queue < QueueCap THEN queue' = queue + 1 /\ UNCHANGED dropped
                           ELSE dropped' = dropped + 1 /\ UNCHANGED queue
    /\ UNCHANGED <<now, made, ended, phase, played, quiet>>

----------------------------------------------------------------------------
(* The device, and time *)

Over == ended /\ ~FrameReady

\* One tick: the device plays, or is quiet.
Tick ==
    /\ ~(Over /\ queue = 0)
    /\ now' = now + 1
    /\ IF queue = 0
       THEN quiet < MaxQuiet /\ quiet' = quiet + 1 /\ UNCHANGED <<queue, phase, played>>
       ELSE /\ UNCHANGED quiet
            /\ IF phase + 1 = FrameTicks
               THEN phase' = 0 /\ queue' = queue - 1 /\ played' = played + 1
               ELSE phase' = phase + 1 /\ UNCHANGED <<queue, played>>
    /\ UNCHANGED <<serverVars, dropped>>

Next == (\E n \in 1..Units : Chunk(n)) \/ SynthesisEnds \/ Emit \/ Tick

\* The synthesis goes on to its end, a due frame is sent, time passes.
Fairness ==
    /\ WF_vars(\E n \in 1..Units : Chunk(n)) /\ WF_vars(SynthesisEnds)
    /\ WF_vars(Emit) /\ WF_vars(Tick)

Spec == Init /\ [][Next]_vars /\ Fairness

----------------------------------------------------------------------------
(* Properties *)

TypeOK ==
    /\ now \in Nat /\ made \in 0..Units /\ ended \in BOOLEAN
    /\ sent \in Nat /\ 2 * sent <= Units + 1
    /\ queue \in 0..QueueCap /\ phase \in 0..(FrameTicks - 1)
    /\ played \in Nat /\ dropped \in Nat /\ quiet \in 0..MaxQuiet

\* The schedule is absolute: whatever the chunks and stalls, no frame is sent earlier than
\* LeadTicks before its place in the reply (session.py 756-765).
AheadOfSchedule == sent * FrameTicks <= now + LeadTicks + FrameTicks

\* The device's backlog: what it has not played yet exceeds the lead by at most the time it
\* was kept waiting, since the schedule does not wait with it.
BacklogBounded == queue * FrameTicks - phase <= LeadTicks + FrameTicks + quiet

\* "Far enough below the cap to never drop" (config.py 55-62), if the stalls fit into the
\* headroom between the lead and the queue's capacity.
NeverDrops == dropped = 0
NeverDropsWithHeadroom == LeadTicks + FrameTicks + MaxQuiet <= QueueCap * FrameTicks => NeverDrops

\* Every sample is spoken: in the end the frames cover the PCM, the last one padded.
Spoken == ended /\ (2 * sent = Units \/ 2 * sent = Units + 1)
AllSpoken == <>Spoken

============================================================================
