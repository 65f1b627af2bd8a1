------------------------------- MODULE EdgeTts ------------------------------
(***************************************************************************)
(* One reply synthesized: EdgeTTS.synthesize (server/tts/edge_provider.py).*)
(* The feeder task writes Edge's MP3 into ffmpeg's stdin, the generator    *)
(* reads PCM from its stdout and hands it to the session, and the pipes    *)
(* between them hold only so much.  The session may close the generator or *)
(* be cancelled in it at any await, and cancelled once more while it cleans *)
(* up.  Edge, ffmpeg and the pipes are external: Edge may stall for ever,  *)
(* ffmpeg may die, or not listen to SIGTERM.                               *)
(***************************************************************************)
EXTENDS Naturals

CONSTANTS
    Expand,      \* PCM blocks ffmpeg makes of one MP3 chunk
    HighWater,   \* MP3 chunks in stdin above which drain() waits
    PipeSize,    \* PCM blocks stdout holds
    MaxChunks    \* bound: MP3 chunks of the reply

ASSUME EdgeTtsAssumption ==
    /\ Expand \in Nat \ {0} /\ HighWater \in Nat /\ PipeSize \in Nat \ {0}
    /\ MaxChunks \in Nat

VARIABLES
    feeder,     \* the feeder task: waits for Edge, for drain(), or has ended
    failed,     \* feeder_error holds an error
    fed,        \* MP3 chunks written to stdin
    stdin,      \* those ffmpeg has not read yet
    decoded,    \* PCM blocks ffmpeg holds and has to write
    stdout,     \* PCM blocks in the pipe
    ffmpeg,     \* the process: it runs, ended by itself, crashed, or was killed
    reaped,     \* its returncode is set: the event loop has seen it exit
    told,       \* the last signal sent to it
    gen,        \* the generator
    yielded,    \* PCM blocks handed on
    early,      \* it was closed or cancelled before ffmpeg's output had ended
    cut,        \* cancelled while it waited for ffmpeg to exit
    logged      \* the failure of Edge was logged

feed == <<feeder, failed, fed>>
proc == <<stdin, decoded, stdout, ffmpeg, reaped>>
side == <<told, gen, yielded, early, cut, logged>>
vars == <<feed, proc, side>>

Init ==
    /\ feeder = "stream" /\ failed = FALSE /\ fed = 0
    /\ stdin = 0 /\ decoded = 0 /\ stdout = 0 /\ ffmpeg = "run"
    /\ reaped = FALSE /\ told = "nothing" /\ gen = "read" /\ yielded = 0
    /\ early = FALSE /\ cut = FALSE /\ logged = FALSE

Closing == gen \notin {"read", "yield"}

----------------------------------------------------------------------------
(* feed_ffmpeg; its end, whatever brings it, closes stdin *)

\* A chunk from Edge is written, or the pipe turns out to be broken.
Feed ==
    /\ feeder = "stream" /\ fed < MaxChunks
    /\ IF ffmpeg = "run"
       THEN /\ fed' = fed + 1 /\ stdin' = stdin + 1
            /\ feeder' = IF stdin' > HighWater THEN "drain" ELSE "stream"
       ELSE feeder' = "done" /\ UNCHANGED <<fed, stdin>>
    /\ UNCHANGED <<failed, decoded, stdout, ffmpeg, reaped, side>>

Drained ==
    /\ feeder = "drain"
    /\ \/ ffmpeg = "run" /\ stdin <= HighWater /\ feeder' = "stream"
       \/ ffmpeg # "run" /\ feeder' = "done"
    /\ UNCHANGED <<failed, fed, proc, side>>

EdgeEnds ==
    /\ feeder = "stream" /\ feeder' = "done"
    /\ UNCHANGED <<failed, fed, proc, side>>

EdgeFails ==
    /\ feeder = "stream" /\ feeder' = "done" /\ failed' = TRUE
    /\ UNCHANGED <<fed, proc, side>>

\* feeder.cancel() of the generator's finally, delivered at the feeder's await.
FeederCancelled ==
    /\ Closing /\ feeder # "done"
    /\ feeder' = "done"
    /\ UNCHANGED <<failed, fed, proc, side>>

----------------------------------------------------------------------------
(* ffmpeg *)

Decode ==
    /\ ffmpeg = "run" /\ stdin > 0 /\ decoded = 0
    /\ stdin' = stdin - 1 /\ decoded' = Expand
    /\ UNCHANGED <<feed, stdout, ffmpeg, reaped, side>>

Write ==
    /\ ffmpeg = "run" /\ decoded > 0 /\ stdout < PipeSize
    /\ decoded' = decoded - 1 /\ stdout' = stdout + 1
    /\ UNCHANGED <<feed, stdin, ffmpeg, reaped, side>>

Exit(how) == ffmpeg' = how /\ UNCHANGED <<feed, stdin, decoded, stdout, reaped, side>>

InputOver == ffmpeg = "run" /\ feeder = "done" /\ stdin = 0 /\ decoded = 0 /\ Exit("ended")

Crashes == ffmpeg = "run" /\ Exit("crashed")

Terminated == ffmpeg = "run" /\ told = "terminate" /\ Exit("killed")

Killed == ffmpeg = "run" /\ told = "kill" /\ Exit("killed")

\* The event loop hears of the exit, possibly after the end of the output.
Reap ==
    /\ ffmpeg # "run" /\ ~reaped
    /\ reaped' = TRUE
    /\ UNCHANGED <<feed, stdin, decoded, stdout, ffmpeg, side>>

----------------------------------------------------------------------------
(* synthesize *)

FaultReadsWhenFed ==
    /\ gen = "read" /\ stdout > 0 /\ feeder = "done"
    /\ stdout' = stdout - 1 /\ yielded' = yielded + 1
    /\ gen' = "yield"
    /\ UNCHANGED <<feed, stdin, decoded, ffmpeg, reaped, told, early, cut, logged>>

Read ==
    /\ gen = "read" /\ stdout > 0
    /\ stdout' = stdout - 1 /\ yielded' = yielded + 1
    /\ gen' = "yield"
    /\ UNCHANGED <<feed, stdin, decoded, ffmpeg, reaped, told, early, cut, logged>>

\* The session has sent the block and asks for the next.
Resume ==
    /\ gen = "yield" /\ gen' = "read"
    /\ UNCHANGED <<feed, proc, told, yielded, early, cut, logged>>

FaultStopsWithProcess ==
    /\ gen = "read" /\ ffmpeg # "run"
    /\ gen' = "feeder"
    /\ UNCHANGED <<feed, proc, told, yielded, early, cut, logged>>

\* read() returns no bytes: the loop is over, and the finally awaits the feeder.
OutputOver ==
    /\ gen = "read" /\ stdout = 0 /\ ffmpeg # "run"
    /\ gen' = "feeder"
    /\ UNCHANGED <<feed, proc, told, yielded, early, cut, logged>>

\* Cancelled in read(), or closed at the yield: by the event loop, once the session's
\* `async for` was left and the generator is collected.
ClosedEarly ==
    /\ ~Closing
    /\ gen' = "feeder" /\ early' = TRUE
    /\ UNCHANGED <<feed, proc, told, yielded, cut, logged>>

FaultOnlyTerminates ==
    /\ gen = "feeder" /\ feeder = "done"
    /\ logged' = failed
    /\ told' = "terminate" /\ gen' = "done"
    /\ UNCHANGED <<feed, proc, yielded, early, cut>>

\* The feeder has ended (a cancellation that comes meanwhile is passed over); ffmpeg is told
\* to end unless its exit was seen.
FeederAwaited ==
    /\ gen = "feeder" /\ feeder = "done"
    /\ logged' = failed
    /\ IF reaped THEN UNCHANGED told /\ gen' = "done"
                 ELSE told' = "terminate" /\ gen' = "wait"
    /\ UNCHANGED <<feed, proc, yielded, early, cut>>

FaultNeverKills == FALSE

\* Two seconds later.
WaitTimesOut ==
    /\ gen = "wait" /\ ~reaped
    /\ told' = "kill" /\ gen' = "reap"
    /\ UNCHANGED <<feed, proc, yielded, early, cut, logged>>

Waited ==
    /\ gen \in {"wait", "reap"} /\ reaped
    /\ gen' = "done"
    /\ UNCHANGED <<feed, proc, told, yielded, early, cut, logged>>

\* CancelledError leaves the finally from within one of its two waits.
CancelledWaiting ==
    /\ gen \in {"wait", "reap"}
    /\ gen' = "done" /\ cut' = TRUE
    /\ UNCHANGED <<feed, proc, told, yielded, early, logged>>

----------------------------------------------------------------------------

Step ==
    \/ Drained \/ FeederCancelled
    \/ Decode \/ Write \/ InputOver \/ Killed \/ Reap
    \/ Read \/ Resume \/ OutputOver \/ FeederAwaited \/ WaitTimesOut \/ Waited

Next ==
    \/ Step
    \/ Feed \/ EdgeEnds \/ EdgeFails
    \/ Crashes \/ Terminated
    \/ ClosedEarly \/ CancelledWaiting

\* The event loop, a running ffmpeg and a SIGKILL do their part, and the session asks for
\* more until it closes.  Nothing is assumed of Edge, or of ffmpeg after SIGTERM.
Spec == Init /\ [][Next]_vars /\ WF_vars(Drained) /\ WF_vars(FeederCancelled)
    /\ WF_vars(Decode \/ Write \/ InputOver) /\ WF_vars(Killed) /\ WF_vars(Reap)
    /\ WF_vars(Read \/ Resume \/ OutputOver \/ FeederAwaited \/ Waited) /\ WF_vars(WaitTimesOut)

----------------------------------------------------------------------------
(* Properties *)

TypeOK ==
    /\ feeder \in {"stream", "drain", "done"} /\ failed \in BOOLEAN /\ fed \in 0..MaxChunks
    /\ stdin \in 0..HighWater + 1 /\ decoded \in 0..Expand /\ stdout \in 0..PipeSize
    /\ ffmpeg \in {"run", "ended", "crashed", "killed"} /\ reaped \in BOOLEAN
    /\ told \in {"nothing", "terminate", "kill"}
    /\ gen \in {"read", "yield", "feeder", "wait", "reap", "done"}
    /\ yielded \in Nat
    /\ early \in BOOLEAN /\ cut \in BOOLEAN /\ logged \in BOOLEAN

\* Whatever failed, nothing of a synthesis outlives its generator: the feeder has ended, and
\* so has ffmpeg, unless a cancellation cut the wait for its exit short; then it has been
\* told to (edge_provider.py 127-161).
NothingOutlives ==
    gen = "done" =>
        /\ feeder = "done"
        /\ ~reaped => cut /\ told # "nothing"

\* A reply that is not cut short by the session or by a crash of ffmpeg is spoken whole, up
\* to where Edge failed, and that failure is logged even if some audio came before it
\* (edge_provider.py 94-110, 121-126, 144-148).
SpokenWhole ==
    gen = "done" =>
        /\ ~early /\ ffmpeg = "ended" => yielded = Expand * fed
        /\ failed => logged

\* Once the generator is closed or its output is over, it ends, also when Edge stalls and
\* ffmpeg hangs (edge_provider.py 128-161).
CloseCompletes == Closing ~> gen = "done"

\* The three never wait for one another: unless Edge stalls, the synthesis comes to its end,
\* however small the pipes are (edge_provider.py 96-126).
PlaysOut == <>[](feeder = "stream") \/ <>(gen = "done")

============================================================================
