--------------------------- MODULE ProviderProofs ---------------------------
(* What holds of the two providers that run threads and processes beside the *)
(* event loop, each on its own: the recognizer (WhisperAsr) for any number   *)
(* of threads and any setting of its parallelism, the synthesis (EdgeTts)    *)
(* for every expansion rate and every pipe size, whatever Edge, ffmpeg and   *)
(* the session do.                                                           *)
EXTENDS WhisperAsr, EdgeTts, FiniteSetTheorems, TLAPS

----------------------------------------------------------------------------
(* WhisperAsr *)


Inferring == {c \in Call : pc[c] = "infer"}

\* The lock is held by the one call that builds the model, and only while there is none.
LoadsUnderLock ==
    /\ \A c \in Call : c \in lock <=> pc[c] = "load"
    /\ \A c, d \in lock : c = d
    /\ lock # {} => ~ready

AsrInv == AsrTypeOK /\ LoadsUnderLock /\ OneModel /\ InferenceBounded

\* Whatever the setting, there is at least one permit.
LEMMA ClampedPositive == Clamped \in Nat \ {0}
  BY WhisperAssumption, SMT DEF Clamped

\* The invariant holds at the start.
LEMMA AsrInitInv == AsrInit => AsrInv
<1> SUFFICES ASSUME AsrInit
             PROVE  AsrInv
  OBVIOUS
<1>1. AsrTypeOK
  <2>1. permits \in 0..Clamped /\ builds \in Nat
    BY ClampedPositive, SMT DEF AsrInit
  <2>2. pc \in [Call -> {"none", "queued", "begin", "lock", "load", "sem", "infer"}]
    BY DEF AsrInit
  <2> QED
    BY <2>1, <2>2 DEF AsrInit, AsrTypeOK
<1>2. LoadsUnderLock /\ OneModel
  BY DEF AsrInit, LoadsUnderLock, OneModel
<1>3. InferenceBounded
  <2>1. Inferring = {}
    BY DEF AsrInit, Inferring
  <2>2. Cardinality(Inferring) = 0
    BY <2>1, FS_EmptySet
  <2> QED
    BY <2>2, ClampedPositive DEF InferenceBounded, Inferring, AsrInit
<1> QED
  BY <1>1, <1>2, <1>3 DEF AsrInv

\* A step that moves no call in or out of the inference leaves the account of permits.
LEMMA SameInferring ==
  ASSUME InferenceBounded, UNCHANGED permits, Inferring' = Inferring
  PROVE  InferenceBounded'
  BY DEF InferenceBounded, Inferring, Clamped

\* The steps of the turn, and those of a thread outside _ensure_model and the inference.
LEMMA OutsideKeeps ==
  ASSUME AsrInv, NEW c \in Call,
         Submit(c) \/ CancelAwait(c) \/ Start(c) \/ Silent(c) \/ Heard(c)
  PROVE  AsrInv'
<1> USE DEF AsrInv, Goto, Finish
<1>1. AsrTypeOK'
  BY DEF AsrTypeOK, Submit, CancelAwait, Start, Silent, Heard, Clamped
<1>2. LoadsUnderLock'
  BY DEF AsrTypeOK, LoadsUnderLock, Submit, CancelAwait, Start, Silent, Heard
<1>3. OneModel'
  BY DEF AsrTypeOK, OneModel, Submit, CancelAwait, Start, Silent, Heard
<1>4. UNCHANGED permits /\ Inferring' = Inferring
  BY DEF AsrTypeOK, Inferring, Submit, CancelAwait, Start, Silent, Heard
<1> QED
  BY <1>1, <1>2, <1>3, <1>4, SameInferring

\* The steps of _ensure_model: only the holder of the lock builds, and it looked first.
LEMMA LoadKeeps ==
  ASSUME AsrInv, NEW c \in Call, Locked(c) \/ Loaded(c) \/ LoadFails(c)
  PROVE  AsrInv'
<1> USE DEF AsrInv, Goto, Finish
<1>1. AsrTypeOK'
  <2>1. CASE Locked(c)
    BY <2>1 DEF AsrTypeOK, Locked, Clamped
  <2>2. CASE Loaded(c)
    BY <2>2 DEF AsrTypeOK, Loaded, Clamped
  <2>3. CASE LoadFails(c)
    BY <2>3 DEF AsrTypeOK, LoadFails, Clamped
  <2> QED
    BY <2>1, <2>2, <2>3
<1>2. LoadsUnderLock'
  <2>1. CASE Locked(c)
    BY <2>1 DEF AsrTypeOK, LoadsUnderLock, Locked
  <2>2. CASE Loaded(c)
    BY <2>2 DEF AsrTypeOK, LoadsUnderLock, Loaded
  <2>3. CASE LoadFails(c)
    BY <2>3 DEF AsrTypeOK, LoadsUnderLock, LoadFails
  <2> QED
    BY <2>1, <2>2, <2>3
<1>3. OneModel'
  <2>1. CASE Locked(c)
    BY <2>1 DEF AsrTypeOK, OneModel, Locked
  <2>2. CASE Loaded(c)
    <3>1. ~ready /\ builds = 0
      BY <2>2 DEF Loaded, LoadsUnderLock, OneModel
    <3> QED
      BY <2>2, <3>1 DEF AsrTypeOK, OneModel, Loaded
  <2>3. CASE LoadFails(c)
    BY <2>3 DEF AsrTypeOK, OneModel, LoadFails
  <2> QED
    BY <2>1, <2>2, <2>3
<1>4. UNCHANGED permits /\ Inferring' = Inferring
  BY DEF AsrTypeOK, Inferring, Locked, Loaded, LoadFails
<1> QED
  BY <1>1, <1>2, <1>3, <1>4, SameInferring

\* The semaphore: a permit taken is an inference begun, a permit given back one ended.
LEMMA InferenceKeeps ==
  ASSUME AsrInv, NEW c \in Call, Acquire(c) \/ Inferred(c)
  PROVE  AsrInv'
<1> USE DEF AsrInv, Goto, Finish
<1>1. IsFiniteSet(Inferring)
  BY WhisperAssumption, FS_Subset DEF Inferring
<1>2. Cardinality(Inferring) \in Nat /\ permits \in Nat /\ Clamped \in Nat
      /\ Cardinality(Inferring) + permits = Clamped
  BY <1>1, FS_CardinalityType, ClampedPositive DEF AsrTypeOK, InferenceBounded, Inferring
<1>3. InferenceBounded' /\ permits' \in 0..Clamped
  <2>1. CASE Acquire(c)
    <3>1. c \notin Inferring /\ Inferring' = Inferring \cup {c}
      BY <2>1 DEF AsrTypeOK, Inferring, Acquire
    <3>2. Cardinality(Inferring') = Cardinality(Inferring) + 1
      BY <1>1, <3>1, FS_AddElement
    <3>3. permits > 0 /\ permits' = permits - 1
      BY <2>1 DEF Acquire
    <3> QED
      BY <1>2, <3>2, <3>3 DEF InferenceBounded, Inferring, Clamped
  <2>2. CASE Inferred(c)
    <3>1. c \in Inferring /\ Inferring' = Inferring \ {c}
      BY <2>2 DEF AsrTypeOK, Inferring, Inferred
    <3>2. Cardinality(Inferring') = Cardinality(Inferring) - 1
      BY <1>1, <3>1, FS_RemoveElement
    <3>3. permits' = permits + 1
      BY <2>2 DEF Inferred
    <3>4. Cardinality(Inferring') \in Nat
      BY <1>1, <3>1, FS_Subset, FS_CardinalityType
    <3>5. Cardinality(Inferring') + permits' = Clamped
      BY <1>2, <3>2, <3>3
    <3>6. permits' \in 0..Clamped
      BY <1>2, <3>3, <3>4, <3>5
    <3> QED
      BY <3>5, <3>6 DEF InferenceBounded, Inferring, Clamped
  <2> QED
    BY <2>1, <2>2
<1>4. AsrTypeOK'
  BY <1>3 DEF AsrTypeOK, Acquire, Inferred, Clamped
<1>5. LoadsUnderLock'
  BY DEF AsrTypeOK, LoadsUnderLock, Acquire, Inferred
<1>6. OneModel'
  BY DEF AsrTypeOK, OneModel, Acquire, Inferred
<1> QED
  BY <1>3, <1>4, <1>5, <1>6

\* Every step keeps the invariant.
LEMMA AsrNextKeeps == AsrInv /\ [AsrNext]_asrVars => AsrInv'
<1> SUFFICES ASSUME AsrInv, [AsrNext]_asrVars
             PROVE  AsrInv'
  OBVIOUS
<1>1. CASE AsrNext
  <2>1. PICK c \in Call : Submit(c) \/ CancelAwait(c) \/ ThreadStep(c)
    BY <1>1 DEF AsrNext
  <2> QED
    BY <2>1, OutsideKeeps, LoadKeeps, InferenceKeeps DEF ThreadStep, Ends
<1>2. CASE UNCHANGED asrVars
  <2>1. UNCHANGED permits /\ Inferring' = Inferring
    BY <1>2 DEF asrVars, Inferring
  <2>2. InferenceBounded'
    BY <2>1, SameInferring DEF AsrInv
  <2> QED
    BY <1>2, <2>2 DEF AsrInv, AsrTypeOK, LoadsUnderLock, OneModel, asrVars, Clamped
<1> QED
  BY <1>1, <1>2

\* The inductive invariant of the recognizer.
THEOREM RecognizerInvariant == AsrSpec => []AsrInv
<1>1. AsrInit => AsrInv
  BY AsrInitInv
<1>2. AsrInv /\ [AsrNext]_asrVars => AsrInv'
  BY AsrNextKeeps
<1> QED
  BY <1>1, <1>2, PTL DEF AsrSpec

\* Type correctness.
THEOREM RecognizerTypeOK == AsrSpec => []AsrTypeOK
<1>1. AsrInv => AsrTypeOK
  BY DEF AsrInv
<1> QED
  BY <1>1, RecognizerInvariant, PTL

\* The model is built once, and used only when it is complete, for any number of threads.
THEOREM ModelBuiltOnce == AsrSpec => []OneModel
<1>1. AsrInv => OneModel
  BY DEF AsrInv
<1> QED
  BY <1>1, RecognizerInvariant, PTL

\* The parallelism setting is a bound, and no permit is lost, for any number of threads.
THEOREM ParallelismKept == AsrSpec => []InferenceBounded
<1>1. AsrInv => InferenceBounded
  BY DEF AsrInv
<1> QED
  BY <1>1, RecognizerInvariant, PTL

----------------------------------------------------------------------------
(* EdgeTts *)

USE EdgeTtsAssumption

\* Every block of PCM that the written MP3 stands for is somewhere.
Accounted == yielded + stdout + decoded + Expand * stdin = Expand * fed

\* What the feeder's and ffmpeg's ends leave behind.
FfmpegEnds ==
    /\ feeder = "stream" => stdin <= HighWater
    /\ ffmpeg = "ended" => feeder = "done" /\ stdin = 0 /\ decoded = 0

\* How far the generator's finally has come.
Finally ==
    /\ gen \in {"wait", "reap", "done"} => feeder = "done" /\ logged = failed
    /\ gen \in {"wait", "reap"} => told # "nothing"
    /\ Closing /\ ~early => stdout = 0 /\ ffmpeg # "run"
    /\ reaped => ffmpeg # "run"
    /\ gen = "done" /\ ~reaped => cut /\ told # "nothing"

IInv == TypeOK /\ Accounted /\ FfmpegEnds /\ Finally

\* One chunk more is Expand blocks more.
LEMMA OneMore == \A n \in Nat : Expand * (n + 1) = Expand * n + Expand
  BY SMT

\* One chunk less is Expand blocks less.
LEMMA OneLess == \A n \in Nat : n > 0 => Expand * (n - 1) + Expand = Expand * n
<1>1. SUFFICES ASSUME NEW n \in Nat, n > 0
               PROVE  Expand * (n - 1) + Expand = Expand * n
  OBVIOUS
<1>2. n - 1 \in Nat /\ (n - 1) + 1 = n
  BY <1>1
<1> QED
  BY <1>2, OneMore

\* The invariant holds before anything is written.
LEMMA InitInv == Init => IInv
<1> SUFFICES ASSUME Init
             PROVE  IInv
  OBVIOUS
<1>1. TypeOK
  <2>1. fed \in 0..MaxChunks /\ stdin \in 0..HighWater + 1 /\ decoded \in 0..Expand
        /\ stdout \in 0..PipeSize /\ yielded \in Nat
    BY SMT DEF Init
  <2>2. failed \in BOOLEAN /\ early \in BOOLEAN /\ cut \in BOOLEAN /\ logged \in BOOLEAN
        /\ reaped \in BOOLEAN
    BY Zenon DEF Init
  <2> QED
    BY <2>1, <2>2 DEF Init, TypeOK
<1>2. Accounted
  BY DEF Init, Accounted
<1>3. FfmpegEnds /\ Finally
  BY DEF Init, FfmpegEnds, Finally, Closing
<1> QED
  BY <1>1, <1>2, <1>3 DEF IInv

\* The steps of the feeder keep it.
LEMMA FeederKeeps == IInv /\ (Feed \/ Drained \/ EdgeEnds \/ EdgeFails \/ FeederCancelled) => IInv'
<1> SUFFICES ASSUME IInv, Feed \/ Drained \/ EdgeEnds \/ EdgeFails \/ FeederCancelled
             PROVE  IInv'
  OBVIOUS
<1> USE DEF IInv, TypeOK, FfmpegEnds, Finally, Closing, proc, side, feed
<1>1. CASE Feed
  <2>1. Expand * (fed + 1) = Expand * fed + Expand /\ Expand * (stdin + 1) = Expand * stdin + Expand
    BY OneMore
  <2>2. Accounted'
    <3>1. CASE ffmpeg = "run"
      <4>1. fed' = fed + 1 /\ stdin' = stdin + 1 /\ UNCHANGED <<yielded, stdout, decoded>>
        BY <1>1, <3>1 DEF Feed
      <4> HIDE DEF TypeOK, FfmpegEnds, Finally
      <4>2. /\ yielded \in Nat /\ stdout \in Nat /\ decoded \in Nat /\ stdin \in Nat /\ fed \in Nat
        BY DEF TypeOK
      <4>3. /\ Expand * stdin \in Nat /\ Expand * fed \in Nat
        BY <4>2
      <4>4. Accounted
        OBVIOUS
      <4> QED
        BY <4>1, <4>2, <4>3, <4>4, <2>1 DEF Accounted
    <3>2. CASE ffmpeg # "run"
      BY <1>1, <3>2 DEF Feed, Accounted
    <3> QED
      BY <3>1, <3>2
  <2>3. TypeOK' /\ FfmpegEnds' /\ Finally'
    BY <1>1 DEF Feed
  <2> QED
    BY <2>2, <2>3
<1>2. CASE Drained
  BY <1>2 DEF Drained, Accounted
<1>3. CASE EdgeEnds
  BY <1>3 DEF EdgeEnds, Accounted
<1>4. CASE EdgeFails
  BY <1>4 DEF EdgeFails, Accounted
<1>5. CASE FeederCancelled
  BY <1>5 DEF FeederCancelled, Accounted
<1> QED
  BY <1>1, <1>2, <1>3, <1>4, <1>5

\* The steps of ffmpeg keep it.
LEMMA FfmpegKeeps ==
    IInv /\ (Decode \/ Write \/ InputOver \/ Crashes \/ Terminated \/ Killed \/ Reap) => IInv'
<1> SUFFICES ASSUME IInv, Decode \/ Write \/ InputOver \/ Crashes \/ Terminated \/ Killed \/ Reap
             PROVE  IInv'
  OBVIOUS
<1> USE DEF IInv, TypeOK, FfmpegEnds, Finally, Closing, proc, side, feed
<1>1. CASE Decode
  <2>1. Expand * (stdin - 1) + Expand = Expand * stdin
    BY <1>1, OneLess DEF Decode
  <2>2. Accounted'
    <3>1. /\ stdin > 0 /\ decoded = 0
          /\ stdin' = stdin - 1 /\ decoded' = Expand /\ UNCHANGED <<yielded, stdout, fed>>
      BY <1>1 DEF Decode
    <3> HIDE DEF TypeOK, FfmpegEnds, Finally
    <3>2. /\ yielded \in Nat /\ stdout \in Nat /\ stdin \in Nat /\ fed \in Nat
      BY DEF TypeOK
    <3>3. /\ Expand * (stdin - 1) \in Nat /\ Expand * fed \in Nat
      BY <3>1, <3>2
    <3>4. Accounted
      OBVIOUS
    <3> QED
      BY <3>1, <3>2, <3>3, <3>4, <2>1 DEF Accounted
  <2>3. TypeOK' /\ FfmpegEnds' /\ Finally'
    BY <1>1 DEF Decode
  <2> QED
    BY <2>2, <2>3
<1>2. CASE Write
  <2>1. Accounted'
    BY <1>2 DEF Write, Accounted
  <2>2. TypeOK' /\ FfmpegEnds' /\ Finally'
    BY <1>2 DEF Write
  <2> QED
    BY <2>1, <2>2
<1>3. CASE InputOver
  BY <1>3 DEF InputOver, Exit, Accounted
<1>4. CASE Crashes
  BY <1>4 DEF Crashes, Exit, Accounted
<1>5. CASE Terminated
  BY <1>5 DEF Terminated, Exit, Accounted
<1>6. CASE Killed
  BY <1>6 DEF Killed, Exit, Accounted
<1>7. CASE Reap
  BY <1>7 DEF Reap, Accounted
<1> QED
  BY <1>1, <1>2, <1>3, <1>4, <1>5, <1>6, <1>7

\* The steps of the generator keep it.
LEMMA GeneratorKeeps ==
    IInv /\ (Read \/ Resume \/ OutputOver \/ ClosedEarly \/ FeederAwaited \/ WaitTimesOut
             \/ Waited \/ CancelledWaiting) => IInv'
<1> SUFFICES ASSUME IInv, Read \/ Resume \/ OutputOver \/ ClosedEarly \/ FeederAwaited
                          \/ WaitTimesOut \/ Waited \/ CancelledWaiting
             PROVE  IInv'
  OBVIOUS
<1> USE DEF IInv, TypeOK, FfmpegEnds, Finally, Closing, proc, side, feed
<1>1. CASE Read
  <2>1. Accounted'
    BY <1>1 DEF Read, Accounted
  <2>2. TypeOK' /\ FfmpegEnds' /\ Finally'
    BY <1>1 DEF Read
  <2> QED
    BY <2>1, <2>2
<1>2. CASE Resume
  BY <1>2 DEF Resume, Accounted
<1>3. CASE OutputOver
  BY <1>3 DEF OutputOver, Accounted
<1>4. CASE ClosedEarly
  BY <1>4 DEF ClosedEarly, Accounted
<1>5. CASE FeederAwaited
  BY <1>5 DEF FeederAwaited, Accounted
<1>6. CASE WaitTimesOut
  BY <1>6 DEF WaitTimesOut, Accounted
<1>7. CASE Waited
  BY <1>7 DEF Waited, Accounted
<1>8. CASE CancelledWaiting
  BY <1>8 DEF CancelledWaiting, Accounted
<1> QED
  BY <1>1, <1>2, <1>3, <1>4, <1>5, <1>6, <1>7, <1>8

\* Every step keeps it.
LEMMA NextKeeps == IInv /\ [Next]_vars => IInv'
<1> SUFFICES ASSUME IInv, [Next]_vars
             PROVE  IInv'
  OBVIOUS
<1>1. CASE Next
  BY <1>1, FeederKeeps, FfmpegKeeps, GeneratorKeeps DEF Next, Step
<1>2. CASE UNCHANGED vars
  BY <1>2 DEF IInv, TypeOK, Accounted, FfmpegEnds, Finally, Closing, vars, feed, proc, side
<1> QED
  BY <1>1, <1>2

\* The inductive invariant of a synthesis: where the audio is, and what each end leaves
\* behind for the finally of synthesize().
THEOREM SynthesisInvariant == Spec => []IInv
<1>1. Init => IInv
  BY InitInv
<1>2. IInv /\ [Next]_vars => IInv'
  BY NextKeeps
<1> QED
  BY <1>1, <1>2, PTL DEF Spec

\* Type correctness; in particular stdin never holds more than one chunk above the mark at
\* which drain() waits.
THEOREM EdgeTypeOK == Spec => []TypeOK
<1>1. IInv => TypeOK
  BY DEF IInv
<1> QED
  BY <1>1, SynthesisInvariant, PTL

\* Neither the feeder nor ffmpeg outlives the generator, but for an ffmpeg that was told to
\* end when a cancellation cut the wait for its exit short.
THEOREM NothingIsLeft == Spec => []NothingOutlives
<1>1. IInv => NothingOutlives
  BY DEF IInv, Finally, NothingOutlives
<1> QED
  BY <1>1, SynthesisInvariant, PTL

\* All audio of a reply that is not cut short is handed on, and a failure of Edge is logged.
THEOREM AudioIsWhole == Spec => []SpokenWhole
<1>1. IInv => SpokenWhole
  <2> SUFFICES ASSUME IInv, gen = "done"
               PROVE  (~early /\ ffmpeg = "ended" => yielded = Expand * fed) /\ (failed => logged)
    BY DEF SpokenWhole
  <2>1. failed => logged
    BY DEF IInv, Finally
  <2>2. ASSUME ~early, ffmpeg = "ended" PROVE yielded = Expand * fed
    <3>1. stdin = 0 /\ decoded = 0 /\ stdout = 0
      BY <2>2 DEF IInv, FfmpegEnds, Finally, Closing
    <3>2. yielded \in Nat
      BY DEF IInv, TypeOK
    <3>3. Expand * 0 = 0
      OBVIOUS
    <3> QED
      BY <3>1, <3>2, <3>3 DEF IInv, Accounted
  <2> QED
    BY <2>1, <2>2
<1> QED
  BY <1>1, SynthesisInvariant, PTL

=============================================================================
