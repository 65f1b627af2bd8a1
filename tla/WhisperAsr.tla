----------------------------- MODULE WhisperAsr -----------------------------
(***************************************************************************)
(* FasterWhisperASR of server/asr/whisper_provider.py: threads of the      *)
(* default executor that share one model, built by the first that needs    *)
(* it, and a semaphore around each inference.  A cancelled turn gives up   *)
(* its await of transcribe(); the thread, once it runs, goes on.  The      *)
(* executor, Lock and Semaphore are Python's and external; which of the    *)
(* waiting threads gets one of them next is left open.                     *)
(***************************************************************************)
EXTENDS Integers, FiniteSets

CONSTANTS
    Call,          \* calls of transcribe() that may be under way at once
    Workers,       \* threads of the executor
    Parallelism    \* JARVIZ_ASR_PARALLELISM, any integer

ASSUME WhisperAssumption ==
    IsFiniteSet(Call) /\ Workers \in Nat \ {0} /\ Parallelism \in Int

VARIABLES
    pc,        \* where each call is
    awaited,   \* calls whose turn still waits for the answer
    ready,     \* _ready is set
    builds,    \* models that were built
    lock,      \* calls in the critical section of _ensure_model
    permits    \* the value of _asr_sem

asrVars == <<pc, awaited, ready, builds, lock, permits>>

\* max(1, settings.JARVIZ_ASR_PARALLELISM)
Clamped == IF Parallelism > 1 THEN Parallelism ELSE 1

AsrInit ==
    /\ pc = [c \in Call |-> "none"] /\ awaited = {}
    /\ ready = FALSE /\ builds = 0
    /\ lock = {} /\ permits = Clamped

Goto(c, p) == pc' = [pc EXCEPT ![c] = p]
InThread(c) == pc[c] \notin {"none", "queued"}
Threads == {c \in Call : InThread(c)}

\* The thread's function returns or raises; the answer reaches the turn if it still waits.
Finish(c) == Goto(c, "none") /\ awaited' = awaited \ {c}

----------------------------------------------------------------------------
(* transcribe: asyncio.to_thread *)

Submit(c) ==
    /\ pc[c] = "none"
    /\ Goto(c, "queued") /\ awaited' = awaited \cup {c}
    /\ UNCHANGED <<ready, builds, lock, permits>>

FaultCancelFrees(c) ==
    /\ c \in awaited
    /\ awaited' = awaited \ {c} /\ Goto(c, "none")
    /\ UNCHANGED <<ready, builds, lock, permits>>

\* The turn is cancelled.  A call that still waits for a worker is dropped; one that runs is
\* only not waited for.
CancelAwait(c) ==
    /\ c \in awaited
    /\ awaited' = awaited \ {c}
    /\ IF pc[c] = "queued" THEN Goto(c, "none") ELSE UNCHANGED pc
    /\ UNCHANGED <<ready, builds, lock, permits>>

Start(c) ==
    /\ pc[c] = "queued" /\ Cardinality(Threads) < Workers
    /\ Goto(c, "begin")
    /\ UNCHANGED <<awaited, ready, builds, lock, permits>>

----------------------------------------------------------------------------
(* _transcribe_sync and _ensure_model *)

Silent(c) ==
    /\ pc[c] = "begin"
    /\ Finish(c)
    /\ UNCHANGED <<ready, builds, lock, permits>>

Heard(c) ==
    /\ pc[c] = "begin"
    /\ Goto(c, IF ready THEN "sem" ELSE "lock")
    /\ UNCHANGED <<awaited, ready, builds, lock, permits>>

FaultNoSecondLook(c) ==
    /\ pc[c] = "lock" /\ lock = {}
    /\ Goto(c, "load") /\ lock' = {c}
    /\ UNCHANGED <<awaited, ready, builds, permits>>

\* Inside the lock _ready is looked at again.
Locked(c) ==
    /\ pc[c] = "lock" /\ lock = {}
    /\ IF ready THEN Goto(c, "sem") /\ UNCHANGED lock
                ELSE Goto(c, "load") /\ lock' = {c}
    /\ UNCHANGED <<awaited, ready, builds, permits>>

Loaded(c) ==
    /\ pc[c] = "load"
    /\ Goto(c, "sem") /\ lock' = lock \ {c}
    /\ ready' = TRUE /\ builds' = builds + 1
    /\ UNCHANGED <<awaited, permits>>

FaultLoadKeepsLock(c) ==
    /\ pc[c] = "load"
    /\ Finish(c)
    /\ UNCHANGED <<ready, builds, lock, permits>>

\* The download or the constructor raises; the next call tries again.
LoadFails(c) ==
    /\ pc[c] = "load"
    /\ Finish(c) /\ lock' = lock \ {c}
    /\ UNCHANGED <<ready, builds, permits>>

Acquire(c) ==
    /\ pc[c] = "sem" /\ permits > 0
    /\ Goto(c, "infer") /\ permits' = permits - 1
    /\ UNCHANGED <<awaited, ready, builds, lock>>

\* The segments are read to the end, or the inference raises, inside the `with`.
Inferred(c) ==
    /\ pc[c] = "infer"
    /\ Finish(c) /\ permits' = permits + 1
    /\ UNCHANGED <<ready, builds, lock>>

----------------------------------------------------------------------------

Ends(c) == Silent(c) \/ LoadFails(c) \/ Inferred(c)

ThreadStep(c) == Start(c) \/ Heard(c) \/ Locked(c) \/ Loaded(c) \/ Acquire(c) \/ Ends(c)

AsrNext == \E c \in Call : Submit(c) \/ CancelAwait(c) \/ ThreadStep(c)

\* The threads run: some thread that can take a step takes it.
AsrSpec == AsrInit /\ [][AsrNext]_asrVars /\ WF_asrVars(\E c \in Call : ThreadStep(c))

----------------------------------------------------------------------------
(* Properties *)

AsrTypeOK ==
    /\ pc \in [Call -> {"none", "queued", "begin", "lock", "load", "sem", "infer"}]
    /\ awaited \subseteq {c \in Call : pc[c] # "none"}
    /\ ready \in BOOLEAN /\ builds \in Nat
    /\ lock \subseteq Call /\ permits \in 0..Clamped

\* However many calls find no model, and whichever loads fail: it is built once, and nobody
\* transcribes before it is complete (whisper_provider.py 41-62).
OneModel ==
    /\ builds = (IF ready THEN 1 ELSE 0)
    /\ \A c \in Call : pc[c] \in {"sem", "infer"} => ready

\* The model is never entered by more threads than it is configured for, those counted whose
\* turn was cancelled, and no permit is lost (whisper_provider.py 38-39, 77-85).
InferenceBounded == Cardinality({c \in Call : pc[c] = "infer"}) + permits = Clamped

\* While threads are at work, calls keep ending: the lock and the semaphore, held by threads
\* nobody waits for any more or by a load that failed, do not wedge the recognizer
\* (whisper_provider.py 44, 77, 90).
NeverWedges ==
    []<>(Threads = {}) \/ []<><<\E c \in Call : Ends(c)>>_asrVars

============================================================================
