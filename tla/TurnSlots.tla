----------------------------- MODULE TurnSlots -----------------------------
(***************************************************************************)
(* The process-wide cap on turns: app.state.turn_semaphore (server/main.py *)
(* 81), taken and released in Session._process_turn (server/session.py     *)
(* 564-591 and 663-668) by the turns of all sessions.                      *)
(*                                                                         *)
(* asyncio.Semaphore is modelled from the standard library (CPython 3.11/  *)
(* 3.12): a counter, a FIFO of waiters, each with a future.  release()     *)
(* hands the permit to the first pending waiter, which uses it when it is  *)
(* next resumed; in between its timer or an abort may interrupt it.        *)
(* Several turns of one session follow each other in the same Turn.  The   *)
(* queue timeout, JARVIZ_TURN_QUEUE_TIMEOUT_S, is above 0.                 *)
(***************************************************************************)
EXTENDS Naturals, Sequences, FiniteSets

CONSTANTS
    Turn,        \* the sessions' turns that compete
    Slots        \* JARVIZ_MAX_CONCURRENT_TURNS

ASSUME SlotsAssumption ==
    /\ IsFiniteSet(Turn)
    /\ Slots \in Nat \ {0}

VARIABLES
    pc,          \* where each turn is: before/after its pipeline, queueing, in it, refused
    value,       \* Semaphore._value
    waiters,     \* Semaphore._waiters
    fut,         \* the future of each waiter
    interrupt    \* what has cancelled a waiter and is not delivered yet

vars == <<pc, value, waiters, fut, interrupt>>

Init ==
    /\ pc = [t \in Turn |-> "idle"]
    /\ value = Slots
    /\ waiters = <<>>
    /\ fut = [t \in Turn |-> "none"]
    /\ interrupt = [t \in Turn |-> {}]

----------------------------------------------------------------------------
(* asyncio.Semaphore *)

Remove(s, t) == LET i == CHOOSE k \in DOMAIN s : s[k] = t
                IN  SubSeq(s, 1, i - 1) \o SubSeq(s, i + 1, Len(s))

\* Last come, first served.
FaultWokenNewest(ws, f) ==
    {ws[i] : i \in {k \in DOMAIN ws : /\ f[ws[k]] = "pending"
                                      /\ \A j \in k+1..Len(ws) : f[ws[j]] # "pending"}}

\* The waiter _wake_up_next() would wake: the first that is not done (at most one).
Woken(ws, f) ==
    {ws[i] : i \in {k \in DOMAIN ws : /\ f[ws[k]] = "pending"
                                      /\ \A j \in 1..k-1 : f[ws[j]] # "pending"}}

FaultWakeForgets(v, ws, f) == value' = v /\ waiters' = ws /\ fut' = f

\* _wake_up_next() with v permits: the permit goes to the woken waiter, if there is one.
Wake(v, ws, f) ==
    /\ value' = IF Woken(ws, f) = {} THEN v ELSE v - 1
    /\ waiters' = ws
    /\ fut' = [t \in Turn |-> IF t \in Woken(ws, f) THEN "granted" ELSE f[t]]

\* locked(): no permit, or a waiter ahead.
Locked == value = 0 \/ \E i \in DOMAIN waiters : fut[waiters[i]] # "cancelled"

----------------------------------------------------------------------------
(* _process_turn *)

\* wait_for(acquire(), timeout)
Ask(t) ==
    /\ pc[t] = "idle"
    /\ IF Locked
       THEN /\ pc' = [pc EXCEPT ![t] = "queued"]
            /\ waiters' = Append(waiters, t)
            /\ fut' = [fut EXCEPT ![t] = "pending"]
            /\ UNCHANGED value
       ELSE /\ pc' = [pc EXCEPT ![t] = "running"]
            /\ value' = value - 1
            /\ UNCHANGED <<waiters, fut>>
    /\ UNCHANGED interrupt

\* The queue timer fires, or the turn is aborted: the task is cancelled, and so is its
\* future unless that was granted already.
Interrupt(t, why) ==
    /\ pc[t] = "queued" /\ why \notin interrupt[t]
    /\ interrupt' = [interrupt EXCEPT ![t] = @ \cup {why}]
    /\ fut' = [fut EXCEPT ![t] = IF @ = "pending" THEN "cancelled" ELSE @]
    /\ UNCHANGED <<pc, value, waiters>>

\* A granted waiter is resumed: it runs, and passes a spare permit on.
ResumeGranted(t) ==
    /\ pc[t] = "queued" /\ fut[t] = "granted" /\ interrupt[t] = {}
    /\ pc' = [pc EXCEPT ![t] = "running"]
    /\ LET ws == Remove(waiters, t)
           f  == [fut EXCEPT ![t] = "none"]
       IN  IF value > 0 THEN Wake(value, ws, f)
           ELSE waiters' = ws /\ fut' = f /\ UNCHANGED value
    /\ UNCHANGED interrupt

FaultPermitLost(t) ==
    /\ pc[t] = "queued" /\ interrupt[t] # {}
    /\ pc' = [pc EXCEPT ![t] = IF "abort" \in interrupt[t] THEN "idle" ELSE "refused"]
    /\ interrupt' = [interrupt EXCEPT ![t] = {}]
    /\ waiters' = Remove(waiters, t) /\ fut' = [fut EXCEPT ![t] = "none"]
    /\ UNCHANGED value

\* An interrupted waiter is resumed: a permit it was granted goes back and is passed on.
\* A timeout means the overload reply, an abort ends the turn.
ResumeInterrupted(t) ==
    /\ pc[t] = "queued" /\ interrupt[t] # {}
    /\ pc' = [pc EXCEPT ![t] = IF "abort" \in interrupt[t] THEN "idle" ELSE "refused"]
    /\ interrupt' = [interrupt EXCEPT ![t] = {}]
    /\ LET ws == Remove(waiters, t)
           f  == [fut EXCEPT ![t] = "none"]
       IN  IF fut[t] = "granted" THEN Wake(value + 1, ws, f)
           ELSE waiters' = ws /\ fut' = f /\ UNCHANGED value

FaultReleaseAlways(t) ==
    /\ pc[t] \in {"running", "refused"}
    /\ pc' = [pc EXCEPT ![t] = "idle"]
    /\ Wake(value + 1, waiters, fut)
    /\ UNCHANGED interrupt

\* The finally: LLM and TTS are done, failed or were cancelled.
Release(t) ==
    /\ pc[t] = "running"
    /\ pc' = [pc EXCEPT ![t] = "idle"]
    /\ Wake(value + 1, waiters, fut)
    /\ UNCHANGED interrupt

\* The overload reply was spoken, without a slot: nothing is released.
Apologised(t) ==
    /\ pc[t] = "refused"
    /\ pc' = [pc EXCEPT ![t] = "idle"]
    /\ UNCHANGED <<value, waiters, fut, interrupt>>

Resume(t) == ResumeGranted(t) \/ ResumeInterrupted(t)

Next ==
    \E t \in Turn :
        \/ Ask(t) \/ Resume(t) \/ Release(t) \/ Apologised(t)
        \/ \E why \in {"timeout", "abort"} : Interrupt(t, why)

\* The loop resumes what is ready, and a pipeline comes to an end.  No fairness for the
\* queue timer: a turn does not need it to get out of the queue.
Fairness == \A t \in Turn : WF_vars(Resume(t)) /\ WF_vars(Release(t))

Spec == Init /\ [][Next]_vars /\ Fairness

----------------------------------------------------------------------------
(* Properties *)

Running == {t \in Turn : pc[t] = "running"}
Granted == {t \in Turn : pc[t] = "queued" /\ fut[t] = "granted"}

TypeOK ==
    /\ pc \in [Turn -> {"idle", "queued", "running", "refused"}]
    /\ value \in 0..Slots
    /\ waiters \in Seq(Turn)
    /\ fut \in [Turn -> {"none", "pending", "granted", "cancelled"}]
    /\ interrupt \in [Turn -> SUBSET {"timeout", "abort"}]

\* No permit is lost or made up: free, handed over and in use they are always Slots,
\* however timers, aborts and releases fall together (session.py 663-668).
PermitsConserved == value + Cardinality(Granted) + Cardinality(Running) = Slots

\* No lost wake-up: a turn waits beside a free permit only while a granted turn, which
\* passes it on, is about to resume.
NoIdlePermit ==
    value > 0 /\ (\E t \in Turn : fut[t] = "pending") => \E t \in Turn : fut[t] = "granted"

\* First come, first served: no waiter is granted a slot while one ahead of it is pending.
FirstComeFirstServed ==
    \A i, j \in DOMAIN waiters :
        i < j /\ fut[waiters[j]] = "granted" => fut[waiters[i]] # "pending"

\* Nobody starves in the queue as long as pipelines end, even if the timer never fires.
QueueMoves == \A t \in Turn : (pc[t] = "queued") ~> (pc[t] # "queued")

\* The semaphore keeps the promise of the slot pool.
Pool == INSTANCE SlotPool WITH
            running <- Running,
            queued  <- {t \in Turn : pc[t] = "queued"},
            refused <- {t \in Turn : pc[t] = "refused"}
ImplementsPool == Pool!Spec

============================================================================
