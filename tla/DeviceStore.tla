---------------------------- MODULE DeviceStore ----------------------------
(***************************************************************************)
(* The device registry: server/store.py, as several worker processes use   *)
(* it (uvicorn --workers N).  A worker has one touch in flight: it runs on *)
(* the event loop's thread, under _THREAD_LOCK.                            *)
(*                                                                         *)
(* The file is replaced as a whole by renaming devices.tmp; a process may  *)
(* die at any step, and the operating system then drops its file lock.     *)
(* Power loss, after which a file that was never synced may be torn, is    *)
(* not modelled.                                                           *)
(***************************************************************************)
EXTENDS Naturals, FiniteSets

CONSTANTS
    Worker,   \* processes
    Device,   \* device ids
    Stamp     \* bound: the seconds time.time() may show, in any order

ASSUME StoreAssumption == Stamp \subseteq Nat \ {0}

VARIABLES
    disk,     \* devices.json
    tmp,      \* devices.tmp
    lock,     \* who holds devices.json.lock: no one or one worker
    pc,       \* where each worker is in touch_device
    target,   \* the device it was called for
    data,     \* the registry it has in memory
    blind     \* workers whose read failed

vars == <<disk, tmp, lock, pc, target, data, blind>>

Records == [Device -> [first : Stamp \cup {0}, last : Stamp \cup {0}]]
NoRecords == [d \in Device |-> [first |-> 0, last |-> 0]]

\* A file, whole or cut off.  No file reads like an empty one.
File == [whole : BOOLEAN, data : Records]

Init ==
    /\ disk = [whole |-> TRUE, data |-> NoRecords]
    /\ tmp = [whole |-> FALSE, data |-> NoRecords]
    /\ lock = {}
    /\ pc = [w \in Worker |-> "idle"]
    /\ target \in [Worker -> Device]
    /\ data = [w \in Worker |-> NoRecords]
    /\ blind = {}

----------------------------------------------------------------------------
(* touch_device *)

Goto(w, p) == pc' = [pc EXCEPT ![w] = p]

Begin(w, d) ==
    /\ pc[w] = "idle"
    /\ Goto(w, "waiting")
    /\ target' = [target EXCEPT ![w] = d]
    /\ UNCHANGED <<disk, tmp, lock, data, blind>>

FaultThreadLockOnly(w) ==
    /\ pc[w] = "waiting"
    /\ lock' = lock \cup {w}
    /\ Goto(w, "locked")
    /\ UNCHANGED <<disk, tmp, target, data, blind>>

\* FileLock.acquire: polls, and no queue decides who is next.
Acquire(w) ==
    /\ pc[w] = "waiting" /\ lock = {}
    /\ lock' = {w}
    /\ Goto(w, "locked")
    /\ UNCHANGED <<disk, tmp, target, data, blind>>

\* The file lock's 10 s are over: touch_device raises.
GiveUp(w) ==
    /\ pc[w] = "waiting"
    /\ Goto(w, "idle")
    /\ UNCHANGED <<disk, tmp, lock, target, data, blind>>

\* _load: a file that cannot be read or parsed counts as empty.
Load(w) ==
    /\ pc[w] = "locked"
    /\ \/ /\ disk.whole
          /\ data' = [data EXCEPT ![w] = disk.data] /\ UNCHANGED blind
       \/ data' = [data EXCEPT ![w] = NoRecords] /\ blind' = blind \cup {w}
    /\ Goto(w, "loaded")
    /\ UNCHANGED <<disk, tmp, lock, target>>

FaultForgetsFirstSeen(r, d, f, s) == [r EXCEPT ![d] = [first |-> f, last |-> s]]

\* The record is made if it is new, and last_seen is set; the clock is read for each.
Touched(r, d, f, s) ==
    [r EXCEPT ![d] = [first |-> IF @.first = 0 THEN f ELSE @.first, last |-> s]]

FaultWritesInPlace(w, f, s) ==
    /\ pc[w] = "loaded"
    /\ data' = [data EXCEPT ![w] = Touched(data[w], target[w], f, s)]
    /\ disk' = [whole |-> FALSE, data |-> NoRecords]
    /\ Goto(w, "opened")
    /\ UNCHANGED <<tmp, lock, target, blind>>

\* The record is changed, and opening devices.tmp truncates it.
Change(w, f, s) ==
    /\ pc[w] = "loaded"
    /\ data' = [data EXCEPT ![w] = Touched(data[w], target[w], f, s)]
    /\ tmp' = [whole |-> FALSE, data |-> NoRecords]
    /\ Goto(w, "opened")
    /\ UNCHANGED <<disk, lock, target, blind>>

WriteTmp(w) ==
    /\ pc[w] = "opened"
    /\ tmp' = [whole |-> TRUE, data |-> data[w]]
    /\ Goto(w, "written")
    /\ UNCHANGED <<disk, lock, target, data, blind>>

\* tmp.replace(p)
Replace(w) ==
    /\ pc[w] = "written"
    /\ disk' = tmp
    /\ Goto(w, "stored")
    /\ UNCHANGED <<tmp, lock, target, data, blind>>

FaultKeepsLock(w) ==
    /\ Goto(w, "idle")
    /\ lock' = IF pc[w] = "stored" THEN lock \ {w} ELSE lock
    /\ data' = [data EXCEPT ![w] = NoRecords] /\ blind' = blind \ {w}
    /\ UNCHANGED <<disk, tmp, target>>

\* Leaving the with statement, or dying: the file lock is free again.
Leave(w) ==
    /\ Goto(w, "idle")
    /\ lock' = lock \ {w}
    /\ data' = [data EXCEPT ![w] = NoRecords] /\ blind' = blind \ {w}
    /\ UNCHANGED <<disk, tmp, target>>

Release(w) == pc[w] = "stored" /\ Leave(w)

\* The disk is full, or the rename is refused: touch_device raises.
SaveFails(w) == pc[w] \in {"loaded", "opened", "written"} /\ Leave(w)

Crash(w) == pc[w] # "idle" /\ Leave(w)

----------------------------------------------------------------------------

Step(w) ==
    \/ Load(w) \/ WriteTmp(w) \/ Replace(w) \/ Release(w)
    \/ \E f, s \in Stamp : Change(w, f, s)

Next ==
    \E w \in Worker :
        \/ \E d \in Device : Begin(w, d)
        \/ Acquire(w) \/ GiveUp(w) \/ Step(w) \/ SaveFails(w) \/ Crash(w)

\* A process that holds the lock goes on: nothing it does under it waits for another.
Fairness == \A w \in Worker : WF_vars(Step(w))

Spec == Init /\ [][Next]_vars /\ Fairness

----------------------------------------------------------------------------
(* Properties *)

TypeOK ==
    /\ disk \in File /\ tmp \in File
    /\ lock \in SUBSET Worker /\ \A v, w \in lock : v = w
    /\ pc \in [Worker -> {"idle", "waiting", "locked", "loaded", "opened", "written", "stored"}]
    /\ target \in [Worker -> Device]
    /\ data \in [Worker -> Records]
    /\ blind \in SUBSET Worker

\* "Atomic-rename writes keep readers from seeing partial data" (store.py 15-16): whatever
\* dies or fails in between, devices.json is whole.
FileIsWhole == disk.whole

\* A touch that is about to return is in the file: no other worker has overwritten it with
\* a registry read before ("one update is silently lost", store.py 10-13).
TouchIsStored ==
    \A w \in Worker : pc[w] = "stored" => disk.data[target[w]] = data[w][target[w]]

\* The file lock comes back, also from a worker that failed or died.
LockComesBack == \A w \in Worker : (w \in lock) ~> (w \notin lock)

\* The file behaves like a registry that is touched in one step.
Reg == INSTANCE Registry WITH records <- disk.data
ImplementsRegistry == Reg!Spec

============================================================================
