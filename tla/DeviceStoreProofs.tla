------------------------- MODULE DeviceStoreProofs -------------------------
(***************************************************************************)
(* The file is always whole, a finished touch is in it, and it implements  *)
(* the atomic registry, for any workers, devices and times.                *)
(***************************************************************************)
EXTENDS DeviceStore, TLAPS

Held == {"locked", "loaded", "opened", "written", "stored"}

\* Who works on the file has the lock for itself.
Locking ==
    \A w \in Worker : /\ pc[w] \in Held => lock = {w}
                      /\ pc[w] \notin Held => w \notin lock

\* What a worker is about to store: the registry on disk with one record touched, or a new
\* one if it could not read that.
Result(w, r) ==
    \E f, s \in Stamp : \/ r = Touched(disk.data, target[w], f, s)
                        \/ w \in blind /\ r = Touched(NoRecords, target[w], f, s)

\* While a worker has the lock, what it read is still on disk.
Snapshot ==
    \A w \in Worker :
        /\ pc[w] = "loaded" => data[w] = disk.data \/ (w \in blind /\ data[w] = NoRecords)
        /\ pc[w] \in {"opened", "written"} => Result(w, data[w])
        /\ pc[w] = "written" => tmp = [whole |-> TRUE, data |-> data[w]]

IInv == TypeOK /\ FileIsWhole /\ Locking /\ Snapshot /\ TouchIsStored

----------------------------------------------------------------------------
(* Operators *)

LEMMA NoRecordsType == NoRecords \in Records
BY DEF NoRecords, Records

LEMMA TouchedType ==
    ASSUME NEW r \in Records, NEW d \in Device, NEW f \in Stamp, NEW s \in Stamp
    PROVE  Touched(r, d, f, s) \in Records
BY DEF Touched, Records

\* Only one worker is under the lock.
LEMMA Alone ==
    ASSUME Locking, NEW w \in Worker, NEW v \in Worker, pc[w] \in Held, pc[v] \in Held
    PROVE  v = w
<1>1. lock = {w} /\ lock = {v}
  BY DEF Locking
<1> QED
  BY <1>1

----------------------------------------------------------------------------
(* The invariant *)

LEMMA InitIInv == Init => IInv
<1> SUFFICES ASSUME Init PROVE IInv
  OBVIOUS
<1>1. TypeOK /\ FileIsWhole
  BY NoRecordsType DEF Init, TypeOK, File, FileIsWhole
<1>2. Locking /\ Snapshot /\ TouchIsStored
  BY DEF Init, Locking, Held, Snapshot, TouchIsStored
<1> QED
  BY <1>1, <1>2 DEF IInv

LEMMA BeginIInv == ASSUME IInv, NEW w \in Worker, NEW d \in Device, Begin(w, d) PROVE IInv'
<1>1. TypeOK'
  BY DEF IInv, TypeOK, Begin, Goto
<1>2. \A v \in Worker : /\ v # w => pc'[v] = pc[v] /\ target'[v] = target[v]
                        /\ pc'[w] = "waiting" /\ pc[w] = "idle"
  BY DEF IInv, TypeOK, Begin, Goto
<1>3. UNCHANGED <<disk, tmp, lock, data, blind>>
  BY DEF Begin
<1>4. FileIsWhole' /\ Locking'
  BY <1>2, <1>3 DEF IInv, FileIsWhole, Locking, Held
<1>5. Snapshot' /\ TouchIsStored'
  BY <1>2, <1>3 DEF IInv, Snapshot, Result, TouchIsStored
<1> QED
  BY <1>1, <1>4, <1>5 DEF IInv

LEMMA AcquireIInv == ASSUME IInv, NEW w \in Worker, Acquire(w) PROVE IInv'
<1>1. TypeOK'
  BY DEF IInv, TypeOK, Acquire, Goto
<1>2. /\ \A v \in Worker : v # w => pc'[v] = pc[v]
      /\ pc'[w] = "locked" /\ lock = {} /\ lock' = {w}
  BY DEF IInv, TypeOK, Acquire, Goto
<1>3. UNCHANGED <<disk, tmp, target, data, blind>>
  BY DEF Acquire
<1>4. FileIsWhole' /\ Locking'
  BY <1>2, <1>3 DEF IInv, FileIsWhole, Locking, Held
<1>5. Snapshot' /\ TouchIsStored'
  BY <1>2, <1>3 DEF IInv, Snapshot, Result, TouchIsStored
<1> QED
  BY <1>1, <1>4, <1>5 DEF IInv

LEMMA GiveUpIInv == ASSUME IInv, NEW w \in Worker, GiveUp(w) PROVE IInv'
<1>1. TypeOK'
  BY DEF IInv, TypeOK, GiveUp, Goto
<1>2. /\ \A v \in Worker : v # w => pc'[v] = pc[v]
      /\ pc'[w] = "idle" /\ pc[w] = "waiting"
  BY DEF IInv, TypeOK, GiveUp, Goto
<1>3. UNCHANGED <<disk, tmp, lock, target, data, blind>>
  BY DEF GiveUp
<1>4. FileIsWhole' /\ Locking'
  BY <1>2, <1>3 DEF IInv, FileIsWhole, Locking, Held
<1>5. Snapshot' /\ TouchIsStored'
  BY <1>2, <1>3 DEF IInv, Snapshot, Result, TouchIsStored
<1> QED
  BY <1>1, <1>4, <1>5 DEF IInv

LEMMA LoadIInv == ASSUME IInv, NEW w \in Worker, Load(w) PROVE IInv'
<1>1. TypeOK'
  BY NoRecordsType DEF IInv, TypeOK, Load, Goto, File
<1>2. /\ \A v \in Worker : v # w => /\ pc'[v] = pc[v] /\ data'[v] = data[v]
                                    /\ (v \in blind' <=> v \in blind)
      /\ pc'[w] = "loaded" /\ pc[w] = "locked"
      /\ data'[w] = disk.data \/ (w \in blind' /\ data'[w] = NoRecords)
  BY DEF IInv, TypeOK, Load, Goto
<1>3. UNCHANGED <<disk, tmp, lock, target>>
  BY DEF Load
<1>4. FileIsWhole' /\ Locking'
  BY <1>2, <1>3 DEF IInv, FileIsWhole, Locking, Held
<1>5. Snapshot' /\ TouchIsStored'
  BY <1>2, <1>3 DEF IInv, Snapshot, Result, TouchIsStored
<1> QED
  BY <1>1, <1>4, <1>5 DEF IInv

LEMMA ChangeIInv ==
    ASSUME IInv, NEW w \in Worker, NEW f \in Stamp, NEW s \in Stamp, Change(w, f, s)
    PROVE  IInv'
<1> DEFINE r == Touched(data[w], target[w], f, s)
<1>1. r \in Records
  BY TouchedType DEF IInv, TypeOK
<1>2. TypeOK'
  BY <1>1, NoRecordsType DEF IInv, TypeOK, Change, Goto, File
<1>3. /\ \A v \in Worker : v # w => pc'[v] = pc[v] /\ data'[v] = data[v] /\ pc[v] \notin Held
      /\ pc'[w] = "opened" /\ pc[w] = "loaded" /\ data'[w] = r
  BY Alone DEF IInv, TypeOK, Change, Goto, Held
<1>4. UNCHANGED <<disk, lock, target, blind>>
  BY DEF Change
<1>5. Result(w, r)
  BY <1>3 DEF IInv, Snapshot, Result
<1> HIDE DEF r
<1>6. FileIsWhole' /\ Locking'
  BY <1>3, <1>4 DEF IInv, FileIsWhole, Locking, Held
<1>7. Snapshot' /\ TouchIsStored'
  BY <1>3, <1>4, <1>5 DEF IInv, Snapshot, Result, TouchIsStored, Held
<1> QED
  BY <1>2, <1>6, <1>7 DEF IInv

LEMMA WriteTmpIInv == ASSUME IInv, NEW w \in Worker, WriteTmp(w) PROVE IInv'
<1>1. TypeOK'
  BY DEF IInv, TypeOK, WriteTmp, Goto, File
<1>2. /\ \A v \in Worker : v # w => pc'[v] = pc[v] /\ pc[v] \notin Held
      /\ pc'[w] = "written" /\ pc[w] = "opened" /\ tmp' = [whole |-> TRUE, data |-> data[w]]
  BY Alone DEF IInv, TypeOK, WriteTmp, Goto, Held
<1>3. UNCHANGED <<disk, lock, target, data, blind>>
  BY DEF WriteTmp
<1>4. FileIsWhole' /\ Locking'
  BY <1>2, <1>3 DEF IInv, FileIsWhole, Locking, Held
<1>5. Snapshot' /\ TouchIsStored'
  BY <1>2, <1>3 DEF IInv, Snapshot, Result, TouchIsStored, Held
<1> QED
  BY <1>1, <1>4, <1>5 DEF IInv

LEMMA ReplaceIInv == ASSUME IInv, NEW w \in Worker, Replace(w) PROVE IInv'
<1>1. TypeOK'
  BY DEF IInv, TypeOK, Replace, Goto
<1>2. /\ \A v \in Worker : v # w => pc'[v] = pc[v] /\ pc[v] \notin Held
      /\ pc'[w] = "stored" /\ pc[w] = "written"
  BY Alone DEF IInv, TypeOK, Replace, Goto, Held
<1>3. UNCHANGED <<tmp, lock, target, data, blind>>
  BY DEF Replace
<1>4. disk'.whole /\ disk'.data = data[w]
  BY <1>2 DEF IInv, Snapshot, Replace
<1>5. FileIsWhole' /\ Locking'
  BY <1>2, <1>3, <1>4 DEF IInv, FileIsWhole, Locking, Held
<1>6. Snapshot' /\ TouchIsStored'
  BY <1>2, <1>3, <1>4 DEF IInv, Snapshot, TouchIsStored, Held
<1> QED
  BY <1>1, <1>5, <1>6 DEF IInv

\* Also the step of a worker that failed or died.
LEMMA LeaveIInv == ASSUME IInv, NEW w \in Worker, Leave(w) PROVE IInv'
<1>1. TypeOK'
  BY NoRecordsType DEF IInv, TypeOK, Leave, Goto
<1>2. /\ \A v \in Worker : v # w => /\ pc'[v] = pc[v] /\ data'[v] = data[v]
                                    /\ (v \in blind' <=> v \in blind)
      /\ pc'[w] = "idle" /\ lock' = lock \ {w}
  BY DEF IInv, TypeOK, Leave, Goto
<1>3. UNCHANGED <<disk, tmp, target>>
  BY DEF Leave
<1>4. FileIsWhole' /\ Locking'
  BY <1>2, <1>3 DEF IInv, FileIsWhole, Locking, Held
<1>5. Snapshot' /\ TouchIsStored'
  BY <1>2, <1>3 DEF IInv, Snapshot, Result, TouchIsStored
<1> QED
  BY <1>1, <1>4, <1>5 DEF IInv

LEMMA NextIInv == IInv /\ [Next]_vars => IInv'
<1> SUFFICES ASSUME IInv, [Next]_vars PROVE IInv'
  OBVIOUS
<1>1. ASSUME NEW w \in Worker, NEW d \in Device, Begin(w, d) PROVE IInv'
  BY <1>1, BeginIInv
<1>2. ASSUME NEW w \in Worker, Acquire(w) \/ GiveUp(w) PROVE IInv'
  BY <1>2, AcquireIInv, GiveUpIInv
<1>3. ASSUME NEW w \in Worker, Step(w) PROVE IInv'
  BY <1>3, LoadIInv, ChangeIInv, WriteTmpIInv, ReplaceIInv, LeaveIInv DEF Step, Release
<1>4. ASSUME NEW w \in Worker, SaveFails(w) \/ Crash(w) PROVE IInv'
  BY <1>4, LeaveIInv DEF SaveFails, Crash
<1>5. CASE UNCHANGED vars
  BY <1>5 DEF vars, IInv, TypeOK, FileIsWhole, Locking, Snapshot, Result, TouchIsStored
<1> QED
  BY <1>1, <1>2, <1>3, <1>4, <1>5 DEF Next

\* The invariant that keeps a worker's copy equal to the file for as long as it matters.
THEOREM StoreInvariant == Spec => []IInv
BY InitIInv, NextIInv, PTL DEF Spec

----------------------------------------------------------------------------
(* What follows *)

\* Type correctness, and at most one worker holds the file lock.
THEOREM StoreTypeOK == Spec => []TypeOK
<1>1. IInv => TypeOK
  BY DEF IInv
<1> QED
  BY <1>1, StoreInvariant, PTL

\* A reader never sees half a registry, whoever dies while writing it.
THEOREM FileStaysWhole == Spec => []FileIsWhole
<1>1. IInv => FileIsWhole
  BY DEF IInv
<1> QED
  BY <1>1, StoreInvariant, PTL

\* No touch is overwritten before touch_device has returned.
THEOREM TouchesAreStored == Spec => []TouchIsStored
<1>1. IInv => TouchIsStored
  BY DEF IInv
<1> QED
  BY <1>1, StoreInvariant, PTL

----------------------------------------------------------------------------
(* The refinement *)

LEMMA InitRefines == Init => Reg!Init
BY DEF Init, Reg!Init, NoRecords, Reg!NoRecords

\* Only replacing the file changes the registry, and only a failed read or the end of that
\* touch changes who is blind.
LEMMA StepRefines == IInv /\ [Next]_vars => [Reg!Next]_(Reg!registryVars)
<1> SUFFICES ASSUME IInv, [Next]_vars PROVE Reg!Next \/ UNCHANGED <<disk.data, blind>>
  BY DEF Reg!registryVars
<1>1. ASSUME UNCHANGED <<disk, blind>> PROVE UNCHANGED <<disk.data, blind>>
  BY <1>1
<1>2. ASSUME NEW w \in Worker, Load(w) PROVE Reg!Next \/ UNCHANGED <<disk.data, blind>>
  <2>1. UNCHANGED blind \/ blind' = blind \cup {w}
    BY <1>2 DEF Load
  <2>2. disk' = disk
    BY <1>2 DEF Load
  <2> QED
    BY <2>1, <2>2 DEF Reg!Next, Reg!Misread
<1>3. ASSUME NEW w \in Worker, Leave(w) PROVE Reg!Next
  BY <1>3 DEF Leave, Reg!Next, Reg!Recover
<1>4. ASSUME NEW w \in Worker, Replace(w) PROVE Reg!Next
  <2>1. /\ disk'.data = data[w] /\ blind' = blind /\ target[w] \in Device
        /\ Result(w, data[w])
    BY <1>4 DEF Replace, IInv, TypeOK, Snapshot
  <2>2. PICK f, s \in Stamp : \/ data[w] = Touched(disk.data, target[w], f, s)
                              \/ w \in blind /\ data[w] = Touched(NoRecords, target[w], f, s)
    BY <2>1 DEF Result
  <2>3. CASE data[w] = Touched(disk.data, target[w], f, s)
    <3>1. Reg!Touch(target[w], f, s)
      BY <2>1, <2>3 DEF Reg!Touch, Reg!Touched, Touched
    <3> QED
      BY <2>1, <3>1 DEF Reg!Next
  <2>4. CASE w \in blind /\ data[w] = Touched(NoRecords, target[w], f, s)
    <3>1. Reg!StartAnew(w, target[w], f, s)
      BY <2>1, <2>4 DEF Reg!StartAnew, Reg!Touched, Touched, Reg!NoRecords, NoRecords
    <3> QED
      BY <2>1, <3>1 DEF Reg!Next
  <2> QED
    BY <2>2, <2>3, <2>4
<1>5. ASSUME NEW w \in Worker, Step(w) PROVE Reg!Next \/ UNCHANGED <<disk.data, blind>>
  BY <1>1, <1>2, <1>3, <1>4, <1>5 DEF Step, Release, WriteTmp, Change
<1>6. ASSUME NEW w \in Worker, SaveFails(w) \/ Crash(w) PROVE Reg!Next
  BY <1>3, <1>6 DEF SaveFails, Crash
<1>7. ASSUME NEW w \in Worker, Acquire(w) \/ GiveUp(w) \/ \E d \in Device : Begin(w, d)
      PROVE  UNCHANGED <<disk.data, blind>>
  BY <1>7 DEF Acquire, GiveUp, Begin
<1>8. CASE UNCHANGED vars
  BY <1>8 DEF vars
<1> QED
  BY <1>5, <1>6, <1>7, <1>8 DEF Next

\* Whatever the workers' steps interleave to, the file is a registry touched in one step,
\* and it is started anew only by a worker that could not read it.
THEOREM StoreImplementsRegistry == Spec => ImplementsRegistry
BY InitRefines, StepRefines, StoreInvariant, PTL DEF Spec, ImplementsRegistry, Reg!Spec

============================================================================
