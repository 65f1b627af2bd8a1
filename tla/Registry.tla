------------------------------ MODULE Registry -----------------------------
(* What server/store.py promises of the device registry: a touch changes one   *)
(* device's record in one step, whichever worker makes it.  Only a worker that *)
(* could not read the file (_load returns {} then) starts it anew.             *)
EXTENDS Naturals

CONSTANTS Worker, Device, Stamp

VARIABLES
    records,   \* the registry: [first, last] per device, 0 for a device not in it
    blind      \* workers that could not read it

registryVars == <<records, blind>>

Records == [Device -> [first : Stamp \cup {0}, last : Stamp \cup {0}]]
NoRecords == [d \in Device |-> [first |-> 0, last |-> 0]]

Init == records = NoRecords /\ blind = {}

\* touch_device: first_seen is set once, last_seen every time; f and s show on the clock then.
Touched(r, d, f, s) ==
    [r EXCEPT ![d] = [first |-> IF @.first = 0 THEN f ELSE @.first, last |-> s]]

Touch(d, f, s) == records' = Touched(records, d, f, s) /\ UNCHANGED blind

StartAnew(w, d, f, s) == w \in blind /\ records' = Touched(NoRecords, d, f, s) /\ UNCHANGED blind

Misread(w) == blind' = blind \cup {w} /\ UNCHANGED records
Recover(w) == blind' = blind \ {w} /\ UNCHANGED records

Next ==
    \/ \E d \in Device, f, s \in Stamp : Touch(d, f, s) \/ \E w \in Worker : StartAnew(w, d, f, s)
    \/ \E w \in Worker : Misread(w) \/ Recover(w)

Spec == Init /\ [][Next]_registryVars

============================================================================
