------------------------------ MODULE Reminders -----------------------------
(***************************************************************************)
(* The reminders of each device and what the server knows of them: the     *)
(* mirror of server/live_state.py, learned from the results of the tool    *)
(* calls that pass through _traced_invoke (server/session.py).  The device *)
(* is the one scripts/simulate_device.py emulates, which answers the       *)
(* requests of one connection in order; that a due reminder fires, and     *)
(* that a device may refuse a call, is the firmware's and external.        *)
(***************************************************************************)
EXTENDS Naturals, Sequences, SequencesExt

CONSTANTS
    Device,
    Id,           \* reminder ids, from 1
    MaxDevices    \* _REMINDER_MAX_DEVICES

ASSUME RemindersAssumption == MaxDevices \in Nat \ {0} /\ Id \subseteq Nat \ {0}

VARIABLES
    store,      \* the reminders each device has
    nextId,     \* _SIM_NEXT_ID
    wire,       \* requests a device has yet to answer; live: somebody awaits the answer
    answer,     \* the answer to the call that is awaited
    mirror,     \* _reminders_by_device, least recently used first
    drifted,    \* devices whose mirror is known to be out of step
    created     \* created_total

reminderVars == <<store, nextId, wire, answer, mirror, drifted, created>>

\* What the mirror tells apart: create_reminder_relative goes as create_reminder, and
\* get_user_name, which also carries the whole list, as list_reminders.
Tools == {"create_reminder", "delete_reminder", "list_reminders", "set_user_name"}

NoAnswer == [ok |-> FALSE, tool |-> "none", id |-> 0, ids |-> {}]

RemindersInit ==
    /\ store = [d \in Device |-> {}] /\ nextId = [d \in Device |-> 1]
    /\ wire = [d \in Device |-> <<>>] /\ answer = [d \in Device |-> NoAnswer]
    /\ mirror = <<>> /\ drifted = {} /\ created = 0

Mirrored(d) == UNION {mirror[i].ids : i \in {j \in DOMAIN mirror : mirror[j].dev = d}}

----------------------------------------------------------------------------
(* _traced_invoke: counted, sent, and mirrored when the answer is there *)

FaultCountsDeletions(tool) == created' = IF tool = "delete_reminder" THEN created + 1 ELSE created

Counted(tool) == created' = IF tool = "create_reminder" THEN created + 1 ELSE created

SendCall(d, tool, id) ==
    /\ Counted(tool)
    /\ wire' = [wire EXCEPT ![d] = Append(@, [tool |-> tool, id |-> id, live |-> TRUE])]
    /\ UNCHANGED <<store, nextId, answer, mirror, drifted>>

FaultMergesSnapshot(ids, a) ==
    CASE a.tool = "list_reminders" /\ a.ok -> ids \cup a.ids
      [] a.tool = "create_reminder" /\ a.ok -> ids \cup a.ids
      [] a.tool = "delete_reminder" -> ids \ {a.id}
      [] OTHER -> ids

\* update_reminders_from_tool.  A deletion is mirrored from the arguments, whatever the
\* device said.
AfterTool(ids, a) ==
    CASE a.tool = "list_reminders" /\ a.ok -> a.ids
      [] a.tool = "create_reminder" /\ a.ok -> ids \cup a.ids
      [] a.tool = "delete_reminder" -> ids \ {a.id}
      [] OTHER -> ids

MirrorWithout(d) ==
    IF \E i \in DOMAIN mirror : mirror[i].dev = d
    THEN RemoveAt(mirror, CHOOSE i \in DOMAIN mirror : mirror[i].dev = d)
    ELSE mirror

\* The device moves to the end; beyond the cap the least recently used ones are forgotten.
TakeAnswer(d) ==
    LET m == Append(MirrorWithout(d), [dev |-> d, ids |-> AfterTool(Mirrored(d), answer[d])])
    IN  /\ answer[d] # NoAnswer
        /\ answer' = [answer EXCEPT ![d] = NoAnswer]
        /\ IF Len(m) <= MaxDevices THEN mirror' = m /\ UNCHANGED drifted
           ELSE mirror' = Tail(m) /\ drifted' = drifted \cup {Head(m).dev}
        /\ UNCHANGED <<store, nextId, wire, created>>

\* The call ends without its answer: a timeout, an error answer, or the turn is cancelled.
\* The device may still carry the request out.
GiveUp(d) ==
    /\ answer' = [answer EXCEPT ![d] = NoAnswer]
    /\ wire' = [wire EXCEPT ![d] = [i \in DOMAIN @ |-> [@[i] EXCEPT !.live = FALSE]]]
    /\ drifted' = drifted \cup {d}
    /\ UNCHANGED <<store, nextId, mirror, created>>

----------------------------------------------------------------------------
(* The device *)

\* The answer goes out; the server keeps it only if somebody still awaits it.
Deliver(d, a) == answer' = [answer EXCEPT ![d] = IF Head(wire[d]).live THEN a ELSE @]

\* _stub_tool_response for the oldest request, or a refusal (isError).
Serve(d) ==
    /\ wire[d] # <<>>
    /\ LET q == Head(wire[d])
           Ok(ids) == [ok |-> TRUE, tool |-> q.tool, id |-> q.id, ids |-> ids]
       IN  \/ /\ q.tool = "create_reminder" /\ nextId[d] \in Id
              /\ store' = [store EXCEPT ![d] = @ \cup {nextId[d]}]
              /\ nextId' = [nextId EXCEPT ![d] = @ + 1]
              /\ Deliver(d, Ok({nextId[d]}))
              /\ UNCHANGED drifted
           \/ /\ q.tool = "delete_reminder"
              /\ store' = [store EXCEPT ![d] = @ \ {q.id}]
              /\ Deliver(d, Ok({}))
              /\ UNCHANGED <<nextId, drifted>>
           \/ /\ q.tool = "list_reminders"
              /\ Deliver(d, Ok(store[d]))
              /\ drifted' = IF q.live THEN drifted \ {d} ELSE drifted
              /\ UNCHANGED <<store, nextId>>
           \/ /\ q.tool = "set_user_name"
              /\ Deliver(d, Ok({}))
              /\ UNCHANGED <<store, nextId, drifted>>
           \/ /\ Deliver(d, [Ok({}) EXCEPT !.ok = FALSE])
              /\ drifted' = IF q.tool = "delete_reminder" THEN drifted \cup {d} ELSE drifted
              /\ UNCHANGED <<store, nextId>>
    /\ wire' = [wire EXCEPT ![d] = Tail(@)]
    /\ UNCHANGED <<mirror, created>>

\* ReminderManager::Tick: a due reminder leaves the device, and the mirror is not told.
Fire(d) ==
    /\ \E id \in store[d] : store' = [store EXCEPT ![d] = @ \ {id}]
    /\ drifted' = drifted \cup {d}
    /\ UNCHANGED <<nextId, wire, answer, mirror, created>>

\* The connection is gone, with what was under way on it.
Disconnect(d) ==
    /\ wire' = [wire EXCEPT ![d] = <<>>]
    /\ answer' = [answer EXCEPT ![d] = NoAnswer]
    /\ drifted' = IF wire[d] # <<>> \/ answer[d] # NoAnswer THEN drifted \cup {d} ELSE drifted
    /\ UNCHANGED <<store, nextId, mirror, created>>

============================================================================
