-------------------------- MODULE McpBridgeProofs ---------------------------
(* What holds of the bridge for any number of pages and calls, whatever the  *)
(* device answers and whoever is cancelled: proofs about McpBridge.          *)
EXTENDS McpBridge, TLAPS

USE McpAssumption

\* The discovery never runs out of ids.
RoomLeft ==
    /\ nextId + Reserve <= 2 + Pages + MaxCalls
    /\ pc["discovery"] = "ready" => page = 0
    /\ pc["turn"] # "over"

\* A caller has a request while it is busy, and shares it with nobody.
Parked ==
    /\ \A c \in Caller : Busy(c) <=> req[c] # 0
    /\ \A c \in Caller : ~Busy(c) => interrupt[c] = {}
    /\ \A c, d \in Caller : req[c] = req[d] /\ req[c] # 0 => c = d
    /\ \A c \in Caller : req[c] \notin abandoned

\* What a busy caller finds when it is next resumed.
Served ==
    /\ \A c \in Caller : pc[c] = "sending" =>
          /\ interrupt[c] \subseteq {"abort"}
          /\ session # "closed" =>
                \/ req[c] \in pending /\ fut[req[c]] = "pending"
                \/ fut[req[c]] \in {"answered", "failed"}
    /\ \A c \in Caller : pc[c] = "waiting" /\ interrupt[c] = {} =>
          \/ req[c] \in pending /\ fut[req[c]] = "pending"
          \/ fut[req[c]] \in {"answered", "failed"}
    /\ session = "closed" => pending = {} /\ \A c \in Caller : Busy(c) => "abort" \in interrupt[c]

\* What an entry of _pending stands for.
Entries ==
    \A i \in pending :
        /\ fut[i] \in {"pending", "cancelled"}
        /\ i \in abandoned \/ \E c \in Caller : req[c] = i
        /\ fut[i] = "cancelled" => i \in abandoned \/ \E c \in Caller : req[c] = i /\ interrupt[c] # {}

\* The tools are published when the discovery is over.
Published == tools \in {0, Pages} /\ (pc["discovery"] # "over" => tools = 0)

IInv == TypeOK /\ RoomLeft /\ Parked /\ Served /\ Entries /\ Published

\* The last few ids fit into the ring.
LEMMA RingBounded ==
  ASSUME TypeOK, NEW i \in Id
  PROVE  Remember(timedOut, i) \in Seq(Id) /\ Len(Remember(timedOut, i)) <= RingSize
<1>1. timedOut \in Seq(Id) /\ Len(timedOut) \in Nat /\ Len(timedOut) <= RingSize
  BY DEF TypeOK
<1>2. CASE Len(timedOut) = RingSize
  <2>1. timedOut # <<>>
    BY <1>1, <1>2
  <2>2. Tail(timedOut) \in Seq(Id) /\ Len(Tail(timedOut)) = Len(timedOut) - 1
    BY <1>1, <2>1
  <2>3. Append(Tail(timedOut), i) \in Seq(Id) /\ Len(Append(Tail(timedOut), i)) = Len(timedOut)
    BY <1>1, <2>2
  <2> QED
    BY <1>2, <2>3 DEF Remember
<1>3. CASE Len(timedOut) # RingSize
  BY <1>1, <1>3 DEF Remember
<1> QED
  BY <1>2, <1>3

\* The invariant holds before the first request.
LEMMA InitInv == Init => IInv
<1> SUFFICES ASSUME Init
             PROVE  IInv
  OBVIOUS
<1>1. nextId \in 1..(2 + Pages + MaxCalls) /\ tools \in 0..Pages /\ page \in 0..Pages
      /\ nextId + Reserve <= 2 + Pages + MaxCalls
  BY SMT DEF Init, Reserve, Caller
<1>2. timedOut \in Seq(Id) /\ Len(timedOut) <= RingSize
  BY SMT DEF Init
<1>3. gate \in BOOLEAN
  BY Zenon DEF Init
<1> QED
  BY <1>1, <1>2, <1>3
     DEF Init, IInv, TypeOK, RoomLeft, Parked, Served, Entries, Published, Busy, Caller

\* A new request has an id that nobody has.
LEMMA IssueKeeps ==
  ASSUME IInv, NEW c \in Caller, Issue(c), UNCHANGED <<tools, gate, interrupt, abandoned, session>>,
         session # "closed", interrupt[c] = {}, nextId \in Id, page' \in 0..Pages,
         (nextId + Reserve <= 2 + Pages + MaxCalls)', (pc["discovery"] = "ready" => page = 0)',
         pc[c] # "over", req[c] \notin pending
  PROVE  IInv'
<1> USE DEF IInv, Issue
<1>1. TypeOK'
  BY DEF TypeOK, Id
<1>2. RoomLeft'
  BY DEF RoomLeft, TypeOK, Caller
<1>3. Parked'
  BY DEF Parked, TypeOK, Busy, Id
<1>4. Served'
  BY DEF Served, Parked, TypeOK, Busy, Id
<1>5. Entries'
  <2> SUFFICES ASSUME NEW i \in pending'
               PROVE  /\ fut'[i] \in {"pending", "cancelled"}
                      /\ i \in abandoned' \/ \E d \in Caller : req'[d] = i
                      /\ fut'[i] = "cancelled" =>
                             i \in abandoned' \/ \E d \in Caller : req'[d] = i /\ interrupt'[d] # {}
    BY DEF Entries
  <2>1. CASE i = nextId
    BY <2>1 DEF TypeOK
  <2>2. CASE i # nextId
    <3>1. i \in pending /\ i \in Id /\ fut'[i] = fut[i] /\ req[c] # i
      BY <2>2 DEF TypeOK, Id
    <3>2. \A d \in Caller : req[d] = i => req'[d] = i
      BY <3>1 DEF TypeOK
    <3> QED
      BY <3>1, <3>2 DEF Entries
  <2> QED
    BY <2>1, <2>2
<1>6. Published'
  BY DEF Published, TypeOK, Caller
<1> QED
  BY <1>1, <1>2, <1>3, <1>4, <1>5, <1>6

\* The first request of the discovery, or a tool call.
LEMMA CallKeeps == ASSUME IInv, NEW c \in Caller, Call(c) PROVE IInv'
<1> USE DEF IInv, Call
<1>1. req[c] = 0 /\ req[c] \notin pending /\ interrupt[c] = {}
  BY DEF Parked, Busy, TypeOK
<1>2. nextId \in Id /\ page' \in 0..Pages
  <2>1. CASE c = "discovery"
    BY <2>1 DEF RoomLeft, Reserve, TypeOK, Id
  <2>2. CASE c = "turn"
    BY <2>2 DEF Room, RoomLeft, Reserve, TypeOK, Id
  <2> QED
    BY <2>1, <2>2 DEF Caller
<1>3. (nextId + Reserve <= 2 + Pages + MaxCalls)' /\ (pc["discovery"] = "ready" => page = 0)'
  <2>1. CASE c = "discovery"
    BY <2>1 DEF RoomLeft, Reserve, TypeOK, Issue, Caller
  <2>2. CASE c = "turn"
    BY <2>2 DEF Room, RoomLeft, Reserve, TypeOK, Issue, Caller
  <2> QED
    BY <2>1, <2>2 DEF Caller
<1> QED
  BY <1>1, <1>2, <1>3, IssueKeeps

\* The discovery goes on to the next page.
LEMMA NextPageKeeps == IInv /\ NextPage => IInv'
<1> SUFFICES ASSUME IInv, NextPage
             PROVE  IInv'
  OBVIOUS
<1> USE DEF IInv, NextPage
<1> DEFINE c == "discovery"
<1>1. c \in Caller /\ req[c] \in Id /\ req[c] \notin pending
  BY DEF Caller, DiscoveryReady, Has, Parked, Busy, TypeOK, Entries, Id
<1>2. nextId \in Id /\ page' \in 0..Pages
  BY DEF DiscoveryReady, Has, RoomLeft, Reserve, TypeOK, Id
<1>3. (nextId + Reserve <= 2 + Pages + MaxCalls)' /\ (pc["discovery"] = "ready" => page = 0)'
  BY DEF DiscoveryReady, Has, RoomLeft, Reserve, TypeOK, Issue, Caller
<1>4. session # "closed" /\ interrupt[c] = {} /\ pc[c] # "over"
  BY <1>1 DEF DiscoveryReady, Has, Served, Busy
<1> QED
  BY <1>1, <1>2, <1>3, <1>4, IssueKeeps

\* The frame is out.
LEMMA SentKeeps == ASSUME IInv, NEW c \in Caller, Sent(c) PROVE IInv'
<1> USE DEF IInv, Sent
<1>1. TypeOK' /\ RoomLeft'
  BY DEF requests, TypeOK, RoomLeft, Reserve, Caller
<1>2. Parked' /\ Entries' /\ Published'
  BY DEF requests, TypeOK, Parked, Entries, Published, Busy, Caller
<1>3. Served'
  BY DEF requests, TypeOK, Served, Busy, Caller
<1> QED
  BY <1>1, <1>2, <1>3

\* A caller that is interrupted: the future it waits for is cancelled with it.
Interrupts(c, why) ==
    /\ why \in {"timeout", "abort"} /\ Busy(c) /\ (why = "timeout" => pc[c] = "waiting")
    /\ interrupt' = [interrupt EXCEPT ![c] = @ \cup {why}]
    /\ fut' = Cancelled(fut, {c})
    /\ UNCHANGED <<nextId, pending, timedOut, tools, page, gate, pc, req, abandoned, session>>

\* An interrupt cancels the future its caller waits for, and no other.
LEMMA CancelledOne ==
  ASSUME IInv, NEW c \in Caller, NEW i \in Id
  PROVE  Cancelled(fut, {c})[i] =
             IF fut[i] = "pending" /\ pc[c] = "waiting" /\ req[c] = i THEN "cancelled" ELSE fut[i]
  BY DEF Cancelled

LEMMA InterruptKeeps == ASSUME IInv, NEW c \in Caller, NEW why, Interrupts(c, why) PROVE IInv'
<1> USE DEF IInv, Interrupts
<1>1. TypeOK' /\ RoomLeft'
  BY DEF Cancelled, TypeOK, RoomLeft, Reserve
<1>2. Parked' /\ Published'
  BY DEF TypeOK, Parked, Published, Busy
<1>3. \A i \in Id : fut'[i] =
             IF fut[i] = "pending" /\ pc[c] = "waiting" /\ req[c] = i THEN "cancelled" ELSE fut[i]
  BY CancelledOne
<1>4. \A d \in Caller : Busy(d) => req[d] \in Id
  BY DEF Parked, TypeOK, Id
<1>5. \A d \in Caller : interrupt'[d] = IF d = c THEN interrupt[d] \cup {why} ELSE interrupt[d]
  BY DEF TypeOK
<1>6. Served'
  <2>1. \A d \in Caller : pc[d] = "sending" =>
            /\ interrupt'[d] \subseteq {"abort"}
            /\ session # "closed" =>
                  \/ req[d] \in pending /\ fut'[req[d]] = "pending"
                  \/ fut'[req[d]] \in {"answered", "failed"}
    <3> SUFFICES ASSUME NEW d \in Caller, pc[d] = "sending"
                 PROVE  /\ interrupt'[d] \subseteq {"abort"}
                        /\ session # "closed" =>
                              \/ req[d] \in pending /\ fut'[req[d]] = "pending"
                              \/ fut'[req[d]] \in {"answered", "failed"}
      OBVIOUS
    <3>1. req[d] \in Id /\ fut'[req[d]] = fut[req[d]]
      BY <1>3, <1>4 DEF Parked, Busy
    <3>2. interrupt'[d] \subseteq {"abort"}
      BY <1>5 DEF Served
    <3> QED
      BY <3>1, <3>2 DEF Served
  <2>2. \A d \in Caller : pc[d] = "waiting" /\ interrupt'[d] = {} =>
            \/ req[d] \in pending /\ fut'[req[d]] = "pending"
            \/ fut'[req[d]] \in {"answered", "failed"}
    <3> SUFFICES ASSUME NEW d \in Caller, pc[d] = "waiting", interrupt'[d] = {}
                 PROVE  \/ req[d] \in pending /\ fut'[req[d]] = "pending"
                        \/ fut'[req[d]] \in {"answered", "failed"}
      OBVIOUS
    <3>1. d # c /\ interrupt[d] = {}
      BY <1>5
    <3>2. req[d] \in Id /\ fut'[req[d]] = fut[req[d]]
      BY <1>3, <1>4, <3>1 DEF Parked, Busy
    <3> QED
      BY <3>1, <3>2 DEF Served
  <2>3. session = "closed" => \A d \in Caller : Busy(d) => "abort" \in interrupt'[d]
    BY <1>5 DEF Served
  <2> QED
    BY <2>1, <2>2, <2>3 DEF Served, Busy
<1>7. Entries'
  <2> SUFFICES ASSUME NEW i \in pending
               PROVE  /\ fut'[i] \in {"pending", "cancelled"}
                      /\ i \in abandoned \/ \E d \in Caller : req[d] = i
                      /\ fut'[i] = "cancelled" =>
                             i \in abandoned \/ \E d \in Caller : req[d] = i /\ interrupt'[d] # {}
    BY DEF Entries
  <2>1. i \in Id
    BY DEF TypeOK, Id
  <2>2. CASE req[c] = i
    BY <1>3, <1>5, <2>1, <2>2 DEF Entries
  <2>3. CASE req[c] # i
    <3>1. fut'[i] = fut[i]
      BY <1>3, <2>1, <2>3
    <3> QED
      BY <1>5, <3>1 DEF Entries
  <2> QED
    BY <2>2, <2>3
<1> QED
  BY <1>1, <1>2, <1>6, <1>7

LEMMA TimerKeeps == ASSUME IInv, NEW c \in Caller, Timer(c) PROVE IInv'
  BY InterruptKeeps DEF Timer, Interrupts, Busy, IInv, TypeOK

LEMMA AbortKeeps == IInv /\ Abort => IInv'
  BY InterruptKeeps DEF Abort, Interrupts, Busy, Caller, IInv, Served

\* A caller that leaves: its request is nobody's from now on.
Leaves(c) ==
    /\ Busy(c) /\ Return(c)
    /\ UNCHANGED <<nextId, fut, page, session>>
    /\ timedOut' \in Seq(Id) /\ Len(timedOut') <= RingSize
    /\ \/ pending' = pending /\ abandoned' = abandoned \cup {req[c]}
       \/ pending' = pending \ {req[c]} /\ abandoned' = abandoned
    /\ \/ tools' = tools
       \/ c = "discovery" /\ tools' = Pages

LEMMA LeavesKeeps == ASSUME IInv, NEW c \in Caller, Leaves(c) PROVE IInv'
<1> USE DEF IInv, Leaves, Return
<1>1. TypeOK'
  <2>1. req[c] \in 1..(nextId - 1)
    BY DEF TypeOK, Parked
  <2>2. pending' \subseteq 1..(nextId - 1) /\ abandoned' \subseteq 1..(nextId - 1)
    BY <2>1 DEF TypeOK
  <2>3. tools' \in 0..Pages /\ gate' \in BOOLEAN
    BY DEF TypeOK
  <2> QED
    BY <2>2, <2>3 DEF TypeOK
<1>2. RoomLeft'
  BY DEF TypeOK, RoomLeft, Reserve, Busy, Caller
<1>3. Parked'
  BY DEF TypeOK, Parked, Busy
<1>4. Published'
  BY DEF TypeOK, Published, Busy, Caller
<1>5. \A d \in Caller : d # c =>
          /\ pc'[d] = pc[d] /\ req'[d] = req[d] /\ interrupt'[d] = interrupt[d]
          /\ req[d] # 0 => req[d] # req[c] /\ (req[d] \in pending => req[d] \in pending')
  BY DEF TypeOK, Parked, Busy
<1>6. pc'[c] \in {"ready", "over"}
  BY DEF TypeOK
<1>7. Served'
  <2>1. \A d \in Caller : pc'[d] = "sending" =>
            /\ interrupt'[d] \subseteq {"abort"}
            /\ session # "closed" =>
                  \/ req'[d] \in pending' /\ fut[req'[d]] = "pending"
                  \/ fut[req'[d]] \in {"answered", "failed"}
    BY <1>5, <1>6 DEF Served, Parked, Busy
  <2>2. \A d \in Caller : pc'[d] = "waiting" /\ interrupt'[d] = {} =>
            \/ req'[d] \in pending' /\ fut[req'[d]] = "pending"
            \/ fut[req'[d]] \in {"answered", "failed"}
    BY <1>5, <1>6 DEF Served, Parked, Busy
  <2>3. session = "closed" =>
            pending' = {} /\ \A d \in Caller : Busy(d)' => "abort" \in interrupt'[d]
    BY <1>5, <1>6 DEF Served, Busy
  <2> QED
    BY <2>1, <2>2, <2>3 DEF Served
<1>8. Entries'
  <2> SUFFICES ASSUME NEW i \in pending'
               PROVE  /\ fut[i] \in {"pending", "cancelled"}
                      /\ i \in abandoned' \/ \E d \in Caller : req'[d] = i
                      /\ fut[i] = "cancelled" =>
                             i \in abandoned' \/ \E d \in Caller : req'[d] = i /\ interrupt'[d] # {}
    BY DEF Entries
  <2>1. i \in pending /\ (i = req[c] => i \in abandoned') /\ (i \in abandoned => i \in abandoned')
    OBVIOUS
  <2>2. CASE i = req[c]
    BY <2>1, <2>2 DEF Entries
  <2>3. CASE i # req[c]
    BY <1>5, <2>1, <2>3 DEF Entries
  <2> QED
    BY <2>2, <2>3
<1> QED
  BY <1>1, <1>2, <1>3, <1>4, <1>7, <1>8

\* A step that leaves the ring alone leaves it within its size.
LEMMA RingKept == IInv => timedOut \in Seq(Id) /\ Len(timedOut) <= RingSize
  BY DEF IInv, TypeOK

LEMMA FailedLeaves == ASSUME IInv, NEW c \in Caller, Failed(c) PROVE Leaves(c)
<1>1. req[c] \notin pending /\ Busy(c)
  BY DEF IInv, Failed, Has, Entries, Busy
<1>2. pending' = pending \ {req[c]} /\ UNCHANGED requests
  BY <1>1 DEF Failed, requests
<1> QED
  BY <1>1, <1>2, RingKept DEF Failed, Leaves, requests

LEMMA CallAnsweredLeaves == IInv /\ CallAnswered => Leaves("turn")
<1> SUFFICES ASSUME IInv, CallAnswered
             PROVE  Leaves("turn")
  OBVIOUS
<1>1. "turn" \in Caller /\ req["turn"] \notin pending /\ Busy("turn")
  BY DEF IInv, CallAnswered, Has, Entries, Busy, Caller
<1>2. pending' = pending \ {req["turn"]} /\ UNCHANGED requests
  BY <1>1 DEF CallAnswered, requests
<1> QED
  BY <1>1, <1>2, RingKept DEF CallAnswered, Leaves, requests

LEMMA LastPageLeaves == IInv /\ LastPage => Leaves("discovery")
<1> SUFFICES ASSUME IInv, LastPage
             PROVE  Leaves("discovery")
  OBVIOUS
<1>1. "discovery" \in Caller /\ req["discovery"] \notin pending /\ Busy("discovery")
  BY DEF IInv, LastPage, DiscoveryReady, Has, Entries, Busy, Caller
<1>2. pending' = pending \ {req["discovery"]} /\ UNCHANGED requests
  BY <1>1 DEF LastPage, requests
<1> QED
  BY <1>1, <1>2, RingKept DEF LastPage, Leaves, requests

LEMMA TimedOutLeaves == ASSUME IInv, NEW c \in Caller, TimedOut(c) PROVE Leaves(c)
<1>1. Busy(c) /\ req[c] \in Id
  BY DEF IInv, TimedOut, Busy, Parked, TypeOK, Id
<1>2. timedOut' \in Seq(Id) /\ Len(timedOut') <= RingSize
  BY <1>1, RingBounded DEF IInv, TimedOut
<1> QED
  BY <1>1, <1>2 DEF TimedOut, Leaves

LEMMA CallerCancelledLeaves == ASSUME IInv, NEW c \in Caller, CallerCancelled(c) PROVE Leaves(c)
  BY RingKept DEF CallerCancelled, Leaves, requests

\* An answer: the entry goes, and its future is settled unless it was cancelled.
LEMMA AnswerKeeps ==
  ASSUME IInv, NEW i \in Id, NEW outcome \in {"answered", "failed"}, Answer(i, outcome)
  PROVE  IInv'
<1> USE DEF IInv, Answer
<1>1. fut[i] \in {"pending", "cancelled"} /\ (fut[i] = "pending" \/ fut' = fut)
  BY DEF Entries
<1>2. \A k \in Id : k # i => fut'[k] = fut[k]
  BY DEF TypeOK
<1>3. fut[i] = "pending" => fut'[i] = outcome
  BY DEF TypeOK
<1>4. TypeOK' /\ RoomLeft'
  BY DEF TypeOK, RoomLeft, Reserve
<1>5. Parked' /\ Published'
  BY DEF Parked, Published, Busy
<1>6. \A c \in Caller : Busy(c) => req[c] \in Id
  BY DEF Parked, TypeOK, Id
<1>7. Served'
  <2>1. \A c \in Caller : pc[c] = "sending" =>
            /\ interrupt[c] \subseteq {"abort"}
            /\ \/ req[c] \in pending' /\ fut'[req[c]] = "pending"
               \/ req[c] = i /\ fut[i] = "cancelled"
               \/ fut'[req[c]] \in {"answered", "failed"}
    BY <1>1, <1>2, <1>3, <1>6 DEF Served, Busy
  <2>2. \A c \in Caller : pc[c] = "sending" => ~(req[c] = i /\ fut[i] = "cancelled")
    BY DEF Served
  <2>3. \A c \in Caller : pc[c] = "waiting" /\ interrupt[c] = {} =>
            \/ req[c] \in pending' /\ fut'[req[c]] = "pending"
            \/ fut'[req[c]] \in {"answered", "failed"}
    BY <1>1, <1>2, <1>3, <1>6 DEF Served, Busy
  <2>4. session' # "closed"
    OBVIOUS
  <2> QED
    BY <2>1, <2>2, <2>3, <2>4 DEF Served
<1>8. Entries'
  BY <1>2 DEF Entries, TypeOK, Id
<1> QED
  BY <1>4, <1>5, <1>7, <1>8

\* The end of the session interrupts whoever is busy.
LEMMA CloseKeeps == IInv /\ Close => IInv'
<1> SUFFICES ASSUME IInv, Close
             PROVE  IInv'
  OBVIOUS
<1> USE DEF IInv, Close
<1>1. pending' = {} /\ session' = "closed"
  BY DEF CancelAll
<1>2. fut' \in [Id -> {"none", "pending", "cancelled", "answered", "failed"}]
  BY DEF CancelAll, Cancelled, TypeOK
<1>3. \A c \in Caller : interrupt'[c] = IF Busy(c) THEN interrupt[c] \cup {"abort"} ELSE interrupt[c]
  BY DEF TypeOK
<1>4. \A c \in Caller :
          pc'[c] = IF c = "discovery" /\ pc[c] = "ready" THEN "over" ELSE pc[c]
  BY DEF TypeOK
<1>5. \A c \in Caller : Busy(c)' <=> Busy(c)
  BY <1>4 DEF Busy
<1>6. TypeOK'
  BY <1>1, <1>2 DEF TypeOK
<1>7. RoomLeft'
  BY <1>4 DEF RoomLeft, Reserve, TypeOK, Caller
<1>8. Parked'
  BY <1>3, <1>5 DEF Parked
<1>9. Served'
  <2>1. \A c \in Caller : Busy(c) => "abort" \in interrupt'[c]
    BY <1>3
  <2>2. \A c \in Caller : pc'[c] = "sending" => interrupt'[c] \subseteq {"abort"}
    BY <1>3, <1>4 DEF Served, Busy
  <2> QED
    BY <1>1, <1>4, <1>5, <2>1, <2>2 DEF Served, Busy
<1>10. Entries' /\ Published'
  BY <1>1, <1>4 DEF Entries, Published, Caller
<1> QED
  BY <1>6, <1>7, <1>8, <1>9, <1>10

\* Every step keeps the invariant.
LEMMA NextKeeps == IInv /\ [Next]_vars => IInv'
<1> SUFFICES ASSUME IInv, [Next]_vars
             PROVE  IInv'
  OBVIOUS
<1>1. CASE \E c \in Caller : Call(c) \/ Sent(c) \/ Timer(c) \/ Resume(c)
  <2>1. PICK c \in Caller : Call(c) \/ Sent(c) \/ Timer(c) \/ Resume(c)
    BY <1>1
  <2>2. CASE Call(c) \/ Sent(c) \/ Timer(c)
    BY <2>2, CallKeeps, SentKeeps, TimerKeeps
  <2>3. CASE Failed(c) \/ TimedOut(c) \/ CallerCancelled(c)
    BY <2>3, FailedLeaves, TimedOutLeaves, CallerCancelledLeaves, LeavesKeeps
  <2>4. CASE CallAnswered \/ NextPage \/ LastPage
    BY <2>4, CallAnsweredLeaves, NextPageKeeps, LastPageLeaves, LeavesKeeps DEF Caller
  <2> QED
    BY <2>1, <2>2, <2>3, <2>4 DEF Resume
<1>2. CASE \E i \in Id, outcome \in {"answered", "failed"} : Answer(i, outcome)
  BY <1>2, AnswerKeeps
<1>3. CASE Abort \/ Close
  BY <1>3, AbortKeeps, CloseKeeps
<1>4. CASE UNCHANGED vars
  <2>1. TypeOK' /\ RoomLeft' /\ Published'
    BY <1>4 DEF vars, requests, IInv, TypeOK, RoomLeft, Reserve, Published
  <2>2. Parked' /\ Served'
    BY <1>4 DEF vars, requests, IInv, Parked, Served, Busy
  <2>3. Entries'
    BY <1>4 DEF vars, requests, IInv, Entries
  <2> QED
    BY <2>1, <2>2, <2>3 DEF IInv
<1> QED
  BY <1>1, <1>2, <1>3, <1>4 DEF Next

\* The inductive invariant of the bridge.
THEOREM BridgeInvariant == Spec => []IInv
<1>1. Init => IInv
  BY InitInv
<1>2. IInv /\ [Next]_vars => IInv'
  BY NextKeeps
<1> QED
  BY <1>1, <1>2, PTL DEF Spec

\* Type correctness; the ring of timed-out ids stays within its size.
THEOREM BridgeTypeOK == Spec => []TypeOK
<1>1. IInv => TypeOK
  BY DEF IInv
<1> QED
  BY <1>1, BridgeInvariant, PTL

\* An entry of _pending has a caller, or had one that was cancelled (PendingIsAwaited).
THEOREM NothingPilesUp == Spec => []PendingIsAwaited
<1>1. IInv => PendingIsAwaited
  BY DEF IInv, Entries, PendingIsAwaited
<1> QED
  BY <1>1, BridgeInvariant, PTL

\* No caller waits on a future that nobody can resolve (WaitersResolvable).
THEOREM NobodyStranded == Spec => []WaitersResolvable
<1>1. IInv => WaitersResolvable
  BY DEF IInv, Served, WaitersResolvable
<1> QED
  BY <1>1, BridgeInvariant, PTL

\* The tools are published whole or not at all (ToolsAllOrNothing).
THEOREM ToolsAreWhole == Spec => []ToolsAllOrNothing
<1>1. IInv => ToolsAllOrNothing
  BY DEF IInv, Published, ToolsAllOrNothing
<1> QED
  BY <1>1, BridgeInvariant, PTL

\* An answer ends the session only if its caller was cancelled, or timed out in the same tick
\* (OnlyCancelledCrash).
THEOREM CrashIsCancelled == Spec => OnlyCancelledCrash
<1>1. IInv /\ [Next]_vars =>
          (session = "open" /\ session' = "crashed" =>
              \E i \in pending \ pending' :
                  i \in abandoned \/ \E c \in Caller : req[c] = i /\ interrupt[c] # {})
  <2> SUFFICES ASSUME IInv, [Next]_vars, session = "open", session' = "crashed"
               PROVE  \E i \in pending \ pending' :
                          i \in abandoned \/ \E c \in Caller : req[c] = i /\ interrupt[c] # {}
    OBVIOUS
  <2>1. PICK i \in Id, outcome \in {"answered", "failed"} : Answer(i, outcome)
    BY DEF Next, Call, Sent, Timer, Resume, Failed, TimedOut, CallerCancelled, CallAnswered,
           NextPage, LastPage, Abort, Close, vars
  <2>2. i \in pending \ pending' /\ fut[i] # "pending"
    BY <2>1 DEF Answer
  <2>3. fut[i] = "cancelled"
    BY <2>2 DEF IInv, Entries
  <2> QED
    BY <2>2, <2>3 DEF IInv, Entries
<1> QED
  BY <1>1, BridgeInvariant, PTL DEF Spec, OnlyCancelledCrash

----------------------------------------------------------------------------
(* The bridge keeps the promise of Rpc *)

Calls == [c \in Caller |-> Seen(c)]

Stutter == UNCHANGED <<Calls, tools, session = "open">>

\* A step that changes the view of one caller.
LEMMA ViewBecomes ==
  ASSUME NEW c \in Caller, NEW state,
         Seen(c)' = state, \A d \in Caller : d # c => Seen(d)' = Seen(d)
  PROVE  Promise!Becomes(c, state)
  BY DEF Promise!Becomes

\* A step that changes nobody's view.
LEMMA ViewSame ==
  ASSUME \A c \in Caller : Seen(c)' = Seen(c), UNCHANGED <<tools, session>>
  PROVE  Stutter
  BY DEF Stutter, Calls

LEMMA StutterIsStep == Stutter => [Promise!Next]_(Promise!rpcVars)
  BY DEF Stutter, Calls, Promise!rpcVars

\* A new request is out, whoever it belongs to.
LEMMA IssueView ==
  ASSUME IInv, NEW c \in Caller, Issue(c), nextId \in Id
  PROVE  Seen(c)' = "out" /\ \A d \in Caller : d # c => Seen(d)' = Seen(d)
<1> USE DEF IInv, Issue
<1>1. req'[c] = nextId /\ fut'[nextId] = "pending" /\ nextId # 0
  BY DEF TypeOK
<1>2. \A d \in Caller : d # c => req'[d] = req[d]
  BY DEF TypeOK
<1>3. \A d \in Caller : req[d] # 0 => req[d] \in Id /\ fut'[req[d]] = fut[req[d]]
  BY DEF TypeOK, Id
<1> QED
  BY <1>1, <1>2, <1>3 DEF Seen

\* A caller that leaves has no call any more.
LEMMA LeavesView ==
  ASSUME IInv, NEW c \in Caller, Leaves(c)
  PROVE  /\ Seen(c) # "none" /\ Seen(c)' = "none"
         /\ \A d \in Caller : d # c => Seen(d)' = Seen(d)
<1> USE DEF IInv, Leaves, Return
<1>1. req[c] # 0 /\ req'[c] = 0 /\ \A d \in Caller : d # c => req'[d] = req[d]
  BY DEF Parked, TypeOK
<1> QED
  BY <1>1 DEF Seen

\* Asking.
LEMMA CallRefines == ASSUME IInv, NEW c \in Caller, Call(c) PROVE Promise!Next
<1>1. nextId \in Id
  <2>1. CASE c = "discovery"
    BY <2>1 DEF Call, IInv, RoomLeft, Reserve, TypeOK, Id
  <2>2. CASE c = "turn"
    BY <2>2 DEF Call, Room, IInv, RoomLeft, Reserve, TypeOK, Id
  <2> QED
    BY <2>1, <2>2 DEF Caller
<1>2. Seen(c) = "none"
  BY DEF Call, IInv, Parked, Busy, Seen
<1>3. Promise!Becomes(c, "out")
  BY <1>1, IssueView, ViewBecomes DEF Call
<1>4. Promise!Ask(c)
  BY <1>2, <1>3 DEF Promise!Ask, Call
<1> QED
  BY <1>4 DEF Promise!Next

LEMMA NextPageRefines == IInv /\ NextPage => Promise!Next
<1> SUFFICES ASSUME IInv, NextPage
             PROVE  Promise!Next
  OBVIOUS
<1>1. "discovery" \in Caller /\ nextId \in Id
  BY DEF NextPage, DiscoveryReady, Has, IInv, RoomLeft, Reserve, TypeOK, Id, Caller
<1>2. Seen("discovery") = "answered"
  BY <1>1 DEF NextPage, DiscoveryReady, Has, IInv, Parked, Busy, Seen
<1>3. Promise!Becomes("discovery", "out")
  BY <1>1, IssueView, ViewBecomes DEF NextPage
<1>4. Promise!AskAgain
  BY <1>1, <1>2, <1>3 DEF Promise!AskAgain, NextPage
<1> QED
  BY <1>4 DEF Promise!Next

\* Leaving, with or without an answer.
LEMMA LeavesRefines ==
  ASSUME IInv, NEW c \in Caller, Leaves(c), UNCHANGED tools
  PROVE  Promise!Next
<1>1. Promise!Becomes(c, "none")
  BY LeavesView, ViewBecomes
<1>2. Promise!Leave(c)
  BY <1>1, LeavesView DEF Promise!Leave, Leaves
<1> QED
  BY <1>2 DEF Promise!Next

LEMMA LastPageRefines == IInv /\ LastPage => Promise!Next
<1> SUFFICES ASSUME IInv, LastPage
             PROVE  Promise!Next
  OBVIOUS
<1>1. "discovery" \in Caller /\ Leaves("discovery")
  BY LastPageLeaves DEF Caller
<1>2. Seen("discovery") = "answered"
  BY <1>1 DEF LastPage, DiscoveryReady, Has, IInv, Parked, Busy, Seen
<1>3. Promise!Becomes("discovery", "none")
  BY <1>1, LeavesView, ViewBecomes
<1>4. tools = 0 /\ tools' = Pages
  BY DEF LastPage, DiscoveryReady, Has, Busy, IInv, Published
<1>5. Promise!Publish
  BY <1>1, <1>2, <1>3, <1>4 DEF Promise!Publish, LastPage
<1> QED
  BY <1>5 DEF Promise!Next

\* An interrupt changes no call: a future that is cancelled is neither answered nor failed.
LEMMA InterruptRefines ==
  ASSUME IInv, NEW c \in Caller, NEW why, Interrupts(c, why)
  PROVE  Stutter
<1>1. \A d \in Caller : req[d] # 0 => req[d] \in Id
  BY DEF IInv, TypeOK, Id
<1>2. \A i \in Id : fut'[i] =
             IF fut[i] = "pending" /\ pc[c] = "waiting" /\ req[c] = i THEN "cancelled" ELSE fut[i]
  BY CancelledOne DEF Interrupts
<1>3. \A d \in Caller : Seen(d)' = Seen(d)
  BY <1>1, <1>2 DEF Interrupts, Seen
<1> QED
  BY <1>3, ViewSame DEF Interrupts

LEMMA SentRefines == ASSUME IInv, NEW c \in Caller, Sent(c) PROVE Stutter
  BY ViewSame DEF Sent, requests, Seen

\* An answer settles the call it belongs to, or none that anybody waits for.
LEMMA AnswerRefines ==
  ASSUME IInv, NEW i \in Id, NEW outcome \in {"answered", "failed"}, Answer(i, outcome)
  PROVE  Promise!Next \/ Stutter
<1> USE DEF IInv, Answer
<1>1. \A c \in Caller : req[c] # 0 => req[c] \in Id
  BY DEF TypeOK, Id
<1>2. CASE fut[i] = "pending"
  <2>1. UNCHANGED session /\ fut'[i] = outcome /\ \A k \in Id : k # i => fut'[k] = fut[k]
    BY <1>2 DEF TypeOK
  <2>2. CASE \E c \in Caller : req[c] = i
    <3>1. PICK c \in Caller : req[c] = i
      BY <2>2
    <3>2. i # 0 /\ Seen(c) = "out" /\ Seen(c)' = outcome
      BY <1>2, <2>1, <3>1 DEF Seen, Id
    <3>3. \A d \in Caller : d # c => Seen(d)' = Seen(d)
      BY <1>1, <2>1, <3>1, <3>2 DEF Seen, Parked
    <3>4. Promise!Becomes(c, outcome)
      BY <3>2, <3>3, ViewBecomes
    <3>5. Promise!Settle(c, outcome)
      BY <2>1, <3>2, <3>4 DEF Promise!Settle
    <3> QED
      BY <3>5 DEF Promise!Next
  <2>3. CASE ~ \E c \in Caller : req[c] = i
    <3>1. \A d \in Caller : Seen(d)' = Seen(d)
      BY <1>1, <2>1, <2>3 DEF Seen
    <3> QED
      BY <2>1, <3>1, ViewSame
  <2> QED
    BY <2>2, <2>3
<1>3. CASE fut[i] # "pending"
  <2>1. \A d \in Caller : Seen(d)' = Seen(d)
    BY <1>3 DEF Seen
  <2>2. session' = "crashed" /\ UNCHANGED tools
    BY <1>3
  <2>3. Calls' = [c \in Caller |-> IF c \in {} THEN "failed" ELSE Calls[c]]
    BY <2>1 DEF Calls
  <2>4. {} \in SUBSET {c \in Caller : Calls[c] = "out"}
    OBVIOUS
  <2>5. (session' = "open") = FALSE
    BY <2>2
  <2>6. Promise!Shut
    BY <2>2, <2>3, <2>4, <2>5, Zenon DEF Promise!Shut, Calls
  <2> QED
    BY <2>6 DEF Promise!Next
<1> QED
  BY <1>2, <1>3

\* The end of the session fails the calls that are out, but those whose future was cancelled.
LEMMA CloseRefines == IInv /\ Close => Promise!Next
<1> SUFFICES ASSUME IInv, Close
             PROVE  Promise!Next
  OBVIOUS
<1> USE DEF IInv, Close
<1> DEFINE told == {c \in Caller : Seen(c) = "out" /\ Seen(c)' = "failed"}
<1>1. \A c \in Caller : req[c] # 0 => req[c] \in Id
  BY DEF TypeOK, Id
<1>2. \A i \in Id : \/ fut'[i] = fut[i]
                    \/ fut[i] = "pending" /\ fut'[i] \in {"cancelled", "failed"}
  BY DEF CancelAll, Cancelled
<1>3. \A c \in Caller : Seen(c)' = IF c \in told THEN "failed" ELSE Seen(c)
  BY <1>1, <1>2 DEF Seen
<1>4. told \in SUBSET {c \in Caller : Calls[c] = "out"}
  BY DEF Calls
<1>5. Calls' = [c \in Caller |-> IF c \in told THEN "failed" ELSE Calls[c]]
  BY <1>3 DEF Calls
<1>6. Promise!Shut
  BY <1>4, <1>5 DEF Promise!Shut, Calls
<1> QED
  BY <1>6 DEF Promise!Next

\* Every step of the bridge is a step of the promise, or none.
LEMMA StepRefines == IInv /\ [Next]_vars => [Promise!Next]_(Promise!rpcVars)
<1> SUFFICES ASSUME IInv, [Next]_vars
             PROVE  [Promise!Next]_(Promise!rpcVars)
  OBVIOUS
<1>1. ASSUME NEW c \in Caller, Call(c) \/ Sent(c) \/ Timer(c)
      PROVE  Promise!Next \/ Stutter
  <2>1. Timer(c) => Interrupts(c, "timeout")
    BY DEF Timer, Interrupts, Busy
  <2> QED
    BY <1>1, <2>1, CallRefines, SentRefines, InterruptRefines
<1>2. ASSUME NEW c \in Caller, Failed(c) \/ TimedOut(c) \/ CallerCancelled(c)
      PROVE  Promise!Next
  <2>1. Leaves(c) /\ UNCHANGED tools
    BY <1>2, FailedLeaves, TimedOutLeaves, CallerCancelledLeaves DEF Failed, TimedOut, CallerCancelled
  <2> QED
    BY <2>1, LeavesRefines
<1>3. ASSUME CallAnswered PROVE Promise!Next
  <2>1. "turn" \in Caller /\ Leaves("turn") /\ UNCHANGED tools
    BY <1>3, CallAnsweredLeaves DEF CallAnswered, Caller
  <2> QED
    BY <2>1, LeavesRefines
<1>4. ASSUME Abort PROVE Stutter
  <2>1. "turn" \in Caller /\ Interrupts("turn", "abort")
    BY <1>4 DEF Abort, Interrupts, Caller
  <2> QED
    BY <2>1, InterruptRefines
<1>5. ASSUME UNCHANGED vars PROVE Stutter
  BY <1>5, ViewSame DEF vars, requests, Seen
<1>6. CASE Next
  <2>1. CASE \E c \in Caller : Call(c) \/ Sent(c) \/ Timer(c) \/ Resume(c)
    <3>1. PICK c \in Caller : Call(c) \/ Sent(c) \/ Timer(c) \/ Resume(c)
      BY <2>1
    <3>2. Promise!Next \/ Stutter
      BY <3>1, <1>1, <1>2, <1>3, NextPageRefines, LastPageRefines DEF Resume
    <3> QED
      BY <3>2, StutterIsStep
  <2>2. CASE \E i \in Id, outcome \in {"answered", "failed"} : Answer(i, outcome)
    BY <2>2, AnswerRefines, StutterIsStep
  <2>3. CASE Abort \/ Close
    BY <2>3, <1>4, CloseRefines, StutterIsStep
  <2> QED
    BY <1>6, <2>1, <2>2, <2>3 DEF Next
<1> QED
  BY <1>5, <1>6, StutterIsStep

\* The bridge implements the promise of Rpc: no answer reaches another call than its own, none
\* comes twice or after the end, and the tools come with the discovery's last answer.
THEOREM BridgeImplementsRpc == Spec => ImplementsRpc
<1>1. Init => Promise!Init
  BY DEF Init, Promise!Init, Seen
<1> QED
  BY <1>1, StepRefines, BridgeInvariant, PTL DEF Spec, ImplementsRpc, Promise!Spec

============================================================================
