----------------------------- MODULE Admission -----------------------------
(***************************************************************************)
(* How devices get in: the OTA gate (server/ota.py), which hands out the   *)
(* tokens of DeviceTokens, the WebSocket endpoint (server/ws.py), the      *)
(* cooldown trackers of both (server/cooldown.py), and the session         *)
(* registry that run() keeps (server/session.py, live_state.py).           *)
(*                                                                         *)
(* app.state.session_semaphore is taken at the level of SlotPool, the      *)
(* promise TurnSlots shows asyncio.Semaphore to keep under the same use: a *)
(* connection waits at most a millisecond for it.                          *)
(***************************************************************************)
EXTENDS DeviceTokens, Sequences, FiniteSets

CONSTANTS
    Conn,         \* sockets that may be open at once
    MaxSessions,  \* JARVIZ_MAX_SESSIONS
    Cooldown,     \* JARVIZ_DEVICE_COOLDOWN_S, in ticks
    MaxTracked,   \* _MAX_TRACKED
    MaxOpened     \* bound: sessions opened

ASSUME AdmissionAssumption ==
    /\ IsFiniteSet(Conn)
    /\ MaxSessions \in Nat \ {0} /\ MaxTracked \in Nat \ {0}
    /\ Cooldown \in Nat /\ MaxOpened \in Nat

VARIABLES
    running,   \* connections with a session permit
    queued,    \* those that wait for one
    refused,   \* those being closed because the cap is reached
    stage,     \* where a connection with a permit is
    sid,       \* the session of each connection: 0 before run() has registered it
    rows,      \* live_state._sessions
    opened,    \* metrics: sessions_opened, which also numbers the sessions
    closed,    \* metrics: sessions_closed
    lost,      \* sessions whose handshake failed
    ws, ota,   \* ws_cooldown and ota_cooldown
    since,     \* ticks since the WebSocket gate let a device pass, up to Cooldown
    verdict    \* what the endpoint said last, in this tick

pool     == <<running, queued, refused>>
sessions == <<stage, sid, rows, opened, closed, lost>>
gates    == <<ws, ota, since, verdict, tokenVars>>
vars     == <<pool, sessions, gates>>

Pool == INSTANCE SlotPool WITH Turn <- Conn, Slots <- MaxSessions

Stage == {"none", "accept", "handshake", "live", "closing"}

\* CooldownTracker: the devices in order of their last hit, and the age of that hit.
Tracker == [order : Seq(Device), age : [Device -> 0..Cooldown]]
NoHits == [order |-> <<>>, age |-> [d \in Device |-> Cooldown]]

Verdict == {"passed", "cooldown", "token"}
Nobody == [dev |-> NoId, said |-> "passed"]

Init ==
    /\ TokensInit
    /\ Pool!Init
    /\ stage = [c \in Conn |-> "none"] /\ sid = [c \in Conn |-> 0]
    /\ rows = {} /\ opened = 0 /\ closed = 0 /\ lost = {}
    /\ ws = NoHits /\ ota = NoHits
    /\ since = [d \in Device |-> Cooldown]
    /\ verdict = Nobody

----------------------------------------------------------------------------
(* CooldownTracker.check_and_mark *)

Tracked(tr, d) == \E i \in DOMAIN tr.order : tr.order[i] = d

InCooldown(tr, d) == d # NoId /\ Tracked(tr, d) /\ tr.age[d] < Cooldown

Without(o, d) ==
    IF \E i \in DOMAIN o : o[i] = d
    THEN LET i == CHOOSE k \in DOMAIN o : o[k] = d
         IN  SubSeq(o, 1, i - 1) \o SubSeq(o, i + 1, Len(o))
    ELSE o

\* The hit goes to the end; past the cap the oldest is forgotten.
Hit(tr, d) ==
    IF d = NoId \/ Cooldown = 0 THEN tr
    ELSE LET o == Append(Without(tr.order, d), d)
         IN  [order |-> IF Len(o) > MaxTracked THEN Tail(o) ELSE o,
              age |-> [tr.age EXCEPT ![d] = 0]]

Older(a) == [d \in Device |-> IF a[d] < Cooldown THEN a[d] + 1 ELSE a[d]]

\* One tick of the clocks.
Tick ==
    /\ TokensAge
    /\ ws' = [ws EXCEPT !.age = Older(@)]
    /\ ota' = [ota EXCEPT !.age = Older(@)]
    /\ since' = Older(since)
    /\ verdict' = Nobody
    /\ UNCHANGED <<pool, sessions>>

ClockChanges == SetClock /\ UNCHANGED <<pool, sessions, ws, ota, since, verdict>>

\* ota_check: bounced with 429, or answered with a token, or touch_device raises and the
\* answer is a 500: the cooldown is marked by then.
OtaCheck(d) ==
    /\ \/ InCooldown(ota, d) /\ UNCHANGED <<ota, tokenVars>>
       \/ ~InCooldown(ota, d) /\ ota' = Hit(ota, d) /\ Mint(d)
       \/ ~InCooldown(ota, d) /\ d # NoId /\ ota' = Hit(ota, d) /\ UNCHANGED tokenVars
    /\ UNCHANGED <<pool, sessions, ws, since, verdict>>

----------------------------------------------------------------------------
(* xiaozhi_v1 *)

Goto(c, s) == stage' = [stage EXCEPT ![c] = s]

\* The token is missing, expired, or from the future.
TokenRefused(d) ==
    /\ ~Verified(d)
    /\ verdict' = [dev |-> d, said |-> "token"]
    /\ UNCHANGED <<pool, sessions, ws, ota, since, tokenVars>>

FaultMarksBounced(d) ==
    /\ Verified(d) /\ InCooldown(ws, d)
    /\ verdict' = [dev |-> d, said |-> "cooldown"]
    /\ ws' = Hit(ws, d)
    /\ UNCHANGED <<pool, sessions, ota, since, tokenVars>>

\* The cooldown gate turns the device away, and does not count the try.
Bounced(d) ==
    /\ Verified(d) /\ InCooldown(ws, d)
    /\ verdict' = [dev |-> d, said |-> "cooldown"]
    /\ UNCHANGED <<pool, sessions, ws, ota, since, tokenVars>>

\* It passes; the permit is there, or the connection waits a millisecond for it.
Connect(c, d) ==
    /\ Pool!Outside(c) /\ Verified(d) /\ ~InCooldown(ws, d)
    /\ verdict' = [dev |-> d, said |-> "passed"]
    /\ ws' = Hit(ws, d)
    /\ since' = [x \in Device |-> IF x = d THEN 0 ELSE since[x]]
    /\ \/ queued = {} /\ Pool!Run(c) /\ Goto(c, "accept")
       \/ Pool!Queue(c) /\ UNCHANGED stage
    /\ UNCHANGED <<sid, rows, opened, closed, lost, ota, tokenVars>>

Granted(c) ==
    /\ c \in queued /\ Pool!Run(c)
    /\ Goto(c, "accept")
    /\ UNCHANGED <<sid, rows, opened, closed, lost, gates>>

CapReached(c) == Pool!Refuse(c) /\ UNCHANGED <<sessions, gates>>

Rejected(c) == c \in refused /\ Pool!Leave(c) /\ UNCHANGED <<sessions, gates>>

FaultForgetsPermit(c) ==
    /\ Goto(c, "none") /\ sid' = [sid EXCEPT ![c] = 0]
    /\ IF stage[c] = "closing" THEN Pool!Leave(c) ELSE UNCHANGED pool

\* The finally of xiaozhi_v1.
ReleasePermit(c) ==
    /\ Goto(c, "none") /\ sid' = [sid EXCEPT ![c] = 0]
    /\ Pool!Leave(c)

\* The socket is gone when it is accepted, or touch_device raises in run().
AcceptFails(c) ==
    /\ stage[c] = "accept"
    /\ ReleasePermit(c)
    /\ UNCHANGED <<rows, opened, closed, lost, gates>>

----------------------------------------------------------------------------
(* Session.run, as far as the registry sees it *)

\* live_state.session_opened and session_closed
AddRow(id) == rows' = rows \cup {id}
RemoveRow(id) == rows' = rows \ {id}

Registered(c) ==
    /\ stage[c] = "accept" /\ opened < MaxOpened
    /\ Goto(c, "handshake")
    /\ opened' = opened + 1
    /\ sid' = [sid EXCEPT ![c] = opened + 1]
    /\ AddRow(opened + 1)
    /\ UNCHANGED <<pool, closed, lost, gates>>

HandshakeOk(c) ==
    /\ stage[c] = "handshake"
    /\ Goto(c, "live")
    /\ UNCHANGED <<pool, sid, rows, opened, closed, lost, gates>>

\* run() returns before its finally: the session is neither counted out nor taken off.
HandshakeFails(c) ==
    /\ stage[c] = "handshake"
    /\ lost' = lost \cup {sid[c]}
    /\ ReleasePermit(c)
    /\ UNCHANGED <<rows, opened, closed, gates>>

\* The main loop has ended, and _safe_close() waits.
LoopEnds(c) ==
    /\ stage[c] = "live"
    /\ Goto(c, "closing")
    /\ UNCHANGED <<pool, sid, rows, opened, closed, lost, gates>>

FaultKeepsRow(c) ==
    /\ stage[c] = "closing"
    /\ closed' = closed + 1
    /\ ReleasePermit(c)
    /\ UNCHANGED <<rows, opened, lost, gates>>

SessionClosed(c) ==
    /\ stage[c] = "closing"
    /\ closed' = closed + 1
    /\ RemoveRow(sid[c])
    /\ ReleasePermit(c)
    /\ UNCHANGED <<opened, lost, gates>>

----------------------------------------------------------------------------

ConnStep(c) ==
    \/ Granted(c) \/ CapReached(c) \/ Rejected(c) \/ AcceptFails(c)
    \/ Registered(c) \/ HandshakeOk(c) \/ HandshakeFails(c) \/ LoopEnds(c) \/ SessionClosed(c)

Next ==
    \/ Tick \/ ClockChanges
    \/ \E d \in Device \cup {NoId} :
          OtaCheck(d) \/ TokenRefused(d) \/ Bounced(d) \/ \E c \in Conn : Connect(c, d)
    \/ \E c \in Conn : ConnStep(c)

Spec == Init /\ [][Next]_vars

----------------------------------------------------------------------------
(* Properties *)

TypeOK ==
    /\ running \subseteq Conn /\ queued \subseteq Conn /\ refused \subseteq Conn
    /\ stage \in [Conn -> Stage] /\ sid \in [Conn -> 0..MaxOpened]
    /\ opened \in 0..MaxOpened /\ closed \in Nat
    /\ rows \subseteq 1..MaxOpened /\ lost \subseteq 1..MaxOpened
    /\ \A tr \in {ws, ota} : tr \in Tracker /\ Len(tr.order) <= MaxTracked
    /\ since \in [Device -> 0..Cooldown]
    /\ verdict \in [dev : Device \cup {NoId}, said : Verdict]
    /\ token \in [Device -> Age] /\ handed \in [Device -> 0..Expired]
    /\ secured \in BOOLEAN /\ clockSet \subseteq Device

\* At most MaxSessions connections are past the gate, and each permit belongs to one of
\* them: every way out of xiaozhi_v1 gives it back (ws.py 68-100).
PermitsAreSessions ==
    /\ Cardinality(running) <= MaxSessions
    /\ \A c \in Conn : c \in running <=> stage[c] # "none"

\* The registry shows every session there is, once, and besides them only those whose
\* handshake failed (session.py 251-256 against 268-276).
Shown == {c \in Conn : stage[c] \in {"handshake", "live", "closing"}}
RowsAreSessions ==
    /\ rows = {sid[c] : c \in Shown} \cup lost
    /\ \A c, e \in Shown : sid[c] = sid[e] => c = e

\* The active sessions of /metrics are the rows of /sessions/live.
Active == opened - closed
ActiveIsRows == Active = Cardinality(rows)

\* A device is turned away for its cooldown only within Cooldown of its last connection that
\* passed: tries that were bounced, tokens that were refused, and OTA requests do not count
\* against it.  And it passes within that time only if it has been forgotten (cooldown.py
\* 40-61).
CooldownGate(d) ==
    /\ verdict'.said = "cooldown" => since[d] < Cooldown
    /\ verdict'.said = "passed" => since[d] = Cooldown \/ ~Tracked(ws, d)

\* A device that was answered by OTA within Ttl is not turned away for its token, and one
\* that was not does not get past the token check; unless the server's clock was set since
\* (auth.py 59-94).
TokenGate(d) ==
    IF ~secured \/ d \in Allowed THEN verdict'.said # "token"
    ELSE d \notin clockSet => (verdict'.said = "token" <=> handed[d] > Ttl)

\* Whom the endpoint lets in, and why it turns away the others (ws.py 37-55).
GatesAreExact ==
    [][\A d \in Device :
          verdict' # verdict /\ verdict'.dev = d => CooldownGate(d) /\ TokenGate(d)]_vars

============================================================================
