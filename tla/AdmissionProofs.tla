-------------------------- MODULE AdmissionProofs --------------------------
(***************************************************************************)
(* However many devices come and go, every session permit belongs to one   *)
(* connection, the registry and the counters agree, and the gates are      *)
(* exact.                                                                  *)
(***************************************************************************)
EXTENDS Admission, FiniteSetTheorems, SequenceTheorems, TLAPS

PoolOK ==
    /\ running \subseteq Conn /\ queued \subseteq Conn /\ refused \subseteq Conn
    /\ running \cap queued = {} /\ running \cap refused = {} /\ queued \cap refused = {}
    /\ stage \in [Conn -> Stage]
    /\ PermitsAreSessions

\* The numbers of sessions are not used twice, and a lost session has no connection.
RowsOK ==
    /\ stage \in [Conn -> Stage] /\ sid \in [Conn -> 0..MaxOpened]
    /\ opened \in 0..MaxOpened /\ closed \in Nat
    /\ rows \subseteq 1..opened /\ lost \subseteq 1..opened
    /\ \A c \in Shown : sid[c] \notin lost
    /\ RowsAreSessions /\ ActiveIsRows

\* The tracker's age of a hit is the time since the device passed.
GatesOK ==
    /\ \A tr \in {ws, ota} : tr \in Tracker /\ Len(tr.order) <= MaxTracked
    /\ since \in [Device -> 0..Cooldown] /\ ws.age = since
    /\ verdict \in [dev : Device \cup {NoId}, said : Verdict]

\* While nobody sets the clock, a token's age is the time since it was handed out.
TokensOK ==
    /\ secured \in BOOLEAN /\ clockSet \subseteq Device
    /\ token \in [Device -> Age] /\ handed \in [Device -> 0..Expired]
    /\ \A d \in Device \ clockSet :
          token[d] = handed[d] \/ (token[d] = NoToken /\ handed[d] = Expired)

IInv == PoolOK /\ RowsOK /\ GatesOK /\ TokensOK

----------------------------------------------------------------------------
(* The trackers *)

\* Taking a device out of the order leaves an order that is no longer.
LEMMA WithoutFacts ==
    ASSUME NEW o \in Seq(Device), NEW d
    PROVE  Without(o, d) \in Seq(Device) /\ Len(Without(o, d)) <= Len(o)
<1> DEFINE i == CHOOSE k \in DOMAIN o : o[k] = d
           a == SubSeq(o, 1, i - 1)
           b == SubSeq(o, i + 1, Len(o))
<1>1. CASE \E k \in DOMAIN o : o[k] = d
  <2>1. i \in 1..Len(o)
    BY <1>1
  <2>2. Without(o, d) = a \o b
    BY <1>1 DEF Without
  <2> HIDE DEF i
  <2>3. a \in Seq(Device) /\ Len(a) = i - 1
    BY <2>1
  <2>4. b \in Seq(Device) /\ Len(b) = Len(o) - i
    BY <2>1
  <2> HIDE DEF a, b
  <2>5. a \o b \in Seq(Device) /\ Len(a \o b) = Len(a) + Len(b)
    BY <2>3, <2>4, ConcatProperties, Zenon
  <2> QED
    BY <2>1, <2>2, <2>3, <2>4, <2>5
<1>2. CASE ~\E k \in DOMAIN o : o[k] = d
  BY <1>2 DEF Without
<1> QED
  BY <1>1, <1>2

\* A hit keeps the tracker within its cap and resets the age of one device.
LEMMA HitFacts ==
    ASSUME NEW tr \in Tracker, Len(tr.order) <= MaxTracked, NEW d \in Device \cup {NoId}
    PROVE  /\ Hit(tr, d) \in Tracker /\ Len(Hit(tr, d).order) <= MaxTracked
           /\ Hit(tr, d).age = IF d = NoId \/ Cooldown = 0 THEN tr.age
                               ELSE [tr.age EXCEPT ![d] = 0]
<1> USE AdmissionAssumption
<1>1. CASE d = NoId \/ Cooldown = 0
  BY <1>1 DEF Hit
<1>2. CASE ~(d = NoId \/ Cooldown = 0)
  <2> DEFINE o == Append(Without(tr.order, d), d)
             p == IF Len(o) > MaxTracked THEN Tail(o) ELSE o
             n == [tr.age EXCEPT ![d] = 0]
  <2>1. tr.order \in Seq(Device) /\ tr.age \in [Device -> 0..Cooldown]
    BY DEF Tracker
  <2>2. o \in Seq(Device) /\ Len(o) <= MaxTracked + 1 /\ o # <<>>
    <3> DEFINE w == Without(tr.order, d)
    <3>1. w \in Seq(Device) /\ Len(w) <= MaxTracked
      <4>1. w \in Seq(Device) /\ Len(w) <= Len(tr.order)
        BY <2>1, WithoutFacts
      <4> HIDE DEF w
      <4> QED
        BY <2>1, <4>1
    <3> HIDE DEF w
    <3>2. Append(w, d) \in Seq(Device) /\ Len(Append(w, d)) = Len(w) + 1
      BY <1>2, <3>1
    <3>3. o = Append(w, d)
      BY DEF w
    <3> HIDE DEF o
    <3> QED
      BY <3>1, <3>2, <3>3
  <2> HIDE DEF o
  <2>3. p \in Seq(Device) /\ Len(p) <= MaxTracked
    BY <2>2
  <2>4. n \in [Device -> 0..Cooldown]
    BY <1>2, <2>1
  <2>5. Hit(tr, d) = [order |-> p, age |-> n]
    BY <1>2 DEF Hit, o
  <2> HIDE DEF p, n
  <2>6. Hit(tr, d) \in Tracker /\ Hit(tr, d).order = p /\ Hit(tr, d).age = n
    BY <2>3, <2>4, <2>5 DEF Tracker
  <2> QED
    BY <1>2, <2>3, <2>6 DEF n
<1> QED
  BY <1>1, <1>2

\* Ageing keeps a tracker one.
LEMMA OlderFacts ==
    ASSUME NEW tr \in Tracker
    PROVE  /\ Older(tr.age) \in [Device -> 0..Cooldown]
           /\ [tr EXCEPT !.age = Older(@)] \in Tracker
           /\ [tr EXCEPT !.age = Older(@)].order = tr.order
           /\ [tr EXCEPT !.age = Older(@)].age = Older(tr.age)
<1>1. tr.age \in [Device -> 0..Cooldown] /\ tr = [order |-> tr.order, age |-> tr.age]
      /\ tr.order \in Seq(Device)
  BY DEF Tracker
<1>2. Older(tr.age) \in [Device -> 0..Cooldown]
  BY <1>1, AdmissionAssumption DEF Older
<1>3. [tr EXCEPT !.age = Older(@)] = [order |-> tr.order, age |-> Older(tr.age)]
  BY <1>1
<1> QED
  BY <1>1, <1>2, <1>3 DEF Tracker

----------------------------------------------------------------------------
(* The invariant *)

LEMMA InitHolds == Init => IInv
<1> SUFFICES ASSUME Init PROVE IInv
  OBVIOUS
<1> USE AdmissionAssumption DEF Init
<1>1. PoolOK
  <2>1. Cardinality({}) = 0
    BY FS_EmptySet
  <2> QED
    BY <2>1 DEF PoolOK, PermitsAreSessions, Stage, Pool!Init
<1>2. RowsOK
  <2>1. Cardinality({}) = 0 /\ Shown = {}
    BY FS_EmptySet DEF Shown
  <2> QED
    BY <2>1 DEF RowsOK, RowsAreSessions, ActiveIsRows, Active, Stage
<1>3. GatesOK
  <2>1. NoHits \in Tracker /\ Len(NoHits.order) = 0
    BY DEF NoHits, Tracker
  <2> QED
    BY <2>1 DEF GatesOK, NoHits, Nobody, Verdict
<1>4. TokensOK
  BY DeviceTokensAssumption DEF TokensInit, TokensOK, Age, Expired, NoToken
<1> QED
  BY <1>1, <1>2, <1>3, <1>4 DEF IInv

\* The gates: only Tick, OtaCheck and the verdicts touch them.
LEMMA GatesStep == GatesOK /\ [Next]_vars => GatesOK'
<1> SUFFICES ASSUME GatesOK, [Next]_vars PROVE GatesOK'
  OBVIOUS
<1>0. /\ ws \in Tracker /\ Len(ws.order) <= MaxTracked
      /\ ota \in Tracker /\ Len(ota.order) <= MaxTracked
      /\ since \in [Device -> 0..Cooldown] /\ ws.age = since
      /\ verdict \in [dev : Device \cup {NoId}, said : Verdict]
  BY DEF GatesOK
<1>1. ASSUME UNCHANGED <<ws, ota, since, verdict>> PROVE GatesOK'
  BY <1>1 DEF GatesOK
<1>2. CASE Tick
  BY <1>0, <1>2, OlderFacts DEF Tick, GatesOK, Nobody, Verdict
<1>3. ASSUME NEW d \in Device \cup {NoId}, OtaCheck(d) PROVE GatesOK'
  <2>1. (ota' = ota \/ ota' = Hit(ota, d)) /\ UNCHANGED <<ws, since, verdict>>
    BY <1>3 DEF OtaCheck
  <2>2. ota' \in Tracker /\ Len(ota'.order) <= MaxTracked
    <3>1. Hit(ota, d) \in Tracker /\ Len(Hit(ota, d).order) <= MaxTracked
      BY <1>0, HitFacts
    <3> QED
      BY <1>0, <2>1, <3>1
  <2> QED
    BY <1>0, <2>1, <2>2 DEF GatesOK
<1>4. ASSUME NEW d \in Device \cup {NoId}, Bounced(d) \/ TokenRefused(d) PROVE GatesOK'
  BY <1>0, <1>4 DEF Bounced, TokenRefused, GatesOK, Verdict
<1>5. ASSUME NEW d \in Device \cup {NoId}, NEW c \in Conn, Connect(c, d) PROVE GatesOK'
  <2>1. /\ ws' = Hit(ws, d) /\ UNCHANGED ota /\ verdict' = [dev |-> d, said |-> "passed"]
        /\ since' = [x \in Device |-> IF x = d THEN 0 ELSE since[x]]
    BY <1>5 DEF Connect
  <2>2. /\ ws' \in Tracker /\ Len(ws'.order) <= MaxTracked
        /\ ws'.age = IF d = NoId \/ Cooldown = 0 THEN since ELSE [since EXCEPT ![d] = 0]
    BY <1>0, <2>1, HitFacts
  <2>3. since' \in [Device -> 0..Cooldown]
    BY <1>0, <2>1, AdmissionAssumption
  <2>4. ws'.age = since'
    <3>1. CASE d = NoId
      BY <1>0, <2>1, <2>2, <3>1, DeviceTokensAssumption
    <3>2. CASE Cooldown = 0
      <4>1. \A x \in Device : since[x] = 0
        BY <1>0, <3>2
      <4> QED
        BY <1>0, <2>1, <2>2, <3>2, <4>1
    <3>3. CASE d # NoId /\ Cooldown # 0
      BY <1>0, <2>1, <2>2, <3>3
    <3> QED
      BY <3>1, <3>2, <3>3
  <2> QED
    BY <1>0, <2>1, <2>2, <2>3, <2>4 DEF GatesOK, Verdict
<1>6. ASSUME NEW c \in Conn, ConnStep(c) PROVE UNCHANGED gates
  BY <1>6 DEF ConnStep, Granted, CapReached, Rejected, AcceptFails, Registered, HandshakeOk,
       HandshakeFails, LoopEnds, SessionClosed
<1>7. CASE ClockChanges \/ UNCHANGED vars
  BY <1>1, <1>7 DEF ClockChanges, vars, gates
<1> QED
  BY <1>1, <1>2, <1>3, <1>4, <1>5, <1>6, <1>7 DEF Next, gates

\* The tokens: only the clocks and OtaCheck touch them.
LEMMA TokensStep == TokensOK /\ [Next]_vars => TokensOK'
<1> SUFFICES ASSUME TokensOK, [Next]_vars PROVE TokensOK'
  OBVIOUS
<1> USE DeviceTokensAssumption
<1>1. ASSUME UNCHANGED tokenVars PROVE TokensOK'
  BY <1>1 DEF tokenVars, TokensOK
<1>2. CASE Tick
  <2>1. PICK due \in SUBSET {d \in Device : token[d] = -1} :
          token' = [d \in Device |-> IF token[d] \in 0..Ttl \/ d \in due THEN token[d] + 1
                                     ELSE token[d]]
    BY <1>2 DEF Tick, TokensAge
  <2>2. /\ handed' = [d \in Device |-> IF handed[d] < Expired THEN handed[d] + 1 ELSE Expired]
        /\ UNCHANGED <<secured, clockSet>>
    BY <1>2 DEF Tick, TokensAge
  <2>3. token' \in [Device -> Age]
    BY <2>1 DEF TokensOK, Age, NoToken
  <2>4. handed' \in [Device -> 0..Expired]
    BY <2>2 DEF TokensOK, Expired
  <2>5. ASSUME NEW d \in Device \ clockSet
        PROVE  token'[d] = handed'[d] \/ (token'[d] = NoToken /\ handed'[d] = Expired)
    BY <2>1, <2>2, <2>5 DEF TokensOK, Age, NoToken, Expired
  <2> QED
    BY <2>2, <2>3, <2>4, <2>5 DEF TokensOK
<1>3. CASE ClockChanges
  <2> DEFINE held == {d \in Device : token[d] # NoToken}
  <2>1. PICK age \in [held -> -1..Expired] :
          token' = [d \in Device |-> IF d \in held THEN age[d] ELSE NoToken]
    BY <1>3 DEF ClockChanges, SetClock
  <2>2. clockSet' = clockSet \cup held /\ UNCHANGED <<secured, handed>>
    BY <1>3 DEF ClockChanges, SetClock
  <2>3. token' \in [Device -> Age]
    BY <2>1 DEF Age, NoToken, Expired
  <2>4. ASSUME NEW d \in Device \ clockSet'
        PROVE  token'[d] = NoToken /\ handed'[d] = Expired
    BY <2>1, <2>2, <2>4 DEF TokensOK, NoToken, Expired
  <2> QED
    BY <2>2, <2>3, <2>4 DEF TokensOK
<1>4. ASSUME NEW d \in Device \cup {NoId}, OtaCheck(d) PROVE TokensOK'
  <2>1. CASE UNCHANGED tokenVars
    BY <1>1, <2>1
  <2>2. CASE d \in Device /\ token' = [token EXCEPT ![d] = 0] /\ handed' = [handed EXCEPT ![d] = 0]
             /\ clockSet' = clockSet \ {d} /\ UNCHANGED secured
    BY <2>2 DEF TokensOK, Age, NoToken, Expired
  <2> QED
    BY <1>4, <2>1, <2>2 DEF OtaCheck, Mint, tokenVars
<1>5. ASSUME NEW d \in Device \cup {NoId},
             TokenRefused(d) \/ Bounced(d) \/ \E c \in Conn : Connect(c, d)
      PROVE  UNCHANGED tokenVars
  BY <1>5 DEF TokenRefused, Bounced, Connect, tokenVars
<1>6. ASSUME NEW c \in Conn, ConnStep(c) PROVE UNCHANGED tokenVars
  BY <1>6 DEF ConnStep, Granted, CapReached, Rejected, AcceptFails, Registered, HandshakeOk,
       HandshakeFails, LoopEnds, SessionClosed, gates
<1>7. CASE UNCHANGED vars
  BY <1>1, <1>7 DEF vars, gates
<1> QED
  BY <1>1, <1>2, <1>3, <1>4, <1>5, <1>6, <1>7 DEF Next

\* Full speaks of cardinality as this module does.
LEMMA FullMeans == Pool!Full <=> Cardinality(running) >= MaxSessions
<1>1. Pool!Cardinality(running) = Cardinality(running)
  BY Zenon DEF Pool!Cardinality, Cardinality
<1> QED
  BY <1>1 DEF Pool!Full

\* A connection gets past the gate only while a permit is free.
LEMMA RunFacts ==
    ASSUME PoolOK, NEW c \in Conn, Pool!Run(c), stage' = [stage EXCEPT ![c] = "accept"]
    PROVE  PoolOK'
<1>1. /\ c \notin running /\ c \notin refused /\ ~(Cardinality(running) >= MaxSessions)
      /\ running' = running \cup {c} /\ queued' = queued \ {c} /\ refused' = refused
  BY FullMeans DEF Pool!Run
<1>2. IsFiniteSet(running)
  BY AdmissionAssumption, FS_Subset DEF PoolOK
<1>3. Cardinality(running') = Cardinality(running) + 1 /\ Cardinality(running) \in Nat
  BY <1>1, <1>2, FS_AddElement, FS_CardinalityType
<1>4. Cardinality(running') <= MaxSessions
  BY <1>1, <1>3, AdmissionAssumption
<1>5. \A x \in Conn : x \in running' <=> stage'[x] # "none"
  BY <1>1 DEF PoolOK, PermitsAreSessions
<1> QED
  BY <1>1, <1>4, <1>5 DEF PoolOK, PermitsAreSessions, Stage

\* Every way out gives the permit back.
LEMMA ReleaseFacts ==
    ASSUME PoolOK, NEW c \in Conn, ReleasePermit(c)
    PROVE  PoolOK'
<1>1. /\ running' = running \ {c} /\ queued' = queued \ {c} /\ refused' = refused \ {c}
      /\ stage' = [stage EXCEPT ![c] = "none"]
  BY DEF ReleasePermit, Goto, Pool!Leave
<1>2. IsFiniteSet(running)
  BY AdmissionAssumption, FS_Subset DEF PoolOK
<1>3. Cardinality(running') <= Cardinality(running)
  BY <1>1, <1>2, FS_Subset
<1>4. Cardinality(running') <= MaxSessions
  <2>1. Cardinality(running) \in Nat /\ Cardinality(running') \in Nat
    BY <1>1, <1>2, FS_Subset, FS_CardinalityType
  <2> QED
    BY <1>3, <2>1, AdmissionAssumption DEF PoolOK, PermitsAreSessions
<1>5. \A x \in Conn : x \in running' <=> stage'[x] # "none"
  BY <1>1 DEF PoolOK, PermitsAreSessions
<1> QED
  BY <1>1, <1>4, <1>5 DEF PoolOK, PermitsAreSessions, Stage

LEMMA PoolStep == PoolOK /\ [Next]_vars => PoolOK'
<1> SUFFICES ASSUME PoolOK, [Next]_vars PROVE PoolOK'
  OBVIOUS
<1>1. ASSUME UNCHANGED pool, UNCHANGED stage PROVE PoolOK'
  BY <1>1 DEF pool, PoolOK, PermitsAreSessions
<1>2. ASSUME NEW c \in Conn, UNCHANGED pool, stage[c] # "none",
             \E s \in Stage \ {"none"} : stage' = [stage EXCEPT ![c] = s]
      PROVE  PoolOK'
  BY <1>2 DEF pool, PoolOK, PermitsAreSessions, Stage
<1>3. CASE \/ Tick \/ ClockChanges \/ UNCHANGED vars
           \/ \E d \in Device \cup {NoId} : OtaCheck(d) \/ TokenRefused(d) \/ Bounced(d)
  BY <1>1, <1>3 DEF Tick, ClockChanges, OtaCheck, TokenRefused, Bounced, vars, sessions
<1>4. ASSUME NEW d \in Device \cup {NoId}, NEW c \in Conn, Connect(c, d) PROVE PoolOK'
  <2>1. CASE Pool!Run(c) /\ Goto(c, "accept")
    BY <2>1, RunFacts DEF Goto
  <2>2. CASE Pool!Queue(c) /\ UNCHANGED stage
    BY <2>2 DEF Pool!Queue, Pool!Outside, PoolOK, PermitsAreSessions
  <2> QED
    BY <1>4, <2>1, <2>2 DEF Connect
<1>5. ASSUME NEW c \in Conn, Granted(c) PROVE PoolOK'
  BY <1>5, RunFacts DEF Granted, Goto
<1>6. ASSUME NEW c \in Conn, CapReached(c) PROVE PoolOK'
  BY <1>6 DEF CapReached, Pool!Refuse, sessions, PoolOK, PermitsAreSessions
<1>7. ASSUME NEW c \in Conn, Rejected(c) PROVE PoolOK'
  <2>1. running' = running /\ queued' = queued /\ refused' = refused \ {c} /\ stage' = stage
    BY <1>7 DEF Rejected, Pool!Leave, sessions, PoolOK
  <2> QED
    BY <2>1 DEF PoolOK, PermitsAreSessions
<1>8. ASSUME NEW c \in Conn, AcceptFails(c) \/ HandshakeFails(c) \/ SessionClosed(c)
      PROVE  PoolOK'
  BY <1>8, ReleaseFacts DEF AcceptFails, HandshakeFails, SessionClosed
<1>9. ASSUME NEW c \in Conn, Registered(c) \/ HandshakeOk(c) \/ LoopEnds(c) PROVE PoolOK'
  BY <1>2, <1>9 DEF Registered, HandshakeOk, LoopEnds, Goto, Stage
<1> QED
  BY <1>3, <1>4, <1>5, <1>6, <1>7, <1>8, <1>9 DEF Next, ConnStep

LEMMA RowsStep == PoolOK /\ RowsOK /\ [Next]_vars => RowsOK'
<1> SUFFICES ASSUME PoolOK, RowsOK, [Next]_vars PROVE RowsOK'
  OBVIOUS
<1> USE AdmissionAssumption
<1>0. /\ stage \in [Conn -> Stage] /\ sid \in [Conn -> 0..MaxOpened]
      /\ opened \in 0..MaxOpened /\ closed \in Nat
      /\ rows \subseteq 1..opened /\ lost \subseteq 1..opened
      /\ \A c \in Shown : sid[c] \notin lost
      /\ rows = {sid[c] : c \in Shown} \cup lost
      /\ \A c, e \in Shown : sid[c] = sid[e] => c = e
      /\ opened = closed + Cardinality(rows)
  BY DEF RowsOK, RowsAreSessions, ActiveIsRows, Active
<1>f. IsFiniteSet(rows) /\ Cardinality(rows) \in Nat
  <2>1. 1 \in Int /\ opened \in Int
    BY <1>0
  <2>2. IsFiniteSet(1..opened)
    BY <2>1, FS_Interval
  <2> QED
    BY <1>0, <2>2, FS_Subset, FS_CardinalityType
\* The registry does not see the step.
<1>1. ASSUME UNCHANGED <<sid, rows, opened, closed, lost>>, stage' \in [Conn -> Stage],
             Shown' = Shown
      PROVE  RowsOK'
  BY <1>0, <1>1 DEF RowsOK, RowsAreSessions, ActiveIsRows, Active
<1>2. CASE \/ Tick \/ ClockChanges \/ UNCHANGED vars
           \/ \E d \in Device \cup {NoId} : OtaCheck(d) \/ TokenRefused(d) \/ Bounced(d)
  <2>1. UNCHANGED sessions
    BY <1>2 DEF Tick, ClockChanges, OtaCheck, TokenRefused, Bounced, vars
  <2> QED
    BY <1>0, <1>1, <2>1 DEF sessions, Shown
<1>3. ASSUME NEW d \in Device \cup {NoId}, NEW c \in Conn, Connect(c, d) PROVE RowsOK'
  <2>1. UNCHANGED <<sid, rows, opened, closed, lost>>
    BY <1>3 DEF Connect
  <2>2. stage[c] = "none"
    BY <1>3 DEF Connect, Pool!Outside, PoolOK, PermitsAreSessions
  <2>3. stage' = stage \/ stage' = [stage EXCEPT ![c] = "accept"]
    BY <1>3 DEF Connect, Goto
  <2>4. stage' \in [Conn -> Stage] /\ Shown' = Shown
    BY <1>0, <2>2, <2>3 DEF Shown, Stage
  <2> QED
    BY <1>1, <2>1, <2>4
<1>4. ASSUME NEW c \in Conn, Granted(c) PROVE RowsOK'
  <2>1. UNCHANGED <<sid, rows, opened, closed, lost>> /\ stage' = [stage EXCEPT ![c] = "accept"]
    BY <1>4 DEF Granted, Goto
  <2>2. stage[c] = "none"
    BY <1>4 DEF Granted, Pool!Run, PoolOK, PermitsAreSessions
  <2>3. stage' \in [Conn -> Stage] /\ Shown' = Shown
    BY <1>0, <2>1, <2>2 DEF Shown, Stage
  <2> QED
    BY <1>1, <2>1, <2>3
<1>5. ASSUME NEW c \in Conn, CapReached(c) \/ Rejected(c) PROVE RowsOK'
  <2>1. UNCHANGED sessions
    BY <1>5 DEF CapReached, Rejected
  <2> QED
    BY <1>0, <1>1, <2>1 DEF sessions, Shown
<1>6. ASSUME NEW c \in Conn, AcceptFails(c) PROVE RowsOK'
  <2>1. /\ stage[c] = "accept" /\ stage' = [stage EXCEPT ![c] = "none"]
        /\ sid' = [sid EXCEPT ![c] = 0] /\ UNCHANGED <<rows, opened, closed, lost>>
    BY <1>6 DEF AcceptFails, ReleasePermit, Goto
  <2>2. stage' \in [Conn -> Stage] /\ sid' \in [Conn -> 0..MaxOpened] /\ Shown' = Shown
    BY <1>0, <2>1 DEF Shown, Stage
  <2>3. \A e \in Shown : e # c /\ e \in Conn /\ sid'[e] = sid[e]
    BY <1>0, <2>1 DEF Shown
  <2>4. {sid'[e] : e \in Shown'} = {sid[e] : e \in Shown}
    BY <2>2, <2>3
  <2> QED
    BY <1>0, <2>1, <2>2, <2>3, <2>4 DEF RowsOK, RowsAreSessions, ActiveIsRows, Active
<1>7. ASSUME NEW c \in Conn, Registered(c) PROVE RowsOK'
  <2>1. /\ stage[c] = "accept" /\ stage' = [stage EXCEPT ![c] = "handshake"]
        /\ opened < MaxOpened /\ opened' = opened + 1
        /\ sid' = [sid EXCEPT ![c] = opened + 1] /\ rows' = rows \cup {opened + 1}
        /\ UNCHANGED <<closed, lost>>
    BY <1>7 DEF Registered, AddRow, Goto
  <2>2. /\ stage' \in [Conn -> Stage] /\ opened' \in 0..MaxOpened
        /\ sid' \in [Conn -> 0..MaxOpened]
        /\ rows' \subseteq 1..opened' /\ lost' \subseteq 1..opened'
    <3>1. stage' \in [Conn -> Stage] /\ opened' \in 0..MaxOpened
      BY <1>0, <2>1 DEF Stage
    <3>2. sid' \in [Conn -> 0..MaxOpened]
      BY <1>0, <2>1
    <3>0. opened \in Nat /\ opened' = opened + 1
      BY <1>0, <2>1
    <3>3. 1..opened \subseteq 1..opened' /\ opened + 1 \in 1..opened'
      BY <3>0
    <3> QED
      BY <1>0, <2>1, <3>1, <3>2, <3>3
  <2>3. Shown' = Shown \cup {c} /\ c \notin Shown
    BY <1>0, <2>1 DEF Shown
  <2>4. opened + 1 \notin rows /\ opened + 1 \notin lost
    BY <1>0
  <2>5. sid'[c] = opened + 1 /\ \A e \in Shown : e \in Conn /\ sid'[e] = sid[e] /\ sid[e] \in rows
    BY <1>0, <2>1, <2>3 DEF Shown
  <2>6. rows' = {sid'[e] : e \in Shown'} \cup lost'
    BY <1>0, <2>1, <2>3, <2>5
  <2>7. ASSUME NEW e \in Shown', NEW g \in Shown', sid'[e] = sid'[g] PROVE e = g
    <3>1. CASE e \in Shown /\ g \in Shown
      BY <1>0, <2>5, <2>7, <3>1
    <3>2. CASE e = c \/ g = c
      BY <2>3, <2>4, <2>5, <2>7, <3>2
    <3> QED
      BY <2>3, <3>1, <3>2
  <2>8. \A e \in Shown' : sid'[e] \notin lost'
    BY <1>0, <2>1, <2>3, <2>4, <2>5
  <2>9. Cardinality(rows') = Cardinality(rows) + 1 /\ Cardinality(rows') \in Nat
    <3>1. Cardinality(rows') = Cardinality(rows) + 1
      BY <1>f, <2>1, <2>4, FS_AddElement
    <3> QED
      BY <1>f, <3>1
  <2>10. closed' \in Nat /\ opened' = closed' + Cardinality(rows')
    BY <1>0, <1>f, <2>1, <2>9
  <2>11. RowsAreSessions'
    BY <2>6, <2>7 DEF RowsAreSessions
  <2>12. ActiveIsRows'
    BY <2>2, <2>9, <2>10 DEF ActiveIsRows, Active
  <2> QED
    BY <2>2, <2>8, <2>10, <2>11, <2>12 DEF RowsOK
<1>8. ASSUME NEW c \in Conn, HandshakeOk(c) \/ LoopEnds(c) PROVE RowsOK'
  <2>1. UNCHANGED <<sid, rows, opened, closed, lost>>
    BY <1>8 DEF HandshakeOk, LoopEnds
  <2>2. stage' \in [Conn -> Stage] /\ Shown' = Shown
    BY <1>0, <1>8 DEF HandshakeOk, LoopEnds, Goto, Shown, Stage
  <2> QED
    BY <1>1, <2>1, <2>2
\* A session leaves: its number is nobody else's.
<1>9. ASSUME NEW c \in Shown, ReleasePermit(c)
      PROVE  /\ stage' \in [Conn -> Stage] /\ sid' \in [Conn -> 0..MaxOpened]
             /\ c \in Conn /\ sid[c] \in rows
             /\ Shown' = Shown \ {c}
             /\ \A e \in Shown' : sid'[e] = sid[e] /\ sid[e] # sid[c]
             /\ {sid'[e] : e \in Shown'} = {sid[e] : e \in Shown} \ {sid[c]}
  <2>1. /\ stage' = [stage EXCEPT ![c] = "none"] /\ sid' = [sid EXCEPT ![c] = 0]
        /\ c \in Conn
    BY <1>9 DEF ReleasePermit, Goto, Shown
  <2>2. stage' \in [Conn -> Stage] /\ sid' \in [Conn -> 0..MaxOpened]
    BY <1>0, <2>1 DEF Stage
  <2>3. Shown' = Shown \ {c}
    BY <1>0, <2>1 DEF Shown
  <2>4. \A e \in Shown' : sid'[e] = sid[e] /\ sid[e] # sid[c]
    BY <1>0, <2>1, <2>3 DEF Shown
  <2>5. {sid'[e] : e \in Shown'} = {sid[e] : e \in Shown} \ {sid[c]}
    BY <2>3, <2>4
  <2> QED
    BY <1>0, <2>1, <2>2, <2>3, <2>4, <2>5
<1>10. ASSUME NEW c \in Conn, HandshakeFails(c) PROVE RowsOK'
  <2>1. c \in Shown /\ ReleasePermit(c) /\ lost' = lost \cup {sid[c]}
        /\ UNCHANGED <<rows, opened, closed>>
    BY <1>10 DEF HandshakeFails, Shown
  <2>2. rows' = {sid'[e] : e \in Shown'} \cup lost'
    BY <1>0, <1>9, <2>1
  <2>3. \A e \in Shown' : e \in Shown /\ sid'[e] \notin lost'
    BY <1>0, <1>9, <2>1
  <2>4. \A e, g \in Shown' : sid'[e] = sid'[g] => e = g
    BY <1>0, <1>9, <2>1, <2>3
  <2>5. lost' \subseteq 1..opened'
    BY <1>0, <1>9, <2>1
  <2>6. stage' \in [Conn -> Stage] /\ sid' \in [Conn -> 0..MaxOpened]
    BY <1>9, <2>1
  <2> QED
    BY <1>0, <2>1, <2>2, <2>3, <2>4, <2>5, <2>6 DEF RowsOK, RowsAreSessions, ActiveIsRows, Active
<1>11. ASSUME NEW c \in Conn, SessionClosed(c) PROVE RowsOK'
  <2>1. c \in Shown /\ ReleasePermit(c) /\ closed' = closed + 1 /\ rows' = rows \ {sid[c]}
        /\ UNCHANGED <<opened, lost>>
    BY <1>11 DEF SessionClosed, RemoveRow, Shown
  <2>2. rows' = {sid'[e] : e \in Shown'} \cup lost'
    BY <1>0, <1>9, <2>1
  <2>3. opened' = closed' + Cardinality(rows') /\ Cardinality(rows') \in Int
    <3>1. sid[c] \in rows
      BY <1>9, <2>1
    <3>2. Cardinality(rows') = Cardinality(rows) - 1
      BY <1>f, <2>1, <3>1, FS_RemoveElement
    <3> QED
      BY <1>0, <1>f, <2>1, <3>2
  <2>4. \A e \in Shown' : e \in Shown /\ sid'[e] \notin lost'
    BY <1>0, <1>9, <2>1
  <2>5. \A e, g \in Shown' : sid'[e] = sid'[g] => e = g
    BY <1>0, <1>9, <2>1, <2>4
  <2>6. stage' \in [Conn -> Stage] /\ sid' \in [Conn -> 0..MaxOpened]
    BY <1>9, <2>1
  <2>7. /\ opened' \in 0..MaxOpened /\ closed' \in Nat
        /\ rows' \subseteq 1..opened' /\ lost' \subseteq 1..opened'
    <3>1. closed' = closed + 1 /\ opened' = opened /\ lost' = lost /\ rows' \subseteq rows
      BY <2>1
    <3>2. closed \in Nat /\ opened \in 0..MaxOpened /\ rows \subseteq 1..opened /\ lost \subseteq 1..opened
      BY <1>0
    <3> QED
      BY <3>1, <3>2
  <2>8. RowsAreSessions'
    BY <2>2, <2>5 DEF RowsAreSessions
  <2>9. ActiveIsRows'
    BY <2>3, <2>7 DEF ActiveIsRows, Active
  <2> QED
    BY <2>4, <2>6, <2>7, <2>8, <2>9 DEF RowsOK
<1> QED
  BY <1>2, <1>3, <1>4, <1>5, <1>6, <1>7, <1>8, <1>10, <1>11 DEF Next, ConnStep

LEMMA IInvGoals == IInv => TypeOK /\ PermitsAreSessions /\ RowsAreSessions /\ ActiveIsRows
BY AdmissionAssumption DEF IInv, PoolOK, RowsOK, GatesOK, TokensOK, TypeOK

----------------------------------------------------------------------------
(* Theorems *)

\* The inductive invariant of xiaozhi_v1, run() and check_and_mark.
THEOREM AdmissionInvariant == Spec => []IInv
<1>1. IInv /\ [Next]_vars => IInv'
  BY PoolStep, RowsStep, GatesStep, TokensStep DEF IInv
<1> QED
  BY InitHolds, <1>1, PTL DEF Spec

\* Type correctness: the trackers never hold more than _MAX_TRACKED devices.
THEOREM AdmissionTypeOK == Spec => []TypeOK
BY AdmissionInvariant, IInvGoals, PTL

\* The cap on sessions holds and no permit is lost, for any number of connections (ws.py).
THEOREM PermitsMatchSessions == Spec => []PermitsAreSessions
BY AdmissionInvariant, IInvGoals, PTL

\* The registry shows the sessions there are, and those a failed handshake left behind.
THEOREM RowsMatchSessions == Spec => []RowsAreSessions
BY AdmissionInvariant, IInvGoals, PTL

\* The counters of /metrics agree with the rows of /sessions/live.
THEOREM ActiveMatchesRows == Spec => []ActiveIsRows
BY AdmissionInvariant, IInvGoals, PTL

\* The endpoint turns away exactly the devices whose token has run out and those that come
\* back within the cooldown (auth.py, cooldown.py).
THEOREM GatesExact == Spec => GatesAreExact
<1> DEFINE Exact == \A d \in Device :
              verdict' # verdict /\ verdict'.dev = d => CooldownGate(d) /\ TokenGate(d)
<1>1. IInv /\ [Next]_vars => [Exact]_vars
  <2> SUFFICES ASSUME IInv, Next, NEW d \in Device, verdict' # verdict, verdict'.dev = d
               PROVE  CooldownGate(d) /\ TokenGate(d)
    OBVIOUS
  <2> USE AdmissionAssumption, DeviceTokensAssumption
  <2>1. ws.age = since /\ since \in [Device -> 0..Cooldown] /\ d # NoId
    BY DEF IInv, GatesOK
  <2>2. secured /\ d \notin Allowed /\ d \notin clockSet => (Verified(d) <=> handed[d] <= Ttl)
    BY DEF IInv, TokensOK, Verified, Age, NoToken, Expired
  <2>3. handed[d] \in 0..Expired /\ secured \in BOOLEAN
    BY DEF IInv, TokensOK
  <2>4. CASE Tick
    BY <2>1, <2>4 DEF Tick, Nobody
  <2>5. CASE ClockChanges
    BY <2>5 DEF ClockChanges
  <2>6. ASSUME NEW x \in Device \cup {NoId}, OtaCheck(x) PROVE FALSE
    BY <2>6 DEF OtaCheck
  <2>7. ASSUME NEW x \in Device \cup {NoId}, TokenRefused(x)
        PROVE  CooldownGate(d) /\ TokenGate(d)
    <3>1. verdict'.said = "token" /\ x = d /\ ~Verified(d)
      BY <2>7 DEF TokenRefused
    <3>2. secured /\ d \notin Allowed
      BY <2>3, <3>1 DEF Verified
    <3> QED
      BY <2>2, <2>3, <3>1, <3>2 DEF CooldownGate, TokenGate, Expired
  <2>8. ASSUME NEW x \in Device \cup {NoId}, Bounced(x)
        PROVE  CooldownGate(d) /\ TokenGate(d)
    <3>1. verdict'.said = "cooldown" /\ x = d /\ Verified(d) /\ InCooldown(ws, d)
      BY <2>8 DEF Bounced
    <3>2. CooldownGate(d)
      BY <2>1, <3>1 DEF CooldownGate, InCooldown
    <3>3. TokenGate(d)
      BY <2>2, <2>3, <3>1 DEF TokenGate, Expired
    <3> QED
      BY <3>2, <3>3
  <2>9. ASSUME NEW x \in Device \cup {NoId}, NEW c \in Conn, Connect(c, x)
        PROVE  CooldownGate(d) /\ TokenGate(d)
    <3>1. verdict'.said = "passed" /\ x = d /\ Verified(d) /\ ~InCooldown(ws, d)
      BY <2>9 DEF Connect
    <3>2. CooldownGate(d)
      BY <2>1, <3>1 DEF CooldownGate, InCooldown
    <3>3. TokenGate(d)
      BY <2>2, <2>3, <3>1 DEF TokenGate, Expired
    <3> QED
      BY <3>2, <3>3
  <2>10. ASSUME NEW c \in Conn, ConnStep(c) PROVE FALSE
    BY <2>10 DEF ConnStep, Granted, CapReached, Rejected, AcceptFails, Registered, HandshakeOk,
         HandshakeFails, LoopEnds, SessionClosed, gates
  <2> QED
    BY <2>4, <2>5, <2>6, <2>7, <2>8, <2>9, <2>10 DEF Next
<1> QED
  BY <1>1, AdmissionInvariant, PTL DEF Spec, GatesAreExact

============================================================================
