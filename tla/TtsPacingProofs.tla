-------------------------- MODULE TtsPacingProofs --------------------------
(* The pacing schedule for every frame length, lead, queue size and synthesis. *)
EXTENDS TtsPacing, TLAPS

\* Frames are played, queued or dropped; the device has been playing or quiet since tts_t0.
Accounting ==
    /\ sent = played + queue + dropped
    /\ now = played * FrameTicks + phase + quiet

IInv == TypeOK /\ AheadOfSchedule /\ Accounting

----------------------------------------------------------------------------
(* Arithmetic the solver wants to see in terms of one product at a time *)

LEMMA TimesPlusOne ==
    ASSUME NEW n \in Int, NEW k \in Int
    PROVE  (n + 1) * k = n * k + k
BY SMT

LEMMA TimesMinusOne ==
    ASSUME NEW n \in Int, NEW k \in Int
    PROVE  (n - 1) * k = n * k - k
BY SMT

LEMMA TimesSum ==
    ASSUME NEW a \in Int, NEW b \in Int, NEW c \in Int, NEW k \in Int
    PROVE  (a + b + c) * k = a * k + b * k + c * k
BY SMT

LEMMA TimesNat ==
    ASSUME NEW n \in Nat, NEW k \in Nat
    PROVE  n * k \in Nat
BY SMT

----------------------------------------------------------------------------
(* The inductive invariant *)

LEMMA InitIInv == Init => IInv
<1>1. 0 * FrameTicks = 0
  BY PacingAssumption, SMT
<1> QED
  <2>1. Init => TypeOK
    <3>1. 0 \in 0..(FrameTicks - 1) /\ 0 \in 0..Units /\ 0 \in 0..QueueCap /\ 0 \in 0..MaxQuiet
      BY PacingAssumption, SMT
    <3>2. ASSUME Init PROVE 2 * sent <= Units + 1
      BY <3>2, PacingAssumption, SMT DEF Init
    <3>3. ASSUME Init PROVE now \in Nat /\ sent \in Nat /\ played \in Nat /\ dropped \in Nat
      BY <3>3, SMT DEF Init
    <3> QED
      BY <3>1, <3>2, <3>3, Zenon DEF Init, TypeOK
  <2>2. Init => AheadOfSchedule
    BY <1>1, PacingAssumption, SMT DEF Init, AheadOfSchedule
  <2>3. Init => Accounting
    BY <1>1, PacingAssumption, SMT DEF Init, Accounting
  <2> QED
    BY <2>1, <2>2, <2>3 DEF IInv

LEMMA NextIInv == IInv /\ [Next]_vars => IInv'
<1> SUFFICES ASSUME IInv, [Next]_vars PROVE IInv'
  OBVIOUS
<1> USE PacingAssumption DEF IInv, TypeOK, AheadOfSchedule, Accounting, serverVars, deviceVars
<1>1. ASSUME NEW n \in 1..Units, Chunk(n) PROVE IInv'
  BY <1>1, SMT DEF Chunk
<1>2. CASE SynthesisEnds
  BY <1>2, SMT DEF SynthesisEnds
<1>3. CASE Emit
  <2>1. sent' * FrameTicks = sent * FrameTicks + FrameTicks
    BY <1>3, TimesPlusOne DEF Emit
  <2>2. AheadOfSchedule'
    <3>1. sent * FrameTicks - LeadTicks <= now
      BY <1>3 DEF Emit, Due
    <3>2. sent * FrameTicks \in Int
      BY TimesNat
    <3>3. now' = now /\ now \in Int /\ LeadTicks \in Int /\ FrameTicks \in Int
      BY <1>3 DEF Emit
    <3> HIDE DEF IInv, Accounting, TypeOK
    <3> QED
      BY <2>1, <3>1, <3>2, <3>3, SMT DEF AheadOfSchedule
  <2>3. TypeOK' /\ Accounting'
    BY <1>3, SMT DEF Emit, FrameReady, PaddedRest
  <2> QED
    BY <2>2, <2>3
<1>4. CASE Tick
  <2>1. CASE queue = 0
    BY <1>4, <2>1, SMT DEF Tick
  <2>2. CASE queue # 0 /\ phase + 1 = FrameTicks
    <3>1. played' * FrameTicks = played * FrameTicks + FrameTicks
      BY <1>4, <2>2, TimesPlusOne DEF Tick
    <3> QED
      BY <1>4, <2>2, <3>1, SMT DEF Tick
  <2>3. CASE queue # 0 /\ phase + 1 # FrameTicks
    BY <1>4, <2>3, SMT DEF Tick
  <2> QED
    BY <2>1, <2>2, <2>3
<1>5. CASE UNCHANGED vars
  BY <1>5, SMT DEF vars
<1> QED
  BY <1>1, <1>2, <1>3, <1>4, <1>5 DEF Next

\* The invariant holds throughout: see the theorems below for what follows from it.
THEOREM PacingInvariant == Spec => []IInv
BY InitIInv, NextIInv, PTL DEF Spec

----------------------------------------------------------------------------
(* What follows *)

\* Type correctness of the pacing model.
THEOREM PacingTypeOK == Spec => []TypeOK
<1>1. IInv => TypeOK
  BY DEF IInv
<1> QED
  BY <1>1, PacingInvariant, PTL

\* No frame is ever sent earlier than LeadTicks before its place in the reply.
THEOREM NeverAheadOfSchedule == Spec => []AheadOfSchedule
<1>1. IInv => AheadOfSchedule
  BY DEF IInv
<1> QED
  BY <1>1, PacingInvariant, PTL

LEMMA BacklogFollows == IInv => BacklogBounded
<1> SUFFICES ASSUME IInv PROVE BacklogBounded
  OBVIOUS
<1> USE PacingAssumption DEF IInv, TypeOK
<1>1. sent * FrameTicks = played * FrameTicks + queue * FrameTicks + dropped * FrameTicks
  BY TimesSum DEF Accounting
<1>2. dropped * FrameTicks \in Nat /\ played * FrameTicks \in Nat /\ queue * FrameTicks \in Nat
  BY TimesNat
<1> QED
  BY <1>1, <1>2, SMT DEF Accounting, AheadOfSchedule, BacklogBounded

\* The device's backlog exceeds the lead by at most the time it was kept waiting.
THEOREM BacklogIsBounded == Spec => []BacklogBounded
BY PacingInvariant, BacklogFollows, PTL

\* If lead, one frame and all stalls fit into the decode queue, no frame is ever dropped.
THEOREM NothingDropped == Spec => []NeverDropsWithHeadroom
<1>1. Init => NeverDropsWithHeadroom
  BY DEF Init, NeverDropsWithHeadroom, NeverDrops
<1>2. IInv /\ IInv' /\ NeverDropsWithHeadroom /\ [Next]_vars => NeverDropsWithHeadroom'
  <2> SUFFICES ASSUME IInv, IInv', NeverDropsWithHeadroom, [Next]_vars,
                      LeadTicks + FrameTicks + MaxQuiet <= QueueCap * FrameTicks
               PROVE  dropped' = 0
    BY DEF NeverDropsWithHeadroom, NeverDrops
  <2>0. dropped = 0
    BY DEF NeverDropsWithHeadroom, NeverDrops
  <2>1. CASE Emit
    <3>1. SUFFICES ASSUME queue >= QueueCap PROVE FALSE
      BY <2>0, <2>1, PacingAssumption, SMT DEF Emit, IInv, TypeOK
    <3>2. queue = QueueCap /\ queue' = QueueCap /\ phase' = phase
      BY <2>1, <3>1, PacingAssumption, SMT DEF Emit, IInv, TypeOK
    <3>3. sent = played + QueueCap + 0 /\ sent' = sent + 1
      BY <2>0, <2>1, <3>2 DEF Emit, IInv, Accounting
    <3>4. sent' * FrameTicks = played * FrameTicks + QueueCap * FrameTicks + FrameTicks
      <4>1. sent' * FrameTicks = sent * FrameTicks + FrameTicks
        BY <3>3, PacingAssumption, TimesPlusOne DEF IInv, TypeOK
      <4>2. sent * FrameTicks = played * FrameTicks + QueueCap * FrameTicks + 0 * FrameTicks
        BY <3>3, PacingAssumption, TimesSum DEF IInv, TypeOK
      <4>3. 0 * FrameTicks = 0 /\ played * FrameTicks \in Nat /\ QueueCap * FrameTicks \in Nat
        BY PacingAssumption, TimesNat, SMT DEF IInv, TypeOK
      <4> QED
        BY <4>1, <4>2, <4>3
    <3>5. now' = played * FrameTicks + phase + quiet /\ quiet <= MaxQuiet /\ phase < FrameTicks
      BY <2>1, PacingAssumption, SMT DEF Emit, IInv, TypeOK, Accounting
    <3>6. sent' * FrameTicks <= now' + LeadTicks + FrameTicks
      BY DEF IInv, AheadOfSchedule
    <3>7. played * FrameTicks \in Nat /\ QueueCap * FrameTicks \in Nat
      BY PacingAssumption, TimesNat DEF IInv, TypeOK
    <3>8. /\ LeadTicks \in Nat /\ FrameTicks \in Nat /\ MaxQuiet \in Nat
          /\ phase \in Int /\ quiet \in Int
      BY PacingAssumption DEF IInv, TypeOK
    <3> DEFINE p == played * FrameTicks
               c == QueueCap * FrameTicks
               s == sent' * FrameTicks
    <3>9. p \in Nat /\ c \in Nat /\ s = p + c + FrameTicks
      BY <3>4, <3>7
    <3>10. s <= p + phase + quiet + LeadTicks + FrameTicks /\ LeadTicks + FrameTicks + MaxQuiet <= c
      BY <3>5, <3>6
    <3>11. quiet <= MaxQuiet /\ phase < FrameTicks
      BY <3>5
    <3> HIDE DEF p, c, s
    <3> QED
      BY <3>8, <3>9, <3>10, <3>11, SMT
  <2>2. CASE ~Emit
    BY <2>0, <2>2 DEF Next, Chunk, SynthesisEnds, Tick, vars, deviceVars
  <2> QED
    BY <2>1, <2>2
<1> QED
  BY <1>1, <1>2, PacingInvariant, PTL DEF Spec

============================================================================
