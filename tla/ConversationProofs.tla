------------------------- MODULE ConversationProofs -------------------------
(***************************************************************************)
(* Proofs about Conversation: every request of a turn is paired, the       *)
(* history grows by whole turns, what is spoken is its newest text, and    *)
(* the mirror of the reminders is the device's list unless something it    *)
(* is not told of has happened.  The first three need nothing of           *)
(* Reminders; the last needs of the loop where its call is.                *)
(***************************************************************************)
EXTENDS Conversation, SequenceTheorems, FiniteSetTheorems, WellFoundedInduction, TLAPS

Msg == [role : {"user", "assistant", "results"}, calls : Nat, cut : BOOLEAN,
        answers : SUBSET Nat, text : BOOLEAN]

LoopRec == [pc : {"idle", "request", "tools", "call"}, msgs : Seq(Msg), at : Nat,
            next : Nat, round : Nat, base : Nat, said : Nat]

\* p is the provider: message i of h has its results, or may lack them.
OkAt(p, h, i) == Answered(h, i) \/ (p = "anthropic" /\ h[i].cut)
Sound(p, h) == \A i \in DOMAIN h : OkAt(p, h, i)

\* m begins with h and goes on with the user's message.
Grown(h, m) ==
    /\ Len(h) < Len(m)
    /\ \A i \in 1..Len(h) : m[i] = h[i]
    /\ m[Len(h) + 1] = User

\* In the middle of a reply's calls: those before the next one have their results at once
\* (openai), or none has one yet (anthropic).
Calling(p, m, at, next) ==
    /\ at \in 1..Len(m) /\ next \in 1..m[at].calls
    /\ \A i \in DOMAIN m : i # at => OkAt(p, m, i)
    /\ p = "openai" =>
          /\ Len(m) = at + next - 1
          /\ \A k \in 1..next - 1 : m[at + k].role = "results" /\ k \in m[at + k].answers
    /\ p = "anthropic" => Len(m) = at

Good(p, l, h) ==
    /\ l \in LoopRec /\ h \in Seq(Msg) /\ Sound(p, h)
    /\ l.pc # "idle" => Grown(h, l.msgs)
    /\ l.pc = "request" => Sound(p, l.msgs)
    /\ l.pc \in {"tools", "call"} => Calling(p, l.msgs, l.at, l.next)

IInv ==
    /\ provider \in {"anthropic", "openai"}
    /\ DOMAIN loop = Session /\ DOMAIN history = Session
    /\ loop = [s \in Session |-> loop[s]] /\ history = [s \in Session |-> history[s]]
    /\ \A s \in Session : Good(provider, loop[s], history[s])

\* What a step of session s does: its loop and history become l and h, and h is the history
\* it had, a whole turn longer, or a new one.
Grew(p, h, k) == k \in {h, <<>>} \/ (Grown(h, k) /\ Sound(p, k))

Moves(s, l, h) ==
    /\ provider' = provider
    /\ loop' = [loop EXCEPT ![s] = l] /\ history' = [history EXCEPT ![s] = h]
    /\ Good(provider, l, h) /\ Grew(provider, history[s], h)

----------------------------------------------------------------------------
(* Messages *)

LEMMA MessageTypes ==
    /\ User \in Msg /\ User.calls = 0
    /\ \A c \in Nat, x \in BOOLEAN, t \in BOOLEAN :
          Reply(c, x, t) \in Msg /\ Reply(c, x, t).calls = c /\ Reply(c, x, t).cut = x
    /\ \A A \in SUBSET Nat :
          /\ Results(A) \in Msg /\ Results(A).calls = 0
          /\ Results(A).role = "results" /\ Results(A).answers = A
BY DEF User, Reply, Results, Message, Msg

LEMMA NoCallsAnswered ==
    ASSUME NEW h, NEW i, h[i].calls = 0
    PROVE  Answered(h, i)
BY DEF Answered

\* What was answered stays answered when a message is appended.
LEMMA AppendKeeps ==
    ASSUME NEW p, NEW h \in Seq(Msg), NEW r \in Msg, NEW i \in DOMAIN h, OkAt(p, h, i)
    PROVE  OkAt(p, Append(h, r), i)
<1> DEFINE g == Append(h, r)
<1>1. g \in Seq(Msg) /\ Len(g) = Len(h) + 1 /\ \A j \in 1..Len(h) : g[j] = h[j]
  OBVIOUS
<1>2. i \in 1..Len(h) /\ g[i] = h[i]
  BY <1>1
<1>3. CASE Answered(h, i)
  <2>1. ASSUME NEW k \in 1..g[i].calls
        PROVE  \E j \in i + 1..Len(g) : k \in g[j].answers
                                        /\ \A m \in i + 1..j : g[m].role = "results"
    <3>1. PICK j \in i + 1..Len(h) : k \in h[j].answers
                                     /\ \A m \in i + 1..j : h[m].role = "results"
      BY <1>2, <1>3 DEF Answered
    <3>2. j \in i + 1..Len(g) /\ j \in 1..Len(h)
      BY <1>1, <1>2
    <3>3. \A m \in i + 1..j : m \in 1..Len(h)
      BY <1>2, <3>2
    <3> QED
      BY <1>1, <3>1, <3>2, <3>3
  <2> QED
    BY <2>1 DEF Answered, OkAt
<1>4. CASE p = "anthropic" /\ h[i].cut
  BY <1>2, <1>4 DEF OkAt
<1> QED
  BY <1>3, <1>4 DEF OkAt

LEMMA AppendSound ==
    ASSUME NEW p, NEW h \in Seq(Msg), NEW r \in Msg, Sound(p, h),
           r.calls = 0 \/ (p = "anthropic" /\ r.cut)
    PROVE  Sound(p, Append(h, r))
<1> DEFINE g == Append(h, r)
<1>1. g \in Seq(Msg) /\ Len(g) = Len(h) + 1 /\ g[Len(g)] = r
  OBVIOUS
<1>2. ASSUME NEW i \in DOMAIN g
      PROVE  OkAt(p, g, i)
  <2>1. CASE i \in DOMAIN h
    BY <2>1, AppendKeeps DEF Sound
  <2>2. CASE i = Len(g)
    BY <1>1, <2>2, NoCallsAnswered DEF OkAt
  <2> QED
    BY <1>1, <2>1, <2>2
<1> QED
  BY <1>2 DEF Sound

LEMMA AppendGrown ==
    ASSUME NEW h \in Seq(Msg), NEW m \in Seq(Msg), NEW r \in Msg, Grown(h, m)
    PROVE  Grown(h, Append(m, r))
<1>1. /\ Len(Append(m, r)) = Len(m) + 1
      /\ \A i \in 1..Len(m) : Append(m, r)[i] = m[i]
  OBVIOUS
<1>2. Len(h) \in Nat /\ Len(m) \in Nat
  OBVIOUS
<1> QED
  BY <1>1, <1>2 DEF Grown

LEMMA GrownIsPrefix ==
    ASSUME NEW h \in Seq(Msg), NEW m \in Seq(Msg), Grown(h, m)
    PROVE  IsStrictPrefix(h, m)
<1>1. Len(h) \in Nat /\ Len(m) \in Nat /\ Len(h) < Len(m)
  BY DEF Grown
<1>2. SubSeq(h, 1, Len(h)) = SubSeq(m, 1, Len(h))
  BY <1>1 DEF Grown
<1>3. h # m
  BY <1>1
<1> QED
  BY <1>1, <1>2, <1>3 DEF IsStrictPrefix, IsPrefix

----------------------------------------------------------------------------
(* The result of a call *)

LEMMA OpenaiResult ==
    ASSUME NEW l \in LoopRec, provider = "openai",
           Calling(provider, l.msgs, l.at, l.next)
    PROVE  /\ l.next < l.msgs[l.at].calls =>
                 Calling(provider, WithResult(l), l.at, l.next + 1)
           /\ l.next = l.msgs[l.at].calls => Sound(provider, WithResult(l))
<1> DEFINE m == l.msgs
           r == Results({l.next})
           g == Append(m, r)
<1>1. m \in Seq(Msg) /\ l.at \in Nat /\ l.next \in Nat
  BY DEF LoopRec
<1>2. r \in Msg /\ r.calls = 0 /\ r.role = "results" /\ r.answers = {l.next}
  BY <1>1, MessageTypes
<1>3. WithResult(l) = g
  BY DEF WithResult
<1>4. /\ g \in Seq(Msg) /\ Len(g) = Len(m) + 1 /\ g[Len(m) + 1] = r
      /\ \A i \in 1..Len(m) : g[i] = m[i]
  BY <1>1, <1>2
<1>5. /\ l.at \in 1..Len(m) /\ l.next \in 1..m[l.at].calls
      /\ \A i \in DOMAIN m : i # l.at => OkAt(provider, m, i)
      /\ Len(m) = l.at + l.next - 1
      /\ \A k \in 1..l.next - 1 : m[l.at + k].role = "results" /\ k \in m[l.at + k].answers
  BY DEF Calling
<1> HIDE DEF m, g, r
<1>6. g[l.at] = m[l.at] /\ l.at \in DOMAIN g
  BY <1>1, <1>4, <1>5
<1>7. ASSUME NEW i \in DOMAIN g, i # l.at
      PROVE  OkAt(provider, g, i)
  <2>1. CASE i \in DOMAIN m
    BY <1>1, <1>2, <1>5, <1>7, <2>1, AppendKeeps DEF g
  <2>2. CASE i = Len(m) + 1
    BY <1>2, <1>4, <2>2, NoCallsAnswered DEF OkAt
  <2>3. i \in 1..Len(g) /\ Len(m) \in Nat
    BY <1>1, <1>4
  <2>4. i \in DOMAIN m \/ i = Len(m) + 1
    BY <1>1, <1>4, <2>3
  <2> QED
    BY <2>1, <2>2, <2>4
<1>8. \A k \in 1..l.next : g[l.at + k].role = "results" /\ k \in g[l.at + k].answers
  <2>1. ASSUME NEW k \in 1..l.next
        PROVE  g[l.at + k].role = "results" /\ k \in g[l.at + k].answers
    <3>1. CASE k = l.next
      <4>1. l.at + k = Len(m) + 1
        BY <1>1, <1>5, <3>1
      <4> QED
        BY <1>2, <1>4, <3>1, <4>1
    <3>2. CASE k \in 1..l.next - 1
      <4>1. l.at + k \in 1..Len(m)
        BY <1>1, <1>5, <3>2
      <4>2. g[l.at + k] = m[l.at + k]
        BY <1>4, <4>1
      <4> QED
        BY <1>5, <3>2, <4>2
    <3>3. k = l.next \/ k \in 1..l.next - 1
      BY <1>1
    <3> QED
      BY <3>1, <3>2, <3>3
  <2> QED
    BY <2>1
<1>9. ASSUME l.next < m[l.at].calls
      PROVE  Calling(provider, g, l.at, l.next + 1)
  <2>1. m[l.at].calls \in Nat
    <3>1. m[l.at] \in Msg
      BY <1>1, <1>5
    <3> QED
      BY <3>1 DEF Msg
  <2>2. l.next + 1 \in 1..g[l.at].calls
    BY <1>1, <1>6, <1>9, <2>1
  <2>3. l.at \in 1..Len(g) /\ Len(g) = l.at + (l.next + 1) - 1
    BY <1>1, <1>4, <1>5
  <2>4. (l.next + 1) - 1 = l.next
    BY <1>1
  <2> QED
    BY <1>7, <1>8, <2>2, <2>3, <2>4 DEF Calling
<1>10. ASSUME l.next = m[l.at].calls
       PROVE  Sound(provider, g)
  <2>1. ASSUME NEW k \in 1..g[l.at].calls
        PROVE  \E j \in l.at + 1..Len(g) : k \in g[j].answers
                                           /\ \A n \in l.at + 1..j : g[n].role = "results"
    <3>1. k \in 1..l.next
      BY <1>6, <1>10, <2>1
    <3>2. l.at + k \in l.at + 1..Len(g)
      <4>1. Len(g) = l.at + l.next
        BY <1>1, <1>4, <1>5
      <4> QED
        BY <1>1, <3>1, <4>1
    <3>3. ASSUME NEW n \in l.at + 1..l.at + k
          PROVE  g[n].role = "results"
      <4>1. n - l.at \in 1..l.next /\ l.at + (n - l.at) = n
        BY <1>1, <3>1
      <4> QED
        BY <1>8, <4>1
    <3> QED
      BY <1>8, <3>1, <3>2, <3>3
  <2>2. OkAt(provider, g, l.at)
    BY <2>1 DEF OkAt, Answered
  <2> QED
    BY <1>7, <2>2 DEF Sound
<1> QED
  BY <1>3, <1>9, <1>10 DEF m

LEMMA AnthropicResult ==
    ASSUME NEW l \in LoopRec, provider = "anthropic",
           Calling(provider, l.msgs, l.at, l.next)
    PROVE  /\ l.next < l.msgs[l.at].calls =>
                 Calling(provider, WithResult(l), l.at, l.next + 1)
           /\ l.next = l.msgs[l.at].calls => Sound(provider, WithResult(l))
<1> DEFINE m == l.msgs
           r == Results(1..l.next)
           g == Append(m, r)
<1>1. m \in Seq(Msg) /\ l.at \in Nat /\ l.next \in Nat
  BY DEF LoopRec
<1>2. r \in Msg /\ r.calls = 0 /\ r.role = "results" /\ r.answers = 1..l.next
  BY <1>1, MessageTypes
<1>3. /\ l.at \in 1..Len(m) /\ l.next \in 1..m[l.at].calls /\ m[l.at].calls \in Nat
      /\ \A i \in DOMAIN m : i # l.at => OkAt(provider, m, i)
      /\ Len(m) = l.at
  <2>1. /\ l.at \in 1..Len(m) /\ l.next \in 1..m[l.at].calls /\ Len(m) = l.at
        /\ \A i \in DOMAIN m : i # l.at => OkAt(provider, m, i)
    BY DEF Calling
  <2>2. m[l.at] \in Msg
    BY <1>1, <2>1
  <2> QED
    BY <2>1, <2>2 DEF Msg
<1>4. CASE l.next < m[l.at].calls
  <2>1. WithResult(l) = m
    BY <1>1, <1>3, <1>4 DEF WithResult
  <2>2. l.next + 1 \in 1..m[l.at].calls
    BY <1>1, <1>3, <1>4
  <2> QED
    BY <1>3, <1>4, <2>1, <2>2 DEF Calling
<1>5. CASE l.next = m[l.at].calls
  <2>1. WithResult(l) = g
    BY <1>5 DEF WithResult
  <2>2. /\ g \in Seq(Msg) /\ Len(g) = l.at + 1 /\ g[l.at + 1] = r
        /\ \A i \in 1..Len(m) : g[i] = m[i]
    BY <1>1, <1>2, <1>3
  <2>3. g[l.at] = m[l.at] /\ l.at \in DOMAIN g
    BY <1>1, <1>3, <2>2
  <2>4. ASSUME NEW i \in DOMAIN g, i # l.at
        PROVE  OkAt(provider, g, i)
    <3>1. CASE i \in DOMAIN m
      BY <1>1, <1>2, <1>3, <2>4, <3>1, AppendKeeps
    <3>2. CASE i = l.at + 1
      BY <1>2, <2>2, <3>2, NoCallsAnswered DEF OkAt
    <3> QED
      BY <1>1, <1>3, <2>2, <3>1, <3>2
  <2>5. ASSUME NEW k \in 1..g[l.at].calls
        PROVE  \E j \in l.at + 1..Len(g) : k \in g[j].answers
                                           /\ \A n \in l.at + 1..j : g[n].role = "results"
    <3>1. l.at + 1 \in l.at + 1..Len(g)
      BY <1>1, <2>2
    <3>2. k \in g[l.at + 1].answers
      BY <1>2, <1>5, <2>2, <2>3, <2>5
    <3>3. \A n \in l.at + 1..l.at + 1 : g[n].role = "results"
      BY <1>1, <1>2, <2>2
    <3> QED
      BY <3>1, <3>2, <3>3
  <2>6. OkAt(provider, g, l.at)
    BY <2>5 DEF OkAt, Answered
  <2> QED
    BY <1>5, <2>1, <2>4, <2>6, <1>1, <1>3 DEF Sound
<1> QED
  BY <1>1, <1>3, <1>4, <1>5

LEMMA ResultGrown ==
    ASSUME NEW l \in LoopRec, NEW h \in Seq(Msg), Grown(h, l.msgs)
    PROVE  WithResult(l) \in Seq(Msg) /\ Grown(h, WithResult(l))
<1>1. l.msgs \in Seq(Msg) /\ l.next \in Nat
  BY DEF LoopRec
<1>2. Results({l.next}) \in Msg /\ Results(1..l.next) \in Msg
  BY <1>1, MessageTypes
<1>3. \A r \in Msg : Append(l.msgs, r) \in Seq(Msg) /\ Grown(h, Append(l.msgs, r))
  BY <1>1, AppendGrown
<1>4. WithResult(l) \in {l.msgs, Append(l.msgs, Results({l.next})),
                         Append(l.msgs, Results(1..l.next))}
  BY DEF WithResult
<1> QED
  BY <1>1, <1>2, <1>3, <1>4

----------------------------------------------------------------------------
(* The steps *)

\* A set of numbers with a bound has a greatest one.
LEMMA HasMax ==
    ASSUME NEW n \in Nat, NEW T \in SUBSET (0..n), T # {}
    PROVE  \E i \in T : \A j \in T : j <= i
<1> DEFINE U == {n - i : i \in T}
           R == OpToRel(<, Nat)
<1>1. U \in SUBSET Nat /\ U # {}
  <2>1. \A i \in T : i \in 0..n
    OBVIOUS
  <2>2. \A i \in 0..n : n - i \in Nat
    OBVIOUS
  <2> QED
    BY <2>1, <2>2
<1>2. PICK u \in U : \A v \in U : ~ (<<v, u>> \in R)
  <2>1. IsWellFoundedOn(R, Nat)
    BY NatLessThanWellFounded
  <2> HIDE DEF R
  <2> QED
    BY <1>1, <2>1, WFMin
<1>3. \A v \in U : ~ (v < u)
  BY <1>1, <1>2 DEF OpToRel
<1>4. PICK i \in T : u = n - i
  OBVIOUS
<1>5. ASSUME NEW j \in T
      PROVE  j <= i
  <2>1. n - j \in U /\ i \in 0..n /\ j \in 0..n
    BY <1>5
  <2>2. ~ (n - j < n - i)
    BY <1>3, <1>4, <2>1
  <2> QED
    BY <2>1, <2>2
<1> QED
  BY <1>5

LEMMA IdleGood ==
    ASSUME NEW p, NEW h \in Seq(Msg), Sound(p, h)
    PROVE  /\ Good(p, NoLoop, h)
           /\ \A n, b, d \in Nat :
                 Good(p, [NoLoop EXCEPT !.said = n, !.base = b, !.round = d], h)
<1>1. NoLoop \in LoopRec /\ NoLoop.pc = "idle"
  BY DEF NoLoop, LoopRec
<1>2. ASSUME NEW n \in Nat, NEW b \in Nat, NEW d \in Nat
      PROVE  /\ [NoLoop EXCEPT !.said = n, !.base = b, !.round = d] \in LoopRec
             /\ [NoLoop EXCEPT !.said = n, !.base = b, !.round = d].pc = "idle"
  BY <1>1 DEF LoopRec
<1> QED
  BY <1>1, <1>2 DEF Good

\* The turn is over and kept is its history.
LEMMA ReturnMoves ==
    ASSUME IInv, provider' = provider, NEW s \in Session,
           NEW kept \in Seq(Msg), NEW said \in Nat, Return(s, kept, said),
           Sound(provider, kept), Grew(provider, history[s], kept)
    PROVE  \E l, h : Moves(s, l, h)
<1>1. loop[s] \in LoopRec
  BY DEF IInv, Good
<1>2. loop[s].base \in Nat /\ loop[s].round \in Nat
  BY <1>1 DEF LoopRec
<1> DEFINE l == IF said = 0 THEN NoLoop
                ELSE [NoLoop EXCEPT !.said = said, !.base = loop[s].base, !.round = loop[s].round]
<1>3. Good(provider, l, kept)
  BY <1>2, IdleGood
<1>4. loop' = [loop EXCEPT ![s] = l] /\ history' = [history EXCEPT ![s] = kept]
  BY DEF Return, Set
<1> QED
  BY <1>3, <1>4 DEF Moves

LEMMA BeginTurnMoves ==
    ASSUME IInv, NEW s \in Session, BeginTurn(s)
    PROVE  \E l, h : Moves(s, l, h)
<1> DEFINE h == history[s]
           m == Append(h, User)
           l == [NoLoop EXCEPT !.pc = "request", !.msgs = m, !.base = Len(h)]
<1>1. h \in Seq(Msg) /\ Sound(provider, h)
  BY DEF IInv, Good
<1>2. m \in Seq(Msg) /\ Len(h) \in Nat /\ Len(m) = Len(h) + 1 /\ m[Len(h) + 1] = User
      /\ \A i \in 1..Len(h) : m[i] = h[i]
  BY <1>1, MessageTypes
<1>3. Sound(provider, m)
  BY <1>1, MessageTypes, AppendSound
<1>4. Grown(h, m)
  BY <1>2 DEF Grown
<1>5. l \in LoopRec /\ l.pc = "request" /\ l.msgs = m
  BY <1>2 DEF NoLoop, LoopRec
<1>6. Good(provider, l, h)
  BY <1>1, <1>3, <1>4, <1>5 DEF Good
<1>7. history' = [history EXCEPT ![s] = h] /\ loop' = [loop EXCEPT ![s] = l]
      /\ provider' = provider
  BY DEF BeginTurn, Set, IInv
<1> QED
  BY <1>6, <1>7 DEF Moves, Grew

LEMMA RepliedMoves ==
    ASSUME IInv, NEW s \in Session, Replied(s)
    PROVE  \E l, h : Moves(s, l, h)
<1> DEFINE o == loop[s]
           h == history[s]
<1>1. /\ o \in LoopRec /\ o.pc = "request" /\ o.msgs \in Seq(Msg) /\ Sound(provider, o.msgs)
      /\ h \in Seq(Msg) /\ Sound(provider, h) /\ Grown(h, o.msgs)
      /\ provider \in {"anthropic", "openai"} /\ provider' = provider
  BY DEF Replied, IInv, Good, LoopRec
<1>2. PICK calls \in 0..MaxCalls, cut \in BOOLEAN, text \in BOOLEAN :
         LET r == Reply(calls, cut, text)
             m == Append(o.msgs, r)
         IN  IF LoopDone(r) THEN Return(s, m, IF text THEN Len(m) ELSE 0)
             ELSE /\ Set(s, [o EXCEPT !.pc = "tools", !.msgs = m, !.at = Len(m), !.next = 1])
                  /\ UNCHANGED history
  BY DEF Replied
<1> DEFINE r == Reply(calls, cut, text)
           m == Append(o.msgs, r)
<1>3. calls \in Nat /\ cut \in BOOLEAN
  OBVIOUS
<1>4. r \in Msg /\ r.calls = calls /\ r.cut = cut
  BY <1>3, MessageTypes
<1>5. /\ m \in Seq(Msg) /\ Len(m) \in Nat /\ Len(m) = Len(o.msgs) + 1 /\ m[Len(m)] = r
      /\ Len(o.msgs) \in Nat
  BY <1>1, <1>4
<1>6. Grown(h, m)
  BY <1>1, <1>4, AppendGrown
<1> HIDE DEF r, m, o, h
<1>7. CASE LoopDone(r)
  <2>1. Return(s, m, IF text THEN Len(m) ELSE 0)
    BY <1>2, <1>7 DEF r, m
  <2>2. r.calls = 0 \/ (provider = "anthropic" /\ r.cut)
    BY <1>7 DEF LoopDone
  <2>3. Sound(provider, m)
    BY <1>1, <1>4, <2>2, AppendSound DEF m
  <2>4. Grew(provider, h, m)
    BY <1>6, <2>3 DEF Grew
  <2>5. (IF text THEN Len(m) ELSE 0) \in Nat
    BY <1>5
  <2> QED
    BY <1>1, <1>5, <2>1, <2>3, <2>4, <2>5, ReturnMoves DEF h
<1>8. CASE ~LoopDone(r)
  <2> DEFINE l == [o EXCEPT !.pc = "tools", !.msgs = m, !.at = Len(m), !.next = 1]
  <2>1. loop' = [loop EXCEPT ![s] = l] /\ history' = history
    BY <1>2, <1>8 DEF r, m, o, Set
  <2>2. /\ l \in LoopRec /\ l.pc = "tools" /\ l.msgs = m /\ l.at = Len(m) /\ l.next = 1
    BY <1>1, <1>5 DEF LoopRec
  <2>3. r.calls \in Nat \ {0}
    BY <1>3, <1>4, <1>8 DEF LoopDone
  <2>4. ASSUME NEW i \in DOMAIN m, i # Len(m)
        PROVE  OkAt(provider, m, i)
    <3>1. i \in DOMAIN o.msgs
      BY <1>1, <1>5, <2>4
    <3> QED
      BY <1>1, <1>4, <3>1, AppendKeeps DEF Sound, m
  <2>5. Calling(provider, m, Len(m), 1)
    <3>1. Len(m) \in 1..Len(m) /\ 1 \in 1..m[Len(m)].calls
      BY <1>5, <2>3
    <3>2. Len(m) = Len(m) + 1 - 1 /\ 1..(1 - 1) = {}
      BY <1>5
    <3> QED
      BY <2>4, <3>1, <3>2 DEF Calling
  <2>6. Good(provider, l, h)
    BY <1>1, <1>6, <2>2, <2>5 DEF Good
  <2>7. history' = [history EXCEPT ![s] = h]
    BY <2>1 DEF IInv, h
  <2> QED
    BY <1>1, <2>1, <2>6, <2>7 DEF Moves, Grew, h
<1> QED
  BY <1>7, <1>8

LEMMA CallDoneMoves ==
    ASSUME IInv, NEW s \in Session, loop[s].pc \in {"tools", "call"},
           CallDone(s), provider' = provider
    PROVE  \E l, h : Moves(s, l, h)
<1> DEFINE o == loop[s]
           h == history[s]
           m == WithResult(o)
<1>1. /\ o \in LoopRec /\ h \in Seq(Msg) /\ Sound(provider, h) /\ Grown(h, o.msgs)
      /\ Calling(provider, o.msgs, o.at, o.next)
      /\ provider \in {"anthropic", "openai"}
  BY DEF IInv, Good
<1>2. m \in Seq(Msg) /\ Grown(h, m)
  BY <1>1, ResultGrown
<1>3. /\ o.next < o.msgs[o.at].calls => Calling(provider, m, o.at, o.next + 1)
      /\ o.next = o.msgs[o.at].calls => Sound(provider, m)
  BY <1>1, OpenaiResult, AnthropicResult
<1>4. o.next \in Nat /\ o.round \in Nat /\ o.at \in Nat
  BY <1>1 DEF LoopRec
<1>5. o.next < o.msgs[o.at].calls \/ o.next = o.msgs[o.at].calls
  <2>1. o.at \in 1..Len(o.msgs) /\ o.next \in 1..o.msgs[o.at].calls
    BY <1>1 DEF Calling
  <2>2. o.msgs \in Seq(Msg)
    BY <1>1 DEF LoopRec
  <2>3. o.msgs[o.at] \in Msg
    BY <2>1, <2>2
  <2>4. o.msgs[o.at].calls \in Nat
    BY <2>3 DEF Msg
  <2> QED
    BY <1>4, <2>1, <2>4
<1>6. CASE o.next < o.msgs[o.at].calls
  <2> DEFINE l == [o EXCEPT !.pc = "tools", !.msgs = m, !.next = o.next + 1]
  <2>1. loop' = [loop EXCEPT ![s] = l] /\ history' = history
    BY <1>6 DEF CallDone, Set
  <2>2. l \in LoopRec /\ l.pc = "tools" /\ l.msgs = m /\ l.at = o.at /\ l.next = o.next + 1
    <3> HIDE DEF m, o
    <3>1. o.next + 1 \in Nat
      BY <1>4
    <3> QED
      BY <1>1, <1>2, <3>1 DEF LoopRec
  <2>3. Good(provider, l, h)
    BY <1>1, <1>2, <1>3, <1>6, <2>2 DEF Good
  <2>4. history' = [history EXCEPT ![s] = h]
    BY <2>1 DEF IInv
  <2> QED
    BY <2>1, <2>3, <2>4 DEF Moves, Grew
<1>7. CASE ~(o.next < o.msgs[o.at].calls) /\ o.round < MaxRounds
  <2> DEFINE l == [o EXCEPT !.pc = "request", !.msgs = m, !.round = o.round + 1]
  <2>1. loop' = [loop EXCEPT ![s] = l] /\ history' = history
    BY <1>7 DEF CallDone, Set
  <2>2. l \in LoopRec /\ l.pc = "request" /\ l.msgs = m
    <3> HIDE DEF m, o
    <3>1. o.round + 1 \in Nat
      BY <1>4
    <3> QED
      BY <1>1, <1>2, <3>1 DEF LoopRec
  <2>3. Good(provider, l, h)
    BY <1>1, <1>2, <1>3, <1>5, <1>7, <2>2 DEF Good
  <2>4. history' = [history EXCEPT ![s] = h]
    BY <2>1 DEF IInv
  <2> QED
    BY <2>1, <2>3, <2>4 DEF Moves, Grew
<1>8. CASE ~(o.next < o.msgs[o.at].calls) /\ ~(o.round < MaxRounds)
  <2>1. Return(s, m, LatestText(m))
    BY <1>8 DEF CallDone
  <2>2. Sound(provider, m)
    BY <1>3, <1>5, <1>8
  <2>3. Grew(provider, h, m)
    BY <1>2, <2>2 DEF Grew
  <2>4. LatestText(m) \in Nat
    <3> HIDE DEF m
    <3> DEFINE T == {i \in DOMAIN m : m[i].text}
    <3>1. T \subseteq Nat
      BY <1>2
    <3>2. LatestText(m) = IF T = {} THEN 0 ELSE CHOOSE i \in T : \A j \in T : j <= i
      BY DEF LatestText
    <3>3. T # {} => \E i \in T : \A j \in T : j <= i
      <4>1. Len(m) \in Nat /\ T \in SUBSET (0..Len(m))
        BY <1>2
      <4> QED
        BY <4>1, HasMax
    <3> QED
      BY <3>1, <3>2, <3>3
  <2> QED
    BY <1>2, <2>1, <2>2, <2>3, <2>4, ReturnMoves
<1> QED
  BY <1>6, <1>7, <1>8

LEMMA OtherMoves ==
    ASSUME IInv, NEW s \in Session
    PROVE  /\ LlmTimesOut(s) => \E l, h : Moves(s, l, h)
           /\ LlmRaises(s) => \E l, h : Moves(s, l, h)
           /\ Cancelled(s) => \E l, h : Moves(s, l, h)
           /\ MakeCall(s) => \E l, h : Moves(s, l, h)
           /\ FreshSession(s) => \E l, h : Moves(s, l, h)
<1> DEFINE o == loop[s]
           h == history[s]
<1>1. /\ o \in LoopRec /\ o.msgs \in Seq(Msg) /\ h \in Seq(Msg) /\ Sound(provider, h)
      /\ Good(provider, o, h)
  BY DEF IInv, Good, LoopRec
<1>2. Grew(provider, h, h)
  BY DEF Grew
<1>3. ASSUME LlmTimesOut(s)
      PROVE  \E l, k : Moves(s, l, k)
  <2>1. Sound(provider, o.msgs) /\ Grown(h, o.msgs)
    BY <1>1, <1>3 DEF LlmTimesOut, Good
  <2>2. Return(s, o.msgs, 0) /\ provider' = provider
    BY <1>3 DEF LlmTimesOut
  <2>3. Grew(provider, h, o.msgs)
    BY <2>1 DEF Grew
  <2> QED
    BY <1>1, <2>1, <2>2, <2>3, ReturnMoves
<1>4. ASSUME LlmRaises(s) \/ Cancelled(s)
      PROVE  \E l, k : Moves(s, l, k)
  <2>1. Return(s, h, 0) /\ provider' = provider
    BY <1>4 DEF LlmRaises, Cancelled
  <2> QED
    BY <1>1, <1>2, <2>1, ReturnMoves
<1>5. ASSUME MakeCall(s)
      PROVE  \E l, k : Moves(s, l, k)
  <2> DEFINE l == [o EXCEPT !.pc = "call"]
  <2>1. l \in LoopRec /\ l.pc = "call" /\ l.msgs = o.msgs /\ l.at = o.at /\ l.next = o.next
        /\ o.pc = "tools"
    BY <1>1, <1>5 DEF LoopRec, MakeCall
  <2>2. Good(provider, l, h)
    BY <1>1, <2>1 DEF Good
  <2>3. /\ loop' = [loop EXCEPT ![s] = l] /\ history' = [history EXCEPT ![s] = h]
        /\ provider' = provider
    BY <1>5 DEF MakeCall, Set, IInv
  <2> QED
    BY <1>2, <2>2, <2>3 DEF Moves
<1>6. ASSUME FreshSession(s)
      PROVE  \E l, k : Moves(s, l, k)
  <2>1. <<>> \in Seq(Msg) /\ Sound(provider, <<>>)
    BY DEF Sound
  <2>2. Good(provider, NoLoop, <<>>)
    BY <2>1, IdleGood
  <2>3. /\ loop' = [loop EXCEPT ![s] = NoLoop] /\ history' = [history EXCEPT ![s] = <<>>]
        /\ provider' = provider
    BY <1>6 DEF FreshSession, Set
  <2> QED
    BY <2>2, <2>3 DEF Moves, Grew
<1> QED
  BY <1>3, <1>4, <1>5, <1>6

----------------------------------------------------------------------------
(* The invariant *)

LEMMA MovesKeep ==
    ASSUME IInv, NEW s \in Session, NEW l, NEW h, Moves(s, l, h)
    PROVE  IInv'
<1>1. provider' = provider /\ provider \in {"anthropic", "openai"} /\ Good(provider, l, h)
  BY DEF IInv, Moves
<1>2. loop' = [loop EXCEPT ![s] = l] /\ history' = [history EXCEPT ![s] = h]
  BY DEF Moves
<1>3. DOMAIN loop = Session /\ DOMAIN history = Session
  BY DEF IInv
<1>4. /\ DOMAIN loop' = Session /\ DOMAIN history' = Session
      /\ loop' = [t \in Session |-> loop'[t]] /\ history' = [t \in Session |-> history'[t]]
  BY <1>2, <1>3
<1>5. ASSUME NEW t \in Session
      PROVE  Good(provider, loop'[t], history'[t])
  <2>1. CASE t = s
    BY <1>1, <1>2, <1>3, <2>1
  <2>2. CASE t # s
    <3>1. loop'[t] = loop[t] /\ history'[t] = history[t]
      BY <1>2, <1>3, <2>2
    <3> QED
      BY <3>1 DEF IInv
  <2> QED
    BY <2>1, <2>2
<1> QED
  BY <1>1, <1>4, <1>5 DEF IInv

\* A step of the loop of session s.
LoopStep(s) ==
    \/ BeginTurn(s) \/ Replied(s) \/ LlmTimesOut(s) \/ LlmRaises(s) \/ ArgsUnreadable(s)
    \/ MakeCall(s) \/ EndCall(s) \/ Cancelled(s) \/ FreshSession(s)

LEMMA LoopStepMoves ==
    ASSUME IInv, NEW s \in Session, LoopStep(s)
    PROVE  \E l, h : Moves(s, l, h)
<1>1. CASE ArgsUnreadable(s) \/ EndCall(s)
  <2>1. loop[s].pc \in {"tools", "call"} /\ CallDone(s) /\ provider' = provider
    BY <1>1 DEF ArgsUnreadable, EndCall
  <2> QED
    BY <2>1, CallDoneMoves
<1> QED
  BY <1>1, BeginTurnMoves, RepliedMoves, OtherMoves DEF LoopStep

LEMMA OthersStay ==
    ASSUME IInv, NEW s \in Session, LoopStep(s), NEW t \in Session, t # s
    PROVE  loop'[t] = loop[t] /\ history'[t] = history[t]
<1>1. PICK l, h : Moves(s, l, h)
  BY LoopStepMoves
<1> QED
  BY <1>1 DEF Moves, IInv

\* A step of Next, by what it does to the loops.
LEMMA NextSteps == Next => UNCHANGED loopVars \/ \E s \in Session : LoopStep(s)
BY DEF Next, Invoke, InvokeReturns, InvokeRaises, CancelTurn, Reconnect, LoopStep

LEMMA StepMoves ==
    ASSUME IInv, Next
    PROVE  UNCHANGED loopVars \/ \E s \in Session : \E l, h : Moves(s, l, h)
BY NextSteps, LoopStepMoves

LEMMA StutterKeeps ==
    ASSUME IInv, UNCHANGED loopVars
    PROVE  IInv'
BY DEF IInv, loopVars

LEMMA InitSound == Init => IInv
<1> SUFFICES ASSUME Init
             PROVE  IInv
  OBVIOUS
<1>1. /\ provider \in {"anthropic", "openai"}
      /\ history = [s \in Session |-> <<>>] /\ loop = [s \in Session |-> NoLoop]
  BY DEF Init, LoopInit
<1>2. <<>> \in Seq(Msg) /\ \A p : Sound(p, <<>>)
  BY DEF Sound
<1>3. \A p : Good(p, NoLoop, <<>>)
  BY <1>2, IdleGood
<1> QED
  BY <1>1, <1>3 DEF IInv

\* The strengthening of RequestsPaired is kept by every step: between two rounds each call
\* of the messages has its result, within a round all but the reply being served have, and
\* the messages are the history with one turn more (session.py 593-632).
THEOREM LoopInvariant == Spec => []IInv
<1>1. IInv /\ [Next]_vars => IInv'
  <2> SUFFICES ASSUME IInv, [Next]_vars
               PROVE  IInv'
    OBVIOUS
  <2>1. CASE Next
    BY <2>1, StepMoves, MovesKeep, StutterKeeps
  <2>2. CASE UNCHANGED vars
    BY <2>2, StutterKeeps DEF vars
  <2> QED
    BY <2>1, <2>2
<1> QED
  BY <1>1, InitSound, PTL DEF Spec

\* Every request the loop sends is one the API accepts, but for a reply anthropic cut
\* (RequestsPaired), for any number of sessions, rounds and calls.
THEOREM EveryRequestPaired == Spec => []RequestsPaired
<1>1. IInv => RequestsPaired
  BY DEF IInv, Good, Sound, OkAt, RequestsPaired
<1> QED
  BY <1>1, LoopInvariant, PTL

\* The history of a session grows by whole turns and is never rewritten
\* (HistoryGrowsByTurns), whatever times out, fails or is cancelled.
THEOREM HistoryIsKept == Spec => HistoryGrowsByTurns
<1> DEFINE P(s) == history'[s] \notin {history[s], <<>>} =>
              /\ IsStrictPrefix(history[s], history'[s])
              /\ history'[s][Len(history[s]) + 1] = User
              /\ \A i \in DOMAIN history'[s] :
                    Answered(history'[s], i) \/ (provider = "anthropic" /\ history'[s][i].cut)
<1>1. IInv /\ [Next]_vars => [\A s \in Session : P(s)]_vars
  <2> SUFFICES ASSUME IInv, Next, NEW t \in Session, history'[t] \notin {history[t], <<>>}
               PROVE  /\ IsStrictPrefix(history[t], history'[t])
                      /\ history'[t][Len(history[t]) + 1] = User
                      /\ \A i \in DOMAIN history'[t] : OkAt(provider, history'[t], i)
    BY DEF OkAt
  <2>1. CASE UNCHANGED loopVars
    BY <2>1 DEF loopVars
  <2>2. CASE \E s \in Session : \E l, h : Moves(s, l, h)
    <3>1. PICK s \in Session : \E l, h : Moves(s, l, h)
      BY <2>2
    <3>2. PICK l, h : Moves(s, l, h)
      BY <3>1
    <3>3. history' = [history EXCEPT ![s] = h] /\ DOMAIN history = Session
      BY <3>2 DEF Moves, IInv
    <3>4. t = s /\ history'[t] = h
      BY <3>3
    <3>5. Grown(history[t], h) /\ Sound(provider, h)
      BY <3>2, <3>4 DEF Moves, Grew
    <3>6. history[t] \in Seq(Msg) /\ h \in Seq(Msg)
      BY <3>2 DEF Moves, IInv, Good
    <3> QED
      BY <3>4, <3>5, <3>6, GrownIsPrefix DEF Grown, Sound
  <2> QED
    BY <2>1, <2>2, StepMoves
<1> QED
  BY <1>1, LoopInvariant, PTL DEF Spec, HistoryGrowsByTurns

----------------------------------------------------------------------------
(* What is spoken *)

Newest(h, n) == \A i \in DOMAIN h : h[i].text => i <= n

\* While a turn runs it remembers where the history ended; what an idle loop has said is the
\* newest text.
Speaks(l, h) ==
    /\ l.pc # "idle" => l.base = Len(h) /\ l.round <= MaxRounds
    /\ l.pc = "idle" /\ l.said > 0 => Newest(h, l.said) /\ (l.said > l.base \/ l.round = MaxRounds)

AllSpeak == \A s \in Session : Speaks(loop[s], history[s])

LEMMA LatestIsNewest ==
    ASSUME NEW m \in Seq(Msg)
    PROVE  LatestText(m) \in Nat /\ (LatestText(m) > 0 => Newest(m, LatestText(m)))
<1> DEFINE T == {i \in DOMAIN m : m[i].text}
<1>1. LatestText(m) = IF T = {} THEN 0 ELSE CHOOSE i \in T : \A j \in T : j <= i
  BY DEF LatestText
<1>2. T # {} => \E i \in T : \A j \in T : j <= i
  <2>1. Len(m) \in Nat /\ T \in SUBSET (0..Len(m))
    OBVIOUS
  <2> QED
    BY <2>1, HasMax
<1>3. T # {} => LatestText(m) \in T /\ \A j \in T : j <= LatestText(m)
  BY <1>1, <1>2
<1>4. T \subseteq Nat
  OBVIOUS
<1>5. Newest(m, LatestText(m)) <=> \A j \in T : j <= LatestText(m)
  BY DEF Newest
<1>6. T = {} => LatestText(m) = 0
  BY <1>1
<1> HIDE DEF T
<1>7. CASE T = {}
  BY <1>6, <1>7
<1>8. CASE T # {}
  BY <1>3, <1>4, <1>5, <1>8
<1> QED
  BY <1>7, <1>8

LEMMA ReturnSpeaks ==
    ASSUME IInv, NEW s \in Session, NEW kept, NEW said \in Nat, Return(s, kept, said),
           said > 0 => /\ Newest(kept, said)
                       /\ said > loop[s].base \/ loop[s].round = MaxRounds
    PROVE  Speaks(loop'[s], history'[s])
<1>1. DOMAIN loop = Session /\ DOMAIN history = Session
  BY DEF IInv
<1>2. /\ history'[s] = kept
      /\ loop'[s] = IF said = 0 THEN NoLoop
                    ELSE [NoLoop EXCEPT !.said = said, !.base = loop[s].base, !.round = loop[s].round]
  BY <1>1 DEF Return, Set
<1>3. CASE said = 0
  BY <1>2, <1>3 DEF Speaks, NoLoop
<1>4. CASE said > 0
  <2>1. /\ loop'[s].pc = "idle" /\ loop'[s].said = said /\ loop'[s].base = loop[s].base
        /\ loop'[s].round = loop[s].round
    BY <1>2, <1>4 DEF NoLoop
  <2> QED
    BY <1>2, <1>4, <2>1 DEF Speaks
<1> QED
  BY <1>3, <1>4

LEMMA LoopStepSpeaks ==
    ASSUME IInv, NEW s \in Session, LoopStep(s), Speaks(loop[s], history[s])
    PROVE  Speaks(loop'[s], history'[s])
<1> DEFINE o == loop[s]
           h == history[s]
<1>1. /\ DOMAIN loop = Session /\ DOMAIN history = Session
      /\ o \in LoopRec /\ h \in Seq(Msg) /\ Good(provider, o, h)
  BY DEF IInv, Good
<1>2. o.msgs \in Seq(Msg) /\ o.base \in Nat /\ o.round \in Nat
  BY <1>1 DEF LoopRec
<1>3. ASSUME BeginTurn(s) PROVE Speaks(loop'[s], history'[s])
  <2>1. loop'[s] = [NoLoop EXCEPT !.pc = "request", !.msgs = Append(h, User), !.base = Len(h)]
        /\ history' = history
    BY <1>1, <1>3 DEF BeginTurn, Set
  <2>2. loop'[s].pc = "request" /\ loop'[s].base = Len(h) /\ loop'[s].round = 1
    BY <2>1 DEF NoLoop
  <2> QED
    BY <2>1, <2>2, ToolLoopAssumption DEF Speaks
<1>4. ASSUME Replied(s) PROVE Speaks(loop'[s], history'[s])
  <2>1. PICK r \in Msg :
           LET m == Append(o.msgs, r)
           IN  \/ Return(s, m, 0) \/ Return(s, m, Len(m))
               \/ /\ Set(s, [o EXCEPT !.pc = "tools", !.msgs = m, !.at = Len(m), !.next = 1])
                  /\ UNCHANGED history
    <3>1. PICK calls \in 0..MaxCalls, cut \in BOOLEAN, text \in BOOLEAN :
             LET q == Reply(calls, cut, text)
                 m == Append(o.msgs, q)
             IN  IF LoopDone(q) THEN Return(s, m, IF text THEN Len(m) ELSE 0)
                 ELSE /\ Set(s, [o EXCEPT !.pc = "tools", !.msgs = m, !.at = Len(m), !.next = 1])
                      /\ UNCHANGED history
      BY <1>4 DEF Replied
    <3>2. calls \in Nat
      OBVIOUS
    <3>3. Reply(calls, cut, text) \in Msg
      BY <3>2, MessageTypes
    <3> QED
      BY <3>1, <3>3
  <2> DEFINE m == Append(o.msgs, r)
  <2>2. /\ m \in Seq(Msg) /\ Len(m) \in Nat /\ Len(m) = Len(o.msgs) + 1 /\ DOMAIN m = 1..Len(m)
        /\ Len(o.msgs) \in Nat
    BY <1>2
  <2>3. o.pc = "request" /\ Len(h) < Len(o.msgs) /\ o.base = Len(h) /\ o.round <= MaxRounds
    BY <1>1, <1>4 DEF Replied, Good, Grown, Speaks
  <2>4. CASE Return(s, m, 0)
    BY <2>4, ReturnSpeaks
  <2>5. CASE Return(s, m, Len(m))
    <3>1. Newest(m, Len(m)) /\ Len(m) > o.base
      BY <2>2, <2>3 DEF Newest
    <3> HIDE DEF m
    <3> QED
      BY <2>2, <2>5, <3>1, ReturnSpeaks
  <2>6. CASE loop' = [loop EXCEPT ![s] = [o EXCEPT !.pc = "tools", !.msgs = m, !.at = Len(m), !.next = 1]]
             /\ history' = history
    <3>1. loop'[s].pc = "tools" /\ loop'[s].base = o.base /\ loop'[s].round = o.round
      BY <1>1, <2>6 DEF LoopRec
    <3> QED
      BY <2>3, <2>6, <3>1 DEF Speaks
  <2> QED
    BY <2>1, <2>4, <2>5, <2>6 DEF Set
<1>5. ASSUME LlmTimesOut(s) \/ LlmRaises(s) \/ Cancelled(s) PROVE Speaks(loop'[s], history'[s])
  BY <1>5, ReturnSpeaks DEF LlmTimesOut, LlmRaises, Cancelled
<1>6. ASSUME MakeCall(s) PROVE Speaks(loop'[s], history'[s])
  <2>1. /\ loop'[s] = [o EXCEPT !.pc = "call"] /\ history' = history /\ o.pc = "tools"
    BY <1>1, <1>6 DEF MakeCall, Set
  <2>2. loop'[s].pc = "call" /\ loop'[s].base = o.base /\ loop'[s].round = o.round
    BY <1>1, <2>1 DEF LoopRec
  <2> QED
    BY <2>1, <2>2 DEF Speaks
<1>7. ASSUME ArgsUnreadable(s) \/ EndCall(s) PROVE Speaks(loop'[s], history'[s])
  <2> DEFINE m == WithResult(o)
  <2>1. CallDone(s) /\ o.pc \in {"tools", "call"}
    BY <1>7 DEF ArgsUnreadable, EndCall
  <2>2. o.base = Len(h) /\ o.round <= MaxRounds /\ m \in Seq(Msg)
    BY <1>1, <2>1, ResultGrown DEF Speaks, Good
  <2>3. CASE o.next < o.msgs[o.at].calls
    <3>1. history' = history /\ loop'[s] = [o EXCEPT !.pc = "tools", !.msgs = m, !.next = @ + 1]
      BY <1>1, <2>1, <2>3 DEF CallDone, Set
    <3> HIDE DEF m
    <3>2. loop'[s].base = o.base /\ loop'[s].round = o.round /\ loop'[s].pc = "tools"
      BY <1>1, <3>1 DEF LoopRec
    <3> QED
      BY <2>2, <3>1, <3>2 DEF Speaks
  <2>4. CASE ~(o.next < o.msgs[o.at].calls) /\ o.round < MaxRounds
    <3>1. history' = history /\ loop'[s] = [o EXCEPT !.pc = "request", !.msgs = m, !.round = @ + 1]
      BY <1>1, <2>1, <2>4 DEF CallDone, Set
    <3> HIDE DEF m
    <3>2. loop'[s].base = o.base /\ loop'[s].round = o.round + 1 /\ loop'[s].pc = "request"
      BY <1>1, <3>1 DEF LoopRec
    <3> QED
      BY <1>2, <2>2, <2>4, <3>1, <3>2, ToolLoopAssumption DEF Speaks
  <2>5. CASE ~(o.next < o.msgs[o.at].calls) /\ ~(o.round < MaxRounds)
    <3>1. Return(s, m, LatestText(m))
      BY <2>1, <2>5 DEF CallDone
    <3>2. o.round = MaxRounds
      BY <1>2, <2>2, <2>5, ToolLoopAssumption
    <3> HIDE DEF m
    <3> QED
      BY <2>2, <3>1, <3>2, LatestIsNewest, ReturnSpeaks
  <2> QED
    BY <2>3, <2>4, <2>5
<1>8. ASSUME FreshSession(s) PROVE Speaks(loop'[s], history'[s])
  BY <1>1, <1>8 DEF FreshSession, Set, Speaks, NoLoop
<1> QED
  BY <1>3, <1>4, <1>5, <1>6, <1>7, <1>8 DEF LoopStep

LEMMA NextSpeaks == ASSUME IInv, AllSpeak, [Next]_vars PROVE AllSpeak'
<1>1. CASE UNCHANGED loopVars
  BY <1>1 DEF AllSpeak, loopVars
<1>2. CASE \E s \in Session : LoopStep(s)
  <2>1. PICK s \in Session : LoopStep(s)
    BY <1>2
  <2>2. ASSUME NEW t \in Session PROVE Speaks(loop'[t], history'[t])
    <3>1. CASE t = s
      BY <2>1, <3>1, LoopStepSpeaks DEF AllSpeak
    <3>2. CASE t # s
      BY <2>1, <3>2, OthersStay DEF AllSpeak
    <3> QED
      BY <3>1, <3>2
  <2> QED
    BY <2>2 DEF AllSpeak
<1> QED
  BY <1>1, <1>2, NextSteps DEF vars

\* What is spoken is the newest text there is, and is one of this turn as long as there are
\* rounds left.
THEOREM NewestIsSpoken == Spec => []SpokenIsNewest
<1>1. Init => AllSpeak
  BY DEF Init, LoopInit, AllSpeak, Speaks, NoLoop
<1>2. IInv /\ AllSpeak /\ [Next]_vars => AllSpeak'
  BY NextSpeaks
<1>3. AllSpeak => SpokenIsNewest
  BY DEF AllSpeak, Speaks, Newest, SpokenIsNewest
<1> QED
  BY <1>1, <1>2, <1>3, LoopInvariant, PTL DEF Spec

----------------------------------------------------------------------------
(* The mirror as a sequence *)

Entry == [dev : Device, ids : SUBSET Nat]

IdsOf(m, d) == UNION {m[i].ids : i \in {j \in DOMAIN m : m[j].dev = d}}

\* One entry for a device at most.
Single(m) == \A i, j \in DOMAIN m : m[i].dev = m[j].dev => i = j

LEMMA AppendEntry ==
    ASSUME NEW m \in Seq(Entry), NEW x \in Entry
    PROVE  /\ Append(m, x) \in Seq(Entry)
           /\ \A d : d # x.dev => IdsOf(Append(m, x), d) = IdsOf(m, d)
           /\ (\A i \in DOMAIN m : m[i].dev # x.dev) => IdsOf(Append(m, x), x.dev) = x.ids
           /\ Single(m) /\ (\A i \in DOMAIN m : m[i].dev # x.dev) => Single(Append(m, x))
<1> DEFINE a == Append(m, x)
<1>1. /\ a \in Seq(Entry) /\ Len(a) = Len(m) + 1 /\ Len(m) \in Nat /\ a[Len(a)] = x
      /\ DOMAIN a = 1..Len(a) /\ DOMAIN m = 1..Len(m)
      /\ \A i \in 1..Len(m) : a[i] = m[i]
  OBVIOUS
<1> HIDE DEF a
<1>2. ASSUME NEW d, d # x.dev
      PROVE  IdsOf(a, d) = IdsOf(m, d)
  <2>1. {j \in DOMAIN a : a[j].dev = d} = {j \in DOMAIN m : m[j].dev = d}
    BY <1>1, <1>2
  <2>2. \A j \in {k \in DOMAIN m : m[k].dev = d} : a[j] = m[j]
    BY <1>1
  <2> QED
    BY <2>1, <2>2 DEF IdsOf
<1>3. ASSUME \A i \in DOMAIN m : m[i].dev # x.dev
      PROVE  IdsOf(a, x.dev) = x.ids
  <2>1. {j \in DOMAIN a : a[j].dev = x.dev} = {Len(a)}
    BY <1>1, <1>3
  <2> QED
    BY <1>1, <2>1 DEF IdsOf
<1>4. ASSUME Single(m), \A i \in DOMAIN m : m[i].dev # x.dev
      PROVE  Single(a)
  BY <1>1, <1>4 DEF Single
<1> QED
  BY <1>1, <1>2, <1>3, <1>4 DEF a

LEMMA TailEntries ==
    ASSUME NEW m \in Seq(Entry), m # <<>>
    PROVE  /\ Tail(m) \in Seq(Entry) /\ Head(m) \in Entry
           /\ \A d : d # Head(m).dev => IdsOf(Tail(m), d) = IdsOf(m, d)
           /\ Single(m) => Single(Tail(m))
<1> DEFINE b == Tail(m)
<1>1. /\ b \in Seq(Entry) /\ Len(b) = Len(m) - 1 /\ Len(m) \in Nat \ {0} /\ Head(m) = m[1]
      /\ DOMAIN b = 1..Len(b) /\ DOMAIN m = 1..Len(m) /\ Head(m) \in Entry
      /\ \A i \in 1..Len(b) : b[i] = m[i + 1]
  OBVIOUS
<1> HIDE DEF b
<1>2. ASSUME NEW d, d # m[1].dev
      PROVE  IdsOf(b, d) = IdsOf(m, d)
  <2>1. ASSUME NEW j \in DOMAIN b, b[j].dev = d
        PROVE  \E k \in DOMAIN m : m[k].dev = d /\ m[k].ids = b[j].ids
    <3>1. j + 1 \in DOMAIN m /\ m[j + 1] = b[j]
      BY <1>1
    <3> QED
      BY <2>1, <3>1
  <2>2. ASSUME NEW k \in DOMAIN m, m[k].dev = d
        PROVE  \E j \in DOMAIN b : b[j].dev = d /\ b[j].ids = m[k].ids
    <3>1. k # 1
      BY <1>2, <2>2
    <3>2. k - 1 \in DOMAIN b /\ b[k - 1] = m[(k - 1) + 1] /\ (k - 1) + 1 = k
      BY <1>1, <3>1
    <3> QED
      BY <2>2, <3>2
  <2> QED
    BY <2>1, <2>2 DEF IdsOf
<1>3. ASSUME Single(m)
      PROVE  Single(b)
  <2> SUFFICES ASSUME NEW i \in DOMAIN b, NEW j \in DOMAIN b, b[i].dev = b[j].dev
               PROVE  i = j
    BY DEF Single
  <2>1. i + 1 \in DOMAIN m /\ j + 1 \in DOMAIN m /\ m[i + 1] = b[i] /\ m[j + 1] = b[j]
    BY <1>1
  <2>2. i + 1 = j + 1
    BY <1>3, <2>1 DEF Single
  <2> QED
    BY <1>1, <2>2
<1> QED
  BY <1>1, <1>2, <1>3 DEF b

LEMMA RemoveAtIs ==
    ASSUME NEW S, NEW s \in Seq(S), NEW k \in 1..Len(s)
    PROVE  /\ RemoveAt(s, k) \in Seq(S) /\ Len(RemoveAt(s, k)) = Len(s) - 1
           /\ \A i \in 1..(k - 1) : RemoveAt(s, k)[i] = s[i]
           /\ \A i \in k..(Len(s) - 1) : RemoveAt(s, k)[i] = s[i + 1]
<1> DEFINE a == SubSeq(s, 1, k - 1)
           b == SubSeq(s, k + 1, Len(s))
<1>1. a \in Seq(S) /\ Len(a) = k - 1 /\ \A i \in 1..(k - 1) : a[i] = s[i]
  OBVIOUS
<1>2. b \in Seq(S) /\ Len(b) = Len(s) - k /\ \A i \in 1..(Len(s) - k) : b[i] = s[k + i]
  OBVIOUS
<1>3. RemoveAt(s, k) = a \o b
  BY DEF RemoveAt
<1> HIDE DEF a, b
<1>4. /\ a \o b \in Seq(S) /\ Len(a \o b) = Len(a) + Len(b)
      /\ \A i \in 1..(Len(a) + Len(b)) :
             (a \o b)[i] = IF i <= Len(a) THEN a[i] ELSE b[i - Len(a)]
  BY <1>1, <1>2, ConcatProperties, Zenon
<1>5. Len(a) + Len(b) = Len(s) - 1 /\ Len(s) \in Nat
  BY <1>1, <1>2
<1>6. ASSUME NEW i \in 1..(k - 1) PROVE (a \o b)[i] = s[i]
  BY <1>1, <1>4, <1>5
<1>7. ASSUME NEW i \in k..(Len(s) - 1) PROVE (a \o b)[i] = s[i + 1]
  <2>1. i - (k - 1) \in 1..(Len(s) - k) /\ k + (i - (k - 1)) = i + 1 /\ ~(i <= k - 1)
    OBVIOUS
  <2>2. i \in 1..(Len(s) - 1)
    OBVIOUS
  <2>3. (a \o b)[i] = b[i - (k - 1)]
    BY <1>1, <1>4, <1>5, <2>1, <2>2
  <2>4. b[i - (k - 1)] = s[i + 1]
    BY <1>2, <2>1
  <2> QED
    BY <2>3, <2>4
<1> QED
  BY <1>3, <1>4, <1>5, <1>6, <1>7

LEMMA RemoveEntry ==
    ASSUME NEW m \in Seq(Entry), NEW k \in DOMAIN m, Single(m)
    PROVE  /\ RemoveAt(m, k) \in Seq(Entry) /\ Single(RemoveAt(m, k))
           /\ \A d : d # m[k].dev => IdsOf(RemoveAt(m, k), d) = IdsOf(m, d)
           /\ \A i \in DOMAIN RemoveAt(m, k) : RemoveAt(m, k)[i].dev # m[k].dev
<1> DEFINE r == RemoveAt(m, k)
           Old(i) == IF i < k THEN i ELSE i + 1
<1>1. k \in 1..Len(m) /\ Len(m) \in Nat /\ DOMAIN m = 1..Len(m)
  OBVIOUS
<1>4. /\ r \in Seq(Entry) /\ Len(r) = Len(m) - 1
      /\ \A i \in 1..(k - 1) : r[i] = m[i]
      /\ \A i \in k..(Len(m) - 1) : r[i] = m[i + 1]
  BY <1>1, RemoveAtIs
<1> HIDE DEF r
<1>5. /\ DOMAIN r = 1..(Len(m) - 1)
      /\ \A i \in DOMAIN r : Old(i) \in DOMAIN m \ {k} /\ r[i] = m[Old(i)]
  BY <1>1, <1>4
<1>6. ASSUME NEW j \in DOMAIN m \ {k}
      PROVE  \E i \in DOMAIN r : Old(i) = j
  <2>1. CASE j < k
    BY <1>1, <1>5, <2>1
  <2>2. CASE ~(j < k)
    <3>1. j - 1 \in DOMAIN r /\ Old(j - 1) = j
      BY <1>1, <1>5, <1>6, <2>2
    <3> QED
      BY <3>1
  <2> QED
    BY <2>1, <2>2
<1>7. \A i, j \in DOMAIN r : Old(i) = Old(j) => i = j
  BY <1>1, <1>5
<1> HIDE DEF Old
<1>8. Single(r) /\ \A i \in DOMAIN r : r[i].dev # m[k].dev
  BY <1>5, <1>7 DEF Single
<1>9. ASSUME NEW d, d # m[k].dev
      PROVE  IdsOf(r, d) = IdsOf(m, d)
  <2>1. \A i \in DOMAIN r : r[i].dev = d => Old(i) \in DOMAIN m /\ m[Old(i)].dev = d /\ m[Old(i)].ids = r[i].ids
    BY <1>5
  <2>2. \A j \in DOMAIN m : m[j].dev = d => \E i \in DOMAIN r : r[i].dev = d /\ r[i].ids = m[j].ids
    BY <1>5, <1>6, <1>9
  <2> QED
    BY <2>1, <2>2 DEF IdsOf
<1> QED
  BY <1>4, <1>8, <1>9 DEF r

\* The mirror after an answer: the others' lists are as they were, but for the device that is
\* forgotten.
LEMMA TakeAnswerMirror ==
    ASSUME NEW d \in Device, mirror \in Seq(Entry), Single(mirror),
           AfterTool(Mirrored(d), answer[d]) \in SUBSET Nat, TakeAnswer(d)
    PROVE  /\ mirror' \in Seq(Entry) /\ Single(mirror')
           /\ drifted \subseteq drifted'
           /\ \A e \in Device \ drifted' :
                 Mirrored(e)' = IF e = d THEN AfterTool(Mirrored(d), answer[d]) ELSE Mirrored(e)
<1> DEFINE w == MirrorWithout(d)
           x == [dev |-> d, ids |-> AfterTool(Mirrored(d), answer[d])]
           m == Append(w, x)
<1>1. /\ w \in Seq(Entry) /\ Single(w) /\ \A i \in DOMAIN w : w[i].dev # d
      /\ \A e : e # d => IdsOf(w, e) = IdsOf(mirror, e)
  <2>1. CASE \E i \in DOMAIN mirror : mirror[i].dev = d
    <3> DEFINE k == CHOOSE i \in DOMAIN mirror : mirror[i].dev = d
    <3>1. k \in DOMAIN mirror /\ mirror[k].dev = d
      BY <2>1
    <3>2. w = RemoveAt(mirror, k)
      BY <2>1 DEF MirrorWithout
    <3> HIDE DEF k
    <3> QED
      BY <3>1, <3>2, RemoveEntry
  <2>2. CASE ~\E i \in DOMAIN mirror : mirror[i].dev = d
    BY <2>2 DEF MirrorWithout
  <2> QED
    BY <2>1, <2>2
<1>2. x \in Entry /\ x.dev = d /\ x.ids = AfterTool(Mirrored(d), answer[d])
  BY DEF Entry
<1>3. /\ drifted \subseteq drifted'
      /\ \/ mirror' = m
         \/ mirror' = Tail(m) /\ drifted' = drifted \cup {Head(m).dev}
  BY DEF TakeAnswer
<1> HIDE DEF w, x
<1>4. /\ m \in Seq(Entry) /\ m # <<>> /\ Single(m)
      /\ IdsOf(m, d) = AfterTool(Mirrored(d), answer[d])
      /\ \A e : e # d => IdsOf(m, e) = IdsOf(mirror, e)
  BY <1>1, <1>2, AppendEntry
<1> HIDE DEF m
<1>5. \A e : Mirrored(e) = IdsOf(mirror, e) /\ Mirrored(e)' = IdsOf(mirror', e)
  BY DEF Mirrored, IdsOf
<1>6. CASE mirror' = m
  BY <1>3, <1>4, <1>5, <1>6
<1>7. CASE mirror' = Tail(m) /\ drifted' = drifted \cup {Head(m).dev}
  BY <1>4, <1>5, <1>7, TailEntries
<1> QED
  BY <1>3, <1>6, <1>7

----------------------------------------------------------------------------
(* The mirror explained *)

Request == [tool : Tools, id : Id, live : BOOLEAN]
Result  == [ok : BOOLEAN, tool : Tools \cup {"none"}, id : Id \cup {0}, ids : SUBSET Nat]

MirrorTyped ==
    /\ wire \in [Device -> Seq(Request)] /\ answer \in [Device -> Result]
    /\ store \in [Device -> SUBSET Nat] /\ nextId \in [Device -> Nat]
    /\ mirror \in Seq(Entry) /\ Single(mirror)

Awaits(d) == loop[d].pc = "call" /\ answer[d] = NoAnswer

\* The call that is out is the last request on the wire, and the only one that is awaited.
OneCall(d) ==
    /\ answer[d] # NoAnswer => loop[d].pc = "call" /\ wire[d] = <<>>
    /\ Awaits(d) => wire[d] # <<>>
    /\ \A i \in DOMAIN wire[d] : wire[d][i].live <=> Awaits(d) /\ i = Len(wire[d])

\* Once the answer that is there is taken, the mirror is the device's list; and no request
\* that nobody awaits is on its way.
InStep(d) ==
    d \notin drifted => /\ \A i \in DOMAIN wire[d] : wire[d][i].live
                        /\ AfterTool(Mirrored(d), answer[d]) = store[d]

MInv == MirrorTyped /\ \A d \in Device : OneCall(d) /\ InStep(d)

LEMMA NoAnswerFacts ==
    /\ NoAnswer \in Result /\ NoAnswer.tool = "none"
    /\ \A x : AfterTool(x, NoAnswer) = x
BY DEF NoAnswer, Result, AfterTool

LEMMA AfterToolType ==
    ASSUME MirrorTyped, NEW d \in Device
    PROVE  Mirrored(d) \in SUBSET Nat /\ AfterTool(Mirrored(d), answer[d]) \in SUBSET Nat
<1>1. \A i \in DOMAIN mirror : mirror[i].ids \in SUBSET Nat
  <2>1. \A i \in DOMAIN mirror : mirror[i] \in Entry
    BY DEF MirrorTyped
  <2> QED
    BY <2>1 DEF Entry
<1>2. Mirrored(d) \in SUBSET Nat
  BY <1>1 DEF Mirrored
<1>3. answer[d].ids \in SUBSET Nat
  BY DEF MirrorTyped, Result
<1> QED
  BY <1>2, <1>3 DEF AfterTool

\* A step that is device s's leaves the others alone.
Apart(s) ==
    \A e \in Device \ {s} :
        /\ wire'[e] = wire[e] /\ answer'[e] = answer[e] /\ store'[e] = store[e]
        /\ loop'[e] = loop[e]
        /\ e \in drifted => e \in drifted'
        /\ e \notin drifted' => Mirrored(e)' = Mirrored(e)

LEMMA ApartKeeps ==
    ASSUME MInv, NEW s \in Device, Apart(s), MirrorTyped', OneCall(s)', InStep(s)'
    PROVE  MInv'
<1>1. ASSUME NEW e \in Device, e # s
      PROVE  OneCall(e)' /\ InStep(e)'
  <2>1. /\ wire'[e] = wire[e] /\ answer'[e] = answer[e] /\ store'[e] = store[e]
        /\ loop'[e] = loop[e] /\ (e \in drifted => e \in drifted')
        /\ e \notin drifted' => Mirrored(e)' = Mirrored(e)
    BY <1>1 DEF Apart
  <2>2. OneCall(e) /\ InStep(e)
    BY DEF MInv
  <2>3. OneCall(e)'
    BY <2>1, <2>2 DEF OneCall, Awaits
  <2>4. InStep(e)'
    BY <2>1, <2>2 DEF InStep
  <2> QED
    BY <2>3, <2>4
<1> QED
  BY <1>1 DEF MInv

\* When only loops move, outside a call.
LEMMA QuietKeeps ==
    ASSUME MInv, UNCHANGED reminderVars,
           \A d \in Device : loop'[d].pc = "call" <=> loop[d].pc = "call"
    PROVE  MInv'
<1>1. MirrorTyped'
  BY DEF MInv, MirrorTyped, reminderVars
<1>2. ASSUME NEW d \in Device
      PROVE  OneCall(d)' /\ InStep(d)'
  <2>1. OneCall(d)'
    BY DEF MInv, OneCall, Awaits, reminderVars
  <2>2. InStep(d)'
    BY DEF MInv, InStep, Mirrored, reminderVars
  <2> QED
    BY <2>1, <2>2
<1> QED
  BY <1>1, <1>2 DEF MInv

LEMMA CallPc ==
    ASSUME IInv, NEW s \in Session
    PROVE  /\ MakeCall(s) => loop[s].pc = "tools" /\ loop'[s].pc = "call"
           /\ \/ BeginTurn(s) \/ Replied(s) \/ LlmTimesOut(s) \/ LlmRaises(s) \/ ArgsUnreadable(s)
              \/ EndCall(s) \/ Cancelled(s) \/ FreshSession(s)
              => loop'[s].pc # "call"
           /\ EndCall(s) => loop[s].pc = "call"
           /\ BeginTurn(s) \/ Replied(s) \/ LlmTimesOut(s) \/ LlmRaises(s) \/ ArgsUnreadable(s) =>
                 loop[s].pc # "call"
<1>1. DOMAIN loop = Session /\ loop[s] \in LoopRec
  BY DEF IInv, Good
<1>2. ASSUME NEW kept, NEW said, Return(s, kept, said) PROVE loop'[s].pc = "idle"
  BY <1>1, <1>2 DEF Return, Set, NoLoop
<1>3. ASSUME CallDone(s) PROVE loop'[s].pc # "call"
  <2> DEFINE o == loop[s]
             m == WithResult(o)
  <2>1. \/ loop'[s] = [o EXCEPT !.pc = "tools", !.msgs = m, !.next = @ + 1]
        \/ loop'[s] = [o EXCEPT !.pc = "request", !.msgs = m, !.round = @ + 1]
        \/ Return(s, m, LatestText(m))
    BY <1>1, <1>3 DEF CallDone, Set
  <2> HIDE DEF m
  <2> QED
    BY <1>1, <1>2, <2>1 DEF LoopRec
<1>4. ASSUME BeginTurn(s) PROVE loop'[s].pc # "call"
  BY <1>1, <1>4 DEF BeginTurn, Set, NoLoop
<1>5. ASSUME Replied(s) PROVE loop'[s].pc # "call"
  <2>1. \/ \E m, n : loop'[s] = [loop[s] EXCEPT !.pc = "tools", !.msgs = m, !.at = n, !.next = 1]
        \/ \E m, n : Return(s, m, n)
    BY <1>1, <1>5 DEF Replied, Set
  <2> QED
    BY <1>1, <1>2, <2>1 DEF LoopRec
<1>6. ASSUME MakeCall(s) PROVE loop[s].pc = "tools" /\ loop'[s].pc = "call"
  BY <1>1, <1>6 DEF MakeCall, Set, LoopRec
<1>7. ASSUME FreshSession(s) PROVE loop'[s].pc # "call"
  BY <1>1, <1>7 DEF FreshSession, Set, NoLoop
<1>8. ASSUME LlmTimesOut(s) \/ LlmRaises(s) \/ Cancelled(s) PROVE loop'[s].pc # "call"
  BY <1>2, <1>8 DEF LlmTimesOut, LlmRaises, Cancelled
<1>9. ASSUME ArgsUnreadable(s) \/ EndCall(s) PROVE loop'[s].pc # "call"
  BY <1>3, <1>9 DEF ArgsUnreadable, EndCall
<1>10. /\ EndCall(s) => loop[s].pc = "call"
       /\ BeginTurn(s) \/ Replied(s) \/ LlmTimesOut(s) \/ LlmRaises(s) \/ ArgsUnreadable(s) =>
             loop[s].pc # "call"
  BY DEF EndCall, BeginTurn, Replied, LlmTimesOut, LlmRaises, ArgsUnreadable
<1> QED
  BY <1>4, <1>5, <1>6, <1>7, <1>8, <1>9, <1>10

LEMMA InvokeKeeps == ASSUME IInv, MInv, NEW s \in Session, Invoke(s) PROVE MInv'
<1> DEFINE w == wire[s]
<1>1. PICK tool \in Tools, id \in Id : SendCall(s, tool, id)
  BY DEF Invoke
<1> DEFINE x == [tool |-> tool, id |-> id, live |-> TRUE]
<1>2. /\ s \in Device /\ loop[s].pc # "call" /\ loop'[s].pc = "call" /\ LoopStep(s)
  BY CallPc, OneSessionPerDevice DEF Invoke, LoopStep
<1>3. /\ w \in Seq(Request) /\ x \in Request /\ MirrorTyped /\ OneCall(s) /\ InStep(s)
  BY <1>2 DEF MInv, MirrorTyped, Request
<1>4. /\ wire' = [wire EXCEPT ![s] = Append(w, x)]
      /\ UNCHANGED <<store, nextId, answer, mirror, drifted>>
  BY <1>1 DEF SendCall
<1>5. /\ Append(w, x) \in Seq(Request) /\ Len(Append(w, x)) = Len(w) + 1 /\ Len(w) \in Nat
      /\ DOMAIN Append(w, x) = 1..(Len(w) + 1) /\ DOMAIN w = 1..Len(w) /\ Append(w, x) # <<>>
      /\ Append(w, x)[Len(w) + 1].live /\ \A i \in 1..Len(w) : Append(w, x)[i] = w[i]
  BY <1>3
<1>6. wire'[s] = Append(w, x) /\ MirrorTyped'
  BY <1>2, <1>3, <1>4, <1>5 DEF MirrorTyped
<1>7. Apart(s)
  BY <1>2, <1>3, <1>4, OthersStay, OneSessionPerDevice DEF Apart, Mirrored, MirrorTyped
<1>8. answer'[s] = NoAnswer /\ \A i \in DOMAIN w : ~w[i].live
  BY <1>2, <1>3, <1>4 DEF OneCall, Awaits
<1> HIDE DEF x, w
<1>9. OneCall(s)'
  BY <1>2, <1>5, <1>6, <1>8 DEF OneCall, Awaits
<1>10. InStep(s)'
  BY <1>3, <1>4, <1>5, <1>6, <1>8 DEF InStep, Mirrored, w
<1> QED
  BY <1>2, <1>6, <1>7, <1>9, <1>10, ApartKeeps

LEMMA ReturnsKeeps == ASSUME IInv, MInv, NEW s \in Session, InvokeReturns(s) PROVE MInv'
<1>1. s \in Device /\ loop[s].pc = "call" /\ loop'[s].pc # "call" /\ LoopStep(s)
  <2>1. EndCall(s) /\ LoopStep(s)
    BY DEF InvokeReturns, LoopStep
  <2> QED
    BY <2>1, CallPc, OneSessionPerDevice
<1>2. /\ TakeAnswer(s) /\ answer[s] # NoAnswer /\ answer' = [answer EXCEPT ![s] = NoAnswer]
      /\ UNCHANGED <<store, nextId, wire>>
  BY DEF InvokeReturns, TakeAnswer
<1>3. MirrorTyped /\ OneCall(s) /\ InStep(s)
  BY <1>1 DEF MInv
<1>4. /\ mirror' \in Seq(Entry) /\ Single(mirror') /\ drifted \subseteq drifted'
      /\ \A e \in Device \ drifted' :
            Mirrored(e)' = IF e = s THEN AfterTool(Mirrored(s), answer[s]) ELSE Mirrored(e)
  BY <1>1, <1>2, <1>3, AfterToolType, TakeAnswerMirror DEF MirrorTyped
<1>5. MirrorTyped'
  BY <1>2, <1>3, <1>4, NoAnswerFacts DEF MirrorTyped
<1>6. Apart(s)
  BY <1>1, <1>2, <1>3, <1>4, OthersStay, OneSessionPerDevice DEF Apart, MirrorTyped
<1>7. answer'[s] = NoAnswer /\ wire'[s] = <<>>
  BY <1>1, <1>2, <1>3 DEF MirrorTyped, OneCall
<1>8. OneCall(s)'
  BY <1>1, <1>7 DEF OneCall, Awaits
<1>9. InStep(s)'
  BY <1>1, <1>2, <1>3, <1>4, <1>7, NoAnswerFacts DEF InStep
<1> QED
  BY <1>1, <1>5, <1>6, <1>8, <1>9, ApartKeeps

\* The call is over without an answer: what is still on the wire is nobody's.
LEMMA GiveUpKeeps ==
    ASSUME IInv, MInv, NEW s \in Session, LoopStep(s), loop'[s].pc # "call", GiveUp(s)
    PROVE  MInv'
<1> DEFINE w == wire[s]
           v == [i \in DOMAIN w |-> [w[i] EXCEPT !.live = FALSE]]
<1>1. s \in Device /\ MirrorTyped /\ w \in Seq(Request)
  BY OneSessionPerDevice DEF MInv, MirrorTyped
<1>2. /\ answer' = [answer EXCEPT ![s] = NoAnswer] /\ wire' = [wire EXCEPT ![s] = v]
      /\ drifted' = drifted \cup {s} /\ UNCHANGED <<store, nextId, mirror>>
  BY DEF GiveUp
<1>3. DOMAIN w = 1..Len(w) /\ Len(w) \in Nat /\ \A i \in DOMAIN w : w[i] \in Request
  BY <1>1
<1>4. \A i \in DOMAIN w : v[i] \in Request /\ ~v[i].live
  BY <1>3 DEF Request
<1>5. v \in Seq(Request)
  <2>1. DOMAIN v = 1..Len(w) /\ v = [i \in 1..Len(w) |-> v[i]]
    BY <1>3
  <2> HIDE DEF v
  <2> QED
    BY <1>3, <1>4, <2>1
<1> HIDE DEF v
<1>6. MirrorTyped' /\ wire'[s] = v /\ answer'[s] = NoAnswer
  BY <1>1, <1>2, <1>5, NoAnswerFacts DEF MirrorTyped
<1>7. Apart(s)
  BY <1>1, <1>2, OthersStay, OneSessionPerDevice DEF Apart, Mirrored, MirrorTyped
<1>8. OneCall(s)' /\ InStep(s)'
  BY <1>2, <1>4, <1>6 DEF OneCall, Awaits, InStep, v
<1> QED
  BY <1>1, <1>6, <1>7, <1>8, ApartKeeps

LEMMA ReconnectKeeps == ASSUME IInv, MInv, NEW s \in Session, Reconnect(s) PROVE MInv'
<1>1. s \in Device /\ MirrorTyped /\ OneCall(s) /\ InStep(s)
  BY OneSessionPerDevice DEF MInv
<1>2. LoopStep(s) /\ loop'[s].pc = "idle"
  BY DEF Reconnect, LoopStep, FreshSession, Set, NoLoop, IInv
<1>3. /\ wire' = [wire EXCEPT ![s] = <<>>] /\ answer' = [answer EXCEPT ![s] = NoAnswer]
      /\ drifted' = IF wire[s] # <<>> \/ answer[s] # NoAnswer THEN drifted \cup {s} ELSE drifted
      /\ UNCHANGED <<store, nextId, mirror>>
  BY DEF Reconnect, Disconnect
<1>4. MirrorTyped' /\ wire'[s] = <<>> /\ answer'[s] = NoAnswer
  BY <1>1, <1>3, NoAnswerFacts DEF MirrorTyped
<1>5. Apart(s)
  BY <1>1, <1>2, <1>3, OthersStay, OneSessionPerDevice DEF Apart, Mirrored, MirrorTyped
<1>6. OneCall(s)'
  BY <1>2, <1>4 DEF OneCall, Awaits
<1>7. InStep(s)'
  BY <1>1, <1>3, <1>4 DEF InStep, Mirrored
<1> QED
  BY <1>1, <1>4, <1>5, <1>6, <1>7, ApartKeeps

LEMMA FireKeeps == ASSUME MInv, NEW s \in Device, Fire(s), UNCHANGED loopVars PROVE MInv'
<1>1. /\ drifted' = drifted \cup {s} /\ UNCHANGED <<nextId, wire, answer, mirror>>
      /\ loop' = loop
      /\ \E id : store' = [store EXCEPT ![s] = @ \ {id}]
  BY DEF Fire, loopVars
<1>2. MirrorTyped' /\ Apart(s)
  BY <1>1 DEF MInv, MirrorTyped, Apart, Mirrored
<1>3. OneCall(s)' /\ InStep(s)'
  BY <1>1 DEF MInv, OneCall, Awaits, InStep
<1> QED
  BY <1>2, <1>3, ApartKeeps

\* The device answers: if somebody still awaits this answer, it is the last on the wire.
LEMMA ServeKeeps == ASSUME MInv, NEW s \in Device, Serve(s), UNCHANGED loopVars PROVE MInv'
<1> DEFINE w == wire[s]
           q == Head(wire[s])
           Ok(ids) == [ok |-> TRUE, tool |-> q.tool, id |-> q.id, ids |-> ids]
<1>1. MirrorTyped /\ OneCall(s) /\ InStep(s) /\ w \in Seq(Request) /\ w # <<>> /\ loop' = loop
  BY DEF MInv, MirrorTyped, Serve, loopVars
<1>2. /\ Tail(w) \in Seq(Request) /\ Len(Tail(w)) = Len(w) - 1 /\ Len(w) \in Nat \ {0}
      /\ DOMAIN w = 1..Len(w) /\ DOMAIN Tail(w) = 1..(Len(w) - 1)
      /\ \A i \in DOMAIN Tail(w) : i + 1 \in DOMAIN w /\ Tail(w)[i] = w[i + 1]
      /\ q = w[1] /\ q \in Request
  BY <1>1
<1>3. q.tool \in Tools /\ q.id \in Id /\ q.live \in BOOLEAN /\ q.tool # "none"
  BY <1>2 DEF Request, Tools
<1>4. wire' = [wire EXCEPT ![s] = Tail(w)] /\ UNCHANGED mirror /\ answer[s] = NoAnswer
  BY <1>1 DEF Serve, OneCall
<1>5. PICK a :
         /\ Deliver(s, a)
         /\ \/ /\ q.tool = "create_reminder" /\ a = Ok({nextId[s]})
               /\ store' = [store EXCEPT ![s] = @ \cup {nextId[s]}]
               /\ nextId' = [nextId EXCEPT ![s] = @ + 1] /\ drifted' = drifted
            \/ /\ q.tool = "delete_reminder" /\ a = Ok({})
               /\ store' = [store EXCEPT ![s] = @ \ {q.id}]
               /\ nextId' = nextId /\ drifted' = drifted
            \/ /\ q.tool = "list_reminders" /\ a = Ok(store[s])
               /\ drifted' = IF q.live THEN drifted \ {s} ELSE drifted
               /\ store' = store /\ nextId' = nextId
            \/ /\ q.tool = "set_user_name" /\ a = Ok({})
               /\ store' = store /\ nextId' = nextId /\ drifted' = drifted
            \/ /\ a = [Ok({}) EXCEPT !.ok = FALSE] /\ store' = store /\ nextId' = nextId
               /\ drifted' = IF q.tool = "delete_reminder" THEN drifted \cup {s} ELSE drifted
  BY DEF Serve
<1>6. /\ store[s] \in SUBSET Nat /\ nextId[s] \in Nat
      /\ store \in [Device -> SUBSET Nat] /\ nextId \in [Device -> Nat]
      /\ answer \in [Device -> Result] /\ wire \in [Device -> Seq(Request)]
  BY <1>1 DEF MirrorTyped
<1>7. a \in Result /\ a # NoAnswer
  <2>1. \A x \in SUBSET Nat : Ok(x) \in Result /\ [Ok(x) EXCEPT !.ok = FALSE] \in Result
    BY <1>3 DEF Result
  <2>2. a.tool = q.tool
    BY <1>5
  <2>3. \E x \in SUBSET Nat : a = Ok(x) \/ a = [Ok(x) EXCEPT !.ok = FALSE]
    <3>1. {nextId[s]} \in SUBSET Nat /\ {} \in SUBSET Nat /\ store[s] \in SUBSET Nat
      BY <1>6
    <3> HIDE DEF Ok
    <3> QED
      BY <1>5, <3>1
  <2>4. a \in Result
    BY <2>1, <2>3
  <2> QED
    BY <1>3, <2>2, <2>4, NoAnswerFacts
<1>8. answer' = [answer EXCEPT ![s] = IF q.live THEN a ELSE NoAnswer]
  BY <1>4, <1>5, <1>6 DEF Deliver
<1>9. store' \in [Device -> SUBSET Nat] /\ nextId' \in [Device -> Nat]
  <2>1. /\ store[s] \cup {nextId[s]} \in SUBSET Nat /\ store[s] \ {q.id} \in SUBSET Nat
        /\ nextId[s] + 1 \in Nat
    BY <1>6
  <2>2. /\ \/ store' = store
           \/ \E x \in {store[s] \cup {nextId[s]}, store[s] \ {q.id}} :
                  store' = [store EXCEPT ![s] = x]
        /\ nextId' = nextId \/ nextId' = [nextId EXCEPT ![s] = nextId[s] + 1]
    BY <1>5
  <2> QED
    BY <1>6, <2>1, <2>2
<1>10. MirrorTyped'
  BY <1>1, <1>2, <1>4, <1>6, <1>7, <1>8, <1>9, NoAnswerFacts DEF MirrorTyped
<1>11. Apart(s)
  <2>1. drifted \subseteq drifted' \cup {s}
    BY <1>5
  <2>2. \A e \in Device \ {s} : store'[e] = store[e]
    BY <1>5, <1>6
  <2> QED
    BY <1>1, <1>4, <1>6, <1>8, <2>1, <2>2 DEF Apart, Mirrored
<1>12. Mirrored(s)' = Mirrored(s) /\ wire'[s] = Tail(w)
  BY <1>4, <1>6 DEF Mirrored
<1>13. CASE q.live
  <2>1. Awaits(s) /\ Len(w) = 1
    <3>1. 1 \in DOMAIN w /\ w[1].live
      BY <1>2, <1>13
    <3> QED
      BY <1>1, <3>1 DEF OneCall
  <2>2. Tail(w) = <<>> /\ answer'[s] = a
    BY <1>2, <1>6, <1>8, <1>13, <2>1
  <2>3. OneCall(s)'
    BY <1>1, <1>7, <1>12, <2>1, <2>2 DEF OneCall, Awaits
  <2>4. ASSUME s \notin drifted' PROVE AfterTool(Mirrored(s), a) = store'[s]
    <3>1. s \notin drifted => Mirrored(s) = store[s]
      BY <1>1, <1>4, NoAnswerFacts DEF InStep
    <3>2. CASE q.tool = "create_reminder" /\ a = Ok({nextId[s]})
      <4>1. store'[s] = store[s] \cup {nextId[s]} \/ store'[s] = store[s]
        BY <1>5, <1>6, <3>2
      <4> QED
        BY <1>5, <1>6, <2>4, <3>1, <3>2 DEF AfterTool
    <3>3. CASE q.tool = "delete_reminder"
      <4>1. a = Ok({}) /\ store' = [store EXCEPT ![s] = @ \ {q.id}] /\ drifted' = drifted
        BY <1>5, <2>4, <3>3
      <4>2. store'[s] = store[s] \ {q.id} /\ a.tool = "delete_reminder" /\ a.id = q.id
        BY <1>6, <3>3, <4>1
      <4> QED
        BY <2>4, <3>1, <4>1, <4>2 DEF AfterTool
    <3>4. CASE q.tool = "list_reminders"
      BY <1>5, <1>6, <2>4, <3>1, <3>4 DEF AfterTool
    <3>5. CASE q.tool = "set_user_name"
      BY <1>5, <1>6, <2>4, <3>1, <3>5 DEF AfterTool
    <3>6. CASE q.tool = "create_reminder" /\ a = [Ok({}) EXCEPT !.ok = FALSE]
      BY <1>5, <1>6, <2>4, <3>1, <3>6 DEF AfterTool
    <3> QED
      BY <1>3, <1>5, <3>2, <3>3, <3>4, <3>5, <3>6 DEF Tools
  <2>5. InStep(s)'
    BY <1>12, <2>2, <2>4 DEF InStep, AfterTool
  <2> QED
    BY <1>10, <1>11, <2>3, <2>5, ApartKeeps
<1>14. CASE ~q.live
  <2>1. answer'[s] = NoAnswer /\ s \in drifted'
    <3>1. 1 \in DOMAIN w /\ ~w[1].live
      BY <1>2, <1>14
    <3>2. s \in drifted
      BY <1>1, <3>1 DEF InStep
    <3>3. s \in drifted'
      BY <1>5, <1>14, <3>2
    <3> QED
      BY <1>6, <1>8, <1>14, <3>3
  <2>2. Awaits(s)' <=> Awaits(s)
    BY <1>1, <1>4, <2>1 DEF Awaits
  <2>3. Awaits(s) => Len(w) # 1
    BY <1>1, <1>2, <1>14 DEF OneCall
  <2>4. OneCall(s)'
    <3>1. Awaits(s)' => Tail(w) # <<>>
      <4>1. Awaits(s)' => Len(Tail(w)) # 0
        BY <1>2, <2>2, <2>3
      <4> QED
        BY <4>1
    <3>2. \A i \in DOMAIN Tail(w) : Tail(w)[i].live <=> Awaits(s) /\ i = Len(Tail(w))
      BY <1>1, <1>2 DEF OneCall
    <3> QED
      BY <1>12, <2>1, <2>2, <3>1, <3>2 DEF OneCall
  <2>5. InStep(s)'
    BY <2>1 DEF InStep
  <2> QED
    BY <1>10, <1>11, <2>4, <2>5, ApartKeeps
<1> QED
  BY <1>3, <1>13, <1>14

LEMMA MirrorInit == Init => MInv
<1> SUFFICES ASSUME Init PROVE MInv
  OBVIOUS
<1>1. /\ store = [d \in Device |-> {}] /\ nextId = [d \in Device |-> 1]
      /\ wire = [d \in Device |-> <<>>] /\ answer = [d \in Device |-> NoAnswer]
      /\ mirror = <<>> /\ loop = [s \in Session |-> NoLoop]
  BY DEF Init, RemindersInit, LoopInit
<1>2. MirrorTyped
  BY <1>1, NoAnswerFacts DEF MirrorTyped, Single
<1>3. ASSUME NEW d \in Device PROVE OneCall(d) /\ InStep(d)
  <2>1. loop[d].pc = "idle"
    BY <1>1, OneSessionPerDevice DEF NoLoop
  <2>2. OneCall(d)
    BY <1>1, <2>1 DEF OneCall, Awaits
  <2>3. Mirrored(d) = {}
    BY <1>1 DEF Mirrored
  <2> QED
    BY <1>1, <2>2, <2>3, NoAnswerFacts DEF InStep
<1> QED
  BY <1>2, <1>3 DEF MInv

LEMMA MirrorNext == ASSUME IInv, MInv, [Next]_vars PROVE MInv'
<1>1. CASE UNCHANGED vars
  BY <1>1, QuietKeeps DEF vars, loopVars
<1>2. ASSUME NEW s \in Session, LoopStep(s), UNCHANGED reminderVars,
             loop[s].pc # "call", loop'[s].pc # "call"
      PROVE  MInv'
  <2>1. ASSUME NEW d \in Device PROVE loop'[d].pc = "call" <=> loop[d].pc = "call"
    <3>1. CASE d = s
      BY <1>2, <3>1
    <3>2. CASE d # s
      BY <1>2, <3>2, OthersStay, OneSessionPerDevice
    <3> QED
      BY <3>1, <3>2
  <2> QED
    BY <1>2, <2>1, QuietKeeps
<1>3. ASSUME NEW s \in Session,
             BeginTurn(s) \/ Replied(s) \/ LlmTimesOut(s) \/ LlmRaises(s) \/ ArgsUnreadable(s),
             UNCHANGED reminderVars
      PROVE  MInv'
  <2>1. LoopStep(s) /\ loop[s].pc # "call" /\ loop'[s].pc # "call"
    BY <1>3, CallPc DEF LoopStep
  <2> QED
    BY <1>2, <1>3, <2>1
<1>4. ASSUME NEW s \in Session, InvokeRaises(s) \/ CancelTurn(s)
      PROVE  MInv'
  <2>1. EndCall(s) \/ Cancelled(s)
    BY <1>4 DEF InvokeRaises, CancelTurn
  <2>2. LoopStep(s) /\ loop'[s].pc # "call" /\ (EndCall(s) => loop[s].pc = "call")
    BY <2>1, CallPc DEF LoopStep
  <2>3. GiveUp(s) \/ (UNCHANGED reminderVars /\ loop[s].pc # "call")
    BY <1>4 DEF InvokeRaises, CancelTurn
  <2> QED
    BY <1>2, <2>2, <2>3, GiveUpKeeps
<1>5. ASSUME NEW s \in Session, (Serve(s) \/ Fire(s)) /\ UNCHANGED loopVars
      PROVE  MInv'
  BY <1>5, ServeKeeps, FireKeeps, OneSessionPerDevice
<1> QED
  BY <1>1, <1>3, <1>4, <1>5, InvokeKeeps, ReturnsKeeps, ReconnectKeeps DEF Next

\* Between calls the dashboard's list of a device is the device's own, unless one of the
\* causes the code cannot see is on record (MirrorExplained).
THEOREM MirrorIsExplained == Spec => []MirrorExplained
<1>1. MInv => MirrorExplained
  <2> SUFFICES ASSUME MInv, NEW d \in Device, loop[d].pc # "call", d \notin drifted
               PROVE  Mirrored(d) = store[d]
    BY DEF MirrorExplained
  <2>1. answer[d] = NoAnswer
    BY DEF MInv, OneCall
  <2> QED
    BY <2>1, NoAnswerFacts DEF MInv, InStep
<1>2. IInv /\ MInv /\ [Next]_vars => MInv'
  BY MirrorNext
<1> QED
  BY <1>1, <1>2, MirrorInit, LoopInvariant, PTL DEF Spec

----------------------------------------------------------------------------
(* The counter of reminders *)

\* The requests for a reminder that are on their way.
Underway ==
    {r \in Device \X (Nat \ {0}) :
        r[2] \in DOMAIN wire[r[1]] /\ wire[r[1]][r[2]].tool = "create_reminder"}

\* Each reminder made, and each that may still be made, was counted.
Ledger ==
    /\ IsFiniteSet(Made) /\ IsFiniteSet(Underway) /\ created \in Nat
    /\ Cardinality(Made) + Cardinality(Underway) <= created

LEMMA LedgerCounts ==
    ASSUME Ledger
    PROVE  Cardinality(Made) \in Nat /\ Cardinality(Underway) \in Nat
  BY FS_CardinalityType DEF Ledger

\* A step that makes no reminder and sends no request for one.
LEMMA LedgerKept ==
    ASSUME Ledger, UNCHANGED <<nextId, created>>, Underway' \subseteq Underway
    PROVE  Ledger'
<1>1. Made' = Made
  BY DEF Made
<1>2. IsFiniteSet(Underway') /\ Cardinality(Underway') <= Cardinality(Underway)
  BY FS_Subset DEF Ledger
<1>3. Cardinality(Underway') \in Nat
  BY <1>2, FS_CardinalityType
<1> QED
  BY <1>1, <1>2, <1>3, LedgerCounts DEF Ledger

LEMMA InvokeCounts == ASSUME MirrorTyped, Ledger, NEW s \in Device, Invoke(s) PROVE Ledger'
<1> DEFINE w == wire[s]
<1>1. PICK tool \in Tools, id \in Id : SendCall(s, tool, id)
  BY DEF Invoke
<1> DEFINE x == [tool |-> tool, id |-> id, live |-> TRUE]
           new == <<s, Len(w) + 1>>
<1>2. wire \in [Device -> Seq(Request)] /\ w \in Seq(Request) /\ Len(w) \in Nat
  BY DEF MirrorTyped
<1>3. /\ wire' = [wire EXCEPT ![s] = Append(w, x)] /\ Made' = Made
      /\ created' = IF tool = "create_reminder" THEN created + 1 ELSE created
  BY <1>1 DEF SendCall, Counted, Made
<1>4. x \in Request /\ x.tool = tool
  BY DEF Request
<1>5. /\ wire'[s] = Append(w, x) /\ \A d \in Device : d # s => wire'[d] = wire[d]
      /\ DOMAIN w = 1..Len(w) /\ DOMAIN Append(w, x) = 1..(Len(w) + 1)
      /\ Append(w, x)[Len(w) + 1] = x /\ \A i \in 1..Len(w) : Append(w, x)[i] = w[i]
  BY <1>2, <1>3, <1>4
<1> HIDE DEF w, x
<1>6. \A r \in Device \X (Nat \ {0}) :
          r \in Underway' <=> r \in Underway \/ (r = new /\ tool = "create_reminder")
  <2> SUFFICES ASSUME NEW d \in Device, NEW i \in Nat \ {0}
               PROVE  <<d, i>> \in Underway' <=>
                          <<d, i>> \in Underway \/ (<<d, i>> = new /\ tool = "create_reminder")
    OBVIOUS
  <2>1. CASE d # s
    BY <1>5, <2>1 DEF Underway
  <2>2. CASE d = s
    <3>1. <<d, i>> \in Underway' <=>
              i \in 1..(Len(w) + 1) /\ Append(w, x)[i].tool = "create_reminder"
      BY <1>5, <2>2 DEF Underway
    <3>2. <<d, i>> \in Underway <=> i \in 1..Len(w) /\ w[i].tool = "create_reminder"
      BY <1>5, <2>2 DEF Underway, w
    <3> QED
      BY <1>2, <1>4, <1>5, <2>2, <3>1, <3>2
  <2> QED
    BY <2>1, <2>2
<1>7. Underway' \subseteq Device \X (Nat \ {0}) /\ Underway \subseteq Device \X (Nat \ {0})
      /\ new \in Device \X (Nat \ {0})
  BY <1>2 DEF Underway
<1>8. new \notin Underway
  BY <1>2, <1>5 DEF Underway, w
<1>9. CASE tool = "create_reminder"
  <2>1. Underway' = Underway \cup {new}
    BY <1>6, <1>7, <1>9
  <2>2. IsFiniteSet(Underway') /\ Cardinality(Underway') = Cardinality(Underway) + 1
    BY <1>8, <2>1, FS_AddElement DEF Ledger
  <2> QED
    BY <1>3, <1>9, <2>2, LedgerCounts DEF Ledger
<1>10. CASE tool # "create_reminder"
  <2>1. Underway' = Underway
    BY <1>6, <1>7, <1>10
  <2> QED
    BY <1>3, <1>10, <2>1 DEF Ledger
<1> QED
  BY <1>9, <1>10

\* What the device serves leaves the wire: the others move up by one.
LEMMA ServeMovesUp ==
    ASSUME MirrorTyped, IsFiniteSet(Underway), NEW s \in Device, Serve(s)
    PROVE  /\ IsFiniteSet(Underway')
           /\ Cardinality(Underway') <= Cardinality(Underway \ {<<s, 1>>})
<1> DEFINE w == wire[s]
           Old(r) == IF r[1] = s THEN <<s, r[2] + 1>> ELSE r
           f == [r \in Underway' |-> Old(r)]
<1>1. wire \in [Device -> Seq(Request)] /\ w \in Seq(Request) /\ w # <<>>
      /\ wire' = [wire EXCEPT ![s] = Tail(w)]
  BY DEF MirrorTyped, Serve
<1>2. /\ wire'[s] = Tail(w) /\ \A d \in Device : d # s => wire'[d] = wire[d]
      /\ \A i \in DOMAIN Tail(w) : i + 1 \in DOMAIN w /\ Tail(w)[i] = w[i + 1]
  BY <1>1
<1>3. Underway' \subseteq Device \X (Nat \ {0})
  BY DEF Underway
<1>4. ASSUME NEW r \in Underway'
      PROVE  Old(r) \in Underway \ {<<s, 1>>}
  <2>1. PICK d \in Device, i \in Nat \ {0} : r = <<d, i>>
    BY <1>3
  <2>2. i \in DOMAIN wire'[d] /\ wire'[d][i].tool = "create_reminder"
    BY <2>1 DEF Underway
  <2>3. CASE d = s
    <3>1. i + 1 \in DOMAIN w /\ w[i + 1].tool = "create_reminder"
      BY <1>2, <2>2, <2>3
    <3>2. Old(r) = <<s, i + 1>> /\ i + 1 \in Nat \ {0, 1}
      BY <2>1, <2>3
    <3> QED
      BY <3>1, <3>2 DEF Underway
  <2>4. CASE d # s
    BY <1>2, <2>1, <2>2, <2>4 DEF Underway
  <2> QED
    BY <2>3, <2>4
<1>5. ASSUME NEW r \in Underway', NEW q \in Underway', Old(r) = Old(q)
      PROVE  r = q
  <2>1. PICK d \in Device, i \in Nat \ {0}, e \in Device, j \in Nat \ {0} :
            r = <<d, i>> /\ q = <<e, j>>
    BY <1>3
  <2>2. d = e
    BY <1>5, <2>1
  <2>3. i = j
    BY <1>5, <2>1, <2>2
  <2> QED
    BY <2>1, <2>2, <2>3
<1>6. f \in Injection(Underway', Underway \ {<<s, 1>>})
  BY <1>4, <1>5 DEF Injection, IsInjective
<1>7. IsFiniteSet(Underway \ {<<s, 1>>})
  BY FS_Subset
<1> QED
  BY <1>6, <1>7, FS_Injection, Zenon

LEMMA ServeCounts == ASSUME MirrorTyped, Ledger, NEW s \in Device, Serve(s) PROVE Ledger'
<1>1. /\ wire[s] \in Seq(Request) /\ wire[s] # <<>> /\ nextId \in [Device -> Nat]
      /\ created' = created
  BY DEF MirrorTyped, Serve
<1>2. IsFiniteSet(Underway') /\ Cardinality(Underway') \in Nat
      /\ Cardinality(Underway') <= Cardinality(Underway \ {<<s, 1>>})
  BY ServeMovesUp, FS_CardinalityType DEF Ledger
<1>3. CASE UNCHANGED nextId
  <2>1. Cardinality(Underway \ {<<s, 1>>}) <= Cardinality(Underway)
        /\ Cardinality(Underway \ {<<s, 1>>}) \in Nat
    BY FS_Subset, FS_CardinalityType DEF Ledger
  <2>2. Made' = Made
    BY <1>3 DEF Made
  <2> QED
    BY <1>1, <1>2, <2>1, <2>2, LedgerCounts DEF Ledger
<1>4. CASE Head(wire[s]).tool = "create_reminder" /\ nextId[s] \in Id
           /\ nextId' = [nextId EXCEPT ![s] = @ + 1]
  <2>1. <<s, 1>> \in Underway
    <3>1. 1 \in DOMAIN wire[s] /\ wire[s][1] = Head(wire[s])
      BY <1>1
    <3> QED
      BY <1>4, <3>1 DEF Underway
  <2>2. Cardinality(Underway \ {<<s, 1>>}) = Cardinality(Underway) - 1
    BY <2>1, FS_RemoveElement DEF Ledger
  <2> DEFINE new == <<s, nextId[s]>>
  <2>3. Made' = Made \cup {new} /\ new \notin Made
    <3>1. nextId'[s] = nextId[s] + 1 /\ \A d \in Device : d # s => nextId'[d] = nextId[d]
      BY <1>1, <1>4
    <3>2. ASSUME NEW d \in Device, NEW i \in Id
          PROVE  <<d, i>> \in Made' <=> <<d, i>> \in Made \/ <<d, i>> = new
      <4>1. i \in Nat /\ nextId[d] \in Nat /\ nextId[s] \in Nat
        BY <1>1, RemindersAssumption
      <4>2. (<<d, i>> \in Made' <=> i < nextId'[d]) /\ (<<d, i>> \in Made <=> i < nextId[d])
        BY DEF Made
      <4> QED
        BY <3>1, <4>1, <4>2
    <3>3. new \in Device \X Id /\ Made \subseteq Device \X Id /\ Made' \subseteq Device \X Id
      BY <1>4 DEF Made
    <3>4. new \notin Made
      BY <1>1, <1>4, RemindersAssumption DEF Made
    <3> HIDE DEF new
    <3> QED
      BY <3>2, <3>3, <3>4
  <2>4. IsFiniteSet(Made') /\ Cardinality(Made') = Cardinality(Made) + 1
    BY <2>3, FS_AddElement DEF Ledger
  <2> QED
    BY <1>1, <1>2, <2>2, <2>4, LedgerCounts DEF Ledger
<1> QED
  BY <1>3, <1>4 DEF Serve

LEMMA LedgerInit == Init => Ledger
<1> SUFFICES ASSUME Init PROVE Ledger
  OBVIOUS
<1>1. nextId = [d \in Device |-> 1] /\ wire = [d \in Device |-> <<>>] /\ created = 0
  BY DEF Init, RemindersInit
<1>2. \A d \in Device, i \in Id : ~ (i < nextId[d])
  BY <1>1, RemindersAssumption
<1>3. Made = {}
  BY <1>2 DEF Made
<1>4. Underway = {}
  BY <1>1 DEF Underway
<1> QED
  BY <1>1, <1>3, <1>4, FS_EmptySet DEF Ledger

LEMMA LedgerNext == ASSUME MInv, Ledger, [Next]_vars PROVE Ledger'
<1>1. CASE UNCHANGED reminderVars
  BY <1>1, LedgerKept DEF reminderVars, Underway
<1>2. ASSUME NEW s \in Device, GiveUp(s) PROVE Ledger'
  <2>1. UNCHANGED <<nextId, created>> /\ \A d \in Device :
            /\ DOMAIN wire'[d] = DOMAIN wire[d]
            /\ \A i \in DOMAIN wire[d] : wire'[d][i].tool = wire[d][i].tool
    <3>1. /\ wire \in [Device -> Seq(Request)] /\ UNCHANGED <<nextId, created>>
          /\ wire' = [wire EXCEPT ![s] = [i \in DOMAIN @ |-> [@[i] EXCEPT !.live = FALSE]]]
      BY <1>2 DEF GiveUp, MInv, MirrorTyped
    <3>2. \A i \in DOMAIN wire[s] : wire[s][i] \in Request
      BY <3>1
    <3> QED
      BY <3>1, <3>2 DEF Request
  <2>2. Underway' \subseteq Underway
    BY <2>1 DEF Underway
  <2> QED
    BY <2>1, <2>2, LedgerKept
<1>3. ASSUME NEW s \in Device, Disconnect(s) PROVE Ledger'
  <2>1. UNCHANGED <<nextId, created>> /\ \A d \in Device : wire'[d] \in {wire[d], <<>>}
    BY <1>3 DEF Disconnect, MInv, MirrorTyped
  <2>2. Underway' \subseteq Underway
    BY <2>1 DEF Underway
  <2> QED
    BY <2>1, <2>2, LedgerKept
<1>4. ASSUME NEW s \in Device, TakeAnswer(s) \/ Fire(s) PROVE Ledger'
  <2>1. UNCHANGED <<nextId, created, wire>>
    BY <1>4 DEF TakeAnswer, Fire
  <2> QED
    BY <2>1, LedgerKept DEF Underway
<1>5. CASE Next
  <2>1. PICK s \in Session :
            \/ UNCHANGED reminderVars \/ Invoke(s) \/ TakeAnswer(s) \/ GiveUp(s)
            \/ Disconnect(s) \/ Serve(s) \/ Fire(s)
    BY <1>5 DEF Next, InvokeReturns, InvokeRaises, CancelTurn, Reconnect
  <2>2. s \in Device
    BY OneSessionPerDevice
  <2> QED
    BY <1>1, <1>2, <1>3, <1>4, <2>1, <2>2, InvokeCounts, ServeCounts DEF MInv
<1> QED
  BY <1>1, <1>5 DEF vars

\* The dashboard's counter is never behind the reminders that the devices have made, whatever
\* is given up or cancelled (NoUncountedReminder).
THEOREM EveryReminderCounted == Spec => []NoUncountedReminder
<1>1. Ledger => NoUncountedReminder
  <2> SUFFICES ASSUME Ledger PROVE NoUncountedReminder
    OBVIOUS
  <2> QED
    BY LedgerCounts DEF Ledger, NoUncountedReminder
<1>2. IInv /\ MInv /\ [Next]_vars => MInv'
  BY MirrorNext
<1>3. MInv /\ Ledger /\ [Next]_vars => Ledger'
  BY LedgerNext
<1> QED
  BY <1>1, <1>2, <1>3, MirrorInit, LedgerInit, LoopInvariant, PTL DEF Spec

=============================================================================
