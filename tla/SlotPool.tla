----------------------------- MODULE SlotPool ------------------------------
(* What the cap on concurrent turns promises, whatever queue implements it: at *)
(* most Slots turns run at once, a turn queues only behind a full pool or      *)
(* another turn in the queue, and only a turn that queued is refused.          *)
EXTENDS Naturals, FiniteSets

CONSTANTS Turn, Slots

VARIABLES running, queued, refused     \* disjoint sets of turns

poolVars == <<running, queued, refused>>

Full == Cardinality(running) >= Slots

Init == running = {} /\ queued = {} /\ refused = {}

Outside(t) == t \notin running \cup queued \cup refused

\* Straight in, or from the queue.
Run(t) ==
    /\ t \notin running \cup refused /\ ~Full
    /\ running' = running \cup {t} /\ queued' = queued \ {t} /\ UNCHANGED refused

Queue(t) ==
    /\ Outside(t) /\ (Full \/ queued # {})
    /\ queued' = queued \cup {t} /\ UNCHANGED <<running, refused>>

Refuse(t) ==
    /\ t \in queued
    /\ queued' = queued \ {t} /\ refused' = refused \cup {t} /\ UNCHANGED running

\* The turn is over: it ran, gave up queuing, or has spoken the overload reply.
Leave(t) ==
    /\ ~Outside(t)
    /\ running' = running \ {t} /\ queued' = queued \ {t} /\ refused' = refused \ {t}

Next == \E t \in Turn : Run(t) \/ Queue(t) \/ Refuse(t) \/ Leave(t)

Spec == Init /\ [][Next]_poolVars

============================================================================
