------------------------------- MODULE Voice --------------------------------
(***************************************************************************)
(* What one connection lets its device hear.  Turns come one after the     *)
(* other; a turn speaks at most once, between a start and a stop, and one  *)
(* that is broken off says stop, unless it was broken off in the middle of *)
(* a message.  Nothing is heard once the channel is gone.                  *)
(***************************************************************************)
EXTENDS Naturals

VARIABLES
    slow,     \* messages may have to wait, and their senders be interrupted meanwhile
    open,     \* messages reach the device
    turn,     \* how many turns there were
    phase,    \* of the last of them: "thinking", "speaking", "closing" or "over"
    told      \* the device was last told to speak

voiceVars == <<slow, open, turn, phase, told>>

Init == slow \in BOOLEAN /\ open = TRUE /\ turn = 0 /\ phase = "over" /\ told = FALSE

Begin ==
    /\ open /\ phase = "over"
    /\ turn' = turn + 1 /\ phase' = "thinking"
    /\ UNCHANGED <<slow, open, told>>

Goes(from, to) == open /\ phase = from /\ phase' \in to /\ UNCHANGED <<slow, open, turn>>

Start == Goes("thinking", {"speaking"}) /\ told' = TRUE

\* Afterwards a reminder's turn closes the channel.
Stop == Goes("speaking", {"closing", "over"}) /\ told' = FALSE

\* A turn that is broken off before it speaks, and one that has nothing to say.
Hush == Goes("thinking", {"over"}) /\ told' = FALSE
Pass == Goes("thinking", {"closing", "over"}) /\ UNCHANGED told

StayOpen == Goes("closing", {"over"}) /\ UNCHANGED told

\* Broken off while its start or its stop waits: nobody knows whether it was heard.
CutOff == slow /\ (Goes("thinking", {"over"}) \/ Goes("speaking", {"over"})) /\ told' \in BOOLEAN

\* The channel is gone: what the server does then is not heard.
Gone == ~open' /\ UNCHANGED <<slow, told>>

Next == Begin \/ Start \/ Stop \/ Hush \/ Pass \/ StayOpen \/ CutOff \/ Gone

Spec == Init /\ [][Next]_voiceVars

============================================================================
