--------------------------------- MODULE Rpc --------------------------------
(***************************************************************************)
(* What the MCP bridge promises those who call it: a call is settled at    *)
(* most once, by its own answer, one answer settles one call, and nothing  *)
(* is answered once the session is over.  The caller may leave at any      *)
(* time.  The tools become known all at once, by the answer to the         *)
(* discovery's last call.                                                  *)
(***************************************************************************)
EXTENDS Naturals

CONSTANTS Caller, Pages

VARIABLES
    call,     \* per caller: "none", or its call is "out", "answered" or "failed"
    tools,    \* pages of tools that are known
    open      \* the session goes on

rpcVars == <<call, tools, open>>

Init == call = [c \in Caller |-> "none"] /\ tools = 0 /\ open = TRUE

Becomes(c, state) == call' = [call EXCEPT ![c] = state]

Ask(c) == call[c] = "none" /\ open /\ Becomes(c, "out") /\ UNCHANGED <<tools, open>>

\* The discovery asks for the next page with the answer to the last in hand.
AskAgain == call["discovery"] = "answered" /\ Becomes("discovery", "out") /\ UNCHANGED <<tools, open>>

Settle(c, outcome) ==
    call[c] = "out" /\ open /\ Becomes(c, outcome) /\ UNCHANGED <<tools, open>>

Leave(c) == call[c] # "none" /\ Becomes(c, "none") /\ UNCHANGED <<tools, open>>

Publish ==
    /\ call["discovery"] = "answered" /\ tools = 0
    /\ Becomes("discovery", "none") /\ tools' = Pages /\ UNCHANGED open

\* The session ends, and calls that are out may be told so.
Shut ==
    /\ open' = FALSE /\ UNCHANGED tools
    /\ \E told \in SUBSET {c \in Caller : call[c] = "out"} :
          call' = [c \in Caller |-> IF c \in told THEN "failed" ELSE call[c]]

Next ==
    \/ \E c \in Caller :
          Ask(c) \/ Leave(c) \/ \E outcome \in {"answered", "failed"} : Settle(c, outcome)
    \/ AskAgain \/ Publish \/ Shut

Spec == Init /\ [][Next]_rpcVars

============================================================================
