---------------------------- MODULE Conversation ----------------------------
(***************************************************************************)
(* What a conversation leaves behind: the tool loop of each session        *)
(* (ToolLoop) calls the device's tools through _traced_invoke of           *)
(* server/session.py, and the device's reminders and the server's mirror   *)
(* of them (Reminders) change with it.  A turn may time out, fail or be    *)
(* cancelled at each await, and a device may fall off the net.             *)
(***************************************************************************)
EXTENDS ToolLoop, Reminders, FiniteSets

\* The server would let two sockets speak for one Device-Id; a device opens one.
ASSUME OneSessionPerDevice == Session = Device

vars == <<loopVars, reminderVars>>

Init == LoopInit /\ RemindersInit

----------------------------------------------------------------------------

\* The LLM asks for a tool, with an id it may have made up.
Invoke(s) ==
    /\ MakeCall(s)
    /\ \E tool \in Tools, id \in Id :
          /\ tool # "delete_reminder" => id = 1
          /\ SendCall(s, tool, id)

InvokeReturns(s) == EndCall(s) /\ TakeAnswer(s)

\* call_tool raises: the timer fired, the answer was an error, or the send failed.
InvokeRaises(s) == answer[s] = NoAnswer /\ EndCall(s) /\ GiveUp(s)

\* The abort of session.py 470-473, at either await of the loop.
CancelTurn(s) ==
    /\ Cancelled(s)
    /\ IF loop[s].pc = "call" THEN GiveUp(s) ELSE UNCHANGED reminderVars

Reconnect(s) == FreshSession(s) /\ Disconnect(s)

Next ==
    \E s \in Session :
        \/ /\ BeginTurn(s) \/ Replied(s) \/ LlmTimesOut(s) \/ LlmRaises(s) \/ ArgsUnreadable(s)
           /\ UNCHANGED reminderVars
        \/ Invoke(s) \/ InvokeReturns(s) \/ InvokeRaises(s)
        \/ CancelTurn(s) \/ Reconnect(s)
        \/ (Serve(s) \/ Fire(s)) /\ UNCHANGED loopVars

Spec == Init /\ [][Next]_vars

----------------------------------------------------------------------------
(* Properties *)

\* Whatever times out, fails or is cancelled, no request goes out in which a tool call lacks
\* its result, neither of this turn nor of one before: except for the reply that anthropic
\* cut at max_tokens, after which every later request of the session is refused
\* (anthropic_provider.py 137, 166; openai_provider.py 194-200).
RequestsPaired ==
    \A s \in Session : loop[s].pc = "request" =>
        \A i \in DOMAIN loop[s].msgs :
            Answered(loop[s].msgs, i) \/ (provider = "anthropic" /\ loop[s].msgs[i].cut)

\* The history grows by whole turns: nothing of an earlier turn is changed, and a turn that
\* was cancelled in the middle of its calls adds nothing (session.py 615-632).
HistoryGrowsByTurns ==
    [][\A s \in Session : history'[s] \notin {history[s], <<>>} =>
          /\ IsStrictPrefix(history[s], history'[s])
          /\ history'[s][Len(history[s]) + 1] = User
          /\ \A i \in DOMAIN history'[s] :
                Answered(history'[s], i) \/ (provider = "anthropic" /\ history'[s][i].cut)]_vars

\* What is spoken is the newest text in the history, and of an earlier turn only when the
\* rounds have run out (the else of the for loop).
SpokenIsNewest ==
    \A s \in Session : LET l == loop[s] IN
        l.pc = "idle" /\ l.said > 0 =>
            /\ \A i \in DOMAIN history[s] : history[s][i].text => i <= l.said
            /\ l.said > l.base \/ l.round = MaxRounds

\* When no call is under way, the dashboard's list is the device's, unless since the last
\* snapshot a reminder fired, a call was given up, a deletion was refused, or the device was
\* forgotten for the cap on tracked devices (live_state.py 244-288).
MirrorExplained ==
    \A d \in Device :
        loop[d].pc # "call" /\ d \notin drifted => Mirrored(d) = store[d]

\* The reminders the devices have made so far: each counts its ids up from 1.
Made == {r \in Device \X Id : r[2] < nextId[r[1]]}

\* No device has made a reminder the dashboard's counter has not counted, also when the turn
\* was cancelled while the call was out (session.py 602-603).
NoUncountedReminder == Cardinality(Made) <= created

============================================================================
