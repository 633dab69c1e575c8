--------------------------- MODULE ConnectionLoop ----------------------------
(***************************************************************************)
(* What a connect loop promises its owner (KeepConnectedHandle in          *)
(* connection/channelConnector.ts): one connection at a time, none once    *)
(* stop was called, and an end that is final and comes after every stop.   *)
(***************************************************************************)
VARIABLES
    stopped,   \* stop() was called, or the signal was aborted
    phase      \* "idle", "connected" or "ended"

loopVars == <<stopped, phase>>

LoopInit == stopped \in BOOLEAN /\ phase = "idle"

Connect ==
    /\ phase = "idle"
    /\ ~stopped
    /\ phase' = "connected"
    /\ UNCHANGED stopped

Lose ==
    /\ phase = "connected"
    /\ phase' = "idle"
    /\ UNCHANGED stopped

\* stop() takes the connection down on the spot.
LoopStop ==
    /\ ~stopped
    /\ stopped' = TRUE
    /\ phase' = IF phase = "connected" THEN "idle" ELSE phase

\* The loop is over: it was stopped, it may not redial, or an attempt failed for good.
End ==
    /\ phase # "ended"
    /\ phase' = "ended"
    /\ UNCHANGED stopped

LoopNext == Connect \/ Lose \/ LoopStop \/ End

LoopSafe == LoopInit /\ [][LoopNext]_loopVars

LoopSpec == LoopSafe /\ WF_loopVars(stopped /\ End)
=============================================================================
