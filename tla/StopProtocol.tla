---------------------------- MODULE StopProtocol ----------------------------
(***************************************************************************)
(* What the exception loop promises a caller: the target is running or     *)
(* stopped; a stop ends only by an answer given during that stop or by a   *)
(* request to end, the last answer given being the one that counts; once   *)
(* the end is requested it comes, and never while a stop is unanswered.    *)
(***************************************************************************)
VARIABLES
    phase,  \* "running", "stopped" or "ended"
    answer, \* what a caller has answered to the present stop
    ending  \* the end has been requested

vars == <<phase, answer, ending>>

Answers == {"Continue", "StepInto", "Stop"}

Init ==
    /\ phase = "running"
    /\ answer = "None"
    /\ ending = FALSE

Report ==
    /\ phase = "running"
    /\ phase' = "stopped"
    /\ answer' = "None"
    /\ UNCHANGED ending

Answer(a) ==
    /\ phase = "stopped"
    /\ answer' = a
    /\ ending' = (ending \/ a = "Stop")
    /\ UNCHANGED phase

RequestEnd ==
    /\ phase # "stopped"
    /\ ending' = TRUE
    /\ UNCHANGED <<phase, answer>>

Resume ==
    /\ phase = "stopped"
    /\ answer # "None" \/ ending
    /\ phase' = "running"
    /\ answer' = "None"
    /\ UNCHANGED ending

End ==
    /\ phase = "running"
    /\ phase' = "ended"
    /\ UNCHANGED <<answer, ending>>

Next == Report \/ (\E a \in Answers : Answer(a)) \/ RequestEnd \/ Resume \/ End

Safety == Init /\ [][Next]_vars

\* An answered stop is over, and a requested end comes.
Progress == WF_vars(Resume) /\ (ending ~> phase = "ended")

Spec == Safety /\ Progress
=============================================================================
