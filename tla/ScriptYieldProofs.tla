-------------------------- MODULE ScriptYieldProofs --------------------------
(***************************************************************************)
(* A proof that a yielded script stays put, for any number of starts,      *)
(* aborts and resumptions.  RequestHolds is inductive together with two    *)
(* facts about the atomics: only the callback of a breakpoint that saw a   *)
(* script on has a request standing (RequestIsMine), and the active flag   *)
(* is up only while some thread is inside its yield (ActiveIsUsed).  The   *)
(* second is what makes a flag left over from the event before harmless    *)
(* here: whoever left it up has not gone back to its command.              *)
(* The types come after it, in an invariant of their own, and last, from   *)
(* all of them, that a script leaves the wait for its run at real stops.   *)
(***************************************************************************)
EXTENDS ScriptYield, TLAPS

Label == WorkerAt \cup LoopAt \cup UserAt

\* The part of the types the argument needs.
Shape ==
    /\ pc \in [Thread -> Label]
    /\ ret \in [Interpreter -> {"top", "wait", "judge"}]
    /\ active \in BOOLEAN

\* A request stands only while the event that made it is being handled.
RequestIsMine ==
    /\ pc["debug"] = "ask" => seen # "paused"
    /\ reason = "yield" =>
           /\ pc["debug"] \in Callback \cup {"await"}
           /\ seen # "paused" \/ pc["debug"] \in {"resume", "clearing"}

\* The flag is up only for a thread that has raised it and not yet lowered it.
ActiveIsUsed ==
    active = TRUE => \E t \in Interpreter : pc[t] \in {"yielded", "waking"}

IInv == Shape /\ RequestIsMine /\ ActiveIsUsed /\ RequestHolds

USE DEF Goes, Label, Thread, WorkerAt, LoopAt, UserAt, Callback, InterpreterAt,
        Interpreter, script, loop, jobs, frame

\* Nothing is asked of anybody at the start.
LEMMA InitIInv == Init => IInv
<1> SUFFICES ASSUME Init PROVE IInv
    OBVIOUS
<1>1. Shape
    BY DEF Init, Shape, Thread
<1>2. RequestIsMine /\ ActiveIsUsed /\ RequestHolds
    BY DEF Init, RequestIsMine, ActiveIsUsed, RequestHolds
<1> QED
    BY <1>1, <1>2 DEF IInv


\* A command that is over leaves the interpreter, on either thread.
LEMMA FinishShape ==
    ASSUME NEW t \in Interpreter, NEW o, Shape, Finish(t, o)
    PROVE  /\ pc' \in [Thread -> Label]
           /\ ret' \in [Interpreter -> {"top", "wait", "judge"}]
           /\ t = "debug" => pc' = [pc EXCEPT !["debug"] = "merge"]
           /\ t = "script" => \E label \in {"top", "report", "release"} :
                                  pc' = [pc EXCEPT !["script"] = label]
<1>1. PICK label \in After(t, o) : pc' = [pc EXCEPT ![t] = label]
    BY DEF Finish
<1>2. /\ t = "debug" => label = "merge"
      /\ t = "script" => label \in {"top", "report", "release"}
    BY DEF After
<1>3. ret' = [ret EXCEPT ![t] = "top"]
    BY DEF Finish
<1> QED
    BY <1>1, <1>2, <1>3 DEF Shape

\* The interpreter keeps the invariant on whichever thread it runs.
LEMMA InterpretsIInv ==
    ASSUME NEW t \in Interpreter, IInv, Interprets(t)
    PROVE  IInv'
<1> USE DEF IInv, Shape, RequestIsMine, ActiveIsUsed, RequestHolds
<1>1. CASE Internal(t)
    <2>1. PICK o \in Outcome : Finish(t, o)
        BY <1>1 DEF Internal
    <2> QED
        BY <1>1, <2>1, FinishShape DEF Internal
<1>2. CASE External(t)
    BY <1>2 DEF External
<1>3. CASE Wait(t)
    BY <1>3 DEF Wait, Calls
<1>4. CASE Collect(t)
    BY <1>4 DEF Collect
<1>5. CASE Check(t)
    BY <1>5 DEF Check, Calls
<1>6. CASE Judge(t)
    <2>1. PICK o \in Outcome \cup {Normal(t)} : Finish(t, o)
        BY <1>6 DEF Judge, Outcome
    <2> QED
        BY <1>6, <2>1, FinishShape DEF Judge
<1>7. CASE Undisturbed(t)
    BY <1>7 DEF Undisturbed
<1>8. CASE Aborted(t)
    <2>1. CASE ret[t] = "top"
        BY <1>8, <2>1 DEF Aborted
    <2>2. CASE ret[t] # "top"
        <3>1. Finish(t, "abort")
            BY <1>8, <2>2 DEF Aborted
        <3> QED
            BY <1>8, <3>1, FinishShape DEF Aborted
    <2> QED
        BY <2>1, <2>2
<1>9. CASE Yields(t)
    BY <1>9 DEF Yields
<1>12. CASE Raises(t)
    BY <1>12 DEF Raises
<1>10. CASE Wakes(t)
    BY <1>10 DEF Wakes
<1>11. CASE Awake(t)
    BY <1>11 DEF Awake
<1> QED
    BY <1>1, <1>2, <1>3, <1>4, <1>5, <1>6, <1>7, <1>8, <1>9, <1>10, <1>11, <1>12 DEF Interprets

\* The stores of a reset take requests and flags back, one by one.
LEMMA StoresIInv ==
    ASSUME IInv, NEW label \in Label, pc' = [pc EXCEPT !["script"] = label],
           pc["script"] \notin {"poll", "raise", "yielded", "waking"},
           reason' \in {"none", reason}, active' \in {FALSE, active}, UNCHANGED <<ret, seen>>
    PROVE  IInv'
<1> USE DEF IInv, Shape
<1>1. Shape'
    BY DEF Shape
<1>2. pc'["debug"] = pc["debug"]
    BY DEF Shape
<1>3. RequestIsMine' /\ RequestHolds'
    BY <1>2 DEF RequestIsMine, RequestHolds
<1>4. ActiveIsUsed'
    BY <1>2 DEF ActiveIsUsed
<1> QED
    BY <1>1, <1>3, <1>4

\* The worker of the script queue keeps the invariant.
LEMMA WorkerIInv == IInv /\ Worker => IInv'
<1> SUFFICES ASSUME IInv, Worker PROVE IInv'
    OBVIOUS
<1> USE DEF IInv, Shape, RequestIsMine, ActiveIsUsed, RequestHolds
<1>1. CASE Take
    BY <1>1 DEF Take
<1>2. CASE Test
    BY <1>2 DEF Test
<1>3. CASE Claim
    <2> HIDE DEF IInv, Shape, RequestIsMine, ActiveIsUsed, RequestHolds
    <2>1. pc["script"] = "claim" /\ pc' = [pc EXCEPT !["script"] = "reset"]
        BY <1>3 DEF Claim
    <2>2. reason' = reason /\ active' = active /\ UNCHANGED <<ret, seen>>
        BY <1>3, Zenon DEF Claim
    <2> QED
        BY <2>1, <2>2, StoresIInv DEF Label
<1>4. CASE Reset
    <2>1. PICK label \in {"lower", "forget", "top", "begin"} :
              pc' = [pc EXCEPT !["script"] = label]
        BY <1>4 DEF Reset, Resets
    <2>2. reason' \in {"none", reason} /\ active' \in {FALSE, active} /\ UNCHANGED <<ret, seen>>
          /\ pc["script"] \in {"reset", "lower", "forget"}
        BY <1>4 DEF Reset, Resets
    <2> QED
        BY <2>1, <2>2, StoresIInv
<1>5. CASE Begin
    BY <1>5 DEF Begin
<1>6. CASE Top
    <2> HIDE DEF IInv, Shape, RequestIsMine, ActiveIsUsed, RequestHolds
    <2>1. /\ pc["script"] = "top" /\ pc' = [pc EXCEPT !["script"] = "poll"]
          /\ ret' = [ret EXCEPT !["script"] = "top"]
          /\ UNCHANGED <<reason, active, seen>>
        BY <1>6 DEF Top, Calls
    <2>2. Shape'
        BY <2>1 DEF IInv, Shape
    <2>3. pc'["debug"] = pc["debug"]
        BY <2>1 DEF IInv, Shape
    <2>4. RequestIsMine' /\ RequestHolds'
        BY <2>1, <2>3 DEF IInv, Shape, RequestIsMine, RequestHolds
    <2>5. ActiveIsUsed'
        BY <2>1 DEF IInv, Shape, ActiveIsUsed
    <2> QED
        BY <2>2, <2>4, <2>5 DEF IInv
<1>7. CASE Release
    <2>1. PICK label \in {"clear", "clearActive", "clearPending", "idle"} :
              pc' = [pc EXCEPT !["script"] = label]
        BY <1>7 DEF Release, Resets
    <2>2. reason' \in {"none", reason} /\ active' \in {FALSE, active} /\ UNCHANGED <<ret, seen>>
          /\ pc["script"] \in {"release", "clear", "clearActive", "clearPending"}
        BY <1>7 DEF Release, Resets
    <2> QED
        BY <2>1, <2>2, StoresIInv
<1>9. CASE Report
    BY <1>9 DEF Report
<1>10. CASE CallStarts
    <2>1. Finish("script", "continue")
        BY <1>10 DEF CallStarts
    <2> QED
        BY <1>10, <2>1, FinishShape DEF CallStarts
<1>11. CASE RunsTarget
    BY <1>11 DEF RunsTarget
<1>12. CASE Interprets("script")
    BY <1>12, InterpretsIInv
<1> QED
    BY <1>1, <1>2, <1>3, <1>4, <1>5, <1>6, <1>7, <1>9, <1>10, <1>11,
       <1>12 DEF Worker

\* So does the thread that handles a breakpoint.
LEMMA HandlesIInv == IInv /\ Handles => IInv'
<1> SUFFICES ASSUME IInv, Handles PROVE IInv'
    OBVIOUS
<1> USE DEF IInv, Shape, RequestIsMine, ActiveIsUsed, RequestHolds
<1>1. CASE Load
    BY <1>1 DEF Load
<1>2. CASE Ask
    BY <1>2 DEF Ask
<1>3. CASE Await
    BY <1>3 DEF Await
<1>4. CASE Lock
    BY <1>4 DEF Lock
<1>5. CASE Decide
    BY <1>5 DEF Decide
<1>6. CASE Offer
    BY <1>6 DEF Offer
<1>16. CASE OfferReason
    BY <1>16 DEF OfferReason, Queues
<1>7. CASE Join
    BY <1>7 DEF Join
<1>8. CASE Pick
    BY <1>8 DEF Pick, Queues
<1>9. CASE Answered
    BY <1>9 DEF Answered
<1>10. CASE Merge
    BY <1>10 DEF Merge
<1>11. CASE Conclude
    BY <1>11 DEF Conclude
<1>12. CASE Resume
    BY <1>12 DEF Resume
<1>13. CASE Clearing
    BY <1>13 DEF Clearing
<1>14. CASE Go
    BY <1>14 DEF Go
<1>15. CASE Interprets("debug")
    BY <1>15, InterpretsIInv
<1> QED
    BY <1>1, <1>2, <1>3, <1>4, <1>5, <1>6, <1>7, <1>8, <1>9, <1>10, <1>11,
       <1>12, <1>13, <1>14, <1>15, <1>16 DEF Handles

\* And the target and the user.
LEMMA OthersIInv == IInv /\ (Hit \/ Ends \/ UserStarts \/ UserRuns \/ UserAborts \/ AbortsOn) => IInv'
<1> SUFFICES ASSUME IInv, (Hit \/ Ends \/ UserStarts \/ UserRuns \/ UserAborts \/ AbortsOn) PROVE IInv'
    OBVIOUS
<1> USE DEF IInv, Shape, RequestIsMine, ActiveIsUsed, RequestHolds
<1>1. CASE Hit
    BY <1>1 DEF Hit
<1>2. CASE Ends
    BY <1>2 DEF Ends
<1>3. CASE UserStarts
    BY <1>3 DEF UserStarts
<1>4. CASE UserRuns
    BY <1>4 DEF UserRuns
<1>5. CASE UserAborts
    BY <1>5 DEF UserAborts
<1>6. CASE Interrupt
    BY <1>6 DEF Interrupt
<1>7. CASE Flush
    BY <1>7 DEF Flush
<1>8. CASE Flushed
    BY <1>8 DEF Flushed
<1> QED
    BY <1>1, <1>2, <1>3, <1>4, <1>5, <1>6, <1>7, <1>8 DEF AbortsOn

\* RequestHolds, whatever the bounds: while a breakpoint is being handled and its
\* request stands, the script's thread stays inside scriptHandleInterrupt.
THEOREM ScriptStaysYielded == Spec => []RequestHolds
<1>1. IInv /\ UNCHANGED vars => IInv'
    BY DEF IInv, Shape, RequestIsMine, ActiveIsUsed, RequestHolds, vars
<1>2. IInv /\ [Next]_vars => IInv'
    BY <1>1, WorkerIInv, HandlesIInv, OthersIInv DEF Next
<1>3. IInv => RequestHolds
    BY DEF IInv
<1> QED
    BY InitIInv, <1>2, <1>3, PTL DEF Spec

-----------------------------------------------------------------------------
(***************************************************************************)
(* The types.  They rest on one fact that is not a type: the interpreter   *)
(* on the debug thread never runs the loop over a script's lines, so its   *)
(* interrupts never return to the top of that loop.                        *)
(***************************************************************************)
Typed ==
    /\ TypeOK
    /\ pc \in [Thread -> Label]
    /\ pc["debug"] \in {"poll", "raise", "yielded", "waking"} => ret["debug"] # "top"

LEMMA InitTyped == Init => Typed
<1> SUFFICES ASSUME Init PROVE Typed
    OBVIOUS
<1>1. pc \in [Thread -> Label] /\ pc["script"] = "idle" /\ pc["debug"] = "stopped" /\ pc["user"] = "free"
    BY DEF Init
<1>2. /\ queue \in Seq(Job) /\ job \in Job /\ seen \in State
      /\ scriptState \in State /\ reason \in Reason /\ pending \in Outcome
    BY DEF Init, State, Reason, Outcome, Job, Start
<1>3. /\ ret \in [Interpreter -> {"top", "wait", "judge"}]
      /\ ok \in [Interpreter -> BOOLEAN] /\ taken \in [Interpreter -> Outcome]
    BY DEF Init, Outcome
<1>4. {active, running, debugging, meddled} \subseteq BOOLEAN /\ done = {}
    BY DEF Init
<1> QED
    BY <1>1, <1>2, <1>3, <1>4 DEF Typed, TypeOK

\* The part of the types that a finished command changes.
FrameTyped ==
    /\ pc \in [Thread -> Label]
    /\ pc["script"] \in WorkerAt /\ pc["debug"] \in LoopAt /\ pc["user"] \in UserAt
    /\ ret \in [Interpreter -> {"top", "wait", "judge"}]
    /\ ok \in [Interpreter -> BOOLEAN] /\ taken \in [Interpreter -> Outcome]
    /\ pc["debug"] \in {"poll", "raise", "yielded", "waking"} => ret["debug"] # "top"

LEMMA FinishTyped ==
    ASSUME NEW t \in Interpreter, NEW o \in Outcome, Typed, Finish(t, o)
    PROVE  FrameTyped'
<1>1. PICK label \in After(t, o) : pc' = [pc EXCEPT ![t] = label]
    BY DEF Finish
<1>2. /\ t = "debug" => label = "merge"
      /\ t = "script" => label \in {"top", "report", "release"}
    BY <1>1 DEF After
<1>3. taken' \in [Interpreter -> Outcome]
    BY DEF Finish, Typed, TypeOK, Outcome
<1>4. /\ ret' = [ret EXCEPT ![t] = "top"] /\ ok' = [ok EXCEPT ![t] = TRUE]
    BY DEF Finish
<1>5. CASE t = "debug"
    BY <1>1, <1>2, <1>3, <1>4, <1>5 DEF Typed, TypeOK, FrameTyped
<1>6. CASE t = "script"
    BY <1>1, <1>2, <1>3, <1>4, <1>6 DEF Typed, TypeOK, FrameTyped
<1> QED
    BY <1>5, <1>6

LEMMA InterpretsTyped ==
    ASSUME NEW t \in Interpreter, Typed, Interprets(t)
    PROVE  Typed'
<1> USE DEF Typed, TypeOK
<1>0. Normal(t) \in Outcome /\ "abort" \in Outcome /\ "pause" \in Outcome
    BY DEF Normal, Outcome
<1>1. CASE Internal(t)
    <2>1. PICK o \in Outcome : Finish(t, o)
        BY <1>1 DEF Internal
    <2> QED
        BY <1>1, <2>1, FinishTyped DEF FrameTyped, Internal
<1>2. CASE External(t)
    BY <1>2 DEF External
<1>3. CASE Wait(t)
    BY <1>3 DEF Wait, Calls
<1>4. CASE Collect(t)
    BY <1>4 DEF Collect, Outcome
<1>5. CASE Check(t)
    BY <1>5 DEF Check, Calls
<1>6. CASE Judge(t)
    <2>1. PICK o \in Outcome : Finish(t, o)
        BY <1>0, <1>6 DEF Judge
    <2> QED
        BY <1>6, <2>1, FinishTyped DEF FrameTyped, Judge
<1>7. CASE Undisturbed(t)
    BY <1>7 DEF Undisturbed
<1>8. CASE Aborted(t)
    <2>1. CASE ret[t] = "top"
        BY <1>8, <2>1 DEF Aborted
    <2>2. CASE ret[t] # "top"
        <3>1. Finish(t, "abort")
            BY <1>8, <2>2 DEF Aborted
        <3> QED
            BY <1>0, <1>8, <3>1, FinishTyped DEF FrameTyped, Aborted
    <2> QED
        BY <2>1, <2>2
<1>9. CASE Yields(t)
    BY <1>9 DEF Yields
<1>12. CASE Raises(t)
    BY <1>12 DEF Raises
<1>10. CASE Wakes(t)
    BY <1>10 DEF Wakes
<1>11. CASE Awake(t)
    BY <1>11 DEF Awake
<1> QED
    BY <1>1, <1>2, <1>3, <1>4, <1>5, <1>6, <1>7, <1>8, <1>9, <1>10, <1>11, <1>12 DEF Interprets

LEMMA WorkerTyped == ASSUME Typed, Worker PROVE Typed'
<1> USE DEF Typed, TypeOK, State, Reason, Outcome, Job, Start
<1>1. CASE Take
    <2>1. queue' \in Seq(Job) /\ job' \in Job
        BY <1>1 DEF Take
    <2> QED
        BY <1>1, <2>1 DEF Take
<1>2. CASE Test
    BY <1>2 DEF Test
<1>3. CASE Claim
    BY <1>3 DEF Claim
<1>4. CASE Reset
    <2>1. \E label \in {"lower", "forget", "top", "begin"} :
              pc' = [pc EXCEPT !["script"] = label]
        BY <1>4 DEF Reset, Resets
    <2>2. reason' \in Reason /\ pending' \in Outcome /\ active' \in BOOLEAN
        BY <1>4 DEF Reset, Resets
    <2>3. UNCHANGED <<scriptState, loop, jobs, frame, seen, left, meddled>>
        BY <1>4 DEF Reset
    <2> QED
        BY <2>1, <2>2, <2>3
<1>5. CASE Begin
    BY <1>5 DEF Begin
<1>6. CASE Top
    BY <1>6 DEF Top, Calls
<1>7. CASE Release
    <2>1. \E label \in {"clear", "clearActive", "clearPending", "idle"} :
              pc' = [pc EXCEPT !["script"] = label]
        BY <1>7 DEF Release, Resets
    <2>2. /\ reason' \in Reason /\ pending' \in Outcome /\ active' \in BOOLEAN
          /\ scriptState' \in State
        BY <1>7 DEF Release, Resets
    <2>3. UNCHANGED <<loop, jobs, frame, seen, left, meddled>>
        BY <1>7 DEF Release
    <2> QED
        BY <2>1, <2>2, <2>3
<1>9. CASE Report
    BY <1>9 DEF Report
<1>10. CASE CallStarts
    <2>1. Finish("script", "continue") /\ queue' \in Seq(Job)
        BY <1>10 DEF CallStarts
    <2> QED
        BY <1>10, <2>1, FinishTyped DEF FrameTyped, CallStarts
<1>11. CASE RunsTarget
    BY <1>11 DEF RunsTarget
<1>12. CASE Interprets("script")
    BY <1>12, InterpretsTyped
<1> QED
    BY <1>1, <1>2, <1>3, <1>4, <1>5, <1>6, <1>7, <1>9, <1>10, <1>11,
       <1>12 DEF Worker

LEMMA HandlesTyped == ASSUME Typed, Handles PROVE Typed'
<1> USE DEF Typed, TypeOK, State, Reason, Outcome, Job, Start
<1>1. CASE Load
    BY <1>1 DEF Load
<1>2. CASE Ask
    BY <1>2 DEF Ask
<1>3. CASE Await
    BY <1>3 DEF Await
<1>4. CASE Lock
    <2>1. pc' = [pc EXCEPT !["debug"] = "decide"] /\ running' = FALSE
        BY <1>4 DEF Lock
    <2>2. UNCHANGED <<script, debugging, jobs, frame, seen, left, meddled>>
        BY <1>4 DEF Lock
    <2>3. {active', running', debugging', meddled'} \subseteq BOOLEAN
        BY <2>1, <2>2
    <2> QED
        BY <2>1, <2>2, <2>3
<1>5. CASE Decide
    BY <1>5 DEF Decide
<1>6. CASE Offer
    BY <1>6 DEF Offer
<1>16. CASE OfferReason
    <2>1. queue' \in Seq(Job)
        BY <1>16 DEF OfferReason, Queues
    <2> QED
        BY <1>16, <2>1 DEF OfferReason, Queues
<1>7. CASE Join
    BY <1>7 DEF Join
<1>8. CASE Pick
    <2>1. queue' \in Seq(Job)
        BY <1>8 DEF Pick, Queues
    <2>2. pc["debug"] = "pick" /\ pc'["debug"] \in {"command", "queued"}
        BY <1>8 DEF Pick, Queues
    <2> QED
        BY <1>8, <2>1, <2>2 DEF Pick, Queues
<1>9. CASE Answered
    BY <1>9 DEF Answered
<1>10. CASE Merge
    BY <1>10 DEF Merge
<1>11. CASE Conclude
    <2>1. \E label \in {"stopped", "resume"} : pc' = [pc EXCEPT !["debug"] = label]
        BY <1>11 DEF Conclude
    <2>2. running' \in BOOLEAN /\ seen' \in State /\ taken' \in [Interpreter -> Outcome]
        BY <1>11 DEF Conclude
    <2>3. UNCHANGED <<script, debugging, jobs, ret, ok, left, meddled>>
        BY <1>11 DEF Conclude
    <2> QED
        BY <2>1, <2>2, <2>3
<1>12. CASE Resume
    BY <1>12 DEF Resume
<1>13. CASE Clearing
    BY <1>13 DEF Clearing
<1>14. CASE Go
    BY <1>14 DEF Go
<1>15. CASE Interprets("debug")
    BY <1>15, InterpretsTyped
<1> QED
    BY <1>1, <1>2, <1>3, <1>4, <1>5, <1>6, <1>7, <1>8, <1>9, <1>10, <1>11,
       <1>12, <1>13, <1>14, <1>15, <1>16 DEF Handles

LEMMA OthersTyped ==
    ASSUME Typed, Hit \/ Ends \/ UserStarts \/ UserRuns \/ UserAborts \/ AbortsOn
    PROVE  Typed'
<1> USE DEF Typed, TypeOK, State, Reason, Outcome, Job, Start
<1>1. CASE Hit
    BY <1>1 DEF Hit
<1>2. CASE Ends
    <2>1. pc' = [pc EXCEPT !["debug"] = "over"] /\ debugging' = FALSE
        BY <1>2 DEF Ends
    <2>2. UNCHANGED <<script, running, jobs, frame, seen, left, meddled>>
        BY <1>2 DEF Ends
    <2>3. {active', running', debugging', meddled'} \subseteq BOOLEAN
        BY <2>1, <2>2
    <2> QED
        BY <2>1, <2>2, <2>3
<1>3. CASE UserStarts
    <2>1. queue' \in Seq(Job)
        BY <1>3 DEF UserStarts
    <2>2. meddled' \in BOOLEAN
        BY <1>3 DEF UserStarts, StandsStill
    <2> QED
        BY <1>3, <2>1, <2>2 DEF UserStarts
<1>4. CASE UserRuns
    BY <1>4 DEF UserRuns
<1>5. CASE UserAborts
    BY <1>5 DEF UserAborts
<1>6. CASE Interrupt
    BY <1>6 DEF Interrupt
<1>7. CASE Flush
    <2>1. queue' \in Seq(Job)
        BY <1>7 DEF Flush
    <2> QED
        BY <1>7, <2>1 DEF Flush
<1>8. CASE Flushed
    BY <1>8 DEF Flushed
<1> QED
    BY <1>1, <1>2, <1>3, <1>4, <1>5, <1>6, <1>7, <1>8 DEF AbortsOn

(***************************************************************************)
(* The three threads, the atomics and the job queue keep their types for   *)
(* any number of starts, aborts and resumptions.                           *)
(***************************************************************************)
THEOREM TypeCorrect == Spec => []TypeOK
<1>1. Typed /\ UNCHANGED vars => Typed'
    BY DEF Typed, TypeOK, vars
<1>2. Typed /\ [Next]_vars => Typed'
    BY <1>1, WorkerTyped, HandlesTyped, OthersTyped DEF Next
<1>3. Typed => TypeOK
    BY DEF Typed
<1> QED
    BY InitTyped, <1>2, <1>3, PTL DEF Spec

-----------------------------------------------------------------------------
(***************************************************************************)
(* What a script that waits for its run may take for the stop.  As long as *)
(* the user leaves the running target alone, a target that runs, and a     *)
(* breakpoint that is looked at, are the doing of a script that waits for  *)
(* them, so every callback finds a script that is on and makes a request;  *)
(* with RequestHolds the script is then not at its test of WAITID_RUN,     *)
(* which the callback has closed.                                          *)
(***************************************************************************)
\* The target runs, or its debug loop is busy with a breakpoint of it.
Out == pc["debug"] \notin {"stopped", "over"} \/ (debugging /\ running)

\* The debug loop runs with the target and with WAITID_RUN.
LoopAgrees ==
    /\ pc["debug"] \in {"target", "load", "ask", "await", "lock"} => running
    /\ pc["debug"] # "over" => debugging

\* A script that executes commands is not in the state "paused".
StateIsOn ==
    (\/ job \in {"run", "step"} /\ pc["script"] \in InterpreterAt \cup {"top"}
     \/ job = "run" /\ pc["script"] \in {"reset", "lower", "forget"}) => scriptState # "paused"

\* The script is inside the wait of the command that made the target run.
OnItsRun ==
    /\ pc["script"] \in {"wait", "poll", "raise", "yielded", "waking"}
    /\ pc["script"] # "wait" => ret["script"] = "wait"
    /\ scriptState # "paused"

\* As long as the user only acts while the debugger stands still, it is a script
\* that makes the target run, and every event of that run asks it to yield.
ScriptsRun ==
    ~meddled =>
        /\ reason # "abort" /\ pc["user"] = "free"
        /\ Out => OnItsRun
        /\ pc["debug"] \in Callback \cup {"await"} => reason = "yield"
        /\ pc["debug"] \in (Callback \cup {"ask", "await"}) \ {"resume", "clearing"}
               => seen # "paused"

RunInv == Typed /\ IInv /\ LoopAgrees /\ StateIsOn /\ ScriptsRun

\* What the leaves below expand.
USE DEF Out, LoopAgrees, StateIsOn, OnItsRun, ScriptsRun

LEMMA InitRunInv == Init => RunInv
<1> SUFFICES ASSUME Init PROVE RunInv
    OBVIOUS
<1>1. LoopAgrees /\ StateIsOn /\ ScriptsRun
    BY DEF Init
<1> QED
    BY <1>1, InitTyped, InitIInv DEF RunInv

\* Whoever finishes a command on the script's thread was executing one.
LEMMA FinishRun ==
    ASSUME NEW t \in Interpreter, NEW o \in Outcome, RunInv, Finish(t, o),
           pc[t] \in InterpreterAt,
           t = "script" => meddled \/ pc["script"] \notin {"wait", "poll", "raise", "yielded", "waking"},
           UNCHANGED <<scriptState, reason, loop, job, seen>>,
           UNCHANGED meddled \/ meddled' = TRUE
    PROVE  (LoopAgrees /\ StateIsOn /\ ScriptsRun)'
<1>1. PICK label \in After(t, o) : pc' = [pc EXCEPT ![t] = label]
    BY DEF Finish
<1>2. CASE t = "debug"
    <2>1. pc' = [pc EXCEPT !["debug"] = "merge"] /\ ret'["script"] = ret["script"]
        BY <1>1, <1>2 DEF After, Finish, RunInv, IInv, Shape
    <2> QED
        BY <1>2, <2>1 DEF RunInv, IInv, Shape
<1>3. CASE t = "script"
    <2>1. label \in {"top", "report", "release"} /\ (label = "top" => job = "run")
        BY <1>1, <1>3 DEF After
    <2> QED
        BY <1>1, <1>3, <2>1 DEF RunInv, IInv, Shape
<1> QED
    BY <1>2, <1>3

\* The interpreter keeps it on whichever thread it runs.
LEMMA InterpretsRun ==
    ASSUME NEW t \in Interpreter, RunInv, Interprets(t)
    PROVE  (LoopAgrees /\ StateIsOn /\ ScriptsRun)'
<1> USE DEF RunInv, Typed, TypeOK, IInv, RequestHolds
<1>0. Normal(t) \in Outcome /\ "abort" \in Outcome /\ "pause" \in Outcome
    BY DEF Normal, Outcome
<1>1. CASE Internal(t)
    <2>1. PICK o \in Outcome : Finish(t, o)
        BY <1>1 DEF Internal
    <2> QED
        BY <1>1, <2>1, FinishRun DEF Internal
<1>2. CASE External(t)
    BY <1>2 DEF External
<1>3. CASE Wait(t)
    BY <1>3 DEF Wait, Calls
<1>4. CASE Collect(t)
    BY <1>4 DEF Collect
<1>5. CASE Check(t)
    BY <1>5 DEF Check, Calls
<1>6. CASE Judge(t)
    <2>1. PICK o \in Outcome : Finish(t, o)
        BY <1>0, <1>6 DEF Judge
    <2> QED
        BY <1>6, <2>1, FinishRun DEF Judge
<1>7. CASE Undisturbed(t)
    BY <1>7 DEF Undisturbed
<1>8. CASE Aborted(t)
    <2>1. meddled
        BY <1>8 DEF Aborted, Reason
    <2>2. CASE ret[t] = "top"
        BY <1>8, <2>1, <2>2 DEF Aborted
    <2>3. CASE ret[t] # "top"
        <3>1. Finish(t, "abort")
            BY <1>8, <2>3 DEF Aborted
        <3> QED
            BY <1>0, <1>8, <2>1, <3>1, FinishRun DEF Aborted
    <2> QED
        BY <2>2, <2>3
<1>9. CASE Yields(t)
    BY <1>9 DEF Yields
<1>12. CASE Raises(t)
    BY <1>12 DEF Raises
<1>10. CASE Wakes(t)
    BY <1>10 DEF Wakes
<1>11. CASE Awake(t)
    BY <1>11 DEF Awake
<1> QED
    BY <1>1, <1>2, <1>3, <1>4, <1>5, <1>6, <1>7, <1>8, <1>9, <1>10, <1>11, <1>12 DEF Interprets

\* The worker starts a script on a target that stands still.
LEMMA WorkerRun ==
    ASSUME RunInv, Worker
    PROVE  (LoopAgrees /\ StateIsOn /\ ScriptsRun)'
<1> USE DEF RunInv, Typed, TypeOK, IInv, RequestHolds, RequestIsMine
<1>1. CASE Take
    BY <1>1 DEF Take
<1>2. CASE Test
    BY <1>2 DEF Test
<1>3. CASE Claim
    BY <1>3 DEF Claim
<1>4. CASE Reset
    <2>1. PICK label \in {"lower", "forget", "top", "begin"} :
              pc' = [pc EXCEPT !["script"] = label]
        BY <1>4 DEF Reset, Resets
    <2>2. /\ reason' \in {"none", reason}
          /\ UNCHANGED <<scriptState, loop, jobs, frame, seen, meddled>>
          /\ pc["script"] \in {"reset", "lower", "forget"}
          /\ label = "top" => job = "run"
        BY <2>1, <1>4 DEF Reset, Resets
    <2> QED
        BY <2>1, <2>2
<1>5. CASE Begin
    BY <1>5 DEF Begin
<1>6. CASE Top
    BY <1>6 DEF Top, Calls
<1>7. CASE Release
    <2>1. PICK label \in {"clear", "clearActive", "clearPending", "idle"} :
              pc' = [pc EXCEPT !["script"] = label]
        BY <1>7 DEF Release, Resets
    <2>2. /\ reason' \in {"none", reason} /\ UNCHANGED <<loop, jobs, frame, seen, meddled>>
          /\ pc["script"] \in {"release", "clear", "clearActive", "clearPending"}
        BY <1>7 DEF Release, Resets
    <2> QED
        BY <2>1, <2>2
<1>9. CASE Report
    BY <1>9 DEF Report
<1>10. CASE CallStarts
    <2>1. Finish("script", "continue") /\ "continue" \in Outcome
        BY <1>10 DEF CallStarts, Outcome
    <2> QED
        BY <1>10, <2>1, FinishRun DEF CallStarts
<1>11. CASE RunsTarget
    BY <1>11 DEF RunsTarget
<1>12. CASE Interprets("script")
    BY <1>12, InterpretsRun
<1> QED
    BY <1>1, <1>2, <1>3, <1>4, <1>5, <1>6, <1>7, <1>9, <1>10, <1>11, <1>12 DEF Worker

\* A breakpoint is met under a script that is on, and asks it to yield.
LEMMA HandlesRun ==
    ASSUME RunInv, Handles
    PROVE  (LoopAgrees /\ StateIsOn /\ ScriptsRun)'
<1> USE DEF RunInv, Typed, TypeOK, IInv, RequestHolds, RequestIsMine
<1>1. CASE Load
    BY <1>1 DEF Load
<1>2. CASE Ask
    BY <1>2 DEF Ask
<1>3. CASE Await
    BY <1>3 DEF Await
<1>4. CASE Lock
    BY <1>4 DEF Lock
<1>5. CASE Decide
    BY <1>5 DEF Decide
<1>6. CASE Offer
    BY <1>6 DEF Offer
<1>16. CASE OfferReason
    BY <1>16 DEF OfferReason, Queues
<1>7. CASE Join
    BY <1>7 DEF Join
<1>8. CASE Pick
    BY <1>8 DEF Pick, Queues
<1>9. CASE Answered
    BY <1>9 DEF Answered
<1>10. CASE Merge
    BY <1>10 DEF Merge
<1>11. CASE Conclude
    BY <1>11 DEF Conclude
<1>12. CASE Resume
    BY <1>12 DEF Resume
<1>13. CASE Clearing
    BY <1>13 DEF Clearing
<1>14. CASE Go
    BY <1>14 DEF Go
<1>15. CASE Interprets("debug")
    BY <1>15, InterpretsRun
<1> QED
    BY <1>1, <1>2, <1>3, <1>4, <1>5, <1>6, <1>7, <1>8, <1>9, <1>10, <1>11, <1>12, <1>13, <1>14, <1>15, <1>16 DEF Handles

\* The user who acts elsewhere than at a standstill has meddled.
LEMMA OthersRun ==
    ASSUME RunInv, Hit \/ Ends \/ UserStarts \/ UserRuns \/ UserAborts \/ AbortsOn
    PROVE  (LoopAgrees /\ StateIsOn /\ ScriptsRun)'
<1> USE DEF RunInv, Typed, TypeOK, IInv, RequestHolds, RequestIsMine
<1>1. CASE Hit
    BY <1>1 DEF Hit
<1>2. CASE Ends
    BY <1>2 DEF Ends
<1>3. CASE UserStarts
    BY <1>3 DEF UserStarts, StandsStill
<1>4. CASE UserRuns
    BY <1>4 DEF UserRuns
<1>5. CASE UserAborts
    BY <1>5 DEF UserAborts
<1>6. CASE Interrupt
    BY <1>6 DEF Interrupt
<1>7. CASE Flush
    BY <1>7 DEF Flush
<1>8. CASE Flushed
    BY <1>8 DEF Flushed
<1> QED
    BY <1>1, <1>2, <1>3, <1>4, <1>5, <1>6, <1>7, <1>8 DEF AbortsOn

\* Nobody else moves the script's thread.
LEMMA OthersMove ==
    ASSUME Typed,
           Handles \/ Hit \/ Ends \/ UserStarts \/ UserRuns \/ UserAborts \/ AbortsOn
    PROVE  pc'["script"] = pc["script"]
<1> USE DEF Typed
<1>1. ASSUME NEW o, Finish("debug", o) PROVE pc'["script"] = pc["script"]
    BY <1>1 DEF Finish
<1>2. CASE Interprets("debug")
    BY <1>1, <1>2 DEF Interprets, Internal, External, Wait, Collect, Check, Judge, Calls,
          Undisturbed, Aborted, Yields, Raises, Wakes, Awake
<1>3. CASE Handles /\ ~Interprets("debug")
    BY <1>3 DEF Handles, Load, Ask, Await, Lock, Decide, Offer, OfferReason, Join, Pick, Queues,
          Answered, Merge, Conclude, Resume, Clearing, Go
<1>4. CASE Hit \/ Ends \/ UserStarts \/ UserRuns \/ UserAborts \/ AbortsOn
    BY <1>4 DEF Hit, Ends, UserStarts, UserRuns, UserAborts, AbortsOn, Interrupt, Flush,
          Flushed
<1> QED
    BY <1>2, <1>3, <1>4

\* A script goes on from its wait in one step of its own only.
LEMMA OnlyWaitCollects ==
    ASSUME Typed, Next, pc["script"] = "wait", pc'["script"] = "collect"
    PROVE  ~(debugging /\ running)
<1>1. Worker
    BY OthersMove DEF Next
<1>2. Interprets("script")
    BY <1>1 DEF Worker, Take, Test, Claim, Reset, Begin, Top, Release, Resets, Report,
          CallStarts, RunsTarget
<1>3. Wait("script")
    BY <1>2 DEF Interprets, Internal, External, Collect, Check, Judge, Undisturbed,
          Aborted, Yields, Raises, Wakes, Awake
<1> QED
    BY <1>3 DEF Wait, Calls, Typed

(***************************************************************************)
(* OnlyRealStops, whatever the bounds: a script leaves the wait for its    *)
(* own run when the target stands still, and not in the moment in which    *)
(* WAITID_RUN is closed for a breakpoint that is only being looked at.     *)
(***************************************************************************)
THEOREM RunsWaitForRealStops == Spec => OnlyRealStops
<1>1. RunInv /\ UNCHANGED vars => RunInv'
    BY DEF RunInv, Typed, TypeOK, IInv, Shape, RequestIsMine, ActiveIsUsed, RequestHolds,
           vars
<1>2. RunInv /\ [Next]_vars => RunInv'
    <2> SUFFICES ASSUME RunInv, [Next]_vars PROVE RunInv'
        OBVIOUS
    <2>1. CASE UNCHANGED vars
        BY <1>1, <2>1
    <2>2. CASE Next
        <3>1. Typed'
            BY <2>2, WorkerTyped, HandlesTyped, OthersTyped DEF RunInv, Next
        <3>2. IInv'
            BY <2>2, WorkerIInv, HandlesIInv, OthersIInv DEF RunInv, Next
        <3>3. (LoopAgrees /\ StateIsOn /\ ScriptsRun)'
            BY <2>2, WorkerRun, HandlesRun, OthersRun DEF Next
        <3> QED
            BY <3>1, <3>2, <3>3 DEF RunInv
    <2> QED
        BY <2>1, <2>2
<1>3. RunInv /\ pc["script"] = "wait" /\ ~meddled /\ ~(debugging /\ running) => StandsStill
    BY DEF RunInv, Typed, TypeOK, IInv, RequestHolds, StandsStill
<1>4. RunInv /\ [Next]_vars
          => [pc["script"] = "wait" /\ pc'["script"] = "collect" /\ ~meddled
                 => StandsStill]_vars
    <2> SUFFICES ASSUME RunInv, Next, pc["script"] = "wait", pc'["script"] = "collect", ~meddled
                 PROVE  ~(debugging /\ running)
        BY <1>3
    <2> QED
        BY OnlyWaitCollects DEF RunInv
<1> QED
    BY InitRunInv, <1>2, <1>4, PTL DEF Spec, OnlyRealStops

=============================================================================
