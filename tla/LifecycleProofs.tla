--------------------------- MODULE LifecycleProofs ---------------------------
(***************************************************************************)
(* Proofs about Lifecycle, for any set of pids, any number of processes    *)
(* and any length of the bounded waits.  The first invariant, IInv: every  *)
(* process record is Sound (typed, numbered once it is born, and killed    *)
(* while traced only after a refused PT_DETACH), the debugger's state is   *)
(* typed, a SIGKILL is only about to go to a process that the engine has   *)
(* detached from or was refused to (KillIsClear), and mIsRunning says      *)
(* where the owner is.  The second, Owned, built on it: which processes    *)
(* the engine answers for at every place the owner can be.                 *)
(***************************************************************************)
EXTENDS Lifecycle, TLAPS

\* A process record that can exist.
Sound == {r \in Process : /\ r.stuck => r.kept
                          /\ r.traced => r.st # "none"
                          /\ r.st # "none" => r.gen \in 1 .. MaxTargets}

\* The owner's and the debugger's variables, typed.
Typed ==
    /\ born \in 0 .. MaxTargets
    /\ process \in {None} \cup [pid: Pid, gen: 1 .. MaxTargets]
    /\ viaPtrace \in BOOLEAN /\ running \in BOOLEAN /\ stop \in BOOLEAN
    /\ pc \in Place /\ next \in Returns
    /\ subject \in Pid /\ polls \in 0 .. Attempts

\* Its parts.
Flags == viaPtrace \in BOOLEAN /\ running \in BOOLEAN /\ stop \in BOOLEAN
Counts == born \in 0 .. MaxTargets /\ polls \in 0 .. Attempts
Names ==
    /\ process \in {None} \cup [pid: Pid, gen: 1 .. MaxTargets]
    /\ pc \in Place /\ next \in Returns
    /\ subject \in Pid

KillIsClear ==
    pc = "kill" /\ Alive(subject) /\ proc[subject].traced => proc[subject].kept

\* Where mIsRunning is set, and that a way out of Start() leads to its end.
Claimed ==
    /\ ClaimIsReleased
    /\ pc \notin InKill => next = "idle"

IInv == /\ proc \in [Pid -> Sound]
        /\ Typed
        /\ KillIsClear
        /\ Claimed

USE LifecycleAssumption
USE DEF kernel, debugger, owner

\* Typed in three parts, which its proofs take one at a time.
LEMMA TypedParts ==
    /\ Typed <=> Flags /\ Counts /\ Names
    /\ 0 \in 0 .. Attempts /\ 0 \in 0 .. MaxTargets
BY DEF Typed, Flags, Counts, Names

(***************************************************************************)
(* What happens to one process keeps its record sound.                     *)
(***************************************************************************)
\* Nobody is a sound record, and so is a newborn's.
LEMMA NobodySound ==
    /\ Nobody \in Sound
    /\ Nobody.st = "none" /\ ~Nobody.traced /\ ~Nobody.stuck
BY DEF Nobody, Sound, Process

LEMMA NewbornSound ==
    ASSUME NEW st \in {"suspended", "running"}, NEW by \in {"engine", "other"},
           born \in Nat, born < MaxTargets
    PROVE  Newborn(st, by) \in Sound /\ ~Newborn(st, by).traced
<1> DEFINE Numbered(r) == [r EXCEPT !.st = st, !.by = by, !.gen = born + 1]
<1>1. ASSUME NEW r \in Sound, ~r.traced, ~r.stuck PROVE Numbered(r) \in Sound /\ ~Numbered(r).traced
    <2>1. born + 1 \in 0 .. MaxTargets /\ born + 1 \in 1 .. MaxTargets
        OBVIOUS
    <2>2. r \in Process /\ ~r.stuck
        BY <1>1 DEF Sound
    <2> DEFINE one == [r EXCEPT !.st = st]
               two == [one EXCEPT !.by = by]
    <2>3. one \in Process /\ ~one.stuck /\ ~one.traced
        BY <1>1, <2>2 DEF Process
    <2> HIDE DEF one
    <2>4. two \in Process /\ ~two.stuck /\ ~two.traced
        BY <2>3 DEF Process
    <2> HIDE DEF two
    <2>5. LET three == [two EXCEPT !.gen = born + 1]
          IN  three \in Sound /\ ~three.traced
        BY <2>1, <2>4 DEF Process, Sound
    <2> QED
        BY <2>5 DEF one, two
<1>2. Newborn(st, by) = Numbered(Nobody)
    BY DEF Newborn
<1> HIDE DEF Numbered
<1> QED
    BY <1>1, <1>2, NobodySound

\* PT_DETACH leaves a process that is not traced, is dead, or was refused.
LEMMA DetachedSound ==
    ASSUME NEW r \in Sound, NEW d \in Detached(r)
    PROVE  d \in Sound /\ (d.traced => d.kept \/ d.st = "zombie")
<1>1. CASE ~r.traced \/ r.st = "zombie"
    BY <1>1 DEF Detached
<1>2. CASE r.traced /\ r.st # "zombie"
    <2>1. d = Freed(r) \/ d = [r EXCEPT !.kept = TRUE]
        BY <1>2 DEF Detached
    <2>2. CASE d = Freed(r)
        BY <1>2, <2>2 DEF Freed, Sound, Process
    <2>3. CASE d = [r EXCEPT !.kept = TRUE]
        BY <2>3 DEF Sound, Process
    <2> QED
        BY <2>1, <2>2, <2>3
<1> QED
    BY <1>1, <1>2

\* The other things that happen to a record.
LEMMA KilledSound ==
    ASSUME NEW r \in Sound, r.traced => r.kept
    PROVE  Killed(r) \in Sound
BY DEF Killed, Sound, Process

LEMMA ContinuedSound ==
    ASSUME NEW r \in Sound, r.st # "none"
    PROVE  Continued(r) \in Sound
BY DEF Continued, Sound, Process

LEMMA ZombieSound ==
    ASSUME NEW r \in Sound, r.st # "none"
    PROVE  Zombie(r) \in Sound /\ Zombie(r).st = "zombie"
BY DEF Zombie, Sound, Process

LEMMA LateSound ==
    ASSUME NEW r \in Sound
    PROVE  [r EXCEPT !.late = TRUE] \in Sound
BY DEF Sound, Process

LEMMA PortsSound ==
    ASSUME NEW r \in Sound, NEW b \in BOOLEAN
    PROVE  [r EXCEPT !.ports = b] \in Sound
BY DEF Sound, Process

LEMMA TracedSound ==
    ASSUME NEW r \in Sound, r.st # "none"
    PROVE  /\ [r EXCEPT !.traced = TRUE] \in Sound
           /\ [r EXCEPT !.traced = TRUE, !.sigstop = TRUE] \in Sound
BY DEF Sound, Process

LEMMA StoppedSound ==
    ASSUME NEW r \in Sound, r.st = "running"
    PROVE  [r EXCEPT !.sigstop = FALSE, !.st = "stopped"] \in Sound
BY DEF Sound, Process

\* A process record replaced by a sound one.
LEMMA StaysSound ==
    ASSUME IInv, NEW r \in Sound
    PROVE  Stays(r) \in [Pid -> Sound] /\ Stays(r)[subject] = r
BY DEF Stays, IInv, Typed

\* The subject's record, and what it says.
LEMMA SubjectSound ==
    ASSUME IInv
    PROVE  /\ proc[subject] \in Sound
           /\ Gone(subject) <=> proc[subject].st = "none"
           /\ Alive(subject) => proc[subject].st # "none" /\ proc[subject].gen \in 1 .. MaxTargets
           /\ Reaped \in [Pid -> Sound]
<1>1. proc[subject] \in Sound
    BY DEF IInv, Typed
<1>2. Alive(subject) => proc[subject].st # "none" /\ proc[subject].gen \in 1 .. MaxTargets
    BY <1>1 DEF Sound, Alive
<1>3. Reaped \in [Pid -> Sound]
    BY StaysSound, NobodySound DEF Reaped
<1> QED
    BY <1>1, <1>2, <1>3 DEF Gone

\* Every step leaves every process record sound.
LEMMA StepSound == IInv /\ [Next]_vars => proc' \in [Pid -> Sound]
<1> SUFFICES ASSUME IInv, [Next]_vars PROVE proc' \in [Pid -> Sound]
    OBVIOUS
<1>u. CASE UNCHANGED proc
    BY <1>u DEF IInv
<1>1. CASE Detach
    BY <1>1, StaysSound, SubjectSound, DetachedSound DEF Detach
<1>2. CASE Kill
    <2>1. pc = "kill"
        BY <1>2, Zenon DEF Kill
    <2>2. Alive(subject) => Killed(proc[subject]) \in Sound
        BY <2>1, SubjectSound, KilledSound DEF IInv, KillIsClear
    <2>3. CASE Gone(subject)
        BY <1>2, <2>3, <1>u DEF Kill
    <2>4. CASE ~Gone(subject)
        <3>1. PICK r \in Sound : proc' = Stays(r)
            <4>1. CASE Alive(subject)
                <5>1. proc' = Stays(Killed(proc[subject]))
                    BY <1>2, <2>4, <4>1, Zenon DEF Kill
                <5> QED
                    BY <2>2, <4>1, <5>1
            <4>2. CASE ~Alive(subject)
                <5>1. proc' = Stays(proc[subject])
                    BY <1>2, <2>4, <4>2, Zenon DEF Kill
                <5> QED
                    BY <5>1, SubjectSound
            <4> QED
                BY <4>1, <4>2
        <3> QED
            BY <3>1, StaysSound
    <2> QED
        BY <2>3, <2>4
<1>3. CASE Reap
    <2>1. [proc[subject] EXCEPT !.late = TRUE] \in Sound
        BY SubjectSound, LateSound
    <2>2. \/ UNCHANGED proc \/ proc' = Reaped
          \/ proc' = Stays([proc[subject] EXCEPT !.late = TRUE])
        BY <1>3 DEF Reap
    <2>3. Stays([proc[subject] EXCEPT !.late = TRUE]) \in [Pid -> Sound]
        BY <2>1, StaysSound
    <2> QED
        BY <1>u, <2>2, <2>3, SubjectSound
<1>4. CASE SpawnSuspended
    <2>1. PICK p \in Pid : proc' = [proc EXCEPT ![p] = Newborn("suspended", "engine")]
        BY <1>4 DEF SpawnSuspended
    <2>2. Newborn("suspended", "engine") \in Sound
        BY <1>4, NewbornSound DEF SpawnSuspended, IInv, Typed
    <2> QED
        BY <2>1, <2>2 DEF IInv
<1>5. CASE TraceGiven
    <2>1. PICK p \in Pid :
              /\ Alive(p)
              /\ proc' = [proc EXCEPT ![p].traced = TRUE, ![p].sigstop = TRUE]
        BY <1>5 DEF TraceGiven
    <2>2. proc[p] \in Sound /\ proc[p].st # "none"
        BY <2>1 DEF IInv, Alive
    <2>3. [proc[p] EXCEPT !.traced = TRUE, !.sigstop = TRUE] \in Sound
        BY <2>2, TracedSound
    <2>4. proc' = [proc EXCEPT ![p] = [proc[p] EXCEPT !.traced = TRUE, !.sigstop = TRUE]]
        BY <2>1 DEF IInv
    <2> QED
        BY <2>3, <2>4 DEF IInv
<1>6. CASE Poll
    <2>1. \A d \in Detached(proc[subject]) : [d EXCEPT !.late = TRUE] \in Sound
        BY SubjectSound, DetachedSound, LateSound
    <2>2. \/ UNCHANGED proc \/ proc' = Reaped
          \/ \E d \in Detached(proc[subject]) : proc' = Stays([d EXCEPT !.late = TRUE])
        BY <1>6 DEF Poll
    <2> QED
        BY <1>u, <2>1, <2>2, StaysSound, SubjectSound
<1>7. CASE TaskForGiven
    BY <1>7, <1>u, StaysSound, SubjectSound, DetachedSound DEF TaskForGiven
<1>8. CASE StartTraces
    <2>1. CASE viaPtrace
        BY <1>8, <2>1, <1>u DEF StartTraces
    <2>2. CASE ~viaPtrace
        <3>1. Alive(subject) /\ proc' = Stays([proc[subject] EXCEPT !.traced = TRUE])
            BY <1>8, <2>2 DEF StartTraces
        <3>2. [proc[subject] EXCEPT !.traced = TRUE] \in Sound
            BY <3>1, SubjectSound, TracedSound
        <3> QED
            BY <3>1, <3>2, StaysSound
    <2> QED
        BY <2>1, <2>2
<1>9. CASE StartInstalls
    <2>1. [proc[subject] EXCEPT !.ports = TRUE] \in Sound
        BY SubjectSound, PortsSound
    <2>2. proc' = Stays([proc[subject] EXCEPT !.ports = TRUE])
        BY <1>9, Zenon DEF StartInstalls
    <2> QED
        BY <2>1, <2>2, StaysSound
<1>10. CASE StartContinues
    <2>1. PICK r \in Sound : proc' = Stays(r)
        <3>1. CASE Alive(subject)
            BY <1>10, <3>1, SubjectSound, ContinuedSound DEF StartContinues
        <3>2. CASE ~Alive(subject)
            BY <1>10, <3>2, SubjectSound DEF StartContinues
        <3> QED
            BY <3>1, <3>2
    <2> QED
        BY <2>1, StaysSound
<1>11. CASE LoopSeesExit
    BY <1>11, SubjectSound DEF LoopSeesExit
<1>12. CASE Release
    <2>1. CASE TaskLives
        <3>1. process.pid \in Pid
            BY <2>1 DEF TaskLives, IInv, Typed
        <3>2. [proc[process.pid] EXCEPT !.ports = FALSE] \in Sound
            <4>1. proc[process.pid] \in Sound
                BY <3>1 DEF IInv
            <4> QED
                BY <4>1, PortsSound
        <3>3. proc' = [proc EXCEPT ![process.pid] = [proc[process.pid] EXCEPT !.ports = FALSE]]
            BY <1>12, <2>1, <3>1 DEF Release, IInv
        <3> QED
            BY <3>2, <3>3 DEF IInv
    <2>2. CASE ~TaskLives
        BY <1>12, <2>2, <1>u DEF Release
    <2> QED
        BY <2>1, <2>2
<1>13. ASSUME NEW p \in Pid, Born(p) PROVE proc' \in [Pid -> Sound]
    BY <1>13, NewbornSound DEF Born, IInv, Typed
<1>14. ASSUME NEW p \in Pid, TakeStop(p) PROVE proc' \in [Pid -> Sound]
    <2>1. proc[p] \in Sound /\ proc[p].st = "running"
        <3>1. proc[p].st = "running"
            BY <1>14, Zenon DEF TakeStop
        <3>2. proc[p] \in Sound
            BY DEF IInv
        <3> QED
            BY <3>1, <3>2
    <2>2. [proc[p] EXCEPT !.sigstop = FALSE, !.st = "stopped"] \in Sound
        BY <2>1, StoppedSound
    <2>3. proc' = [proc EXCEPT ![p] = [proc[p] EXCEPT !.sigstop = FALSE, !.st = "stopped"]]
        BY <1>14 DEF TakeStop, IInv
    <2> QED
        BY <2>2, <2>3 DEF IInv
<1>15. ASSUME NEW p \in Pid, Die(p) PROVE proc' \in [Pid -> Sound]
    <2>1. proc[p] \in Sound /\ proc[p].st # "none"
        BY <1>15 DEF Die, Alive, IInv
    <2>2. PICK r \in Sound : proc' = [proc EXCEPT ![p] = r]
        BY <1>15, <2>1, ZombieSound, NobodySound DEF Die
    <2> QED
        BY <2>2 DEF IInv
<1>16. CASE SpawnFails
    BY <1>16, <1>u DEF SpawnFails
<1>17. CASE TaskForChild
    BY <1>17, <1>u DEF TaskForChild
<1>18. CASE TraceRefused
    BY <1>18, <1>u DEF TraceRefused
<1>19. CASE StartFails
    BY <1>19, <1>u DEF StartFails
<1>20. CASE StartAllocates
    BY <1>20, <1>u DEF StartAllocates
<1>21. CASE LoopSeesStop
    BY <1>21, <1>u DEF LoopSeesStop
<1>22. CASE LoopFails
    BY <1>22, <1>u DEF LoopFails
<1>23. CASE Wind
    BY <1>23, <1>u DEF Wind, Return
<1>24. CASE Restore
    BY <1>24, <1>u DEF Restore
<1>25. CASE End
    BY <1>25, <1>u DEF End
<1>26. CASE Terminate
    BY <1>26, <1>u DEF Terminate
<1>27. CASE CallInit
    BY <1>27, <1>u DEF CallInit
<1>28. CASE CallAttach
    BY <1>28, <1>u DEF CallAttach
<1>29. CASE StartClaims
    BY <1>29, <1>u DEF StartClaims
<1>30. CASE Stop
    BY <1>30, <1>u DEF Stop
<1>31. CASE UNCHANGED vars
    BY <1>31, <1>u DEF vars
<1> QED
    BY <1>1, <1>2, <1>3, <1>4, <1>5, <1>6, <1>7, <1>8, <1>9, <1>10, <1>11,
       <1>12, <1>13, <1>14, <1>15, <1>16, <1>17, <1>18, <1>19, <1>20, <1>21,
       <1>22, <1>23, <1>24, <1>25, <1>26, <1>27, <1>28, <1>29, <1>30, <1>31
    DEF Next, OwnerStep, Calls, System

\* Every step keeps the rest: the types, the clear way of a SIGKILL, the claim.
LEMMA StepRest ==
    IInv /\ [Next]_vars => Typed' /\ KillIsClear' /\ Claimed'
<1> SUFFICES ASSUME IInv, [Next]_vars PROVE Typed' /\ KillIsClear' /\ Claimed'
    OBVIOUS
<1>0. \A p \in Pid : proc[p] \in Sound
    BY DEF IInv
<1> USE DEF IInv, Typed, Claimed, KillIsClear, ClaimIsReleased, Place, Returns, InStart, InKill
<1>1. CASE Detach
    <2>1. PICK d \in Detached(proc[subject]) : proc' = Stays(d)
        BY <1>1 DEF Detach
    <2>2. d \in Sound /\ (d.traced => d.kept \/ d.st = "zombie")
        BY <2>1, SubjectSound, DetachedSound
    <2>3. KillIsClear'
        BY <1>1, <2>1, <2>2, StaysSound DEF Detach, Alive
    <2> QED
        BY <1>1, <2>3 DEF Detach
<1>2. CASE Kill
    BY <1>2 DEF Kill, Return
<1>3. ASSUME NEW p \in Pid, Born(p) PROVE Typed' /\ KillIsClear' /\ Claimed'
    <2>1. ~proc'[p].traced
        BY <1>3, NewbornSound DEF Born
    <2> QED
        BY <1>3, <2>1 DEF Born, Alive
<1>4. ASSUME NEW p \in Pid, TakeStop(p) PROVE Typed' /\ KillIsClear' /\ Claimed'
    <2>1. proc[p] \in Process
        BY DEF Sound
    <2>2. proc'[p].traced = proc[p].traced /\ proc'[p].kept = proc[p].kept /\ Alive(p)
        BY <1>4, <2>1 DEF TakeStop, Process, Alive
    <2> QED
        BY <1>4, <2>2 DEF TakeStop, Alive
<1>5. ASSUME NEW p \in Pid, Die(p) PROVE Typed' /\ KillIsClear' /\ Claimed'
    <2>1. proc[p] \in Sound /\ proc[p].st # "none"
        BY <1>0, <1>5 DEF Die, Alive
    <2>2. proc'[p].st \in {"none", "zombie"}
        <3>1. proc'[p] = Zombie(proc[p]) \/ proc'[p] = Nobody
            BY <1>5 DEF Die
        <3> QED
            BY <2>1, <3>1, NobodySound, ZombieSound
    <2> QED
        BY <1>5, <2>2 DEF Die, Alive
<1>6. CASE Reap
    BY <1>6 DEF Reap, Return, PollsLeft
<1>7. CASE Poll
    BY <1>7 DEF Poll, Return, PollsLeft
<1>8. CASE SpawnFails
    <2>1. Flags'
        BY <1>8 DEF SpawnFails, Flags
    <2>2. Counts'
        BY <1>8, TypedParts DEF SpawnFails, Return, Counts
    <2>3. Names'
        BY <1>8 DEF SpawnFails, Return, Names
    <2>4. KillIsClear' /\ Claimed'
        BY <1>8 DEF SpawnFails, Return
    <2> QED
        BY <2>1, <2>2, <2>3, <2>4, Zenon DEF Flags, Counts, Names
<1>9. CASE SpawnSuspended
    <2>1. Flags'
        BY <1>9 DEF SpawnSuspended, Flags
    <2>2. Counts'
        BY <1>9, TypedParts DEF SpawnSuspended, Counts
    <2>3. Names'
        BY <1>9 DEF SpawnSuspended, Names
    <2>4. KillIsClear' /\ Claimed'
        BY <1>9 DEF SpawnSuspended
    <2> QED
        BY <2>1, <2>2, <2>3, <2>4, Zenon DEF Flags, Counts, Names
<1>10. CASE TaskForChild
    BY <1>10, SubjectSound DEF TaskForChild, Return, TakesTask
<1>11. CASE TraceRefused
    <2>1. Flags'
        BY <1>11 DEF TraceRefused, Flags
    <2>2. Counts'
        BY <1>11, TypedParts DEF TraceRefused, Return, Counts
    <2>3. Names'
        BY <1>11 DEF TraceRefused, Return, Names
    <2>4. KillIsClear' /\ Claimed'
        BY <1>11 DEF TraceRefused, Return
    <2> QED
        BY <2>1, <2>2, <2>3, <2>4, Zenon DEF Flags, Counts, Names
<1>12. CASE TraceGiven
    <2>1. Flags'
        BY <1>12 DEF TraceGiven, Flags
    <2>2. Counts'
        BY <1>12, TypedParts DEF TraceGiven, Counts
    <2>3. Names'
        BY <1>12 DEF TraceGiven, Names
    <2>4. KillIsClear' /\ Claimed'
        BY <1>12 DEF TraceGiven
    <2> QED
        BY <2>1, <2>2, <2>3, <2>4, Zenon DEF Flags, Counts, Names
<1>13. CASE TaskForGiven
    <2>1. Flags'
        BY <1>13 DEF TaskForGiven, Flags
    <2>2. Counts'
        BY <1>13, TypedParts DEF TaskForGiven, Return, TakesTask, Counts
    <2>3. Names'
        BY <1>13, SubjectSound DEF TaskForGiven, Return, TakesTask, Names
    <2>4. KillIsClear' /\ Claimed'
        BY <1>13 DEF TaskForGiven, Return, TakesTask
    <2> QED
        BY <2>1, <2>2, <2>3, <2>4, Zenon DEF Flags, Counts, Names
<1>14. CASE StartFails
    <2>1. Flags'
        BY <1>14 DEF StartFails, Flags
    <2>2. Counts'
        BY <1>14, TypedParts DEF StartFails, Return, Counts
    <2>3. Names'
        BY <1>14 DEF StartFails, Return, Names
    <2>4. KillIsClear' /\ Claimed'
        BY <1>14 DEF StartFails, Return
    <2> QED
        BY <2>1, <2>2, <2>3, <2>4, Zenon DEF Flags, Counts, Names
<1>15. CASE StartTraces
    BY <1>15 DEF StartTraces, Return
<1>16. CASE StartAllocates
    BY <1>16 DEF StartAllocates, Return
<1>17. CASE StartInstalls
    BY <1>17 DEF StartInstalls, Return
<1>18. CASE StartContinues
    BY <1>18 DEF StartContinues, Return
<1>19. CASE LoopSeesExit
    BY <1>19 DEF LoopSeesExit, Return
<1>20. CASE LoopSeesStop
    BY <1>20 DEF LoopSeesStop, Return
<1>21. CASE LoopFails
    BY <1>21 DEF LoopFails, Return
<1>22. CASE Wind
    BY <1>22 DEF Wind, Return
<1>23. CASE Restore
    BY <1>23 DEF Restore, Return
<1>24. CASE Release
    BY <1>24 DEF Release
<1>25. CASE End
    <2>1. Flags'
        BY <1>25 DEF End, Flags
    <2>2. Counts'
        BY <1>25, TypedParts DEF End, Return, Counts
    <2>3. Names'
        BY <1>25 DEF End, Return, Names
    <2>4. KillIsClear' /\ Claimed'
        BY <1>25 DEF End, Return
    <2> QED
        BY <2>1, <2>2, <2>3, <2>4, Zenon DEF Flags, Counts, Names
<1>26. CASE Terminate
    BY <1>26 DEF Terminate, TerminateThen
<1>27. CASE CallInit
    BY <1>27 DEF CallInit, TerminateThen
<1>28. CASE CallAttach
    BY <1>28 DEF CallAttach, TerminateThen
<1>29. CASE StartClaims
    BY <1>29 DEF StartClaims
<1>30. CASE Stop
    BY <1>30 DEF Stop
<1>31. CASE UNCHANGED vars
    BY <1>31 DEF vars, Alive
<1> QED
    BY <1>1, <1>2, <1>3, <1>4, <1>5, <1>6, <1>7, <1>8, <1>9, <1>10, <1>11,
       <1>12, <1>13, <1>14, <1>15, <1>16, <1>17, <1>18, <1>19, <1>20, <1>21,
       <1>22, <1>23, <1>24, <1>25, <1>26, <1>27, <1>28, <1>29, <1>30, <1>31
    DEF Next, OwnerStep, Calls, System

\* The invariant holds initially ...
LEMMA InitIInv == Init => IInv
<1> SUFFICES ASSUME Init PROVE IInv
    OBVIOUS
<1>1. proc \in [Pid -> Sound]
    BY NobodySound DEF Init
<1>2. Flags
    BY DEF Init, Flags
<1>3. Counts
    BY TypedParts DEF Init, Counts
<1>4. Names
    BY DEF Init, Names, Place, Returns
<1>5. KillIsClear /\ Claimed
    BY DEF Init, KillIsClear, Claimed, ClaimIsReleased, InStart, InKill
<1> QED
    BY <1>1, <1>2, <1>3, <1>4, <1>5, TypedParts DEF IInv

\* ... and always.
LEMMA Invariance == Spec => []IInv
<1>1. IInv /\ [Next]_vars => IInv'
    BY StepSound, StepRest DEF IInv
<1> QED
    BY InitIInv, <1>1, PTL DEF Spec

\* The types, for any pids, processes and bounds.
THEOREM TypeCorrect == Spec => []TypeOK
<1>1. IInv => TypeOK
    BY DEF IInv, Typed, TypeOK, Sound
<1> QED
    BY Invariance, <1>1, PTL

\* mIsRunning is set exactly while Start() is at work: whichever way it fails or
\* ends, another Start() is possible.
THEOREM StartGivesItsClaimBack == Spec => []ClaimIsReleased
<1>1. IInv => ClaimIsReleased
    BY DEF IInv, Claimed
<1> QED
    BY Invariance, <1>1, PTL

\* On any of the ways that lead to it, DetachAndKill() sends its SIGKILL to a
\* process that is still traced only if the system has refused the PT_DETACH.
THEOREM KillsCanBeAnswered == Spec => KillsAreAnswerable
<1>1. IInv /\ IInv' /\ [Next]_vars
          => [pc = "kill" /\ proc'[subject].stuck => proc'[subject].kept]_vars
    <2> SUFFICES ASSUME IInv, IInv', proc'[subject].stuck PROVE proc'[subject].kept
        OBVIOUS
    <2> QED
        BY DEF IInv, Typed, Sound
<1> QED
    BY Invariance, <1>1, PTL DEF Spec, KillsAreAnswerable

-----------------------------------------------------------------------------
(***************************************************************************)
(* Whose the processes are: what the engine launched and what it was given *)
(* are told apart by what has been done to them so far, at the place the   *)
(* owner is at.                                                            *)
(***************************************************************************)
\* DetachAndKill() called at the end of Start(), which keeps its target.
EndsStart == pc \in InKill /\ next = "end"

\* Start() is about the target; every other call has let go of it first.
Held ==
    /\ pc \in InStart \/ EndsStart => Holds(subject)
    /\ pc \notin InStart \cup {"idle"} /\ ~EndsStart => process = None

\* A process the engine launched: who still answers for it, what watches it
\* while it runs, and what the two places that rely on an earlier one find.
Child(p) == proc[p].by = "engine" /\ ~Gone(p) =>
    /\ \/ Holds(p) \/ (proc[p].killed /\ proc[p].late)
       \/ p = subject /\ pc \in InKill \cup {"task"}
    /\ proc[p].st = "running" => \/ proc[p].killed \/ proc[p].ports
                                 \/ p = subject /\ pc \in {"detach", "kill"}
    /\ p = subject /\ pc = "reap" /\ Alive(p) => proc[p].killed
    /\ p = subject /\ pc = "cont" /\ Alive(p) => proc[p].ports

\* Somebody else's: a SIGSTOP still on its way counts like the stop it will be.
Stranger(p) == proc[p].by = "other" /\ Alive(p) =>
    /\ proc[p].st # "suspended"
    /\ proc[p].traced => \/ Holds(p) \/ proc[p].kept
                         \/ p = subject /\ pc \in {"poll", "atask", "detach"}
    /\ ~proc[p].traced /\ proc[p].st = "stopped" => proc[p].late
    /\ proc[p].sigstop => \/ proc[p].late
                          \/ p = subject /\ pc = "poll" /\ proc[p].st = "running"
                             /\ proc[p].traced

Owned == Held /\ \A p \in Pid : Child(p) /\ Stranger(p)

\* Who is held, step by step: no process record matters to it.
LEMMA StepHeld == IInv /\ Held /\ [Next]_vars => Held'
<1> SUFFICES ASSUME IInv, Held, [Next]_vars PROVE Held'
    OBVIOUS
<1> USE DEF Held, EndsStart, Holds, InStart, InKill, IInv, Typed, Returns, Place
<1>1. CASE Detach \/ Kill \/ Reap
    BY <1>1 DEF Detach, Kill, Reap, Return
<1>2. CASE Terminate \/ CallInit \/ CallAttach \/ StartClaims
    BY <1>2 DEF Terminate, CallInit, CallAttach, StartClaims, TerminateThen
<1>3. CASE SpawnFails \/ SpawnSuspended \/ TaskForChild
    BY <1>3 DEF SpawnFails, SpawnSuspended, TaskForChild, Return, TakesTask
<1>4. CASE TraceRefused \/ TraceGiven \/ Poll \/ TaskForGiven
    BY <1>4 DEF TraceRefused, TraceGiven, Poll, TaskForGiven, Return, TakesTask
<1>5. CASE StartFails \/ StartTraces \/ StartAllocates \/ StartInstalls \/ StartContinues
    BY <1>5 DEF StartFails, StartTraces, StartAllocates, StartInstalls, StartContinues, Return
<1>6. CASE LoopSeesExit \/ LoopSeesStop \/ LoopFails \/ Wind \/ Restore \/ Release \/ End
    BY <1>6 DEF LoopSeesExit, LoopSeesStop, LoopFails, Wind, Restore, Release, End, Return
<1>7. CASE Stop \/ System \/ UNCHANGED vars
    BY <1>7 DEF Stop, System, Born, TakeStop, Die, vars
<1> QED
    BY <1>1, <1>2, <1>3, <1>4, <1>5, <1>6, <1>7 DEF Next, OwnerStep, Calls

\* What each thing that happens to a record changes, and what it leaves alone.
LEMMA DetachedFields ==
    ASSUME NEW r \in Sound, NEW d \in Detached(r)
    PROVE  /\ d.by = r.by /\ d.killed = r.killed /\ d.late = r.late
           /\ d.sigstop = r.sigstop
           /\ \/ d = r /\ (~r.traced \/ r.st = "zombie")
              \/ /\ r.st \notin {"none", "zombie"} /\ d.st = "running"
                 /\ d.traced => d.kept
<1>1. CASE ~r.traced \/ r.st = "zombie"
    BY <1>1 DEF Detached
<1>2. CASE r.traced /\ r.st # "zombie"
    <2>1. \/ d = Freed(r)
          \/ r.st = "running" /\ d = [r EXCEPT !.kept = TRUE]
        BY <1>2 DEF Detached
    <2>2. CASE d = Freed(r)
        BY <1>2, <2>2 DEF Freed, Sound, Process
    <2>3. CASE r.st = "running" /\ d = [r EXCEPT !.kept = TRUE]
        BY <2>3 DEF Sound, Process
    <2> QED
        BY <2>1, <2>2, <2>3
<1> QED
    BY <1>1, <1>2

LEMMA KilledFields == ASSUME NEW r \in Sound
    PROVE  LET k == Killed(r) IN
           /\ k.killed /\ k.st = r.st /\ k.by = r.by /\ k.late = r.late
           /\ k.sigstop = r.sigstop /\ k.traced = r.traced /\ k.kept = r.kept
BY DEF Killed, Sound, Process

LEMMA ContinuedFields == ASSUME NEW r \in Sound
    PROVE  LET c == Continued(r) IN
           /\ c.st = "running" /\ ~c.sigstop /\ c.by = r.by /\ c.late = r.late
           /\ c.traced = r.traced /\ c.killed = r.killed /\ c.ports = r.ports
           /\ c.kept = r.kept
BY DEF Continued, Sound, Process

LEMMA ZombieFields == ASSUME NEW r \in Sound
    PROVE  LET z == Zombie(r) IN
           z.st = "zombie" /\ z.by = r.by /\ z.late = r.late /\ z.killed = r.killed
BY DEF Zombie, Sound, Process

LEMMA LateFields == ASSUME NEW r \in Sound
    PROVE  LET l == [r EXCEPT !.late = TRUE] IN
           /\ l.late /\ l.st = r.st /\ l.by = r.by /\ l.traced = r.traced
           /\ l.killed = r.killed /\ l.ports = r.ports /\ l.sigstop = r.sigstop
           /\ l.kept = r.kept
BY DEF Sound, Process

LEMMA PortsFields == ASSUME NEW r \in Sound, NEW b \in BOOLEAN
    PROVE  LET i == [r EXCEPT !.ports = b] IN
           /\ i.ports = b /\ i.st = r.st /\ i.by = r.by /\ i.traced = r.traced
           /\ i.killed = r.killed /\ i.late = r.late /\ i.sigstop = r.sigstop
           /\ i.kept = r.kept
BY DEF Sound, Process

LEMMA TracedFields == ASSUME NEW r \in Sound
    PROVE  /\ LET t == [r EXCEPT !.traced = TRUE] IN
              /\ t.traced /\ t.st = r.st /\ t.by = r.by /\ t.ports = r.ports
              /\ t.killed = r.killed /\ t.late = r.late /\ t.sigstop = r.sigstop
              /\ t.kept = r.kept
           /\ LET g == [r EXCEPT !.traced = TRUE, !.sigstop = TRUE] IN
              /\ g.traced /\ g.sigstop /\ g.st = r.st /\ g.by = r.by /\ g.ports = r.ports
              /\ g.killed = r.killed /\ g.late = r.late /\ g.kept = r.kept
BY DEF Sound, Process

LEMMA StoppedFields == ASSUME NEW r \in Sound
    PROVE  LET s == [r EXCEPT !.sigstop = FALSE, !.st = "stopped"] IN
           /\ s.traced = r.traced /\ ~s.sigstop /\ s.st = "stopped" /\ s.by = r.by
           /\ s.killed = r.killed /\ s.late = r.late /\ s.ports = r.ports
           /\ s.kept = r.kept
BY DEF Sound, Process

LEMMA NewbornFields ==
    ASSUME NEW st \in {"suspended", "running"}, NEW by \in {"engine", "other"}, born \in Nat
    PROVE  LET n == Newborn(st, by) IN
               /\ n.st = st /\ n.by = by /\ ~n.traced /\ ~n.sigstop /\ ~n.killed
BY DEF Newborn, Nobody

\* A task port taken names the subject.
LEMMA SubjectTask ==
    ASSUME IInv, Alive(subject), TakesTask
    PROVE  process'.pid = subject /\ process' # None
<1>1. process' \in [pid: Pid, gen: 1 .. MaxTargets]
    BY SubjectSound DEF TakesTask, IInv, Typed
<1> QED
    BY <1>1 DEF TakesTask

\* No step loses a child or keeps hold of a stranger.
LEMMA StepOwned ==
    ASSUME IInv, Owned, Held', [Next]_vars, NEW p \in Pid
    PROVE  Child(p)' /\ Stranger(p)'
<1> USE DEF Child, Stranger, Alive, Gone, Held, EndsStart, Holds, InStart, InKill
<1> DEFINE r == proc[p]
           s == proc[subject]
<1>0. /\ r \in Sound /\ s \in Sound /\ subject \in Pid
      /\ r.by \in {"engine", "other"}
      /\ r.st \in {"none", "suspended", "stopped", "running", "zombie"}
      /\ Child(p) /\ Stranger(p) /\ Held
    BY DEF Owned, IInv, Typed, Sound, Process
<1>a. ASSUME NEW x, proc' = Stays(x)
      PROVE  proc'[p] = IF p = subject THEN x ELSE r
    BY <1>a DEF Stays, IInv, Typed
<1>b. Reaped = Stays(Nobody) /\ Nobody.st = "none"
    BY DEF Reaped, Nobody
<1> HIDE DEF r, s
<1>1. CASE Detach
    <2>1. PICK d \in Detached(s) : proc' = Stays(d)
        BY <1>1 DEF Detach, s
    <2>2. pc = "detach" /\ pc' = "kill" /\ UNCHANGED <<subject, process, next>>
        BY <1>1 DEF Detach
    <2>3. proc'[p] = IF p = subject THEN d ELSE r
        BY <2>1, <1>a
    <2>4. CASE p = subject
        <3>1. /\ d.by = r.by /\ d.killed = r.killed /\ d.late = r.late
              /\ d.sigstop = r.sigstop
              /\ \/ d = r /\ (~r.traced \/ r.st = "zombie")
                 \/ /\ r.st \notin {"none", "zombie"} /\ d.st = "running"
                    /\ d.traced => d.kept
            BY <1>0, <2>1, <2>4, DetachedFields DEF r, s
        <3>2. Child(p)'
            BY <1>0, <2>2, <2>3, <2>4, <3>1 DEF r
        <3>3. Stranger(p)'
            BY <1>0, <2>2, <2>3, <2>4, <3>1 DEF r
        <3> QED
            BY <3>2, <3>3
    <2>5. CASE p # subject
        BY <1>0, <2>2, <2>3, <2>5 DEF r, s
    <2> QED
        BY <2>4, <2>5
<1>2. CASE Kill
    <2>1. UNCHANGED process /\ pc = "kill"
        BY <1>2 DEF Kill
    <2>2. CASE Gone(subject)
        BY <1>0, <1>2, <2>1, <2>2 DEF Kill, Return, r, s
    <2>3. CASE ~Gone(subject)
        <3>1. /\ pc' = "reap" /\ UNCHANGED <<subject, next>>
              /\ proc'[p] = IF p = subject /\ Alive(subject) THEN Killed(s) ELSE r
            BY <1>2, <2>3, <1>a DEF Kill, r, s
        <3> QED
            BY <1>0, <2>1, <3>1, KilledFields DEF r, s
    <2> QED
        BY <2>2, <2>3
<1>3. CASE Reap
    <2>1. UNCHANGED <<process, subject>> /\ pc = "reap"
        BY <1>3 DEF Reap, Return
    <2>2. CASE ~Waitable(subject)
        <3>1. UNCHANGED proc /\ pc' = next /\ next' = "idle"
            BY <1>3, <2>2 DEF Reap, Return
        <3> QED
            BY <1>0, <2>1, <2>2, <3>1 DEF Waitable, r, s
    <2>3. CASE Waitable(subject) /\ proc[subject].st = "zombie"
        <3>1. pc' = next /\ proc'[p] = IF p = subject THEN Nobody ELSE r
            BY <1>3, <2>3, <1>a, <1>b DEF Reap, Return
        <3> QED
            BY <1>0, <1>b, <2>1, <2>3, <3>1 DEF r, s
    <2>4. CASE Waitable(subject) /\ proc[subject].st # "zombie" /\ PollsLeft
        BY <1>0, <1>3, <2>1, <2>4 DEF Reap, r, s
    <2>5. CASE Waitable(subject) /\ proc[subject].st # "zombie" /\ ~PollsLeft
        <3>1. pc' = next /\ proc'[p] = IF p = subject THEN [s EXCEPT !.late = TRUE] ELSE r
            BY <1>3, <2>5, <1>a DEF Reap, Return, s
        <3> QED
            BY <1>0, <2>1, <2>5, <3>1, LateFields DEF Waitable, r, s
    <2> QED
        BY <2>2, <2>3, <2>4, <2>5
<1>4. CASE Terminate \/ CallInit \/ CallAttach \/ StartClaims
    <2>1. UNCHANGED proc /\ pc = "idle"
        BY <1>4 DEF Terminate, CallInit, CallAttach, StartClaims
    <2> QED
        BY <1>0, <1>4, <2>1 DEF Terminate, CallInit, CallAttach, StartClaims, TerminateThen, r, s
<1>5. CASE SpawnFails \/ TraceRefused
    BY <1>0, <1>5 DEF SpawnFails, TraceRefused, Return, r, s
<1>6. CASE SpawnSuspended
    <2>1. PICK q \in Pid :
              /\ Gone(q) /\ subject' = q
              /\ proc' = [proc EXCEPT ![q] = Newborn("suspended", "engine")]
        BY <1>6 DEF SpawnSuspended
    <2>2. pc = "spawn" /\ pc' = "task" /\ UNCHANGED process
        BY <1>6 DEF SpawnSuspended
    <2>3. proc'[p] = IF p = q THEN Newborn("suspended", "engine") ELSE r
        BY <2>1 DEF IInv, r
    <2>4. LET n == Newborn("suspended", "engine") IN
              n.st = "suspended" /\ n.by = "engine"
        BY NewbornFields DEF IInv, Typed
    <2> QED
        BY <1>0, <2>1, <2>2, <2>3, <2>4 DEF r, s
<1>7. CASE TaskForChild
    <2>1. UNCHANGED <<proc, subject>> /\ pc = "task"
        BY <1>7 DEF TaskForChild, Return
    <2>2. CASE Alive(subject) /\ TakesTask /\ pc' = "idle"
        <3>1. process'.pid = subject /\ process' # None
            BY <2>2, SubjectTask
        <3> QED
            BY <1>0, <2>1, <2>2, <3>1 DEF r
    <2>3. CASE pc' = "detach" /\ UNCHANGED process
        BY <1>0, <2>1, <2>3 DEF r
    <2> QED
        BY <1>7, <2>2, <2>3 DEF TaskForChild, Return
<1>8. CASE TraceGiven
    <2>1. PICK q \in Pid :
              /\ Alive(q) /\ ~proc[q].traced /\ subject' = q
              /\ proc' = [proc EXCEPT ![q].traced = TRUE, ![q].sigstop = TRUE]
        BY <1>8 DEF TraceGiven
    <2>2. pc = "trace" /\ pc' = "poll" /\ UNCHANGED process
        BY <1>8 DEF TraceGiven
    <2>3. proc'[p] = IF p = q THEN [r EXCEPT !.traced = TRUE, !.sigstop = TRUE] ELSE r
        BY <2>1 DEF IInv, r
    <2>4. CASE p = q
        <3>1. LET g == proc'[p] IN
                  /\ g.traced /\ g.sigstop /\ g.st = r.st /\ g.by = r.by
                  /\ g.ports = r.ports /\ g.killed = r.killed /\ g.late = r.late
            BY <1>0, <2>3, <2>4, TracedFields
        <3> QED
            BY <1>0, <2>1, <2>2, <2>4, <3>1 DEF r
    <2>5. CASE p # q
        BY <1>0, <2>1, <2>2, <2>3, <2>5 DEF r
    <2> QED
        BY <2>4, <2>5
<1>9. CASE Poll
    <2>1. UNCHANGED <<process, subject>> /\ pc = "poll"
        BY <1>9 DEF Poll, Return
    <2>2. CASE proc[subject].st = "stopped" /\ UNCHANGED proc /\ pc' = "atask"
        BY <1>0, <2>1, <2>2 DEF r, s
    <2>3. CASE proc' = Reaped /\ pc' = "idle"
        <3>1. proc'[p] = IF p = subject THEN Nobody ELSE r
            BY <2>3, <1>a, <1>b
        <3> QED
            BY <1>0, <1>b, <2>1, <2>3, <3>1 DEF r, s
    <2>4. CASE UNCHANGED <<proc, pc>>
        BY <1>0, <2>1, <2>4 DEF r, s
    <2>5. ASSUME NEW d \in Detached(s), proc' = Stays([d EXCEPT !.late = TRUE]),
                 proc[subject].st \in {"running", "suspended"}, pc' = "idle"
          PROVE  Child(p)' /\ Stranger(p)'
        <3>1. proc'[p] = IF p = subject THEN [d EXCEPT !.late = TRUE] ELSE r
            BY <2>5, <1>a
        <3>2. d \in Sound
            BY <1>0, DetachedSound
        <3>3. /\ d.by = s.by /\ d.killed = s.killed
              /\ d.st = s.st \/ d.st = "running"
              /\ d.traced => d.kept
            BY <1>0, <2>5, DetachedFields DEF s
        <3>4. CASE p = subject
            <4>1. LET g == proc'[p] IN
                      /\ g.late /\ g.st = d.st /\ g.by = d.by /\ g.killed = d.killed
                      /\ g.traced = d.traced /\ g.kept = d.kept
                BY <3>1, <3>2, <3>4, LateFields
            <4> QED
                BY <1>0, <2>1, <2>5, <3>3, <3>4, <4>1 DEF r, s
        <3>5. CASE p # subject
            BY <1>0, <2>1, <2>5, <3>1, <3>5 DEF r, s
        <3> QED
            BY <3>4, <3>5
    <2> QED
        BY <1>9, <2>2, <2>3, <2>4, <2>5 DEF Poll, Return, s
<1>10. CASE TaskForGiven
    <2>1. UNCHANGED subject /\ pc = "atask" /\ pc' = "idle"
        BY <1>10 DEF TaskForGiven, Return
    <2>2. CASE Alive(subject) /\ UNCHANGED proc /\ TakesTask
        <3>1. process'.pid = subject /\ process' # None
            BY <2>2, SubjectTask
        <3> QED
            BY <1>0, <2>1, <2>2, <3>1 DEF r
    <2>3. ASSUME NEW d \in Detached(s), proc' = Stays(d), UNCHANGED process
          PROVE  Child(p)' /\ Stranger(p)'
        <3>1. proc'[p] = IF p = subject THEN d ELSE r
            BY <2>3, <1>a
        <3>2. CASE p = subject
            <4>1. /\ d.by = r.by /\ d.killed = r.killed /\ d.late = r.late
                  /\ d.sigstop = r.sigstop
                  /\ \/ d = r /\ (~r.traced \/ r.st = "zombie")
                     \/ /\ r.st \notin {"none", "zombie"} /\ d.st = "running"
                        /\ d.traced => d.kept
                BY <1>0, <2>3, <3>2, DetachedFields DEF r, s
            <4> QED
                BY <1>0, <2>1, <2>3, <3>1, <3>2, <4>1 DEF r
        <3>3. CASE p # subject
            BY <1>0, <2>1, <2>3, <3>1, <3>3 DEF r
        <3> QED
            BY <3>2, <3>3
    <2> QED
        BY <1>10, <2>2, <2>3 DEF TaskForGiven, s
<1>11. CASE StartFails \/ StartAllocates \/ LoopSeesStop \/ LoopFails \/ Wind \/ Restore \/ End
    BY <1>0, <1>11 DEF StartFails, StartAllocates, LoopSeesStop, LoopFails, Wind, Restore, End,
       Return, r, s
<1>12. CASE StartTraces
    <2>1. /\ pc = "ptrace" /\ pc' = "port" /\ UNCHANGED <<process, subject>>
          /\ proc'[p] = r \/ (p = subject /\ proc'[p] = [s EXCEPT !.traced = TRUE])
        BY <1>12, <1>a DEF StartTraces, Return, r, s
    <2>2. LET g == proc'[p] IN
              /\ g.st = r.st /\ g.by = r.by /\ g.ports = r.ports
              /\ g.killed = r.killed /\ g.late = r.late /\ g.sigstop = r.sigstop
              /\ g.traced = r.traced \/ (g.traced /\ p = subject)
        <3>1. CASE proc'[p] = r
            BY <3>1
        <3>2. CASE p = subject /\ proc'[p] = [r EXCEPT !.traced = TRUE]
            BY <1>0, <3>2, TracedFields
        <3> QED
            BY <2>1, <3>1, <3>2 DEF r, s
    <2>3. p = subject => Holds(p)
        BY <1>0, <2>1
    <2>4. Child(p)'
        BY <1>0, <2>1, <2>2 DEF r
    <2>5. Stranger(p)'
        BY <1>0, <2>1, <2>2, <2>3 DEF r
    <2> QED
        BY <2>4, <2>5
<1>13. CASE StartInstalls
    <2>1. /\ pc = "install" /\ pc' = "cont" /\ UNCHANGED <<process, subject>>
          /\ proc'[p] = IF p = subject THEN [s EXCEPT !.ports = TRUE] ELSE r
        BY <1>13, <1>a DEF StartInstalls, Return, s
    <2>2. CASE p = subject
        <3>1. LET g == proc'[p] IN
                  /\ g.ports /\ g.st = r.st /\ g.by = r.by /\ g.traced = r.traced
                  /\ g.killed = r.killed /\ g.late = r.late /\ g.sigstop = r.sigstop
            BY <1>0, <2>1, <2>2, PortsFields DEF r, s
        <3> QED
            BY <1>0, <2>1, <2>2, <3>1 DEF r
    <2>3. CASE p # subject
        BY <1>0, <2>1, <2>3 DEF r
    <2> QED
        BY <2>2, <2>3
<1>14. CASE StartContinues
    <2>1. /\ pc = "cont" /\ pc' = "loop" /\ UNCHANGED <<process, subject>>
          /\ proc'[p] = IF p = subject /\ Alive(subject) THEN Continued(s) ELSE r
        BY <1>14, <1>a DEF StartContinues, Return, r, s
    <2> QED
        BY <1>0, <2>1, ContinuedFields DEF r, s
<1>15. CASE LoopSeesExit
    <2>1. /\ pc = "loop" /\ pc' = "wind" /\ UNCHANGED <<process, subject>>
          /\ proc'[p] = IF p = subject THEN Nobody ELSE r
        BY <1>15, <1>a, <1>b DEF LoopSeesExit, Return
    <2> QED
        BY <1>0, <1>b, <2>1 DEF r, s
<1>16. CASE Release
    <2>1. /\ pc = "release" /\ pc' = "detach" /\ next' = "end" /\ UNCHANGED <<process, subject>>
          /\ proc'[p] = r \/ (p = process.pid /\ proc'[p] = [r EXCEPT !.ports = FALSE])
        BY <1>16 DEF Release, IInv, r
    <2>2. LET g == proc'[p] IN
              /\ g.st = r.st /\ g.by = r.by /\ g.traced = r.traced
              /\ g.killed = r.killed /\ g.late = r.late /\ g.sigstop = r.sigstop
              /\ g.ports = r.ports \/ p = process.pid
        BY <1>0, <2>1 DEF Sound, Process
    <2> QED
        BY <1>0, <2>1, <2>2 DEF r
<1>17. CASE Stop \/ UNCHANGED vars
    BY <1>0, <1>17 DEF Stop, vars, r, s
<1>18. ASSUME NEW q \in Pid, Born(q) PROVE Child(p)' /\ Stranger(p)'
    <2>1. /\ UNCHANGED <<process, pc, next, subject>>
          /\ proc'[p] = IF p = q THEN Newborn("running", "other") ELSE r
        BY <1>18 DEF Born, IInv, r
    <2>2. LET n == Newborn("running", "other") IN
              n.st = "running" /\ n.by = "other" /\ ~n.traced /\ ~n.sigstop
        BY NewbornFields DEF IInv, Typed
    <2> QED
        BY <1>0, <2>1, <2>2 DEF r, s
<1>19. ASSUME NEW q \in Pid, TakeStop(q) PROVE Child(p)' /\ Stranger(p)'
    <2>1. /\ UNCHANGED <<process, pc, next, subject>>
          /\ proc'[p] = r \/ (/\ r.sigstop /\ r.st = "running"
                              /\ proc'[p] = [r EXCEPT !.sigstop = FALSE, !.st = "stopped"])
        BY <1>19 DEF TakeStop, IInv, r
    <2>2. CASE proc'[p] = r
        BY <1>0, <2>1, <2>2 DEF r
    <2>3. CASE /\ r.sigstop /\ r.st = "running"
               /\ proc'[p] = [r EXCEPT !.sigstop = FALSE, !.st = "stopped"]
        <3>1. LET t == proc'[p] IN
                  /\ t.traced = r.traced /\ ~t.sigstop /\ t.st = "stopped" /\ t.by = r.by
                  /\ t.killed = r.killed /\ t.late = r.late /\ t.ports = r.ports
            BY <1>0, <2>3, StoppedFields
        <3>2. Child(p)'
            BY <1>0, <2>1, <2>3, <3>1 DEF r
        <3>3. Stranger(p)'
            BY <1>0, <2>1, <2>3, <3>1 DEF r
        <3> QED
            BY <3>2, <3>3
    <2> QED
        BY <2>1, <2>2, <2>3
<1>20. ASSUME NEW q \in Pid, Die(q) PROVE Child(p)' /\ Stranger(p)'
    <2>1. /\ UNCHANGED <<process, pc, next, subject>>
          /\ proc'[p] = r \/ (Alive(p) /\ (proc'[p] = Zombie(r) \/ proc'[p] = Nobody))
        BY <1>20 DEF Die, IInv, r
    <2>2. CASE proc'[p] = r
        BY <1>0, <2>1, <2>2 DEF r
    <2>3. CASE Alive(p) /\ proc'[p] = Zombie(r)
        <3>1. LET z == proc'[p] IN
                  z.st = "zombie" /\ z.by = r.by /\ z.late = r.late /\ z.killed = r.killed
            BY <1>0, <2>3, ZombieFields
        <3> QED
            BY <1>0, <2>1, <2>3, <3>1 DEF r
    <2>4. CASE proc'[p] = Nobody
        BY <1>b, <2>4
    <2> QED
        BY <2>1, <2>2, <2>3, <2>4
<1> QED
    BY <1>1, <1>2, <1>3, <1>4, <1>5, <1>6, <1>7, <1>8, <1>9, <1>10, <1>11, <1>12, <1>13,
       <1>14, <1>15, <1>16, <1>17, <1>18, <1>19, <1>20
    DEF Next, OwnerStep, Calls, System

\* Initially there is no process at all ...
LEMMA InitOwned == Init => Owned
<1> SUFFICES ASSUME Init PROVE Owned
    OBVIOUS
<1>1. \A p \in Pid : proc[p].st = "none"
    BY NobodySound DEF Init
<1>2. Held
    BY DEF Init, Held, EndsStart, InStart, InKill
<1> QED
    BY <1>1, <1>2 DEF Owned, Child, Stranger, Alive, Gone

\* ... and every one there ever is stays accounted for.
LEMMA Ownership == Spec => [](IInv /\ Owned)
<1>1. IInv /\ Owned /\ [Next]_vars => Owned'
    <2> SUFFICES ASSUME IInv, Owned, [Next]_vars PROVE Owned'
        OBVIOUS
    <2>1. Held'
        BY StepHeld DEF Owned
    <2>2. \A p \in Pid : Child(p)' /\ Stranger(p)'
        BY <2>1, StepOwned
    <2> QED
        BY <2>1, <2>2 DEF Owned
<1> QED
    BY Invariance, InitOwned, <1>1, PTL DEF Spec

\* Whenever the owner is idle again, after any sequence of launches, attaches,
\* failures and terminates, a process the engine launched is its target, has
\* been reaped, or was killed and outlasted the bounded wait for its end.
THEOREM NoChildIsStranded == Spec => []NoStrandedChild
<1>1. IInv /\ Owned => NoStrandedChild
    BY DEF Owned, Child, NoStrandedChild, InKill
<1> QED
    BY Ownership, <1>1, PTL

\* A process the engine launched never runs, unless its exception ports are
\* installed or it has been killed, except where DetachAndKill() has it.
THEOREM ChildrenRunWatched == Spec => []NothingRunsUnwatched
<1>1. IInv /\ Owned => NothingRunsUnwatched
    <2> SUFFICES ASSUME IInv, Owned, NEW p \in Pid,
                        proc[p].by = "engine", proc[p].st = "running", ~proc[p].killed
                 PROVE  proc[p].ports \/ (subject = p /\ pc \in {"detach", "kill"})
        BY DEF NothingRunsUnwatched
    <2> QED
        BY DEF Owned, Child, Gone
<1> QED
    BY Ownership, <1>1, PTL

\* Whenever the owner is idle again, a live process it was given and no longer
\* holds is traced only where the system refused the PT_DETACH, and otherwise
\* stopped only by a SIGSTOP that came after Attach() had given up waiting.
THEOREM StrangersAreLetGo == Spec => []OthersLetGo
<1>1. IInv /\ Owned => OthersLetGo
    BY DEF Owned, Stranger, OthersLetGo
<1> QED
    BY Ownership, <1>1, PTL

=============================================================================
