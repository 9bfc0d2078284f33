----------------------------- MODULE TaskThread ------------------------------
(***************************************************************************)
(* TaskThread_ of x64dbg (src/dbg/taskthread.h): a thread that runs one    *)
(* function with the newest arguments, or with all the text, given to it   *)
(* since the last time.  Callers leave arguments under a critical section  *)
(* and then release a semaphore that counts to one; the thread takes the   *)
(* semaphore and then, under the same critical section, the arguments.     *)
(* The log, the title, the memory map, the watch view and six other views  *)
(* are brought up to date through it.                                      *)
(*                                                                         *)
(* A post is known by its number.  A block between EnterCriticalSection    *)
(* and LeaveCriticalSection never waits, so it is one step.  The counters  *)
(* wakeups and execs are statistics that nothing reads and are left out.   *)
(* The destructor runs when nobody calls WakeUp any more; a WakeUp beside  *)
(* it would use a deleted critical section whatever the order.             *)
(***************************************************************************)
EXTENDS Naturals, Sequences

CONSTANTS
    Callers,    \* threads that call WakeUp
    MaxPosts    \* bound: calls of WakeUp

ASSUME PostsAssumption == MaxPosts \in Nat

VARIABLES
    kind,       \* "latest": TaskThread_; "concat": StringConcatTaskThread_
    posted,     \* calls of WakeUp that have left their arguments
    args,       \* this->args, as the posts it is made of
    argLatch,   \* the thread's own copy
    ran,        \* what the function has been called with: all of the text, or
                \* the arguments of the last call
    wakeupSemaphore,
    active,
    loop,       \* where Loop() is
    caller,     \* where each caller is
    destructor  \* where ~TaskThread_ is

vars == <<kind, posted, args, argLatch, ran, wakeupSemaphore, active, loop,
          caller, destructor>>

LoopPlaces == {"while", "wait", "latch", "if", "returned"}

\* "derived": ~StringConcatTaskThread_ is over, so virtual calls reach the base class.
DestructorPlaces == {"none", "derived", "release", "join", "gone"}

Init ==
    /\ kind \in {"latest", "concat"}
    /\ posted = 0
    /\ args = <<>> /\ argLatch = <<>> /\ ran = <<>>
    /\ wakeupSemaphore = 0
    /\ active = TRUE
    /\ loop = "while"
    /\ caller = [c \in Callers |-> "out"]
    /\ destructor = "none"

-----------------------------------------------------------------------------

(***************************************************************************)
(* The two virtual functions.  The plain thread replaces its arguments and *)
(* never forgets them; the concatenating one appends and, while it still   *)
(* is one, empties them.                                                   *)
(***************************************************************************)
CompressArguments(new) ==
    IF kind = "concat" THEN Append(args, new) ELSE <<new>>

ResetArgs ==
    IF kind = "concat" /\ destructor = "none" THEN <<>> ELSE args

\* ReleaseSemaphore fails when the count is already one, and nobody asks.
Released == 1

WakeUp(c) ==
    /\ caller[c] = "out"
    /\ destructor = "none"
    /\ posted < MaxPosts
    /\ posted' = posted + 1
    /\ args' = CompressArguments(posted + 1)
    /\ caller' = [caller EXCEPT ![c] = "release"]
    /\ UNCHANGED <<kind, argLatch, ran, wakeupSemaphore, active, loop, destructor>>

ReleaseSemaphore(c) ==
    /\ caller[c] = "release"
    /\ wakeupSemaphore' = Released
    /\ caller' = [caller EXCEPT ![c] = "out"]
    /\ UNCHANGED <<kind, posted, args, argLatch, ran, active, loop, destructor>>

-----------------------------------------------------------------------------

(***************************************************************************)
(* Loop()                                                                  *)
(***************************************************************************)
While ==
    /\ loop = "while"
    /\ loop' = IF active THEN "wait" ELSE "returned"
    /\ UNCHANGED <<kind, posted, args, argLatch, ran, wakeupSemaphore, active,
                   caller, destructor>>

Wait ==
    /\ loop = "wait"
    /\ wakeupSemaphore = 1
    /\ wakeupSemaphore' = 0
    /\ loop' = "latch"
    /\ UNCHANGED <<kind, posted, args, argLatch, ran, active, caller, destructor>>

Latch ==
    /\ loop = "latch"
    /\ argLatch' = args
    /\ args' = ResetArgs
    /\ loop' = "if"
    /\ UNCHANGED <<kind, posted, ran, wakeupSemaphore, active, caller, destructor>>

\* A mutant: the arguments are emptied again once they have been used.
ApplyResetting ==
    /\ loop = "if"
    /\ ran' = IF ~active THEN ran
              ELSE IF kind = "concat" THEN ran \o argLatch ELSE argLatch
    /\ args' = ResetArgs
    /\ loop' = "while"
    /\ UNCHANGED <<kind, posted, argLatch, wakeupSemaphore, active, caller, destructor>>

\* A mutant: the wake-ups that came during the call are taken as answered.
ApplyDraining ==
    /\ loop = "if"
    /\ ran' = IF ~active THEN ran
              ELSE IF kind = "concat" THEN ran \o argLatch ELSE argLatch
    /\ wakeupSemaphore' = 0
    /\ loop' = "while"
    /\ UNCHANGED <<kind, posted, args, argLatch, active, caller, destructor>>

\* The call, and the sleep after it, are the time until the next step.
Apply ==
    /\ loop = "if"
    /\ ran' = IF ~active THEN ran
              ELSE IF kind = "concat" THEN ran \o argLatch ELSE argLatch
    /\ loop' = "while"
    /\ UNCHANGED <<kind, posted, args, argLatch, wakeupSemaphore, active,
                   caller, destructor>>

-----------------------------------------------------------------------------

(***************************************************************************)
(* ~TaskThread_.  In the concatenating thread the derived part has been    *)
(* destroyed by the time the body below begins.                            *)
(***************************************************************************)
Destroy ==
    /\ destructor = "none"
    /\ \A c \in Callers : caller[c] = "out"
    /\ destructor' = "derived"
    /\ UNCHANGED <<kind, posted, args, argLatch, ran, wakeupSemaphore, active,
                   loop, caller>>

\* A mutant: the thread is woken before it is told to end.
DeactivateLast ==
    /\ destructor \in {"derived", "release"}
    /\ destructor' = IF destructor = "derived" THEN "release" ELSE "join"
    /\ wakeupSemaphore' = IF destructor = "derived" THEN Released ELSE wakeupSemaphore
    /\ active' = (active /\ destructor = "derived")
    /\ UNCHANGED <<kind, posted, args, argLatch, ran, loop, caller>>

Deactivate ==
    /\ destructor = "derived"
    /\ active' = FALSE
    /\ destructor' = "release"
    /\ UNCHANGED <<kind, posted, args, argLatch, ran, wakeupSemaphore, loop, caller>>

ReleaseToEnd ==
    /\ destructor = "release"
    /\ wakeupSemaphore' = Released
    /\ destructor' = "join"
    /\ UNCHANGED <<kind, posted, args, argLatch, ran, active, loop, caller>>

Join ==
    /\ destructor = "join"
    /\ loop = "returned"
    /\ destructor' = "gone"
    /\ UNCHANGED <<kind, posted, args, argLatch, ran, wakeupSemaphore, active,
                   loop, caller>>

-----------------------------------------------------------------------------

Loop == While \/ Wait \/ Latch \/ Apply

EndsIt == Deactivate \/ ReleaseToEnd \/ Join

Next ==
    \/ \E c \in Callers : WakeUp(c) \/ ReleaseSemaphore(c)
    \/ Loop
    \/ Destroy \/ EndsIt

\* Every thread that has begun a call is scheduled until it is through it;
\* nobody has to call WakeUp or the destructor.
Fairness ==
    /\ WF_vars(Loop)
    /\ WF_vars(EndsIt)
    /\ \A c \in Callers : WF_vars(ReleaseSemaphore(c))

Spec == Init /\ [][Next]_vars /\ Fairness

-----------------------------------------------------------------------------

TypeOK ==
    /\ kind \in {"latest", "concat"}
    /\ posted \in 0..MaxPosts
    /\ {args, argLatch, ran} \subseteq Seq(1..MaxPosts)
    /\ wakeupSemaphore \in 0..1
    /\ active \in BOOLEAN
    /\ loop \in LoopPlaces
    /\ caller \in [Callers -> {"out", "release"}]
    /\ destructor \in DestructorPlaces

\* The text in the thread's hands: latched and not yet passed on.
Latched == IF loop = "if" THEN argLatch ELSE <<>>

(***************************************************************************)
(* Until it is destroyed the concatenating thread loses no text, repeats   *)
(* none and keeps the order: what has been passed on, what is latched and  *)
(* what is waiting are together every text of every caller, in the order   *)
(* in which WakeUp took them, however calls fall between the semaphore,    *)
(* the latch, the reset and the call.                                      *)
(***************************************************************************)
NothingLost ==
    kind = "concat" /\ destructor = "none" =>
        ran \o Latched \o args = [n \in 1..posted |-> n]

(***************************************************************************)
(* A thread of either kind is a Mailbox: the newest arguments the function *)
(* has been called with never go back, and unless the thread is destroyed  *)
(* the last WakeUp is acted upon, although the semaphore counts to one and *)
(* redundant releases fail silently.                                       *)
(***************************************************************************)
Newest == IF ran = <<>> THEN 0 ELSE ran[Len(ran)]

Box == INSTANCE Mailbox WITH delivered <- Newest, open <- active

IsMailbox == Box!Spec

(***************************************************************************)
(* The destructor, which waits for the thread without a limit, returns:    *)
(* the thread cannot be left waiting on the semaphore by a release that    *)
(* it took for somebody's arguments.                                       *)
(***************************************************************************)
DestructorReturns == destructor = "derived" ~> destructor = "gone"

=============================================================================
