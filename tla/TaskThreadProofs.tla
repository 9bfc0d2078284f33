--------------------------- MODULE TaskThreadProofs ---------------------------
(***************************************************************************)
(* Proofs about TaskThread, for any callers and any number of posts.       *)
(* NothingLost is inductive once one knows that an open thread has not     *)
(* been told to end.  That the thread keeps the safety part of Mailbox     *)
(* rests on the order of three numbers: the newest post run, the newest    *)
(* post latched and the newest post waiting (InOrder).                     *)
(***************************************************************************)
EXTENDS TaskThread, SequenceTheorems, TLAPS

Texts == Seq(1..MaxPosts)

\* The newest of some arguments, 0 when there are none.
NewestOf(s) == IF s = <<>> THEN 0 ELSE s[Len(s)]

\* Only a destructor tells the thread to end.
ActiveUntilDestroyed == active <=> destructor \in {"none", "derived"}

\* What is waiting is the last post; what is latched lies between it and
\* what has been run; the plain thread never forgets its arguments.
InOrder ==
    /\ NewestOf(ran) <= posted
    /\ args # <<>> => NewestOf(args) = posted
    /\ kind = "latest" /\ args = <<>> => posted = 0
    /\ loop = "if" =>
           /\ argLatch # <<>> => NewestOf(ran) <= NewestOf(argLatch)
           /\ NewestOf(argLatch) <= posted
           /\ kind = "latest" /\ argLatch = <<>> => NewestOf(ran) = 0

IInv == TypeOK /\ ActiveUntilDestroyed /\ NothingLost /\ InOrder

\* The newest of two texts put together is the newest of the second, if any.
LEMMA NewestOfConcat ==
    ASSUME NEW s \in Texts, NEW t \in Texts
    PROVE  /\ s \o t \in Texts
           /\ NewestOf(s \o t) = IF t = <<>> THEN NewestOf(s) ELSE NewestOf(t)
           /\ NewestOf(s) \in Nat
<1> DEFINE S == 1..MaxPosts
<1>1. s \in Seq(S) /\ t \in Seq(S)
    BY DEF Texts
<1>2. /\ s \o t \in Seq(S)
      /\ Len(s \o t) = Len(s) + Len(t)
      /\ \A i \in 1..(Len(s) + Len(t)) :
             (s \o t)[i] = IF i <= Len(s) THEN s[i] ELSE t[i - Len(s)]
    BY <1>1, ConcatProperties
<1>3. ASSUME s # <<>> PROVE s[Len(s)] \in S
    <2>1. Len(s) \in Nat \ {0}
        BY <1>1, <1>3, EmptySeq
    <2>2. Len(s) \in 1..Len(s)
        BY <2>1
    <2> QED
        BY <1>1, <2>2, ElementOfSeq
<1>4. NewestOf(s) \in Nat
    BY <1>3, PostsAssumption DEF NewestOf
<1>5. CASE t = <<>>
    BY <1>1, <1>2, <1>4, <1>5, ConcatEmptySeq DEF Texts
<1>6. CASE t # <<>>
    <2>1. Len(t) \in Nat /\ Len(t) > 0 /\ Len(s) \in Nat
        BY <1>1, <1>6
    <2>2. s \o t # <<>>
        BY <1>1, <1>2, <2>1, ConcatEqualIffEmpty, <1>6
    <2>3. (s \o t)[Len(s) + Len(t)] = t[Len(t)]
        BY <1>2, <2>1
    <2> QED
        BY <1>2, <1>4, <1>6, <2>2, <2>3 DEF NewestOf, Texts
<1> QED
    BY <1>5, <1>6

\* A post put at the end of a text is its newest.
LEMMA NewestOfAppend ==
    ASSUME NEW s \in Texts, NEW n \in 1..MaxPosts
    PROVE  /\ Append(s, n) \in Texts /\ Append(s, n) # <<>> /\ NewestOf(Append(s, n)) = n
           /\ <<n>> \in Texts /\ <<n>> # <<>> /\ NewestOf(<<n>>) = n
<1>1. /\ Append(s, n) \in Texts /\ Append(s, n) # <<>>
      /\ Len(Append(s, n)) = Len(s) + 1 /\ Append(s, n)[Len(s) + 1] = n
    BY AppendProperties DEF Texts
<1> QED
    BY <1>1 DEF NewestOf, Texts

\* Appending to the end of two texts is appending to the second.
LEMMA AppendToConcat ==
    ASSUME NEW s \in Texts, NEW t \in Texts, NEW n \in 1..MaxPosts
    PROVE  s \o Append(t, n) = Append(s \o t, n)
<1>1. <<n>> \in Texts /\ s \o t \in Texts
    BY NewestOfAppend, NewestOfConcat
<1>2. Append(t, n) = t \o <<n>> /\ Append(s \o t, n) = (s \o t) \o <<n>>
    BY <1>1, AppendIsConcat DEF Texts
<1>3. (s \o t) \o <<n>> = s \o (t \o <<n>>)
    <2> DEFINE u == <<n>>
    <2>1. u \in Texts
        BY <1>1
    <2> HIDE DEF u
    <2>2. (s \o t) \o u = s \o (t \o u)
        BY <2>1, ConcatAssociative DEF Texts
    <2> QED
        BY <2>2 DEF u
<1> QED
    BY <1>2, <1>3

\* The list of all posts grows by the one that is appended.
LEMMA PostsGrow ==
    ASSUME NEW n \in Nat, n + 1 \in 1..MaxPosts
    PROVE  Append([i \in 1..n |-> i], n + 1) = [i \in 1..(n + 1) |-> i]
<1> DEFINE all == [i \in 1..n |-> i]
<1>1. all \in Seq(Nat) /\ Len(all) = n
    OBVIOUS
<1>2. /\ Append(all, n + 1) \in Seq(Nat)
      /\ Len(Append(all, n + 1)) = n + 1
      /\ \A i \in 1..n : Append(all, n + 1)[i] = all[i]
      /\ Append(all, n + 1)[n + 1] = n + 1
    BY <1>1, AppendProperties
<1>3. [i \in 1..(n + 1) |-> i] \in Seq(Nat) /\ Len([i \in 1..(n + 1) |-> i]) = n + 1
    OBVIOUS
<1>4. \A i \in 1..(n + 1) : Append(all, n + 1)[i] = i
    BY <1>1, <1>2
<1> QED
    BY <1>2, <1>3, <1>4

-----------------------------------------------------------------------------

LEMMA InitIInv == Init => IInv
<1> SUFFICES ASSUME Init PROVE IInv
    OBVIOUS
<1>1. TypeOK /\ ActiveUntilDestroyed
    BY PostsAssumption DEF Init, TypeOK, ActiveUntilDestroyed, LoopPlaces, DestructorPlaces
<1>2. InOrder
    BY DEF Init, InOrder, NewestOf
<1>3. NothingLost
    <2>1. (<<>> \o <<>>) \o <<>> = <<>>
        BY EmptySeq, ConcatEmptySeq
    <2>2. [n \in 1..0 |-> n] = <<>>
        OBVIOUS
    <2> QED
        BY <2>1, <2>2 DEF Init, NothingLost, Latched
<1> QED
    BY <1>1, <1>2, <1>3 DEF IInv

\* WakeUp puts its post where the thread will find it.
LEMMA WakeUpIInv == ASSUME NEW c \in Callers, IInv, WakeUp(c) PROVE IInv'
<1> USE DEF IInv, WakeUp
<1>1. /\ posted \in Nat /\ posted + 1 \in 1..MaxPosts
      /\ args \in Texts /\ argLatch \in Texts /\ ran \in Texts
    BY PostsAssumption DEF TypeOK, Texts
<1>2. args' \in Texts /\ args' # <<>> /\ NewestOf(args') = posted + 1
    BY <1>1, NewestOfAppend DEF CompressArguments
<1>3. TypeOK'
    BY <1>1, <1>2 DEF TypeOK, Texts
<1>4. ActiveUntilDestroyed'
    BY DEF ActiveUntilDestroyed
<1>5. InOrder'
    BY <1>1, <1>2, NewestOfConcat DEF InOrder, NewestOf
<1>6. NothingLost'
    <2> SUFFICES ASSUME kind = "concat", destructor = "none"
                 PROVE  ((ran \o Latched) \o args)' = [n \in 1..(posted + 1) |-> n]
        BY DEF NothingLost
    <2>1. /\ ran' = ran /\ Latched' = Latched /\ args' = Append(args, posted + 1)
        BY DEF Latched, CompressArguments
    <2>2. Latched \in Texts /\ ran \o Latched \in Texts
        <3>1. Latched \in Texts
            BY <1>1, EmptySeq DEF Latched, Texts
        <3> QED
            BY <1>1, <3>1, ConcatProperties DEF Texts
    <2>3. (ran \o Latched) \o Append(args, posted + 1)
              = Append((ran \o Latched) \o args, posted + 1)
        BY <1>1, <2>2, AppendToConcat
    <2>4. (ran \o Latched) \o args = [n \in 1..posted |-> n]
        BY DEF NothingLost
    <2> QED
        BY <1>1, <2>1, <2>3, <2>4, PostsGrow
<1> QED
    BY <1>3, <1>4, <1>5, <1>6

\* Between the latch and the call the text changes hands under the lock.
LEMMA LatchIInv == ASSUME IInv, Latch PROVE IInv'
<1> USE DEF IInv, Latch
<1>1. args \in Texts /\ ran \in Texts /\ <<>> \in Texts /\ posted \in Nat
    BY EmptySeq DEF TypeOK, Texts
<1>2. TypeOK'
    BY <1>1 DEF TypeOK, Texts, ResetArgs, LoopPlaces
<1>3. ActiveUntilDestroyed'
    BY DEF ActiveUntilDestroyed
<1>4. InOrder'
    BY <1>1, NewestOfConcat DEF InOrder, NewestOf, ResetArgs
<1>5. NothingLost'
    <2> SUFFICES ASSUME kind = "concat", destructor = "none"
                 PROVE  ((ran \o Latched) \o args)' = (ran \o Latched) \o args
        BY DEF NothingLost
    <2>1. /\ ran' = ran /\ Latched = <<>> /\ Latched' = args /\ args' = <<>>
        BY DEF Latched, ResetArgs
    <2>2. ran \o args \in Texts /\ ran \o <<>> = ran
        BY <1>1, ConcatProperties, ConcatEmptySeq DEF Texts
    <2>3. (ran \o args) \o <<>> = ran \o args
        BY <2>2, ConcatEmptySeq DEF Texts
    <2> QED
        BY <2>1, <2>2, <2>3
<1> QED
    BY <1>2, <1>3, <1>4, <1>5

\* The call: what was latched has been run.
LEMMA ApplyIInv == ASSUME IInv, Apply PROVE IInv'
<1> USE DEF IInv, Apply
<1>1. /\ argLatch \in Texts /\ ran \in Texts /\ args \in Texts /\ <<>> \in Texts
      /\ ran \o argLatch \in Texts /\ posted \in Nat
    BY EmptySeq, NewestOfConcat DEF TypeOK, Texts
<1>2. TypeOK'
    BY <1>1 DEF TypeOK, Texts, LoopPlaces
<1>3. ActiveUntilDestroyed'
    BY DEF ActiveUntilDestroyed
<1>4. InOrder'
    <2>1. NewestOf(ran') <= posted
        <3>1. CASE ran' = ran
            BY <3>1 DEF InOrder
        <3>2. CASE ran' = argLatch
            BY <3>2 DEF InOrder
        <3>3. CASE ran' = ran \o argLatch
            BY <1>1, <3>3, NewestOfConcat DEF InOrder
        <3> QED
            BY <3>1, <3>2, <3>3
    <2> QED
        BY <2>1 DEF InOrder
<1>5. NothingLost'
    <2> SUFFICES ASSUME kind = "concat", destructor = "none"
                 PROVE  ((ran \o Latched) \o args)' = (ran \o Latched) \o args
        BY DEF NothingLost
    <2>1. /\ ran' = ran \o argLatch /\ Latched = argLatch /\ Latched' = <<>> /\ args' = args
        BY DEF Latched, ActiveUntilDestroyed
    <2>2. (ran \o argLatch) \o <<>> = ran \o argLatch
        BY <1>1, ConcatEmptySeq DEF Texts
    <2> QED
        BY <2>1, <2>2
<1> QED
    BY <1>2, <1>3, <1>4, <1>5

LEMMA NextIInv == IInv /\ [Next]_vars => IInv'
<1> SUFFICES ASSUME IInv, [Next]_vars PROVE IInv'
    OBVIOUS
<1>1. CASE \E c \in Callers : WakeUp(c)
    BY <1>1, WakeUpIInv
<1>2. CASE Latch
    BY <1>2, LatchIInv
<1>3. CASE Apply
    BY <1>3, ApplyIInv
<1>4. CASE \/ \E c \in Callers : ReleaseSemaphore(c)
           \/ While \/ Wait
           \/ Destroy \/ Deactivate \/ ReleaseToEnd \/ Join
           \/ UNCHANGED vars
    <2>1. /\ UNCHANGED <<kind, posted, args, argLatch, ran>>
          /\ (loop = "if") <=> (loop' = "if")
          /\ destructor' = "none" => destructor = "none"
        BY <1>4 DEF ReleaseSemaphore, While, Wait, Destroy, Deactivate, ReleaseToEnd,
                    Join, vars
    <2>2. NothingLost' /\ InOrder'
        BY <2>1 DEF IInv, NothingLost, InOrder, Latched, NewestOf
    <2>3. /\ wakeupSemaphore' \in 0..1 /\ loop' \in LoopPlaces
          /\ caller' \in [Callers -> {"out", "release"}]
        BY <1>4 DEF IInv, TypeOK, LoopPlaces, Released, ReleaseSemaphore, While, Wait,
                    Destroy, Deactivate, ReleaseToEnd, Join, vars
    <2>4. /\ active' \in BOOLEAN /\ destructor' \in DestructorPlaces
          /\ ActiveUntilDestroyed'
        <3>1. active \in BOOLEAN /\ destructor \in DestructorPlaces /\ ActiveUntilDestroyed
            BY DEF IInv, TypeOK
        <3>2. CASE Deactivate
            BY <3>1, <3>2 DEF Deactivate, ActiveUntilDestroyed, DestructorPlaces
        <3>3. CASE ~Deactivate
            <4>1. active' = active
                BY <1>4, <3>3 DEF ReleaseSemaphore, While, Wait, Destroy, ReleaseToEnd,
                                  Join, vars
            <4>2. \/ destructor' = destructor
                  \/ destructor = "none" /\ destructor' = "derived"
                  \/ destructor = "release" /\ destructor' = "join"
                  \/ destructor = "join" /\ destructor' = "gone"
                BY <1>4, <3>3 DEF ReleaseSemaphore, While, Wait, Destroy, ReleaseToEnd,
                                  Join, vars
            <4> QED
                BY <3>1, <4>1, <4>2, Zenon DEF ActiveUntilDestroyed, DestructorPlaces
        <3> QED
            BY <3>2, <3>3
    <2>5. TypeOK'
        BY <2>1, <2>3, <2>4 DEF IInv, TypeOK
    <2> QED
        BY <2>2, <2>4, <2>5 DEF IInv
<1> QED
    BY <1>1, <1>2, <1>3, <1>4 DEF Next, Loop, EndsIt

LEMMA AlwaysIInv == Spec => []IInv
    BY InitIInv, NextIInv, PTL DEF Spec

-----------------------------------------------------------------------------

(***************************************************************************)
(* The semaphore never counts past one and every variable keeps its type.  *)
(***************************************************************************)
THEOREM TypeCorrect == Spec => []TypeOK
<1>1. IInv => TypeOK
    BY DEF IInv
<1> QED
    BY <1>1, AlwaysIInv, PTL

(***************************************************************************)
(* The log's thread prints every text of every caller exactly once and in  *)
(* order, for any number of callers and texts, until it is destroyed.      *)
(***************************************************************************)
THEOREM EveryTextIsPrinted == Spec => []NothingLost
<1>1. IInv => NothingLost
    BY DEF IInv
<1> QED
    BY <1>1, AlwaysIInv, PTL

\* A call hands on a newer post than the last call, or the same again.
LEMMA ApplyDelivers ==
    ASSUME IInv, Apply
    PROVE  Box!Deliver \/ UNCHANGED Box!vars
<1>1. /\ argLatch \in Texts /\ ran \in Texts /\ posted \in Nat
      /\ Newest = NewestOf(ran) /\ Newest' = NewestOf(ran')
    BY DEF IInv, TypeOK, Texts, Newest, NewestOf
<1>2. /\ NewestOf(ran) \in Nat /\ NewestOf(argLatch) \in Nat
      /\ NewestOf(ran) <= posted /\ NewestOf(argLatch) <= posted
      /\ argLatch # <<>> => NewestOf(ran) <= NewestOf(argLatch)
      /\ kind = "latest" /\ argLatch = <<>> => NewestOf(ran) = 0
    BY <1>1, NewestOfConcat DEF IInv, InOrder, Apply
<1>3. /\ \/ ran' = ran
         \/ active = TRUE /\ kind = "latest" /\ ran' = argLatch
         \/ active = TRUE /\ ran' = ran \o argLatch
      /\ UNCHANGED <<posted, active>>
    BY DEF IInv, TypeOK, Apply
<1>4. /\ NewestOf(ran) <= NewestOf(ran') /\ NewestOf(ran') <= posted
      /\ NewestOf(ran') \in Nat /\ (ran' # ran => active = TRUE)
    <2>1. CASE ran' = ran
        BY <1>2, <2>1
    <2>2. CASE active = TRUE /\ kind = "latest" /\ ran' = argLatch
        BY <1>2, <2>2
    <2>3. CASE active = TRUE /\ ran' = ran \o argLatch
        BY <1>1, <1>2, <2>3, NewestOfConcat
    <2> QED
        BY <1>3, <2>1, <2>2, <2>3
<1>5. CASE NewestOf(ran') = NewestOf(ran)
    BY <1>1, <1>3, <1>5 DEF Box!vars
<1>6. CASE NewestOf(ran') # NewestOf(ran)
    BY <1>1, <1>2, <1>4, <1>3, <1>6 DEF Box!Deliver
<1> QED
    BY <1>5, <1>6

(***************************************************************************)
(* TaskThread_ implements the safety part of Mailbox: every call of the    *)
(* function hands on the newest post, or repeats it, and none goes back,   *)
(* for both kinds of thread, redundant releases and the destructor         *)
(* included.                                                               *)
(***************************************************************************)
THEOREM KeepsTheMailbox == Spec => Box!Safety
<1>1. Init => Box!Init
    BY DEF Init, Box!Init, Newest
<1>2. IInv /\ [Next]_vars => [Box!Next]_Box!vars
    <2> SUFFICES ASSUME IInv, [Next]_vars
                 PROVE  Box!Next \/ UNCHANGED Box!vars
        OBVIOUS
    <2>1. CASE \E c \in Callers : WakeUp(c)
        BY <2>1 DEF IInv, ActiveUntilDestroyed, TypeOK, WakeUp, Newest, Box!Next, Box!Post
    <2>2. CASE Apply
        BY <2>2, ApplyDelivers DEF Box!Next
    <2>3. CASE Deactivate
        BY <2>3 DEF IInv, ActiveUntilDestroyed, TypeOK, Deactivate, Newest, Box!Next, Box!Close
    <2>4. CASE \/ \E c \in Callers : ReleaseSemaphore(c)
               \/ While \/ Wait \/ Latch
               \/ Destroy \/ ReleaseToEnd \/ Join
               \/ UNCHANGED vars
        BY <2>4 DEF ReleaseSemaphore, While, Wait, Latch, Destroy, ReleaseToEnd, Join, vars,
                    Newest, Box!vars
    <2> QED
        BY <2>1, <2>2, <2>3, <2>4 DEF Next, Loop, EndsIt
<1> QED
    BY <1>1, <1>2, AlwaysIInv, PTL DEF Spec, Box!Safety

=============================================================================
