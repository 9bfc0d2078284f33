------------------------------- MODULE Mailbox -------------------------------
(***************************************************************************)
(* What TaskThread_ promises whoever wakes it: what is posted is handed on *)
(* in the order of the posts, any number of posts may be answered by one   *)
(* call, an older post is never handed on after a newer one, and unless    *)
(* the mailbox is closed the last post is handed on in the end.            *)
(***************************************************************************)
EXTENDS Naturals

VARIABLES
    posted,     \* how many posts there have been
    delivered,  \* the newest post handed on, 0 for none
    open        \* the mailbox still takes posts

vars == <<posted, delivered, open>>

Init == posted = 0 /\ delivered = 0 /\ open = TRUE

Post ==
    /\ open
    /\ posted' = posted + 1
    /\ UNCHANGED <<delivered, open>>

Deliver ==
    /\ open
    /\ delivered < posted
    /\ delivered' \in (delivered + 1)..posted
    /\ UNCHANGED <<posted, open>>

Close ==
    /\ open
    /\ open' = FALSE
    /\ UNCHANGED <<posted, delivered>>

Next == Post \/ Deliver \/ Close

Safety == Init /\ [][Next]_vars

Spec == Safety /\ <>[](delivered = posted \/ ~open)
=============================================================================
