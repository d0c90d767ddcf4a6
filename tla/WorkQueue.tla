----------------------------- MODULE WorkQueue -----------------------------
(***************************************************************************)
(* What a plugin with one worker thread promises to the script: requests   *)
(* are served one by one in the order they were made, each answer is       *)
(* delivered once and in that order, alone or some at once, no more than   *)
(* Limit requests are outstanding, and closing drops whatever is.          *)
(***************************************************************************)
EXTENDS Naturals, Sequences

CONSTANTS Ids,     \* the request ids
          Limit,   \* most requests outstanding at a time
          Batches  \* how many answers may be delivered at once

VARIABLES line,   \* ids of the outstanding requests, oldest first
          ready,  \* how many of them, from the front, have been served
          open    \* FALSE once the plugin has shut down

queueVars == <<line, ready, open>>

QueueInit ==
    /\ line = <<>>
    /\ ready = 0
    /\ open = TRUE

Submit(id) ==
    /\ open
    /\ Len(line) < Limit
    /\ \A i \in 1..Len(line) : line[i] < id
    /\ line' = Append(line, id)
    /\ UNCHANGED <<ready, open>>

Serve ==
    /\ ready < Len(line)
    /\ ready' = ready + 1
    /\ UNCHANGED <<line, open>>

Deliver(n) ==
    /\ n \in Batches
    /\ line' = SubSeq(line, n + 1, Len(line))
    /\ ready' = ready - n
    /\ UNCHANGED open

Close ==
    /\ line' = <<>>
    /\ ready' = 0
    /\ open' = FALSE

QueueNext ==
    \/ \E id \in Ids : Submit(id)
    \/ Serve
    \/ \E n \in 1..ready : Deliver(n)
    \/ Close

QueueSpec == QueueInit /\ [][QueueNext]_queueVars
=============================================================================
