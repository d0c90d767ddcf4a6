---------------------------- MODULE PromiseTable ----------------------------
(***************************************************************************)
(* What every asynchronous D-Bus function promises to a script: an id is   *)
(* handed out once, its promise is settled at most once and never changes  *)
(* afterwards, and a promise settled with the answer to a call got the     *)
(* answer the peer gave to that very call.  Closing the table (plugin      *)
(* shutdown) drops the pending promises without settling them.             *)
(***************************************************************************)
EXTENDS Naturals

CONSTANTS Ids,      \* the promise ids
          Kinds     \* the ways a promise is settled without an answer

VARIABLES pending,  \* ids whose promise waits to be settled
          outcome,  \* how each promise was settled, None before that
          answered, \* ids of the calls the peer has answered
          open      \* FALSE once the plugin has shut down

tableVars == <<pending, outcome, answered, open>>

None == [kind |-> "none", call |-> 0]

\* The ways promise id may be settled.
Allowed(id) ==
    [kind : Kinds, call : {0}]
        \cup {[kind |-> "reply", call |-> c] : c \in {id} \cap answered}

TableInit ==
    /\ pending = {}
    /\ outcome = [id \in Ids |-> None]
    /\ answered = {}
    /\ open = TRUE

Create(id) ==
    /\ open
    /\ id \notin pending
    /\ outcome[id] = None
    /\ pending' = pending \cup {id}
    /\ UNCHANGED <<outcome, answered, open>>

\* The peer answers a call it was sent, pending or not (it may be late).
Answer(id) ==
    /\ answered' = answered \cup {id}
    /\ UNCHANGED <<pending, outcome, open>>

SettleAll(S) ==
    /\ pending' = pending \ S
    /\ \A id \in S : outcome'[id] \in Allowed(id)
    /\ outcome' = [id \in Ids |-> IF id \in S THEN outcome'[id] ELSE outcome[id]]
    /\ UNCHANGED <<answered, open>>

Close ==
    /\ open' = FALSE
    /\ pending' = {}
    /\ UNCHANGED <<outcome, answered>>

TableNext ==
    \/ \E id \in Ids : Create(id) \/ Answer(id)
    \/ \E S \in SUBSET pending : S # {} /\ SettleAll(S)
    \/ Close

TableSpec == TableInit /\ [][TableNext]_tableVars
=============================================================================
