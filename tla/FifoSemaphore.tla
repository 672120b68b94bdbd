--------------------------- MODULE FifoSemaphore ---------------------------
(***************************************************************************)
(* What the execution gate of a transform profile promises: at most Limit  *)
(* clients hold a permit, the others queue, and a returned permit goes to  *)
(* the client that has waited longest.                                     *)
(***************************************************************************)
EXTENDS Naturals, Sequences, FiniteSets

CONSTANTS
    Clients,
    Limit,      \* permits
    Depth       \* places in the queue

VARIABLES
    holders,    \* the clients that hold a permit
    queue       \* the clients that wait, the oldest first

semVars == <<holders, queue>>

Queued == {queue[i] : i \in DOMAIN queue}

Init == holders = {} /\ queue = <<>>

Acquire(c) ==
    /\ c \notin holders \cup Queued
    /\ queue = <<>>
    /\ Cardinality(holders) < Limit
    /\ holders' = holders \cup {c}
    /\ UNCHANGED queue

Wait(c) ==
    /\ c \notin holders \cup Queued
    /\ Cardinality(holders) = Limit
    /\ Len(queue) < Depth
    /\ queue' = Append(queue, c)
    /\ UNCHANGED holders

Release(c) ==
    /\ c \in holders
    /\ queue = <<>>
    /\ holders' = holders \ {c}
    /\ UNCHANGED queue

Transfer(c) ==
    /\ c \in holders
    /\ queue # <<>>
    /\ holders' = (holders \ {c}) \cup {Head(queue)}
    /\ queue' = Tail(queue)

Next == \E c \in Clients : Acquire(c) \/ Wait(c) \/ Release(c) \/ Transfer(c)

Spec == Init /\ [][Next]_semVars
=============================================================================
