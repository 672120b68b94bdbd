-------------------------- MODULE WriteBehindStore --------------------------
(***************************************************************************)
(* What the agent runtime promises of its persistence: changes are applied *)
(* to memory first and written later, what was acknowledged as durable is  *)
(* durable, and a crash loses at most what was not written. When the       *)
(* stored runtime cannot be read the promise ends: memory begins again     *)
(* and writes over it.                                                     *)
(***************************************************************************)
CONSTANT Changes

VARIABLES
    memory,     \* the changes that the runtime in memory has
    disk,       \* those that the stored runtime has
    durable,    \* those acknowledged as stored
    unreadable  \* the stored runtime could not be read

vars == <<memory, disk, durable, unreadable>>

Init == memory = {} /\ disk = {} /\ durable = {} /\ unreadable = FALSE

\* What a write may leave in the store.
Writable == {s \in SUBSET memory : disk \subseteq s \/ unreadable}

Apply(c) ==
    /\ memory' = memory \cup {c}
    /\ UNCHANGED <<disk, durable, unreadable>>

\* A write stores some runtime between the stored one and the current one.
Write ==
    /\ disk' \in Writable
    /\ UNCHANGED <<memory, durable, unreadable>>

Acknowledge(c) ==
    /\ c \in disk
    /\ durable' = durable \cup {c}
    /\ UNCHANGED <<memory, disk, unreadable>>

\* The last write and its acknowledgement are one step of some callers.
WriteAcknowledged ==
    \E c \in Changes :
        /\ disk' \in Writable
        /\ c \in disk'
        /\ durable' = durable \cup {c}
        /\ UNCHANGED <<memory, unreadable>>

\* A write that is under way may still land.
Crash ==
    /\ disk' \in Writable \cup {disk}
    /\ memory' = disk'
    /\ UNCHANGED <<durable, unreadable>>

Unread ==
    /\ memory' = {}
    /\ unreadable' = TRUE
    /\ UNCHANGED <<disk, durable>>

Next ==
    \/ \E c \in Changes : Apply(c) \/ Acknowledge(c)
    \/ Write \/ WriteAcknowledged \/ Crash \/ Unread

Spec == Init /\ [][Next]_vars
=============================================================================
