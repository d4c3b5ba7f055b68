----------------------------- MODULE LiveStream -----------------------------
(***************************************************************************)
(* What live notification promises whoever listens, with none of the       *)
(* queues and registrations that provide it: a listener hears what is said *)
(* after it began to listen, line by line in the order in which it was     *)
(* said, and leaves no line out before one that it hears.  How far it gets *)
(* is not promised.  Publication implements this specification.            *)
(***************************************************************************)
EXTENDS Naturals, Sequences

CONSTANT Listener

VARIABLES said,       \* every line there was
          listening,  \* the listeners there are
          from,       \* how many lines there were when a listener began
          heard       \* the lines it heard

vars == <<said, listening, from, heard>>

Init ==
    /\ said = <<>>
    /\ listening = {}
    /\ from = [l \in Listener |-> 0]
    /\ heard = [l \in Listener |-> <<>>]

(* Some line is added at the end of what was said. *)
Say ==
    /\ said' # <<>> /\ said' = Append(said, said'[Len(said')])
    /\ UNCHANGED <<listening, from, heard>>

Listen(l) ==
    /\ l \notin listening
    /\ listening' = listening \cup {l}
    /\ from' = [from EXCEPT ![l] = Len(said)]
    /\ UNCHANGED <<said, heard>>

Hear(l) ==
    /\ l \in listening
    /\ LET next == from[l] + Len(heard[l]) + 1 IN
       /\ next <= Len(said)
       /\ heard' = [heard EXCEPT ![l] = Append(@, said[next])]
    /\ UNCHANGED <<said, listening, from>>

(* One leaves, or all do with the process. *)
Leave(gone) ==
    /\ listening' = listening \ gone
    /\ from' = [l \in Listener |-> IF l \in gone THEN 0 ELSE from[l]]
    /\ heard' = [l \in Listener |-> IF l \in gone THEN <<>> ELSE heard[l]]
    /\ UNCHANGED said

Next ==
    \/ Say
    \/ \E l \in Listener : Listen(l) \/ Hear(l)
    \/ \E gone \in SUBSET Listener : Leave(gone)

Spec == Init /\ [][Next]_vars
=============================================================================
