----------------------------- MODULE OrderBook -----------------------------
(***************************************************************************)
(* The local order book of one instrument (LocalOrderBook): what a         *)
(* snapshot, a delta and an invalidation make of it.  A level is absent    *)
(* ("none"), listed with quantity zero ("zero") or held ("some"); the two  *)
(* sides of a book are treated alike, so a price stands for a side and a   *)
(* price.                                                                  *)
(***************************************************************************)
EXTENDS Integers

CONSTANT Price

NoSequence == 0   \* None: the book has seen no message

Levels == [Price -> {"none", "zero", "some"}]
Book == [levels : Levels, last_sequence : Nat, snapshot_count : Nat]

\* A new book, and what invalidate leaves of one.
EmptyBook == [levels |-> [p \in Price |-> "none"], last_sequence |-> NoSequence,
              snapshot_count |-> 0]

\* check_sequence: the first message has no predecessor.
CheckSequence(book, sequence) ==
    book.last_sequence = NoSequence \/ sequence = book.last_sequence + 1

\* apply_snapshot: the levels of the message and no others, quantity zero included.
ApplySnapshot(book, levels, sequence) ==
    [levels |-> levels, last_sequence |-> sequence, snapshot_count |-> book.snapshot_count + 1]

\* apply_delta: quantity zero deletes a level, any other sets it, and what the
\* message does not name stays.
ApplyDelta(book, levels, sequence) ==
    [book EXCEPT
        !.levels = [p \in Price |-> CASE levels[p] = "zero" -> "none"
                                      [] levels[p] = "some" -> "some"
                                      [] levels[p] = "none" -> @[p]],
        !.last_sequence = sequence]

\* The prices the book offers something at.
Held(book) == {p \in Price : book.levels[p] = "some"}
=============================================================================
