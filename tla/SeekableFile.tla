---------------------------- MODULE SeekableFile ----------------------------
(***************************************************************************)
(* What the readers of an opened object rely on (io.ReadSeekCloser): a     *)
(* file of a fixed size with a position.  A read returns the bytes at the  *)
(* position and moves it past them; the end of the file is reported at its *)
(* end only; a seek moves the position or fails and leaves it.             *)
(***************************************************************************)
EXTENDS Integers

VARIABLES
    size,     \* fixed while the file is open
    position, \* where the next read starts
    open,     \* neither closed nor yet to be opened
    result    \* of the last call

Results == [from : Nat, count : Nat,
            err : {"none", "eof", "failed", "closed"}]

Nothing == [from |-> 0, count |-> 0, err |-> "none"]

Init == size = 0 /\ position = 0 /\ open = FALSE /\ result = Nothing

Open ==
    /\ size' \in Nat
    /\ position' = 0
    /\ open' = TRUE
    /\ result' = Nothing

Read ==
    /\ result' \in Results
    /\ result'.from = position
    /\ result'.count > 0 => open /\ position + result'.count <= size
    /\ result'.err = "eof" => position + result'.count >= size
    /\ result'.err = "closed" <=> ~open
    /\ position' = position + result'.count
    /\ UNCHANGED <<size, open>>

Seek ==
    /\ open
    /\ position' \in Nat
    /\ UNCHANGED <<size, open, result>>

Close == size' = 0 /\ position' = 0 /\ open' = FALSE /\ result' = Nothing

Next == Open \/ Read \/ Seek \/ Close

Spec == Init /\ [][Next]_<<size, position, open, result>>
=============================================================================
