------------------------------- MODULE Ledger -------------------------------
(***************************************************************************)
(* What the import service promises: a run is posted in one step with the  *)
(* bookings it adds and reversed in one step with all of them.  A run      *)
(* leaves out a booking of its file only if the booking is on the book, or *)
(* was there with a run that is reversed by now: READ COMMITTED lets a     *)
(* rollback commit between two rows of an import, so a booking that was a  *)
(* duplicate when its row was read may be gone when the run is posted.     *)
(***************************************************************************)
CONSTANTS
    Booking,  \* fingerprints
    Run,      \* import runs
    File,     \* files
    Contents, \* file -> its set of bookings
    None

VARIABLES
    book,    \* booking -> the run that holds it, or None
    state,   \* run -> "none", "committed", "rolled_back"
    content  \* run -> its file, or None before it is posted

vars == <<book, state, content>>

Init ==
    /\ book = [b \in Booking |-> None]
    /\ state = [r \in Run |-> "none"]
    /\ content = [r \in Run |-> None]

\* Booking b is on the book, or was in the file of a run that was reversed.
Accounted(b) ==
    \/ book[b] # None
    \/ \E r \in Run : state[r] = "rolled_back" /\ b \in Contents[content[r]]

Post(r, f, new) ==
    /\ state[r] = "none"
    /\ \A b \in new : book[b] = None
    /\ \A b \in Contents[f] \ new : Accounted(b)
    /\ book' = [b \in Booking |-> IF b \in new THEN r ELSE book[b]]
    /\ state' = [state EXCEPT ![r] = "committed"]
    /\ content' = [content EXCEPT ![r] = f]

Reverse(r) ==
    /\ state[r] = "committed"
    /\ book' = [b \in Booking |-> IF book[b] = r THEN None ELSE book[b]]
    /\ state' = [state EXCEPT ![r] = "rolled_back"]
    /\ UNCHANGED content

Next ==
    \/ \E r \in Run, f \in File : \E new \in SUBSET Contents[f] : Post(r, f, new)
    \/ \E r \in Run : Reverse(r)

Spec == Init /\ [][Next]_vars
=============================================================================
