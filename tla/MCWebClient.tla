------------------------------ MODULE MCWebClient ------------------------------
(* A small instance of the web client's parts for TLC. *)
EXTENDS WebClient, TLC

CONSTANTS F0, F1, m1, m2

\* One window that is typed; others give a test one that is over before it begins, and
\* publish the test without questions with none.
SomeWindows == {[start |-> 1, end |-> 2]}
OtherTests  == m1 :> {Row(TRUE, [start |-> 3, end |-> 1])} @@ m2 :> {Row(TRUE, Unscheduled)}

\* Three pages of ten rows without a filter, two of 25; one page with it.
SomePages == F0 :> (10 :> 3 @@ 25 :> 2) @@ F1 :> (10 :> 1 @@ 25 :> 1)

\* It does not matter which of the requests of "My Tests" is which.
RequestsAlike == Permutations(CallSlots)

=============================================================================
