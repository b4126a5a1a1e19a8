----------------------------- MODULE MCDataTable -----------------------------
(* A small instance of DataTable for TLC: three rows on pages of two, two of them
   with the same value; one search that finds two; no device is chosen, or
   one of two. *)
EXTENDS DataTable

CONSTANTS device, otherDevice, noDevice, all, some

TwoAlike == [r \in Ids |-> IF r = 3 THEN 1 ELSE 0]
OfDevice == [f \in Filters |-> IF f = noDevice THEN {} ELSE IF f = otherDevice THEN {1, 3} ELSE Ids]
FindsTwo == [s \in Searches |-> IF s = all THEN Ids ELSE {2, 3}]

=============================================================================
