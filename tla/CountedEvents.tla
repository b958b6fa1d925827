--------------------------- MODULE CountedEvents ---------------------------
(***************************************************************************)
(* What review and reconciliation promise about money: an event that       *)
(* reports count was made once, from screenshot rows no other counted      *)
(* event was made from; it keeps exactly those rows for as long as it is   *)
(* counted; and once withdrawn it is never counted again.                  *)
(*                                                                         *)
(* Reconciliation implements this specification: see Counting there.       *)
(***************************************************************************)
CONSTANTS Rows,    \* imported observations
          Events,  \* canonical transactions a row or a match may become
          NoEvent  \* a row that no counted event was made from

VARIABLES counted,    \* events in the totals
          withdrawn,  \* events taken out of the totals
          holder      \* the counted event each row feeds

vars == <<counted, withdrawn, holder>>

Init ==
  /\ counted = {}
  /\ withdrawn = {}
  /\ holder = [r \in Rows |-> NoEvent]

Count(e, rows) ==
  /\ e \notin counted \cup withdrawn
  /\ rows # {}
  /\ \A r \in rows : holder[r] = NoEvent
  /\ counted' = counted \cup {e}
  /\ holder' = [r \in Rows |-> IF r \in rows THEN e ELSE holder[r]]
  /\ UNCHANGED withdrawn

Withdraw(e) ==
  /\ e \in counted
  /\ counted' = counted \ {e}
  /\ withdrawn' = withdrawn \cup {e}
  /\ holder' = [r \in Rows |-> IF holder[r] = e THEN NoEvent ELSE holder[r]]

Next ==
  \E e \in Events : Withdraw(e) \/ \E rows \in SUBSET Rows : Count(e, rows)

Spec == Init /\ [][Next]_vars
=============================================================================
