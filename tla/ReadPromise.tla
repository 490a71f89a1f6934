------------------------------ MODULE ReadPromise ------------------------------
(***************************************************************************)
(* What getDocument and getDocuments promise their caller: one answer, from *)
(* the backend, from the cache of the device, or an error for a query the   *)
(* backend rejects; and no data the backend has not had yet.                *)
(***************************************************************************)
CONSTANTS Read,      \* calls of getDocument and getDocuments
          Query,
          QueryOf,   \* the query of each call
          Rejected   \* the queries the backend rejects

VARIABLES data,     \* what the backend holds: "old", later "new"
          asked,    \* the calls made
          answers   \* what each call has been answered, in order

Init ==
  /\ data = "old"
  /\ asked = {}
  /\ answers = [r \in Read |-> << >>]

Change ==
  /\ data = "old" /\ data' = "new"
  /\ UNCHANGED <<asked, answers>>

Ask(r) ==
  /\ r \notin asked
  /\ asked' = asked \cup {r}
  /\ UNCHANGED <<data, answers>>

Answer(r) ==
  /\ r \in asked
  /\ answers[r] = << >>
  /\ \E kind \in {"old", data, "cache", "error"} :
       /\ kind = "error" => QueryOf[r] \in Rejected
       /\ kind \in {"old", "new"} => QueryOf[r] \notin Rejected
       /\ answers' = [answers EXCEPT ![r] = <<kind>>]
  /\ UNCHANGED <<data, asked>>

Next == Change \/ \E r \in Read : Ask(r) \/ Answer(r)

Spec == Init /\ [][Next]_<<data, asked, answers>>
=============================================================================
