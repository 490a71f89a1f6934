----------------------------- MODULE CommitLedger -----------------------------
(***************************************************************************)
(* What Firestore promises the author of a write, as the comments of        *)
(* RemoteStore, SyncEngine and the mutation queue put it: a commit is kept  *)
(* until the backend has applied it or refused it, whatever happens to the  *)
(* app and to the network in between, and the commits of a user take effect *)
(* and are settled in the order in which they were made.                    *)
(***************************************************************************)
EXTENDS Sequences, SequencesExt

CONSTANTS User,
          Write,
          Refused  \* the writes the backend will not apply, however often sent

VARIABLES pending,  \* each user's commits not settled yet, in order
          landed    \* the commits the backend has applied

Init ==
  /\ pending = [u \in User |-> << >>]
  /\ landed = {}

Commit(u, w) ==
  /\ w \notin landed
  /\ \A v \in User : w \notin Range(pending[v])
  /\ pending' = [pending EXCEPT ![u] = Append(@, w)]
  /\ UNCHANGED landed

(* The backend applies a commit after those before it. *)
Land(u, i) ==
  /\ pending[u][i] \notin Refused
  /\ \A j \in 1 .. i - 1 : pending[u][j] \in landed
  /\ landed' = landed \cup {pending[u][i]}
  /\ UNCHANGED pending

(* The first commit has an answer: it is applied, or it cannot be. *)
Settle(u) ==
  /\ pending[u] # << >>
  /\ Head(pending[u]) \in landed \cup Refused
  /\ pending' = [pending EXCEPT ![u] = Tail(@)]
  /\ UNCHANGED landed

Next ==
  \E u \in User :
    \/ \E w \in Write : Commit(u, w)
    \/ \E i \in DOMAIN pending[u] : Land(u, i)
    \/ Settle(u)

Spec == Init /\ [][Next]_<<pending, landed>>
=============================================================================
