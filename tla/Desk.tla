-------------------------------- MODULE Desk --------------------------------
(***************************************************************************)
(* What the server actions of the portal have in common.  An action that   *)
(* decides on what it read earlier takes two steps: the first leaves in    *)
(* doing[u] what was read and decided, the second claims the row under the *)
(* conditions its where clause names.                                      *)
(***************************************************************************)
CONSTANT Staff   \* people with a request in flight; each has at most one
VARIABLE doing   \* what each of them has read and is about to save

Nobody == "nobody"        \* a null user id
Idle   == [op |-> "idle"]

Start(u, work) == doing[u] = Idle /\ doing' = [doing EXCEPT ![u] = work]
Done(u) == doing' = [doing EXCEPT ![u] = Idle]
=============================================================================
