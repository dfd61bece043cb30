---------------------------- MODULE CancelGroup ----------------------------
(***************************************************************************)
(* What the shutdown channel promises, without channel, versions or        *)
(* sockets: a group of tasks that is cancelled once and then drains.       *)
(*                                                                         *)
(* Roots are the bridge tasks, Children the connection tasks they spawn:   *)
(* a child is started by its parent only, while the parent is live.  No    *)
(* root is started after the cancellation, and a cancelled group drains.   *)
(***************************************************************************)
CONSTANTS Roots, Children, Parent

VARIABLES live,        \* the tasks that run
          cancelled    \* the group has been told to stop

vars == <<live, cancelled>>

Init == live = {} /\ cancelled = FALSE

SpawnRoot(r) ==
  /\ ~cancelled
  /\ r \notin live
  /\ live' = live \union {r}
  /\ UNCHANGED cancelled

SpawnChild(c) ==
  /\ Parent[c] \in live
  /\ c \notin live
  /\ live' = live \union {c}
  /\ UNCHANGED cancelled

Finish(t) ==
  /\ t \in live
  /\ live' = live \ {t}
  /\ UNCHANGED cancelled

\* Nobody listens in an empty group: it cannot be cancelled.
Cancel ==
  /\ live # {}
  /\ cancelled' = TRUE
  /\ UNCHANGED live

Next ==
  \/ \E r \in Roots : SpawnRoot(r)
  \/ \E c \in Children : SpawnChild(c)
  \/ \E t \in Roots \union Children : Finish(t)
  \/ Cancel

Spec == Init /\ [][Next]_vars

\* The progress half of the promise.  It is stated as what must happen and
\* not as fairness of Finish, so that an implementation whose tasks are
\* functions of its own variables can be checked against it.
Drains == cancelled ~> (live = {})
=============================================================================
