------------------------------ MODULE ClientHub ------------------------------
(***************************************************************************)
(* What RealtimeService promises about a websocket connection: it is       *)
(* registered once, served until it is dropped, and whoever dropped it     *)
(* then tells the close handler, exactly once.  Several connections may be *)
(* dropped in one step (a broadcast that finds several full queues).       *)
(***************************************************************************)
EXTENDS FiniteSets

CONSTANT Conns

VARIABLE hub   \* hub[c]: where connection c is in its life

Stages == {"absent", "joining", "serving", "leaving", "closed"}

HubInit == hub = [c \in Conns |-> "absent"]

Move(c, from, to) == hub[c] = from /\ hub' = [hub EXCEPT ![c] = to]

Join(c) == Move(c, "absent", "joining")
Admit(c) == Move(c, "joining", "serving")
\* The initial state could not be delivered; no command was ever accepted.
Reject(c) == Move(c, "joining", "closed")
Tell(c) == Move(c, "leaving", "closed")

Drop(S) ==
  /\ S # {}
  /\ \A c \in S : hub[c] \in {"joining", "serving"}
  /\ hub' = [c \in Conns |-> IF c \in S THEN "leaving" ELSE hub[c]]

HubNext ==
  \/ \E c \in Conns : Join(c) \/ Admit(c) \/ Reject(c) \/ Tell(c)
  \/ \E S \in SUBSET Conns : Drop(S)

HubSpec == HubInit /\ [][HubNext]_hub /\ \A c \in Conns : WF_hub(Tell(c))
=============================================================================
