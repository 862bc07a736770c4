---------------------------- MODULE ConnReporting ----------------------------
(***************************************************************************)
(* What the host is promised about the connections it is shown (spec 3,   *)
(* 4.8 and 8.2-8.4), independent of how the core batches them.           *)
(*                                                                         *)
(* A reported connection is unknown to the host until a delivery         *)
(* announces it with the next incr_id; from then it is open in the host's *)
(* register, and once the NAT has closed it one later (or the same)      *)
(* delivery makes it final, after which nothing changes for it.  Nothing *)
(* is delivered after the capture has stopped.  Only this safety part is  *)
(* promised: whether a delivery ever comes depends on the housekeeping    *)
(* chain, which can starve the connections dump (module Housekeeping).    *)
(***************************************************************************)
EXTENDS Naturals, Sequences, FiniteSets

CONSTANT Reported     \* connections that pass the reportability filter

VARIABLES
  view,      \* view[c]: "unknown", "open" or "final" in the host's register
  ids,       \* the incr_ids announced to the host, in delivery order
  closed,    \* connections the NAT has closed
  stopped    \* the capture has stopped

avars == <<view, ids, closed, stopped>>

Init ==
  /\ view = [c \in Reported |-> "unknown"]
  /\ ids = <<>>
  /\ closed = {}
  /\ stopped = FALSE

\* the NAT closes a connection, announced or not
Close(c) ==
  /\ ~stopped /\ c \notin closed
  /\ closed' = closed \cup {c}
  /\ UNCHANGED <<view, ids, stopped>>

(* One delivery: the connections of N are announced with the next incr_ids *)
(* and those of F, announced before or now and closed, become final.      *)
Deliver(N, F) ==
  /\ ~stopped
  /\ N # {} \/ F # {}
  /\ \A c \in N : view[c] = "unknown"
  /\ \A c \in F : c \in closed /\ (view[c] = "open" \/ c \in N)
  /\ ids' = ids \o [i \in 1..Cardinality(N) |-> Len(ids) + i - 1]
  /\ view' = [c \in Reported |-> CASE c \in F -> "final"
                                   [] c \in N -> "open"
                                   [] OTHER   -> view[c]]
  /\ UNCHANGED <<closed, stopped>>

\* the capture stops; the connections still open are closed with it
Stop ==
  /\ ~stopped
  /\ stopped' = TRUE
  /\ \E C \in SUBSET Reported : closed' = closed \cup C
  /\ UNCHANGED <<view, ids>>

Next ==
  \/ \E c \in Reported : Close(c)
  \/ \E N, F \in SUBSET Reported : Deliver(N, F)
  \/ Stop

Spec == Init /\ [][Next]_avars

=============================================================================
