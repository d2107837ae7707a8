------------------------------ MODULE EventLog ------------------------------
(***************************************************************************)
(* What a workflow run promises the clients that follow it                 *)
(* (workflows/runs.py): one log of events that grows and then closes, and  *)
(* readers who each see it from its first event, in order, every event     *)
(* once, and are told it is over only after its last - however late they   *)
(* connect and however often they reconnect.                               *)
(***************************************************************************)
EXTENDS Naturals, Sequences

CONSTANTS Readers, Event

VARIABLES
  log,      \* the events, in order
  closed,   \* no event will follow
  reading,  \* "away", "following" or "closed" for each reader
  seen      \* what each reader has received since it last connected

vars == <<log, closed, reading, seen>>

Init ==
  /\ log = <<>>
  /\ closed = FALSE
  /\ reading = [r \in Readers |-> "away"]
  /\ seen = [r \in Readers |-> <<>>]

Extend ==
  /\ ~closed
  /\ \E e \in Event : log' = Append(log, e)
  /\ UNCHANGED <<closed, reading, seen>>

Close ==
  /\ ~closed
  /\ closed' = TRUE
  /\ UNCHANGED <<log, reading, seen>>

\* Connecting, or connecting again, starts at the first event.
Open(r) ==
  /\ reading[r] # "following"
  /\ reading' = [reading EXCEPT ![r] = "following"]
  /\ seen' = [seen EXCEPT ![r] = <<>>]
  /\ UNCHANGED <<log, closed>>

Read(r) ==
  /\ reading[r] = "following"
  /\ Len(seen[r]) < Len(log)
  /\ seen' = [seen EXCEPT ![r] = Append(@, log[Len(@) + 1])]
  /\ UNCHANGED <<log, closed, reading>>

End(r) ==
  /\ reading[r] = "following"
  /\ closed
  /\ Len(seen[r]) = Len(log)
  /\ reading' = [reading EXCEPT ![r] = "closed"]
  /\ UNCHANGED <<log, closed, seen>>

\* The client goes away, mid-stream.
Leave(r) ==
  /\ reading[r] = "following"
  /\ reading' = [reading EXCEPT ![r] = "away"]
  /\ UNCHANGED <<log, closed, seen>>

Next ==
  \/ Extend
  \/ Close
  \/ \E r \in Readers : Open(r) \/ Read(r) \/ End(r) \/ Leave(r)

Spec == Init /\ [][Next]_vars
=============================================================================
