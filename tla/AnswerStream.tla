---------------------------- MODULE AnswerStream ----------------------------
(***************************************************************************)
(* What one question promises whoever asked it over /query/stream          *)
(* (retrieval/run.py): passages that may be replaced until an answer is    *)
(* offered on top of them, one answer at most, one verdict on it, and a    *)
(* clean end - or an error, which ends the stream wherever it is.          *)
(***************************************************************************)
EXTENDS Sequences

CONSTANT Lists  \* the lists of passages a question can turn up

VARIABLES
  sources,  \* the passages on show
  reply,    \* "none", "offered", "passages" or "declined"
  verdict,  \* "none", "grounded" or "withdrawn"
  phase     \* "open", "closed" or "failed"

vars == <<sources, reply, verdict, phase>>

Init ==
  /\ sources = <<>>
  /\ reply = "none"
  /\ verdict = "none"
  /\ phase = "open"

\* The passages change only while nothing has been said about them.
Show ==
  /\ phase = "open" /\ reply = "none"
  /\ sources' \in Lists
  /\ UNCHANGED <<reply, verdict, phase>>

\* An answer stands on passages the reader has in front of them.
Offer ==
  /\ phase = "open" /\ reply = "none"
  /\ sources # <<>>
  /\ reply' = "offered"
  /\ UNCHANGED <<sources, verdict, phase>>

\* The verdict is about an answer, and is the last word on it.
Judge ==
  /\ phase = "open" /\ reply = "offered"
  /\ verdict' \in {"grounded", "withdrawn"}
  /\ phase' = "closed"
  /\ UNCHANGED <<sources, reply>>

\* A search hands over its passages; only a question that found none is declined.
Conclude ==
  /\ phase = "open" /\ reply = "none"
  /\ \/ reply' = "passages"
     \/ reply' = "declined" /\ sources = <<>>
  /\ phase' = "closed"
  /\ UNCHANGED <<sources, verdict>>

Break ==
  /\ phase = "open"
  /\ phase' = "failed"
  /\ UNCHANGED <<sources, reply, verdict>>

Next == Show \/ Offer \/ Judge \/ Conclude \/ Break

Spec == Init /\ [][Next]_vars
=============================================================================
