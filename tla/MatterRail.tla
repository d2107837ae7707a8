----------------------------- MODULE MatterRail -----------------------------
(***************************************************************************)
(* The matters the page knows and the one in use (lib/useMatter.ts,        *)
(* components/MatterRail.tsx), against a server whose jobs change them.    *)
(* The page learns of a change only by fetching the matter again, which it *)
(* does on an interval while a document of the matter in use is pending.   *)
(* Replies may come in another order than their requests.                  *)
(*                                                                         *)
(* A matter is the status of its documents; ABSENT is no such matter.      *)
(***************************************************************************)
EXTENDS Integers, FiniteSets

CONSTANTS
  RailMatters,  \* matters there can be
  Docs,         \* documents of a matter
  ABSENT,       \* not a matter: nothing is known of it
  Requests,     \* requests the page can have under way
  MaxEdits      \* bound: documents uploaded or removed

ASSUME MatterRailAssumption ==
  /\ MaxEdits \in Nat
  /\ ABSENT \notin RailMatters \cup [Docs -> {"none", "pending", "settled"}]

VARIABLES
  onServer,  \* the matters as the server has them
  edits,     \* uploads and removals so far
  matters,   \* the matters as the page has them
  currentId, \* the matter in use, or ABSENT
  remembered, \* the matter in use, in the browser's storage
  mounted,   \* listMatters: "asked" or "through"
  listed,    \* its reply, while it is on its way
  request    \* the page's requests about one matter

railVars == <<onServer, edits, matters, currentId, remembered, mounted, listed, request>>

Unknown   == [m \in RailMatters |-> ABSENT]
EmptyOne  == [d \in Docs |-> "none"]
Known     == {m \in RailMatters : matters[m] # ABSENT}
Free      == [at |-> "free", matter |-> ABSENT, doc |-> ABSENT, reply |-> ABSENT]

\* The documents of the matter in use that are queued or running.
current == IF currentId \in Known THEN matters[currentId] ELSE EmptyOne
pending == \E d \in Docs : current[d] = "pending"

Goes(r, changes) == request' = [request EXCEPT ![r] = changes]

-----------------------------------------------------------------------------
\* Mutant: a known matter is left as it is.
Replaced_AddsOnly(m, matter) == IF m \in Known THEN matters ELSE [matters EXCEPT ![m] = matter]

\* replace(matter): known matters are replaced, new ones added.
Replaced(m, matter) == [matters EXCEPT ![m] = matter]

\* listMatters answers, or fails ...
ListAnswered ==
  /\ mounted = "asked" /\ listed = Unknown
  /\ listed' = onServer
  /\ UNCHANGED <<onServer, edits, matters, currentId, remembered, mounted, request>>

\* ... and the page takes all of it, and the matter it remembers if it is there.
ListArrives ==
  /\ mounted = "asked"
  /\ mounted' = "through"
  /\ \/ /\ matters' = listed
        /\ currentId' = IF remembered # ABSENT /\ listed[remembered] # ABSENT
                         THEN remembered ELSE currentId
     \/ UNCHANGED <<matters, currentId>>
  /\ listed' = Unknown
  /\ UNCHANGED <<onServer, edits, remembered, request>>

\* The page is opened again: its state and its requests are gone.
Reload ==
  /\ matters' = Unknown /\ currentId' = ABSENT
  /\ mounted' = "asked" /\ listed' = Unknown
  /\ request' = [r \in Requests |-> Free]
  /\ UNCHANGED <<onServer, edits, remembered>>

Select(m) ==
  /\ currentId' = m /\ remembered' = m
  /\ UNCHANGED <<onServer, edits, matters, mounted, listed, request>>

\* create(): the server makes the matter; the reply selects it.
CreateMatter(r, m) ==
  /\ request[r].at = "free" /\ \A q \in Requests : request[q].at # "created"
  /\ onServer[m] = ABSENT
  /\ onServer' = [onServer EXCEPT ![m] = EmptyOne]
  /\ Goes(r, [Free EXCEPT !.at = "created", !.matter = m])
  /\ UNCHANGED <<edits, matters, currentId, remembered, mounted, listed>>

MatterCreated(r) ==
  /\ request[r].at = "created"
  /\ matters' = Replaced(request[r].matter, EmptyOne)
  /\ currentId' = request[r].matter /\ remembered' = currentId'
  /\ Goes(r, Free)
  /\ UNCHANGED <<onServer, edits, mounted, listed>>

-----------------------------------------------------------------------------
\* upload() and remove() of the matter in use, of one document each.
Begin(r, kind, d) ==
  /\ request[r].at = "free" /\ currentId \in Known
  /\ kind = "remove" => current[d] # "none"
  /\ edits < MaxEdits /\ edits' = edits + 1
  /\ Goes(r, [Free EXCEPT !.at = kind, !.matter = currentId, !.doc = d])
  /\ UNCHANGED <<onServer, matters, currentId, remembered, mounted, listed>>

\* The server does it; either way the page fetches the matter, except that a
\* failed removal throws.
Done(r, ok) ==
  LET q == request[r]
  IN /\ q.at \in {"upload", "remove"}
     /\ onServer' = IF ok THEN [onServer EXCEPT ![q.matter][q.doc] =
                                  IF q.at = "upload" THEN "pending" ELSE "none"]
                    ELSE onServer
     /\ Goes(r, IF q.at = "remove" /\ ~ok THEN Free ELSE [q EXCEPT !.at = "fetch"])
     /\ UNCHANGED <<edits, matters, currentId, remembered, mounted, listed>>

\* The interval, which runs while the matter in use has a pending document; and
\* refresh(), when an analysis is over.
Poll(r) ==
  /\ request[r].at = "free" /\ currentId # ABSENT /\ pending
  /\ Goes(r, [Free EXCEPT !.at = "fetch", !.matter = currentId])
  /\ UNCHANGED <<onServer, edits, matters, currentId, remembered, mounted, listed>>

Refresh(r) ==
  /\ request[r].at = "free" /\ currentId \in Known
  /\ Goes(r, [Free EXCEPT !.at = "fetch", !.matter = currentId])
  /\ UNCHANGED <<onServer, edits, matters, currentId, remembered, mounted, listed>>

\* fetchMatter: the server reads the matter; a failure is swallowed.
Read(r) ==
  /\ request[r].at = "fetch"
  /\ Goes(r, [request[r] EXCEPT !.at = "reply", !.reply = onServer[request[r].matter]])
  /\ UNCHANGED <<onServer, edits, matters, currentId, remembered, mounted, listed>>

FetchFails(r) ==
  /\ request[r].at = "reply"
  /\ Goes(r, Free)
  /\ UNCHANGED <<onServer, edits, matters, currentId, remembered, mounted, listed>>

Arrives(r) ==
  /\ request[r].at = "reply"
  /\ matters' = Replaced(request[r].matter, request[r].reply)
  /\ Goes(r, Free)
  /\ UNCHANGED <<onServer, edits, currentId, remembered, mounted, listed>>

\* A job ends: the document is indexed or failed.
JobSettles(m, d) ==
  /\ onServer[m] # ABSENT /\ onServer[m][d] = "pending"
  /\ onServer' = [onServer EXCEPT ![m][d] = "settled"]
  /\ UNCHANGED <<edits, matters, currentId, remembered, mounted, listed, request>>

-----------------------------------------------------------------------------
RailInit ==
  /\ onServer = Unknown /\ edits = 0 /\ matters = Unknown /\ currentId = ABSENT /\ remembered = ABSENT
  /\ mounted = "asked" /\ listed = Unknown
  /\ request = [r \in Requests |-> Free]

RailNext ==
  \/ ListAnswered \/ ListArrives \/ Reload
  \/ \E m \in Known \cup {ABSENT} : Select(m)
  \/ \E r \in Requests :
       \/ \E m \in RailMatters : CreateMatter(r, m)
       \/ \E kind \in {"upload", "remove"}, d \in Docs : Begin(r, kind, d)
       \/ \E ok \in BOOLEAN : Done(r, ok)
       \/ MatterCreated(r) \/ Poll(r) \/ Refresh(r) \/ Read(r) \/ FetchFails(r) \/ Arrives(r)
  \/ \E m \in RailMatters, d \in Docs : JobSettles(m, d)

\* Requests end, the interval fires and jobs settle; a matter fetched again and
\* again is answered sometimes, in spite of failures.
RailFairness ==
  /\ \A r \in Requests : WF_railVars(\E ok \in BOOLEAN : Done(r, ok)) /\ WF_railVars(Read(r))
  /\ WF_railVars(\E r \in Requests : Poll(r))
  /\ SF_railVars(\E r \in Requests : Arrives(r))
  /\ \A m \in RailMatters, d \in Docs : WF_railVars(JobSettles(m, d))

RailSpec == RailInit /\ [][RailNext]_railVars /\ RailFairness

-----------------------------------------------------------------------------
(* Properties *)

RailTypeOK ==
  LET Matter == [Docs -> {"none", "pending", "settled"}] \cup {ABSENT}
  IN /\ onServer \in [RailMatters -> Matter] /\ matters \in [RailMatters -> Matter]
     /\ currentId \in RailMatters \cup {ABSENT} /\ edits \in 0..MaxEdits
     /\ \A r \in Requests : request[r].at # "free" => onServer[request[r].matter] # ABSENT

\* "While a document of the current matter is still being indexed, the matter is
\* re-read until it isn't" (useMatter.ts:28): whatever fetches fail and whatever
\* old replies come late, a matter that stays in use does not stay "indexing".
RailSettles ==
  \A m \in RailMatters : (currentId = m /\ pending) ~> (currentId # m \/ ~pending)
=============================================================================
