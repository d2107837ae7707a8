---------------------------- MODULE AuthorityTab ----------------------------
(***************************************************************************)
(* What the bundle's open tab shows beside the passage: the page of the    *)
(* user's own document with the passage's box on it (components/           *)
(* PdfPage.tsx), or what a published authority cites and is cited by       *)
(* (lib/useNeighbourhood.ts, components/Neighbourhood.tsx).  Tabs are      *)
(* switched while pages render and fetches are under way.                  *)
(*                                                                         *)
(* PDF.js refuses to render on a canvas that another render is using, and  *)
(* the browser reports a removed frame as one of no width.                 *)
(***************************************************************************)
EXTENDS Integers, FiniteSets

CONSTANTS
  Pages,        \* citations of a page of the matter's documents
  Authorities,  \* citations of published documents
  Closed,       \* no tab is open
  Widths        \* widths the frame can have

ASSUME AuthorityTabAssumption ==
  /\ Pages \cap Authorities = {} /\ Closed \notin Pages \cup Authorities
  /\ Widths \subseteq Nat \ {0}

VARIABLES
  tab,       \* the open citation
  width,     \* PdfPage's width
  observed,  \* the frame it watches is still on the page
  jobs,      \* renderings under way
  canvas,    \* what is drawn on the canvas, or Blank
  rendered,  \* the key last rendered
  failed,    \* the key that last failed
  graph,     \* useNeighbourhood's cache: "none", "fetching", "data" or "null"
  awaiting,  \* the document its effect awaits, or Closed
  loaded     \* the document and the data it has

panelVars == <<width, observed, jobs, canvas, rendered, failed>>
tabVars == <<tab, panelVars, graph, awaiting, loaded>>

Blank     == <<Closed, 0>>
NotLoaded == [docId |-> Closed, data |-> Closed]

\* What a rendering is of.  The code's key is the page and its width, which two
\* citations of one page share: the second shows the first's box until its own
\* rendering, a new one in either case, is done.  Here it counts as `loading`.
KeyOf(c, w) == <<c, w>>
key == KeyOf(tab, width)
status ==
  IF failed = key THEN "failed" ELSE IF rendered = key THEN "ready" ELSE "loading"

\* Mutant: the effect has no cleanup.
Renders_NoCleanup(c, w) ==
  jobs \cup IF w = 0 THEN {} ELSE {[key |-> KeyOf(c, w), live |-> TRUE, at |-> "loading"]}

\* The effect of PdfPage: its cleanup, and a new rendering once there is a width.
Renders(c, w) ==
  {[j EXCEPT !.live = FALSE] : j \in jobs}
    \cup IF w = 0 THEN {} ELSE {[key |-> KeyOf(c, w), live |-> TRUE, at |-> "loading"]}

-----------------------------------------------------------------------------
\* onNavigate, openAuthority, closeAuthority.  The component that stays keeps
\* its state; one that goes loses it.
PageShows(c) ==
  IF c \in Pages /\ tab \in Pages
    THEN jobs' = Renders(c, width) /\ UNCHANGED <<width, observed, canvas, rendered, failed>>
    ELSE /\ width' = 0 /\ jobs' = {} /\ canvas' = Blank
         /\ observed' = (c \in Pages) /\ rendered' = Blank /\ failed' = Blank

NeighbourhoodShows(c) ==
  /\ awaiting' = IF c \in Authorities THEN c ELSE Closed
  /\ graph' = IF c \in Authorities /\ graph[c] = "none" THEN [graph EXCEPT ![c] = "fetching"] ELSE graph
  /\ loaded' = IF c \in Authorities /\ tab \in Authorities THEN loaded ELSE NotLoaded

SwitchTo(c) ==
  /\ c # tab /\ tab' = c
  /\ PageShows(c) /\ NeighbourhoodShows(c)

\* The observer reports the frame's width; once the frame is gone, none.
ObserveWidth(w) ==
  /\ tab \in Pages /\ w # width
  /\ IF observed THEN w \in Widths ELSE w = 0
  /\ width' = w /\ jobs' = Renders(tab, w)
  /\ UNCHANGED <<tab, observed, canvas, rendered, failed, graph, awaiting, loaded>>

-----------------------------------------------------------------------------
\* A failure is of one key; shown as failed, the page takes frame and canvas down.
Fails(k, others) ==
  /\ failed' = k
  /\ IF k = key
       THEN observed' = FALSE /\ canvas' = Blank /\ jobs' = {i \in others : i.at = "loading"}
       ELSE jobs' = others /\ UNCHANGED <<observed, canvas>>
  /\ UNCHANGED rendered

\* Mutant: a cancelled rendering goes on.
Wanted_ByAnybody(j) == status # "failed"

\* The document and the page are here: render, if anybody still wants it.
Wanted(j) == j.live /\ status # "failed"

PageLoaded(j) ==
  /\ j.at = "loading"
  /\ CASE ~Wanted(j) -> jobs' = jobs \ {j} /\ UNCHANGED <<observed, canvas, rendered, failed>>
       [] Wanted(j) /\ \E i \in jobs : i.at = "drawing" -> Fails(j.key, jobs \ {j})
       [] OTHER ->
            /\ jobs' = (jobs \ {j}) \cup {[j EXCEPT !.at = "drawing"]}
            /\ canvas' = Blank
            /\ UNCHANGED <<observed, rendered, failed>>
  /\ UNCHANGED <<tab, width, graph, awaiting, loaded>>

PageDrawn(j) ==
  /\ j.at = "drawing"
  /\ jobs' = jobs \ {j}
  /\ canvas' = j.key
  /\ rendered' = IF j.live THEN j.key ELSE rendered
  /\ UNCHANGED <<tab, width, observed, failed, graph, awaiting, loaded>>

PageFails(j) ==
  /\ IF j.live THEN Fails(j.key, jobs \ {j})
       ELSE jobs' = jobs \ {j} /\ UNCHANGED <<observed, canvas, rendered, failed>>
  /\ UNCHANGED <<tab, width, graph, awaiting, loaded>>

\* The graph answers: data, nothing on record, or a failure, which is forgotten.
GraphAnswers(d, answer) ==
  /\ graph[d] = "fetching"
  /\ graph' = [graph EXCEPT ![d] = answer]
  /\ IF awaiting = d
       THEN /\ loaded' = [docId |-> d, data |-> IF answer = "data" THEN d ELSE Closed]
            /\ awaiting' = Closed
       ELSE UNCHANGED <<loaded, awaiting>>
  /\ UNCHANGED <<tab, panelVars>>

\* An answer that was there before the tab.
CachedAnswer ==
  /\ awaiting # Closed /\ graph[awaiting] \in {"data", "null"}
  /\ loaded' = [docId |-> awaiting, data |-> IF graph[awaiting] = "data" THEN awaiting ELSE Closed]
  /\ awaiting' = Closed
  /\ UNCHANGED <<tab, panelVars, graph>>

\* Mutant: whichever document it was fetched for.
neighbourhood_Unkeyed == loaded.data

\* What useNeighbourhood returns: the document it is about, or Closed for null.
neighbourhood == IF loaded.docId = tab THEN loaded.data ELSE Closed

-----------------------------------------------------------------------------
TabInit ==
  /\ tab = Closed /\ width = 0 /\ observed = FALSE /\ jobs = {} /\ canvas = Blank
  /\ rendered = Blank /\ failed = Blank
  /\ graph = [d \in Authorities |-> "none"] /\ awaiting = Closed /\ loaded = NotLoaded

TabNext ==
  \/ \E c \in Pages \cup Authorities \cup {Closed} : SwitchTo(c)
  \/ \E w \in Widths \cup {0} : ObserveWidth(w)
  \/ \E j \in jobs : PageLoaded(j) \/ PageDrawn(j) \/ PageFails(j)
  \/ \E d \in Authorities, answer \in {"data", "null", "none"} : GraphAnswers(d, answer)
  \/ CachedAnswer

TabSpec == TabInit /\ [][TabNext]_tabVars

-----------------------------------------------------------------------------
(* Properties *)

\* Two renderings never draw at once, and at most one is of the open tab.
TabTypeOK ==
  /\ tab \in Pages \cup Authorities \cup {Closed} /\ width \in Widths \cup {0}
  /\ Cardinality({j \in jobs : j.at = "drawing"}) <= 1
  /\ \A j \in jobs : j.live => j.key = key
  /\ jobs # {} => tab \in Pages

\* The panel shows what belongs to the open tab.  A page under a box, once its
\* own rendering is over, is the page the box is from, however many tabs were
\* opened meanwhile; and "a stale answer never shows under the next authority"
\* (useNeighbourhood.ts:24).
PanelShowsOpenAuthority ==
  /\ status = "ready" /\ ~(\E j \in jobs : j.live) => canvas = key
  /\ neighbourhood \in {Closed, tab}
=============================================================================
