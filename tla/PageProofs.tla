----------------------------- MODULE PageProofs -----------------------------
(***************************************************************************)
(* What the research page's filter rail, matter rail and authority tab     *)
(* guarantee, for every catalog, every number of matters, documents and    *)
(* requests under way, and every tab and width.                            *)
(***************************************************************************)
EXTENDS FilterRail, MatterRail, AuthorityTab, FiniteSetTheorems, TLAPS

(* The inductive invariants.                                               *)

Filters ==
  [collections : SUBSET (Sources \cup {"matter"}), courts : SUBSET Courts,
   year_from : Years \cup {NoYear}, year_to : Years \cup {NoYear}]

FilterInv ==
  /\ catalogHere \in BOOLEAN /\ matterHere \in BOOLEAN
  /\ filters \in Filters /\ asked \in Filters
  /\ CourtsNeedCaseLaw

\* What the page has, or is on its way to it, of a matter was once read from the
\* server, and no matter is ever deleted.
MatterStates == [Docs -> {"none", "pending", "settled"}]
Calls ==
  [at : {"free", "created", "upload", "remove", "fetch", "reply"},
   matter : RailMatters \cup {ABSENT}, doc : Docs \cup {ABSENT}, reply : MatterStates \cup {ABSENT}]
RailInv ==
  /\ onServer \in [RailMatters -> MatterStates \cup {ABSENT}]
  /\ matters \in [RailMatters -> MatterStates \cup {ABSENT}]
  /\ listed \in [RailMatters -> MatterStates \cup {ABSENT}]
  /\ currentId \in RailMatters \cup {ABSENT} /\ remembered \in RailMatters \cup {ABSENT}
  /\ edits \in 0..MaxEdits
  /\ request \in [Requests -> Calls]
  /\ \A m \in RailMatters : matters[m] # ABSENT \/ listed[m] # ABSENT => onServer[m] # ABSENT
  /\ \A r \in Requests : request[r].at # "free" =>
       /\ request[r].matter \in RailMatters /\ onServer[request[r].matter] # ABSENT
       /\ request[r].at \in {"upload", "remove"} => request[r].doc \in Docs
       /\ request[r].at = "reply" => request[r].reply \in MatterStates

\* A rendering that is wanted is of the open tab.  Once none is, and the tab's
\* key is the one last rendered, it is on the canvas and nothing draws over it:
\* whatever was rendered has a width, and a page that is not open left nothing.
Jobs == [key : Pages \X Widths, live : BOOLEAN, at : {"loading", "drawing"}]
TabInv ==
  /\ tab \in Pages \cup Authorities \cup {Closed} /\ width \in Widths \cup {0}
  /\ jobs \subseteq Jobs
  /\ rendered \in Pages \X Widths \cup {Blank}
  /\ \A i, j \in jobs : i.at = "drawing" /\ j.at = "drawing" => i = j
  /\ \A j \in jobs : j.live => j.key = key
  /\ tab \notin Pages => jobs = {} /\ width = 0 /\ rendered = Blank /\ failed = Blank
  /\ status = "ready" /\ ~(\E j \in jobs : j.live) =>
       canvas = key /\ \A j \in jobs : j.at # "drawing"
  /\ loaded.data \in {Closed, loaded.docId}

-----------------------------------------------------------------------------
(* The filters.                                                            *)

\* The desk's filters change, and those of the last question stay.
LEMMA FilterChange ==
  ASSUME FilterInv, NEW f \in Filters,
         f.courts # {} => f.collections = {} \/ "case_law" \in f.collections,
         OnChange(f)
  PROVE  FilterInv'
BY DEF OnChange, FilterInv, CourtsNeedCaseLaw

\* A source is ticked or unticked: the courts go with case law.
LEMMA ToggleCollectionKeeps ==
  ASSUME FilterInv, NEW x \in sources, toggleCollection(x)
  PROVE  FilterInv'
<1> DEFINE next == Toggled(filters.collections, x)
           f == [filters EXCEPT !.collections = next, !.courts = CourtsKept(next)]
<1>1. filters \in Filters
  BY DEF FilterInv
<1>2. next \subseteq Sources \cup {"matter"}
  BY <1>1 DEF Toggled, Filters, sources
<1>3. /\ CourtsKept(next) \subseteq Courts
      /\ CourtsKept(next) # {} => next = {} \/ "case_law" \in next
  BY <1>1 DEF CourtsKept, Filters
<1>4. OnChange(f)
  BY DEF toggleCollection
<1> HIDE DEF next
<1>5. f \in Filters /\ f.collections = next /\ f.courts = CourtsKept(next)
  BY <1>1, <1>2, <1>3 DEF Filters
<1> QED BY <1>3, <1>4, <1>5, FilterChange

LEMMA ToggleCourtKeeps ==
  ASSUME FilterInv, NEW code \in Courts, toggleCourt(code)
  PROVE  FilterInv'
<1> DEFINE f == [filters EXCEPT !.courts = Toggled(@, code)]
<1>1. filters \in Filters
  BY DEF FilterInv
<1>2. f \in Filters /\ f.collections = filters.collections
  BY <1>1 DEF Filters, Toggled
<1>3. f.collections = {} \/ "case_law" \in f.collections
  BY <1>2 DEF toggleCourt, caseLawAllowed, checked
<1>4. OnChange(f)
  BY DEF toggleCourt
<1> HIDE DEF f
<1> QED BY <1>2, <1>3, <1>4, FilterChange

LEMMA SetYearKeeps ==
  ASSUME FilterInv, NEW field \in {"year_from", "year_to"}, NEW year \in Years \cup {NoYear},
         setYear(field, year)
  PROVE  FilterInv'
<1> DEFINE f == [filters EXCEPT ![field] = year]
<1>1. filters \in Filters /\ (filters.courts # {} => filters.collections = {} \/ "case_law" \in filters.collections)
  BY DEF FilterInv, CourtsNeedCaseLaw
<1>2. f \in Filters /\ f.collections = filters.collections /\ f.courts = filters.courts
  <2>1. CASE field = "year_from"
    BY <1>1, <2>1 DEF Filters
  <2>2. CASE field = "year_to"
    BY <1>1, <2>2 DEF Filters
  <2> QED BY <2>1, <2>2
<1>3. OnChange(f)
  BY DEF setYear
<1> HIDE DEF f
<1> QED BY <1>1, <1>2, <1>3, FilterChange

LEMMA FilterStarts ==
  FilterRailInit => FilterInv
<1>1. NoFilters \in Filters /\ NoFilters.courts = {}
  BY DEF NoFilters, Filters
<1> QED BY <1>1 DEF FilterRailInit, FilterInv, CourtsNeedCaseLaw

LEMMA FilterKeeps ==
  FilterInv /\ [FilterRailNext]_filterRailVars => FilterInv'
<1> SUFFICES ASSUME FilterInv, [FilterRailNext]_filterRailVars
             PROVE  FilterInv'
  OBVIOUS
<1>1. CASE ClearFilters
  <2>1. OnChange(NoFilters) /\ NoFilters \in Filters /\ NoFilters.courts = {}
    BY <1>1 DEF ClearFilters, NoFilters, Filters
  <2> QED BY <2>1, FilterChange
<1>2. CASE CatalogLoads
  BY <1>2 DEF CatalogLoads, FilterInv, CourtsNeedCaseLaw
<1>3. CASE MatterChanges
  BY <1>3 DEF MatterChanges, FilterInv, CourtsNeedCaseLaw
<1>4. CASE AskFiltered
  BY <1>4 DEF AskFiltered, FilterInv, CourtsNeedCaseLaw
<1>5. CASE UNCHANGED filterRailVars
  BY <1>5 DEF filterRailVars, FilterInv, CourtsNeedCaseLaw
<1> QED BY <1>1, <1>2, <1>3, <1>4, <1>5, ToggleCollectionKeeps, ToggleCourtKeeps, SetYearKeeps
        DEF FilterRailNext

\* The filters are sources, courts and years that were offered.
THEOREM FilterTypeCorrect == FilterRailSpec => []FilterRailTypeOK
<1>1. FilterInv => FilterRailTypeOK
  BY DEF FilterInv, FilterRailTypeOK, Filters
<1> QED BY <1>1, FilterStarts, FilterKeeps, PTL DEF FilterRailSpec

\* No sequence of ticks, and no moment at which a question is asked, restricts
\* courts while case law is not searched.
THEOREM CourtsFollowCaseLaw == FilterRailSpec => []CourtsNeedCaseLaw
<1>1. FilterInv => CourtsNeedCaseLaw
  BY DEF FilterInv
<1> QED BY <1>1, FilterStarts, FilterKeeps, PTL DEF FilterRailSpec

-----------------------------------------------------------------------------
(* The authority tab.                                                      *)

\* What an effect of the page leaves: renderings nobody wants any more, and at
\* most one that is wanted, of the width and tab it ran for.
LEMMA RendersFacts ==
  ASSUME TabInv, NEW c \in Pages, NEW w \in Widths \cup {0}
  PROVE  /\ Renders(c, w) \subseteq Jobs
         /\ \A i, j \in Renders(c, w) : i.at = "drawing" /\ j.at = "drawing" => i = j
         /\ \A j \in Renders(c, w) : j.live => j.key = KeyOf(c, w)
         /\ w # 0 => \E j \in Renders(c, w) : j.live
<1> DEFINE old == {[j EXCEPT !.live = FALSE] : j \in jobs}
           new == [key |-> KeyOf(c, w), live |-> TRUE, at |-> "loading"]
<1>1. jobs \subseteq Jobs /\ \A i, j \in jobs : i.at = "drawing" /\ j.at = "drawing" => i = j
  BY DEF TabInv
<1>2. \A j \in jobs : /\ [j EXCEPT !.live = FALSE] \in Jobs
                      /\ [j EXCEPT !.live = FALSE].live = FALSE
                      /\ [j EXCEPT !.live = FALSE].at = j.at
  BY <1>1 DEF Jobs
<1>3. /\ old \subseteq Jobs /\ \A j \in old : j.live = FALSE
      /\ \A i, j \in old : i.at = "drawing" /\ j.at = "drawing" => i = j
  <2>1. old \subseteq Jobs /\ \A j \in old : j.live = FALSE
    BY <1>2
  <2>2. ASSUME NEW i \in old, NEW j \in old, i.at = "drawing", j.at = "drawing"
        PROVE  i = j
    <3>1. PICK a \in jobs : i = [a EXCEPT !.live = FALSE]
      OBVIOUS
    <3>2. PICK b \in jobs : j = [b EXCEPT !.live = FALSE]
      OBVIOUS
    <3>3. a.at = "drawing" /\ b.at = "drawing"
      BY <1>2, <2>2, <3>1, <3>2
    <3> QED BY <1>1, <3>1, <3>2, <3>3
  <2> HIDE DEF old
  <2> QED BY <2>1, <2>2
<1>4. new.at = "loading" /\ new.live = TRUE /\ new.key = KeyOf(c, w)
  OBVIOUS
<1>5. CASE w = 0
  <2>1. Renders(c, w) = old
    BY <1>5 DEF Renders
  <2> QED BY <1>3, <1>5, <2>1
<1>6. CASE w # 0
  <2>1. Renders(c, w) = old \cup {new}
    BY <1>6 DEF Renders
  <2>2. new \in Jobs
    BY <1>6 DEF Jobs, KeyOf
  <2> HIDE DEF old, new
  <2> QED BY <1>3, <1>4, <2>1, <2>2
<1> QED BY <1>5, <1>6

\* A page without a width was never rendered.
LEMMA NeverRendered ==
  ASSUME TabInv, NEW c \in Pages \cup Authorities
  PROVE  rendered # KeyOf(c, 0)
<1>1. \A k \in Pages \X Widths : k # <<c, 0>>
  BY AuthorityTabAssumption
<1>2. <<c, 0>> # Blank
  BY AuthorityTabAssumption DEF Blank
<1> QED BY <1>1, <1>2 DEF TabInv, KeyOf

\* The tab is switched: to another page, with the same frame, or to anything else.
LEMMA SwitchKeeps ==
  ASSUME TabInv, NEW c \in Pages \cup Authorities \cup {Closed}, SwitchTo(c)
  PROVE  TabInv'
<1> USE AuthorityTabAssumption
<1>1. tab' = c /\ c # tab /\ PageShows(c) /\ NeighbourhoodShows(c)
  BY DEF SwitchTo
<1>2. (loaded.data \in {Closed, loaded.docId})'
  BY <1>1 DEF NeighbourhoodShows, NotLoaded, TabInv
<1>3. CASE c \in Pages /\ tab \in Pages
  <2>1. jobs' = Renders(c, width) /\ UNCHANGED <<width, observed, canvas, rendered, failed>>
    BY <1>1, <1>3 DEF PageShows
  <2>2. width \in Widths \cup {0} /\ key' = KeyOf(c, width)
    BY <1>1, <2>1 DEF TabInv, key, KeyOf
  <2>3. /\ jobs' \subseteq Jobs
        /\ \A i, j \in jobs' : i.at = "drawing" /\ j.at = "drawing" => i = j
        /\ \A j \in jobs' : j.live => j.key = key'
        /\ width # 0 => \E j \in jobs' : j.live
    BY <1>3, <2>1, <2>2, RendersFacts
  <2>4. status' = "ready" => \E j \in jobs' : j.live
    <3>1. status' = "ready" => rendered = KeyOf(c, width)
      BY <2>1, <2>2 DEF status
    <3>2. width = 0 => rendered # KeyOf(c, width)
      BY <1>3, NeverRendered
    <3> QED BY <2>3, <3>1, <3>2
  <2> QED BY <1>1, <1>2, <1>3, <2>1, <2>2, <2>3, <2>4 DEF TabInv
<1>4. CASE ~(c \in Pages /\ tab \in Pages)
  <2>1. width' = 0 /\ jobs' = {} /\ rendered' = Blank /\ failed' = Blank
    BY <1>1, <1>4 DEF PageShows
  <2>2. status' # "ready"
    <3>1. key' = <<c, 0>>
      BY <1>1, <2>1 DEF key, KeyOf
    <3>2. status' = "ready" => Blank # <<c, 0>> /\ Blank = <<c, 0>>
      BY <2>1, <3>1 DEF status, Blank
    <3> QED BY <3>2
  <2> QED BY <1>1, <1>2, <2>1, <2>2 DEF TabInv, Blank
<1> QED BY <1>3, <1>4

LEMMA WidthKeeps ==
  ASSUME TabInv, NEW w \in Widths \cup {0}, ObserveWidth(w)
  PROVE  TabInv'
<1>1. /\ tab \in Pages /\ width' = w /\ jobs' = Renders(tab, w)
      /\ UNCHANGED <<tab, observed, canvas, rendered, failed, graph, awaiting, loaded>>
  BY DEF ObserveWidth
<1>2. key' = KeyOf(tab, w)
  BY <1>1 DEF key, KeyOf
<1>3. /\ jobs' \subseteq Jobs
      /\ \A i, j \in jobs' : i.at = "drawing" /\ j.at = "drawing" => i = j
      /\ \A j \in jobs' : j.live => j.key = key'
      /\ w # 0 => \E j \in jobs' : j.live
  BY <1>1, <1>2, RendersFacts
<1>4. status' = "ready" => \E j \in jobs' : j.live
  <2>1. status' = "ready" => rendered = KeyOf(tab, w)
    BY <1>1, <1>2 DEF status
  <2>2. w = 0 => rendered # KeyOf(tab, w)
    BY <1>1, NeverRendered
  <2> QED BY <1>3, <2>1, <2>2
<1> QED BY <1>1, <1>3, <1>4 DEF TabInv

-----------------------------------------------------------------------------
\* A rendering that is wanted fails: its key, the open tab's, is shown as failed.
LEMMA FailureKeeps ==
  ASSUME TabInv, NEW j \in jobs, j.live, Fails(j.key, jobs \ {j}),
         UNCHANGED <<tab, width, loaded>>
  PROVE  TabInv'
<1>1. j.key = key /\ key' = key
  BY DEF TabInv, key, KeyOf
<1>2. /\ failed' = key /\ jobs' \subseteq jobs /\ rendered' = rendered /\ tab \in Pages
  BY <1>1 DEF Fails, TabInv
<1>3. status' # "ready"
  BY <1>1, <1>2 DEF status
<1> QED BY <1>1, <1>2, <1>3 DEF TabInv

\* The document and the page of a rendering are here.
LEMMA LoadedKeeps ==
  ASSUME TabInv, NEW j \in jobs, PageLoaded(j)
  PROVE  TabInv'
<1>1. /\ j \in Jobs /\ j.at = "loading" /\ tab \in Pages /\ key' = key
      /\ UNCHANGED <<tab, width, graph, awaiting, loaded>>
  BY DEF PageLoaded, TabInv, key, KeyOf
<1>2. CASE ~Wanted(j)
  <2>1. jobs' = jobs \ {j} /\ UNCHANGED <<observed, canvas, rendered, failed>>
    BY <1>2 DEF PageLoaded
  <2>2. status' = status /\ (status = "ready" => ~j.live)
    BY <1>1, <1>2, <2>1 DEF status, Wanted
  <2>3. (\E i \in jobs : i.live) /\ status = "ready" => \E i \in jobs' : i.live
    BY <2>1, <2>2
  <2> QED BY <1>1, <2>1, <2>2, <2>3 DEF TabInv
<1>3. CASE Wanted(j) /\ \E i \in jobs : i.at = "drawing"
  BY <1>1, <1>3, FailureKeeps DEF PageLoaded, Wanted
<1>4. CASE Wanted(j) /\ ~\E i \in jobs : i.at = "drawing"
  <2> DEFINE begun == [j EXCEPT !.at = "drawing"]
  <2>1. jobs' = (jobs \ {j}) \cup {begun} /\ UNCHANGED <<observed, rendered, failed>>
    BY <1>4 DEF PageLoaded
  <2>2. begun \in Jobs /\ begun.live = j.live /\ begun.key = j.key /\ j.live
    BY <1>1, <1>4 DEF Jobs, Wanted
  <2> HIDE DEF begun
  <2>3. /\ jobs' \subseteq Jobs
        /\ \A i, k \in jobs' : i.at = "drawing" /\ k.at = "drawing" => i = k
        /\ \A i \in jobs' : i.live => i.key = key
        /\ \E i \in jobs' : i.live
    BY <1>4, <2>1, <2>2 DEF TabInv
  <2> QED BY <1>1, <2>1, <2>3 DEF TabInv
<1> QED BY <1>2, <1>3, <1>4

\* A rendering is drawn: nothing else was drawing, and it is the open tab's unless
\* nobody wants it any more.
LEMMA DrawnKeeps ==
  ASSUME TabInv, NEW j \in jobs, PageDrawn(j)
  PROVE  TabInv'
<1>1. /\ j \in Jobs /\ j.at = "drawing" /\ tab \in Pages /\ key' = key
      /\ jobs' = jobs \ {j} /\ canvas' = j.key
      /\ rendered' = IF j.live THEN j.key ELSE rendered
      /\ UNCHANGED <<tab, width, observed, failed, graph, awaiting, loaded>>
  BY DEF PageDrawn, TabInv, key, KeyOf
<1>2. \A i \in jobs' : i.at # "drawing"
  BY <1>1 DEF TabInv
<1>3. rendered' \in Pages \X Widths \cup {Blank}
  BY <1>1 DEF TabInv, Jobs
<1>4. status' = "ready" /\ ~(\E i \in jobs' : i.live) => canvas' = key
  <2>1. CASE j.live
    BY <1>1, <2>1 DEF TabInv
  <2>2. CASE ~j.live
    <3>1. status' = status
      BY <1>1, <2>2 DEF status
    <3>2. (\E i \in jobs : i.live) => \E i \in jobs' : i.live
      BY <1>1, <2>2
    <3>3. ~(status = "ready" /\ ~(\E i \in jobs : i.live))
      BY <1>1 DEF TabInv
    <3> QED BY <3>1, <3>2, <3>3
  <2> QED BY <2>1, <2>2
<1> QED BY <1>1, <1>2, <1>3, <1>4 DEF TabInv

LEMMA PageFailsKeeps ==
  ASSUME TabInv, NEW j \in jobs, PageFails(j)
  PROVE  TabInv'
<1>1. UNCHANGED <<tab, width, graph, awaiting, loaded>> /\ key' = key
  BY DEF PageFails, key, KeyOf
<1>2. CASE j.live
  BY <1>1, <1>2, FailureKeeps DEF PageFails
<1>3. CASE ~j.live
  <2>1. jobs' = jobs \ {j} /\ UNCHANGED <<observed, canvas, rendered, failed>>
    BY <1>3 DEF PageFails
  <2>2. status' = status /\ ((\E i \in jobs : i.live) => \E i \in jobs' : i.live)
    BY <1>1, <1>3, <2>1 DEF status
  <2> QED BY <1>1, <2>1, <2>2 DEF TabInv
<1> QED BY <1>2, <1>3

LEMMA TabStarts ==
  TabInit => TabInv
<1> SUFFICES ASSUME TabInit
             PROVE  TabInv
  OBVIOUS
<1>1. status # "ready"
  BY DEF TabInit, status, key, KeyOf, Blank
<1> QED BY <1>1, AuthorityTabAssumption DEF TabInit, TabInv, NotLoaded

LEMMA TabKeeps ==
  TabInv /\ [TabNext]_tabVars => TabInv'
<1> SUFFICES ASSUME TabInv, [TabNext]_tabVars
             PROVE  TabInv'
  OBVIOUS
<1>1. ASSUME UNCHANGED <<tab, panelVars>>, (loaded.data \in {Closed, loaded.docId})'
      PROVE  TabInv'
  BY <1>1 DEF panelVars, TabInv, status, key, KeyOf
<1>2. ASSUME NEW d \in Authorities, NEW answer \in {"data", "null", "none"}, GraphAnswers(d, answer)
      PROVE  TabInv'
  <2>1. (loaded.data \in {Closed, loaded.docId})'
    BY <1>2 DEF GraphAnswers, TabInv
  <2> QED BY <1>1, <1>2, <2>1 DEF GraphAnswers
<1>3. CASE CachedAnswer
  <2>1. (loaded.data \in {Closed, loaded.docId})'
    BY <1>3 DEF CachedAnswer
  <2> QED BY <1>1, <1>3, <2>1 DEF CachedAnswer
<1>4. CASE UNCHANGED tabVars
  BY <1>1, <1>4 DEF tabVars, TabInv
<1> QED BY <1>2, <1>3, <1>4, SwitchKeeps, WidthKeeps, LoadedKeeps, DrawnKeeps, PageFailsKeeps
        DEF TabNext

\* Two renderings never draw at once, and every one that is wanted is of the
\* open tab at the width it has.
THEOREM TabTypeCorrect == TabSpec => []TabTypeOK
<1>1. TabInv => TabTypeOK
  <2> SUFFICES ASSUME TabInv
               PROVE  TabTypeOK
    OBVIOUS
  <2> DEFINE drawing == {j \in jobs : j.at = "drawing"}
  <2>1. Cardinality(drawing) <= 1
    <3>1. CASE drawing = {}
      BY <3>1, FS_EmptySet
    <3>2. CASE drawing # {}
      <4>1. PICK j \in drawing : drawing = {j}
        BY <3>2 DEF TabInv
      <4>2. Cardinality({j}) = 1
        BY FS_Singleton
      <4> HIDE DEF drawing
      <4> QED BY <4>1, <4>2
    <3> QED BY <3>1, <3>2
  <2> QED BY <2>1 DEF TabInv, TabTypeOK
<1> QED BY <1>1, TabStarts, TabKeeps, PTL DEF TabSpec

\* However tabs are switched, frames resized, pages drawn, cancelled or failed and
\* fetches answered, the panel shows what belongs to the tab that is open.
THEOREM PanelIsOfOpenTab == TabSpec => []PanelShowsOpenAuthority
<1>1. TabInv => PanelShowsOpenAuthority
  BY DEF TabInv, PanelShowsOpenAuthority, neighbourhood
<1> QED BY <1>1, TabStarts, TabKeeps, PTL DEF TabSpec

-----------------------------------------------------------------------------
(* The matter rail.                                                        *)

\* Something happens to one request; the server's matters stay, or one of them
\* gets another state, and the page takes what it was on its way to.
LEMMA RequestKeeps ==
  ASSUME RailInv, NEW r \in Requests, NEW changes \in Calls, Goes(r, changes),
         changes.at # "free" =>
           /\ changes.matter \in RailMatters /\ onServer'[changes.matter] # ABSENT
           /\ changes.at \in {"upload", "remove"} => changes.doc \in Docs
           /\ changes.at = "reply" => changes.reply \in MatterStates,
         onServer' \in [RailMatters -> MatterStates \cup {ABSENT}],
         \A m \in RailMatters : onServer[m] # ABSENT => onServer'[m] # ABSENT
  PROVE  /\ request' \in [Requests -> Calls]
         /\ \A q \in Requests : request'[q].at # "free" =>
              /\ request'[q].matter \in RailMatters /\ onServer'[request'[q].matter] # ABSENT
              /\ request'[q].at \in {"upload", "remove"} => request'[q].doc \in Docs
              /\ request'[q].at = "reply" => request'[q].reply \in MatterStates
<1>1. request' \in [Requests -> Calls] /\ request'[r] = changes
      /\ \A q \in Requests \ {r} : request'[q] = request[q]
  BY DEF Goes, RailInv
<1>2. ASSUME NEW q \in Requests \ {r}, request'[q].at # "free"
      PROVE  /\ request'[q].matter \in RailMatters /\ onServer'[request'[q].matter] # ABSENT
             /\ request'[q].at \in {"upload", "remove"} => request'[q].doc \in Docs
             /\ request'[q].at = "reply" => request'[q].reply \in MatterStates
  BY <1>1, <1>2 DEF RailInv
<1> QED BY <1>1, <1>2

\* What the page begins about the matter in use, or creates.
LEMMA BegunKeeps ==
  ASSUME RailInv, NEW r \in Requests,
         \/ \E kind \in {"upload", "remove"}, d \in Docs : Begin(r, kind, d)
         \/ \E m \in RailMatters : CreateMatter(r, m)
         \/ Poll(r) \/ Refresh(r)
  PROVE  RailInv'
<1> USE MatterRailAssumption
<1>1. \A m \in Known : m \in RailMatters /\ onServer[m] # ABSENT
  BY DEF Known, RailInv
<1>5. currentId \in RailMatters \cup {ABSENT}
  BY DEF RailInv
<1>2. ASSUME NEW kind \in {"upload", "remove"}, NEW d \in Docs, Begin(r, kind, d)
      PROVE  RailInv'
  <2> DEFINE changes == [Free EXCEPT !.at = kind, !.matter = currentId, !.doc = d]
  <2>1. changes.at = kind /\ changes.matter = currentId /\ changes.doc = d /\ changes \in Calls
    BY <1>5 DEF Free, Calls
  <2>2. /\ Goes(r, changes) /\ currentId \in Known /\ edits' = edits + 1 /\ edits < MaxEdits
        /\ UNCHANGED <<onServer, matters, currentId, remembered, mounted, listed>>
    BY <1>2 DEF Begin
  <2>5. edits' \in 0..MaxEdits
    BY <2>2 DEF RailInv
  <2> HIDE DEF changes
  <2>3. /\ changes.matter \in RailMatters /\ onServer'[changes.matter] # ABSENT
        /\ changes.doc \in Docs /\ changes.at # "reply" /\ changes \in Calls
    BY <1>1, <2>1, <2>2 DEF Calls
  <2>4. onServer' \in [RailMatters -> MatterStates \cup {ABSENT}]
        /\ \A m \in RailMatters : onServer[m] # ABSENT => onServer'[m] # ABSENT
    BY <2>2 DEF RailInv
  <2> QED BY <2>2, <2>3, <2>4, <2>5, RequestKeeps DEF RailInv
<1>3. ASSUME NEW m \in RailMatters, CreateMatter(r, m)
      PROVE  RailInv'
  <2> DEFINE changes == [Free EXCEPT !.at = "created", !.matter = m]
  <2>1. changes.at = "created" /\ changes.matter = m /\ changes \in Calls
    BY DEF Free, Calls
  <2>2. /\ Goes(r, changes) /\ onServer' = [onServer EXCEPT ![m] = EmptyOne]
        /\ UNCHANGED <<edits, matters, currentId, remembered, mounted, listed>>
    BY <1>3 DEF CreateMatter
  <2> HIDE DEF changes
  <2>3. EmptyOne \in MatterStates /\ EmptyOne # ABSENT
    BY DEF EmptyOne, MatterStates
  <2>4. /\ onServer' \in [RailMatters -> MatterStates \cup {ABSENT}] /\ onServer'[m] # ABSENT
        /\ \A n \in RailMatters : onServer[n] # ABSENT => onServer'[n] # ABSENT
    BY <2>2, <2>3 DEF RailInv
  <2>5. changes.at \notin {"upload", "remove", "reply"} /\ changes.matter = m /\ changes \in Calls
    BY <2>1 DEF Calls
  <2> QED BY <2>1, <2>2, <2>4, <2>5, RequestKeeps DEF RailInv
<1>4. CASE Poll(r) \/ Refresh(r)
  <2> DEFINE changes == [Free EXCEPT !.at = "fetch", !.matter = currentId]
  <2>1. changes.at = "fetch" /\ changes.matter = currentId /\ changes \in Calls
    BY <1>5 DEF Free, Calls
  <2>2. Goes(r, changes) /\ UNCHANGED <<onServer, edits, matters, currentId, remembered, mounted, listed>>
    BY <1>4 DEF Poll, Refresh
  <2>3. currentId \in Known
    <3>1. pending => currentId \in Known
      BY DEF pending, current, EmptyOne
    <3> QED BY <1>4, <3>1 DEF Poll, Refresh
  <2> HIDE DEF changes
  <2>4. /\ changes.matter \in RailMatters /\ onServer'[changes.matter] # ABSENT
        /\ changes.at \notin {"upload", "remove", "reply"} /\ changes \in Calls
    BY <1>1, <2>1, <2>2, <2>3 DEF Calls
  <2>5. onServer' \in [RailMatters -> MatterStates \cup {ABSENT}]
        /\ \A m \in RailMatters : onServer[m] # ABSENT => onServer'[m] # ABSENT
    BY <2>2 DEF RailInv
  <2> QED BY <2>2, <2>4, <2>5, RequestKeeps DEF RailInv
<1> QED BY <1>2, <1>3, <1>4

\* The server does what it was asked: the document is pending, or gone.
LEMMA DoneKeeps ==
  ASSUME RailInv, NEW r \in Requests, NEW ok \in BOOLEAN, Done(r, ok)
  PROVE  RailInv'
<1> USE MatterRailAssumption
<1> DEFINE q == request[r]
           to == IF q.at = "upload" THEN "pending" ELSE "none"
           changes == IF q.at = "remove" /\ ~ok THEN Free ELSE [q EXCEPT !.at = "fetch"]
<1>1. /\ q.at \in {"upload", "remove"} /\ q.matter \in RailMatters /\ q.doc \in Docs
      /\ onServer[q.matter] \in MatterStates /\ q \in Calls
  BY DEF Done, RailInv
<1>2. /\ Goes(r, changes)
      /\ onServer' = IF ok THEN [onServer EXCEPT ![q.matter][q.doc] = to] ELSE onServer
      /\ UNCHANGED <<edits, matters, currentId, remembered, mounted, listed>>
  BY DEF Done
<1>3. /\ onServer' \in [RailMatters -> MatterStates \cup {ABSENT}]
      /\ \A m \in RailMatters : onServer[m] # ABSENT => onServer'[m] # ABSENT
  <2> DEFINE changed == [onServer[q.matter] EXCEPT ![q.doc] = to]
  <2>1. changed \in MatterStates
    <3>1. to \in {"none", "pending", "settled"}
      OBVIOUS
    <3> HIDE DEF to
    <3> QED BY <1>1, <3>1 DEF MatterStates
  <2>2. changed # ABSENT
    BY <2>1 DEF MatterStates
  <2>3. onServer' = onServer \/ onServer' = [onServer EXCEPT ![q.matter] = changed]
    BY <1>2
  <2> HIDE DEF changed
  <2> QED BY <1>1, <2>1, <2>2, <2>3 DEF RailInv
<1>4. CASE changes = Free
  <2>1. changes.at = "free" /\ changes \in Calls
    BY <1>4 DEF Free, Calls
  <2> HIDE DEF changes, q
  <2> QED BY <1>2, <1>3, <2>1, RequestKeeps DEF RailInv
<1>5. CASE changes = [q EXCEPT !.at = "fetch"]
  <2>1. changes.at = "fetch" /\ changes.matter = q.matter /\ changes \in Calls
    <3> HIDE DEF q, changes
    <3> QED BY <1>1, <1>5 DEF Calls
  <2>2. onServer'[q.matter] # ABSENT
    BY <1>1, <1>3 DEF RailInv
  <2> HIDE DEF changes, q
  <2> QED BY <1>1, <1>2, <1>3, <2>1, <2>2, RequestKeeps DEF RailInv
<1> QED BY <1>4, <1>5

\* What comes back: a matter that was created, or the state it was read in.
LEMMA AnsweredKeeps ==
  ASSUME RailInv, NEW r \in Requests,
         MatterCreated(r) \/ Read(r) \/ FetchFails(r) \/ Arrives(r)
  PROVE  RailInv'
<1> USE MatterRailAssumption
<1> DEFINE q == request[r]
<1>1. /\ onServer' = onServer /\ edits' = edits /\ listed' = listed /\ mounted' = mounted
      /\ q.at # "free" /\ q.matter \in RailMatters /\ onServer[q.matter] \in MatterStates
      /\ q \in Calls
  BY DEF MatterCreated, Read, FetchFails, Arrives, RailInv
<1>2. ASSUME NEW changes \in Calls, Goes(r, changes),
             changes.at # "free" =>
               /\ changes.at = "reply" /\ changes.matter = q.matter
               /\ changes.reply = onServer[q.matter]
      PROVE  /\ request' \in [Requests -> Calls]
             /\ \A p \in Requests : request'[p].at # "free" =>
                  /\ request'[p].matter \in RailMatters /\ onServer'[request'[p].matter] # ABSENT
                  /\ request'[p].at \in {"upload", "remove"} => request'[p].doc \in Docs
                  /\ request'[p].at = "reply" => request'[p].reply \in MatterStates
  <2>1. onServer' \in [RailMatters -> MatterStates \cup {ABSENT}]
        /\ \A m \in RailMatters : onServer[m] # ABSENT => onServer'[m] # ABSENT
    BY <1>1 DEF RailInv
  <2>2. onServer[q.matter] # ABSENT
    BY <1>1 DEF MatterStates
  <2> HIDE DEF q
  <2> QED BY <1>1, <1>2, <2>1, <2>2, RequestKeeps
<1>3. Free \in Calls /\ Free.at = "free"
  BY DEF Free, Calls
<1>4. CASE FetchFails(r)
  <2>1. Goes(r, Free) /\ UNCHANGED <<matters, currentId, remembered>>
    BY <1>4 DEF FetchFails
  <2> QED BY <1>1, <1>2, <1>3, <2>1 DEF RailInv
<1>5. CASE Read(r)
  <2> DEFINE changes == [q EXCEPT !.at = "reply", !.reply = onServer[q.matter]]
  <2>1. Goes(r, changes) /\ UNCHANGED <<matters, currentId, remembered>>
    BY <1>5 DEF Read
  <2>3. /\ changes.matter = q.matter /\ changes.at = "reply"
        /\ changes.reply = onServer[q.matter] /\ changes \in Calls
    <3> HIDE DEF q
    <3> QED BY <1>1 DEF Calls
  <2> HIDE DEF changes, q
  <2> QED BY <1>1, <1>2, <2>1, <2>3 DEF RailInv
<1>6. ASSUME NEW matter \in MatterStates, matters' = Replaced(q.matter, matter), Goes(r, Free),
             currentId' \in RailMatters \cup {ABSENT}, remembered' \in RailMatters \cup {ABSENT}
      PROVE  RailInv'
  <2>1. /\ matters' \in [RailMatters -> MatterStates \cup {ABSENT}]
        /\ \A m \in RailMatters \ {q.matter} : matters'[m] = matters[m]
    BY <1>1, <1>6 DEF RailInv, Replaced
  <2>2. \A m \in RailMatters : matters'[m] # ABSENT \/ listed'[m] # ABSENT => onServer'[m] # ABSENT
    <3>1. onServer[q.matter] # ABSENT
      BY <1>1 DEF MatterStates
    <3> HIDE DEF q
    <3> QED BY <1>1, <2>1, <3>1 DEF RailInv
  <2> HIDE DEF q
  <2> QED BY <1>1, <1>2, <1>3, <1>6, <2>1, <2>2 DEF RailInv
<1>7. CASE MatterCreated(r)
  <2>1. /\ matters' = Replaced(q.matter, EmptyOne) /\ Goes(r, Free)
        /\ currentId' = q.matter /\ remembered' = q.matter
    BY <1>7 DEF MatterCreated
  <2>2. EmptyOne \in MatterStates
    BY DEF EmptyOne, MatterStates
  <2> QED BY <1>1, <1>6, <2>1, <2>2
<1>8. CASE Arrives(r)
  <2>1. /\ matters' = Replaced(q.matter, q.reply) /\ Goes(r, Free)
        /\ UNCHANGED <<currentId, remembered>> /\ q.reply \in MatterStates
    BY <1>8 DEF Arrives, RailInv
  <2> QED BY <1>6, <2>1 DEF RailInv
<1> QED BY <1>4, <1>5, <1>7, <1>8

\* A job settles: its document was pending, so the matter is there.
LEMMA SettlesKeeps ==
  ASSUME RailInv, NEW m \in RailMatters, NEW d \in Docs, JobSettles(m, d)
  PROVE  RailInv'
<1> USE MatterRailAssumption
<1> DEFINE settled == [onServer[m] EXCEPT ![d] = "settled"]
<1>1. /\ onServer' = [onServer EXCEPT ![m] = settled] /\ onServer[m] \in MatterStates
      /\ UNCHANGED <<edits, matters, currentId, remembered, mounted, listed, request>>
  BY DEF JobSettles, RailInv
<1>2. settled \in MatterStates /\ settled # ABSENT
  BY <1>1 DEF MatterStates
<1> HIDE DEF settled
<1>3. /\ onServer' \in [RailMatters -> MatterStates \cup {ABSENT}]
      /\ \A n \in RailMatters : onServer[n] # ABSENT => onServer'[n] # ABSENT
  BY <1>1, <1>2 DEF RailInv
<1> QED BY <1>1, <1>3 DEF RailInv

LEMMA RailStarts ==
  RailInit => RailInv
<1>1. Free \in Calls /\ Free.at = "free"
  BY DEF Free, Calls
<1>2. Unknown \in [RailMatters -> MatterStates \cup {ABSENT}] /\ \A m \in RailMatters : Unknown[m] = ABSENT
  BY DEF Unknown
<1> QED BY <1>1, <1>2, MatterRailAssumption DEF RailInit, RailInv

LEMMA RailKeeps ==
  RailInv /\ [RailNext]_railVars => RailInv'
<1> SUFFICES ASSUME RailInv, [RailNext]_railVars
             PROVE  RailInv'
  OBVIOUS
<1>1. Unknown \in [RailMatters -> MatterStates \cup {ABSENT}] /\ \A m \in RailMatters : Unknown[m] = ABSENT
  BY DEF Unknown
<1>2. CASE ListAnswered
  BY <1>2 DEF ListAnswered, RailInv
<1>3. CASE ListArrives
  BY <1>1, <1>3 DEF ListArrives, RailInv
<1>4. CASE Reload
  <2>1. Free \in Calls /\ Free.at = "free"
    BY DEF Free, Calls
  <2> QED BY <1>1, <1>4, <2>1 DEF Reload, RailInv
<1>5. ASSUME NEW m \in Known \cup {ABSENT}, Select(m)
      PROVE  RailInv'
  BY <1>5 DEF Select, Known, RailInv
<1>6. CASE UNCHANGED railVars
  BY <1>6 DEF railVars, RailInv
<1> QED BY <1>2, <1>3, <1>4, <1>5, <1>6, BegunKeeps, DoneKeeps, AnsweredKeeps, SettlesKeeps
        DEF RailNext

\* A request under way is about a matter the server has.
THEOREM RailTypeCorrect == RailSpec => []RailTypeOK
<1>1. RailInv => RailTypeOK
  BY DEF RailInv, RailTypeOK, MatterStates
<1> QED BY <1>1, RailStarts, RailKeeps, PTL DEF RailSpec
=============================================================================
