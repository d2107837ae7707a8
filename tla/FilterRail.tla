----------------------------- MODULE FilterRail -----------------------------
(***************************************************************************)
(* The filter rail (components/FilterRail.tsx) and the filters the desk    *)
(* sends with a question (components/Workspace.tsx): sources, courts and   *)
(* years, offered from the catalog once it is there.  The matter in use is *)
(* one more source.                                                        *)
(***************************************************************************)
EXTENDS Integers, FiniteSets

CONSTANTS
  Sources,  \* collections of the catalog, "case_law" among them
  Courts,   \* courts of its case law
  Years,    \* years a user types
  NoYear    \* null

ASSUME FilterRailAssumption ==
  "case_law" \in Sources /\ "matter" \notin Sources /\ NoYear \notin Years

VARIABLES
  catalogHere,  \* the catalog has been fetched
  matterHere,   \* a matter is in use
  filters,      \* the desk's filters; lists are kept as sets
  asked         \* the filters of the last question

filterRailVars == <<catalogHere, matterHere, filters, asked>>

NoFilters == [collections |-> {}, courts |-> {}, year_from |-> NoYear, year_to |-> NoYear]

\* What the rail offers to tick.
sources == Sources \cup IF matterHere THEN {"matter"} ELSE {}

\* A box is ticked when no source is chosen, or when it is.
checked(key) == filters.collections = {} \/ key \in filters.collections
caseLawAllowed == checked("case_law")
isDefault == filters = NoFilters

OnChange(f) == catalogHere /\ filters' = f /\ UNCHANGED <<catalogHere, matterHere, asked>>

Toggled(set, x) == IF x \in set THEN set \ {x} ELSE set \cup {x}

-----------------------------------------------------------------------------
\* Mutant: the courts stay when case law goes.
CourtsKept_Always(next) == filters.courts

\* The courts go with the case law they are courts of.
CourtsKept(next) == IF "case_law" \in next \/ next = {} THEN filters.courts ELSE {}

toggleCollection(key) ==
  LET next == Toggled(filters.collections, key)
  IN OnChange([filters EXCEPT !.collections = next, !.courts = CourtsKept(next)])

\* The courts' boxes are disabled while case law is not searched.
toggleCourt(code) ==
  /\ caseLawAllowed
  /\ OnChange([filters EXCEPT !.courts = Toggled(@, code)])

setYear(field, year) == OnChange([filters EXCEPT ![field] = year])

ClearFilters == ~isDefault /\ OnChange(NoFilters)

\* fetchCatalog, once; if it fails the rail stays a skeleton.
CatalogLoads ==
  /\ ~catalogHere /\ catalogHere' = TRUE
  /\ UNCHANGED <<matterHere, filters, asked>>

\* The matter changes elsewhere; the filters stay.
MatterChanges ==
  /\ matterHere' = ~matterHere
  /\ UNCHANGED <<catalogHere, filters, asked>>

AskFiltered ==
  /\ asked' = filters
  /\ UNCHANGED <<catalogHere, matterHere, filters>>

FilterRailInit ==
  /\ catalogHere = FALSE /\ matterHere = FALSE
  /\ filters = NoFilters /\ asked = NoFilters

FilterRailNext ==
  \/ \E key \in sources : toggleCollection(key)
  \/ \E code \in Courts : toggleCourt(code)
  \/ \E field \in {"year_from", "year_to"}, year \in Years \cup {NoYear} : setYear(field, year)
  \/ ClearFilters \/ CatalogLoads \/ MatterChanges \/ AskFiltered

FilterRailSpec == FilterRailInit /\ [][FilterRailNext]_filterRailVars

-----------------------------------------------------------------------------
(* Properties *)

FilterRailTypeOK ==
  /\ catalogHere \in BOOLEAN /\ matterHere \in BOOLEAN
  /\ filters \in [collections : SUBSET (Sources \cup {"matter"}), courts : SUBSET Courts,
                  year_from : Years \cup {NoYear}, year_to : Years \cup {NoYear}]

\* No question restricts courts while its sources leave out case law: such
\* ticks could be neither seen to apply nor unticked, their boxes being disabled
\* (FilterRail.tsx:48, 84).
CourtsNeedCaseLaw ==
  \A f \in {filters, asked} :
    f.courts # {} => f.collections = {} \/ "case_law" \in f.collections
=============================================================================
