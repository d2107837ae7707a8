------------------------------ MODULE Workspace ------------------------------
(***************************************************************************)
(* The research page: a question and its stream (lib/useResearch.ts), the  *)
(* matter's working file and its stream (lib/useAnalysis.ts), and the      *)
(* little state that crosses them - the matter in use, which of the two    *)
(* the page shows, which authority is open (components/Workspace.tsx).     *)
(*                                                                         *)
(* JavaScript is single threaded: an action is a callback, from the user   *)
(* or from an await that returned.  A question is known by the order it    *)
(* was asked in, an analysis by the order it was started in; `by` collects *)
(* whose events wrote what is on screen.  A list of citations is its       *)
(* length, a citation its index.                                           *)
(***************************************************************************)
EXTENDS Integers, FiniteSets

CONSTANTS
  Matters,
  NoMatter,
  MaxClicks,    \* bound: what the user does
  MaxAsked,     \* bound: questions asked
  MaxRuns,      \* bound: analyses started
  MaxCited,     \* bound: citations in a list
  MaxReviews    \* research_max_rounds, what the server reviews at most

ASSUME MattersAssumption == NoMatter \notin Matters
ASSUME BoundsAssumption == MaxClicks \in Nat /\ MaxAsked \in Nat /\ MaxRuns \in Nat /\ MaxCited \in Nat /\ MaxReviews \in Nat

VARIABLES
  asked,       \* questions submitted so far; the last is the page's
  live,        \* the question whose controller is current, 0 after Stop
  read,        \* how far each question's stream has been read
  shown,       \* useResearch's state
  started,     \* analyses started so far
  liveRun,     \* the analysis whose controller is current, 0 if none
  runMatter,   \* the matter each analysis reads
  readRun,     \* how far each analysis's stream has been read
  copy,        \* the analysis on the page's copy of each matter, 0 if none
  file,        \* useAnalysis's state
  clicks,      \* what the user has done so far, counted
  matter,      \* the matter in use
  view,        \* "desk" or "analysis"
  openIndex,   \* the authority open in the bundle, 0 for none
  openedOn     \* the question whose list it was opened from, 0 if the file's

desk     == <<asked, live, read, shown>>
analysis == <<started, liveRun, runMatter, readRun, copy, file>>
page     == <<clicks, matter, view, openIndex, openedOn>>
vars     == <<desk, analysis, page>>

Modes     == {"ask", "research", "search"}
Phases    == {"idle", "planning", "searching", "reviewing", "answering", "verifying", "done"}
Questions == 1..MaxAsked
Runs      == 1..MaxRuns
Lengths   == {0, MaxCited}   \* nothing cited, or a list

-----------------------------------------------------------------------------
(* The question *)

Blank(m, phase) == [phase |-> phase, mode |-> m, by |-> {}, citations |-> 0, reviews |-> 0,
                    result |-> FALSE, withdrawn |-> FALSE, error |-> FALSE]

\* Mutant: nobody aborts the request that is replaced.
Aborted_Never(k) == FALSE
\* Mutant: Stop aborts nothing; only the next question does.
Aborted_Replaced(k) == asked # k
Aborted(k) == live # k

busy       == shown.phase \notin {"idle", "done"}

\* What stream_query sends after `e`.  A review is `again` or `enough`; the
\* answer's done is `answer`; `results` is the done that ends a search or a
\* question declined.
Follows(m, e) ==
  CASE e = "posting" -> {"opening"}
    [] e = "opening" -> {"plan"}
    [] e = "plan"    -> {"sources", "results"}
    [] e = "sources" -> IF m = "search" THEN {"results"}
                        ELSE IF m = "research" THEN {"again", "enough"}
                        ELSE {"token", "answer", "results"}
    [] e = "again"   -> {"sources"}
    [] e = "enough"  -> {"token", "answer", "results"}
    [] e = "token"   -> {"token", "answer"}
    [] e = "answer"  -> {"verdict"}
    [] OTHER         -> {}

Reading(k) == read[k] \notin {"none", "over", "cut"}

\* Where the server may leave a research question without another event: ahead
\* of the first, or of one that carries the answer or its verdict - stream_query
\* and its caller put those together where no `error` event is sent.
Unguarded(k) ==
  /\ shown.mode = "research"
  /\ \/ read[k] = "opening"
     \/ \E e \in Follows("research", read[k]) : e \in {"answer", "results", "verdict"}

\* Mutant: a search waits for a verdict too.
AfterDone_Search(m, n) == IF n > 0 THEN "verifying" ELSE "done"

\* An answer over passages still has its verdict to come.
AfterDone(m, n) == IF m # "search" /\ n > 0 THEN "verifying" ELSE "done"

\* The state after event `e` of question k; `n` citations come with it.
After(k, e, n) ==
  LET s == [shown EXCEPT !.by = @ \cup {k}]
      m == shown.mode
  IN CASE e = "opening" -> shown
       [] e = "plan"    -> [s EXCEPT !.phase = "searching"]
       [] e = "sources" -> [s EXCEPT !.citations = n,
                              !.phase = IF m = "search" THEN @
                                        ELSE IF m = "research" THEN "reviewing" ELSE "answering"]
       [] e = "again"   -> [s EXCEPT !.phase = "searching", !.reviews = @ + 1]
       [] e = "enough"  -> [s EXCEPT !.phase = "answering", !.reviews = @ + 1]
       [] e = "token"   -> [s EXCEPT !.phase = "answering"]
       [] e \in {"answer", "results"} ->
            [s EXCEPT !.phase = AfterDone(m, n), !.citations = n, !.result = TRUE]
       [] e = "verdict" -> [s EXCEPT !.phase = "done"]

Withdrawn(s) == [s EXCEPT !.withdrawn = TRUE, !.citations = 0]

submit(m) ==
  /\ asked < MaxAsked
  /\ asked' = asked + 1
  /\ live' = asked + 1
  /\ shown' = Blank(m, "planning")
  /\ read' = [read EXCEPT ![asked + 1] = IF m = "research" THEN "posting" ELSE "opening"]

\* Mutant: the open tab stays.
ToDesk_KeepsTab == view' = "desk" /\ UNCHANGED <<matter, openIndex, openedOn>>
ToDesk == view' = "desk" /\ openIndex' = 0 /\ openedOn' = 0 /\ UNCHANGED matter

\* The composer, or an example picked from the empty page.
ask(m) == ~busy /\ submit(m) /\ ToDesk /\ UNCHANGED analysis

\* A research question clicked in the working file; nothing asks if one runs.
research ==
  /\ view = "analysis" /\ matter # NoMatter /\ file.by # {}
  /\ submit("research")
  /\ ToDesk
  /\ UNCHANGED analysis

\* The Stop button.
cancel ==
  /\ busy
  /\ live' = 0
  /\ UNCHANGED <<asked, read, shown, analysis, matter, view, openIndex, openedOn>>

\* The next event arrives; a reader whose controller was aborted returns.
ReadEvent(k) ==
  /\ Reading(k)
  /\ IF Aborted(k)
       THEN read' = [read EXCEPT ![k] = "over"] /\ UNCHANGED shown
       ELSE \E e \in Follows(shown.mode, read[k]), n \in Lengths :
              /\ read' = [read EXCEPT ![k] = e]
              /\ e = "again" => shown.reviews + 1 < MaxReviews
              /\ e = "results" /\ shown.mode # "search" => n = 0
              /\ \/ shown' = After(k, e, n)
                 \/ e = "verdict" /\ shown' = Withdrawn(After(k, e, n))
  /\ UNCHANGED <<asked, live, analysis, page>>

\* The request fails, the connection drops, or the stream says `error`: catch.
Fails(k) ==
  /\ Reading(k)
  /\ read' = [read EXCEPT ![k] = "over"]
  /\ shown' = IF Aborted(k) THEN shown
              ELSE [shown EXCEPT !.phase = "done", !.error = TRUE, !.by = @ \cup {k}]
  /\ UNCHANGED <<asked, live, analysis, page>>

\* The stream ends after its last event.
Closes(k) ==
  /\ read[k] \in {"results", "verdict"}
  /\ read' = [read EXCEPT ![k] = "over"]
  /\ UNCHANGED <<asked, live, shown, analysis, page>>

\* A research run fails where it sends no `error`: its stream ends all the same,
\* the loop over its events is done, and the page is left as it was.  (A question
\* asked in one request is answered by that request, which then breaks; an
\* analysis reports every failure.)
Cut(k) ==
  /\ Reading(k) /\ ~Aborted(k) /\ Unguarded(k)
  /\ read' = [read EXCEPT ![k] = "cut"]
  /\ UNCHANGED <<asked, live, shown, analysis, page>>

-----------------------------------------------------------------------------
(* The working file *)

NoFile == [phase |-> "idle", matter |-> NoMatter, by |-> {}, sources |-> 0, error |-> FALSE]

AbortedRun(j) == liveRun # j
ReadingRun(j) == readRun[j] \in {"posting", "open"}

ToFile == view' = "analysis" /\ openIndex' = 0 /\ openedOn' = 0 /\ UNCHANGED matter

\* Mutant: the last analysis stays on screen while the next runs.
Started_Keeps(m) == [file EXCEPT !.phase = "running", !.matter = m]

\* Analyse, on a matter with an indexed document.
Started(m) == [NoFile EXCEPT !.phase = "running", !.matter = m]

analyse ==
  /\ matter # NoMatter /\ file.phase # "running" /\ started < MaxRuns
  /\ started' = started + 1
  /\ liveRun' = started + 1
  /\ runMatter' = [runMatter EXCEPT ![started + 1] = matter]
  /\ readRun' = [readRun EXCEPT ![started + 1] = "posting"]
  /\ file' = Started(matter)
  /\ ToFile
  /\ UNCHANGED <<desk, copy>>

\* Case analysis: the one already on the page's copy of the matter.
openAnalysis ==
  /\ matter # NoMatter /\ file.phase # "running" /\ copy[matter] # 0
  /\ liveRun' = 0
  /\ \E n \in Lengths :
       file' = [phase |-> "done", matter |-> matter, by |-> {copy[matter]},
                sources |-> n, error |-> FALSE]
  /\ ToFile
  /\ UNCHANGED <<desk, started, runMatter, readRun, copy>>

\* An event of an analysis arrives: a section as it lands, or all of it.
ReadRunEvent(j) ==
  /\ ReadingRun(j)
  /\ IF AbortedRun(j)
       THEN readRun' = [readRun EXCEPT ![j] = "over"] /\ UNCHANGED file
       ELSE \/ /\ readRun[j] = "posting"
               /\ readRun' = [readRun EXCEPT ![j] = "open"]
               /\ UNCHANGED file
            \/ /\ readRun[j] = "open" /\ j \notin file.by
               /\ file' = [file EXCEPT !.by = @ \cup {j}]
               /\ UNCHANGED readRun
            \/ /\ readRun[j] = "open"
               /\ readRun' = [readRun EXCEPT ![j] = "done"]
               /\ \E n \in Lengths :
                    file' = [file EXCEPT !.phase = "done", !.by = {j}, !.sources = n]
  /\ UNCHANGED <<desk, started, liveRun, runMatter, copy, page>>

\* The request fails, the connection drops, or the run says `error`.
RunFails(j) ==
  /\ ReadingRun(j)
  /\ readRun' = [readRun EXCEPT ![j] = "over"]
  /\ file' = IF AbortedRun(j) THEN file ELSE [file EXCEPT !.phase = "done", !.error = TRUE]
  /\ UNCHANGED <<desk, started, liveRun, runMatter, copy, page>>

\* startAnalysis(matterId).then(refreshMatter), however the reading ended: the
\* record holds the last analysis of the matter the server finished, this one
\* or another whose reader had gone, and nothing new if this one failed; the copy
\* stays as it is if the fetch fails.
Refreshed(j) ==
  /\ readRun[j] \in {"done", "over"}
  /\ readRun' = [readRun EXCEPT ![j] = "refreshed"]
  /\ \E i \in 1..started \cup {copy[runMatter[j]]} :
       /\ i # 0 => runMatter[i] = runMatter[j]
       /\ copy' = [copy EXCEPT ![runMatter[j]] = i]
  /\ UNCHANGED <<desk, started, liveRun, runMatter, file, page>>

-----------------------------------------------------------------------------
(* The page *)

\* What the bundle opens onto.
bundle == IF view = "analysis" THEN file.sources ELSE shown.citations
bundleOpen == openIndex # 0 /\ openIndex <= bundle

\* The list whose chips the page renders: without a matter, the desk's.
PageShowsFile == view = "analysis" /\ matter # NoMatter
Listed == IF PageShowsFile THEN file.sources
          ELSE IF shown.error THEN 0 ELSE shown.citations

openAuthority(i) ==
  /\ i \in 1..Listed
  /\ openIndex' = i
  /\ openedOn' = IF PageShowsFile THEN 0 ELSE asked
  /\ UNCHANGED <<desk, analysis, matter, view>>

\* Mutant: the arrow keys go one past the last.
InBundle_OffByOne(i) == i \in 1..bundle + 1

\* Next and previous, by button or arrow key, stop at the ends of the list.
InBundle(i) == i \in 1..bundle

onNavigate(i) ==
  /\ bundleOpen
  /\ i \in {openIndex - 1, openIndex + 1} /\ InBundle(i)
  /\ openIndex' = i
  /\ UNCHANGED <<desk, analysis, matter, view, openedOn>>

closeAuthority ==
  /\ bundleOpen
  /\ openIndex' = 0
  /\ openedOn' = 0
  /\ UNCHANGED <<desk, analysis, matter, view>>

select(m) == matter' = m /\ UNCHANGED <<desk, analysis, view, openIndex, openedOn>>

-----------------------------------------------------------------------------
Init ==
  /\ asked = 0 /\ live = 0
  /\ read = [k \in Questions |-> "none"]
  /\ shown = Blank("ask", "idle")
  /\ started = 0 /\ liveRun = 0
  /\ runMatter = [j \in Runs |-> NoMatter]
  /\ readRun = [j \in Runs |-> "none"]
  /\ copy = [m \in Matters |-> 0]
  /\ file = NoFile
  /\ clicks = 0 /\ matter = NoMatter /\ view = "desk" /\ openIndex = 0 /\ openedOn = 0

UserStep ==
  /\ clicks < MaxClicks /\ clicks' = clicks + 1
  /\ \/ \E m \in Modes : ask(m)
     \/ research
     \/ cancel
     \/ analyse
     \/ openAnalysis
     \/ \E i \in 1..MaxCited : openAuthority(i)
     \/ \E i \in 0..MaxCited + 1 : onNavigate(i)
     \/ closeAuthority
     \/ \E m \in Matters \cup {NoMatter} : select(m)

StreamStep ==
  \/ \E k \in Questions : ReadEvent(k) \/ Fails(k) \/ Closes(k) \/ Cut(k)
  \/ \E j \in Runs : ReadRunEvent(j) \/ RunFails(j) \/ Refreshed(j)

Next == UserStep \/ StreamStep
Spec == Init /\ [][Next]_vars

\* The server answers, the network delivers or breaks, and the event loop runs
\* the callback; what the user does is owed by nobody.
Fairness ==
  /\ \A k \in Questions : WF_vars(ReadEvent(k)) /\ WF_vars(Closes(k))
  /\ \A j \in Runs : WF_vars(ReadRunEvent(j)) /\ WF_vars(Refreshed(j))

FairSpec == Spec /\ Fairness

-----------------------------------------------------------------------------
(* Properties *)

\* The type invariant.  An open authority is a number the lists have: the
\* arrow keys stop at the first and the last.  The first pass is reviewed
\* whatever research_max_rounds is.
TypeOK ==
  /\ asked \in 0..MaxAsked /\ live \in 0..asked
  /\ read \in [Questions -> {"none", "posting", "opening", "plan", "sources", "again",
       "enough", "token", "answer", "results", "verdict", "over", "cut"}]
  /\ shown \in [phase : Phases, mode : Modes, by : SUBSET Questions, citations : Lengths,
       reviews : 0..MaxReviews \cup {1}, result : BOOLEAN, withdrawn : BOOLEAN, error : BOOLEAN]
  /\ started \in 0..MaxRuns /\ liveRun \in 0..started
  /\ runMatter \in [Runs -> Matters \cup {NoMatter}]
  /\ readRun \in [Runs -> {"none", "posting", "open", "done", "over", "refreshed"}]
  /\ copy \in [Matters -> 0..started]
  /\ file \in [phase : {"idle", "running", "done"}, matter : Matters \cup {NoMatter},
       by : SUBSET Runs, sources : Lengths, error : BOOLEAN]
  /\ clicks \in 0..MaxClicks /\ matter \in Matters \cup {NoMatter} /\ view \in {"desk", "analysis"}
  /\ openIndex \in 0..MaxCited /\ openedOn \in 0..asked

\* Everything on the desk - plan, passages, words, verdict, error - comes from
\* the last question asked: a question that was replaced while its stream was
\* still open, or its request still out, writes nothing into the next one's
\* page (useResearch.ts:82, :138).
ShownIsAsked == shown.by \subseteq {asked}

\* After Stop the page stands still: what the server goes on to send, and the
\* rejected read itself, change nothing until the next question.
StoppedIsFrozen == [][live = 0 /\ asked' = asked => UNCHANGED shown]_vars

\* The working file is one analysis's, and of the matter it says it is of; the
\* analysis it replaced, of this or another matter, leaves nothing in it.
FileOfOneRun ==
  \A j \in file.by : /\ runMatter[j] = file.matter
                     /\ file.by = {j}

\* "An open tab pointing at the previous query's authorities would be a lie"
\* (Workspace.tsx:62): once the desk is what is shown, the open authority was
\* opened on this question's list.
DeskTabIsThisQuestions ==
  view = "desk" /\ bundleOpen => openedOn = asked

\* Every wait ends: a question that is neither stopped nor replaced comes to
\* `done`, in every mode and whether its stream is read to the end or breaks; so
\* does an analysis, and with it the rail's "Analysing".  The one exception is a
\* research question whose run fails without an `error` event (research.py's
\* `finally`): its stream ends in silence and the page waits for ever.
EveryWaitEnds ==
  /\ \A k \in Questions :
       (live = k) ~> (live # k \/ shown.phase = "done" \/ read[k] = "cut")
  /\ (file.phase = "running") ~> (file.phase # "running")

\* What useResearch.ts:17-25 says of the phases: while one other than idle and
\* done is on the status line, a question is being worked on.
BusyIsWorking == busy => live # 0

=============================================================================
