--------------------------- MODULE WorkspaceProofs ---------------------------
(***************************************************************************)
(* What the research page guarantees for any number of questions,          *)
(* analyses, matters, citations and clicks.                                *)
(***************************************************************************)
EXTENDS Workspace, TLAPS

(* The inductive invariants.                                               *)

\* Only the last question's controller can be current; nothing was read for a
\* question not yet asked; and a question with a review to come has room for it.
DeskInv ==
  /\ live \in {0, asked}
  /\ \A k \in Questions : k > asked => read[k] = "none"
  /\ ShownIsAsked
  /\ live # 0 /\ read[live] \in {"posting", "opening", "plan", "sources", "again"} =>
       shown.reviews = 0 \/ shown.reviews < MaxReviews

\* Only the last analysis's controller can be current, and the file is then
\* its own; every analysis started has a matter; a matter's copy is its own.
FileInv ==
  /\ liveRun \in {0, started}
  /\ \A j \in Runs : IF j > started THEN readRun[j] = "none" ELSE runMatter[j] \in Matters
  /\ liveRun # 0 => runMatter[liveRun] = file.matter /\ file.by \subseteq {liveRun}
  /\ \A m \in Matters : copy[m] # 0 => runMatter[copy[m]] = m
  /\ FileOfOneRun

\* What is open on the desk was opened there, on this question's list.
TabInv == view = "desk" /\ openIndex # 0 => openedOn = asked

WorkspaceInv == TypeOK /\ DeskInv /\ FileInv /\ TabInv

USE MattersAssumption, BoundsAssumption

-----------------------------------------------------------------------------
(* The steps of the question.                                              *)

\* What an event leaves on the desk is well-formed, and of its question; only a
\* review counts one.
LEMMA AfterFacts ==
  ASSUME WorkspaceInv, NEW k \in Questions, k = asked, live = k,
         NEW n \in Lengths, NEW e \in Follows(shown.mode, read[k]),
         e = "again" => shown.reviews + 1 < MaxReviews,
         NEW s, s \in {After(k, e, n), Withdrawn(After(k, e, n))}
  PROVE  /\ s \in [phase : Phases, mode : Modes, by : SUBSET Questions, citations : Lengths,
              reviews : 0..MaxReviews \cup {1}, result : BOOLEAN, withdrawn : BOOLEAN,
              error : BOOLEAN]
         /\ s.by \subseteq {asked}
         /\ e \in {"posting", "opening", "plan", "sources", "again"} =>
              s.reviews = 0 \/ s.reviews < MaxReviews
         /\ e \in {"opening", "plan", "sources", "again", "enough", "token", "answer",
                  "results", "verdict"}
<1> USE DEF WorkspaceInv, TypeOK
<1>1. /\ shown.phase \in Phases /\ shown.mode \in Modes /\ shown.by \subseteq Questions
      /\ shown.by \subseteq {asked} /\ shown.citations \in Lengths
      /\ shown.reviews \in 0..MaxReviews \cup {1}
  BY DEF DeskInv, ShownIsAsked
<1>2. /\ e \in {"opening", "plan", "sources", "again", "enough", "token", "answer",
               "results", "verdict"}
      /\ e \in {"opening", "plan", "sources", "again", "enough"} =>
           shown.reviews = 0 \/ shown.reviews < MaxReviews
  BY DEF Follows, DeskInv, Questions
<1>3. After(k, e, n) \in [phase : Phases, mode : Modes, by : SUBSET Questions,
        citations : Lengths, reviews : 0..MaxReviews \cup {1}, result : BOOLEAN,
        withdrawn : BOOLEAN, error : BOOLEAN]
  <2>1. CASE e \in {"opening", "plan", "token", "verdict"}
    BY <1>1, <2>1 DEF After, Phases
  <2>2. CASE e = "sources"
    BY <1>1, <2>2 DEF After, Phases
  <2>3. CASE e \in {"again", "enough"}
    <3>1. shown.reviews + 1 \in 0..MaxReviews \cup {1}
      BY <1>1, <1>2, <2>3
    <3> QED BY <1>1, <2>3, <3>1 DEF After, Phases
  <2>4. CASE e \in {"answer", "results"}
    <3>1. AfterDone(shown.mode, n) \in Phases
      BY DEF AfterDone, Phases
    <3> QED BY <1>1, <2>4, <3>1 DEF After
  <2> QED BY <1>2, <2>1, <2>2, <2>3, <2>4
<1>4. After(k, e, n).by \subseteq {asked}
  <2>1. After(k, e, n).by \in {shown.by, shown.by \cup {k}}
    BY <1>2 DEF After
  <2> QED BY <1>1, <2>1
<1>5. ASSUME e \in {"opening", "plan", "sources", "again"}
      PROVE  After(k, e, n).reviews = 0 \/ After(k, e, n).reviews < MaxReviews
  <2>1. CASE e = "again"
    BY <1>1, <2>1 DEF After
  <2>2. CASE e # "again"
    <3>1. After(k, e, n).reviews = shown.reviews
      BY <1>1, <1>5, <2>2 DEF After
    <3> QED BY <1>2, <1>5, <3>1
  <2> QED BY <2>1, <2>2
<1>6. 0 \in Lengths
  BY DEF Lengths
<1> QED BY <1>2, <1>3, <1>4, <1>5, <1>6 DEF Withdrawn

\* A new question.
LEMMA SubmitKeeps ==
  ASSUME WorkspaceInv, NEW m \in Modes, submit(m), ToDesk, UNCHANGED analysis,
         clicks' \in 0..MaxClicks
  PROVE  WorkspaceInv'
<1> USE DEF WorkspaceInv, submit, ToDesk, analysis
<1>1. asked + 1 \in Questions /\ asked' = asked + 1 /\ asked \in Nat
  BY DEF TypeOK, Questions
<1>2. TypeOK'
  BY <1>1 DEF TypeOK, Blank, Phases, Lengths, Questions
<1>3. DeskInv'
  <2>1. \A k \in Questions : k > asked' => read'[k] = "none"
    BY <1>1 DEF DeskInv, TypeOK, Questions
  <2>2. shown'.by = {} /\ shown'.reviews = 0
    BY DEF Blank
  <2> QED BY <1>1, <2>1, <2>2 DEF DeskInv, ShownIsAsked
<1>4. FileInv'
  BY DEF FileInv, FileOfOneRun
<1>5. TabInv'
  BY DEF TabInv
<1> QED BY <1>2, <1>3, <1>4, <1>5

\* Stop.
LEMMA CancelKeeps ==
  ASSUME WorkspaceInv, cancel, clicks' \in 0..MaxClicks
  PROVE  WorkspaceInv'
<1> USE DEF WorkspaceInv, cancel, analysis
<1>1. TypeOK'
  BY DEF TypeOK
<1>2. DeskInv'
  BY DEF DeskInv, ShownIsAsked
<1>3. FileInv' /\ TabInv'
  BY DEF FileInv, FileOfOneRun, TabInv
<1> QED BY <1>1, <1>2, <1>3

\* An event of a question's stream.
LEMMA ReadEventKeeps ==
  ASSUME WorkspaceInv, NEW k \in Questions, ReadEvent(k)
  PROVE  WorkspaceInv'
<1> USE DEF WorkspaceInv, ReadEvent, analysis, page
<1>1. FileInv' /\ TabInv'
  BY DEF FileInv, FileOfOneRun, TabInv
<1>2. CASE Aborted(k)
  <2>1. TypeOK'
    BY <1>2 DEF TypeOK
  <2>2. DeskInv'
    BY <1>2 DEF DeskInv, ShownIsAsked, Aborted, Reading, TypeOK, Questions
  <2> QED BY <1>1, <2>1, <2>2
<1>3. CASE ~Aborted(k)
  <2>1. k = asked /\ live = k
    BY <1>3 DEF Aborted, DeskInv, Questions
  <2>2. PICK e \in Follows(shown.mode, read[k]), n \in Lengths :
          /\ read' = [read EXCEPT ![k] = e]
          /\ e = "again" => shown.reviews + 1 < MaxReviews
          /\ shown' \in {After(k, e, n), Withdrawn(After(k, e, n))}
    BY <1>3
  <2>3. /\ shown' \in [phase : Phases, mode : Modes, by : SUBSET Questions,
             citations : Lengths, reviews : 0..MaxReviews \cup {1}, result : BOOLEAN,
             withdrawn : BOOLEAN, error : BOOLEAN]
        /\ shown'.by \subseteq {asked}
        /\ e \in {"posting", "opening", "plan", "sources", "again"} =>
             shown'.reviews = 0 \/ shown'.reviews < MaxReviews
        /\ e \in {"opening", "plan", "sources", "again", "enough", "token", "answer",
                 "results", "verdict"}
    BY <2>1, <2>2, AfterFacts
  <2>4. TypeOK'
    BY <2>2, <2>3 DEF TypeOK
  <2>5. DeskInv'
    BY <2>1, <2>2, <2>3 DEF DeskInv, ShownIsAsked, TypeOK, Questions
  <2> QED BY <1>1, <2>4, <2>5
<1> QED BY <1>2, <1>3

\* A question's stream breaks.
LEMMA FailsKeeps ==
  ASSUME WorkspaceInv, NEW k \in Questions, Fails(k)
  PROVE  WorkspaceInv'
<1> USE DEF WorkspaceInv, Fails, analysis, page
<1>1. TypeOK'
  BY DEF TypeOK, Phases
<1>2. DeskInv'
  <2>1. k <= asked
    BY DEF DeskInv, Reading, TypeOK, Questions
  <2>2. shown'.by \subseteq {asked}
    BY DEF DeskInv, ShownIsAsked, Aborted, TypeOK, Questions
  <2>3. shown'.reviews = shown.reviews
    BY DEF TypeOK
  <2> QED BY <2>1, <2>2, <2>3 DEF DeskInv, ShownIsAsked, TypeOK, Questions
<1>3. FileInv' /\ TabInv'
  BY DEF FileInv, FileOfOneRun, TabInv
<1> QED BY <1>1, <1>2, <1>3

\* A question's stream ends.
LEMMA ClosesKeeps ==
  ASSUME WorkspaceInv, NEW k \in Questions, Closes(k)
  PROVE  WorkspaceInv'
<1> USE DEF WorkspaceInv, Closes, analysis, page
<1>1. TypeOK'
  BY DEF TypeOK
<1>2. DeskInv'
  BY DEF DeskInv, ShownIsAsked, TypeOK, Questions
<1>3. FileInv' /\ TabInv'
  BY DEF FileInv, FileOfOneRun, TabInv
<1> QED BY <1>1, <1>2, <1>3

\* A question's stream ends in silence.
LEMMA CutKeeps ==
  ASSUME WorkspaceInv, NEW k \in Questions, Cut(k)
  PROVE  WorkspaceInv'
<1> USE DEF WorkspaceInv, Cut, analysis, page
<1>1. TypeOK'
  BY DEF TypeOK
<1>2. DeskInv'
  BY DEF DeskInv, ShownIsAsked, Reading, TypeOK, Questions
<1>3. FileInv' /\ TabInv'
  BY DEF FileInv, FileOfOneRun, TabInv
<1> QED BY <1>1, <1>2, <1>3

-----------------------------------------------------------------------------
(* The steps of the working file.                                          *)

\* A new analysis.
LEMMA AnalyseKeeps ==
  ASSUME WorkspaceInv, analyse, clicks' \in 0..MaxClicks
  PROVE  WorkspaceInv'
<1> USE DEF WorkspaceInv, analyse, ToFile, desk
<1>1. started + 1 \in Runs /\ started \in Nat /\ matter \in Matters
  BY DEF TypeOK, Runs
<1>2. TypeOK'
  <2>1. file' \in [phase : {"idle", "running", "done"}, matter : Matters \cup {NoMatter},
                   by : SUBSET Runs, sources : Lengths, error : BOOLEAN]
    BY <1>1 DEF Started, NoFile, Lengths
  <2>2. /\ runMatter' \in [Runs -> Matters \cup {NoMatter}]
        /\ readRun' \in [Runs -> {"none", "posting", "open", "done", "over", "refreshed"}]
        /\ copy' \in [Matters -> 0..started']
    BY <1>1 DEF TypeOK
  <2> QED BY <1>1, <2>1, <2>2 DEF TypeOK, Runs
<1>3. FileInv'
  <2>1. \A j \in Runs : IF j > started' THEN readRun'[j] = "none" ELSE runMatter'[j] \in Matters
    BY <1>1 DEF FileInv, TypeOK, Runs
  <2>2. runMatter'[liveRun'] = file'.matter /\ file'.by = {}
    BY <1>1 DEF TypeOK, Started, NoFile
  <2>3. \A m \in Matters : copy'[m] # 0 => runMatter'[copy'[m]] = m
    BY <1>1 DEF FileInv, TypeOK
  <2> QED BY <2>1, <2>2, <2>3 DEF FileInv, FileOfOneRun
<1>4. DeskInv' /\ TabInv'
  BY DEF DeskInv, ShownIsAsked, TabInv
<1> QED BY <1>2, <1>3, <1>4

\* The last analysis is opened again.
LEMMA OpenAnalysisKeeps ==
  ASSUME WorkspaceInv, openAnalysis, clicks' \in 0..MaxClicks
  PROVE  WorkspaceInv'
<1> USE DEF WorkspaceInv, openAnalysis, ToFile, desk
<1>1. matter \in Matters /\ copy[matter] \in Runs /\ runMatter[copy[matter]] = matter
  BY DEF TypeOK, FileInv, Runs
<1>2. TypeOK'
  BY <1>1 DEF TypeOK
<1>3. file'.by = {copy[matter]} /\ file'.matter = matter
  OBVIOUS
<1>4. FileInv'
  BY <1>1, <1>3 DEF FileInv, FileOfOneRun
<1>5. DeskInv' /\ TabInv'
  BY DEF DeskInv, ShownIsAsked, TabInv
<1> QED BY <1>2, <1>4, <1>5

\* An event of an analysis's stream.
LEMMA ReadRunEventKeeps ==
  ASSUME WorkspaceInv, NEW j \in Runs, ReadRunEvent(j)
  PROVE  WorkspaceInv'
<1> USE DEF WorkspaceInv
<1>1. /\ readRun[j] # "none"
      /\ \E to \in {"over", "open", "done"} : readRun' \in {readRun, [readRun EXCEPT ![j] = to]}
      /\ UNCHANGED <<desk, started, liveRun, runMatter, copy, page>>
      /\ \/ file' = file
         \/ liveRun = j /\ file' = [file EXCEPT !.by = @ \cup {j}]
         \/ liveRun = j /\ \E n \in Lengths :
              file' = [file EXCEPT !.phase = "done", !.by = {j}, !.sources = n]
  BY DEF ReadRunEvent, ReadingRun, AbortedRun
<1>2. j <= started /\ runMatter[j] \in Matters
  <2>1. IF j > started THEN readRun[j] = "none" ELSE runMatter[j] \in Matters
    BY DEF FileInv
  <2>2. j \in Int /\ started \in Int
    BY DEF TypeOK, Runs
  <2>3. readRun[j] # "none"
    BY <1>1
  <2>4. ~(j > started)
    BY <2>1, <2>3
  <2> QED BY <2>1, <2>2, <2>4
<1>3. /\ file' \in [phase : {"idle", "running", "done"}, matter : Matters \cup {NoMatter},
                    by : SUBSET Runs, sources : Lengths, error : BOOLEAN]
      /\ file'.matter = file.matter
      /\ file' = file \/ (liveRun = j /\ file'.by \in {file.by \cup {j}, {j}})
  <2>1. CASE file' = file
    BY <2>1 DEF TypeOK
  <2>2. CASE liveRun = j /\ file' = [file EXCEPT !.by = @ \cup {j}]
    <3>1. file.by \cup {j} \in SUBSET Runs
      BY DEF TypeOK
    <3> QED BY <2>2, <3>1 DEF TypeOK
  <2>3. CASE liveRun = j /\ \E n \in Lengths :
               file' = [file EXCEPT !.phase = "done", !.by = {j}, !.sources = n]
    <3>1. {j} \in SUBSET Runs
      OBVIOUS
    <3> QED BY <2>3, <3>1 DEF TypeOK
  <2> QED BY <1>1, <2>1, <2>2, <2>3
<1>4. TypeOK'
  <2>1. readRun' \in [Runs -> {"none", "posting", "open", "done", "over", "refreshed"}]
    BY <1>1 DEF TypeOK
  <2> QED BY <1>1, <1>3, <2>1 DEF TypeOK, desk, page
<1>5. FileInv'
  <2>1. \A i \in Runs : IF i > started' THEN readRun'[i] = "none" ELSE runMatter'[i] \in Matters
    BY <1>1, <1>2 DEF FileInv, TypeOK, Runs
  <2>2. liveRun # 0 => runMatter[liveRun] = file'.matter /\ file'.by \subseteq {liveRun}
    BY <1>3 DEF FileInv
  <2>3. FileOfOneRun'
    <3>1. CASE file' = file
      BY <1>1, <3>1 DEF FileInv, FileOfOneRun
    <3>2. CASE liveRun = j
      <4>1. j # 0
        BY DEF Runs
      <4> QED BY <1>1, <2>2, <3>2, <4>1 DEF FileOfOneRun
    <3> QED BY <1>3, <3>1, <3>2
  <2> QED BY <1>1, <2>1, <2>2, <2>3 DEF FileInv
<1>6. DeskInv' /\ TabInv'
  BY <1>1 DEF DeskInv, ShownIsAsked, TabInv, desk, page
<1> QED BY <1>4, <1>5, <1>6

\* An analysis's stream breaks.
LEMMA RunFailsKeeps ==
  ASSUME WorkspaceInv, NEW j \in Runs, RunFails(j)
  PROVE  WorkspaceInv'
<1> USE DEF WorkspaceInv, RunFails, desk, page
<1>1. TypeOK'
  BY DEF TypeOK
<1>2. file'.by = file.by /\ file'.matter = file.matter
  BY DEF TypeOK
<1>3. readRun[j] # "none"
  BY DEF ReadingRun
<1>4. FileInv'
  BY <1>2, <1>3 DEF FileInv, FileOfOneRun, TypeOK, Runs
<1>5. DeskInv' /\ TabInv'
  BY DEF DeskInv, ShownIsAsked, TabInv
<1> QED BY <1>1, <1>4, <1>5

\* The matter is fetched again once an analysis's reading is over.
LEMMA RefreshedKeeps ==
  ASSUME WorkspaceInv, NEW j \in Runs, Refreshed(j)
  PROVE  WorkspaceInv'
<1> USE DEF WorkspaceInv, Refreshed, desk, page
<1> DEFINE m == runMatter[j]
<1>1. readRun[j] # "none" /\ m \in Matters
  BY DEF FileInv, TypeOK, Runs
<1>2. PICK i \in 1..started \cup {copy[m]} :
        (i # 0 => runMatter[i] = m) /\ copy' = [copy EXCEPT ![m] = i]
  OBVIOUS
<1>3. i \in 0..started
  BY <1>1, <1>2 DEF TypeOK
<1>4. TypeOK'
  BY <1>2, <1>3 DEF TypeOK
<1>5. FileInv'
  <2>1. \A n \in Matters : copy'[n] # 0 => runMatter'[copy'[n]] = n
    BY <1>1, <1>2 DEF FileInv, TypeOK
  <2>2. \A n \in Runs : n > started => readRun'[n] = "none"
    BY <1>1 DEF FileInv, TypeOK
  <2> QED BY <2>1, <2>2 DEF FileInv, FileOfOneRun
<1>6. DeskInv' /\ TabInv'
  BY DEF DeskInv, ShownIsAsked, TabInv
<1> QED BY <1>4, <1>5, <1>6

-----------------------------------------------------------------------------
(* The steps of the page.                                                  *)

\* An authority is opened, another one is gone to, or it is closed; or another
\* matter is taken up.
LEMMA PageKeeps ==
  ASSUME WorkspaceInv, clicks' \in 0..MaxClicks,
         \/ \E i \in 1..MaxCited : openAuthority(i)
         \/ \E i \in 0..MaxCited + 1 : onNavigate(i)
         \/ closeAuthority
         \/ \E m \in Matters \cup {NoMatter} : select(m)
  PROVE  WorkspaceInv'
<1> USE DEF WorkspaceInv, openAuthority, onNavigate, closeAuthority, select, desk, analysis
<1>1. bundle \in 0..MaxCited
  BY DEF bundle, TypeOK, Lengths
<1>2. openIndex' \in 0..MaxCited /\ openedOn' \in 0..asked
  BY <1>1 DEF InBundle, TypeOK
<1>3. matter' \in Matters \cup {NoMatter}
  BY DEF TypeOK
<1>4. UNCHANGED <<desk, analysis, view>>
  OBVIOUS
<1>5. TypeOK'
  BY <1>2, <1>3, <1>4 DEF TypeOK
<1>6. DeskInv' /\ FileInv'
  BY <1>4 DEF DeskInv, ShownIsAsked, FileInv, FileOfOneRun
<1>7. TabInv'
  BY <1>4 DEF TabInv, bundleOpen, PageShowsFile
<1> QED BY <1>5, <1>6, <1>7

-----------------------------------------------------------------------------
(* The theorems.                                                           *)

\* The whole of it is inductive.
LEMMA InitWorkspace == Init => WorkspaceInv
BY DEF Init, WorkspaceInv, TypeOK, DeskInv, FileInv, TabInv, ShownIsAsked, FileOfOneRun,
       Blank, NoFile, Phases, Modes, Questions, Runs, Lengths

LEMMA StepWorkspace == WorkspaceInv /\ [Next]_vars => WorkspaceInv'
<1> SUFFICES ASSUME WorkspaceInv, [Next]_vars
             PROVE  WorkspaceInv'
  OBVIOUS
<1>1. CASE UserStep
  <2>1. clicks' \in 0..MaxClicks
    BY <1>1 DEF UserStep, WorkspaceInv, TypeOK
  <2>2. ASSUME NEW m \in Modes, ask(m)
        PROVE  WorkspaceInv'
    BY <2>1, <2>2, SubmitKeeps DEF ask
  <2>3. CASE research
    BY <2>1, <2>3, SubmitKeeps DEF research, Modes
  <2>4. CASE cancel
    BY <2>1, <2>4, CancelKeeps
  <2>5. CASE analyse
    BY <2>1, <2>5, AnalyseKeeps
  <2>6. CASE openAnalysis
    BY <2>1, <2>6, OpenAnalysisKeeps
  <2>7. CASE \/ \E i \in 1..MaxCited : openAuthority(i)
             \/ \E i \in 0..MaxCited + 1 : onNavigate(i)
             \/ closeAuthority
             \/ \E m \in Matters \cup {NoMatter} : select(m)
    BY <2>1, <2>7, PageKeeps
  <2> QED BY <1>1, <2>2, <2>3, <2>4, <2>5, <2>6, <2>7 DEF UserStep
<1>2. ASSUME NEW k \in Questions, ReadEvent(k) \/ Fails(k) \/ Closes(k) \/ Cut(k)
      PROVE  WorkspaceInv'
  BY <1>2, ReadEventKeeps, FailsKeeps, ClosesKeeps, CutKeeps
<1>3. ASSUME NEW j \in Runs, ReadRunEvent(j) \/ RunFails(j) \/ Refreshed(j)
      PROVE  WorkspaceInv'
  BY <1>3, ReadRunEventKeeps, RunFailsKeeps, RefreshedKeeps
<1>4. CASE UNCHANGED vars
  BY <1>4 DEF WorkspaceInv, TypeOK, DeskInv, FileInv, TabInv, ShownIsAsked, FileOfOneRun,
              vars, desk, analysis, page
<1> QED BY <1>1, <1>2, <1>3, <1>4 DEF Next, StreamStep

\* The inductive invariant holds.
LEMMA WorkspaceInvHolds == Spec => []WorkspaceInv
BY InitWorkspace, StepWorkspace, PTL DEF Spec

\* The type invariant: among other things, the open authority is always a number
\* a list can have, whatever is clicked in whatever order.
THEOREM WorkspaceTypeCorrect == Spec => []TypeOK
BY WorkspaceInvHolds, PTL DEF WorkspaceInv

\* What is on the desk is the last question's, however many questions were
\* replaced or stopped while their streams were open.
THEOREM ShownIsAskedHolds == Spec => []ShownIsAsked
<1>1. WorkspaceInv => ShownIsAsked
  BY DEF WorkspaceInv, DeskInv
<1> QED BY <1>1, WorkspaceInvHolds, PTL

\* The working file is one analysis's, and of the matter it says.
THEOREM FileOfOneRunHolds == Spec => []FileOfOneRun
<1>1. WorkspaceInv => FileOfOneRun
  BY DEF WorkspaceInv, FileInv
<1> QED BY <1>1, WorkspaceInvHolds, PTL

\* On the desk, an open tab is of this question's authorities.
THEOREM DeskTabHolds == Spec => []DeskTabIsThisQuestions
<1>1. WorkspaceInv => DeskTabIsThisQuestions
  BY DEF WorkspaceInv, TabInv, DeskTabIsThisQuestions, bundleOpen
<1> QED BY <1>1, WorkspaceInvHolds, PTL

\* After Stop nothing changes on the desk until the next question.
THEOREM StoppedStaysFrozen == Spec => StoppedIsFrozen
<1>1. WorkspaceInv /\ [Next]_vars => [live = 0 /\ asked' = asked => UNCHANGED shown]_vars
  <2> SUFFICES ASSUME WorkspaceInv, Next, live = 0, asked' = asked
               PROVE  UNCHANGED shown
    BY DEF vars, desk
  <2>1. asked # asked + 1
    BY DEF WorkspaceInv, TypeOK
  <2>2. CASE UserStep
    BY <2>1, <2>2 DEF UserStep, ask, research, submit, cancel, analyse, openAnalysis,
         openAuthority, onNavigate, closeAuthority, select, desk
  <2>3. ASSUME NEW k \in Questions, ReadEvent(k) \/ Fails(k) \/ Closes(k) \/ Cut(k)
        PROVE  UNCHANGED shown
    <3>1. Aborted(k)
      BY DEF Aborted, Questions
    <3> QED BY <2>3, <3>1 DEF ReadEvent, Fails, Closes, Cut
  <2>4. ASSUME NEW j \in Runs, ReadRunEvent(j) \/ RunFails(j) \/ Refreshed(j)
        PROVE  UNCHANGED shown
    BY <2>4 DEF ReadRunEvent, RunFails, Refreshed, desk
  <2> QED BY <2>2, <2>3, <2>4 DEF Next, StreamStep
<1> QED BY <1>1, WorkspaceInvHolds, PTL DEF Spec, StoppedIsFrozen

=============================================================================
