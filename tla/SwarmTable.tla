----------------------------- MODULE SwarmTable -----------------------------
(***************************************************************************)
(* The table store of the swarm skill (scripts/table.ts): JSONL files      *)
(* behind tools that list them, read one, write a new one or replace one   *)
(* exact text by another; a cache of parsed rows in front of them; and     *)
(* eviction of the oldest files when a table is created.                   *)
(*                                                                         *)
(* The agent's code may have several calls in flight; each is a flow with  *)
(* an action per await, and any tool may reject.  A table is known by the  *)
(* order it was numbered in, its content by the calls of run() whose       *)
(* results are in it.  Two calls of run() on one table do not overlap, and *)
(* one session uses the store at a time.  A call in flight when a session  *)
(* ends has reached the files by then, or never does.                      *)
(***************************************************************************)
EXTENDS Integers, FiniteSets

CONSTANTS
  MaxTables,    \* MAX_TABLES
  Flows,        \* calls the agent's code can have in flight
  MaxCreates,   \* bound: tables created
  MaxTableRuns, \* bound: calls of run()
  MaxSessions   \* bound: sessions; files outlive one, its memory does not

ASSUME SwarmTableAssumption ==
  /\ MaxTables \in Nat \ {0} /\ MaxCreates \in Nat
  /\ MaxTableRuns \in Nat /\ MaxSessions \in Nat

VARIABLES
  fileOf,      \* each file: "none", "unclaimed" until create() returns its
               \* table's id, "live" or, evicted, "empty"
  content,     \* ... and the calls whose results it holds
  made,        \* tables numbered so far
  number,      \* the number in each one's file name
  cached,      \* tables in the cache
  cachedRows,  \* their rows ...
  lastWritten, \* ... and content as last written; {} for the others
  sequenceCounter,
  flow,        \* where each flow is
  tableRuns,   \* calls of run() so far
  sessions,    \* restarts so far
  returned,    \* per table, calls that returned (history)
  strayed      \* tables whose cache may have left their file behind (history)

fileVars       == <<fileOf, content>>
cacheEntries   == <<cached, cachedRows, lastWritten>>
numbering      == <<made, number, sequenceCounter>>
swarmTableVars == <<fileVars, cacheEntries, numbering, flow, tableRuns, sessions, returned, strayed>>

Tables == 1..MaxCreates
Files  == {t \in Tables : fileOf[t] # "none"}

\* `run` is 0 for rows(); `text` is what is to be found in the file or was read
\* from it; `held`: the cache entry being saved is still the cache's.
Idle == [at |-> "idle", table |-> 0, run |-> 0, rows |-> {}, text |-> {}, known |-> FALSE,
         held |-> FALSE, victims |-> {}]

\* editFile finds the text it was given, or changes nothing and says so in a
\* string nobody reads.
Found(t, old) == fileOf[t] = "live" /\ content[t] = old

Move(f, changes) == flow' = [flow EXCEPT ![f] = changes]

-----------------------------------------------------------------------------
\* listTableFiles(): the files, empty ones too, or none at all if that fails.
Listings == {Files, {}}

\* The n files a listing has first: names sort by number, equal ones by chance.
Oldest(V, listed) ==
  /\ V \subseteq listed
  /\ \A t \in V, u \in listed \ V : number[t] <= number[u]

\* create(): evict() lists the files and picks the oldest, to leave room for one.
Create(f) ==
  /\ flow[f].at = "idle" /\ made < MaxCreates
  /\ \E listed \in Listings : \E V \in SUBSET listed :
       /\ Oldest(V, listed)
       /\ Cardinality(V) = IF Cardinality(listed) < MaxTables THEN 0
                           ELSE Cardinality(listed) - MaxTables + 1
       /\ Move(f, [Idle EXCEPT !.at = "evicting", !.victims = V])
  /\ UNCHANGED <<fileVars, cacheEntries, numbering, tableRuns, sessions, returned, strayed>>

\* A victim leaves the cache; what to overwrite is known only if it was there.
EvictNext(f) ==
  /\ flow[f].at = "evicting"
  /\ \E t \in flow[f].victims :
       /\ Oldest({t}, flow[f].victims)
       /\ Move(f, [flow[f] EXCEPT !.at = "overwriting", !.table = t,
                     !.text = lastWritten[t], !.known = t \in cached])
       /\ cached' = cached \ {t}
       /\ cachedRows' = [cachedRows EXCEPT ![t] = {}]
       /\ lastWritten' = [lastWritten EXCEPT ![t] = {}]
       /\ strayed' = strayed \cup {t}
  /\ UNCHANGED <<fileVars, numbering, tableRuns, sessions, returned>>

\* writeFile(path, "", prev); a failure is swallowed.
Overwrite(f) ==
  /\ flow[f].at = "overwriting"
  /\ LET t == flow[f].table
     IN /\ \/ UNCHANGED fileOf
           \/ flow[f].known /\ Found(t, flow[f].text) /\ fileOf' = [fileOf EXCEPT ![t] = "empty"]
        /\ Move(f, [Idle EXCEPT !.at = "evicting", !.victims = flow[f].victims \ {t}])
  /\ UNCHANGED <<content, cacheEntries, numbering, tableRuns, sessions, returned, strayed>>

\* nextSequence(): past the last file listed, and past the numbers handed out since
\* the session began.
nextSequence(listed) ==
  LET behind == {sequenceCounter} \cup {number[t] + 1 : t \in listed}
  IN  {n \in behind : \A m \in behind : m <= n}

\* The listing and its use are one step: meanwhile files only come, and the
\* counter is past those this session adds.
Number(f) ==
  /\ flow[f].at = "evicting" /\ flow[f].victims = {} /\ made < MaxCreates
  /\ \E listed \in Listings : \E n \in nextSequence(listed) :
       /\ number' = [number EXCEPT ![made + 1] = n]
       /\ sequenceCounter' = n + 1
  /\ made' = made + 1
  /\ Move(f, [Idle EXCEPT !.at = "creating", !.table = made + 1])
  /\ UNCHANGED <<fileVars, cacheEntries, tableRuns, sessions, returned, strayed>>

\* The file is there ...
WriteNew(f) ==
  /\ flow[f].at = "creating"
  /\ fileOf' = [fileOf EXCEPT ![flow[f].table] = "unclaimed"]
  /\ Move(f, [flow[f] EXCEPT !.at = "created"])
  /\ UNCHANGED <<content, cacheEntries, numbering, tableRuns, sessions, returned, strayed>>

\* ... and create() returns the table's id.
Created(f) ==
  /\ flow[f].at = "created"
  /\ LET t == flow[f].table
     IN /\ fileOf' = [fileOf EXCEPT ![t] = "live"]
        /\ cached' = cached \cup {t}
        /\ cachedRows' = [cachedRows EXCEPT ![t] = {}]
        /\ lastWritten' = [lastWritten EXCEPT ![t] = {}]
  /\ Move(f, Idle)
  /\ UNCHANGED <<content, numbering, tableRuns, sessions, returned, strayed>>

-----------------------------------------------------------------------------
Handles    == {t \in Tables : fileOf[t] \in {"live", "empty"}}
Working(f) == flow[f].run # 0

\* run() and rows() load the table: at once from the cache, where rows() has
\* nothing left to do; the rows are the cache's own objects.
RunOn(f, t) ==
  /\ flow[f].at = "idle" /\ t \in Handles /\ tableRuns < MaxTableRuns
  /\ \A g \in Flows : Working(g) => flow[g].table # t
  /\ tableRuns' = tableRuns + 1
  /\ IF t \in cached
       THEN Move(f, [Idle EXCEPT !.at = "dispatching", !.table = t, !.run = tableRuns + 1,
                       !.rows = cachedRows[t] \cup {tableRuns + 1}])
       ELSE Move(f, [Idle EXCEPT !.at = "loading", !.table = t, !.run = tableRuns + 1])
  /\ UNCHANGED <<fileVars, cacheEntries, numbering, sessions, returned, strayed>>

ReadRows(f, t) ==
  /\ flow[f].at = "idle" /\ t \in Handles \ cached
  /\ Move(f, [Idle EXCEPT !.at = "loading", !.table = t])
  /\ UNCHANGED <<fileVars, cacheEntries, numbering, tableRuns, sessions, returned, strayed>>

\* readFile() of the file listed for the id; an empty one makes the call throw.
ReadText(f) ==
  /\ flow[f].at = "loading" /\ fileOf[flow[f].table] = "live"
  /\ Move(f, [flow[f] EXCEPT !.at = "read", !.text = content[flow[f].table]])
  /\ UNCHANGED <<fileVars, cacheEntries, numbering, tableRuns, sessions, returned, strayed>>

\* What was read becomes the table's entry, whatever is there or in the file by now.
CacheSet(f) ==
  /\ flow[f].at = "read"
  /\ LET t    == flow[f].table
         text == flow[f].text
         next == IF flow[f].run = 0 THEN Idle
                 ELSE [flow[f] EXCEPT !.at = "dispatching", !.text = {},
                                      !.rows = text \cup {flow[f].run}]
         outdated == {g \in Flows \ {f} : flow[g].table = t /\ flow[g].held}
     IN /\ cached' = cached \cup {t}
        /\ cachedRows' = [cachedRows EXCEPT ![t] = text]
        /\ lastWritten' = [lastWritten EXCEPT ![t] = text]
        /\ flow' = [g \in Flows |-> IF g = f THEN next
                                    ELSE IF g \in outdated THEN [flow[g] EXCEPT !.held = FALSE]
                                    ELSE flow[g]]
        /\ strayed' = IF text # content[t] \/ outdated # {} THEN strayed \cup {t} ELSE strayed
  /\ UNCHANGED <<fileVars, numbering, tableRuns, sessions, returned>>

\* saveTable(): throws if the table left the cache during the dispatch.
Save(f) ==
  /\ flow[f].at = "dispatching"
  /\ LET t == flow[f].table
     IN IF t \in cached
          THEN /\ cachedRows' = [cachedRows EXCEPT ![t] = flow[f].rows]
               /\ Move(f, [flow[f] EXCEPT !.at = "saving", !.text = lastWritten[t], !.held = TRUE])
          ELSE Move(f, Idle) /\ UNCHANGED cachedRows
  /\ UNCHANGED <<fileVars, cached, lastWritten, numbering, tableRuns, sessions, returned, strayed>>

\* The edit reaches the file; its outcome is not looked at.
Edit(f) ==
  /\ flow[f].at = "saving"
  /\ LET t == flow[f].table
     IN content' = IF Found(t, flow[f].text) THEN [content EXCEPT ![t] = flow[f].rows]
                   ELSE content
  /\ Move(f, [flow[f] EXCEPT !.at = "edited", !.text = {}])
  /\ UNCHANGED <<fileOf, cacheEntries, numbering, tableRuns, sessions, returned, strayed>>

\* Mutant: the text last written is not kept.
Remembered_Not(f) == lastWritten

\* What was written is remembered in the entry that was saved.
Remembered(f) ==
  LET t == flow[f].table
  IN  IF t \in cached /\ flow[f].held THEN [lastWritten EXCEPT ![t] = flow[f].rows]
      ELSE lastWritten

Saved(f) ==
  /\ flow[f].at = "edited"
  /\ lastWritten' = Remembered(f)
  /\ returned' = [returned EXCEPT ![flow[f].table] = @ \cup {flow[f].run}]
  /\ Move(f, Idle)
  /\ UNCHANGED <<fileVars, cached, cachedRows, numbering, tableRuns, sessions, strayed>>

\* A tool rejects, before or after it reached the file, and the call with it.
Rejects(f) ==
  /\ flow[f].at \in {"creating", "created", "loading", "dispatching", "saving", "edited"}
  /\ strayed' = IF flow[f].at = "edited" THEN strayed \cup {flow[f].table} ELSE strayed
  /\ Move(f, Idle)
  /\ UNCHANGED <<fileVars, cacheEntries, numbering, tableRuns, sessions, returned>>

\* The session ends, calls in flight with it; the next one starts from files.
NewSession ==
  /\ sessions < MaxSessions
  /\ sessions' = sessions + 1
  /\ cached' = {} /\ sequenceCounter' = 0
  /\ cachedRows' = [t \in Tables |-> {}] /\ lastWritten' = [t \in Tables |-> {}]
  /\ flow' = [f \in Flows |-> Idle]
  /\ UNCHANGED <<fileVars, made, number, tableRuns, returned, strayed>>

-----------------------------------------------------------------------------
SwarmTableInit ==
  /\ fileOf = [t \in Tables |-> "none"] /\ content = [t \in Tables |-> {}]
  /\ made = 0 /\ number = [t \in Tables |-> 0]
  /\ cached = {} /\ cachedRows = content /\ lastWritten = content
  /\ sequenceCounter = 0 /\ tableRuns = 0 /\ sessions = 0
  /\ flow = [f \in Flows |-> Idle]
  /\ returned = content /\ strayed = {}

SwarmTableNext ==
  \/ \E f \in Flows :
       \/ Create(f) \/ EvictNext(f) \/ Overwrite(f) \/ Number(f) \/ WriteNew(f) \/ Created(f)
       \/ \E t \in Tables : RunOn(f, t) \/ ReadRows(f, t)
       \/ ReadText(f) \/ CacheSet(f)
       \/ Save(f) \/ Edit(f) \/ Saved(f) \/ Rejects(f)
  \/ NewSession

SwarmTableSpec == SwarmTableInit /\ [][SwarmTableNext]_swarmTableVars

-----------------------------------------------------------------------------
(* Properties *)

\* Types; and a file is written once, by the call its table was numbered for.
SwarmTableTypeOK ==
  /\ fileOf \in [Tables -> {"none", "unclaimed", "live", "empty"}]
  /\ content \in [Tables -> SUBSET (1..tableRuns)]
  /\ made \in 0..MaxCreates /\ number \in [Tables -> Nat] /\ sequenceCounter \in Nat
  /\ cached \subseteq Handles
  /\ \A f \in Flows : /\ flow[f].at = "creating" => fileOf[flow[f].table] = "none"
                      /\ flow[f].at = "created" => fileOf[flow[f].table] = "unclaimed"

\* What a run returned is in its table's file, for the next session to load.  A
\* save works only through the text last written (table.ts:549), so it is enough
\* that the cache knows the file's text, over every interleaving of creates,
\* evictions, runs, listings that fail, rejected calls and restarts.  Three things
\* break that, and the property is about tables none of them happened to: an
\* eviction picked the table; a load put the cache's entry there again, with an
\* older text than the file's or over an entry being saved; or a save's edit took
\* effect and was then reported as failed.
ReturnedIsSaved ==
  \A t \in Tables \ strayed : returned[t] \subseteq content[t]
=============================================================================
