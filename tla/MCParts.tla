------------------------------- MODULE MCParts -------------------------------
(***************************************************************************)
(* The machines of the system's smaller parts, side by side for TLC: they  *)
(* share no state, so each behaviour runs one of them, which is chosen at  *)
(* the start, while the others stay as they are.                           *)
(***************************************************************************)
EXTENDS SwarmRun, SwarmTable, Companion, CompanionFrames, FilterRail, MatterRail,
        AuthorityTab, RetrievalCache, CircuitBreaker, CorpusIngest, WorkflowRegistry

CONSTANTS k1, k2, k3, m1

\* A row size that makes two groups of rows; documents of two batches and of
\* one; two keys of one matter and one of none.
MCRowSize     == [r \in 1..TableRows |-> 1 + (r % 2)]
MCChunkCount  == <<3, 1>>
MCNamespaceOf == (k1 :> m1) @@ (k2 :> m1) @@ (k3 :> NoMatter)

VARIABLE part

partVars == <<part, swarmRunVars, swarmTableVars, companionVars, companionFramesVars,
              filterRailVars, railVars, tabVars, cacheVars, breakerVars, corpusIngestVars,
              registryVars>>

Parts == {"swarm run", "swarm table", "companion", "companion frames", "filter rail",
          "matter rail", "authority tab", "cache", "breaker", "corpus ingest", "registry"}

PartsInit ==
  /\ part \in Parts
  /\ SwarmRunInit /\ SwarmTableInit /\ CompanionInit /\ CompanionFramesInit /\ FilterRailInit
  /\ RailInit /\ TabInit /\ CacheInit /\ BreakerInit /\ CorpusIngestInit /\ RegistryInit

\* Every other part stays as it is.
Rest(p) ==
  /\ part = p /\ UNCHANGED part
  /\ p # "swarm run"        => UNCHANGED swarmRunVars
  /\ p # "swarm table"      => UNCHANGED swarmTableVars
  /\ p # "companion"        => UNCHANGED companionVars
  /\ p # "companion frames" => UNCHANGED companionFramesVars
  /\ p # "filter rail"      => UNCHANGED filterRailVars
  /\ p # "matter rail"      => UNCHANGED railVars
  /\ p # "authority tab"    => UNCHANGED tabVars
  /\ p # "cache"            => UNCHANGED cacheVars
  /\ p # "breaker"          => UNCHANGED breakerVars
  /\ p # "corpus ingest"    => UNCHANGED corpusIngestVars
  /\ p # "registry"         => UNCHANGED registryVars

PartsNext ==
  \/ Rest("swarm run") /\ SwarmRunNext
  \/ Rest("swarm table") /\ SwarmTableNext
  \/ Rest("companion") /\ CompanionNext
  \/ Rest("companion frames") /\ CompanionFramesNext
  \/ Rest("filter rail") /\ FilterRailNext
  \/ Rest("matter rail") /\ RailNext
  \/ Rest("authority tab") /\ TabNext
  \/ Rest("cache") /\ CacheNext
  \/ Rest("breaker") /\ BreakerNext
  \/ Rest("corpus ingest") /\ CorpusIngestNext
  \/ Rest("registry") /\ RegistryNext

\* Each part's own fairness, while it is the one that runs.
CompanionRuns(A) == part = "companion" /\ A
RailRuns(A)      == part = "matter rail" /\ A
BreakerRuns(A)   == part = "breaker" /\ A

PartsFairness ==
  /\ WF_companionVars(CompanionRuns(Loaded)) /\ WF_companionVars(CompanionRuns(Reconnect))
  /\ WF_companionVars(CompanionRuns(Opens)) /\ WF_companionVars(CompanionRuns(OnClose))
  /\ WF_companionVars(CompanionRuns(Start))
  /\ \A c \in 1..MaxChoices : WF_companionVars(CompanionRuns(Receive(c)))
  /\ \A r \in Requests : /\ WF_railVars(RailRuns(\E ok \in BOOLEAN : Done(r, ok)))
                         /\ WF_railVars(RailRuns(Read(r)))
  /\ WF_railVars(RailRuns(\E r \in Requests : Poll(r)))
  /\ SF_railVars(RailRuns(\E r \in Requests : Arrives(r)))
  /\ \A m \in RailMatters, d \in Docs : WF_railVars(RailRuns(JobSettles(m, d)))
  /\ WF_breakerVars(BreakerRuns(CoolsDown))
  /\ WF_breakerVars(BreakerRuns(\E c \in Callers : before_call(c)))
  /\ \A c \in Callers : WF_breakerVars(BreakerRuns(record_success(c) \/ record_failure(c)))

PartsSpec == PartsInit /\ [][PartsNext]_partVars /\ PartsFairness

-----------------------------------------------------------------------------
\* The type invariant of every part: what each of its variables may hold, and how
\* its bookkeeping variables belong together.
PartsTyped ==
  /\ SwarmRunTypeOK /\ SwarmTableTypeOK /\ CompanionTypeOK /\ CompanionFramesTypeOK
  /\ FilterRailTypeOK /\ RailTypeOK /\ TabTypeOK /\ CacheTypeOK /\ BreakerTypeOK
  /\ CorpusIngestTypeOK /\ RegistryTypeOK
=============================================================================
