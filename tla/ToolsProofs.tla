---------------------------- MODULE ToolsProofs ----------------------------
(***************************************************************************)
(* What the brainstorming companion and the swarm skill's table store      *)
(* guarantee, for every number of choices, screens, outages, frames and    *)
(* tables, every payload length and every number of calls in flight.       *)
(***************************************************************************)
EXTENDS MCParts, BackendProofs, PageProofs, InductionLemmas

(* The inductive invariants.                                               *)

\* A page that is loading or gone has neither connection nor timer; one that is
\* loaded has exactly one of them.
CompanionInv ==
  /\ CompanionTypeOK /\ serverUp \in BOOLEAN /\ choices \in Nat /\ timers \in {0, 1}
  /\ pageState # "loaded" => timers = 0 /\ socket = "none"
  /\ pageState = "loaded" => (timers = 1 <=> socket = "none")

\* What was taken out of the buffer ends where the handled frames end, inside
\* the loop too; once out of it, either the next frame is not there or the
\* handler stopped at it.
Frames == [opcode : Opcodes, payload : Payloads]
FramesInv ==
  /\ frames \in Seq(Frames) /\ Len(frames) <= MaxFrames
  /\ handled \in 0..Len(frames) /\ consumed = endOf[handled]
  /\ received \in Nat /\ consumed <= received /\ received <= endOf[Len(frames)]
  /\ decoding \in BOOLEAN /\ connection \in {"open", "ending", "destroyed"}
  /\ ~decoding /\ handled < Len(frames) => received < endOf[handled + 1] \/ Stopped
  /\ connection = "open" => \A n \in 1..handled : frames[n].opcode \in {"text", "ping", "pong"}

\* A table whose cache has not strayed has its file's text in the cache, as it is
\* or with what an edit under way added to it, and a call at work on it goes on
\* from there; no two are at work on one table, or create one.
Rows     == SUBSET (1..tableRuns)
Dispatch == {"dispatching", "saving", "edited"}
Creation == {"creating", "created"}

TableCalls ==
  [at : {"idle", "evicting", "overwriting", "loading", "read"} \cup Creation \cup Dispatch,
   table : Nat, run : Nat, rows : SUBSET Nat, text : SUBSET Nat, known : BOOLEAN,
   held : BOOLEAN, victims : SUBSET Nat]

CallOK(f) ==
  /\ flow[f].victims \subseteq Files
  /\ flow[f].at = "overwriting" => flow[f].table \in strayed
  /\ flow[f].at = "creating" => flow[f].table \in 1..made /\ fileOf[flow[f].table] = "none"
  /\ flow[f].at = "created" => flow[f].table \in Tables /\ fileOf[flow[f].table] = "unclaimed"
  /\ flow[f].at = "loading" => flow[f].table \in Handles
  /\ flow[f].at = "read" => flow[f].table \in Handles /\ flow[f].text \in Rows
  /\ flow[f].at \in Dispatch => flow[f].table \in Handles /\ Working(f) /\ flow[f].rows \in Rows
  /\ flow[f].held => flow[f].at \in {"saving", "edited"}
  /\ Working(f) => flow[f].at \in {"loading", "read"} \cup Dispatch /\ flow[f].run \in 1..tableRuns

\* What a call at work on a table that has not strayed knows of it.
WorkOK(f) ==
  Working(f) /\ flow[f].table \notin strayed =>
    /\ flow[f].at = "read" => flow[f].text = content[flow[f].table]
    /\ flow[f].at \in Dispatch => /\ flow[f].table \in cached /\ flow[f].run \in flow[f].rows
                                  /\ content[flow[f].table] \subseteq flow[f].rows
    /\ flow[f].at = "saving" => /\ flow[f].held /\ flow[f].text = content[flow[f].table]
                                /\ flow[f].rows \subseteq cachedRows[flow[f].table]
    /\ flow[f].at = "edited" => flow[f].held /\ flow[f].rows = content[flow[f].table]

Apart(f, g) ==
  /\ Working(f) /\ Working(g) => flow[f].table # flow[g].table
  /\ flow[f].at \in Creation /\ flow[g].at \in Creation => flow[f].table # flow[g].table

StoreOK ==
  /\ fileOf \in [Tables -> {"none", "unclaimed", "live", "empty"}]
  /\ content \in [Tables -> Rows] /\ lastWritten \in [Tables -> Rows]
  /\ cachedRows \in [Tables -> Rows] /\ returned \in [Tables -> Rows]
  /\ cached \subseteq Handles /\ strayed \subseteq Tables
  /\ made \in 0..MaxCreates /\ number \in [Tables -> Nat]
  /\ sequenceCounter \in Nat /\ tableRuns \in Nat
  /\ \A t \in Tables : /\ fileOf[t] # "none" => t <= made
                       /\ fileOf[t] \in {"none", "unclaimed"} => content[t] = {}
                       /\ fileOf[t] = "empty" => t \in strayed
                       /\ t \notin strayed => returned[t] \subseteq content[t]
                       /\ t \in cached /\ t \notin strayed => content[t] \subseteq cachedRows[t]

BeingEdited(t) == \E f \in Flows : flow[f].at = "edited" /\ flow[f].table = t
CacheKnows     == \A t \in cached \ strayed : BeingEdited(t) \/ lastWritten[t] = content[t]

TableInv ==
  /\ StoreOK /\ CacheKnows /\ flow \in [Flows -> TableCalls]
  /\ \A f \in Flows : CallOK(f) /\ WorkOK(f)
  /\ \A f, g \in Flows : f # g => Apart(f, g)

\* The units cut up the selected rows but those left out; a unit has its answer
\* once it is taken and no worker awaits it; what was answered is in some unit's
\* result; and this call's mark is in no row before the end.
Awaited(u) == \E w \in Workers : holding[w] = u
Results    == {<<>>} \cup {<<got>> : got \in SUBSET (1..TableRows)}

Batched    == UNION {Members(units[u]) : u \in 1..Len(units)}
Replied    == UNION {unitResults[u][1] : u \in {v \in 1..Len(units) : unitResults[v] # <<>>}}

UnitsOK ==
  /\ matched \in Seq(1..TableRows) /\ IsOneToOne(matched)
  /\ unfilled \subseteq Members(matched)
  /\ units \in Seq(Seq(1..TableRows))
  /\ Members(matched) \ unfilled = Batched
  /\ \A u, v \in 1..Len(units) : u # v => Members(units[u]) \cap Members(units[v]) = {}
  /\ limit \in Workers /\ automatic \in BOOLEAN
  /\ automatic /\ Len(matched) <= limit * MaxBatchSize => Len(units) <= limit

AnswersOK ==
  /\ idx \in 1..Len(units) + 1 /\ holding \in [Workers -> 0..Len(units)]
  /\ \A w \in Workers : holding[w] < idx
  /\ \A v, w \in Workers : v # w /\ holding[v] # 0 => holding[v] # holding[w]
  /\ unitResults \in [1..Len(units) -> Results]
  /\ \A u \in 1..Len(units) :
       IF u >= idx \/ Awaited(u) THEN unitResults[u] = <<>>
       ELSE unitResults[u] # <<>> /\ unitResults[u][1] \subseteq Members(units[u])
  /\ answered = Replied

SwarmRunInv ==
  /\ UnitsOK /\ AnswersOK
  /\ callNo \in 0..MaxCalls /\ column \in [1..TableRows -> 0..callNo]
  /\ callPhase \in {"idle", "dispatching", "returned", "threw"}
  /\ callPhase = "dispatching" => \A r \in 1..TableRows : column[r] < callNo
  /\ RunAccountsForEveryRow

-----------------------------------------------------------------------------
(* The companion.                                                          *)

LEMMA CompanionStarts ==
  CompanionInit => CompanionInv
BY CompanionAssumption DEF CompanionInit, CompanionInv, CompanionTypeOK

\* A step of the page: what becomes of its connection, its timer and its choices.
LEMMA PageKeeps ==
  ASSUME CompanionInv, Loaded \/ Reconnect \/ Opens \/ OnClose \/ Drops \/ Click
  PROVE  CompanionInv'
<1> USE CompanionAssumption
<1>1. CASE Loaded
  BY <1>1 DEF Loaded, CompanionInv, CompanionTypeOK, serverVars
<1>2. CASE Reconnect
  BY <1>2 DEF Reconnect, CompanionInv, CompanionTypeOK, serverVars
<1>3. CASE Opens
  <2>1. wire' = wire \cup eventQueue /\ eventQueue' = {}
    BY <1>3 DEF Opens, Reloads
  <2>2. UNCHANGED <<serverVars, events, choices, arrived>>
    BY <1>3 DEF Opens
  <2>3. CASE tombstone
    BY <1>3, <2>1, <2>2, <2>3 DEF Opens, Reloads, CompanionInv, CompanionTypeOK, serverVars
  <2>4. CASE ~tombstone
    BY <1>3, <2>1, <2>2, <2>4 DEF Opens, CompanionInv, CompanionTypeOK, serverVars
  <2> QED BY <2>3, <2>4
<1>4. CASE OnClose
  BY <1>4 DEF OnClose, Rescheduled, CompanionInv, CompanionTypeOK, serverVars
<1>5. CASE Click
  <2>1. /\ choices' = choices + 1
        /\ UNCHANGED <<serverVars, events, arrived, pageState, socket, conn, timers>>
    BY <1>5 DEF Click
  <2>2. /\ wire' \subseteq wire \cup {choices'} /\ eventQueue' \subseteq eventQueue \cup {choices'}
        /\ wire' = wire \/ eventQueue' = eventQueue
    BY <1>5 DEF Click
  <2> QED BY <2>1, <2>2 DEF CompanionInv, CompanionTypeOK, serverVars
<1>6. CASE Drops
  BY <1>6 DEF Drops, Connected, Rescheduled, CompanionInv, CompanionTypeOK, serverVars
<1> QED BY <1>1, <1>2, <1>3, <1>4, <1>5, <1>6

LEMMA ServerKeeps ==
  ASSUME CompanionInv,
         \/ WriteScreen \/ Notice \/ NoticeUpdate \/ Start
         \/ \E clean \in BOOLEAN : Stop(clean)
         \/ \E c \in wire : Receive(c)
  PROVE  CompanionInv'
<1> USE CompanionAssumption
<1>1. CASE WriteScreen
  BY <1>1 DEF WriteScreen, CompanionInv, CompanionTypeOK, pageVars
<1>2. CASE Notice
  <2>1. /\ noticed' = screens /\ events' = {}
        /\ UNCHANGED <<serverUp, stops, serverInfo, serverStopped, screens, wire, choices, arrived>>
    BY <1>2 DEF Notice
  <2>2. CASE Reloads
    BY <2>1, <2>2 DEF Reloads, CompanionInv, CompanionTypeOK
  <2>3. CASE UNCHANGED pageVars
    BY <2>1, <2>3 DEF pageVars, CompanionInv, CompanionTypeOK
  <2> QED BY <1>2, <2>2, <2>3 DEF Notice
<1>3. CASE Start
  BY <1>3 DEF Start, CompanionInv, CompanionTypeOK, pageVars
<1>4. ASSUME NEW clean \in BOOLEAN, Stop(clean)
      PROVE  CompanionInv'
  <2>1. /\ stops < MaxStops /\ stops' = stops + 1 /\ serverUp' = FALSE /\ wire' = {}
        /\ UNCHANGED <<screens, noticed, events, pageVars, choices, arrived>>
    BY <1>4 DEF Stop
  <2>2. serverUp' \in BOOLEAN /\ ~serverUp'
    BY <2>1
  <2>3. stops' \in 0..MaxStops /\ conn' \in 0..stops'
    BY <2>1 DEF CompanionInv, CompanionTypeOK, pageVars
  <2> QED BY <2>1, <2>2, <2>3 DEF CompanionInv, CompanionTypeOK, pageVars
<1>5. ASSUME NEW c \in wire, Receive(c)
      PROVE  CompanionInv'
  BY <1>5 DEF Receive, CompanionInv, CompanionTypeOK, serverVars, pageVars
<1>6. CASE NoticeUpdate
  BY <1>6 DEF NoticeUpdate, Reloads, CompanionInv, CompanionTypeOK, serverVars
<1> QED BY <1>1, <1>2, <1>3, <1>4, <1>5, <1>6

LEMMA CompanionKeeps ==
  CompanionInv /\ [CompanionNext]_companionVars => CompanionInv'
<1> SUFFICES ASSUME CompanionInv, [CompanionNext]_companionVars
             PROVE  CompanionInv'
  OBVIOUS
<1>1. CASE UNCHANGED companionVars
  BY <1>1 DEF companionVars, serverVars, pageVars, CompanionInv, CompanionTypeOK
<1> QED BY <1>1, PageKeeps, ServerKeeps DEF CompanionNext

\* A choice is kept for the server, on its way to it, or with it: never twice.
THEOREM CompanionTypeCorrect == CompanionSpec => []CompanionTypeOK
<1>1. CompanionInv => CompanionTypeOK
  BY DEF CompanionInv
<1> QED BY <1>1, CompanionStarts, CompanionKeeps, PTL DEF CompanionSpec

\* Through every outage, lost connection, reload and restart the page never has two
\* of a connection and a timer that makes one.
THEOREM OneReconnectHolds == CompanionSpec => []OneReconnect
<1>1. CompanionInv => OneReconnect
  BY DEF CompanionInv, CompanionTypeOK, OneReconnect
<1> QED BY <1>1, CompanionStarts, CompanionKeeps, PTL DEF CompanionSpec

-----------------------------------------------------------------------------
(* The frames.                                                             *)

\* Where frames end: the first at its length, each after the one before it.
LEMMA EndsFacts ==
  ASSUME NEW fs \in Seq(Frames)
  PROVE  /\ Len(fs) \in Nat /\ Ends(fs)[0] = 0
         /\ \A n \in 1..Len(fs) : Ends(fs)[n] = Ends(fs)[n - 1] + wireLength(fs[n])
         /\ \A n \in 0..Len(fs) : Ends(fs)[n] \in Int
         /\ \A n \in 1..Len(fs) : wireLength(fs[n]) \in Nat \ {0}
<1> DEFINE N == Len(fs)
           g == [n \in 1..N |-> wireLength(fs[n])]
           f == CHOOSE h : h = [n \in 0..N |-> IF n = 0 THEN 0 ELSE h[n - 1] + g[n]]
<1>1. N \in Nat /\ \A n \in 1..N : fs[n] \in Frames
  BY LenProperties, ElementOfSeq
<1>2. \A n \in 1..N : wireLength(fs[n]) \in Nat \ {0}
  <2>1. \A n \in 1..N : fs[n].payload \in Nat
    BY <1>1, CompanionFramesAssumption DEF Frames
  <2> QED BY <2>1 DEF wireLength, headerLength
<1>3. \A n \in 1..N : g[n] = wireLength(fs[n]) /\ g[n] \in Int
  BY <1>2
<1>4. Ends(fs) = f
  BY DEF Ends
<1> HIDE DEF g
<1>5. AddsUp(f, g, N)
  <2> HIDE DEF N
  <2>1. N \in Nat /\ \A n \in 1..N : g[n] \in Int
    BY <1>1, <1>3
  <2> QED BY <2>1, SumDefined
<1> HIDE DEF f
<1> QED BY <1>1, <1>2, <1>3, <1>4, <1>5 DEF AddsUp

\* A frame ends after every frame before it.
LEMMA EndsGrow ==
  ASSUME NEW fs \in Seq(Frames), NEW m \in 0..Len(fs), NEW n \in 0..Len(fs), m < n
  PROVE  Ends(fs)[m] < Ends(fs)[n]
<1> DEFINE e == Ends(fs)
           T == {d \in 0..Len(fs) - m - 1 : e[m] < e[m + 1 + d]}
<1>1. /\ Len(fs) \in Nat /\ \A i \in 0..Len(fs) : e[i] \in Int
      /\ \A i \in 1..Len(fs) : e[i] > e[i - 1]
  BY EndsFacts
<1> HIDE DEF e
<1>2. 0 \in T
  BY <1>1
<1>3. ASSUME NEW d \in 0..Len(fs) - m - 2, d \in T
      PROVE  d + 1 \in T
  <2>1. m + 2 + d \in 1..Len(fs) /\ (m + 2 + d) - 1 = m + 1 + d
    BY <1>1
  <2>2. e[m + 2 + d] > e[m + 1 + d]
    BY <1>1, <2>1
  <2>3. m + 1 + (d + 1) = m + 2 + d
    BY <1>1
  <2> QED BY <1>1, <1>3, <2>1, <2>2, <2>3
<1>4. 0..Len(fs) - m - 1 \subseteq T
  <2> DEFINE N == Len(fs) - m - 1
  <2>1. N \in Nat /\ \A d \in 0..N - 1 : d \in T => d + 1 \in T
    BY <1>1, <1>3
  <2>2. 0..N \subseteq T
    <3> HIDE DEF N, T
    <3> QED BY <1>2, <2>1, UpToN
  <2> QED BY <2>2
<1>5. n - m - 1 \in 0..Len(fs) - m - 1 /\ m + 1 + (n - m - 1) = n
  BY <1>1
<1>6. n - m - 1 \in T
  <2> HIDE DEF T
  <2> QED BY <1>4, <1>5
<1> QED BY <1>5, <1>6 DEF e

\* One more frame is sent: the others end where they did.
LEMMA EndsAppend ==
  ASSUME NEW fs \in Seq(Frames), NEW f \in Frames, NEW i \in 0..Len(fs)
  PROVE  Ends(Append(fs, f))[i] = Ends(fs)[i]
<1> DEFINE more == Append(fs, f)
           N == Len(fs)
           T == {n \in 0..N : Ends(more)[n] = Ends(fs)[n]}
<1>1. /\ more \in Seq(Frames) /\ N \in Nat /\ Len(more) = N + 1
      /\ \A n \in 1..N : more[n] = fs[n]
  BY AppendProperties, LenProperties
<1>2. /\ Ends(more)[0] = 0 /\ Ends(fs)[0] = 0
      /\ \A n \in 1..N : Ends(fs)[n] = Ends(fs)[n - 1] + wireLength(fs[n])
      /\ \A n \in 1..N : Ends(more)[n] = Ends(more)[n - 1] + wireLength(more[n])
  <2> HIDE DEF more
  <2>1. 1..N \subseteq 1..Len(more)
    BY <1>1
  <2> QED BY <1>1, <2>1, EndsFacts
<1> HIDE DEF more
<1>3. 0 \in T
  BY <1>1, <1>2
<1>4. ASSUME NEW n \in 0..N - 1, n \in T
      PROVE  n + 1 \in T
  <2>1. n + 1 \in 1..N /\ (n + 1) - 1 = n
    BY <1>1
  <2>2. Ends(more)[n + 1] = Ends(more)[n] + wireLength(fs[n + 1])
        /\ Ends(fs)[n + 1] = Ends(fs)[n] + wireLength(fs[n + 1])
    BY <1>1, <1>2, <2>1
  <2> QED BY <1>4, <2>1, <2>2
<1>5. 0..N \subseteq T
  <2> HIDE DEF N, T
  <2> QED BY <1>1, <1>3, <1>4, UpToN
<1> QED BY <1>5 DEF more

\* A frame is sent: it ends after all that has arrived.
LEMMA SendKeeps ==
  ASSUME FramesInv, NEW f \in Frames, SendFrame(f)
  PROVE  FramesInv'
<1>1. /\ frames' = Append(frames, f) /\ Len(frames) < MaxFrames
      /\ UNCHANGED <<received, consumed, handled, pongs, decoding, connection>>
  BY DEF SendFrame
<1>2. /\ frames' \in Seq(Frames) /\ Len(frames) \in Nat /\ Len(frames') = Len(frames) + 1
      /\ \A n \in 1..Len(frames) : frames'[n] = frames[n]
  BY <1>1, AppendProperties, LenProperties DEF FramesInv
<1>3. /\ \A n \in 0..Len(frames) : endOf'[n] = endOf[n] /\ endOf[n] \in Int
      /\ endOf'[Len(frames) + 1] \in Int /\ endOf'[Len(frames) + 1] > endOf[Len(frames)]
  <2>1. \A n \in 0..Len(frames) : endOf'[n] = endOf[n]
    BY <1>1, EndsAppend DEF endOf, FramesInv
  <2>2. \A n \in 0..Len(frames') : endOf'[n] \in Int
    BY <1>2, EndsFacts DEF endOf
  <2>3. endOf'[Len(frames)] < endOf'[Len(frames) + 1]
    BY <1>2, EndsGrow DEF endOf
  <2>4. Len(frames) \in 0..Len(frames) /\ Len(frames) + 1 \in 0..Len(frames')
        /\ 0..Len(frames) \subseteq 0..Len(frames')
    BY <1>2
  <2> HIDE DEF endOf
  <2> QED BY <2>1, <2>2, <2>3, <2>4
<1>4. Len(frames') \in 0..MaxFrames /\ handled' \in 0..Len(frames')
  BY <1>1, <1>2, CompanionFramesAssumption DEF FramesInv
<1>5. consumed' = endOf'[handled'] /\ received' <= endOf'[Len(frames')]
  BY <1>1, <1>2, <1>3 DEF FramesInv
<1>6. ~decoding' /\ handled' < Len(frames') => received' < endOf'[handled' + 1] \/ Stopped'
  <2>1. CASE handled < Len(frames)
    <3>1. /\ handled \in Nat /\ handled + 1 \in 1..Len(frames)
          /\ handled > 0 => handled \in 1..Len(frames)
      BY <1>2, <2>1 DEF FramesInv
    <3>2. Stopped => Stopped'
      <4>1. /\ handled' = handled /\ handled < Len(frames')
            /\ frames'[handled + 1] = frames[handled + 1]
            /\ handled > 0 => frames'[handled] = frames[handled]
        BY <1>1, <1>2, <2>1, <3>1
      <4> QED BY <2>1, <4>1 DEF Stopped
    <3> QED BY <1>1, <1>2, <1>3, <2>1, <3>1, <3>2 DEF FramesInv
  <2>2. CASE handled = Len(frames)
    BY <1>1, <1>2, <1>3, <2>2 DEF FramesInv
  <2> QED BY <2>1, <2>2 DEF FramesInv
<1>7. connection' = "open" => \A n \in 1..handled' : frames'[n].opcode \in {"text", "ping", "pong"}
  BY <1>1, <1>2 DEF FramesInv
<1> QED BY <1>1, <1>2, <1>4, <1>5, <1>6, <1>7 DEF FramesInv

LEMMA ChunkKeeps ==
  ASSUME FramesInv, NEW upTo \in Cuts, Chunk(upTo)
  PROVE  FramesInv'
<1>1. /\ received < upTo /\ upTo <= endOf[Len(frames)] /\ received' = upTo /\ decoding' = TRUE
      /\ UNCHANGED <<frames, consumed, handled, pongs, connection>>
  BY DEF Chunk
<1>2. endOf' = endOf /\ Len(frames) \in Nat /\ \A n \in 0..Len(frames) : endOf[n] \in Int
  BY <1>1, EndsFacts DEF endOf, FramesInv
<1>3. upTo \in Int
  <2>1. PICK n \in 1..Len(frames) :
          \/ \E c \in {1, 2, 3, 4, 9, 10, 13, 14} : upTo = endOf[n - 1] + c
          \/ upTo = endOf[n] - 1 \/ upTo = endOf[n]
    BY DEF Cuts
  <2>2. n \in 0..Len(frames) /\ n - 1 \in 0..Len(frames)
    BY <1>2
  <2> QED BY <1>2, <2>1, <2>2
<1> QED BY <1>1, <1>2, <1>3 DEF FramesInv

\* A turn of the loop: the frame at the start of the buffer is handled if all of
\* it is there.
LEMMA DecodeKeeps ==
  ASSUME FramesInv, DecodeNext
  PROVE  FramesInv'
<1> DEFINE f == frames[handled + 1]
           result == decodeFrame(f, received - consumed)
<1>1. /\ Len(frames) \in Nat /\ \A n \in 0..Len(frames) : endOf[n] \in Int
      /\ \A n \in 1..Len(frames) : endOf[n] = endOf[n - 1] + wireLength(frames[n])
      /\ \A n \in 1..Len(frames) : wireLength(frames[n]) \in Nat \ {0} /\ frames[n] \in Frames
  BY EndsFacts, ElementOfSeq DEF endOf, FramesInv
<1>2. decoding /\ UNCHANGED <<frames, received>> /\ endOf' = endOf
  BY DEF DecodeNext, endOf
<1>3. /\ handled \in 0..Len(frames) /\ received \in Nat /\ consumed <= received
      /\ consumed = endOf[handled] /\ consumed \in Int /\ received <= endOf[Len(frames)]
      /\ connection \in {"open", "ending", "destroyed"}
      /\ connection = "open" => \A n \in 1..handled : frames[n].opcode \in {"text", "ping", "pong"}
  BY <1>1 DEF FramesInv
<1>4. CASE received <= consumed
  <2>1. ~decoding' /\ decoding' \in BOOLEAN /\ UNCHANGED <<consumed, handled, pongs, connection>>
    BY <1>4 DEF DecodeNext
  <2>2. handled < Len(frames) => received < endOf[handled + 1]
    <3>1. handled < Len(frames) => handled + 1 \in 1..Len(frames) /\ (handled + 1) - 1 = handled
      BY <1>1, <1>3
    <3> QED BY <1>1, <1>3, <1>4, <3>1
  <2> QED BY <1>2, <2>1, <2>2 DEF FramesInv
<1>5. CASE received > consumed
  <2>1. /\ ~(received <= consumed) /\ handled < Len(frames)
        /\ handled + 1 \in 1..Len(frames) /\ (handled + 1) - 1 = handled
    BY <1>1, <1>3, <1>5
  <2>2. /\ f \in Frames /\ wireLength(f) \in Nat \ {0}
        /\ endOf[handled + 1] = consumed + wireLength(f) /\ endOf[handled + 1] \in Int
    BY <1>1, <1>3, <2>1
  <2>3. f.payload \in Nat /\ headerLength(f.payload) \in Nat /\ headerLength(f.payload) <= wireLength(f)
    <3>1. f.payload \in Nat
      BY <2>2, CompanionFramesAssumption DEF Frames
    <3> HIDE DEF f
    <3> QED BY <3>1 DEF headerLength, wireLength
  <2>4. /\ result = "frame" => received - consumed >= wireLength(f)
        /\ result = "more" => received - consumed < wireLength(f)
        /\ result = "too long" => f.payload > MaxFramePayloadBytes
    <3> HIDE DEF f
    <3> QED BY <1>3, <2>2, <2>3 DEF decodeFrame
  <2>5. \/ /\ result = "frame" /\ Handle(f)
           /\ handled' = handled + 1 /\ consumed' = consumed + wireLength(f)
        \/ /\ result = "too long" /\ Write("ending")
           /\ decoding' = FALSE /\ UNCHANGED <<consumed, handled, pongs>>
        \/ /\ result = "more"
           /\ decoding' = FALSE /\ UNCHANGED <<consumed, handled, pongs, connection>>
    BY <2>1, Zenon DEF DecodeNext
  <2> HIDE DEF result
  <2>6. CASE result = "frame" /\ Handle(f) /\ handled' = handled + 1 /\ consumed' = consumed + wireLength(f)
    <3>1. /\ handled' = handled + 1 /\ consumed' = endOf[handled'] /\ consumed' <= received
          /\ handled' \in 0..Len(frames)
      <4>1. handled' = handled + 1 /\ consumed' = consumed + wireLength(f)
            /\ received - consumed >= wireLength(f)
        BY <2>4, <2>6
      <4> HIDE DEF f
      <4> QED BY <1>1, <1>3, <2>1, <2>2, <4>1
    <3>2. /\ decoding' \in BOOLEAN /\ connection' \in {"open", "ending", "destroyed"}
          /\ ~decoding' => f.opcode \in {"close", "other"}
          /\ connection' = "open" => connection = "open" /\ f.opcode \in {"text", "ping", "pong"}
      <4>1. CASE f.opcode \in {"text", "pong"} /\ UNCHANGED <<pongs, decoding, connection>>
        BY <1>2, <1>3, <4>1
      <4>2. CASE f.opcode = "ping" /\ Write("open") /\ UNCHANGED decoding
        BY <1>2, <1>3, <4>2 DEF Write
      <4>3. CASE f.opcode \in {"close", "other"} /\ Write("ending") /\ decoding' = FALSE
        BY <1>3, <4>3 DEF Write
      <4> HIDE DEF f
      <4> QED BY <2>6, <4>1, <4>2, <4>3 DEF Handle
    <3>3. ~decoding' => Stopped'
      BY <1>2, <1>3, <3>1, <3>2 DEF Stopped
    <3>4. ASSUME connection' = "open", NEW n \in 1..handled'
          PROVE  frames[n].opcode \in {"text", "ping", "pong"}
      <4>1. n = handled + 1 \/ n \in 1..handled
        BY <1>3, <3>1
      <4> QED BY <1>3, <3>2, <3>4, <4>1
    <3> QED BY <1>2, <1>3, <3>1, <3>2, <3>3, <3>4 DEF FramesInv
  <2>7. CASE /\ result = "too long" /\ Write("ending")
             /\ decoding' = FALSE /\ UNCHANGED <<consumed, handled, pongs>>
    <3>1. connection' \in {"open", "ending", "destroyed"} /\ connection' # "open" /\ Stopped'
      BY <1>2, <2>1, <2>4, <2>7 DEF Write, Stopped
    <3> QED BY <1>2, <1>3, <2>7, <3>1 DEF FramesInv
  <2>8. CASE /\ result = "more"
             /\ decoding' = FALSE /\ UNCHANGED <<consumed, handled, pongs, connection>>
    <3>1. received < endOf[handled + 1]
      BY <1>3, <2>2, <2>4, <2>8
    <3> QED BY <1>2, <1>3, <2>8, <3>1 DEF FramesInv
  <2> QED BY <2>5, <2>6, <2>7, <2>8
<1> QED BY <1>3, <1>4, <1>5

LEMMA FramesStart ==
  CompanionFramesInit => FramesInv
<1> SUFFICES ASSUME CompanionFramesInit
             PROVE  FramesInv
  OBVIOUS
<1>1. frames = <<>> /\ frames \in Seq(Frames) /\ Len(frames) = 0
  BY EmptySeq, LenProperties DEF CompanionFramesInit
<1>2. endOf[0] = 0
  BY <1>1, EndsFacts DEF endOf
<1>3. received = 0 /\ consumed = 0 /\ handled = 0 /\ ~decoding /\ connection = "open"
      /\ decoding \in BOOLEAN
  BY DEF CompanionFramesInit
<1> QED BY <1>1, <1>2, <1>3, CompanionFramesAssumption DEF FramesInv

LEMMA FramesKeep ==
  FramesInv /\ [CompanionFramesNext]_companionFramesVars => FramesInv'
<1> SUFFICES ASSUME FramesInv, [CompanionFramesNext]_companionFramesVars
             PROVE  FramesInv'
  OBVIOUS
<1>1. ASSUME NEW op \in Opcodes, NEW n \in Payloads, SendFrame([opcode |-> op, payload |-> n])
      PROVE  FramesInv'
  <2>1. [opcode |-> op, payload |-> n] \in Frames
    BY DEF Frames
  <2> QED BY <1>1, <2>1, SendKeeps
<1>2. CASE UNCHANGED companionFramesVars
  BY <1>2 DEF companionFramesVars, FramesInv, Stopped, endOf
<1> QED BY <1>1, <1>2, ChunkKeeps, DecodeKeeps DEF CompanionFramesNext

\* The handler is never ahead of the frames, nor of the bytes that are there.
THEOREM FramesTypeCorrect == CompanionFramesSpec => []CompanionFramesTypeOK
<1>1. FramesInv => CompanionFramesTypeOK
  BY DEF FramesInv, CompanionFramesTypeOK
<1> QED BY <1>1, FramesStart, FramesKeep, PTL DEF CompanionFramesSpec

\* However a stream of frames of any lengths is cut into chunks, the handler has
\* handled those that are there as a whole, except where it stopped at a frame
\* that ends the connection or is too long.
THEOREM FramesAreDelivered == CompanionFramesSpec => []FramesDelivered
<1>1. FramesInv => FramesDelivered
  <2> SUFFICES ASSUME FramesInv, ~decoding
               PROVE  /\ consumed = endOf[handled] /\ received >= endOf[handled]
                      /\ Stopped \/ \A n \in 1..Len(frames) : received >= endOf[n] => n <= handled
                      /\ connection = "open" =>
                           \A n \in 1..handled : frames[n].opcode \in {"text", "ping", "pong"}
    BY DEF FramesDelivered
  <2>1. /\ frames \in Seq(Frames) /\ handled \in 0..Len(frames) /\ received \in Nat
        /\ consumed = endOf[handled] /\ consumed <= received
    BY DEF FramesInv
  <2>2. /\ Len(frames) \in Nat /\ \A n \in 0..Len(frames) : endOf[n] \in Int
        /\ \A m, n \in 0..Len(frames) : m < n => endOf[m] < endOf[n]
    BY <2>1, EndsFacts, EndsGrow DEF endOf
  <2>3. received >= endOf[handled]
    BY <2>1, <2>2
  <2>4. ASSUME ~Stopped, NEW n \in 1..Len(frames), received >= endOf[n], n > handled
        PROVE  FALSE
    <3>1. handled + 1 \in 0..Len(frames) /\ n \in 0..Len(frames) /\ (n = handled + 1 \/ handled + 1 < n)
      BY <2>1, <2>2, <2>4
    <3>2. received < endOf[handled + 1]
      BY <2>1, <2>2, <2>4 DEF FramesInv
    <3> QED BY <2>1, <2>2, <2>4, <3>1, <3>2
  <2>5. Stopped \/ \A n \in 1..Len(frames) : received >= endOf[n] => n <= handled
    BY <2>1, <2>2, <2>4
  <2> QED BY <2>1, <2>3, <2>5 DEF FramesInv
<1> QED BY <1>1, FramesStart, FramesKeep, PTL DEF CompanionFramesSpec

-----------------------------------------------------------------------------
(* The table store.                                                        *)

\* One call moves: what it moves to is as it must be, no other works on its
\* table, and what the others rely on is still so.
LEMMA MoveKeeps ==
  ASSUME TableInv, NEW f \in Flows, NEW changes \in TableCalls, Move(f, changes), StoreOK',
         CacheKnows', CallOK(f)', WorkOK(f)',
         \A g \in Flows \ {f} : CallOK(g)' /\ WorkOK(g)' /\ Apart(f, g)'
  PROVE  TableInv'
<1>1. /\ flow' \in [Flows -> TableCalls] /\ flow'[f] = changes
      /\ \A g \in Flows \ {f} : flow'[g] = flow[g]
  BY DEF Move, TableInv
<1>2. ASSUME NEW g \in Flows, NEW h \in Flows, g # h
      PROVE  Apart(g, h)'
  <2>1. CASE g = f \/ h = f
    BY <1>2, <2>1 DEF Apart
  <2>2. CASE g # f /\ h # f
    BY <1>1, <1>2, <2>2 DEF Apart, Working, TableInv
  <2> QED BY <2>1, <2>2
<1> QED BY <1>1, <1>2 DEF TableInv

LEMMA IdleFacts ==
  /\ Idle \in TableCalls /\ Idle.at = "idle" /\ Idle.victims = {} /\ Idle.run = 0
  /\ Idle.held = FALSE
BY DEF Idle, TableCalls

\* A call that stays where it is relies on its victims, on its table's file, on the
\* entry in the cache if its table has not strayed, and on nobody else's edit.
LEMMA OthersKeep ==
  ASSUME TableInv, NEW g \in Flows, flow'[g] = flow[g],
         Files \subseteq Files', Handles \subseteq Handles', strayed \subseteq strayed',
         Rows \subseteq Rows', 1..tableRuns \subseteq 1..tableRuns', 1..made \subseteq 1..made',
         cached \ strayed' \subseteq cached',
         flow[g].at \in Creation => fileOf'[flow[g].table] = fileOf[flow[g].table],
         Working(g) => content'[flow[g].table] = content[flow[g].table],
         flow[g].at = "saving" /\ flow[g].table \notin strayed' =>
           cachedRows'[flow[g].table] = cachedRows[flow[g].table]
  PROVE  CallOK(g)' /\ WorkOK(g)'
<1>1. CallOK(g) /\ WorkOK(g)
  BY DEF TableInv
<1>2. CallOK(g)'
  BY <1>1 DEF CallOK, Working, Creation
<1>3. WorkOK(g)'
  <2>1. Working(g)' /\ flow'[g].table \notin strayed' => Working(g) /\ flow[g].table \notin strayed
    BY DEF Working
  <2>2. flow[g].table \in cached /\ flow[g].table \notin strayed' => flow[g].table \in cached'
    OBVIOUS
  <2> QED BY <1>1, <2>1, <2>2 DEF WorkOK
<1> QED BY <1>2, <1>3

\* What does not look at calls is as it was.
LEMMA StoreStays ==
  ASSUME TableInv, UNCHANGED <<fileOf, content, cached, cachedRows, lastWritten, made, number,
                               sequenceCounter, tableRuns, returned, strayed>>
  PROVE  StoreOK' /\ Files' = Files /\ Handles' = Handles /\ Rows' = Rows
BY DEF TableInv, StoreOK, Files, Handles, Rows

\* A call that neither was nor is editing moves on: the files and the cache know
\* of each other what they knew.
LEMMA KnowsStill ==
  ASSUME TableInv, NEW f \in Flows, NEW changes \in TableCalls, Move(f, changes),
         flow[f].at # "edited", \A t \in cached' \ strayed' :
           t \in cached \ strayed /\ content'[t] = content[t] /\ lastWritten'[t] = lastWritten[t]
  PROVE  CacheKnows'
<1>1. \A g \in Flows : flow[g].at = "edited" => flow'[g] = flow[g]
  BY DEF Move, TableInv
<1>2. ASSUME NEW t \in cached' \ strayed'
      PROVE  BeingEdited(t)' \/ lastWritten'[t] = content'[t]
  <2>1. BeingEdited(t) => BeingEdited(t)'
    BY <1>1 DEF BeingEdited
  <2> QED BY <1>2, <2>1 DEF TableInv, CacheKnows
<1> QED BY <1>2 DEF CacheKnows

\* Only the call moves.
LEMMA OnlyMoves ==
  ASSUME TableInv, NEW f \in Flows, NEW changes \in TableCalls, Move(f, changes),
         UNCHANGED <<fileOf, content, cached, cachedRows, lastWritten, made, number,
                     sequenceCounter, tableRuns, returned, strayed>>,
         flow[f].at # "edited",
         CallOK(f)', WorkOK(f)', \A g \in Flows \ {f} : Apart(f, g)'
  PROVE  TableInv'
<1>1. StoreOK' /\ Files' = Files /\ Handles' = Handles /\ Rows' = Rows
  BY StoreStays
<1>2. CacheKnows'
  BY KnowsStill
<1>3. ASSUME NEW g \in Flows \ {f}
      PROVE  CallOK(g)' /\ WorkOK(g)'
  <2>1. flow'[g] = flow[g]
    BY DEF Move, TableInv
  <2> QED BY <1>1, <2>1, OthersKeep
<1> QED BY <1>1, <1>2, <1>3, MoveKeeps

LEMMA CreateKeeps ==
  ASSUME TableInv, NEW f \in Flows, Create(f)
  PROVE  TableInv'
<1>1. PICK V \in SUBSET Files : Move(f, [Idle EXCEPT !.at = "evicting", !.victims = V])
  BY DEF Create, Listings
<1>2. /\ flow[f].at = "idle"
      /\ UNCHANGED <<fileOf, content, cached, cachedRows, lastWritten, made, number,
                     sequenceCounter, tableRuns, returned, strayed>>
  BY DEF Create, fileVars, cacheEntries, numbering
<1> DEFINE changes == [Idle EXCEPT !.at = "evicting", !.victims = V]
<1>3. V \subseteq Nat
  BY SwarmTableAssumption DEF Files, Tables
<1>4. /\ changes \in TableCalls /\ changes.at = "evicting" /\ changes.victims = V
      /\ changes.run = 0 /\ changes.held = FALSE
  BY <1>3 DEF Idle, TableCalls
<1>5. Move(f, changes)
  BY <1>1
<1> HIDE DEF changes
<1>6. flow'[f] = changes
  BY <1>5 DEF Move, TableInv
<1>7. Files' = Files
  BY <1>2 DEF Files
<1>8. CallOK(f)' /\ WorkOK(f)' /\ \A g \in Flows \ {f} : Apart(f, g)'
  BY <1>4, <1>6, <1>7 DEF CallOK, WorkOK, Apart, Working, Dispatch, Creation
<1> QED BY <1>2, <1>4, <1>5, <1>8, OnlyMoves

LEMMA EvictKeeps ==
  ASSUME TableInv, NEW f \in Flows, EvictNext(f)
  PROVE  TableInv'
<1>1. PICK t \in flow[f].victims :
        /\ Move(f, [flow[f] EXCEPT !.at = "overwriting", !.table = t,
                      !.text = lastWritten[t], !.known = t \in cached])
        /\ cached' = cached \ {t} /\ cachedRows' = [cachedRows EXCEPT ![t] = {}]
        /\ lastWritten' = [lastWritten EXCEPT ![t] = {}] /\ strayed' = strayed \cup {t}
  BY DEF EvictNext
<1>2. /\ flow[f].at = "evicting"
      /\ UNCHANGED <<fileOf, content, made, number, sequenceCounter, tableRuns, returned>>
  BY DEF EvictNext, fileVars, numbering
<1>3. /\ flow[f] \in TableCalls /\ CallOK(f) /\ t \in Tables /\ Tables \subseteq Nat
      /\ flow[f].run = 0 /\ flow[f].held = FALSE /\ flow[f].victims \subseteq Files
  <2>1. flow[f] \in TableCalls /\ CallOK(f)
    BY DEF TableInv
  <2>2. flow[f].run = 0 /\ flow[f].held = FALSE /\ flow[f].victims \subseteq Files
    BY <1>2, <2>1 DEF CallOK, Working, Dispatch, TableCalls
  <2> QED BY <1>1, <2>1, <2>2, SwarmTableAssumption DEF Files, Tables
<1>4. lastWritten[t] \subseteq Nat
  <2>1. lastWritten[t] \in Rows
    BY <1>3 DEF TableInv, StoreOK
  <2> QED BY <2>1 DEF Rows
<1> DEFINE known == t \in cached
           changes == [flow[f] EXCEPT !.at = "overwriting", !.table = t,
                         !.text = lastWritten[t], !.known = known]
<1>5. /\ changes \in TableCalls /\ changes.at = "overwriting" /\ changes.table = t
      /\ changes.victims = flow[f].victims /\ changes.run = 0 /\ changes.held = FALSE
  <2>1. known \in BOOLEAN
    OBVIOUS
  <2> HIDE DEF known
  <2> QED BY <1>3, <1>4, <2>1 DEF TableCalls
<1>6. Move(f, changes)
  BY <1>1
<1> HIDE DEF changes
<1>7. flow'[f] = changes /\ \A g \in Flows \ {f} : flow'[g] = flow[g]
  BY <1>6 DEF Move, TableInv
<1>8. Files' = Files /\ Handles' = Handles /\ Rows' = Rows
  BY <1>2 DEF Files, Handles, Rows
<1>9. /\ cachedRows' \in [Tables -> Rows] /\ lastWritten' \in [Tables -> Rows]
      /\ \A u \in Tables \ {t} : cachedRows'[u] = cachedRows[u] /\ lastWritten'[u] = lastWritten[u]
  <2>1. {} \in Rows
    BY DEF Rows
  <2> QED BY <1>1, <1>3, <2>1 DEF TableInv, StoreOK
<1>10. StoreOK'
  BY <1>1, <1>2, <1>3, <1>8, <1>9 DEF TableInv, StoreOK
<1>11. CacheKnows'
  <2>1. \A u \in cached' \ strayed' : u \in cached \ strayed /\ u \in Tables /\ u # t
    BY <1>1 DEF TableInv, StoreOK, Handles
  <2> QED BY <1>2, <1>5, <1>6, <1>9, <2>1, KnowsStill
<1>12. CallOK(f)' /\ WorkOK(f)' /\ \A g \in Flows \ {f} : Apart(f, g)'
  BY <1>1, <1>3, <1>5, <1>7, <1>8 DEF CallOK, WorkOK, Apart, Working, Dispatch, Creation
<1>13. ASSUME NEW g \in Flows \ {f}
       PROVE  CallOK(g)' /\ WorkOK(g)'
  <2>1. flow[g].at = "saving" => flow[g].table \in Tables
    BY DEF TableInv, CallOK, Dispatch, Handles
  <2>2. flow[g].at = "saving" /\ flow[g].table \notin strayed' =>
          cachedRows'[flow[g].table] = cachedRows[flow[g].table]
    BY <1>1, <1>9, <2>1
  <2> QED BY <1>1, <1>2, <1>7, <1>8, <2>2, OthersKeep
<1> QED BY <1>5, <1>6, <1>10, <1>11, <1>12, <1>13, MoveKeeps

LEMMA OverwriteKeeps ==
  ASSUME TableInv, NEW f \in Flows, Overwrite(f)
  PROVE  TableInv'
<1> DEFINE t == flow[f].table
           changes == [Idle EXCEPT !.at = "evicting", !.victims = flow[f].victims \ {t}]
<1>1. /\ Move(f, changes) /\ flow[f].at = "overwriting"
      /\ fileOf' = fileOf \/ (fileOf[t] = "live" /\ fileOf' = [fileOf EXCEPT ![t] = "empty"])
      /\ UNCHANGED <<content, cached, cachedRows, lastWritten, made, number, sequenceCounter,
                     tableRuns, returned, strayed>>
  BY DEF Overwrite, Found, cacheEntries, numbering
<1>2. /\ flow[f] \in TableCalls /\ flow[f].victims \subseteq Files
      /\ t \in strayed /\ t \in Tables
  BY <1>1 DEF TableInv, CallOK, StoreOK
<1>3. /\ changes \in TableCalls /\ changes.at = "evicting" /\ changes.victims \subseteq flow[f].victims
      /\ changes.run = 0 /\ changes.held = FALSE
  BY <1>2 DEF Idle, TableCalls
<1> HIDE DEF changes, t
<1>4. flow'[f] = changes /\ \A g \in Flows \ {f} : flow'[g] = flow[g]
  BY <1>1 DEF Move, TableInv
<1>5. /\ fileOf' \in [Tables -> {"none", "unclaimed", "live", "empty"}]
      /\ \A u \in Tables : /\ fileOf'[u] = fileOf[u] \/ (fileOf[u] = "live" /\ fileOf'[u] = "empty")
                           /\ fileOf'[u] = "empty" => u \in strayed
  BY <1>1, <1>2 DEF TableInv, StoreOK
<1>6. Files' = Files /\ Handles' = Handles /\ Rows' = Rows
  BY <1>1, <1>5 DEF Files, Handles, Rows
<1>7. StoreOK'
  BY <1>1, <1>5, <1>6 DEF TableInv, StoreOK
<1>8. CallOK(f)' /\ WorkOK(f)' /\ \A g \in Flows \ {f} : Apart(f, g)'
  BY <1>2, <1>3, <1>4, <1>6 DEF CallOK, WorkOK, Apart, Working, Dispatch, Creation
<1>9. ASSUME NEW g \in Flows \ {f}
      PROVE  CallOK(g)' /\ WorkOK(g)'
  <2>1. flow[g].at \in Creation => fileOf'[flow[g].table] = fileOf[flow[g].table]
    <3>1. CallOK(g) /\ 1..made \subseteq Tables
      BY SwarmTableAssumption DEF TableInv, StoreOK, Tables
    <3>2. flow[g].at \in Creation => flow[g].table \in Tables /\ fileOf[flow[g].table] # "live"
      BY <3>1 DEF CallOK, Creation
    <3> QED BY <1>5, <3>2
  <2> QED BY <1>1, <1>4, <1>6, <2>1, OthersKeep
<1>10. CacheKnows'
  BY <1>1, <1>3, KnowsStill
<1> QED BY <1>1, <1>3, <1>7, <1>8, <1>9, <1>10, MoveKeeps

\* A table is numbered: its file is not there yet, nobody else creates it.
LEMMA NumberKeeps ==
  ASSUME TableInv, NEW f \in Flows, Number(f)
  PROVE  TableInv'
<1> DEFINE t == made + 1
           changes == [Idle EXCEPT !.at = "creating", !.table = t]
<1>1. /\ Move(f, changes) /\ flow[f].at = "evicting" /\ made < MaxCreates /\ made' = t
      /\ UNCHANGED <<fileOf, content, cached, cachedRows, lastWritten, tableRuns, returned, strayed>>
  BY DEF Number, fileVars, cacheEntries
<1>2. made \in Nat /\ t \in Tables /\ fileOf[t] = "none" /\ made' \in 0..MaxCreates /\ t \in 1..made'
  <2>1. made \in Nat /\ t \in Tables /\ ~(t <= made) /\ made' \in 0..MaxCreates /\ t \in 1..made'
    BY <1>1, SwarmTableAssumption DEF TableInv, StoreOK, Tables
  <2> QED BY <2>1 DEF TableInv, StoreOK
<1>3. number' \in [Tables -> Nat] /\ sequenceCounter' \in Nat
  <2>1. PICK names \in Listings :
          \E n \in nextSequence(names) : number' = [number EXCEPT ![t] = n] /\ sequenceCounter' = n + 1
    BY DEF Number
  <2>2. PICK n \in nextSequence(names) :
          number' = [number EXCEPT ![t] = n] /\ sequenceCounter' = n + 1
    BY <2>1
  <2>3. n = sequenceCounter \/ \E u \in names : n = number[u] + 1
    BY <2>2 DEF nextSequence
  <2>4. names \subseteq Tables /\ number \in [Tables -> Nat] /\ sequenceCounter \in Nat
    BY DEF TableInv, StoreOK, Listings, Files
  <2>5. n \in Nat
    BY <2>3, <2>4
  <2>6. number' \in [Tables -> Nat]
    <3> HIDE DEF t
    <3> QED BY <2>2, <2>4, <2>5
  <2> QED BY <2>2, <2>5, <2>6
<1>4. /\ changes \in TableCalls /\ changes.at = "creating" /\ changes.table = t
      /\ changes.victims = {} /\ changes.run = 0 /\ changes.held = FALSE
  <2>1. t \in Nat /\ "creating" \in Creation
    BY <1>2 DEF Creation
  <2> HIDE DEF t
  <2> QED BY <2>1 DEF Idle, TableCalls
<1> HIDE DEF changes
<1>5. flow'[f] = changes /\ \A g \in Flows \ {f} : flow'[g] = flow[g]
  BY <1>1 DEF Move, TableInv
<1>6. Files' = Files /\ Handles' = Handles /\ Rows' = Rows /\ 1..made \subseteq 1..made'
  BY <1>1, <1>2 DEF Files, Handles, Rows
<1>7. StoreOK'
  <2>1. \A u \in Tables : u <= made => u <= made'
    BY <1>1, <1>2, SwarmTableAssumption DEF Tables
  <2> QED BY <1>1, <1>2, <1>3, <1>6, <2>1 DEF TableInv, StoreOK
<1>8. CallOK(f)' /\ WorkOK(f)'
  BY <1>1, <1>2, <1>4, <1>5 DEF CallOK, WorkOK, Working, Dispatch
<1>9. ASSUME NEW g \in Flows \ {f}
      PROVE  CallOK(g)' /\ WorkOK(g)' /\ Apart(f, g)'
  <2>1. CallOK(g)' /\ WorkOK(g)'
    BY <1>1, <1>5, <1>6, OthersKeep
  <2>2. flow[g].at \in Creation => flow[g].table # t
    <3>1. CallOK(g)
      BY DEF TableInv
    <3>2. flow[g].at = "creating" => flow[g].table # t
      BY <1>2, <3>1 DEF CallOK
    <3>3. flow[g].at = "created" => flow[g].table # t
      BY <1>2, <3>1 DEF CallOK
    <3> QED BY <3>2, <3>3 DEF Creation
  <2> QED BY <1>4, <1>5, <2>1, <2>2 DEF Apart, Working
<1>10. CacheKnows'
  BY <1>1, <1>4, KnowsStill
<1> QED BY <1>1, <1>4, <1>7, <1>8, <1>9, <1>10, MoveKeeps

LEMMA WriteNewKeeps ==
  ASSUME TableInv, NEW f \in Flows, WriteNew(f)
  PROVE  TableInv'
<1> DEFINE t == flow[f].table
           changes == [flow[f] EXCEPT !.at = "created"]
<1>1. /\ Move(f, changes) /\ flow[f].at = "creating" /\ fileOf' = [fileOf EXCEPT ![t] = "unclaimed"]
      /\ UNCHANGED <<content, cached, cachedRows, lastWritten, made, number, sequenceCounter,
                     tableRuns, returned, strayed>>
  BY DEF WriteNew, cacheEntries, numbering
<1>2. /\ flow[f] \in TableCalls /\ CallOK(f) /\ t \in 1..made /\ t \in Tables /\ t <= made
      /\ fileOf[t] = "none"
  <2>1. flow[f] \in TableCalls /\ CallOK(f) /\ 1..made \subseteq Tables /\ made \in Nat
    BY SwarmTableAssumption DEF TableInv, StoreOK, Tables
  <2> QED BY <1>1, <2>1 DEF CallOK
<1>3. /\ changes \in TableCalls /\ changes.at = "created" /\ changes.table = t
      /\ changes.victims = flow[f].victims /\ changes.run = flow[f].run /\ changes.held = flow[f].held
  BY <1>2 DEF TableCalls, Creation
<1>4. flow[f].run = 0 /\ flow[f].held = FALSE
  BY <1>1, <1>2 DEF CallOK, Working, Dispatch, TableCalls
<1>5. flow[f].victims \subseteq Files
  BY <1>2 DEF CallOK
<1> HIDE DEF changes, t
<1>6. flow'[f] = changes /\ \A g \in Flows \ {f} : flow'[g] = flow[g]
  BY <1>1 DEF Move, TableInv
<1>7. /\ fileOf' \in [Tables -> {"none", "unclaimed", "live", "empty"}] /\ fileOf'[t] = "unclaimed"
      /\ \A u \in Tables \ {t} : fileOf'[u] = fileOf[u]
  BY <1>1, <1>2 DEF TableInv, StoreOK
<1>8. Files \subseteq Files' /\ Handles' = Handles /\ Rows' = Rows
  BY <1>1, <1>2, <1>7 DEF Files, Handles, Rows
<1>9. StoreOK'
  BY <1>1, <1>2, <1>7, <1>8 DEF TableInv, StoreOK
<1>10. CallOK(f)' /\ WorkOK(f)'
  BY <1>2, <1>3, <1>4, <1>5, <1>6, <1>7, <1>8 DEF CallOK, WorkOK, Working, Dispatch
<1>11. ASSUME NEW g \in Flows \ {f}
       PROVE  CallOK(g)' /\ WorkOK(g)' /\ Apart(f, g)'
  <2>1. Apart(f, g) /\ CallOK(g)
    BY DEF TableInv
  <2>2. flow[g].at \in Creation => flow[g].table # t
    BY <1>1, <2>1 DEF Apart, Creation, t
  <2>3. flow[g].at \in Creation => fileOf'[flow[g].table] = fileOf[flow[g].table]
    BY <1>1, <2>2 DEF TableInv, StoreOK
  <2>4. CallOK(g)' /\ WorkOK(g)'
    BY <1>1, <1>6, <1>8, <2>3, OthersKeep
  <2> QED BY <1>3, <1>4, <1>6, <2>2, <2>4 DEF Apart, Working
<1>12. CacheKnows'
  BY <1>1, <1>3, KnowsStill
<1> QED BY <1>1, <1>3, <1>9, <1>10, <1>11, <1>12, MoveKeeps

\* A call ends: there is nothing to keep of it.
LEMMA EndsWell ==
  ASSUME NEW f \in Flows, flow'[f] = Idle
  PROVE  CallOK(f)' /\ WorkOK(f)' /\ \A g \in Flows : Apart(f, g)'
BY IdleFacts DEF CallOK, WorkOK, Apart, Working, Dispatch, Creation

\* The new table: nobody knew it before.
LEMMA CreatedKeeps ==
  ASSUME TableInv, NEW f \in Flows, Created(f)
  PROVE  TableInv'
<1> DEFINE t == flow[f].table
<1>1. /\ Move(f, Idle) /\ flow[f].at = "created"
      /\ fileOf' = [fileOf EXCEPT ![t] = "live"] /\ cached' = cached \cup {t}
      /\ cachedRows' = [cachedRows EXCEPT ![t] = {}]
      /\ lastWritten' = [lastWritten EXCEPT ![t] = {}]
      /\ UNCHANGED <<content, made, number, sequenceCounter, tableRuns, returned, strayed>>
  BY DEF Created, numbering
<1>2. t \in Tables /\ fileOf[t] = "unclaimed" /\ content[t] = {} /\ t \notin Handles /\ t <= made
  <2>1. CallOK(f)
    BY DEF TableInv
  <2>2. t \in Tables /\ fileOf[t] = "unclaimed"
    BY <1>1, <2>1 DEF CallOK
  <2> QED BY <2>2 DEF TableInv, StoreOK, Handles
<1>3. \A g \in Flows \ {f} : flow[g].at \in Creation => flow[g].table # t
  BY <1>1 DEF TableInv, Apart, Creation
<1> HIDE DEF t
<1>4. flow'[f] = Idle /\ \A g \in Flows \ {f} : flow'[g] = flow[g]
  BY <1>1 DEF Move, TableInv
<1>5. /\ fileOf' \in [Tables -> {"none", "unclaimed", "live", "empty"}] /\ fileOf'[t] = "live"
      /\ \A u \in Tables \ {t} : fileOf'[u] = fileOf[u]
  BY <1>1, <1>2 DEF TableInv, StoreOK
<1>6. Files' = Files /\ Handles' = Handles \cup {t} /\ Rows' = Rows
  BY <1>1, <1>2, <1>5 DEF Files, Handles, Rows
<1>7. /\ cachedRows' \in [Tables -> Rows] /\ lastWritten' \in [Tables -> Rows]
      /\ cachedRows'[t] = {} /\ lastWritten'[t] = {}
      /\ \A u \in Tables \ {t} : cachedRows'[u] = cachedRows[u] /\ lastWritten'[u] = lastWritten[u]
  <2>1. {} \in Rows
    BY DEF Rows
  <2> QED BY <1>1, <1>2, <2>1 DEF TableInv, StoreOK
<1>8. StoreOK'
  BY <1>1, <1>2, <1>5, <1>6, <1>7 DEF TableInv, StoreOK
<1>9. CacheKnows'
  <2>1. \A g \in Flows : flow[g].at = "edited" => flow'[g] = flow[g]
    BY <1>1, <1>4
  <2>2. \A u \in Tables : BeingEdited(u) => BeingEdited(u)'
    BY <2>1 DEF BeingEdited
  <2>3. \A u \in cached' \ strayed' : u = t \/ (u \in cached \ strayed /\ u \in Tables \ {t})
    BY <1>1 DEF TableInv, StoreOK, Handles
  <2> QED BY <1>1, <1>2, <1>7, <2>2, <2>3 DEF TableInv, CacheKnows
<1>10. ASSUME NEW g \in Flows \ {f}
       PROVE  CallOK(g)' /\ WorkOK(g)'
  <2>1. flow[g].at \in Creation => fileOf'[flow[g].table] = fileOf[flow[g].table]
    BY <1>1, <1>3 DEF TableInv, StoreOK
  <2>2. flow[g].at = "saving" => cachedRows'[flow[g].table] = cachedRows[flow[g].table]
    <3>1. flow[g].at = "saving" => flow[g].table \in Handles
      BY DEF TableInv, CallOK, Dispatch
    <3> QED BY <1>2, <1>7, <3>1 DEF Handles
  <2> QED BY <1>1, <1>4, <1>6, <2>1, <2>2, OthersKeep
<1> QED BY <1>1, <1>4, <1>8, <1>9, <1>10, EndsWell, IdleFacts, MoveKeeps

LEMMA RunOnKeeps ==
  ASSUME TableInv, NEW f \in Flows, NEW t \in Tables, RunOn(f, t)
  PROVE  TableInv'
<1> DEFINE run == tableRuns + 1
           rows == cachedRows[t] \cup {run}
           known == [Idle EXCEPT !.at = "dispatching", !.table = t, !.run = run, !.rows = rows]
           unknown == [Idle EXCEPT !.at = "loading", !.table = t, !.run = run]
           changes == IF t \in cached THEN known ELSE unknown
<1>1. /\ flow[f].at = "idle" /\ t \in Handles /\ tableRuns' = run
      /\ \A g \in Flows : Working(g) => flow[g].table # t
      /\ UNCHANGED <<fileOf, content, cached, cachedRows, lastWritten, made, number,
                     sequenceCounter, returned, strayed>>
  BY DEF RunOn, fileVars, cacheEntries, numbering
<1>2. Move(f, changes)
  BY DEF RunOn
<1>3. /\ run \in Nat /\ run \in 1..tableRuns' /\ Rows \subseteq Rows' /\ tableRuns' \in Nat
      /\ 1..tableRuns \subseteq 1..tableRuns' /\ cachedRows[t] \in Rows /\ t \in Nat
  <2>1. tableRuns \in Nat /\ cachedRows[t] \in Rows /\ t \in Nat
    BY SwarmTableAssumption DEF TableInv, StoreOK, Tables
  <2>2. 1..tableRuns \subseteq 1..tableRuns'
    BY <1>1, <2>1
  <2> QED BY <1>1, <2>1, <2>2 DEF Rows
<1>4. rows \in Rows' /\ rows \subseteq Nat /\ run \in rows /\ cachedRows[t] \subseteq rows
  BY <1>3 DEF Rows
<1> HIDE DEF run, rows
<1>5. /\ known \in TableCalls /\ known.at = "dispatching" /\ known.table = t /\ known.run = run
      /\ known.rows = rows /\ known.victims = {} /\ known.held = FALSE
  BY <1>3, <1>4 DEF Idle, TableCalls, Dispatch
<1>6. /\ unknown \in TableCalls /\ unknown.at = "loading" /\ unknown.table = t /\ unknown.run = run
      /\ unknown.victims = {} /\ unknown.held = FALSE
  BY <1>3, <1>4 DEF Idle, TableCalls
<1> HIDE DEF known, unknown
<1>7. changes \in TableCalls /\ changes.table = t /\ changes.at \in {"dispatching", "loading"}
  BY <1>5, <1>6
<1>8. flow'[f] = changes /\ \A g \in Flows \ {f} : flow'[g] = flow[g]
  BY <1>2 DEF Move, TableInv
<1>9. Files' = Files /\ Handles' = Handles
  BY <1>1 DEF Files, Handles
<1>10. StoreOK'
  BY <1>1, <1>3, <1>9 DEF TableInv, StoreOK
<1>11. CallOK(f)'
  <2>1. CASE t \in cached
    BY <1>1, <1>3, <1>4, <1>5, <1>8, <1>9, <2>1 DEF CallOK, Working, Dispatch
  <2>2. CASE t \notin cached
    BY <1>1, <1>3, <1>6, <1>8, <1>9, <2>2 DEF CallOK, Working, Dispatch
  <2> QED BY <2>1, <2>2
<1>12. WorkOK(f)'
  <2>1. CASE t \in cached
    <3>1. t \notin strayed => content[t] \subseteq rows
      BY <1>4, <2>1 DEF TableInv, StoreOK
    <3> QED BY <1>1, <1>4, <1>5, <1>8, <2>1, <3>1 DEF WorkOK, Dispatch
  <2>2. CASE t \notin cached
    BY <1>6, <1>8, <2>2 DEF WorkOK, Dispatch
  <2> QED BY <2>1, <2>2
<1>13. ASSUME NEW g \in Flows \ {f}
       PROVE  CallOK(g)' /\ WorkOK(g)' /\ Apart(f, g)'
  <2>1. CallOK(g)' /\ WorkOK(g)'
    <3>1. made' = made
      BY <1>1
    <3> QED BY <1>1, <1>3, <1>8, <1>9, <3>1, OthersKeep
  <2> QED BY <1>1, <1>7, <1>8, <2>1 DEF Apart, Working, Creation
<1>14. CacheKnows'
  BY <1>1, <1>2, <1>7, KnowsStill
<1> QED BY <1>2, <1>7, <1>10, <1>11, <1>12, <1>13, <1>14, MoveKeeps

LEMMA ReadRowsKeeps ==
  ASSUME TableInv, NEW f \in Flows, NEW t \in Tables, ReadRows(f, t)
  PROVE  TableInv'
<1> DEFINE changes == [Idle EXCEPT !.at = "loading", !.table = t]
<1>1. /\ Move(f, changes) /\ flow[f].at = "idle" /\ t \in Handles
      /\ UNCHANGED <<fileOf, content, cached, cachedRows, lastWritten, made, number,
                     sequenceCounter, tableRuns, returned, strayed>>
  BY DEF ReadRows, fileVars, cacheEntries, numbering
<1>2. /\ changes \in TableCalls /\ changes.at = "loading" /\ changes.table = t
      /\ changes.victims = {} /\ changes.run = 0 /\ changes.held = FALSE
  <2>1. t \in Nat
    BY SwarmTableAssumption DEF Tables
  <2> QED BY <2>1 DEF Idle, TableCalls
<1> HIDE DEF changes
<1>3. flow'[f] = changes /\ Handles' = Handles
  BY <1>1 DEF Move, TableInv, Handles
<1>4. CallOK(f)' /\ WorkOK(f)' /\ \A g \in Flows \ {f} : Apart(f, g)'
  BY <1>1, <1>2, <1>3 DEF CallOK, WorkOK, Apart, Working, Dispatch, Creation
<1> QED BY <1>1, <1>2, <1>4, OnlyMoves

LEMMA ReadTextKeeps ==
  ASSUME TableInv, NEW f \in Flows, ReadText(f)
  PROVE  TableInv'
<1> DEFINE t == flow[f].table
           changes == [flow[f] EXCEPT !.at = "read", !.text = content[t]]
<1>1. /\ Move(f, changes) /\ flow[f].at = "loading"
      /\ UNCHANGED <<fileOf, content, cached, cachedRows, lastWritten, made, number,
                     sequenceCounter, tableRuns, returned, strayed>>
  BY DEF ReadText, fileVars, cacheEntries, numbering
<1>2. flow[f] \in TableCalls /\ CallOK(f) /\ t \in Handles /\ flow[f].held = FALSE
  <2>1. flow[f] \in TableCalls /\ CallOK(f)
    BY DEF TableInv
  <2> QED BY <1>1, <2>1 DEF CallOK, TableCalls
<1>3. content[t] \in Rows /\ content[t] \subseteq Nat
  <2>1. content[t] \in Rows
    BY <1>2 DEF TableInv, StoreOK, Handles
  <2> QED BY <2>1 DEF Rows
<1>4. /\ changes \in TableCalls /\ changes.at = "read" /\ changes.table = t
      /\ changes.text = content[t] /\ changes.run = flow[f].run
      /\ changes.victims = flow[f].victims /\ changes.held = flow[f].held
  BY <1>2, <1>3 DEF TableCalls
<1> HIDE DEF changes
<1>5. flow'[f] = changes /\ \A g \in Flows \ {f} : flow'[g] = flow[g]
  BY <1>1 DEF Move, TableInv
<1>6. Files' = Files /\ Handles' = Handles /\ Rows' = Rows
  BY <1>1 DEF Files, Handles, Rows
<1>7. CallOK(f)'
  BY <1>1, <1>2, <1>3, <1>4, <1>5, <1>6 DEF CallOK, Working, Dispatch
<1>8. WorkOK(f)'
  BY <1>1, <1>4, <1>5 DEF WorkOK, Working, Dispatch
<1>9. \A g \in Flows \ {f} : Apart(f, g)'
  BY <1>1, <1>4, <1>5 DEF TableInv, Apart, Working, Creation
<1> QED BY <1>1, <1>4, <1>7, <1>8, <1>9, OnlyMoves

\* What was read becomes the table's entry.  It is the file's text, and nobody is
\* saving the entry it replaces, or the table has strayed.
LEMMA CacheSetKeeps ==
  ASSUME TableInv, NEW f \in Flows, CacheSet(f)
  PROVE  TableInv'
<1> DEFINE t == flow[f].table
           text == flow[f].text
           next == IF flow[f].run = 0 THEN Idle
                   ELSE [flow[f] EXCEPT !.at = "dispatching", !.text = {},
                                        !.rows = text \cup {flow[f].run}]
           outdated == {g \in Flows \ {f} : flow[g].table = t /\ flow[g].held}
<1>1. /\ flow[f].at = "read"
      /\ cached' = cached \cup {t}
      /\ cachedRows' = [cachedRows EXCEPT ![t] = text]
      /\ lastWritten' = [lastWritten EXCEPT ![t] = text]
      /\ flow' = [g \in Flows |-> IF g = f THEN next
                                  ELSE IF g \in outdated THEN [flow[g] EXCEPT !.held = FALSE]
                                  ELSE flow[g]]
      /\ strayed' = IF text # content[t] \/ outdated # {} THEN strayed \cup {t} ELSE strayed
      /\ UNCHANGED <<fileOf, content, made, number, sequenceCounter, tableRuns, returned>>
  BY DEF CacheSet, fileVars, numbering
<1>2. /\ flow[f] \in TableCalls /\ CallOK(f) /\ WorkOK(f) /\ t \in Handles /\ text \in Rows
      /\ t \in Tables /\ flow[f].held = FALSE /\ flow[f].victims \subseteq Files
  <2>1. flow[f] \in TableCalls /\ CallOK(f) /\ WorkOK(f)
    BY DEF TableInv
  <2> QED BY <1>1, <2>1 DEF CallOK, TableCalls, Handles
<1>3. Working(f) => flow[f].run \in 1..tableRuns /\ flow[f].run \in Nat
  BY <1>2 DEF CallOK, TableCalls
<1>4. /\ next \in TableCalls /\ next.held = FALSE /\ next.victims \subseteq Files
      /\ next.at \in {"idle", "dispatching"}
      /\ next.run # 0 => /\ Working(f) /\ next.run = flow[f].run /\ next.table = t
                         /\ next.at = "dispatching" /\ next.rows = text \cup {flow[f].run}
      /\ next.run = 0 => next.at = "idle"
  <2>1. CASE flow[f].run = 0
    BY <2>1, IdleFacts
  <2>2. CASE flow[f].run # 0
    <3>1. text \subseteq Nat /\ flow[f].run \in Nat
      BY <1>2, <1>3, <2>2 DEF Rows, Working
    <3> QED BY <1>2, <2>2, <3>1 DEF TableCalls, Dispatch, Working
  <2> QED BY <2>1, <2>2
<1> HIDE DEF next
<1>5. /\ Files' = Files /\ Handles' = Handles /\ Rows' = Rows
      /\ strayed \subseteq strayed' /\ strayed' \subseteq strayed \cup {t}
      /\ t \notin strayed' => text = content[t] /\ outdated = {}
  BY <1>1 DEF Files, Handles, Rows
<1>6. flow' \in [Flows -> TableCalls] /\ flow'[f] = next
  <2>1. \A g \in Flows : [flow[g] EXCEPT !.held = FALSE] \in TableCalls
    BY DEF TableInv, TableCalls
  <2> QED BY <1>1, <1>4, <2>1 DEF TableInv
<1>7. ASSUME NEW g \in Flows \ {f}
      PROVE  /\ flow'[g].at = flow[g].at /\ flow'[g].table = flow[g].table
             /\ flow'[g].run = flow[g].run /\ flow'[g].rows = flow[g].rows
             /\ flow'[g].text = flow[g].text /\ flow'[g].victims = flow[g].victims
             /\ flow'[g].held => flow[g].held
             /\ flow[g].held /\ ~flow'[g].held => flow[g].table \in strayed'
  <2>0. flow[g] \in TableCalls
    BY DEF TableInv
  <2>1. CASE g \in outdated
    <3>1. flow'[g] = [flow[g] EXCEPT !.held = FALSE] /\ flow[g].table = t /\ t \in strayed'
      BY <1>1, <2>1
    <3> QED BY <2>0, <3>1 DEF TableCalls
  <2>2. CASE g \notin outdated
    BY <1>1, <2>2
  <2> QED BY <2>1, <2>2
<1>8. /\ cachedRows' \in [Tables -> Rows] /\ lastWritten' \in [Tables -> Rows]
      /\ cachedRows'[t] = text /\ lastWritten'[t] = text
      /\ \A u \in Tables \ {t} : cachedRows'[u] = cachedRows[u] /\ lastWritten'[u] = lastWritten[u]
  BY <1>1, <1>2 DEF TableInv, StoreOK
<1> HIDE DEF t, text, outdated
<1>9. StoreOK'
  BY <1>1, <1>2, <1>5, <1>8 DEF TableInv, StoreOK
<1>10. CacheKnows'
  <2>1. ASSUME NEW u \in cached' \ strayed', u # t
        PROVE  BeingEdited(u)' \/ lastWritten'[u] = content'[u]
    <3>1. u \in cached \ strayed /\ u \in Tables \ {t}
      BY <1>1, <1>5, <2>1 DEF TableInv, StoreOK, Handles
    <3>2. BeingEdited(u) => BeingEdited(u)'
      BY <1>1, <1>7 DEF BeingEdited
    <3> QED BY <1>1, <1>8, <3>1, <3>2 DEF TableInv, CacheKnows
  <2>2. t \notin strayed' => lastWritten'[t] = content'[t]
    BY <1>1, <1>5, <1>8
  <2> QED BY <2>1, <2>2 DEF CacheKnows
<1>11. CallOK(f)' /\ WorkOK(f)'
  <2>1. CASE next.run = 0
    BY <1>4, <1>5, <1>6, <2>1 DEF CallOK, WorkOK, Working, Dispatch
  <2>2. CASE next.run # 0
    <3>1. next.rows \in Rows /\ flow[f].run \in next.rows /\ text \subseteq next.rows
      BY <1>2, <1>3, <1>4, <2>2 DEF Rows
    <3>2. CallOK(f)'
      BY <1>1, <1>2, <1>3, <1>4, <1>5, <1>6, <2>2, <3>1 DEF CallOK, Working, Dispatch
    <3>3. WorkOK(f)'
      BY <1>1, <1>2, <1>4, <1>5, <1>6, <2>2, <3>1 DEF WorkOK, Working, Dispatch
    <3> QED BY <3>2, <3>3
  <2> QED BY <2>1, <2>2
<1>12. ASSUME NEW g \in Flows \ {f}
       PROVE  CallOK(g)' /\ WorkOK(g)'
  <2>1. CallOK(g) /\ WorkOK(g)
    BY DEF TableInv
  <2>2. CallOK(g)'
    BY <1>1, <1>5, <1>7, <2>1 DEF CallOK, Working
  <2>3. WorkOK(g)'
    <3>1. Working(g)' /\ flow'[g].table \notin strayed' =>
            Working(g) /\ flow[g].table \notin strayed /\ (flow[g].held => flow'[g].held)
      BY <1>5, <1>7 DEF Working
    <3>2. flow[g].at = "saving" /\ flow[g].table \notin strayed' /\ Working(g) =>
            cachedRows'[flow[g].table] = cachedRows[flow[g].table]
      <4>1. flow[g].at = "saving" /\ flow[g].table \notin strayed' /\ Working(g) => flow[g].held
        BY <1>5, <2>1 DEF WorkOK
      <4>2. flow[g].table = t /\ flow[g].held => t \in strayed'
        BY <1>5 DEF outdated
      <4>3. flow[g].at = "saving" => flow[g].table \in Tables
        BY <2>1 DEF CallOK, Dispatch, Handles
      <4> QED BY <1>8, <4>1, <4>2, <4>3
    <3> QED BY <1>1, <1>7, <2>1, <3>1, <3>2 DEF WorkOK
  <2> QED BY <2>2, <2>3
<1>13. ASSUME NEW g \in Flows, NEW h \in Flows, g # h
       PROVE  Apart(g, h)'
  <2>1. \A k \in Flows : /\ Working(k)' => Working(k) /\ flow'[k].table = flow[k].table
                         /\ flow'[k].at \in Creation =>
                              flow[k].at \in Creation /\ flow'[k].table = flow[k].table
    <3>1. \A k \in Flows \ {f} : Working(k)' = Working(k)
      BY <1>7 DEF Working
    <3>2. Working(f)' => next.run # 0
      BY <1>6 DEF Working
    <3> QED BY <1>4, <1>6, <1>7, <3>1, <3>2 DEF Creation, t
  <2> QED BY <1>13, <2>1 DEF TableInv, Apart
<1> QED BY <1>6, <1>9, <1>10, <1>11, <1>12, <1>13 DEF TableInv

LEMMA SaveKeeps ==
  ASSUME TableInv, NEW f \in Flows, Save(f)
  PROVE  TableInv'
<1> DEFINE t == flow[f].table
           changes == [flow[f] EXCEPT !.at = "saving", !.text = lastWritten[t], !.held = TRUE]
<1>1. /\ flow[f].at = "dispatching"
      /\ UNCHANGED <<fileOf, content, cached, lastWritten, made, number, sequenceCounter,
                     tableRuns, returned, strayed>>
  BY DEF Save, fileVars, numbering
<1>2. /\ flow[f] \in TableCalls /\ CallOK(f) /\ WorkOK(f) /\ Working(f)
      /\ t \in Handles /\ t \in Tables /\ flow[f].rows \in Rows
  <2>1. flow[f] \in TableCalls /\ CallOK(f) /\ WorkOK(f)
    BY DEF TableInv
  <2> QED BY <1>1, <2>1 DEF CallOK, Dispatch, Handles
<1>3. CASE t \in cached
  <2>1. Move(f, changes) /\ cachedRows' = [cachedRows EXCEPT ![t] = flow[f].rows]
    BY <1>3 DEF Save
  <2>2. lastWritten[t] \in Rows /\ lastWritten[t] \subseteq Nat
    <3>1. lastWritten[t] \in Rows
      BY <1>2 DEF TableInv, StoreOK
    <3> QED BY <3>1 DEF Rows
  <2>3. /\ changes \in TableCalls /\ changes.at = "saving" /\ changes.table = t
        /\ changes.rows = flow[f].rows /\ changes.victims = flow[f].victims
        /\ changes.text = lastWritten[t] /\ changes.run = flow[f].run /\ changes.held = TRUE
    BY <1>2, <2>2 DEF TableCalls, Dispatch
  <2>4. t \notin strayed => lastWritten[t] = content[t]
    <3>1. ASSUME NEW g \in Flows, flow[g].at = "edited", flow[g].table = t
          PROVE  FALSE
      <4>1. Working(g) /\ g # f
        BY <1>1, <3>1 DEF TableInv, CallOK, Dispatch
      <4> QED BY <1>2, <3>1, <4>1 DEF TableInv, Apart
    <3> QED BY <1>3, <3>1 DEF TableInv, CacheKnows, BeingEdited
  <2> HIDE DEF changes
  <2>5. flow'[f] = changes /\ \A g \in Flows \ {f} : flow'[g] = flow[g]
    BY <2>1 DEF Move, TableInv
  <2>6. Files' = Files /\ Handles' = Handles /\ Rows' = Rows
    BY <1>1 DEF Files, Handles, Rows
  <2>7. /\ cachedRows' \in [Tables -> Rows] /\ cachedRows'[t] = flow[f].rows
         /\ \A u \in Tables \ {t} : cachedRows'[u] = cachedRows[u]
    BY <1>2, <2>1 DEF TableInv, StoreOK
  <2>8. StoreOK'
    <3>1. t \notin strayed => content[t] \subseteq flow[f].rows
      BY <1>1, <1>2 DEF WorkOK, Dispatch
    <3> HIDE DEF t
    <3> QED BY <1>1, <1>2, <2>6, <2>7, <3>1 DEF TableInv, StoreOK
  <2>9. CallOK(f)'
    BY <1>1, <1>2, <2>3, <2>5, <2>6 DEF CallOK, Working, Dispatch
  <2>10. WorkOK(f)'
    BY <1>1, <1>2, <2>3, <2>4, <2>5, <2>7 DEF WorkOK, Working, Dispatch
  <2>11. ASSUME NEW g \in Flows \ {f}
         PROVE  CallOK(g)' /\ WorkOK(g)' /\ Apart(f, g)'
    <3>1. Apart(f, g) /\ CallOK(g)
      BY DEF TableInv
    <3>2. flow[g].at = "saving" => cachedRows'[flow[g].table] = cachedRows[flow[g].table]
      BY <1>2, <2>7, <3>1 DEF CallOK, Apart, Dispatch, Handles
    <3>3. CallOK(g)' /\ WorkOK(g)'
      BY <1>1, <2>5, <2>6, <3>2, OthersKeep
    <3> QED BY <2>3, <2>5, <3>3, <3>1 DEF Apart, Working, Creation
  <2>12. CacheKnows'
    BY <1>1, <2>1, <2>3, KnowsStill
  <2> QED BY <2>1, <2>3, <2>8, <2>9, <2>10, <2>11, <2>12, MoveKeeps
<1>4. CASE t \notin cached
  <2>1. Move(f, Idle) /\ UNCHANGED cachedRows
    BY <1>4 DEF Save
  <2>2. flow'[f] = Idle
    BY <2>1 DEF Move, TableInv
  <2> QED BY <1>1, <2>1, <2>2, EndsWell, IdleFacts, OnlyMoves
<1> QED BY <1>3, <1>4

\* The edit finds the text if the table has not strayed: the file has what the
\* call's rows are.
LEMMA EditKeeps ==
  ASSUME TableInv, NEW f \in Flows, Edit(f)
  PROVE  TableInv'
<1> DEFINE t == flow[f].table
           rows == flow[f].rows
           changes == [flow[f] EXCEPT !.at = "edited", !.text = {}]
<1>1. /\ flow[f].at = "saving" /\ Move(f, changes)
      /\ content' = IF Found(t, flow[f].text) THEN [content EXCEPT ![t] = rows] ELSE content
      /\ UNCHANGED <<fileOf, cached, cachedRows, lastWritten, made, number, sequenceCounter,
                     tableRuns, returned, strayed>>
  BY DEF Edit, cacheEntries, numbering
<1>2. /\ flow[f] \in TableCalls /\ CallOK(f) /\ WorkOK(f) /\ Working(f)
      /\ t \in Handles /\ t \in Tables /\ rows \in Rows
  <2>1. flow[f] \in TableCalls /\ CallOK(f) /\ WorkOK(f)
    BY DEF TableInv
  <2> QED BY <1>1, <2>1 DEF CallOK, Dispatch, Handles
<1>3. /\ changes \in TableCalls /\ changes.at = "edited" /\ changes.table = t
      /\ changes.rows = rows /\ changes.victims = flow[f].victims
      /\ changes.run = flow[f].run /\ changes.held = flow[f].held
  BY <1>2 DEF TableCalls, Dispatch
<1> HIDE DEF changes
<1>4. flow'[f] = changes /\ \A g \in Flows \ {f} : flow'[g] = flow[g]
  BY <1>1 DEF Move, TableInv
<1>5. Files' = Files /\ Handles' = Handles /\ Rows' = Rows
  BY <1>1 DEF Files, Handles, Rows
<1>6. t \notin strayed =>
        /\ flow[f].held /\ t \in cached /\ flow[f].run \in rows
        /\ content[t] \subseteq rows /\ content'[t] = rows
        /\ cachedRows[t] = cachedRows'[t]
  <2>1. t \notin strayed => /\ flow[f].held /\ t \in cached /\ flow[f].run \in rows
                            /\ content[t] \subseteq rows /\ flow[f].text = content[t]
    BY <1>1, <1>2 DEF WorkOK, Dispatch
  <2>2. t \notin strayed => fileOf[t] = "live"
    BY <1>2 DEF TableInv, StoreOK, Handles
  <2> QED BY <1>1, <1>2, <2>1, <2>2 DEF Found, TableInv, StoreOK
<1>7. content' \in [Tables -> Rows] /\ (content'[t] = content[t] \/ content'[t] = rows)
      /\ \A u \in Tables \ {t} : content'[u] = content[u]
  BY <1>1, <1>2 DEF TableInv, StoreOK
<1> HIDE DEF t, rows
<1>8. StoreOK'
  <2>1. t \in cached /\ t \notin strayed => rows \subseteq cachedRows[t]
    BY <1>1, <1>2 DEF WorkOK, t, rows
  <2>2. t \notin strayed => returned[t] \subseteq content'[t]
    BY <1>2, <1>6 DEF TableInv, StoreOK
  <2>3. fileOf[t] \notin {"none", "unclaimed"}
    BY <1>2 DEF Handles
  <2> QED BY <1>1, <1>2, <1>5, <1>6, <1>7, <2>1, <2>2, <2>3 DEF TableInv, StoreOK
<1>9. CallOK(f)' /\ WorkOK(f)'
  BY <1>1, <1>2, <1>3, <1>4, <1>5, <1>6 DEF CallOK, WorkOK, Working, Dispatch, t, rows
<1>10. ASSUME NEW g \in Flows \ {f}
       PROVE  CallOK(g)' /\ WorkOK(g)' /\ Apart(f, g)'
  <2>1. Apart(f, g) /\ CallOK(g)
    BY DEF TableInv
  <2>2. Working(g) => content'[flow[g].table] = content[flow[g].table]
    BY <1>2, <1>7, <2>1 DEF CallOK, Apart, Dispatch, Handles, t
  <2>3. CallOK(g)' /\ WorkOK(g)'
    BY <1>1, <1>4, <1>5, <2>2, OthersKeep
  <2> QED BY <1>3, <1>4, <2>1, <2>3 DEF Apart, Working, Creation, t
<1>11. CacheKnows'
  <2>1. ASSUME NEW u \in cached' \ strayed'
        PROVE  BeingEdited(u)' \/ lastWritten'[u] = content'[u]
    <3>1. u = t => BeingEdited(u)'
      BY <1>3, <1>4 DEF BeingEdited
    <3>2. BeingEdited(u) => BeingEdited(u)'
      BY <1>1, <1>4 DEF BeingEdited
    <3>3. u \in Tables /\ (BeingEdited(u) \/ lastWritten[u] = content[u])
      BY <1>1, <2>1 DEF TableInv, StoreOK, Handles, CacheKnows
    <3> QED BY <1>1, <1>7, <3>1, <3>2, <3>3
  <2> QED BY <2>1 DEF CacheKnows
<1> QED BY <1>1, <1>3, <1>8, <1>9, <1>10, <1>11, MoveKeeps

\* What was written is what is remembered.
LEMMA SavedKeeps ==
  ASSUME TableInv, NEW f \in Flows, Saved(f)
  PROVE  TableInv'
<1> DEFINE t == flow[f].table
<1>1. /\ flow[f].at = "edited" /\ Move(f, Idle) /\ lastWritten' = Remembered(f)
      /\ returned' = [returned EXCEPT ![t] = @ \cup {flow[f].run}]
      /\ UNCHANGED <<fileOf, content, cached, cachedRows, made, number, sequenceCounter,
                     tableRuns, strayed>>
  BY DEF Saved, fileVars, numbering
<1>2. /\ CallOK(f) /\ WorkOK(f) /\ Working(f) /\ t \in Tables /\ flow[f].rows \in Rows
      /\ flow[f].run \in 1..tableRuns
  <2>1. CallOK(f) /\ WorkOK(f)
    BY DEF TableInv
  <2> QED BY <1>1, <2>1 DEF CallOK, Dispatch, Handles
<1>3. flow'[f] = Idle /\ \A g \in Flows \ {f} : flow'[g] = flow[g]
  BY <1>1 DEF Move, TableInv
<1>4. Files' = Files /\ Handles' = Handles /\ Rows' = Rows
  BY <1>1 DEF Files, Handles, Rows
<1>5. t \notin strayed => /\ t \in cached /\ flow[f].held /\ flow[f].rows = content[t]
                         /\ flow[f].run \in content[t]
  BY <1>1, <1>2 DEF WorkOK, Dispatch
<1>6. /\ lastWritten' \in [Tables -> Rows] /\ (t \notin strayed => lastWritten'[t] = content[t])
      /\ \A u \in Tables \ {t} : lastWritten'[u] = lastWritten[u]
  BY <1>1, <1>2, <1>5 DEF Remembered, TableInv, StoreOK
<1>7. /\ returned' \in [Tables -> Rows] /\ (t \notin strayed => returned'[t] \subseteq content[t])
      /\ \A u \in Tables \ {t} : returned'[u] = returned[u]
  <2>1. returned[t] \cup {flow[f].run} \in Rows
    BY <1>2 DEF TableInv, StoreOK, Rows
  <2> QED BY <1>1, <1>2, <1>5, <2>1 DEF TableInv, StoreOK
<1> HIDE DEF t
<1>8. StoreOK'
  BY <1>1, <1>2, <1>4, <1>6, <1>7 DEF TableInv, StoreOK
<1>9. CacheKnows'
  <2>1. \A u \in Tables \ {t} : BeingEdited(u) => BeingEdited(u)'
    BY <1>1, <1>3 DEF BeingEdited, t
  <2>2. \A u \in cached : u \in Tables
    BY DEF TableInv, StoreOK, Handles
  <2> QED BY <1>1, <1>6, <2>1, <2>2 DEF TableInv, CacheKnows
<1>10. \A g \in Flows \ {f} : CallOK(g)' /\ WorkOK(g)'
  BY <1>1, <1>3, <1>4, OthersKeep
<1> QED BY <1>1, <1>3, <1>8, <1>9, <1>10, EndsWell, IdleFacts, MoveKeeps

\* A tool rejects: a table whose edit may be in its file has strayed.
LEMMA RejectsKeeps ==
  ASSUME TableInv, NEW f \in Flows, Rejects(f)
  PROVE  TableInv'
<1> DEFINE t == flow[f].table
<1>1. /\ Move(f, Idle)
      /\ strayed' = IF flow[f].at = "edited" THEN strayed \cup {t} ELSE strayed
      /\ UNCHANGED <<fileOf, content, cached, cachedRows, lastWritten, made, number,
                     sequenceCounter, tableRuns, returned>>
  BY DEF Rejects, fileVars, cacheEntries, numbering
<1>2. flow[f].at = "edited" => t \in Tables
  BY DEF TableInv, CallOK, Dispatch, Handles
<1>3. flow'[f] = Idle /\ \A g \in Flows \ {f} : flow'[g] = flow[g]
  BY <1>1 DEF Move, TableInv
<1>4. /\ Files' = Files /\ Handles' = Handles /\ Rows' = Rows
      /\ strayed \subseteq strayed' /\ strayed' \subseteq Tables
  BY <1>1, <1>2 DEF Files, Handles, Rows, TableInv, StoreOK
<1>5. StoreOK'
  BY <1>1, <1>4 DEF TableInv, StoreOK
<1>6. CacheKnows'
  <2>1. ASSUME NEW u \in cached' \ strayed', BeingEdited(u)
        PROVE  BeingEdited(u)'
    <3>1. PICK g \in Flows : flow[g].at = "edited" /\ flow[g].table = u
      BY <2>1 DEF BeingEdited
    <3>2. g # f
      BY <1>1, <2>1, <3>1
    <3> QED BY <1>3, <3>1, <3>2 DEF BeingEdited
  <2> QED BY <1>1, <1>4, <2>1 DEF TableInv, CacheKnows
<1>7. \A g \in Flows \ {f} : CallOK(g)' /\ WorkOK(g)'
  BY <1>1, <1>3, <1>4, OthersKeep
<1> QED BY <1>1, <1>3, <1>5, <1>6, <1>7, EndsWell, IdleFacts, MoveKeeps

LEMMA TableStarts ==
  SwarmTableInit => TableInv
<1> SUFFICES ASSUME SwarmTableInit
             PROVE  TableInv
  OBVIOUS
<1>1. {} \in Rows
  BY DEF Rows
<1>2. StoreOK
  BY <1>1, SwarmTableAssumption DEF SwarmTableInit, StoreOK, Handles
<1>3. CacheKnows
  BY DEF SwarmTableInit, CacheKnows
<1>4. \A f \in Flows : flow[f] = Idle /\ flow \in [Flows -> TableCalls]
  BY IdleFacts DEF SwarmTableInit
<1> QED BY <1>2, <1>3, <1>4, IdleFacts
        DEF SwarmTableInit, TableInv, CallOK, WorkOK, Apart, Working, Dispatch, Creation

\* A restart forgets calls, cache and counter; the files stay.
LEMMA NewSessionKeeps ==
  ASSUME TableInv, NewSession
  PROVE  TableInv'
<1>1. /\ cached' = {} /\ sequenceCounter' = 0 /\ flow' = [f \in Flows |-> Idle]
      /\ cachedRows' = [t \in Tables |-> {}] /\ lastWritten' = [t \in Tables |-> {}]
      /\ UNCHANGED <<fileOf, content, made, number, tableRuns, returned, strayed>>
  BY DEF NewSession, fileVars
<1>2. {} \in Rows /\ Rows' = Rows /\ Handles' = Handles
  BY <1>1 DEF Rows, Handles
<1>3. StoreOK'
  BY <1>1, <1>2 DEF TableInv, StoreOK
<1>4. CacheKnows'
  BY <1>1 DEF CacheKnows
<1>5. flow' \in [Flows -> TableCalls] /\ \A f \in Flows : flow'[f] = Idle
  BY <1>1, IdleFacts
<1> QED BY <1>3, <1>4, <1>5, EndsWell DEF TableInv

LEMMA TableKeeps ==
  TableInv /\ [SwarmTableNext]_swarmTableVars => TableInv'
<1> SUFFICES ASSUME TableInv, [SwarmTableNext]_swarmTableVars
             PROVE  TableInv'
  OBVIOUS
<1>1. CASE UNCHANGED swarmTableVars
  <2>1. UNCHANGED <<fileOf, content, cached, cachedRows, lastWritten, made, number,
                    sequenceCounter, tableRuns, returned, strayed, flow>>
    BY <1>1 DEF swarmTableVars, fileVars, cacheEntries, numbering
  <2> QED BY <2>1 DEF TableInv, StoreOK, CacheKnows, BeingEdited, CallOK, WorkOK, Apart, Working,
                      Files, Handles, Rows
<1> QED BY <1>1, CreateKeeps, EvictKeeps, OverwriteKeeps, NumberKeeps, WriteNewKeeps,
           CreatedKeeps, RunOnKeeps, ReadRowsKeeps, ReadTextKeeps, CacheSetKeeps, SaveKeeps,
           EditKeeps, SavedKeeps, RejectsKeeps, NewSessionKeeps DEF SwarmTableNext

\* The cache only knows tables that were created; a file is written once, by the
\* call its table was numbered for.
THEOREM TableTypeCorrect == SwarmTableSpec => []SwarmTableTypeOK
<1>1. TableInv => SwarmTableTypeOK
  BY DEF TableInv, StoreOK, CallOK, Rows, SwarmTableTypeOK
<1> QED BY <1>1, TableStarts, TableKeeps, PTL DEF SwarmTableSpec

\* What a call of run() returned is in the table's file, for any number of calls in
\* flight, tables, rejected calls and restarts, as long as the table's cache has not
\* strayed from it.
THEOREM ReturnedStaysSaved == SwarmTableSpec => []ReturnedIsSaved
<1>1. TableInv => ReturnedIsSaved
  BY DEF TableInv, StoreOK, ReturnedIsSaved
<1> QED BY <1>1, TableStarts, TableKeeps, PTL DEF SwarmTableSpec

-----------------------------------------------------------------------------
(* One call of run(): how rows are cut into batches.                       *)

\* Batches that cut a set of rows up: each has some of them, each row is in one.
CutsUp(batches, S, X) ==
  /\ batches \in Seq(Seq(X))
  /\ \A b \in 1..Len(batches) : batches[b] # <<>> /\ Members(batches[b]) \subseteq S
  /\ \A r \in S : \E b \in 1..Len(batches) : r \in Members(batches[b])
  /\ \A b, c \in 1..Len(batches) : b # c => Members(batches[b]) \cap Members(batches[c]) = {}

LEMMA ToSetIsMembers ==
  ASSUME NEW X, NEW s \in Seq(X)
  PROVE  ToSet(s) = Members(s)
BY DEF ToSet, Members

\* How division rounds.
LEMMA DivFacts ==
  ASSUME NEW x \in Nat, NEW y \in Nat \ {0}
  PROVE  x \div y \in Nat /\ y * (x \div y) <= x /\ x < y * (x \div y) + y
BY Z3

LEMMA Multiples ==
  ASSUME NEW a \in Nat, NEW b \in Nat, NEW s \in Nat \ {0}, a < b
  PROVE  a * s + s <= b * s
BY Z3

\* How many batches of a size there are: the last one is not empty, and there
\* is one for every position.
LEMMA BatchCount ==
  ASSUME NEW n \in Nat, NEW size \in Nat \ {0}
  PROVE  /\ (n + size - 1) \div size \in Nat
         /\ \A b \in 1..((n + size - 1) \div size) : (b - 1) * size \in Nat /\ (b - 1) * size < n
         /\ \A i \in 1..n : \E b \in 1..((n + size - 1) \div size) :
              (b - 1) * size < i /\ i <= b * size
<1> DEFINE k == (n + size - 1) \div size
<1>1. k \in Nat /\ size * k <= n + size - 1 /\ n + size - 1 < size * k + size
  BY DivFacts
<1> HIDE DEF k
<1>2. ASSUME NEW b \in 1..k
      PROVE  (b - 1) * size \in Nat /\ (b - 1) * size < n
  <2>1. b - 1 \in Nat /\ b - 1 < k
    BY <1>1
  <2>2. (b - 1) * size + size <= k * size /\ k * size = size * k
    BY <1>1, <2>1, Multiples
  <2>3. (b - 1) * size \in Nat /\ k * size \in Nat
    BY <1>1, <2>1
  <2> QED BY <1>1, <2>2, <2>3
<1>3. ASSUME NEW i \in 1..n
      PROVE  \E b \in 1..k : (b - 1) * size < i /\ i <= b * size
  <2> DEFINE a == (i - 1) \div size
  <2>1. a \in Nat /\ size * a <= i - 1 /\ i - 1 < size * a + size
    BY DivFacts
  <2> HIDE DEF a
  <2>2. a * size = size * a /\ (a + 1) * size = size * a + size /\ size * a \in Nat
    BY <2>1
  <2>3. a < k
    <3>1. SUFFICES ASSUME k <= a PROVE FALSE
      BY <1>1, <2>1
    <3>2. size * k <= size * a /\ size * k \in Nat
      BY <1>1, <2>1, <3>1
    <3> QED BY <1>1, <2>1, <2>2, <3>2
  <2>4. a + 1 \in 1..k /\ (a + 1) - 1 = a
    BY <1>1, <2>1, <2>3
  <2> QED BY <2>1, <2>2, <2>4
<1> QED BY <1>1, <1>2, <1>3 DEF k

LEMMA BatchesCut ==
  ASSUME NEW X, NEW items \in Seq(X), IsOneToOne(items), NEW size \in Nat \ {0}
  PROVE  /\ CutsUp(createBatches(items, size), Members(items), X)
         /\ Len(createBatches(items, size)) = (Len(items) + size - 1) \div size
<1> DEFINE n == Len(items)
           k == (n + size - 1) \div size
           lo(b) == (b - 1) * size
           hi(b) == Least(b * size, n)
           batches == createBatches(items, size)
<1>1. n \in Nat /\ k \in Nat
  BY LenProperties, BatchCount
<1>2. ASSUME NEW b \in 1..k
      PROVE  /\ lo(b) \in Nat /\ hi(b) \in Nat /\ lo(b) < hi(b) /\ hi(b) <= n
             /\ hi(b) <= b * size
  <2>1. lo(b) \in Nat /\ lo(b) < n
    BY <1>1, BatchCount
  <2>2. b * size = lo(b) + size /\ b * size \in Nat
    BY <1>1
  <2> HIDE DEF lo
  <2> QED BY <1>1, <2>1, <2>2 DEF Least
<1>3. \A b \in 1..k : batches[b] = SubSeq(items, lo(b) + 1, hi(b))
  BY DEF createBatches
<1>4. ASSUME NEW b \in 1..k
      PROVE  /\ batches[b] \in Seq(X) /\ Len(batches[b]) = hi(b) - lo(b)
             /\ Members(batches[b]) = {items[i] : i \in lo(b) + 1..hi(b)}
  <2> DEFINE l == lo(b) + 1
             h == hi(b)
  <2>1. l \in 1..n /\ h \in 1..n /\ l <= h
    BY <1>1, <1>2
  <2>2. batches[b] = SubSeq(items, l, h)
    BY <1>3
  <2>3. hi(b) - lo(b) = h - l + 1
    BY <1>2
  <2> HIDE DEF l, h, batches, lo, hi
  <2>4. \A i \in l..h : items[i] \in X
    BY <1>1, <2>1, ElementOfSeq
  <2>5. /\ batches[b] \in Seq(X) /\ Len(batches[b]) = h - l + 1
        /\ \A i \in 1..h - l + 1 : batches[b][i] = items[l + i - 1]
    BY <2>1, <2>2, <2>4, SubSeqProperties
  <2>6. Members(batches[b]) = {items[i] : i \in l..h}
    <3>1. ASSUME NEW i \in l..h
          PROVE  items[i] \in Members(batches[b])
      <4>1. i - l + 1 \in 1..h - l + 1 /\ l + (i - l + 1) - 1 = i
        BY <1>1, <2>1
      <4>2. items[i] = batches[b][i - l + 1]
        BY <2>5, <4>1
      <4> QED BY <2>5, <4>1, <4>2 DEF Members
    <3>2. ASSUME NEW i \in 1..h - l + 1
          PROVE  batches[b][i] \in {items[j] : j \in l..h}
      <4>1. l + i - 1 \in l..h
        BY <1>1, <2>1
      <4> QED BY <2>5, <4>1
    <3> QED BY <2>5, <3>1, <3>2 DEF Members
  <2> QED BY <2>3, <2>5, <2>6 DEF l, h
<1>5. batches \in Seq(Seq(X)) /\ Len(batches) = k
  <2>1. batches \in [1..k -> Seq(X)]
    BY <1>4 DEF createBatches
  <2> HIDE DEF batches, k
  <2> QED BY <1>1, <2>1
<1> HIDE DEF batches, k, hi
<1>6. \A b \in 1..k : batches[b] # <<>> /\ Members(batches[b]) \subseteq Members(items)
  <2> TAKE b \in 1..k
  <2>1. Len(batches[b]) > 0
    BY <1>2, <1>4
  <2>2. batches[b] # <<>>
    BY <2>1, EmptySeq
  <2>3. lo(b) + 1..hi(b) \subseteq 1..n
    BY <1>1, <1>2
  <2>4. {items[i] : i \in lo(b) + 1..hi(b)} \subseteq Members(items)
    BY <2>3 DEF Members
  <2> QED BY <1>4, <2>2, <2>4
<1>7. ASSUME NEW r \in Members(items)
      PROVE  \E b \in 1..k : r \in Members(batches[b])
  <2>1. PICK i \in 1..n : items[i] = r
    BY DEF Members
  <2>2. PICK b \in 1..k : lo(b) < i /\ i <= b * size
    BY <1>1, BatchCount DEF k
  <2>3. i <= hi(b)
    BY <1>1, <2>2 DEF hi, Least
  <2>4. i \in lo(b) + 1..hi(b)
    BY <1>1, <1>2, <2>2, <2>3
  <2> QED BY <1>4, <2>1, <2>4
<1>8. ASSUME NEW b \in 1..k, NEW c \in 1..k, b < c
      PROVE  Members(batches[b]) \cap Members(batches[c]) = {}
  <2>1. hi(b) <= lo(c)
    <3>1. b * size <= lo(c)
      <4>1. b - 1 \in Nat /\ c - 1 \in Nat /\ b - 1 < c - 1
        BY <1>1, <1>8
      <4>2. (b - 1) * size + size <= (c - 1) * size
        BY <4>1, Multiples
      <4>3. b * size = (b - 1) * size + size
        BY <1>1
      <4> QED BY <4>2, <4>3
    <3> QED BY <1>2, <3>1
  <2> HIDE DEF lo
  <2>2. \A i \in lo(b) + 1..hi(b), j \in lo(c) + 1..hi(c) :
          i # j /\ i \in 1..n /\ j \in 1..n
    BY <1>1, <1>2, <2>1
  <2>3. \A i \in lo(b) + 1..hi(b), j \in lo(c) + 1..hi(c) : items[i] # items[j]
    BY <2>2 DEF IsOneToOne
  <2>4. /\ Members(batches[b]) = {items[i] : i \in lo(b) + 1..hi(b)}
        /\ Members(batches[c]) = {items[j] : j \in lo(c) + 1..hi(c)}
    BY <1>4
  <2> QED BY <2>3, <2>4
<1>9. \A b, c \in 1..k : b # c => b < c \/ c < b
  BY <1>1
<1>10. \A b, c \in 1..k : b # c => Members(batches[b]) \cap Members(batches[c]) = {}
  BY <1>8, <1>9
<1> QED BY <1>5, <1>6, <1>7, <1>10 DEF CutsUp, k, batches

\* Batches of some rows, then batches of others.
LEMMA ConcatCuts ==
  ASSUME NEW X, NEW S, NEW T, NEW s, NEW t, CutsUp(s, S, X), CutsUp(t, T, X), S \cap T = {}
  PROVE  CutsUp(s \o t, S \cup T, X)
<1> DEFINE m == Len(s)
           n == Len(t)
           u == s \o t
<1>1. s \in Seq(Seq(X)) /\ t \in Seq(Seq(X)) /\ m \in Nat /\ n \in Nat
  BY LenProperties DEF CutsUp
<1>2. /\ u \in Seq(Seq(X)) /\ Len(u) = m + n
      /\ \A i \in 1..m + n : u[i] = IF i <= m THEN s[i] ELSE t[i - m]
  BY <1>1, ConcatProperties
<1> HIDE DEF m, n, u
<1>3. ASSUME NEW i \in 1..m + n
      PROVE  \/ i \in 1..m /\ u[i] = s[i]
             \/ i - m \in 1..n /\ u[i] = t[i - m]
  BY <1>1, <1>2
<1>4. /\ \A i \in 1..m : i \in 1..m + n /\ u[i] = s[i]
      /\ \A i \in 1..n : i + m \in 1..m + n /\ u[i + m] = t[i]
  <2>1. ASSUME NEW i \in 1..n
        PROVE  i + m \in 1..m + n /\ u[i + m] = t[i]
    <3>1. i + m \in 1..m + n /\ (i + m) - m = i /\ ~(i + m <= m)
      BY <1>1
    <3>2. u[i + m] = t[(i + m) - m]
      BY <1>2, <3>1
    <3> QED BY <3>1, <3>2
  <2>2. \A i \in 1..m : i \in 1..m + n /\ u[i] = s[i]
    BY <1>1, <1>2
  <2> QED BY <2>1, <2>2
<1>5. /\ \A i \in 1..m : s[i] # <<>> /\ Members(s[i]) \subseteq S
      /\ \A i \in 1..n : t[i] # <<>> /\ Members(t[i]) \subseteq T
      /\ \A r \in S : \E i \in 1..m : r \in Members(s[i])
      /\ \A r \in T : \E i \in 1..n : r \in Members(t[i])
      /\ \A i, j \in 1..m : i # j => Members(s[i]) \cap Members(s[j]) = {}
      /\ \A i, j \in 1..n : i # j => Members(t[i]) \cap Members(t[j]) = {}
  BY DEF CutsUp, m, n
<1>6. \A i \in 1..m + n : u[i] # <<>> /\ Members(u[i]) \subseteq S \cup T
  BY <1>3, <1>5
<1>7. \A r \in S \cup T : \E i \in 1..m + n : r \in Members(u[i])
  BY <1>4, <1>5
<1>8. ASSUME NEW i \in 1..m + n, NEW j \in 1..m + n, i # j
      PROVE  Members(u[i]) \cap Members(u[j]) = {}
  <2>1. (i \in 1..m /\ u[i] = s[i]) \/ (i - m \in 1..n /\ u[i] = t[i - m])
    BY <1>3
  <2>2. (j \in 1..m /\ u[j] = s[j]) \/ (j - m \in 1..n /\ u[j] = t[j - m])
    BY <1>3
  <2>3. i - m # j - m
    BY <1>1, <1>8
  <2> QED BY <1>5, <1>8, <2>1, <2>2, <2>3
<1> QED BY <1>2, <1>6, <1>7, <1>8 DEF CutsUp, u

\* FlattenSeq's own recursion: what it has put together of the first i parts.
IsFlat(f, parts, k) == f = [i \in 1..k |-> IF i = 1 THEN parts[i] ELSE f[i - 1] \o parts[i]]

LEMMA FlatStep ==
  ASSUME NEW k \in Nat, NEW parts, NEW f, IsFlat(f, parts, k)
  PROVE  \E h : IsFlat(h, parts, k + 1)
<1> DEFINE next == IF k = 0 THEN parts[1] ELSE f[k] \o parts[k + 1]
           h == [i \in 1..k + 1 |-> IF i <= k THEN f[i] ELSE next]
           Of(i) == IF i = 1 THEN parts[i] ELSE h[i - 1] \o parts[i]
<1>1. \A i \in 1..k : f[i] = IF i = 1 THEN parts[i] ELSE f[i - 1] \o parts[i]
  BY DEF IsFlat
<1>2. ASSUME NEW i \in 1..k + 1
      PROVE  h[i] = Of(i)
  <2>1. CASE i <= k
    <3>1. i \in 1..k /\ h[i] = f[i] /\ (i # 1 => h[i - 1] = f[i - 1])
      BY <2>1
    <3> HIDE DEF h
    <3> QED BY <1>1, <3>1
  <2>2. CASE i = k + 1
    <3>1. h[i] = next /\ (k # 0 => h[i - 1] = f[k]) /\ (i = 1 <=> k = 0)
      BY <2>2
    <3> HIDE DEF h
    <3> QED BY <2>2, <3>1
  <2> QED BY <2>1, <2>2
<1>3. h = [i \in 1..k + 1 |-> Of(i)]
  <2>1. h = [i \in 1..k + 1 |-> h[i]]
    OBVIOUS
  <2> HIDE DEF h, Of
  <2> QED BY <1>2, <2>1
<1> HIDE DEF h
<1> QED BY <1>3 DEF IsFlat

LEMMA FlatExists ==
  ASSUME NEW N \in Nat, NEW parts
  PROVE  \E f : IsFlat(f, parts, N)
<1> DEFINE T == {k \in Nat : \E f : IsFlat(f, parts, k)}
<1>1. 0 \in T
  <2> DEFINE f == [i \in 1..0 |-> IF i = 1 THEN parts[i] ELSE <<>> \o parts[i]]
  <2>1. IsFlat(f, parts, 0)
    BY DEF IsFlat
  <2> QED BY <2>1
<1>2. ASSUME NEW k \in 0..N - 1, k \in T
      PROVE  k + 1 \in T
  <2>1. PICK f : IsFlat(f, parts, k)
    BY <1>2
  <2>2. \E h : IsFlat(h, parts, k + 1)
    BY <2>1, FlatStep
  <2> QED BY <2>2
<1>3. N \in T
  <2> HIDE DEF T
  <2> QED BY <1>1, <1>2, UpToN
<1> QED BY <1>3

\* Groups of batches, each over rows no other group has.
LEMMA FlattenCuts ==
  ASSUME NEW X, NEW N \in Nat, NEW parts, NEW G,
         parts \in Seq(Seq(Seq(X))), Len(parts) = N,
         \A g \in 1..N : CutsUp(parts[g], G[g], X),
         \A g, h \in 1..N : g # h => G[g] \cap G[h] = {}
  PROVE  CutsUp(FlattenSeq(parts), UNION {G[g] : g \in 1..N}, X)
<1>1. CASE N = 0
  <2>1. FlattenSeq(parts) = <<>>
    BY <1>1, EmptySeq DEF FlattenSeq
  <2>2. UNION {G[g] : g \in 1..N} = {} /\ <<>> \in Seq(Seq(X)) /\ Len(<<>>) = 0
    BY <1>1, EmptySeq
  <2> QED BY <2>1, <2>2 DEF CutsUp
<1>2. CASE N # 0
  <2> DEFINE f == CHOOSE h : IsFlat(h, parts, N)
             Upto(k) == UNION {G[g] : g \in 1..k}
             T == {k \in 0..N - 1 : CutsUp(f[k + 1], Upto(k + 1), X)}
  <2>1. IsFlat(f, parts, N)
    BY FlatExists
  <2>2. FlattenSeq(parts) = f[N]
    BY <1>2 DEF FlattenSeq, IsFlat
  <2> HIDE DEF f
  <2>3. \A i \in 1..N : f[i] = IF i = 1 THEN parts[i] ELSE f[i - 1] \o parts[i]
    BY <2>1 DEF IsFlat
  <2>4. 0 \in T
    <3>1. 1 \in 1..N /\ 0 + 1 = 1 /\ 0 \in 0..N - 1
      BY <1>2
    <3>2. f[1] = parts[1] /\ Upto(1) = G[1]
      BY <2>3, <3>1
    <3>3. CutsUp(parts[1], G[1], X)
      BY <3>1
    <3> HIDE DEF Upto
    <3> QED BY <3>1, <3>2, <3>3
  <2>5. ASSUME NEW k \in 0..(N - 1) - 1, k \in T
        PROVE  k + 1 \in T
    <3>1. k + 1 \in 1..N /\ k + 2 \in 1..N /\ k + 1 \in 0..N - 1 /\ (k + 1) + 1 = k + 2
          /\ (k + 2) - 1 = k + 1 /\ k + 2 # 1
      OBVIOUS
    <3>2. f[k + 2] = f[k + 1] \o parts[k + 2]
      BY <2>3, <3>1
    <3>3. Upto(k + 2) = Upto(k + 1) \cup G[k + 2]
      <4>1. 1..k + 2 = (1..k + 1) \cup {k + 2}
        OBVIOUS
      <4> QED BY <4>1
    <3>4. Upto(k + 1) \cap G[k + 2] = {}
      <4>1. \A g \in 1..k + 1 : g \in 1..N /\ g # k + 2
        BY <3>1
      <4> QED BY <3>1, <4>1
    <3>5. CutsUp(f[k + 1], Upto(k + 1), X) /\ CutsUp(parts[k + 2], G[k + 2], X)
      BY <2>5, <3>1
    <3> HIDE DEF Upto
    <3>6. CutsUp(f[k + 1] \o parts[k + 2], Upto(k + 1) \cup G[k + 2], X)
      <4> DEFINE s == f[k + 1]
                 t == parts[k + 2]
                 S == Upto(k + 1)
                 R == G[k + 2]
      <4>1. CutsUp(s, S, X) /\ CutsUp(t, R, X) /\ S \cap R = {}
        BY <3>4, <3>5
      <4> HIDE DEF s, t, S, R
      <4>2. CutsUp(s \o t, S \cup R, X)
        BY <4>1, ConcatCuts
      <4> QED BY <4>2 DEF s, t, S, R
    <3> QED BY <3>1, <3>2, <3>3, <3>6
  <2>6. N - 1 \in T
    <3> DEFINE M == N - 1
    <3>1. M \in Nat
      BY <1>2
    <3>2. \A k \in 0..M - 1 : k \in T => k + 1 \in T
      BY <2>5
    <3> HIDE DEF T, M
    <3>3. 0..M \subseteq T
      BY <2>4, <3>1, <3>2, UpToN
    <3> QED BY <3>1, <3>3 DEF M
  <2>7. (N - 1) + 1 = N
    OBVIOUS
  <2> QED BY <2>2, <2>6, <2>7
<1> QED BY <1>1, <1>2

LEMMA ClampFacts ==
  ASSUME NEW n \in Int
  PROVE  clampBatchSize(n) \in 1..MaxBatchSize /\ clampBatchSize(n) \in Nat \ {0}
BY SwarmRunAssumption DEF clampBatchSize, Least

\* A size left to the code makes no more batches than there are workers, unless
\* not even the largest batches can.
LEMMA AutoFacts ==
  ASSUME NEW n \in Nat, NEW max \in Nat \ {0}
  PROVE  /\ AutoSize(n, max) \in Nat \ {0}
         /\ n <= max * MaxBatchSize => (n + AutoSize(n, max) - 1) \div AutoSize(n, max) <= max
<1> DEFINE size == AutoSize(n, max)
           c == CeilDiv(n, max)
           k == (n + size - 1) \div size
<1>1. CASE n <= max
  <2>1. size = 1
    BY <1>1 DEF AutoSize
  <2>2. k \in Nat /\ 1 * k <= n + 1 - 1
    BY <2>1, DivFacts
  <2> HIDE DEF k
  <2> QED BY <1>1, <2>1, <2>2 DEF k
<1>2. CASE n > max
  <2>1. c \in Nat /\ max * c <= n + max - 1 /\ n + max - 1 < max * c + max
    BY DivFacts DEF CeilDiv
  <2>2. size = Least(c, MaxBatchSize)
    BY <1>2 DEF AutoSize
  <2> HIDE DEF c
  <2>3. c # 0
    <3>1. c = 0 => max * c = 0
      BY <2>1
    <3> QED BY <1>2, <2>1, <3>1
  <2>4. size \in Nat \ {0}
    BY <2>1, <2>2, <2>3, SwarmRunAssumption DEF Least
  <2>5. ASSUME n <= max * MaxBatchSize
        PROVE  k <= max
    <3>1. c <= MaxBatchSize
      <4>1. SUFFICES ASSUME MaxBatchSize < c PROVE FALSE
        BY <2>1, SwarmRunAssumption
      <4>2. MaxBatchSize * max + max <= c * max
        BY <2>1, <4>1, SwarmRunAssumption, Multiples
      <4>3. MaxBatchSize * max = max * MaxBatchSize /\ c * max = max * c
            /\ max * MaxBatchSize \in Nat /\ max * c \in Nat
        BY <2>1, SwarmRunAssumption
      <4> QED BY <2>1, <2>5, <4>2, <4>3
    <3>2. size = c
      BY <2>1, <2>2, <3>1, SwarmRunAssumption DEF Least
    <3> HIDE DEF size
    <3>3. k \in Nat /\ size * k <= n + size - 1
      BY <2>4, DivFacts
    <3> HIDE DEF k
    <3>4. SUFFICES ASSUME max < k PROVE FALSE
      BY <3>3
    <3>5. max * size + size <= k * size
      BY <2>4, <3>3, <3>4, Multiples
    <3>6. k * size = size * k /\ max * size = max * c /\ size * k \in Nat /\ max * c \in Nat
      BY <2>1, <2>4, <3>2, <3>3
    <3> QED BY <2>1, <2>4, <3>3, <3>5, <3>6
  <2> QED BY <2>4, <2>5
<1> QED BY <1>1, <1>2

\* Each row is in the group of the first row of its size.
LEMMA GroupedCuts ==
  ASSUME NEW items \in Seq(1..TableRows), IsOneToOne(items)
  PROVE  CutsUp(Grouped(items), Members(items), 1..TableRows)
<1> DEFINE X == 1..TableRows
           R == ToSet(items)
           firsts == {r \in R : \A q \in Alike(items, r) : r <= q}
           leads == Leads(items)
           N == Len(leads)
           group(g) == Sublist(items, Alike(items, leads[g]))
           parts == [g \in 1..N |-> createBatches(group(g), rowSize(leads[g]))]
           G == [g \in 1..N |-> Alike(items, leads[g])]
<1>1. R = Members(items) /\ R \subseteq X /\ X \subseteq Nat
  <2>1. R = Members(items)
    BY ToSetIsMembers
  <2>2. Members(items) \subseteq X
    BY ElementOfSeq DEF Members
  <2> QED BY <2>1, <2>2, SwarmRunAssumption
<1>2. \A r \in X : rowSize(r) \in Nat \ {0}
  BY ClampFacts, SwarmRunAssumption DEF rowSize
<1>3. /\ leads \in Seq(X) /\ N \in Nat /\ Members(leads) = firsts /\ IsOneToOne(leads)
  <2>1. leads = Sublist(items, firsts)
    BY DEF Leads
  <2>2. firsts \subseteq Members(items)
    BY <1>1
  <2> HIDE DEF leads, firsts
  <2>3. leads \in Seq(X) /\ Members(leads) = Members(items) \cap firsts /\ IsOneToOne(leads)
    BY <2>1, SublistFacts
  <2> QED BY <2>2, <2>3, LenProperties
<1> HIDE DEF leads
<1>4. \A g \in 1..N : leads[g] \in R /\ leads[g] \in X /\ leads[g] \in firsts
  BY <1>1, <1>3 DEF Members
<1>5. ASSUME NEW g \in 1..N
      PROVE  CutsUp(parts[g], G[g], X)
  <2>1. Alike(items, leads[g]) \subseteq Members(items)
    BY <1>1 DEF Alike
  <2>2. /\ group(g) \in Seq(X) /\ IsOneToOne(group(g))
        /\ Members(group(g)) = Alike(items, leads[g])
    <3> DEFINE S == Alike(items, leads[g])
    <3> HIDE DEF S
    <3>1. /\ Sublist(items, S) \in Seq(X) /\ IsOneToOne(Sublist(items, S))
          /\ Members(Sublist(items, S)) = Members(items) \cap S
      BY SublistFacts
    <3> QED BY <2>1, <3>1 DEF S
  <2>3. rowSize(leads[g]) \in Nat \ {0}
    BY <1>2, <1>4
  <2> HIDE DEF group, X
  <2>4. CutsUp(createBatches(group(g), rowSize(leads[g])), Members(group(g)), X)
    BY <2>2, <2>3, BatchesCut
  <2> QED BY <2>2, <2>4
<1>6. ASSUME NEW g \in 1..N, NEW h \in 1..N, g # h
      PROVE  G[g] \cap G[h] = {}
  <2> SUFFICES ASSUME NEW q \in Alike(items, leads[g]), q \in Alike(items, leads[h])
               PROVE  FALSE
    OBVIOUS
  <2>1. rowSize(leads[g]) = rowSize(leads[h])
    BY DEF Alike
  <2>2. leads[g] \in Alike(items, leads[h]) /\ leads[h] \in Alike(items, leads[g])
    BY <1>4, <2>1 DEF Alike
  <2>3. leads[g] <= leads[h] /\ leads[h] <= leads[g] /\ leads[g] \in Nat /\ leads[h] \in Nat
    BY <1>1, <1>4, <2>2
  <2>4. leads[g] = leads[h]
    BY <2>3
  <2> QED BY <1>3, <1>6, <2>4 DEF IsOneToOne
<1>7. UNION {G[g] : g \in 1..N} = R
  <2>1. \A g \in 1..N : G[g] \subseteq R
    BY DEF Alike
  <2>2. ASSUME NEW q \in R
        PROVE  \E g \in 1..N : q \in G[g]
    <3>1. Alike(items, q) \in SUBSET Nat /\ q \in Alike(items, q)
      BY <1>1 DEF Alike
    <3>2. PICK r \in Alike(items, q) : \A s \in Alike(items, q) : r <= s
      BY <3>1, LeastNumber
    <3>3. r \in R /\ rowSize(q) = rowSize(r)
      BY <3>2 DEF Alike
    <3>4. Alike(items, r) = Alike(items, q)
      BY <3>3 DEF Alike
    <3>5. r \in firsts /\ q \in Alike(items, r)
      BY <3>1, <3>2, <3>3, <3>4
    <3>6. PICK g \in 1..N : leads[g] = r
      BY <1>3, <3>5 DEF Members
    <3> QED BY <3>5, <3>6
  <2> QED BY <2>1, <2>2
<1>8. parts \in Seq(Seq(Seq(X))) /\ Len(parts) = N
  <2>1. \A g \in 1..N : parts[g] \in Seq(Seq(X))
    BY <1>5 DEF CutsUp
  <2> DEFINE cut(g) == createBatches(group(g), rowSize(leads[g]))
  <2>2. \A g \in 1..N : cut(g) \in Seq(Seq(X))
    BY <2>1
  <2> HIDE DEF cut, N
  <2>3. [g \in 1..N |-> cut(g)] \in [1..N -> Seq(Seq(X))]
    BY <2>2
  <2>4. [g \in 1..N |-> cut(g)] \in Seq(Seq(Seq(X))) /\ Len([g \in 1..N |-> cut(g)]) = N
    BY <1>3, <2>3
  <2> QED BY <2>4 DEF cut
<1>9. Grouped(items) = FlattenSeq(parts)
  BY DEF Grouped, leads
<1> HIDE DEF parts, G, N, X, R
<1>10. CutsUp(FlattenSeq(parts), UNION {G[g] : g \in 1..N}, X)
  BY <1>3, <1>5, <1>6, <1>8, FlattenCuts
<1> QED BY <1>1, <1>7, <1>9, <1>10 DEF X

\* However the batch size is given, the batches cut up the selected rows.
LEMMA GroupsCut ==
  ASSUME NEW items \in Seq(1..TableRows), IsOneToOne(items),
         NEW max \in Nat \ {0}, NEW batchSize \in BatchSizes
  PROVE  LET batches == resolveBatchGroups(items, max, batchSize)
         IN /\ CutsUp(batches, Members(items), 1..TableRows)
            /\ batchSize.kind = "auto" /\ Len(items) <= max * MaxBatchSize => Len(batches) <= max
<1> DEFINE batches == resolveBatchGroups(items, max, batchSize)
           n == Len(items)
<1>1. n \in Nat
  BY LenProperties
<1>2. CASE batchSize.kind = "auto"
  <2> DEFINE size == AutoSize(n, max)
  <2>1. batches = createBatches(items, size)
    BY <1>2 DEF resolveBatchGroups
  <2>2. size \in Nat \ {0} /\ (n <= max * MaxBatchSize => (n + size - 1) \div size <= max)
    BY <1>1, AutoFacts
  <2> HIDE DEF size, batches
  <2>3. /\ CutsUp(createBatches(items, size), Members(items), 1..TableRows)
        /\ Len(createBatches(items, size)) = (n + size - 1) \div size
    BY <2>2, BatchesCut
  <2> QED BY <2>1, <2>2, <2>3 DEF batches
<1>3. CASE batchSize.kind = "by row"
  <2>1. batches = Grouped(items)
    BY <1>3 DEF resolveBatchGroups
  <2> QED BY <1>3, <2>1, GroupedCuts
<1>4. CASE batchSize.kind = "number"
  <2> DEFINE size == clampBatchSize(batchSize.size)
  <2>1. batches = createBatches(items, size)
    BY <1>4 DEF resolveBatchGroups
  <2>2. size \in Nat \ {0}
    <3>1. batchSize.size \in {0} \cup 0..MaxBatchSize + 1
      BY DEF BatchSizes
    <3>2. batchSize.size \in Int
      BY <3>1
    <3> QED BY <3>2, ClampFacts
  <2> HIDE DEF size, batches
  <2>3. CutsUp(createBatches(items, size), Members(items), 1..TableRows)
    BY <2>2, BatchesCut
  <2> QED BY <1>4, <2>1, <2>3 DEF batches
<1>5. batchSize.kind \in {"auto", "by row", "number"}
  BY DEF BatchSizes
<1> QED BY <1>2, <1>3, <1>4, <1>5

-----------------------------------------------------------------------------
(* One call of run(): dispatch and results.                                *)

LEMMA SwarmRunStarts ==
  SwarmRunInit => SwarmRunInv
<1> SUFFICES ASSUME SwarmRunInit
             PROVE  SwarmRunInv
  OBVIOUS
<1>1. /\ matched = <<>> /\ units = <<>> /\ unfilled = {} /\ unitResults = <<>> /\ answered = {}
      /\ limit = 1 /\ idx = 1 /\ callNo = 0 /\ callPhase = "idle"
      /\ holding = [w \in Workers |-> 0] /\ column = [r \in 1..TableRows |-> 0]
      /\ automatic \in BOOLEAN
  BY DEF SwarmRunInit
<1>2. /\ <<>> \in Seq(1..TableRows) /\ <<>> \in Seq(Seq(1..TableRows)) /\ Len(<<>>) = 0
      /\ Members(<<>>) = {} /\ 1..0 = {} /\ IsOneToOne(<<>>)
  BY EmptySeq DEF Members, IsOneToOne
<1>3. 1 \in Workers /\ Workers \subseteq Nat
  BY SwarmRunAssumption DEF Workers
<1>4. UnitsOK
  <2>1. Batched = {}
    BY <1>1, <1>2 DEF Batched
  <2> QED BY <1>1, <1>2, <1>3, <2>1, SwarmRunAssumption DEF UnitsOK
<1>5. AnswersOK
  <2>1. unitResults \in [1..Len(units) -> Results]
    BY <1>1, <1>2
  <2>2. idx \in 1..Len(units) + 1 /\ holding \in [Workers -> 0..Len(units)] /\ 1..Len(units) = {}
        /\ \A w \in Workers : holding[w] = 0
    BY <1>1, <1>2
  <2>3. Replied = {}
    BY <1>1, <1>2 DEF Replied
  <2> QED BY <1>1, <2>1, <2>2, <2>3 DEF AnswersOK
<1> QED BY <1>1, <1>4, <1>5, SwarmRunAssumption DEF SwarmRunInv, RunAccountsForEveryRow

\* Batches of all selected rows, and the units that are left of them.
LEMMA UnitsFacts ==
  ASSUME NEW batches, NEW S \in SUBSET (1..TableRows), NEW lacking,
         CutsUp(batches, S, 1..TableRows)
  PROVE  LET left == buildDispatchUnits(batches, lacking)
             out  == {r \in lacking : \E b \in DOMAIN batches : batches[b] = <<r>>}
         IN /\ left \in Seq(Seq(1..TableRows)) /\ Len(left) <= Len(batches)
            /\ out \subseteq S
            /\ \A r : r \in S \ out <=> \E u \in 1..Len(left) : r \in Members(left[u])
            /\ \A u, v \in 1..Len(left) : u # v => Members(left[u]) \cap Members(left[v]) = {}
<1> DEFINE X == 1..TableRows
           N == Len(batches)
           sent == {b \in ToSet(batches) : ~(Len(b) = 1 /\ b[1] \in lacking)}
           left == buildDispatchUnits(batches, lacking)
           out == {r \in lacking : \E b \in DOMAIN batches : batches[b] = <<r>>}
<1>1. /\ batches \in Seq(Seq(X)) /\ N \in Nat /\ DOMAIN batches = 1..N
      /\ \A b \in 1..N : batches[b] # <<>> /\ Members(batches[b]) \subseteq S
      /\ \A r \in S : \E b \in 1..N : r \in Members(batches[b])
      /\ \A b, c \in 1..N : b # c => Members(batches[b]) \cap Members(batches[c]) = {}
  BY LenProperties DEF CutsUp
<1>2. \A b \in 1..N : /\ batches[b] \in Seq(X) /\ Len(batches[b]) \in Nat \ {0}
                      /\ batches[b][1] \in Members(batches[b])
  <2> TAKE b \in 1..N
  <2>1. batches[b] \in Seq(X) /\ batches[b] # <<>>
    BY <1>1, ElementOfSeq
  <2>2. Len(batches[b]) \in Nat \ {0}
    BY <2>1, EmptySeq
  <2> QED BY <2>1, <2>2 DEF Members
<1>3. IsOneToOne(batches)
  <2> SUFFICES ASSUME NEW b \in 1..N, NEW c \in 1..N, batches[b] = batches[c], b # c
               PROVE  FALSE
    BY DEF IsOneToOne
  <2> QED BY <1>1, <1>2
<1>4. ToSet(batches) = {batches[b] : b \in 1..N} /\ sent \subseteq ToSet(batches)
  BY <1>1 DEF ToSet
<1>5. /\ left \in Seq(Seq(X)) /\ IsOneToOne(left) /\ Len(left) <= N
      /\ {left[u] : u \in 1..Len(left)} = sent
  <2>1. left = Sublist(batches, sent)
    BY DEF buildDispatchUnits
  <2> HIDE DEF left, sent
  <2>2. /\ left \in Seq(Seq(X)) /\ Members(left) = Members(batches) \cap sent
        /\ Len(left) \in 0..N /\ IsOneToOne(left)
    BY <1>1, <1>3, <2>1, SublistFacts
  <2>3. Members(batches) = ToSet(batches)
    BY <1>1, ToSetIsMembers
  <2> QED BY <1>4, <2>2, <2>3 DEF Members
<1> HIDE DEF left
<1>6. \A u \in 1..Len(left) : \E b \in 1..N : batches[b] = left[u] /\ batches[b] \in sent
  <2> TAKE u \in 1..Len(left)
  <2>1. left[u] \in sent
    <3> HIDE DEF sent
    <3> QED BY <1>5
  <2>2. left[u] \in {batches[b] : b \in 1..N}
    <3> HIDE DEF sent
    <3> QED BY <1>4, <2>1
  <2> QED BY <2>1, <2>2
<1>7. \A b \in 1..N : batches[b] \in sent <=> ~\E r \in lacking : batches[b] = <<r>>
  <2> TAKE b \in 1..N
  <2>1. batches[b] \in ToSet(batches)
    BY <1>4
  <2>2. Len(batches[b]) = 1 => batches[b] = <<batches[b][1]>>
    BY <1>2
  <2>3. \A r : Len(<<r>>) = 1 /\ <<r>>[1] = r
    OBVIOUS
  <2> QED BY <2>1, <2>2, <2>3
<1>8. \A r : Members(<<r>>) = {r}
  BY DEF Members
<1>9. out \subseteq S
  BY <1>1, <1>8
<1>10. ASSUME NEW r, NEW u \in 1..Len(left), r \in Members(left[u])
      PROVE  r \in S \ out
  <2>1. PICK b \in 1..N : batches[b] = left[u] /\ batches[b] \in sent
    BY <1>6
  <2>2. r \in S
    BY <1>1, <1>10, <2>1
  <2>3. ASSUME NEW c \in 1..N, batches[c] = <<r>>, r \in lacking
        PROVE  FALSE
    <3>1. r \in Members(batches[c]) /\ r \in Members(batches[b])
      BY <1>8, <1>10, <2>1, <2>3
    <3>2. b = c
      BY <1>1, <3>1
    <3> QED BY <1>7, <2>1, <2>3, <3>2
  <2> QED BY <1>1, <2>2, <2>3
<1>11. ASSUME NEW r \in S, r \notin out
       PROVE  \E u \in 1..Len(left) : r \in Members(left[u])
  <2>1. PICK b \in 1..N : r \in Members(batches[b])
    BY <1>1
  <2>2. ASSUME NEW q \in lacking, batches[b] = <<q>>
        PROVE  FALSE
    <3>1. r = q
      BY <1>8, <2>1, <2>2
    <3> QED BY <1>1, <1>11, <2>2, <3>1
  <2>3. batches[b] \in sent
    BY <1>7, <2>2
  <2>4. PICK u \in 1..Len(left) : left[u] = batches[b]
    BY <1>5, <2>3
  <2> QED BY <2>1, <2>4
<1>12. ASSUME NEW u \in 1..Len(left), NEW v \in 1..Len(left), u # v
       PROVE  Members(left[u]) \cap Members(left[v]) = {}
  <2>1. left[u] # left[v]
    BY <1>5, <1>12 DEF IsOneToOne
  <2>2. PICK b \in 1..N, c \in 1..N : batches[b] = left[u] /\ batches[c] = left[v]
    BY <1>6
  <2> QED BY <1>1, <2>1, <2>2
<1> QED BY <1>5, <1>9, <1>10, <1>11, <1>12 DEF left

LEMMA StartKeeps ==
  ASSUME SwarmRunInv, NEW filter, NEW size \in BatchSizes, NEW max \in Workers, NEW lacking,
         StartRun(filter, size, max, lacking)
  PROVE  SwarmRunInv'
<1> DEFINE S == {r \in 1..TableRows : evaluateFilter(filter, r)}
           batches == resolveBatchGroups(matched', max, size)
           X == 1..TableRows
<1>1. /\ callNo' = callNo + 1 /\ callNo < MaxCalls /\ limit' = max
      /\ automatic' = (size.kind = "auto")
      /\ matched' = Sublist(TableOrder, S)
      /\ units' = buildDispatchUnits(batches, lacking)
      /\ unfilled' = {r \in lacking : \E b \in DOMAIN batches : batches[b] = <<r>>}
      /\ idx' = 1 /\ holding' = [w \in Workers |-> 0]
      /\ unitResults' = [u \in DOMAIN units' |-> <<>>] /\ answered' = {}
      /\ column' = column
      /\ callPhase' \in {"returned", "dispatching", "threw"}
      /\ callPhase' = "returned" => matched' = <<>>
  BY DEF StartRun
<1>2. matched' \in Seq(X) /\ IsOneToOne(matched')
  <2>1. TableOrder \in Seq(X) /\ Len(TableOrder) = TableRows
    BY SwarmRunAssumption DEF TableOrder
  <2>2. IsOneToOne(TableOrder)
    BY <2>1 DEF TableOrder, IsOneToOne
  <2> HIDE DEF S, X
  <2>3. Sublist(TableOrder, S) \in Seq(X) /\ IsOneToOne(Sublist(TableOrder, S))
    BY <2>1, <2>2, SublistFacts
  <2> QED BY <1>1, <2>3
<1> HIDE DEF S
<1>3. max \in Nat \ {0}
  BY SwarmRunAssumption DEF Workers
<1>4. /\ CutsUp(batches, Members(matched'), X)
      /\ size.kind = "auto" /\ Len(matched') <= max * MaxBatchSize => Len(batches) <= max
  BY <1>2, <1>3, GroupsCut
<1> HIDE DEF batches
<1>5. Members(matched') \in SUBSET X
  BY <1>2, ElementOfSeq DEF Members
<1>6. /\ units' \in Seq(Seq(X)) /\ Len(units') <= Len(batches)
      /\ unfilled' \subseteq Members(matched')
      /\ \A r : r \in Members(matched') \ unfilled' <=> \E u \in 1..Len(units') : r \in Members(units'[u])
      /\ \A u, v \in 1..Len(units') : u # v => Members(units'[u]) \cap Members(units'[v]) = {}
  <2> DEFINE chosen == Members(matched')
             left == buildDispatchUnits(batches, lacking)
             out == {r \in lacking : \E b \in DOMAIN batches : batches[b] = <<r>>}
  <2>1. chosen \in SUBSET (1..TableRows) /\ CutsUp(batches, chosen, 1..TableRows)
    BY <1>4, <1>5
  <2> HIDE DEF chosen
  <2>2. /\ left \in Seq(Seq(1..TableRows)) /\ Len(left) <= Len(batches)
        /\ out \subseteq chosen
        /\ \A r : r \in chosen \ out <=> \E u \in 1..Len(left) : r \in Members(left[u])
        /\ \A u, v \in 1..Len(left) : u # v => Members(left[u]) \cap Members(left[v]) = {}
    BY <2>1, UnitsFacts
  <2>3. units' = left /\ unfilled' = out
    BY <1>1
  <2> HIDE DEF left, out
  <2> QED BY <2>2, <2>3 DEF chosen
<1>7. Len(units') \in Nat /\ DOMAIN units' = 1..Len(units') /\ Len(batches) \in Nat
  BY <1>4, <1>6, LenProperties DEF CutsUp
<1>8. UnitsOK'
  <2>1. automatic' \in BOOLEAN /\ (automatic' <=> size.kind = "auto")
    BY <1>1
  <2>2. Len(units') <= max \/ ~(automatic' /\ Len(matched') <= max * MaxBatchSize)
    BY <1>3, <1>4, <1>6, <1>7, <2>1
  <2>3. Members(matched') \ unfilled' = Batched'
    BY <1>6 DEF Batched
  <2> QED BY <1>1, <1>2, <1>6, <2>1, <2>2, <2>3 DEF UnitsOK, X
<1>9. AnswersOK'
  <2>1. unitResults' \in [1..Len(units') -> Results] /\ \A u \in 1..Len(units') : unitResults'[u] = <<>>
    BY <1>1, <1>7 DEF Results
  <2>2. idx' \in 1..Len(units') + 1 /\ holding' \in [Workers -> 0..Len(units')]
        /\ \A w \in Workers : holding'[w] = 0
    BY <1>1, <1>7
  <2>3. \A u \in 1..Len(units') : u >= idx'
    BY <1>1
  <2>4. Replied' = {}
    BY <2>1 DEF Replied
  <2> QED BY <1>1, <2>1, <2>2, <2>3, <2>4 DEF AnswersOK
<1>10. /\ callNo' \in 0..MaxCalls /\ column' \in [1..TableRows -> 0..callNo']
       /\ \A r \in 1..TableRows : column'[r] < callNo'
  <2>1. callNo \in Nat /\ callNo' \in 0..MaxCalls /\ column \in [1..TableRows -> 0..callNo]
    BY <1>1, SwarmRunAssumption DEF SwarmRunInv
  <2>2. 0..callNo \subseteq 0..callNo' /\ \A n \in 0..callNo : n < callNo'
    BY <1>1, <2>1
  <2> QED BY <1>1, <2>1, <2>2
<1> QED BY <1>1, <1>8, <1>9, <1>10 DEF SwarmRunInv, RunAccountsForEveryRow

\* Nothing after the start touches how the rows were cut up.
LEMMA UnitsStay ==
  ASSUME UnitsOK, UNCHANGED <<limit, automatic, matched, unfilled, units>>
  PROVE  UnitsOK'
<1>1. Batched' = Batched
  BY DEF Batched
<1> QED BY <1>1 DEF UnitsOK

LEMMA TakeKeeps ==
  ASSUME SwarmRunInv, NEW w \in Workers, Take(w)
  PROVE  SwarmRunInv'
<1>1. /\ callPhase = "dispatching" /\ holding[w] = 0 /\ idx <= Len(units)
      /\ holding' = [holding EXCEPT ![w] = idx] /\ idx' = idx + 1
      /\ UNCHANGED <<column, callNo, callPhase, limit, automatic, matched, unfilled, units,
                     unitResults, answered, summary>>
  BY DEF Take
<1>2. /\ Len(units) \in Nat /\ idx \in 1..Len(units) /\ idx' \in 1..Len(units) + 1
      /\ holding \in [Workers -> 0..Len(units)] /\ \A v \in Workers : holding[v] < idx
  BY <1>1, LenProperties DEF SwarmRunInv, UnitsOK, AnswersOK
<1>3. /\ holding' \in [Workers -> 0..Len(units)] /\ holding'[w] = idx
      /\ \A v \in Workers \ {w} : holding'[v] = holding[v]
  BY <1>1, <1>2
<1>4. UnitsOK'
  BY <1>1, UnitsStay DEF SwarmRunInv
<1>5. AnswersOK'
  <2>1. \A v \in Workers : holding'[v] < idx'
    BY <1>1, <1>2, <1>3
  <2>2. \A u, v \in Workers : u # v /\ holding'[u] # 0 => holding'[u] # holding'[v]
    BY <1>1, <1>2, <1>3 DEF SwarmRunInv, AnswersOK
  <2>3. ASSUME NEW u \in 1..Len(units)
        PROVE  (u >= idx' \/ Awaited(u)') <=> (u >= idx \/ Awaited(u))
    <3>1. CASE u = idx
      <4>1. Awaited(u)'
        BY <1>3, <3>1 DEF Awaited
      <4> QED BY <1>2, <3>1, <4>1
    <3>2. CASE u # idx
      <4>1. Awaited(u)' <=> Awaited(u)
        BY <1>1, <1>2, <1>3, <3>2 DEF Awaited
      <4>2. u >= idx' <=> u >= idx
        BY <1>1, <1>2, <3>2
      <4> QED BY <4>1, <4>2
    <3> QED BY <3>1, <3>2
  <2>4. Results' = Results /\ Replied' = Replied
    BY <1>1 DEF Results, Replied
  <2> QED BY <1>1, <1>2, <1>3, <2>1, <2>2, <2>3, <2>4 DEF SwarmRunInv, AnswersOK
<1> QED BY <1>1, <1>4, <1>5 DEF SwarmRunInv, RunAccountsForEveryRow

LEMMA AnswerKeeps ==
  ASSUME SwarmRunInv, NEW w \in Workers, NEW got \in SUBSET (1..TableRows), Answer(w, got)
  PROVE  SwarmRunInv'
<1> DEFINE n == holding[w]
<1>1. /\ callPhase = "dispatching" /\ n # 0 /\ got \subseteq ToSet(units[n])
      /\ unitResults' = [unitResults EXCEPT ![n] = <<got>>]
      /\ answered' = answered \cup got
      /\ holding' = [holding EXCEPT ![w] = 0]
      /\ UNCHANGED <<column, callNo, callPhase, limit, automatic, matched, unfilled, units, idx,
                     summary>>
  BY DEF Answer, Prompted, Slot
<1>2. /\ Len(units) \in Nat /\ n \in 1..Len(units) /\ n < idx /\ idx \in 1..Len(units) + 1
      /\ holding \in [Workers -> 0..Len(units)] /\ unitResults \in [1..Len(units) -> Results]
  BY <1>1, LenProperties DEF SwarmRunInv, UnitsOK, AnswersOK
<1>3. got \subseteq Members(units[n])
  <2>1. units[n] \in Seq(1..TableRows)
    BY <1>2, ElementOfSeq DEF SwarmRunInv, UnitsOK
  <2> QED BY <1>1, <2>1, ToSetIsMembers
<1>4. \A v \in Workers \ {w} : holding[v] # n
  BY <1>1 DEF SwarmRunInv, AnswersOK
<1>5. unitResults[n] = <<>>
  BY <1>2 DEF SwarmRunInv, AnswersOK, Awaited
<1> HIDE DEF n
<1>6. /\ holding' \in [Workers -> 0..Len(units)] /\ holding'[w] = 0
      /\ \A v \in Workers \ {w} : holding'[v] = holding[v]
  BY <1>1, <1>2
<1>7. /\ unitResults' \in [1..Len(units) -> Results] /\ unitResults'[n] = <<got>>
      /\ \A u \in 1..Len(units) \ {n} : unitResults'[u] = unitResults[u]
  <2>1. <<got>> \in Results
    BY DEF Results
  <2> QED BY <1>1, <1>2, <2>1
<1>8. <<got>> # <<>> /\ <<got>>[1] = got
  OBVIOUS
<1>9. UnitsOK'
  BY <1>1, UnitsStay DEF SwarmRunInv
<1>10. AnswersOK'
  <2>1. \A v \in Workers : holding'[v] < idx'
    BY <1>1, <1>2, <1>6 DEF SwarmRunInv, AnswersOK
  <2>2. \A u, v \in Workers : u # v /\ holding'[u] # 0 => holding'[u] # holding'[v]
    BY <1>6 DEF SwarmRunInv, AnswersOK
  <2>3. ASSUME NEW u \in 1..Len(units)
        PROVE  IF u >= idx' \/ Awaited(u)' THEN unitResults'[u] = <<>>
               ELSE unitResults'[u] # <<>> /\ unitResults'[u][1] \subseteq Members(units[u])
    <3>1. CASE u = n
      <4>1. ~(u >= idx')
        BY <1>1, <1>2, <3>1
      <4>2. ~Awaited(u)'
        BY <1>2, <1>4, <1>6, <3>1 DEF Awaited
      <4> QED BY <1>3, <1>7, <1>8, <3>1, <4>1, <4>2
    <3>2. CASE u # n
      <4>1. Awaited(u)' <=> Awaited(u)
        <5>1. holding[w] = n /\ u # 0
          BY <1>2 DEF n
        <5> QED BY <1>6, <3>2, <5>1 DEF Awaited
      <4>2. unitResults'[u] = unitResults[u]
        BY <1>7, <3>2
      <4> QED BY <1>1, <4>1, <4>2 DEF SwarmRunInv, AnswersOK
    <3> QED BY <3>1, <3>2
  <2>4. ASSUME NEW r
        PROVE  r \in answered' <=>
                 \E u \in 1..Len(units) : unitResults'[u] # <<>> /\ r \in unitResults'[u][1]
    <3>1. r \in answered <=>
            \E u \in 1..Len(units) : unitResults[u] # <<>> /\ r \in unitResults[u][1]
      BY DEF SwarmRunInv, AnswersOK, Replied
    <3>2. r \in got <=> unitResults'[n] # <<>> /\ r \in unitResults'[n][1]
      BY <1>7, <1>8
    <3> QED BY <1>1, <1>2, <1>5, <1>7, <3>1, <3>2
  <2>5. Results' = Results /\ answered' = Replied'
    BY <1>1, <2>4 DEF Results, Replied
  <2> QED BY <1>1, <1>2, <1>6, <1>7, <2>1, <2>2, <2>3, <2>5 DEF AnswersOK
<1> QED BY <1>1, <1>9, <1>10 DEF SwarmRunInv, RunAccountsForEveryRow

\* Every unit has its answer when the workers are through.
LEMMA FinishKeeps ==
  ASSUME SwarmRunInv, FinishRun
  PROVE  SwarmRunInv'
<1>1. /\ idx > Len(units) /\ (\A w \in Workers : holding[w] = 0) /\ callPhase = "dispatching"
      /\ column' = [r \in 1..TableRows |-> IF r \in Completed THEN callNo ELSE column[r]]
      /\ summary' = Tally /\ callPhase' \in {"returned", "threw"}
      /\ UNCHANGED <<callNo, limit, automatic, matched, unfilled, units, idx, holding,
                     unitResults, answered>>
  BY DEF FinishRun
<1>2. /\ Len(units) \in Nat /\ DOMAIN units = 1..Len(units) /\ idx \in 1..Len(units) + 1
      /\ \A u \in 1..Len(units) : units[u] \in Seq(1..TableRows)
  BY LenProperties, ElementOfSeq DEF SwarmRunInv, UnitsOK, AnswersOK
<1>3. \A u \in 1..Len(units) : ToSet(units[u]) = Members(units[u])
  BY <1>2, ToSetIsMembers
<1>4. \A u \in 1..Len(units) : unitResults[u] # <<>> /\ unitResults[u][1] \subseteq Members(units[u])
  <2> TAKE u \in 1..Len(units)
  <2>1. ~(u >= idx) /\ ~Awaited(u)
    BY <1>1, <1>2 DEF Awaited
  <2> QED BY <2>1 DEF SwarmRunInv, AnswersOK
<1>5. Completed = answered
  <2>1. \A u \in 1..Len(units) : Unpacked(units[u], unitResults[u][1]) = unitResults[u][1]
    BY <1>3, <1>4 DEF Unpacked
  <2>2. \A r : r \in Completed <=> \E u \in 1..Len(units) : r \in Unpacked(units[u], unitResults[u][1])
    BY <1>2 DEF Completed
  <2>3. \A r : r \in answered <=>
          \E u \in 1..Len(units) : unitResults[u] # <<>> /\ r \in unitResults[u][1]
    BY DEF SwarmRunInv, AnswersOK, Replied
  <2> QED BY <1>4, <2>1, <2>2, <2>3
<1>6. Dispatched = Members(matched) \ unfilled
  <2>1. \A r : r \in Dispatched <=> \E u \in 1..Len(units) : r \in Members(units[u])
    BY <1>2, <1>3 DEF Dispatched
  <2>2. Dispatched = Batched
    BY <2>1 DEF Batched
  <2> QED BY <2>2 DEF SwarmRunInv, UnitsOK
<1>7. Completed \subseteq Dispatched
  BY <1>2 DEF Completed, Dispatched, Unpacked
<1>8. /\ IsFiniteSet(Members(matched)) /\ Cardinality(Members(matched)) = Len(matched)
      /\ Members(matched) \subseteq 1..TableRows /\ unfilled \subseteq Members(matched)
      /\ Len(matched) \in Nat
  <2>1. matched \in Seq(1..TableRows) /\ IsOneToOne(matched) /\ unfilled \subseteq Members(matched)
    BY DEF SwarmRunInv, UnitsOK
  <2>2. Members(matched) \subseteq 1..TableRows
    BY <2>1, ElementOfSeq DEF Members
  <2> QED BY <2>1, <2>2, OneToOneLength, LenProperties
<1>9. Cardinality(Completed) + (Cardinality(Dispatched \ Completed) + Cardinality(unfilled))
        = Len(matched)
  <2> DEFINE M == Members(matched)
             D == Dispatched
             C == Completed
             O == unfilled
  <2>1. IsFiniteSet(M) /\ D = M \ O /\ O \subseteq M /\ C \subseteq D /\ Cardinality(M) = Len(matched)
    BY <1>6, <1>7, <1>8
  <2> HIDE DEF M, D, C, O
  <2>2. IsFiniteSet(D) /\ IsFiniteSet(C) /\ IsFiniteSet(O) /\ M \cap O = O /\ D \cap C = C
    BY <2>1, FS_Subset
  <2>3. Cardinality(D) = Cardinality(M) - Cardinality(O)
        /\ Cardinality(D \ C) = Cardinality(D) - Cardinality(C)
    BY <2>1, <2>2, FS_Difference
  <2>4. Cardinality(C) \in Nat /\ Cardinality(O) \in Nat /\ Cardinality(M) \in Nat
    BY <2>1, <2>2, FS_CardinalityType
  <2>5. Cardinality(C) + (Cardinality(D \ C) + Cardinality(O)) = Cardinality(M)
    BY <2>3, <2>4
  <2> QED BY <2>1, <2>5 DEF M, D, C, O
<1>10. summary'.completed + summary'.failed + summary'.skipped = TableRows
  <2>1. /\ summary'.completed = Cardinality(Completed)
        /\ summary'.failed = Cardinality(Dispatched \ Completed) + Cardinality(unfilled)
        /\ summary'.skipped = TableRows - Len(matched)
    BY <1>1 DEF Tally
  <2>2. Cardinality(Completed) \in Nat /\ Cardinality(Dispatched \ Completed) \in Nat
        /\ Cardinality(unfilled) \in Nat
    <3>1. IsFiniteSet(Completed) /\ IsFiniteSet(Dispatched \ Completed) /\ IsFiniteSet(unfilled)
      BY <1>6, <1>7, <1>8, FS_Subset
    <3> QED BY <3>1, FS_CardinalityType
  <2>3. TableRows \in Nat /\ Len(matched) \in Nat
    BY <1>8, SwarmRunAssumption
  <2> DEFINE done == Cardinality(Completed)
             lost == Cardinality(Dispatched \ Completed) + Cardinality(unfilled)
             n == Len(matched)
  <2>4. done \in Nat /\ lost \in Nat /\ n \in Nat /\ done + lost = n
    BY <1>9, <2>2, <2>3
  <2>5. /\ summary'.completed = done /\ summary'.failed = lost
        /\ summary'.skipped = TableRows - n
    BY <2>1
  <2> HIDE DEF done, lost, n
  <2> QED BY <2>3, <2>4, <2>5
<1>11. /\ column' \in [1..TableRows -> 0..callNo]
       /\ {r \in 1..TableRows : column'[r] = callNo} = answered
  <2>1. callNo \in Nat /\ column \in [1..TableRows -> 0..callNo]
        /\ \A r \in 1..TableRows : column[r] < callNo
    BY <1>1, SwarmRunAssumption DEF SwarmRunInv
  <2>2. answered \subseteq 1..TableRows
    BY <1>5, <1>6, <1>7, <1>8
  <2>3. \A r \in 1..TableRows : column'[r] = IF r \in answered THEN callNo ELSE column[r]
    BY <1>1, <1>5
  <2>4. column' \in [1..TableRows -> 0..callNo]
    BY <1>1, <2>1
  <2>5. \A r \in 1..TableRows : column'[r] = callNo <=> r \in answered
    BY <2>1, <2>3
  <2> QED BY <2>2, <2>4, <2>5
<1>12. UnitsOK'
  BY <1>1, UnitsStay DEF SwarmRunInv
<1>13. AnswersOK'
  <2>1. Replied' = Replied
    BY <1>1 DEF Replied
  <2> QED BY <1>1, <2>1 DEF SwarmRunInv, AnswersOK, Awaited, Results
<1> QED BY <1>1, <1>10, <1>11, <1>12, <1>13 DEF SwarmRunInv, RunAccountsForEveryRow

LEMMA SwarmRunKeeps ==
  SwarmRunInv /\ [SwarmRunNext]_swarmRunVars => SwarmRunInv'
<1> SUFFICES ASSUME SwarmRunInv, [SwarmRunNext]_swarmRunVars
             PROVE  SwarmRunInv'
  OBVIOUS
<1>1. CASE UNCHANGED swarmRunVars
  <2>1. UnitsOK' /\ Replied' = Replied
    BY <1>1, UnitsStay DEF swarmRunVars, SwarmRunInv, Replied
  <2> QED BY <1>1, <2>1 DEF swarmRunVars, SwarmRunInv, AnswersOK, Awaited, Results,
                            RunAccountsForEveryRow
<1> QED BY <1>1, StartKeeps, TakeKeeps, AnswerKeeps, FinishKeeps DEF SwarmRunNext

LEMMA SwarmRunHas ==
  SwarmRunInv => SwarmRunTypeOK /\ BatchesCoverWithinLimit
<1> SUFFICES ASSUME SwarmRunInv
             PROVE  SwarmRunTypeOK /\ BatchesCoverWithinLimit
  OBVIOUS
<1>1. /\ Len(units) \in Nat /\ DOMAIN units = 1..Len(units)
      /\ \A u \in 1..Len(units) : units[u] \in Seq(1..TableRows)
  BY LenProperties, ElementOfSeq DEF SwarmRunInv, UnitsOK
<1>2. \A u \in 1..Len(units) : ToSet(units[u]) = Members(units[u])
  BY <1>1, ToSetIsMembers
<1>3. ToSet(matched) = Members(matched) /\ Members(matched) \subseteq 1..TableRows
  <2>1. matched \in Seq(1..TableRows)
    BY DEF SwarmRunInv, UnitsOK
  <2>2. Members(matched) \subseteq 1..TableRows
    BY <2>1, ElementOfSeq DEF Members
  <2> QED BY <2>1, <2>2, ToSetIsMembers
<1>4. \A r : r \in Dispatched <=> \E u \in 1..Len(units) : r \in Members(units[u])
  BY <1>1, <1>2 DEF Dispatched
<1>5. Dispatched = ToSet(matched) \ unfilled
  <2>1. Dispatched = Batched
    BY <1>4 DEF Batched
  <2> QED BY <1>3, <2>1 DEF SwarmRunInv, UnitsOK
<1>6. answered \subseteq 1..TableRows
  <2> SUFFICES ASSUME NEW r \in answered
               PROVE  r \in 1..TableRows
    OBVIOUS
  <2>1. PICK u \in 1..Len(units) : unitResults[u] # <<>> /\ r \in unitResults[u][1]
    BY DEF SwarmRunInv, AnswersOK, Replied
  <2>2. r \in Members(units[u])
    BY <2>1 DEF SwarmRunInv, AnswersOK
  <2> QED BY <1>3, <1>4, <1>5, <2>2
<1>7. SwarmRunTypeOK
  BY <1>3, <1>6 DEF SwarmRunInv, UnitsOK, AnswersOK, SwarmRunTypeOK
<1>8. BatchesCoverWithinLimit
  BY <1>1, <1>2, <1>5 DEF SwarmRunInv, UnitsOK, BatchesCoverWithinLimit
<1> QED BY <1>7, <1>8

\* What each variable of a call holds; a row without what its instruction names is
\* one of those selected.
THEOREM SwarmRunTypeCorrect == SwarmRunSpec => []SwarmRunTypeOK
<1> QED BY SwarmRunStarts, SwarmRunKeeps, SwarmRunHas, PTL DEF SwarmRunSpec

\* The batches cut up the selected rows, and are no more than the workers when the
\* code chooses their size, for any table, batch sizes and number of workers.
THEOREM BatchesCover == SwarmRunSpec => []BatchesCoverWithinLimit
<1> QED BY SwarmRunStarts, SwarmRunKeeps, SwarmRunHas, PTL DEF SwarmRunSpec

\* What a call reports adds up to the table, and the rows it wrote are those a
\* subagent answered for, in whatever order the batches come back.
THEOREM EveryRowAccountedFor == SwarmRunSpec => []RunAccountsForEveryRow
<1>1. SwarmRunInv => RunAccountsForEveryRow
  BY DEF SwarmRunInv
<1> QED BY <1>1, SwarmRunStarts, SwarmRunKeeps, PTL DEF SwarmRunSpec

-----------------------------------------------------------------------------
(* All parts side by side.                                                 *)

\* Every step of the composition is a step of each part, or leaves it alone.
LEMMA EachPartMoves ==
  [PartsNext]_partVars =>
    /\ [SwarmRunNext]_swarmRunVars /\ [SwarmTableNext]_swarmTableVars
    /\ [CompanionNext]_companionVars /\ [CompanionFramesNext]_companionFramesVars
    /\ [FilterRailNext]_filterRailVars /\ [RailNext]_railVars /\ [TabNext]_tabVars
    /\ [CacheNext]_cacheVars /\ [BreakerNext]_breakerVars
    /\ [CorpusIngestNext]_corpusIngestVars /\ [RegistryNext]_registryVars
BY DEF PartsNext, Rest, partVars

\* The parts whose specification states no fairness run as they do alone.
LEMMA EachPartRuns ==
  PartsSpec => /\ SwarmRunSpec /\ SwarmTableSpec /\ CompanionFramesSpec /\ FilterRailSpec
               /\ TabSpec /\ CacheSpec /\ CorpusIngestSpec /\ RegistrySpec
<1>1. PartsInit => /\ SwarmRunInit /\ SwarmTableInit /\ CompanionFramesInit /\ FilterRailInit
                   /\ TabInit /\ CacheInit /\ CorpusIngestInit /\ RegistryInit
  BY DEF PartsInit
<1> QED BY <1>1, EachPartMoves, PTL
        DEF PartsSpec, SwarmRunSpec, SwarmTableSpec, CompanionFramesSpec, FilterRailSpec,
            TabSpec, CacheSpec, CorpusIngestSpec, RegistrySpec

\* What any variable of any part may hold, in every behaviour of the composition.
THEOREM PartsTypeCorrect == PartsSpec => []PartsTyped
<1>1. PartsSpec => []CompanionTypeOK
  <2>1. PartsInit => CompanionInit
    BY DEF PartsInit
  <2>2. CompanionInv => CompanionTypeOK
    BY DEF CompanionInv
  <2> QED BY <2>1, <2>2, CompanionStarts, CompanionKeeps, EachPartMoves, PTL DEF PartsSpec
<1>2. PartsSpec => []RailTypeOK
  <2>1. PartsInit => RailInit
    BY DEF PartsInit
  <2>2. RailInv => RailTypeOK
    BY DEF RailInv, RailTypeOK, MatterStates
  <2> QED BY <2>1, <2>2, RailStarts, RailKeeps, EachPartMoves, PTL DEF PartsSpec
<1>3. PartsSpec => []BreakerTypeOK
  <2>1. PartsInit => BreakerInit
    BY DEF PartsInit
  <2> QED BY <2>1, BreakerStarts, BreakerKeeps, BreakerTyped, EachPartMoves, PTL DEF PartsSpec
<1>4. PartsSpec => [](/\ SwarmRunTypeOK /\ SwarmTableTypeOK /\ CompanionFramesTypeOK
                      /\ FilterRailTypeOK /\ TabTypeOK /\ CacheTypeOK
                      /\ CorpusIngestTypeOK /\ RegistryTypeOK)
  BY EachPartRuns, SwarmRunTypeCorrect, TableTypeCorrect, FramesTypeCorrect, FilterTypeCorrect,
     TabTypeCorrect, CacheTypeCorrect, CorpusTypeCorrect, RegistryTypeCorrect, PTL
<1>5. (/\ CompanionTypeOK /\ RailTypeOK /\ BreakerTypeOK
       /\ SwarmRunTypeOK /\ SwarmTableTypeOK /\ CompanionFramesTypeOK /\ FilterRailTypeOK
       /\ TabTypeOK /\ CacheTypeOK /\ CorpusIngestTypeOK /\ RegistryTypeOK)
      => PartsTyped
  BY DEF PartsTyped
<1> QED BY <1>1, <1>2, <1>3, <1>4, <1>5, PTL
=============================================================================
