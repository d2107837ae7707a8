----------------------------- MODULE Companion -----------------------------
(***************************************************************************)
(* The brainstorming companion: a page in the browser (scripts/helper.js), *)
(* which sends the user's choices over a WebSocket and keeps reconnecting, *)
(* and the server the agent starts (scripts/server.cjs), which records     *)
(* them in state/events, watches for new screens and tells the page to     *)
(* reload.  A restarted server takes the port and key of the last one, so  *)
(* an open page finds it again.                                            *)
(*                                                                         *)
(* A choice is numbered as it is clicked.  Time is not modelled: whether   *)
(* the page has been cut off long enough for the overlay is a free choice. *)
(***************************************************************************)
EXTENDS Integers, FiniteSets

CONSTANTS
  MaxChoices,  \* bound: choices clicked
  MaxScreens,  \* bound: screens the agent writes
  MaxStops     \* bound: times the server stops or dies

ASSUME CompanionAssumption ==
  MaxChoices \in Nat /\ MaxScreens \in Nat /\ MaxStops \in Nat

VARIABLES
  serverUp,      \* the server process listens
  stops,         \* times it stopped so far
  serverInfo,    \* the file state/server-info is there
  serverStopped, \* the file state/server-stopped is there
  screens,       \* screens written so far
  noticed,       \* screens the running server knows
  events,        \* choices in state/events
  pageState,     \* "loading", "loaded", or "gone": the browser's error page
  socket,        \* the page's WebSocket: "none", "connecting" or "open"
  conn,          \* stops when it opened: the server process at its other end
  timers,        \* reconnect timers pending
  eventQueue,    \* choices waiting for a connection
  tombstone,     \* the "paused" overlay is up
  wire,          \* choices sent to the running server, not yet handled by it
  choices,       \* choices clicked so far
  arrived        \* choices the server has handled (history)

serverVars == <<serverUp, stops, serverInfo, serverStopped, screens, noticed>>
pageVars   == <<pageState, socket, conn, timers, eventQueue, tombstone>>
companionVars == <<serverVars, events, pageVars, wire, choices, arrived>>

-----------------------------------------------------------------------------
\* handleMessage: a choice is appended.
Receive(c) ==
  /\ serverUp /\ c \in wire
  /\ wire' = wire \ {c}
  /\ events' = events \cup {c} /\ arrived' = arrived \cup {c}
  /\ UNCHANGED <<serverVars, pageVars, choices>>

\* The socket is open, and what it was opened to still runs.
Connected == socket = "open" /\ serverUp /\ conn = stops

\* The page is navigated to itself: its script state is gone, its socket closed.
Reloads ==
  /\ pageState' = "loading" /\ socket' = "none" /\ timers' = 0
  /\ eventQueue' = {} /\ tombstone' = FALSE
  /\ UNCHANGED conn

\* The page loads, its script ends in connect() - or nothing answers.
Loaded ==
  /\ pageState = "loading"
  /\ IF serverUp THEN pageState' = "loaded" /\ socket' = "connecting"
                 ELSE pageState' = "gone" /\ UNCHANGED socket
  /\ UNCHANGED <<serverVars, events, conn, timers, eventQueue, tombstone, wire, choices, arrived>>

\* The timer fires: connect().
Reconnect ==
  /\ pageState = "loaded" /\ timers > 0
  /\ timers' = timers - 1
  /\ socket' = "connecting"
  /\ UNCHANGED <<serverVars, events, pageState, conn, eventQueue, tombstone, wire, choices, arrived>>

\* onopen: what waited is sent; after an overlaid outage the page reloads.
Opens ==
  /\ pageState = "loaded" /\ socket = "connecting" /\ serverUp
  /\ wire' = wire \cup eventQueue
  /\ IF tombstone THEN Reloads
     ELSE socket' = "open" /\ conn' = stops /\ eventQueue' = {} /\ UNCHANGED <<pageState, timers, tombstone>>
  /\ UNCHANGED <<serverVars, events, choices, arrived>>

\* Mutant: onerror schedules one too.
Rescheduled_ByBoth(failed) == timers + (IF failed THEN 2 ELSE 1)
\* Mutant: the overlay ends the retries.
Rescheduled_UnlessPaused(failed) == IF tombstone THEN timers ELSE timers + 1

\* Timers set when a connection fails or ends: onclose's, and none by onerror.
Rescheduled(failed) == timers + 1

\* onclose, after onerror if the connection was refused.
OnClose ==
  /\ pageState = "loaded"
  /\ \/ socket = "connecting" /\ ~serverUp
     \/ socket = "open" /\ ~Connected
  /\ socket' = "none"
  /\ timers' = Rescheduled(socket = "connecting")
  /\ tombstone' \in {tombstone, TRUE}
  /\ UNCHANGED <<serverVars, events, pageState, conn, eventQueue, wire, choices, arrived>>

\* The connection is lost though the server runs on, and some of what is on its
\* way with it.
Drops ==
  /\ pageState = "loaded" /\ Connected
  /\ socket' = "none" /\ timers' = Rescheduled(FALSE)
  /\ tombstone' \in {tombstone, TRUE}
  /\ wire' \in SUBSET wire
  /\ UNCHANGED <<serverVars, events, pageState, conn, eventQueue, choices, arrived>>

\* A choice is clicked: sent if the socket is open - into the void, if the
\* server at its end has died - and kept otherwise.
Click ==
  /\ pageState = "loaded" /\ ~tombstone /\ choices < MaxChoices
  /\ choices' = choices + 1
  /\ IF socket = "open"
       THEN wire' = (IF Connected THEN wire \cup {choices'} ELSE wire) /\ UNCHANGED eventQueue
       ELSE eventQueue' = eventQueue \cup {choices'} /\ UNCHANGED wire
  /\ UNCHANGED <<serverVars, events, arrived, pageState, socket, conn, timers, tombstone>>

-----------------------------------------------------------------------------
\* The agent writes a screen.
WriteScreen ==
  /\ screens < MaxScreens
  /\ screens' = screens + 1
  /\ UNCHANGED <<serverUp, stops, serverInfo, serverStopped, noticed, events, pageVars,
                 wire, choices, arrived>>

\* The debounced watcher: a new file clears the events; connected pages reload.
Notice ==
  /\ serverUp /\ noticed < screens
  /\ noticed' = screens
  /\ events' = {}
  /\ IF pageState = "loaded" /\ Connected THEN Reloads ELSE UNCHANGED pageVars
  /\ UNCHANGED <<serverUp, stops, serverInfo, serverStopped, screens, wire, choices, arrived>>

\* ... of a file it knows, which was written again, the events stay.
NoticeUpdate ==
  /\ serverUp /\ noticed > 0
  /\ pageState = "loaded" /\ Connected /\ Reloads
  /\ UNCHANGED <<serverVars, events, wire, choices, arrived>>

\* shutdown(): its owner is gone, or nothing happened for too long; or a crash.
Stop(clean) ==
  /\ serverUp /\ stops < MaxStops
  /\ stops' = stops + 1
  /\ serverUp' = FALSE
  /\ serverInfo' = (serverInfo /\ ~clean)
  /\ serverStopped' = (serverStopped \/ clean)
  /\ wire' = {}
  /\ UNCHANGED <<screens, noticed, events, pageVars, choices, arrived>>

\* startServer(): every screen there is known, and none is announced.
Start ==
  /\ ~serverUp
  /\ serverUp' = TRUE /\ serverInfo' = TRUE
  /\ noticed' = screens
  /\ UNCHANGED <<stops, serverStopped, screens, events, pageVars, wire, choices, arrived>>

-----------------------------------------------------------------------------
CompanionInit ==
  /\ serverUp = TRUE /\ stops = 0 /\ serverInfo = TRUE /\ serverStopped = FALSE
  /\ screens = 0 /\ noticed = 0 /\ events = {}
  /\ pageState = "loading" /\ socket = "none" /\ conn = 0 /\ timers = 0
  /\ eventQueue = {} /\ tombstone = FALSE
  /\ wire = {} /\ choices = 0 /\ arrived = {}

CompanionNext ==
  \/ Loaded \/ Reconnect \/ Opens \/ OnClose \/ Drops \/ Click
  \/ WriteScreen \/ Notice \/ NoticeUpdate \/ Start
  \/ \E clean \in BOOLEAN : Stop(clean)
  \/ \E c \in wire : Receive(c)

\* The browser runs timers and callbacks, and the agent brings a stopped
\* companion back; the user and the agent's screens are owed by nobody.
CompanionFairness ==
  /\ WF_companionVars(Loaded) /\ WF_companionVars(Reconnect)
  /\ WF_companionVars(Opens) /\ WF_companionVars(OnClose)
  /\ WF_companionVars(Start)
  /\ \A c \in 1..MaxChoices : WF_companionVars(Receive(c))

CompanionSpec == CompanionInit /\ [][CompanionNext]_companionVars /\ CompanionFairness

-----------------------------------------------------------------------------
(* Properties *)

CompanionTypeOK ==
  /\ stops \in 0..MaxStops /\ screens \in 0..MaxScreens /\ noticed \in 0..screens
  /\ events \subseteq arrived /\ arrived \subseteq 1..choices
  /\ wire \subseteq 1..choices \ arrived
  /\ eventQueue \subseteq 1..choices \ (arrived \cup wire)
  /\ pageState \in {"loading", "loaded", "gone"}
  /\ socket \in {"none", "connecting", "open"} /\ conn \in 0..stops
  /\ serverUp => serverInfo

\* "Let onclose own reconnection so we don't schedule it twice" (helper.js:116):
\* through every outage, lost connection, reload and restart the page never has
\* two of a connection and a timer that makes one.
OneReconnect == timers + (IF socket = "none" THEN 0 ELSE 1) <= 1

\* A choice clicked while the companion was away is sent to it once it is back
\* - "this page reconnects automatically" (helper.js:73) - however long the
\* outage, the overlay included, and is recorded unless the connection is lost
\* or the companion dies again.  A choice clicked into a socket whose server has
\* just died is sent nowhere, and promised nothing here.
ClickArrives ==
  \A c \in 1..MaxChoices :
    /\ (c \in eventQueue) ~> (c \in wire \cup arrived)
    /\ (c \in wire) ~> (c \in arrived \/ ~serverUp \/ socket = "none")
=============================================================================
