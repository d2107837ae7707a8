---------------------------- MODULE WorkflowRun ----------------------------
(***************************************************************************)
(* One workflow run, from the job that is queued for it to the clients     *)
(* that follow it (workflows/runs.py, workflows/research.py and            *)
(* workflows/case_analysis.py, follow_run of api/routes/workflows.py).     *)
(*                                                                         *)
(* The work runs on a worker thread and touches nothing but the event      *)
(* loop's callback queue: emit, finish and the thread's own result each    *)
(* put one callback there, and the loop runs callbacks in order.  On the   *)
(* loop a follower takes its snapshot and subscribes in one step; from     *)
(* then on it is served one item at a time, with everything else running   *)
(* in between.                                                             *)
(*                                                                         *)
(* Abstracted: the k-th event a run emits is the number k.                 *)
(***************************************************************************)
EXTENDS Naturals, Sequences

CONSTANTS
  Followers,  \* the connections clients follow the run over
  MaxEvents,  \* bound: events one run emits
  END,        \* the sentinel finish() publishes
  RESULT      \* the worker thread handing its outcome back to the loop

ASSUME MaxEventsAssumption == MaxEvents \in Nat
ASSUME MarksAssumption == END \notin Nat /\ RESULT \notin Nat /\ END # RESULT

VARIABLES
  produced,     \* events the worker thread has emitted
  worker,       \* where the worker thread stands
  status,       \* job.status
  callbacks,    \* the loop's call_soon_threadsafe queue
  events,       \* run.events
  done,         \* run.done
  subscribers,  \* run._subscribers
  following,    \* where each follow() stands
  finished,     \* each follow()'s reading of done when it began
  replay,       \* what each follow() still has to yield of its snapshot
  queue,        \* each follow()'s own queue
  sent          \* what each client has received since it connected

thread    == <<produced, worker>>
run       == <<events, done, subscribers>>
followers == <<following, finished, replay, queue, sent>>
vars      == <<thread, status, callbacks, run, followers>>

Event == 1..MaxEvents

Init ==
  /\ produced = 0
  /\ worker = "queued"
  /\ status = "queued"
  /\ callbacks = <<>>
  /\ events = <<>>
  /\ done = FALSE
  /\ subscribers = {}
  /\ following = [f \in Followers |-> "away"]
  /\ finished = [f \in Followers |-> FALSE]
  /\ replay = [f \in Followers |-> <<>>]
  /\ queue = [f \in Followers |-> <<>>]
  /\ sent = [f \in Followers |-> <<>>]

-----------------------------------------------------------------------------
(* The worker thread.                                                      *)

\* JobRegistry._run takes a slot and hands the work to a thread.
Start ==
  /\ worker = "queued"
  /\ worker' = "working"
  /\ status' = "running"
  /\ UNCHANGED <<produced, callbacks, run, followers>>

Emit ==
  /\ worker = "working"
  /\ produced < MaxEvents
  /\ produced' = produced + 1
  /\ callbacks' = Append(callbacks, produced')
  /\ UNCHANGED <<worker, status, run, followers>>

\* Mutant: no `finally`; a run that fails says nothing.
Finish_Silently ==
  /\ worker = "working"
  /\ worker' = "finished"
  /\ UNCHANGED <<produced, status, callbacks, run, followers>>

\* The `finally` of research.run and case_analysis.run: however the work ends.
Finish ==
  /\ worker = "working"
  /\ worker' = "finished"
  /\ callbacks' = Append(callbacks, END)
  /\ UNCHANGED <<produced, status, run, followers>>

\* Mutant: the thread writes the job's status itself.
Return_Directly ==
  /\ worker = "finished"
  /\ worker' = "returned"
  /\ status' \in {"succeeded", "failed"}
  /\ UNCHANGED <<produced, callbacks, run, followers>>

\* The thread ends; its result, or its exception, goes back to _run.
Return ==
  /\ worker = "finished"
  /\ worker' = "returned"
  /\ callbacks' = Append(callbacks, RESULT)
  /\ UNCHANGED <<produced, status, run, followers>>

-----------------------------------------------------------------------------
(* The event loop: the next callback.                                      *)

\* Mutant: the sentinel is logged like an event.
Publish_Sentinel ==
  /\ callbacks # <<>>
  /\ Head(callbacks) # RESULT
  /\ callbacks' = Tail(callbacks)
  /\ done' = (Head(callbacks) = END)
  /\ events' = Append(events, Head(callbacks))
  /\ queue' = [f \in Followers |->
                 IF f \in subscribers THEN Append(queue[f], Head(callbacks)) ELSE queue[f]]
  /\ UNCHANGED <<thread, status, subscribers, following, finished, replay, sent>>

\* _publish: to the log, and to whoever is subscribed at this moment.
Publish ==
  /\ callbacks # <<>>
  /\ Head(callbacks) # RESULT
  /\ callbacks' = Tail(callbacks)
  /\ IF Head(callbacks) = END
       THEN done' = TRUE /\ UNCHANGED events
       ELSE events' = Append(events, Head(callbacks)) /\ UNCHANGED done
  /\ queue' = [f \in Followers |->
                 IF f \in subscribers THEN Append(queue[f], Head(callbacks)) ELSE queue[f]]
  /\ UNCHANGED <<thread, status, subscribers, following, finished, replay, sent>>

\* JobRegistry._run resumes: succeeded, or failed with the exception.
Settle ==
  /\ callbacks # <<>>
  /\ Head(callbacks) = RESULT
  /\ callbacks' = Tail(callbacks)
  /\ status' \in {"succeeded", "failed"}
  /\ UNCHANGED <<thread, run, followers>>

-----------------------------------------------------------------------------
(* The event loop: WorkflowRun.follow.                                     *)

\* Mutant: a client is served from the moment it connects, with no snapshot.
Follow_NoSnapshot(f) ==
  /\ following[f] # "following"
  /\ following' = [following EXCEPT ![f] = "following"]
  /\ finished' = [finished EXCEPT ![f] = done]
  /\ queue' = [queue EXCEPT ![f] = <<>>]
  /\ sent' = [sent EXCEPT ![f] = <<>>]
  /\ subscribers' = IF done THEN subscribers ELSE subscribers \cup {f}
  /\ UNCHANGED <<thread, status, callbacks, events, done, replay>>

\* A client connects, for the first time or again: a new generator, a new queue.
Follow(f) ==
  /\ following[f] # "following"
  /\ following' = [following EXCEPT ![f] = "following"]
  /\ finished' = [finished EXCEPT ![f] = done]
  /\ replay' = [replay EXCEPT ![f] = events]
  /\ queue' = [queue EXCEPT ![f] = <<>>]
  /\ sent' = [sent EXCEPT ![f] = <<>>]
  /\ subscribers' = IF done THEN subscribers ELSE subscribers \cup {f}
  /\ UNCHANGED <<thread, status, callbacks, events, done>>

YieldReplay(f) ==
  /\ following[f] = "following"
  /\ replay[f] # <<>>
  /\ sent' = [sent EXCEPT ![f] = Append(@, Head(replay[f]))]
  /\ replay' = [replay EXCEPT ![f] = Tail(@)]
  /\ UNCHANGED <<thread, status, callbacks, run, following, finished, queue>>

\* Mutant: live events are yielded ahead of what is left of the snapshot.
YieldNext_AheadOfReplay(f) ==
  /\ following[f] = "following"
  /\ ~finished[f]
  /\ queue[f] # <<>> /\ Head(queue[f]) # END
  /\ sent' = [sent EXCEPT ![f] = Append(@, Head(queue[f]))]
  /\ queue' = [queue EXCEPT ![f] = Tail(@)]
  /\ UNCHANGED <<thread, status, callbacks, run, following, finished, replay>>

YieldNext(f) ==
  /\ following[f] = "following"
  /\ replay[f] = <<>> /\ ~finished[f]
  /\ queue[f] # <<>> /\ Head(queue[f]) # END
  /\ sent' = [sent EXCEPT ![f] = Append(@, Head(queue[f]))]
  /\ queue' = [queue EXCEPT ![f] = Tail(@)]
  /\ UNCHANGED <<thread, status, callbacks, run, following, finished, replay>>

\* Both returns: the run was over when the client came, or END has come up.
StreamEnds(f) ==
  /\ following[f] = "following"
  /\ replay[f] = <<>>
  /\ finished[f] \/ (queue[f] # <<>> /\ Head(queue[f]) = END)
  /\ following' = [following EXCEPT ![f] = "closed"]
  /\ subscribers' = subscribers \ {f}
  /\ UNCHANGED <<thread, status, callbacks, events, done, finished, replay, queue, sent>>

\* Mutant: no `finally` in follow; the queue of a client that left stays subscribed.
Disconnect_Subscribed(f) ==
  /\ following[f] = "following"
  /\ following' = [following EXCEPT ![f] = "away"]
  /\ UNCHANGED <<thread, status, callbacks, run, finished, replay, queue, sent>>

\* The client goes away; the generator is closed where it stands.
Disconnect(f) ==
  /\ following[f] = "following"
  /\ following' = [following EXCEPT ![f] = "away"]
  /\ subscribers' = subscribers \ {f}
  /\ UNCHANGED <<thread, status, callbacks, events, done, finished, replay, queue, sent>>

-----------------------------------------------------------------------------
Work  == Start \/ Emit \/ Finish \/ Return
Loop  == Publish \/ Settle
Serve(f) == YieldReplay(f) \/ YieldNext(f) \/ StreamEnds(f)

Next ==
  \/ Work
  \/ Loop
  \/ \E f \in Followers : Follow(f) \/ Serve(f) \/ Disconnect(f)

Spec == Init /\ [][Next]_vars

\* A slot comes free, the thread runs, the loop runs its callbacks, a connected
\* client reads.  No fairness for clients coming or going.
FairSpec ==
  /\ Spec
  /\ WF_vars(Work)
  /\ WF_vars(Loop)
  /\ \A f \in Followers : WF_vars(Serve(f))

-----------------------------------------------------------------------------
(* Properties.                                                             *)

TypeOK ==
  /\ produced \in 0..MaxEvents
  /\ worker \in {"queued", "working", "finished", "returned"}
  /\ status \in {"queued", "running", "succeeded", "failed"}
  /\ callbacks \in Seq(Event \cup {END, RESULT})
  /\ events \in Seq(Event)
  /\ done \in BOOLEAN
  /\ subscribers \subseteq Followers
  /\ following \in [Followers -> {"away", "following", "closed"}]
  /\ finished \in [Followers -> BOOLEAN]
  /\ replay \in [Followers -> Seq(Event)]
  /\ queue \in [Followers -> Seq(Event \cup {END})]
  /\ sent \in [Followers -> Seq(Event)]

\* A stream that closed by itself has carried everything the run emitted, from
\* the first event, each once and in order, however late the client came.
ClosedIsComplete ==
  \A f \in Followers :
    following[f] = "closed" => sent[f] = [k \in 1..produced |-> k]

\* Whoever reads a finished status reads a finished log: get_run never reports a
\* run that succeeded or failed while events of it are still to come.
StatusComesLast ==
  status \in {"succeeded", "failed"} => done /\ Len(events) = produced /\ callbacks = <<>>

\* A client that left, or whose stream closed, is no longer fed: nothing keeps
\* its queue growing for the rest of the run.
OnlyFollowersSubscribed ==
  subscribers = {f \in Followers : following[f] = "following" /\ ~finished[f]}

\* A run that was started ends, and every client that stays sees its stream end.
StreamsEnd ==
  \A f \in Followers : following[f] = "following" ~> following[f] # "following"

\* The run implements the log of EventLog, its followers the readers.
Log == INSTANCE EventLog WITH
         Readers <- Followers, log <- events, closed <- done,
         reading <- following, seen <- sent

ImplementsLog == Log!Spec
=============================================================================
