------------------------- MODULE WorkflowRunProofs -------------------------
(***************************************************************************)
(* What a workflow run guarantees for every number of followers and of     *)
(* events: a stream that closes is complete, a finished status is the last *)
(* thing to appear, and every step of the run is a step of EventLog.       *)
(***************************************************************************)
EXTENDS WorkflowRun, SequenceTheorems, TLAPS

USE MaxEventsAssumption, MarksAssumption

\* The first w items of s are the numbers after n.
Counts(s, n, w) == w \in 0..Len(s) /\ \A k \in 1..w : s[k] = n + k

\* The events on the log are the first of the run; the others wait, in order, in
\* the loop's queue, END behind them and RESULT behind END.
LogInv ==
  LET pending == produced - Len(events)
  IN  /\ Len(events) <= produced
      /\ Counts(events, 0, Len(events))
      /\ Counts(callbacks, Len(events), pending)
      /\ \/ /\ worker \in {"queued", "working"}
            /\ ~done /\ Len(callbacks) = pending
         \/ /\ worker \in {"finished", "returned"} /\ ~done
            /\ Len(callbacks) = pending + (IF worker = "finished" THEN 1 ELSE 2)
            /\ callbacks[pending + 1] = END
            /\ worker = "returned" => callbacks[pending + 2] = RESULT
         \/ /\ worker \in {"finished", "returned"} /\ done /\ pending = 0
            /\ \/ callbacks = <<>>
               \/ worker = "returned" /\ Len(callbacks) = 1 /\ callbacks[1] = RESULT
      /\ worker = "queued" => status = "queued"
      /\ worker \in {"working", "finished"} => status = "running"
      /\ status \in {"succeeded", "failed"} => worker = "returned" /\ done /\ callbacks = <<>>

\* What a follower has sent, what is left of its snapshot and what its queue
\* holds are, end to end, the log - and END when the run is done.
FollowerInv(f) ==
  LET n == Len(sent[f])
      m == Len(replay[f])
      w == Len(events) - (n + m)
  IN  /\ following[f] = "following" =>
           /\ Counts(sent[f], 0, n)
           /\ Counts(replay[f], n, m)
           /\ IF finished[f]
                THEN done /\ w = 0
                ELSE /\ Counts(queue[f], n + m, w)
                     /\ Len(queue[f]) = IF done THEN w + 1 ELSE w
                     /\ done => queue[f][w + 1] = END
      /\ following[f] = "closed" =>
           done /\ Counts(sent[f], 0, n) /\ n = Len(events)

RunInv ==
  /\ TypeOK
  /\ LogInv
  /\ OnlyFollowersSubscribed
  /\ \A f \in Followers : FollowerInv(f)

-----------------------------------------------------------------------------
(* Sequences that count.                                                   *)

\* Appending leaves what is counted, and goes on counting with the next number.
LEMMA CountsAppend ==
  ASSUME NEW S, NEW s \in Seq(S), NEW e \in S, NEW n \in Nat, NEW w \in Nat, Counts(s, n, w)
  PROVE  /\ Counts(Append(s, e), n, w)
         /\ Len(s) = w /\ e = n + w + 1 => Counts(Append(s, e), n, w + 1)
<1>1. /\ Len(s) \in Nat /\ Len(Append(s, e)) = Len(s) + 1
      /\ \A k \in 1..Len(s) : Append(s, e)[k] = s[k]
      /\ Append(s, e)[Len(s) + 1] = e
  OBVIOUS
<1> QED BY <1>1 DEF Counts

\* Taking the head of a sequence that counts leaves one that counts on.
LEMMA CountsTail ==
  ASSUME NEW S, NEW s \in Seq(S), s # <<>>, NEW n \in Nat, NEW w \in Nat, Counts(s, n, w)
  PROVE  /\ Len(Tail(s)) = Len(s) - 1 /\ Len(s) \in Nat \ {0}
         /\ Head(s) = s[1]
         /\ \A k \in 1..(Len(s) - 1) : Tail(s)[k] = s[k + 1]
         /\ w > 0 => Head(s) = n + 1 /\ Counts(Tail(s), n + 1, w - 1)
<1>1. /\ Len(s) \in Nat \ {0} /\ Len(Tail(s)) = Len(s) - 1
      /\ Head(s) = s[1]
      /\ \A k \in 1..(Len(s) - 1) : Tail(s)[k] = s[k + 1]
  OBVIOUS
<1>2. ASSUME w > 0 PROVE Head(s) = n + 1 /\ Counts(Tail(s), n + 1, w - 1)
  <2>1. w \in 1..Len(s) /\ \A k \in 1..w : s[k] = n + k
    BY <1>1, <1>2 DEF Counts
  <2>2. Head(s) = n + 1
    BY <1>1, <2>1
  <2>3. w - 1 \in 0..Len(Tail(s))
    BY <1>1, <2>1
  <2>4. ASSUME NEW k \in 1..(w - 1) PROVE Tail(s)[k] = (n + 1) + k
    BY <1>1, <2>1
  <2> QED BY <2>2, <2>3, <2>4 DEF Counts
<1> QED BY <1>1, <1>2

\* A sequence all of which counts from 0 is 1, 2, ... up to its length.
LEMMA CountsWhole ==
  ASSUME NEW S, NEW s \in Seq(S), Counts(s, 0, Len(s))
  PROVE  s = [k \in 1..Len(s) |-> k]
<1>1. s = [k \in 1..Len(s) |-> s[k]]
  OBVIOUS
<1>2. \A k \in 1..Len(s) : s[k] = k
  BY DEF Counts
<1> QED BY <1>1, <1>2

-----------------------------------------------------------------------------
(* Types.                                                                  *)

LEMMA InitTypes == Init => TypeOK
<1>1. <<>> \in Seq(Event) /\ <<>> \in Seq(Event \cup {END})
      /\ <<>> \in Seq(Event \cup {END, RESULT})
  OBVIOUS
<1>2. \A S : <<>> \in S => [f \in Followers |-> <<>>] \in [Followers -> S]
  OBVIOUS
<1>3. ASSUME Init
      PROVE  /\ replay \in [Followers -> Seq(Event)]
             /\ queue \in [Followers -> Seq(Event \cup {END})]
             /\ sent \in [Followers -> Seq(Event)]
  BY <1>1, <1>2, <1>3 DEF Init
<1>4. ASSUME Init
      PROVE  callbacks \in Seq(Event \cup {END, RESULT}) /\ events \in Seq(Event)
  BY <1>1, <1>4 DEF Init
<1>5. ASSUME Init
      PROVE  /\ produced \in 0..MaxEvents /\ worker = "queued" /\ status = "queued"
             /\ done = FALSE /\ subscribers = {}
             /\ following \in [Followers -> {"away", "following", "closed"}]
             /\ finished \in [Followers -> BOOLEAN]
  BY <1>5 DEF Init
<1> QED BY <1>3, <1>4, <1>5 DEF TypeOK

LEMMA TypesStep == TypeOK /\ [Next]_vars => TypeOK'
<1> SUFFICES ASSUME TypeOK, [Next]_vars PROVE TypeOK'
  OBVIOUS
<1> USE DEF TypeOK, Event, thread, run, followers
<1>1. CASE Start
  BY <1>1 DEF Start
<1>2. CASE Emit
  <2>1. produced' \in Event /\ produced' \in 0..MaxEvents
    BY <1>2 DEF Emit
  <2>2. callbacks' \in Seq(Event \cup {END, RESULT})
    BY <1>2, <2>1 DEF Emit
  <2> QED BY <1>2, <2>1, <2>2 DEF Emit
<1>3. CASE Finish
  BY <1>3 DEF Finish
<1>4. CASE Return
  BY <1>4 DEF Return
<1>5. CASE Publish
  <2> DEFINE item == Head(callbacks)
  <2>1. item \in Event \cup {END} /\ callbacks' \in Seq(Event \cup {END, RESULT})
    BY <1>5 DEF Publish
  <2>2. events' \in Seq(Event) /\ done' \in BOOLEAN
    <3>1. CASE item = END
      BY <1>5, <3>1 DEF Publish
    <3>2. CASE item # END
      <4> HIDE DEF item
      <4>1. Append(events, item) \in Seq(Event)
        BY <2>1, <3>2
      <4> QED BY <1>5, <3>2, <4>1 DEF Publish, item
    <3> QED BY <3>1, <3>2
  <2>3. queue' \in [Followers -> Seq(Event \cup {END})]
    <3> HIDE DEF item
    <3>1. \A f \in Followers : Append(queue[f], item) \in Seq(Event \cup {END})
      BY <2>1
    <3>2. queue' = [f \in Followers |->
                      IF f \in subscribers THEN Append(queue[f], item) ELSE queue[f]]
      BY <1>5 DEF Publish, item
    <3> QED BY <3>1, <3>2
  <2> QED BY <1>5, <2>1, <2>2, <2>3 DEF Publish
<1>6. CASE Settle
  BY <1>6 DEF Settle
<1>7. ASSUME NEW f \in Followers, Follow(f) PROVE TypeOK'
  BY <1>7 DEF Follow
<1>8. ASSUME NEW f \in Followers, YieldReplay(f) PROVE TypeOK'
  <2>1. Head(replay[f]) \in Event /\ Tail(replay[f]) \in Seq(Event)
    BY <1>8 DEF YieldReplay
  <2>2. Append(sent[f], Head(replay[f])) \in Seq(Event)
    BY <2>1
  <2> QED BY <1>8, <2>1, <2>2 DEF YieldReplay
<1>9. ASSUME NEW f \in Followers, YieldNext(f) PROVE TypeOK'
  <2>1. Head(queue[f]) \in Event /\ Tail(queue[f]) \in Seq(Event \cup {END})
    BY <1>9 DEF YieldNext
  <2>2. Append(sent[f], Head(queue[f])) \in Seq(Event)
    BY <2>1
  <2> QED BY <1>9, <2>1, <2>2 DEF YieldNext
<1>10. ASSUME NEW f \in Followers, StreamEnds(f) \/ Disconnect(f) PROVE TypeOK'
  BY <1>10 DEF StreamEnds, Disconnect
<1>11. CASE UNCHANGED vars
  BY <1>11 DEF vars
<1> QED BY <1>1, <1>2, <1>3, <1>4, <1>5, <1>6, <1>7, <1>8, <1>9, <1>10, <1>11
          DEF Next, Work, Loop, Serve

\* Every variable keeps to the values the code can give it.
THEOREM RunTypeCorrect == Spec => []TypeOK
BY InitTypes, TypesStep, PTL DEF Spec

-----------------------------------------------------------------------------
(* From the thread to the log.                                             *)

\* What the loop may find at the head of its queue.
LEMMA NextCallback ==
  ASSUME TypeOK, LogInv, callbacks # <<>>
  PROVE  \/ /\ Head(callbacks) = Len(events) + 1 /\ Head(callbacks) \in Event
            /\ Len(events) < produced /\ ~done
         \/ Head(callbacks) = END /\ Len(events) = produced /\ ~done
         \/ /\ Head(callbacks) = RESULT /\ Len(events) = produced /\ done
            /\ worker = "returned" /\ Tail(callbacks) = <<>>
<1> DEFINE pending == produced - Len(events)
<1>1. pending \in Nat /\ Counts(callbacks, Len(events), pending) /\ Len(events) \in Nat
  BY DEF LogInv, TypeOK
<1>2. /\ Len(callbacks) \in Nat \ {0}
      /\ Head(callbacks) = callbacks[1]
      /\ Len(Tail(callbacks)) = Len(callbacks) - 1
      /\ Tail(callbacks) \in Seq(Event \cup {END, RESULT})
  BY DEF TypeOK
<1>3. CASE pending > 0
  <2>1. Head(callbacks) = Len(events) + 1
    BY <1>1, <1>3, CountsTail DEF TypeOK
  <2> QED BY <1>1, <1>3, <2>1 DEF LogInv, TypeOK, Event
<1>4. CASE pending = 0
  <2>1. CASE done
    <3>1. worker = "returned" /\ Len(callbacks) = 1 /\ callbacks[1] = RESULT
      BY <1>2, <1>4, <2>1 DEF LogInv
    <3>2. Tail(callbacks) = <<>>
      <4>1. Len(Tail(callbacks)) = 0
        BY <1>2, <3>1
      <4> QED BY <1>2, <4>1, EmptySeq
    <3> QED BY <1>1, <1>2, <1>4, <2>1, <3>1, <3>2 DEF TypeOK
  <2>2. CASE ~done
    <3>1. callbacks[1] = END
      BY <1>2, <1>4, <2>2 DEF LogInv
    <3> QED BY <1>2, <1>4, <2>2, <3>1 DEF TypeOK
  <2> QED BY <2>1, <2>2 DEF TypeOK
<1> QED BY <1>1, <1>3, <1>4

\* The worker thread keeps the queue in order behind the log.
LEMMA LogWork ==
  ASSUME TypeOK, LogInv, Work
  PROVE  LogInv'
<1> USE DEF TypeOK, LogInv, thread, run
<1> DEFINE pending == produced - Len(events)
<1>1. /\ pending \in Nat /\ Len(events) \in Nat
      /\ Counts(callbacks, Len(events), pending)
      /\ UNCHANGED <<events, done>>
  BY DEF Work, Start, Emit, Finish, Return
<1>a. callbacks \in Seq(Event \cup {END, RESULT}) /\ produced = Len(events) + pending
  BY <1>1
<1>2. CASE Start
  BY <1>2 DEF Start, Counts
<1>3. CASE Emit
  <2>1. /\ callbacks' = Append(callbacks, produced + 1) /\ produced' = produced + 1
        /\ produced + 1 \in Event \cup {END, RESULT}
        /\ Len(callbacks) = pending /\ ~done /\ worker = "working"
        /\ UNCHANGED <<worker, status>>
    BY <1>3 DEF Emit, Event
  <2>2. Counts(callbacks', Len(events), pending + 1)
    <3> HIDE DEF pending, LogInv, TypeOK
    <3>1. produced + 1 = Len(events) + pending + 1
      BY <1>1, <1>a
    <3> QED BY <1>1, <1>a, <2>1, <3>1, CountsAppend
  <2>3. Len(callbacks') = pending + 1
    <3>1. Len(callbacks') = Len(callbacks) + 1
      BY <1>a, <2>1, AppendProperties
    <3> QED BY <2>1, <3>1
  <2>4. events' = events /\ Len(events') = Len(events) /\ produced' - Len(events') = pending + 1
    BY <1>1, <2>1
  <2>5. Counts(callbacks', Len(events'), produced' - Len(events'))
    BY <2>2, <2>4
  <2> QED BY <1>1, <1>a, <2>1, <2>3, <2>4, <2>5
<1>4. CASE Finish
  <2>1. /\ callbacks' = Append(callbacks, END) /\ worker' = "finished" /\ worker = "working"
        /\ Len(callbacks) = pending /\ ~done
        /\ UNCHANGED <<produced, status>>
    BY <1>4 DEF Finish
  <2>2. Counts(callbacks', Len(events), pending)
    <3> HIDE DEF pending, LogInv, TypeOK
    <3> QED BY <1>1, <1>a, <2>1, CountsAppend
  <2>3. Len(callbacks') = pending + 1 /\ callbacks'[pending + 1] = END
    BY <1>1, <2>1
  <2> QED BY <1>1, <2>1, <2>2, <2>3
<1>5. CASE Return
  <2>1. /\ callbacks' = Append(callbacks, RESULT) /\ worker' = "returned"
        /\ worker = "finished"
        /\ UNCHANGED <<produced, status>>
    BY <1>5 DEF Return
  <2>2. Counts(callbacks', Len(events), pending)
    <3> HIDE DEF pending, LogInv, TypeOK
    <3> QED BY <1>1, <1>a, <2>1, CountsAppend
  <2>3. /\ Len(callbacks) \in Nat /\ Len(callbacks') = Len(callbacks) + 1
        /\ callbacks'[Len(callbacks) + 1] = RESULT
        /\ \A k \in 1..Len(callbacks) : callbacks'[k] = callbacks[k]
    BY <2>1
  <2>4. CASE done
    <3>1. pending = 0 /\ callbacks = <<>>
      BY <2>1, <2>4
    <3> QED BY <1>1, <2>1, <2>2, <2>3, <2>4, <3>1
  <2>5. CASE ~done
    <3>1. Len(callbacks) = pending + 1 /\ callbacks[pending + 1] = END
      BY <2>1, <2>5
    <3>2. /\ Len(callbacks') = pending + 2 /\ callbacks'[pending + 1] = END
          /\ callbacks'[pending + 2] = RESULT
      BY <1>1, <2>3, <3>1
    <3> QED BY <1>1, <2>1, <2>2, <2>5, <3>2
  <2> QED BY <2>4, <2>5
<1> QED BY <1>2, <1>3, <1>4, <1>5 DEF Work

\* The loop moves the head of the queue to the end of the log.
LEMMA LogLoop ==
  ASSUME TypeOK, LogInv, Loop
  PROVE  LogInv'
<1> USE DEF TypeOK, LogInv, thread, run
<1> DEFINE pending == produced - Len(events)
<1>1. /\ pending \in Nat /\ Len(events) \in Nat /\ callbacks # <<>>
      /\ Counts(callbacks, Len(events), pending) /\ Counts(events, 0, Len(events))
      /\ callbacks' = Tail(callbacks)
      /\ UNCHANGED <<produced, worker>>
  BY DEF Loop, Publish, Settle
<1>2. /\ Len(callbacks) \in Nat \ {0} /\ Len(callbacks') = Len(callbacks) - 1
      /\ \A k \in 1..(Len(callbacks) - 1) : callbacks'[k] = callbacks[k + 1]
      /\ pending > 0 => Counts(callbacks', Len(events) + 1, pending - 1)
  BY <1>1, CountsTail
<1>3. CASE Publish /\ Head(callbacks) # END
  <2>1. /\ Head(callbacks) = Len(events) + 1 /\ Head(callbacks) \in Event
        /\ pending > 0 /\ ~done
    BY <1>1, <1>3, NextCallback DEF Publish
  <2>2. events' = Append(events, Len(events) + 1) /\ UNCHANGED <<done, status>>
    BY <1>3, <2>1 DEF Publish
  <2>3. Len(events') = Len(events) + 1 /\ Counts(events', 0, Len(events) + 1)
    BY <1>1, <2>1, <2>2, CountsAppend
  <2>4. produced' - Len(events') = pending - 1 /\ Len(events') <= produced'
    BY <1>1, <2>1, <2>3
  <2>a. /\ Counts(callbacks', Len(events'), produced' - Len(events'))
        /\ Counts(events', 0, Len(events'))
    BY <1>1, <1>2, <2>1, <2>3, <2>4
  <2>5. CASE worker \in {"queued", "working"}
    <3>1. Len(callbacks') = produced' - Len(events') /\ worker' = worker /\ status' = status
          /\ done' = done
      BY <1>1, <1>2, <2>1, <2>2, <2>4, <2>5
    <3> QED BY <2>1, <2>4, <2>a, <2>5, <3>1
  <2>6. CASE worker \in {"finished", "returned"}
    <3> DEFINE tail == IF worker = "finished" THEN 1 ELSE 2
    <3>1. /\ Len(callbacks) = pending + tail /\ callbacks[pending + 1] = END
          /\ worker = "returned" => callbacks[pending + 2] = RESULT
      BY <2>1, <2>6
    <3>2. /\ Len(callbacks') = (pending - 1) + tail /\ callbacks'[(pending - 1) + 1] = END
          /\ worker = "returned" => callbacks'[(pending - 1) + 2] = RESULT
      BY <1>1, <1>2, <2>1, <3>1
    <3>3. /\ Len(callbacks') = (produced' - Len(events')) + tail
          /\ callbacks'[(produced' - Len(events')) + 1] = END
          /\ worker = "returned" => callbacks'[(produced' - Len(events')) + 2] = RESULT
          /\ worker' = worker /\ status' = status /\ done' = done
      BY <1>1, <2>2, <2>4, <3>2
    <3> QED BY <2>1, <2>4, <2>a, <2>6, <3>3
  <2> QED BY <2>5, <2>6
<1>4. CASE Publish /\ Head(callbacks) = END
  <2>1. pending = 0 /\ ~done
    BY <1>1, <1>4, NextCallback, MarksAssumption DEF Event
  <2>2. done' = TRUE /\ UNCHANGED <<events, status>>
    BY <1>4 DEF Publish
  <2>3. /\ worker \in {"finished", "returned"}
        /\ Len(callbacks) = IF worker = "finished" THEN 1 ELSE 2
        /\ worker = "returned" => callbacks[2] = RESULT
    <3>1. /\ worker \in {"finished", "returned"}
          /\ Len(callbacks) = pending + (IF worker = "finished" THEN 1 ELSE 2)
          /\ worker = "returned" => callbacks[pending + 2] = RESULT
      BY <1>2, <2>1
    <3> QED BY <2>1, <3>1
  <2>4. IF worker = "finished" THEN callbacks' = <<>>
          ELSE Len(callbacks') = 1 /\ callbacks'[1] = RESULT
    BY <1>1, <1>2, <2>3
  <2>5. Counts(callbacks', Len(events'), 0) /\ Counts(events', 0, Len(events'))
    BY <1>1, <1>2, <2>2 DEF Counts
  <2> QED BY <1>1, <2>1, <2>2, <2>3, <2>4, <2>5
<1>5. CASE Settle
  <2>1. /\ Len(events) = produced /\ done /\ worker = "returned" /\ callbacks' = <<>>
        /\ UNCHANGED <<events, done>> /\ status' \in {"succeeded", "failed"}
    <3>1. Head(callbacks) = RESULT
      BY <1>5 DEF Settle
    <3>2. RESULT \notin Event /\ RESULT # END
      BY DEF Event
    <3>3. /\ Len(events) = produced /\ done /\ worker = "returned"
          /\ Tail(callbacks) = <<>>
      BY <1>1, <3>1, <3>2, NextCallback
    <3> QED BY <1>1, <1>5, <3>3 DEF Settle
  <2>2. Counts(callbacks', Len(events'), 0) /\ Counts(events', 0, Len(events'))
    BY <1>1, <2>1 DEF Counts
  <2> QED BY <1>1, <2>1, <2>2
<1> QED BY <1>3, <1>4, <1>5 DEF Loop

-----------------------------------------------------------------------------
(* From the log to the followers.                                          *)

\* The loop feeds exactly the followers that came before the end and are still there.
LEMMA SubscribedStep ==
  ASSUME TypeOK, OnlyFollowersSubscribed, [Next]_vars
  PROVE  OnlyFollowersSubscribed'
<1> USE DEF TypeOK, OnlyFollowersSubscribed, run, followers
<1>1. CASE Work \/ Loop \/ UNCHANGED vars
  BY <1>1 DEF Work, Loop, Start, Emit, Finish, Return, Publish, Settle, vars
<1>2. ASSUME NEW f \in Followers, Follow(f) PROVE OnlyFollowersSubscribed'
  BY <1>2 DEF Follow
<1>3. ASSUME NEW f \in Followers, YieldReplay(f) \/ YieldNext(f) PROVE OnlyFollowersSubscribed'
  BY <1>3 DEF YieldReplay, YieldNext
<1>4. ASSUME NEW f \in Followers, StreamEnds(f) \/ Disconnect(f) PROVE OnlyFollowersSubscribed'
  BY <1>4 DEF StreamEnds, Disconnect
<1> QED BY <1>1, <1>2, <1>3, <1>4 DEF Next, Serve

\* A step that is not about this follower, and adds nothing to the log.
LEMMA FollowerElsewhere ==
  ASSUME NEW f \in Followers, FollowerInv(f), UNCHANGED <<events, done>>,
         following'[f] = following[f], finished'[f] = finished[f], replay'[f] = replay[f],
         queue'[f] = queue[f], sent'[f] = sent[f]
  PROVE  FollowerInv(f)'
BY DEF FollowerInv, Counts

\* What the loop publishes reaches the follower's queue behind what is there.
LEMMA FollowerPublish ==
  ASSUME TypeOK, LogInv, OnlyFollowersSubscribed, Publish,
         NEW f \in Followers, FollowerInv(f)
  PROVE  FollowerInv(f)'
<1> DEFINE n == Len(sent[f])
           m == Len(replay[f])
           w == Len(events) - (n + m)
<1>1. /\ UNCHANGED <<following, finished, replay, sent>>
      /\ sent[f] \in Seq(Event) /\ replay[f] \in Seq(Event)
      /\ queue[f] \in Seq(Event \cup {END}) /\ events \in Seq(Event)
      /\ n \in Nat /\ m \in Nat /\ Len(events) \in Nat
  BY DEF Publish, TypeOK
<1>a. n + m \in Nat /\ Len(queue[f]) \in Nat
  <2>1. n \in Nat /\ m \in Nat /\ Len(queue[f]) \in Nat
    BY <1>1
  <2> HIDE DEF n, m
  <2> QED BY <2>1
<1>2. ~done /\ callbacks # <<>> /\ Head(callbacks) # RESULT
  BY NextCallback DEF Publish
<1>3. CASE following[f] # "following"
  <2>1. following[f] # "closed"
    BY <1>2 DEF FollowerInv
  <2> QED BY <1>1, <1>3, <2>1 DEF FollowerInv
<1>4. CASE following[f] = "following"
  <2>1. /\ ~finished[f] /\ f \in subscribers
        /\ Counts(sent[f], 0, n) /\ Counts(replay[f], n, m)
        /\ Counts(queue[f], n + m, w) /\ Len(queue[f]) = w
    BY <1>2, <1>4 DEF FollowerInv, OnlyFollowersSubscribed
  <2>2. queue'[f] = Append(queue[f], Head(callbacks)) /\ w \in Nat
    <3>1. w \in Nat
      BY <1>1, <2>1 DEF Counts
    <3> QED BY <2>1, <3>1 DEF Publish
  <2>3. CASE Head(callbacks) = END
    <3>1. done' = TRUE /\ events' = events
      BY <2>3 DEF Publish
    <3>2. n + m \in Nat
      BY <1>a
    <3>3. /\ Counts(queue'[f], n + m, w)
          /\ Len(queue'[f]) = w + 1 /\ queue'[f][w + 1] = END
      <4> HIDE DEF n, m, w
      <4>1. queue'[f] = Append(queue[f], END) /\ END \in Event \cup {END}
        BY <2>2, <2>3
      <4>2. Counts(queue'[f], n + m, w)
        BY <1>1, <2>1, <2>2, <3>2, <4>1, CountsAppend
      <4> QED BY <1>1, <2>1, <4>1, <4>2, AppendProperties
    <3> QED BY <1>1, <1>4, <2>1, <3>1, <3>3 DEF FollowerInv
  <2>4. CASE Head(callbacks) # END
    <3>1. Head(callbacks) = Len(events) + 1 /\ Head(callbacks) \in Event
      BY <1>2, <2>4, NextCallback
    <3>2. done' = done /\ events' = Append(events, Head(callbacks))
      BY <2>4 DEF Publish
    <3>3. Len(events') = Len(events) + 1
      BY <1>1, <3>1, <3>2
    <3>4. Counts(queue'[f], n + m, w + 1) /\ Len(queue'[f]) = w + 1
      <4>1. Head(callbacks) = (n + m) + w + 1
        <5>1. \A a, c \in Nat : c + 1 = a + (c - a) + 1
          OBVIOUS
        <5>2. Head(callbacks) = (n + m) + (Len(events) - (n + m)) + 1
          <6> HIDE DEF n, m
          <6>1. Len(events) \in Nat
            BY <1>1
          <6> QED BY <1>a, <3>1, <5>1, <6>1
        <5> QED BY <5>2
      <4>3. Head(callbacks) \in Event \cup {END}
        BY <3>1
      <4> HIDE DEF n, m, w
      <4> DEFINE item == Head(callbacks)
      <4>2. Counts(queue[f], n + m, w) /\ Len(queue[f]) = w
        BY <2>1
      <4>4. queue'[f] = Append(queue[f], item) /\ item = n + m + w + 1
            /\ item \in Event \cup {END} /\ queue[f] \in Seq(Event \cup {END})
        <5> HIDE DEF n, m, w
        <5> QED BY <1>1, <2>2, <4>1, <4>3
      <4> HIDE DEF item, n, m, w
      <4>5. Len(queue'[f]) = w + 1
        BY <4>2, <4>4, AppendProperties
      <4>6. Counts(queue'[f], n + m, w + 1)
        BY <1>a, <2>2, <4>2, <4>4, CountsAppend
      <4> QED BY <4>5, <4>6
    <3>5. Len(events') - (n + m) = w + 1
      BY <1>1, <3>3
    <3> QED BY <1>1, <1>2, <1>4, <2>1, <3>2, <3>4, <3>5 DEF FollowerInv
  <2> QED BY <2>3, <2>4
<1> QED BY <1>3, <1>4

\* A client that connects is owed the whole log so far.
LEMMA FollowerFollow ==
  ASSUME TypeOK, LogInv, NEW f \in Followers, Follow(f)
  PROVE  FollowerInv(f)'
<1>1. /\ following'[f] = "following" /\ finished'[f] = done /\ replay'[f] = events
      /\ queue'[f] = <<>> /\ sent'[f] = <<>>
      /\ UNCHANGED <<events, done>>
  BY DEF Follow, TypeOK
<1>2. Len(events) \in Nat /\ Counts(events, 0, Len(events)) /\ done \in BOOLEAN
  BY DEF LogInv, TypeOK
<1>3. Len(sent'[f]) = 0 /\ Len(queue'[f]) = 0 /\ Len(replay'[f]) = Len(events)
  BY <1>1
<1>4. Counts(sent'[f], 0, 0) /\ Counts(queue'[f], Len(events), 0)
  BY <1>3 DEF Counts
<1> QED BY <1>1, <1>2, <1>3, <1>4 DEF FollowerInv

\* One event of the snapshot is sent: the next number.
LEMMA FollowerReplay ==
  ASSUME TypeOK, NEW f \in Followers, FollowerInv(f), YieldReplay(f)
  PROVE  /\ FollowerInv(f)'
         /\ Head(replay[f]) = Len(sent[f]) + 1 /\ Len(sent[f]) < Len(events)
<1> DEFINE n == Len(sent[f])
           m == Len(replay[f])
           w == Len(events) - (n + m)
<1>1. /\ following[f] = "following" /\ replay[f] # <<>>
      /\ sent'[f] = Append(sent[f], Head(replay[f])) /\ replay'[f] = Tail(replay[f])
      /\ UNCHANGED <<events, done, following, finished, queue>>
      /\ sent[f] \in Seq(Event) /\ replay[f] \in Seq(Event) /\ Head(replay[f]) \in Event
      /\ n \in Nat /\ m \in Nat \ {0} /\ Len(events) \in Nat
      /\ finished[f] \in BOOLEAN /\ done \in BOOLEAN
      /\ queue[f] \in Seq(Event \cup {END})
  BY DEF YieldReplay, TypeOK, run
<1>2. Counts(sent[f], 0, n) /\ Counts(replay[f], n, m) /\ w \in Nat
  <2>1. finished[f] => w = 0
    BY <1>1 DEF FollowerInv
  <2>2. ~finished[f] => Counts(queue[f], n + m, w)
    BY <1>1 DEF FollowerInv
  <2>3. Len(queue[f]) \in Nat
    BY <1>1
  <2>4. w \in Nat
    <3>1. finished[f] \in BOOLEAN
      BY <1>1
    <3> HIDE DEF n, m, w
    <3> QED BY <2>1, <2>2, <2>3, <3>1 DEF Counts
  <2> QED BY <1>1, <2>4 DEF FollowerInv
<1>3. /\ Len(replay'[f]) = m - 1 /\ Head(replay[f]) = n + 1
      /\ Counts(replay'[f], n + 1, m - 1)
  <2> HIDE DEF n, m, w
  <2>1. m \in Nat /\ m > 0 /\ n \in Nat
    BY <1>1
  <2>2. Len(replay[f]) = m
    BY DEF m
  <2> QED BY <1>1, <1>2, <2>1, <2>2, CountsTail
<1>4. Len(sent'[f]) = n + 1 /\ Counts(sent'[f], 0, n + 1)
  <2>1. Len(sent'[f]) = n + 1
    BY <1>1, AppendProperties
  <2>2. Head(replay[f]) = 0 + n + 1
    BY <1>1, <1>3
  <2> HIDE DEF n, m, w
  <2>3. Len(sent[f]) = n
    BY DEF n
  <2> QED BY <1>1, <1>2, <2>1, <2>2, <2>3, CountsAppend
<1>5. (n + 1) + (m - 1) = n + m
  <2> HIDE DEF n, m
  <2> QED BY <1>1
<1>6. FollowerInv(f)'
  <2> SUFFICES /\ Counts(sent'[f], 0, Len(sent'[f]))
               /\ Counts(replay'[f], Len(sent'[f]), Len(replay'[f]))
               /\ IF finished[f]
                    THEN done /\ w = 0
                    ELSE /\ Counts(queue[f], n + m, w)
                         /\ Len(queue[f]) = IF done THEN w + 1 ELSE w
                         /\ done => queue[f][w + 1] = END
    BY <1>1, <1>3, <1>4, <1>5 DEF FollowerInv
  <2> QED BY <1>1, <1>3, <1>4 DEF FollowerInv
<1> QED BY <1>1, <1>2, <1>3, <1>6

\* One event of the queue is sent, once the snapshot is: the next number again.
LEMMA FollowerNext ==
  ASSUME TypeOK, NEW f \in Followers, FollowerInv(f), YieldNext(f)
  PROVE  /\ FollowerInv(f)'
         /\ Head(queue[f]) = Len(sent[f]) + 1 /\ Len(sent[f]) < Len(events)
<1> DEFINE n == Len(sent[f])
           w == Len(queue[f])
           l == Len(events)
<1>1. /\ following[f] = "following" /\ replay[f] = <<>> /\ ~finished[f]
      /\ queue[f] # <<>> /\ Head(queue[f]) # END
      /\ sent'[f] = Append(sent[f], Head(queue[f])) /\ queue'[f] = Tail(queue[f])
      /\ UNCHANGED <<events, done, following, finished, replay>>
      /\ sent[f] \in Seq(Event) /\ queue[f] \in Seq(Event \cup {END})
  BY DEF YieldNext, TypeOK, run
<1>2. n \in Nat /\ w \in Nat \ {0} /\ l \in Nat /\ done \in BOOLEAN
      /\ Len(replay[f]) = 0 /\ Head(queue[f]) = queue[f][1] /\ n + 0 = n
      /\ Head(queue[f]) \in Event
  BY <1>1 DEF TypeOK
<1>3. /\ Counts(sent[f], 0, n) /\ Counts(replay[f], n, 0)
      /\ Counts(queue[f], n, l - n)
      /\ w = IF done THEN l - n + 1 ELSE l - n
      /\ done => queue[f][l - n + 1] = END
  <2> HIDE DEF n, l
  <2>1. n + Len(replay[f]) = n
    BY <1>2
  <2> QED BY <1>1, <1>2, <2>1 DEF FollowerInv, n, l
<1>a. /\ n \in Nat /\ w \in Nat \ {0} /\ l \in Nat /\ l - n \in Nat
      /\ done \in BOOLEAN /\ Counts(sent[f], 0, n) /\ Counts(queue[f], n, l - n)
  <2> HIDE DEF n, l
  <2> QED BY <1>2, <1>3 DEF Counts
<1> HIDE DEF n, w, l
<1>4. l - n > 0
  <2>1. ASSUME l - n = 0 PROVE FALSE
    <3>1. done /\ l - n + 1 = 1
      BY <1>a, <1>3, <2>1
    <3> QED BY <1>1, <1>2, <1>3, <3>1
  <2> QED BY <1>a, <2>1
<1>5. /\ Len(queue'[f]) = w - 1 /\ Head(queue[f]) = n + 1
      /\ Counts(queue'[f], n + 1, l - n - 1)
      /\ \A k \in 1..(w - 1) : queue'[f][k] = queue[f][k + 1]
  <2>1. Len(queue[f]) = w
    BY DEF w
  <2> QED BY <1>1, <1>a, <1>4, <2>1, CountsTail
<1>6. Len(sent'[f]) = n + 1 /\ Counts(sent'[f], 0, n + 1)
  <2>1. Len(sent[f]) = n
    BY DEF n
  <2>2. Len(sent'[f]) = n + 1
    BY <1>1, <1>2, <2>1, AppendProperties
  <2>3. Head(queue[f]) = 0 + n + 1
    BY <1>a, <1>5
  <2> QED BY <1>1, <1>2, <1>a, <2>1, <2>2, <2>3, CountsAppend
<1>7. /\ (n + 1) + 0 = n + 1 /\ l - (n + 1) = l - n - 1
      /\ w - 1 = IF done THEN (l - (n + 1)) + 1 ELSE l - (n + 1)
      /\ done => queue'[f][(l - (n + 1)) + 1] = END
  <2>1. (n + 1) + 0 = n + 1 /\ l - (n + 1) = l - n - 1
    BY <1>a
  <2>2. w - 1 = IF done THEN (l - (n + 1)) + 1 ELSE l - (n + 1)
    BY <1>a, <1>3
  <2>3. ASSUME done PROVE queue'[f][(l - (n + 1)) + 1] = END
    <3>1. (l - (n + 1)) + 1 = l - n /\ l - n \in 1..(w - 1)
      BY <1>a, <1>3, <1>4, <2>3
    <3> QED BY <1>3, <1>5, <2>3, <3>1
  <2> QED BY <2>1, <2>2, <2>3
<1>8. Counts(replay'[f], n + 1, 0) /\ Len(replay'[f]) = 0
  BY <1>1, <1>2 DEF Counts
<1>9. FollowerInv(f)'
  <2>1. /\ following'[f] = "following" /\ ~finished'[f] /\ done' = done /\ Len(events') = l
    BY <1>1 DEF l
  <2> QED BY <1>5, <1>6, <1>7, <1>8, <2>1 DEF FollowerInv
<1> QED
  <2>1. n < l
    BY <1>a, <1>4
  <2> QED BY <1>5, <1>9, <2>1 DEF n, l

\* A stream ends on a complete log only.
LEMMA FollowerEnds ==
  ASSUME TypeOK, NEW f \in Followers, FollowerInv(f), StreamEnds(f)
  PROVE  FollowerInv(f)' /\ done /\ Len(sent[f]) = Len(events)
<1> DEFINE n == Len(sent[f])
           l == Len(events)
<1>1. /\ following[f] = "following" /\ replay[f] = <<>>
      /\ finished[f] \/ (queue[f] # <<>> /\ Head(queue[f]) = END)
      /\ following'[f] = "closed"
      /\ UNCHANGED <<events, done, sent>>
      /\ queue[f] \in Seq(Event \cup {END}) /\ finished[f] \in BOOLEAN
      /\ n \in Nat /\ l \in Nat /\ done \in BOOLEAN /\ Len(replay[f]) = 0
  BY DEF StreamEnds, TypeOK
<1>2. /\ Counts(sent[f], 0, n)
      /\ IF finished[f]
           THEN done /\ l - n = 0
           ELSE /\ Counts(queue[f], n, l - n)
                /\ Len(queue[f]) = IF done THEN l - n + 1 ELSE l - n
  <2> HIDE DEF n, l
  <2>1. n + Len(replay[f]) = n
    BY <1>1
  <2> QED BY <1>1, <2>1 DEF FollowerInv, n, l
<1> HIDE DEF n, l
<1>3. done /\ n = l
  <2>1. CASE finished[f]
    BY <1>1, <1>2, <2>1
  <2>2. CASE ~finished[f]
    <3>1. /\ Len(queue[f]) \in Nat \ {0} /\ queue[f][1] = END
      BY <1>1, <2>2
    <3>2. ~(l - n > 0)
      <4>1. ASSUME l - n > 0 PROVE queue[f][1] = n + 1
        BY <1>1, <1>2, <2>2, <4>1 DEF Counts
      <4> QED BY <1>1, <3>1, <4>1
    <3>3. l - n \in Nat
      BY <1>1, <1>2, <2>2 DEF Counts
    <3> QED BY <1>1, <1>2, <2>2, <3>1, <3>2, <3>3
  <2> QED BY <1>1, <2>1, <2>2
<1> QED
  <2>1. Counts(sent'[f], 0, Len(sent'[f])) /\ Len(sent'[f]) = Len(events') /\ done'
    BY <1>1, <1>2, <1>3 DEF n, l
  <2> QED BY <1>1, <1>3, <2>1 DEF FollowerInv, n, l

-----------------------------------------------------------------------------
(* The invariant, and what follows from it.                                *)

LEMMA RunInvInit == Init => RunInv
<1> SUFFICES ASSUME Init PROVE RunInv
  OBVIOUS
<1>1. TypeOK
  BY InitTypes
<1>2. Len(events) = 0 /\ Len(callbacks) = 0 /\ produced - Len(events) = 0
  <2>1. events = <<>> /\ callbacks = <<>> /\ produced = 0
    BY DEF Init
  <2>2. Len(events) = 0 /\ Len(callbacks) = 0
    BY <2>1
  <2>3. 0 - 0 = 0
    OBVIOUS
  <2> QED BY <2>1, <2>2, <2>3
<1>3. LogInv
  BY <1>2 DEF Init, LogInv, Counts
<1>4. OnlyFollowersSubscribed
  BY DEF Init, OnlyFollowersSubscribed
<1>5. \A f \in Followers : FollowerInv(f)
  BY DEF Init, FollowerInv
<1> QED BY <1>1, <1>3, <1>4, <1>5 DEF RunInv

LEMMA RunInvStep == RunInv /\ [Next]_vars => RunInv'
<1> SUFFICES ASSUME RunInv, [Next]_vars PROVE RunInv'
  OBVIOUS
<1> USE DEF RunInv
<1>1. TypeOK' /\ OnlyFollowersSubscribed'
  BY TypesStep, SubscribedStep
<1>2. ASSUME Work \/ Settle \/ UNCHANGED vars PROVE RunInv'
  <2>1. LogInv'
    <3>1. CASE UNCHANGED vars
      BY <3>1 DEF vars, thread, run, LogInv, Counts
    <3> QED BY <1>2, <3>1, LogWork, LogLoop DEF Loop
  <2>2. UNCHANGED <<events, done, followers>>
    BY <1>2 DEF Work, Start, Emit, Finish, Return, Settle, vars, run
  <2>3. \A f \in Followers : FollowerInv(f)'
    BY <2>2, FollowerElsewhere DEF followers
  <2> QED BY <1>1, <2>1, <2>3
<1>3. ASSUME Publish PROVE RunInv'
  BY <1>1, <1>3, LogLoop, FollowerPublish DEF Loop
<1>4. ASSUME NEW f \in Followers, Follow(f) \/ Serve(f) \/ Disconnect(f) PROVE RunInv'
  <2>1. LogInv'
    <3>1. UNCHANGED <<thread, status, callbacks, events, done>>
      BY <1>4 DEF Follow, Serve, YieldReplay, YieldNext, StreamEnds, Disconnect, run
    <3> QED BY <3>1 DEF LogInv, Counts, thread
  <2>2. ASSUME NEW g \in Followers, g # f PROVE FollowerInv(g)'
    <3>1. /\ UNCHANGED <<events, done>>
          /\ following'[g] = following[g] /\ finished'[g] = finished[g]
          /\ replay'[g] = replay[g] /\ queue'[g] = queue[g] /\ sent'[g] = sent[g]
      BY <1>4, <2>2
      DEF Follow, Serve, YieldReplay, YieldNext, StreamEnds, Disconnect, run, TypeOK
    <3> QED BY <3>1, FollowerElsewhere
  <2>3. FollowerInv(f)'
    <3>1. CASE Disconnect(f)
      <4>1. following'[f] = "away"
        BY <3>1 DEF Disconnect, TypeOK
      <4> QED BY <4>1 DEF FollowerInv
    <3> QED BY <1>4, <3>1, FollowerFollow, FollowerReplay, FollowerNext, FollowerEnds DEF Serve
  <2> QED BY <1>1, <2>1, <2>2, <2>3
<1> QED BY <1>2, <1>3, <1>4 DEF Next, Loop

LEMMA RunInvariant == Spec => []RunInv
BY RunInvInit, RunInvStep, PTL DEF Spec

\* A stream that closed by itself has carried the whole run, however late its
\* client came (follow, _publish).
THEOREM StreamsAreComplete == Spec => []ClosedIsComplete
<1>1. RunInv => ClosedIsComplete
  <2> SUFFICES ASSUME RunInv, NEW f \in Followers, following[f] = "closed"
               PROVE  sent[f] = [k \in 1..produced |-> k]
    BY DEF ClosedIsComplete
  <2>1. done /\ Counts(sent[f], 0, Len(sent[f])) /\ Len(sent[f]) = Len(events)
    BY DEF RunInv, FollowerInv
  <2>2. Len(events) = produced
    <3>1. produced - Len(events) = 0 /\ Len(events) \in Nat /\ produced \in Nat
      BY <2>1 DEF RunInv, LogInv, TypeOK
    <3> QED BY <3>1
  <2>3. sent[f] = [k \in 1..Len(sent[f]) |-> k]
    BY <2>1, CountsWhole DEF RunInv, TypeOK
  <2> QED BY <2>1, <2>2, <2>3
<1> QED BY <1>1, RunInvariant, PTL

\* A status that says the run is over is the last thing to appear: the thread's
\* result crosses to the loop behind every event and behind END.
THEOREM StatusIsLast == Spec => []StatusComesLast
<1>1. RunInv => StatusComesLast
  <2> SUFFICES ASSUME RunInv, status \in {"succeeded", "failed"}
               PROVE  done /\ Len(events) = produced /\ callbacks = <<>>
    BY DEF StatusComesLast
  <2>1. done /\ callbacks = <<>>
    BY DEF RunInv, LogInv
  <2>2. produced - Len(events) = 0 /\ Len(events) \in Nat /\ produced \in Nat
    BY <2>1 DEF RunInv, LogInv, TypeOK
  <2>3. Len(events) = produced
    BY <2>2
  <2> QED BY <2>1, <2>3
<1> QED BY <1>1, RunInvariant, PTL

\* No queue is fed for a client that is gone (the finally of follow).
THEOREM NobodyElseIsFed == Spec => []OnlyFollowersSubscribed
BY RunInvariant, PTL DEF RunInv

\* Every step of the run is a step of the log EventLog promises, or none of it.
THEOREM RunImplementsLog == Spec => ImplementsLog
<1>1. Init => Log!Init
  BY DEF Init, Log!Init
<1>2. RunInv /\ [Next]_vars => [Log!Next]_Log!vars
  <2> SUFFICES ASSUME RunInv, [Next]_vars PROVE [Log!Next]_Log!vars
    OBVIOUS
  <2> USE DEF RunInv
  <2>1. CASE Work \/ Settle \/ UNCHANGED vars
    BY <2>1 DEF Work, Start, Emit, Finish, Return, Settle, vars, run, followers, Log!vars
  <2>2. CASE Publish
    <3>1. ~done /\ UNCHANGED <<following, sent>>
      BY <2>2, NextCallback DEF Publish
    <3>2. CASE Head(callbacks) = END
      BY <2>2, <3>1, <3>2 DEF Publish, Log!Next, Log!Close
    <3>3. CASE Head(callbacks) # END
      <4>1. Head(callbacks) \in Event
        BY <2>2, <3>3, NextCallback DEF Publish
      <4> QED BY <2>2, <3>1, <3>3, <4>1 DEF Publish, Log!Next, Log!Extend
    <3> QED BY <3>2, <3>3
  <2>3. ASSUME NEW f \in Followers, Follow(f) PROVE Log!Open(f)
    BY <2>3 DEF Follow, Log!Open
  <2>4. ASSUME NEW f \in Followers, YieldReplay(f) \/ YieldNext(f) PROVE Log!Read(f)
    <3>1. PICK e : /\ sent' = [sent EXCEPT ![f] = Append(@, e)]
                   /\ e = Len(sent[f]) + 1 /\ Len(sent[f]) < Len(events)
                   /\ following[f] = "following" /\ UNCHANGED <<events, done, following>>
      <4>1. CASE YieldReplay(f)
        BY <4>1, FollowerReplay DEF YieldReplay, run
      <4>2. CASE YieldNext(f)
        BY <4>2, FollowerNext DEF YieldNext, run
      <4> QED BY <2>4, <4>1, <4>2
    <3>2. events[Len(sent[f]) + 1] = e
      <4>1. Len(sent[f]) \in Nat /\ Len(events) \in Nat
        BY DEF TypeOK
      <4> QED BY <3>1, <4>1 DEF LogInv, Counts
    <3> QED BY <3>1, <3>2 DEF Log!Read
  <2>5. ASSUME NEW f \in Followers, StreamEnds(f) PROVE Log!End(f)
    BY <2>5, FollowerEnds DEF StreamEnds, Log!End
  <2>6. ASSUME NEW f \in Followers, Disconnect(f) PROVE Log!Leave(f)
    BY <2>6 DEF Disconnect, Log!Leave
  <2> QED BY <2>1, <2>2, <2>3, <2>4, <2>5, <2>6 DEF Next, Loop, Serve, Log!Next
<1> QED BY <1>1, <1>2, RunInvariant, PTL DEF Spec, ImplementsLog, Log!Spec

=============================================================================
