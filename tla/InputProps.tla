----------------------------- MODULE InputProps -----------------------------
(* What the input stream promises the game, with one device delivering.     *)
EXTENDS InputStream, FiniteSets

TypeOK ==
  /\ slots \in [0 .. Size - 1 -> Events \cup {NoEvent}]
  /\ head \in 0 .. Size - 1 /\ tail \in 0 .. Size - 1
  /\ dev \in [Device -> [at : {"off", "look", "select", "push", "write", "publish", "exit", "gone", "joined"},
                         ev : Events \cup {NoEvent}, batch : 0 .. Burst, local : 0 .. 2 * MaxEvents]]
  /\ active \in [Device -> BOOLEAN] /\ open \in [Device -> BOOLEAN] /\ count \in 0 .. MaxDevices
  /\ proc \in [at : {"off", "look", "unpaused", "check", "empty", "sleepy", "wait", "pick", "pop",
                     "advance", "apply", "finish", "gone"},
               target : {"a", "b"}, ev : Events \cup {NoEvent}]
  /\ hot \in {"off", "look", "select", "create", "count", "gone"}
  /\ {running, paused, hotplug} \subseteq BOOLEAN
  /\ \A b \in {"a", "b"} : state[b].mouse \in 0 .. Width /\ state[b].dir \in -1 .. 1
  /\ shown \in {"a", "b"} /\ at_i \in 1 .. MaxDevices + 1
  /\ main \in {"setup", "start", "process", "hotplug", "undo", "undojoin", "failed", "game", "clear",
               "resume", "broadcast", "close", "join", "joinprocess", "stopped", "undefined"}
  /\ {eventCount, read, lost} \subseteq 0 .. MaxEvents /\ dropped \in 0 .. 2 * MaxEvents

\* How many events are in the queue.
Waiting == (head + Size - tail) % Size

\* The queue as the process thread sees it: an event it copied is gone.
Unread ==
  LET skip == IF proc.at = "advance" THEN 1 ELSE 0
  IN  [k \in 1 .. Waiting - skip |-> slots[(tail + skip + k - 1) % Size]]

Queue == INSTANCE FifoChannel WITH
  Msg <- Events, Capacity <- Size - 1, None <- NoEvent, queue <- Unread, out <- proc.ev

\* The reader of the one device that delivers and the process thread use the
\* queue as a bounded first-in first-out channel: no event is lost, repeated,
\* reordered or torn between push and pop.
EventsAreFifo == Queue!Spec

\* The sum of a number of every device.
Total(f) == Cardinality(UNION {{d} \X (1 .. f[d]) : d \in Device})

\* Every event read from the device is applied, waits, is in the hands of one
\* thread, or was dropped for want of room; the drop counters, which a reader
\* adds to the stream's only when it exits, count every drop twice.
EveryEventIsAccounted ==
  /\ read = eventCount + Waiting + lost + (IF proc.at = "apply" THEN 1 ELSE 0)
            + Total([d \in Device |-> dev[d].batch])
  /\ dropped + Total([d \in Device |-> dev[d].local]) = 2 * lost

Alive(where) == where \notin {"off", "gone", "joined"}

\* When a start has failed, and when the stream has been shut down without
\* hot-plugging, no thread is left that would use the closed descriptors, the
\* destroyed mutex or the zeroed stream.
NoThreadIsLeft ==
  (main = "failed" \/ (main = "stopped" /\ ~hotplug)) =>
    /\ \A d \in Device : ~Alive(dev[d].at)
    /\ ~Alive(proc.at)

\* hs_input_stream_stop gets past its readers: closing a descriptor ends the
\* reader that uses it, wherever it is.  (Only a hot-plugged device, counted
\* after the descriptors were closed, could keep it.)
ReadersAreJoined ==
  main = "broadcast" /\ ~hotplug ~> main \in {"joinprocess", "stopped", "undefined"}

Leaving == main \in {"broadcast", "close", "join", "joinprocess", "stopped", "undefined"}

\* Resuming a stream wakes the process thread: it applies what was queued,
\* unless it had just found the queue empty and was about to wait, or the game
\* pauses again or shuts down.
ResumedIsApplied ==
  \A k \in 1 .. MaxEvents :
    main = "resume" /\ proc.at \notin {"empty", "sleepy"} /\ eventCount + Waiting >= k
      ~> eventCount >= k \/ paused \/ Leaving

\* The threads move on: a resumed stream applies what it holds, and a stop joins
\* its readers.
ThreadsMoveOn == ReadersAreJoined /\ ResumedIsApplied

\* "In evdev_reader when pushing: if (hs_input_spsc_push(...))
\* pthread_cond_signal(&queue_not_empty)" (docs/INPUT_STREAM_REMEDIATION.md:156):
\* an event in the queue is applied although nobody resumes the stream.
PushedIsApplied ==
  \A k \in 1 .. MaxEvents :
    main = "game" /\ eventCount + Waiting >= k ~> eventCount >= k \/ paused \/ Leaving
=============================================================================
