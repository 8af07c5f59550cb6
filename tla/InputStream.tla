---------------------------- MODULE InputStream -----------------------------
(***************************************************************************)
(* The input stream: one reader thread per evdev device pushes events into *)
(* a single-producer single-consumer queue; a process thread applies them  *)
(* to the one of two HSInput buffers that is not shown; the game shows the *)
(* other buffer with hs_input_stream_swap_buffers, and pauses, resumes and *)
(* stops the stream.  A hot-plug thread adds devices while it runs.        *)
(*                                                                         *)
(* Only the process thread ever takes queue_mutex: it protects nothing and *)
(* is left out.  The queue, the buffers and the flags are shared without a *)
(* lock, so every access to them is a step.                                *)
(***************************************************************************)
EXTENDS Integers, Sequences

CONSTANTS
  Size,        \* HS_INPUT_STREAM_SPSC_SIZE: one slot always stays empty
  MaxDevices,  \* HS_INPUT_MAX_DEVICES
  Sources,     \* the devices that deliver events
  Events,      \* what a device may deliver
  NoEvent,     \* an unwritten slot
  Burst,       \* bound: events returned by one read
  MaxEvents,   \* bound: events in a behaviour
  Width        \* HS_WIDTH

ASSUME InputAssumption ==
  /\ Size \in Nat /\ Size >= 2 /\ MaxDevices \in Nat \ {0}
  /\ Sources \subseteq 1 .. MaxDevices /\ NoEvent \notin Events
  /\ Burst \in Nat \ {0} /\ MaxEvents \in Nat /\ Width \in Nat

VARIABLES
  slots, head, tail,   \* the queue; head and tail are indices, not positions
  dev,                 \* each device's reader: where it is, its event, batch and local_dropped
  active, open,        \* dev->active; dev->fd is open
  count,               \* device_count
  proc,                \* the process thread: where it is, write_target, its event
  hot,                 \* where the hot-plug thread is
  running, paused, hotplug,
  state, shown,        \* state_a and state_b; which of them active_state_ptr is
  main, at_i,          \* the game's thread: where it is, its loop index
  eventCount, dropped, \* the counters of the stream
  read, lost           \* history: events read from devices, events dropped

queueVars == <<slots, head, tail>>
devVars == <<dev, active, open, count>>
flagVars == <<running, paused, hotplug>>
bufVars == <<state, shown>>
mainVars == <<main, at_i>>
countVars == <<eventCount, dropped, read, lost>>
vars == <<queueVars, devVars, proc, hot, flagVars, bufVars, mainVars, countVars>>

Device == 1 .. MaxDevices
Other(b) == IF b = "a" THEN "b" ELSE "a"
Clamp(x, lo, hi) == IF x < lo THEN lo ELSE IF x > hi THEN hi ELSE x

\* hs_input_init and the memset of hs_input_stream_swap_buffers.
Cleared == [down |-> {}, mouse |-> 0, pad |-> 0, dir |-> 0]

\* apply_event_to_input: keys and buttons go down or up (two keys may stand for
\* one button), a relative axis moves the mouse within the screen, an absolute
\* one sets the pad.  Other codes change nothing.
Applied(s, e) ==
  CASE e.type = "key" -> [s EXCEPT !.down = IF e.value # 0 THEN @ \cup {e.code} ELSE @ \ {e.code}]
    [] e.type = "rel" -> [s EXCEPT !.mouse = Clamp(@ + e.value, 0, Width)]
    [] e.type = "abs" -> [s EXCEPT !.pad = e.value]
    [] OTHER -> s

\* compute_dir_from_keys.
Directed(s) ==
  [s EXCEPT !.dir = Clamp(s.pad + (IF "right" \in s.down THEN 1 ELSE 0)
                                - (IF "left" \in s.down THEN 1 ELSE 0), -1, 1)]

Init ==
  /\ slots = [s \in 0 .. Size - 1 |-> NoEvent] /\ head = 0 /\ tail = 0
  /\ dev = [d \in Device |-> [at |-> "off", ev |-> NoEvent, batch |-> 0, local |-> 0]]
  /\ active = [d \in Device |-> FALSE] /\ open = [d \in Device |-> FALSE] /\ count = 0
  /\ proc = [at |-> "off", target |-> "b", ev |-> NoEvent]
  /\ hot = "off"
  /\ running = FALSE /\ paused = FALSE /\ hotplug = FALSE
  /\ state = [b \in {"a", "b"} |-> Cleared] /\ shown = "a"
  /\ main = "setup" /\ at_i = 1
  /\ eventCount = 0 /\ dropped = 0 /\ read = 0 /\ lost = 0

-----------------------------------------------------------------------------
(* The queue: hs_input_spsc_push, _pop and _empty.                         *)

NextIndex(i) == (i + 1) % Size

\* Mutant of IsFull: every slot may be used.
IsFullNever == FALSE

IsFull == NextIndex(head) = tail
IsEmpty == head = tail

-----------------------------------------------------------------------------
(* evdev_reader_thread.                                                    *)

SetDev(d, where) == dev' = [dev EXCEPT ![d].at = where]

\* The head of the loop.
ReaderLooks(d) ==
  /\ dev[d].at = "look"
  /\ SetDev(d, IF active[d] THEN "select" ELSE "exit")
  /\ UNCHANGED <<queueVars, active, open, count, proc, hot, flagVars, bufVars, mainVars, countVars>>

\* select timed out or was interrupted.
ReaderTimesOut(d) ==
  /\ dev[d].at = "select" /\ open[d]
  /\ SetDev(d, "look")
  /\ UNCHANGED <<queueVars, active, open, count, proc, hot, flagVars, bufVars, mainVars, countVars>>

\* select or read fails: the descriptor was closed.
ReaderFails(d) ==
  /\ dev[d].at = "select" /\ ~open[d]
  /\ SetDev(d, "exit")
  /\ active' = [active EXCEPT ![d] = FALSE]
  /\ UNCHANGED <<queueVars, open, count, proc, hot, flagVars, bufVars, mainVars, countVars>>

\* read returns a batch of events.
ReaderReads(d) ==
  /\ dev[d].at = "select" /\ open[d] /\ d \in Sources
  /\ \E k \in 1 .. Burst :
       /\ read + k <= MaxEvents
       /\ read' = read + k
       /\ dev' = [dev EXCEPT ![d].at = "push", ![d].batch = k]
  /\ UNCHANGED <<queueVars, active, open, count, proc, hot, flagVars, bufVars, mainVars, eventCount, dropped, lost>>

\* The batch goes on, or is done.
Rest(d) == IF dev[d].batch = 1 THEN "look" ELSE "push"

\* The queue is full: the event is dropped, and counted by the push and by its
\* caller.
PushFull(d) ==
  /\ dev[d].at = "push" /\ IsFull
  /\ dev' = [dev EXCEPT ![d].at = Rest(d), ![d].batch = @ - 1, ![d].local = @ + 2]
  /\ lost' = lost + 1
  /\ UNCHANGED <<queueVars, active, open, count, proc, hot, flagVars, bufVars, mainVars, eventCount, dropped, read>>

PushRoom(d) ==
  /\ dev[d].at = "push" /\ ~IsFull
  /\ \E e \in Events : dev' = [dev EXCEPT ![d].at = "write", ![d].ev = e]
  /\ UNCHANGED <<queueVars, active, open, count, proc, hot, flagVars, bufVars, mainVars, countVars>>

PushWrite(d) ==
  /\ dev[d].at = "write"
  /\ slots' = [slots EXCEPT ![head] = dev[d].ev]
  /\ SetDev(d, "publish")
  /\ UNCHANGED <<head, tail, active, open, count, proc, hot, flagVars, bufVars, mainVars, countVars>>

\* The release store of head.  Nobody is signalled.
PushPublish(d) ==
  /\ dev[d].at = "publish"
  /\ head' = NextIndex(head)
  /\ dev' = [dev EXCEPT ![d].at = Rest(d), ![d].batch = @ - 1, ![d].ev = NoEvent]
  /\ UNCHANGED <<slots, tail, active, open, count, proc, hot, flagVars, bufVars, mainVars, countVars>>

\* The thread returns, having added its local_dropped.
ReaderExits(d) ==
  /\ dev[d].at = "exit"
  /\ dropped' = dropped + dev[d].local
  /\ dev' = [dev EXCEPT ![d].at = "gone", ![d].local = 0]
  /\ UNCHANGED <<queueVars, active, open, count, proc, hot, flagVars, bufVars, mainVars, eventCount, read, lost>>

-----------------------------------------------------------------------------
(* input_process_thread.                                                   *)

ProcGoes(where) == proc' = [proc EXCEPT !.at = where]

procFrame == <<queueVars, devVars, hot, flagVars, bufVars, mainVars, countVars>>

ProcLooks ==
  /\ proc.at = "look"
  /\ ProcGoes(IF running THEN "unpaused" ELSE "gone")
  /\ UNCHANGED procFrame

\* A paused thread sleeps a millisecond and looks again.
ProcMayGoOn ==
  /\ proc.at = "unpaused"
  /\ ProcGoes(IF paused THEN "look" ELSE "check")
  /\ UNCHANGED procFrame

ProcChecks ==
  /\ proc.at = "check"
  /\ ProcGoes(IF IsEmpty THEN "empty" ELSE "pick")
  /\ UNCHANGED procFrame

\* The queue was empty: leave, or wait?
ProcDecides ==
  /\ proc.at = "empty"
  /\ ProcGoes(IF running THEN "sleepy" ELSE "gone")
  /\ UNCHANGED procFrame

\* pthread_cond_wait.  A broadcast before this step wakes nobody.
ProcWaits ==
  /\ proc.at = "sleepy"
  /\ ProcGoes("wait")
  /\ UNCHANGED procFrame

\* A spurious wake-up.
ProcWakesUp ==
  /\ proc.at = "wait"
  /\ ProcGoes("check")
  /\ UNCHANGED procFrame

\* The buffer that is not shown now.
ProcPicks ==
  /\ proc.at = "pick"
  /\ proc' = [proc EXCEPT !.at = "pop", !.target = Other(shown)]
  /\ UNCHANGED procFrame

\* hs_input_spsc_pop: copies the event, or finds none.
PopReads ==
  /\ proc.at = "pop"
  /\ proc' = IF IsEmpty THEN [proc EXCEPT !.at = "finish"]
                        ELSE [proc EXCEPT !.at = "advance", !.ev = slots[tail]]
  /\ UNCHANGED procFrame

PopAdvances ==
  /\ proc.at = "advance"
  /\ tail' = NextIndex(tail)
  /\ ProcGoes("apply")
  /\ UNCHANGED <<slots, head, devVars, hot, flagVars, bufVars, mainVars, countVars>>

ProcApplies ==
  /\ proc.at = "apply"
  /\ state' = [state EXCEPT ![proc.target] = Applied(@, proc.ev)]
  /\ eventCount' = eventCount + 1
  /\ ProcGoes("pop")
  /\ UNCHANGED <<queueVars, devVars, hot, flagVars, shown, mainVars, dropped, read, lost>>

\* The frame number and the times are left out.
ProcFinishes ==
  /\ proc.at = "finish"
  /\ state' = [state EXCEPT ![proc.target] = Directed(@)]
  /\ ProcGoes("look")
  /\ UNCHANGED <<queueVars, devVars, hot, flagVars, shown, mainVars, countVars>>

-----------------------------------------------------------------------------
(* hotplug_thread.                                                         *)

hotFrame == <<queueVars, proc, flagVars, bufVars, mainVars, countVars>>

\* The head of the loop, reached every second at least.
HotLooks ==
  /\ hot = "look"
  /\ hot' = IF running THEN "select" ELSE "gone"
  /\ UNCHANGED <<hotFrame, devVars>>

HotTimesOut ==
  /\ hot = "select"
  /\ hot' = "look"
  /\ UNCHANGED <<hotFrame, devVars>>

\* A device was created and can be opened: its entry is made, active already.
HotOpens ==
  /\ hot = "select" /\ count < MaxDevices
  /\ hot' = "create"
  /\ open' = [open EXCEPT ![count + 1] = TRUE]
  /\ active' = [active EXCEPT ![count + 1] = TRUE]
  /\ UNCHANGED <<hotFrame, dev, count>>

\* Its reader starts, or cannot be created.
HotCreates ==
  /\ hot = "create"
  /\ \/ hot' = "count" /\ SetDev(count + 1, "look") /\ UNCHANGED open
     \/ hot' = "look" /\ open' = [open EXCEPT ![count + 1] = FALSE] /\ UNCHANGED dev
  /\ UNCHANGED <<hotFrame, active, count>>

\* Only now does the device count.
HotCounts ==
  /\ hot = "count"
  /\ count' = count + 1
  /\ hot' = "look"
  /\ UNCHANGED <<hotFrame, dev, active, open>>

-----------------------------------------------------------------------------
(* The game's thread: setting up and starting.                             *)

MainGoes(where, i) == main' = where /\ at_i' = i

mainFrame == <<queueVars, hot, bufVars, countVars>>

\* hs_input_stream_add_device: the device is opened.
AddDevice ==
  /\ main = "setup" /\ count < MaxDevices
  /\ open' = [open EXCEPT ![count + 1] = TRUE]
  /\ active' = [active EXCEPT ![count + 1] = FALSE]
  /\ count' = count + 1
  /\ UNCHANGED <<mainFrame, dev, proc, flagVars, mainVars>>

\* hs_input_stream_enable_hotplug and _disable_hotplug.
SetHotplug ==
  /\ main = "setup"
  /\ hotplug' = ~hotplug
  /\ UNCHANGED <<mainFrame, devVars, proc, running, paused, mainVars>>

\* hs_input_stream_start.
StartCall ==
  /\ main = "setup" /\ ~running
  /\ MainGoes("start", 1)
  /\ UNCHANGED <<mainFrame, devVars, proc, flagVars>>

StartReader ==
  /\ main = "start" /\ at_i <= count
  /\ active' = [active EXCEPT ![at_i] = TRUE]
  /\ SetDev(at_i, "look")
  /\ MainGoes("start", at_i + 1)
  /\ UNCHANGED <<mainFrame, open, count, proc, flagVars>>

\* pthread_create fails: the readers before this one are undone.
StartReaderFails ==
  /\ main = "start" /\ at_i <= count
  /\ MainGoes("undo", 1)
  /\ UNCHANGED <<mainFrame, devVars, proc, flagVars>>

StartRunning ==
  /\ main = "start" /\ at_i > count
  /\ running' = TRUE
  /\ MainGoes("process", 1)
  /\ UNCHANGED <<mainFrame, devVars, proc, paused, hotplug>>

StartProcess ==
  /\ main = "process"
  /\ ProcGoes("look")
  /\ MainGoes(IF hotplug THEN "hotplug" ELSE "game", 1)
  /\ UNCHANGED <<mainFrame, devVars, flagVars>>

StartProcessFails ==
  /\ main = "process"
  /\ running' = FALSE
  /\ MainGoes("undo", 1)
  /\ UNCHANGED <<mainFrame, devVars, proc, paused, hotplug>>

\* The hot-plug thread starts, or the failure goes unnoticed.
StartHotplug ==
  /\ main = "hotplug"
  /\ hot' \in {"look", "off"}
  /\ MainGoes("game", 1)
  /\ UNCHANGED <<queueVars, devVars, proc, flagVars, bufVars, countVars>>

\* The devices whose readers were created.
ToUndo == at_i <= count /\ dev[at_i].at # "off"

\* active = false, and the descriptor is closed.
Close(d) ==
  /\ active' = [active EXCEPT ![d] = FALSE]
  /\ open' = [open EXCEPT ![d] = FALSE]

UndoCloses ==
  /\ main = "undo" /\ ToUndo
  /\ Close(at_i)
  /\ MainGoes("undojoin", at_i)
  /\ UNCHANGED <<mainFrame, dev, count, proc, flagVars>>

UndoJoins ==
  /\ main = "undojoin" /\ dev[at_i].at = "gone"
  /\ SetDev(at_i, "joined")
  /\ MainGoes("undo", at_i + 1)
  /\ UNCHANGED <<mainFrame, active, open, count, proc, flagVars>>

\* hs_input_stream_start returns false.
StartFailed ==
  /\ main = "undo" /\ ~ToUndo
  /\ MainGoes("failed", 1)
  /\ UNCHANGED <<mainFrame, devVars, proc, flagVars>>

-----------------------------------------------------------------------------
(* The game's thread: the game, and shutting down.                         *)

\* hs_input_stream_swap_buffers: the other buffer is shown ...
SwapShows ==
  /\ main = "game"
  /\ shown' = Other(shown)
  /\ MainGoes("clear", 1)
  /\ UNCHANGED <<queueVars, devVars, proc, hot, flagVars, state, countVars>>

\* ... and the one that was shown is cleared.
SwapClears ==
  /\ main = "clear"
  /\ state' = [state EXCEPT ![Other(shown)] = Cleared]
  /\ MainGoes("game", 1)
  /\ UNCHANGED <<queueVars, devVars, proc, hot, flagVars, shown, countVars>>

\* hs_input_stream_pause.
Pause ==
  /\ main = "game" /\ ~paused
  /\ paused' = TRUE
  /\ UNCHANGED <<mainFrame, devVars, proc, running, hotplug, mainVars>>

\* hs_input_stream_resume.
ResumeClears ==
  /\ main = "game"
  /\ paused' = FALSE
  /\ MainGoes("resume", 1)
  /\ UNCHANGED <<mainFrame, devVars, proc, running, hotplug>>

\* pthread_cond_broadcast wakes the process thread if it waits.
Broadcast == ProcGoes(IF proc.at = "wait" THEN "check" ELSE proc.at)

\* Mutant of ResumeBroadcasts: nobody is woken.
ResumeOnly ==
  /\ main = "resume"
  /\ MainGoes("game", 1)
  /\ UNCHANGED <<mainFrame, devVars, proc, flagVars>>

ResumeBroadcasts ==
  /\ main = "resume"
  /\ Broadcast
  /\ MainGoes("game", 1)
  /\ UNCHANGED <<mainFrame, devVars, flagVars>>

\* hs_input_stream_shutdown, which begins with hs_input_stream_stop, also after
\* a start that failed.
StopCall ==
  /\ main \in {"game", "failed"}
  /\ running' = FALSE
  /\ MainGoes("broadcast", 1)
  /\ UNCHANGED <<mainFrame, devVars, proc, paused, hotplug>>

StopBroadcasts ==
  /\ main = "broadcast"
  /\ Broadcast
  /\ MainGoes("close", 1)
  /\ UNCHANGED <<mainFrame, devVars, flagVars>>

StopCloses ==
  /\ main = "close" /\ at_i <= count
  /\ Close(at_i)
  /\ MainGoes("close", at_i + 1)
  /\ UNCHANGED <<mainFrame, dev, count, proc, flagVars>>

StopClosed ==
  /\ main = "close" /\ at_i > count
  /\ MainGoes("join", 1)
  /\ UNCHANGED <<mainFrame, devVars, proc, flagVars>>

\* Mutant of StopJoins: the readers are not waited for.
StopJoinsNot ==
  /\ main = "join" /\ at_i <= count
  /\ MainGoes("join", at_i + 1)
  /\ UNCHANGED <<mainFrame, devVars, proc, flagVars>>

\* Joining a reader that was never created or was joined before is undefined.
StopJoins ==
  /\ main = "join" /\ at_i <= count
  /\ \/ /\ dev[at_i].at = "gone"
        /\ SetDev(at_i, "joined")
        /\ MainGoes("join", at_i + 1)
     \/ /\ dev[at_i].at \in {"off", "joined"}
        /\ MainGoes("undefined", at_i)
        /\ UNCHANGED dev
  /\ UNCHANGED <<mainFrame, active, open, count, proc, flagVars>>

StopJoinsHotplug ==
  /\ main = "join" /\ at_i > count
  /\ hotplug => hot \in {"off", "gone"}
  /\ MainGoes(IF hotplug /\ hot = "off" THEN "undefined" ELSE "joinprocess", 1)
  /\ UNCHANGED <<mainFrame, devVars, proc, flagVars>>

\* The last join; then the queue's mutex and condition are destroyed and the
\* whole stream is zeroed.
StopReturns ==
  /\ main = "joinprocess" /\ proc.at \in {"off", "gone"}
  /\ MainGoes(IF proc.at = "off" THEN "undefined" ELSE "stopped", 1)
  /\ UNCHANGED <<mainFrame, devVars, proc, flagVars>>

-----------------------------------------------------------------------------
ReaderPushes(d) == PushFull(d) \/ PushRoom(d) \/ PushWrite(d) \/ PushPublish(d)
ReaderGoesOn(d) == ReaderLooks(d) \/ ReaderTimesOut(d) \/ ReaderFails(d) \/ ReaderPushes(d) \/ ReaderExits(d)
Processing ==
  \/ ProcLooks \/ ProcMayGoOn \/ ProcChecks \/ ProcDecides \/ ProcWaits
  \/ ProcPicks \/ PopReads \/ PopAdvances \/ ProcApplies \/ ProcFinishes
HotGoesOn == HotLooks \/ HotTimesOut \/ HotCreates \/ HotCounts
Starting ==
  \/ StartReader \/ StartReaderFails \/ StartRunning \/ StartProcess \/ StartProcessFails
  \/ StartHotplug \/ UndoCloses \/ UndoJoins \/ StartFailed
Playing == SwapClears \/ ResumeBroadcasts
Stopping ==
  \/ StopBroadcasts \/ StopCloses \/ StopClosed \/ StopJoins \/ StopJoinsHotplug \/ StopReturns
MainCalls ==
  AddDevice \/ SetHotplug \/ StartCall \/ SwapShows \/ Pause \/ ResumeClears \/ StopCall

Next ==
  \/ \E d \in Device : ReaderReads(d) \/ ReaderGoesOn(d)
  \/ Processing \/ ProcWakesUp
  \/ HotOpens \/ HotGoesOn
  \/ Starting \/ Playing \/ Stopping \/ MainCalls

Spec == Init /\ [][Next]_vars

\* Every thread goes on.  The game calls what it likes, devices deliver what
\* they like, and no spurious wake-up is promised.
Fairness ==
  /\ \A d \in Device : WF_vars(ReaderGoesOn(d))
  /\ WF_vars(Processing) /\ WF_vars(HotGoesOn)
  /\ WF_vars(Starting \/ Playing \/ Stopping)

FairSpec == Spec /\ Fairness
=============================================================================
