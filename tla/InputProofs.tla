---------------------------- MODULE InputProofs -----------------------------
(***************************************************************************)
(* For any number of devices and every size of the queue: a stream whose   *)
(* start failed or that was shut down has no thread left, and with one     *)
(* device that delivers the queue is a first-in first-out channel and no   *)
(* event is unaccounted for.                                               *)
(***************************************************************************)
EXTENDS InputProps, FiniteSetTheorems, TLAPS

-----------------------------------------------------------------------------
(* Types.                                                                  *)

Entry == Events \cup {NoEvent}
Place == 0 .. Size - 1

ReaderType ==
  dev \in [Device -> [at : {"off", "look", "select", "push", "write", "publish", "exit", "gone", "joined"},
                      ev : Entry, batch : Int, local : Int]]
ProcType ==
  proc \in [at : {"off", "look", "unpaused", "check", "empty", "sleepy", "wait", "pick", "pop",
                  "advance", "apply", "finish", "gone"},
            target : {"a", "b"}, ev : Entry]
QueueType == slots \in [Place -> Entry] /\ head \in Place /\ tail \in Place
MainType ==
  /\ count \in 0 .. MaxDevices /\ at_i \in 1 .. MaxDevices + 1 /\ shown \in {"a", "b"}
  /\ hot \in {"off", "look", "select", "create", "count", "gone"}
  /\ hot \in {"create", "count"} => count < MaxDevices
  /\ hotplug \in BOOLEAN
  /\ main \in {"undo", "undojoin"} => at_i <= count + 1

\* Before the game plays there is no hot-plug thread, and without hot-plugging
\* there never is.
HotIsLate ==
  /\ main \in {"setup", "start", "process", "hotplug", "undo", "undojoin", "failed"} => hot = "off"
  /\ hot # "off" \/ main = "hotplug" => hotplug

Types == ReaderType /\ ProcType /\ QueueType /\ MainType /\ HotIsLate

\* The readers that were created, and those that were joined.
Created == {d \in Device : dev[d].at # "off"}
Joined == {d \in Device : dev[d].at = "joined"}

\* Where each thread is at each place of the game's thread.  Readers are created
\* and undone in the order of their devices, so that those to undo are a prefix.
Lives ==
  /\ main \in {"setup", "start", "process", "undo", "undojoin", "failed"} => proc.at = "off"
  /\ main = "stopped" => proc.at = "gone"
  /\ main = "setup" => Created = {}
  /\ main = "start" => Created = {d \in Device : d < at_i}
  /\ main \in {"start", "process"} => Joined = {}
  /\ main = "process" => Created = {d \in Device : d <= count}
  /\ main \in {"undo", "undojoin"} =>
       /\ Joined = {d \in Device : d < at_i}
       /\ \A d, e \in Device : at_i <= d /\ d <= e /\ d \notin Created => e \notin Created
  /\ main \in {"setup", "start", "process", "undo", "undojoin"} =>
       \A d \in Created : d <= count
  /\ main = "undojoin" => at_i <= count
  /\ main = "failed" => Created = Joined
  /\ ~ hotplug => \A d \in Created : d <= count
  /\ main = "join" /\ ~ hotplug => \A d \in Device : d < at_i => d \in Joined
  /\ main \in {"joinprocess", "stopped"} /\ ~ hotplug =>
       \A d \in Device : d <= count => d \in Joined

LEMMA ModBelow ==
  ASSUME NEW i \in Place
  PROVE  NextIndex(i) = (IF i + 1 < Size THEN i + 1 ELSE 0) /\ NextIndex(i) \in Place
<1>1. i + 1 \in 0 .. Size /\ Size \in Nat /\ Size >= 2  BY InputAssumption DEF Place
<1>2. CASE i + 1 < Size  BY <1>1, <1>2, SMT DEF NextIndex, Place
<1>3. CASE i + 1 = Size  BY <1>1, <1>3, SMT DEF NextIndex, Place
<1>4. QED  BY <1>1, <1>2, <1>3

LEMMA TypesInit == Init => Types /\ Lives
<1> SUFFICES ASSUME Init PROVE Types /\ Lives
  OBVIOUS
<1> USE InputAssumption DEF Init
<1>1. ReaderType  BY DEF ReaderType, Entry
<1>2. ProcType  BY DEF ProcType, Entry
<1>3. QueueType  BY DEF QueueType, Entry, Place
<1>4. MainType
  <2>1. count \in 0 .. MaxDevices /\ at_i \in 1 .. MaxDevices + 1 /\ at_i <= count + 1
    OBVIOUS
  <2>2. QED  BY <2>1 DEF MainType
<1>5. HotIsLate  BY DEF HotIsLate
<1>6. Lives
  <2>1. main = "setup" /\ proc.at = "off" /\ Created = {}
    BY DEF Created
  <2>2. QED  BY <2>1 DEF Lives
<1>7. QED  BY <1>1, <1>2, <1>3, <1>4, <1>5, <1>6 DEF Types

-----------------------------------------------------------------------------
(* What the steps leave alone.                                             *)

\* A reader that lives goes on, or is gone; nothing else about threads changes.
LEMMA ReaderSteps ==
  ASSUME Types, NEW d \in Device, ReaderReads(d) \/ ReaderGoesOn(d)
  PROVE  /\ ReaderType' /\ dev[d].at \notin {"off", "gone", "joined"}
         /\ dev'[d].at \notin {"off", "joined"}
         /\ \A e \in Device : e # d => dev'[e] = dev[e]
         /\ UNCHANGED <<tail, count, proc, hot, flagVars, bufVars, mainVars>>
<1> USE DEF Types, ReaderType, Entry
<1>1. CASE ReaderReads(d)
  <2>1. PICK k \in 1 .. Burst : dev' = [dev EXCEPT ![d].at = "push", ![d].batch = k]
    BY <1>1 DEF ReaderReads
  <2>2. k \in Int  BY InputAssumption
  <2>3. QED  BY <1>1, <2>1, <2>2, ZenonT(30) DEF ReaderReads, queueVars
<1>2. CASE ReaderLooks(d) \/ ReaderTimesOut(d) \/ ReaderFails(d) \/ ReaderExits(d)
  BY <1>2 DEF ReaderLooks, ReaderTimesOut, ReaderFails, ReaderExits, SetDev, queueVars
<1>3. CASE PushFull(d)
  BY <1>3 DEF PushFull, Rest, queueVars
<1>4. CASE PushRoom(d)
  <2>1. PICK e \in Events : dev' = [dev EXCEPT ![d].at = "write", ![d].ev = e]
    BY <1>4 DEF PushRoom
  <2>2. QED  BY <1>4, <2>1, ZenonT(30) DEF PushRoom, queueVars
<1>5. CASE PushWrite(d)
  BY <1>5 DEF PushWrite, SetDev
<1>6. CASE PushPublish(d)
  BY <1>6 DEF PushPublish, Rest
<1>7. QED  BY <1>1, <1>2, <1>3, <1>4, <1>5, <1>6 DEF ReaderGoesOn, ReaderPushes

LEMMA ReaderKeepsQueue ==
  ASSUME Types, NEW d \in Device, ReaderReads(d) \/ ReaderGoesOn(d)
  PROVE  QueueType'
<1> USE DEF Types
<1>1. CASE PushWrite(d)
  <2>1. slots' = [slots EXCEPT ![head] = dev[d].ev] /\ head' = head /\ tail' = tail
    BY <1>1 DEF PushWrite
  <2>2. dev[d].ev \in Entry  BY DEF ReaderType
  <2>3. QED  BY <2>1, <2>2 DEF QueueType
<1>2. CASE PushPublish(d)
  <2>1. slots' = slots /\ head' = NextIndex(head) /\ tail' = tail
    BY <1>2 DEF PushPublish
  <2>2. head' \in Place  BY <2>1, ModBelow DEF QueueType
  <2>3. QED  BY <2>1, <2>2 DEF QueueType
<1>3. CASE ~ PushWrite(d) /\ ~ PushPublish(d)
  <2>1. UNCHANGED queueVars
    BY <1>3 DEF ReaderReads, ReaderGoesOn, ReaderPushes, ReaderLooks, ReaderTimesOut, ReaderFails,
                ReaderExits, PushFull, PushRoom
  <2>2. QED  BY <2>1 DEF queueVars, QueueType
<1>4. QED  BY <1>1, <1>2, <1>3

LEMMA ReaderKeeps ==
  ASSUME Types, Lives, NEW d \in Device, ReaderReads(d) \/ ReaderGoesOn(d)
  PROVE  Types' /\ Lives'
<1>1. /\ ReaderType' /\ dev[d].at \notin {"off", "gone", "joined"} /\ dev'[d].at \notin {"off", "joined"}
      /\ \A e \in Device : e # d => dev'[e] = dev[e]
  BY ReaderSteps
<1>2. UNCHANGED <<count, proc, hot, hotplug, shown, main, at_i>>
  BY ReaderSteps DEF flagVars, bufVars, mainVars
<1>3. ProcType' /\ MainType' /\ HotIsLate'
  BY <1>2 DEF Types, ProcType, MainType, HotIsLate
<1>4. Created' = Created /\ Joined' = Joined
  BY <1>1 DEF Created, Joined
<1>5. Lives'
  BY <1>2, <1>4 DEF Lives
<1>6. QED  BY <1>1, <1>3, <1>5, ReaderKeepsQueue DEF Types

\* The process thread lives, and is not created again.
LEMMA ProcKeeps ==
  ASSUME Types, Lives, Processing \/ ProcWakesUp
  PROVE  Types' /\ Lives'
<1>1. /\ ProcType' /\ proc.at \notin {"off", "gone"} /\ UNCHANGED <<slots, head>>
      /\ UNCHANGED <<devVars, hot, flagVars, mainVars>>
      /\ shown' = shown /\ (tail' = tail \/ tail' = NextIndex(tail))
  <2> USE DEF Types, ProcType, ProcGoes, procFrame, queueVars, bufVars
  <2>1. CASE ProcLooks \/ ProcMayGoOn \/ ProcChecks \/ ProcDecides \/ ProcWaits \/ ProcWakesUp
    BY <2>1 DEF ProcLooks, ProcMayGoOn, ProcChecks, ProcDecides, ProcWaits, ProcWakesUp
  <2>2. CASE ProcPicks
    BY <2>2 DEF ProcPicks, Other
  <2>3. CASE PopReads
    <3>1. slots[tail] \in Entry  BY DEF QueueType
    <3>2. QED  BY <2>3, <3>1 DEF PopReads
  <2>4. CASE PopAdvances \/ ProcApplies \/ ProcFinishes
    BY <2>4 DEF PopAdvances, ProcApplies, ProcFinishes
  <2>5. QED  BY <2>1, <2>2, <2>3, <2>4 DEF Processing
<1>2. UNCHANGED <<dev, count, hotplug, main, at_i>>
  BY <1>1 DEF devVars, flagVars, mainVars
<1>3. ReaderType' /\ MainType' /\ HotIsLate'
  BY <1>1, <1>2 DEF Types, ReaderType, MainType, HotIsLate
<1>4. QueueType'
  BY <1>1, ModBelow DEF Types, QueueType
<1>5. Lives'
  <2>1. Created' = Created /\ Joined' = Joined  BY <1>2 DEF Created, Joined
  <2>2. QED  BY <1>1, <1>2, <2>1 DEF Lives
<1>6. QED  BY <1>1, <1>3, <1>4, <1>5 DEF Types

\* The hot-plug thread only runs when hot-plugging is on and the game plays or
\* shuts down.
LEMMA HotKeeps ==
  ASSUME Types, Lives, HotOpens \/ HotGoesOn
  PROVE  Types' /\ Lives'
<1>1. /\ hot # "off" /\ hot' \in {"look", "select", "create", "count", "gone"}
      /\ UNCHANGED <<queueVars, proc, flagVars, bufVars, mainVars>>
  BY DEF HotOpens, HotGoesOn, HotLooks, HotTimesOut, HotCreates, HotCounts, hotFrame
<1>2. UNCHANGED <<slots, head, tail, hotplug, shown, main, at_i>> /\ hotplug
  BY <1>1 DEF queueVars, flagVars, bufVars, mainVars, Types, HotIsLate
<1>3. main \notin {"setup", "start", "process", "hotplug", "undo", "undojoin", "failed"}
  BY <1>1 DEF Types, HotIsLate
<1>4. ReaderType'
  <2>1. CASE HotCreates
    BY <2>1 DEF HotCreates, SetDev, Types, ReaderType
  <2>2. CASE ~ HotCreates
    <3>1. dev' = dev
      BY <2>2 DEF HotOpens, HotGoesOn, HotLooks, HotTimesOut, HotCounts, devVars
    <3>2. QED  BY <3>1 DEF Types, ReaderType
  <2>3. QED  BY <2>1, <2>2
<1>5. MainType'
  <2>1. count' \in 0 .. MaxDevices /\ (hot' \in {"create", "count"} => count' < MaxDevices)
    <3> USE InputAssumption DEF Types, MainType
    <3>1. CASE HotLooks \/ HotTimesOut \/ HotOpens \/ HotCreates
      BY <3>1 DEF HotLooks, HotTimesOut, HotOpens, HotCreates, devVars
    <3>2. CASE HotCounts
      BY <3>2 DEF HotCounts
    <3>3. QED  BY <3>1, <3>2 DEF HotGoesOn
  <2>2. QED  BY <1>1, <1>2, <1>3, <2>1 DEF Types, MainType
<1>6. HotIsLate' /\ ProcType' /\ QueueType'
  BY <1>1, <1>2, <1>3 DEF HotIsLate, Types, ProcType, QueueType
<1>7. Lives'
  BY <1>1, <1>2, <1>3 DEF Lives
<1>8. QED  BY <1>4, <1>5, <1>6, <1>7 DEF Types

-----------------------------------------------------------------------------
(* The game's thread.                                                      *)

\* Steps that leave every reader where it is.
LEMMA SameReaders ==
  ASSUME Types, dev' = dev, UNCHANGED <<slots, head, tail>>
  PROVE  /\ ReaderType' /\ QueueType' /\ Created' = Created /\ Joined' = Joined
BY DEF Types, ReaderType, QueueType, Created, Joined

\* Setting up and starting.
LEMMA StartKeeps ==
  ASSUME Types, Lives, Starting \/ AddDevice \/ SetHotplug \/ StartCall
  PROVE  Types' /\ Lives'
<1> USE DEF MainGoes, mainFrame, queueVars, bufVars
<1>0. UNCHANGED <<slots, head, tail, shown>>
  BY DEF Starting, StartReader, StartReaderFails, StartRunning, StartProcess, StartProcessFails,
         StartHotplug, UndoCloses, UndoJoins, StartFailed, AddDevice, SetHotplug, StartCall
<1>1. count \in 0 .. MaxDevices /\ at_i \in 1 .. MaxDevices + 1 /\ MaxDevices \in Nat
  BY InputAssumption DEF Types, MainType
<1>2. CASE AddDevice
  <2>1. dev' = dev /\ main = "setup" /\ UNCHANGED <<proc, hot, hotplug, main, at_i>> /\ count' = count + 1
        /\ count < MaxDevices
    BY <1>2 DEF AddDevice, flagVars, mainVars
  <2>2. ReaderType' /\ QueueType' /\ Created' = Created /\ Joined' = Joined
    BY <1>0, <2>1, SameReaders
  <2>3. MainType' /\ ProcType' /\ HotIsLate'
    BY <1>0, <1>1, <2>1 DEF Types, MainType, ProcType, HotIsLate
  <2>4. Lives'
    BY <2>1, <2>2 DEF Lives
  <2>5. QED  BY <2>2, <2>3, <2>4 DEF Types
<1>3. CASE SetHotplug
  <2>1. dev' = dev /\ main = "setup" /\ UNCHANGED <<proc, hot, count, main, at_i>> /\ hotplug' = ~ hotplug
    BY <1>3 DEF SetHotplug, devVars, mainVars
  <2>2. ReaderType' /\ QueueType' /\ Created' = Created /\ Joined' = Joined
    BY <1>0, <2>1, SameReaders
  <2>3. MainType' /\ ProcType' /\ HotIsLate'
    BY <1>0, <1>1, <2>1 DEF Types, MainType, ProcType, HotIsLate
  <2>4. Lives'
    BY <2>1, <2>2 DEF Lives
  <2>5. QED  BY <2>2, <2>3, <2>4 DEF Types
<1>4. CASE StartCall
  <2>1. dev' = dev /\ main = "setup" /\ UNCHANGED <<proc, hot, hotplug, count>> /\ main' = "start" /\ at_i' = 1
    BY <1>4 DEF StartCall, devVars, flagVars
  <2>2. ReaderType' /\ QueueType' /\ Created' = Created /\ Joined' = Joined
    BY <1>0, <2>1, SameReaders
  <2>3. MainType' /\ ProcType' /\ HotIsLate'
    BY <1>0, <1>1, <2>1 DEF Types, MainType, ProcType, HotIsLate
  <2>4. Created = {} /\ Joined = {} /\ {d \in Device : d < at_i'} = {}
    BY <2>1 DEF Lives, Created, Joined, Device
  <2>5. Lives'
    BY <2>1, <2>2, <2>4 DEF Lives
  <2>6. QED  BY <2>2, <2>3, <2>5 DEF Types
<1>5. CASE StartReader
  <2>1. /\ main = "start" /\ at_i <= count /\ main' = "start" /\ at_i' = at_i + 1
        /\ UNCHANGED <<proc, hot, hotplug, count>> /\ dev' = [dev EXCEPT ![at_i].at = "look"]
    BY <1>5 DEF StartReader, SetDev, flagVars
  <2>2. at_i \in Device  BY <1>1, <2>1 DEF Device
  <2>3. ReaderType' /\ Created' = Created \cup {at_i} /\ Joined' = Joined \ {at_i}
    BY <2>1, <2>2 DEF Types, ReaderType, Created, Joined
  <2>4. MainType' /\ ProcType' /\ HotIsLate' /\ QueueType'
    BY <1>0, <1>1, <2>1 DEF Types, MainType, ProcType, HotIsLate, QueueType
  <2>5. Created' = {d \in Device : d < at_i'} /\ Joined' = {}
    BY <1>1, <2>1, <2>2, <2>3 DEF Lives, Device
  <2>6. \A d \in Created' : d <= count
    BY <2>1, <2>2, <2>3 DEF Lives
  <2>7. Lives'
    BY <2>1, <2>5, <2>6 DEF Lives
  <2>8. QED  BY <2>3, <2>4, <2>7 DEF Types
<1>6. CASE StartReaderFails
  <2>1. dev' = dev /\ main = "start" /\ UNCHANGED <<proc, hot, hotplug, count>> /\ main' = "undo" /\ at_i' = 1
    BY <1>6 DEF StartReaderFails, devVars, flagVars
  <2>2. ReaderType' /\ QueueType' /\ Created' = Created /\ Joined' = Joined
    BY <1>0, <2>1, SameReaders
  <2>3. MainType' /\ ProcType' /\ HotIsLate'
    BY <1>0, <1>1, <2>1 DEF Types, MainType, ProcType, HotIsLate
  <2>4. Joined' = {d \in Device : d < at_i'}
    BY <2>1, <2>2 DEF Lives, Device
  <2>5. \A d, e \in Device : d <= e /\ d \notin Created => e \notin Created
    BY <1>1, <2>1 DEF Lives, Device
  <2>6. Lives'
    BY <2>1, <2>2, <2>4, <2>5 DEF Lives
  <2>7. QED  BY <2>2, <2>3, <2>6 DEF Types
<1>7. CASE StartRunning
  <2>1. dev' = dev /\ main = "start" /\ UNCHANGED <<proc, hot, hotplug, count>> /\ main' = "process" /\ at_i' = 1
        /\ at_i > count
    BY <1>7 DEF StartRunning, devVars
  <2>2. ReaderType' /\ QueueType' /\ Created' = Created /\ Joined' = Joined
    BY <1>0, <2>1, SameReaders
  <2>3. MainType' /\ ProcType' /\ HotIsLate'
    BY <1>0, <1>1, <2>1 DEF Types, MainType, ProcType, HotIsLate
  <2>4. Created = {d \in Device : d <= count}
    BY <1>1, <2>1 DEF Lives, Device
  <2>5. Lives'
    BY <2>1, <2>2, <2>4 DEF Lives
  <2>6. QED  BY <2>2, <2>3, <2>5 DEF Types
<1>8. CASE StartProcess
  <2>1. /\ dev' = dev /\ main = "process" /\ UNCHANGED <<hot, hotplug, count>> /\ at_i' = 1
        /\ main' = (IF hotplug THEN "hotplug" ELSE "game") /\ proc' = [proc EXCEPT !.at = "look"]
    BY <1>8 DEF StartProcess, devVars, flagVars, ProcGoes
  <2>2. ReaderType' /\ QueueType' /\ Created' = Created /\ Joined' = Joined
    BY <1>0, <2>1, SameReaders
  <2>3. MainType' /\ ProcType' /\ HotIsLate'
    BY <1>0, <1>1, <2>1 DEF Types, MainType, ProcType, HotIsLate
  <2>4. main' \in {"hotplug", "game"}  BY <2>1
  <2>5. Lives'
    BY <2>1, <2>2, <2>4 DEF Lives
  <2>6. QED  BY <2>2, <2>3, <2>5 DEF Types
<1>9. CASE StartProcessFails
  <2>1. dev' = dev /\ main = "process" /\ UNCHANGED <<proc, hot, hotplug, count>> /\ main' = "undo" /\ at_i' = 1
    BY <1>9 DEF StartProcessFails, devVars
  <2>2. ReaderType' /\ QueueType' /\ Created' = Created /\ Joined' = Joined
    BY <1>0, <2>1, SameReaders
  <2>3. MainType' /\ ProcType' /\ HotIsLate'
    BY <1>0, <1>1, <2>1 DEF Types, MainType, ProcType, HotIsLate
  <2>4. Joined' = {d \in Device : d < at_i'}
    BY <2>1, <2>2 DEF Lives, Device
  <2>5. \A d, e \in Device : d <= e /\ d \notin Created => e \notin Created
    BY <1>1, <2>1 DEF Lives, Device
  <2>6. Lives'
    BY <2>1, <2>2, <2>4, <2>5 DEF Lives
  <2>7. QED  BY <2>2, <2>3, <2>6 DEF Types
<1>10. CASE StartHotplug
  <2>1. /\ dev' = dev /\ main = "hotplug" /\ UNCHANGED <<proc, hotplug, count>> /\ main' = "game" /\ at_i' = 1
        /\ hot' \in {"look", "off"}
    BY <1>10 DEF StartHotplug, devVars, flagVars
  <2>2. ReaderType' /\ QueueType' /\ Created' = Created /\ Joined' = Joined
    BY <1>0, <2>1, SameReaders
  <2>3. MainType' /\ ProcType' /\ HotIsLate'
    BY <1>0, <1>1, <2>1 DEF Types, MainType, ProcType, HotIsLate
  <2>4. Lives'
    BY <2>1, <2>2 DEF Lives, Types, HotIsLate
  <2>5. QED  BY <2>2, <2>3, <2>4 DEF Types
<1>11. CASE UndoCloses
  <2>1. /\ dev' = dev /\ main = "undo" /\ at_i <= count /\ UNCHANGED <<proc, hot, hotplug, count>>
        /\ main' = "undojoin" /\ at_i' = at_i
    BY <1>11 DEF UndoCloses, ToUndo, flagVars
  <2>2. ReaderType' /\ QueueType' /\ Created' = Created /\ Joined' = Joined
    BY <1>0, <2>1, SameReaders
  <2>3. MainType' /\ ProcType' /\ HotIsLate'
    BY <1>0, <1>1, <2>1 DEF Types, MainType, ProcType, HotIsLate
  <2>4. Lives'
    BY <2>1, <2>2 DEF Lives
  <2>5. QED  BY <2>2, <2>3, <2>4 DEF Types
<1>12. CASE UndoJoins
  <2>1. /\ main = "undojoin" /\ main' = "undo" /\ at_i' = at_i + 1 /\ UNCHANGED <<proc, hot, hotplug, count>>
        /\ dev[at_i].at = "gone" /\ dev' = [dev EXCEPT ![at_i].at = "joined"]
    BY <1>12 DEF UndoJoins, SetDev, flagVars
  <2>2. at_i \in Device /\ at_i <= count  BY <1>1, <2>1 DEF Device, Lives
  <2>3. ReaderType' /\ Created' = Created /\ Joined' = Joined \cup {at_i}
    BY <2>1, <2>2 DEF Types, ReaderType, Created, Joined
  <2>4. MainType' /\ ProcType' /\ HotIsLate' /\ QueueType'
    BY <1>0, <1>1, <2>1, <2>2 DEF Types, MainType, ProcType, HotIsLate, QueueType
  <2>5. Joined' = {d \in Device : d < at_i'}
    <3>1. Joined = {d \in Device : d < at_i}  BY <2>1 DEF Lives
    <3>2. \A d \in Device : d < at_i' <=> d < at_i \/ d = at_i
      BY <1>1, <2>1 DEF Device
    <3>3. QED  BY <2>2, <2>3, <3>1, <3>2
  <2>6. \A d, e \in Device : at_i' <= d /\ d <= e /\ d \notin Created => e \notin Created
    BY <1>1, <2>1 DEF Lives, Device
  <2>7. Lives'
    BY <2>1, <2>3, <2>5, <2>6 DEF Lives
  <2>8. QED  BY <2>3, <2>4, <2>7 DEF Types
<1>13. CASE StartFailed
  <2>1. /\ dev' = dev /\ main = "undo" /\ ~ ToUndo /\ UNCHANGED <<proc, hot, hotplug, count>>
        /\ main' = "failed" /\ at_i' = 1
    BY <1>13 DEF StartFailed, devVars, flagVars
  <2>2. ReaderType' /\ QueueType' /\ Created' = Created /\ Joined' = Joined
    BY <1>0, <2>1, SameReaders
  <2>3. MainType' /\ ProcType' /\ HotIsLate'
    BY <1>0, <1>1, <2>1 DEF Types, MainType, ProcType, HotIsLate
  <2>4. Joined \subseteq Created  BY DEF Joined, Created
  <2>5. ASSUME NEW d \in Created  PROVE d \in Joined
    <3>1. d \in Device /\ d <= count  BY <2>1, <2>5 DEF Lives, Created
    <3>2. CASE d < at_i  BY <2>1, <3>1, <3>2 DEF Lives
    <3>3. CASE at_i <= d
      <4>1. at_i \in Device /\ at_i <= count  BY <1>1, <3>1, <3>3 DEF Device
      <4>2. at_i \notin Created  BY <2>1, <4>1 DEF ToUndo, Created
      <4>3. \A c, e \in Device : at_i <= c /\ c <= e /\ c \notin Created => e \notin Created
        BY <2>1 DEF Lives
      <4>4. at_i <= at_i  BY <1>1
      <4>5. d \notin Created  BY <3>1, <3>3, <4>1, <4>2, <4>3, <4>4
      <4>6. QED  BY <2>5, <4>5
    <3>4. QED  BY <1>1, <3>1, <3>2, <3>3 DEF Device
  <2>6. Created = Joined  BY <2>4, <2>5
  <2>7. Lives'
    BY <2>1, <2>2, <2>6 DEF Lives
  <2>8. QED  BY <2>2, <2>3, <2>7 DEF Types
<1>14. QED
  BY <1>2, <1>3, <1>4, <1>5, <1>6, <1>7, <1>8, <1>9, <1>10, <1>11, <1>12, <1>13 DEF Starting

\* Playing: the readers and the process thread stay where they are.
LEMMA PlayKeeps ==
  ASSUME Types, Lives, Playing \/ SwapShows \/ Pause \/ ResumeClears
  PROVE  Types' /\ Lives'
<1> USE DEF MainGoes, mainFrame, queueVars, bufVars, devVars, flagVars, mainVars
<1>1. /\ UNCHANGED <<slots, head, tail, dev, count, hot, hotplug>> /\ shown' \in {shown, Other(shown)}
      /\ main \in {"game", "clear", "resume"} /\ main' \in {"game", "clear", "resume"}
      /\ at_i' \in {1, at_i}
      /\ proc' = proc \/ (proc.at = "wait" /\ proc' = [proc EXCEPT !.at = "check"])
  <2>1. CASE SwapShows \/ SwapClears \/ Pause \/ ResumeClears
    BY <2>1 DEF SwapShows, SwapClears, Pause, ResumeClears
  <2>2. CASE ResumeBroadcasts
    <3>1. proc' = [proc EXCEPT !.at = IF proc.at = "wait" THEN "check" ELSE proc.at]
      BY <2>2 DEF ResumeBroadcasts, Broadcast, ProcGoes
    <3>2. proc' = proc \/ (proc.at = "wait" /\ proc' = [proc EXCEPT !.at = "check"])
      BY <3>1 DEF Types, ProcType
    <3>3. QED  BY <2>2, <3>2 DEF ResumeBroadcasts
  <2>3. QED  BY <2>1, <2>2 DEF Playing
<1>2. ReaderType' /\ QueueType' /\ Created' = Created /\ Joined' = Joined
  BY <1>1, SameReaders
<1>3. MainType' /\ HotIsLate'
  BY <1>1, InputAssumption DEF Types, MainType, HotIsLate, Other
<1>4. ProcType'
  BY <1>1 DEF Types, ProcType
<1>5. Lives'
  BY <1>1, <1>2 DEF Lives
<1>6. QED  BY <1>2, <1>3, <1>4, <1>5 DEF Types

\* Stopping: the readers that were counted are joined, then the process thread.
LEMMA StopKeeps ==
  ASSUME Types, Lives, Stopping \/ StopCall
  PROVE  Types' /\ Lives'
<1> USE DEF MainGoes, mainFrame, queueVars, bufVars, devVars, flagVars
<1>1. count \in 0 .. MaxDevices /\ at_i \in 1 .. MaxDevices + 1 /\ MaxDevices \in Nat
  BY InputAssumption DEF Types, MainType
<1>2. UNCHANGED <<slots, head, tail, shown, count, hot, hotplug>>
  BY DEF Stopping, StopCall, StopBroadcasts, StopCloses, StopClosed, StopJoins, StopJoinsHotplug, StopReturns
<1>3. CASE StopCall \/ StopCloses \/ StopClosed
  <2>1. /\ UNCHANGED <<dev, proc>> /\ main' \in {"broadcast", "close", "join"} /\ at_i' \in 1 .. MaxDevices + 1
        /\ main' = "join" => at_i' = 1
        /\ main \in {"game", "failed", "close"}
    BY <1>1, <1>3 DEF StopCall, StopCloses, StopClosed
  <2>2. ReaderType' /\ QueueType' /\ Created' = Created /\ Joined' = Joined
    BY <1>2, <2>1, SameReaders
  <2>3. MainType' /\ ProcType' /\ HotIsLate'
    BY <1>2, <2>1 DEF Types, MainType, ProcType, HotIsLate
  <2>4. \A d \in Device : ~ (d < 1)  BY DEF Device
  <2>5. Lives'
    BY <1>2, <2>1, <2>2, <2>4 DEF Lives
  <2>6. QED  BY <2>2, <2>3, <2>5 DEF Types
<1>4. CASE StopBroadcasts
  <2>1. dev' = dev /\ main = "broadcast" /\ main' = "close" /\ at_i' = 1
    BY <1>4 DEF StopBroadcasts
  <2>2. ReaderType' /\ QueueType' /\ Created' = Created /\ Joined' = Joined
    BY <1>2, <2>1, SameReaders
  <2>3. MainType' /\ HotIsLate'
    BY <1>1, <1>2, <2>1 DEF Types, MainType, HotIsLate
  <2>4. ProcType'
    BY <1>4 DEF StopBroadcasts, Broadcast, ProcGoes, Types, ProcType
  <2>5. Lives'
    BY <1>2, <2>1, <2>2 DEF Lives
  <2>6. QED  BY <2>2, <2>3, <2>4, <2>5 DEF Types
<1>5. CASE StopJoins
  <2>1. at_i \in Device /\ main = "join" /\ at_i <= count /\ proc' = proc
    BY <1>1, <1>5 DEF StopJoins, Device
  <2>2. CASE dev[at_i].at = "gone" /\ SetDev(at_i, "joined") /\ main' = "join" /\ at_i' = at_i + 1
    <3>1. ReaderType' /\ Created' = Created /\ Joined' = Joined \cup {at_i}
      BY <2>1, <2>2 DEF SetDev, Types, ReaderType, Created, Joined
    <3>2. MainType' /\ HotIsLate' /\ ProcType' /\ QueueType'
      BY <1>1, <1>2, <2>1, <2>2 DEF Types, MainType, HotIsLate, ProcType, QueueType
    <3>3. ~ hotplug => \A d \in Device : d < at_i' => d \in Joined'
      <4>1. \A d \in Device : d < at_i' => d < at_i \/ d = at_i  BY <1>1, <2>2 DEF Device
      <4>2. QED  BY <2>1, <3>1, <4>1 DEF Lives
    <3>4. Lives'
      BY <1>2, <2>1, <2>2, <3>1, <3>3 DEF Lives
    <3>5. QED  BY <3>1, <3>2, <3>4 DEF Types
  <2>3. CASE main' = "undefined" /\ at_i' = at_i /\ dev' = dev
    <3>1. ReaderType' /\ QueueType' /\ Created' = Created /\ Joined' = Joined
      BY <1>2, <2>3, SameReaders
    <3>2. MainType' /\ HotIsLate' /\ ProcType'
      BY <1>1, <1>2, <2>1, <2>3 DEF Types, MainType, HotIsLate, ProcType
    <3>3. Lives'
      BY <1>2, <2>1, <2>3, <3>1 DEF Lives
    <3>4. QED  BY <3>1, <3>2, <3>3 DEF Types
  <2>4. QED  BY <1>5, <2>2, <2>3 DEF StopJoins
<1>6. CASE StopJoinsHotplug
  <2>1. /\ dev' = dev /\ proc' = proc /\ main = "join" /\ at_i > count
        /\ main' \in {"undefined", "joinprocess"} /\ at_i' = 1
    BY <1>6 DEF StopJoinsHotplug
  <2>2. ReaderType' /\ QueueType' /\ Created' = Created /\ Joined' = Joined
    BY <1>2, <2>1, SameReaders
  <2>3. MainType' /\ HotIsLate' /\ ProcType'
    BY <1>1, <1>2, <2>1 DEF Types, MainType, HotIsLate, ProcType
  <2>4. ~ hotplug => \A d \in Device : d <= count => d \in Joined
    BY <1>1, <2>1 DEF Lives, Device
  <2>5. Lives'
    BY <1>2, <2>1, <2>2, <2>4 DEF Lives
  <2>6. QED  BY <2>2, <2>3, <2>5 DEF Types
<1>7. CASE StopReturns
  <2>1. /\ dev' = dev /\ proc' = proc /\ main = "joinprocess" /\ at_i' = 1 /\ proc.at \in {"off", "gone"}
        /\ main' = (IF proc.at = "off" THEN "undefined" ELSE "stopped")
    BY <1>7 DEF StopReturns
  <2>2. ReaderType' /\ QueueType' /\ Created' = Created /\ Joined' = Joined
    BY <1>2, <2>1, SameReaders
  <2>3. main' \in {"undefined", "stopped"}  BY <2>1
  <2>4. MainType' /\ HotIsLate' /\ ProcType'
    BY <1>1, <1>2, <2>1, <2>3 DEF Types, MainType, HotIsLate, ProcType
  <2>5. Lives'
    BY <1>2, <2>1, <2>2, <2>3 DEF Lives
  <2>6. QED  BY <2>2, <2>4, <2>5 DEF Types
<1>8. QED  BY <1>3, <1>4, <1>5, <1>6, <1>7 DEF Stopping

-----------------------------------------------------------------------------
\* The threads of a stream: the invariant of every step.
THEOREM InputLives == Spec => [](Types /\ Lives)
<1>1. ASSUME Types, Lives, [Next]_vars PROVE Types' /\ Lives'
  <2>1. CASE UNCHANGED vars
    <3>1. UNCHANGED <<slots, head, tail, dev, count, proc, hot, hotplug, shown, main, at_i>>
      BY <2>1 DEF vars, queueVars, devVars, flagVars, bufVars, mainVars
    <3>2. ReaderType' /\ QueueType' /\ Created' = Created /\ Joined' = Joined
      BY <1>1, <3>1, SameReaders
    <3>3. MainType' /\ HotIsLate' /\ ProcType'
      BY <1>1, <3>1 DEF Types, MainType, HotIsLate, ProcType
    <3>4. Lives'
      BY <1>1, <3>1, <3>2 DEF Lives
    <3>5. QED  BY <3>2, <3>3, <3>4 DEF Types
  <2>2. CASE \E d \in Device : ReaderReads(d) \/ ReaderGoesOn(d)
    <3>1. PICK d \in Device : ReaderReads(d) \/ ReaderGoesOn(d)  BY <2>2
    <3>2. QED  BY <1>1, <3>1, ReaderKeeps
  <2>3. CASE Processing \/ ProcWakesUp  BY <1>1, <2>3, ProcKeeps
  <2>4. CASE HotOpens \/ HotGoesOn  BY <1>1, <2>4, HotKeeps
  <2>5. CASE Starting \/ AddDevice \/ SetHotplug \/ StartCall  BY <1>1, <2>5, StartKeeps
  <2>6. CASE Playing \/ SwapShows \/ Pause \/ ResumeClears  BY <1>1, <2>6, PlayKeeps
  <2>7. CASE Stopping \/ StopCall  BY <1>1, <2>7, StopKeeps
  <2>8. QED  BY <1>1, <2>1, <2>2, <2>3, <2>4, <2>5, <2>6, <2>7 DEF Next, MainCalls
<1>2. QED  BY TypesInit, <1>1, PTL DEF Spec

\* When a start has failed, and when the stream was shut down without
\* hot-plugging, no thread is left that would use the closed descriptors, the
\* destroyed mutex or the zeroed stream (hs_input_stream_start's undoing,
\* hs_input_stream_stop).
THEOREM InputNoThreadIsLeft == Spec => []NoThreadIsLeft
<1>1. ASSUME Types, Lives PROVE NoThreadIsLeft
  <2>1. \A d \in Joined : ~ Alive(dev[d].at)  BY DEF Joined, Alive
  <2>2. \A d \in Device : d \notin Created => ~ Alive(dev[d].at)  BY DEF Created, Alive
  <2>3. CASE main = "failed"
    BY <1>1, <2>1, <2>2, <2>3 DEF Lives, NoThreadIsLeft, Alive
  <2>4. CASE main = "stopped" /\ ~ hotplug
    BY <1>1, <2>1, <2>2, <2>4 DEF Lives, NoThreadIsLeft, Alive
  <2>5. QED  BY <2>3, <2>4 DEF NoThreadIsLeft
<1>2. QED  BY InputLives, <1>1, PTL

-----------------------------------------------------------------------------
(* The queue, with one device that delivers.                               *)

\* Who holds what: only a device that delivers pushes, while it writes and
\* publishes there is room, and a copied event is still in its slot.
Holders ==
  /\ \A d \in Device : dev[d].at \in {"push", "write", "publish"} => d \in Sources
  /\ \A d \in Device : dev[d].at \in {"write", "publish"} => dev[d].ev \in Events /\ ~ IsFull
  /\ \A d \in Device : dev[d].at = "publish" => slots[head] = dev[d].ev
  /\ proc.at = "advance" => ~ IsEmpty /\ slots[tail] = proc.ev

\* The steps of the other threads.
LEMMA QuietSteps ==
  ASSUME Types, Lives, HotOpens \/ HotGoesOn \/ Starting \/ Playing \/ Stopping \/ MainCalls
  PROVE  /\ UNCHANGED <<slots, head, tail>> /\ proc'.ev = proc.ev
         /\ proc'.at = proc.at \/ (proc.at # "advance" /\ proc'.at # "advance")
         /\ \A d \in Device : dev'[d] = dev[d] \/ dev'[d].at \in {"look", "joined"}
<1> USE DEF Types, ReaderType, ProcType
<1> USE DEF queueVars, mainFrame, hotFrame, devVars
<1>1. CASE HotOpens \/ HotGoesOn
  BY <1>1 DEF HotOpens, HotGoesOn, HotLooks, HotTimesOut, HotCreates, HotCounts, SetDev
<1>2. CASE AddDevice \/ SetHotplug \/ StartCall \/ SwapShows \/ Pause \/ ResumeClears \/ StopCall \/ SwapClears
  BY <1>2 DEF AddDevice, SetHotplug, StartCall, SwapShows, Pause, ResumeClears, StopCall, SwapClears
<1>3. CASE StartReader \/ StartReaderFails \/ StartRunning \/ StartProcessFails \/ StartHotplug
  BY <1>3 DEF StartReader, StartReaderFails, StartRunning, StartProcessFails, StartHotplug, SetDev
<1>4. CASE UndoCloses \/ UndoJoins \/ StartFailed
  BY <1>4 DEF UndoCloses, UndoJoins, StartFailed, SetDev
<1>5. CASE StopCloses \/ StopClosed \/ StopJoins \/ StopJoinsHotplug \/ StopReturns
  BY <1>5 DEF StopCloses, StopClosed, StopJoins, StopJoinsHotplug, StopReturns, SetDev
<1>6. CASE ResumeBroadcasts \/ StopBroadcasts
  BY <1>6 DEF ResumeBroadcasts, StopBroadcasts, Broadcast, ProcGoes
<1>7. CASE StartProcess
  <2>1. proc.at = "off"  BY <1>7 DEF StartProcess, Lives
  <2>2. QED  BY <1>7, <2>1 DEF StartProcess, ProcGoes
<1>8. QED  BY <1>1, <1>2, <1>3, <1>4, <1>5, <1>6, <1>7 DEF Starting, Playing, Stopping, MainCalls

LEMMA HoldersInit == Init => Holders
<1> SUFFICES ASSUME Init PROVE Holders
  OBVIOUS
<1>1. proc.at = "off" /\ \A d \in Device : dev[d].at = "off"  BY DEF Init
<1>2. QED  BY <1>1 DEF Holders

LEMMA HoldersStep ==
  ASSUME \A c, d \in Sources : c = d, Types, Lives, Holders, [Next]_vars
  PROVE  Holders'
<1> USE DEF IsFull, IsEmpty
<1>1. /\ head \in Place /\ tail \in Place /\ slots \in [Place -> Entry]
      /\ NextIndex(head) = (IF head + 1 < Size THEN head + 1 ELSE 0)
      /\ NextIndex(tail) = (IF tail + 1 < Size THEN tail + 1 ELSE 0)
      /\ Place = 0 .. Size - 1 /\ Size \in Nat /\ Size >= 2
  BY InputAssumption, ModBelow DEF Types, QueueType, Place
<1>2. /\ dev \in [Device -> [at : {"off", "look", "select", "push", "write", "publish", "exit", "gone", "joined"},
                             ev : Entry, batch : Int, local : Int]]
      /\ proc \in [at : {"off", "look", "unpaused", "check", "empty", "sleepy", "wait", "pick", "pop",
                         "advance", "apply", "finish", "gone"},
                   target : {"a", "b"}, ev : Entry]
  BY DEF Types, ReaderType, ProcType
<1>3. ASSUME UNCHANGED <<slots, head, tail>>, proc'.ev = proc.ev,
             proc'.at = proc.at \/ proc'.at # "advance",
             \A d \in Device : dev'[d] = dev[d] \/ dev'[d].at \notin {"push", "write", "publish"}
      PROVE  Holders'
  BY <1>3 DEF Holders
<1>4. ASSUME NEW d \in Device, ReaderReads(d) \/ ReaderGoesOn(d)
      PROVE  Holders'
  <2>1. /\ \A e \in Device : e # d => dev'[e] = dev[e]
        /\ proc' = proc /\ tail' = tail
    BY <1>4, ReaderSteps
  <2>2. CASE ReaderReads(d)
    <3>1. PICK k \in 1 .. Burst : dev' = [dev EXCEPT ![d].at = "push", ![d].batch = k]
      BY <2>2 DEF ReaderReads
    <3>2. UNCHANGED <<slots, head>> /\ d \in Sources  BY <2>2 DEF ReaderReads, queueVars
    <3>3. QED  BY <1>2, <2>1, <3>1, <3>2 DEF Holders
  <2>3. CASE ReaderLooks(d) \/ ReaderTimesOut(d) \/ ReaderFails(d) \/ ReaderExits(d)
    <3>1. UNCHANGED <<slots, head, tail>> /\ dev'[d].at \notin {"push", "write", "publish"}
      BY <1>2, <2>3 DEF ReaderLooks, ReaderTimesOut, ReaderFails, ReaderExits, SetDev, queueVars
    <3>2. QED  BY <1>3, <2>1, <3>1
  <2>4. CASE PushFull(d)
    <3>1. /\ UNCHANGED <<slots, head>> /\ dev[d].at = "push"
          /\ dev'[d].at \in {"look", "push"}
      BY <1>2, <2>4 DEF PushFull, Rest, queueVars
    <3>2. QED  BY <2>1, <3>1 DEF Holders
  <2>5. CASE PushRoom(d)
    <3>1. PICK e \in Events : dev' = [dev EXCEPT ![d].at = "write", ![d].ev = e]
      BY <2>5 DEF PushRoom
    <3>2. UNCHANGED <<slots, head>> /\ dev[d].at = "push" /\ ~ IsFull  BY <2>5 DEF PushRoom, queueVars
    <3>3. dev'[d].at = "write" /\ dev'[d].ev = e  BY <1>2, <3>1
    <3>4. QED  BY <2>1, <3>2, <3>3 DEF Holders
  <2>6. CASE PushWrite(d)
    <3>1. /\ dev[d].at = "write" /\ slots' = [slots EXCEPT ![head] = dev[d].ev] /\ head' = head
          /\ dev'[d].at = "publish" /\ dev'[d].ev = dev[d].ev
      BY <1>2, <2>6 DEF PushWrite, SetDev
    <3>2. slots'[head] = dev[d].ev /\ \A i \in Place : i # head => slots'[i] = slots[i]
      BY <1>1, <3>1
    <3>3. \A e \in Device : e # d => dev[e].at \notin {"push", "write", "publish"}
      BY <3>1 DEF Holders
    <3>4. QED  BY <1>1, <2>1, <3>1, <3>2, <3>3 DEF Holders
  <2>7. CASE PushPublish(d)
    <3>1. /\ dev[d].at = "publish" /\ slots' = slots /\ head' = NextIndex(head)
          /\ dev'[d].at \in {"look", "push"}
      BY <1>2, <2>7 DEF PushPublish, Rest
    <3>2. \A e \in Device : e # d => dev[e].at \notin {"push", "write", "publish"}
      BY <3>1 DEF Holders
    <3>3. head' # tail  BY <3>1 DEF Holders
    <3>4. QED  BY <2>1, <3>1, <3>2, <3>3 DEF Holders
  <2>8. QED  BY <1>4, <2>2, <2>3, <2>4, <2>5, <2>6, <2>7 DEF ReaderGoesOn, ReaderPushes
<1>5. ASSUME Processing \/ ProcWakesUp PROVE Holders'
  <2>1. dev' = dev /\ UNCHANGED <<slots, head>>
    BY <1>5 DEF Processing, ProcLooks, ProcMayGoOn, ProcChecks, ProcDecides, ProcWaits, ProcWakesUp, ProcPicks,
                PopReads, PopAdvances, ProcApplies, ProcFinishes, procFrame, queueVars, devVars
  <2>2. CASE PopReads
    <3>1. UNCHANGED <<slots, head, tail>>  BY <2>2 DEF PopReads, procFrame, queueVars
    <3>2. CASE head = tail
      BY <1>2, <2>1, <2>2, <3>1, <3>2 DEF PopReads, Holders
    <3>3. CASE head # tail
      <4>1. proc'.ev = slots[tail]  BY <1>2, <2>2, <3>3 DEF PopReads
      <4>2. QED  BY <2>1, <3>1, <3>3, <4>1 DEF Holders
    <3>4. QED  BY <3>2, <3>3
  <2>3. CASE PopAdvances
    <3>1. /\ proc.at = "advance" /\ proc'.at = "apply" /\ tail' = NextIndex(tail)
      BY <1>2, <2>3 DEF PopAdvances, ProcGoes
    <3>2. head # tail  BY <3>1 DEF Holders
    <3>3. NextIndex(head) # NextIndex(tail) /\ NextIndex(head)' = NextIndex(head)
      BY <1>1, <2>1, <3>2 DEF NextIndex
    <3>4. QED  BY <2>1, <3>1, <3>3 DEF Holders
  <2>4. CASE ~ PopReads /\ ~ PopAdvances
    <3>1. tail' = tail /\ proc'.ev = proc.ev /\ proc'.at # "advance"
      BY <1>2, <1>5, <2>4
         DEF Processing, ProcLooks, ProcMayGoOn, ProcChecks, ProcDecides, ProcWaits, ProcWakesUp, ProcPicks,
             ProcApplies, ProcFinishes, procFrame, queueVars, ProcGoes
    <3>2. QED  BY <1>3, <2>1, <3>1
  <2>5. QED  BY <2>2, <2>3, <2>4
<1>6. ASSUME HotOpens \/ HotGoesOn \/ Starting \/ Playing \/ Stopping \/ MainCalls PROVE Holders'
  <2>1. /\ UNCHANGED <<slots, head, tail>> /\ proc'.ev = proc.ev
        /\ proc'.at = proc.at \/ proc'.at # "advance"
        /\ \A d \in Device : dev'[d] = dev[d] \/ dev'[d].at \in {"look", "joined"}
    BY <1>6, QuietSteps
  <2>2. QED  BY <1>3, <2>1
<1>7. CASE UNCHANGED vars
  BY <1>3, <1>7 DEF vars, queueVars, devVars
<1>8. QED  BY <1>4, <1>5, <1>6, <1>7 DEF Next

LEMMA InputHolders ==
  ASSUME \A c, d \in Sources : c = d
  PROVE  Spec => []Holders
<1>1. Types /\ Lives /\ Holders /\ [Next]_vars => Holders'  BY HoldersStep
<1>2. QED  BY HoldersInit, InputLives, <1>1, PTL DEF Spec

-----------------------------------------------------------------------------
(* The queue implements a first-in first-out channel.                      *)

\* An index of the ring from one below twice its size.
Wrapped(x) == IF x < Size THEN x ELSE x - Size

LEMMA WrappedMod ==
  ASSUME NEW x \in 0 .. 2 * Size - 1
  PROVE  x % Size = Wrapped(x) /\ Wrapped(x) \in Place
<1>1. Size \in Nat /\ Size >= 2  BY InputAssumption
<1>2. CASE x < Size  BY <1>1, <1>2, SMT DEF Wrapped, Place
<1>3. CASE x >= Size  BY <1>1, <1>3, SMT DEF Wrapped, Place
<1>4. QED  BY <1>1, <1>2, <1>3

\* The first event that was not copied, how many are left from there, and which,
\* for any indices h and t when s events were copied.
OldestOf(t, s) == Wrapped(t + s)
LeftOf(h, t, s) == Wrapped(h + Size - t) - s
KeptOf(h, t, s, kept) == [k \in 1 .. ((h + Size - t) % Size) - s |-> kept[(t + s + k - 1) % Size]]

LEMMA Shape ==
  ASSUME NEW h \in Place, NEW t \in Place, NEW s \in {0, 1}, s = 1 => h # t, NEW kept
  PROVE  /\ OldestOf(t, s) \in Place /\ LeftOf(h, t, s) \in 0 .. Size - 1
         /\ LeftOf(h, t, s) = IF h >= OldestOf(t, s) THEN h - OldestOf(t, s) ELSE h - OldestOf(t, s) + Size
         /\ KeptOf(h, t, s, kept) = [k \in 1 .. LeftOf(h, t, s) |-> kept[Wrapped(OldestOf(t, s) + k - 1)]]
<1> DEFINE o == OldestOf(t, s)
           l == LeftOf(h, t, s)
<1>1. Size \in Nat /\ Size >= 2 /\ Place = 0 .. Size - 1  BY InputAssumption DEF Place
<1>2. o \in Place  BY <1>1 DEF Wrapped, OldestOf
<1>3. l \in 0 .. Size - 1 /\ l = IF h >= o THEN h - o ELSE h - o + Size
  BY <1>1 DEF Wrapped, OldestOf, LeftOf
<1>4. ((h + Size - t) % Size) - s = l
  <2>1. h + Size - t \in 0 .. 2 * Size - 1  BY <1>1
  <2>2. (h + Size - t) % Size = Wrapped(h + Size - t)  BY <2>1, WrappedMod
  <2>3. QED  BY <2>2 DEF LeftOf
<1>5. ASSUME NEW k \in 1 .. l
      PROVE  (t + s + k - 1) % Size = Wrapped(o + k - 1)
  <2>1. t + s + k - 1 \in 0 .. 2 * Size - 1  BY <1>1, <1>3
  <2>2. (t + s + k - 1) % Size = Wrapped(t + s + k - 1)  BY <2>1, WrappedMod
  <2>3. Wrapped(t + s + k - 1) = Wrapped(o + k - 1)  BY <1>1, <1>3 DEF Wrapped, OldestOf
  <2>4. QED  BY <2>2, <2>3
<1> HIDE DEF o, l
<1>6. KeptOf(h, t, s, kept) = [k \in 1 .. l |-> kept[Wrapped(o + k - 1)]]
  BY <1>4, <1>5 DEF KeptOf
<1>7. QED  BY <1>2, <1>3, <1>6 DEF o, l

Skip == IF proc.at = "advance" THEN 1 ELSE 0
Oldest == OldestOf(tail, Skip)
Left == LeftOf(head, tail, Skip)

LEMMA UnreadShape ==
  ASSUME Types, Holders
  PROVE  /\ Oldest \in Place /\ head \in Place /\ tail \in Place /\ Size \in Nat /\ Size >= 2
         /\ Left \in 0 .. Size - 1
         /\ Left = IF head >= Oldest THEN head - Oldest ELSE head - Oldest + Size
         /\ Unread = [k \in 1 .. Left |-> slots[Wrapped(Oldest + k - 1)]]
<1>1. head \in Place /\ tail \in Place /\ Size \in Nat /\ Size >= 2
  BY InputAssumption DEF Types, QueueType
<1>2. Skip \in {0, 1} /\ (Skip = 1 => head # tail)  BY DEF Skip, Holders, IsEmpty
<1>3. Unread = KeptOf(head, tail, Skip, slots)
  BY DEF Unread, Waiting, Skip, KeptOf
<1>4. QED  BY <1>1, <1>2, <1>3, Shape DEF Oldest, Left

LEMMA QueueInit == Init => Queue!Init
<1> SUFFICES ASSUME Init PROVE Queue!Init
  OBVIOUS
<1>1. Types /\ Holders  BY TypesInit, HoldersInit
<1>2. proc.at = "off" /\ proc.ev = NoEvent /\ head = 0 /\ tail = 0  BY DEF Init
<1>3. Oldest = 0  BY <1>1, <1>2, UnreadShape DEF Oldest, OldestOf, Skip, Wrapped
<1>4. Left = 0  BY <1>1, <1>2, <1>3, UnreadShape
<1>5. Unread = << >>  BY <1>1, <1>4, UnreadShape
<1>6. QED  BY <1>2, <1>5 DEF Queue!Init

\* Every step of the threads is a Put, a Get or no step of the channel.
LEMMA QueueStep ==
  ASSUME Types, Holders, Types', Holders', Lives, [Next]_vars
  PROVE  [Queue!Next]_(Queue!chanVars)
<1>1. /\ Oldest \in 0 .. Size - 1 /\ head \in 0 .. Size - 1 /\ tail \in 0 .. Size - 1
      /\ Size \in Nat /\ Size >= 2 /\ Left \in 0 .. Size - 1
      /\ Left = IF head >= Oldest THEN head - Oldest ELSE head - Oldest + Size
      /\ Unread = [k \in 1 .. Left |-> slots[Wrapped(Oldest + k - 1)]]
      /\ Len(Unread) = Left
  BY UnreadShape DEF Place
<1>2. /\ Oldest' \in 0 .. Size - 1 /\ Left' \in 0 .. Size - 1
      /\ Left' = IF head' >= Oldest' THEN head' - Oldest' ELSE head' - Oldest' + Size
      /\ Unread' = [k \in 1 .. Left' |-> slots'[Wrapped(Oldest' + k - 1)]]
  <2>1. head' \in Place /\ tail' \in Place /\ Place = 0 .. Size - 1  BY DEF Types, QueueType, Place
  <2>2. Skip' \in {0, 1} /\ (Skip' = 1 => head' # tail')  BY DEF Skip, Holders, IsEmpty
  <2>3. Unread' = KeptOf(head', tail', Skip', slots')
    BY DEF Unread, Waiting, Skip, KeptOf
  <2>4. Oldest' = OldestOf(tail', Skip') /\ Left' = LeftOf(head', tail', Skip')
    BY DEF Oldest, Left, OldestOf, LeftOf, Wrapped
  <2>5. QED  BY <2>1, <2>2, <2>3, <2>4, Shape
<1>3. /\ NextIndex(head) = (IF head + 1 < Size THEN head + 1 ELSE 0)
      /\ NextIndex(tail) = (IF tail + 1 < Size THEN tail + 1 ELSE 0)
  BY <1>1, ModBelow DEF Place
<1>4. ASSUME UNCHANGED <<slots, head, tail>>, proc'.ev = proc.ev,
             proc'.at = proc.at \/ (proc.at # "advance" /\ proc'.at # "advance")
      PROVE  UNCHANGED Queue!chanVars
  BY <1>4 DEF Unread, Waiting, Queue!chanVars
<1>5. ASSUME NEW d \in Device, PushWrite(d) PROVE UNCHANGED Queue!chanVars
  <2>1. /\ slots' = [slots EXCEPT ![head] = dev[d].ev] /\ UNCHANGED <<head, tail, proc>>
        /\ NextIndex(head) # tail
    BY <1>5 DEF PushWrite, Holders, IsFull
  <2>2. Oldest' = Oldest /\ Left' = Left  BY <2>1 DEF Oldest, OldestOf, Left, LeftOf, Skip, Wrapped
  <2>3. ASSUME NEW k \in 1 .. Left
        PROVE  slots'[Wrapped(Oldest + k - 1)] = slots[Wrapped(Oldest + k - 1)]
    <3>1. Wrapped(Oldest + k - 1) # head  BY <1>1 DEF Wrapped
    <3>2. QED  BY <2>1, <3>1 DEF Types, QueueType
  <2>4. Unread' = Unread  BY <1>1, <1>2, <2>2, <2>3
  <2>5. QED  BY <2>1, <2>4 DEF Queue!chanVars
<1>6. ASSUME NEW d \in Device, PushPublish(d) PROVE Queue!Put(dev[d].ev) /\ dev[d].ev \in Events
  <2>1. /\ slots' = slots /\ tail' = tail /\ proc' = proc /\ head' = NextIndex(head)
        /\ NextIndex(head) # tail /\ slots[head] = dev[d].ev /\ dev[d].ev \in Events
    BY <1>6 DEF PushPublish, Holders, IsFull
  <2>2. Oldest' = Oldest  BY <2>1 DEF Oldest, OldestOf, Skip, Wrapped
  <2>3. Oldest = tail \/ (head # tail /\ Oldest = NextIndex(tail))
    BY <1>1, <1>3 DEF Oldest, OldestOf, Skip, Wrapped, Holders, IsEmpty
  <2>4. Left' = Left + 1
    <3>1. head' # Oldest  BY <1>1, <1>3, <2>1, <2>3
    <3>2. head' = IF head + 1 < Size THEN head + 1 ELSE 0  BY <1>3, <2>1
    <3>3. QED  BY <1>1, <1>2, <2>2, <3>1, <3>2
  <2>5. Wrapped(Oldest + Left) = head  BY <1>1 DEF Wrapped
  <2>6. Unread' = [k \in 1 .. Left + 1 |-> slots[Wrapped(Oldest + k - 1)]]
    BY <1>2, <2>1, <2>2, <2>4
  <2>7. Unread' = Append(Unread, dev[d].ev)
    <3>1. Unread'[Left + 1] = dev[d].ev
      <4>1. Left + 1 \in 1 .. Left + 1 /\ Oldest + (Left + 1) - 1 = Oldest + Left  BY <1>1
      <4>2. QED  BY <2>1, <2>5, <2>6, <4>1
    <3>2. QED  BY <1>1, <2>6, <3>1
  <2>8. Len(Unread) < Size - 1  BY <1>1, <1>2, <2>4
  <2>9. QED  BY <2>1, <2>7, <2>8 DEF Queue!Put
<1>7. ASSUME NEW d \in Device, ReaderReads(d) \/ ReaderGoesOn(d), ~ PushWrite(d), ~ PushPublish(d)
      PROVE  UNCHANGED Queue!chanVars
  <2>1. UNCHANGED queueVars /\ proc' = proc
    BY <1>7 DEF ReaderReads, ReaderGoesOn, ReaderPushes, ReaderLooks, ReaderTimesOut, ReaderFails,
                ReaderExits, PushFull, PushRoom
  <2>2. QED  BY <1>4, <2>1 DEF queueVars
<1>8. ASSUME PopReads PROVE Queue!Get \/ UNCHANGED Queue!chanVars
  <2>1. UNCHANGED <<slots, head, tail>> /\ proc.at = "pop"
    BY <1>8 DEF PopReads, procFrame, queueVars
  <2>2. CASE head = tail
    <3>1. proc'.ev = proc.ev /\ proc'.at = "finish"
      BY <1>8, <2>2 DEF PopReads, IsEmpty, Types, ProcType
    <3>2. QED  BY <1>4, <2>1, <3>1
  <2>3. CASE head # tail
    <3>1. proc'.ev = slots[tail] /\ proc'.at = "advance"
      BY <1>8, <2>3 DEF PopReads, IsEmpty, Types, ProcType
    <3>2. Oldest = tail /\ Oldest' = Wrapped(tail + 1)
      BY <1>1, <2>1, <3>1 DEF Oldest, OldestOf, Skip, Wrapped
    <3>3. Left' = Left - 1 /\ Left >= 1
      BY <1>1, <1>2, <2>1, <2>3, <3>2 DEF Wrapped
    <3>4. ASSUME NEW k \in 1 .. Left - 1
          PROVE  Wrapped(Oldest' + k - 1) = Wrapped(Oldest + (k + 1) - 1)
      BY <1>1, <3>2 DEF Wrapped
    <3>5. Unread' = [k \in 1 .. Left - 1 |-> slots[Wrapped(Oldest + (k + 1) - 1)]]
      BY <1>2, <2>1, <3>3, <3>4
    <3>6. Tail(Unread) = [k \in 1 .. Left - 1 |-> slots[Wrapped(Oldest + (k + 1) - 1)]]
      BY <1>1, <3>3
    <3>7. Head(Unread) = slots[tail]
      <4>1. 1 \in 1 .. Left /\ Wrapped(Oldest + 1 - 1) = tail  BY <1>1, <3>2, <3>3 DEF Wrapped
      <4>2. QED  BY <1>1, <4>1
    <3>8. Unread # << >>  BY <1>1, <3>3
    <3>9. QED  BY <3>1, <3>5, <3>6, <3>7, <3>8 DEF Queue!Get
  <2>4. QED  BY <2>2, <2>3
<1>9. ASSUME PopAdvances PROVE UNCHANGED Queue!chanVars
  <2>1. /\ UNCHANGED <<slots, head>> /\ proc.at = "advance" /\ proc'.at = "apply" /\ proc'.ev = proc.ev
        /\ tail' = NextIndex(tail)
    BY <1>9 DEF PopAdvances, ProcGoes, Types, ProcType
  <2>2. Oldest' = Oldest
    BY <1>1, <1>3, <2>1 DEF Oldest, OldestOf, Skip, Wrapped
  <2>3. Left' = Left  BY <1>1, <1>2, <2>1, <2>2
  <2>4. Unread' = Unread  BY <1>1, <1>2, <2>1, <2>2, <2>3
  <2>5. QED  BY <2>1, <2>4 DEF Queue!chanVars
<1>10. ASSUME Processing \/ ProcWakesUp, ~ PopReads, ~ PopAdvances
       PROVE  UNCHANGED Queue!chanVars
  <2>1. UNCHANGED <<slots, head, tail>> /\ proc'.ev = proc.ev /\ proc'.at # "advance" /\ proc.at # "advance"
    BY <1>10 DEF Processing, ProcLooks, ProcMayGoOn, ProcChecks, ProcDecides, ProcWaits, ProcWakesUp, ProcPicks,
                 ProcApplies, ProcFinishes, procFrame, queueVars, ProcGoes, Types, ProcType
  <2>2. QED  BY <1>4, <2>1
<1>11. ASSUME HotOpens \/ HotGoesOn \/ Starting \/ Playing \/ Stopping \/ MainCalls
       PROVE  UNCHANGED Queue!chanVars
  BY <1>4, <1>11, QuietSteps
<1>12. CASE UNCHANGED vars
  BY <1>4, <1>12 DEF vars, queueVars
<1>13. QED
  BY <1>5, <1>6, <1>7, <1>8, <1>9, <1>10, <1>11, <1>12 DEF Next, Queue!Next

\* With one device that delivers, the queue is a first-in first-out channel of
\* Size - 1 events, whatever Size is: no event is lost, repeated, reordered or torn
\* between hs_input_spsc_push and hs_input_spsc_pop, across the wrap of the indices.
THEOREM InputQueueIsFifo ==
  ASSUME \A c, d \in Sources : c = d
  PROVE  Spec => EventsAreFifo
<1>1. Types /\ Holders /\ (Types /\ Holders)' /\ Lives /\ [Next]_vars => [Queue!Next]_(Queue!chanVars)
  BY QueueStep
<1>2. QED
  BY QueueInit, <1>1, InputHolders, InputLives, PTL DEF Spec, EventsAreFifo, Queue!Spec

-----------------------------------------------------------------------------
(* The accounts, with one device that delivers.                            *)

Busy == {"push", "write", "publish"}
InApply == IF proc.at = "apply" THEN 1 ELSE 0

\* A sum over the devices all of which but one have nothing is that one's.
LEMMA TotalOfOne ==
  ASSUME NEW s \in Device, NEW f, f[s] \in Nat, \A d \in Device \ {s} : f[d] = 0
  PROVE  Total(f) = f[s]
<1> DEFINE part(d) == {d} \X (1 .. f[d])
<1>1. \A d \in Device \ {s} : part(d) = {}
  <2> SUFFICES ASSUME NEW d \in Device \ {s} PROVE \A p : p \notin {d} \X (1 .. f[d])
    OBVIOUS
  <2>1. f[d] = 0 /\ \A k : k \notin 1 .. 0  OBVIOUS
  <2>2. QED  BY <2>1
<1>2. UNION {part(d) : d \in Device} = part(s)
  <2> HIDE DEF part
  <2>1. QED  BY <1>1
<1>3. IsFiniteSet({s}) /\ Cardinality({s}) = 1  BY FS_Singleton
<1>4. PICK n \in Nat : n = f[s]  OBVIOUS
<1>5. IsFiniteSet(1 .. n) /\ Cardinality(1 .. n) = n
  <2>1. 1 \in Int /\ n \in Int  BY <1>4
  <2>2. IsFiniteSet(1 .. n) /\ Cardinality(1 .. n) = IF 1 > n THEN 0 ELSE n - 1 + 1
    BY <2>1, FS_Interval
  <2>3. QED  BY <1>4, <2>2
<1>6. Cardinality({s} \X (1 .. n)) = 1 * n
  <2>1. Cardinality({s} \X (1 .. n)) = Cardinality({s}) * Cardinality(1 .. n)
    BY <1>3, <1>5, FS_Product, Zenon
  <2>2. QED  BY <1>3, <1>5, <2>1
<1>7. Cardinality(part(s)) = n  BY <1>4, <1>6
<1>8. QED  BY <1>2, <1>4, <1>7 DEF Total

\* Where batches are, and what the readers and the counters add up to if s is the
\* one device that delivers.  A device that does not count has no reader yet but
\* for the one the hot-plug thread is about to count.
Batches ==
  /\ \A d \in Device : IF dev[d].at \in Busy THEN dev[d].batch >= 1 ELSE dev[d].batch = 0
  /\ \A d \in Created : d <= count \/ (hot = "count" /\ d = count + 1)

Sums(s) ==
  /\ \A d \in Device \ {s} : dev[d].batch = 0 /\ dev[d].local = 0
  /\ dev[s].local \in Nat
  /\ eventCount \in Nat /\ dropped \in Nat /\ read \in Nat /\ lost \in Nat
  /\ read = eventCount + Waiting + lost + InApply + dev[s].batch
  /\ dropped + dev[s].local = 2 * lost

LEMMA AccountsInit == ASSUME NEW s \in Device, Init PROVE Batches /\ Sums(s)
<1>1. /\ \A d \in Device : dev[d].at = "off" /\ dev[d].batch = 0 /\ dev[d].local = 0
      /\ main = "setup" /\ proc.at = "off" /\ head = 0 /\ tail = 0
      /\ eventCount = 0 /\ dropped = 0 /\ read = 0 /\ lost = 0
  BY DEF Init
<1>2. Batches  BY <1>1 DEF Batches, Busy, Created
<1>3. Waiting = 0
  <2>1. 0 + Size - 0 \in 0 .. 2 * Size - 1 /\ 0 + Size - 0 = Size /\ Size \in Nat  BY InputAssumption
  <2>2. (0 + Size - 0) % Size = 0  BY <2>1, WrappedMod DEF Wrapped
  <2>3. QED  BY <1>1, <2>2 DEF Waiting
<1>4. Sums(s)  BY <1>1, <1>3 DEF Sums, InApply
<1>5. QED  BY <1>2, <1>4

\* How many events wait, and what pushing and popping do to that.
LEMMA WaitingIs ==
  QueueType =>
    Waiting = (IF head >= tail THEN head - tail ELSE head - tail + Size) /\ Waiting \in Nat
<1> SUFFICES ASSUME QueueType
             PROVE  /\ Waiting = IF head >= tail THEN head - tail ELSE head - tail + Size
                    /\ Waiting \in Nat
  OBVIOUS
<1>1. head \in 0 .. Size - 1 /\ tail \in 0 .. Size - 1 /\ Size \in Nat /\ Size >= 2
  BY InputAssumption DEF QueueType, Place
<1>2. head + Size - tail \in 0 .. 2 * Size - 1  BY <1>1
<1>3. Waiting = Wrapped(head + Size - tail)  BY <1>2, WrappedMod DEF Waiting
<1>4. QED  BY <1>1, <1>3 DEF Wrapped

LEMMA PushedWaits ==
  ASSUME QueueType, QueueType', head' = NextIndex(head), tail' = tail, ~ IsFull
  PROVE  Waiting' = Waiting + 1
<1>1. head \in 0 .. Size - 1 /\ tail \in 0 .. Size - 1 /\ Size \in Nat /\ Size >= 2
  BY InputAssumption DEF QueueType, Place
<1>2. head' = (IF head + 1 < Size THEN head + 1 ELSE 0) /\ head' # tail
  BY ModBelow DEF QueueType, IsFull
<1>3. Waiting' = IF head' >= tail' THEN head' - tail' ELSE head' - tail' + Size
  <2>1. (QueueType =>
           Waiting = (IF head >= tail THEN head - tail ELSE head - tail + Size) /\ Waiting \in Nat)'
    BY WaitingIs, PTL
  <2>2. QED  BY <2>1
<1>4. QED  BY <1>1, <1>2, <1>3, WaitingIs

LEMMA PoppedGoes ==
  ASSUME QueueType, QueueType', head' = head, tail' = NextIndex(tail), ~ IsEmpty
  PROVE  Waiting' = Waiting - 1
<1>1. head \in 0 .. Size - 1 /\ tail \in 0 .. Size - 1 /\ Size \in Nat /\ Size >= 2
  BY InputAssumption DEF QueueType, Place
<1>2. tail' = (IF tail + 1 < Size THEN tail + 1 ELSE 0) /\ head # tail
  BY ModBelow DEF QueueType, IsEmpty
<1>3. Waiting' = IF head' >= tail' THEN head' - tail' ELSE head' - tail' + Size
  <2>1. (QueueType =>
           Waiting = (IF head >= tail THEN head - tail ELSE head - tail + Size) /\ Waiting \in Nat)'
    BY WaitingIs, PTL
  <2>2. QED  BY <2>1
<1>4. QED  BY <1>1, <1>2, <1>3, WaitingIs

\* The readers' steps.
LEMMA ReaderAccounts ==
  ASSUME Types, Types', Holders, NEW s \in Device, Sources \subseteq {s}, Batches, Sums(s),
         NEW d \in Device, ReaderReads(d) \/ ReaderGoesOn(d)
  PROVE  Batches' /\ Sums(s)'
<1> DEFINE r == dev[d]
           q == dev'[d]
<1>1. /\ r.at \in {"off", "look", "select", "push", "write", "publish", "exit", "gone", "joined"}
      /\ r.batch \in Int /\ r.local \in Int
      /\ r.at \in Busy => r.batch >= 1
      /\ r.at \notin Busy => r.batch = 0
      /\ r.at \in Busy => d = s
      /\ d # s => r.batch = 0 /\ r.local = 0
      /\ r.local \in Nat
  BY DEF Types, ReaderType, Batches, Sums, Busy, Holders
<1>2. /\ r.at \notin {"off", "gone", "joined"} /\ q.at \notin {"off", "joined"}
      /\ \A e \in Device : e # d => dev'[e] = dev[e]
      /\ UNCHANGED <<tail, count, proc, hot, main>>
  BY ReaderSteps DEF mainVars
<1>3. dev \in [Device -> [at : {"off", "look", "select", "push", "write", "publish", "exit", "gone", "joined"},
                          ev : Entry, batch : Int, local : Int]]
  BY DEF Types, ReaderType
<1>4. /\ eventCount \in Nat /\ dropped \in Nat /\ read \in Nat /\ lost \in Nat
      /\ Waiting \in Nat /\ InApply \in {0, 1}
      /\ read = eventCount + Waiting + lost + InApply + dev[s].batch
      /\ dropped + dev[s].local = 2 * lost
      /\ InApply' = InApply
  BY <1>2, WaitingIs DEF Types, Sums, InApply
<1> HIDE DEF r, q
<1>5. ASSUME q.at \in Busy => q.batch >= 1, q.at \notin Busy => q.batch = 0 PROVE Batches'
  <2>1. \A e \in Device : IF dev'[e].at \in Busy THEN dev'[e].batch >= 1 ELSE dev'[e].batch = 0
    BY <1>2, <1>5 DEF Batches, q
  <2>2. Created' = Created  BY <1>2 DEF Created, r, q
  <2>3. QED  BY <1>2, <2>1, <2>2 DEF Batches
\* What has to be shown of the sums when the reader is the one that delivers, and
\* when it is another.
<1>6. ASSUME d = s, q.local \in Nat, eventCount' = eventCount, dropped' \in Nat, read' \in Nat, lost' \in Nat,
             read' = eventCount + Waiting' + lost' + InApply + q.batch,
             dropped' + q.local = 2 * lost'
      PROVE  Sums(s)'
  BY <1>2, <1>4, <1>6 DEF Sums, q
<1>7. ASSUME d # s, q.batch = 0, q.local = 0, UNCHANGED countVars, Waiting' = Waiting
      PROVE  Sums(s)'
  BY <1>2, <1>4, <1>7 DEF Sums, q, countVars
<1>8. ASSUME UNCHANGED queueVars PROVE Waiting' = Waiting
  BY <1>8 DEF queueVars, Waiting
<1>9. CASE ReaderReads(d)
  <2>1. PICK k \in 1 .. Burst : read' = read + k /\ dev' = [dev EXCEPT ![d].at = "push", ![d].batch = k]
    BY <1>9 DEF ReaderReads
  <2>2. q.at = "push" /\ q.batch = k /\ q.local = r.local  BY <1>3, <2>1 DEF q, r
  <2>3. k \in Nat /\ k >= 1  BY InputAssumption
  <2>4. /\ r.at = "select" /\ d = s /\ UNCHANGED <<eventCount, dropped, lost>> /\ Waiting' = Waiting
    BY <1>8, <1>9 DEF ReaderReads, r
  <2>5. r.batch = 0 /\ dev[s] = r  BY <1>1, <2>4 DEF Busy, r
  <2>6. Batches'  BY <1>5, <2>2, <2>3 DEF Busy
  <2>7. read' \in Nat /\ read' = eventCount + Waiting' + lost' + InApply + q.batch
    BY <1>4, <2>1, <2>2, <2>3, <2>4, <2>5
  <2>8. QED  BY <1>1, <1>4, <1>6, <2>2, <2>4, <2>5, <2>6, <2>7
<1>10. CASE ReaderLooks(d) \/ ReaderTimesOut(d) \/ ReaderFails(d)
  <2>1. /\ r.at \in {"look", "select"} /\ q.at \in {"look", "select", "exit"}
        /\ q.batch = r.batch /\ q.local = r.local
    BY <1>3, <1>10 DEF ReaderLooks, ReaderTimesOut, ReaderFails, SetDev, q, r
  <2>2. UNCHANGED countVars /\ Waiting' = Waiting
    BY <1>8, <1>10 DEF ReaderLooks, ReaderTimesOut, ReaderFails
  <2>3. r.batch = 0  BY <1>1, <2>1 DEF Busy
  <2>4. Batches'  BY <1>5, <2>1, <2>3 DEF Busy
  <2>5. CASE d = s
    <3>1. dev[s] = r  BY <2>5 DEF r
    <3>2. QED  BY <1>1, <1>4, <1>6, <2>1, <2>2, <2>4, <2>5, <3>1 DEF countVars
  <2>6. CASE d # s
    BY <1>1, <1>7, <2>1, <2>2, <2>4, <2>6
  <2>7. QED  BY <2>5, <2>6
<1>11. CASE PushFull(d)
  <2>1. /\ r.at = "push" /\ q.at = Rest(d) /\ q.batch = r.batch - 1 /\ q.local = r.local + 2
    BY <1>3, <1>11 DEF PushFull, q, r
  <2>2. /\ d = s /\ dev[s] = r /\ r.batch >= 1 /\ Rest(d) = IF r.batch = 1 THEN "look" ELSE "push"
    BY <1>1, <2>1 DEF Busy, r, Rest
  <2>3. lost' = lost + 1 /\ UNCHANGED <<eventCount, dropped, read>> /\ Waiting' = Waiting
    BY <1>8, <1>11 DEF PushFull
  <2>4. Batches'  BY <1>1, <1>5, <2>1, <2>2 DEF Busy
  <2>5. /\ read' = eventCount + Waiting' + lost' + InApply + q.batch
        /\ dropped' + q.local = 2 * lost' /\ q.local \in Nat /\ lost' \in Nat
    BY <1>1, <1>4, <2>1, <2>2, <2>3
  <2>6. QED  BY <1>4, <1>6, <2>2, <2>3, <2>4, <2>5
<1>12. CASE PushRoom(d) \/ PushWrite(d)
  <2>1. /\ r.at \in Busy /\ q.at \in Busy /\ q.batch = r.batch /\ q.local = r.local
    <3>1. CASE PushRoom(d)
      <4>1. PICK e \in Events : dev' = [dev EXCEPT ![d].at = "write", ![d].ev = e]
        BY <3>1 DEF PushRoom
      <4>2. QED  BY <1>3, <3>1, <4>1 DEF PushRoom, Busy, q, r
    <3>2. CASE PushWrite(d)
      BY <1>3, <3>2 DEF PushWrite, SetDev, Busy, q, r
    <3>3. QED  BY <1>12, <3>1, <3>2
  <2>2. UNCHANGED countVars /\ UNCHANGED <<head, tail>>
    BY <1>12 DEF PushRoom, PushWrite, queueVars
  <2>3. Waiting' = Waiting  BY <2>2 DEF Waiting
  <2>4. d = s /\ dev[s] = r /\ r.batch >= 1  BY <1>1, <2>1 DEF r
  <2>5. Batches'  BY <1>5, <2>1, <2>4
  <2>6. QED  BY <1>1, <1>4, <1>6, <2>1, <2>2, <2>3, <2>4, <2>5 DEF countVars
<1>13. CASE PushPublish(d)
  <2>1. /\ r.at = "publish" /\ q.at = Rest(d) /\ q.batch = r.batch - 1 /\ q.local = r.local
    BY <1>3, <1>13 DEF PushPublish, q, r
  <2>2. /\ d = s /\ dev[s] = r /\ r.batch >= 1 /\ Rest(d) = IF r.batch = 1 THEN "look" ELSE "push"
    BY <1>1, <2>1 DEF Busy, r, Rest
  <2>3. UNCHANGED countVars  BY <1>13 DEF PushPublish
  <2>4. Waiting' = Waiting + 1
    <3>1. head' = NextIndex(head) /\ tail' = tail /\ ~ IsFull
      BY <1>13, <2>1 DEF PushPublish, Holders, r
    <3>2. QED  BY <3>1, PushedWaits DEF Types
  <2>5. Batches'  BY <1>1, <1>5, <2>1, <2>2 DEF Busy
  <2>6. read' = eventCount + Waiting' + lost' + InApply + q.batch
    BY <1>1, <1>4, <2>1, <2>2, <2>3, <2>4 DEF countVars
  <2>7. QED  BY <1>1, <1>4, <1>6, <2>1, <2>2, <2>3, <2>5, <2>6 DEF countVars
<1>14. CASE ReaderExits(d)
  <2>1. /\ r.at = "exit" /\ q.at = "gone" /\ q.batch = r.batch /\ q.local = 0
    BY <1>3, <1>14 DEF ReaderExits, q, r
  <2>2. dropped' = dropped + r.local /\ UNCHANGED <<eventCount, read, lost>> /\ Waiting' = Waiting
    BY <1>8, <1>14 DEF ReaderExits, r
  <2>3. r.batch = 0  BY <1>1, <2>1 DEF Busy
  <2>4. Batches'  BY <1>5, <2>1, <2>3 DEF Busy
  <2>5. CASE d = s
    <3>1. dev[s] = r  BY <2>5 DEF r
    <3>2. QED  BY <1>1, <1>4, <1>6, <2>1, <2>2, <2>4, <2>5, <3>1
  <2>6. CASE d # s
    <3>1. UNCHANGED countVars  BY <1>1, <1>4, <2>2, <2>6 DEF countVars
    <3>2. QED  BY <1>1, <1>7, <2>1, <2>2, <2>4, <2>6, <3>1
  <2>7. QED  BY <2>5, <2>6
<1>15. QED
  BY <1>9, <1>10, <1>11, <1>12, <1>13, <1>14 DEF ReaderGoesOn, ReaderPushes

\* The process thread's steps.
LEMMA ProcAccounts ==
  ASSUME Types, Types', Holders, NEW s \in Device, Batches, Sums(s), Processing \/ ProcWakesUp
  PROVE  Batches' /\ Sums(s)'
<1>1. /\ UNCHANGED <<dev, count, hot, main, dropped, read, lost, head>>
  BY DEF Processing, ProcLooks, ProcMayGoOn, ProcChecks, ProcDecides, ProcWaits, ProcWakesUp, ProcPicks,
         PopReads, PopAdvances, ProcApplies, ProcFinishes, procFrame, queueVars, devVars, mainVars, countVars
<1>2. Batches'  BY <1>1 DEF Batches, Created
<1>3. proc \in [at : {"off", "look", "unpaused", "check", "empty", "sleepy", "wait", "pick", "pop",
                      "advance", "apply", "finish", "gone"},
                target : {"a", "b"}, ev : Entry]
  BY DEF Types, ProcType
<1>4. /\ eventCount \in Nat /\ Waiting \in Nat /\ dev[s].batch \in Int
      /\ read \in Nat /\ lost \in Nat
      /\ read = eventCount + Waiting + lost + InApply + dev[s].batch
  BY WaitingIs DEF Types, ReaderType, Sums
<1>5. ASSUME eventCount' \in Nat, eventCount' + Waiting' + InApply' = eventCount + Waiting + InApply,
             Waiting' \in Nat
      PROVE  Sums(s)'
  <2>1. InApply \in {0, 1} /\ InApply' \in {0, 1}  BY DEF InApply
  <2>2. read' = eventCount' + Waiting' + lost' + InApply' + dev'[s].batch
    BY <1>1, <1>4, <1>5, <2>1
  <2>3. QED  BY <1>1, <1>5, <2>2 DEF Sums
<1>6. CASE PopAdvances
  <2>1. /\ proc.at = "advance" /\ proc'.at = "apply" /\ eventCount' = eventCount
        /\ tail' = NextIndex(tail)
    BY <1>3, <1>6 DEF PopAdvances, ProcGoes, countVars
  <2>2. ~ IsEmpty  BY <2>1 DEF Holders
  <2>3. Waiting' = Waiting - 1  BY <1>1, <2>1, <2>2, PoppedGoes DEF Types
  <2>4. InApply = 0 /\ InApply' = 1  BY <2>1 DEF InApply
  <2>5. (QueueType =>
           Waiting = (IF head >= tail THEN head - tail ELSE head - tail + Size) /\ Waiting \in Nat)'
    BY WaitingIs, PTL
  <2>6. Waiting' \in Nat  BY <2>5 DEF Types
  <2>7. QED  BY <1>2, <1>4, <1>5, <2>1, <2>3, <2>4, <2>6
<1>7. CASE ProcApplies
  <2>1. /\ proc.at = "apply" /\ proc'.at = "pop" /\ eventCount' = eventCount + 1 /\ tail' = tail
    BY <1>3, <1>7 DEF ProcApplies, ProcGoes, queueVars
  <2>2. InApply = 1 /\ InApply' = 0 /\ Waiting' = Waiting
    BY <1>1, <2>1 DEF InApply, Waiting
  <2>3. QED  BY <1>2, <1>4, <1>5, <2>1, <2>2
<1>8. CASE ~ PopAdvances /\ ~ ProcApplies
  <2>1. eventCount' = eventCount /\ tail' = tail /\ proc.at # "apply" /\ proc'.at # "apply"
    BY <1>3, <1>8
       DEF Processing, ProcLooks, ProcMayGoOn, ProcChecks, ProcDecides, ProcWaits, ProcWakesUp, ProcPicks,
           PopReads, ProcFinishes, procFrame, queueVars, countVars, ProcGoes
  <2>2. InApply' = InApply /\ Waiting' = Waiting
    BY <1>1, <2>1 DEF InApply, Waiting
  <2>3. QED  BY <1>2, <1>4, <1>5, <2>1, <2>2
<1>9. QED  BY <1>6, <1>7, <1>8

\* The other threads' steps: they start and join readers whose batch is done.
LEMMA QuietAccounts ==
  ASSUME Types, Lives, NEW s \in Device, Batches, Sums(s),
         HotOpens \/ HotGoesOn \/ Starting \/ Playing \/ Stopping \/ MainCalls
  PROVE  Batches' /\ Sums(s)'
<1> USE DEF queueVars, mainFrame, hotFrame, devVars
<1>1. UNCHANGED <<head, tail, countVars>>
  BY DEF HotOpens, HotGoesOn, HotLooks, HotTimesOut, HotCreates, HotCounts, Starting, StartReader,
         StartReaderFails, StartRunning, StartProcess, StartProcessFails, StartHotplug, UndoCloses,
         UndoJoins, StartFailed, Playing, SwapClears, ResumeBroadcasts, Stopping, StopBroadcasts,
         StopCloses, StopClosed, StopJoins, StopJoinsHotplug, StopReturns, MainCalls, AddDevice,
         SetHotplug, StartCall, SwapShows, Pause, ResumeClears, StopCall
<1>2. InApply' = InApply
  <2>1. CASE proc' = proc  BY <2>1 DEF InApply
  <2>2. CASE ResumeBroadcasts \/ StopBroadcasts
    BY <2>2 DEF ResumeBroadcasts, StopBroadcasts, Broadcast, ProcGoes, InApply, Types, ProcType
  <2>3. CASE StartProcess
    <3>1. proc.at = "off"  BY <2>3 DEF StartProcess, Lives
    <3>2. proc'.at = "look"  BY <2>3 DEF StartProcess, ProcGoes, Types, ProcType
    <3>3. QED  BY <3>1, <3>2 DEF InApply
  <2>4. QED
    BY <2>1, <2>2, <2>3
       DEF HotOpens, HotGoesOn, HotLooks, HotTimesOut, HotCreates, HotCounts, Starting, StartReader,
           StartReaderFails, StartRunning, StartProcessFails, StartHotplug, UndoCloses,
           UndoJoins, StartFailed, Playing, SwapClears, Stopping,
           StopCloses, StopClosed, StopJoins, StopJoinsHotplug, StopReturns, MainCalls, AddDevice,
           SetHotplug, StartCall, SwapShows, Pause, ResumeClears, StopCall
<1>3. dev \in [Device -> [at : {"off", "look", "select", "push", "write", "publish", "exit", "gone", "joined"},
                          ev : Entry, batch : Int, local : Int]]
  BY DEF Types, ReaderType
<1>4. /\ count \in Nat /\ at_i \in Nat /\ at_i >= 1
      /\ main = "start" => Created = {d \in Device : d < at_i}
      /\ main \in {"setup", "start", "process", "hotplug", "undo", "undojoin", "failed"} => hot = "off"
  BY DEF Types, MainType, HotIsLate, Lives
\* Readers are started where there was none and joined when they are gone.
<1>5. /\ \A d \in Device : /\ dev'[d].batch = dev[d].batch /\ dev'[d].local = dev[d].local
                           /\ \/ dev'[d].at = dev[d].at
                              \/ dev[d].at \in {"off", "gone"} /\ dev'[d].at \in {"look", "joined"}
      /\ \A d \in Created' : d <= count' \/ (hot' = "count" /\ d = count' + 1)
  <2>1. CASE dev' = dev /\ hot' = hot /\ count' \in {count, count + 1} /\ (count' # count => hot = "off")
    BY <1>4, <2>1 DEF Batches, Created, Device
  <2>2. CASE HotOpens \/ HotLooks \/ HotTimesOut
    BY <2>2 DEF HotOpens, HotLooks, HotTimesOut, Batches, Created
  <2>3. CASE HotCounts
    <3>1. dev' = dev /\ count' = count + 1 /\ hot = "count"  BY <2>3 DEF HotCounts
    <3>2. QED  BY <1>4, <3>1 DEF Batches, Created, Device
  <2>4. CASE HotCreates
    <3>1. hot = "create" /\ count' = count /\ count < MaxDevices /\ count + 1 \in Device
      BY <2>4, InputAssumption DEF HotCreates, Types, MainType, Device
    <3>2. count + 1 \notin Created /\ dev[count + 1].at = "off"
      BY <1>4, <3>1 DEF Batches, Created
    <3>3. CASE hot' = "count" /\ dev' = [dev EXCEPT ![count + 1].at = "look"]
      BY <1>3, <1>4, <3>1, <3>2, <3>3 DEF Batches, Created
    <3>4. CASE hot' = "look" /\ dev' = dev
      BY <3>1, <3>4 DEF Batches, Created
    <3>5. QED  BY <2>4, <3>3, <3>4 DEF HotCreates, SetDev
  <2>5. CASE StartReader
    <3>1. /\ main = "start" /\ at_i <= count /\ dev' = [dev EXCEPT ![at_i].at = "look"]
          /\ count' = count /\ hot' = hot
      BY <2>5 DEF StartReader, SetDev
    <3>2. at_i \in Device => dev[at_i].at = "off"  BY <1>4, <3>1 DEF Created
    <3>3. QED  BY <1>3, <1>4, <3>1, <3>2 DEF Batches, Created
  <2>6. CASE UndoJoins \/ (StopJoins /\ dev' # dev)
    <3>1. /\ dev[at_i].at = "gone" /\ dev' = [dev EXCEPT ![at_i].at = "joined"]
          /\ count' = count /\ hot' = hot
      BY <2>6 DEF UndoJoins, StopJoins, SetDev
    <3>2. QED  BY <1>3, <1>4, <3>1 DEF Batches, Created
  <2>7. CASE StartHotplug
    <3>1. main = "hotplug" /\ dev' = dev /\ count' = count  BY <2>7 DEF StartHotplug
    <3>2. hot = "off"  BY <1>4, <3>1
    <3>3. QED  BY <3>1, <3>2 DEF Batches, Created
  <2>8. CASE AddDevice
    <3>1. main = "setup" /\ dev' = dev /\ count' = count + 1 /\ hot' = hot
      BY <2>8 DEF AddDevice
    <3>2. QED  BY <1>4, <2>1, <3>1
  <2>9. QED
    BY <2>1, <2>2, <2>3, <2>4, <2>5, <2>6, <2>7, <2>8
       DEF HotGoesOn, Starting, StartReaderFails, StartRunning, StartProcess, StartProcessFails,
           UndoCloses, StartFailed, Playing, SwapClears, ResumeBroadcasts, Stopping, StopBroadcasts,
           StopCloses, StopClosed, StopJoins, StopJoinsHotplug, StopReturns, MainCalls,
           SetHotplug, StartCall, SwapShows, Pause, ResumeClears, StopCall
<1>6. \A d \in Device : IF dev'[d].at \in Busy THEN dev'[d].batch >= 1 ELSE dev'[d].batch = 0
  BY <1>5 DEF Batches, Busy
<1>7. Batches'  BY <1>5, <1>6 DEF Batches
<1>8. Waiting' = Waiting  BY <1>1 DEF Waiting
<1>9. Sums(s)'  BY <1>1, <1>2, <1>5, <1>8 DEF Sums, countVars
<1>10. QED  BY <1>7, <1>9

LEMMA AccountsStep ==
  ASSUME NEW s \in Device, Sources \subseteq {s}, Types, Types', Lives, Holders, Batches, Sums(s),
         [Next]_vars
  PROVE  Batches' /\ Sums(s)'
<1>1. CASE \E d \in Device : ReaderReads(d) \/ ReaderGoesOn(d)  BY <1>1, ReaderAccounts
<1>2. CASE Processing \/ ProcWakesUp  BY <1>2, ProcAccounts
<1>3. CASE HotOpens \/ HotGoesOn \/ Starting \/ Playing \/ Stopping \/ MainCalls
  BY <1>3, QuietAccounts
<1>4. CASE UNCHANGED vars
  BY <1>4 DEF vars, queueVars, devVars, mainVars, countVars, Batches, Sums, Created, Waiting, InApply
<1>5. QED  BY <1>1, <1>2, <1>3, <1>4 DEF Next

\* With one device that delivers, for every size of the queue, any number of
\* devices and any length of the batches: no event that evdev_reader_thread read
\* disappears but by a drop that the counters tell twice, whatever is plugged in,
\* fails to start, is paused or stopped meanwhile.
THEOREM InputEventsAreAccounted ==
  ASSUME \A c, d \in Sources : c = d
  PROVE  Spec => []EveryEventIsAccounted
<1>1. PICK s \in Device : Sources \subseteq {s}
  <2>1. CASE Sources = {}
    <3>1. 1 \in Device  BY InputAssumption DEF Device
    <3>2. QED  BY <2>1, <3>1
  <2>2. CASE Sources # {}
    <3>1. PICK c \in Sources : TRUE  BY <2>2
    <3>2. c \in Device /\ Sources \subseteq {c}  BY InputAssumption DEF Device
    <3>3. QED  BY <3>2
  <2>3. QED  BY <2>1, <2>2
<1>2. Init => Batches /\ Sums(s)  BY AccountsInit
<1>3. Types /\ Types' /\ Lives /\ Holders /\ (Batches /\ Sums(s)) /\ [Next]_vars => (Batches /\ Sums(s))'
  BY <1>1, AccountsStep
<1>4. Types /\ Batches /\ Sums(s) => EveryEventIsAccounted
  <2> SUFFICES ASSUME Types, Batches, Sums(s) PROVE EveryEventIsAccounted
    OBVIOUS
  <2> DEFINE b == [d \in Device |-> dev[d].batch]
             l == [d \in Device |-> dev[d].local]
  <2>1. /\ dev[s].batch \in Nat /\ Waiting \in Nat /\ InApply \in {0, 1}
        /\ read \in Nat /\ eventCount \in Nat /\ lost \in Nat
        /\ read = eventCount + Waiting + lost + InApply + dev[s].batch
        /\ dropped + dev[s].local = 2 * lost /\ dev[s].local \in Nat
    BY WaitingIs DEF Types, ReaderType, Batches, Sums, InApply
  <2>2. b[s] = dev[s].batch /\ l[s] = dev[s].local
        /\ \A d \in Device \ {s} : b[d] = 0 /\ l[d] = 0
    BY DEF Sums
  <2> HIDE DEF b, l
  <2>3. Total(b) = dev[s].batch  BY <2>1, <2>2, TotalOfOne
  <2>4. Total(l) = dev[s].local  BY <2>1, <2>2, TotalOfOne
  <2>5. QED  BY <2>1, <2>3, <2>4 DEF EveryEventIsAccounted, InApply, b, l
<1>5. QED  BY <1>2, <1>3, <1>4, InputHolders, InputLives, PTL DEF Spec
=============================================================================
