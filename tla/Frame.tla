-------------------------------- MODULE Frame --------------------------------
(***************************************************************************)
(* A program that draws (hs_gpu.c, one thread): calls become messages,     *)
(* hs_step routes them into the nodes' inboxes (hs_core.c), the recording  *)
(* and the render list, the nodes (hs_nodes.c) keep the settings, and the  *)
(* backend (hs_backend_gles.c) draws the list.  The recording can be       *)
(* captured and replayed.                                                  *)
(*                                                                         *)
(* The lanes are queues here: that they are is what SpscLane and           *)
(* SubmitQueue show; several threads, acknowledgements and queries are     *)
(* Fabric's.  A payload is the index and the value its bytes pack, and     *)
(* whether its text ends in a zero.                                        *)
(***************************************************************************)
EXTENDS Integers, Sequences, SequencesExt, FiniteSets, TLC

CONSTANTS
    Slots,      \* payload_capacity
    PayloadSize,\* HS_PAYLOAD_SIZE
    InboxSize,  \* HS_QUEUE_SIZE
    Reserve,    \* HS_SYSTEM_RT_RESERVE
    MaxCmds,    \* HS_RENDER_MAX_CMDS
    Budget,     \* channel -> chan_budget
    LaneSize,   \* messages of a channel that can wait
    Settings    \* the programs: [calls: what it may call, max: bound on the calls between two
                \* hs_clear, plan: the frames, recordings, captures and replays it makes and
                \* their order, validate: validate_on_send, log: log_capacity]

\* Whatever waits, with an error report each, has its payload still in the ring.
ASSUME RingAssumption == Slots \in Nat /\ Slots >= 2 * LaneSize

VARIABLES
    setting,    \* the program that runs
    lanes,      \* channel -> messages on their way
    sys,        \* HSSystem: ring, head, log, recording, overflow, inbox, lost
    list,       \* the render list: [cmds, over]
    nodes,      \* <<field, index>> -> value: the state of the nodes, where set
    gl,         \* the same of the OpenGL state
    shown,      \* what the last hs_gpu_end_frame drew: [draws; ghosts gl: before, calls]
    capture,    \* the last capture: [msgs, ring; ghost calls], or empty
    asked,      \* ghost: the calls since the start or hs_clear
    replayed,   \* ghost: what the last replay was given and left, or NoReplay
    frame,      \* ghost: [start, whole]: first call of this frame, nothing older was on its way
    turns       \* how much of its plan the program has made

frameVars == <<setting, lanes, sys, list, nodes, gl, shown, capture, asked, replayed, frame, turns>>

Channels == <<"RT", "RENDER", "TELEM">>
NodeOrder == <<"SHADER", "BUFFER", "TEXTURE", "OUTPUT", "SOUND", "SYSTEM">>
NoReplay == [kept |-> FALSE]
BlankSlots(n) == [s \in 0 .. n - 1 |-> [no |-> 0, at |-> 0, v |-> 0, ends |-> TRUE]]
NoCapture == [msgs |-> <<>>, ring |-> BlankSlots(0), calls |-> <<>>]
NothingShown == [draws |-> <<>>, gl |-> << >>, calls |-> <<>>]
EmptyLanes == [c \in ToSet(Channels) |-> <<>>]
EmptyInboxes == [n \in ToSet(NodeOrder) |-> <<>>]

-----------------------------------------------------------------------------
(* The schema of the messages (hs_op_spec_table).                           *)

OpsOf ==
    [SHADER  |-> {"SET_SHADER", "SET_PARAM", "SET_GLOBAL", "SET_CAMERA", "CULL", "BLEND", "ALPHA",
                  "DEPTH", "COLOR_MASK", "CLIP", "STENCIL", "STENCIL_FUNC", "DEPTH_COMPARE"},
     BUFFER  |-> {"LOAD_BUFFER", "DRAW", "DRAW_INSTANCE", "DRAW_TEXT"},
     TEXTURE |-> {"LOAD_TEXTURE", "SET_TARGET", "SHOW_TEXTURE", "TEXTURE_FILTER", "TEXTURE_WRAP"},
     OUTPUT  |-> {"CLEAR", "CLEAR_DS"},
     SOUND   |-> {"SET_CHANNEL"},
     SYSTEM  |-> {"ERROR", "TRACE", "STOP", "FENCE", "FRAME_BEGIN", "FRAME_END", "PRESENT", "RESULT",
                  "ERROR_EX", "QUEUE_FULL"}]
FixedLen ==
    [SET_PARAM |-> 20, SET_GLOBAL |-> 64, SET_CAMERA |-> 64, BLEND |-> 2, CLIP |-> 8, STENCIL |-> 4,
     STENCIL_FUNC |-> 4, DEPTH_COMPARE |-> 2, DRAW_INSTANCE |-> 8, SET_TARGET |-> 2, CLEAR |-> 16,
     CLEAR_DS |-> 8, SET_CHANNEL |-> 2, ERROR_EX |-> 52]
TextOps == {"DRAW_TEXT", "ERROR", "TRACE"}
FrameOps == {"FRAME_BEGIN", "FRAME_END", "PRESENT"}

LenFits(op, len) ==
    IF op \in DOMAIN FixedLen THEN len = FixedLen[op]
    ELSE IF op \in TextOps THEN len \in 1 .. PayloadSize
    ELSE len = 0

hs_validate_message(m, ring) ==
    /\ m.op \in OpsOf[m.to]
    /\ LenFits(m.op, m.len)
    /\ m.len # 0 => /\ m.idx \in DOMAIN ring
                    /\ m.op \in TextOps => ring[m.idx].ends

hs_default_channel(op) ==
    IF op \in {"ERROR", "TRACE"} THEN "TELEM" ELSE IF op \in {"STOP", "FENCE"} THEN "RT" ELSE "RENDER"

\* Mutant of hs_payload_alloc_and_copy: the head stays.
AllocInPlace(s, content) == [s EXCEPT !.ring[s.head] = content]

hs_payload_alloc_and_copy(s, content) ==
    [s EXCEPT !.ring[s.head] = content, !.head = (@ + 1) % Cardinality(DOMAIN s.ring)]

\* A message with what its payload says; the index of SET_GLOBAL is in its header.
Opened(m, ring) ==
    IF m.len = 0 THEN m
    ELSE [m EXCEPT !.v = ring[m.idx].v, !.at = IF m.op = "SET_GLOBAL" THEN @ ELSE ring[m.idx].at]

-----------------------------------------------------------------------------
(* The calls of hs_gpu.c.  A call is [op, at, v, long].                     *)

\* The bytes a call sends: the two stencil calls send all eight of their buffer.
\* A drawn text is cut to fit with its zero, an error or a trace without.
SentLen(c) ==
    IF c.op \in {"STENCIL", "STENCIL_FUNC"} THEN 8
    ELSE IF c.op \in TextOps THEN (IF c.long THEN PayloadSize ELSE 8)
    ELSE IF c.op \in DOMAIN FixedLen THEN FixedLen[c.op] ELSE 0

hs_gpu_message(c, no, s) ==
    [op |-> c.op, to |-> CHOOSE n \in DOMAIN OpsOf : c.op \in OpsOf[n], at |-> c.at,
     v |-> IF SentLen(c) = 0 THEN c.v ELSE 0, len |-> SentLen(c),
     idx |-> IF SentLen(c) = 0 THEN 0 ELSE s.head, no |-> no]
Content(c, no) ==
    [no |-> no, at |-> c.at, v |-> c.v, ends |-> ~(c.long /\ c.op \in {"ERROR", "TRACE"})]

\* hs_gpu_send_simple and hs_gpu_send_with_payload: the payload goes to the ring at
\* once, the message to its lane.
hs_gpu_call(c) ==
    LET ch == hs_default_channel(c.op)
        no == Len(asked) + 1
    IN  /\ no <= setting.max /\ Len(lanes[ch]) < LaneSize
        /\ lanes' = [lanes EXCEPT ![ch] = Append(@, hs_gpu_message(c, no, sys))]
        /\ sys' = IF SentLen(c) = 0 THEN sys ELSE hs_payload_alloc_and_copy(sys, Content(c, no))
        /\ asked' = Append(asked, c)
        /\ frame' = IF c.op = "FRAME_BEGIN" THEN [start |-> no, whole |-> TRUE] ELSE frame
        /\ UNCHANGED <<setting, list, nodes, gl, shown, capture, replayed, turns>>

-----------------------------------------------------------------------------
(* The render list.                                                        *)

hs_render_push(l, cmd) ==
    IF Len(l.cmds) >= MaxCmds THEN [l EXCEPT !.over = TRUE] ELSE [l EXCEPT !.cmds = Append(@, cmd)]
EmptyList == [cmds |-> <<>>, over |-> FALSE]

Rendered == {"CULL", "BLEND", "ALPHA", "DEPTH", "DEPTH_COMPARE", "COLOR_MASK", "CLIP", "TEXTURE_FILTER",
             "TEXTURE_WRAP", "CLEAR", "CLEAR_DS", "DRAW", "DRAW_INSTANCE", "DRAW_TEXT", "SHOW_TEXTURE"}
             \cup FrameOps

\* The command holds the numbers of the payload, but of a text only where it is.
hs_render_record(l, m, ring) ==
    LET o == Opened(m, ring)
        from == IF m.op = "FRAME_BEGIN" THEN EmptyList ELSE l
        at == IF m.op \in {"DRAW", "SHOW_TEXTURE", "TEXTURE_FILTER", "TEXTURE_WRAP"} THEN o.at % 16 ELSE o.at
    IN IF m.op \notin Rendered \/ (m.len # 0 /\ ~(m.idx \in DOMAIN ring)) THEN l
       ELSE hs_render_push(from, IF m.op = "DRAW_TEXT" THEN [op |-> m.op, at |-> 0, v |-> 0]
                                 ELSE [op |-> m.op, at |-> at, v |-> o.v])

-----------------------------------------------------------------------------
(* Routing one message: w is [s, l], the system and the render list.        *)

\* A report goes straight to the system's inbox.
Report(s, op) ==
    IF Len(s.inbox["SYSTEM"]) < InboxSize
    THEN [s EXCEPT !.inbox["SYSTEM"] =
            Append(@, [op |-> op, to |-> "SYSTEM", at |-> 0, v |-> 0, len |-> 0, idx |-> 0, no |-> 0])]
    ELSE [s EXCEPT !.lost = TRUE]
ReportBytes == BlankSlots(1)[0]
hs_report_error_ex(s) == Report(hs_payload_alloc_and_copy(s, ReportBytes), "ERROR_EX")

\* The recording takes the messages of the RENDER channel while it has room.
StopIfFull(s, m) ==
    IF s.recording /\ hs_default_channel(m.op) = "RENDER" /\ Len(s.log) >= setting.log
    THEN [s EXCEPT !.recording = FALSE, !.overflow = TRUE] ELSE s
Recorded(s, m) ==
    IF s.recording /\ hs_default_channel(m.op) = "RENDER" THEN [s EXCEPT !.log = Append(@, m)] ELSE s

hs_route_immediate(w, m) ==
    LET s == StopIfFull(w.s, m)
        both(t) == [s |-> Recorded(t, m), l |-> hs_render_record(w.l, m, t.ring)]
        reserved == m.to = "SYSTEM" /\ hs_default_channel(m.op) # "RT"
                        /\ Len(s.inbox["SYSTEM"]) >= InboxSize - Reserve
    IN IF setting.validate /\ ~hs_validate_message(m, w.s.ring) THEN [w EXCEPT !.s = hs_report_error_ex(w.s)]
       ELSE IF m.op \in FrameOps THEN both(s)
       ELSE IF m.op = "FENCE" THEN [w EXCEPT !.s = Report(hs_payload_alloc_and_copy(s, ReportBytes), "RESULT")]
       ELSE IF reserved THEN [w EXCEPT !.s = [s EXCEPT !.lost = TRUE]]
       ELSE IF Len(s.inbox[m.to]) >= InboxSize THEN [w EXCEPT !.s = Report(s, "QUEUE_FULL")]
       ELSE both([s EXCEPT !.inbox[m.to] = Append(@, m)])

-----------------------------------------------------------------------------
(* The handlers: what a message makes of the state of its node.            *)

Put(state, field, at, v) == (<<field, at>> :> v) @@ state
Get(state, field, at, default) == IF <<field, at>> \in DOMAIN state THEN state[<<field, at>>] ELSE default
Over == 56  Opaque == 10    \* the blend factors (5, 6) and (1, 0)

shader_node_process(st, m) ==
    CASE m.op \in {"SET_SHADER", "CULL", "DEPTH", "COLOR_MASK", "BLEND", "CLIP", "DEPTH_COMPARE"} ->
           Put(st, m.op, 0, m.v)
      [] m.op = "ALPHA" -> Put(st, "BLEND", 0, IF m.v = 0 THEN Opaque ELSE Over)
      [] m.op = "SET_PARAM" /\ m.at < 16 -> Put(st, m.op, m.at, m.v)
      [] m.op = "SET_CAMERA" \/ (m.op = "SET_GLOBAL" /\ m.at % 128 = 0) -> Put(st, "SET_CAMERA", 0, m.v)
      [] m.op \in {"STENCIL", "STENCIL_FUNC"} /\ m.len >= 8 -> Put(st, m.op, 0, m.v)
      [] OTHER -> st

buffer_node_process(st, m) ==
    IF m.op = "LOAD_BUFFER" THEN Put(st, m.op, m.at % 16, m.at) ELSE st

texture_node_process(st, m) ==
    CASE m.op = "LOAD_TEXTURE" -> Put(st, m.op, m.at % 16, m.at)
      [] m.op = "SET_TARGET" -> Put(st, m.op, 0, m.v)
      [] m.op = "SHOW_TEXTURE" -> Put(st, m.op, 0, m.at % 16)
      [] m.op \in {"TEXTURE_FILTER", "TEXTURE_WRAP"} -> Put(st, m.op, m.at % 16, m.v % 2)
      [] OTHER -> st

output_node_process(st, m) == IF m.op \in {"CLEAR", "CLEAR_DS"} THEN Put(st, m.op, 0, m.v) ELSE st

sound_node_process(st, m) == IF m.op = "SET_CHANNEL" /\ m.at < 4 THEN Put(st, m.op, m.at, m.v) ELSE st

system_node_process(st, m) ==
    IF m.op \in {"STOP", "ERROR_EX", "QUEUE_FULL", "RESULT"} THEN Put(st, m.op, 0, 1) ELSE st

Handled(st, node, m) ==
    CASE node = "SHADER"  -> shader_node_process(st, m)
      [] node = "BUFFER"  -> buffer_node_process(st, m)
      [] node = "TEXTURE" -> texture_node_process(st, m)
      [] node = "OUTPUT"  -> output_node_process(st, m)
      [] node = "SOUND"   -> sound_node_process(st, m)
      [] node = "SYSTEM"  -> system_node_process(st, m)

Processed(st, node, inbox, ring) ==
    FoldLeft(LAMBDA t, m : Handled(t, node, Opened(m, ring)), st, inbox)

Oldest(seq, n) == SubSeq(seq, 1, n)

\* Every channel within its budget, RT first; then every node, all it was given.
hs_step ==
    LET taken(c) == IF Len(lanes[c]) < Budget[c] THEN Len(lanes[c]) ELSE Budget[c]
        all == FlattenSeq([i \in 1 .. 3 |-> Oldest(lanes[Channels[i]], taken(Channels[i]))])
        w == FoldLeft(hs_route_immediate, [s |-> sys, l |-> list], all)
    IN  /\ all # <<>> \/ sys.inbox # EmptyInboxes
        /\ lanes' = [c \in DOMAIN lanes |-> SubSeq(lanes[c], taken(c) + 1, Len(lanes[c]))]
        /\ nodes' = FoldLeft(LAMBDA st, n : Processed(st, n, w.s.inbox[n], w.s.ring), nodes, NodeOrder)
        /\ sys' = [w.s EXCEPT !.inbox = EmptyInboxes]
        /\ list' = w.l
        /\ UNCHANGED <<setting, gl, shown, capture, asked, replayed, frame, turns>>

-----------------------------------------------------------------------------
(* The backend.                                                            *)

\* An unknown blend factor is taken for 1.
hs_gles_blend_factor(n) == IF n \in {0, 1, 5, 6} THEN n ELSE 1
Off == -1
SetGl(g, c) ==
    CASE c.op = "CULL" -> Put(g, "CULL", 0, IF c.v = 0 THEN Off ELSE IF c.v = 255 THEN 1 ELSE 0)
      [] c.op = "BLEND" ->
           Put(g, "BLEND", 0, 10 * hs_gles_blend_factor(c.v \div 10) + hs_gles_blend_factor(c.v % 10))
      [] c.op = "ALPHA" -> Put(g, "BLEND", 0, IF c.v = 0 THEN Off ELSE Over)
      [] c.op = "DEPTH" -> Put(g, "DEPTH", 0, c.v)
      [] c.op = "DEPTH_COMPARE" -> Put(Put(g, "DEPTH", 0, 1), c.op, 0, c.v)
      [] c.op = "CLIP" -> Put(g, "CLIP", 0, IF c.v = 0 THEN Off ELSE c.v)
      [] c.op = "COLOR_MASK" -> Put(g, c.op, 0, c.v)
      [] c.op \in {"TEXTURE_FILTER", "TEXTURE_WRAP"} -> Put(g, c.op, c.at, c.v % 2)
      [] OTHER -> g
Drawing == {"CLEAR", "CLEAR_DS", "DRAW", "DRAW_INSTANCE", "DRAW_TEXT", "SHOW_TEXTURE"}

\* Every drawing with the OpenGL state it meets.  A text is drawn as texture 0.
gles_execute(cmds, g) ==
    FoldLeft(LAMBDA a, c :
                [gl |-> SetGl(a.gl, c),
                 draws |-> IF c.op \in Drawing
                           THEN Append(a.draws, [op |-> c.op, at |-> c.at, v |-> c.v, gl |-> a.gl])
                           ELSE a.draws],
             [gl |-> g, draws |-> <<>>], cmds)

-----------------------------------------------------------------------------
InitialSystem(ring) ==
    [ring |-> ring, head |-> 0, log |-> <<>>, recording |-> TRUE, overflow |-> FALSE,
     inbox |-> EmptyInboxes, lost |-> FALSE]

\* hs_gpu_init.
FrameInit ==
    /\ setting \in Settings
    /\ lanes = EmptyLanes /\ sys = InitialSystem(BlankSlots(Slots)) /\ list = EmptyList
    /\ nodes = << >> /\ gl = << >> /\ shown = NothingShown
    /\ capture = NoCapture /\ asked = <<>> /\ replayed = NoReplay
    /\ frame = [start |-> 1, whole |-> TRUE] /\ turns = 0

\* The program's plan comes to this, whenever it does.
Turn(what) == turns < Len(setting.plan) /\ setting.plan[turns + 1] = what /\ turns' = turns + 1

hs_gpu_begin_frame ==
    /\ Turn("begin")
    /\ list' = EmptyList
    /\ frame' = [start |-> Len(asked) + 1, whole |-> lanes = EmptyLanes]
    /\ UNCHANGED <<setting, lanes, sys, nodes, gl, shown, capture, asked, replayed>>

\* Ghost: all calls have arrived, and the list is this frame's.
Refused ==
    sys.lost \/ <<"ERROR_EX", 0>> \in DOMAIN nodes \/ <<"QUEUE_FULL", 0>> \in DOMAIN nodes
Settled == lanes = EmptyLanes /\ ~Refused /\ replayed = NoReplay
Complete == Settled /\ frame.whole /\ ~list.over
FrameCalls == SubSeq(asked, frame.start, Len(asked))

hs_gpu_end_frame ==
    LET done == gles_execute(list.cmds, gl)
    IN  /\ Turn("end")
        /\ gl' = done.gl
        /\ shown' = [draws |-> done.draws, gl |-> gl, calls |-> IF Complete THEN FrameCalls ELSE <<>>]
        /\ UNCHANGED <<setting, lanes, sys, list, nodes, capture, asked, replayed, frame>>

hs_stop_recording ==
    /\ Turn("stop") /\ sys.recording
    /\ sys' = [sys EXCEPT !.recording = FALSE]
    /\ UNCHANGED <<setting, lanes, list, nodes, gl, shown, capture, asked, replayed, frame>>

hs_start_recording ==
    /\ Turn("start") /\ ~sys.recording
    /\ sys' = [sys EXCEPT !.recording = TRUE]
    /\ UNCHANGED <<setting, lanes, list, nodes, gl, shown, capture, asked, replayed, frame>>

\* hs_clear; the render list and the switch of the recording stay.
hs_clear ==
    /\ Turn("clear") /\ asked # <<>>
    /\ lanes' = EmptyLanes
    /\ sys' = [sys EXCEPT !.log = <<>>, !.head = 0, !.overflow = FALSE, !.lost = FALSE,
                          !.inbox = EmptyInboxes]
    /\ nodes' = << >> /\ asked' = <<>> /\ replayed' = NoReplay
    /\ frame' = [start |-> 1, whole |-> list = EmptyList]
    /\ shown' = NothingShown
    /\ UNCHANGED <<setting, list, gl, capture>>

-----------------------------------------------------------------------------
(* Capture and replay.                                                     *)

\* Ghost: the calls the messages of the log come from.
CallsOf(msgs) == [i \in DOMAIN msgs |-> asked[msgs[i].no]]

\* Mutant of CaptureOf: payload i is taken from slot i of the ring.
CaptureInOrder(msgs, ring) ==
    LET n == IF Len(msgs) > Slots THEN Slots ELSE Len(msgs)
    IN [msgs |-> [i \in 1 .. n |-> IF msgs[i].len = 0 THEN msgs[i] ELSE [msgs[i] EXCEPT !.idx = i - 1]],
        ring |-> [i \in 0 .. n - 1 |-> [ring[i] EXCEPT !.no = msgs[i + 1].no]],
        calls |-> SubSeq(CallsOf(msgs), 1, n)]

\* As many messages as the ring has slots; message i has its payload in slot i.
CaptureOf(msgs, ring) ==
    LET n == IF Len(msgs) > Slots THEN Slots ELSE Len(msgs)
    IN [msgs |-> [i \in 1 .. n |-> IF msgs[i].len = 0 THEN msgs[i] ELSE [msgs[i] EXCEPT !.idx = i - 1]],
        ring |-> [i \in 0 .. n - 1 |-> ring[msgs[i + 1].idx]],
        calls |-> SubSeq(CallsOf(msgs), 1, n)]

hs_capture_from_log ==
    /\ Turn("capture") /\ sys.log # <<>>
    /\ capture' = CaptureOf(sys.log, sys.ring)
    /\ UNCHANGED <<setting, lanes, sys, list, nodes, gl, shown, asked, replayed, frame>>

\* One message after the other, each handled before the next; r is [s, l, nodes, ok].
ReplayStep(r, m) ==
    LET s == [r.s EXCEPT !.inbox[m.to] = Append(@, m)]
    IN IF ~r.ok THEN r
       ELSE IF setting.validate /\ ~hs_validate_message(m, r.s.ring)
       THEN [r EXCEPT !.s = hs_report_error_ex(r.s), !.ok = FALSE]
       ELSE [s |-> [s EXCEPT !.inbox[m.to] = <<>>],
             l |-> hs_render_record(r.l, m, s.ring),
             nodes |-> Processed(r.nodes, m.to, s.inbox[m.to], s.ring),
             ok |-> TRUE]

\* hs_replay of msgs with the payloads of ring; then the system's own payloads again.
Replay(msgs, ring, calls, own) ==
    LET start == [s |-> [sys EXCEPT !.ring = ring, !.head = 0], l |-> list, nodes |-> << >>, ok |-> TRUE]
        r == FoldLeft(ReplayStep, start, msgs)
    IN  /\ sys' = IF own THEN r.s ELSE [r.s EXCEPT !.ring = sys.ring]
        /\ list' = r.l /\ nodes' = r.nodes
        /\ capture' = IF own THEN capture ELSE [capture EXCEPT !.ring = r.s.ring]
        /\ replayed' = [kept |-> r.ok /\ \A i \in DOMAIN msgs : msgs[i].len # 0 => ring[msgs[i].idx].no = msgs[i].no,
                        calls |-> calls, before |-> list.cmds, nodes |-> r.nodes, list |-> r.l]
        /\ UNCHANGED <<setting, lanes, gl, shown, asked, frame>>

hs_replay == Turn("replay") /\ sys.log # <<>> /\ Replay(sys.log, sys.ring, CallsOf(sys.log), TRUE)
hs_capture_replay == Turn("replay capture") /\ capture.msgs # <<>> /\ Replay(capture.msgs, capture.ring, capture.calls, FALSE)

FrameNext ==
    \/ \E c \in setting.calls : hs_gpu_call(c)
    \/ hs_step
    \/ hs_gpu_begin_frame \/ hs_gpu_end_frame
    \/ hs_stop_recording \/ hs_start_recording \/ hs_clear
    \/ hs_capture_from_log \/ hs_replay \/ hs_capture_replay

-----------------------------------------------------------------------------
(* What a program and a replay may rely on, stated on the calls.            *)

\* What a call is to set: <<field, index>> and the value.
SetsWhat(c) ==
    CASE c.op = "ALPHA" -> {<<"BLEND", 0, IF c.v = 0 THEN Opaque ELSE Over>>}
      [] c.op = "SET_GLOBAL" -> IF c.at = 0 THEN {<<"SET_CAMERA", 0, c.v>>} ELSE {}
      [] c.op \in {"LOAD_BUFFER", "LOAD_TEXTURE"} -> {<<c.op, c.at, c.at>>}
      [] c.op = "SHOW_TEXTURE" -> {<<c.op, 0, c.at>>}
      [] c.op = "SET_PARAM" -> IF c.at < 16 THEN {<<c.op, c.at, c.v>>} ELSE {}
      [] c.op = "SET_CHANNEL" -> IF c.at < 4 THEN {<<c.op, c.at, c.v>>} ELSE {}
      [] c.op \in UNION {OpsOf[n] : n \in {"SHADER", "TEXTURE", "OUTPUT"}} -> {<<c.op, c.at, c.v>>}
      [] OTHER -> {}

\* Every field has what the last of the calls that set it said, and no other is set.
SystemFields == {<<op, 0>> : op \in {"STOP", "ERROR_EX", "QUEUE_FULL", "RESULT"}}
Named(c) == {<<w[1], w[2]>> : w \in SetsWhat(c)}
SaidLast(calls, i, w) == ~\E j \in i + 1 .. Len(calls) : <<w[1], w[2]>> \in Named(calls[j])
AsAsked(state, calls) ==
    /\ DOMAIN state \ SystemFields = UNION {Named(calls[i]) : i \in DOMAIN calls}
    /\ \A i \in DOMAIN calls : \A w \in SetsWhat(calls[i]) :
          SaidLast(calls, i, w) => state[<<w[1], w[2]>>] = w[3]

\* What the list holds of the calls, after what it held before.
CommandOf(c) == IF c.op = "DRAW_TEXT" THEN [op |-> c.op, at |-> 0, v |-> 0]
                ELSE [op |-> c.op, at |-> c.at, v |-> c.v]
Commands(calls) ==
    [i \in DOMAIN SelectSeq(calls, LAMBDA c : c.op \in Rendered) |->
        CommandOf(SelectSeq(calls, LAMBDA c : c.op \in Rendered)[i])]
Listed(before, calls) ==
    LET begins == {i \in DOMAIN calls : calls[i].op = "FRAME_BEGIN"}
        last == CHOOSE i \in begins : \A j \in begins : j <= i
    IN IF begins = {} THEN before \o Commands(calls) ELSE Commands(SubSeq(calls, last, Len(calls)))

\* An OpenGL value g that draws as the value v that was asked for.
DrawsAs(field, g, v) ==
    CASE field = "BLEND" -> g = v \/ (v = Opaque /\ g = Off)
      [] field = "CULL"  -> g = (IF v = 0 THEN Off ELSE IF v = 255 THEN 1 ELSE 0)
      [] field = "CLIP"  -> g = (IF v = 0 THEN Off ELSE v)
      [] field \in {"COLOR_MASK", "DEPTH_COMPARE", "TEXTURE_FILTER", "TEXTURE_WRAP"} -> g = v
      [] OTHER -> TRUE
\* Every drawing of the frame, in order, under the settings made before it.
Drawn(draws, calls) ==
    LET at == SelectSeq([i \in DOMAIN calls |-> i], LAMBDA i : calls[i].op \in Drawing)
    IN /\ Len(draws) = Len(at)
       /\ \A d \in DOMAIN at :
            LET before == SubSeq(calls, 1, at[d] - 1)
            IN /\ draws[d].op = calls[at[d]].op
               /\ \A i \in DOMAIN before : \A w \in SetsWhat(before[i]) :
                    SaidLast(before, i, w) /\ w[1] \in {k[1] : k \in DOMAIN draws[d].gl} =>
                        DrawsAs(w[1], draws[d].gl[<<w[1], w[2]>>], w[3])

\* Unless a refusal was reported, calls that have all arrived leave every node with
\* what the last call said, although a payload crosses the ring and is read from it
\* twice; the list has this frame's commands in order, and the backend draws each
\* under the settings that came before it.
FrameIsProgram ==
    /\ Settled => AsAsked(nodes, asked)
    /\ Complete => list.cmds = Listed(<<>>, FrameCalls)
    /\ shown.calls # <<>> => Drawn(shown.draws, shown.calls)

\* A recording whose payloads were still their own when it was captured or
\* replayed brings the nodes to what its calls alone say, and the list to their
\* commands after what it held, the first time and every other.
ReplayReproduces ==
    replayed.kept =>
        /\ AsAsked(replayed.nodes, replayed.calls)
        /\ ~replayed.list.over => replayed.list.cmds = Listed(replayed.before, replayed.calls)
=============================================================================
