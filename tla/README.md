# NeoGPU in TLA+

NeoGPU is a software GPU built from "nodes" that talk only by messages. User
threads send 64-byte messages; one thread at a time calls `hs_step`, which drains
what was sent and lets the nodes work. Around that core are an IPC server for a
command-line client, background loaders, an input stream, a frame loop that
replays the recorded draw calls into a renderer, and a large collection of machine
learning kernels.

This directory holds TLA+ modules translated from the C sources, TLC
configurations that check them on small instances, and TLAPS proofs of what
matters most. Paths below are relative to the repository's root.

To parse, check or prove: `tlasany Fabric.tla`,
`tlc -workers 2 -config MCFabricCore.cfg MCFabric`, `tlapm IpcProofs.tla`.
Every run ends within three minutes on two workers, every module of proofs within a quarter of an hour.


## 1. Inventory

### 1.1 Message fabric core (`src/hs_core.c`, `include/hs_core.h`)

* **State.** Per channel (RT, RENDER, TELEM) one single-producer lane per producer
  id (`HSSpscQueue`) and one shared multi-producer submit queue
  (`HSSubmitQueue`); per node an inbox and an outbox (`HSMessageQueue`); the payload
  ring; the recording (`log`); budgets, blocking flags, counters; the toolbus; a
  mutex `sys->lock`, and a mutex and a condition for senders that wait.
* **Operations.** `hs_send`, `hs_send_with_payload`, `hs_step`, `hs_clear`,
  `hs_set_record_mask`, `hs_set_channel_budget`, `hs_toolbus_seq`,
  `hs_toolbus_wait`, `hs_replay`, `hs_capture_*`, `hs_init`, `hs_register`.
* **Interaction.** Any thread sends, without a lock. `hs_step` holds `sys->lock`,
  drains channel by channel and lane by lane, routes each message into an inbox
  (answering frame markers and fences itself), runs each node's `process_fn`, and
  routes the outboxes. `process_fn` may call `hs_send` in turn (acknowledgements).
* **Hard.** Lock-free rings with counters that wrap; a batch of messages routed
  straight from slots the producer will reuse; the fallback from lane to submit
  queue; senders that block while others step; inboxes smaller than the drain
  budget; settings that change the policy in the middle of the step that applies
  them; `hs_clear` between steps.
* **Correct when.** A lane and a submit queue are FIFO channels; a message accepted
  is in exactly one place until it is processed or visibly refused; order per lane
  is kept; every request is answered once; senders and steps come back; the
  recording equals what the nodes saw.

### 1.2 Nodes (`src/hs_nodes.c`)

Shader, buffer, texture, output, sound and system node. Each empties its inbox,
applies messages to its state and acknowledges what asks for it (`emit_ack`). The
system node answers queries, settings and fences (`emit_result`), counts reports
and copies each `OP_RESULT` it receives to the toolbus. Hard: acknowledgements are
sent with the blocking `hs_send` from the step thread. Correct when every request
has one answer, on its way or counted as lost.

### 1.3 Toolbus (`hs_toolbus_*` in `src/hs_core.c`)

A ring of the latest results, written by the system node and scanned backwards by
threads that wait for the result of a request, by correlation id, opcode and
sequence number. Hard: overwriting, `hs_clear`, late results. Correct when a waiter
finds the newest result it may use whenever there is one, and never another's.

### 1.4 IPC server (`src/hs_ipc.c`)

One thread: accepts a client, reads request after request, refuses what is not
allowed, runs ML operations itself, sends the others through the fabric and waits
250 ms on the toolbus. `hs_ipc_start` waits up to 50 ms for the thread,
`hs_ipc_stop` joins it. Hard: timeouts that race with answers, clients that hang up
with requests unread, stopping while a client is connected. Correct when replies
come one per request, in order, and are the client's own; stop waits for the thread.

### 1.5 Capture and replay (`hs_replay`, `hs_capture_*` in `src/hs_core.c`)

The recording (message headers and slots of the payload ring) is replayed into the
nodes for each frame, or copied with its payloads into a capture and replayed later.
Hard: payload slots reused before the copy; error reports allocated while replaying;
`process_fn` that sends while `hs_replay` holds the lock. Correct when a recording
whose payloads are still its own brings the nodes to the state its messages say, as
often as it is replayed.

### 1.6 Asynchronous tasks (`src/hs_async.c`)

A ring of 32 tasks, a worker thread, a semaphore; `hs_async_process` on the main
thread collects completed tasks and sends notifications. Hard: slots freed before
their task is done; two workers; shutdown with work queued; the mutex held across a
send that blocks, or is refused. Correct when tasks are worked on in order, none is
collected twice or while a worker still has it, and none is left in the ring with
everybody asleep.

### 1.7 Input stream (`src/hs_input_stream.c`)

A reader thread per device, a process thread and a hot-plug thread around a lock-free
queue, two state buffers, and flags (`running`, `paused`) that are read and written
without a lock. The game starts, pauses, resumes and stops the stream, swaps the
buffers and adds devices. Hard: a start that fails half way; several producers on a
queue made for one; wake-ups that are missed; buffers swapped under the writer;
descriptors closed under their readers. Correct when an event is applied once, in
order, or counted as dropped; when a resume is not missed; when no thread survives the
stream.

### 1.8 ML message system (`src/hs_ml_msg.c`)

A second, smaller fabric: rings per channel and producer, a submit that waits on a
full blocking channel, an executor that drains by priority and budget, dispatches,
fences, captures and replays, and a GPU node with a thread of its own. Hard: the
order of "count the waiter, lock, look" against "drain, look at the count,
broadcast"; fences across two threads; `ml_sys_free` while producers wait. Correct
when each producer's messages of a channel take effect once and in order, a fence
separates what is before it from what is after it, and every submit returns.

### 1.9 Front end, render list, backends (`src/hs_gpu.c`, `include/hs_render.h`, `src/hs_backend_gles.c`)

The frame loop: calls become messages, `hs_step` hands them to the nodes and to a
render list of fixed capacity, the backend draws the list under the settings it
meets. Hard: payload slots reused while a message is queued; a full list, inbox or
lane; what validation refuses; the order of settings and draws. Correct when nodes,
list and GL calls are what the program's calls say, unless a refusal was reported.

### 1.10 ML kernels and runtime (`src/hs_ml*.c`)

* **Kernels.** Ternary and bit-packed matrix products in some forty variants
  (shuffles, tables, narrow accumulators, threads). Correct when each gives the plain
  sum over K and each column of a threaded product has one worker.
* **Codecs.** Multi-trit floats, two-bit and eight-bit values, half floats, trit
  planes. Correct when a value comes back as the format promises.
* **Decode sessions and forward passes.** Caches of keys and values, scratch buffers
  shared by the sessions of a model. Correct when a session's state is the plain
  transformer's on its tokens, whatever mix of calls fed it.
* **Loaders.** Some hundred allocations and reads that may each fail. Correct when a
  model is whole or gone, holds what its file says, and no array is freed twice or lost.
* **Tokenizers and samplers.** Hash tables, merges, heaps of fixed size. Correct when
  tokens spell the text and the choice is the best candidate.
* **Products on the GPU** (`src/hs_ml_gpu_gemm.c`). Dispatches that run later, on
  buffers the caller rewrites; rows longer than the shaders have places for. Correct when
  what is copied is the product asked for.

### 1.11 Others

Memory banks, storage, audio, procedural generation, text and maths
(`include/*.h`) are sequential; programs, tools and benchmarks drive the library;
`src/archive_ternary_kernels/` holds superseded kernels, which are modelled with the
others; `experimental/BitNet/` is third-party code.


## 2. Plan

The order in which the project was built, the most central behaviour first. All of it
is done.

| order | module(s) | what |
|---|---|---|
| 1 | `Ring`, `SpscLane`, `SubmitQueue`, `FifoChannel` | the lock-free rings; both proved to implement a FIFO channel |
| 2 | `FabricMessages`, `FabricRouting`, `Fabric`, `FabricProps` | send, step, routing, recording, reports, clear, with FIFO lanes; safety proved |
| 3 | `Toolbus`, `Ipc`, `IpcProps` | results, the IPC server and its clients; safety proved |
| 4 | `AsyncTasks` | worker, ring of tasks, process, shutdown; safety proved |
| 5 | `InputStream`, `InputProps` | reader, process and hot-plug threads; end of threads and FIFO proved |
| 6 | `MlMsg`, `MlProps` | ML rings, blocking submit, step, fences (proved), GPU node, free |
| 7 | `Neon`, `TernaryKernels`, `ProjKernels`, `BinaryKernels`, `Products`, `ProductProps`, `Codecs` | kernels against the plain sum, threads (proved), codecs |
| 8 | `Inference`, `InferenceProps`, `GpuGemm`, `Sampling`, `Tokens`, `Loader` | the ML runtime; sessions, samplers, tokenizers, loader and GPU products proved |
| 9 | `Frame` | front end, nodes' settings, render list, capture and replay |

Composition: `Fabric` is `hs_send` and `hs_step` over lanes and submit queues taken
as the FIFO channels that `SpscLane` and `SubmitQueue` are shown to be; `Ipc` puts
`Toolbus` and a reduced fabric together with server and clients; `Frame` puts front
end, fabric (on one thread), nodes, recording and backend together; `Products`
schedules the kernels of three modules on threads. What would come next: the fabric
with `Frame`'s recordings and several senders at once, and the hybrid layers of
`src/hs_ml_hybrid.c`.


## 3. Modules and the code

`PROJECT.json` maps each definition to its lines. In outline:

**Ring** — u32 counters and the slot they select. `PosMod = Laps * Size` stands for
2^32: as in C it is a multiple of the ring's size, so that indices go on round the
ring when a counter wraps. `Plus` is u32 addition, `Dist` u32 subtraction.

**SpscLane** — `hs_spsc_push` and the lane loop of `hs_step`, each load and store of
a shared variable a step of its own. `PushRoom`, `PushWrite`, `PushPublish` on one
thread, `DrainBegin`, `DrainLoad`, `DrainRoute`, `DrainRelease`, `DrainEnd` on the
other. Release stores and acquire loads pair up, so interleaving is all there is.
Budgets are per channel, so `DrainBegin(b)` starts with whatever earlier lanes left.

**SubmitQueue** — `hs_submit_enqueue` and `hs_submit_dequeue`: load the position,
compare the slot's sequence number, claim by compare-and-swap, copy, publish. The
subtraction is done in 64 bits in C, so `Dif` does not wrap. `NoteDepth` is
`hs_submit_note_depth_step`. It starts at a position `Start` short of the wrap.

**FifoChannel** — a bounded sequence, its `Put` and `Get`. `SpscLane`, `SubmitQueue`
and the queue of `InputStream` implement it under refinement mappings that read the
waiting messages off the ring.

**FabricMessages** — what a message is to the fabric (kind, destination, channel,
wish for an acknowledgement, payload, validity), and the messages the system makes
itself. A message is identified by its sender and number.

**FabricRouting** — `hs_route_immediate`: validation, frame markers, fences, the
system node's reserve, full inboxes, recording, payload copies, and the reports
(`hs_report_error_ex`, `hs_report_queue_full`) that are themselves routed.

**Fabric** — threads in `hs_send` (`SendCall`, `SpscPush`, `SpscFull`, `TelemDrop`,
`SubmitEnqueue`, `SendFails`, `SendWaits`, `SendRetries`) and the step thread in
`hs_step` (lane batches, submit queue, node by node, outbox). Lanes and submit
queues are bounded sequences, as the ring modules justify. A claimed but not yet
published submit slot only delays what is behind it, which a message not yet sent
does as well. `hs_step` holds `sys->lock` from end to end and only it touches
inboxes, outboxes, log and payload ring, so one message or one batch boundary is one
step. A blocked acknowledgement (`emit_ack` in `hs_send` on the step thread) is the
state `step.at = "ack"`.

**Toolbus** — the ring of results and the backward scan of `hs_toolbus_wait`, as
operators on a record.

**Ipc** — clients, the server thread, `hs_ipc_start` and `hs_ipc_stop`, other
threads' queries, `hs_clear`, and the fabric reduced to what the server's requests
see of it: one lane, the system node's inbox and outbox, the phases of `hs_step`.
The accept loop is the states `listen` (head of the loop, `stop` is looked at),
`select` (it is not), `read`, and for a request `seq`, `send`, `wait`. Requests that
differ only in their payload's layout are one kind: `FENCE` (answered while it is
routed), `QUERY` (and settings: answered by the system node), `DIRECT` (refused, or
an ML operation run by the server thread), `MALFORMED` (the server hangs up).

**AsyncTasks** — the ring of tasks, callers of `hs_async_load_texture` and
`hs_async_save_file` (one and the same to the ring), workers, and the main thread in
`hs_async_process` and `hs_async_shutdown`. A slot keeps a task's id and whether it is
done; the history variables say what became of tasks: `collected` (freed by
`hs_async_process`, in this order), `untold` (those of them whose message was refused) and
`lost` (overwritten before they were collected). What callers and
workers do with the mutex held is one step; `hs_async_process` holds it through the state
`main.at = "reap"`, in which it sends. If the fabric has no room for the message it waits,
or, while RT is set not to block (`rtBlocks`, which `SetBlockPolicy` changes at any time),
the send fails; `hs_async_process` does not look at the result and frees the task
(`src/hs_async.c:262`), so that nobody is told. Reading and setting
`running`, starting the worker and posting the semaphore are outside the mutex and steps of
their own. `First` names the callers that may come before a worker runs.

**InputStream** — every access to the queue, the flags and the buffers is a step,
because nothing protects them: the mutex is taken by the process thread alone. `dev[d]`
is the place of a device's reader in `evdev_reader_thread` and
`hs_input_spsc_push`, `proc` that of `input_process_thread`, `hot` that of the
hot-plug thread, `main` that of the game's thread in `hs_input_stream_start` (with
its undoing, device by device), `_pause`, `_resume`, `_swap_buffers`, `_add_device`,
`_stop` and `_shutdown`. Joining a thread that was never created is the state
`undefined`. An input state is reduced to a pointer that stays within the screen and
the direction keys held.

**MlMsg** — `ml_sys_submit` with its wait (count, lock, look, wait: a step each),
the executor in `ml_sys_step`, `ml_capture_*`, `ml_replay`, `ml_sys_free`, and the
GPU node's thread. `order` is the history of dispatches, `effects` that of effects.

**Neon, TernaryKernels, ProjKernels, BinaryKernels** — the kernels as operators from
a row of activations and packed weights to a row of C: blocks, shuffles, tables,
widths of accumulators and scalar tails as in the C code, with the intrinsics defined
by what they do to lanes. **Products** is their use: a caller picks a kernel, the
threaded ones split the columns among workers (`Split`), each worker stores row by
row, and the caller joins them.

**Codecs** — encoder and decoder of each stored format, with the array being stored
as the state; multi-trit floats in units of their smallest step. What float rounding
may do to a quotient is a nondeterministic choice (`below`).

**Inference** — `hs_mlt_session_*`, `hs_mlt_prefill`, `hs_mlt_decode`,
`hs_mlt_forward`, `hs_ml_forward`, `hs_ml_generate`. Numbers are terms: a hidden state
says which layer made it from which state, attending to which keys and values; a cache
is the flat array of the code, so what a head reads is what the addresses say.

**GpuGemm** — a call is the list of its GL instructions, one step each, beside a GPU
that runs dispatches when it likes; uniforms and inputs are read when a dispatch runs. Both
shaders stage the input row in an array of `SharedInput` places (2560 in the code) and
fill it with K elements, whatever K is: for a longer row `DeviceRuns` chooses whether the
products come out or are `Undefined`.

**Loader** — one call a step; an array is named by the field that holds it, and `holds`
says what was read into it; a file may end anywhere and any one allocation may fail. A
scale tensor has a size: for I2_S weights the loader looks at it and spreads a single
scale over the rows, for F32 weights it reads as many as the weight has rows and so may
take in bytes of the next tensor (`"misfit"`). **Tokens**, **Sampling** — the
tokenizers with their hash tables, the samplers and the two-stage LM head.

**Frame** — the calls of `hs_gpu.c`, the routing and recording of `hs_core.c` on one
thread, the settings the nodes of `hs_nodes.c` keep, the render list, the GL calls of
`gles_execute`, `hs_replay` and the captures. A payload is the index and the value its
bytes pack.

**\*Props** — the properties of a component, where they are not in its module.
**\*Proofs** — see section 6. **MC\*** — instances for TLC.
**MCRuntime** joins the parts that one thread runs and that share no state
(`Products`, `Inference`, `GpuGemm`, `Codecs`, `Tokens`, `Sampling`, `Frame`,
`Loader`): a behaviour is a behaviour of one `part`, the others stay as they start.

Left out of the models, deliberately: the global `block_on_full` (false unless a
program sets it; the per-channel flags are there); the `tick` field and the
statistics counters nobody decides on; a second `hs_init` on the same memory.


## 4. Runs

Every bound is a constant of the `.cfg` or a definition of the MC module it names.

| run | asks | bounds | answer |
|---|---|---|---|
| `spsc_lane` | is a lane a FIFO channel, with no slot race, across the wrap? is what it accepts routed? | 4 slots, 3 laps (PosMod 12), batch 2, budget 3, 2 contents | holds |
| `submit_queue` | is the submit queue one? is full honest, do its loops end? | 2 producers, 2 slots, PosMod 8 from 5, 4 messages | holds |
| `fabric_core` | is anything lost, duplicated or reordered? | 2 producers, one of them without a lane, 2 sends each, lanes of 2, submit queue of 1, inboxes of 3 with a reserve of 1; `hs_clear`, mask changes | holds |
| `fabric_control` | is control traffic answered, is each drop reported, are recording and payloads right, with settings and validation? | 1 producer, 3 sends of 10 kinds, lane and inboxes of 2 | holds |
| `fabric_live` | do senders, steps and messages make progress? | 2 producers, lane and submit queue of 1 | holds |
| `ipc` | are replies own, complete and in order; does stop work? | 2 requests, toolbus of 2, one foreign query, one `hs_clear` | holds |
| `async` | is each task worked on in order, collected once, told or refused, never forgotten? does shutdown return, and whom does it leave? | ring of 3, 2 callers that compete for the first worker, 4 tasks, room for 1 message, RT blocking or not, 2 threads | holds |
| `input` | is an event lost, torn or reordered? is a resume missed? is a thread left? | queue of 2 places, 1 device, 2 events, reads of up to 2 | holds |
| `input_wakeup` | is a pushed event applied? | the same | violated |
| `ml_msg` | is a message lost, overtaken, moved across a fence? do submits return? | 3 threads for 2 producers, a blocking and a dropping channel, queues of 1, a GPU node, captures of 1 | holds |
| `ml_runtime` | do kernels, sessions, GPU products, codecs, loader, tokenizers, samplers and frames do what they promise? | below | holds |
| `infer_heads` | does a head of the float model read its own keys? | 2 heads, 3 positions | violated |

Why these bounds are enough to be interesting. In `spsc_lane` the ring is larger than a
batch and a batch smaller than the budget, so drains take several batches, end for
lack of budget or of messages, and cross the end of the ring and the wrap at
different points. In `submit_queue` two producers meet at one slot, the queue is
full and empty, and positions go from 5 past 7 to 0. In `fabric_core` lanes, the
submit queue, the inboxes and the system node's reserve each fill up, and the second
producer finds no lane. In `fabric_control` an inbox holds two messages, so reports
and results compete with requests. In `ipc` the toolbus holds two entries, so one
foreign result and an own late one push each other out, and `hs_clear` falls into a
wait. In `async` the fourth task comes to the slot of the first, so that callers can outrun
collection; each notification finds the fabric full until `hs_step` comes; and the two
callers start one worker, or one each if both look before either has started it. In
`input` the queue has room for one event, so that of two read at once the second is
dropped; starts fail at every point, and the device is there from the start or plugged
in while the stream runs or stops. In `ml_msg` each queue holds one message and each
step takes one per channel, so producers wait, are refused and wake at every point of a
step, and the third thread finds no place.

`ml_runtime` takes its parts at these sizes (`MCRuntime.tla`): every kernel on shapes
with a tail of columns and of K and on the extreme sums (-128 times -1, 324 times),
threaded products with 0 to 5 threads on column counts around the block sizes and on
both sides of `MinWork` (250) and `MinColumns` (16, the least that keeps the code's
blocks of columns apart), and with its product near 2^16; sessions of up to two layers,
four heads in two groups and three positions, two users of one model; three GPU calls
in a row, where as in a model of H = 2560 and F = 6912 a row of H elements fits the
shaders' shared array (4) and one of F (8) does not, with as many layers as a batch may have (2) and a vocabulary (10) above what the output buffer starts with (8) and below
what a feed-forward call makes of it (16); arrays that end between steps and blocks; nine kinds of GGUF files and two of
norms, with scale tensors of one scale, of one for each row, cut off, absent and of
neither size before F32 weights, three loads in a row, an allocation failing anywhere; all texts of up to five
letters in three vocabularies, with a longest match of 3, words of four letters but
three pieces, and four output tokens; six logits, four candidates; programs of up to six calls with inboxes, lanes
and payload rings of two to four, with and without validation, replayed and captured
in two orders.

Properties worth reading: `LaneIsFifo`, `NoSlotRace` (`SpscLane`); `SlotOwnedByOne`,
`FullIsHonest`, `SubmitIsFifo` (`SubmitQueue`); `Conservation`, `AnsweredOnce`,
`LossIsReported`, `RecordingIsComplete` (`FabricProps`); `AnswerIsOwn`,
`RepliesInOrder`, `ScanIsComplete` (`IpcProps`); `QueueIsFifo`, `LossNeedsOverrun`,
`WorkEnds`, `StopLeavesFew` (`AsyncTasks`); `EveryEventIsAccounted`, `ThreadsMoveOn` (`InputProps`);
`AcceptedInOrder`, `FenceOrders`, `SubmitEnds` (`MlProps`); `ResultIsProduct`
(`ProductProps`); `SessionIsTransformer` (`InferenceProps`); `SettledIsProduct`
(`GpuGemm`); `LoadIsWhole` (`Loader`). For every property a definition named "Mutant
of ..." in the module it changes shows a plausible slip of the code that would break
it.

Deadlock is checked in every run but those of `AsyncTasks`, `GpuGemm`, `InputStream`,
`MlMsg` and `MCRuntime`, whose programs end: after shutdown, a final stop, `ml_sys_free` or the last call nothing
happens any more. In the other runs a state in which nothing is left to send is no
deadlock: `hs_step` can be called again.

### Fairness

* Rings (`FairSpec` of `SpscLane`, `SubmitQueue`): a thread inside a call takes its
  next step. Nobody has to start a call except the drain. `AcceptedIsRouted`
  needs more: drains that begin with budget left for this lane happen again and
  again (a lane behind busy ones is owed nothing, `src/hs_core.c:1218`). The
  compare-and-swaps of the submit queue are strongly fair: a weak one does not fail
  without reason for ever. Its retry loops then end because a real failure is
  another producer's success, of which there are finitely many (`MaxPush`): the code
  is lock-free, and a producer in endless contention has no guarantee.
* `Fabric`: producers inside `hs_send` and the step thread inside `hs_step` go on,
  and `hs_step` is called again and again, by a thread of its own as
  `docs/CHANNEL_FABRIC.md:66` asks. Beginning a send is not fair, nor is a setting
  or `hs_clear`.
* `Ipc`: the server's thread goes on (each of its waits has a deadline, except the
  one of `hs_send` and a read from a connected client), somebody calls `hs_step`,
  and `hs_ipc_start` and `hs_ipc_stop` go on. Clients owe nothing: one may stay
  connected and silent for ever, and then `hs_ipc_stop` does not return;
  `ServerMovesOn` therefore speaks of stops after which clients hang up. `SendFails`
  is a free choice: whether RT blocks is a setting.
* `AsyncTasks`: threads inside a call go on, `hs_async_process` is called again
  and again until shutdown, `hs_step` drains. A worker's steps under the mutex are strongly
  fair, because the main thread lets go of it between two calls (`src/main.c:987` sleeps
  there). Nobody has to enqueue or to shut down, and whether RT blocks may change at any
time: a task is told only if the message is accepted (`AcceptedIsTold`). Of two workers
one may consume the post that was to wake the other, which `hs_async_shutdown` then waits
for: `WorkEnds` promises its return only with one.
* `InputStream`: every thread goes on. Devices deliver and the game calls what they
  like, and a condition wait ends by a broadcast only: no spurious wake-up is promised.
* `MlMsg`: threads go on; the executor keeps stepping until it replays or frees the
  system; a mutex that is released again and again is not denied for ever; the GPU
  node runs what it has.


## 5. Where code and documents disagree

Two disagreements are the runs that end in a violation:

1. **A push wakes nobody** (`input_wakeup`, `src/hs_input_stream.c:242`). The process
   thread waits for a condition that only resume and stop signal.
   `docs/INPUT_STREAM_REMEDIATION.md:156` has the reader signal it after a push.
2. **Heads read each other's cache** (`infer_heads`, `src/hs_ml.c:823`). Keys are
   written by position, then head, and read by head, then position, against the
   layout the allocation's comment states (`src/hs_ml.c:580`).

Six more follow from the models, which state their exact extent where a property
meets them:

3. **Two workers, one joined** (`src/hs_async.c:177`). `running` is tested and set outside
   the mutex: two callers that both find no worker start one each. `hs_async_shutdown`
   joins the one started last, and destroys semaphore and mutex under the other, or waits
   for ever because the other took its post. `docs/P0_PRD.md:61` calls the task queue
   thread-safe. `StopLeavesFew` says how many workers can be left, and `LossNeedsOverrun`
   and the second half of `WorkEnds` are about one (`OneWorker`).
4. **Long rows overrun the shared array** (`src/hs_ml_gpu_gemm.c:127`, `:314`).
   `shared_input` has 2560 places; the down projection of `gpu_gemm_run_ffn` (`:1057`)
   fills it up to K = F, and nothing compares the two. `include/hs_ml_gpu_gemm.h:165`
   promises the output of the down projection for F inputs, and
   `tests/bench_zero_copy.c:70` has a model of H = 2560 and F = 6912. `SettledIsProduct`
   allows such a result to be `Undefined` (`Results`).
5. **Empty queue at the wrap** (`src/hs_core.c:322`). The positions are u32, their
   difference is taken as 64-bit `intptr_t`. At position 2^32 - 1 an empty submit
   queue looks like one whose position is stale and `hs_submit_dequeue` loops, on the
   step thread, until somebody enqueues (`RetriesEnd` excepts this one state).
6. **Accepted draws are lost** (`src/hs_core.c:470`). `hs_step` drains up to a
   channel's budget (16384) before any node empties its inbox of 256 places;
   what does not fit is dropped with a report. `docs/CHANNEL_FABRIC.md:12` promises
   otherwise. What does hold is `LossIsReported`.
7. **A fence overruns the log** (`src/hs_core.c:440`, `:447`). Whether to record is
   decided before the fence's result takes the last place.
8. **The step thread blocks** (`src/hs_core.c:1175`). An acknowledgement that finds
   the system node's inbox full waits for the step it is part of.
   `docs/CHANNEL_FABRIC.md:67`: "the step thread must never block".

### Noted while modelling

*Fabric.* Draws that fall back from the lane to the submit queue can be overtaken by
later ones from the lane (order is kept per lane, which is what `LaneOrder` says). A
program with one thread blocks for ever in a full blocking channel
(`src/hs_core.c:1174`). Lanes are drained in the order of their ids, so a busy one
starves later ones (`:1218`). A second `hs_init` leaves `producer_epoch` at 1, so a
thread keeps the id it had (`:997`).

*IPC.* `docs/IPC_CONTROL.md` says a full toolbus drops new copies, the code overwrites
the oldest. `OP_ML_TOKENIZE` and `OP_ML_DETOKENIZE` are accepted and never answered.
`hs_clear` while the server waits wipes the answer out. The deadline uses
`CLOCK_REALTIME`. A correlation id used twice, as by the one client there is
(`tools/neogpu_tool.c:235`), lets the late result of a request that timed out answer
the next one. `toolbus_seq` wraps after 2^32 results (`src/hs_core.c:610`).
`hs_ipc_start` gives up after 50 ms on a thread that may still come
(`src/hs_ipc.c:621`). `OP_ML_GENERATE` (`src/hs_ipc.c:229`) copies the first `num_gen`
tokens of an array that begins with the prompt, so the reply repeats the prompt.

*Asynchronous tasks.* The result of the send is ignored (`src/hs_async.c:262`): while RT is
set not to block and the fabric is full, a completed task is freed and nobody hears of it.
Shutdown leaves what is still in the ring, and the buffers with it.

*Input.* With two devices two readers push to a queue made for one. `swap_buffers`
may zero the buffer the process thread is writing to. The broadcast of a stop can come
between the process thread's look and its wait. A device that is hot-plugged after the
descriptors were closed keeps its reader, and the join waits for it. A shutdown after
a failed start joins threads that were never created. Drops are counted twice. A
failed start keeps descriptors open.

*ML messages.* `MSGF_FENCE` and `MSGF_ACK` are never read. `ml_sys_free` destroys the
lock and the condition that woken producers are still to leave. A busy first producer
uses up the budget. An operation of the executor that depends on one of the GPU node
reads stale output unless a fence is between. A blocking submit may still return false
(`include/hs_ml_msg.h:279`). `docs/ML_API.md:142` promises a deterministic replay.

*Inference.* `session_logits` after a reset uses the hidden state of before. Nothing
compares the position with `max_context`. A session freed between the two stages of
the head on the GPU is written to later. A failed `session_init` loses its caches.
`hs_ml_layer_forward`'s norm multiplies without normalising. `partial_top_c` with
fewer tokens than candidates leaves candidates unset; `BestIsChosen` is about
vocabularies that are large enough.

*Products on the GPU.* "Copy will wait if needed." (`src/hs_ml_gpu_gemm.c:712`) is not
so: the copy waits for nothing. Batched calls rewrite uniforms that earlier
dispatches have not read. `run_attn` and `run_ffn` bind the output buffer before they
replace it by a larger one. The LM head uses one plane, and nothing makes the output
buffer large enough for it: `gpu_gemm_set_dims` allocates for the larger of H and F,
`run_attn` and `run_ffn` may enlarge it, `run_lmhead` never does, though its result is
said to be "[V] output logits" (`include/hs_ml_gpu_gemm.h:184`). With a vocabulary above
that the rows beyond the buffer are not computed, and the copy reads past the mapping
(`src/hs_ml_gpu_gemm.c:1177`); `tools/neogpu_bitnet_chat.c:277` passes V for F to
prevent it. Shutdown loses a buffer and a program. A batch shader has offsets for 32 layers
(`MAX_LAYERS`; more are refused, `BatchLayers`); that a batch has at most 16 projections
(`:860`) and a model at most 64 layers (`:630`) are limits no call of the models comes
near. `SettledIsProduct` is about the results that are safe from all this, long rows
aside.

*Kernels and codecs.* K is cut down to whole bytes, in `route_binary` to whole blocks
of 128, in the quantized projection to blocks of 64 while the correction takes the
whole sum. The archived v6, v12 and v17 are right for sparse weights only. The work
threshold of the threaded product is a u32 product that wraps. `hs_ml_gemm_int8_neon_dotprod` (dot-product builds only)
multiplies the wrong weights. The table entries for 3^-13 to 3^-3 in `hs_ml_mt11.c`
are 0.6% too large. Seven trits have 2187 distinct values only within one exponent.
Row scales of the LM head are cut to half floats.

*Loader.* An unreadable header leads to `fail` past the initialisation of the arrays
that `fail` frees. `vocab_size` strings are freed although the array has as many as
the file said. `load_ternary_proj` replaces seven scale arrays per layer without
freeing them, and `merge_ranks` is never freed, against "Free all allocations"
(`include/hs_ml_infer.h`). The last failure of `hs_mlt_lmhead_encode` frees
`row_scale` and keeps the pointer. An `output.weight` in an unknown format is silently
replaced by the embedding. Projections in F32 read as many scales as the weight has rows,
whatever the scale tensor holds (`src/hs_ml_loader_ternary.c:344`), where those in I2_S
look at its size and ignore one that is neither 1 nor the rows. No tensor's size is
compared with what is read from it, but these scales': a file is taken at its word.
One flag says for the whole model what each tensor may have
differently.

*Tokenizers.* A match whose token is `unk_token` is taken for none. `bpe_encode`
drops what a word has beyond 256 pieces. `tokenizer_decode` with no room underflows.

*Frames.* `hs_capture_read_file` as committed declares two variables twice and does
not compile. `OP_STENCIL` and `OP_STENCIL_FUNC` are 4 bytes in
`docs/MESSAGE_ABI.md:76` and in validation, and 8 bytes in the call and in the node:
valid ones do nothing. `OP_INPUT_*` and `OP_ML_*` have no entry in the table of
validation. `hs_gpu_begin_frame` empties the list at once while messages may be queued,
and is not recorded. `hs_replay` appends to the list. `hs_capture_from_log` does not
notice overtaken payloads (`DIAMOND.md:45` says deep copies). 256 places of an inbox
against 16384 of a step's budget refuse what a large frame draws. Text is drawn as
texture 0.


## 6. Proofs

All are checked by `tlapm`, for every value of the constants that satisfies the
assumptions named in the modules.

**Lane** (`RingProofs`). Assumed: the size is positive,
there are at least two laps (for `HS_SPSC_SIZE` there are 2^24), a batch and the budget are positive. The inductive invariant is `LaneInv ==
LaneTypes /\ PositionsAgree`. `PositionsAgree` says how each thread's private knowledge
relates to the shared counters: the producer that saw room still has room, since
only the consumer moves `head`, forward; the batch the consumer took is still
within what was published. By itself `NoSlotRace` is not inductive, for it does not
say why the producer found room.
`LaneTypeOK`, `LanePositionsAgree` and `LaneNoSlotRace` follow from the invariant;
`LaneImplementsFifo` shows that each step of the lane is a `Put`, a `Get` or a
stutter of `FifoChannel`. Its core is modular arithmetic, done once for both
rings: that distances add up across the wrap (`DistPlusOne`, `DistMinus`,
`DistNext`, `PlusDist`) and that positions less than a ring apart select different
slots (`SlotsDiffer`, `NearSlots`).

**Submit queue** (also in `RingProofs`). Assumed besides: at least two slots (the code
asserts a power of two, and has 1024; in a ring of one slot a published number is the
free number of the next lap), finitely many producers, and `MaxPush < PosMod - Size`:
no thread sleeps inside one call while the positions go round. `SlotOwnedByOne` says
nothing of why a claim is exclusive. The invariant `QInv` adds: each slot within a lap
of `Released`, the first position not handed back, carries the number of that position,
or one more if it was published (`Slots`); a producer that writes has a claimed
position to itself, with the slot's number still the position's (`Writers`); the step
thread claims only what is published (`Consumer`); and a producer that has loaded a
position and not claimed it is behind `enqueue_pos`, which counts at most as far as
the calls begun, less those still to claim. The last part is what rules out that a
compare-and-swap succeeds on a position that has come round (`Claimers`).
`SubmitSlotOwnedByOne` follows, and `SubmitQueueIsFifo`: the compare-and-swap of a
producer is the `Put`, that of the step thread the `Get`, and writing, publishing,
copying and releasing change nothing that waits.
`SubmitFullIsHonest`: who is told the ring is full is told the truth. Besides
`QInv` it needs `Behind`: the first position not handed back lies between the start and
`enqueue_pos`. Its hypothesis `MaxPush <= PosMod - 2 * Size` asks for one lap more than
the assumption. `FullIsHonest` already excepts a thread that loaded its position before
the wrap and compares it with a slot released after it; a thread that slept for nearly
all of the positions might be told so without falling under the exception.

**Fabric** (`FabricProofs`). Assumed: the lanes' size and the batch are positive, the
other sizes naturals and the reserve no larger than an inbox; budgets, also those a
setting carries, are numbers (the code's are u32); no thread sends what the system
makes itself (`TemplateAssumption`: nothing in the repository does, though `hs_send`
would take it). Producers, nodes, messages
and all sizes are arbitrary. `Conservation` says nothing of why a message cannot be
routed twice, so the invariant `FInv` follows it on its whole way. `Batches`: what a
batch has still to route is in its lane. `Senders`: a thread in `hs_send` has in hand its
latest message, which is nowhere else, and a lane has one producer. `Accepted`: what
waits was accepted, and nothing accepted is new to its sender. `Fates`: each accepted
message is in one place, once, or refused, and never both. `Contents`: requests keep
their sender's number and acknowledgements are in the places where they can be.
`Replies`: an answer exists only after its request was applied, and once. `Orders`: what
one lane brings to one node is in order within the lane, within the inbox and among what
was applied and recorded, and the earlier place holds the later messages.
Each of these is preserved by a step because of the others; `Invariance` proves them
together, one step of the proof per action.

The actions differ in a few ways only: a message is routed, is popped by its node, all
is cleared, or nothing of this kind happens (`StepKinds`). With that the three counting
properties are shown by invariants of their own on top of `FInv`. `LossIsReported`: each
refusal brings one report or one count and neither is taken back (`Reported`).
`AnsweredOnce`: a result that is not there was counted (`AnswersCounted`).
`RecordingIsComplete`: what is drawn goes to the log and to the inbox in one step, and
the pop moves it within `applied \o inbox[nd]` without changing the order (`Followed`). It
assumes `RenderStays`: nobody takes RENDER out of the record mask, for a recording with
RENDER taken out and put back has a gap. The settings of `fabric_control` satisfy it.
`NothingIsLost`,
`LanesAreFifo`, `EveryRequestIsAnswered`, `NoSilentLoss` and `RecordingFollows` are the
theorems.

**IPC** (`IpcProofs`). Assumed: queue sizes and the toolbus are positive; bounds are
naturals, of any size. The invariant `OwnTypes` is a type invariant that carries the
correlation ids along the whole way (lane, inbox, outbox, toolbus): whatever bears a
request's number bears its correlation id, which is that number when ids are
distinct. Without it one could not conclude from a match in the toolbus that the entry
is the request's own. From it follow `IpcTypes` and, under `FreshCids`,
`IpcAnswerIsOwn`; section 5 says what happens without the assumption.
`Conversation` strengthens `RepliesInOrder` with the requests that are not answered
yet: the one being served is the one a reply is due to, the wire goes on after it
without a gap, and all of them reach up to the number of requests made.
`IpcRepliesInOrder` follows. `IpcStopIsFinal`: no step leads out of "done".
The lemma `FoundIsNewest` shows that the scan returns the newest entry that matches, by
well-foundedness of `<` on the naturals, for a ring of any size.
`IpcScanIsComplete` needs `RingIsHistory`, which relates the ring to the history of
results: the i-th newest entry is the i-th newest result since the last clear, they are
numbered without a gap, and the rest of the ring is empty. From it the scan finds an
entry exactly when the history has one that is of use and not overwritten
(`UsableIsHit`, `HitIsUsable`).

**Asynchronous tasks** (`AsyncProofs`). Assumed: the ring and the fabric's room are
positive. `QueueIsFifo` says where the pending tasks are; `CollectedOnce` alone is not
inductive, for it does not say why the next task collected is a new one. The invariant
adds `IdsAreOwn`: no id is in two slots, with two workers, or both in a slot and collected,
what was taken or collected is older than what is pending, and a task that is worked on is not
marked done. It holds for any number of workers, also when two callers start one each,
and when slots are overwritten. `AsyncQueueIsFifo` and `AsyncCollectedOnce` follow.
`AsyncStopLeavesFew` holds for any number of competing first callers too: each of them
starts at most one worker, nobody starts one after they are through, and the one that
shutdown joins is among them (`FewWorkers`); with one such caller nobody is left.
`AsyncLossNeedsOverrun` speaks of the time before a second worker is started, for one worker completes tasks in
their order. Its invariant `InOrder` dates the slots: an occupied slot holds the task
that was put in as many tasks ago as it lies behind `head`, and is done exactly if that
task is among the finished (`Aged`, `TakenLast`); what was collected is
finished (`CollectedFinished`); and, because a sweep leaves no finished task behind it
(`Swept`), between two sweeps everything collected is older than everything in the ring
(`CollectedFirst`). A slot about to be overwritten holds the task `MaxPending` before the
new one, so that only tasks older than it were collected, each once: the pigeonhole
principle does the rest.

**Input stream** (`InputProofs`). `Types` and `Lives` are inductive: where each thread
can be at each place of the game's thread. Readers are created and undone in the order
of their devices, so that the ones still to undo are a prefix; `InputNoThreadIsLeft`
follows for any number of devices. `InputQueueIsFifo` assumes one device that
delivers, since the queue has one producer's place, and shows the queue to be a
`FifoChannel` of `Size - 1` events for every size: the reader in `hs_input_spsc_push`
is alone, what lies between `tail` and `head` was written before `head` moved,
and the process thread moves `tail` only past what it has copied.
`InputEventsAreAccounted`, under the same assumption, keeps the books for that device
alone (`Sums`: the others hold and count nothing) and says at which places a reader holds
events (`Batches`).

**ML messages** (`MlProofs`). Assumed: there are a queue of positive length and a
channel; threads, scripts, budgets and the capture's capacity are arbitrary.
`FenceOrders` is about what took effect, and the places a message goes through before
are what keeps it from doing so twice. The invariant `MInv` says that a message, while
the executor steps, is in one place and there once: in hand, in the queue of its
channel and its thread, about to be dispatched, or dispatched (`Hands`, `Places`); that
what is captured was dispatched, each message once, and a replay has dispatched a
prefix of it (`Captured`); and that nothing that was dispatched before a fence is with
the GPU node (`Effects`). `MlFenceOrders` follows: a fence waits for an empty inbox, and
only the executor puts anything there.
`MlAcceptedInOrder` is about everything that was submitted. Its invariant `OInv` adds to
`MInv` that a thread has its producer's number, and so its queues, to itself
(`OwnQueues`); that each queue is in order and comes after what was popped (`Streams`);
and that every number a thread has used is popped, waiting, refused or in its hands, and
nothing is both refused and taken (`Accounted`).

**Tokenizers** (also in `MlProofs`). Assumed (`VocabulariesAssumption`): strings are
sequences of letters, and no text contains the string of the unknown token, since a
match with it counts as none (section 5). Vocabularies, merge rules, texts and all
bounds are arbitrary. `TokensKeepText` needs to know what the tables hold. A table has
twice as many slots as entries (`TableSizeIs`), so an insertion always finds an empty slot
(`EmptyCell`). It never moves an entry, and all slots from an entry's hash to its place are
taken (`TableOk`, kept by `InsertedIs`, true of the finished table by `BuiltIs`).
Therefore a lookup that stops at the first empty slot finds every string that is there
(`FoundIs`), whatever the hashes are and however they collide. `TokInv` is `LoadedOk`, the
tables of the model are of this kind, and of the call under way `JobOk`: the longest-match
tokenizer has used up what its tokens spell, each with the longest match
(`LongestOk`), and the byte pair encoder's pieces tile its word, and its tokens
spell what it has read (`BpeOk`). A merge of neighbours keeps a tiling (`MergedIs`),
pieces that tile spell the word (`JoinedTiles`), also where a piece is no token and is
spelled letter by letter (`TokensOfIs`), and a cut in the output is only made when it
is full (`EmittedIs`). `TokensKeepTexts` is the theorem.

**Products** (`ProductProofs`). `OneOwner`: however many columns, threads and rows,
with every kernel's rounding of a worker's share, each column of C is stored by one
worker and no other. The shares are multiples of a base, and the proof splits on
which of the at most four rungs (`MaxThreads`) a column lies on.

**Products on the GPU** (also in `ProductProofs`). Assumed: the sizes of the model, its number
of layers and the rows of a workgroup are positive; inputs, the length of a program and
what the caller calls, allocates and shuts down when are arbitrary, and so are the
places of the shared array: where a row does not fit, all the theorem says is that the
dispatch has run before its result is copied. `SettledIsProduct`
speaks of calls that have returned, and says nothing of the instructions before.
The invariant `GInv` follows each call through its list: `Asked` says which instructions
are left (`Left(script, j)`), and for each such j what is bound, what the shared input
and uniforms hold (`Described`), and that the dispatch that will read them is the last
in the queue, or computed (`Underway`), and after `glFinish` computed (`Settled`).
`Pending` says the same of the head's product between two calls, `Stored` of what was
copied of it, `DimsFirst` that nobody runs an instruction before `gpu_gemm_set_dims`.
For each call there is one lemma for its instructions (`AttnExecutes`, `FfnExecutes`,
`BatchExecutes`, `AllQExecutes`, `HeadExecutes`) and one for a dispatch that the GPU
runs in between (`AttnDevice` ...): the queue is in order, so running anything but the
last of it leaves `Underway` true, and running the last makes it `Computed`, as the
uniforms it reads are still those it was queued with. `GpuSettles` follows.

**Sessions** (`RuntimeProofs`). Assumed (`ModelsAssumption`): a model has layers, heads
and a context, no more key and value heads than heads, and hs_ml.c's models neither
sessions nor groups of heads. Models, users, tokens, prompts and the sequence of calls are
arbitrary. The reference gives each layer's states on all positions by definition; the
code goes token by token through all layers and finds what earlier tokens left in flat
caches. `SessionIsTransformer` therefore needs an invariant of the caches: after the
tokens s, layer l's cache holds at the address of each position and head the key and the
value of what the transformer has there after l - 1 layers (`CacheHolds`). `InferInv` says
it of every session (`SessionStands`), and of the last answer that it is made of
the tokens asked for. A token's pass keeps it, by induction over the layers
(`TokenIsTransformer`), and a prefill by induction over its tokens (`TokensAreTransformer`).
That the address arithmetic of a grouped head leads to its own group is
`h * kvHeads \div heads` being the group that contains h (`QuotientIs`). Where an
allocation of caches failed the property promises nothing, and for the float model it
does for one head only, which is what `infer_heads` shows.
`SessionsStandWithTransformer` is the theorem.

**Samplers** (also in `RuntimeProofs`). Assumed (`SamplingAssumption`): logits are arrays of
numbers that lie above the logit of a token that is no candidate (-1e30). The
candidates are the entries of a binary heap that is sifted as the tokens pass. Its
invariant: from the node `heapify` has reached each parent is below its children
(`HeapFrom`), the entries are of different tokens and carry their logits (`Entries`), and no
token passed and left out is above the top (`TopOk`). Sifting exchanges two entries, and the
only place where the heap may be violated goes down, which is why as many rounds as there
are entries are enough. The list of the top k is an invariant of the same
kind (`KeptOk`), and `SampleInv` says that the logits and the choice are made of these.
`SamplersChooseBest` then counts: the candidates are as many as the heap has entries, and
what is better than one of the best k is among the other k - 1.

**Loader** (also in `RuntimeProofs`). Assumed (`FilesAssumption`, `SidecarsAssumption`): a
key is once in the metadata, the weights of one file are of one format, and a file of norms
ends where it is cut off; files, layers, calls and the allocation that fails are
arbitrary. `LoadIsWhole` is about a model between two calls; within one, `Making` says that
all arrays tried so far are the model's, on the heap and nobody else's, or the call has
failed and all was given back (`HeapSound`), and that what was read stands in its field. It is kept
by every group of allocations (`AllocAllMaking`), by each key of the metadata, projection,
layer and entry of a side file, by induction over each of these sequences. Between the calls `LoaderInv`
says besides which arrays a model has (`Needs`), that encoding the LM head finds no planes
in its way (`Armed`), and for each field whether the file, the side file or the
default is what it holds (`KeptIn`): the embedding, the head (the file's, or the embedding
where the file has none that can be read), each norm and weight, and each projection's
scales where their tensor fits the weight (`Fitting`). `LoadedModelIsWhole` follows.

Induction in these three and for the tokenizers, over layers, tokens, strings or rounds, is by a smallest
counterexample: a set of numbers has a member whose predecessor is not in it
(`FirstOfNat`), from the well-foundedness of `<`. What the code computes in a loop is
written as a function of the number of rounds for that.

**Only model-checked.** All liveness (out of the prover's reach), and what most of the sequential
code computes: the arithmetic of the kernels (`ResultIsProduct`) and codecs
(`CodecsKeepValues`), which is about shuffles, bits and tables and checked exhaustively on
small shapes, and the properties of frames (`FrameIsProgram`, `ReplayReproduces`),
whose definitions are folds of the library over sequences, which would need induction
with an operator as its parameter.


## 7. Not modelled

* **Of the fabric**: a second `hs_init`, registration at run time,
  `hs_set_channel_budget` as a direct call (as a setting it is there).
* **Of captures**: the files (the reader does not compile), replays beside other
  senders. **Of the nodes**: the input node, sounds and what files contain.
* **Of the IPC server**: socket errors other than a client that hangs up, the path
  filter, the payload layouts, and what the ML operations it runs compute. Sequence
  numbers of the toolbus do not wrap in the model.
* **Of the asynchronous tasks**: what a task does, and failing allocations (which
  change nothing).
* **Of the kernels and the runtime**: float rounding, but where a codec's promise is
  about it; norms, RoPE and softmax, which are arithmetic on floats alone; the hybrid
  layers and the older float loader; the coprocessor's context; and two functions:
  `hs_ml_lmhead_stage1_i8`, which nothing calls, and `hs_ml_gemm_int8_neon_dotprod`,
  which only dot-product builds compile.
* **Of the backends**: shaders, textures, text layout and windows, which are calls
  into a driver; the V3D mailbox and the QPU assembler, where what matters happens in
  the device.
* **Not at all**: memory banks, storage, audio, procedural generation, text and maths
  (sequential arithmetic and thin wrappers, with no state that outlives a call but
  the buffers themselves); programs, tools and benchmarks; vendored code.

`PROJECT.json` lists under `hazards` what is hard to test, at its line, with the
properties that cover it or the reason why none does.
