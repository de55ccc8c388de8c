# TLA+ verification of arjun-rajput-portfolio

The repository is a portfolio of embedded-Linux programs. This directory holds TLA+
models of the ones with behaviour that is hard to test, the TLC configurations that check
them on small instances, and TLAPS proofs. `PROJECT.json` maps every definition to the
source lines it models and lists the runs, hazards, findings and theorems.

## 1. Inventory

### gstreamer-multithread-pipeline (`gstpipe`)

Camera -> tee -> H.264 encoder / raw branch; two appsinks push into two `FrameQueue`s; an
RTSP server feeds the encoded queue to its clients, a second thread drains the raw one.

| Component | State | Operations | What makes it correct |
|---|---|---|---|
| `FrameQueue` | deque, `closed_`, three counters, one mutex, one condition variable | `push` (drops the oldest when full), `pop` (blocks), `try_pop`, `close` | the queue is the newest frames in order; no lost wake-up; `close` ends every consumer |
| `LatencyTracker` | ring, cursor, total, sum | `add`, `snapshot` | the ring is the latest window; extremes, mean and percentile are those of the window |
| `Pipeline` | GStreamer graph, two queues, bus watch | `build`, `start`, `stop`, two appsink callbacks, `on_bus_message` | streaming threads are quiet before the queues go; both queues are closed |
| `RtspServer` | server, `appsrc_` under a mutex, atomics `running_`, `feeding_`, `served_`, feeder thread | `attach`, `shutdown`, `media-configure`, `need-data`, `enough-data`, `feeder_loop` | references to the appsrc are exact; frames in order; back-pressure works; `shutdown` releases all |
| `main` | `run`, two threads, the GLib loop | start-up, signals, teardown, exceptions | every join returns; nothing is destroyed under a thread that uses it |

Interactions: GStreamer streaming threads call the appsink callbacks, which push; the
feeder pops and pushes into the appsrc, which may call `enough-data` back in the same
thread; gst-rtsp-server threads run `media-configure` and `need-data` at any time; GLib
signal and bus callbacks quit the loop. Hard: all interleavings of these, notifications sent
outside the lock, media replaced under the feeder, and exceptions half-way through start-up.

### zero-copy-v4l2-capture (`zcv4l2`)

| Component | State | Operations | What makes it correct |
|---|---|---|---|
| `V4L2Capture` | descriptor, mapped slots, dmabuf descriptors, `streaming_`, last sequence number, statistics | `open`, `start`, `next`, `release`, `stop`, `close` | a held frame is not overwritten; drops are counted exactly; everything is given back on every path |
| `main` | loop count, `g_stop`, output file | capture loop, signals, destructors | every buffer circulates; a signal ends the program |

The driver runs concurrently: it fills, loses and corrupts frames, fails calls, is unplugged.

### edge-ai-detector-tensorrt-ros2

| Component | State | Operations | What makes it correct |
|---|---|---|---|
| `GstSource`, `Frame` | pipeline, appsink, one mapped sample | `start`, `stop`, `next`, `release` | every sample returns to the pool; frames are fresh |
| `TrtEngine` | bindings, device memory, CUDA stream, host copies | `load`, `infer`, destructor | results belong to the frame; device memory is freed |
| `DetectorNode` | worker thread, `stop_`, ROS context | `run`, destructor | all exits clean up; the process ends |
| `YoloPostprocess` | none | letterbox, decode, unletterbox, NMS | the right candidates are kept whatever the order of equal scores; boxes come back to the camera's pixels |
| `SocketCanPublisher` | socket | `open`, `publish` | a receiver can put the frames of a set together |
| `BenchmarkTrace` | five rings, CSV | `open`, `record`, `summary` | all stages are about the same frames; quantiles of the window |
| `Int8Calibrator`, `build_engine` | file cursor, cache and engine files | batches, cache read and write, build | a table comes from every readable image, each once; what a killed build or a full disk leaves is never a mixture |

The worker, the executor and the GPU run concurrently; every call may throw.

### The smaller programs

* `vcan-socketcan-telemetry-bridge`: `can_tx` (drive-cycle simulator), `can_rx` (filter,
  decoder, alerts) and the big-endian codec they share. Correct when what is decoded is what
  was meant, to the resolution of the signal, and the alerts are those the signals deserve,
  although other nodes use the bus and frames are lost.
* `i2c-sensor-kernel-driver`: a BMP280 driver; `probe` with its failure paths, sysfs reads
  under a mutex, `remove`. Correct when a read returns one consistent sample that is no older than
  the call, and a failed transfer blocks nobody.
* `uboot-fast-boot-gpio`: the `diag` command, the status LED hook and the boot environment.
  Correct when the memory walk is right about the memory and leaves it as it was, and the LED
  says what the boot script means it to say.
* `yocto-meta-custom-bsp`: build recipes and a daemon that logs three numbers; nothing to model.

## 2. Modules

| Module | Models | Used by |
|---|---|---|
| `DropOldestBuffer` | what a `FrameQueue` promises: a window of the newest frames | refinement target of `FrameQueue` |
| `FrameQueue` | `frame_queue.hpp`, one step per critical section and per notification | `FrameQueueProofs`, `MCFrameQueue` |
| `FrameQueueOps` | the queue as a value with one operation per call | `Pipeline` |
| `Pipeline` | `pipeline.hpp/.cpp` | `RtspServer` |
| `RtspServer` | `rtsp_server.hpp/.cpp` and the library around it | `RtspFeeding`, `GstPipe` |
| `RtspFeeding` | the server fed by a playing pipeline, attached and shut down by an owner | `RtspResume`, `MCRtspFeeding` |
| `RtspResume` | `RtspFeeding` with a record of the frames skipped after `enough-data`; it adds two history variables and no step | run `rtsp_keyframe` |
| `GstPipe` | `main.cpp`: the whole program | `MCGstPipe` |
| `SortedValues` | what `std::sort` leaves in a vector of numbers | `LatencyTracker`, `BenchmarkTrace` |
| `LatencyTracker` | `latency_tracker.hpp` | `MCPrograms` |
| `V4L2Capture` | `v4l2_capture.hpp/.cpp` and the driver | `CaptureClient`, `ZcV4l2` |
| `CaptureClient` | any client that keeps to the interface of `v4l2_capture.hpp` | `CaptureProofs`, `MCCapture` |
| `ZcV4l2` | the capture program | `ZcV4l2Proofs`, `MCCapture` |
| `GstSource`, `TrtEngine` | `gst_source.*`, `trt_engine.*`, the appsink and the CUDA stream | `DetectorNode` |
| `SocketCanPublisher` | `socketcan_publisher.*`: the socket and the sets of CAN frames | `DetectorNode` |
| `DetectorNode` | `detector_node.cpp`: worker, executor, destructor | `MCDetector` |
| `BenchmarkTrace` | `benchmark.hpp`: rings, CSV file, summary | `MCDetector` |
| `YoloPostprocess` | `yolo_postprocess.*` and `letterbox_bgr_to_nchw` of `detector_node.cpp` | `MCDetector` |
| `EngineBuilder` | `build_engine.cpp`, `int8_calibrator.*` and the disk they leave behind | `MCDetector` |
| `CanBridge` | `can_common.h`, `can_tx.c`, `can_rx.c`, the bus between them | `MCPrograms` |
| `Bmp280` | `bmp280_simple.c`, the sensor and the driver core | `MCPrograms` |
| `UbootDiag` | `cmd_diag.c`, `status_led_init.c`, `uEnv.txt` on a board with faults | `MCPrograms` |
| `FrameQueueProofs`, `RtspServerProofs`, `RtspFeedingProofs`, `GstPipeProofs`, `CaptureProofs`, `ZcV4l2Proofs`, `DetectorProofs`, `ProgramProofs` | theorems and proofs (section 5); each extends the modules it is about | |

`MCCapture`, `MCDetector` and `MCPrograms` each put into one run several subjects that run apart: any client of
`V4L2Capture` and the capture program; the node, its post-processing, its statistics and its builder; the small
programs and the latency ring. The variable `subject` chooses one in the initial state and the others
rest, so the state space is the sum of theirs.

Variables carry the names of the members they stand for; variables whose comment says
*external* stand for GStreamer, the kernel driver or the GPU; *history* variables only serve
properties. Frames are numbers in the order of capture: payloads, formats and log lines are
left out.

**Numbers.** `YoloPostprocess` computes in integers of a unit fine enough to be exact (half pixels for
the network, 1/(4 num) pixel for the camera where the scale is num/den, tenths for scores), so it
says what the formulas do and not how float rounds. `CanBridge` has physical values in thousandths of
their unit and bytes modulo 256. `Bmp280` writes `>>` as division that rounds down; for the words of
the instance every product stays below 2^31. A truncated floating product (`size * 0.95`, `* 0.9`) is
integer division: it agrees for the window sizes of the instances, and the theorems are about it.

**Grain.** In `FrameQueue` a step is a critical section, or the notification that follows it
after the unlock; the wait of a condition variable is entered atomically with the release
of the lock and may end spuriously. `FrameQueueOps` merges a critical section with its
notification, so that `pop` is enabled when its predicate holds; this is what `NoLostWakeup`
and the liveness properties of `FrameQueue` justify; that its operations are the steps of
`DropOldestBuffer` is proved (`OperationsAreBufferSteps`). In `RtspServer` every atomic load and
store, every locked block and every emission of a signal is a step of its own. A method of
`V4L2Capture` is one step, since one thread uses the object and the driver only meets it at
system calls; partial failures are alternatives of the step that leave what the code leaves.

**External assumptions.** appsrc with `block=false` queues a buffer even when it is full and
emits `enough-data` from `push-buffer`; a media that is unprepared flushes its appsrc and
gst-rtsp-server drops its references later; callbacks into `RtspServer` end with the object;
`set_state(NULL)` waits for the streaming threads; `VIDIOC_STREAMOFF` takes every buffer off the
driver's queues and sequence numbers restart with `STREAMON`; poll on a stream without
queued buffers reports an error; work on a CUDA stream is done in order and `cudaFree` waits for
it; rclcpp's signal handler makes `rclcpp::ok()` false. The kernel removes sysfs attributes, and waits for
the calls inside, before it calls `remove()`; a burst read of the BMP280 shows one conversion; a failed
binding frees `d`. `signal()` makes `read()` restart. TensorRT asks for the cache before it asks for batches,
and computes a table from the batches it was given.

## 3. Runs

| Run | Shows | Bounds |
|---|---|---|
| `queue` | `Window`, `WakeupsCoverFrames`, `NoLostWakeup`, `FreshInOrder`, refinement of `DropOldestBuffer`, `EveryFrameLeaves`, `CloseEndsConsumers` | 2 producers, 3 consumers, 2 closers, capacity 2, 6 frames: overflow, several sleepers, crossing notifications |
| `rtsp_feeding` | `AppsrcRefsExact`, `OneDeltaPerOpening`, `FedInOrder` | 4 frames, queue of 2, appsrc of 1, 2 media: eviction, skipping and replacement of a media all happen |
| `gstpipe` | `JoinedBeforeDestroyed`, `ReleasedAtExit`, `TeardownCompletes` | 1 encoded sample without timestamp, 2 raw, queues of 1, 1 media, every start-up failure (132,539 states) |
| `capture` | any client: `DropsCounted`, `ClosedMeansReleased`, `HeldFramesStable`; the program: `AllBuffersCirculate`, `LeavesNothingBehind`, `SignalEnds` | 2 buffers with dmabuf export, 6 frames, sequence numbers modulo 4, so that the wrap is met; `start()` also while streaming; 2 frames to grab (510,582 states) |
| `detector` | the node: `DetectionsMatchFrame`, `SamplesReturned`, `PulledFresh`, `WorkerLeavesNothing`, `CanSetWellFormed`, `ProcessEnds`; post-processing: `DecodeCorrect`, `BoxClipped`, `PixelMapsBack`; `SummaryExact`; the builder: `TableExact` | 5 frames, four shapes of engine, every failure; a byte of 4 values and up to 5 detections, so that the cap of a CAN set is reached and passed; up to 3 candidates out of 9 (overlapping, over every edge, equal scores, every side of the thresholds), 4 camera shapes, one of them scaled down strongly, both layouts, with and without objectness; a window of 11 and 18 frames, so that the rings turn; 2 builds, batches of 2, directories of 0 to 5 files (224,954 states) |
| `programs` | `ReadsOneConversion`, `EveryReadReturns`, `WalkHonest`, `DecodedIsSent`, `RingHoldsLatest`, `SnapshotExact` | 2 readers, 2 conversions, 2 bindings; 3 words with every wiring and every stuck cell, 2 typed commands; 2 ticks, 2 frames of other nodes out of 5, a socket of 2; a window of 21 and 36 samples: the ring turns, every fill level up to and past 20 (377,630 states) |

`gstpipe` types the variables of the GStreamer modules, `capture` those of `V4L2Capture` and `queue` its
own; the other modules are untyped beyond what their properties say.
For the two kinds of ring two values suffice, as a percentile only compares; histories that fall at most once
suffice because `snapshot` and `summary` sort, so every window still occurs (`FallsOnce`, a guard of the MC modules). The words of the
memory walk are independent but for the cell they share, so three words meet every case of two
addresses on one cell with one between, before or behind them. `SocketRoom = 2` lets frames be lost.
Deadlock is checked in every run but those of `MCPrograms`, whose programs end or whose callers stop
calling; elsewhere an ended process, or a computation that is done, stutters explicitly.

Six runs show that the code does not do what a comment or a document says (`findings` in
`PROJECT.json` has the lines):

* `rtsp_keyframe`: after back-pressure the feeder does not wait for a keyframe. It skips delta
  frames while the gate is closed and resumes with whatever frame comes when it opens. Only gaps that
  follow an `enough-data` count, and none while `on_media_configure` runs, where the gate is closed for another reason.
* `rtsp_bounded`: keyframes pass the closed gate, so the appsrc of a client that does not pull grows.
* `capture_restart`: `stop()` does not re-queue the buffers, so a restart streams nothing.
* `builder_cache`: `--int8` without `--calib-dir` "relies on" a cache that nobody reads.
* `latency_mean`: the mean of a snapshot is over the lifetime of the tracker, not over its window as the header
  and the README say. (`RollingStats` computes its mean likewise and promises nothing about it.)
* `redline`: `can_tx.c:85` clamps RPM to 4095.75 (`16383 * RPM_SCALE` is a quarter of the field), so
  `--redline` trips the coolant alert only. The property asks for both alerts from a throttle of 78 % on, the
  one of the README's example, and only while no other node sends.

Smaller disagreements between comments and code that were met while modelling and have no run of their own:

* After a refused attach `shutdown()` returns at its first line and leaves the server
  (`rtsp_server.cpp:42,53`; `rtsp_server.hpp:43` says it releases it). `ReleasedAtExit` names the exception.
* `env/uEnv.txt:21` says that `preboot` turns the LED off just before the kernel gets control, and the README of
  `uboot-fast-boot-gpio` (84-85) that it blinks right before `booti`. `preboot` runs before `bootcmd`, which switches
  the LED on, so the kernel starts with it lit; it is off only when `mmcboot` is run by hand after the blink
  (`DiagLedOn`, `PromptBoot`).
* `cmd_diag.c:43` drives a GPIO that is busy all the same, and frees it although another driver requested it.
* `can_tx.c:87` truncates the metres of each tick, at 10 Hz most of them.
* `can_rx.c:72` handles `EINTR`, but `signal()` makes `read()` restart: on a silent bus a signal ends
  `can_rx` only with the next frame (state `"signalled"`).
* `yolo_postprocess.hpp:45` says an unknown class is "id:N"; `coco_label` returns "unknown".
* `nms()` with `max_out` 0 keeps one box: the limit is tested after the first is pushed.

`WorkerLeavesNothing` states the one thing the detector may leave behind: the device memory of a tensor
for which `setTensorAddress()` failed, which is allocated but not yet in `bindings_`
(`trt_engine.cpp:111-116`).

**Limits of some properties.** `DropsCounted` allows an undercount for a
gap that contains the wrap of the sequence number, which the `>` of `next()` misses. `FedInOrder` is
checked for an encoder whose samples all carry timestamps; a mix makes the code fall back to the
wall clock. `DetectionsMatchFrame` treats the decoded detections as a function of the host copy;
`DecodeCorrect` is about that function. `BoxClipped` allows a box that begins left of or above the frame
to keep its size, which makes it cover more than its visible part. `PixelMapsBack` bounds the way back by
half a pixel of the frame before and one behind, and by half of what is cut off where rounding lets the last
row or column of the resized image reach over the edge of the frame. `TableExact` demands
the whole table of a build that calibrates, and of a build that reads a cache whose write was not cut short by a
kill or a full disk; of a cut one it demands that it is the beginning of one table, since the next build
takes it as it is. It allows the table of an older directory. `DecodedIsSent` compares with what the drive cycle and `--redline` ask
for, and shows an engine speed above the clamp as the clamp; alerts are counted from the unclamped
signals, which stay below 6500 rpm in any case (`redline`). `CanSetWellFormed` says nothing of a set that a failed write cut short but that its
frames still announce the whole. `publish()` also returns when the frame has no pixels
(`socketcan_publisher.cpp:56`); the caps of a raw sample describe none, and it would send nothing. A `spin()` that is
entered after the worker has shut ROS down is taken to return at once, as its loop tests `rclcpp::ok()` first.
`CaptureClient` calls `start()` in every open state, also with `streaming_` left true by `close()`.

## 4. Fairness

* `FrameQueue`: weak fairness of each pending notification and of each consumer's `pop`: the
  sections under the mutex are short and the scheduler runs every thread; both consumers of the
  program call `pop` in a loop. Producers and closers owe nothing.
* `GstPipe`: weak fairness of `main`, of a callback that has begun, of the feeder, the raw consumer
  and the reporter. Cameras, clients, signals and bus messages come when they like or never.
* `ZcV4l2`: weak fairness of `main`, justified by the time-out of `poll`. The driver owes nothing.
* `Bmp280`: weak fairness of each reader inside a show function, strong fairness of its `mutex_lock`: the
  kernel's mutex hands over to its longest waiter, so a reader is not overtaken for ever. A
  transfer ends, with data or an error. New reads, conversions, bindings and removals owe nothing.
* `DetectorNode`: weak fairness of the worker (pulls time out after 500 ms), of `main` and of the GPU.

## 5. Proofs

Every safety property that a passing run checks, invariant, action property or refinement, is proved with
TLAPS for all values of the constants; the runs check the same definitions on small instances. `InvariantHolds` (`Invariance` for the
queue) states the inductive invariant of each module.

| Module | Theorems (the property each states) | From the assumptions |
|---|---|---|
| `FrameQueueProofs` | `TypeCorrect`, `WindowHolds`, `WakeupsCoverFramesHolds`, `NoLostWakeupHolds`, `FreshInOrderHolds` (action property), `Refinement` (of `DropOldestBuffer`), `OperationsAreBufferSteps` (the calls of `FrameQueueOps`) | a positive capacity, finite sets of threads |
| `RtspServerProofs` | lemmas shared by the next two: `FeedInv` is kept by every step of the pipeline and the server | |
| `RtspFeedingProofs` | `RefsExactHolds` (`AppsrcRefsExact`), `OneDeltaHolds` (`OneDeltaPerOpening`), `FedInOrderHolds` | positive queue capacity, natural bounds; the last also that samples all carry a timestamp or none does |
| `GstPipeProofs` | `TypeCorrect`, `JoinedHolds` (`JoinedBeforeDestroyed`), `ReleasedHolds` (`ReleasedAtExit`) | the same |
| `CaptureProofs` | `TypeCorrect`, `ClosedHolds` (`ClosedMeansReleased`), `HeldStableHolds` (`HeldFramesStable`), `DropsCountedHolds` | at least two buffers, a counter of at least two values |
| `ZcV4l2Proofs` | `CirculationHolds` (`AllBuffersCirculate`), `NothingLeftHolds` (`LeavesNothingBehind`) | the same, and the options that exist |
| `DetectorProofs` | `DetectionsMatchHolds`, `SamplesReturnedHolds`, `PulledFreshHolds` (action property), `NothingLeftHolds` (`WorkerLeavesNothing`), `CanSetHolds` (`CanSetWellFormed`); `PixelMapsBackHolds`, `BoxClippedHolds`, `DecodeCorrectHolds`; `TableExactHolds` | engines are sequences of inputs and outputs, a byte has at least two values; frame and input have pixels, scores and objectness are between 0 and 1, boxes have no negative size, at least one class and one detection; a positive batch |
| `ProgramProofs` | `ReadsOneConversionHolds`, `WalkHonestHolds`, `RingHoldsLatestHolds`, `SnapshotExactHolds`, `SummaryExactHolds`, `DecodedIsSentHolds` | the sensor's words have 20 bits; at least one word; a positive rate, the ranges of the drive cycle, telemetry of other nodes on the grid of its encoding; positive windows |

**The arguments.**

* `FrameQueue`. `NoLostWakeup` alone is not inductive: one notification may be spent on a consumer
  whose frame another one took, so it must be counted that the pending notifications and the woken
  consumers together are as many as the frames (`WakeupsCoverFrames`). For the count to
  move by one when a sleeper is woken, a thread must not be asleep and woken at once (`Apart`);
  `CloseWillNotify` is the same argument for `close()`. `TakenLeft` ties the delivered frame to the
  window for `FreshInOrder` and the refinement.
* `RtspServer`. `FeedInv` counts, at each program counter of the feeder and of each media, who owns a
  reference to which appsrc, and says what the gate promises while a push is on its way. It mentions no
  variable of the owner, so `RtspFeeding` and `GstPipe` share its lemmas. `FedInOrder` needs `TimeInv`
  besides: where a frame's timestamp comes from and that it is never below the base.
* `GstPipe`. `Control` says for every label of `main` which threads live, whether the graph and the server
  exist and who may still touch them, in the normal teardown (`Workers`, `Server`, `Graph`) and after an
  exception (`Unwound`).
* `V4L2Capture`. `Recorded` (the slots are what the kernel holds) gives `ClosedMeansReleased`; `Owners` (each
  buffer has at most one owner) gives `HeldFramesStable`. `DropsCounted` needs `Numbered`: the sequence numbers
  from the last dequeued frame through the filled buffers to the camera are apart by the frames lost
  between them, modulo the range of the counter.
* `DetectorNode`. `Computing` says that the work left on the stream, with the copies already done, ends
  with the frame's result in every output, so that the synchronisation finds it there. Which tensors are
  outputs is a recursive function over the engine's tensors: `LeastNumber` and `Induction` derive
  induction over the naturals, for a set instead of a predicate, from the well-foundedness theorem.
* `Bmp280`. `Fresh(r)`: the words that a reader has fetched are a conversion since its call began. The
  history is reset only while the device is unbound, and then nobody is inside.
* `UbootDiag`. After the first loop a word reads as the pattern of a word at or behind it (`Marked`), until
  the second loop restores its cell. So a word that reads as its own pattern shares its cell with no later
  word, and with no earlier one because those were alone (`Checked`). That all words alone
  means no cell is stuck, and that all words restored means all cells restored, is the pigeonhole principle.
* `LatencyTracker`, `BenchmarkTrace`. One set of lemmas is about a ring that holds the latest of a history: each
  slot's position is a multiple of the window plus the slot, and the sample that becomes too old is the one in
  the slot that is written. Slots and positions correspond one to one, so the ring and the latest part of
  the history have as many values above, or at, any bound (`RingCounts`); position k of the sorted ring has the
  value that its rank demands (`SortedRank`), and a quantile is arithmetic on that rank.
* `YoloPostprocess`. The letterbox is arithmetic with a symbolic scale, with its quotients named. `TensorRead` says
  that the tensor, in either layout, reads back as the candidates found. What the decode loop and the pass of
  `nms` end with is shown by induction over their turns: the accepted candidates, each once and in order; and,
  for the pass, that every box so far is kept, removed by a kept one at least as good, or came after the
  limit was reached. The order of equal scores is any order the sort may leave.
* `EngineBuilder`. While TensorRT calibrates, the batches joined are the images of the readable files before the
  cursor (`Calibration`). A batch takes the readable files up to where it stops, and an empty one means that none is
  left (`BatchTaken`, by counting file by file); the images of consecutive sets of files are consecutive
  (`ImagesJoin`, by ranks). `Tables` carries this through the cache file and the
  generations of the directory, and a part of it through every write that is cut short (`PartOf`).
* `FrameQueueOps`. A queue value is what is left of the accepted items; each call changes it as the step of
  `DropOldestBuffer` changes `first`, `last` and `closed`.
* `CanBridge`. Every frame that can wait in the socket decodes to its signals, up to the clamp (`FramesFaithful`), from the
  arithmetic of the bytes and of the rounding. Alerts agree because the drive cycle stays away from the
  thresholds: the coolant is at most 98 or at least 117 degC. For a temperature between 110 and 110.5 degC
  the printed value, rounded down, would miss the alert; the code cannot send one.

**What the proofs changed.** Four statements were true only of the checked instance. The patterns of the
memory walk are now behind all initial contents for every number of words. `WorkerLeavesNothing` said that
the lost memory belongs to some tensor, which is false of an engine without tensors; it now
says that at most one allocation is left. `PixelMapsBack` said that a pixel comes back to within one pixel of the
frame; where a frame is scaled down strongly the last box reaches over its edge and is cut, which
moves its centre further. A frame of that shape is now in the run. `BytesAssumption` types the
number of detections, and the assumptions of `Bmp280`, `CanBridge` and `YoloPostprocess` state the ranges of their
inputs; `max_detections` is positive because `nms()` keeps one box for 0 (section 3).
The loops of `TrtEngine.Outputs`, `DecodedBoxes` and `Pass` are recursive functions, the loop as the code has it,
instead of `SelectSeq` and folds, which the prover cannot expand; `Sorted` picks values by rank, and
`Images` numbers files by theirs.

**Only model-checked.** Liveness (`EveryFrameLeaves`, `CloseEndsConsumers`, `TeardownCompletes`, `SignalEnds`,
`ProcessEnds`, `EveryReadReturns`): fairness and ENABLED are outside the prover.
The six runs that expect a violation have nothing to prove.

## 6. Not modelled

Element selection and caps negotiation of the pipelines, tensor shapes, colours of pixels, argument
parsing, logging, statistics nobody reads (`pulled_`, `drops_`, latencies of `V4L2Capture`), the fields of
ROS and CAN messages that nothing here reads back, and float rounding. The compensation of the
BMP280 is checked for the datasheet's trimming words only: other words may leave 32 bits, and their
range is not in the source. Callbacks of gst-rtsp-server after the server object is gone are a
hazard with a note. Four components have nothing to model: the logging macros of `zcv4l2`, the
detector's launch file (parameters), the Yocto layer (build metadata) and `telemetry_app` (a loop
that prints three numbers; its only state is a line counter).

## 7. Plan

All components with behaviour are modelled, and every safety property that is checked is proved. What could follow:

1. Callbacks of gst-rtsp-server that are under way when the server object goes: it needs the library's locking,
   which is not in this repository.
2. Float rounding in `YoloPostprocess` and in the percentile indices of large windows.
