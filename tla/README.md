# 8Kloud Switcher: formal models

TLA+ models of the live video switcher in `src/`, the TLC configurations that
check them, and TLAPS proofs of the safety properties those runs check, for
every value of the constants. Everything is translated from the C++ sources;
docs and tests are quoted where a property states what they promise.
`PROJECT.json` maps every definition to the lines it stands for, lists the runs,
pairs every property with a plausible bug that violates it, and lists the
hazards of the code with the properties that watch them.

## 1. The system

A switcher takes up to twenty-one inputs (OMT, SRT, media files, stills,
DeckLink SDI), composites two buses with transitions, fade to black and
downstream keyers on the GPU once per tick of the show clock, and hands the
result to OMT, SDI, SRT and recorder outputs. One *render thread* drives it;
everything else talks to it through atomics, small single-producer rings and GPU
timelines.

| part (sources under `src/src`) | state | operations | talks to |
|---|---|---|---|
| Render loop (`engine/Engine.cpp` `renderLoop`) | per-input current frame, synchroniser, tick number, values of the frames in flight, tally key | drain commands, swap inputs, tick, tally, drain feeds, present, composite, pack, submit | all below |
| Switcher core (`engine/SwitcherCore`) | buses, transition, T-bar, FTB, keyers | one method per command, `tick` | called by the render loop only |
| Command path (`ctl/ControlApply`, `Engine::post`, `uiState`) | ring of 64 commands, the mirrors of the last tick | `apply` a request, `post`, drain | control server, web server, start-up |
| Frame synchroniser (`engine/FrameSync.h`) | queue, monotonic wedge, anchor, counters | `push`, `present`, `resync` | render loop; input feed rings; upload timeline |
| Pack ring (`gpu/Compositor.h`) and senders (`out/OmtOutput`, `out/DeckLinkOutput`) | 5 slots with stamp, pin word and time | pick, stamp, release; find, pin, re-check, send, unpin | render thread, down queue, sender threads |
| SDI card frames (`out/DeckLinkOutput`) | free list, frames lent to the card, playback | open, schedule, completion, start, close | sender thread, card |
| NV12 handoff (`Engine`, `out/SrtOutput`, `out/FileRecorder`) | one buffer per frame in flight, copied values, event rings, recorder pointer and generation | pack, encode, start/stop/replace recording | render thread, encoder threads, control threads |
| Recorder and SRT mux (`out/`, `media/AacEncoder`) | packet rings, connection, retry time | encode, drain, connect, flush, write | encoder and mux threads |
| Upload ring (`gpu/UploadRing`) | slots with reference counts and last submission | acquire, submit, pin, unpin | input threads, render thread |
| Input threads (`in/`, `omt/`, `decklink/`) | connection, format, media transport | receive, reconnect, play/pause/select/loop | upload ring, feed ring, audio ring |
| Audio engine (`audio/`) | per-channel ring and alignment, two published snapshots | 5 ms mix, re-arm, trim | input threads, outputs, recorder |
| Multiview read-back (`Engine::copyMultiview`, `web/MjpegEncoder`) | three slots with stamps, the compressed picture and its number | stamp, copy, re-check, compress, send | render thread, encode thread, browsers |
| Control server, web server (`ctl/`, `web/`) | clients with in and out buffers | accept, read, apply, push state; patch inputs; OUTPUTS tab | command path, session |
| Session and show file (`app/`, `core/Ini`) | pending configuration, dirty flag, last saved state | save if changed, final save | saver thread, web thread, disk |
| Start-up and shutdown (`app/main.cpp`, `Engine::start/stop`) | which members exist, which threads run | build in order, stop in order | everything |

### What is hard, and what correct means

* **Pack ring.** Two senders, one writer, two GPU queues, no lock. Correct: a
  slot is never overwritten while it is sent; what goes out is the frame that
  was announced, with its own time, in order; the search for a slot always
  succeeds; no frame is slept through.
* **Switcher core.** Sequential, but any sequence of calls must be safe and
  ticks may be skipped. Correct: one transition at a time; a landing does to
  the keyers what the look-ahead preview promised; abandoning restores; AUTO
  ends.
* **Command path.** Requests are made on a mirror one tick old and sent later.
  Correct: every source that shows on air has been told so.
* **Synchroniser and uploads.** Sliding minimum, resynchronisation, uploads that
  lag, slots held in many places. Correct: the anchor is the window minimum;
  frames in order; drops counted; pixels stay until they are sampled.
* **NV12 handoff, recorder, SRT mux, SDI pool.** Handshakes of three threads, a
  bounded wait for a GPU that may hang, full rings, a refusing card, a peer that
  comes and goes. Correct: an encoder reads the frame it was told of, a
  recording that is stopped ends and is whole, a viewer that connects is given
  none of the backlog and nothing torn, an output recovers.
* **Inputs.** Transport controls that race the end of a clip, format changes in
  driver callbacks, reconnections. Correct: what is published is what it is
  described to be; sources settle.
* **Audio.** Two words read one after the other; a ring that is re-armed and
  trimmed. Correct: what is heard is what was published; a steady sender is not
  made to run dry.
* **Servers and session.** Clients that vanish, stop reading or send half a
  line; two savers of one file. Correct: commands in order, followers see the
  state, the file is always whole and gets every edit.
* **Start and stop.** Threads use members through plain references. Correct:
  nothing at work loses a member it needs.

## 2. Modules

| module | models | checked in |
|---|---|---|
| `FrameFeed` | what a feed promises an output (abstract) | `pack_slots` |
| `PackSlots` | render thread, GPU queues, ring and senders of one feed; implements `FrameFeed` | `pack_slots`, `pack_slots_failures` |
| `PackSlotsInv`, `PackSlotsProofs` | inductive invariants; theorems, the refinement and the capacity among them | proved |
| `SwitcherCore`, `SwitcherCoreProofs` | every method of the class and `tick`; theorems | `switcher_core`, proved |
| `EngineLoop`, `MCEngineLoop`, `EngineLoopProofs` | control surfaces, command ring, drain, input swaps, tick, mirror, tally; contains `SwitcherCore`; theorems | `engine_loop`, proved |
| `FrameSync` | `FrameSync.h` and the part of the loop that owns it | `picture_and_sound`, proved |
| `UploadPin`, `UploadPinProofs` | upload and decode rings, mailbox and feed, every holder of a frame; theorems | `picture_and_sound`, proved |
| `AudioLane`, `AudioMix` | the ring of a channel; snapshots and shares of both buses | `picture_and_sound` |
| `MediaTransport` | decode thread and transport of a media or SRT input | `input_sources` |
| `SdiInput`, `OmtReceive`, `StillLoad` | the other inputs | `input_sources` |
| `EngineLife` | main, `Engine::start` and `stop`, the threads, replaced sources | `input_sources` |
| `NvHandoff` | render thread, encoders and `requestRecordingImpl` | `output_side` |
| `RecordDrain` | a recording from its events to its trailer | `output_side` |
| `SrtMux`, `SdiPool` | the connection of an SRT output; frames lent to a card | `output_side` |
| `ControlPort` | the poll loop of either server and its clients | `control_side` |
| `InputPatch`, `OutputSettings` | patch requests of a browser; the OUTPUTS tab over `core/SrtUrl` | `control_side` |
| `MultiviewFeed` | read-back slots, encode thread and browsers | `control_side` |
| `ShowSave`, `IniDialect` | savers, file and restart; the text of the file | `control_side` |
| `RequestGrammar`, `WireFraming`, `MediaTicks` | protocol lines; HTTP and WebSocket framing; tick arithmetic | `control_side` |
| `PictureAndSound`, `InputSources`, `OutputSide`, `ControlSide` | the components of one side in one specification | |
| `MCControlSide` | the values of the run, and the texts beside the other parts | `control_side` |
| `PictureAndSoundProofs`, `InputSourcesProofs`, `OutputSideProofs`, `ControlSideProofs` | theorems about those sides; each holds the invariants of its components, but the first takes those of `UploadPinProofs` by an instance | proved |

`PictureAndSound`, `InputSources`, `OutputSide` and `ControlSide` put components
side by side whose variables are disjoint. A variable `part`, chosen in the
initial state, says which of them moves; the others stay in an initial state.
Interleaving them would multiply the states and show nothing, because they share
none; where two components do share state they are in one module (`EngineLoop`
with `SwitcherCore`, `PackSlots` with its senders, `NvHandoff` with recorder and
SRT encoder). A property of such a module is a conjunction of `part = ... => `
the property of the component, and a liveness property has the fairness of its
own component as hypothesis. These modules take the sizes of their components as
constants of their own, with one assumption that is the conjunction of the
components' assumptions; the values of an instance are in the cfg.
`MCControlSide` adds to `ControlSide` the modules that have no state: the texts,
which are checked over their enumerated inputs and not proved about.

Operators marked "Faulty variant" are plausible bugs of the code. No action uses
them; they are the variants with which every checked property is shown able to
fail, and `PROJECT.json` pairs them.

### The core

**PackSlots.** The actions are the atomic accesses of the code in their order:
the render thread's `rpc` runs *begin, scan (one slot per step), submit, pts,
stamp, release, down*; a sender's `spc` runs *wait, find, pin, check, send,
unpin*. The pin word is a record of its writer bit and reader count;
`packTryAcquireWrite` is one compare-and-swap. Submissions are records in
`renderQ` and `downQ`; a queue finishes in order and a copy waits for the render
timeline. `packDev[f]` and `packHost[s]` hold the value of the frame in a
buffer, so that a stale or foreign picture is visible as a wrong number. A
failed submission takes a unit of `failures` and is otherwise ignored, as it is
in the code (logged). A frame, its presentation time and its timeline value are
in one-to-one correspondence, so one number stands for all three. The three
feeds share one down submission per tick: when this feed was not packed, there
is one anyway if another feed was, which is a free choice.

**SwitcherCore.** One action per method. Levels and progress are multiples of
`1/Full`, durations divide `Full`, so ramps are exact. `age` replaces the
difference of `lastTick_` and `autoStart_`. `Tick(e)` renders the tick `e` after
the last one. `engagedAt` is a history variable: the target of a keyer before a
transition took it along.

**EngineLoop.** A client's request becomes a command in `Ask`, on the mirror of
that moment, and enters the ring in `Post`; another client's steps, or a tick,
come between. A full ring drops the command. `Drain` applies one command;
`RenderTick` is the rest of the iteration. `air` is a history variable: the
sources with a share of the composited frame.

**FrameSync, UploadPin.** The queue and the wedge are sets of numbered entries:
both deques are ordered by arrival, so popping at an end is a condition on
entries. A frame is its number, and a slot is pinned when a frame in it is in
`Held`, the union of the places a `shared_ptr<const GpuFrame>` is kept in.
`UploadPin` lets any uploaded frame be due, so it covers whatever `FrameSync`
decides.

**NvHandoff, RecordDrain.** One buffer per frame in flight; `render` holds the
recorder pointer from the top of the tick to its end. `Exchange`, `Bump`,
`Destroy`, `Join` are the steps of `requestRecordingImpl` and of the destructor
it runs. `RecordDrain` takes over where events are queued: the encode loop with
its bounded wait, video and audio encoders that hold a packet back or refuse a
frame, the packet rings, the mux loop and the drain. A GPU may stop for good in
the one; in the other it may lose single values, or answer after the encoder has
given the frame up. **SrtMux** drops what is queued when a viewer connects, as the
code does; no key frame is waited for, the viewer decodes from the next one.

### Inputs, audio and life

**MediaTransport.** The transport atomics are one variable each, and a request
stores them one after the other (`op` is what is left to store); the decode
thread takes them in the order of its loop, `pc` by `pc`. Times are relative:
`age` since the clip's start on the monotonic clock, `ran` without the pauses. A
packet is one video frame; audio packets, on which no property depends, are left out.
**SdiInput** has the worker, the callback thread and the card with its driver;
`StopStreams` waits for a callback in flight, which is what can deadlock with a
lock held. **OmtReceive** has the receive loop and the slots with their matte.
**AudioLane** counts chunks of 5 ms; the sender keeps its cadence within a bound,
is a little fast, or stalls. **AudioMix** keeps the two published words apart.
**EngineLife** has one input standing for all; `StartOrder` and `StopOrder` are
the statements of `Engine::start`, `stop` and the end of `main`; a thread waits,
works, and looks for a stop request, and `Uses` says which members it works with.

### Servers and texts

**ControlPort** cuts what a client sends into units (half a line, a line, a
subscription, something malformed), keeps per client the buffers of the code and
stands for either server (`web`); who connects, how much is sent and how often
the state changes is one of the bounds in `Limits`, chosen at the start.
**InputPatch** reads the specification of an input field by field, each under the
lock and in a step of its own, in the order of the web thread's conditions. **ShowSave** cuts a show down to one field of
each kind, each with its own owner; `fd` says which file an open descriptor
writes to. **IniDialect**, **RequestGrammar**, **WireFraming**,
**OutputSettings** and **MediaTicks** are operators checked over enumerated
inputs: characters, words or bytes are reduced to the sorts the code tells
apart.

## 3. Runs

| run | module, cfg | states | shows |
|---|---|---|---|
| `pack_slots` | `PackSlots` | 3.0 M | safety of the ring with the code's five slots, an OMT and an SDI sender, five ticks; `FeedSpec` (refinement) |
| `pack_slots_failures` | `PackSlots`, `PackSlotsFailures.cfg` | 86 k | a failed submission, and a ring of two so that ticks go unpacked: the newest frame is still sent (liveness) |
| `switcher_core` | `SwitcherCore` | 226 k | core safety and liveness, one keyer, two sources, durations 2 and 4 |
| `engine_loop` | `MCEngineLoop`, `EngineLoop.cfg` | 3.4 M | tally against air, two clients, four requests, ring of two |
| `picture_and_sound` | `PictureAndSound` | 1.1 M | `FrameSync` with a window of three and four arrivals; `UploadPin` with five frames and, again, with four and a failing copy; a lane of 24 chunks; the mix |
| `input_sources` | `InputSources` | 393 k | a list of three clips of which one does not open, two operations and two faults; an SDI signal with two events; OMT with two events; stills; the life of the engine |
| `output_side` | `OutputSide` | 334 k | two control threads and two recordings; four frames through rings of two with two faults; three faults of an SRT peer; a card that refuses three starts |
| `control_side` | `MCControlSide` | 198 k | two edits and a failed write with a restart; two clients for one place while the state changes twice, or one client that sends three units (`PortLimits`); four multiviews; three patch requests; three settings; all texts |
| `engine_loop_dsk_on` | `EngineLoopDskOn.cfg` | violation | finding 1 |
| `nv_handoff_stale` | `NvHandoffStale.cfg` | violation | finding 2 |
| `show_save_overlap` | `ShowSaveOverlap.cfg` | violation | finding 3 |
| `sdi_rate` | `SdiInputRate.cfg` | violation | finding 4 |

Why the bounds are enough: five ticks wrap the two frames in flight twice and
bring the five-slot ring to its tight case (with four slots TLC does find the
search failing); two slots are so few that ticks go unpacked. Four arrivals
fill, slide and expire a window of three; the time stamps step by 0 (stands
still), 1, and 3 (a jump beyond `PtsGap`). In `UploadPin` four slots keep the
proportion of the code's seven and more (retained publishes plus frames in flight); five
frames reuse a slot, three ticks reuse a place of a frame in flight, and one
failure strikes every copy and upload in turn. Two recorders and three ticks
reach every interleaving of a replacement with a tick and the reuse of a buffer.
Two clients and four requests make a stale mirror, a full ring and a swap in the
middle of a transition; two clients for one place make one that waits. Two faults
are the first and one during the recovery from it. One keyer is enough for the
core: keyers do not read each other. The tick arithmetic runs in a unit of 1000
per second over 130 ticks of rates up to almost one tick per unit, where the
roundings are as coarse as they can be. `EngineLife` keeps the frames of one
tick where the code keeps those of two: `kept` only grows by an older tick of
the same sort.

`CHECK_DEADLOCK FALSE` is set for the two `PackSlots` runs and the four composed runs: a
bounded ring stops when its ticks are rendered and everything is sent, a still
when it is published, a list at its end, a program that was quit. `switcher_core`
and `engine_loop` check deadlock.

### Fairness

* `PackSlots`: weak fairness of the render thread, of the GPU and of each
  sender. Their loops block only on timelines and never on each other's locks.
  `NewestFrameSent` is conditional on no failed submission.
* `SwitcherCore`: weak fairness of `Ticks`; nothing is assumed of the operator.
* `NvHandoff`: steps that a thread can take on its own are taken. **Nothing** is
  assumed of the GPU: `RequestsFinish` holds although it hangs. `GpuFairSpec`
  adds the GPU and is used for the counterexample `HandshakeMoves`, so the stall
  found there is not the GPU's.
* `RecordDrain`: the two threads and the destructor go on; neither GPU nor
  encoder has to.
* `SrtMux`: opening returns when the peer answers or the interrupt callback
  fires; video is pushed and seconds pass. Strong fairness of the pop that leads
  to an attempt: the encode thread does not starve the mux thread for ever.
* `SdiPool`: strong fairness of scheduling, because a tick may bring no picture
  now and then but not always; the card clocks out and completes what it plays.
* `MediaTransport`: the decode thread, the stores of a request and time.
* `SdiInput`: the worker and the callback; strong fairness of what the driver
  does while the streams run (frames, reports, quiet), since each stop disables
  it for a while.
* `OmtReceive`: connecting and sending the tally, both of which the receive loop
  tries in every turn. `StillLoad`: its one thread.
* `EngineLife`: main goes on, and a thread that was asked to stop ends its turn
  (waits are bounded by timeouts or woken by the stop). Nothing is assumed of
  the detached threads.
* `ShowSave`: ticks, the two-second timer, the saving threads and main. Nobody
  has to edit, quit or fail.
* `ControlPort`: the poll loop turns; a client that still reads does.
* `MultiviewFeed`: render thread, GPU and encode thread; strong fairness of a
  send whose socket takes it.

## 4. Findings

1. *DSK ON twice turns it off* (`ControlApply.cpp:149`): two requests between
   two ticks compare with the same mirror and post two toggles.
2. *A buffer nobody gives back* (`Engine.cpp:1103`): the tick holds the old
   recorder and the new generation, notes its push under the new one, and the
   new recorder is waited for although it was never told.
3. *An edit that is never saved* (`Session.cpp:128`): the saves of the web thread
   and of the saver thread overlap on one temporary file; the older text ends up
   on disk and the newer one is noted as saved. In such an overlap one saver can
   also rename the file the other has just truncated, so that `show.ini` is empty
   until the other has written it, and a crash in between loses the show (TLC
   finds this too, with `FileWhole` in the place of the property of that run). The
   code does not enforce that the savers take turns; `control_side` assumes it, so
   its `ShowFileSafe` and `EditsReachDisk` say nothing of an overlap.
4. *Frames described at the wrong rate* (`DeckLinkInput.cpp:242`): after a reopen
   with the seed mode the rate of the previous format stays.

### Known gaps between code and texts, without a run

Met while modelling. Where a property would be violated, its definition excludes
the case by name and says so.

* *Core.* Abandoning a transition restores a keyer that was still fading from its
  level and not its target (`SwitcherCore.cpp:127`, against
  `docs/design-dsk.md:148`). A keyer tied while AUTO runs is previewed as toggled
  and lands as it is (`SwitcherCore.h:95`).
* *Feed.* A render submission that fails is logged only: the previous contents of
  the pack buffer go out under a new value, and after two in a row the render thread
  can wait for a value nobody signals (`Engine.cpp:1172`).
* *Recorder.* Clearing what was pushed on a new generation lets a buffer be packed
  while an old recorder's encoder reads it (`Engine.cpp:1107`,
  `docs/design-recorder-media.md:34-35`). The last partial AAC frame is lost in
  the drain.
* *Media.* A pause that arrives while a clip is opened is played through
  (`SrtInput.cpp:186`, `677-690`); PLAY between the two stores at the end of a
  list is lost (`315-316`); a step between the exchange of the selection and the
  store of the index starts from the old item (`664-666`); PLAY after NEXT at the
  end overwrites the selection.
* *OMT.* Dropped frames count as bad cadence and can switch to synthesised time
  stamps.
* *SDI output.* Four refused starts in a row use the preroll up: playback never
  starts (`DeckLinkOutput.cpp:435`). Frames are never repeated, as
  `DeckLinkOutput.h:39-41` says they may be; skipped ticks shift the sound.
* *Detached sources.* A replacement attaches the new source to the audio lane
  before the old one has stopped (`Engine.cpp:822`, `856`): the chunk the old one
  is working on and the first of the new one may be written at once, into a
  single-producer ring (`audio/AudioRing.h:19`) and one scratch buffer.
  `Engine::stop` waits for no replaced source; one that is
  still closing may use the mixer's lane or the device when they are gone, and
  its receiver outlives the senders (`Engine.cpp:856`, against the comments at
  `296-304` and `587`).
* *Audio.* The two published words can come from different ticks.
* *Patching.* A request for the delay reads the applied specification and not the
  one being opened (`WebServer.cpp:798`); replacing with the clip that is first
  already does nothing (`758`).
* *OUTPUTS tab.* A host with a slash, a second `mode=` and an unparsable stored
  URL do not survive an edit; a rate of 2^32 and more wraps (`WebServer.cpp:506`).
* *Servers.* The web server drops no slow reader (`WebServer.cpp:637`); a client
  that sends and closes at once loses its lines (`ControlServer.cpp:166`);
  `docs/remote-control.md:11-12` and `:63` promise otherwise. A head within three bytes of
  16 KiB is accepted whole and refused in pieces, and `queryParam` reads `%2B` as
  a space (`Http.cpp:57-60`, `174`).
* *Show file.* The marker `@Invalid()` inside quotes, lists that begin with `@@`,
  blanks at the end of a list item and the list of one empty text do not come
  back (`Ini.cpp:93`, `195`). The stream is checked after the write and not after
  the close (`Ini.cpp:300-302`): an error in its buffered tail goes unseen and the
  file is renamed; `ShowSave` takes a failed write to be seen.

## 5. Proofs

TLAPS checks these for every value of the constants (any number of slots, frames
in flight, senders, keyers, sources, clips, requests, places in a ring), from the
ASSUMEs of the modules only. Those are what the code has: sizes are naturals, sets
finite, durations divide `Full`, a request names what exists, a playlist is
normalised, and where a size must be large enough for the claim (slots of the
rings, prefill of a lane) the assumption says so and the text below says why.

Every safety property of the passing runs is a theorem, except two of
`control_side` that say what functions of texts compute (below); `PROJECT.json`
pairs them. The argument is always one inductive invariant per
component. What the properties lack to be inductive, and what is added, is the
content of the following paragraphs.

**Pack ring** (`PackSlotsProofs`). The inductive invariant `RingInv` is built in
layers, each using the ones below. `TypePin` (types and `PinInv`): the pin word of
a slot counts exactly the senders between pin and unpin, and has the writer bit
exactly while the render thread owns the slot; never both. That alone is not
enough: nothing yet ties the slot to a value. `OrderInv`: where each value stands
between its reservation and its timeline; per frame in flight at most one
submission is pending in each queue, which is what the waits at the top of a tick
establish. `StampInv`: a pending copy's slot carries its stamp, no two slots carry
the same one, and a sender past the re-check reads a slot still stamped with its
value, hence completed, so no copy into it is pending. From `RingInv`:

* `TypeCorrect`, `NoOverwrite`, `NoRepack`: whichever submissions fail;
* with `FrameInv` (the device buffer holds, or is about to hold, the frame whose
  copy is due; a completed slot holds the frame of its stamp) and no failing
  render submission: `Intact`, `FeedRefined` (each step of the ring is a step of
  `FrameFeed` or a stutter) and, with `PtsInv`, `PtsMatchesFrame`. The assumption
  is needed: when a render submission fails the code sends the previous contents
  of the pack buffer under the new value. Failing down submissions are allowed.

`Capacity`: with `NumSlots >= FramesInFlight + |Outs| + 1` the search for a slot
never fails. Of the slots passed, those with a value newer than what was read back
are in flight, at most `FramesInFlight - 1` of them (`FlightInv`); one can hold
the newest value read back; every other was pinned when the search passed it, by a
sender that cannot pin another old slot before the search ends (`SearchInv`: a
sender looks only for values at least as new as the ones read back when it woke).
So the search passes at most `FramesInFlight + |Outs|` slots. For the code that is
5 = 2 + 2 + 1: the "one of margin" of `Compositor.h:36` is not spare but needed.

**Switcher core** (`SwitcherCoreProofs`). `CoreTypeCorrect` needs
`OneTransition`'s conjuncts as part of the invariant (a level stays in range only
because a riding keyer's alpha is at most one, which needs `age < transDur` on the
branch taken). `OneTransitionAtATime`, `LandingKeepsPromise` and
`AbandoningRestores` follow from it.

**Command path** (`EngineLoopProofs`). `LoopInv` joins the core's invariant, taken
by instance, with what travels between the threads (`Surfaces`: the ring, the
commands in hand and the mirror hold nothing but commands on existing inputs and
keyers and mirrors of some core) and with `TallyInv`: there was no tick yet and
nothing shows, or the key of the last tick is known, every input was told what
that key says, and the frame showed no more than it. `TalliesCoverAir` alone says
nothing of the key, and an input is told again only when the key changes.
`AirIsTold` then holds for any number of clients, requests and replacements
between two ticks.

**Frame synchroniser** (`PictureAndSoundProofs`). That the anchor is the least delay of
the window is not inductive: when the head of the wedge expires the next one has
to be right. `WedgeOK` says that the wedge is a part of the window, rises strictly
from entry to entry, and has for every frame of the window an entry as late and at
most as large. `QueueOK`: the queue is the last frames that arrived, without a
gap, newer than what was presented, all of the window. `Counts` relates the
statistics on display to those of the schedulers there have been. From these
`AnchorCorrect`, `NoneOverdelayed`, `DropsCounted`, and the action properties of
`SyncSteps`: only a counted resync steps a locked schedule, frames go on air in
order, counts never go down.

**Uploads** (`UploadPinProofs`). `PinInv`: a frame that is held or being uploaded
is the last one submitted to its slot, no such frame is in the slot being filled,
and an image is what was submitted unless the upload is in flight or failed;
acquire's tests of pins and timeline are exactly what keeps this. `PixelsIntact`
follows for any number of slots, rings, holders and failures. `DropsMeanBehind` is
a count: when no slot is free, each has as its last submission a frame retained by
a tick in flight, one newer than all that is retained, or an older one that only
the mailbox keeps. Frames of different slots differ. Without the last kind, at
most `FramesInFlight` of them are retained and so at least `NumSlots -
FramesInFlight` are newer than what the screen has come to. With it, all lie among
the retained ones and the last `Keep` published, which have one in common: fewer
than `FramesInFlight + Keep`, and `SlotsEnough` says there are that many slots.
`OrderOK` (what may come is newer than what was shown) and `PlacesOK` (rings and
slots in order) carry the proof, and `PictureGoesForward`.

**Picture and sound** (`PictureAndSoundProofs`). The two modules above by
instances, and two more invariants. A lane that plays and whose sender has kept
its cadence has `fill + backlog >= Prefill`: what is missing in the ring is what
the sender may hold back, and `CadenceAssumption` says that the prefill covers
that. The mixer reads two words that may come from different ticks; at each step
what it has read was on air since the chunk began (`maybe`), and what was on the
buses throughout (`surely`) is among it.

**Outputs** (`OutputSideProofs`). Handoff: *the SRT encoder reads the frame it was
told of* needs, for every event in its ring and the one in hand, that the buffer
is noted as pushed, that its value is in the buffer or about to be, and that no
other pack into that buffer is under way (`Promises`); the copied and pushed
values then keep the ring from overflowing, whichever recorders are started,
stopped and replaced. *No work for a retired recorder* needs that the one thread
that retires it has taken it out of the slot and that a tick which still holds it
is waited for (`LifeInv`, `RequestInv`). Pool: a frame is in one place, and from
the opening to the stop in some place. Mux: packets of before the connection exist
only between handshake and flush. Recording: `LineInv` puts the packets of a
stream on one line (event ring, hand, encoder, packet ring, file), in order within and
between the stages, and with the lost ones they are those made; `EndInv` says what
is empty when the destructor and the threads have got so far. A recording that was
stopped is then the whole line.

**Inputs and life** (`InputSourcesProofs`). Media: a frame past the trims lies
between those of the file that is open, which is the item the list is at
(`FileInv`); the clock of a clip runs no faster than its playing time, nor does
the age noted at a pause (`ClockInv`), so no frame is early. SDI: format and rate
are stored while the streams are stopped, when no callback is in flight, and a
callback carries the mode the card runs in. OMT: a slot marked opaque has an
opaque matte in its plane. Still: the packets that exist never exceed those of the
picture. Life: main's place in its order determines what is built, a thread that
is not a replaced source runs only while its member exists, and the last source is
given up at its place (`LifeInv`); so `MembersOutliveUsers`, and receivers live
inside the senders' lives, for any number of sources and any members left out.

**Between an operator and the engine** (`ControlSideProofs`). `SideInv` joins five
invariants; the parts share no variable, so whichever moves, the others keep theirs.

* Show file (`SaveInv`, for `ShowFileSafe`). A saving thread holds the beginning of
  some state that an engine could be in (`ReadSoFar`), complete before it opens a
  file; what is in the temporary file when it is renamed is what that thread read
  (`SavedInv`), and the state noted as saved is on the disk until the next rename.
  `OneSaves` is where the web thread and the saver taking turns is used; without it
  `show_save_overlap` is the counterexample. For the exit, `LastInv`: once nothing
  is left to apply, what main reads is the state that stays. That a file reads back
  as the show that was written (`LoadsWhole`, `ListReadsBack`) is about a fold over
  a list of any length: the first section of the module derives from the library's
  well-founded order on finite sets that `FoldLeft` is the recursion it stands for
  (`FoldExists`), which needs no induction theorem with an operator as parameter.
* Servers (`PortInv`, for `CommandsInOrder`). What was applied says nothing of what
  is on the wire. `Chain` numbers everything a client ever sent in one line: the
  applied commands, half a command held back in its buffer, the units on the wire,
  and what it sends next; at every cut it is known whether half a command is out.
  It holds until the client is doomed or gone, after which nothing is applied.
* Patching (`PatchInv`, for `CalmRequestsKeepSource`). `CalmSoFar` says of each
  request and each field it has yet to read that, if nothing else is on its way, what
  it read is what is there, so the source it would post is the one asked for; and a
  delay request has read a list only after it read that the input is a player.
* Multiview (`BrowserInv`, for `MultiviewIntact`). A slot holds the last tick drawn
  into it (`PixelsInv`), and bears the stamp of the last tick recorded into it before
  that tick is drawn (`TicksInv`). A copy whose stamp still reads the same after
  it was taken was therefore overwritten by nobody (`CopyInv`): both halves are of
  the tick asked for. `ShownInv` carries that, and the order of ticks, through the
  encode thread and the send.
* OUTPUTS tab (`OutputInv`): the show format that is kept can always be started.

`NoRepackBeforeCopy`, `PtsIsCompositeTick` and the type invariants of `PackSlots`
and `SwitcherCore` are proved and therefore not run again.

Stay with TLC:

* all liveness (`NewestFrameSent`, `RampsEnd`, `MediaGoesOn`, `SourcesSettle`,
  `RecordingsStop`, `OutputsRecover`, `EditsReachDisk`, `ViewersCatchUp`, and
  `Life!StopEnds` within `SourcesSettle`): the prover handles no ENABLED and so no
  fairness;
* `TextsMeanWhatTheySay` and `FieldsSurvive`: what the parsers and writers of the
  texts and of an SRT address compute is an induction over what they are given (and
  `WireFraming` has RECURSIVE operators, with which the prover loses its SMT
  backend);
* the runs that expect a violation.

## 6. Plan

1. `FieldsSurvive` as a theorem: that `Parse` after `Compose` is the identity on
   addresses without the excluded cases, by the argument of `FoldExists`.
2. A bounded-queue specification and `core/Spsc.h` as its implementation.
3. The arithmetic of the mixer (pan, limiter, delay lines) over small samples.

## 7. Not modelled

JSON, fonts, logging, statistics, SHA-1 and base64; shaders, sample and pixel
arithmetic; the wrappers of NVENC, FFmpeg, CUDA and Vulkan set-up, whose state is
that of the wrapped library (timelines and queues are modelled as the code uses
them); the browser page, the Companion module, tools and packaging. Inside the
modelled parts: memory orders weaker than the acquire/release pairs used, the
clean recorder (the same code on buffers of its own), delay averages and repeat
statistics of the synchroniser, the static pages and documents of the web server,
argument parsing, and the fields the core passes on unread.
