# A formal model of rtimv

rtimv shows images as they arrive: from FITS files, from shared memory, from a
milkzmq stream. It runs either in one process, or split into a server that
reads, calibrates and renders, and clients that ask for rendered images over
gRPC. These modules model the parts of that system whose correctness depends on
the order in which threads, events, messages, timers and the operator take their
turns; TLC checks them on small instances and TLAPS proves the main results for
every instance.

## 1. The system

### Components

| Component | Source | State | Operations | What makes it correct |
|---|---|---|---|---|
| Image stream of a client, on the server | `server/rtimvServerThread.*` | `m_pendingImageRequests`, `m_responseDirty`, `m_responseSerial`, `m_servicePendingScheduled`, `m_activeRpc`, the image | `newImagePleaseReactor`, `enqueueImageRequest`, `prunePendingImageRequests`, `servicePendingImageRequests`, `markResponseDirty`, `OnCancel`, `OnDone` | each call is answered once; a ready image reaches a waiting call; a reply is as new as its serial |
| Client table of the server | `server/rtimvServer.*` | `m_clients`, `m_lastRequest`, `m_asleep`, `m_configured`, `m_activeRpc`, the Qt event queue | `Configure`, `doConfigure`, the prologue of every RPC, the cleanup loop, `sleep`, `wakeup` | one stream for each client, none leaked; a deleted one is met by no call that found it before its end was decided; `Configure` returns; sleepers wake |
| Connection of the client | `server/rtimvClientBase.*` | `m_connected`, `m_connections`, the handshake, the window of calls, the serial filter | `reconnect`, `dispatchConnectionRequest`, `ConnectionReceived`, `ImagePlease`, `ImageReceived`, `Ping` | keeps asking; applies images in order; one handshake at a time |
| Settings of the client | the same, `rtimvServer.cpp` | requested and confirmed values, calls out, the mirror | some forty setters, their handlers and callbacks, `populateImageReply` | the last wish wins; what was queued is sent |
| Statistics intent, information, shutdown of the client | the same | `m_globalStatsDesired`.., `m_infoCache`, `m_ageSamples`, `m_shuttingDown` | `setGlobalStats`, `pollInfo`, the destructor, and their callbacks | the choice outlives connections; details are of the connection; no callback outlives the client |
| Frame loop and statistics | `common/rtimvBase.*` | images, raw and calibrated data, locks, statistics | `updateImages`, `mtxUL_changeImdata`, `mtxL_recolor`, setters | statistics of the frame shown, no deadlock |
| Playing a cube | `common/rtimvBase.cpp`, `gui/cubeCtrl.cpp` | three timers, speed, direction, the cube window | setters, timers, the slots of the window | the window shows what is played |
| Image sources | `common/images/*` | a file, a mapping or a receiving thread; counters and inode | look for, `update`, `detach`, step | what the producer wrote last is shown, within memory |
| Readout of the mouse | `gui/rtimvMainWindow.cpp` | coordinates, the value asked for, timers | mouse moves, requests, answers, frames | the value is of the pixel beside it, and not old |
| Regions, boxes of statistics and of the colour scale | `gui/rtimvMainWindow.cpp`, `gui/rtimvStats.cpp`, `librtimv/Stretch*` | items of the scene, grips, dialogs, timers | hover, drag, keys, removal | a drag keeps its anchor; nothing outlives its box |
| Zoom, control panel | `gui/rtimvMainWindow.cpp`, `gui/rtimvControlPanel.cpp` | zoom, view, pens, widgets | slots, resizes, frames | drawn for the zoom there is; the panel tells what holds |
| Text panel | `gui/rtimvMainWindow.cpp` | pages, the open page, two timers | keys, refreshes, registration by plugins | what is shown is of the open page |
| Filters, colour maps | `common/rtimvFilters.*`, `colorMaps.hpp` | none | floating-point functions and tables | |
| Plugins: dictionary, commands | `librtimv/rtimvDictionary.*`, `rtimvCommandInterface.*` | blobs with a stamp and a lock | set, get | |
| RPC interface, programs | `proto/rtimv.proto`, `rtimv/`, `rtimvClientMain.cpp`, `rtimvServerMain.cpp` | none | generated, start-up | |

(Paths are below `src/src`.)

### How they interact

The *gRPC threads* of the server run the handlers. A handler looks the stream
of its peer up in `m_clients` under a shared lock, counts itself in
`m_activeRpc`, and releases the lock before it works on the stream. `Configure`
cannot make a stream itself, because a stream is a Qt object of the main
thread: it emits `gotConfigure` and polls the table every 50 ms. `ImagePlease`
leaves a reactor in the queue of the stream and returns.

The *main Qt thread* of the server runs `doConfigure`, the image timers, and
all slots: `servicePending` answers the oldest call when the image is dirty,
`sleep` and `wakeup` stop and start the timer. The *cleanup thread* answers calls
that waited too long, puts streams to sleep and disconnects idle ones.

The *client* has one Qt thread, which runs the reconnect timer and handles
events, and gRPC callback threads, which receive completions, update the members
under several mutexes, and post Qt events. Almost every setter of the GUI is an
RPC with a deadline of two seconds; an image brings the settings of the server
back. The *GUI* is the same for the local program and the client
(`RTIMV_GRPC`), one Qt thread with timers that delay what is costly: the value
under the mouse, the boxes, the age.

An *image source* is asked by the Qt thread at every update. FITS files and
shared memory belong to other programs, which write, replace and remove them at
any time; a milkzmq source has a receiving thread of its own.

### What is hard

* Handlers, the main thread and the cleanup thread work on one queue of
  calls with three flags that are separate relaxed atomics
  (`rtimvServerThread.cpp:395-566`).
* The table is examined under one lock and changed under another
  (`rtimvServer.cpp:545-592`); signals posted to a stream outlive the decision
  that posted them.
* Replies of concurrent calls overtake each other; replies and failures of
  an old connection arrive during a new one; handlers run after the client has
  given their calls up (`rtimvClientBase.cpp:1322-2400`).
* The server forgets a client between any two steps of the handshake, and
  nothing retries from outside: each path of the client has to send the next
  request itself.
* Producers die between two looks at the disk.
* In the window, keys, buttons, timers, late answers, frames and changes of the
  image size reach the same boxes and widgets on different paths.

`PROJECT.json` lists these as hazards, each at its line, with the properties that
would catch it.

## 2. The modules

| Module | Models | In the run |
|---|---|---|
| `ServerThread` | one `rtimvServerThread`: its pending calls, instruction by instruction | `server_*` |
| `ImagePleaseService` | what a stream promises its callers: the abstract specification | `server_live` |
| `ServerRegistry` | `m_clients`, `Configure`, cleanup, sleep and deletion | `registry` |
| `ClientConnection` | the client's handshake and pulling of images, with the server reduced to a stream with a serial that may start over | `client_*` |
| `ImagePipeline` | the frame loop of `rtimvBase` and global statistics, against setters from gRPC threads | `pipeline*` |
| `ClientSettings` | how the client changes a setting, from the widget through call, handler and completion to the mirror | `client_parts` |
| `GlobalStatsIntent` | the user's choice about the global statistics, across connections and kinds of server | `client_parts` |
| `ClientInfo` | details and ages of the images | `client_parts` |
| `ClientShutdown` | the destructor of the client | `client_parts` |
| `FitsSource`, `ShmimSource`, `MzmqSource` | the three kinds of image source, with their producers | `display` |
| `CubeFrames` | which frame of a cube comes next, in unsigned numbers; used by the two that follow a cube | `display` |
| `MouseReadout` | coordinates and pixel values at the mouse | `display` |
| `CubeControl` | the timers that play a cube, the numbers of its source, and the cube window | `display` |
| `TextOverlays` | help, information and plugin pages on one panel | `display` |
| `UserItems` | the regions over the image, their grips, and the colour box, in the local program and in a client | `window` |
| `StretchGeometry` | how a drag changes a box, a circle or a line | `window` |
| `StatsDisplay` | the statistics box, its readout, dialog and button | `window` |
| `ViewZoom` | zoom, centre, pens and the widgets of the zoom | `window` |
| `PanelTools` | pointer view, target and colour scale on the control panel | `window` |
| `ServerThreadProofs`, `ServerOwnershipProofs`, `ServerRegistryProofs`, `ClientConnectionProofs`, `ImagePipelineProofs`, `ClientPartsProofs`, `DisplayProofs`, `WindowProofs` | the theorems | |
| `MCServerThread`, `MCServerRegistry`, `MCClientConnection`, `MCImagePipeline` | model values for TLC | |
| `MCClientParts`, `MCDisplay`, `MCWindow` | several modules side by side | |

The last three are *sums*: their parts do not share state in the code
(or share only what each of them models by itself, such as the connection), so a
behaviour is of one part, chosen at the start by `part`, and the others rest in
their initial state. A product would add nothing but interleavings of
independent steps. The variables of the parts carry a letter as prefix to be
told apart.

### ServerThread

A process is a handler, the main Qt thread or the cleanup thread, with a
program counter `pc`; a step is one access to a shared atomic or one mutex
operation, so every interleaving the code allows is a behaviour of the model.
`dirty`, `serial`, `scheduled`, `queue`, `mutex` and `activeRpc` are the members
`m_responseDirty`, `m_responseSerial`, `m_servicePendingScheduled`,
`m_pendingImageRequests`, `m_pendingImageMutex` and `m_activeRpc`; `posted`
counts the `servicePending` events in the Qt queue. `request[r]` is a
`pendingImageRequest` with its reactor. The pixels are a number, `painted`,
that grows with every change (`Change`): a reply is *fresh* when
its number is at least its serial. A request is *old* (`Age`) when its
timeout is over; time has no other role.

Left out: what `populateImageReply` copies from `rtimvBase`, the encoding of the
image, and log text. Atomics are sequentially consistent, though the
code asks for relaxed order.

Abstract specification: in `ImagePleaseService` a call waits until it is, in
one step, answered with an image that had been announced (`Deliver`), refused
(`Refuse`), or given up (`GiveUp`). `ImplementsService` maps the calls
without an answer to `pending` and the replies to `answer`.

### ServerRegistry

`clients` is `m_clients`; `life[t]` says how far the object `t` is
between its creation and its deletion; `age[t]` abstracts `sinceLastRequest()` to what the loop
compares it with (`client.sleep`, `client.disconnect`); `events` is the queue of
the main Qt thread, in which `gotConfigure`, `gotosleep`, `awaken` and the
deferred deletion wait in the order they were posted. `MarkStale`, `Erase` and
`Condemn` are the three parts of a disconnection, between which the lock is
free. `doConfigure` is two steps (`DoConfigure`, `ThreadConfigured`), during
which the main thread does nothing else but the other threads run. The pending calls
of a stream are a count here; their life is in `ServerThread`.

A handler keeps the object it found, `using[h]`, until `EndCall`, and uses it
without the lock (`UseThread`): the setters recolor, mark the response dirty and
post `servicePending` (`scheduled`, which stands for the event at any place of the
queue). The decision of the loop (`MarkStale`) counts the active calls; `Erase` and
`Condemn` do not count again. A call that looks the stream up in between is
recorded in `late`, and may go on with the object after its deletion. What the
program does then is undefined: it ends (`misused`, after which nothing happens) or
nothing comes of it. The same holds for a reactor that finishes after its stream is gone
(`Orphaned`). The liveness properties speak of a program that runs.

Not modelled: the entry with a null pointer, which no code inserts; `terminate`
after a `wait` of one second. `client.sleep < client.disconnect` is assumed, as
in the defaults (10 s and 120 s).

### ClientConnection

`request` is the handshake call that is out, with its phase and how it ended;
`connected` and `lastApplied` are `m_connected` and the serial filter of
`ImageReceived`. The window of `ImagePlease` calls is a count for each state of a
call (`inflight`), since calls differ in nothing else. `asks` and `arrivals` are
the `ImagePlease` and `ImageReceived` events in the Qt queue, `failing` the callbacks
between the decision that the connection is lost and its report. `ping` is
`"stale"` when the Ping on its way was sent over an earlier connection. The
server is external to this module: a stream with a serial (`Publish`), which may
be forgotten at any time (`ServerForgets`), and which answers image calls with
any status `ServerThread` allows.

### ImagePipeline

`Qt` is the thread of the image timer (`updateImages`), a setter is a gRPC thread
of the server. Both run `mtxUL_changeImdata`: `TryChange` tries
`m_changingImData` and gives up, `Load` copies the frame under the exclusive
`m_calMutex`, `Filter` computes `m_calData` and the statistics under the shared
one, `StartPainting` and `EndPainting` fill `m_qim`, and `Release` frees both
locks. A recolor (`Recolor`) takes the same two locks in the opposite order, and
tries the second; `SetColormode` paints under the shared lock alone.
`mtxUL_globalStats` (`SetStats`, `LockStats`, `StoreStats`) waits for
`m_changingImData`; `mtxUL_checkGlobalStats` (`TryCheck`, `Check`) tries it.

An image is one pixel: the number of its frame, whether it is filtered and
how it is coloured. `m_calData` points to `m_calDataRaw` when nothing is filtered
and to a buffer of the filters otherwise, so that `Load` changes what it shows
only in the first case. `snapshot.masked` says whether
`m_globalStatsSelection` was filled.

Left out: images of different sizes (`sizeMismatch`, and the reallocation of
`m_qim` after the first), the boxes, and masks without a selected finite
pixel (`empty`). The settings of one kind are one Boolean.

### ClientSettings

Settings meet only in `m_connected` and in the replies that carry all of them, so
a behaviour follows one, whose `kind` says how the code treats it. A kind of
`Sent` is sent at once by every change (`Set`, `SetCube`, ...), each with a call of its
own; a coalesced kind (`Coalesce`) has one call out, remembers in `s` (the
`m_setXxx` members) that a newer value is wanted, and sends it from the
completion. The scale also waits for an image that shows it. `Handle` is the
handler, which may run after the client's deadline; completions run on
a gRPC thread, and post `timers` to the Qt thread, as `QTimer::singleShot( 0 )`
does. `FillReply` and `ImageReceived` are the image that brings the server's value back to
`mirror`.

### GlobalStatsIntent, ClientInfo, ClientShutdown

`gWant` is the choice, `gFlags` what the client knows of the server and has sent,
`gCall` the one call out. `gKnows` is the server: of the day, one that has only
the field of the image, one that has neither. A call that was given up stays in
`gStray`, and its handler may run later (`gOverrun` records that it did).

`ClientInfo` follows one image of four: `iDetails` and `iAge` are the stream
whose answer is stored. A completion looks at the connection under
`m_connectedMutex` and stores under another mutex: two steps (`LookAtConnection`,
`StoreInfo`, `StoreAges`), with a configuration in between if it likes.

`ClientShutdown` has the destructor's stages in `dStage` and each call with its
completion in `dRpc`: entered, counted, recorded, about to leave. The foundation
object with its event queue (`dEvents`, `dParent`) lives on the Qt thread, where
the destructor may run or not.

### FitsSource, ShmimSource, MzmqSource

The producer is external: it writes, removes, replaces and restarts. `stamp`,
`cnt` and `no` stand for contents; a size is one of two. `fAt` and `sAt` split
what the code does in two looks at the disk. `f.next`, `f.no` and `f.curr` are
`m_nextImageNo`, `m_imageNo` and the frame `m_currData` points to. In
`MzmqSource` the receiving thread is `zAt`, and `zReads` is the size the
Qt thread reads while it holds `m_accessMutex`.

### CubeFrames, CubeControl, MouseReadout, TextOverlays

`CubeFrames` is the arithmetic of `imageNo`, `incImageNo`, `decImageNo` and
`deltaImageNo` with its unsigned modulus (`Uint`), also for a number that a file
which became shorter has left beyond the end (`Behind` then wraps).

In `CubeControl` `qSource` is a file or a directory, found, written anew, lost and
found again. A file that is read anew keeps `m_imageNo` and `m_nextImageNo`; only
when its shape is another one does `m_currData` go back to the first frame
(`ReadFile`). `q.nz` is `m_nz`, which `rtimvBase` takes only when the
size of the frame differs from that of `m_qim` (`Length`): a cube
of another length and the same size leaves it stale, and so the window and the
timers that depend on it. `PanelMatches` compares the window with `m_nz`, and
`FrameIsTold` speaks of the source's own length.

`q` are the members of `rtimvBase` that play a cube, `qTimers` the period of its
timers (0 when stopped) and `qPanel` the window with its disabled buttons and
entries. A slot of the window emits a signal whose handler runs at once
in the same thread, changes `q`, and calls the window back: one action. Rates are
integers in ticks. The window can be opened by its key at any time
(`ToggleCubeCtrl`). Left out: a step through a source that was never read, which
divides by its length zero, and shapes of the same number of pixels.

`MouseReadout` has the value asked for (`mDue`, with its timer), the call
(`mCall`, `mQueued`), the posted answer (`mEvent`) and the three texts that show
it. A value is the pixel and the frame it was read in.

In `TextOverlays` a line is the page it is of and the version of the facts it was
made from; `tLength` is what the providers return now, and may be nothing.

### UserItems, StretchGeometry, StatsDisplay

`uGrip` is what `StretchGraphicsItem` knows of a drag, `uUnder`, `uHeld`, `uSel` and
`uFocus` what Qt holds of the mouse, the grab, the selection and the focus, under
the rules of `QGraphicsScene` for items that are hidden. The names
`Stats` and `Colour` are the boxes of the window, `Extra` the operator's regions.

`uRemote` says that the window is that of a client. There a mode that is
not that of the box is refused while there is no connection, after
`toggleColorBoxOff` has hidden the box (`Colormode`); an image that comes sets
the mode without `mtxL_postColormode`, so that no box is shown or hidden
(`ImageReceived`, `AfterResize`); and the timer of the box only sends a call
(`DispatchColorBoxRequest`). `uBox.own` says that the mode is the one the window
set last itself: from a choice it carried out to the next reply or refusal. Only
then does `ScaleBoxShown` promise anything of a client; of the local program it
promises it always.

`StretchGeometry` computes with integers: a box is `x, y, w, h`, a circle is
dragged along a radius, a line turns by right angles. The marks `kMark` are taken
at the press as in `setMovingGeometry` and `setGrabbedGeometry`.

`StatsDisplay` numbers the places of the box: `bRect` is where it is, `at`
and `of` of `bBase` and `bServer` say which rectangle was given and which the numbers are of. When the dialog is closed
while there is no box, `imStats` is left pointing to it (`bDialog` is
`"dangling"`); using it then is undefined, and the behaviours end before they do
(`DialogUsable`).

### ViewZoom, PanelTools

What is drawn at a scale (`w.scene`, `wPens`) is recorded as the zoom and the fit
it was made for. The slider has fewer `Positions` than there are zooms, so
that a round trip through it would be seen. In `PanelTools` bias is kept doubled, and
`pShown.typing` is the entry the operator is in. `pScale` holds the scale, the
range of the data, `m_colormode` and `m_autoScale`: a mode that is chosen leaves the
scale as it is unless it is that of the box (`Colormode`), automatic scaling waits for
a frame (`AutoScale`), and a frame moves the scale when `m_autoScale` is on, its size is
another one, or the mode is that of the box (`Frame`), as in `rtimvBase.cpp:2577`. The scale is the local
program's. `update_panel` passes over the sliders of the maximum and of the bias when they have the focus: their
places are left out.

## 3. What the runs check

| Run | Instance | Shows |
|---|---|---|
| `server_safety` | 2 calls, 2 handlers, 2 changes; symmetric calls and handlers | `OwnedOnce`: each call has exactly one owner until it is answered. `NoLostWakeup`: the scheduled flag loses no wake-up. `RepliesAreFresh`. |
| `server_live` | 2 calls, 1 handler, 1 change | `CallsAreAnswered`. `ImplementsService`: the stream implements the abstract service. |
| `server_lost_update` | 2 calls, 1 handler, 2 changes | finding 1 |
| `registry` | 1 peer, 2 handlers, 2 objects, 2 events | `TableIsExact`: overlapping `Configure` calls leak no stream and a lookup never finds one that is going. `UsedWhileThere`: no call meets a deleted stream but one that found it after the decision. `ConfigureReturns`. `StreamsWake`: `gotosleep` and `awaken` may cross, but the client's next call repairs it. |
| `client_safety` | window 2, serials to 2, 3 faults | `NeverSilent`, `FilterNotAhead`, `AppliedInOrder`, and `KeepsAsking` after the last fault |
| `client_stale` | window 1 | finding 2 |
| `pipeline` | 1 setter, 2 frames, 2 changes of settings, 2 losses or masks | `SelectionMatches`: the statistics never read a selection that was not made for them. `StatsCoherent`: a published result is about the pixels shown. `StatsSettle`: a refresh that was given up is made up for. `CallsReturn`: no deadlock, no caller starves. |
| `pipeline_recolor`, `pipeline_connect` | 1 setter | findings 3 and 4 |
| `client_parts` | see below | `QueuedHasCarrier`, `LastWishWins`: no wish is forgotten between a call, its answer and the image that follows. `LastPairWins`, `WishArrives`: the choice about the statistics reaches the stream through reconnections and old answers. `DetailsArrive`: no detail of an old connection stays. `NothingOutlives`, `DestructorEnds`. |
| `display` | see below | `RewriteIsShown`, `StreamIsFollowed`, `FramesComeThrough`: a source follows its producer. `ReadsWithinBuffer`, `DeltaIsModular`. `ValueIsOfPixel`, `OldValueGoes`: the readout. `PanelMatches`, `FrameIsShown`: the cube window mirrors what is played, and a frame asked for is taken and its number shown. `OverlayAgrees`: the text panel. |
| `window` | see below | `ScaleBoxShown`: the colour mode is that of the box exactly while the box is on the screen, in a client as far as its replies leave it. `ReadoutBelongsToBox`: what follows the statistics box ends with it. `DragKeepsAnchor`. `PensFit`, `ZoomAgrees`. `PanelTells`: among others, no frame of the same size takes a scale the operator set. |

Each property of a passing run has a mutant: a plausible bug of
the code for which TLC finds the property violated. The mutants stand in the
modules, marked as such, before the definition they change.

**Bounds of the server and the connection.** Two calls and two handlers are the
least number at which handlers race each other and a queue has an order; two
changes are the least at which one can fall into any gap of a service pass and
another follow. In the registry two handlers may configure one peer at once, and two
objects let an old stream exist while the new one is made; a second peer shares
only the event queue and the loop, which the proofs cover for any number.
In the pipeline a setter and the timer close a circle of two locks and make a call
give up; two changes of settings, after a configuration that may have turned
the statistics on, are the least that turn the mask on and change the image in
between. For the client, a window of 2 lets replies overtake each other, and
three faults let a failure of an old connection meet the one that follows. Events
that Qt queues without limit are bounded by `MaxEvents` and `MaxReports`,
faults by `MaxFaults`: after the bound the post waits, as if the sender were slow.

**Bounds of the sums.**

* `ClientSettings`: three values and three changes (`MaxPicks`), of which two when
  the kind is sent at once and does not add up (`MaxSent`): one call out, one that is
  coalesced, one that replaces it. `MaxTrouble = 1` call fails.
* `GlobalStatsIntent`: three choices of three wishes, two faults: a choice sent
  over a connection that is lost, another over the next, and a late handler.
* `ClientInfo`: three configurations and three losses, so that an answer may be two
  connections old. `ClientShutdown`: one call of each group, one event.
* `FitsSource`: cubes to three frames, two writes, two steps, `Uint` = 2^16 for 2^32
  (the proof takes any). `ShmimSource`: two streams of three frames, sizes 1 and 2.
  `MzmqSource`: three frames, two ends of the server.
* `MouseReadout`: two pixels, three moves, two frames, one failing request.
  `CubeControl`: cubes to two frames of two sizes, rates 0 and 6 a second, two
  timeouts, one file written anew (`MaxRewrites`; a file may also be lost), three inputs (`MaxInputs`); a number asked
  for is at most one beyond the cube, or the largest (`Asked`).
  `TextOverlays`: the two pages of the window, two keys for a plugin, texts of one
  line or two, three changes of the facts.
* `UserItems`: the two boxes and, in the local program, one more region (`RemoteExtra`
  has those of a client); the modes of the box and of the whole image, since that of the user
  differs from the latter in nothing here. `StretchGeometry`: a side of 3 with a
  tolerance of 1, two moves of up to one step in each direction, with which a handle
  of a box held by its centre crosses the opposite side. `StatsDisplay`: three places.
  `ViewZoom`: zooms 1 to 4 with a slider of two positions, two widths, two sizes.
  `PanelTools`: two values to type, two ranges of the data, scales from 0 to 5 (`Scales`).

The sums are not checked for deadlock: a part that has used up its bounds, or
a client that is destroyed, may stop.

**Fairness.** Threads and the Qt loop are scheduled (weak fairness on their steps,
strong fairness on taking a mutex that others also take). `Tick` is fair because
the cleanup loop runs every second for ever. A call grows old because time
passes. In the registry the poll of `Configure` is strongly fair: it looks every
50 ms, while a stream lives for `client.disconnect` seconds at least; for the
same reason a stream does not grow old before the handler that waits for it
has seen it. A client that has an answer asks again (`ClientConnection`), so `ImagePlease` is
fair there. In `ImagePipeline` the timer fires for ever (it is not stopped by what
is modelled), steps that wait for nothing are weakly fair, and taking `m_changingImData`
or the exclusive lock is strongly fair: others hold them again and again, with
gaps. Setters are not fair. In `ClientConnection` the timer, the completion of every gRPC call (all
have deadlines) and the Qt events are fair; faults are not, and their number is
bounded, so liveness says what happens after the last one.

In the sums a liveness property reads `Fairness => ...`, with the fairness of
its part: the specification itself is not fair, because a part that rests is
not. Fair are the timers of the Qt thread, the completions of calls, the client's
reconnections, and in `MzmqSource` a server that is up. The handler that an image reply
waits for is strongly fair in `GlobalStatsIntent`: an image that is asked for again
and again gets through once. Users and producers are not fair.

## 4. Findings

1. **A ready image may stay unsent** (`rtimvServerThread.cpp:547-549`).
   `servicePendingImageRequests` compares the serials and then clears
   `m_responseDirty`; `markResponseDirty` in between has its flag cleared, though
   `rtimvServerThread.hpp:63` promises "True when a newer response than the last
   delivered reply is ready to send." On a static image the client
   shows the old colours until something else changes.
2. **The failure of an old call takes the new connection down**
   (`rtimvClientBase.cpp:61-73, 1808-1819`): the generation is read at completion,
   not when the call is sent.
3. **A recolor may have no effect** (`rtimvBase.cpp:2828-2836`): it gives up while
   another thread changes the image, on the ground that "a recolor is about to
   happen", but that thread may have read the old setting already. On a static
   image the old colours stay.
4. **Connected without an image** (`rtimvBase.cpp:1166-1183, 2401-2408`): when a
   setter holds `m_changingImData` during the first frame, the frame is dropped and
   `onConnect` is called all the same. Until the next frame `m_qim` is null, and
   `mtxuL_render` does not check it (`rtimvServerThread.cpp:272`).

### Behaviours seen that no run states

The models have these behaviours; they contradict no document clearly enough
for a finding, or are stated as an excuse in a property.

* A stream that was just called may be disconnected and deleted
  (`rtimvServer.cpp:552-592`): the check and the erasure hold different locks, and
  `m_activeRpc` is not looked at again. The call goes on with an object that is gone:
  it may recolor, post to it and count itself off. `UsedWhileThere` excuses exactly the
  calls that found the stream in that gap (`late`). The client recovers by a new handshake
  (`KeepsAsking`), when the server does.
* A colour mode that is painted while a filter runs may leave pixels of the old frame in
  the new one, which is why `FramesForward` speaks of unfiltered pictures.
* Settings that are sent at once have a call each, and the handlers of two calls may run
  in either order: the server may end with the older value, which the next image
  then shows. `LastWishWins` is stated for the scale, which is coalesced, and for the
  steps through a cube, which add up. A coalesced stretch or box whose call failed is not sent again.
* A FITS file that is removed between two looks ends the program: `last_write_time`
  throws (`fitsImage.cpp:349, 367`; `fDead`). One that is written between reading and
  asking for its time is shown as it was before (`fRaced`).
* A directory with a single FITS file never shows it (`fitsDirectory.cpp:341`).
* A shared memory stream that is replaced between the mapping and the question for
  its inode is never noticed (`sRaced`).
* A FITS file that is written anew shows its first frame under the number of before
  (`fitsImage.cpp:258-271, 379-383`), and a cube whose length alone changes leaves
  `m_nz` stale (`rtimvBase.cpp:2431`): the window counts to the old length, and a file that became a
  cube is not played.
* A step that is asked for before the last one was taken adds to it: pressing `+1`
  or `-1` quickly asks for a frame beyond the cube or below 0, which is
  a huge unsigned number (`fitsImage.cpp:127`). A directory that is asked for
  frame 1 before its first read never reads one.
* Automatic scaling moves the scale with the next frame only, so that a static image keeps it; a frame of another size
  replaces a scale of the operator too; a mode of the user turns automatic
  scaling off without a word to the check box of the cube window
  (`rtimvBase.cpp:1740`).
* In a client the colour box and the colour mode may part: a mode in a reply shows or hides no
  box, a box that is hidden without a connection leaves the mode, a request of
  the box that is still due puts the server in the mode of a box that is hidden,
  and two calls on their way may be handled in either order. A drag then prints "bug: got
  colorbar moved but not in color box mode".
* With a zoom that brings the picture back under a mouse at rest, the readout stays
  empty until the mouse moves (`mUnseen`).
* The remote program may show numbers of an earlier rectangle beside the statistics
  box until the answer comes; `ShownIsCurrent` is stated for the local one.
* A plugin may register a key the window itself uses (`rtimvMainWindow.cpp:3764`),
  which then no longer reaches the window.

## 5. What is proved

TLAPS checks the following for every set of handlers and calls, every
window, every bound, every set of regions, keys and values.

* `ServerThreadProofs`: `TypeOK` from the inductive invariant `TypeInv`, which
  adds that `m_activeRpc` counts the living reactors (`RpcCount`), that a thread
  at work on a call holds it (`HandOK`) and that a done call is finished
  (`RequestOK`). `NoLostWakeup` from `SignalInv`: the scheduled flag is true only
  with an event posted or about to be. `RepliesAreFresh` from `Announced` (the
  image is ahead of the serial by the threads that still have to announce)
  and `FreshInv`. `ImplementsService`: the first state of the stream is one of the service,
  and every step is a step of the service or a stutter.
* `ServerOwnershipProofs`: `OwnedOnce` from `OwnInv`, which says who owns a call
  before any counting: the queue has no call twice (`Once`), no two of the places (the
  queue, the hand of each thread) have a call in common (`Apart`), a call is in one of
  them exactly as long as it has no answer (`HeldWhileOpen`), and a thread that is not at
  work on a call has none (`HandFree`).
* `ClientConnectionProofs`: `Invariance` proves the conjunction of `TypeOK`,
  `HandshakeIsExclusive`, `NeverSilent`, `FilterNotAhead` and
  `RepliesReached`. The last is needed because a client that is not connected
  still holds replies, which count when it connects. `AppliedInOrder` follows
  as an action property.
* `ServerRegistryProofs`: `Invariance` proves `TypeOK`, `TableIsExact` and
  `UsedWhileThere` together with `CondemnedOnly` (only a stream that has left
  the table has its deletion queued) and `FoundInTime`: a stream that a
  handler or a pending call refers to is in use, or was found after its end was
  decided. It holds because the decision counts the calls, and because a new object is not
  mistaken for an old one. `ConfigureIsServed` from
  `ServedInv`: who waits and has no thread in the table has its event in the queue or has
  seen its thread before (`Expected`), a thread of the table has its result or is being
  configured (`Results`), and one that a call has not seen yet is too young to be deleted
  before it does (`Young`).
* `ImagePipelineProofs`: `Invariance` proves `Inv`, from which `TypeOK`,
  `SelectionMatches` and `StatsCoherent` follow at once and `FramesForward` as an
  action property. `Locking`: who reads or writes the statistics owns
  `m_changingImData`, who paints holds the shared lock. `Statistics`: a thread that
  goes on to compute them has found no refresh wanted (`Refreshed`), and if none is
  wanted the selection is there (`SelectionReady`). `Painting`: what a painter is
  about to write is of the loaded frame, because `Load` needs every reader gone.
  `NoCircle` from `Holders`, which says where the holder
  of `m_changingImData` and the readers of `m_calMutex` may be: never at rest, and a
  reader never where it waits for one of the two. `RefreshIsKept` from `KeptInv`: a
  snapshot that counts as valid has a size.
* `ClientPartsProofs`: `QueuedHasCarrier` from `CarrierInv`, which adds that `s` is a
  record of its members and that calls have numbers above zero, so that a call
  out is told from none. `NothingOutlives` from `GoneInv`: a group that was waited for
  has no call any more and will get none, a completion that ends holds the mutex, and
  the wait for the activity finds nobody. `LastWishWins` from `WishInv`: a call of
  the scale that is out carries the last wish or a newer one is queued behind it,
  and the steps of the user add up to those that are done, out and refused.
  `LastPairWins` from `PairInv`: over the connection that is up only the pair
  sent last is out, and once it is answered it is in the stream. `WishHasCarrier`
  from `CarriedInv`; `GenerationTells` (`InfoInv`): an answer of the
  generation that is up is of its stream. The action property `StoredIsCurrent` follows.
* `DisplayProofs`: `ReadsWithinBuffer` from `BufferInv`: while the image counts as
  attached the memory has the size of `m_nx` and `m_ny`. `DeltaIsModular` from the
  types of the source (`CubeInv`) and lemmas about the unsigned
  arithmetic, for every `Uint` above the length of a cube. `OverlayAgrees` from
  `PanelInv`, with a lemma for each way the panel's text is replaced.
  `ValueIsOfPixel` from `MouseInv`: before the first frame nothing was written, so that the
  fields are empty when the mouse leaves the window then too. `PanelMatches` from
  `CubeWindowInv`: an open window shows the state of `rtimvBase`, its length included, and
  no cube timer runs outside of the cube mode; one lemma for an image of a cube that connects or is played, one for an
  update without an image. `SeenIsShown` from `SeenInv`: between the two looks at the disk
  the version that was read is that of the disk. `NeverDeaf` from
  `StreamInv`: a stream that is mapped is the one at the path until its inode is known.
  `FrameIsTold` from `TellInv`: every period the image timer is started with is above
  zero, the frame that is drawn is that of the number or the first of a file (`Follows`),
  and a source that is a cube has told its number whatever `m_nz` is. `ValueIsRenewed` from `RenewInv`: a value read before the frame has another
  request behind it wherever it is, with the server, on its way to the window, or shown
  (`AgeInv`), and the fields that are nulled are empty (`FieldsInv`).
* `WindowProofs`: `PensFit` from `PenInv`; the paths that change the view without
  `post_zoomLevel` are where it could fail. `DragKeepsAnchor` from `AnchorInv`: the marks of the
  press stay what they were, a circle is round, and whoever sizes has a handle; one
  lemma for each class of region. `PanelTells` from `ToolsInv`, one
  conjunct for each tool; that of the scale (`ScaleInv`) has a lemma for each way the scale
  moves. `ScaleBoxShown` from `BoxInv`, which adds
  that only a box that exists is shown or has a request due (a change of the image size resets the mode
  when there is a box), and that the mode of the local program is always its own. `ZoomAgrees` from `AskedInv`: the zoom
  is what was asked for last, within the limits. `ReadoutBelongsToBox` from `ReadInv`:
  without a server nothing is on its way, and a box on the screen has the button of
  the panel pressed.

In a sum the other parts leave the variables of a part alone, so each of these
invariants is proved for the steps of its own part.

Ten theorems state the safety core of a liveness property, what must hold in every state
for it to come true in the end: `NoCircle` that of `CallsReturn`, `RefreshIsKept` of
`StatsSettle`, `WishHasCarrier` of `WishArrives`, `GenerationTells` and `StoredIsCurrent` of
`DetailsArrive`, `SeenIsShown` of `RewriteIsShown`, `NeverDeaf` of `StreamIsFollowed`,
`FrameIsTold` of `FrameIsShown`, `ValueIsRenewed` of `OldValueGoes` and `ConfigureIsServed` of
`ConfigureReturns`. They stand in the modules beside these; the runs check the liveness
properties, and the theorems hold without any fairness.

The assumptions are those stated with the constants, gathered in
`ConstantsAssumption` for a sum: bounds are natural numbers, threads and other names
are distinct values, handlers and calls are finite sets. Two say more. `ZoomMin` is 1, as in
`rtimvBase.hpp:1378`: with a larger one a window that just opened would show a zoom that
nobody asked for. And the names that `MouseReadout` has for "no pixel" are no pixels.

**Only model-checked:** the liveness properties, since the prover handles neither
fairness nor `ENABLED`: `CallsAreAnswered`, `ConfigureReturns`, `StreamsWake`, `KeepsAsking`,
`StatsSettle`, `CallsReturn`, `WishArrives`, `DetailsArrive`, `DestructorEnds`,
`RewriteIsShown`, `StreamIsFollowed`, `FramesComeThrough`, `OldValueGoes` and
`FrameIsShown`. Every invariant and every action property of a passing run is proved.

## 6. Not modelled, and the plan

Left out for good: the arithmetic of pixels, filters and colour maps (floating point),
reading FITS and shared memory (I/O), layout, painting and text formats, the
command line and configuration, generated gRPC code, the dictionary (a map whose users are
plugins outside the repository), and relaxed memory order on weakly ordered
processors, which needs a model with store buffers.

Parts of modelled components that remain: the torn picture
(`mtxuL_render` reads `m_qim` while another thread paints), which needs pictures of
several pixels; the selection of the frame in a shared memory ring; the sliders
of the maximum and the bias and the other widgets of the control panel; the colour scale of a client on its panel; the
single-key shortcuts of the window that set one flag.

To prove next: the safety cores of the liveness properties that have none yet
(`DestructorEnds`: whoever holds a mutex is about to end; `StreamsWake`: a stream that
sleeps has somebody to wake it).
To model next: `ClientConnection` over `ServerRegistry` in place of its external
server, to state what a failed configuration does to the client.
