---------------------------- MODULE ImagePipeline ----------------------------
(***************************************************************************)
(* How rtimvBase (src/src/common/rtimvBase.cpp) turns the frames of its    *)
(* image sources into a painted QImage, and computes global statistics.    *)
(*                                                                         *)
(* The main Qt thread looks for new frames (updateImages).  Setters run in *)
(* the gRPC threads of a server.  Both calibrate, filter and paint under   *)
(* m_calMutex, held exclusively to load a frame and shared to use it, and  *)
(* under m_changingImData, which is tried and not waited for: whoever      *)
(* finds it taken gives up.                                                *)
(*                                                                         *)
(* A section under the exclusive lock is one step: nobody sees its middle. *)
(* Painting is two, since a setting may change meanwhile: an image is one  *)
(* of its pixels, which is computed and then set.  It is the number of its *)
(* frame and the settings applied to it; the sizes of the images agree.    *)
(***************************************************************************)
EXTENDS Naturals, FiniteSets

CONSTANTS
    Qt,           \* the thread of the image timer
    Setters,      \* the threads that change settings
    Free,         \* the holder of a free mutex
    MaxFrames,    \* bound on the frames of the main image
    MaxSettings,  \* bound on the changes of settings
    MaxInputs     \* bound on the losses of images, and on mask updates

Procs == {Qt} \cup Setters

ASSUME ProcsAssumption == Qt \notin Setters /\ Free \notin Procs
ASSUME BoundsAssumption ==
    MaxFrames \in Nat /\ MaxSettings \in Nat /\ MaxInputs \in Nat

\* rtimv::globalStatsStatus; the others depend on the pixels, or on the server.
Statuses == {"unavailable", "valid", "noImage", "noMask"}

\* m_calData, and what the QImage shows.
Pixels == [frame : Nat, filter : BOOLEAN]
Pictures == [frame : Nat, filter : BOOLEAN, colour : BOOLEAN]

\* m_globalStatsInputStatus and m_globalStatsSelection, empty without a mask.
Snapshots == [status : Statuses, masked : BOOLEAN]

\* rtimv::globalStatsState, and the pixels it was computed from.
Stats == [enabled : BOOLEAN, useMask : BOOLEAN, status : Statuses, of : Pixels]

VARIABLES
    frame,      \* the frame m_images[0] holds, 0 before the first
    valid,      \* imageValid( 0 )
    mask,       \* imageValid( 2 )
    connected,  \* m_connected
    inputs,     \* losses and mask updates so far
    colour,     \* a setting of the colouring
    filter,     \* a setting of the filters
    settings,   \* changes of settings so far
    changing,   \* the holder of m_changingImData
    reading,    \* the holders of m_calMutex in shared mode
    sized,      \* m_qim and m_calDataRaw are allocated
    raw,        \* the frame in m_calDataRaw
    filtered,   \* m_calData
    painted,    \* what m_qim shows
    refresh,    \* m_globalStatsRefresh
    snapshot,   \* m_globalStatsInputStatus, m_globalStatsSelection
    stats,      \* m_globalStats
    pc,         \* where each thread is
    then,       \* what follows its mtxUL_changeImdata
    newdata,    \* the argument of mtxUL_changeImdata
    wish,       \* the arguments of mtxUL_globalStats
    brush       \* the picture a thread paints

sources == <<frame, valid, mask, connected, inputs>>
choices == <<colour, filter, settings>>
locks   == <<changing, reading>>
data    == <<sized, raw, filtered, painted>>
global  == <<refresh, snapshot, stats>>
locals  == <<pc, then, newdata, wish, brush>>
vars == <<sources, choices, locks, data, global, locals>>

Labels == {"idle", "connect", "check", "checking", "change", "load", "filter",
           "recolor", "paint", "painting", "painted", "setStats", "settingStats"}

Wishes == [enabled : BOOLEAN, useMask : BOOLEAN]

Unfiltered(f) == [frame |-> f, filter |-> FALSE]
NoPixels == Unfiltered(0)
NoPicture == [frame |-> 0, filter |-> FALSE, colour |-> FALSE]

\* Statistics without a result.
NoResult(enabled, useMask, status) ==
    [enabled |-> enabled, useMask |-> useMask, status |-> status, of |-> NoPixels]

\* The configuration may have turned the statistics on.
Init ==
    /\ frame = 0 /\ valid = FALSE /\ mask = FALSE /\ connected = FALSE /\ inputs = 0
    /\ colour = FALSE /\ filter = FALSE /\ settings = 0
    /\ changing = Free /\ reading = {}
    /\ sized = FALSE /\ raw = 0 /\ filtered = NoPixels /\ painted = NoPicture
    /\ snapshot = [status |-> "unavailable", masked |-> FALSE]
    /\ refresh \in BOOLEAN
    /\ \E useMask \in BOOLEAN : stats = NoResult(refresh, useMask, "unavailable")
    /\ pc = [p \in Procs |-> "idle"]
    /\ then = [p \in Procs |-> "idle"]
    /\ newdata = [p \in Procs |-> FALSE]
    /\ wish = [p \in Procs |-> [enabled |-> FALSE, useMask |-> FALSE]]
    /\ brush = [p \in Procs |-> NoPicture]

Goto(p, label) == pc' = [pc EXCEPT ![p] = label]

\* Calling mtxUL_changeImdata( new ), after which the thread goes on at next.
Change(p, new, next) ==
    /\ Goto(p, "change")
    /\ then' = [then EXCEPT ![p] = next]
    /\ newdata' = [newdata EXCEPT ![p] = new]

Return(p) == Goto(p, then[p])

\* mtxL_globalStatsInputStatus, after the allocation of m_calData or before.
InputStatus(allocated) ==
    CASE ~valid \/ ~allocated -> "noImage"
      [] valid /\ allocated /\ stats.useMask /\ ~mask -> "noMask"
      [] OTHER -> "valid"

-----------------------------------------------------------------------------
(* The settings.                                                           *)

Set(p) ==
    /\ p \in Setters
    /\ pc[p] = "idle"
    /\ settings < MaxSettings
    /\ settings' = settings + 1

\* A filter setter.
SetFilter(p) ==
    /\ Set(p)
    /\ filter' = ~filter
    /\ Change(p, FALSE, "idle")
    /\ UNCHANGED <<sources, colour, locks, data, global, wish, brush>>

\* subtractDark and applyMask: the frame is to be calibrated again.
SetCalibration(p) ==
    /\ Set(p)
    /\ Change(p, TRUE, "idle")
    /\ UNCHANGED <<sources, colour, filter, locks, data, global, wish, brush>>

\* The stretch and the scale, with the recolor that follows.
SetColour(p) ==
    /\ Set(p)
    /\ colour' = ~colour
    /\ Goto(p, "recolor")
    /\ UNCHANGED <<sources, filter, locks, data, global, then, newdata, wish, brush>>

\* mtxL_colormode and mtxL_load_colorbar paint under the shared lock alone.
SetColormode(p) ==
    /\ Set(p)
    /\ colour' = ~colour
    /\ reading' = reading \cup {p}
    /\ then' = [then EXCEPT ![p] = "idle"]
    /\ Goto(p, "paint")
    /\ UNCHANGED <<sources, filter, changing, data, global, newdata, wish, brush>>

\* SetGlobalStats, refused before the first image: mtxUL_globalStats waits for
\* m_changingImData.
SetStats(p, enabled, useMask) ==
    /\ Set(p)
    /\ connected
    /\ wish' = [wish EXCEPT ![p] = [enabled |-> enabled, useMask |-> useMask]]
    /\ Goto(p, "setStats")
    /\ UNCHANGED <<sources, colour, filter, locks, data, global, then, newdata, brush>>

LockStats(p) ==
    /\ pc[p] = "setStats"
    /\ changing = Free
    /\ changing' = p
    /\ Goto(p, "settingStats")
    /\ UNCHANGED <<sources, choices, reading, data, global, then, newdata, wish, brush>>

\* Mutant: the old result is kept.
StoreStatsKeepsResult(p) ==
    /\ pc[p] = "settingStats"
    /\ stats' = [stats EXCEPT !.enabled = wish[p].enabled, !.useMask = wish[p].useMask]
    /\ refresh' = wish[p].enabled
    /\ changing' = Free
    /\ IF wish[p].enabled
       THEN Change(p, TRUE, "check")
       ELSE Goto(p, "idle") /\ UNCHANGED <<then, newdata>>
    /\ UNCHANGED <<sources, choices, reading, data, snapshot, wish, brush>>

\* Mutant: no refresh is asked for.
StoreStatsOnly(p) ==
    /\ pc[p] = "settingStats"
    /\ stats' = NoResult(wish[p].enabled, wish[p].useMask, "unavailable")
    /\ changing' = Free
    /\ IF wish[p].enabled
       THEN Change(p, TRUE, "check")
       ELSE Goto(p, "idle") /\ UNCHANGED <<then, newdata>>
    /\ UNCHANGED <<sources, choices, reading, data, snapshot, refresh, wish, brush>>

StoreStats(p) ==
    /\ pc[p] = "settingStats"
    /\ stats' = NoResult(wish[p].enabled, wish[p].useMask, "unavailable")
    /\ refresh' = wish[p].enabled
    /\ changing' = Free
    /\ IF wish[p].enabled
       THEN Change(p, TRUE, "check")
       ELSE Goto(p, "idle") /\ UNCHANGED <<then, newdata>>
    /\ UNCHANGED <<sources, choices, reading, data, snapshot, wish, brush>>

-----------------------------------------------------------------------------
(* The image timer.                                                        *)

Input == inputs < MaxInputs /\ inputs' = inputs + 1

\* updateImages: a new frame, or a new mask, has the image changed.
NewFrame ==
    /\ pc[Qt] = "idle"
    /\ frame < MaxFrames
    /\ frame' = frame + 1
    /\ valid' = TRUE
    /\ Change(Qt, TRUE, IF connected THEN "check" ELSE "connect")
    /\ UNCHANGED <<mask, connected, inputs, choices, locks, data, global, wish, brush>>

NewMask ==
    /\ pc[Qt] = "idle"
    /\ Input
    /\ mask' = TRUE
    /\ Change(Qt, TRUE, "check")
    /\ UNCHANGED <<frame, valid, connected, choices, locks, data, global, wish, brush>>

\* An image that is lost is no update.
LoseImage ==
    /\ pc[Qt] = "idle"
    /\ Input
    /\ \/ valid /\ valid' = FALSE /\ UNCHANGED mask
       \/ mask /\ mask' = FALSE /\ UNCHANGED valid
    /\ Goto(Qt, "check")
    /\ UNCHANGED <<frame, connected, choices, locks, data, global, then, newdata, wish,
                   brush>>

NoUpdate ==
    /\ pc[Qt] = "idle"
    /\ Goto(Qt, "check")
    /\ UNCHANGED <<sources, choices, locks, data, global, then, newdata, wish, brush>>

OnConnect ==
    /\ pc[Qt] = "connect"
    /\ connected' = TRUE
    /\ Goto(Qt, "check")
    /\ UNCHANGED <<frame, valid, mask, inputs, choices, locks, data, global, then,
                   newdata, wish, brush>>

\* mtxUL_checkGlobalStats.
TryCheck(p) ==
    /\ pc[p] = "check"
    /\ IF changing # Free
       THEN Goto(p, "idle") /\ UNCHANGED changing
       ELSE Goto(p, "checking") /\ changing' = p
    /\ UNCHANGED <<sources, choices, reading, data, global, then, newdata, wish, brush>>

\* Mutant: a refresh that could not be done is forgotten.
RefreshNeededOnce(status) == snapshot.status # status

\* An image whose inputs have come back is to be computed again, or one whose
\* refresh was given up.
RefreshNeeded(status) == snapshot.status # status \/ refresh

Check(p) ==
    /\ pc[p] = "checking"
    /\ changing' = Free
    /\ LET status == InputStatus(sized) IN
       IF ~stats.enabled
       THEN Goto(p, "idle") /\ UNCHANGED <<global, then, newdata>>
       ELSE IF status = "valid"
       THEN /\ refresh' = RefreshNeeded(status)
            /\ IF refresh'
               THEN Change(p, TRUE, "idle")
               ELSE Goto(p, "idle") /\ UNCHANGED <<then, newdata>>
            /\ UNCHANGED <<snapshot, stats>>
       ELSE /\ snapshot' = [status |-> status, masked |-> FALSE]
            /\ stats' = NoResult(TRUE, stats.useMask, status)
            /\ Goto(p, "idle")
            /\ UNCHANGED <<refresh, then, newdata>>
    /\ UNCHANGED <<sources, choices, reading, data, wish, brush>>

-----------------------------------------------------------------------------
(* mtxUL_changeImdata.                                                     *)

TryChange(p) ==
    /\ pc[p] = "change"
    /\ IF changing # Free
       THEN Return(p) /\ UNCHANGED changing
       ELSE /\ changing' = p
            /\ Goto(p, IF newdata[p] \/ refresh THEN "load" ELSE "filter")
    /\ UNCHANGED <<sources, choices, reading, data, global, then, newdata, wish, brush>>

\* mtxL_snapshotGlobalStats.
Snapshot == [status |-> InputStatus(TRUE),
             masked |-> stats.useMask /\ InputStatus(TRUE) = "valid"]

\* mtxL_applyFilter.
Processed == [frame |-> raw, filter |-> filter]

\* mtxL_calcGlobalStats.
ResultFor(pixels) ==
    IF snapshot.status = "valid"
    THEN [stats EXCEPT !.status = "valid", !.of = pixels]
    ELSE NoResult(TRUE, stats.useMask, snapshot.status)

\* Under the exclusive lock: the frame is copied, and its mask.  m_calData is
\* m_calDataRaw itself when nothing is filtered.
Load(p) ==
    /\ pc[p] = "load"
    /\ reading = {}
    /\ IF ~valid
       THEN /\ changing' = Free
            /\ Return(p)
            /\ UNCHANGED <<data, global>>
       ELSE /\ sized' = TRUE
            /\ raw' = frame
            /\ filtered' = IF filtered.filter THEN filtered ELSE Unfiltered(frame)
            /\ refresh' = (refresh /\ ~stats.enabled)
            /\ snapshot' = IF stats.enabled THEN Snapshot ELSE snapshot
            /\ Goto(p, "filter")
            /\ UNCHANGED <<changing, painted, stats>>
    /\ UNCHANGED <<sources, choices, reading, then, newdata, wish, brush>>

\* Under the shared lock: filters and statistics.
Filter(p) ==
    /\ pc[p] = "filter"
    /\ IF ~sized
       THEN /\ changing' = Free
            /\ Return(p)
            /\ UNCHANGED <<reading, filtered, stats>>
       ELSE /\ reading' = reading \cup {p}
            /\ filtered' = Processed
            /\ stats' = IF stats.enabled THEN ResultFor(filtered') ELSE stats
            /\ Goto(p, "paint")
            /\ UNCHANGED changing
    /\ UNCHANGED <<sources, choices, sized, raw, painted, refresh, snapshot, then,
                   newdata, wish, brush>>

-----------------------------------------------------------------------------
(* Painting.                                                               *)

\* Mutant: m_changingImData is waited for under the shared lock.
RecolorWaits(p) ==
    /\ pc[p] = "recolor"
    /\ \/ /\ p \notin reading
          /\ reading' = reading \cup {p}
          /\ UNCHANGED <<changing, pc>>
       \/ /\ p \in reading
          /\ changing = Free
          /\ changing' = p
          /\ Goto(p, "paint")
          /\ UNCHANGED reading
    /\ then' = [then EXCEPT ![p] = "idle"]
    /\ UNCHANGED <<sources, choices, data, global, newdata, wish, brush>>

\* mtxL_recolor: the shared lock, and m_changingImData if it is free.
Recolor(p) ==
    /\ pc[p] = "recolor"
    /\ \/ /\ p \notin reading
          /\ reading' = reading \cup {p}
          /\ UNCHANGED <<changing, pc>>
       \/ /\ p \in reading
          /\ changing # Free
          /\ reading' = reading \ {p}
          /\ Goto(p, "idle")
          /\ UNCHANGED changing
       \/ /\ p \in reading
          /\ changing = Free
          /\ changing' = p
          /\ Goto(p, "paint")
          /\ UNCHANGED reading
    /\ then' = [then EXCEPT ![p] = "idle"]
    /\ UNCHANGED <<sources, choices, data, global, newdata, wish, brush>>

Coloured(pixels) ==
    [frame |-> pixels.frame, filter |-> pixels.filter, colour |-> colour]

\* mtxL_recolorImpl reads the settings and the pixels ...
StartPainting(p) ==
    /\ pc[p] = "paint"
    /\ Goto(p, IF sized THEN "painting" ELSE "painted")
    /\ brush' = [brush EXCEPT ![p] = Coloured(filtered)]
    /\ UNCHANGED <<sources, choices, locks, data, global, then, newdata, wish>>

\* ... and writes the image.
EndPainting(p) ==
    /\ pc[p] = "painting"
    /\ painted' = brush[p]
    /\ Goto(p, "painted")
    /\ UNCHANGED <<sources, choices, locks, sized, raw, filtered, global, then, newdata,
                   wish, brush>>

\* What is held is released.
Release(p) ==
    /\ pc[p] = "painted"
    /\ changing' = IF changing = p THEN Free ELSE changing
    /\ reading' = reading \ {p}
    /\ Return(p)
    /\ UNCHANGED <<sources, choices, data, global, then, newdata, wish, brush>>

-----------------------------------------------------------------------------
Timer == NewFrame \/ NewMask \/ LoseImage \/ NoUpdate

Setter(p) ==
    \/ SetFilter(p) \/ SetCalibration(p) \/ SetColour(p) \/ SetColormode(p)
    \/ \E enabled, useMask \in BOOLEAN : SetStats(p, enabled, useMask)

\* The steps of a call under way: none waits for long but LockStats and Load.
Running(p) ==
    \/ StoreStats(p) \/ TryCheck(p) \/ Check(p) \/ TryChange(p) \/ Filter(p)
    \/ Recolor(p) \/ StartPainting(p) \/ EndPainting(p) \/ Release(p)

Waiting(p) == LockStats(p) \/ Load(p)

Next ==
    \/ Timer
    \/ OnConnect
    \/ \E p \in Procs : Setter(p) \/ Running(p) \/ Waiting(p)

Spec == Init /\ [][Next]_vars

\* Threads are scheduled, the timer goes on, and a mutex that is free again and
\* again is obtained.
Fairness ==
    /\ WF_vars(Timer)
    /\ WF_vars(OnConnect)
    /\ \A p \in Procs : WF_vars(Running(p)) /\ SF_vars(Waiting(p))

FairSpec == Spec /\ Fairness

-----------------------------------------------------------------------------
(* Properties.                                                             *)

TypeOK ==
    /\ frame \in Nat /\ valid \in BOOLEAN /\ mask \in BOOLEAN /\ connected \in BOOLEAN
    /\ inputs \in Nat
    /\ colour \in BOOLEAN /\ filter \in BOOLEAN /\ settings \in Nat
    /\ changing \in Procs \cup {Free} /\ reading \in SUBSET Procs
    /\ sized \in BOOLEAN /\ raw \in Nat /\ filtered \in Pixels /\ painted \in Pictures
    /\ refresh \in BOOLEAN /\ snapshot \in Snapshots /\ stats \in Stats
    /\ pc \in [Procs -> Labels]
    /\ then \in [Procs -> {"idle", "connect", "check"}]
    /\ newdata \in [Procs -> BOOLEAN]
    /\ wish \in [Procs -> Wishes]
    /\ brush \in [Procs -> Pictures]

\* The statistics read the selection of the mask only if it was made for them:
\* a result with the mask is never computed from an empty selection, though the
\* setting, the snapshot and the computation are calls of different threads
\* (rtimvBase.cpp:2019-2026, 2076-2110, 2412-2415).
SelectionMatches ==
    \A p \in Procs :
        pc[p] = "filter" /\ stats.enabled /\ stats.useMask /\ snapshot.status = "valid"
            => snapshot.masked

\* A published result is about the pixels that are shown, never about those of
\* before, once the call that loads a frame has filtered it ("Coherent backend
\* snapshot", rtimvGlobalStats.hpp:26).
StatsCoherent ==
    stats.status = "valid" /\ (\A p \in Procs : pc[p] # "filter") => stats.of = filtered

\* A painter that is slow does not bring an old frame back, although recolors,
\* colour modes and frames are painted by different threads at once
\* (rtimvBase.cpp:2417-2420, 2508, 2648, 2818-2845).  It does if it is filtered:
\* the filters write the pixels that a colour mode paints, under a shared lock.
FramesForward == [][~painted'.filter => painted'.frame >= painted.frame]_vars

\* Who keeps a thread waiting: a reader of m_calMutex the one that is to load, the
\* holder of m_changingImData the one that is to set the statistics.
Blocks(q, p) ==
    \/ pc[p] = "load" /\ q \in reading
    \/ pc[p] = "setStats" /\ changing = q

\* No lock is left behind by a call that has returned, and no waits make a circle
\* or a chain of more than two: a setter of the statistics may wait for a thread
\* that loads, which waits for readers that go on: m_changingImData is tried, and
\* never waited for, by whoever holds the shared lock (rtimvBase.cpp:2004-2016,
\* 2145, 2401-2422, 2826-2836).
NoCircle ==
    \A p, q \in Procs : Blocks(q, p) =>
        /\ q # p /\ pc[q] # "idle"
        /\ \A r \in Procs : Blocks(r, q) =>
              /\ r # q /\ pc[r] # "idle"
              /\ \A t \in Procs : ~Blocks(t, r)

\* A refresh that was given up is not lost: statistics that are on and have no result
\* are computed by the thread that filters, or will be asked for by the next check, as
\* a refresh is wanted or the inputs are known to have been missing
\* (rtimvBase.cpp:2019-2026, 2140-2181).
RefreshIsKept ==
    stats.enabled /\ stats.status # "valid" =>
        refresh \/ snapshot.status # "valid" \/ \E p \in Procs : pc[p] = "filter"

\* No call waits for ever: the three locks are taken in an order, or tried, so
\* that no circle closes (rtimvBase.cpp:2004-2016, 2145, 2401-2422, 2826-2836).
CallsReturn == \A p \in Setters : pc[p] # "idle" ~> pc[p] = "idle"

\* However calls give way to each other, statistics that are on end up with a
\* result, or with the reason why there is none, also on a static image
\* (agents/plans/global_stats_plan.md: "Handle missing inputs and recovery
\* without requiring a new science frame"; rtimvBase.cpp:2140-2181).
StatsSettle == <>[](stats.enabled => stats.status = InputStatus(sized))

\* rtimvBase.cpp:2828, where a recolor gives up: "Check if we're currently
\* changing image data, this means a recolor is about to happen".
RecolorIsComing ==
    sized /\ (\A p \in Procs : pc[p] = "idle") => painted.colour = colour

\* rtimvBase.hpp:229: m_connected is the "Flag used to indicate that the main
\* image, m_images[0], is connected to its first image"; the server renders
\* m_qim when it is set.
ConnectedHasImage == connected => sized
=============================================================================
