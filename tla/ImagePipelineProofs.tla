------------------------ MODULE ImagePipelineProofs ------------------------
(***************************************************************************)
(* Proofs about ImagePipeline, for any setters, frames and settings: the   *)
(* statistics never read a selection that was not made for them, a         *)
(* published result is about the pixels that are shown, no unfiltered      *)
(* picture is painted over a newer one, nobody waits in a circle for the   *)
(* two locks, and no refresh of the statistics is lost.                    *)
(***************************************************************************)
EXTENDS ImagePipeline, TLAPS

\* The parts of mtxUL_changeImdata, of the check and of the setting of the
\* statistics that read and write them own m_changingImData.
OneChanger ==
    \A p \in Procs :
        pc[p] \in {"settingStats", "checking", "load", "filter"} => changing = p

\* A call goes on to the statistics only if no refresh is wanted ...
Refreshed == \A p \in Procs : pc[p] = "filter" /\ stats.enabled => ~refresh

\* ... and then the selection is there.
SelectionReady ==
    stats.enabled /\ stats.useMask /\ snapshot.status = "valid" /\ ~refresh
        => snapshot.masked

\* There is a result only of an image, while statistics are on.
ResultOfImage == stats.status = "valid" => stats.enabled /\ sized

\* A painter reads under the shared lock ...
PaintersRead ==
    \A p \in Procs : pc[p] \in {"paint", "painting"} => p \in reading

\* ... so that what it is about to write is of the frame that is loaded.
BrushInOrder ==
    \A p \in Procs :
        pc[p] = "painting" =>
            /\ brush[p].frame <= raw
            /\ ~brush[p].filter => brush[p].frame = raw

\* No image is ahead of the frame that is loaded.
FramesInOrder ==
    /\ raw <= frame
    /\ painted.frame <= raw
    /\ filtered.frame <= raw
    /\ ~filtered.filter => filtered.frame = raw

Locking == OneChanger /\ PaintersRead

Statistics == Refreshed /\ SelectionReady /\ ResultOfImage /\ StatsCoherent

Painting == BrushInOrder /\ FramesInOrder

Inv == TypeOK /\ Locking /\ Statistics /\ Painting

\* What a thread is called with, and where it goes, have their types.
LEMMA ProgramType ==
    ASSUME TypeOK, NEW p \in Procs
    PROVE  /\ \A l \in Labels : Goto(p, l) => pc' \in [Procs -> Labels]
           /\ Return(p) => pc' \in [Procs -> Labels]
  BY DEF TypeOK, Goto, Return, Labels

LEMMA ChangeType ==
    ASSUME TypeOK, NEW p \in Procs, NEW new \in BOOLEAN,
           NEW l \in {"idle", "connect", "check"}, Change(p, new, l)
    PROVE  /\ pc' \in [Procs -> Labels]
           /\ then' \in [Procs -> {"idle", "connect", "check"}]
           /\ newdata' \in [Procs -> BOOLEAN]
  BY DEF TypeOK, Goto, Change, Labels

LEMMA NoResultType ==
    ASSUME NEW enabled \in BOOLEAN, NEW useMask \in BOOLEAN, NEW status \in Statuses
    PROVE  /\ NoResult(enabled, useMask, status) \in Stats
           /\ NoResult(enabled, useMask, status).enabled = enabled
           /\ NoResult(enabled, useMask, status).useMask = useMask
           /\ NoResult(enabled, useMask, status).status = status
           /\ NoResult(enabled, useMask, status).of = NoPixels
  BY DEF NoResult, Stats, Statuses, NoPixels, Unfiltered, Pixels

LEMMA InputStatusType ==
    ASSUME TypeOK, NEW allocated \in BOOLEAN
    PROVE  InputStatus(allocated) \in Statuses
  BY DEF InputStatus, Statuses, TypeOK, Stats

\* The initial state: nothing is held, loaded or shown.
LEMMA InitInv == Init => Inv
<1> SUFFICES ASSUME Init PROVE Inv
  OBVIOUS
<1>1. TypeOK
  <2>1. /\ filtered \in Pixels /\ painted \in Pictures
        /\ snapshot \in Snapshots /\ stats \in Stats
    BY NoResultType
       DEF Init, NoPixels, Unfiltered, NoPicture, Pixels, Pictures, Snapshots, Statuses
  <2>2. wish \in [Procs -> Wishes] /\ brush \in [Procs -> Pictures]
    BY DEF Init, Wishes, NoPicture, Pictures
  <2>3. /\ pc \in [Procs -> Labels]
        /\ then \in [Procs -> {"idle", "connect", "check"}]
        /\ newdata \in [Procs -> BOOLEAN]
    BY DEF Init, Labels
  <2>4. QED
    BY <2>1, <2>2, <2>3 DEF Init, TypeOK
<1>2. Locking /\ Statistics /\ Painting
  BY NoResultType
     DEF Init, Locking, OneChanger, PaintersRead, Statistics, Refreshed, SelectionReady,
         ResultOfImage, StatsCoherent, Painting, BrushInOrder, FramesInOrder, NoPixels,
         Unfiltered, NoPicture, NoResult
<1>3. QED
  BY <1>1, <1>2 DEF Inv

\* Every step keeps the types.
LEMMA TypeStep ==
    ASSUME TypeOK, [Next]_vars
    PROVE  TypeOK'
<1>1. ASSUME NEW p \in Procs, SetFilter(p) PROVE TypeOK'
  <2>1. /\ pc' \in [Procs -> Labels]
        /\ then' \in [Procs -> {"idle", "connect", "check"}]
        /\ newdata' \in [Procs -> BOOLEAN]
    BY <1>1, ChangeType DEF SetFilter, Procs
  <2>2. QED
    BY <1>1, <2>1
       DEF SetFilter, Set, TypeOK, sources, choices, locks, data, global, locals
<1>2. ASSUME NEW p \in Procs, SetCalibration(p) PROVE TypeOK'
  <2>1. /\ pc' \in [Procs -> Labels]
        /\ then' \in [Procs -> {"idle", "connect", "check"}]
        /\ newdata' \in [Procs -> BOOLEAN]
    BY <1>2, ChangeType DEF SetCalibration, Procs
  <2>2. QED
    BY <1>2, <2>1
       DEF SetCalibration, Set, TypeOK, sources, choices, locks, data, global, locals
<1>3. ASSUME NEW p \in Procs, SetColour(p) PROVE TypeOK'
  BY <1>3, ProgramType
     DEF SetColour, Set, TypeOK, Labels, Procs, sources, choices, locks, data, global,
         locals
<1>4. ASSUME NEW p \in Procs, SetColormode(p) PROVE TypeOK'
  <2>1. pc' \in [Procs -> Labels]
    BY <1>4, ProgramType DEF SetColormode, Labels
  <2>2. then' \in [Procs -> {"idle", "connect", "check"}]
    BY <1>4 DEF SetColormode, TypeOK
  <2>3. QED
    BY <1>4, <2>1, <2>2
       DEF SetColormode, Set, TypeOK, sources, choices, locks, data, global, locals
<1>5. ASSUME NEW p \in Procs, NEW enabled \in BOOLEAN, NEW useMask \in BOOLEAN,
            SetStats(p, enabled, useMask)
     PROVE  TypeOK'
  <2>1. wish' \in [Procs -> Wishes]
    BY <1>5 DEF SetStats, TypeOK, Wishes
  <2>2. pc' \in [Procs -> Labels]
    BY <1>5, ProgramType DEF SetStats, Labels
  <2>3. QED
    BY <1>5, <2>1, <2>2
       DEF SetStats, Set, TypeOK, sources, choices, locks, data, global, locals
<1>6. CASE NewFrame
  <2>1. /\ pc' \in [Procs -> Labels]
        /\ then' \in [Procs -> {"idle", "connect", "check"}]
        /\ newdata' \in [Procs -> BOOLEAN]
    BY <1>6, ChangeType DEF NewFrame, Procs
  <2>2. QED
    BY <1>6, <2>1 DEF NewFrame, TypeOK, sources, choices, locks, data, global, locals
<1>7. CASE NewMask
  <2>1. /\ pc' \in [Procs -> Labels]
        /\ then' \in [Procs -> {"idle", "connect", "check"}]
        /\ newdata' \in [Procs -> BOOLEAN]
    BY <1>7, ChangeType DEF NewMask, Procs
  <2>2. QED
    BY <1>7, <2>1
       DEF NewMask, Input, TypeOK, sources, choices, locks, data, global, locals
<1>8. CASE LoseImage
  <2>1. pc' \in [Procs -> Labels]
    BY <1>8, ProgramType DEF LoseImage, Labels, Procs
  <2>2. valid' \in BOOLEAN /\ mask' \in BOOLEAN
    BY <1>8 DEF LoseImage, TypeOK
  <2>3. QED
    BY <1>8, <2>1, <2>2
       DEF LoseImage, Input, TypeOK, sources, choices, locks, data, global, locals
<1>9. CASE NoUpdate
  BY <1>9, ProgramType
     DEF NoUpdate, TypeOK, Labels, Procs, sources, choices, locks, data, global, locals
<1>10. CASE OnConnect
  BY <1>10, ProgramType
     DEF OnConnect, TypeOK, Labels, Procs, sources, choices, locks, data, global,
         locals
<1>11. ASSUME NEW p \in Procs, StoreStats(p) PROVE TypeOK'
  <2>1. wish[p].enabled \in BOOLEAN /\ wish[p].useMask \in BOOLEAN
    BY DEF TypeOK, Wishes
  <2>2. stats' \in Stats /\ refresh' \in BOOLEAN
    BY <1>11, <2>1, NoResultType DEF StoreStats, Statuses
  <2>3. /\ pc' \in [Procs -> Labels]
        /\ then' \in [Procs -> {"idle", "connect", "check"}]
        /\ newdata' \in [Procs -> BOOLEAN]
    BY <1>11, <2>1, ProgramType, ChangeType DEF StoreStats, Labels, TypeOK
  <2>4. QED
    BY <1>11, <2>2, <2>3
       DEF StoreStats, TypeOK, sources, choices, locks, data, global, locals
<1>12. ASSUME NEW p \in Procs, TryCheck(p) PROVE TypeOK'
  BY <1>12, ProgramType
     DEF TryCheck, TypeOK, Labels, Procs, sources, choices, locks, data, global, locals
<1>13. ASSUME NEW p \in Procs, Check(p) PROVE TypeOK'
  <2> DEFINE status == InputStatus(sized)
  <2>1. status \in Statuses
    BY InputStatusType DEF TypeOK
  <2>2. snapshot' \in Snapshots /\ stats' \in Stats /\ refresh' \in BOOLEAN
    <3>1. stats.useMask \in BOOLEAN
      BY DEF TypeOK, Stats
    <3>2. NoResult(TRUE, stats.useMask, status) \in Stats
      BY <2>1, <3>1, NoResultType
    <3>3. [status |-> status, masked |-> FALSE] \in Snapshots
      BY <2>1 DEF Snapshots
    <3>4. QED
      BY <1>13, <2>1, <3>2, <3>3
         DEF Check, TypeOK, RefreshNeeded, sources, choices, locks, data, global,
             locals
  <2>3. /\ pc' \in [Procs -> Labels]
        /\ then' \in [Procs -> {"idle", "connect", "check"}]
        /\ newdata' \in [Procs -> BOOLEAN]
    BY <1>13, ProgramType, ChangeType DEF Check, Labels, TypeOK
  <2>4. QED
    BY <1>13, <2>2, <2>3
       DEF Check, TypeOK, sources, choices, locks, data, global, locals
<1>14. ASSUME NEW p \in Procs, TryChange(p) PROVE TypeOK'
  BY <1>14, ProgramType
     DEF TryChange, TypeOK, Labels, Procs, sources, choices, locks, data, global,
         locals
<1>15. ASSUME NEW p \in Procs, Filter(p) PROVE TypeOK'
  <2>1. /\ snapshot.status \in Statuses
        /\ stats.useMask \in BOOLEAN
    BY DEF TypeOK, Stats, Snapshots
  <2>2. filtered' \in Pixels
    <3>1. [frame |-> raw, filter |-> filter] \in Pixels
      BY DEF TypeOK, Pixels
    <3>2. QED
      BY <1>15, <3>1 DEF Filter, Processed, ResultFor, TypeOK
  <2>3. NoResult(TRUE, stats.useMask, snapshot.status) \in Stats
    BY <2>1, NoResultType
  <2>4. [stats EXCEPT !.status = "valid", !.of = filtered'] \in Stats
    BY <2>2 DEF TypeOK, Stats, Statuses
  <2>5. stats' \in Stats
    BY <1>15, <2>3, <2>4 DEF Filter, Processed, ResultFor, TypeOK
  <2>6. pc' \in [Procs -> Labels]
    BY <1>15, ProgramType DEF Filter, Processed, ResultFor, Labels
  <2>7. QED
    BY <1>15, <2>2, <2>5, <2>6
       DEF Filter, Processed, ResultFor, TypeOK, sources, choices, locks, data, global,
           locals
<1>16. ASSUME NEW p \in Procs, Recolor(p) PROVE TypeOK'
  <2>1. pc' \in [Procs -> Labels]
    BY <1>16, ProgramType DEF Recolor, Labels, TypeOK
  <2>2. then' \in [Procs -> {"idle", "connect", "check"}]
    BY <1>16 DEF Recolor, TypeOK
  <2>3. QED
    BY <1>16, <2>1, <2>2
       DEF Recolor, TypeOK, sources, choices, locks, data, global, locals
<1>17. ASSUME NEW p \in Procs, StartPainting(p) PROVE TypeOK'
  <2>1. brush' \in [Procs -> Pictures]
    BY <1>17 DEF StartPainting, Coloured, TypeOK, Pictures, Pixels
  <2>2. pc' \in [Procs -> Labels]
    BY <1>17, ProgramType DEF StartPainting, Coloured, Labels
  <2>3. QED
    BY <1>17, <2>1, <2>2
       DEF StartPainting, Coloured, TypeOK, sources, choices, locks, data, global,
           locals
<1>18. ASSUME NEW p \in Procs, EndPainting(p) PROVE TypeOK'
  BY <1>18, ProgramType
     DEF EndPainting, TypeOK, Labels, Procs, sources, choices, locks, data, global,
         locals
<1>19. ASSUME NEW p \in Procs, Release(p) PROVE TypeOK'
  BY <1>19, ProgramType
     DEF Release, TypeOK, Labels, Procs, sources, choices, locks, data, global, locals
<1>20. ASSUME NEW p \in Procs, LockStats(p) PROVE TypeOK'
  BY <1>20, ProgramType
     DEF LockStats, TypeOK, Labels, Procs, sources, choices, locks, data, global,
         locals
<1>21. ASSUME NEW p \in Procs, Load(p) PROVE TypeOK'
  <2>1. InputStatus(TRUE) \in Statuses
    BY InputStatusType
  <2>2. [status |-> InputStatus(TRUE),
         masked |-> stats.useMask /\ InputStatus(TRUE) = "valid"] \in Snapshots
    BY <2>1 DEF Snapshots, TypeOK, Stats
  <2>3. Unfiltered(frame) \in Pixels
    BY DEF Unfiltered, Pixels, TypeOK
  <2>4. snapshot' \in Snapshots /\ filtered' \in Pixels /\ raw' \in Nat
    BY <1>21, <2>2, <2>3
       DEF Load, Snapshot, TypeOK, sources, choices, locks, data, global, locals
  <2>5. refresh' \in BOOLEAN /\ sized' \in BOOLEAN
    BY <1>21 DEF Load, Snapshot, TypeOK, sources, choices, locks, data, global, locals
  <2>6. pc' \in [Procs -> Labels]
    BY <1>21, ProgramType DEF Load, Snapshot, Labels
  <2>7. QED
    BY <1>21, <2>4, <2>5, <2>6
       DEF Load, Snapshot, TypeOK, sources, choices, locks, data, global, locals
<1>22. CASE UNCHANGED vars
  BY <1>22 DEF vars, TypeOK, sources, choices, locks, data, global, locals
<1>23. QED
  BY <1>1, <1>2, <1>3, <1>4, <1>5, <1>6, <1>7, <1>8, <1>9, <1>10, <1>11, <1>12, <1>13,
     <1>14, <1>15, <1>16, <1>17, <1>18, <1>19, <1>20, <1>21, <1>22
     DEF Next, Timer, Setter, Running, Waiting

\* m_changingImData has one owner, and painters hold the shared lock.
LEMMA LockingStep ==
    ASSUME TypeOK, Locking, [Next]_vars
    PROVE  Locking'
<1>1. ASSUME NEW p \in Procs, SetFilter(p) PROVE Locking'
  BY <1>1, ProcsAssumption
     DEF SetFilter, Set, Locking, OneChanger, PaintersRead, TypeOK, Procs, Goto,
         Return, Change, sources, choices, locks, data, global, locals
<1>2. ASSUME NEW p \in Procs, SetCalibration(p) PROVE Locking'
  BY <1>2, ProcsAssumption
     DEF SetCalibration, Set, Locking, OneChanger, PaintersRead, TypeOK, Procs, Goto,
         Return, Change, sources, choices, locks, data, global, locals
<1>3. ASSUME NEW p \in Procs, SetColour(p) PROVE Locking'
  BY <1>3, ProcsAssumption
     DEF SetColour, Set, Locking, OneChanger, PaintersRead, TypeOK, Procs, Goto,
         Return, Change, sources, choices, locks, data, global, locals
<1>4. ASSUME NEW p \in Procs, SetColormode(p) PROVE Locking'
  BY <1>4, ProcsAssumption
     DEF SetColormode, Set, Locking, OneChanger, PaintersRead, TypeOK, Procs, Goto,
         Return, Change, sources, choices, locks, data, global, locals
<1>5. ASSUME NEW p \in Procs, NEW enabled \in BOOLEAN, NEW useMask \in BOOLEAN,
            SetStats(p, enabled, useMask)
     PROVE  Locking'
  BY <1>5, ProcsAssumption
     DEF SetStats, Set, Locking, OneChanger, PaintersRead, TypeOK, Procs, Goto, Return,
         Change, sources, choices, locks, data, global, locals
<1>6. CASE NewFrame
  BY <1>6, ProcsAssumption
     DEF NewFrame, Locking, OneChanger, PaintersRead, TypeOK, Procs, Goto, Return,
         Change, sources, choices, locks, data, global, locals
<1>7. CASE NewMask
  BY <1>7, ProcsAssumption
     DEF NewMask, Input, Locking, OneChanger, PaintersRead, TypeOK, Procs, Goto,
         Return, Change, sources, choices, locks, data, global, locals
<1>8. CASE LoseImage
  BY <1>8, ProcsAssumption
     DEF LoseImage, Input, Locking, OneChanger, PaintersRead, TypeOK, Procs, Goto,
         Return, Change, sources, choices, locks, data, global, locals
<1>9. CASE NoUpdate
  BY <1>9, ProcsAssumption
     DEF NoUpdate, Locking, OneChanger, PaintersRead, TypeOK, Procs, Goto, Return,
         Change, sources, choices, locks, data, global, locals
<1>10. CASE OnConnect
  BY <1>10, ProcsAssumption
     DEF OnConnect, Locking, OneChanger, PaintersRead, TypeOK, Procs, Goto, Return,
         Change, sources, choices, locks, data, global, locals
<1>11. ASSUME NEW p \in Procs, StoreStats(p) PROVE Locking'
  BY <1>11, ProcsAssumption
     DEF StoreStats, Locking, OneChanger, PaintersRead, TypeOK, Procs, Goto, Return,
         Change, sources, choices, locks, data, global, locals
<1>12. ASSUME NEW p \in Procs, TryCheck(p) PROVE Locking'
  BY <1>12, ProcsAssumption
     DEF TryCheck, Locking, OneChanger, PaintersRead, TypeOK, Procs, Goto, Return,
         Change, sources, choices, locks, data, global, locals
<1>13. ASSUME NEW p \in Procs, Check(p) PROVE Locking'
  <2>1. PICK label \in {"idle", "change"} : pc' = [pc EXCEPT ![p] = label]
    BY <1>13 DEF Check, Goto, Change
  <2>2. pc[p] = "checking" /\ changing' = Free /\ reading' = reading
    BY <1>13 DEF Check
  <2>3. /\ pc'[p] = label /\ \A r \in Procs : r # p => pc'[r] = pc[r]
    BY <2>1 DEF TypeOK
  <2>4. OneChanger'
    BY <2>2, <2>3 DEF Locking, OneChanger
  <2>5. PaintersRead'
    BY <2>2, <2>3 DEF Locking, PaintersRead
  <2> QED BY <2>4, <2>5 DEF Locking
<1>14. ASSUME NEW p \in Procs, TryChange(p) PROVE Locking'
  BY <1>14, ProcsAssumption
     DEF TryChange, Locking, OneChanger, PaintersRead, TypeOK, Procs, Goto, Return,
         Change, sources, choices, locks, data, global, locals
<1>15. ASSUME NEW p \in Procs, Filter(p) PROVE Locking'
  BY <1>15, ProcsAssumption
     DEF Filter, Processed, ResultFor, Locking, OneChanger, PaintersRead, TypeOK,
         Procs, Goto, Return, Change, sources, choices, locks, data, global, locals
<1>16. ASSUME NEW p \in Procs, Recolor(p) PROVE Locking'
  BY <1>16, ProcsAssumption
     DEF Recolor, Locking, OneChanger, PaintersRead, TypeOK, Procs, Goto, Return,
         Change, sources, choices, locks, data, global, locals
<1>17. ASSUME NEW p \in Procs, StartPainting(p) PROVE Locking'
  BY <1>17, ProcsAssumption
     DEF StartPainting, Coloured, Locking, OneChanger, PaintersRead, TypeOK, Procs,
         Goto, Return, Change, sources, choices, locks, data, global, locals
<1>18. ASSUME NEW p \in Procs, EndPainting(p) PROVE Locking'
  BY <1>18, ProcsAssumption
     DEF EndPainting, Locking, OneChanger, PaintersRead, TypeOK, Procs, Goto, Return,
         Change, sources, choices, locks, data, global, locals
<1>19. ASSUME NEW p \in Procs, Release(p) PROVE Locking'
  BY <1>19, ProcsAssumption
     DEF Release, Locking, OneChanger, PaintersRead, TypeOK, Procs, Goto, Return,
         Change, sources, choices, locks, data, global, locals
<1>20. ASSUME NEW p \in Procs, LockStats(p) PROVE Locking'
  BY <1>20, ProcsAssumption
     DEF LockStats, Locking, OneChanger, PaintersRead, TypeOK, Procs, Goto, Return,
         Change, sources, choices, locks, data, global, locals
<1>21. ASSUME NEW p \in Procs, Load(p) PROVE Locking'
  BY <1>21, ProcsAssumption
     DEF Load, Snapshot, Locking, OneChanger, PaintersRead, TypeOK, Procs, Goto,
         Return, Change, sources, choices, locks, data, global, locals
<1>22. CASE UNCHANGED vars
  BY <1>22
     DEF vars, Locking, OneChanger, PaintersRead, sources, choices, locks, data,
         global, locals
<1>23. QED
  BY <1>1, <1>2, <1>3, <1>4, <1>5, <1>6, <1>7, <1>8, <1>9, <1>10, <1>11, <1>12, <1>13,
     <1>14, <1>15, <1>16, <1>17, <1>18, <1>19, <1>20, <1>21, <1>22
     DEF Next, Timer, Setter, Running, Waiting

\* The selection and the result follow the settings and the pixels.
LEMMA StatisticsStep ==
    ASSUME TypeOK, Locking, Statistics, [Next]_vars
    PROVE  Statistics'
<1>1. ASSUME NEW p \in Procs, SetFilter(p) PROVE Statistics'
  BY <1>1, ProcsAssumption
     DEF SetFilter, Set, Locking, OneChanger, Statistics, Refreshed, SelectionReady,
         ResultOfImage, StatsCoherent, TypeOK, Procs, Goto, Return, Change, sources,
         choices, locks, data, global, locals
<1>2. ASSUME NEW p \in Procs, SetCalibration(p) PROVE Statistics'
  BY <1>2, ProcsAssumption
     DEF SetCalibration, Set, Locking, OneChanger, Statistics, Refreshed,
         SelectionReady, ResultOfImage, StatsCoherent, TypeOK, Procs, Goto, Return,
         Change, sources, choices, locks, data, global, locals
<1>3. ASSUME NEW p \in Procs, SetColour(p) PROVE Statistics'
  BY <1>3, ProcsAssumption
     DEF SetColour, Set, Locking, OneChanger, Statistics, Refreshed, SelectionReady,
         ResultOfImage, StatsCoherent, TypeOK, Procs, Goto, Return, Change, sources,
         choices, locks, data, global, locals
<1>4. ASSUME NEW p \in Procs, SetColormode(p) PROVE Statistics'
  BY <1>4, ProcsAssumption
     DEF SetColormode, Set, Locking, OneChanger, Statistics, Refreshed, SelectionReady,
         ResultOfImage, StatsCoherent, TypeOK, Procs, Goto, Return, Change, sources,
         choices, locks, data, global, locals
<1>5. ASSUME NEW p \in Procs, NEW enabled \in BOOLEAN, NEW useMask \in BOOLEAN,
            SetStats(p, enabled, useMask)
     PROVE  Statistics'
  BY <1>5, ProcsAssumption
     DEF SetStats, Set, Locking, OneChanger, Statistics, Refreshed, SelectionReady,
         ResultOfImage, StatsCoherent, TypeOK, Procs, Goto, Return, Change, sources,
         choices, locks, data, global, locals
<1>6. CASE NewFrame
  BY <1>6, ProcsAssumption
     DEF NewFrame, Locking, OneChanger, Statistics, Refreshed, SelectionReady,
         ResultOfImage, StatsCoherent, TypeOK, Procs, Goto, Return, Change, sources,
         choices, locks, data, global, locals
<1>7. CASE NewMask
  BY <1>7, ProcsAssumption
     DEF NewMask, Input, Locking, OneChanger, Statistics, Refreshed, SelectionReady,
         ResultOfImage, StatsCoherent, TypeOK, Procs, Goto, Return, Change, sources,
         choices, locks, data, global, locals
<1>8. CASE LoseImage
  BY <1>8, ProcsAssumption
     DEF LoseImage, Input, Locking, OneChanger, Statistics, Refreshed, SelectionReady,
         ResultOfImage, StatsCoherent, TypeOK, Procs, Goto, Return, Change, sources,
         choices, locks, data, global, locals
<1>9. CASE NoUpdate
  BY <1>9, ProcsAssumption
     DEF NoUpdate, Locking, OneChanger, Statistics, Refreshed, SelectionReady,
         ResultOfImage, StatsCoherent, TypeOK, Procs, Goto, Return, Change, sources,
         choices, locks, data, global, locals
<1>10. CASE OnConnect
  BY <1>10, ProcsAssumption
     DEF OnConnect, Locking, OneChanger, Statistics, Refreshed, SelectionReady,
         ResultOfImage, StatsCoherent, TypeOK, Procs, Goto, Return, Change, sources,
         choices, locks, data, global, locals
<1>11. ASSUME NEW p \in Procs, StoreStats(p) PROVE Statistics'
  <2>1. \A q \in Procs : pc'[q] # "filter"
    BY <1>11, ProcsAssumption DEF StoreStats, Locking, OneChanger, Goto, Change, TypeOK
  <2>2. wish[p].enabled \in BOOLEAN /\ wish[p].useMask \in BOOLEAN
    BY DEF TypeOK, Wishes
  <2>3. /\ stats'.enabled = wish[p].enabled
        /\ stats'.status = "unavailable"
        /\ refresh' = wish[p].enabled
    BY <1>11, <2>2, NoResultType DEF StoreStats, Statuses
  <2>4. QED
    BY <2>1, <2>3
       DEF Statistics, Refreshed, SelectionReady, ResultOfImage, StatsCoherent
<1>12. ASSUME NEW p \in Procs, TryCheck(p) PROVE Statistics'
  BY <1>12, ProcsAssumption
     DEF TryCheck, Locking, OneChanger, Statistics, Refreshed, SelectionReady,
         ResultOfImage, StatsCoherent, TypeOK, Procs, Goto, Return, Change, sources,
         choices, locks, data, global, locals
<1>13. ASSUME NEW p \in Procs, Check(p) PROVE Statistics'
  <2> DEFINE status == InputStatus(sized)
  <2>1. \A q \in Procs : pc'[q] # "filter"
    <3>1. \A q \in Procs : pc[q] # "filter"
      BY <1>13, ProcsAssumption DEF Check, Locking, OneChanger
    <3>2. Goto(p, "idle") \/ Goto(p, "change")
      BY <1>13 DEF Check, Change
    <3>3. QED
      BY <3>1, <3>2 DEF Goto, TypeOK
  <2>2. UNCHANGED <<sized, filtered>>
    BY <1>13 DEF Check, data
  <2>3. CASE ~stats.enabled \/ status = "valid"
    <3>1. UNCHANGED <<stats, snapshot>> /\ (stats.enabled /\ refresh => refresh')
      BY <1>13, <2>3 DEF Check, RefreshNeeded, global
    <3>2. \A q \in Procs : pc[q] # "filter"
      BY <1>13, ProcsAssumption DEF Check, Locking, OneChanger, Goto, Change, TypeOK
    <3>3. QED
      BY <2>1, <2>2, <3>1, <3>2
         DEF Statistics, Refreshed, SelectionReady, ResultOfImage, StatsCoherent
  <2>4. CASE stats.enabled /\ status # "valid"
    <3>1. status \in Statuses /\ stats.useMask \in BOOLEAN
      BY InputStatusType DEF TypeOK, Stats
    <3>2. /\ stats' = NoResult(TRUE, stats.useMask, status)
          /\ snapshot' = [status |-> status, masked |-> FALSE]
      BY <1>13, <2>4 DEF Check
    <3>3. stats'.status = status /\ snapshot'.status = status
      BY <3>1, <3>2, NoResultType
    <3>4. QED
      BY <2>1, <2>4, <3>3
         DEF Statistics, Refreshed, SelectionReady, ResultOfImage, StatsCoherent
  <2>5. QED
    BY <2>3, <2>4
<1>14. ASSUME NEW p \in Procs, TryChange(p) PROVE Statistics'
  BY <1>14, ProcsAssumption
     DEF TryChange, Locking, OneChanger, Statistics, Refreshed, SelectionReady,
         ResultOfImage, StatsCoherent, TypeOK, Procs, Goto, Return, Change, sources,
         choices, locks, data, global, locals
<1>15. ASSUME NEW p \in Procs, Filter(p) PROVE Statistics'
  <2>1. \A q \in Procs : pc'[q] # "filter"
    BY <1>15, ProcsAssumption
       DEF Filter, Processed, ResultFor, Locking, OneChanger, Goto, Return, TypeOK
  <2>2. UNCHANGED <<sized, refresh, snapshot>>
    BY <1>15 DEF Filter, Processed, ResultFor
  <2>3. CASE ~sized
    BY <1>15, <2>1, <2>2, <2>3
       DEF Filter, Processed, ResultFor, Statistics, Refreshed, SelectionReady, ResultOfImage, StatsCoherent
  <2>4. CASE sized /\ ~stats.enabled
    BY <1>15, <2>1, <2>2, <2>4
       DEF Filter, Processed, ResultFor, Statistics, Refreshed, SelectionReady, ResultOfImage, StatsCoherent
  <2>5. CASE sized /\ stats.enabled /\ snapshot.status # "valid"
    <3>1. snapshot.status \in Statuses /\ stats.useMask \in BOOLEAN
      BY DEF TypeOK, Stats, Snapshots
    <3>2. stats' = NoResult(TRUE, stats.useMask, snapshot.status)
      BY <1>15, <2>5 DEF Filter, Processed, ResultFor
    <3>3. stats'.status = snapshot.status
      BY <3>1, <3>2, NoResultType
    <3>4. QED
      BY <2>1, <2>2, <2>5, <3>3
         DEF Statistics, Refreshed, SelectionReady, ResultOfImage, StatsCoherent
  <2>6. CASE sized /\ stats.enabled /\ snapshot.status = "valid"
    <3>1. stats' = [stats EXCEPT !.status = "valid", !.of = filtered']
      BY <1>15, <2>6 DEF Filter, Processed, ResultFor
    <3>2. /\ stats'.enabled = stats.enabled
          /\ stats'.useMask = stats.useMask
          /\ stats'.of = filtered'
      BY <3>1 DEF TypeOK, Stats
    <3>3. QED
      BY <2>1, <2>2, <2>6, <3>2
         DEF Statistics, Refreshed, SelectionReady, ResultOfImage, StatsCoherent
  <2>7. QED
    BY <2>3, <2>4, <2>5, <2>6
<1>16. ASSUME NEW p \in Procs, Recolor(p) PROVE Statistics'
  BY <1>16, ProcsAssumption
     DEF Recolor, Locking, OneChanger, Statistics, Refreshed, SelectionReady,
         ResultOfImage, StatsCoherent, TypeOK, Procs, Goto, Return, Change, sources,
         choices, locks, data, global, locals
<1>17. ASSUME NEW p \in Procs, StartPainting(p) PROVE Statistics'
  BY <1>17, ProcsAssumption
     DEF StartPainting, Coloured, Locking, OneChanger, Statistics, Refreshed,
         SelectionReady, ResultOfImage, StatsCoherent, TypeOK, Procs, Goto, Return,
         Change, sources, choices, locks, data, global, locals
<1>18. ASSUME NEW p \in Procs, EndPainting(p) PROVE Statistics'
  BY <1>18, ProcsAssumption
     DEF EndPainting, Locking, OneChanger, Statistics, Refreshed, SelectionReady,
         ResultOfImage, StatsCoherent, TypeOK, Procs, Goto, Return, Change, sources,
         choices, locks, data, global, locals
<1>19. ASSUME NEW p \in Procs, Release(p) PROVE Statistics'
  BY <1>19, ProcsAssumption
     DEF Release, Locking, OneChanger, Statistics, Refreshed, SelectionReady,
         ResultOfImage, StatsCoherent, TypeOK, Procs, Goto, Return, Change, sources,
         choices, locks, data, global, locals
<1>20. ASSUME NEW p \in Procs, LockStats(p) PROVE Statistics'
  BY <1>20, ProcsAssumption
     DEF LockStats, Locking, OneChanger, Statistics, Refreshed, SelectionReady,
         ResultOfImage, StatsCoherent, TypeOK, Procs, Goto, Return, Change, sources,
         choices, locks, data, global, locals
<1>21. ASSUME NEW p \in Procs, Load(p) PROVE Statistics'
  <2>1. \A q \in Procs : q # p => pc[q] # "filter" /\ pc'[q] # "filter"
    BY <1>21, ProcsAssumption
       DEF Load, Snapshot, Locking, OneChanger, Goto, Return, TypeOK
  <2>2. CASE ~valid
    <3>1. pc'[p] # "filter" /\ pc[p] # "filter"
      BY <1>21, <2>2 DEF Load, Snapshot, Return, Goto, TypeOK
    <3>2. UNCHANGED <<sized, filtered, refresh, snapshot, stats>>
      BY <1>21, <2>2 DEF Load, Snapshot, data, global
    <3>3. QED
      BY <2>1, <3>1, <3>2
         DEF Statistics, Refreshed, SelectionReady, ResultOfImage, StatsCoherent
  <2>3. CASE valid
    <3>1. /\ pc'[p] = "filter"
          /\ sized'
          /\ refresh' = (refresh /\ ~stats.enabled)
          /\ UNCHANGED stats
      BY <1>21, <2>3 DEF Load, Snapshot, Goto, TypeOK
    <3>2. stats.enabled /\ stats.useMask /\ snapshot'.status = "valid" => snapshot'.masked
      <4> SUFFICES ASSUME stats.enabled, stats.useMask, snapshot'.status = "valid"
                   PROVE  snapshot'.masked
        OBVIOUS
      <4>1. snapshot' = [status |-> InputStatus(TRUE),
                         masked |-> stats.useMask /\ InputStatus(TRUE) = "valid"]
        BY <1>21, <2>3 DEF Load, Snapshot
      <4>2. InputStatus(TRUE) = "valid"
        BY <4>1
      <4>3. snapshot'.masked = (stats.useMask /\ InputStatus(TRUE) = "valid")
        BY <4>1
      <4>4. QED
        BY <4>2, <4>3
    <3>3. QED
      BY <3>1, <3>2
         DEF Statistics, Refreshed, SelectionReady, ResultOfImage, StatsCoherent
  <2>4. QED
    BY <2>2, <2>3
<1>22. CASE UNCHANGED vars
  BY <1>22
     DEF vars, Statistics, Refreshed, SelectionReady, ResultOfImage, StatsCoherent,
         sources, choices, locks, data, global, locals
<1>23. QED
  BY <1>1, <1>2, <1>3, <1>4, <1>5, <1>6, <1>7, <1>8, <1>9, <1>10, <1>11, <1>12, <1>13,
     <1>14, <1>15, <1>16, <1>17, <1>18, <1>19, <1>20, <1>21, <1>22
     DEF Next, Timer, Setter, Running, Waiting

\* Frames, pixels and pictures are in order.
LEMMA PaintingStep ==
    ASSUME TypeOK, Locking, Painting, [Next]_vars
    PROVE  Painting'
<1>1. ASSUME NEW p \in Procs, SetFilter(p) PROVE Painting'
  BY <1>1
     DEF SetFilter, Set, Locking, PaintersRead, Painting, BrushInOrder, FramesInOrder,
         TypeOK, Pixels, Pictures, Procs, Goto, Return, Change, sources, choices,
         locks, data, global, locals
<1>2. ASSUME NEW p \in Procs, SetCalibration(p) PROVE Painting'
  BY <1>2
     DEF SetCalibration, Set, Locking, PaintersRead, Painting, BrushInOrder,
         FramesInOrder, TypeOK, Pixels, Pictures, Procs, Goto, Return, Change, sources,
         choices, locks, data, global, locals
<1>3. ASSUME NEW p \in Procs, SetColour(p) PROVE Painting'
  BY <1>3
     DEF SetColour, Set, Locking, PaintersRead, Painting, BrushInOrder, FramesInOrder,
         TypeOK, Pixels, Pictures, Procs, Goto, Return, Change, sources, choices,
         locks, data, global, locals
<1>4. ASSUME NEW p \in Procs, SetColormode(p) PROVE Painting'
  BY <1>4
     DEF SetColormode, Set, Locking, PaintersRead, Painting, BrushInOrder,
         FramesInOrder, TypeOK, Pixels, Pictures, Procs, Goto, Return, Change, sources,
         choices, locks, data, global, locals
<1>5. ASSUME NEW p \in Procs, NEW enabled \in BOOLEAN, NEW useMask \in BOOLEAN,
            SetStats(p, enabled, useMask)
     PROVE  Painting'
  BY <1>5
     DEF SetStats, Set, Locking, PaintersRead, Painting, BrushInOrder, FramesInOrder,
         TypeOK, Pixels, Pictures, Procs, Goto, Return, Change, sources, choices,
         locks, data, global, locals
<1>6. CASE NewFrame
  BY <1>6
     DEF NewFrame, Locking, PaintersRead, Painting, BrushInOrder, FramesInOrder,
         TypeOK, Pixels, Pictures, Procs, Goto, Return, Change, sources, choices,
         locks, data, global, locals
<1>7. CASE NewMask
  BY <1>7
     DEF NewMask, Input, Locking, PaintersRead, Painting, BrushInOrder, FramesInOrder,
         TypeOK, Pixels, Pictures, Procs, Goto, Return, Change, sources, choices,
         locks, data, global, locals
<1>8. CASE LoseImage
  BY <1>8
     DEF LoseImage, Input, Locking, PaintersRead, Painting, BrushInOrder,
         FramesInOrder, TypeOK, Pixels, Pictures, Procs, Goto, Return, Change, sources,
         choices, locks, data, global, locals
<1>9. CASE NoUpdate
  BY <1>9
     DEF NoUpdate, Locking, PaintersRead, Painting, BrushInOrder, FramesInOrder,
         TypeOK, Pixels, Pictures, Procs, Goto, Return, Change, sources, choices,
         locks, data, global, locals
<1>10. CASE OnConnect
  BY <1>10
     DEF OnConnect, Locking, PaintersRead, Painting, BrushInOrder, FramesInOrder,
         TypeOK, Pixels, Pictures, Procs, Goto, Return, Change, sources, choices,
         locks, data, global, locals
<1>11. ASSUME NEW p \in Procs, StoreStats(p) PROVE Painting'
  BY <1>11
     DEF StoreStats, Locking, PaintersRead, Painting, BrushInOrder, FramesInOrder,
         TypeOK, Pixels, Pictures, Procs, Goto, Return, Change, sources, choices,
         locks, data, global, locals
<1>12. ASSUME NEW p \in Procs, TryCheck(p) PROVE Painting'
  BY <1>12
     DEF TryCheck, Locking, PaintersRead, Painting, BrushInOrder, FramesInOrder,
         TypeOK, Pixels, Pictures, Procs, Goto, Return, Change, sources, choices,
         locks, data, global, locals
<1>13. ASSUME NEW p \in Procs, Check(p) PROVE Painting'
  BY <1>13
     DEF Check, RefreshNeeded, Locking, PaintersRead, Painting, BrushInOrder,
         FramesInOrder, TypeOK, Pixels, Pictures, Procs, Goto, Return, Change, sources,
         choices, locks, data, global, locals
<1>14. ASSUME NEW p \in Procs, TryChange(p) PROVE Painting'
  BY <1>14
     DEF TryChange, Locking, PaintersRead, Painting, BrushInOrder, FramesInOrder,
         TypeOK, Pixels, Pictures, Procs, Goto, Return, Change, sources, choices,
         locks, data, global, locals
<1>15. ASSUME NEW p \in Procs, Filter(p) PROVE Painting'
  <2>1. UNCHANGED <<frame, raw, painted, brush>>
    BY <1>15 DEF Filter, Processed, ResultFor, sources
  <2>2. \A q \in Procs : pc'[q] = "painting" => pc[q] = "painting"
    BY <1>15 DEF Filter, Processed, ResultFor, Goto, Return, TypeOK
  <2>3. filtered'.frame <= raw /\ (~filtered'.filter => filtered'.frame = raw)
    <3>1. CASE ~sized
      BY <1>15, <3>1 DEF Filter, Processed, ResultFor, Painting, FramesInOrder
    <3>2. CASE sized
      <4>1. filtered' = [frame |-> raw, filter |-> filter]
        BY <1>15, <3>2 DEF Filter, Processed, ResultFor
      <4>2. QED
        BY <4>1 DEF TypeOK
    <3>3. QED
      BY <3>1, <3>2
  <2>4. QED
    BY <2>1, <2>2, <2>3 DEF Painting, BrushInOrder, FramesInOrder
<1>16. ASSUME NEW p \in Procs, Recolor(p) PROVE Painting'
  BY <1>16
     DEF Recolor, Locking, PaintersRead, Painting, BrushInOrder, FramesInOrder, TypeOK,
         Pixels, Pictures, Procs, Goto, Return, Change, sources, choices, locks, data,
         global, locals
<1>17. ASSUME NEW p \in Procs, StartPainting(p) PROVE Painting'
  BY <1>17
     DEF StartPainting, Coloured, Locking, PaintersRead, Painting, BrushInOrder,
         FramesInOrder, TypeOK, Pixels, Pictures, Procs, Goto, Return, Change, sources,
         choices, locks, data, global, locals
<1>18. ASSUME NEW p \in Procs, EndPainting(p) PROVE Painting'
  BY <1>18
     DEF EndPainting, Locking, PaintersRead, Painting, BrushInOrder, FramesInOrder,
         TypeOK, Pixels, Pictures, Procs, Goto, Return, Change, sources, choices,
         locks, data, global, locals
<1>19. ASSUME NEW p \in Procs, Release(p) PROVE Painting'
  BY <1>19
     DEF Release, Locking, PaintersRead, Painting, BrushInOrder, FramesInOrder, TypeOK,
         Pixels, Pictures, Procs, Goto, Return, Change, sources, choices, locks, data,
         global, locals
<1>20. ASSUME NEW p \in Procs, LockStats(p) PROVE Painting'
  BY <1>20
     DEF LockStats, Locking, PaintersRead, Painting, BrushInOrder, FramesInOrder,
         TypeOK, Pixels, Pictures, Procs, Goto, Return, Change, sources, choices,
         locks, data, global, locals
<1>21. ASSUME NEW p \in Procs, Load(p) PROVE Painting'
  <2>1. CASE ~valid
    BY <1>21, <2>1
       DEF Load, Snapshot, Painting, BrushInOrder, FramesInOrder, TypeOK, Return, Goto, data,
           sources
  <2>2. CASE valid
    <3>1. \A q \in Procs : pc'[q] # "painting"
      BY <1>21, <2>2 DEF Load, Snapshot, Locking, PaintersRead, TypeOK, Goto
    <3>2. /\ raw' = frame
          /\ UNCHANGED <<frame, painted>>
          /\ filtered' = IF filtered.filter THEN filtered ELSE Unfiltered(frame)
      BY <1>21, <2>2 DEF Load, Snapshot, sources
    <3>3. /\ Unfiltered(frame).frame = frame
          /\ ~Unfiltered(frame).filter
      BY DEF Unfiltered
    <3>4. /\ filtered.frame \in Nat /\ painted.frame \in Nat
          /\ raw \in Nat /\ frame \in Nat
      BY DEF TypeOK, Pixels, Pictures
    <3>5. filtered'.frame <= frame /\ (~filtered'.filter => filtered'.frame = frame)
      <4>1. CASE filtered.filter
        BY <3>2, <3>4, <4>1 DEF Painting, FramesInOrder
      <4>2. CASE ~filtered.filter
        BY <3>2, <3>3, <3>4, <4>2
      <4>3. QED
        BY <4>1, <4>2
    <3>6. frame <= frame /\ painted.frame <= frame
      BY <3>4 DEF Painting, FramesInOrder
    <3>7. QED
      BY <3>1, <3>2, <3>5, <3>6 DEF Painting, BrushInOrder, FramesInOrder
  <2>3. QED
    BY <2>1, <2>2
<1>22. CASE UNCHANGED vars
  BY <1>22
     DEF vars, Painting, BrushInOrder, FramesInOrder, sources, choices, locks, data,
         global, locals
<1>23. QED
  BY <1>1, <1>2, <1>3, <1>4, <1>5, <1>6, <1>7, <1>8, <1>9, <1>10, <1>11, <1>12, <1>13,
     <1>14, <1>15, <1>16, <1>17, <1>18, <1>19, <1>20, <1>21, <1>22
     DEF Next, Timer, Setter, Running, Waiting

\* Every step keeps the whole invariant.
LEMMA InvStep == Inv /\ [Next]_vars => Inv'
  BY TypeStep, LockingStep, StatisticsStep, PaintingStep DEF Inv

\* The variables have their types, and the invariant holds, for any setters.
THEOREM Invariance == Spec => []Inv
  BY InitInv, InvStep, PTL DEF Spec

THEOREM TypeCorrect == Spec => []TypeOK
<1>1. Inv => TypeOK
  BY DEF Inv
<1>2. QED
  BY <1>1, Invariance, PTL

\* The statistics never index a selection that was not made for them: the call
\* that computes them has found no refresh wanted, or has loaded the frame, and
\* it holds m_changingImData, which the settings wait for.
THEOREM SelectionMatchesHolds == Spec => []SelectionMatches
<1>1. Inv => SelectionMatches
  BY DEF Inv, Statistics, Refreshed, SelectionReady, SelectionMatches
<1>2. QED
  BY <1>1, Invariance, PTL

\* A published result is about the pixels that are shown.
THEOREM StatsCoherentHolds == Spec => []StatsCoherent
<1>1. Inv => StatsCoherent
  BY DEF Inv, Statistics
<1>2. QED
  BY <1>1, Invariance, PTL

\* No unfiltered picture is painted over a newer one: it is of the frame that is
\* loaded, since the shared lock has kept every other frame out.
THEOREM FramesForwardHolds == Spec => FramesForward
<1>1. ASSUME Inv, Next
      PROVE  ~painted'.filter => painted'.frame >= painted.frame
  <2>1. /\ painted.frame \in Nat /\ raw \in Nat
        /\ painted.frame <= raw
    BY <1>1 DEF Inv, TypeOK, Pictures, Painting, FramesInOrder
  <2>2. UNCHANGED painted
        \/ \E p \in Procs : pc[p] = "painting" /\ painted' = brush[p]
    BY <1>1
       DEF Next, Timer, Setter, Running, Waiting, SetFilter, SetCalibration, SetColour,
           SetColormode, SetStats, NewFrame, NewMask, LoseImage, NoUpdate, OnConnect,
           StoreStats, TryCheck, Check, TryChange, Filter, Recolor, StartPainting,
           EndPainting, Release, LockStats, Load, data
  <2>3. CASE UNCHANGED painted
    BY <2>1, <2>3
  <2>4. ASSUME NEW p \in Procs, pc[p] = "painting", painted' = brush[p], ~painted'.filter
        PROVE  painted'.frame >= painted.frame
    <3>1. brush[p].frame = raw
      BY <1>1, <2>4 DEF Inv, Painting, BrushInOrder
    <3>2. QED
      BY <2>1, <2>4, <3>1
  <2>5. QED
    BY <2>2, <2>3, <2>4
<1>2. Inv /\ [Next]_vars
        => [~painted'.filter => painted'.frame >= painted.frame]_vars
  BY <1>1
<1>3. QED
  BY <1>2, Invariance, PTL DEF Spec, FramesForward

-----------------------------------------------------------------------------
(* Who waits for whom.                                                     *)

\* Where the holder of m_changingImData and the readers of m_calMutex may be.
Holding == {"settingStats", "checking", "load", "filter", "paint", "painting",
            "painted"}
InReading == {"recolor", "paint", "painting", "painted"}

Holders ==
    /\ changing # Free => pc[changing] \in Holding
    /\ \A p \in reading : pc[p] \in InReading

LEMMA HoldersStep ==
    ASSUME TypeOK, OneChanger, Holders, [Next]_vars
    PROVE  Holders'
<1> USE ProcsAssumption
<1>1. ASSUME NEW p \in Procs,
             SetFilter(p) \/ SetCalibration(p) \/ SetColour(p) \/ SetColormode(p)
      PROVE  Holders'
  BY <1>1
     DEF SetFilter, SetCalibration, SetColour, SetColormode, Set, Holders, Holding,
         InReading, TypeOK, Goto, Change, locks
<1>2. ASSUME NEW p \in Procs, NEW enabled \in BOOLEAN, NEW useMask \in BOOLEAN,
             SetStats(p, enabled, useMask)
      PROVE  Holders'
  BY <1>2 DEF SetStats, Set, Holders, Holding, InReading, TypeOK, Goto, locks
<1>3. CASE NewFrame \/ NewMask \/ LoseImage \/ NoUpdate \/ OnConnect
  BY <1>3
     DEF NewFrame, NewMask, LoseImage, NoUpdate, OnConnect, Holders, Holding,
         InReading, TypeOK, Goto, Change, locks
<1>4. ASSUME NEW p \in Procs, LockStats(p) \/ StoreStats(p) \/ TryCheck(p)
      PROVE  Holders'
  BY <1>4
     DEF LockStats, StoreStats, TryCheck, Holders, Holding, InReading, TypeOK, Goto,
         Change, locks
<1>5. ASSUME NEW p \in Procs, Check(p)
      PROVE  Holders'
  BY <1>5
     DEF Check, RefreshNeeded, Holders, Holding, InReading, TypeOK, Goto, Change, locks
<1>6. ASSUME NEW p \in Procs, TryChange(p) \/ Load(p)
      PROVE  Holders'
  <2>1. CASE TryChange(p)
    BY <2>1 DEF TryChange, Holders, Holding, InReading, TypeOK, Goto, Return, locks
  <2>2. CASE Load(p)
    <3>1. /\ \/ changing' = Free
             \/ changing' = p /\ pc' = [pc EXCEPT ![p] = "filter"]
          /\ reading' = {}
      BY <2>2 DEF Load, Goto, OneChanger
    <3> QED BY <3>1 DEF Holders, Holding, TypeOK
  <2> QED BY <1>6, <2>1, <2>2
<1>7. ASSUME NEW p \in Procs, Filter(p)
      PROVE  Holders'
  <2>1. changing = p /\ p \notin reading
    BY <1>7 DEF Filter, OneChanger, Holders, InReading
  <2>2. CASE changing' = Free /\ UNCHANGED reading
    <3>1. \A q \in Procs : q # p => pc'[q] = pc[q]
      BY <1>7, <2>2 DEF Filter, Goto, Return, TypeOK
    <3> QED BY <2>1, <2>2, <3>1 DEF Holders, TypeOK
  <2>3. CASE reading' = reading \cup {p} /\ changing' = p /\ pc' = [pc EXCEPT ![p] = "paint"]
    BY <2>1, <2>3 DEF Holders, Holding, InReading, TypeOK
  <2> QED BY <1>7, <2>1, <2>2, <2>3 DEF Filter, Goto
<1>8. ASSUME NEW p \in Procs, Recolor(p) \/ Release(p)
      PROVE  Holders'
  BY <1>8
     DEF Recolor, Release, Holders, Holding, InReading, TypeOK, Goto, Return, locks
<1>9. ASSUME NEW p \in Procs, StartPainting(p) \/ EndPainting(p)
      PROVE  Holders'
  BY <1>9
     DEF StartPainting, EndPainting, Coloured, Holders, Holding, InReading, TypeOK,
         Goto, locks
<1>10. CASE UNCHANGED vars
  BY <1>10 DEF vars, locks, locals, Holders
<1>11. QED
  BY <1>1, <1>2, <1>3, <1>4, <1>5, <1>6, <1>7, <1>8, <1>9, <1>10
     DEF Next, Timer, Setter, Running, Waiting

\* Whoever waits for m_calMutex waits for readers, of whom none waits; whoever waits
\* for m_changingImData waits for one that goes on, or that waits for readers: for
\* any number of setters no locks close a circle, and none is left behind.
THEOREM NoCircleHolds == Spec => []NoCircle
<1>1. Init => Holders
  BY DEF Init, Holders
<1>2. Inv /\ Holders /\ [Next]_vars => Holders'
  BY HoldersStep DEF Inv, Locking
<1>3. Inv /\ Holders => NoCircle
  <2> SUFFICES ASSUME Inv, Holders, NEW p \in Procs, NEW q \in Procs, Blocks(q, p)
               PROVE  /\ q # p /\ pc[q] # "idle"
                      /\ \A r \in Procs : Blocks(r, q) =>
                            /\ r # q /\ pc[r] # "idle"
                            /\ \A t \in Procs : ~Blocks(t, r)
    BY DEF NoCircle
  <2>1. ASSUME NEW r \in reading
        PROVE  pc[r] \in InReading /\ \A t \in Procs : ~Blocks(t, r)
    BY <2>1 DEF Holders, InReading, Blocks
  <2>2. CASE pc[p] = "load" /\ q \in reading
    BY <2>1, <2>2 DEF InReading
  <2>3. CASE pc[p] = "setStats" /\ changing = q
    <3>1. pc[q] \in Holding
      BY <2>3, ProcsAssumption DEF Holders
    <3>2. ASSUME NEW r \in Procs, Blocks(r, q)
          PROVE  pc[q] = "load" /\ r \in reading
      BY <3>1, <3>2 DEF Holding, Blocks
    <3> QED BY <2>1, <2>3, <3>1, <3>2 DEF Holding, InReading
  <2> QED BY <2>2, <2>3 DEF Blocks
<1>4. QED
  BY <1>1, <1>2, <1>3, Invariance, PTL DEF Spec

-----------------------------------------------------------------------------
(* What becomes of a refresh.                                              *)

\* Inputs are known to be there only after an image was allocated: what
\* RefreshIsKept needs to be inductive.
KeptInv == RefreshIsKept /\ (snapshot.status = "valid" => sized)

\* A step that leaves the statistics and whoever filters alone.
LEMMA KeptRests ==
    ASSUME KeptInv, UNCHANGED global, sized => sized',
           \A q \in Procs : pc[q] = "filter" => pc'[q] = "filter"
    PROVE  KeptInv'
BY DEF KeptInv, RefreshIsKept, global

LEMMA KeptStep ==
    ASSUME TypeOK, OneChanger, KeptInv, [Next]_vars
    PROVE  KeptInv'
<1>1. ASSUME NEW p \in Procs,
             \/ SetFilter(p) \/ SetCalibration(p) \/ SetColour(p) \/ SetColormode(p)
             \/ \E enabled, useMask \in BOOLEAN : SetStats(p, enabled, useMask)
             \/ LockStats(p) \/ TryCheck(p) \/ TryChange(p) \/ Recolor(p)
             \/ StartPainting(p) \/ EndPainting(p) \/ Release(p)
      PROVE  KeptInv'
  <2>1. UNCHANGED <<global, sized>> /\ pc[p] # "filter"
    BY <1>1
       DEF SetFilter, SetCalibration, SetColour, SetColormode, SetStats, Set, LockStats,
           TryCheck, TryChange, Recolor, StartPainting, EndPainting, Release, data
  <2>2. \E label : pc' = [pc EXCEPT ![p] = label]
    BY <1>1
       DEF SetFilter, SetCalibration, SetColour, SetColormode, SetStats, LockStats,
           TryCheck, TryChange, Recolor, StartPainting, EndPainting, Release, Change,
           Goto, Return, TypeOK
  <2> QED BY <2>1, <2>2, KeptRests DEF TypeOK
<1>2. CASE NewFrame \/ NewMask \/ LoseImage \/ NoUpdate \/ OnConnect
  <2>1. UNCHANGED <<global, sized>> /\ pc[Qt] # "filter"
    BY <1>2 DEF NewFrame, NewMask, LoseImage, NoUpdate, OnConnect, data
  <2>2. \E label : pc' = [pc EXCEPT ![Qt] = label]
    BY <1>2 DEF NewFrame, NewMask, LoseImage, NoUpdate, OnConnect, Change, Goto
  <2> QED BY <2>1, <2>2, KeptRests DEF TypeOK
<1>3. ASSUME NEW p \in Procs, StoreStats(p) PROVE KeptInv'
  <2>1. /\ stats' = NoResult(wish[p].enabled, wish[p].useMask, "unavailable")
        /\ refresh' = wish[p].enabled /\ UNCHANGED <<snapshot, sized>>
    BY <1>3 DEF StoreStats, data
  <2> QED BY <2>1 DEF KeptInv, RefreshIsKept, NoResult
<1>4. ASSUME NEW p \in Procs, Check(p) PROVE KeptInv'
  <2>1. pc[p] = "checking" /\ UNCHANGED sized
    BY <1>4 DEF Check, data
  <2>2. CASE ~stats.enabled
    BY <1>4, <2>1, <2>2 DEF Check, KeptInv, RefreshIsKept, global
  <2>3. CASE stats.enabled /\ InputStatus(sized) = "valid"
    <3>1. refresh' = RefreshNeeded("valid") /\ UNCHANGED <<snapshot, stats>>
      BY <1>4, <2>3 DEF Check
    <3>2. \A q \in Procs : pc[q] = "filter" => pc'[q] = "filter"
      BY <1>4, <2>1 DEF Check, Goto, Change, TypeOK
    <3> QED BY <2>1, <3>1, <3>2 DEF KeptInv, RefreshIsKept, RefreshNeeded
  <2>4. CASE stats.enabled /\ InputStatus(sized) # "valid"
    <3>1. snapshot'.status # "valid"
      BY <1>4, <2>4 DEF Check
    <3> QED BY <3>1 DEF KeptInv, RefreshIsKept
  <2> QED BY <2>2, <2>3, <2>4
<1>5. ASSUME NEW p \in Procs, Load(p) PROVE KeptInv'
  <2>1. pc[p] = "load"
    BY <1>5 DEF Load
  <2>2. CASE ~valid
    <3>1. UNCHANGED <<global, sized>> /\ \E label : pc' = [pc EXCEPT ![p] = label]
      BY <1>5, <2>2 DEF Load, Return, Goto, data
    <3> QED BY <2>1, <3>1, KeptRests DEF TypeOK
  <2>3. CASE valid
    <3>1. sized' = TRUE /\ pc'[p] = "filter"
      BY <1>5, <2>3 DEF Load, Goto, TypeOK
    <3> QED BY <3>1 DEF KeptInv, RefreshIsKept
  <2> QED BY <2>2, <2>3
<1>6. ASSUME NEW p \in Procs, Filter(p) PROVE KeptInv'
  <2>1. UNCHANGED <<sized, refresh, snapshot>>
    BY <1>6 DEF Filter
  <2>2. CASE ~sized
    BY <2>1, <2>2 DEF KeptInv, RefreshIsKept
  <2>3. CASE sized
    <3>1. stats' = IF stats.enabled THEN ResultFor(filtered') ELSE stats
      BY <1>6, <2>3 DEF Filter
    <3>2. CASE stats.enabled /\ snapshot.status = "valid"
      <4>1. stats'.status = "valid"
        BY <3>1, <3>2 DEF ResultFor, TypeOK, Stats
      <4> QED BY <2>1, <2>3, <4>1 DEF KeptInv, RefreshIsKept
    <3>3. CASE ~stats.enabled \/ snapshot.status # "valid"
      BY <2>1, <2>3, <3>1, <3>3 DEF KeptInv, RefreshIsKept
    <3> QED BY <3>2, <3>3
  <2> QED BY <2>2, <2>3
<1>7. CASE UNCHANGED vars
  BY <1>7, KeptRests DEF vars, data, global, locals
<1>8. QED
  BY <1>1, <1>2, <1>3, <1>4, <1>5, <1>6, <1>7
     DEF Next, Timer, Setter, Running, Waiting

\* However calls give way to each other, a result that is missing will be computed:
\* by the thread that filters now, or because the next check of the timer asks.
THEOREM RefreshIsKeptHolds == Spec => []RefreshIsKept
<1>1. Init => KeptInv
  BY DEF Init, KeptInv, RefreshIsKept, NoResult
<1>2. Inv /\ KeptInv /\ [Next]_vars => KeptInv'
  BY KeptStep DEF Inv, Locking
<1>3. KeptInv => RefreshIsKept
  BY DEF KeptInv
<1>4. QED
  BY <1>1, <1>2, <1>3, Invariance, PTL DEF Spec
=============================================================================
