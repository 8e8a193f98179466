----------------------------- MODULE PanelTools -----------------------------
(***************************************************************************)
(* The tools of the control panel that keep a state of their own: the view *)
(* of the pixels under the pointer, the target cross and the widgets of    *)
(* the colour scale                                                        *)
(* (src/src/gui/rtimvControlPanel.cpp, src/src/gui/rtimvMainWindow.cpp).   *)
(*                                                                         *)
(* The scale is that of the local program (rtimvBase.cpp); what a client   *)
(* does with it is in ClientSettings.  Whatever changes it ends in a       *)
(* recolor, and that in update_panel, which brings every widget up to date *)
(* but one that has the focus.  The sliders of the maximum and of the bias *)
(* keep the focus, and a place of long ago, after the operator moved them: *)
(* their places are left out.                                              *)
(***************************************************************************)
EXTENDS Integers

CONSTANTS Values,      \* numbers an operator types for the scale
          Scales,      \* bound on the ends of a scale
          Ranges,      \* <<lowest, highest>> of the data of an image
          Positions,   \* positions of a slider
          Sizes        \* sizes of the image

PanelAssumption ==
    /\ Positions \in Nat \ {0} /\ Sizes \subseteq Nat \ {0}
    /\ Values \subseteq Int

VARIABLES
    p,         \* the view of the pointer
    pTarget,   \* the target cross, and what the panel says of it
    pScale,    \* m_minScaleData, m_maxScaleData, the data, m_colormode, m_autoScale
    pShown     \* the widgets of the scale, and the check box of the cube window

pvars == <<p, pTarget, pScale, pShown>>

Entries == {"min", "max", "bias", "contrast"}

\* The bias is doubled.
ValueOf(s, e) ==
    CASE e = "min"  -> s.min
      [] e = "max"  -> s.max
      [] e = "bias" -> s.min + s.max
      [] e = "contrast" -> s.max - s.min

\* The position of a slider, rounded, that Qt keeps between its ends.
Within(pos) == IF pos < 0 THEN 0 ELSE IF pos > Positions THEN Positions ELSE pos

SliderAt(range, offset) ==
    LET width == range[2] - range[1]
    IN  Within((2 * offset * Positions + width) \div (2 * width))

Texts(s)   == [e \in Entries |-> ValueOf(s, e)]
Sliders(s) == [min |-> SliderAt(s.range, s.min - s.range[1]),
               contrast |-> SliderAt(s.range, s.max - s.min)]

\* update_panel: an operator who is in an entry keeps the text.
UpdatePanel(s) ==
    [pShown EXCEPT
        !.text = [e \in Entries |-> IF pShown.typing = e THEN pShown.text[e]
                                    ELSE ValueOf(s, e)],
        !.slider = Sliders(s), !.combo = s.mode]

Init ==
    /\ p = [mode |-> "press", empty |-> TRUE, fixed |-> FALSE, waiting |-> FALSE,
            button |-> "set"]
    /\ pTarget = [x |-> 1, nx |-> 1, seen |-> FALSE, line |-> 1, drawn |-> FALSE,
                  text |-> 1, button |-> "show"]
    /\ \E range \in Ranges, auto \in BOOLEAN :
          /\ pScale = [min |-> range[1], max |-> range[2], range |-> range,
                       mode |-> "global", auto |-> auto]
          /\ pShown = [typing |-> "none", text |-> Texts(pScale),
                       slider |-> Sliders(pScale), combo |-> "global", check |-> auto]

-----------------------------------------------------------------------------
(* The view of the pointer.                                                *)

Pointer(q) == p' = q /\ UNCHANGED <<pTarget, pScale, pShown>>

\* updateMouseCoords fills an empty view that is enabled, nullMouseCoords
\* empties it; a fixed view is left alone.
UpdateMouseCoords ==
    /\ ~p.fixed /\ p.empty /\ p.mode = "enabled"
    /\ Pointer([p EXCEPT !.empty = FALSE])

NullMouseCoords == ~p.fixed /\ Pointer([p EXCEPT !.empty = TRUE])

\* viewLeftPressed.
ViewLeftPressed == p.mode = "press" /\ Pointer([p EXCEPT !.empty = FALSE])

\* Mutant of SetPointerViewCen: it still waits for a location.
SetPointerViewCenWaits(q) == [q EXCEPT !.button = "clear", !.fixed = TRUE]

\* set_pointerViewCen.
SetPointerViewCen(q) ==
    [q EXCEPT !.button = "clear", !.waiting = FALSE, !.fixed = TRUE]

ViewLeftClicked ==
    LET released == IF p.mode = "press" THEN [p EXCEPT !.empty = TRUE] ELSE p
    IN Pointer(IF p.waiting THEN SetPointerViewCen(released) ELSE released)

SetPointerViewMode(mode) ==
    Pointer([p EXCEPT !.mode = mode, !.empty = mode # "enabled"])

\* on_pointerSetLocButton_clicked: it cannot be cancelled but by a location.
PointerSetLoc ==
    Pointer(IF ~p.fixed THEN [p EXCEPT !.waiting = TRUE, !.button = "waiting"]
            ELSE [p EXCEPT !.waiting = FALSE, !.fixed = FALSE, !.button = "set"])

-----------------------------------------------------------------------------
(* The target cross.  Its place is a fraction, in halves, of the image.    *)

Target(t) == pTarget' = t /\ UNCHANGED <<p, pScale, pShown>>

\* setTarget draws the cross where it is now.
SetTarget(t) == [t EXCEPT !.line = t.x * t.nx, !.drawn = t.seen]

Unit(x) == IF x < 0 THEN 0 ELSE IF x > 2 THEN 2 ELSE x

\* targetXc, which the entry of the fraction reaches, or that of the pixel.
TargetXc(x) == Target([SetTarget([pTarget EXCEPT !.x = Unit(x)]) EXCEPT !.text = Unit(x)])

TargetVisible ==
    LET t == SetTarget([pTarget EXCEPT !.seen = ~@])
    IN Target([t EXCEPT !.button = IF t.seen THEN "hide" ELSE "show"])

\* mtxL_postSetImsize ends with setTarget.
PostSetImsize(n) == n # pTarget.nx /\ Target(SetTarget([pTarget EXCEPT !.nx = n]))

-----------------------------------------------------------------------------
(* The colour scale.                                                       *)

Bounded(s) == {s.min, s.max} \subseteq Scales

Scaled(s) ==
    Bounded(s) /\ pScale' = s /\ pShown' = UpdatePanel(s) /\ UNCHANGED <<p, pTarget>>

\* What a box of the image holds.
BoxData(range) == {b \in Ranges : range[1] <= b[1] /\ b[2] <= range[2]}

To(s, data) == [s EXCEPT !.min = data[1], !.max = data[2]]

\* Mutant of Colormode: automatic scaling goes on in the mode of the user.
ColormodeKeepsAuto(m) ==
    IF m = "box" THEN {[To(pScale, b) EXCEPT !.mode = m] : b \in BoxData(pScale.range)}
    ELSE {[pScale EXCEPT !.mode = m]}

\* mtxL_colormode: the mode of the box takes the data of the box, another one
\* leaves the scale as it is, and that of the user ends automatic scaling.
Colormode(m) ==
    IF m = "box" THEN {[To(pScale, b) EXCEPT !.mode = m] : b \in BoxData(pScale.range)}
    ELSE {[pScale EXCEPT !.mode = m, !.auto = @ /\ m # "user"]}

ChooseColormode(m) == \E s \in Colormode(m) : Scaled(s)

\* A slider or an entry sets the scale, and the mode of the user.
UserScale(min, max) == {To(s, <<min, max>>) : s \in Colormode("user")}
SetScale(min, max)  == \E s \in UserScale(min, max) : Scaled(s)

SlideTo(pos) ==
    pScale.range[1] + (pos * (pScale.range[2] - pScale.range[1])) \div Positions

\* bias keeps the contrast, and contrast the bias, of the scale there is.
Contrast == pScale.max - pScale.min
Bias     == pScale.min + pScale.max

Spread(bias, contrast) ==
    LET min == (bias - contrast) \div 2 IN <<min, min + contrast>>

Set(e, v) ==
    CASE e = "min"  -> <<v, pScale.max>>
      [] e = "max"  -> <<pScale.min, v>>
      [] e = "bias" -> Spread(v, Contrast)
      [] e = "contrast" -> Spread(Bias, v)

\* on_mindatSlider_valueChanged and its kin.
Slide(e, pos) ==
    LET v == CASE e \in {"min", "max"} -> SlideTo(pos)
               [] e = "bias"     -> 2 * SlideTo(pos)
               [] e = "contrast" -> SlideTo(pos) - pScale.range[1]
    IN  SetScale(Set(e, v)[1], Set(e, v)[2])

Type(e) ==
    /\ pShown.typing = "none"
    /\ pShown' = [pShown EXCEPT !.typing = e]
    /\ UNCHANGED <<p, pTarget, pScale>>

\* on_mindatEntry_editingFinished and its kin: by the key, and the entry keeps the
\* focus and the text, or by leaving it, with what was typed or was there before.
EditingFinished(leaves) ==
    /\ pShown.typing # "none"
    /\ \E v \in Values \cup {pShown.text[pShown.typing]} :
          LET set == Set(pShown.typing, v) IN
          \E s \in UserScale(set[1], set[2]) :
             /\ Bounded(s)
             /\ pScale' = s
             /\ pShown' = IF leaves
                          THEN [UpdatePanel(s) EXCEPT !.typing = "none", !.text = Texts(s)]
                          ELSE [UpdatePanel(s) EXCEPT !.text[pShown.typing] = v]
    /\ UNCHANGED <<p, pTarget>>

\* mtxUL_autoScale, by its key or the check box of the cube window: turned on it
\* leaves the mode of the user and recolors; the scale waits for a frame.
AutoScale(as) ==
    LET on == as /\ ~pScale.auto
        s  == [pScale EXCEPT !.auto = as,
                             !.mode = IF on /\ @ = "user" THEN "global" ELSE @]
    IN  /\ pScale' = s
        /\ pShown' = [(IF on THEN UpdatePanel(s) ELSE pShown) EXCEPT !.check = as]
        /\ UNCHANGED <<p, pTarget>>

\* mtxUL_reStretch: the keys, and the toggle of the logarithm.
ReStretch ==
    LET mode == IF pScale.mode = "user" THEN "global" ELSE pScale.mode
    IN  \E data \in IF mode = "box" THEN BoxData(pScale.range) ELSE {pScale.range} :
            Scaled([To(pScale, data) EXCEPT !.mode = mode])

\* A drag with the right button, in any mode.
RightDrag(bias, contrast) ==
    Scaled(To(pScale, Spread(bias, contrast)))

\* The scale follows a frame in automatic scaling, or one of another size, or in
\* the mode of the box; that of another size takes the box away, and its mode.
Frame(range, resized) ==
    LET Of(mode) == [pScale EXCEPT !.range = range, !.mode = mode]
        AfterFrame == IF resized THEN {"global"} \cup ({pScale.mode} \ {"box"})
                      ELSE {pScale.mode}
    IN  \E mode \in AfterFrame :
            IF mode = "box" THEN \E b \in BoxData(range) : Scaled(To(Of(mode), b))
            ELSE IF resized \/ pScale.auto THEN Scaled(To(Of(mode), range))
            ELSE Scaled(Of(mode))

-----------------------------------------------------------------------------

PointerNext ==
    \/ UpdateMouseCoords \/ NullMouseCoords \/ ViewLeftPressed \/ ViewLeftClicked
    \/ \E mode \in {"enabled", "press", "disabled"} : SetPointerViewMode(mode)
    \/ PointerSetLoc

TargetNext ==
    \/ \E x \in -1 .. 3 : TargetXc(x)
    \/ TargetVisible
    \/ \E n \in Sizes : PostSetImsize(n)

ScaleNext ==
    \/ \E e \in Entries, pos \in 0 .. Positions : Slide(e, pos)
    \/ \E e \in Entries : Type(e)
    \/ \E leaves \in BOOLEAN : EditingFinished(leaves)
    \/ \E m \in {"global", "user", "box"} : ChooseColormode(m)
    \/ \E as \in BOOLEAN : AutoScale(as)
    \/ ReStretch
    \/ \E bias, contrast \in Values : RightDrag(bias, contrast)
    \/ \E range \in Ranges, resized \in BOOLEAN : Frame(range, resized)

Next == PointerNext \/ TargetNext \/ ScaleNext

Spec == Init /\ [][Next]_pvars

-----------------------------------------------------------------------------
(* Properties.                                                             *)

\* The button of the pointer view says what a click will do, a disabled view
\* is empty, and a location is never both fixed and awaited, in whatever order
\* modes, clicks and the button come (rtimvControlPanel, m_pointerView*).
PointerViewTells ==
    /\ ~(p.fixed /\ p.waiting)
    /\ p.button = IF p.fixed THEN "clear" ELSE IF p.waiting THEN "waiting" ELSE "set"
    /\ p.mode = "disabled" => p.empty

\* The cross is at its fraction of the image there is, after any change of the
\* size, and the panel shows that fraction (setTarget, targetXcChanged).
TargetAgrees ==
    /\ pTarget.line = pTarget.x * pTarget.nx /\ pTarget.text = pTarget.x
    /\ pTarget.drawn = pTarget.seen
    /\ (pTarget.seen <=> pTarget.button = "hide")

\* A frame of the same size never takes a scale that the operator set, because no
\* order of keys, boxes, drags and frames leaves the mode of the user with automatic
\* scaling; the check box, which the mode of the user does not reset, never says that
\* it is off while it is on; the box of the mode, every entry without the focus and
\* the two sliders show the scale there is (mtxL_colormode, mtxUL_autoScale,
\* update_panel).
ScaleAgrees ==
    /\ pScale.mode = "user" => ~pScale.auto
    /\ pScale.auto => pShown.check
    /\ pShown.combo = pScale.mode
    /\ \A e \in Entries : pShown.typing # e => pShown.text[e] = ValueOf(pScale, e)
    /\ pShown.slider = Sliders(pScale)

\* The tools of the panel say what they do: the view of the pointer, the cross
\* and the scale (rtimvControlPanel).
PanelTells == PointerViewTells /\ TargetAgrees /\ ScaleAgrees
=============================================================================
