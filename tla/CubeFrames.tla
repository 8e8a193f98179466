------------------------------ MODULE CubeFrames -----------------------------
(***************************************************************************)
(* Which frame of a cube comes next: imageNo, incImageNo, decImageNo and   *)
(* deltaImageNo of fitsImage and fitsDirectory (src/src/common/images),    *)
(* in the unsigned numbers of the code.  no is m_imageNo, the frame that   *)
(* was taken last, next is m_nextImageNo, the one asked for, and frames    *)
(* is nz(); a file that was read anew may leave no beyond its last frame.  *)
(***************************************************************************)
EXTENDS Integers

CONSTANT Uint      \* 2^32; the runs take a smaller power of two

Last(frames) == (frames - 1) % Uint

ImageNo(n, frames) == IF n > Last(frames) THEN Last(frames) ELSE n

IncImageNo(no, frames) == IF no >= Last(frames) THEN 0 ELSE no + 1

DecImageNo(no, frames) == IF no = 0 THEN Last(frames) ELSE no - 1

\* More than the length is reduced, with the remainder of unsigned numbers.
Reduced(d, frames) ==
    IF (IF d < 0 THEN -d ELSE d) > frames THEN (d % Uint) % frames ELSE d

\* How many frames there are behind no.
Behind(no, frames) == (frames - 1 - no) % Uint

\* Mutant of DeltaImageNo: the last frame counts as beyond the end.
DeltaImageNoShort(dino, no, next, frames) ==
    LET d   == Reduced(dino, frames)
        abs == IF d < 0 THEN -d ELSE d
    IN IF d < 0 /\ abs > no THEN frames + no + d
       ELSE IF d > 0 /\ abs >= Behind(no, frames) THEN (d - (frames - no)) % Uint
       ELSE (next + d) % Uint

DeltaImageNo(dino, no, next, frames) ==
    LET d   == Reduced(dino, frames)
        abs == IF d < 0 THEN -d ELSE d
    IN IF d < 0 /\ abs > no THEN frames + no + d
       ELSE IF d > 0 /\ abs > Behind(no, frames) THEN (d - (frames - no)) % Uint
       ELSE (next + d) % Uint

=============================================================================
