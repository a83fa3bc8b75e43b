--------------------------- MODULE FrameChannel ---------------------------
(***************************************************************************)
(* What the viewer of the pushed stream may rely on: the frames are those  *)
(* decoded, in the order in which they were decoded, each at most once.    *)
(* Frames may be lost on the way.                                          *)
(***************************************************************************)
EXTENDS Naturals

VARIABLES
  sent,        \* how many frames have been decoded; the last one's number
  transit,     \* the numbers of the frames on their way
  delivered    \* the number of the last frame delivered, 0 before the first

vars == <<sent, transit, delivered>>

Init ==
  /\ sent = 0
  /\ transit = {}
  /\ delivered = 0

Send ==
  /\ sent' = sent + 1
  /\ transit' = transit \union {sent'}
  /\ UNCHANGED delivered

Deliver ==
  \E f \in transit :
    /\ delivered < f
    /\ \A g \in transit : f <= g
    /\ delivered' = f
    /\ transit' = transit \ {f}
    /\ UNCHANGED sent

Lose ==
  /\ transit' \subseteq transit
  /\ UNCHANGED <<sent, delivered>>

Next == Send \/ Deliver \/ Lose

Spec == Init /\ [][Next]_vars

===========================================================================
