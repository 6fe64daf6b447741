---------------------------- MODULE MCDynamicBVH ----------------------------
(***************************************************************************)
(* DynamicBVH over three places from left to right: left and middle touch  *)
(* in y, middle and right overlap, left and right touch in x.  Entities    *)
(* are numbered from the vector's end.  Up to three objects stand anywhere,*)
(* four from left to right, at most two at one place.                      *)
(***************************************************************************)
EXTENDS DynamicBVH

left   == [x |-> 0, y |-> 0, h |-> 1]
middle == [x |-> 1, y |-> 2, h |-> 1]
right  == [x |-> 2, y |-> 1, h |-> 1]

MCRects == {left, middle, right}

Standing ==
  (UNION {[1 .. n -> MCRects] : n \in 0 .. 3})
    \cup {at \in [1 .. 4 -> MCRects] :
            /\ \A i, j \in DOMAIN at : i < j => at[i].x <= at[j].x
            /\ \A i, j \in DOMAIN at : j = i + 2 => at[i] # at[j]}

MCScenes ==
  {[i \in DOMAIN at |-> [rect |-> at[i], entity |-> Len(at) + 1 - i]] : at \in Standing}
=============================================================================
