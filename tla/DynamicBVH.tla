----------------------------- MODULE DynamicBVH -----------------------------
(***************************************************************************)
(* DynamicBVH: a binary tree of bounding boxes over the objects of a       *)
(* vector it does not own.  build makes the tree, update refits one leaf,  *)
(* findCollisions reads off the pairs of objects whose boxes intersect.    *)
(* Nodes are numbered like a heap's: node k has children 2k and 2k + 1.    *)
(***************************************************************************)
EXTENDS Integers, Sequences, FiniteSets

CONSTANTS
  Rects,       (* where an object can be: x and y of its centre, and h,    *)
               (* half the size of its (rotated) rectangle's box           *)
  Entities,    (* entity ids                                               *)
  Scenes,      (* what the owner puts into the vector: sequences of        *)
               (* objects, each of another entity                          *)
  Beyond,      (* the entity read from behind the end of the vector        *)
  MaxObjects,  (* bound: objects                                           *)
  MaxFills,    (* bound: times the empty vector is filled                  *)
  MaxMoves     (* bound: moves after the vector was filled                 *)

Objects == [rect : Rects, entity : Entities]

ASSUME BVHAssumption ==
  /\ Rects \subseteq [x : Int, y : Int, h : Nat \ {0}]
  /\ \A scene \in Scenes :
       /\ scene \in Seq(Objects) /\ Len(scene) <= MaxObjects
       /\ \A i, j \in DOMAIN scene : scene[i].entity = scene[j].entity => i = j
  /\ Beyond \notin Entities
  /\ MaxObjects \in Nat
  /\ MaxFills \in Nat
  /\ MaxMoves \in Nat

VARIABLES
  objects,  (* objects_: a sequence of [rect, entity]                      *)
  tree,     (* the nodes reachable from root_, which is node 1             *)
  leaves,   (* leaves_                                                     *)
  single,   (* history: a build had one object                             *)
  phase,    (* history: what was done last to the objects                  *)
  updated,  (* history: entities updated since something moved             *)
  moves,    (* history: moves since the vector was filled, bounded         *)
  fills     (* history: times the vector was filled, bounded               *)

vars == <<objects, tree, leaves, single, phase, updated, moves, fills>>

Nodes == 1 .. 4 * MaxObjects + 1

-----------------------------------------------------------------------------
(* Boxes.                                                                  *)

Box(rect) ==
  [min |-> <<rect.x - rect.h, rect.y - rect.h>>, max |-> <<rect.x + rect.h, rect.y + rect.h>>]

\* Wrong on purpose: only the x axis is looked at.
IntersectsInX(a, b) == a.min[1] < b.max[1] /\ b.min[1] < a.max[1]

\* Boxes that touch do not intersect.
Intersects(a, b) == \A d \in {1, 2} : a.min[d] < b.max[d] /\ b.min[d] < a.max[d]

\* Wrong on purpose: the maximum is the first box's.
MergeMin(a, b) ==
  [min |-> [d \in {1, 2} |-> IF a.min[d] <= b.min[d] THEN a.min[d] ELSE b.min[d]],
   max |-> a.max]

Merge(a, b) ==
  [min |-> [d \in {1, 2} |-> IF a.min[d] <= b.min[d] THEN a.min[d] ELSE b.min[d]],
   max |-> [d \in {1, 2} |-> IF a.max[d] >= b.max[d] THEN a.max[d] ELSE b.max[d]]]

-----------------------------------------------------------------------------
(* build.                                                                  *)

\* What nth_element makes of the indices, level after level: sorted by the
\* centres' x, and nothing is said of equal ones.
Orders ==
  {order \in [DOMAIN objects -> DOMAIN objects] :
     /\ \A i \in DOMAIN objects : \E j \in DOMAIN objects : order[j] = i
     /\ \A i, j \in DOMAIN objects : i < j => objects[order[i]].rect.x <= objects[order[j]].rect.x}

\* The part of its parent's stretch of indices that child k gets.
Half(span, k) ==
  LET mid == span[1] + (span[2] - span[1] + 1) \div 2
  IN  IF k % 2 = 0 THEN <<span[1], mid - 1>> ELSE <<mid, span[2]>>

IsOneObject(stretch) == stretch[1] = stretch[2]

\* The stretch of n indices that each node is over, <<>> for no node.
Spans(n) ==
  LET span[k \in Nodes] ==
        IF k = 1 THEN <<1, n>>
        ELSE LET above == span[k \div 2]
             IN  IF above = <<>> \/ IsOneObject(above) THEN <<>> ELSE Half(above, k)
  IN  span

\* The boxes of the nodes over these stretches of the indices in this order.
Boxes(span, order) ==
  LET box[k \in {j \in Nodes : span[j] # <<>>}] ==
        IF IsOneObject(span[k]) THEN Box(objects[order[span[k][1]]].rect)
                                ELSE Merge(box[2 * k], box[2 * k + 1])
  IN  box

\* A tree over the indices in this order, every node of it new.
NewTree(order) ==
  LET span == Spans(Len(objects))
      box == Boxes(span, order)
  IN  [k \in {j \in Nodes : span[j] # <<>>} |->
         [box    |-> box[k],
          isLeaf |-> IsOneObject(span[k]),
          index  |-> IF IsOneObject(span[k]) THEN order[span[k][1]] ELSE 0]]

\* Nodes are new but for the root, which keeps what the build does not
\* assign: isLeaf and index when it gets children, the children when it is
\* a leaf, and everything when there is no object.
Rooted(new) ==
  CASE DOMAIN new = {1} -> [k \in DOMAIN tree |-> IF k = 1 THEN new[1] ELSE tree[k]]
    [] OTHER -> [new EXCEPT ![1] = [tree[1] EXCEPT !.box = new[1].box]]

\* The new leaves, from left to right.
NewLeaves(new) ==
  LET span == Spans(Len(objects))
  IN  [i \in DOMAIN objects |-> CHOOSE k \in DOMAIN new : span[k] = <<i, i>>]

\* Wrong on purpose: the leaves of the last build are kept.
NotCleared == leaves

\* What is left of the leaves of the last build.
Cleared == <<>>

Build ==
  /\ phase # "built"
  /\ IF objects = <<>>
     THEN leaves' = Cleared /\ UNCHANGED tree
     ELSE \E order \in Orders :
            LET new == NewTree(order)
            IN  tree' = Rooted(new) /\ leaves' = Cleared \o NewLeaves(new)
  /\ single' = (single \/ Len(objects) = 1)
  /\ phase' = "built"
  /\ updated' = {objects[i].entity : i \in DOMAIN objects}
  /\ UNCHANGED <<objects, moves, fills>>

-----------------------------------------------------------------------------
(* What else changes the tree or the objects.                              *)

\* Wrong on purpose: the leaf of the object in front is refitted.
LeafBefore(index) == leaves[IF index = 1 THEN 1 ELSE index - 1]

\* The leaf update refits for the object at this index.
LeafToRefit(index) == leaves[index]

\* refitNode, of a leaf: update reaches no other node.
RefitNode(leaf) == [tree EXCEPT ![leaf].box = Box(objects[tree[leaf].index].rect)]

\* update, of a tree that was built over the objects in the vector.
Update(entity) ==
  /\ phase # "set"
  /\ \E index \in DOMAIN objects :
       /\ objects[index].entity = entity
       /\ tree' = RefitNode(LeafToRefit(index))
  /\ updated' = updated \cup {entity}
  /\ UNCHANGED <<objects, leaves, single, phase, moves, fills>>

\* The owner of the vector moves an object.
Move(i, rect) ==
  /\ phase # "set" /\ i \in DOMAIN objects
  /\ moves < MaxMoves
  /\ objects' = [objects EXCEPT ![i].rect = rect]
  /\ updated' = {}
  /\ phase' = "moved"
  /\ moves' = moves + 1
  /\ UNCHANGED <<tree, leaves, single, fills>>

\* setObjects, and what CollisionSystem does before build and at the end of
\* its turn: other objects, or none.  build comes next.
SetObjects(scene) ==
  /\ phase = "built" \/ objects = <<>>
  /\ (objects = <<>>) # (scene = <<>>)
  /\ objects' = scene
  /\ fills' = fills + (IF scene = <<>> THEN 0 ELSE 1)
  /\ fills' <= MaxFills
  /\ phase' = "set"
  /\ updated' = {}
  /\ moves' = 0
  /\ UNCHANGED <<tree, leaves, single>>

Init ==
  /\ objects = <<>>
  /\ tree = [k \in {1} |-> [box |-> [min |-> <<0, 0>>, max |-> <<0, 0>>],
                            isLeaf |-> FALSE, index |-> 0]]
  /\ leaves = <<>>
  /\ single = FALSE
  /\ phase = "set"
  /\ updated = {}
  /\ moves = 0
  /\ fills = 0

Next ==
  \/ Build
  \/ \E entity \in Entities : Update(entity)
  \/ \E i \in 1 .. MaxObjects, rect \in Rects : Move(i, rect)
  \/ \E scene \in Scenes : SetObjects(scene)

Spec == Init /\ [][Next]_vars

-----------------------------------------------------------------------------
(* findCollisions, which changes nothing.                                  *)

Children(k) == {2 * k, 2 * k + 1} \cap DOMAIN tree

\* Wrong on purpose: a leaf is met with the same inner node again.
DescendNowhere(a, b) ==
  IF tree[a].isLeaf \/ tree[b].isLeaf THEN {<<a, b>>}
  ELSE Children(a) \X Children(b)

\* The pairs of nodes pushed for a pair of nodes that intersect.  Whichever
\* of the two is a leaf, it is the leaf whose children are taken.
Descend(a, b) ==
  IF tree[a].isLeaf THEN {a} \X Children(a)
  ELSE IF tree[b].isLeaf THEN Children(b) \X {b}
  ELSE Children(a) \X Children(b)

AreLeaves(p) == tree[p[1]].isLeaf /\ tree[p[2]].isLeaf /\ p[1] # p[2]

\* The pairs pushed when this one is popped.
Pushed(p) ==
  IF ~Intersects(tree[p[1]].box, tree[p[2]].box) \/ AreLeaves(p) THEN {}
  ELSE Descend(p[1], p[2])

\* The pairs popped, from the root's on.  No pair is further from it than
\* there are nodes: each is a step down from the one that pushed it.
Popped ==
  LET popped[n \in 0 .. Cardinality(DOMAIN tree)] ==
        IF n = 0 THEN {<<1, 1>>}
        ELSE UNION {{p} \cup Pushed(p) : p \in popped[n - 1]}
  IN  popped[Cardinality(DOMAIN tree)]

\* The search: the objects whose leaves are met, and whether it goes on for
\* ever, as it does when a pair pushes itself.
Search ==
  LET popped == Popped
      IsMet(p) == /\ AreLeaves(p) /\ tree[p[1]].index # tree[p[2]].index
                  /\ Intersects(tree[p[1]].box, tree[p[2]].box)
  IN  [met |-> {{tree[p[1]].index, tree[p[2]].index} : p \in {q \in popped : IsMet(q)}},
       endless |-> \E p \in popped : p \in Pushed(p)]

EntityAt(index) == IF index \in DOMAIN objects THEN objects[index].entity ELSE Beyond

FindCollisions == {{EntityAt(index) : index \in pair} : pair \in Search.met}

-----------------------------------------------------------------------------
(* Properties.                                                             *)

TypeOK ==
  /\ objects \in Seq(Objects) /\ Len(objects) <= MaxObjects
  /\ 1 \in DOMAIN tree /\ DOMAIN tree \subseteq Nodes
  /\ \A k \in DOMAIN tree : tree[k].isLeaf \in BOOLEAN /\ tree[k].index \in 0 .. MaxObjects
  /\ leaves \in Seq(DOMAIN tree)
  /\ phase # "set" =>
       \A l \in DOMAIN leaves :
         tree[leaves[l]].isLeaf /\ tree[leaves[l]].index \in DOMAIN objects
  /\ single \in BOOLEAN
  /\ phase \in {"set", "built", "moved"}
  /\ updated \subseteq Entities
  /\ moves \in 0 .. MaxMoves
  /\ fills \in 0 .. MaxFills

\* The reference: two squares collide when their centres are closer, on
\* both axes, than their halves together.
Closer(u, v, d) == u - v < d /\ v - u < d
Colliding ==
  LET Collide(r, s) == Closer(r.x, s.x, r.h + s.h) /\ Closer(r.y, s.y, r.h + s.h)
  IN  {{objects[p[1]].entity, objects[p[2]].entity} :
         p \in {q \in (DOMAIN objects) \X (DOMAIN objects) :
                  q[1] # q[2] /\ Collide(objects[q[1]].rect, objects[q[2]].rect)}}

\* No build with fewer than two objects is behind this tree.
Fresh == ~single /\ Len(objects) >= 2

Below(k) == {j \in DOMAIN tree : j \div 2 = k}
Level[k \in Nodes] == IF k = 1 THEN 0 ELSE Level[k \div 2] + 1
LeafOf(i) == CHOOSE k \in {leaves[l] : l \in DOMAIN leaves} : tree[k].index = i

Encloses(a, b) == \A d \in {1, 2} : a.min[d] <= b.min[d] /\ b.max[d] <= a.max[d]

\* After build every object has its leaf, with the object's box, and every
\* node's box encloses those below it, whatever was built before.
TreeCoversObjects ==
  phase = "built" /\ Len(objects) >= 2 =>
    /\ Len(leaves) = Len(objects)
    /\ \A i \in DOMAIN objects : tree[LeafOf(i)].box = Box(objects[i].rect)
    /\ \A k \in DOMAIN tree : \A j \in Below(k) : Encloses(tree[k].box, tree[j].box)

\* After build what findCollisions reports does collide, and two objects that
\* collide are reported when their leaves are on the same level: always, when
\* there are two objects or four.  The search for them ends.
CollisionsReported ==
  phase = "built" /\ Fresh =>
    /\ FindCollisions \subseteq Colliding
    /\ \A i, j \in DOMAIN objects :
         LET pair == {objects[i].entity, objects[j].entity} IN
         Level[LeafOf(i)] = Level[LeafOf(j)] /\ pair \in Colliding => pair \in FindCollisions
    /\ ~Search.endless

\* Two objects that moved need no build: when update was called for both,
\* in any order and whichever leaf is whose, findCollisions is exact.
UpdatingBothIsExact ==
  phase # "set" /\ ~single /\ Len(objects) = 2
    /\ updated = {objects[1].entity, objects[2].entity}
    => FindCollisions = Colliding

\* After build every collision is reported.
CollisionsDetected == phase = "built" /\ Fresh => Colliding \subseteq FindCollisions

\* After build, whatever was built before, the search for collisions ends.
SearchEnds == phase = "built" => ~Search.endless
=============================================================================
