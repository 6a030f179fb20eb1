------------------------------ MODULE QuadTree ------------------------------
(* src/storage/qtree: the quadtree of points that is built instead of the    *)
(* R-tree or the B-tree (Erebus::build_idx).  A bucket is named by its path  *)
(* from the root, a sequence of child numbers; the model has the buckets     *)
(* that are reachable.  Objects are points; a point on a line that separates *)
(* the children of a bucket stays in the bucket itself.                      *)
EXTENDS Integers, Sequences, FiniteSetsExt

CONSTANTS
    Objects,      \* Collidable
    Side,         \* of the square the tree covers
    Places,       \* the points at which objects may be
    capacity, maxLevel,
    Queries,      \* rectangles to ask for
    Cells,        \* the sequence of rectangles by which the tree is migrated
    Nowhere

\* With a capacity of 1 a full leaf is subdivided, emptied, joined and filled
\* again without end.
ASSUME CapacityAssumption == capacity \in Nat /\ capacity >= 2 /\ maxLevel \in Nat

\* The side of a bucket on each level.  The lines between buckets have to be
\* integers.
Width[k \in 0..maxLevel + 1] == IF k = 0 THEN Side ELSE Width[k - 1] \div 2
ASSUME SideAssumption == Side \in Nat \ {0} /\ \A k \in 0..maxLevel : Width[k] % 2 = 0

Rectangles == [x : Int, y : Int, width : Nat, height : Nat]
ASSUME RectanglesAssumption == Queries \subseteq Rectangles /\ Cells \in Seq(Rectangles)
ASSUME ObjectsAssumption == IsFiniteSet(Objects) /\ Places \subseteq Int \X Int
\* The null pointer is not a bucket.
ASSUME NowhereAssumption == Nowhere \notin Seq(0..3)

VARIABLES
    objects,      \* bucket -> its objects
    inner,        \* the buckets that are not leaves (isLeaf)
    qt,           \* object -> the bucket it points to, or Nowhere
    bound,        \* object -> where it is, or Nowhere
    numa,         \* bucket -> the cell it was last moved for, 0 if for none
    cell          \* how many cells the migration has come to

vars == <<objects, inner, qt, bound, numa, cell>>

Rect(x, y, width, height) == [x |-> x, y |-> y, width |-> width, height |-> height]
Point(p) == Rect(p[1], p[2], 0, 0)

contains(a, b) == /\ a.x <= b.x /\ a.x + a.width >= b.x + b.width
                  /\ a.y <= b.y /\ a.y + a.height >= b.y + b.height
intersects(a, b) == /\ a.x <= b.x + b.width /\ a.x + a.width >= b.x
                    /\ a.y <= b.y + b.height /\ a.y + a.height >= b.y

\* Despite their names these are the middle lines of a rectangle.
getRight(a) == a.x + a.width \div 2
getTop(a) == a.y + a.height \div 2

Root == <<>>
children(n) == {n \o <<i>> : i \in 0..3}
Buckets == DOMAIN objects

\* subdivide: children 0 and 3 have the greater x, 2 and 3 the greater y.
bounds(n) ==
    LET of[k \in 0..Len(n)] ==
            IF k = 0 THEN Rect(0, 0, Side, Side)
            ELSE LET a == of[k - 1]
                     w == a.width \div 2
                     h == a.height \div 2
                 IN  Rect(IF n[k] \in {0, 3} THEN a.x + w ELSE a.x,
                          IF n[k] \in {2, 3} THEN a.y + h ELSE a.y, w, h)
    IN  of[Len(n)]

\* The number of the child that a rectangle belongs to, or -1.
ChildrenSwapped(n, a) ==
    LET left == a.x + a.width < getRight(bounds(n))
        right == a.x > getRight(bounds(n))
        top == a.y + a.height < getTop(bounds(n))
        bottom == a.y > getTop(bounds(n))
    IN  CASE top /\ left -> 1 [] top /\ right -> 3
          [] bottom /\ left -> 2 [] bottom /\ right -> 0
          [] OTHER -> -1
getChild(n, a) ==
    LET left == a.x + a.width < getRight(bounds(n))
        right == a.x > getRight(bounds(n))
        top == a.y + a.height < getTop(bounds(n))
        bottom == a.y > getTop(bounds(n))
    IN  CASE top /\ left -> 1 [] top /\ right -> 0
          [] bottom /\ left -> 2 [] bottom /\ right -> 3
          [] OTHER -> -1

\* A tree is a record of objects and inner.
tree == [objects |-> objects, inner |-> inner]

Init ==
    /\ objects = [n \in {Root} |-> {}] /\ inner = {} /\ numa = [n \in {Root} |-> 0]
    /\ qt = [o \in Objects |-> Nowhere] /\ bound = [o \in Objects |-> Nowhere]
    /\ cell = 0

\* Where insert comes to rest in tree t.
Resting(t, a) ==
    LET at[k \in 0..maxLevel] ==
            IF k = 0 THEN Root
            ELSE IF at[k - 1] \in t.inner /\ getChild(at[k - 1], a) >= 0
                 THEN at[k - 1] \o <<getChild(at[k - 1], a)>> ELSE at[k - 1]
    IN  at[maxLevel]

StillLeaf(t, n) == [t EXCEPT !.objects = [m \in DOMAIN @ \cup children(n) |->
                                             IF m \in children(n) THEN {} ELSE @[m]]]
subdivide(t, n) == [objects |-> [m \in DOMAIN t.objects \cup children(n) |->
                                    IF m \in children(n) THEN {} ELSE t.objects[m]],
                    inner |-> t.inner \cup {n}]

\* The object that fills a leaf is moved on (update), the others stay.
Full(t, n) == n \notin t.inner /\ Len(n) < maxLevel /\ Cardinality(t.objects[n]) + 1 >= capacity
Subdivided(t, a) == LET n == Resting(t, a) IN IF Full(t, n) THEN subdivide(t, n) ELSE t
Inserted(t, o, a) ==
    LET s == Subdivided(t, a) IN [s EXCEPT !.objects[Resting(s, a)] = @ \cup {o}]

\* A bucket that is empty, with four empty leaves for children if any, loses
\* these; then the same for its parent, and so on.
Hollow(t, n) == /\ t.objects[n] = {}
                /\ n \in t.inner => \A c \in children(n) : c \notin t.inner /\ t.objects[c] = {}
discardEmptyBuckets(t, n) ==
    LET at(k) == SubSeq(n, 1, Len(n) - k)
        after[k \in 0..Len(n) + 1] ==
            IF k = 0 THEN [t |-> t, on |-> TRUE]
            ELSE LET s == after[k - 1]
                     m == at(k - 1)
                 IN  IF ~s.on \/ ~Hollow(s.t, m) THEN [s EXCEPT !.on = FALSE]
                     ELSE [s EXCEPT !.t.inner = @ \ {m}]
        left == after[Len(n) + 1].t
    IN  [left EXCEPT !.objects = [m \in {Root} \cup UNION {children(i) : i \in left.inner} |-> @[m]]]

NotErased(t, o) == discardEmptyBuckets(t, qt[o])
Removed(t, o) == discardEmptyBuckets([t EXCEPT !.objects[qt[o]] = @ \ {o}], qt[o])

Becomes(t) ==
    /\ objects' = t.objects /\ inner' = t.inner
    /\ numa' = [n \in DOMAIN t.objects |-> IF n \in Buckets THEN numa[n] ELSE 0]

insert(o, p) ==
    /\ cell = 0 /\ qt[o] = Nowhere
    /\ Becomes(Inserted(tree, o, Point(p)))
    /\ qt' = [qt EXCEPT ![o] = Resting(Subdivided(tree, Point(p)), Point(p))]
    /\ bound' = [bound EXCEPT ![o] = p]
    /\ UNCHANGED cell

remove(o) ==
    /\ cell = 0 /\ qt[o] # Nowhere
    /\ Becomes(Removed(tree, o))
    /\ qt' = [qt EXCEPT ![o] = Nowhere] /\ bound' = [bound EXCEPT ![o] = Nowhere]
    /\ UNCHANGED cell

\* The object has been moved to p while it is still in its old bucket.
update(o, p) ==
    /\ cell = 0 /\ qt[o] # Nowhere
    /\ LET t == Removed(tree, o)
       IN  /\ Becomes(Inserted(t, o, Point(p)))
           /\ qt' = [qt EXCEPT ![o] = Resting(Subdivided(t, Point(p)), Point(p))]
    /\ bound' = [bound EXCEPT ![o] = p]
    /\ UNCHANGED cell

clear ==
    /\ cell = 0
    /\ Becomes([objects |-> [n \in {Root} |-> {}], inner |-> {}])
    /\ qt' = [o \in Objects |-> Nowhere] /\ bound' = [o \in Objects |-> Nowhere]
    /\ UNCHANGED cell

\* The buckets that a search from the root comes to, if `into' says which
\* children it goes on with.
Reached(into) ==
    LET at[k \in 0..maxLevel] ==
            IF k = 0 THEN {Root} ELSE UNION {into[n] : n \in at[k - 1] \cap inner}
    IN  UNION {at[k] : k \in 0..maxLevel}

\* The number of objects in a rectangle: one child is enough for a rectangle
\* that fits into it.
getObjectsInBound(q) ==
    LET into == [n \in inner |-> IF getChild(n, q) >= 0 THEN {n \o <<getChild(n, q)>>}
                                 ELSE {c \in children(n) : intersects(bounds(c), q)}]
    IN  MapThenSumSet(LAMBDA n : Cardinality({o \in objects[n] : intersects(Point(bound[o]), q)}),
                      Reached(into))

MigrateOneChild ==
    /\ cell < Len(Cells) /\ cell' = cell + 1
    /\ LET q == Cells[cell + 1]
           moved == Reached([n \in inner |-> {c \in children(n) : intersects(q, bounds(c)) /\
                                                c = n \o <<getChild(n, q)>>}])
       IN  numa' = [n \in Buckets |-> IF n \in moved THEN cell' ELSE numa[n]]
    /\ UNCHANGED <<objects, inner, qt, bound>>

\* enforce_scheduling calls it for one cell after the other.
MigrateNodesQuad ==
    /\ cell < Len(Cells) /\ cell' = cell + 1
    /\ LET q == Cells[cell + 1]
           moved == IF intersects(bounds(Root), q)
                    THEN Reached([n \in inner |-> {c \in children(n) : intersects(q, bounds(c))}]) ELSE {}
       IN  numa' = [n \in Buckets |-> IF n \in moved THEN cell' ELSE numa[n]]
    /\ UNCHANGED <<objects, inner, qt, bound>>

Done == cell = Len(Cells) /\ UNCHANGED vars

Next ==
    \/ \E o \in Objects, p \in Places : insert(o, p)
    \/ \E o \in Objects : remove(o)
    \/ \E o \in Objects, p \in Places : update(o, p)
    \/ clear
    \/ MigrateNodesQuad
    \/ Done

Spec == Init /\ [][Next]_vars

-----------------------------------------------------------------------------
\* The type of every variable.
TypeOK ==
    /\ inner \subseteq Buckets /\ Root \in Buckets
    /\ \A n \in Buckets : /\ Len(n) <= maxLevel /\ objects[n] \subseteq Objects
                          /\ n \in inner <=> \E c \in children(n) : c \in Buckets
                          /\ n \in inner <=> children(n) \subseteq Buckets
    /\ DOMAIN numa = Buckets /\ \A n \in Buckets : numa[n] \in 0..Len(Cells)
    /\ DOMAIN qt = Objects /\ DOMAIN bound = Objects
    /\ \A o \in Objects : bound[o] \in Places \cup {Nowhere}
    /\ cell \in 0..Len(Cells)

\* An object's pointer leads to a bucket of the tree, and it is in that bucket
\* and no other, whatever was inserted, moved, removed and joined before:
\* remove erases it from there without looking whether it finds it.
PointersTrue ==
    \A o \in Objects : /\ \A n \in Buckets : o \in objects[n] <=> qt[o] = n
                       /\ qt[o] \in Buckets \cup {Nowhere}

\* Between calls no leaf that could be subdivided is full, and no subdivided
\* bucket has nothing in it and in its children: joining keeps up with removing.
NeitherFullNorHollow ==
    \A n \in Buckets : IF n \in inner THEN ~Hollow(tree, n)
                       ELSE Len(n) < maxLevel => Cardinality(objects[n]) < capacity

\* What every sequence of calls leaves behind: erasing, subdividing and joining
\* agree on which buckets there are and on who is in them.
TreeSound == PointersTrue /\ NeitherFullNorHollow

\* A query counts every object in it exactly once, wherever the tree keeps it:
\* getChild and the choice among the children skip no bucket they should not.
\* Of objects beyond the tree's bounds it may miss some.
QueryExact ==
    \A q \in Queries :
        LET hits == {o \in Objects : qt[o] # Nowhere /\ intersects(Point(bound[o]), q)}
            inside == {o \in hits : contains(bounds(Root), Point(bound[o]))}
        IN  getObjectsInBound(q) \in Cardinality(inside)..Cardinality(hits)

\* When the migration has come through, every bucket lies where one of the
\* cells that touch it belongs, and where the last of them does.
BucketsFollowTheirCell ==
    cell = Len(Cells) => \A n \in Buckets :
        numa[n] = Max({0} \cup {c \in DOMAIN Cells : intersects(Cells[c], bounds(n))})
=============================================================================
