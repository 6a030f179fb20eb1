------------------------------- MODULE BTreeOLC -------------------------------
(***************************************************************************)
(* The B+-tree with optimistic lock coupling of src/storage/btree/btree.h  *)
(* and the index on top of it (BTreeOLCIndex, src/storage/index.h), shared *)
(* by all worker threads.                                                  *)
(*                                                                         *)
(* Every step is one access to shared memory: the root pointer, the lock   *)
(* word of a node, or what a node holds.  What a node holds is written     *)
(* only under its write lock, so its write is one step; a read of several  *)
(* fields that overlaps one (the word is not the one remembered) is Torn.  *)
(* Sorted arrays are abstracted to functions: a leaf maps keys to          *)
(* payloads; an inner node maps each separator to the child that holds the *)
(* keys up to it, and has one more child for the keys beyond the last.     *)
(***************************************************************************)
EXTENDS Naturals, FiniteSets, SequencesExt

CONSTANTS
  Threads,      \* the worker threads and the loader
  Loader,       \* the thread that builds the tree before the workers start
  Nodes,        \* addresses of nodes; they bound the number of allocations
  Keys,         \* the keys, a set of numbers
  Payloads,     \* the values, pointers to where a key is stored
  KeyAt(_),     \* the key a payload points to
  Load,         \* the inserts the loader makes, in order
  Calls,        \* the calls a worker may make
  MaxCalls,     \* bound on the calls of each worker
  LeafMax,      \* maxEntries of a leaf
  InnerMax,     \* maxEntries of an inner node
  None,         \* nullptr, no payload, no call
  Unset,        \* a local variable that was never assigned
  Torn          \* what a read returns that overlaps a write

ASSUME KeysAssumption == Keys \subseteq Nat
ASSUME ThreadsAssumption == Loader \in Threads
ASSUME NodesAssumption == Nodes # {} /\ None \notin Nodes /\ Torn \notin Nodes
ASSUME PayloadsAssumption ==
  /\ None \notin Payloads
  /\ \A p \in Payloads : KeyAt(p) \in Nat
ASSUME SentinelsAssumption ==
  Torn # None /\ Torn # Unset /\ Torn \notin Payloads
ASSUME CallsAssumption ==
  \A c \in Calls \cup {Load[i] : i \in DOMAIN Load} :
    /\ c # None
    /\ c.key \in Keys
    /\ c.op \in {"insert", "find", "scan"}
    /\ c.op = "insert" => c.val \in Payloads
    /\ c.op = "scan" => c.range \in Nat \ {0}
\* A split must leave entries, and separators, on both sides.
ASSUME SizeAssumption ==
  /\ LeafMax \in Nat /\ LeafMax >= 2
  /\ InnerMax \in Nat /\ InnerMax >= 5

VARIABLES
  root,         \* the tree's root pointer
  kind,         \* "free" (not allocated), "leaf" or "inner"
  word,         \* the lock word of each node
  ents,         \* leaf: payload of each key, None when it is absent
  below,        \* inner: child up to each separator, None for other keys
  beyond,       \* inner: child for the keys beyond the last separator
  \* per thread, the local variables of insert, lookup and scan
  pc, call, node, parent, versionNode, versionParent,
  sibling,      \* newLeaf or newInner
  sep,          \* the separator between node and sibling
  batch,        \* what the call of lookup or BTree::scan has read
  from,         \* the key BTree::scan is called with
  out,          \* the result of find, the results array of scan
  \* bounds and history
  todo,         \* inserts the loader has still to make
  left,         \* calls each worker may still make
  snap          \* the keys in the tree when the thread's call started

tree   == <<root, kind, ents, below, beyond>>
search == <<node, parent, versionNode, versionParent>>
result == <<batch, from, out>>
bound  == <<call, todo, left, snap>>
vars   == <<tree, word, pc, search, sibling, sep, result, bound>>

-------------------------------------------------------------------------------
\* The lock word (struct OptLock), as in module OptLock.
InitialWord == 4
isObsolete(version) == version % 2 = 1
isLocked(version)   == (version \div 2) % 2 = 1

\* What a leaf and an inner node hold.
EntryKeys(n) == {k \in Keys : ents[n][k] # None}
Seps(n)      == {k \in Keys : below[n][k] # None}

FullOneLate(n) == Cardinality(Seps(n)) = InnerMax
leafIsFull(n)  == Cardinality(EntryKeys(n)) = LeafMax
innerIsFull(n) == Cardinality(Seps(n)) = InnerMax - 1
isFull(n) == IF kind[n] = "leaf" THEN leafIsFull(n) ELSE innerIsFull(n)

Least(S)    == CHOOSE k \in S : \A j \in S : k <= j
Greatest(S) == CHOOSE k \in S : \A j \in S : j <= k
\* The element of a set that has i smaller ones: keys[i] of the sorted array.
AtIndex(S, i) == CHOOSE k \in S : Cardinality({j \in S : j < k}) = i
Sorted(S) == [i \in 1..Cardinality(S) |-> AtIndex(S, i - 1)]

\* children[lowerBound(k)]: the child at the first separator that is not below k.
Child(n, k) ==
  LET notBelow == {s \in Seps(n) : s >= k}
  IN  IF notBelow = {} THEN beyond[n] ELSE below[n][Least(notBelow)]

\* The payloads a leaf-level scan copies: the first `most' entries from k on.
LeafEntries(n, k, most) ==
  LET sorted == Sorted({j \in EntryKeys(n) : j >= k})
      count  == IF Len(sorted) < most THEN Len(sorted) ELSE most
  IN  [i \in 1..count |-> ents[n][sorted[i]]]

NoEntries  == [k \in Keys |-> None]
Free       == {n \in Nodes : kind[n] = "free"}
FirstNode  == CHOOSE n \in Nodes : TRUE
NewNode    == CHOOSE n \in Free : TRUE

\* The leaves hold the map; a split moves entries to the new leaf at once.
Holders(k) == {n \in Nodes : kind[n] = "leaf" /\ ents[n][k] # None}
Contents == [k \in Keys |->
  LET holders == Holders(k)
  IN  IF holders = {} THEN None ELSE ents[CHOOSE n \in holders : TRUE][k]]
Present == {k \in Keys : Holders(k) # {}}

Init ==
  /\ root = FirstNode
  /\ kind = [n \in Nodes |-> IF n = FirstNode THEN "leaf" ELSE "free"]
  /\ word = [n \in Nodes |-> InitialWord]
  /\ ents = [n \in Nodes |-> NoEntries]
  /\ below = [n \in Nodes |-> NoEntries]
  /\ beyond = [n \in Nodes |-> None]
  /\ pc = [t \in Threads |-> "idle"]
  /\ call = [t \in Threads |-> None]
  /\ node = [t \in Threads |-> None]
  /\ parent = [t \in Threads |-> None]
  /\ versionNode = [t \in Threads |-> 0]
  /\ versionParent = [t \in Threads |-> 0]
  /\ sibling = [t \in Threads |-> None]
  /\ sep = [t \in Threads |-> 0]
  /\ batch = [t \in Threads |-> <<>>]
  /\ from = [t \in Threads |-> 0]
  /\ out = [t \in Threads |-> <<>>]
  /\ todo = Load
  /\ left = [t \in Threads |-> IF t = Loader THEN 0 ELSE MaxCalls]
  /\ snap = [t \in Threads |-> {}]

-------------------------------------------------------------------------------
\* Where a thread may stand: the access to shared memory it makes next.
Label == {"idle", "root", "rootLock", "rootCheck", "visit", "checkParent", "child",
          "checkInner", "childLock", "lockParent", "lockNode", "giveBackParent",
          "recheckRoot", "giveBackNode", "split", "link", "unlockNode",
          "unlockParent", "leafLock", "leafCheckParent", "put", "unlockLeaf",
          "read", "readCheckParent", "readCheckNode", "return"}

Goto(t, label) == pc' = [pc EXCEPT ![t] = label]

\* Begin at the root, at first and after every `goto restart'.
Restart(t) ==
  /\ Goto(t, "root")
  /\ node' = [node EXCEPT ![t] = None]
  /\ parent' = [parent EXCEPT ![t] = None]
  /\ versionNode' = [versionNode EXCEPT ![t] = 0]
  /\ versionParent' = [versionParent EXCEPT ![t] = 0]

inserting(t) == call[t].op = "insert"

\* Both turn the lock bit over: an upgrade sets it, an unlock clears it and
\* carries into the version.
setLock(n)     == word' = [word EXCEPT ![n] = @ + 2]
writeUnlock(n) == word' = [word EXCEPT ![n] = @ + 2]

\* readUnlockOrRestart and checkOrRestart: go on if n is as it was remembered.
Validate(t, n, version, label) ==
  IF word[n] = version
    THEN Goto(t, label) /\ UNCHANGED search
    ELSE Restart(t)

\* upgradeToWriteLockOrRestart, with where to go when it fails.
Upgrade(t, n, version, label, otherwise) ==
  IF word[n] = version
    THEN setLock(n) /\ Goto(t, label) /\ UNCHANGED search
    ELSE otherwise /\ UNCHANGED word

\* Give a lock back and start again.
RestartLocked(t, n) == Restart(t) /\ UNCHANGED word
UnlockAndRestart(t, n) == writeUnlock(n) /\ Restart(t)

-------------------------------------------------------------------------------
\* A worker calls insert, find or scan of the index; the loader its next insert.
Start(t, c) ==
  /\ pc[t] = "idle"
  /\ IF t = Loader
       THEN /\ todo # <<>>
            /\ c = Head(todo)
            /\ todo' = Tail(todo)
            /\ left' = left
       ELSE /\ todo = <<>> /\ pc[Loader] = "idle"
            /\ c \in Calls
            /\ left[t] > 0
            /\ left' = [left EXCEPT ![t] = @ - 1]
            /\ todo' = todo
  /\ call' = [call EXCEPT ![t] = c]
  /\ from' = [from EXCEPT ![t] = c.key]
  /\ snap' = [snap EXCEPT ![t] = Present]
  /\ Goto(t, "root")
  /\ UNCHANGED <<tree, word, search, sibling, sep, batch, out>>

-------------------------------------------------------------------------------
\* The way down, the same in insert, lookup and scan.

\* node = root
ReadRoot(t) ==
  /\ pc[t] = "root"
  /\ node' = [node EXCEPT ![t] = root]
  /\ Goto(t, "rootLock")
  /\ UNCHANGED <<tree, word, parent, versionNode, versionParent, sibling, sep,
                 result, bound>>

\* versionNode = node->readLockOrRestart()
ReadLock(t, label) ==
  IF isLocked(word[node[t]]) \/ isObsolete(word[node[t]])
    THEN Restart(t)
    ELSE /\ versionNode' = [versionNode EXCEPT ![t] = word[node[t]]]
         /\ Goto(t, label)
         /\ UNCHANGED <<node, parent, versionParent>>

LockRoot(t) ==
  /\ pc[t] = "rootLock"
  /\ ReadLock(t, "rootCheck")
  /\ UNCHANGED <<tree, word, sibling, sep, result, bound>>

\* if (node != root) goto restart
CheckRoot(t) ==
  /\ pc[t] = "rootCheck"
  /\ IF node[t] = root THEN Goto(t, "visit") /\ UNCHANGED search ELSE Restart(t)
  /\ UNCHANGED <<tree, word, sibling, sep, result, bound>>

\* Dispatch on the node's type; an insert looks whether the node is full.  The
\* count is one machine word, so it is read as it is even while it changes.
Visit(t) ==
  /\ pc[t] = "visit"
  /\ LET n == node[t]
     IN  Goto(t, IF inserting(t) /\ isFull(n)
                   THEN IF parent[t] = None THEN "lockNode" ELSE "lockParent"
                 ELSE IF kind[n] = "inner" THEN "checkParent"
                 ELSE IF inserting(t) THEN "leafLock" ELSE "read")
  /\ UNCHANGED <<tree, word, search, sibling, sep, result, bound>>

\* parent->readUnlockOrRestart(versionParent); then the node is the parent.
CheckParent(t) ==
  /\ pc[t] = "checkParent"
  /\ IF parent[t] # None /\ word[parent[t]] # versionParent[t]
       THEN Restart(t)
       ELSE /\ parent' = [parent EXCEPT ![t] = node[t]]
            /\ versionParent' = [versionParent EXCEPT ![t] = versionNode[t]]
            /\ Goto(t, "child")
            /\ UNCHANGED <<node, versionNode>>
  /\ UNCHANGED <<tree, word, sibling, sep, result, bound>>

\* node = inner->children[inner->lowerBound(k)]
ReadChild(t) ==
  /\ pc[t] = "child"
  /\ node' = [node EXCEPT ![t] =
                IF word[parent[t]] = versionParent[t]
                  THEN Child(parent[t], from[t]) ELSE Torn]
  /\ Goto(t, "checkInner")
  /\ UNCHANGED <<tree, word, parent, versionNode, versionParent, sibling, sep,
                 result, bound>>

\* inner->checkOrRestart(versionNode)
NoInnerCheck(t) ==
  /\ pc[t] = "checkInner"
  /\ Goto(t, "childLock")
  /\ UNCHANGED <<tree, word, search, sibling, sep, result, bound>>
CheckInner(t) ==
  /\ pc[t] = "checkInner"
  /\ Validate(t, parent[t], versionNode[t], "childLock")
  /\ UNCHANGED <<tree, word, sibling, sep, result, bound>>

LockChild(t) ==
  /\ pc[t] = "childLock"
  /\ ReadLock(t, "visit")
  /\ UNCHANGED <<tree, word, sibling, sep, result, bound>>

Descend(t) ==
  \/ ReadRoot(t)    \/ LockRoot(t)  \/ CheckRoot(t)  \/ Visit(t)
  \/ CheckParent(t) \/ ReadChild(t) \/ CheckInner(t) \/ LockChild(t)

-------------------------------------------------------------------------------
\* insert: splitting a full node, then starting again.

LockParent(t) ==
  /\ pc[t] = "lockParent"
  /\ Upgrade(t, parent[t], versionParent[t], "lockNode", Restart(t))
  /\ UNCHANGED <<tree, sibling, sep, result, bound>>

LockNode(t) ==
  /\ pc[t] = "lockNode"
  /\ Upgrade(t, node[t], versionNode[t],
             IF parent[t] = None THEN "recheckRoot" ELSE "split",
             IF parent[t] = None THEN Restart(t)
             ELSE Goto(t, "giveBackParent") /\ UNCHANGED search)
  /\ UNCHANGED <<tree, sibling, sep, result, bound>>

GiveBackParent(t) ==
  /\ pc[t] = "giveBackParent"
  /\ UnlockAndRestart(t, parent[t])
  /\ UNCHANGED <<tree, sibling, sep, result, bound>>

\* if (!parent && node != root): there is a new parent
RecheckRoot(t) ==
  /\ pc[t] = "recheckRoot"
  /\ Goto(t, IF node[t] = root THEN "split" ELSE "giveBackNode")
  /\ UNCHANGED <<tree, word, search, sibling, sep, result, bound>>

GiveBackNode(t) ==
  /\ pc[t] = "giveBackNode"
  /\ UnlockAndRestart(t, node[t])
  /\ UNCHANGED <<tree, sibling, sep, result, bound>>

\* sep = keys[count-1] after the split: the largest key that stays.
FirstMoved(stay, moved) == Least(moved)
leafSeparator(stay, moved) == Greatest(stay)

\* BTreeLeaf::split: the upper half goes to a new leaf.
SplitLeaf(t) ==
  LET n     == node[t]
      count == Cardinality(EntryKeys(n))
      stay  == {k \in EntryKeys(n) :
                  Cardinality({j \in EntryKeys(n) : j < k}) < count \div 2}
      moved == EntryKeys(n) \ stay
  IN  /\ sep' = [sep EXCEPT ![t] = leafSeparator(stay, moved)]
      /\ ents' = [ents EXCEPT
           ![n]       = [k \in Keys |-> IF k \in stay THEN ents[n][k] ELSE None],
           ![NewNode] = [k \in Keys |-> IF k \in moved THEN ents[n][k] ELSE None]]
      /\ kind' = [kind EXCEPT ![NewNode] = "leaf"]
      /\ UNCHANGED <<below, beyond>>

\* BTreeInner::split: the separator moves up, its child becomes the last one.
SplitInner(t) ==
  LET n     == node[t]
      count == Cardinality(Seps(n))
      keep  == count - (count - (count \div 2)) - 1
      s     == AtIndex(Seps(n), keep)
  IN  /\ sep' = [sep EXCEPT ![t] = s]
      /\ below' = [below EXCEPT
           ![n]       = [k \in Keys |-> IF k < s THEN below[n][k] ELSE None],
           ![NewNode] = [k \in Keys |-> IF k > s THEN below[n][k] ELSE None]]
      /\ beyond' = [beyond EXCEPT ![n] = below[n][s], ![NewNode] = beyond[n]]
      /\ kind' = [kind EXCEPT ![NewNode] = "inner"]
      /\ UNCHANGED ents

Split(t) ==
  /\ pc[t] = "split"
  /\ Free # {}
  /\ IF kind[node[t]] = "leaf" THEN SplitLeaf(t) ELSE SplitInner(t)
  /\ sibling' = [sibling EXCEPT ![t] = NewNode]
  /\ Goto(t, "link")
  /\ UNCHANGED <<root, word, search, result, bound>>

\* BTreeInner::insert(sep, sibling): the child at sep's place is now the one up
\* to sep, and the sibling takes its place.
LinkSibling(t) ==
  LET p == parent[t]
      s == sep[t]
      notBelow == {k \in Seps(p) : k >= s}
      old == Child(p, s)
  IN  /\ IF notBelow = {}
           THEN /\ below' = [below EXCEPT ![p][s] = old]
                /\ beyond' = [beyond EXCEPT ![p] = sibling[t]]
           ELSE /\ below' = [below EXCEPT ![p][Least(notBelow)] = sibling[t],
                                          ![p][s] = old]
                /\ beyond' = beyond
      /\ UNCHANGED <<root, kind, ents>>

makeRoot(t) ==
  LET n == NewNode
  IN  /\ kind' = [kind EXCEPT ![n] = "inner"]
      /\ below' = [below EXCEPT ![n][sep[t]] = node[t]]
      /\ beyond' = [beyond EXCEPT ![n] = sibling[t]]
      /\ root' = n
      /\ UNCHANGED ents

Link(t) ==
  /\ pc[t] = "link"
  /\ parent[t] = None => Free # {}
  /\ IF parent[t] = None THEN makeRoot(t) ELSE LinkSibling(t)
  /\ sibling' = [sibling EXCEPT ![t] = None]
  /\ sep' = [sep EXCEPT ![t] = 0]
  /\ Goto(t, "unlockNode")
  /\ UNCHANGED <<word, search, result, bound>>

UnlockNode(t) ==
  /\ pc[t] = "unlockNode"
  /\ writeUnlock(node[t])
  /\ IF parent[t] = None
       THEN Restart(t)
       ELSE Goto(t, "unlockParent") /\ UNCHANGED search
  /\ UNCHANGED <<tree, sibling, sep, result, bound>>

UnlockParent(t) ==
  /\ pc[t] = "unlockParent"
  /\ UnlockAndRestart(t, parent[t])
  /\ UNCHANGED <<tree, sibling, sep, result, bound>>

SplitFull(t) ==
  \/ LockParent(t)   \/ LockNode(t) \/ GiveBackParent(t) \/ RecheckRoot(t)
  \/ GiveBackNode(t) \/ Split(t)    \/ Link(t)           \/ UnlockNode(t)
  \/ UnlockParent(t)

-------------------------------------------------------------------------------
\* insert: into a leaf that has room.  Only the leaf is locked.

LockLeaf(t) ==
  /\ pc[t] = "leafLock"
  /\ Upgrade(t, node[t], versionNode[t],
             IF parent[t] = None THEN "put" ELSE "leafCheckParent", Restart(t))
  /\ UNCHANGED <<tree, sibling, sep, result, bound>>

\* The parent must be as it was when the leaf was found, or the leaf may have
\* been split since.
NoLeafCheckParent(t) ==
  /\ pc[t] = "leafCheckParent"
  /\ Goto(t, "put")
  /\ UNCHANGED <<tree, word, search, sibling, sep, result, bound>>
LeafCheckParent(t) ==
  /\ pc[t] = "leafCheckParent"
  /\ Goto(t, IF word[parent[t]] = versionParent[t] THEN "put" ELSE "giveBackNode")
  /\ UNCHANGED <<tree, word, search, sibling, sep, result, bound>>

\* leaf->insert(k, v): a new entry, or a new payload for the key's entry.
Put(t) ==
  /\ pc[t] = "put"
  /\ ents' = [ents EXCEPT ![node[t]][from[t]] = call[t].val]
  /\ Goto(t, "unlockLeaf")
  /\ UNCHANGED <<root, kind, below, beyond, word, search, sibling, sep, result, bound>>

\* The locals of a call go out of scope when it returns.
Leave(t) ==
  /\ Goto(t, "idle")
  /\ call' = [call EXCEPT ![t] = None]
  /\ node' = [node EXCEPT ![t] = None]
  /\ parent' = [parent EXCEPT ![t] = None]
  /\ versionNode' = [versionNode EXCEPT ![t] = 0]
  /\ versionParent' = [versionParent EXCEPT ![t] = 0]
  /\ from' = [from EXCEPT ![t] = 0]
  /\ out' = [out EXCEPT ![t] = <<>>]
  /\ snap' = [snap EXCEPT ![t] = {}]
  /\ UNCHANGED <<todo, left>>

UnlockLeaf(t) ==
  /\ pc[t] = "unlockLeaf"
  /\ writeUnlock(node[t])
  /\ Leave(t)
  /\ UNCHANGED <<tree, sibling, sep, batch>>

InsertIntoLeaf(t) ==
  LockLeaf(t) \/ LeafCheckParent(t) \/ Put(t) \/ UnlockLeaf(t)

-------------------------------------------------------------------------------
\* lookup and scan: read the leaf, then validate the parent and the leaf.

ReadLeaf(t) ==
  /\ pc[t] = "read"
  /\ batch' = [batch EXCEPT ![t] =
       IF word[node[t]] # versionNode[t] THEN <<Torn>>
       ELSE IF call[t].op = "scan"
         THEN LeafEntries(node[t], from[t], call[t].range - Len(out[t]))
       ELSE IF ents[node[t]][from[t]] = None
         THEN <<Unset>>
         ELSE <<ents[node[t]][from[t]]>>]
  /\ Goto(t, "readCheckParent")
  /\ UNCHANGED <<tree, word, search, sibling, sep, from, out, bound>>

NoReadCheckParent(t) ==
  /\ pc[t] = "readCheckParent"
  /\ Goto(t, "readCheckNode")
  /\ UNCHANGED <<tree, word, search, sibling, sep, result, bound>>
ReadCheckParent(t) ==
  /\ pc[t] = "readCheckParent"
  /\ IF parent[t] # None /\ word[parent[t]] # versionParent[t]
       THEN Restart(t) /\ batch' = [batch EXCEPT ![t] = <<>>]
       ELSE Goto(t, "readCheckNode") /\ UNCHANGED <<search, batch>>
  /\ UNCHANGED <<tree, word, sibling, sep, from, out, bound>>

\* The key behind that of a payload: nextKey = *payload; incKey(nextKey).
SameKey(p) == KeyAt(p)
nextKey(p) == KeyAt(p) + 1

\* The leaf is as it was read: the call of lookup or BTree::scan returns.  The
\* loop of the index's scan goes on behind the key of the last payload unless
\* the range is filled or nothing was found.
Accept(t) ==
  LET got    == out[t] \o batch[t]
      goesOn == /\ call[t].op = "scan"
                /\ batch[t] # <<>>
                /\ Len(got) < call[t].range
  IN  /\ out' = [out EXCEPT ![t] = got]
      /\ IF goesOn
           THEN Restart(t) /\ from' = [from EXCEPT ![t] = nextKey(Last(batch[t]))]
           ELSE Goto(t, "return") /\ UNCHANGED <<search, from>>

NoReadCheckNode(t) ==
  /\ pc[t] = "readCheckNode"
  /\ Accept(t)
  /\ batch' = [batch EXCEPT ![t] = <<>>]
  /\ UNCHANGED <<tree, word, sibling, sep, bound>>
ReadCheckNode(t) ==
  /\ pc[t] = "readCheckNode"
  /\ IF word[node[t]] = versionNode[t]
       THEN Accept(t)
       ELSE Restart(t) /\ UNCHANGED <<from, out>>
  /\ batch' = [batch EXCEPT ![t] = <<>>]
  /\ UNCHANGED <<tree, word, sibling, sep, bound>>

Return(t) ==
  /\ pc[t] = "return"
  /\ Leave(t)
  /\ UNCHANGED <<tree, word, sibling, sep, batch>>

ReadOnly(t) ==
  ReadLeaf(t) \/ ReadCheckParent(t) \/ ReadCheckNode(t) \/ Return(t)

-------------------------------------------------------------------------------
Step(t) == Descend(t) \/ SplitFull(t) \/ InsertIntoLeaf(t) \/ ReadOnly(t)

\* Every call the bounds allow has been made and has returned.
Finished ==
  /\ todo = <<>>
  /\ \A t \in Threads : pc[t] = "idle" /\ left[t] = 0
  /\ UNCHANGED vars

Next ==
  \/ \E t \in Threads : Step(t)
  \/ \E t \in Threads : \E c \in Calls \cup {Load[i] : i \in DOMAIN Load} : Start(t, c)
  \/ Finished

Spec == Init /\ [][Next]_vars

\* The scheduler runs every thread that is inside a call again and again.
FairSpec == Spec /\ \A t \in Threads : WF_vars(Step(t))

-------------------------------------------------------------------------------
TypeOK ==
  /\ root \in Nodes
  /\ kind \in [Nodes -> {"free", "leaf", "inner"}]
  /\ word \in [Nodes -> Nat]
  /\ ents \in [Nodes -> [Keys -> Payloads \cup {None}]]
  /\ below \in [Nodes -> [Keys -> Nodes \cup {None}]]
  /\ beyond \in [Nodes -> Nodes \cup {None}]
  /\ pc \in [Threads -> Label]
  /\ call \in [Threads -> Calls \cup {Load[i] : i \in DOMAIN Load} \cup {None}]
  /\ node \in [Threads -> Nodes \cup {None, Torn}]
  /\ parent \in [Threads -> Nodes \cup {None}]
  /\ versionNode \in [Threads -> Nat]
  /\ versionParent \in [Threads -> Nat]
  /\ sibling \in [Threads -> Nodes \cup {None}]
  /\ sep \in [Threads -> Nat]
  /\ batch \in [Threads -> Seq(Payloads \cup {Unset, Torn})]
  /\ from \in [Threads -> Nat]
  /\ out \in [Threads -> Seq(Payloads \cup {Unset})]
  /\ snap \in [Threads -> SUBSET Keys]

(***************************************************************************)
(* The locks a thread holds, by where it stands.                           *)
(***************************************************************************)
NodeHeld   == {"recheckRoot", "giveBackNode", "split", "link", "unlockNode",
               "leafCheckParent", "put", "unlockLeaf"}
ParentHeld == {"lockNode", "giveBackParent", "split", "link", "unlockNode",
               "unlockParent"}
Holds(t) == {n \in Nodes : \/ n = node[t]   /\ pc[t] \in NodeHeld
                           \/ n = parent[t] /\ pc[t] \in ParentHeld}

(***************************************************************************)
(* The lock bit of a node is set exactly while one thread holds the node:  *)
(* of the many ways out of insert none leaves a lock behind or gives back  *)
(* one the thread does not hold, and no node is ever obsolete.             *)
(***************************************************************************)
LockDiscipline ==
  /\ \A n \in Nodes : isLocked(word[n]) <=> \E t \in Threads : n \in Holds(t)
  /\ \A s, t \in Threads : s # t => Holds(s) \cap Holds(t) = {}
  /\ \A n \in Nodes : ~isObsolete(word[n])

\* A search for k steps to the sibling of a node whose split is not linked yet.
Linking(n, k) ==
  {t \in Threads : pc[t] = "link" /\ node[t] = n /\ k > sep[t]}
Rightwards(n, k) ==
  IF Linking(n, k) = {} THEN n ELSE sibling[CHOOSE t \in Linking(n, k) : TRUE]

\* The node a search for k visits after n, n itself once it is at a leaf.
Below(n, k) ==
  IF kind[n] = "inner" THEN Rightwards(Child(n, k), k) ELSE n

\* Where a search for k is after d steps; no path has more inner nodes than
\* there are.
Inner == {n \in Nodes : kind[n] = "inner"}
SearchPath(k) ==
  LET at[d \in 0..Cardinality(Inner)] ==
        IF d = 0 THEN Rightwards(root, k) ELSE Below(at[d - 1], k)
  IN  at
LeafOf(k) == SearchPath(k)[Cardinality(Inner)]
Height(k) == Cardinality({d \in 0..Cardinality(Inner) : SearchPath(k)[d] \in Inner})

(***************************************************************************)
(* However the splits of several threads interleave, a search for any key  *)
(* in the tree ends at the leaf that holds it, and all leaves are equally  *)
(* deep.                                                                   *)
(***************************************************************************)
Reachable ==
  /\ \A n \in Nodes : kind[n] = "leaf" => \A k \in EntryKeys(n) : LeafOf(k) = n
  /\ \E h \in 0..Cardinality(Inner) : \A k \in Keys : Height(k) = h

(***************************************************************************)
(* An insert writes into the leaf a search for its key ends at, although   *)
(* it only locks that leaf and last looked at the parent before it wrote.  *)
(***************************************************************************)
InsertsIntoRightLeaf ==
  \A t \in Threads : pc[t] = "put" => LeafOf(from[t]) = node[t]

(***************************************************************************)
(* The assertions of BTreeLeaf::insert and BTreeInner::insert: there is    *)
(* room, although fullness was looked at before the node was locked.       *)
(***************************************************************************)
RoomToInsert ==
  \A t \in Threads :
    /\ pc[t] = "put" => Cardinality(EntryKeys(node[t])) < LeafMax
    /\ pc[t] = "link" /\ parent[t] # None =>
         Cardinality(Seps(parent[t])) < InnerMax - 1

(***************************************************************************)
(* What the scan of the index takes for granted when it stops at an empty  *)
(* result ("no more entries"): a leaf that a search for k ends at has no   *)
(* key from k on only if the whole tree has none.                          *)
(***************************************************************************)
EmptyMeansNoMore ==
  LET present == Present
  IN  \A k \in Keys :
        (\A j \in EntryKeys(LeafOf(k)) : j < k) => \A j \in present : j < k

\* What a read that overlaps a write returns is neither followed nor returned.
TornNeverUsed ==
  \A t \in Threads :
    /\ node[t] = Torn => pc[t] = "checkInner"
    /\ \A i \in DOMAIN out[t] : out[t][i] # Torn

(***************************************************************************)
(* A scan returns entries in ascending order, none twice, and none missing *)
(* of those that were in the tree when it started, up to where it stops.   *)
(***************************************************************************)
ScanComplete ==
  \A t \in Threads :
    pc[t] = "return" /\ call[t].op = "scan" =>
      LET found == [i \in DOMAIN out[t] |-> KeyAt(out[t][i])]
          filled == Len(out[t]) = call[t].range
      IN  /\ \A i, j \in DOMAIN found : i < j => found[i] < found[j]
          /\ \A k \in snap[t] :
               k >= call[t].key /\ (filled => k <= Last(found)) =>
                 \E i \in DOMAIN found : found[i] = k

(***************************************************************************)
(* A scan returns no entry twice: the key it continues at is beyond every  *)
(* entry it has returned ("hack: this only works for fixed-size keys").    *)
(***************************************************************************)
NoEntryTwice ==
  \A t \in Threads : \A i, j \in DOMAIN out[t] :
    call[t].op = "scan" /\ i # j => out[t][i] # out[t][j]

(***************************************************************************)
(* The tree implements the ordered map of KVIndex: an insert takes effect  *)
(* when the leaf is written, a find and each fetch of a scan when the leaf *)
(* is validated after it was read.                                         *)
(***************************************************************************)
Index == INSTANCE KVIndex WITH
  Calls <- Calls \cup {Load[i] : i \in DOMAIN Load},
  map   <- Contents,
  phase <- [t \in Threads |->
              IF pc[t] = "idle" THEN "idle"
              ELSE IF pc[t] \in {"unlockLeaf", "return"} THEN "done"
              ELSE "open"]

IndexSpec == Index!Spec

\* Every call returns: restarts caused by other threads do not go on for ever.
CallsReturn == \A t \in Threads : pc[t] # "idle" ~> pc[t] = "idle"
===============================================================================
