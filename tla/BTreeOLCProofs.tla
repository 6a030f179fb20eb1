---------------------------- MODULE BTreeOLCProofs ----------------------------
(***************************************************************************)
(* The lock discipline, type correctness and memory safety of BTreeOLC,    *)
(* and that it is an ordered map, for any number of threads, nodes, keys   *)
(* and calls and any size of the nodes.                                    *)
(*                                                                         *)
(* The lock discipline is inductive once it is known that the words a      *)
(* thread remembers are unlocked ones (Remembered): a compare-and-swap     *)
(* that succeeds then finds a node that nobody holds, in particular one    *)
(* that the thread itself does not hold as parent (Apart).  Nothing about  *)
(* the shape of the tree is needed.                                        *)
(*                                                                         *)
(* Optimistic lock coupling looks first and locks, or validates, later.    *)
(* The rest of the invariant says what that is worth: what a thread has    *)
(* seen of a node (that it is full, that it has room, which child to go    *)
(* to, what it read) is true as long as the node's word is the one the     *)
(* thread remembers, and from the moment the thread holds the node.  It is *)
(* kept because a node changes only under its lock (LockInv) and every     *)
(* lock changes its word.                                                  *)
(*                                                                         *)
(* Last, the tree implements the ordered map of KVIndex.  All leaves       *)
(* together are the map (Contents).  Only Put changes it; a split divides  *)
(* the entries of a leaf, a link moves none.  A find and each fetch of a   *)
(* scan take effect when the leaf they read is validated: what was read is *)
(* then still what the leaf holds (ReadOK), and since the leaf covers the  *)
(* key the thread looks for (SearchInv) its entries from that key on are   *)
(* the first ones of the whole map.  What a scan of many fetches returns   *)
(* follows from that (ScansComplete).                                      *)
(***************************************************************************)
EXTENDS BTreeOLC, TLAPS, FiniteSetTheorems

Readable(version) == ~isLocked(version) /\ ~isObsolete(version)

\* The part of the type invariant that locking depends on.
LockTypes ==
  /\ word \in [Nodes -> Nat]
  /\ pc \in [Threads -> Label]
  /\ DOMAIN node = Threads
  /\ DOMAIN parent = Threads
  /\ DOMAIN versionNode = Threads
  /\ DOMAIN versionParent = Threads

\* The words a thread remembers were neither locked nor obsolete.
Remembered ==
  \A t \in Threads : Readable(versionNode[t]) /\ Readable(versionParent[t])

\* The node and the parent a thread has locked are two nodes, and a thread that
\* locked the root has no parent.
Apart ==
  \A t \in Threads :
    /\ pc[t] \in NodeHeld \cap ParentHeld /\ node[t] \in Nodes => node[t] # parent[t]
    /\ pc[t] = "recheckRoot" => parent[t] = None

LockInv == LockTypes /\ Remembered /\ Apart /\ LockDiscipline

-------------------------------------------------------------------------------
LEMMA Upgraded ==
  ASSUME NEW w \in Nat, Readable(w)
  PROVE  isLocked(w + 2) /\ ~isObsolete(w + 2) /\ w + 2 \in Nat
BY DEF Readable, isLocked, isObsolete

LEMMA Unlocked ==
  ASSUME NEW w \in Nat, isLocked(w), ~isObsolete(w)
  PROVE  Readable(w + 2) /\ w + 2 \in Nat
BY DEF Readable, isLocked, isObsolete

LEMMA FreshWord == Readable(0) /\ Readable(InitialWord) /\ InitialWord \in Nat
BY DEF Readable, isLocked, isObsolete, InitialWord

\* A lock or unlock of anything keeps the words numbers.
LEMMA WordsStayNumbers ==
  ASSUME word \in [Nodes -> Nat], NEW n, word' = [word EXCEPT ![n] = @ + 2]
  PROVE  word' \in [Nodes -> Nat]
<1>1. CASE n \in Nodes
  <2>1. word[n] + 2 \in Nat
    BY <1>1
  <2>2. QED
    BY <1>1, <2>1
<1>2. CASE n \notin Nodes
  <2>1. word' = word
    BY <1>2
  <2>2. QED
    BY <2>1
<1>3. QED
  BY <1>1, <1>2

\* What a thread holds, label by label.
LEMMA HoldsNothing ==
  ASSUME NEW t \in Threads, pc[t] \notin NodeHeld \cup ParentHeld
  PROVE  Holds(t) = {}
BY DEF Holds

(***************************************************************************)
(* A step that changes no lock word and moves one thread between labels at *)
(* which it holds the same nodes keeps the discipline.                     *)
(***************************************************************************)
LEMMA SameLocks ==
  ASSUME LockDiscipline, UNCHANGED word,
         \A s \in Threads : Holds(s)' = Holds(s)
  PROVE  LockDiscipline'
BY DEF LockDiscipline

\* A node that nobody holds is locked by one thread.
LEMMA LockTaken ==
  ASSUME LockTypes, LockDiscipline,
         NEW t \in Threads, NEW n,
         n \in Nodes => Readable(word[n]),
         setLock(n),
         Holds(t)' = Holds(t) \cup ({n} \cap Nodes),
         \A s \in Threads \ {t} : Holds(s)' = Holds(s)
  PROVE  LockDiscipline'
<1>1. CASE n \notin Nodes
  <2>1. word' = word
    BY <1>1 DEF setLock, LockTypes
  <2>2. \A s \in Threads : Holds(s)' = Holds(s)
    BY <1>1
  <2>3. QED
    BY <2>1, <2>2, SameLocks
<1>2. CASE n \in Nodes
  <2>1. /\ word'[n] = word[n] + 2
        /\ \A m \in Nodes \ {n} : word'[m] = word[m]
    BY <1>2 DEF setLock, LockTypes
  <2>2. ~isLocked(word[n]) /\ isLocked(word'[n]) /\ ~isObsolete(word'[n])
    BY <1>2, <2>1, Upgraded DEF LockTypes, Readable
  <2>3. \A s \in Threads : n \notin Holds(s)
    BY <1>2, <2>2 DEF LockDiscipline
  <2>4. Holds(t)' = Holds(t) \cup {n}
    BY <1>2
  <2>5. \A m \in Nodes : ~isObsolete(word'[m])
    BY <2>1, <2>2 DEF LockDiscipline
  <2>6. \A m \in Nodes : isLocked(word'[m]) <=> \E s \in Threads : m \in Holds(s)'
    BY <2>1, <2>2, <2>4 DEF LockDiscipline
  <2>7. \A r, s \in Threads : r # s => Holds(r)' \cap Holds(s)' = {}
    BY <2>3, <2>4 DEF LockDiscipline
  <2>8. QED
    BY <2>5, <2>6, <2>7 DEF LockDiscipline
<1>3. QED
  BY <1>1, <1>2

\* A node is given back by the thread that holds it.
LEMMA LockGivenBack ==
  ASSUME LockTypes, LockDiscipline,
         NEW t \in Threads, NEW n,
         n \in Nodes => n \in Holds(t),
         writeUnlock(n),
         Holds(t)' = Holds(t) \ {n},
         \A s \in Threads \ {t} : Holds(s)' = Holds(s)
  PROVE  LockDiscipline'
<1>1. CASE n \notin Nodes
  <2>1. word' = word
    BY <1>1 DEF writeUnlock, LockTypes
  <2>2. \A s \in Threads : Holds(s)' = Holds(s)
    BY <1>1 DEF Holds
  <2>3. QED
    BY <2>1, <2>2, SameLocks
<1>2. CASE n \in Nodes
  <2>1. /\ word'[n] = word[n] + 2
        /\ \A m \in Nodes \ {n} : word'[m] = word[m]
    BY <1>2 DEF writeUnlock, LockTypes
  <2>2. isLocked(word[n]) /\ ~isObsolete(word[n]) /\ word[n] \in Nat
    BY <1>2 DEF LockDiscipline, LockTypes
  <2>3. ~isLocked(word'[n]) /\ ~isObsolete(word'[n])
    BY <2>1, <2>2, Unlocked DEF Readable
  <2>4. \A s \in Threads \ {t} : n \notin Holds(s)
    BY <1>2 DEF LockDiscipline
  <2>5. \A m \in Nodes : ~isObsolete(word'[m])
    BY <2>1, <2>3 DEF LockDiscipline
  <2>6. \A m \in Nodes : isLocked(word'[m]) <=> \E s \in Threads : m \in Holds(s)'
    BY <2>1, <2>3, <2>4 DEF LockDiscipline
  <2>7. \A r, s \in Threads : r # s => Holds(r)' \cap Holds(s)' = {}
    BY DEF LockDiscipline
  <2>8. QED
    BY <2>5, <2>6, <2>7 DEF LockDiscipline
<1>3. QED
  BY <1>1, <1>2

-------------------------------------------------------------------------------
\* Every step leaves the locals of the other threads alone.
LEMMA OthersHold ==
  ASSUME NEW t \in Threads,
         \A s \in Threads \ {t} :
           pc'[s] = pc[s] /\ node'[s] = node[s] /\ parent'[s] = parent[s]
  PROVE  \A s \in Threads \ {t} : Holds(s)' = Holds(s)
BY DEF Holds

LEMMA RestartFacts ==
  ASSUME LockTypes, Remembered, NEW t \in Threads, Restart(t)
  PROVE  /\ pc' = [pc EXCEPT ![t] = "root"] /\ pc' \in [Threads -> Label]
         /\ DOMAIN node' = Threads /\ DOMAIN parent' = Threads
         /\ DOMAIN versionNode' = Threads /\ DOMAIN versionParent' = Threads
         /\ Remembered'
         /\ \A s \in Threads \ {t} : node'[s] = node[s] /\ parent'[s] = parent[s]
BY FreshWord DEF Restart, Goto, LockTypes, Remembered, Label

(***************************************************************************)
(* The steps that change no lock word and none of the thread's locks.      *)
(***************************************************************************)
LEMMA QuietStep ==
  ASSUME LockInv, NEW t \in Threads,
         UNCHANGED word,
         Holds(t)' = Holds(t),
         pc' \in [Threads -> Label],
         pc'[t] \notin (NodeHeld \cap ParentHeld) \cup {"recheckRoot"},
         \A s \in Threads \ {t} :
           pc'[s] = pc[s] /\ node'[s] = node[s] /\ parent'[s] = parent[s],
         DOMAIN node' = Threads, DOMAIN parent' = Threads,
         DOMAIN versionNode' = Threads, DOMAIN versionParent' = Threads,
         Remembered'
  PROVE  LockInv'
<1>1. LockTypes'
  BY DEF LockInv, LockTypes
<1>2. LockDiscipline'
  BY OthersHold, SameLocks DEF LockInv
<1>3. Apart'
  BY DEF LockInv, Apart
<1>4. QED
  BY <1>1, <1>2, <1>3 DEF LockInv

\* The thread holds nothing at the label it leaves and at the one it goes to.
LEMMA UnlockedStep ==
  ASSUME LockInv, NEW t \in Threads,
         UNCHANGED word,
         pc[t] \notin NodeHeld \cup ParentHeld,
         pc' \in [Threads -> Label],
         pc'[t] \notin NodeHeld \cup ParentHeld,
         \A s \in Threads \ {t} :
           pc'[s] = pc[s] /\ node'[s] = node[s] /\ parent'[s] = parent[s],
         DOMAIN node' = Threads, DOMAIN parent' = Threads,
         DOMAIN versionNode' = Threads, DOMAIN versionParent' = Threads,
         Remembered'
  PROVE  LockInv'
<1>1. Holds(t) = {} /\ Holds(t)' = {}
  BY DEF Holds
<1>2. QED
  BY <1>1, QuietStep DEF NodeHeld, ParentHeld

LEMMA RestartStep ==
  ASSUME LockInv, NEW t \in Threads, UNCHANGED word, Restart(t),
         pc[t] \notin NodeHeld \cup ParentHeld
  PROVE  LockInv'
BY UnlockedStep, RestartFacts DEF LockInv, LockTypes, NodeHeld, ParentHeld

LEMMA DescendStep ==
  ASSUME LockInv, NEW t \in Threads, Descend(t)
  PROVE  LockInv'
<1> USE DEF LockInv, LockTypes, Remembered, Goto, Label, NodeHeld, ParentHeld, search
<1>1. CASE ReadRoot(t)
  BY <1>1, UnlockedStep DEF ReadRoot
<1>2. ASSUME NEW label \in {"rootCheck", "visit"},
             ReadLock(t, label), UNCHANGED word, pc[t] \in {"rootLock", "childLock"}
      PROVE  LockInv'
  <2>1. CASE Restart(t)
    BY <1>2, <2>1, RestartStep
  <2>2. CASE ~Restart(t)
    <3>1. /\ ~isLocked(word[node[t]]) /\ ~isObsolete(word[node[t]])
          /\ versionNode' = [versionNode EXCEPT ![t] = word[node[t]]]
          /\ pc' = [pc EXCEPT ![t] = label]
          /\ UNCHANGED <<node, parent, versionParent>>
      BY <1>2, <2>2 DEF ReadLock
    <3>2. QED
      BY <1>2, <3>1, UnlockedStep DEF Readable
  <2>3. QED
    BY <2>1, <2>2
<1>3. CASE LockRoot(t)
  BY <1>2, <1>3 DEF LockRoot
<1>4. CASE LockChild(t)
  BY <1>2, <1>4 DEF LockChild
<1>5. CASE CheckRoot(t)
  <2>1. CASE Restart(t)
    BY <1>5, <2>1, RestartStep DEF CheckRoot
  <2>2. CASE ~Restart(t)
    BY <1>5, <2>2, UnlockedStep DEF CheckRoot
  <2>3. QED
    BY <2>1, <2>2
<1>6. CASE Visit(t)
  <2>1. PICK label :
          /\ pc' = [pc EXCEPT ![t] = label]
          /\ label = IF inserting(t) /\ isFull(node[t])
                       THEN IF parent[t] = None THEN "lockNode" ELSE "lockParent"
                     ELSE IF kind[node[t]] = "inner" THEN "checkParent"
                     ELSE IF inserting(t) THEN "leafLock" ELSE "read"
    BY <1>6 DEF Visit
  <2>2. \/ label = "lockNode" /\ parent[t] = None
        \/ label \in {"lockParent", "checkParent", "leafLock", "read"}
    BY <2>1
  <2>3. pc[t] = "visit" /\ UNCHANGED <<word, node, parent, versionNode, versionParent>>
    BY <1>6 DEF Visit
  <2>4. Holds(t) = {} /\ Holds(t)' = {}
    BY <2>1, <2>2, <2>3, NodesAssumption DEF Holds
  <2>5. QED
    BY <2>1, <2>2, <2>3, <2>4, QuietStep
<1>7. CASE CheckParent(t)
  <2>1. CASE Restart(t)
    BY <1>7, <2>1, RestartStep DEF CheckParent
  <2>2. CASE ~Restart(t)
    BY <1>7, <2>2, UnlockedStep DEF CheckParent
  <2>3. QED
    BY <2>1, <2>2
<1>8. CASE ReadChild(t)
  BY <1>8, UnlockedStep DEF ReadChild
<1>9. CASE CheckInner(t)
  <2>1. CASE Restart(t)
    BY <1>9, <2>1, RestartStep DEF CheckInner
  <2>2. CASE ~Restart(t)
    BY <1>9, <2>2, UnlockedStep DEF CheckInner, Validate
  <2>3. QED
    BY <2>1, <2>2
<1>10. QED
  BY <1>1, <1>3, <1>4, <1>5, <1>6, <1>7, <1>8, <1>9 DEF Descend

-------------------------------------------------------------------------------
(***************************************************************************)
(* A compare-and-swap that succeeds, to a label at which the thread also   *)
(* holds the node n it has just locked.                                    *)
(***************************************************************************)
LEMMA UpgradeStep ==
  ASSUME LockInv, NEW t \in Threads, NEW n, NEW label \in Label,
         n \in Nodes => Readable(word[n]),
         setLock(n), Goto(t, label), UNCHANGED search,
         Holds(t)' = Holds(t) \cup ({n} \cap Nodes),
         label \in NodeHeld \cap ParentHeld /\ node[t] \in Nodes => node[t] # parent[t],
         label = "recheckRoot" => parent[t] = None
  PROVE  LockInv'
<1>1. word' \in [Nodes -> Nat]
  BY WordsStayNumbers DEF setLock, LockInv, LockTypes
<1>2. pc' = [pc EXCEPT ![t] = label] /\ pc \in [Threads -> Label]
  BY DEF Goto, LockInv, LockTypes
<1>3. LockTypes' /\ Remembered'
  BY <1>1, <1>2 DEF search, LockInv, LockTypes, Remembered
<1>4. \A s \in Threads \ {t} : Holds(s)' = Holds(s)
  <2>1. \A s \in Threads \ {t} :
          pc'[s] = pc[s] /\ node'[s] = node[s] /\ parent'[s] = parent[s]
    BY <1>2 DEF search
  <2>2. QED
    BY <2>1, OthersHold
<1>5. LockDiscipline'
  BY <1>4, LockTaken DEF LockInv
<1>6. Apart'
  BY <1>2 DEF search, LockInv, Apart
<1>7. QED
  BY <1>3, <1>5, <1>6 DEF LockInv

LEMMA LockParentStep ==
  ASSUME LockInv, NEW t \in Threads, LockParent(t)
  PROVE  LockInv'
<1>1. CASE word[parent[t]] = versionParent[t]
  <2>1. /\ setLock(parent[t])
        /\ Goto(t, "lockNode")
        /\ UNCHANGED search
        /\ pc[t] = "lockParent"
    BY <1>1 DEF LockParent, Upgrade
  <2>2. Readable(word[parent[t]])
    BY <1>1 DEF LockInv, Remembered
  <2>3. Holds(t)' = Holds(t) \cup ({parent[t]} \cap Nodes)
    BY <2>1 DEF Holds, NodeHeld, ParentHeld, Goto, search, LockInv, LockTypes
  <2>4. QED
    BY <2>1, <2>2, <2>3, UpgradeStep DEF Label, NodeHeld, ParentHeld
<1>2. CASE word[parent[t]] # versionParent[t]
  BY <1>2, RestartStep DEF LockParent, Upgrade, NodeHeld, ParentHeld
<1>3. QED
  BY <1>1, <1>2

\* A thread that holds no locks at the label it restarts from.
LEMMA RestartEmptyHanded ==
  ASSUME LockInv, NEW t \in Threads, UNCHANGED word, Restart(t), Holds(t) = {}
  PROVE  LockInv'
<1>1. Holds(t)' = {}
  BY RestartFacts DEF Holds, NodeHeld, ParentHeld, LockInv, LockTypes
<1>2. QED
  BY <1>1, RestartFacts, QuietStep DEF NodeHeld, ParentHeld, LockInv, LockTypes

LEMMA LockNodeStep ==
  ASSUME LockInv, NEW t \in Threads, LockNode(t)
  PROVE  LockInv'
<1>1. pc[t] = "lockNode"
  BY DEF LockNode
<1>2. Holds(t) = {parent[t]} \cap Nodes
  BY <1>1 DEF Holds, NodeHeld, ParentHeld
<1>3. CASE word[node[t]] = versionNode[t]
  <2>1. Readable(word[node[t]]) /\ setLock(node[t]) /\ UNCHANGED search
    BY <1>3 DEF LockNode, Upgrade, LockInv, Remembered
  <2>2. CASE parent[t] = None
    <3>1. Goto(t, "recheckRoot")
      BY <1>3, <2>2 DEF LockNode, Upgrade
    <3>2. Holds(t)' = Holds(t) \cup ({node[t]} \cap Nodes)
      BY <1>2, <2>1, <2>2, <3>1, NodesAssumption
         DEF Holds, NodeHeld, ParentHeld, Goto, search, LockInv, LockTypes
    <3>3. QED
      BY <2>1, <2>2, <3>1, <3>2, UpgradeStep DEF Label, NodeHeld, ParentHeld
  <2>3. CASE parent[t] # None
    <3>1. Goto(t, "split")
      BY <1>3, <2>3 DEF LockNode, Upgrade
    <3>2. Holds(t)' = Holds(t) \cup ({node[t]} \cap Nodes)
      BY <1>2, <2>1, <3>1
         DEF Holds, NodeHeld, ParentHeld, Goto, search, LockInv, LockTypes
    <3>3. node[t] \in Nodes => node[t] # parent[t]
      BY <1>2, <2>1 DEF LockInv, LockDiscipline, Readable
    <3>4. QED
      BY <2>1, <3>1, <3>2, <3>3, UpgradeStep DEF Label, NodeHeld, ParentHeld
  <2>4. QED
    BY <2>2, <2>3
<1>4. CASE word[node[t]] # versionNode[t]
  <2>1. CASE parent[t] = None
    BY <1>2, <1>4, <2>1, NodesAssumption, RestartEmptyHanded DEF LockNode, Upgrade
  <2>2. CASE parent[t] # None
    <3>1. Goto(t, "giveBackParent") /\ UNCHANGED search /\ UNCHANGED word
      BY <1>4, <2>2 DEF LockNode, Upgrade
    <3>2. Holds(t)' = Holds(t)
      BY <1>2, <3>1 DEF Holds, NodeHeld, ParentHeld, Goto, search, LockInv, LockTypes
    <3>3. QED
      BY <3>1, <3>2, QuietStep
         DEF Goto, search, Label, NodeHeld, ParentHeld, LockInv, LockTypes, Remembered
  <2>3. QED
    BY <2>1, <2>2
<1>5. QED
  BY <1>3, <1>4

\* An unlock after which the thread stands at a label where it holds one lock less.
LEMMA UnlockStep ==
  ASSUME LockInv, NEW t \in Threads, NEW n,
         n \in Nodes => n \in Holds(t),
         writeUnlock(n),
         Holds(t)' = Holds(t) \ {n},
         pc' \in [Threads -> Label],
         pc'[t] \notin (NodeHeld \cap ParentHeld) \cup {"recheckRoot"},
         \A s \in Threads \ {t} :
           pc'[s] = pc[s] /\ node'[s] = node[s] /\ parent'[s] = parent[s],
         DOMAIN node' = Threads, DOMAIN parent' = Threads,
         DOMAIN versionNode' = Threads, DOMAIN versionParent' = Threads,
         Remembered'
  PROVE  LockInv'
<1>1. word' \in [Nodes -> Nat]
  BY WordsStayNumbers DEF writeUnlock, LockInv, LockTypes
<1>2. LockTypes'
  BY <1>1 DEF LockInv, LockTypes
<1>3. LockDiscipline'
  BY OthersHold, LockGivenBack DEF LockInv
<1>4. Apart'
  BY DEF LockInv, Apart
<1>5. QED
  BY <1>2, <1>3, <1>4 DEF LockInv

LEMMA UnlockAndRestartStep ==
  ASSUME LockInv, NEW t \in Threads, NEW n,
         Holds(t) = {n} \cap Nodes, UnlockAndRestart(t, n)
  PROVE  LockInv'
<1>1. writeUnlock(n) /\ Restart(t)
  BY DEF UnlockAndRestart
<1>2. Holds(t)' = {}
  BY <1>1, RestartFacts DEF Holds, NodeHeld, ParentHeld, LockInv, LockTypes
<1>3. QED
  BY <1>1, <1>2, RestartFacts, UnlockStep DEF LockInv, LockTypes, NodeHeld, ParentHeld

\* Steps of a split, between labels at which both nodes are held.
LEMMA BothHeldStep ==
  ASSUME LockInv, NEW t \in Threads, NEW label \in {"split", "link", "unlockNode"},
         Goto(t, label), UNCHANGED word, UNCHANGED search,
         Holds(t)' = Holds(t),
         node[t] \in Nodes => node[t] # parent[t]
  PROVE  LockInv'
<1>1. LockTypes' /\ Remembered'
  BY DEF Goto, Label, search, LockInv, LockTypes, Remembered
<1>2. LockDiscipline'
  <2>1. \A s \in Threads \ {t} :
          pc'[s] = pc[s] /\ node'[s] = node[s] /\ parent'[s] = parent[s]
    BY DEF Goto, search, LockInv, LockTypes
  <2>2. QED
    BY <2>1, OthersHold, SameLocks DEF LockInv
<1>3. Apart'
  BY DEF LockInv, LockTypes, Apart, Goto, search
<1>4. QED
  BY <1>1, <1>2, <1>3 DEF LockInv

LEMMA SplitFullStep ==
  ASSUME LockInv, NEW t \in Threads, SplitFull(t)
  PROVE  LockInv'
<1> USE DEF NodeHeld, ParentHeld
<1>1. CASE LockParent(t)
  BY <1>1, LockParentStep
<1>2. CASE LockNode(t)
  BY <1>2, LockNodeStep
<1>3. CASE GiveBackParent(t)
  <2>1. Holds(t) = {parent[t]} \cap Nodes
    BY <1>3 DEF GiveBackParent, Holds
  <2>2. QED
    BY <1>3, <2>1, UnlockAndRestartStep DEF GiveBackParent
<1>4. CASE GiveBackNode(t)
  <2>1. Holds(t) = {node[t]} \cap Nodes
    BY <1>4 DEF GiveBackNode, Holds
  <2>2. QED
    BY <1>4, <2>1, UnlockAndRestartStep DEF GiveBackNode
<1>5. CASE UnlockParent(t)
  <2>1. Holds(t) = {parent[t]} \cap Nodes
    BY <1>5 DEF UnlockParent, Holds
  <2>2. QED
    BY <1>5, <2>1, UnlockAndRestartStep DEF UnlockParent
<1>6. CASE RecheckRoot(t)
  <2>1. /\ pc[t] = "recheckRoot" /\ parent[t] = None
        /\ UNCHANGED word /\ UNCHANGED search
    BY <1>6 DEF RecheckRoot, LockInv, Apart
  <2>2. Holds(t) = {node[t]} \cap Nodes
    BY <2>1 DEF Holds
  <2>3. CASE node[t] = root
    <3>1. Goto(t, "split")
      BY <1>6, <2>3 DEF RecheckRoot
    <3>2. Holds(t)' = Holds(t)
      BY <2>1, <2>2, <3>1, NodesAssumption DEF Holds, Goto, search, LockInv, LockTypes
    <3>3. QED
      BY <2>1, <3>1, <3>2, NodesAssumption, BothHeldStep
  <2>4. CASE node[t] # root
    <3>1. Goto(t, "giveBackNode")
      BY <1>6, <2>4 DEF RecheckRoot
    <3>2. Holds(t)' = Holds(t)
      BY <2>1, <2>2, <3>1 DEF Holds, Goto, search, LockInv, LockTypes
    <3>3. QED
      BY <2>1, <3>1, <3>2, QuietStep
         DEF Goto, search, Label, LockInv, LockTypes, Remembered
  <2>5. QED
    BY <2>3, <2>4
<1>7. CASE Split(t) \/ Link(t)
  <2>1. PICK label \in {"link", "unlockNode"} :
          /\ Goto(t, label) /\ UNCHANGED word /\ UNCHANGED search
          /\ pc[t] \in {"split", "link"}
    BY <1>7 DEF Split, Link
  <2>2. Holds(t)' = Holds(t)
    BY <2>1 DEF Holds, Goto, search, LockInv, LockTypes
  <2>3. node[t] \in Nodes => node[t] # parent[t]
    BY <2>1 DEF LockInv, Apart
  <2>4. QED
    BY <2>1, <2>2, <2>3, BothHeldStep
<1>8. CASE UnlockNode(t)
  <2>1. /\ pc[t] = "unlockNode"
        /\ writeUnlock(node[t])
        /\ Holds(t) = {node[t], parent[t]} \cap Nodes
        /\ node[t] \in Nodes => node[t] # parent[t]
    BY <1>8 DEF UnlockNode, Holds, LockInv, Apart
  <2>2. CASE parent[t] = None
    <3>1. UnlockAndRestart(t, node[t])
      BY <1>8, <2>1, <2>2 DEF UnlockNode, UnlockAndRestart
    <3>2. QED
      BY <2>1, <2>2, <3>1, NodesAssumption, UnlockAndRestartStep
  <2>3. CASE parent[t] # None
    <3>1. pc' = [pc EXCEPT ![t] = "unlockParent"] /\ UNCHANGED search
      BY <1>8, <2>3 DEF UnlockNode, Goto
    <3>2. Holds(t)' = {parent[t]} \cap Nodes
      BY <3>1 DEF Holds, search, LockInv, LockTypes
    <3>3. Holds(t)' = Holds(t) \ {node[t]}
      BY <2>1, <3>2
    <3>4. QED
      BY <2>1, <3>1, <3>3, UnlockStep
         DEF search, Label, LockInv, LockTypes, Remembered
  <2>4. QED
    BY <2>2, <2>3
<1>9. QED
  BY <1>1, <1>2, <1>3, <1>4, <1>5, <1>6, <1>7, <1>8 DEF SplitFull

LEMMA LeaveFacts ==
  ASSUME LockTypes, Remembered, NEW t \in Threads, Leave(t)
  PROVE  /\ pc' = [pc EXCEPT ![t] = "idle"] /\ pc' \in [Threads -> Label]
         /\ DOMAIN node' = Threads /\ DOMAIN parent' = Threads
         /\ DOMAIN versionNode' = Threads /\ DOMAIN versionParent' = Threads
         /\ Remembered'
         /\ \A s \in Threads \ {t} : node'[s] = node[s] /\ parent'[s] = parent[s]
BY FreshWord DEF Leave, Goto, LockTypes, Remembered, Label

LEMMA InsertIntoLeafStep ==
  ASSUME LockInv, NEW t \in Threads, InsertIntoLeaf(t)
  PROVE  LockInv'
<1> USE DEF NodeHeld, ParentHeld
<1>1. CASE LockLeaf(t)
  <2>1. CASE word[node[t]] = versionNode[t]
    <3>1. PICK label \in {"put", "leafCheckParent"} : Goto(t, label)
      BY <1>1, <2>1 DEF LockLeaf, Upgrade
    <3>2. /\ Readable(word[node[t]]) /\ setLock(node[t]) /\ UNCHANGED search
          /\ pc[t] = "leafLock"
      BY <1>1, <2>1 DEF LockLeaf, Upgrade, LockInv, Remembered
    <3>3. Holds(t)' = Holds(t) \cup ({node[t]} \cap Nodes)
      BY <3>1, <3>2 DEF Holds, Goto, search, LockInv, LockTypes
    <3>4. QED
      BY <3>1, <3>2, <3>3, UpgradeStep DEF Label
  <2>2. CASE word[node[t]] # versionNode[t]
    BY <1>1, <2>2, RestartStep DEF LockLeaf, Upgrade
  <2>3. QED
    BY <2>1, <2>2
<1>2. CASE LeafCheckParent(t) \/ Put(t)
  <2>1. PICK label \in {"put", "giveBackNode", "unlockLeaf"} :
          /\ Goto(t, label) /\ UNCHANGED word /\ UNCHANGED search
          /\ pc[t] \in {"leafCheckParent", "put"}
    BY <1>2 DEF LeafCheckParent, Put
  <2>2. Holds(t)' = Holds(t)
    BY <2>1 DEF Holds, Goto, search, LockInv, LockTypes
  <2>3. QED
    BY <2>1, <2>2, QuietStep
       DEF Goto, search, Label, LockInv, LockTypes, Remembered
<1>3. CASE UnlockLeaf(t)
  <2>1. writeUnlock(node[t]) /\ Leave(t) /\ Holds(t) = {node[t]} \cap Nodes
    BY <1>3 DEF UnlockLeaf, Holds
  <2>2. Holds(t)' = {}
    BY <2>1, LeaveFacts DEF Holds, LockInv, LockTypes
  <2>3. QED
    BY <2>1, <2>2, LeaveFacts, UnlockStep DEF LockInv, LockTypes
<1>4. QED
  BY <1>1, <1>2, <1>3 DEF InsertIntoLeaf

LEMMA ReadOnlyStep ==
  ASSUME LockInv, NEW t \in Threads, ReadOnly(t)
  PROVE  LockInv'
<1> USE DEF NodeHeld, ParentHeld
<1>1. ASSUME NEW label \in {"readCheckParent", "readCheckNode", "return"},
             Goto(t, label), UNCHANGED word, UNCHANGED search,
             pc[t] \in {"read", "readCheckParent", "readCheckNode"}
      PROVE  LockInv'
  BY <1>1, UnlockedStep DEF Goto, search, Label, LockInv, LockTypes, Remembered
<1>2. CASE ReadLeaf(t)
  BY <1>1, <1>2 DEF ReadLeaf
<1>3. CASE ReadCheckParent(t)
  BY <1>1, <1>3, RestartStep DEF ReadCheckParent
<1>4. CASE ReadCheckNode(t)
  BY <1>1, <1>4, RestartStep DEF ReadCheckNode, Accept
<1>5. CASE Return(t)
  <2>1. Leave(t) /\ UNCHANGED word /\ pc[t] = "return"
    BY <1>5 DEF Return
  <2>2. QED
    BY <2>1, LeaveFacts, UnlockedStep DEF LockInv, LockTypes
<1>6. QED
  BY <1>2, <1>3, <1>4, <1>5 DEF ReadOnly

LEMMA StartStep ==
  ASSUME LockInv, NEW t \in Threads, NEW c, Start(t, c)
  PROVE  LockInv'
<1>1. /\ pc[t] = "idle" /\ pc' = [pc EXCEPT ![t] = "root"]
      /\ UNCHANGED <<word, node, parent, versionNode, versionParent>>
  BY DEF Start, Goto, search
<1>2. QED
  BY <1>1, UnlockedStep DEF Label, NodeHeld, ParentHeld, LockInv, LockTypes, Remembered

-------------------------------------------------------------------------------
LEMMA InitLockInv == Init => LockInv
<1> SUFFICES ASSUME Init PROVE LockInv
  OBVIOUS
<1>1. LockTypes /\ Remembered
  BY FreshWord DEF Init, LockTypes, Remembered, Label
<1>2. \A t \in Threads : Holds(t) = {}
  BY DEF Init, Holds, NodeHeld, ParentHeld
<1>3. LockDiscipline
  BY <1>2, FreshWord DEF Init, LockDiscipline, Readable
<1>4. Apart
  BY DEF Init, Apart, NodeHeld, ParentHeld
<1>5. QED
  BY <1>1, <1>3, <1>4 DEF LockInv

LEMMA NextLockInv == LockInv /\ [Next]_vars => LockInv'
<1> SUFFICES ASSUME LockInv, [Next]_vars PROVE LockInv'
  OBVIOUS
<1>1. ASSUME NEW t \in Threads, Step(t) PROVE LockInv'
  BY <1>1, DescendStep, SplitFullStep, InsertIntoLeafStep, ReadOnlyStep DEF Step
<1>2. CASE UNCHANGED vars
  BY <1>2 DEF vars, search, LockInv, LockTypes, Remembered, Apart, LockDiscipline, Holds
<1>3. QED
  BY <1>1, <1>2, StartStep DEF Next, Finished

\* The lock words and the threads' locals of the search keep their types, and the
\* words a thread remembers stay unlocked ones.
THEOREM LockInvariant == Spec => []LockInv
BY InitLockInv, NextLockInv, PTL DEF Spec

(***************************************************************************)
(* No way out of insert leaves a lock behind, no thread unlocks a node it  *)
(* does not hold, no two threads hold a node together, and no node becomes *)
(* obsolete, however many threads restart and split and whatever they      *)
(* read: for trees of any size.                                            *)
(***************************************************************************)
THEOREM Discipline == Spec => []LockDiscipline
<1>1. LockInv => LockDiscipline
  BY DEF LockInv
<1>2. QED
  BY <1>1, LockInvariant, PTL

-------------------------------------------------------------------------------
\* Nodes of the tree, and nodes of a split that is not linked yet.
Allocated(n) == n \in Nodes /\ kind[n] # "free"

\* No node holds more than its arrays do, and no inner node has a child that was
\* never allocated.
NodeOK(n) ==
  /\ IsFiniteSet(EntryKeys(n)) /\ IsFiniteSet(Seps(n))
  /\ kind[n] = "leaf" => Cardinality(EntryKeys(n)) <= LeafMax
  /\ kind[n] = "inner" =>
       /\ Cardinality(Seps(n)) <= InnerMax - 1
       /\ Allocated(beyond[n])
       /\ \A k \in Seps(n) : Allocated(below[n][k])
  /\ kind[n] = "free" => Seps(n) = {}

Shape == Allocated(root) /\ \A n \in Nodes : NodeOK(n)

\* Where only an insert, and only a find or a scan, can stand.
InsertLabels ==
  {"lockParent", "lockNode", "giveBackParent", "recheckRoot", "giveBackNode",
   "split", "link", "unlockNode", "unlockParent", "leafLock", "leafCheckParent",
   "put", "unlockLeaf"}
ReadLabels == {"read", "readCheckParent", "readCheckNode", "return"}
\* Where the thread has the word of its node at hand, and where it has a node.
NodeRead ==
  {"rootCheck", "visit", "checkParent", "lockParent", "lockNode", "leafLock",
   "read", "readCheckParent", "readCheckNode"}
NodeSeen ==
  NodeRead \cup NodeHeld \cup {"rootLock", "childLock", "giveBackParent", "unlockParent"}

\* The call of the thread, and the key of an insert or a find.
CallOK(t) ==
  /\ pc[t] # "idle" => call[t] # None
  /\ pc[t] \in InsertLabels => inserting(t)
  /\ pc[t] \in ReadLabels => ~inserting(t)
  /\ call[t] # None /\ call[t].op # "scan" => from[t] = call[t].key

\* The nodes the thread works with are nodes of the right kind.  A torn child is
\* one read from a parent that has changed, as the next check will find.
Where(t) ==
  /\ pc[t] \in NodeSeen => Allocated(node[t])
  /\ pc[t] = "checkInner" =>
       \/ Allocated(node[t])
       \/ node[t] = Torn /\ word[parent[t]] # versionParent[t]
  /\ pc[t] \notin NodeSeen \cup {"checkInner"} => node[t] # Torn
  /\ parent[t] # None => Allocated(parent[t]) /\ kind[parent[t]] = "inner"
  /\ pc[t] \in {"child", "checkInner", "childLock", "lockParent",
                "giveBackParent", "unlockParent"} => parent[t] # None
  /\ pc[t] = "idle" => parent[t] = None
  /\ pc[t] = "checkParent" => kind[node[t]] = "inner"
  /\ pc[t] \in {"leafLock", "leafCheckParent", "put"} => kind[node[t]] = "leaf"
  /\ pc[t] = "link" => Allocated(sibling[t]) /\ sep[t] \in Keys

\* The words a thread remembers are not ahead of the nodes' words.
Versions(t) ==
  /\ pc[t] \in NodeRead => versionNode[t] <= word[node[t]]
  /\ parent[t] # None => versionParent[t] <= word[parent[t]]
  /\ pc[t] \in {"child", "checkInner"} => versionNode[t] = versionParent[t]

\* The thread holds the node, or the node is as it was when its word was read.
NodeCurrent(t) == pc[t] \in NodeHeld \/ word[node[t]] = versionNode[t]
ParentCurrent(t) == pc[t] \in ParentHeld \/ word[parent[t]] = versionParent[t]

\* A node about to be split is full; a leaf about to be written, and a parent that
\* will take a separator, has room.
Fullness(t) ==
  /\ pc[t] \in {"lockParent", "lockNode", "recheckRoot", "split"} /\ NodeCurrent(t) =>
       isFull(node[t])
  /\ pc[t] \in {"checkParent", "leafLock", "leafCheckParent", "put"} /\ inserting(t)
       /\ NodeCurrent(t) => ~isFull(node[t])
  /\ parent[t] # None /\ inserting(t) /\ ParentCurrent(t)
       /\ pc[t] \notin {"unlockNode", "unlockParent"} => ~isFull(parent[t])

\* What was read of a leaf that has not changed since.
BatchOK(t) ==
  pc[t] \in {"readCheckParent", "readCheckNode"} /\ word[node[t]] = versionNode[t] =>
    /\ batch[t] \in Seq(Payloads \cup {Unset})
    /\ call[t].op = "scan" => \A i \in 1..Len(batch[t]) : batch[t][i] \in Payloads

ThreadOK(t) == CallOK(t) /\ Where(t) /\ Versions(t) /\ Fullness(t) /\ BatchOK(t)

SafeInv == TypeOK /\ Shape /\ \A t \in Threads : ThreadOK(t)

-------------------------------------------------------------------------------
\* A finite set of numbers has an element with i smaller ones, for each i below
\* its size: counting the smaller ones is injective, hence onto.
LEMMA AtIndexOf ==
  ASSUME NEW S, \A j \in S : j \in Nat, IsFiniteSet(S), NEW i \in 0..(Cardinality(S) - 1)
  PROVE  /\ AtIndex(S, i) \in S
         /\ Cardinality({j \in S : j < AtIndex(S, i)}) = i
<1> DEFINE smaller(k) == {j \in S : j < k}
           f == [k \in S |-> Cardinality(smaller(k))]
           n == Cardinality(S)
<1>1. n \in Nat
  BY FS_CardinalityType
<1>2. \A k \in S : /\ IsFiniteSet(smaller(k)) /\ Cardinality(smaller(k)) \in Nat
                   /\ Cardinality(smaller(k)) < n
  <2> TAKE k \in S
  <2>1. smaller(k) \in SUBSET S /\ k \notin smaller(k)
    OBVIOUS
  <2>2. /\ IsFiniteSet(smaller(k)) /\ Cardinality(smaller(k)) <= n
        /\ n = Cardinality(smaller(k)) => S = smaller(k)
    BY <2>1, FS_Subset
  <2>3. Cardinality(smaller(k)) \in Nat
    BY <2>2, FS_CardinalityType
  <2>4. QED
    BY <2>1, <2>2, <2>3, <1>1
<1>3. \A a, b \in S : a < b => Cardinality(smaller(a)) # Cardinality(smaller(b))
  <2> SUFFICES ASSUME NEW a \in S, NEW b \in S, a < b
               PROVE  Cardinality(smaller(a)) # Cardinality(smaller(b))
    OBVIOUS
  <2>1. a \in smaller(b) /\ a \notin smaller(a)
    OBVIOUS
  <2>2. smaller(a) \subseteq smaller(b)
    OBVIOUS
  <2>3. Cardinality(smaller(b)) = Cardinality(smaller(a)) => smaller(b) = smaller(a)
    BY <1>2, <2>2, FS_Subset
  <2>4. QED
    BY <2>1, <2>3
<1>4. f \in Injection(S, 0..(n - 1))
  <2>1. f \in [S -> 0..(n - 1)]
    <3>1. \A k \in S : Cardinality(smaller(k)) \in 0..(n - 1)
      <4> HIDE DEF smaller, n
      <4>1. QED
        BY <1>1, <1>2
    <3>2. QED
      BY <3>1
  <2>2. ASSUME NEW a \in S, NEW b \in S, f[a] = f[b]
        PROVE  a = b
    <3>1. Cardinality(smaller(a)) = Cardinality(smaller(b))
      BY <2>2
    <3>2. ~(a < b) /\ ~(b < a)
      BY <1>3, <3>1
    <3>3. QED
      BY <3>2
  <2>3. QED
    BY <2>1, <2>2 DEF Injection, IsInjective
<1>5. f \in Surjection(S, 0..(n - 1))
  <2>1. IsFiniteSet(0..(n - 1)) /\ Cardinality(0..(n - 1)) = n
    BY <1>1, FS_Interval
  <2>2. QED
    BY <1>4, <2>1, FS_Injection
<1>6. PICK k \in S : f[k] = i
  BY <1>5 DEF Surjection
<1>7. QED
  BY <1>6 DEF AtIndex

\* So it has a least and a greatest element.
LEMMA LeastOf ==
  ASSUME NEW S, \A j \in S : j \in Nat, IsFiniteSet(S), S # {}
  PROVE  Least(S) \in S /\ \A j \in S : Least(S) <= j
<1> DEFINE k == AtIndex(S, 0)
<1>1. Cardinality(S) \in Nat \ {0}
  BY FS_EmptySet, FS_CardinalityType
<1>2. k \in S /\ Cardinality({j \in S : j < k}) = 0
  BY <1>1, AtIndexOf
<1>3. {j \in S : j < k} = {}
  <2>1. IsFiniteSet({j \in S : j < k})
    BY FS_Subset
  <2>2. QED
    BY <1>2, <2>1, FS_EmptySet
<1>4. \A j \in S : k <= j
  <2>1. \A j \in S : ~(j < k)
    BY <1>3
  <2>2. \A j \in S : j \in Nat
    OBVIOUS
  <2>3. QED
    BY <1>2, <2>1, <2>2
<1>5. QED
  BY <1>2, <1>4 DEF Least

LEMMA GreatestOf ==
  ASSUME NEW S, \A j \in S : j \in Nat, IsFiniteSet(S), S # {}
  PROVE  Greatest(S) \in S /\ \A j \in S : j <= Greatest(S)
<1> DEFINE n == Cardinality(S)
           k == AtIndex(S, n - 1)
           smaller == {j \in S : j < k}
<1>1. n \in Nat \ {0}
  BY FS_EmptySet, FS_CardinalityType
<1>2. k \in S /\ Cardinality(smaller) = n - 1
  BY <1>1, AtIndexOf
<1>3. smaller \subseteq S \ {k} /\ IsFiniteSet(S \ {k}) /\ Cardinality(S \ {k}) = n - 1
  <2>1. k \in Nat /\ ~(k < k)
    BY <1>2
  <2>2. IsFiniteSet(S \ {k}) /\ Cardinality(S \ {k}) = n - 1
    BY <1>2, FS_RemoveElement
  <2>3. QED
    BY <2>1, <2>2
<1>4. smaller = S \ {k}
  BY <1>2, <1>3, FS_Subset
<1>5. \A j \in S : j <= k
  <2>1. \A j \in S : j < k \/ j = k
    BY <1>4
  <2>2. \A j \in S : j \in Nat
    OBVIOUS
  <2>3. QED
    BY <1>2, <2>1, <2>2
<1>6. QED
  BY <1>2, <1>5 DEF Greatest

-------------------------------------------------------------------------------
\* What the keys of a node are, of which there are finitely many.
LEMMA KeysAreNumbers ==
  ASSUME NEW n
  PROVE  /\ \A k \in EntryKeys(n) : k \in Keys /\ k \in Nat
         /\ \A k \in Seps(n) : k \in Keys /\ k \in Nat
BY KeysAssumption DEF EntryKeys, Seps

\* A search goes on at a node of the tree.
LEMMA ChildOf ==
  ASSUME Shape, NEW n \in Nodes, kind[n] = "inner", NEW k
  PROVE  Allocated(Child(n, k))
<1> DEFINE notBelow == {s \in Seps(n) : s >= k}
<1>1. NodeOK(n)
  BY DEF Shape
<1>2. CASE notBelow = {}
  BY <1>1, <1>2 DEF NodeOK, Child
<1>3. CASE notBelow # {}
  <2>1. IsFiniteSet(notBelow)
    BY <1>1, FS_Subset DEF NodeOK
  <2>2. \A s \in notBelow : s \in Nat
    BY KeysAreNumbers
  <2>3. Least(notBelow) \in Seps(n)
    BY <1>3, <2>1, <2>2, LeastOf
  <2>4. QED
    BY <1>1, <1>3, <2>3 DEF NodeOK, Child
<1>4. QED
  BY <1>2, <1>3

(***************************************************************************)
(* What a step of the thread t does to the others: it leaves their locals  *)
(* alone, no lock word gets smaller, and of the nodes of the tree only     *)
(* those it holds change.                                                  *)
(***************************************************************************)
Elsewhere(t) ==
  \A s \in Threads \ {t} :
    /\ pc'[s] = pc[s] /\ call'[s] = call[s]
    /\ node'[s] = node[s] /\ parent'[s] = parent[s]
    /\ versionNode'[s] = versionNode[s] /\ versionParent'[s] = versionParent[s]
    /\ sibling'[s] = sibling[s] /\ sep'[s] = sep[s]
    /\ batch'[s] = batch[s] /\ from'[s] = from[s]
WordsGrow == \A n \in Nodes : word[n] <= word'[n]
TreeGrows(t) ==
  \A n \in Nodes : kind[n] # "free" =>
    /\ kind'[n] = kind[n]
    /\ n \notin Holds(t) => ents'[n] = ents[n] /\ below'[n] = below[n]

\* A node whose word is still the one that s remembers has not changed.
LEMMA RememberedNodeStays ==
  ASSUME LockInv, NEW t \in Threads, NEW s \in Threads \ {t}, NEW n \in Nodes,
         NEW version \in Nat, Readable(version), version <= word[n],
         WordsGrow, word' \in [Nodes -> Nat], word'[n] = version
  PROVE  word[n] = version /\ n \notin Holds(t)
<1>1. word[n] = version
  BY DEF WordsGrow, LockInv, LockTypes
<1>2. QED
  BY <1>1 DEF LockInv, LockDiscipline, Readable

\* What another thread knows stays true.
LEMMA OthersSafe ==
  ASSUME LockInv, TypeOK, TypeOK', NEW t \in Threads, NEW s \in Threads \ {t},
         ThreadOK(s), Elsewhere(t), TreeGrows(t), WordsGrow
  PROVE  ThreadOK(s)'
<1>1. /\ pc'[s] = pc[s] /\ call'[s] = call[s]
      /\ node'[s] = node[s] /\ parent'[s] = parent[s]
      /\ versionNode'[s] = versionNode[s] /\ versionParent'[s] = versionParent[s]
      /\ sibling'[s] = sibling[s] /\ sep'[s] = sep[s]
      /\ batch'[s] = batch[s] /\ from'[s] = from[s]
  BY DEF Elsewhere
<1>2. \A n \in Nodes : kind[n] # "free" => kind'[n] = kind[n]
  BY DEF TreeGrows
<1>3. /\ word \in [Nodes -> Nat] /\ word' \in [Nodes -> Nat]
      /\ versionNode[s] \in Nat /\ versionParent[s] \in Nat
      /\ Readable(versionNode[s]) /\ Readable(versionParent[s])
  BY DEF TypeOK, LockInv, Remembered
<1>4. CallOK(s) /\ Where(s) /\ Versions(s) /\ Fullness(s) /\ BatchOK(s)
  BY DEF ThreadOK
<1>5. CallOK(s)'
  BY <1>1, <1>4 DEF CallOK, inserting
<1>6. parent[s] # None => /\ parent[s] \in Nodes /\ kind[parent[s]] # "free"
                          /\ versionParent[s] <= word[parent[s]]
                          /\ word[parent[s]] <= word'[parent[s]]
  BY <1>4 DEF Where, Versions, Allocated, WordsGrow
<1>7. pc[s] \in NodeSeen => /\ node[s] \in Nodes /\ kind[node[s]] # "free"
                            /\ word[node[s]] <= word'[node[s]]
  BY <1>4 DEF Where, Allocated, WordsGrow
<1>8. pc[s] \in NodeRead => versionNode[s] <= word[node[s]]
  BY <1>4 DEF Versions
<1>9. Versions(s)'
  <2>1. pc[s] \in NodeRead => versionNode[s] <= word'[node[s]]
    BY <1>3, <1>7, <1>8 DEF NodeSeen
  <2>2. parent[s] # None => versionParent[s] <= word'[parent[s]]
    BY <1>3, <1>6
  <2>3. QED
    BY <1>1, <1>4, <2>1, <2>2 DEF Versions
<1>10. Where(s)'
  <2>1. pc[s] = "checkInner" /\ ~Allocated(node[s]) => word'[parent[s]] # versionParent[s]
    BY <1>3, <1>4, <1>6 DEF Where
  <2>2. /\ pc'[s] \in NodeSeen => Allocated(node[s])'
        /\ pc'[s] = "checkInner" =>
             \/ Allocated(node[s])'
             \/ node'[s] = Torn /\ word'[parent'[s]] # versionParent'[s]
        /\ pc'[s] \notin NodeSeen \cup {"checkInner"} => node'[s] # Torn
    BY <1>1, <1>2, <1>4, <2>1 DEF Where, Allocated
  <2>3. /\ parent'[s] # None => Allocated(parent[s])' /\ kind'[parent'[s]] = "inner"
        /\ pc'[s] = "link" => Allocated(sibling[s])' /\ sep'[s] \in Keys
    BY <1>1, <1>2, <1>4 DEF Where, Allocated
  <2>4. /\ pc'[s] = "checkParent" => kind'[node'[s]] = "inner"
        /\ pc'[s] \in {"leafLock", "leafCheckParent", "put"} => kind'[node'[s]] = "leaf"
    BY <1>1, <1>2, <1>7, <1>4 DEF Where, NodeSeen, NodeRead, NodeHeld
  <2>5. QED
    BY <1>1, <1>4, <2>2, <2>3, <2>4 DEF Where
<1>11. pc[s] \in NodeRead \cup NodeHeld /\ NodeCurrent(s)' =>
         NodeCurrent(s) /\ (isFull(node[s])' <=> isFull(node[s]))
  <2> SUFFICES ASSUME pc[s] \in NodeRead \cup NodeHeld, NodeCurrent(s)'
               PROVE  NodeCurrent(s) /\ (isFull(node[s])' <=> isFull(node[s]))
    OBVIOUS
  <2>1. node[s] \in Nodes /\ kind[node[s]] # "free"
    BY <1>7 DEF NodeSeen
  <2>2. NodeCurrent(s) /\ node[s] \notin Holds(t)
    <3>1. CASE pc[s] \in NodeHeld
      BY <2>1, <3>1 DEF NodeCurrent, Holds, LockInv, LockDiscipline
    <3>2. CASE pc[s] \notin NodeHeld
      <4>1. word'[node[s]] = versionNode[s]
        BY <1>1, <3>2 DEF NodeCurrent
      <4>2. QED
        BY <1>3, <1>8, <2>1, <3>2, <4>1, RememberedNodeStays DEF NodeCurrent
    <3>3. QED
      BY <3>1, <3>2
  <2>3. /\ kind'[node[s]] = kind[node[s]] /\ ents'[node[s]] = ents[node[s]]
        /\ below'[node[s]] = below[node[s]]
    BY <2>1, <2>2 DEF TreeGrows
  <2>4. QED
    BY <1>1, <2>2, <2>3 DEF isFull, leafIsFull, innerIsFull, EntryKeys, Seps
<1>12. parent[s] # None /\ ParentCurrent(s)' =>
         ParentCurrent(s) /\ (isFull(parent[s])' <=> isFull(parent[s]))
  <2> SUFFICES ASSUME parent[s] # None, ParentCurrent(s)'
               PROVE  ParentCurrent(s) /\ (isFull(parent[s])' <=> isFull(parent[s]))
    OBVIOUS
  <2>1. ParentCurrent(s) /\ parent[s] \notin Holds(t)
    <3>1. CASE pc[s] \in ParentHeld
      BY <1>6, <3>1 DEF ParentCurrent, Holds, LockInv, LockDiscipline
    <3>2. CASE pc[s] \notin ParentHeld
      <4>1. word'[parent[s]] = versionParent[s]
        BY <1>1, <3>2 DEF ParentCurrent
      <4>2. QED
        BY <1>3, <1>6, <3>2, <4>1, RememberedNodeStays DEF ParentCurrent
    <3>3. QED
      BY <3>1, <3>2
  <2>2. /\ kind'[parent[s]] = kind[parent[s]] /\ ents'[parent[s]] = ents[parent[s]]
        /\ below'[parent[s]] = below[parent[s]]
    BY <1>6, <2>1 DEF TreeGrows
  <2>3. QED
    BY <1>1, <2>1, <2>2 DEF isFull, leafIsFull, innerIsFull, EntryKeys, Seps
<1>13. Fullness(s)'
  <2>1. /\ {"lockParent", "lockNode", "recheckRoot", "split"} \subseteq NodeRead \cup NodeHeld
        /\ {"checkParent", "leafLock", "leafCheckParent", "put"} \subseteq NodeRead \cup NodeHeld
    BY DEF NodeRead, NodeHeld
  <2>2. QED
    BY <1>1, <1>4, <1>11, <1>12, <2>1 DEF Fullness, inserting
<1>14. BatchOK(s)'
  <2>1. pc[s] \in {"readCheckParent", "readCheckNode"} /\ word'[node[s]] = versionNode[s]
          => word[node[s]] = versionNode[s]
    BY <1>3, <1>7, <1>8 DEF NodeSeen, NodeRead
  <2>2. QED
    BY <1>1, <1>4, <2>1 DEF BatchOK
<1>15. QED
  BY <1>5, <1>9, <1>10, <1>13, <1>14 DEF ThreadOK

\* So a step of t need only be followed up for the tree and for t.
LEMMA StepSafe ==
  ASSUME LockInv, SafeInv, NEW t \in Threads,
         TypeOK', Shape', ThreadOK(t)', Elsewhere(t), TreeGrows(t), WordsGrow
  PROVE  SafeInv'
<1>1. \A s \in Threads \ {t} : ThreadOK(s)'
  BY OthersSafe DEF SafeInv
<1>2. QED
  BY <1>1 DEF SafeInv

-------------------------------------------------------------------------------
\* Steps that write no node.
LEMMA TreeUnchanged ==
  ASSUME LockInv, SafeInv, NEW t \in Threads,
         UNCHANGED tree, TypeOK', ThreadOK(t)', Elsewhere(t), WordsGrow
  PROVE  SafeInv'
<1>1. Shape'
  BY DEF SafeInv, Shape, NodeOK, Allocated, EntryKeys, Seps, tree
<1>2. TreeGrows(t)
  BY DEF TreeGrows, tree
<1>3. QED
  BY <1>1, <1>2, StepSafe

\* Steps that change no more than where the thread stands in its search.
SearchTypes ==
  /\ pc' \in [Threads -> Label]
  /\ node' \in [Threads -> Nodes \cup {None, Torn}]
  /\ parent' \in [Threads -> Nodes \cup {None}]
  /\ versionNode' \in [Threads -> Nat] /\ versionParent' \in [Threads -> Nat]
SearchElsewhere(t) ==
  \A s \in Threads \ {t} :
    /\ pc'[s] = pc[s] /\ node'[s] = node[s] /\ parent'[s] = parent[s]
    /\ versionNode'[s] = versionNode[s] /\ versionParent'[s] = versionParent[s]

LEMMA SearchStep ==
  ASSUME LockInv, SafeInv, NEW t \in Threads,
         UNCHANGED <<tree, word, sibling, sep, result, bound>>,
         SearchTypes, SearchElsewhere(t), ThreadOK(t)'
  PROVE  SafeInv'
<1>1. TypeOK'
  BY DEF SafeInv, TypeOK, SearchTypes, tree, result, bound
<1>2. Elsewhere(t) /\ WordsGrow
  BY DEF SafeInv, TypeOK, SearchElsewhere, Elsewhere, WordsGrow, result, bound
<1>3. QED
  BY <1>1, <1>2, TreeUnchanged

\* A restart forgets everything there was to know.
LEMMA RestartFresh ==
  ASSUME TypeOK, NEW t \in Threads, Restart(t)
  PROVE  /\ SearchTypes /\ SearchElsewhere(t)
         /\ pc'[t] = "root" /\ node'[t] = None /\ parent'[t] = None
BY DEF TypeOK, Restart, Goto, Label, SearchTypes, SearchElsewhere

LEMMA RestartOK ==
  ASSUME TypeOK, NEW t \in Threads, CallOK(t), pc[t] # "idle", Restart(t),
         call'[t] = call[t], from'[t] = from[t] \/ call[t].op = "scan"
  PROVE  ThreadOK(t)'
<1> USE RestartFresh
<1>1. CallOK(t)'
  BY DEF CallOK, inserting, InsertLabels, ReadLabels
<1>2. Where(t)'
  BY SentinelsAssumption DEF Where, NodeSeen, NodeRead, NodeHeld
<1>3. Versions(t)' /\ Fullness(t)' /\ BatchOK(t)'
  BY DEF Versions, Fullness, BatchOK, NodeRead
<1>4. QED
  BY <1>1, <1>2, <1>3 DEF ThreadOK

LEMMA RestartSafe ==
  ASSUME LockInv, SafeInv, NEW t \in Threads, Restart(t), pc[t] # "idle",
         UNCHANGED <<tree, word, sibling, sep, result, bound>>
  PROVE  SafeInv'
<1>1. TypeOK /\ CallOK(t)
  BY DEF SafeInv, ThreadOK
<1>2. ThreadOK(t)'
  BY <1>1, RestartOK DEF result, bound
<1>3. QED
  BY <1>1, <1>2, RestartFresh, SearchStep

LEMMA ThreadParts ==
  ASSUME SafeInv, NEW t \in Threads
  PROVE  /\ TypeOK /\ Shape
         /\ CallOK(t) /\ Where(t) /\ Versions(t) /\ Fullness(t) /\ BatchOK(t)
BY DEF SafeInv, ThreadOK

-------------------------------------------------------------------------------
\* The way down.
LEMMA ReadRootSafe ==
  ASSUME LockInv, SafeInv, NEW t \in Threads, ReadRoot(t)
  PROVE  SafeInv'
<1> USE ThreadParts
<1>1. /\ pc[t] = "root" /\ pc' = [pc EXCEPT ![t] = "rootLock"]
      /\ node' = [node EXCEPT ![t] = root]
      /\ UNCHANGED <<tree, word, parent, versionNode, versionParent, sibling, sep, result, bound>>
  BY DEF ReadRoot, Goto
<1>2. SearchTypes /\ SearchElsewhere(t) /\ pc'[t] = "rootLock" /\ node'[t] = root
  BY <1>1 DEF TypeOK, Label, SearchTypes, SearchElsewhere
<1>3. CallOK(t)'
  BY <1>1, <1>2 DEF CallOK, inserting, InsertLabels, ReadLabels, result, bound
<1>4. Where(t)'
  BY <1>1, <1>2 DEF Where, Allocated, Shape, NodeSeen, NodeRead, NodeHeld, tree
<1>5. Versions(t)' /\ BatchOK(t)'
  BY <1>1, <1>2 DEF Versions, BatchOK, NodeRead
<1>6. Fullness(t)'
  BY <1>1, <1>2 DEF Fullness, ParentCurrent, ParentHeld, inserting, bound, tree,
                    isFull, leafIsFull, innerIsFull, EntryKeys, Seps
<1>7. QED
  BY <1>1, <1>2, <1>3, <1>4, <1>5, <1>6, SearchStep DEF ThreadOK

\* readLockOrRestart, at the root or at a child.
LEMMA ReadLockSafe ==
  ASSUME LockInv, SafeInv, NEW t \in Threads, NEW label \in {"rootCheck", "visit"},
         pc[t] \in {"rootLock", "childLock"}, ReadLock(t, label),
         UNCHANGED <<tree, word, sibling, sep, result, bound>>
  PROVE  SafeInv'
<1> USE ThreadParts
<1>1. CASE Restart(t)
  BY <1>1, RestartSafe
<1>2. CASE ~Restart(t)
  <2>1. /\ versionNode' = [versionNode EXCEPT ![t] = word[node[t]]]
        /\ pc' = [pc EXCEPT ![t] = label]
        /\ UNCHANGED <<node, parent, versionParent>>
    BY <1>2 DEF ReadLock, Goto
  <2>2. Allocated(node[t])
    BY DEF Where, NodeSeen
  <2>3. /\ SearchTypes /\ SearchElsewhere(t)
        /\ pc'[t] = label /\ versionNode'[t] = word[node[t]] /\ word[node[t]] \in Nat
    BY <2>1, <2>2 DEF TypeOK, Label, SearchTypes, SearchElsewhere, Allocated
  <2>4. CallOK(t)'
    BY <2>1, <2>3 DEF CallOK, inserting, InsertLabels, ReadLabels, result, bound
  <2>5. Where(t)'
    BY <2>1, <2>2, <2>3 DEF Where, Allocated, NodeSeen, NodeRead, NodeHeld, tree
  <2>6. Versions(t)' /\ BatchOK(t)'
    BY <2>1, <2>3 DEF Versions, BatchOK, NodeRead
  <2>7. Fullness(t)'
    BY <2>1, <2>3 DEF Fullness, ParentCurrent, ParentHeld, inserting, bound, tree,
                      isFull, leafIsFull, innerIsFull, EntryKeys, Seps
  <2>8. QED
    BY <2>1, <2>3, <2>4, <2>5, <2>6, <2>7, SearchStep DEF ThreadOK
<1>3. QED
  BY <1>1, <1>2

LEMMA CheckRootSafe ==
  ASSUME LockInv, SafeInv, NEW t \in Threads, CheckRoot(t)
  PROVE  SafeInv'
<1> USE ThreadParts
<1>1. CASE Restart(t)
  BY <1>1, RestartSafe DEF CheckRoot
<1>2. CASE ~Restart(t)
  <2>1. /\ pc[t] = "rootCheck" /\ pc' = [pc EXCEPT ![t] = "visit"]
        /\ UNCHANGED <<tree, word, search, sibling, sep, result, bound>>
    BY <1>2 DEF CheckRoot, Goto
  <2>2. SearchTypes /\ SearchElsewhere(t) /\ pc'[t] = "visit"
    BY <2>1 DEF TypeOK, Label, SearchTypes, SearchElsewhere, search
  <2>3. CallOK(t)'
    BY <2>1, <2>2 DEF CallOK, inserting, InsertLabels, ReadLabels, result, bound
  <2>4. Where(t)'
    BY <2>1, <2>2 DEF Where, Allocated, NodeSeen, NodeRead, NodeHeld, tree, search
  <2>5. Versions(t)' /\ BatchOK(t)'
    BY <2>1, <2>2 DEF Versions, BatchOK, NodeRead, search
  <2>6. Fullness(t)'
    BY <2>1, <2>2 DEF Fullness, ParentCurrent, ParentHeld, inserting, bound, tree, search,
                      isFull, leafIsFull, innerIsFull, EntryKeys, Seps
  <2>7. QED
    BY <2>1, <2>2, <2>3, <2>4, <2>5, <2>6, SearchStep DEF ThreadOK
<1>3. QED
  BY <1>1, <1>2

\* Where Visit sends a thread is where what it has seen of the node belongs.
LEMMA VisitSafe ==
  ASSUME LockInv, SafeInv, NEW t \in Threads, Visit(t)
  PROVE  SafeInv'
<1> USE ThreadParts
<1> DEFINE n == node[t]
           label == IF inserting(t) /\ isFull(n)
                      THEN IF parent[t] = None THEN "lockNode" ELSE "lockParent"
                    ELSE IF kind[n] = "inner" THEN "checkParent"
                    ELSE IF inserting(t) THEN "leafLock" ELSE "read"
<1>1. /\ pc[t] = "visit" /\ pc' = [pc EXCEPT ![t] = label]
      /\ UNCHANGED <<tree, word, search, sibling, sep, result, bound>>
  BY DEF Visit, Goto
<1>2. label \in {"lockNode", "lockParent", "checkParent", "leafLock", "read"}
  OBVIOUS
<1>3. SearchTypes /\ SearchElsewhere(t) /\ pc'[t] = label
  BY <1>1, <1>2 DEF TypeOK, Label, SearchTypes, SearchElsewhere, search
<1>4. Allocated(n)
  BY <1>1 DEF Where, NodeSeen, NodeRead
<1>5. isFull(n)' <=> isFull(n)
  BY <1>1 DEF tree, search, isFull, leafIsFull, innerIsFull, EntryKeys, Seps
<1>6. isFull(parent[t])' <=> isFull(parent[t])
  BY <1>1 DEF tree, search, isFull, leafIsFull, innerIsFull, EntryKeys, Seps
<1>7. CallOK(t)'
  BY <1>1, <1>3 DEF CallOK, inserting, InsertLabels, ReadLabels, result, bound
<1>8. Where(t)'
  <2>1. kind[n] \in {"leaf", "inner"}
    BY <1>4 DEF Allocated, TypeOK
  <2>2. /\ label = "lockParent" => parent[t] # None
        /\ label = "checkParent" => kind[n] = "inner"
        /\ label = "leafLock" => kind[n] = "leaf"
    BY <2>1
  <2>3. label \in NodeSeen
    BY <1>2 DEF NodeSeen, NodeRead
  <2>4. QED
    BY <1>1, <1>2, <1>3, <1>4, <2>2, <2>3 DEF Where, Allocated, tree, search
<1>9. Versions(t)' /\ BatchOK(t)'
  BY <1>1, <1>2, <1>3 DEF Versions, BatchOK, NodeRead, search
<1>10. Fullness(t)'
  <2>1. /\ label \in {"lockNode", "lockParent"} => isFull(n)
        /\ label \in {"checkParent", "leafLock"} /\ inserting(t) => ~isFull(n)
    OBVIOUS
  <2>2. parent[t] # None /\ inserting(t) /\ word[parent[t]] = versionParent[t] => ~isFull(parent[t])
    BY <1>1 DEF Fullness, ParentCurrent
  <2>3. label \in ParentHeld => parent[t] = None
    BY DEF ParentHeld
  <2>4. /\ node'[t] = n /\ parent'[t] = parent[t] /\ (inserting(t)' <=> inserting(t))
        /\ versionParent'[t] = versionParent[t] /\ word' = word
    BY <1>1 DEF search, bound, inserting
  <2>5. QED
    BY <1>2, <1>3, <1>5, <1>6, <2>1, <2>2, <2>3, <2>4 DEF Fullness, ParentCurrent
<1>11. QED
  BY <1>1, <1>3, <1>7, <1>8, <1>9, <1>10, SearchStep DEF ThreadOK

LEMMA CheckParentSafe ==
  ASSUME LockInv, SafeInv, NEW t \in Threads, CheckParent(t)
  PROVE  SafeInv'
<1> USE ThreadParts
<1>1. CASE Restart(t)
  BY <1>1, RestartSafe DEF CheckParent
<1>2. CASE ~Restart(t)
  <2>1. /\ pc[t] = "checkParent" /\ pc' = [pc EXCEPT ![t] = "child"]
        /\ parent' = [parent EXCEPT ![t] = node[t]]
        /\ versionParent' = [versionParent EXCEPT ![t] = versionNode[t]]
        /\ UNCHANGED <<tree, word, node, versionNode, sibling, sep, result, bound>>
    BY <1>2 DEF CheckParent, Goto
  <2>2. /\ Allocated(node[t]) /\ kind[node[t]] = "inner"
        /\ versionNode[t] <= word[node[t]]
    BY <2>1 DEF Where, Versions, NodeSeen, NodeRead
  <2>3. /\ SearchTypes /\ SearchElsewhere(t)
        /\ pc'[t] = "child" /\ parent'[t] = node[t] /\ versionParent'[t] = versionNode[t]
    BY <2>1, <2>2 DEF TypeOK, Label, SearchTypes, SearchElsewhere, Allocated
  <2>4. CallOK(t)'
    BY <2>1, <2>3 DEF CallOK, inserting, InsertLabels, ReadLabels, result, bound
  <2>5. Where(t)'
    BY <2>1, <2>2, <2>3, NodesAssumption, SentinelsAssumption
       DEF Where, Allocated, NodeSeen, NodeRead, NodeHeld, tree
  <2>6. Versions(t)' /\ BatchOK(t)'
    BY <2>1, <2>2, <2>3 DEF Versions, BatchOK, NodeRead
  <2>7. Fullness(t)'
    <3>1. inserting(t) /\ word[node[t]] = versionNode[t] => ~isFull(node[t])
      BY <2>1 DEF Fullness, NodeCurrent
    <3>2. isFull(parent[t])' <=> isFull(node[t])
      BY <2>1, <2>3 DEF tree, isFull, leafIsFull, innerIsFull, EntryKeys, Seps
    <3>3. QED
      BY <2>1, <2>3, <3>1, <3>2 DEF Fullness, ParentCurrent, ParentHeld, inserting, bound
  <2>8. QED
    BY <2>1, <2>3, <2>4, <2>5, <2>6, <2>7, SearchStep DEF ThreadOK
<1>3. QED
  BY <1>1, <1>2

LEMMA ReadChildSafe ==
  ASSUME LockInv, SafeInv, NEW t \in Threads, ReadChild(t)
  PROVE  SafeInv'
<1> USE ThreadParts
<1> DEFINE child == IF word[parent[t]] = versionParent[t] THEN Child(parent[t], from[t]) ELSE Torn
<1>1. /\ pc[t] = "child" /\ pc' = [pc EXCEPT ![t] = "checkInner"]
      /\ node' = [node EXCEPT ![t] = child]
      /\ UNCHANGED <<tree, word, parent, versionNode, versionParent, sibling, sep, result, bound>>
  BY DEF ReadChild, Goto
<1>2. \/ Allocated(child)
      \/ child = Torn /\ word[parent[t]] # versionParent[t]
  <2>1. parent[t] \in Nodes /\ kind[parent[t]] = "inner"
    BY <1>1 DEF Where, Allocated
  <2>2. QED
    BY <2>1, ChildOf
<1>3. SearchTypes /\ SearchElsewhere(t) /\ pc'[t] = "checkInner" /\ node'[t] = child
  <2>1. child \in Nodes \cup {None, Torn}
    BY <1>2 DEF Allocated
  <2> HIDE DEF child
  <2>2. QED
    BY <1>1, <2>1 DEF TypeOK, Label, SearchTypes, SearchElsewhere
<1> HIDE DEF child
<1>4. CallOK(t)'
  BY <1>1, <1>3 DEF CallOK, inserting, InsertLabels, ReadLabels, result, bound
<1>5. Where(t)'
  BY <1>1, <1>2, <1>3 DEF Where, Allocated, NodeSeen, NodeRead, NodeHeld, tree
<1>6. Versions(t)' /\ BatchOK(t)'
  BY <1>1, <1>3 DEF Versions, BatchOK, NodeRead
<1>7. Fullness(t)'
  BY <1>1, <1>3 DEF Fullness, ParentCurrent, ParentHeld, inserting, bound, tree,
                    isFull, leafIsFull, innerIsFull, EntryKeys, Seps
<1>8. QED
  BY <1>1, <1>3, <1>4, <1>5, <1>6, <1>7, SearchStep DEF ThreadOK

\* The check throws a torn child away.
LEMMA CheckInnerSafe ==
  ASSUME LockInv, SafeInv, NEW t \in Threads, CheckInner(t)
  PROVE  SafeInv'
<1> USE ThreadParts
<1>1. CASE Restart(t)
  BY <1>1, RestartSafe DEF CheckInner
<1>2. CASE ~Restart(t)
  <2>1. /\ pc[t] = "checkInner" /\ pc' = [pc EXCEPT ![t] = "childLock"]
        /\ word[parent[t]] = versionNode[t]
        /\ UNCHANGED <<tree, word, search, sibling, sep, result, bound>>
    BY <1>2 DEF CheckInner, Validate, Goto
  <2>2. Allocated(node[t])
    BY <2>1 DEF Where, Versions
  <2>3. SearchTypes /\ SearchElsewhere(t) /\ pc'[t] = "childLock"
    BY <2>1 DEF TypeOK, Label, SearchTypes, SearchElsewhere, search
  <2>4. CallOK(t)'
    BY <2>1, <2>3 DEF CallOK, inserting, InsertLabels, ReadLabels, result, bound
  <2>5. Where(t)'
    BY <2>1, <2>2, <2>3 DEF Where, Allocated, NodeSeen, NodeRead, NodeHeld, tree, search
  <2>6. Versions(t)' /\ BatchOK(t)'
    BY <2>1, <2>3 DEF Versions, BatchOK, NodeRead, search
  <2>7. Fullness(t)'
    BY <2>1, <2>3 DEF Fullness, ParentCurrent, ParentHeld, inserting, bound, tree, search,
                      isFull, leafIsFull, innerIsFull, EntryKeys, Seps
  <2>8. QED
    BY <2>1, <2>3, <2>4, <2>5, <2>6, <2>7, SearchStep DEF ThreadOK
<1>3. QED
  BY <1>1, <1>2

LEMMA DescendSafe ==
  ASSUME LockInv, SafeInv, NEW t \in Threads, Descend(t)
  PROVE  SafeInv'
<1>1. CASE LockRoot(t)
  BY <1>1, ReadLockSafe DEF LockRoot
<1>2. CASE LockChild(t)
  BY <1>2, ReadLockSafe DEF LockChild
<1>3. QED
  BY <1>1, <1>2, ReadRootSafe, CheckRootSafe, VisitSafe, CheckParentSafe, ReadChildSafe,
     CheckInnerSafe DEF Descend

-------------------------------------------------------------------------------
\* Taking locks and giving them back.
LEMMA WordGrows ==
  ASSUME word \in [Nodes -> Nat], NEW n, word' = [word EXCEPT ![n] = @ + 2]
  PROVE  /\ word' \in [Nodes -> Nat] /\ WordsGrow
         /\ n \in Nodes => word'[n] = word[n] + 2
<1>1. word' \in [Nodes -> Nat]
  BY WordsStayNumbers
<1>2. CASE n \in Nodes
  BY <1>1, <1>2 DEF WordsGrow
<1>3. CASE n \notin Nodes
  BY <1>1, <1>3 DEF WordsGrow
<1>4. QED
  BY <1>1, <1>2, <1>3

LEMMA WordStep ==
  ASSUME LockInv, SafeInv, NEW t \in Threads,
         NEW n, word' = [word EXCEPT ![n] = @ + 2],
         UNCHANGED <<tree, sibling, sep, result, bound>>,
         SearchTypes, SearchElsewhere(t), ThreadOK(t)'
  PROVE  SafeInv'
<1>1. TypeOK
  BY ThreadParts
<1>2. word' \in [Nodes -> Nat] /\ WordsGrow
  BY <1>1, WordGrows DEF TypeOK
<1>3. TypeOK'
  BY <1>1, <1>2 DEF TypeOK, SearchTypes, tree, result, bound
<1>4. Elsewhere(t)
  BY <1>1 DEF TypeOK, SearchElsewhere, Elsewhere, result, bound
<1>5. QED
  BY <1>2, <1>3, <1>4, TreeUnchanged

LEMMA UnlockAndRestartSafe ==
  ASSUME LockInv, SafeInv, NEW t \in Threads, NEW n, UnlockAndRestart(t, n), pc[t] # "idle",
         UNCHANGED <<tree, sibling, sep, result, bound>>
  PROVE  SafeInv'
<1>1. TypeOK /\ CallOK(t)
  BY ThreadParts
<1>2. Restart(t) /\ word' = [word EXCEPT ![n] = @ + 2]
  BY DEF UnlockAndRestart, writeUnlock
<1>3. ThreadOK(t)'
  BY <1>1, <1>2, RestartOK DEF result, bound
<1>4. QED
  BY <1>1, <1>2, <1>3, RestartFresh, WordStep

\* A compare-and-swap on n that succeeds.  What the thread knew of the node and
\* of the parent it goes on knowing, now because it holds them.
LEMMA UpgradeSafe ==
  ASSUME LockInv, SafeInv, NEW t \in Threads, NEW n \in Nodes,
         NEW label \in {"lockNode", "recheckRoot", "split", "put", "leafCheckParent"},
         setLock(n), Goto(t, label), UNCHANGED search,
         UNCHANGED <<tree, sibling, sep, result, bound>>,
         pc[t] \in {"lockParent", "lockNode", "leafLock"},
         label = "lockNode" => pc[t] = "lockParent" /\ n = parent[t],
         label \in {"recheckRoot", "split"} => pc[t] = "lockNode" /\ n = node[t],
         label \in {"put", "leafCheckParent"} => pc[t] = "leafLock" /\ n = node[t],
         label = "lockNode" => word[n] = versionParent[t],
         label # "lockNode" => word[n] = versionNode[t]
  PROVE  SafeInv'
<1> USE ThreadParts
<1>1. /\ word' = [word EXCEPT ![n] = @ + 2] /\ pc' = [pc EXCEPT ![t] = label]
      /\ word \in [Nodes -> Nat] /\ word' \in [Nodes -> Nat] /\ WordsGrow
  BY WordGrows DEF setLock, Goto, TypeOK
<1>2. SearchTypes /\ SearchElsewhere(t) /\ pc'[t] = label
  BY <1>1 DEF TypeOK, Label, SearchTypes, SearchElsewhere, search
<1>3. /\ Allocated(node[t]) /\ node'[t] = node[t] /\ parent'[t] = parent[t]
      /\ versionNode[t] \in Nat /\ versionNode'[t] = versionNode[t]
      /\ versionParent[t] \in Nat /\ versionParent'[t] = versionParent[t]
      /\ versionNode[t] <= word[node[t]] /\ word[node[t]] <= word'[node[t]]
  BY <1>1 DEF Where, Versions, NodeSeen, NodeRead, search, Allocated, TypeOK, WordsGrow
<1>4. parent[t] # None => /\ parent[t] \in Nodes /\ kind[parent[t]] = "inner"
                          /\ versionParent[t] <= word[parent[t]]
                          /\ word[parent[t]] <= word'[parent[t]]
  BY <1>1 DEF Where, Versions, Allocated, WordsGrow
<1>5. CallOK(t)'
  BY <1>1, <1>2 DEF CallOK, inserting, InsertLabels, ReadLabels, result, bound
<1>6. Where(t)'
  BY <1>1, <1>2, <1>3, <1>4 DEF Where, Allocated, NodeSeen, NodeRead, NodeHeld, tree
<1>7. Versions(t)' /\ BatchOK(t)'
  <2>1. versionNode[t] <= word'[node[t]] /\ (parent[t] # None => versionParent[t] <= word'[parent[t]])
    BY <1>1, <1>3, <1>4 DEF Allocated
  <2>2. QED
    BY <1>2, <1>3, <2>1 DEF Versions, BatchOK
<1>8. Fullness(t)'
  <2>1. inserting(t) /\ (inserting(t)' <=> inserting(t))
    BY DEF CallOK, InsertLabels, inserting, bound
  <2>2. (isFull(node[t])' <=> isFull(node[t])) /\ (isFull(parent[t])' <=> isFull(parent[t]))
    BY DEF search, tree, isFull, leafIsFull, innerIsFull, EntryKeys, Seps
  <2>3. /\ label = "lockNode" /\ word'[node[t]] = versionNode[t] => isFull(node[t])
        /\ label \in {"recheckRoot", "split"} => isFull(node[t])
        /\ label \in {"put", "leafCheckParent"} => ~isFull(node[t])
    BY <1>1, <1>3, <2>1 DEF Fullness, NodeCurrent, Allocated
  <2>4. parent[t] # None /\ (label \in ParentHeld \/ word'[parent[t]] = versionParent[t])
          => ~isFull(parent[t])
    <3> SUFFICES ASSUME parent[t] # None,
                        label \in ParentHeld \/ word'[parent[t]] = versionParent[t]
                 PROVE  ~isFull(parent[t])
      OBVIOUS
    <3>1. pc[t] \in ParentHeld \/ word[parent[t]] = versionParent[t]
      <4>1. CASE label = "lockNode"
        BY <4>1
      <4>2. CASE label \in {"recheckRoot", "split"}
        BY <4>2 DEF ParentHeld
      <4>3. CASE label \in {"put", "leafCheckParent"}
        BY <1>1, <1>4, <4>3 DEF ParentHeld
      <4>4. QED
        BY <4>1, <4>2, <4>3
    <3>2. QED
      BY <2>1, <3>1 DEF Fullness, ParentCurrent
  <2>5. label \in {"recheckRoot", "split", "put", "leafCheckParent"} <=> label \in NodeHeld
    BY DEF NodeHeld
  <2>6. QED
    BY <1>2, <1>3, <2>1, <2>2, <2>3, <2>4, <2>5 DEF Fullness, NodeCurrent, ParentCurrent
<1>9. QED
  BY <1>1, <1>2, <1>5, <1>6, <1>7, <1>8, WordStep DEF ThreadOK

\* Moves between labels of insert that write nothing.
LEMMA HeldMoveSafe ==
  ASSUME LockInv, SafeInv, NEW t \in Threads,
         NEW label \in {"giveBackParent", "split", "giveBackNode", "put"},
         Goto(t, label),
         UNCHANGED <<tree, word, search, sibling, sep, result, bound>>,
         label = "giveBackParent" => pc[t] = "lockNode" /\ parent[t] # None,
         label = "split" => pc[t] = "recheckRoot" /\ parent[t] = None,
         label = "giveBackNode" => pc[t] \in {"recheckRoot", "leafCheckParent"},
         label = "put" => pc[t] = "leafCheckParent"
  PROVE  SafeInv'
<1> USE ThreadParts
<1>1. pc' = [pc EXCEPT ![t] = label]
  BY DEF Goto
<1>2. SearchTypes /\ SearchElsewhere(t) /\ pc'[t] = label
  BY <1>1 DEF TypeOK, Label, SearchTypes, SearchElsewhere, search
<1>3. CallOK(t)'
  BY <1>1, <1>2 DEF CallOK, inserting, InsertLabels, ReadLabels, result, bound
<1>4. Where(t)'
  BY <1>1, <1>2 DEF Where, Allocated, NodeSeen, NodeRead, NodeHeld, tree, search
<1>5. Versions(t)' /\ BatchOK(t)'
  BY <1>1, <1>2 DEF Versions, BatchOK, NodeRead, search
<1>6. Fullness(t)'
  <2>1. inserting(t) /\ (inserting(t)' <=> inserting(t))
    BY DEF CallOK, InsertLabels, inserting, bound
  <2>2. (isFull(node[t])' <=> isFull(node[t])) /\ (isFull(parent[t])' <=> isFull(parent[t]))
    BY DEF search, tree, isFull, leafIsFull, innerIsFull, EntryKeys, Seps
  <2>3. /\ label = "split" => isFull(node[t])
        /\ label = "put" => ~isFull(node[t])
    BY <2>1 DEF Fullness, NodeCurrent, NodeHeld
  <2>4. parent[t] # None /\ (label \in ParentHeld \/ word[parent[t]] = versionParent[t])
          => ~isFull(parent[t])
    BY <2>1 DEF Fullness, ParentCurrent, ParentHeld
  <2>5. /\ node'[t] = node[t] /\ parent'[t] = parent[t]
        /\ versionParent'[t] = versionParent[t] /\ word' = word
    BY DEF search
  <2>6. QED
    BY <1>2, <2>1, <2>2, <2>3, <2>4, <2>5 DEF Fullness, NodeCurrent, ParentCurrent, NodeHeld
<1>7. QED
  BY <1>1, <1>2, <1>3, <1>4, <1>5, <1>6, SearchStep DEF ThreadOK

LEMMA LockParentSafe ==
  ASSUME LockInv, SafeInv, NEW t \in Threads, LockParent(t)
  PROVE  SafeInv'
<1> USE ThreadParts
<1>1. CASE word[parent[t]] = versionParent[t]
  <2>1. /\ pc[t] = "lockParent" /\ setLock(parent[t]) /\ Goto(t, "lockNode")
        /\ UNCHANGED search /\ UNCHANGED <<tree, sibling, sep, result, bound>>
    BY <1>1 DEF LockParent, Upgrade
  <2>2. parent[t] \in Nodes
    BY <2>1 DEF Where, Allocated
  <2>3. QED
    BY <1>1, <2>1, <2>2, UpgradeSafe
<1>2. CASE word[parent[t]] # versionParent[t]
  <2>1. /\ pc[t] = "lockParent" /\ Restart(t) /\ UNCHANGED word
        /\ UNCHANGED <<tree, sibling, sep, result, bound>>
    BY <1>2 DEF LockParent, Upgrade
  <2>2. QED
    BY <2>1, RestartSafe
<1>3. QED
  BY <1>1, <1>2

LEMMA LockNodeSafe ==
  ASSUME LockInv, SafeInv, NEW t \in Threads, LockNode(t)
  PROVE  SafeInv'
<1> USE ThreadParts
<1>1. pc[t] = "lockNode" /\ UNCHANGED <<tree, sibling, sep, result, bound>>
  BY DEF LockNode
<1>2. CASE word[node[t]] = versionNode[t]
  <2>1. PICK label \in {"recheckRoot", "split"} : Goto(t, label)
    BY <1>2 DEF LockNode, Upgrade
  <2>2. setLock(node[t]) /\ UNCHANGED search
    BY <1>2 DEF LockNode, Upgrade
  <2>3. node[t] \in Nodes
    BY <1>1 DEF Where, Allocated, NodeSeen, NodeRead
  <2>4. QED
    BY <1>1, <1>2, <2>1, <2>2, <2>3, UpgradeSafe
<1>3. CASE word[node[t]] # versionNode[t] /\ parent[t] = None
  <2>1. Restart(t) /\ UNCHANGED word
    BY <1>3 DEF LockNode, Upgrade
  <2>2. QED
    BY <1>1, <2>1, RestartSafe
<1>4. CASE word[node[t]] # versionNode[t] /\ parent[t] # None
  <2>1. Goto(t, "giveBackParent") /\ UNCHANGED search /\ UNCHANGED word
    BY <1>4 DEF LockNode, Upgrade
  <2>2. QED
    BY <1>1, <1>4, <2>1, HeldMoveSafe
<1>5. QED
  BY <1>2, <1>3, <1>4

LEMMA RecheckRootSafe ==
  ASSUME LockInv, SafeInv, NEW t \in Threads, RecheckRoot(t)
  PROVE  SafeInv'
<1>1. /\ pc[t] = "recheckRoot"
      /\ UNCHANGED <<tree, word, search, sibling, sep, result, bound>>
  BY DEF RecheckRoot
<1>2. parent[t] = None
  BY <1>1 DEF LockInv, Apart
<1>3. PICK label \in {"split", "giveBackNode"} : Goto(t, label)
  BY DEF RecheckRoot
<1>4. QED
  BY <1>1, <1>2, <1>3, HeldMoveSafe

LEMMA LeafCheckParentSafe ==
  ASSUME LockInv, SafeInv, NEW t \in Threads, LeafCheckParent(t)
  PROVE  SafeInv'
<1>1. /\ pc[t] = "leafCheckParent"
      /\ UNCHANGED <<tree, word, search, sibling, sep, result, bound>>
  BY DEF LeafCheckParent
<1>2. PICK label \in {"put", "giveBackNode"} : Goto(t, label)
  BY DEF LeafCheckParent
<1>3. QED
  BY <1>1, <1>2, HeldMoveSafe

LEMMA LockLeafSafe ==
  ASSUME LockInv, SafeInv, NEW t \in Threads, LockLeaf(t)
  PROVE  SafeInv'
<1> USE ThreadParts
<1>1. pc[t] = "leafLock" /\ UNCHANGED <<tree, sibling, sep, result, bound>>
  BY DEF LockLeaf
<1>2. CASE word[node[t]] = versionNode[t]
  <2>1. PICK label \in {"put", "leafCheckParent"} : Goto(t, label)
    BY <1>2 DEF LockLeaf, Upgrade
  <2>2. setLock(node[t]) /\ UNCHANGED search
    BY <1>2 DEF LockLeaf, Upgrade
  <2>3. node[t] \in Nodes
    BY <1>1 DEF Where, Allocated, NodeSeen, NodeRead
  <2>4. QED
    BY <1>1, <1>2, <2>1, <2>2, <2>3, UpgradeSafe
<1>3. CASE word[node[t]] # versionNode[t]
  <2>1. Restart(t) /\ UNCHANGED word
    BY <1>3 DEF LockLeaf, Upgrade
  <2>2. QED
    BY <1>1, <2>1, RestartSafe
<1>4. QED
  BY <1>2, <1>3

LEMMA UnlockNodeSafe ==
  ASSUME LockInv, SafeInv, NEW t \in Threads, UnlockNode(t)
  PROVE  SafeInv'
<1> USE ThreadParts
<1>1. /\ pc[t] = "unlockNode" /\ writeUnlock(node[t])
      /\ UNCHANGED <<tree, sibling, sep, result, bound>>
  BY DEF UnlockNode
<1>2. CASE parent[t] = None
  BY <1>1, <1>2, UnlockAndRestartSafe DEF UnlockNode, UnlockAndRestart
<1>3. CASE parent[t] # None
  <2>1. pc' = [pc EXCEPT ![t] = "unlockParent"] /\ UNCHANGED search
    BY <1>3 DEF UnlockNode, Goto
  <2>2. SearchTypes /\ SearchElsewhere(t) /\ pc'[t] = "unlockParent"
    BY <2>1 DEF TypeOK, Label, SearchTypes, SearchElsewhere, search
  <2>3. /\ word' = [word EXCEPT ![node[t]] = @ + 2]
        /\ word \in [Nodes -> Nat] /\ word' \in [Nodes -> Nat] /\ WordsGrow
    BY <1>1, WordGrows DEF writeUnlock, TypeOK
  <2>4. CallOK(t)'
    BY <1>1, <2>1, <2>2 DEF CallOK, inserting, InsertLabels, ReadLabels, result, bound
  <2>5. Where(t)'
    BY <1>1, <1>3, <2>1, <2>2 DEF Where, Allocated, NodeSeen, NodeRead, NodeHeld, tree, search
  <2>6. Versions(t)' /\ BatchOK(t)'
    <3>1. versionParent[t] \in Nat /\ parent[t] \in Nodes /\ versionParent[t] <= word[parent[t]]
      BY <1>3 DEF TypeOK, Versions, Where, Allocated
    <3>2. versionParent[t] <= word'[parent[t]]
      BY <2>3, <3>1 DEF WordsGrow
    <3>3. QED
      BY <2>1, <2>2, <3>2 DEF Versions, BatchOK, NodeRead, search
  <2>7. Fullness(t)'
    BY <2>2 DEF Fullness
  <2>8. QED
    BY <1>1, <2>2, <2>3, <2>4, <2>5, <2>6, <2>7, WordStep DEF ThreadOK
<1>4. QED
  BY <1>2, <1>3

-------------------------------------------------------------------------------
\* The steps that write nodes.
LEMMA NodeStays ==
  ASSUME NEW m \in Nodes, NodeOK(m),
         \A n \in Nodes : kind[n] # "free" => kind'[n] = kind[n],
         kind'[m] = kind[m], ents'[m] = ents[m], below'[m] = below[m], beyond'[m] = beyond[m]
  PROVE  NodeOK(m)'
BY DEF NodeOK, Allocated, EntryKeys, Seps

\* What a split of a thread's node leaves behind.
Divided(t, new) ==
  /\ Shape' /\ TreeGrows(t) /\ kind'[new] # "free"
  /\ kind' \in [Nodes -> {"free", "leaf", "inner"}]
  /\ ents' \in [Nodes -> [Keys -> Payloads \cup {None}]]
  /\ below' \in [Nodes -> [Keys -> Nodes \cup {None}]]
  /\ beyond' \in [Nodes -> Nodes \cup {None}]
  /\ \A m \in Nodes \ {node[t], new} :
       kind'[m] = kind[m] /\ ents'[m] = ents[m] /\ below'[m] = below[m]
  /\ \E s \in Keys : sep' = [sep EXCEPT ![t] = s]

LEMMA SplitLeafDivides ==
  ASSUME TypeOK, Shape, NEW t \in Threads,
         NEW new \in Nodes, new = NewNode, kind[new] = "free",
         NEW n \in Holds(t), n = node[t], kind[n] = "leaf", leafIsFull(n),
         UNCHANGED root, SplitLeaf(t)
  PROVE  Divided(t, new)
<1> DEFINE count == Cardinality(EntryKeys(n))
           stay  == {k \in EntryKeys(n) :
                       Cardinality({j \in EntryKeys(n) : j < k}) < count \div 2}
           moved == EntryKeys(n) \ stay
           lower == [k \in Keys |-> IF k \in stay THEN ents[n][k] ELSE None]
           upper == [k \in Keys |-> IF k \in moved THEN ents[n][k] ELSE None]
<1>1. /\ sep' = [sep EXCEPT ![t] = leafSeparator(stay, moved)]
      /\ ents' = [ents EXCEPT ![n] = lower, ![new] = upper]
      /\ kind' = [kind EXCEPT ![new] = "leaf"]
      /\ UNCHANGED <<below, beyond>>
  BY DEF SplitLeaf
<1>2. n \in Nodes /\ n # new /\ NodeOK(n) /\ NodeOK(new)
  BY DEF Holds, Shape
<1>3. /\ IsFiniteSet(EntryKeys(n)) /\ count = LeafMax
      /\ \A k \in EntryKeys(n) : k \in Keys /\ k \in Nat
  BY <1>2, KeysAreNumbers DEF NodeOK, leafIsFull
<1>4. IsFiniteSet(stay) /\ Cardinality(stay) <= LeafMax
  <2>1. stay \subseteq EntryKeys(n)
    OBVIOUS
  <2>2. QED
    BY <1>3, <2>1, FS_Subset
<1>5. IsFiniteSet(moved) /\ Cardinality(moved) <= LeafMax
  <2>1. moved \subseteq EntryKeys(n)
    OBVIOUS
  <2>2. QED
    BY <1>3, <2>1, FS_Subset
<1>6. leafSeparator(stay, moved) \in Keys
  <2>1. stay # {}
    <3>1. 0 \in 0..(count - 1) /\ 0 < count \div 2
      BY <1>3, SizeAssumption
    <3>2. /\ AtIndex(EntryKeys(n), 0) \in EntryKeys(n)
          /\ Cardinality({j \in EntryKeys(n) : j < AtIndex(EntryKeys(n), 0)}) = 0
      BY <1>3, <3>1, AtIndexOf
    <3>3. AtIndex(EntryKeys(n), 0) \in stay
      BY <3>1, <3>2
    <3>4. QED
      BY <3>3
  <2>2. \A k \in stay : k \in Nat
    BY <1>3
  <2>3. Greatest(stay) \in stay
    BY <1>4, <2>1, <2>2, GreatestOf
  <2>4. QED
    BY <1>3, <2>3 DEF leafSeparator
<1>7. stay \subseteq EntryKeys(n) /\ moved \subseteq EntryKeys(n)
  OBVIOUS
<1> HIDE DEF stay, moved
<1>8. ents'[n] = lower /\ ents'[new] = upper
  BY <1>1, <1>2 DEF TypeOK
<1>9. /\ EntryKeys(n)' = stay /\ EntryKeys(new)' = moved
      /\ Seps(n)' = Seps(n) /\ Seps(new)' = Seps(new)
  <2>1. EntryKeys(n)' = stay
    <3>1. \A k \in Keys : ents'[n][k] # None <=> k \in stay
      BY <1>7, <1>8 DEF EntryKeys
    <3>2. QED
      BY <1>7, <3>1 DEF EntryKeys
  <2>2. EntryKeys(new)' = moved
    <3>1. \A k \in Keys : ents'[new][k] # None <=> k \in moved
      BY <1>7, <1>8 DEF EntryKeys
    <3>2. QED
      BY <1>7, <3>1 DEF EntryKeys
  <2>3. QED
    BY <1>1, <2>1, <2>2 DEF Seps
<1>10. /\ ents' \in [Nodes -> [Keys -> Payloads \cup {None}]]
       /\ kind' \in [Nodes -> {"free", "leaf", "inner"}]
  <2>1. /\ lower \in [Keys -> Payloads \cup {None}]
        /\ upper \in [Keys -> Payloads \cup {None}]
    BY <1>2 DEF TypeOK
  <2> HIDE DEF lower, upper
  <2>2. ents' \in [Nodes -> [Keys -> Payloads \cup {None}]]
    BY <1>1, <2>1 DEF TypeOK
  <2>3. kind' \in [Nodes -> {"free", "leaf", "inner"}]
    BY <1>1 DEF TypeOK
  <2>4. QED
    BY <2>2, <2>3
<1>11. \A m \in Nodes \ {n, new} :
         kind'[m] = kind[m] /\ ents'[m] = ents[m] /\ below'[m] = below[m] /\ beyond'[m] = beyond[m]
  BY <1>1 DEF TypeOK
<1>12. kind'[new] = "leaf" /\ \A m \in Nodes \ {new} : kind'[m] = kind[m]
  BY <1>1 DEF TypeOK
<1>13. Shape'
  <2>1. NodeOK(n)' /\ NodeOK(new)'
    BY <1>2, <1>4, <1>5, <1>9, <1>12 DEF NodeOK
  <2>2. \A m \in Nodes \ {n, new} : NodeOK(m)'
    BY <1>11, <1>12, NodeStays DEF Shape
  <2>3. Allocated(root)'
    BY <1>12 DEF Shape, Allocated
  <2>4. QED
    BY <2>1, <2>2, <2>3 DEF Shape
<1>14. TreeGrows(t)
  BY <1>2, <1>11, <1>12 DEF TreeGrows
<1>15. below' \in [Nodes -> [Keys -> Nodes \cup {None}]] /\ beyond' \in [Nodes -> Nodes \cup {None}]
  BY <1>1 DEF TypeOK
<1>16. QED
  BY <1>1, <1>6, <1>10, <1>11, <1>12, <1>13, <1>14, <1>15 DEF Divided

LEMMA SplitInnerDivides ==
  ASSUME TypeOK, Shape, NEW t \in Threads,
         NEW new \in Nodes, new = NewNode, kind[new] = "free",
         NEW n \in Holds(t), n = node[t], kind[n] = "inner", innerIsFull(n),
         UNCHANGED root, SplitInner(t)
  PROVE  Divided(t, new)
<1> DEFINE count == Cardinality(Seps(n))
           keep  == count - (count - (count \div 2)) - 1
           s     == AtIndex(Seps(n), keep)
           lower == [k \in Keys |-> IF k < s THEN below[n][k] ELSE None]
           upper == [k \in Keys |-> IF k > s THEN below[n][k] ELSE None]
<1>1. /\ sep' = [sep EXCEPT ![t] = s]
      /\ below' = [below EXCEPT ![n] = lower, ![new] = upper]
      /\ beyond' = [beyond EXCEPT ![n] = below[n][s], ![new] = beyond[n]]
      /\ kind' = [kind EXCEPT ![new] = "inner"]
      /\ UNCHANGED ents
  BY DEF SplitInner
<1>2. n \in Nodes /\ n # new /\ NodeOK(n) /\ NodeOK(new)
  BY DEF Holds, Shape
<1>3. /\ IsFiniteSet(Seps(n)) /\ count = InnerMax - 1
      /\ \A k \in Seps(n) : k \in Keys /\ k \in Nat
  BY <1>2, KeysAreNumbers DEF NodeOK, innerIsFull
<1>4. s \in Seps(n)
  <2>1. keep \in 0..(count - 1)
    <3> HIDE DEF count
    <3>1. count \in Nat /\ count >= 4
      BY <1>3, SizeAssumption
    <3>2. QED
      BY <3>1
  <2> HIDE DEF keep, count
  <2>2. QED
    BY <1>3, <2>1, AtIndexOf DEF count
<1> HIDE DEF s
<1> DEFINE low == {k \in Seps(n) : k < s}
           high == {k \in Seps(n) : k > s}
<1>5. IsFiniteSet(low) /\ Cardinality(low) <= InnerMax - 1
  <2>1. low \subseteq Seps(n)
    OBVIOUS
  <2>2. QED
    BY <1>3, <2>1, FS_Subset
<1>6. IsFiniteSet(high) /\ Cardinality(high) <= InnerMax - 1
  <2>1. high \subseteq Seps(n)
    OBVIOUS
  <2>2. QED
    BY <1>3, <2>1, FS_Subset
<1>7. /\ below'[n] = lower /\ below'[new] = upper
      /\ beyond'[n] = below[n][s] /\ beyond'[new] = beyond[n]
  BY <1>1, <1>2 DEF TypeOK
<1>8. /\ EntryKeys(n)' = EntryKeys(n) /\ EntryKeys(new)' = EntryKeys(new)
      /\ Seps(n)' = low /\ Seps(new)' = high
  <2>1. Seps(n)' = low
    BY <1>7 DEF Seps
  <2>2. Seps(new)' = high
    BY <1>7 DEF Seps
  <2>3. QED
    BY <1>1, <2>1, <2>2 DEF EntryKeys
<1>9. \A k \in Seps(n) : Allocated(below[n][k])
  BY <1>2 DEF NodeOK
<1>10. /\ below' \in [Nodes -> [Keys -> Nodes \cup {None}]]
       /\ beyond' \in [Nodes -> Nodes \cup {None}]
       /\ kind' \in [Nodes -> {"free", "leaf", "inner"}]
  <2>1. /\ lower \in [Keys -> Nodes \cup {None}]
        /\ upper \in [Keys -> Nodes \cup {None}]
    BY <1>2 DEF TypeOK
  <2> HIDE DEF lower, upper
  <2>2. below' \in [Nodes -> [Keys -> Nodes \cup {None}]]
    BY <1>1, <2>1 DEF TypeOK
  <2>3. beyond' \in [Nodes -> Nodes \cup {None}]
    <3>1. below[n][s] \in Nodes /\ beyond[n] \in Nodes \cup {None}
      BY <1>2, <1>4, <1>9 DEF Allocated, TypeOK
    <3>2. QED
      BY <1>1, <3>1 DEF TypeOK
  <2>4. kind' \in [Nodes -> {"free", "leaf", "inner"}]
    BY <1>1 DEF TypeOK
  <2>5. QED
    BY <2>2, <2>3, <2>4
<1>11. \A m \in Nodes \ {n, new} :
         kind'[m] = kind[m] /\ ents'[m] = ents[m] /\ below'[m] = below[m] /\ beyond'[m] = beyond[m]
  BY <1>1 DEF TypeOK
<1>12. kind'[new] = "inner" /\ \A m \in Nodes \ {new} : kind'[m] = kind[m]
  BY <1>1 DEF TypeOK
<1>13. Shape'
  <2>1. NodeOK(n)'
    <3>1. Allocated(beyond[n])' /\ \A k \in low : Allocated(below[n][k])'
      BY <1>4, <1>7, <1>9, <1>12 DEF Allocated, Seps
    <3>2. QED
      BY <1>2, <1>5, <1>8, <1>12, <3>1 DEF NodeOK
  <2>2. NodeOK(new)'
    <3>1. Allocated(beyond[new])' /\ \A k \in high : Allocated(below[new][k])'
      BY <1>2, <1>7, <1>9, <1>12 DEF Allocated, Seps, NodeOK
    <3>2. QED
      BY <1>2, <1>6, <1>8, <1>12, <3>1 DEF NodeOK
  <2>3. \A m \in Nodes \ {n, new} : NodeOK(m)'
    BY <1>11, <1>12, NodeStays DEF Shape
  <2>4. Allocated(root)'
    BY <1>12 DEF Shape, Allocated
  <2>5. QED
    BY <2>1, <2>2, <2>3, <2>4 DEF Shape
<1>14. TreeGrows(t)
  BY <1>2, <1>11, <1>12 DEF TreeGrows
<1>15. ents' \in [Nodes -> [Keys -> Payloads \cup {None}]]
  BY <1>1 DEF TypeOK
<1>16. s \in Keys
  BY <1>3, <1>4
<1>17. QED
  BY <1>1, <1>10, <1>11, <1>12, <1>13, <1>14, <1>15, <1>16 DEF Divided

LEMMA SplitSafe ==
  ASSUME LockInv, SafeInv, NEW t \in Threads, Split(t)
  PROVE  SafeInv'
<1> USE ThreadParts
<1>1. /\ pc[t] = "split" /\ pc' = [pc EXCEPT ![t] = "link"]
      /\ sibling' = [sibling EXCEPT ![t] = NewNode]
      /\ UNCHANGED <<root, word, search, result, bound>>
  BY DEF Split, Goto
<1>2. PICK new \in Nodes : new = NewNode /\ kind[new] = "free"
  BY DEF Split, NewNode, Free
<1>3. PICK n \in Holds(t) : n = node[t] /\ n \in Nodes /\ kind[n] \in {"leaf", "inner"}
  BY <1>1 DEF Where, Allocated, NodeSeen, NodeHeld, Holds, TypeOK
<1>4. inserting(t) /\ isFull(n)
  BY <1>1, <1>3 DEF CallOK, InsertLabels, Fullness, NodeCurrent, NodeHeld
<1>5. Divided(t, new)
  <2>1. CASE kind[n] = "leaf"
    BY <1>1, <1>2, <1>3, <1>4, <2>1, SplitLeafDivides DEF Split, isFull
  <2>2. CASE kind[n] = "inner"
    BY <1>1, <1>2, <1>3, <1>4, <2>2, SplitInnerDivides DEF Split, isFull
  <2>3. QED
    BY <1>3, <2>1, <2>2
<1>6. PICK s \in Keys : sep' = [sep EXCEPT ![t] = s]
  BY <1>5 DEF Divided
<1>7. TypeOK'
  <2>1. s \in Nat
    BY <1>6, KeysAssumption
  <2>2. pc' \in [Threads -> Label] /\ sibling' \in [Threads -> Nodes \cup {None}]
    BY <1>1, <1>2 DEF TypeOK, Label
  <2>3. sep' \in [Threads -> Nat]
    BY <1>6, <2>1 DEF TypeOK
  <2>4. QED
    BY <1>1, <1>5, <2>2, <2>3 DEF Divided, TypeOK, search, result, bound
<1>8. Elsewhere(t) /\ WordsGrow
  BY <1>1, <1>6 DEF TypeOK, Elsewhere, WordsGrow, search, result, bound
<1>9. /\ pc'[t] = "link" /\ sibling'[t] = new /\ sep'[t] = s
      /\ node'[t] = node[t] /\ parent'[t] = parent[t] /\ versionParent'[t] = versionParent[t]
  BY <1>1, <1>2, <1>6 DEF TypeOK, search
<1>10. \A m \in Nodes : kind[m] # "free" => kind'[m] = kind[m]
  BY <1>5 DEF Divided, TreeGrows
<1>11. CallOK(t)'
  BY <1>1, <1>4, <1>9 DEF CallOK, inserting, InsertLabels, ReadLabels, result, bound
<1>12. Where(t)'
  BY <1>1, <1>2, <1>3, <1>5, <1>9, <1>10 DEF Where, Allocated, Divided, NodeSeen, NodeHeld
<1>13. Versions(t)' /\ BatchOK(t)'
  BY <1>1, <1>9 DEF Versions, BatchOK, NodeRead
<1>14. Fullness(t)'
  <2>1. parent[t] # None => /\ parent[t] \in Nodes \ {node[t], new}
                            /\ ~isFull(parent[t])
    BY <1>1, <1>2, <1>3, <1>4
       DEF LockInv, Apart, NodeHeld, ParentHeld, Where, Allocated, Fullness, ParentCurrent
  <2>2. parent[t] # None => /\ kind'[parent[t]] = kind[parent[t]]
                            /\ ents'[parent[t]] = ents[parent[t]]
                            /\ below'[parent[t]] = below[parent[t]]
    BY <1>5, <2>1 DEF Divided
  <2>3. parent[t] # None => (isFull(parent[t])' <=> isFull(parent[t]))
    BY <1>9, <2>2 DEF isFull, leafIsFull, innerIsFull, EntryKeys, Seps
  <2>4. QED
    BY <1>9, <2>1, <2>3 DEF Fullness
<1>15. QED
  BY <1>5, <1>7, <1>8, <1>11, <1>12, <1>13, <1>14, StepSafe DEF Divided, ThreadOK

\* What linking the two halves leaves behind.
Linked(t) ==
  /\ Shape' /\ TreeGrows(t)
  /\ root' \in Nodes
  /\ kind' \in [Nodes -> {"free", "leaf", "inner"}]
  /\ below' \in [Nodes -> [Keys -> Nodes \cup {None}]]
  /\ beyond' \in [Nodes -> Nodes \cup {None}]
  /\ UNCHANGED ents

LEMMA NewRootLinks ==
  ASSUME TypeOK, Shape, NEW t \in Threads,
         NEW new \in Nodes, new = NewNode, kind[new] = "free",
         Allocated(node[t]), Allocated(sibling[t]), NEW s \in Keys, s = sep[t], makeRoot(t)
  PROVE  Linked(t)
<1>1. /\ kind' = [kind EXCEPT ![new] = "inner"]
      /\ below' = [below EXCEPT ![new][s] = node[t]]
      /\ beyond' = [beyond EXCEPT ![new] = sibling[t]]
      /\ root' = new /\ UNCHANGED ents
  BY DEF makeRoot
<1>2. node[t] \in Nodes /\ sibling[t] \in Nodes /\ s \in Keys
  BY DEF Allocated
<1>3. NodeOK(new) /\ \A k \in Keys : below[new][k] = None
  BY DEF Shape, NodeOK, Seps
<1>4. /\ kind' \in [Nodes -> {"free", "leaf", "inner"}]
      /\ below' \in [Nodes -> [Keys -> Nodes \cup {None}]]
      /\ beyond' \in [Nodes -> Nodes \cup {None}]
  <2>1. kind' \in [Nodes -> {"free", "leaf", "inner"}]
    BY <1>1 DEF TypeOK
  <2>2. below' \in [Nodes -> [Keys -> Nodes \cup {None}]]
    BY <1>1, <1>2 DEF TypeOK
  <2>3. beyond' \in [Nodes -> Nodes \cup {None}]
    BY <1>1, <1>2 DEF TypeOK
  <2>4. QED
    BY <2>1, <2>2, <2>3
<1>5. /\ kind'[new] = "inner" /\ beyond'[new] = sibling[t]
      /\ \A k \in Keys : below'[new][k] = IF k = s THEN node[t] ELSE None
      /\ \A m \in Nodes \ {new} :
           kind'[m] = kind[m] /\ below'[m] = below[m] /\ beyond'[m] = beyond[m]
  BY <1>1, <1>2, <1>3 DEF TypeOK
<1>6. Seps(new)' = {s} /\ EntryKeys(new)' = EntryKeys(new)
  <2>1. Seps(new)' = {s}
    BY <1>2, <1>5, NodesAssumption DEF Seps
  <2>2. QED
    BY <1>1, <2>1 DEF EntryKeys
<1>7. NodeOK(new)'
  <2>1. IsFiniteSet({s}) /\ Cardinality({s}) = 1
    BY FS_Singleton
  <2>2. kind'[node[t]] # "free" /\ kind'[sibling[t]] # "free"
    BY <1>5 DEF Allocated
  <2>3. Allocated(beyond[new])' /\ \A k \in {s} : Allocated(below[new][k])'
    BY <1>2, <1>5, <2>2 DEF Allocated
  <2>4. IsFiniteSet(EntryKeys(new))
    BY <1>3 DEF NodeOK
  <2>5. QED
    BY <1>5, <1>6, <2>1, <2>3, <2>4, SizeAssumption DEF NodeOK
<1>8. \A m \in Nodes \ {new} : NodeOK(m)'
  BY <1>1, <1>5, NodeStays DEF Shape
<1>9. Shape' /\ TreeGrows(t)
  BY <1>1, <1>5, <1>7, <1>8 DEF Shape, Allocated, TreeGrows
<1>10. QED
  BY <1>1, <1>4, <1>9 DEF Linked

LEMMA SiblingLinks ==
  ASSUME TypeOK, Shape, NEW t \in Threads,
         NEW p \in Holds(t), p = parent[t], kind[p] = "inner", ~isFull(p),
         Allocated(sibling[t]), NEW s \in Keys, s = sep[t], LinkSibling(t)
  PROVE  Linked(t)
<1> DEFINE notBelow == {k \in Seps(p) : k >= s}
           least == Least(notBelow)
           old == Child(p, s)
<1>1. /\ \/ below' = [below EXCEPT ![p][s] = old]
         \/ notBelow # {} /\ below' = [below EXCEPT ![p][least] = sibling[t], ![p][s] = old]
      /\ beyond' = [beyond EXCEPT ![p] = sibling[t]] \/ beyond' = beyond
      /\ UNCHANGED <<root, kind, ents>>
  BY DEF LinkSibling
<1>2. p \in Nodes /\ NodeOK(p) /\ IsFiniteSet(Seps(p)) /\ s \in Keys
  BY DEF Holds, Shape, NodeOK
<1>3. Allocated(old) /\ old \in Nodes /\ sibling[t] \in Nodes
  BY <1>2, ChildOf DEF Allocated
<1>4. notBelow # {} => least \in Seps(p)
  <2>1. IsFiniteSet(notBelow)
    BY <1>2, FS_Subset
  <2>2. \A k \in notBelow : k \in Nat
    BY KeysAreNumbers
  <2>3. QED
    BY <2>1, <2>2, LeastOf
<1> HIDE DEF notBelow, least, old
<1>5. below' \in [Nodes -> [Keys -> Nodes \cup {None}]]
  <2>1. CASE below' = [below EXCEPT ![p][s] = old]
    BY <1>3, <2>1 DEF TypeOK
  <2>2. CASE below' = [below EXCEPT ![p][least] = sibling[t], ![p][s] = old]
    <3> DEFINE row == [below[p] EXCEPT ![least] = sibling[t], ![s] = old]
    <3>1. row \in [Keys -> Nodes \cup {None}]
      BY <1>2, <1>3 DEF TypeOK
    <3>2. below' = [below EXCEPT ![p] = row]
      BY <1>2, <2>2 DEF TypeOK
    <3> HIDE DEF row
    <3>3. QED
      BY <3>1, <3>2 DEF TypeOK
  <2>3. QED
    BY <1>1, <2>1, <2>2
<1>6. beyond' \in [Nodes -> Nodes \cup {None}]
  BY <1>1, <1>2, <1>3 DEF TypeOK
<1>7. \A k \in Keys :
        /\ below'[p][k] \in {below[p][k], old, sibling[t]}
        /\ k \notin Seps(p) \cup {s} => below'[p][k] = below[p][k]
  BY <1>1, <1>2, <1>4 DEF TypeOK
<1>8. \A m \in Nodes \ {p} : below'[m] = below[m] /\ beyond'[m] = beyond[m]
  BY <1>1, <1>2 DEF TypeOK
<1>9. beyond'[p] \in {beyond[p], sibling[t]}
  BY <1>1, <1>2 DEF TypeOK
<1>10. NodeOK(p)'
  <2>1. \A k \in Seps(p)' : k \in Seps(p) \cup {s}
    BY <1>7 DEF Seps
  <2>2. /\ IsFiniteSet(Seps(p) \cup {s})
        /\ Cardinality(Seps(p) \cup {s}) <= Cardinality(Seps(p)) + 1
        /\ Cardinality(Seps(p)) \in Nat
    <3>1. Cardinality(Seps(p)) \in Nat
      BY <1>2, FS_CardinalityType
    <3>2. /\ IsFiniteSet(Seps(p) \cup {s})
          /\ Cardinality(Seps(p) \cup {s}) =
               IF s \in Seps(p) THEN Cardinality(Seps(p)) ELSE Cardinality(Seps(p)) + 1
      BY <1>2, FS_AddElement, Zenon
    <3>3. QED
      BY <3>1, <3>2
  <2>3. Cardinality(Seps(p)) + 1 <= InnerMax - 1
    BY <1>2, <2>2, SizeAssumption DEF NodeOK, isFull, innerIsFull
  <2>4. /\ IsFiniteSet(Seps(p)') /\ Cardinality(Seps(p)') <= Cardinality(Seps(p) \cup {s})
        /\ Cardinality(Seps(p)') \in Nat /\ Cardinality(Seps(p) \cup {s}) \in Nat
    BY <2>1, <2>2, FS_Subset, FS_CardinalityType
  <2>5. Cardinality(Seps(p)') <= InnerMax - 1
    BY <2>2, <2>3, <2>4, SizeAssumption
  <2>6. Allocated(beyond[p])'
    BY <1>1, <1>2, <1>9 DEF NodeOK, Allocated
  <2>7. \A k \in Seps(p)' : Allocated(below[p][k])'
    <3> SUFFICES ASSUME NEW k \in Seps(p)' PROVE Allocated(below[p][k])'
      OBVIOUS
    <3>1. k \in Keys /\ below'[p][k] # None
      BY DEF Seps
    <3>2. CASE below'[p][k] = below[p][k]
      BY <1>1, <1>2, <3>1, <3>2 DEF NodeOK, Allocated, Seps
    <3>3. CASE below'[p][k] \in {old, sibling[t]}
      BY <1>1, <1>3, <3>3 DEF Allocated
    <3>4. QED
      BY <1>7, <3>1, <3>2, <3>3
  <2>8. EntryKeys(p)' = EntryKeys(p)
    BY <1>1 DEF EntryKeys
  <2>9. QED
    BY <1>1, <1>2, <2>4, <2>5, <2>6, <2>7, <2>8 DEF NodeOK
<1>11. \A m \in Nodes \ {p} : NodeOK(m)'
  BY <1>1, <1>8, NodeStays DEF Shape
<1>12. Shape' /\ TreeGrows(t)
  BY <1>1, <1>8, <1>10, <1>11 DEF Shape, Allocated, TreeGrows
<1>13. QED
  BY <1>1, <1>5, <1>6, <1>12 DEF Linked, TypeOK

LEMMA LinkSafe ==
  ASSUME LockInv, SafeInv, NEW t \in Threads, Link(t)
  PROVE  SafeInv'
<1> USE ThreadParts
<1>1. /\ pc[t] = "link" /\ pc' = [pc EXCEPT ![t] = "unlockNode"]
      /\ sibling' = [sibling EXCEPT ![t] = None] /\ sep' = [sep EXCEPT ![t] = 0]
      /\ UNCHANGED <<word, search, result, bound>>
  BY DEF Link, Goto
<1>2. Allocated(node[t]) /\ Allocated(sibling[t]) /\ sep[t] \in Keys
  BY <1>1 DEF Where, NodeSeen, NodeHeld
<1>3. Linked(t)
  <2>1. CASE parent[t] = None
    <3>1. PICK new \in Nodes : new = NewNode /\ kind[new] = "free"
      BY <2>1 DEF Link, NewNode, Free
    <3>2. QED
      BY <1>2, <2>1, <3>1, NewRootLinks DEF Link
  <2>2. CASE parent[t] # None
    <3>1. parent[t] \in Nodes /\ kind[parent[t]] = "inner"
      BY <2>2 DEF Where, Allocated
    <3>2. inserting(t) /\ ~isFull(parent[t])
      BY <1>1, <2>2 DEF CallOK, InsertLabels, Fullness, ParentCurrent, ParentHeld
    <3>3. parent[t] \in Holds(t)
      BY <1>1, <3>1 DEF Holds, ParentHeld
    <3>4. QED
      BY <1>2, <2>2, <3>1, <3>2, <3>3, SiblingLinks DEF Link
  <2>3. QED
    BY <2>1, <2>2
<1>4. /\ pc'[t] = "unlockNode"
      /\ node'[t] = node[t] /\ parent'[t] = parent[t] /\ versionParent'[t] = versionParent[t]
  BY <1>1 DEF TypeOK, search
<1>5. TypeOK'
  <2>1. /\ pc' \in [Threads -> Label] /\ sibling' \in [Threads -> Nodes \cup {None}]
        /\ sep' \in [Threads -> Nat]
    BY <1>1 DEF TypeOK, Label
  <2>2. QED
    BY <1>1, <1>3, <2>1 DEF Linked, TypeOK, search, result, bound
<1>6. Elsewhere(t) /\ WordsGrow
  BY <1>1 DEF TypeOK, Elsewhere, WordsGrow, search, result, bound
<1>7. CallOK(t)'
  BY <1>1, <1>4 DEF CallOK, inserting, InsertLabels, ReadLabels, result, bound
<1>8. Where(t)'
  <2>1. \A m \in Nodes : kind[m] # "free" => kind'[m] = kind[m]
    BY <1>3 DEF Linked, TreeGrows
  <2>2. QED
    BY <1>1, <1>2, <1>4, <2>1 DEF Where, Allocated, NodeSeen, NodeHeld
<1>9. Versions(t)' /\ BatchOK(t)' /\ Fullness(t)'
  BY <1>1, <1>4 DEF Versions, BatchOK, NodeRead, Fullness
<1>10. QED
  BY <1>3, <1>5, <1>6, <1>7, <1>8, <1>9, StepSafe DEF Linked, ThreadOK

LEMMA SplitFullSafe ==
  ASSUME LockInv, SafeInv, NEW t \in Threads, SplitFull(t)
  PROVE  SafeInv'
<1>1. CASE GiveBackParent(t)
  BY <1>1, UnlockAndRestartSafe DEF GiveBackParent
<1>2. CASE GiveBackNode(t)
  BY <1>2, UnlockAndRestartSafe DEF GiveBackNode
<1>3. CASE UnlockParent(t)
  BY <1>3, UnlockAndRestartSafe DEF UnlockParent
<1>4. QED
  BY <1>1, <1>2, <1>3, LockParentSafe, LockNodeSafe, RecheckRootSafe, SplitSafe, LinkSafe,
     UnlockNodeSafe DEF SplitFull

-------------------------------------------------------------------------------
\* Writing an entry, and the end of a call.
LEMMA CallTypes ==
  ASSUME TypeOK, NEW t \in Threads, call[t] # None
  PROVE  /\ call[t].key \in Keys /\ call[t].op \in {"insert", "find", "scan"}
         /\ call[t].op = "insert" => call[t].val \in Payloads
         /\ call[t].op = "scan" => call[t].range \in Nat
BY CallsAssumption DEF TypeOK

LEMMA PutSafe ==
  ASSUME LockInv, SafeInv, NEW t \in Threads, Put(t)
  PROVE  SafeInv'
<1> USE ThreadParts
<1>1. /\ pc[t] = "put" /\ pc' = [pc EXCEPT ![t] = "unlockLeaf"]
      /\ UNCHANGED <<root, kind, below, beyond, word, search, sibling, sep, result, bound>>
  BY DEF Put, Goto
<1>2. PICK n \in Holds(t) : n = node[t] /\ n \in Nodes /\ kind[n] = "leaf"
  BY <1>1 DEF Where, Allocated, NodeSeen, NodeHeld, Holds
<1>3. inserting(t) /\ call[t] # None /\ ~isFull(n)
  BY <1>1, <1>2 DEF CallOK, InsertLabels, Fullness, NodeCurrent, NodeHeld
<1>4. PICK k \in Keys, v \in Payloads : ents' = [ents EXCEPT ![n][k] = v]
  <2>1. from[t] \in Keys /\ call[t].val \in Payloads
    BY <1>3, CallTypes DEF CallOK, inserting
  <2>2. QED
    BY <1>2, <2>1 DEF Put
<1>5. ents' \in [Nodes -> [Keys -> Payloads \cup {None}]]
  BY <1>4 DEF TypeOK
<1>6. /\ \A m \in Nodes \ {n} : ents'[m] = ents[m]
      /\ \A j \in Keys : ents'[n][j] = IF j = k THEN v ELSE ents[n][j]
  BY <1>2, <1>4 DEF TypeOK
<1>7. NodeOK(n)'
  <2>1. EntryKeys(n)' = EntryKeys(n) \cup {k}
    BY <1>6, PayloadsAssumption DEF EntryKeys
  <2>2. NodeOK(n)
    BY <1>2 DEF Shape
  <2>3. Cardinality(EntryKeys(n)) \in Nat /\ IsFiniteSet(EntryKeys(n))
    BY <2>2, FS_CardinalityType DEF NodeOK
  <2>4. Cardinality(EntryKeys(n)) + 1 <= LeafMax
    BY <1>2, <1>3, <2>2, <2>3, SizeAssumption DEF NodeOK, isFull, leafIsFull
  <2>5. /\ IsFiniteSet(EntryKeys(n) \cup {k})
        /\ Cardinality(EntryKeys(n) \cup {k}) =
             IF k \in EntryKeys(n) THEN Cardinality(EntryKeys(n))
             ELSE Cardinality(EntryKeys(n)) + 1
    BY <2>3, FS_AddElement, Zenon
  <2>6. Cardinality(EntryKeys(n) \cup {k}) <= LeafMax
    BY <2>3, <2>4, <2>5, SizeAssumption
  <2>7. Seps(n)' = Seps(n)
    BY <1>1 DEF Seps
  <2>8. QED
    BY <1>1, <1>2, <2>1, <2>2, <2>5, <2>6, <2>7 DEF NodeOK
<1>8. Shape' /\ TreeGrows(t)
  <2>1. \A m \in Nodes \ {n} : NodeOK(m)'
    BY <1>1, <1>6, NodeStays DEF Shape
  <2>2. QED
    BY <1>1, <1>6, <1>7, <2>1 DEF Shape, Allocated, TreeGrows
<1>9. TypeOK'
  <2>1. pc' \in [Threads -> Label]
    BY <1>1 DEF TypeOK, Label
  <2>2. QED
    BY <1>1, <1>5, <2>1 DEF TypeOK, search, result, bound
<1>10. Elsewhere(t) /\ WordsGrow
  BY <1>1 DEF TypeOK, Elsewhere, WordsGrow, search, result, bound
<1>11. /\ pc'[t] = "unlockLeaf" /\ node'[t] = node[t] /\ parent'[t] = parent[t]
       /\ versionParent'[t] = versionParent[t]
  BY <1>1 DEF TypeOK, search
<1>12. CallOK(t)'
  BY <1>1, <1>3, <1>11 DEF CallOK, inserting, InsertLabels, ReadLabels, result, bound
<1>13. Where(t)'
  BY <1>1, <1>2, <1>11 DEF Where, Allocated, NodeSeen, NodeHeld
<1>14. Versions(t)' /\ BatchOK(t)'
  BY <1>1, <1>11 DEF Versions, BatchOK, NodeRead
<1>15. Fullness(t)'
  <2>1. parent[t] # None => parent[t] \in Nodes /\ parent[t] # n
    BY <1>2 DEF Where, Allocated
  <2>2. parent[t] # None => (isFull(parent[t])' <=> isFull(parent[t]))
    <3>1. parent[t] # None => ents'[parent[t]] = ents[parent[t]]
      BY <1>6, <2>1
    <3>2. QED
      BY <1>1, <1>11, <3>1, ZenonT(30) DEF isFull, leafIsFull, innerIsFull, EntryKeys, Seps
  <2>3. parent[t] # None /\ word[parent[t]] = versionParent[t] => ~isFull(parent[t])
    BY <1>1, <1>3 DEF Fullness, ParentCurrent
  <2>4. QED
    BY <1>1, <1>11, <2>2, <2>3 DEF Fullness, ParentCurrent, ParentHeld
<1>16. QED
  BY <1>8, <1>9, <1>10, <1>12, <1>13, <1>14, <1>15, StepSafe DEF ThreadOK

LEMMA LeaveSafe ==
  ASSUME LockInv, SafeInv, NEW t \in Threads, Leave(t),
         UNCHANGED <<tree, sibling, sep, batch>>, word' \in [Nodes -> Nat], WordsGrow
  PROVE  SafeInv'
<1> USE ThreadParts
<1>1. /\ pc' = [pc EXCEPT ![t] = "idle"] /\ call' = [call EXCEPT ![t] = None]
      /\ node' = [node EXCEPT ![t] = None] /\ parent' = [parent EXCEPT ![t] = None]
      /\ versionNode' = [versionNode EXCEPT ![t] = 0]
      /\ versionParent' = [versionParent EXCEPT ![t] = 0]
      /\ from' = [from EXCEPT ![t] = 0] /\ out' = [out EXCEPT ![t] = <<>>]
      /\ snap' = [snap EXCEPT ![t] = {}]
  BY DEF Leave, Goto
<1>2. TypeOK'
  <2>1. /\ pc' \in [Threads -> Label]
        /\ node' \in [Threads -> Nodes \cup {None, Torn}]
        /\ parent' \in [Threads -> Nodes \cup {None}]
        /\ versionNode' \in [Threads -> Nat] /\ versionParent' \in [Threads -> Nat]
        /\ from' \in [Threads -> Nat]
    BY <1>1 DEF TypeOK, Label
  <2>2. call' \in [Threads -> Calls \cup {Load[i] : i \in DOMAIN Load} \cup {None}]
    BY <1>1 DEF TypeOK
  <2>3. out' \in [Threads -> Seq(Payloads \cup {Unset})]
    BY <1>1, SMTT(30) DEF TypeOK
  <2>4. snap' \in [Threads -> SUBSET Keys]
    BY <1>1 DEF TypeOK
  <2>5. QED
    BY <2>1, <2>2, <2>3, <2>4 DEF TypeOK, tree
<1>3. Elsewhere(t)
  BY <1>1 DEF TypeOK, Elsewhere
<1>4. pc'[t] = "idle" /\ call'[t] = None /\ node'[t] = None /\ parent'[t] = None
  BY <1>1 DEF TypeOK
<1>5. CallOK(t)' /\ Where(t)'
  BY <1>4, SentinelsAssumption
     DEF CallOK, Where, InsertLabels, ReadLabels, NodeSeen, NodeRead, NodeHeld
<1>6. Versions(t)' /\ Fullness(t)' /\ BatchOK(t)'
  BY <1>4 DEF Versions, Fullness, BatchOK, NodeRead
<1>7. QED
  BY <1>2, <1>3, <1>5, <1>6, TreeUnchanged DEF ThreadOK

LEMMA UnlockLeafSafe ==
  ASSUME LockInv, SafeInv, NEW t \in Threads, UnlockLeaf(t)
  PROVE  SafeInv'
<1>1. word' \in [Nodes -> Nat] /\ WordsGrow
  BY ThreadParts, WordGrows DEF UnlockLeaf, writeUnlock, TypeOK
<1>2. QED
  BY <1>1, LeaveSafe DEF UnlockLeaf

LEMMA InsertIntoLeafSafe ==
  ASSUME LockInv, SafeInv, NEW t \in Threads, InsertIntoLeaf(t)
  PROVE  SafeInv'
BY LockLeafSafe, LeafCheckParentSafe, PutSafe, UnlockLeafSafe DEF InsertIntoLeaf

-------------------------------------------------------------------------------
\* lookup and scan.
ReadTypes ==
  /\ batch' \in [Threads -> Seq(Payloads \cup {Unset, Torn})]
  /\ from' \in [Threads -> Nat]
  /\ out' \in [Threads -> Seq(Payloads \cup {Unset})]
ReadElsewhere(t) ==
  \A s \in Threads \ {t} : batch'[s] = batch[s] /\ from'[s] = from[s] /\ out'[s] = out[s]

LEMMA ReadStep ==
  ASSUME LockInv, SafeInv, NEW t \in Threads,
         UNCHANGED <<tree, word, sibling, sep, bound>>,
         SearchTypes, SearchElsewhere(t), ReadTypes, ReadElsewhere(t), ThreadOK(t)'
  PROVE  SafeInv'
<1>1. TypeOK'
  BY DEF SafeInv, TypeOK, SearchTypes, ReadTypes, tree, bound
<1>2. Elsewhere(t) /\ WordsGrow
  BY DEF SafeInv, TypeOK, SearchElsewhere, ReadElsewhere, Elsewhere, WordsGrow, bound
<1>3. QED
  BY <1>1, <1>2, TreeUnchanged

LEMMA OneElementSequence ==
  ASSUME NEW S, NEW x \in S
  PROVE  <<x>> \in Seq(S)
OBVIOUS

LEMMA WiderSequence ==
  ASSUME NEW S, NEW T, \A x \in S : x \in T, NEW s \in Seq(S)
  PROVE  s \in Seq(T)
<1>1. Len(s) \in Nat /\ s = [i \in 1..Len(s) |-> s[i]] /\ \A i \in 1..Len(s) : s[i] \in S
  OBVIOUS
<1>2. \A i \in 1..Len(s) : s[i] \in T
  BY <1>1
<1>3. [i \in 1..Len(s) |-> s[i]] \in Seq(T)
  BY <1>1, <1>2
<1>4. QED
  BY <1>1, <1>3

\* A scan copies payloads of entries that are there.
LEMMA LeafEntriesArePayloads ==
  ASSUME TypeOK, Shape, NEW n \in Nodes, NEW k \in Nat, NEW most \in Int
  PROVE  /\ LeafEntries(n, k, most) \in Seq(Payloads)
         /\ \A i \in 1..Len(LeafEntries(n, k, most)) : LeafEntries(n, k, most)[i] \in Payloads
<1> DEFINE S == {j \in EntryKeys(n) : j >= k}
           size == Cardinality(S)
           count == IF size < most THEN size ELSE most
<1>1. IsFiniteSet(S) /\ size \in Nat /\ \A j \in S : j \in Nat
  <2>1. IsFiniteSet(EntryKeys(n))
    BY DEF Shape, NodeOK
  <2>2. IsFiniteSet(S)
    BY <2>1, FS_Subset
  <2>3. QED
    BY <2>2, FS_CardinalityType, KeysAreNumbers
<1>2. \A i \in 1..size : ents[n][AtIndex(S, i - 1)] \in Payloads
  <2> SUFFICES ASSUME NEW i \in 1..size PROVE ents[n][AtIndex(S, i - 1)] \in Payloads
    OBVIOUS
  <2>1. i - 1 \in 0..(size - 1)
    BY <1>1
  <2>2. AtIndex(S, i - 1) \in S
    BY <1>1, <2>1, AtIndexOf
  <2>3. AtIndex(S, i - 1) \in Keys /\ ents[n][AtIndex(S, i - 1)] # None
    BY <2>2 DEF EntryKeys
  <2>4. QED
    BY <2>3 DEF TypeOK
<1>3. Len(Sorted(S)) = size /\ \A i \in 1..size : Sorted(S)[i] = AtIndex(S, i - 1)
  BY <1>1 DEF Sorted
<1>4. LeafEntries(n, k, most) = [i \in 1..count |-> ents[n][Sorted(S)[i]]]
  BY <1>3 DEF LeafEntries
<1> DEFINE long == IF count < 0 THEN 0 ELSE count
<1> HIDE DEF S, size
<1>5. long \in Nat /\ 1..count = 1..long /\ 1..long \subseteq 1..size
  BY <1>1
<1> HIDE DEF count, long
<1>6. LeafEntries(n, k, most) = [i \in 1..long |-> ents[n][AtIndex(S, i - 1)]]
  BY <1>3, <1>4, <1>5
<1>7. \A i \in 1..long : ents[n][AtIndex(S, i - 1)] \in Payloads
  BY <1>2, <1>5
<1>8. QED
  BY <1>5, <1>6, <1>7

LEMMA ReadLeafSafe ==
  ASSUME LockInv, SafeInv, NEW t \in Threads, ReadLeaf(t)
  PROVE  SafeInv'
<1> USE ThreadParts
<1> DEFINE n == node[t]
           most == call[t].range - Len(out[t])
           read == IF word[n] # versionNode[t] THEN <<Torn>>
                   ELSE IF call[t].op = "scan" THEN LeafEntries(n, from[t], most)
                   ELSE IF ents[n][from[t]] = None THEN <<Unset>>
                   ELSE <<ents[n][from[t]]>>
<1>1. /\ pc[t] = "read" /\ pc' = [pc EXCEPT ![t] = "readCheckParent"]
      /\ batch' = [batch EXCEPT ![t] = read]
      /\ UNCHANGED <<tree, word, search, sibling, sep, from, out, bound>>
  BY DEF ReadLeaf, Goto
<1>2. /\ Allocated(n) /\ call[t] # None /\ call[t].op \in {"find", "scan"}
      /\ versionNode[t] <= word[n]
  BY <1>1, CallTypes DEF Where, CallOK, ReadLabels, inserting, Versions, NodeSeen, NodeRead
<1>3. word[n] = versionNode[t] /\ call[t].op = "scan" =>
        /\ read \in Seq(Payloads)
        /\ \A i \in 1..Len(read) : read[i] \in Payloads
  <2> SUFFICES ASSUME word[n] = versionNode[t], call[t].op = "scan"
               PROVE  /\ read \in Seq(Payloads)
                      /\ \A i \in 1..Len(read) : read[i] \in Payloads
    OBVIOUS
  <2>1. n \in Nodes /\ from[t] \in Nat
    BY <1>2 DEF Allocated, TypeOK
  <2>2. most \in Int
    <3>1. call[t].range \in Nat /\ out[t] \in Seq(Payloads \cup {Unset})
      BY <1>2, CallTypes DEF TypeOK
    <3>2. QED
      BY <3>1
  <2>3. read = LeafEntries(n, from[t], most)
    OBVIOUS
  <2> HIDE DEF read, most, n
  <2>4. QED
    BY <2>1, <2>2, <2>3, LeafEntriesArePayloads
<1> DEFINE entry == IF word[n] # versionNode[t] THEN Torn
                    ELSE IF ents[n][from[t]] = None THEN Unset ELSE ents[n][from[t]]
<1>4. call[t].op # "scan" =>
        /\ read = <<entry>>
        /\ entry \in Payloads \cup {Unset, Torn}
        /\ word[n] = versionNode[t] => entry \in Payloads \cup {Unset}
  <2>1. call[t].op # "scan" => ents[n][from[t]] \in Payloads \cup {None}
    <3>1. call[t].op # "scan" => from[t] \in Keys
      BY <1>2, CallTypes DEF CallOK
    <3>2. QED
      BY <1>2, <3>1 DEF Allocated, TypeOK
  <2>2. call[t].op # "scan" => read = <<entry>>
    OBVIOUS
  <2>3. QED
    BY <2>1, <2>2
<1>5. word[n] # versionNode[t] => read = <<Torn>>
  OBVIOUS
<1> HIDE DEF read, entry
<1>6. word[n] = versionNode[t] => read \in Seq(Payloads \cup {Unset})
  <2>1. CASE call[t].op = "scan"
    <3>1. \A x \in Payloads : x \in Payloads \cup {Unset}
      OBVIOUS
    <3>2. QED
      BY <1>3, <2>1, <3>1, WiderSequence, Zenon
  <2>2. CASE call[t].op # "scan"
    BY <1>4, <2>2, OneElementSequence
  <2>3. QED
    BY <2>1, <2>2
<1>7. read \in Seq(Payloads \cup {Unset, Torn})
  <2>1. CASE word[n] # versionNode[t]
    BY <1>5, <2>1, OneElementSequence
  <2>2. CASE word[n] = versionNode[t]
    <3>1. \A x \in Payloads \cup {Unset} : x \in Payloads \cup {Unset, Torn}
      OBVIOUS
    <3>2. QED
      BY <1>6, <2>2, <3>1, WiderSequence, Zenon
  <2>3. QED
    BY <2>1, <2>2
<1>8. SearchTypes /\ SearchElsewhere(t) /\ pc'[t] = "readCheckParent"
  BY <1>1 DEF TypeOK, Label, SearchTypes, SearchElsewhere, search
<1>9. ReadTypes /\ ReadElsewhere(t) /\ batch'[t] = read
  BY <1>1, <1>7 DEF TypeOK, ReadTypes, ReadElsewhere
<1>10. CallOK(t)'
  BY <1>1, <1>8 DEF CallOK, inserting, InsertLabels, ReadLabels, bound
<1>11. Where(t)'
  BY <1>1, <1>2, <1>8 DEF Where, Allocated, NodeSeen, NodeRead, tree, search
<1>12. Versions(t)'
  BY <1>1, <1>8 DEF Versions, NodeRead, search
<1>13. Fullness(t)'
  BY <1>1, <1>2, <1>8 DEF Fullness, inserting, bound
<1>14. BatchOK(t)'
  BY <1>1, <1>3, <1>6, <1>8, <1>9 DEF BatchOK, search, bound
<1>15. QED
  BY <1>1, <1>8, <1>9, <1>10, <1>11, <1>12, <1>13, <1>14, ReadStep DEF ThreadOK

\* What was read is dropped when the search starts again.
LEMMA RestartReadSafe ==
  ASSUME LockInv, SafeInv, NEW t \in Threads, pc[t] # "idle", Restart(t),
         UNCHANGED <<tree, word, sibling, sep, bound>>,
         batch' = [batch EXCEPT ![t] = <<>>],
         ReadTypes, ReadElsewhere(t), from'[t] = from[t] \/ call[t].op = "scan"
  PROVE  SafeInv'
<1>1. TypeOK /\ CallOK(t)
  BY ThreadParts
<1>2. ThreadOK(t)'
  BY <1>1, RestartOK DEF bound
<1>3. QED
  BY <1>1, <1>2, RestartFresh, ReadStep

LEMMA NoBatch ==
  ASSUME TypeOK, NEW t \in Threads, batch' = [batch EXCEPT ![t] = <<>>]
  PROVE  /\ batch' \in [Threads -> Seq(Payloads \cup {Unset, Torn})]
         /\ batch'[t] = <<>>
         /\ \A s \in Threads \ {t} : batch'[s] = batch[s]
BY DEF TypeOK

LEMMA ReadCheckParentSafe ==
  ASSUME LockInv, SafeInv, NEW t \in Threads, ReadCheckParent(t)
  PROVE  SafeInv'
<1> USE ThreadParts
<1>1. pc[t] = "readCheckParent" /\ UNCHANGED <<tree, word, sibling, sep, from, out, bound>>
  BY DEF ReadCheckParent
<1>2. CASE Restart(t) /\ batch' = [batch EXCEPT ![t] = <<>>]
  <2>1. ReadTypes /\ ReadElsewhere(t)
    BY <1>1, <1>2, NoBatch DEF TypeOK, ReadTypes, ReadElsewhere
  <2>2. QED
    BY <1>1, <1>2, <2>1, RestartReadSafe
<1>3. CASE Goto(t, "readCheckNode") /\ UNCHANGED <<search, batch>>
  <2>1. pc' = [pc EXCEPT ![t] = "readCheckNode"] /\ UNCHANGED result
    BY <1>1, <1>3 DEF Goto, result
  <2>2. SearchTypes /\ SearchElsewhere(t) /\ pc'[t] = "readCheckNode"
    BY <1>3, <2>1 DEF TypeOK, Label, SearchTypes, SearchElsewhere, search
  <2>3. CallOK(t)'
    BY <1>1, <2>2 DEF CallOK, inserting, InsertLabels, ReadLabels, bound
  <2>4. Where(t)'
    BY <1>1, <1>3, <2>2 DEF Where, Allocated, NodeSeen, NodeRead, tree, search
  <2>5. Versions(t)' /\ BatchOK(t)'
    BY <1>1, <1>3, <2>2 DEF Versions, BatchOK, NodeRead, search, bound
  <2>6. Fullness(t)'
    BY <1>1, <2>2 DEF Fullness, inserting, bound, CallOK, ReadLabels
  <2>7. QED
    BY <1>1, <2>1, <2>2, <2>3, <2>4, <2>5, <2>6, SearchStep DEF ThreadOK
<1>4. QED
  BY <1>2, <1>3 DEF ReadCheckParent

LEMMA ReadCheckNodeSafe ==
  ASSUME LockInv, SafeInv, NEW t \in Threads, ReadCheckNode(t)
  PROVE  SafeInv'
<1> USE ThreadParts
<1>1. /\ pc[t] = "readCheckNode" /\ batch' = [batch EXCEPT ![t] = <<>>]
      /\ UNCHANGED <<tree, word, sibling, sep, bound>>
  BY DEF ReadCheckNode
<1>2. call[t] # None /\ ~inserting(t) /\ Allocated(node[t])
  BY <1>1 DEF CallOK, ReadLabels, Where, NodeSeen, NodeRead
<1>3. CASE word[node[t]] # versionNode[t]
  <2>1. Restart(t) /\ UNCHANGED <<from, out>>
    BY <1>3 DEF ReadCheckNode
  <2>2. ReadTypes /\ ReadElsewhere(t)
    BY <1>1, <2>1, NoBatch DEF TypeOK, ReadTypes, ReadElsewhere
  <2>3. QED
    BY <1>1, <2>1, <2>2, RestartReadSafe
<1>4. CASE word[node[t]] = versionNode[t]
  <2> DEFINE got == out[t] \o batch[t]
  <2>1. /\ batch[t] \in Seq(Payloads \cup {Unset})
        /\ call[t].op = "scan" => \A i \in 1..Len(batch[t]) : batch[t][i] \in Payloads
    BY <1>1, <1>4 DEF BatchOK
  <2>2. got \in Seq(Payloads \cup {Unset})
    <3>1. out[t] \in Seq(Payloads \cup {Unset})
      BY DEF TypeOK
    <3>2. QED
      BY <2>1, <3>1
  <2>3. out' = [out EXCEPT ![t] = got]
    BY <1>4 DEF ReadCheckNode, Accept
  <2> HIDE DEF got
  <2>4. out' \in [Threads -> Seq(Payloads \cup {Unset})]
    BY <2>2, <2>3 DEF TypeOK
  <2>5. \A s \in Threads \ {t} : out'[s] = out[s]
    BY <2>3 DEF TypeOK
  <2>6. CASE Restart(t) /\ call[t].op = "scan" /\ batch[t] # <<>>
             /\ from' = [from EXCEPT ![t] = nextKey(Last(batch[t]))]
    <3>1. Last(batch[t]) \in Payloads
      BY <2>1, <2>6 DEF Last
    <3>2. nextKey(Last(batch[t])) \in Nat
      BY <3>1, PayloadsAssumption DEF nextKey
    <3>3. from' \in [Threads -> Nat] /\ \A s \in Threads \ {t} : from'[s] = from[s]
      BY <2>6, <3>2 DEF TypeOK
    <3>4. ReadTypes /\ ReadElsewhere(t)
      BY <1>1, <2>4, <2>5, <3>3, NoBatch DEF ReadTypes, ReadElsewhere
    <3>5. QED
      BY <1>1, <2>6, <3>4, RestartReadSafe
  <2>7. CASE Goto(t, "return") /\ UNCHANGED <<search, from>>
    <3>1. pc' = [pc EXCEPT ![t] = "return"]
      BY <2>7 DEF Goto
    <3>2. SearchTypes /\ SearchElsewhere(t) /\ pc'[t] = "return"
      BY <2>7, <3>1 DEF TypeOK, Label, SearchTypes, SearchElsewhere, search
    <3>3. ReadTypes /\ ReadElsewhere(t)
      BY <1>1, <2>4, <2>5, <2>7, NoBatch DEF TypeOK, ReadTypes, ReadElsewhere
    <3>4. CallOK(t)'
      BY <1>1, <1>2, <2>7, <3>2 DEF CallOK, inserting, InsertLabels, ReadLabels, bound
    <3>5. node[t] # Torn
      BY <1>2, NodesAssumption DEF Allocated
    <3>6. Where(t)'
      BY <1>1, <2>7, <3>2, <3>5 DEF Where, Allocated, NodeSeen, NodeRead, NodeHeld, tree, search
    <3>7. Versions(t)' /\ BatchOK(t)'
      BY <1>1, <2>7, <3>2 DEF Versions, BatchOK, NodeRead, search
    <3>8. Fullness(t)'
      BY <1>1, <1>2, <3>2 DEF Fullness, inserting, bound
    <3>9. QED
      BY <1>1, <3>2, <3>3, <3>4, <3>6, <3>7, <3>8, ReadStep DEF ThreadOK
  <2>8. QED
    BY <1>4, <2>6, <2>7 DEF ReadCheckNode, Accept
<1>5. QED
  BY <1>3, <1>4

LEMMA ReturnSafe ==
  ASSUME LockInv, SafeInv, NEW t \in Threads, Return(t)
  PROVE  SafeInv'
<1>1. word' \in [Nodes -> Nat] /\ WordsGrow
  BY ThreadParts DEF Return, TypeOK, WordsGrow
<1>2. QED
  BY <1>1, LeaveSafe DEF Return

LEMMA ReadOnlySafe ==
  ASSUME LockInv, SafeInv, NEW t \in Threads, ReadOnly(t)
  PROVE  SafeInv'
BY ReadLeafSafe, ReadCheckParentSafe, ReadCheckNodeSafe, ReturnSafe DEF ReadOnly

-------------------------------------------------------------------------------
LEMMA StartSafe ==
  ASSUME LockInv, SafeInv, NEW t \in Threads,
         NEW c \in Calls \cup {Load[i] : i \in DOMAIN Load}, Start(t, c)
  PROVE  SafeInv'
<1> USE ThreadParts
<1>1. /\ pc[t] = "idle" /\ pc' = [pc EXCEPT ![t] = "root"]
      /\ call' = [call EXCEPT ![t] = c] /\ from' = [from EXCEPT ![t] = c.key]
      /\ snap' = [snap EXCEPT ![t] = Present]
      /\ UNCHANGED <<tree, word, search, sibling, sep, batch, out>>
  BY DEF Start, Goto
<1>2. c # None /\ c.key \in Keys /\ c.key \in Nat
  BY CallsAssumption, KeysAssumption
<1>3. TypeOK'
  <2>1. pc' \in [Threads -> Label] /\ from' \in [Threads -> Nat]
    BY <1>1, <1>2 DEF TypeOK, Label
  <2>2. call' \in [Threads -> Calls \cup {Load[i] : i \in DOMAIN Load} \cup {None}]
    BY <1>1 DEF TypeOK
  <2>3. snap' \in [Threads -> SUBSET Keys]
    <3>1. Present \in SUBSET Keys
      BY DEF Present
    <3>2. QED
      BY <1>1, <3>1 DEF TypeOK
  <2>4. QED
    BY <1>1, <2>1, <2>2, <2>3 DEF TypeOK, tree, search
<1>4. Elsewhere(t) /\ WordsGrow
  BY <1>1 DEF TypeOK, Elsewhere, WordsGrow, search
<1>5. /\ pc'[t] = "root" /\ call'[t] = c /\ from'[t] = c.key
      /\ node'[t] = node[t] /\ parent'[t] = parent[t] /\ parent[t] = None
  BY <1>1 DEF TypeOK, search, Where
<1>6. CallOK(t)'
  BY <1>2, <1>5 DEF CallOK, InsertLabels, ReadLabels
<1>7. Where(t)'
  BY <1>1, <1>5 DEF Where, NodeSeen, NodeRead, NodeHeld
<1>8. Versions(t)' /\ Fullness(t)' /\ BatchOK(t)'
  BY <1>5 DEF Versions, Fullness, BatchOK, NodeRead
<1>9. QED
  BY <1>1, <1>3, <1>4, <1>6, <1>7, <1>8, TreeUnchanged DEF ThreadOK

LEMMA InitSafe == Init => SafeInv
<1> SUFFICES ASSUME Init PROVE SafeInv
  OBVIOUS
<1>1. FirstNode \in Nodes
  BY NodesAssumption DEF FirstNode
<1>2. TypeOK
  BY <1>1, FreshWord DEF Init, TypeOK, Label, NoEntries
<1>3. Shape
  <2>1. \A n \in Nodes : EntryKeys(n) = {} /\ Seps(n) = {}
    BY DEF Init, EntryKeys, Seps, NoEntries
  <2>2. IsFiniteSet({}) /\ Cardinality({}) = 0
    BY FS_EmptySet
  <2>3. \A n \in Nodes : NodeOK(n)
    <3> SUFFICES ASSUME NEW n \in Nodes PROVE NodeOK(n)
      OBVIOUS
    <3>1. kind[n] # "inner"
      BY DEF Init
    <3>2. /\ IsFiniteSet(EntryKeys(n)) /\ Cardinality(EntryKeys(n)) = 0
          /\ IsFiniteSet(Seps(n)) /\ Seps(n) = {}
      BY <2>1, <2>2
    <3>3. QED
      BY <3>1, <3>2, SizeAssumption DEF NodeOK
  <2>4. QED
    BY <1>1, <2>3 DEF Init, Shape, Allocated
<1>4. ASSUME NEW t \in Threads PROVE ThreadOK(t)
  <2>1. pc[t] = "idle" /\ call[t] = None /\ node[t] = None /\ parent[t] = None
    BY DEF Init
  <2>2. CallOK(t) /\ Where(t)
    BY <2>1, SentinelsAssumption
       DEF CallOK, Where, InsertLabels, ReadLabels, NodeSeen, NodeRead, NodeHeld
  <2>3. Versions(t) /\ Fullness(t) /\ BatchOK(t)
    BY <2>1 DEF Versions, Fullness, BatchOK, NodeRead
  <2>4. QED
    BY <2>2, <2>3 DEF ThreadOK
<1>5. QED
  BY <1>2, <1>3, <1>4 DEF SafeInv

LEMMA StutterSafe ==
  ASSUME LockInv, SafeInv, UNCHANGED vars
  PROVE  SafeInv'
<1>1. UNCHANGED <<tree, word, pc, search, sibling, sep, result, bound>>
  BY DEF vars
<1>2. TypeOK'
  BY <1>1 DEF SafeInv, TypeOK, tree, search, result, bound
<1>3. Shape'
  BY <1>1 DEF SafeInv, Shape, NodeOK, Allocated, EntryKeys, Seps, tree
<1>4. ASSUME NEW t \in Threads PROVE ThreadOK(t)'
  <2> USE ThreadParts
  <2>1. CallOK(t)' /\ Where(t)' /\ Versions(t)' /\ BatchOK(t)'
    BY <1>1 DEF CallOK, Where, Versions, BatchOK, inserting, Allocated, tree, search, result, bound
  <2>2. (isFull(node[t])' <=> isFull(node[t])) /\ (isFull(parent[t])' <=> isFull(parent[t]))
    BY <1>1 DEF tree, search, isFull, leafIsFull, innerIsFull, EntryKeys, Seps
  <2>3. Fullness(t)'
    BY <1>1, <2>2 DEF Fullness, NodeCurrent, ParentCurrent, inserting, search, bound
  <2>4. QED
    BY <2>1, <2>3 DEF ThreadOK
<1>5. QED
  BY <1>2, <1>3, <1>4 DEF SafeInv

LEMMA NextSafe == LockInv /\ SafeInv /\ [Next]_vars => SafeInv'
<1> SUFFICES ASSUME LockInv, SafeInv, [Next]_vars PROVE SafeInv'
  OBVIOUS
<1>1. ASSUME NEW t \in Threads, Step(t) PROVE SafeInv'
  BY <1>1, DescendSafe, SplitFullSafe, InsertIntoLeafSafe, ReadOnlySafe DEF Step
<1>2. QED
  BY <1>1, StartSafe, StutterSafe DEF Next, Finished

-------------------------------------------------------------------------------
\* The inductive invariant: what the locks guarantee, and what a thread may rely on
\* because of them.
THEOREM Safety == Spec => [](LockInv /\ SafeInv)
BY InitLockInv, NextLockInv, InitSafe, NextSafe, PTL DEF Spec

\* The state and the locals of insert, lookup and scan keep their types: in
\* particular no pointer is followed or stored that is neither a node nor nullptr.
THEOREM TypeCorrect == Spec => []TypeOK
<1>1. LockInv /\ SafeInv => TypeOK
  BY DEF SafeInv
<1>2. QED
  BY <1>1, Safety, PTL

(***************************************************************************)
(* A child pointer or a payload read while the node was being written is   *)
(* thrown away by the check that follows: it is never followed by insert,  *)
(* lookup or scan and never reaches a result.                              *)
(***************************************************************************)
THEOREM TornUnused == Spec => []TornNeverUsed
<1>1. LockInv /\ SafeInv => TornNeverUsed
  <2> SUFFICES ASSUME SafeInv, NEW t \in Threads
               PROVE  /\ node[t] = Torn => pc[t] = "checkInner"
                      /\ \A i \in DOMAIN out[t] : out[t][i] # Torn
    BY DEF TornNeverUsed
  <2>1. node[t] = Torn => pc[t] = "checkInner"
    BY ThreadParts, NodesAssumption DEF Where, Allocated
  <2>2. out[t] \in Seq(Payloads \cup {Unset})
    BY ThreadParts DEF TypeOK
  <2>3. QED
    BY <2>1, <2>2, SentinelsAssumption
<1>2. QED
  BY <1>1, Safety, PTL

(***************************************************************************)
(* The assertions of BTreeLeaf::insert and BTreeInner::insert hold: when a *)
(* leaf is written, and when a parent takes a separator, there is room,    *)
(* although the count was read before the node was locked.                 *)
(***************************************************************************)
THEOREM Room == Spec => []RoomToInsert
<1>1. LockInv /\ SafeInv => RoomToInsert
  <2> SUFFICES ASSUME SafeInv, NEW t \in Threads
               PROVE  /\ pc[t] = "put" => Cardinality(EntryKeys(node[t])) < LeafMax
                      /\ pc[t] = "link" /\ parent[t] # None =>
                           Cardinality(Seps(parent[t])) < InnerMax - 1
    BY DEF RoomToInsert
  <2> USE ThreadParts
  <2>1. \A n \in Nodes : NodeOK(n) /\ Cardinality(EntryKeys(n)) \in Nat /\ Cardinality(Seps(n)) \in Nat
    BY FS_CardinalityType DEF Shape, NodeOK
  <2>2. ASSUME pc[t] = "put" PROVE Cardinality(EntryKeys(node[t])) < LeafMax
    <3>1. node[t] \in Nodes /\ kind[node[t]] = "leaf" /\ ~isFull(node[t])
      BY <2>2 DEF Where, Allocated, NodeSeen, NodeHeld, CallOK, InsertLabels, Fullness, NodeCurrent
    <3>2. QED
      BY <2>1, <3>1, SizeAssumption DEF NodeOK, isFull, leafIsFull
  <2>3. ASSUME pc[t] = "link", parent[t] # None PROVE Cardinality(Seps(parent[t])) < InnerMax - 1
    <3>1. parent[t] \in Nodes /\ kind[parent[t]] = "inner" /\ ~isFull(parent[t])
      BY <2>3 DEF Where, Allocated, CallOK, InsertLabels, Fullness, ParentCurrent, ParentHeld
    <3>2. QED
      BY <2>1, <3>1, SizeAssumption DEF NodeOK, isFull, innerIsFull
  <2>4. QED
    BY <2>2, <2>3
<1>2. QED
  BY <1>1, Safety, PTL

-------------------------------------------------------------------------------
(***************************************************************************)
(* Every search in BTreeOLC ends at the right leaf: for any number of      *)
(* threads, nodes, keys and calls and any size of the nodes.               *)
(*                                                                         *)
(* The invariant gives each node the keys it covers (cov) and a level      *)
(* (lev): the nodes of a level divide all keys among them, and an inner    *)
(* node sends each key it covers on to the node one level down that covers *)
(* it.  That stays true between the split of a node and the step that      *)
(* links its new half, because a search is taken to step from the one half *)
(* to the other (Rightwards), as it could not in the code: until then the  *)
(* thread that splits holds the node and its parent, or the root.          *)
(*                                                                         *)
(* What follows: a search for any key ends at the one leaf that covers it, *)
(* an insert writes into that leaf, and a scan may stop at a leaf with     *)
(* nothing left.                                                           *)
(***************************************************************************)
\* Two keys on the same side of every separator of n.
SameSlot(n, j, k) == \A s \in Seps(n) : j <= s <=> k <= s

\* An inner node sends each key it covers to a node one level down that covers it
\* and covers only keys that n covers and sends to the same child.
InnerOK(n, cov, lev) ==
  /\ \A s \in Seps(n) : s \in cov[n]
  /\ \A k \in cov[n] :
       LET c == Rightwards(Child(n, k), k)
       IN  /\ Allocated(c) /\ k \in cov[c] /\ lev[n] = lev[c] + 1
           /\ \A j \in cov[c] : j \in cov[n] /\ SameSlot(n, j, k)

\* A leaf covers its entries, and unless it is the last one it has an entry from
\* every key on that it covers.
LeafOK(n, cov, lev) ==
  /\ lev[n] = 0
  /\ \A e \in EntryKeys(n) : e \in cov[n]
  /\ \A k \in cov[n], j \in Nat :
       j > k /\ j \notin cov[n] => \E e \in EntryKeys(n) : k <= e

\* Every search starts at the node of the top level that covers its key.
RootOK(cov, lev) ==
  /\ \A k \in Nat : LET r == Rightwards(root, k)
                    IN  Allocated(r) /\ k \in cov[r] /\ lev[r] = lev[root]
  /\ \A n \in Nodes : kind[n] # "free" => lev[n] <= lev[root]

\* No two nodes of a level cover the same key, and no node covers a key but not
\* one between it and another key it covers.
Disjoint(cov, lev) ==
  \A m, n \in Nodes :
    kind[m] # "free" /\ kind[n] # "free" /\ m # n /\ lev[m] = lev[n] =>
      \A k \in cov[m] : k \notin cov[n]
Convex(cov) ==
  \A n \in Nodes : kind[n] # "free" =>
    \A i, k \in cov[n], j \in Nat : i <= j /\ j <= k => j \in cov[n]

Layout(cov, lev) ==
  /\ cov \in [Nodes -> SUBSET Nat] /\ lev \in [Nodes -> Nat]
  /\ IsFiniteSet(Inner)
  /\ RootOK(cov, lev)
  /\ \A n \in Nodes : /\ kind[n] = "inner" => InnerOK(n, cov, lev)
                      /\ kind[n] = "leaf" => LeafOK(n, cov, lev)
  /\ Disjoint(cov, lev)
  /\ Convex(cov)

\* Nothing leads to the new half of a split before it is linked, and no other
\* thread works with it.
Unseen(t) ==
  pc[t] = "link" =>
    /\ sibling[t] # root
    /\ \A p \in Nodes, k \in Nat : kind[p] = "inner" => Child(p, k) # sibling[t]
    /\ \A s \in Threads :
         /\ pc[s] \in NodeSeen \cup {"checkInner"} => node[s] # sibling[t]
         /\ parent[s] # sibling[t]
         /\ s # t /\ pc[s] = "link" => sibling[s] # sibling[t]

\* While the parent is as it was, or is held, it covers the key the thread looks
\* for, and the node is the child it has for that key.
AtRoot == {"root", "rootLock", "rootCheck"}
KnowsParent(t, cov) ==
  /\ parent[t] # None /\ ParentCurrent(t)
       /\ pc[t] \notin {"link", "unlockNode", "unlockParent"} =>
         /\ from[t] \in cov[parent[t]]
         /\ pc[t] # "child" => Child(parent[t], from[t]) = node[t]
  /\ pc[t] = "leafCheckParent" => parent[t] # None
  /\ pc[t] \in AtRoot => parent[t] = None

\* Without a parent the node is the root as long as it is as it was, or is held.
BeyondRootCheck ==
  {"visit", "checkParent", "lockNode", "recheckRoot", "split", "leafLock", "put",
   "read", "readCheckParent", "readCheckNode"}
KnowsRoot(t) ==
  pc[t] \in BeyondRootCheck /\ parent[t] = None /\ NodeCurrent(t) => node[t] = root

\* The leaf that is written, or that was read and has not changed, covers the key.
KnowsLeaf(t, cov) ==
  pc[t] = "put" \/ (pc[t] = "readCheckNode" /\ NodeCurrent(t)) => from[t] \in cov[node[t]]

\* The two halves of a split: divided at the separator, and in one slot of the
\* parent, or all of the tree.
KnowsHalves(t, cov, lev) ==
  pc[t] = "link" =>
    LET n == node[t]
        new == sibling[t]
        p == parent[t]
    IN  /\ n # new /\ lev[n] = lev[new]
        /\ sep[t] \in cov[n] /\ \E j \in Nat : j \in cov[new]
        /\ \A j \in cov[n] : j <= sep[t]
        /\ \A j \in cov[new] : j > sep[t]
        /\ p = None => /\ root = n
                       /\ \A j \in Nat : j \in cov[n] \/ j \in cov[new]
        /\ p # None => /\ lev[p] = lev[n] + 1
                       /\ Child(p, sep[t]) = n
                       /\ \A j \in Nat : j \in cov[n] \/ j \in cov[new] =>
                            j \in cov[p] /\ SameSlot(p, j, sep[t])

Knows(t, cov, lev) ==
  KnowsParent(t, cov) /\ KnowsRoot(t) /\ KnowsLeaf(t, cov) /\ KnowsHalves(t, cov, lev)

SearchInv ==
  /\ \A t \in Threads : Unseen(t)
  /\ \E cov, lev : Layout(cov, lev) /\ \A t \in Threads : Knows(t, cov, lev)

-------------------------------------------------------------------------------
\* The child a search goes on at, by the separators around the key.
LEMMA ChildAt ==
  ASSUME NEW n, NEW k, NEW q \in Seps(n), q >= k,
         \A s \in Seps(n) : s >= k => q <= s
  PROVE  Child(n, k) = below[n][q]
<1> DEFINE notBelow == {s \in Seps(n) : s >= k}
<1>1. q \in notBelow /\ \A s \in notBelow : q <= s
  OBVIOUS
<1>2. \A s \in notBelow : s \in Nat
  BY KeysAreNumbers
<1>3. Least(notBelow) = q
  <2> HIDE DEF notBelow
  <2>1. Least(notBelow) \in notBelow /\ \A s \in notBelow : Least(notBelow) <= s
    BY <1>1 DEF Least
  <2>2. QED
    BY <1>1, <1>2, <2>1
<1>4. QED
  BY <1>1, <1>3 DEF Child

\* The same after a step.
LEMMA LaterChildAt ==
  ASSUME NEW n, NEW k, NEW q, q \in Seps(n)', q >= k,
         \A s \in Seps(n)' : s >= k => q <= s
  PROVE  Child(n, k)' = below'[n][q]
<1> DEFINE notBelow == {s \in Seps(n)' : s >= k}
<1>1. q \in notBelow /\ \A s \in notBelow : q <= s
  OBVIOUS
<1>2. \A s \in notBelow : s \in Nat
  BY KeysAssumption DEF Seps
<1>3. Least(notBelow) = q
  <2> HIDE DEF notBelow
  <2>1. Least(notBelow) \in notBelow /\ \A s \in notBelow : Least(notBelow) <= s
    BY <1>1 DEF Least
  <2>2. QED
    BY <1>1, <1>2, <2>1
<1>4. QED
  BY <1>1, <1>3 DEF Child

\* Beyond the last separator it is the last child.
LEMMA ChildBeyond ==
  ASSUME NEW n, NEW k, \A s \in Seps(n) : ~(s >= k)
  PROVE  Child(n, k) = beyond[n]
BY DEF Child

\* Of the separators from a key on there is none or a first one.
LEMMA ChildCases ==
  ASSUME NEW n, IsFiniteSet(Seps(n)), NEW k
  PROVE  \/ \A s \in Seps(n) : ~(s >= k)
         \/ \E q \in Seps(n) : q >= k /\ \A s \in Seps(n) : s >= k => q <= s
<1> DEFINE notBelow == {s \in Seps(n) : s >= k}
<1>1. IsFiniteSet(notBelow) /\ \A s \in notBelow : s \in Nat
  BY FS_Subset, KeysAreNumbers
<1>2. notBelow # {} => Least(notBelow) \in notBelow /\ \A s \in notBelow : Least(notBelow) <= s
  BY <1>1, LeastOf
<1>3. QED
  BY <1>2

\* Keys on the same side of every separator go on at the same child.
LEMMA SameSlotSameChild ==
  ASSUME NEW n, NEW j \in Nat, NEW k \in Nat, SameSlot(n, j, k)
  PROVE  Child(n, j) = Child(n, k)
<1>1. \A s \in Seps(n) : s >= j <=> s >= k
  BY KeysAreNumbers DEF SameSlot
<1>2. {s \in Seps(n) : s >= j} = {s \in Seps(n) : s >= k}
  BY <1>1
<1>3. QED
  BY <1>2 DEF Child

-------------------------------------------------------------------------------
\* A node is being linked by one thread at most, the one that holds it.
LEMMA LinkingHeld ==
  ASSUME LockInv, SafeInv, NEW s \in Threads, pc[s] = "link"
  PROVE  /\ node[s] \in Nodes /\ node[s] \in Holds(s) /\ kind[node[s]] # "free"
         /\ sibling[s] \in Nodes /\ kind[sibling[s]] # "free"
         /\ sep[s] \in Keys /\ sep[s] \in Nat
         /\ parent[s] # None => parent[s] \in Nodes /\ parent[s] \in Holds(s)
                                /\ kind[parent[s]] = "inner" /\ parent[s] # node[s]
         /\ inserting(s)
<1>1. Where(s) /\ TypeOK /\ CallOK(s)
  BY ThreadParts
<1>2. QED
  BY <1>1, KeysAssumption
     DEF Where, Allocated, NodeSeen, NodeHeld, ParentHeld, Holds, LockInv, Apart, CallOK,
         InsertLabels

\* A node held by one thread is held by no other.
LEMMA HeldByOne ==
  ASSUME LockInv, NEW s \in Threads, NEW t \in Threads \ {s}, NEW n \in Holds(s)
  PROVE  n \notin Holds(t)
BY DEF LockInv, LockDiscipline

\* Of the two halves of a split, by the separator.
LEMMA RightwardsOf ==
  ASSUME LockInv, SafeInv, NEW t \in Threads, pc[t] = "link", NEW k
  PROVE  Rightwards(node[t], k) = IF k > sep[t] THEN sibling[t] ELSE node[t]
<1>1. \A s \in Threads : pc[s] = "link" /\ node[s] = node[t] => s = t
  BY LinkingHeld, HeldByOne
<1>2. Linking(node[t], k) = IF k > sep[t] THEN {t} ELSE {}
  BY <1>1 DEF Linking
<1>3. CASE k > sep[t]
  <2>1. Linking(node[t], k) = {t}
    BY <1>2, <1>3
  <2>2. (CHOOSE s \in {t} : TRUE) = t
    OBVIOUS
  <2>3. QED
    BY <1>3, <2>1, <2>2 DEF Rightwards
<1>4. CASE ~(k > sep[t])
  BY <1>2, <1>4 DEF Rightwards
<1>5. QED
  BY <1>3, <1>4

\* A node that is not being linked is not left again.
LEMMA RightwardsSelf ==
  ASSUME NEW n, \A s \in Threads : pc[s] = "link" => node[s] # n, NEW k
  PROVE  Rightwards(n, k) = n
<1>1. Linking(n, k) = {}
  BY DEF Linking
<1>2. QED
  BY <1>1 DEF Rightwards

\* A step that changes no node being linked, and by whom.
LinkersStay ==
  \A s \in Threads :
    /\ pc'[s] = "link" <=> pc[s] = "link"
    /\ pc[s] = "link" => node'[s] = node[s] /\ sibling'[s] = sibling[s] /\ sep'[s] = sep[s]

\* Such a step leaves every step to the sibling as it is.
LEMMA RightwardsStays ==
  ASSUME LinkersStay, NEW n, NEW k
  PROVE  Rightwards(n, k)' = Rightwards(n, k)
<1>1. \A s \in Threads : pc'[s] = "link" /\ node'[s] = n /\ k > sep'[s]
                         <=> pc[s] = "link" /\ node[s] = n /\ k > sep[s]
  BY DEF LinkersStay
<1>2. Linking(n, k)' = Linking(n, k)
  BY <1>1 DEF Linking
<1>3. Linking(n, k) # {} => (CHOOSE s \in Linking(n, k) : TRUE) \in Linking(n, k)
  OBVIOUS
<1>4. \A s \in Linking(n, k) : sibling'[s] = sibling[s]
  BY DEF Linking, LinkersStay
<1>5. QED
  BY <1>2, <1>3, <1>4 DEF Rightwards

-------------------------------------------------------------------------------
\* Steps that write no node leave the layout as it is.
LEMMA LayoutStays ==
  ASSUME UNCHANGED tree, LinkersStay, NEW cov, NEW lev, Layout(cov, lev)
  PROVE  Layout(cov, lev)'
<1>1. /\ root' = root /\ kind' = kind
      /\ \A n : EntryKeys(n)' = EntryKeys(n) /\ Seps(n)' = Seps(n)
      /\ \A n, k : Child(n, k)' = Child(n, k)
      /\ Inner' = Inner
  BY DEF tree, EntryKeys, Seps, Child, Inner
<1>2. \A n, k : Rightwards(n, k)' = Rightwards(n, k)
  BY RightwardsStays
<1>3. \A n, k : Rightwards(Child(n, k), k)' = Rightwards(Child(n, k), k)
  <2>1. \A n, k : \A c : Child(n, k) = c =>
          Rightwards(Child(n, k), k)' = Rightwards(c, k)'
    BY <1>1
  <2>2. QED
    BY <1>2, <2>1
<1>4. \A k : Rightwards(root, k)' = Rightwards(root, k)
  BY <1>1, <1>2
<1>5. RootOK(cov, lev)'
  BY <1>1, <1>4 DEF Layout, RootOK, Allocated
<1>6. ASSUME NEW n \in Nodes
      PROVE  /\ kind'[n] = "inner" => InnerOK(n, cov, lev)'
             /\ kind'[n] = "leaf" => LeafOK(n, cov, lev)'
  <2>1. kind'[n] = "inner" => InnerOK(n, cov, lev)'
    BY <1>1, <1>3 DEF Layout, InnerOK, SameSlot, Allocated
  <2>2. kind'[n] = "leaf" => LeafOK(n, cov, lev)'
    BY <1>1 DEF Layout, LeafOK
  <2>3. QED
    BY <2>1, <2>2
<1>7. Disjoint(cov, lev)' /\ Convex(cov)' /\ IsFiniteSet(Inner)'
  BY <1>1 DEF Layout, Disjoint, Convex
<1>8. QED
  BY <1>5, <1>6, <1>7 DEF Layout

\* What a thread reaches by a step that writes no node others could reach before.
WithNode == NodeSeen \cup {"checkInner"}
SeenBefore(t) ==
  /\ pc'[t] \in WithNode =>
       \/ pc[t] \in WithNode /\ node'[t] = node[t]
       \/ node'[t] = root \/ node'[t] = Torn
       \/ pc[t] = "child" /\ node'[t] = Child(parent[t], from[t])
  /\ \/ parent'[t] = parent[t] \/ parent'[t] = None
     \/ pc[t] = "checkParent" /\ parent'[t] = node[t]

Quiet(t) ==
  /\ UNCHANGED <<tree, sibling, sep>>
  /\ pc[t] # "link" /\ pc'[t] # "link"
  /\ Elsewhere(t) /\ WordsGrow
  /\ SeenBefore(t)

\* A quiet step does not lead anyone to a new half.
LEMMA QuietUnseen ==
  ASSUME LockInv, SafeInv, \A r \in Threads : Unseen(r), NEW t \in Threads, Quiet(t)
  PROVE  \A s \in Threads : Unseen(s)'
<1> SUFFICES ASSUME NEW s \in Threads, pc'[s] = "link" PROVE Unseen(s)'
  BY DEF Unseen
<1>1. s # t /\ pc[s] = "link" /\ sibling'[s] = sibling[s]
  BY DEF Quiet, Elsewhere
<1>2. sibling[s] \in Nodes /\ sibling[s] # None /\ sibling[s] # Torn
  BY <1>1, LinkingHeld, NodesAssumption
<1>3. /\ sibling[s] # root
      /\ \A p \in Nodes, k \in Nat : kind[p] = "inner" => Child(p, k) # sibling[s]
      /\ \A r \in Threads :
           /\ pc[r] \in WithNode => node[r] # sibling[s]
           /\ parent[r] # sibling[s]
           /\ r # s /\ pc[r] = "link" => sibling[r] # sibling[s]
  BY <1>1 DEF Unseen, WithNode
<1>4. root' = root /\ kind' = kind /\ \A p, k : Child(p, k)' = Child(p, k)
  BY DEF Quiet, tree, Child, Seps
<1>5. \A r \in Threads \ {t} :
           /\ pc'[r] \in WithNode => node'[r] # sibling[s]
           /\ parent'[r] # sibling[s]
           /\ r # s /\ pc'[r] = "link" => sibling'[r] # sibling[s]
  BY <1>3 DEF Quiet, Elsewhere
<1>6. pc[t] = "child" => Child(parent[t], from[t]) # sibling[s]
  BY <1>3, ThreadParts DEF Where, Allocated, TypeOK
<1>7. pc[t] = "checkParent" => node[t] # sibling[s]
  BY <1>3 DEF WithNode, NodeSeen, NodeRead
<1>8. /\ pc'[t] \in WithNode => node'[t] # sibling[s]
      /\ parent'[t] # sibling[s]
      /\ pc'[t] # "link"
  BY <1>2, <1>3, <1>6, <1>7 DEF Quiet, SeenBefore
<1>9. QED
  BY <1>1, <1>3, <1>4, <1>5, <1>8 DEF Unseen, WithNode

-------------------------------------------------------------------------------
(***************************************************************************)
(* What a step of t does to what the others know: it changes no node that  *)
(* t does not hold, and no range of such a node.                           *)
(***************************************************************************)
Spares(t, cov, lev, cov2, lev2) ==
  /\ Elsewhere(t) /\ WordsGrow
  /\ root' = root \/ root \in Holds(t)
  /\ \A n \in Nodes : kind[n] # "free" =>
       /\ kind'[n] = kind[n] /\ lev2[n] = lev[n]
       /\ n \notin Holds(t) =>
            /\ ents'[n] = ents[n] /\ below'[n] = below[n] /\ beyond'[n] = beyond[n]
            /\ cov2[n] = cov[n]

\* Another thread that has its node as it was, or holds it, finds it as it was
\* after the step.
LEMMA CurrentNodeStays ==
  ASSUME LockInv, SafeInv, SafeInv', NEW t \in Threads, NEW s \in Threads \ {t},
         Elsewhere(t), WordsGrow, pc[s] \in NodeRead \cup NodeHeld, NodeCurrent(s)'
  PROVE  /\ NodeCurrent(s) /\ node[s] \in Nodes /\ kind[node[s]] # "free"
         /\ node[s] \notin Holds(t)
<1> USE ThreadParts
<1>1. node[s] \in Nodes /\ kind[node[s]] # "free"
  BY DEF Where, Allocated, NodeSeen
<1>2. CASE pc[s] \in NodeHeld
  BY <1>1, <1>2 DEF NodeCurrent, Holds, LockInv, LockDiscipline
<1>3. CASE pc[s] \notin NodeHeld
  <2>1. word'[node[s]] = versionNode[s]
    BY <1>3 DEF NodeCurrent, Elsewhere
  <2>2. /\ versionNode[s] \in Nat /\ Readable(versionNode[s])
        /\ versionNode[s] <= word[node[s]] /\ word' \in [Nodes -> Nat]
    BY <1>3 DEF TypeOK, LockInv, Remembered, Versions, SafeInv
  <2>3. QED
    BY <1>1, <1>3, <2>1, <2>2, RememberedNodeStays DEF NodeCurrent
<1>4. QED
  BY <1>2, <1>3

\* The same of its parent.
LEMMA CurrentParentStays ==
  ASSUME LockInv, SafeInv, SafeInv', NEW t \in Threads, NEW s \in Threads \ {t},
         Elsewhere(t), WordsGrow, parent[s] # None, ParentCurrent(s)'
  PROVE  /\ ParentCurrent(s) /\ parent[s] \in Nodes /\ kind[parent[s]] # "free"
         /\ parent[s] \notin Holds(t)
<1> USE ThreadParts
<1>1. parent[s] \in Nodes /\ kind[parent[s]] # "free"
  BY DEF Where, Allocated
<1>2. CASE pc[s] \in ParentHeld
  BY <1>1, <1>2 DEF ParentCurrent, Holds, LockInv, LockDiscipline
<1>3. CASE pc[s] \notin ParentHeld
  <2>1. word'[parent[s]] = versionParent[s]
    BY <1>3 DEF ParentCurrent, Elsewhere
  <2>2. /\ versionParent[s] \in Nat /\ Readable(versionParent[s])
        /\ versionParent[s] <= word[parent[s]] /\ word' \in [Nodes -> Nat]
    BY DEF TypeOK, LockInv, Remembered, Versions, SafeInv
  <2>3. QED
    BY <1>1, <1>3, <2>1, <2>2, RememberedNodeStays DEF ParentCurrent
<1>4. QED
  BY <1>2, <1>3

\* What the other threads know survives a step that spares what they rely on.
LEMMA OthersKnow ==
  ASSUME LockInv, SafeInv, SafeInv', NEW t \in Threads, NEW s \in Threads \ {t}, Unseen(s),
         NEW cov, NEW lev, NEW cov2, NEW lev2,
         Knows(s, cov, lev), Spares(t, cov, lev, cov2, lev2)
  PROVE  Knows(s, cov2, lev2)'
<1> USE ThreadParts
<1>1. /\ pc'[s] = pc[s] /\ node'[s] = node[s] /\ parent'[s] = parent[s]
      /\ sibling'[s] = sibling[s] /\ sep'[s] = sep[s] /\ from'[s] = from[s]
      /\ Elsewhere(t) /\ WordsGrow
  BY DEF Spares, Elsewhere
<1>2. \A n \in Nodes : kind[n] # "free" /\ n \notin Holds(t) =>
        /\ cov2[n] = cov[n] /\ Seps(n)' = Seps(n)
        /\ \A k : Child(n, k)' = Child(n, k)
  BY ZenonT(30) DEF Spares, Seps, Child
<1>3. KnowsParent(s, cov2)'
  <2>1. parent[s] # None /\ ParentCurrent(s)' =>
          /\ ParentCurrent(s) /\ cov2[parent[s]] = cov[parent[s]]
          /\ Child(parent[s], from[s])' = Child(parent[s], from[s])
    BY <1>1, <1>2, CurrentParentStays
  <2>2. QED
    BY <1>1, <2>1 DEF Knows, KnowsParent
<1>4. KnowsRoot(s)'
  <2> SUFFICES ASSUME pc[s] \in BeyondRootCheck, parent[s] = None, NodeCurrent(s)'
               PROVE  node'[s] = root'
    BY <1>1 DEF KnowsRoot
  <2>1. pc[s] \in NodeRead \cup NodeHeld
    BY DEF BeyondRootCheck, NodeRead, NodeHeld
  <2>2. NodeCurrent(s) /\ node[s] \notin Holds(t)
    BY <1>1, <2>1, CurrentNodeStays
  <2>3. node[s] = root
    BY <2>2 DEF Knows, KnowsRoot
  <2>4. QED
    BY <1>1, <2>2, <2>3 DEF Spares
<1>5. KnowsLeaf(s, cov2)'
  <2> SUFFICES ASSUME pc[s] = "put" \/ (pc[s] = "readCheckNode" /\ NodeCurrent(s)')
               PROVE  from'[s] \in cov2[node'[s]]
    BY <1>1 DEF KnowsLeaf
  <2>1. pc[s] \in NodeRead \cup NodeHeld /\ NodeCurrent(s)'
    BY <1>1 DEF NodeRead, NodeHeld, NodeCurrent
  <2>2. NodeCurrent(s) /\ cov2[node[s]] = cov[node[s]]
    BY <1>1, <1>2, <2>1, CurrentNodeStays
  <2>3. QED
    BY <1>1, <2>2 DEF Knows, KnowsLeaf
<1>6. KnowsHalves(s, cov2, lev2)'
  <2> SUFFICES ASSUME pc[s] = "link" PROVE KnowsHalves(s, cov2, lev2)'
    BY <1>1 DEF KnowsHalves
  <2>1. PICK n, new, p, q : n = node[s] /\ new = sibling[s] /\ p = parent[s] /\ q = sep[s]
    OBVIOUS
  <2>2. /\ n \in Nodes /\ kind[n] # "free" /\ n \notin Holds(t)
        /\ new \in Nodes /\ kind[new] # "free"
        /\ p # None => p \in Nodes /\ kind[p] # "free" /\ p \notin Holds(t)
    BY <2>1, LinkingHeld, HeldByOne
  <2>3. new \notin Holds(t)
    <3>1. (pc[t] \in NodeSeen \cup {"checkInner"} => node[t] # new) /\ parent[t] # new
      BY <2>1 DEF Unseen
    <3>2. QED
      BY <3>1 DEF Holds, NodeSeen
  <2>4. /\ cov2[n] = cov[n] /\ cov2[new] = cov[new] /\ lev2[n] = lev[n] /\ lev2[new] = lev[new]
        /\ root = n => root' = root
    BY <1>2, <2>2, <2>3 DEF Spares
  <2>5. p # None => /\ cov2[p] = cov[p] /\ lev2[p] = lev[p] /\ Seps(p)' = Seps(p)
                    /\ Child(p, q)' = Child(p, q)
    BY <1>2, <2>2 DEF Spares
  <2>6. \A j : p # None /\ SameSlot(p, j, q) => SameSlot(p, j, q)'
    BY <2>5 DEF SameSlot
  <2>7. /\ n # new /\ lev[n] = lev[new]
        /\ q \in cov[n] /\ \E j \in Nat : j \in cov[new]
        /\ \A j \in cov[n] : j <= q
        /\ \A j \in cov[new] : j > q
        /\ p = None => root = n /\ \A j \in Nat : j \in cov[n] \/ j \in cov[new]
        /\ p # None => /\ lev[p] = lev[n] + 1 /\ Child(p, q) = n
                       /\ \A j \in Nat : j \in cov[n] \/ j \in cov[new] =>
                            j \in cov[p] /\ SameSlot(p, j, q)
    BY <2>1 DEF Knows, KnowsHalves
  <2>8. /\ n # new /\ lev2[n] = lev2[new]
        /\ q \in cov2[n] /\ \E j \in Nat : j \in cov2[new]
        /\ \A j \in cov2[n] : j <= q
        /\ \A j \in cov2[new] : j > q
        /\ p = None => root' = n /\ \A j \in Nat : j \in cov2[n] \/ j \in cov2[new]
    BY <2>4, <2>7
  <2>9. p # None => /\ lev2[p] = lev2[n] + 1 /\ Child(p, q)' = n
                    /\ \A j \in Nat : j \in cov2[n] \/ j \in cov2[new] =>
                         j \in cov2[p] /\ SameSlot(p, j, q)'
    BY <2>4, <2>5, <2>6, <2>7
  <2>10. n = node'[s] /\ new = sibling'[s] /\ p = parent'[s] /\ q = sep'[s]
    BY <1>1, <2>1
  <2>11. QED
    BY <2>8, <2>9, <2>10 DEF KnowsHalves
<1>7. QED
  BY <1>3, <1>4, <1>5, <1>6 DEF Knows

\* So a step that writes no node need only be followed up for its thread.
LEMMA QuietSearch ==
  ASSUME LockInv, SafeInv, SafeInv', SearchInv, NEW t \in Threads, Quiet(t),
         \A cov, lev : Layout(cov, lev) /\ Knows(t, cov, lev) => Knows(t, cov, lev)'
  PROVE  SearchInv'
<1>1. \A s \in Threads : Unseen(s)'
  BY QuietUnseen DEF SearchInv
<1>2. PICK cov, lev : Layout(cov, lev) /\ \A s \in Threads : Knows(s, cov, lev)
  BY DEF SearchInv
<1>3. LinkersStay
  BY DEF Quiet, Elsewhere, LinkersStay
<1>4. Layout(cov, lev)'
  BY <1>2, <1>3, LayoutStays DEF Quiet
<1>5. Spares(t, cov, lev, cov, lev)
  BY DEF Quiet, Spares, tree
<1>6. \A s \in Threads \ {t} : Knows(s, cov, lev)'
  BY <1>2, <1>5, OthersKnow DEF SearchInv
<1>7. QED
  BY <1>1, <1>2, <1>4, <1>6 DEF SearchInv

-------------------------------------------------------------------------------
\* A node that is as a thread remembers it, or that the thread holds and is not
\* linking, is not being linked by any thread.
LEMMA NotLinked ==
  ASSUME LockInv, SafeInv, NEW t \in Threads, pc[t] # "link",
         pc[t] \in NodeRead \cup NodeHeld, NodeCurrent(t)
  PROVE  /\ node[t] \in Nodes
         /\ \A s \in Threads : pc[s] = "link" => node[s] # node[t]
<1> USE ThreadParts
<1>1. node[t] \in Nodes
  BY DEF Where, Allocated, NodeSeen
<1>2. CASE pc[t] \in NodeHeld
  <2>1. node[t] \in Holds(t)
    BY <1>1, <1>2 DEF Holds
  <2>2. QED
    BY <1>1, <2>1, LinkingHeld, HeldByOne
<1>3. CASE pc[t] \notin NodeHeld
  <2>1. Readable(word[node[t]])
    BY <1>3 DEF NodeCurrent, LockInv, Remembered
  <2>2. \A s \in Threads : node[t] \notin Holds(s)
    BY <1>1, <2>1 DEF LockInv, LockDiscipline, Readable
  <2>3. QED
    BY <1>1, <2>2, LinkingHeld
<1>4. QED
  BY <1>2, <1>3

\* The node covers the key while neither it nor its parent has changed.
LEMMA NodeCovers ==
  ASSUME LockInv, SafeInv, NEW t \in Threads,
         NEW cov, NEW lev, Layout(cov, lev), Knows(t, cov, lev),
         pc[t] \in NodeRead \cup NodeHeld, NodeCurrent(t),
         pc[t] \notin {"link", "unlockNode"},
         \/ parent[t] = None /\ node[t] = root
         \/ parent[t] # None /\ ParentCurrent(t)
  PROVE  from[t] \in cov[node[t]]
<1>1. /\ node[t] \in Nodes /\ \A k : Rightwards(node[t], k) = node[t]
      /\ from[t] \in Nat
  BY NotLinked, RightwardsSelf, ThreadParts DEF TypeOK
<1>2. CASE parent[t] = None /\ node[t] = root
  BY <1>1, <1>2 DEF Layout, RootOK
<1>3. CASE parent[t] # None /\ ParentCurrent(t)
  <2>1. /\ from[t] \in cov[parent[t]] /\ Child(parent[t], from[t]) = node[t]
    BY <1>3 DEF Knows, KnowsParent, NodeRead, NodeHeld
  <2>2. parent[t] \in Nodes /\ kind[parent[t]] = "inner"
    BY <1>3, ThreadParts DEF Where, Allocated
  <2>3. InnerOK(parent[t], cov, lev)
    BY <2>2 DEF Layout
  <2>4. from[t] \in cov[Rightwards(Child(parent[t], from[t]), from[t])]
    BY <2>1, <2>3 DEF InnerOK
  <2>5. QED
    BY <1>1, <2>1, <2>4
<1>4. QED
  BY <1>2, <1>3

\* What a thread is to know after a step that writes no node.
LEMMA KnowsAfter ==
  ASSUME NEW t \in Threads, NEW cov, NEW lev, UNCHANGED tree, pc'[t] # "link",
         NEW n, NEW p, NEW k, n = node'[t], p = parent'[t], k = from'[t],
         p # None /\ ParentCurrent(t)' /\ pc'[t] \notin {"unlockNode", "unlockParent"} =>
           k \in cov[p] /\ (pc'[t] # "child" => Child(p, k) = n),
         pc'[t] = "leafCheckParent" => p # None,
         pc'[t] \in AtRoot => p = None,
         pc'[t] \in BeyondRootCheck /\ p = None /\ NodeCurrent(t)' => n = root,
         pc'[t] = "put" \/ (pc'[t] = "readCheckNode" /\ NodeCurrent(t)') => k \in cov[n]
  PROVE  Knows(t, cov, lev)'
<1>1. root' = root /\ Child(p, k)' = Child(p, k)
  BY DEF tree, Child, Seps
<1>2. KnowsParent(t, cov)'
  BY <1>1 DEF KnowsParent
<1>3. KnowsRoot(t)' /\ KnowsLeaf(t, cov)' /\ KnowsHalves(t, cov, lev)'
  BY <1>1 DEF KnowsRoot, KnowsLeaf, KnowsHalves
<1>4. QED
  BY <1>2, <1>3 DEF Knows

\* Locals that other threads see stay when only t reads.
LocalStep(t) ==
  /\ UNCHANGED <<tree, sibling, sep>>
  /\ pc[t] # "link" /\ pc'[t] # "link"
  /\ SearchElsewhere(t) /\ WordsGrow
  /\ \A s \in Threads \ {t} : call'[s] = call[s] /\ batch'[s] = batch[s] /\ from'[s] = from[s]

\* A local step that sees nothing new is quiet.
LEMMA LocalStepQuiet ==
  ASSUME NEW t \in Threads, LocalStep(t), SeenBefore(t)
  PROVE  Quiet(t)
BY DEF LocalStep, Quiet, SearchElsewhere, Elsewhere

\* A thread that has no node and no parent any more knows nothing.
LEMMA ForgetSearch ==
  ASSUME LockInv, SafeInv, SafeInv', SearchInv, NEW t \in Threads, LocalStep(t),
         pc'[t] \in {"root", "idle"}, parent'[t] = None
  PROVE  SearchInv'
<1>1. pc'[t] \notin WithNode /\ pc'[t] \notin BeyondRootCheck
  BY DEF WithNode, NodeSeen, NodeRead, NodeHeld, BeyondRootCheck
<1>2. Quiet(t)
  BY <1>1, LocalStepQuiet DEF SeenBefore
<1>3. ASSUME NEW cov, NEW lev PROVE Knows(t, cov, lev)'
  <2>1. PICK n, k : n = node'[t] /\ k = from'[t]
    OBVIOUS
  <2>2. QED
    BY <1>1, <2>1, KnowsAfter DEF LocalStep
<1>4. QED
  BY <1>2, <1>3, QuietSearch

\* Restarting gives up all that was known.
LEMMA RestartSearch ==
  ASSUME LockInv, SafeInv, SafeInv', SearchInv, NEW t \in Threads, Restart(t),
         pc[t] # "link", UNCHANGED <<tree, sibling, sep, call>>, WordsGrow,
         \A s \in Threads \ {t} : batch'[s] = batch[s] /\ from'[s] = from[s]
  PROVE  SearchInv'
<1>1. /\ SearchElsewhere(t) /\ pc'[t] = "root" /\ parent'[t] = None
  BY ThreadParts, RestartFresh
<1>2. LocalStep(t)
  BY <1>1 DEF LocalStep
<1>3. QED
  BY <1>1, <1>2, ForgetSearch

\* Words that do not change do not decrease.
LEMMA SameWords ==
  ASSUME SafeInv, UNCHANGED word
  PROVE  WordsGrow
BY DEF SafeInv, TypeOK, WordsGrow

\* Returning gives up all that was known too.
LEMMA LeaveSearch ==
  ASSUME LockInv, SafeInv, SafeInv', SearchInv, NEW t \in Threads, Leave(t), pc[t] # "link",
         UNCHANGED <<tree, sibling, sep, batch>>, WordsGrow
  PROVE  SearchInv'
<1>1. TypeOK
  BY DEF SafeInv
<1>2. LocalStep(t) /\ pc'[t] = "idle" /\ parent'[t] = None
  BY <1>1 DEF Leave, Goto, LocalStep, SearchElsewhere, TypeOK
<1>3. QED
  BY <1>2, ForgetSearch

(***************************************************************************)
(* A step that leaves node and parent as they are.  What the thread knows  *)
(* after it as long as they are unchanged it knew before.                  *)
(***************************************************************************)
LEMMA SameSearch ==
  ASSUME LockInv, SafeInv, SafeInv', SearchInv, NEW t \in Threads, NEW label,
         LocalStep(t), UNCHANGED search, pc'[t] = label, from'[t] = from[t],
         pc[t] \in NodeRead \cup NodeHeld \cup {"checkInner"},
         pc[t] \notin {"unlockNode", "unlockParent"} \/ label = "unlockParent",
         label \in ParentHeld /\ label # "unlockParent" => parent[t] = None \/ ParentCurrent(t),
         label \in BeyondRootCheck /\ parent[t] = None =>
           \/ node[t] = root
           \/ pc[t] \in BeyondRootCheck /\ NodeCurrent(t)
           \/ pc[t] \in BeyondRootCheck \cap NodeRead /\ label \notin NodeHeld,
         label = "leafCheckParent" => parent[t] # None,
         label \notin AtRoot,
         label = "put" \/ (label = "readCheckNode" /\ NodeCurrent(t)') =>
           \A cov, lev : Layout(cov, lev) /\ Knows(t, cov, lev) => from[t] \in cov[node[t]]
  PROVE  SearchInv'
<1> USE ThreadParts
<1>1. /\ node'[t] = node[t] /\ parent'[t] = parent[t]
      /\ versionNode'[t] = versionNode[t] /\ versionParent'[t] = versionParent[t]
      /\ WordsGrow
  BY DEF search, LocalStep
<1>2. Quiet(t)
  <2>1. pc[t] \in WithNode
    BY DEF WithNode, NodeSeen
  <2>2. QED
    BY <1>1, <2>1, LocalStepQuiet DEF SeenBefore
<1>3. parent[t] # None /\ ParentCurrent(t)' /\ label \notin {"unlockNode", "unlockParent"} =>
        ParentCurrent(t)
  <2> SUFFICES ASSUME parent[t] # None, word'[parent[t]] = versionParent[t], label \notin ParentHeld
               PROVE  ParentCurrent(t)
    BY <1>1 DEF ParentCurrent
  <2>1. /\ parent[t] \in Nodes /\ versionParent[t] \in Nat /\ versionParent[t] <= word[parent[t]]
        /\ word \in [Nodes -> Nat] /\ word' \in [Nodes -> Nat]
    BY DEF Where, Allocated, Versions, TypeOK, SafeInv
  <2>2. QED
    BY <1>1, <2>1 DEF WordsGrow, ParentCurrent
<1>4. pc[t] \in NodeRead /\ label \notin NodeHeld /\ NodeCurrent(t)' => NodeCurrent(t)
  <2> SUFFICES ASSUME pc[t] \in NodeRead, word'[node[t]] = versionNode[t]
               PROVE  NodeCurrent(t)
    BY <1>1 DEF NodeCurrent
  <2>1. /\ node[t] \in Nodes /\ versionNode[t] \in Nat /\ versionNode[t] <= word[node[t]]
        /\ word \in [Nodes -> Nat] /\ word' \in [Nodes -> Nat]
    BY DEF Where, Allocated, Versions, TypeOK, SafeInv, NodeSeen
  <2>2. QED
    BY <1>1, <2>1 DEF WordsGrow, NodeCurrent
<1>5. ASSUME NEW cov, NEW lev, Layout(cov, lev), Knows(t, cov, lev)
      PROVE  Knows(t, cov, lev)'
  <2>1. PICK n, p, k : n = node[t] /\ p = parent[t] /\ k = from[t]
    OBVIOUS
  <2>2. p # None /\ ParentCurrent(t)' /\ label \notin {"unlockNode", "unlockParent"} =>
          k \in cov[p] /\ Child(p, k) = n
    BY <1>3, <1>5, <2>1 DEF Knows, KnowsParent, NodeRead, NodeHeld, LocalStep
  <2>3. label \in BeyondRootCheck /\ p = None /\ NodeCurrent(t)' => n = root
    BY <1>4, <1>5, <2>1 DEF Knows, KnowsRoot
  <2>4. label = "put" \/ (label = "readCheckNode" /\ NodeCurrent(t)') => k \in cov[n]
    BY <1>5, <2>1
  <2>5. label = "leafCheckParent" => p # None
    BY <2>1
  <2>6. QED
    BY <1>1, <2>1, <2>2, <2>3, <2>4, <2>5, KnowsAfter DEF LocalStep
<1>6. QED
  BY <1>2, <1>5, QuietSearch

-------------------------------------------------------------------------------
\* The way down.
LEMMA ReadRootSearch ==
  ASSUME LockInv, SafeInv, SafeInv', SearchInv, NEW t \in Threads, ReadRoot(t)
  PROVE  SearchInv'
<1> USE ThreadParts
<1>1. /\ pc[t] = "root" /\ pc' = [pc EXCEPT ![t] = "rootLock"]
      /\ node' = [node EXCEPT ![t] = root]
      /\ UNCHANGED <<tree, word, parent, versionNode, versionParent, sibling, sep, result, bound>>
  BY DEF ReadRoot, Goto
<1>2. pc'[t] = "rootLock" /\ node'[t] = root /\ parent'[t] = parent[t]
  BY <1>1 DEF TypeOK
<1>3. LocalStep(t)
  BY <1>1, SameWords DEF TypeOK, LocalStep, SearchElsewhere, result, bound
<1>4. Quiet(t)
  BY <1>2, <1>3, LocalStepQuiet DEF SeenBefore
<1>5. ASSUME NEW cov, NEW lev, Layout(cov, lev), Knows(t, cov, lev)
      PROVE  Knows(t, cov, lev)'
  <2>1. parent[t] = None
    BY <1>1, <1>5 DEF Knows, KnowsParent, AtRoot
  <2>2. PICK n, k : n = node'[t] /\ k = from'[t]
    OBVIOUS
  <2>3. QED
    BY <1>2, <1>3, <2>1, <2>2, KnowsAfter DEF LocalStep, BeyondRootCheck
<1>6. QED
  BY <1>4, <1>5, QuietSearch

\* readLockOrRestart, at the root or at a child.
LEMMA ReadLockSearch ==
  ASSUME LockInv, SafeInv, SafeInv', SearchInv, NEW t \in Threads,
         NEW label \in {"rootCheck", "visit"},
         label = "rootCheck" => pc[t] = "rootLock",
         label = "visit" => pc[t] = "childLock",
         ReadLock(t, label), UNCHANGED <<tree, word, sibling, sep, result, bound>>
  PROVE  SearchInv'
<1> USE ThreadParts
<1>1. CASE Restart(t)
  BY <1>1, RestartSearch, SameWords DEF result, bound
<1>2. CASE ~Restart(t)
  <2>1. /\ versionNode' = [versionNode EXCEPT ![t] = word[node[t]]]
        /\ pc' = [pc EXCEPT ![t] = label]
        /\ UNCHANGED <<node, parent, versionParent>>
    BY <1>2 DEF ReadLock, Goto
  <2>2. pc'[t] = label /\ pc[t] \in {"rootLock", "childLock"}
    BY <2>1 DEF TypeOK
  <2>3. LocalStep(t)
    BY <2>1, <2>2, SameWords DEF TypeOK, LocalStep, SearchElsewhere, result, bound
  <2>4. Quiet(t)
    BY <2>1, <2>2, <2>3, LocalStepQuiet DEF SeenBefore, WithNode, NodeSeen
  <2>5. ASSUME NEW cov, NEW lev, Layout(cov, lev), Knows(t, cov, lev)
        PROVE  Knows(t, cov, lev)'
    <3>1. PICK n, p, k : n = node[t] /\ p = parent[t] /\ k = from[t]
      OBVIOUS
    <3>2. n = node'[t] /\ p = parent'[t] /\ k = from'[t]
      BY <2>1, <3>1 DEF result
    <3>3. /\ label = "rootCheck" => p = None
          /\ label = "visit" => p # None
      BY <2>5, <3>1 DEF Knows, KnowsParent, AtRoot, Where
    <3>4. p # None /\ ParentCurrent(t)' => k \in cov[p] /\ Child(p, k) = n
      <4>1. ParentCurrent(t)' => ParentCurrent(t)
        BY <2>1, <2>2 DEF ParentCurrent, ParentHeld
      <4>2. QED
        BY <2>2, <2>5, <3>1, <4>1 DEF Knows, KnowsParent
    <3>5. QED
      BY <2>2, <2>3, <3>2, <3>3, <3>4, KnowsAfter DEF LocalStep, BeyondRootCheck, AtRoot
  <2>6. QED
    BY <2>4, <2>5, QuietSearch
<1>3. QED
  BY <1>1, <1>2

\* The root that was locked is the root still, or the thread starts again.
LEMMA CheckRootSearch ==
  ASSUME LockInv, SafeInv, SafeInv', SearchInv, NEW t \in Threads, CheckRoot(t)
  PROVE  SearchInv'
<1> USE ThreadParts
<1>1. CASE Restart(t)
  BY <1>1, RestartSearch, SameWords DEF CheckRoot, result, bound
<1>2. CASE ~Restart(t)
  <2>1. /\ pc[t] = "rootCheck" /\ pc' = [pc EXCEPT ![t] = "visit"] /\ node[t] = root
        /\ UNCHANGED <<tree, word, search, sibling, sep, result, bound>>
    BY <1>2 DEF CheckRoot, Goto
  <2>2. LocalStep(t) /\ pc'[t] = "visit" /\ from'[t] = from[t]
    BY <2>1, SameWords DEF TypeOK, LocalStep, SearchElsewhere, search, result, bound
  <2>3. QED
    BY <2>1, <2>2, SameSearch DEF NodeRead, ParentHeld, AtRoot
<1>3. QED
  BY <1>1, <1>2

\* Where to go from a node depends on nothing that was not known.
LEMMA VisitSearch ==
  ASSUME LockInv, SafeInv, SafeInv', SearchInv, NEW t \in Threads, Visit(t)
  PROVE  SearchInv'
<1> USE ThreadParts
<1>1. PICK label \in {"lockNode", "lockParent", "checkParent", "leafLock", "read"} :
        /\ pc[t] = "visit" /\ pc' = [pc EXCEPT ![t] = label]
        /\ label = "lockNode" => parent[t] = None
        /\ UNCHANGED <<tree, word, search, sibling, sep, result, bound>>
  BY DEF Visit, Goto
<1>2. LocalStep(t) /\ pc'[t] = label /\ from'[t] = from[t]
  BY <1>1, SameWords DEF TypeOK, LocalStep, SearchElsewhere, search, result, bound
<1>3. QED
  BY <1>1, <1>2, SameSearch DEF NodeRead, NodeHeld, ParentHeld, AtRoot, BeyondRootCheck

\* The node becomes the parent: it covers the key.
LEMMA CheckParentSearch ==
  ASSUME LockInv, SafeInv, SafeInv', SearchInv, NEW t \in Threads, CheckParent(t)
  PROVE  SearchInv'
<1> USE ThreadParts
<1>1. CASE Restart(t)
  BY <1>1, RestartSearch, SameWords DEF CheckParent, result, bound
<1>2. CASE ~Restart(t)
  <2>1. /\ pc[t] = "checkParent" /\ pc' = [pc EXCEPT ![t] = "child"]
        /\ parent[t] = None \/ word[parent[t]] = versionParent[t]
        /\ parent' = [parent EXCEPT ![t] = node[t]]
        /\ versionParent' = [versionParent EXCEPT ![t] = versionNode[t]]
        /\ UNCHANGED <<tree, word, node, versionNode, sibling, sep, result, bound>>
    BY <1>2 DEF CheckParent, Goto
  <2>2. /\ pc'[t] = "child" /\ parent'[t] = node[t] /\ versionParent'[t] = versionNode[t]
        /\ node'[t] = node[t] /\ from'[t] = from[t]
    BY <2>1 DEF TypeOK, result
  <2>3. LocalStep(t)
    BY <2>1, <2>2, SameWords DEF TypeOK, LocalStep, SearchElsewhere, result, bound
  <2>4. Quiet(t)
    BY <2>1, <2>2, <2>3, LocalStepQuiet DEF SeenBefore, WithNode, NodeSeen, NodeRead
  <2>5. ASSUME NEW cov, NEW lev, Layout(cov, lev), Knows(t, cov, lev)
        PROVE  Knows(t, cov, lev)'
    <3>1. PICK n, k : n = node[t] /\ k = from[t]
      OBVIOUS
    <3>2. ParentCurrent(t)' => NodeCurrent(t)
      BY <2>1, <2>2 DEF ParentCurrent, ParentHeld, NodeCurrent
    <3>3. NodeCurrent(t) => k \in cov[n]
      <4>1. NodeCurrent(t) /\ parent[t] = None => node[t] = root
        BY <2>1, <2>5 DEF Knows, KnowsRoot, BeyondRootCheck
      <4>2. parent[t] # None => ParentCurrent(t)
        BY <2>1 DEF ParentCurrent
      <4>3. QED
        BY <2>1, <2>5, <3>1, <4>1, <4>2, NodeCovers DEF NodeRead
    <3>4. QED
      BY <2>2, <2>3, <3>1, <3>2, <3>3, KnowsAfter DEF LocalStep, BeyondRootCheck, AtRoot
  <2>6. QED
    BY <2>4, <2>5, QuietSearch
<1>3. QED
  BY <1>1, <1>2

\* The child read from a parent that has not changed covers the key.
LEMMA ReadChildSearch ==
  ASSUME LockInv, SafeInv, SafeInv', SearchInv, NEW t \in Threads, ReadChild(t)
  PROVE  SearchInv'
<1> USE ThreadParts
<1>1. PICK child : child = IF word[parent[t]] = versionParent[t]
                             THEN Child(parent[t], from[t]) ELSE Torn
  OBVIOUS
<1>2. /\ pc[t] = "child" /\ pc' = [pc EXCEPT ![t] = "checkInner"]
      /\ node' = [node EXCEPT ![t] = child]
      /\ UNCHANGED <<tree, word, parent, versionNode, versionParent, sibling, sep, result, bound>>
  BY <1>1 DEF ReadChild, Goto
<1>3. pc'[t] = "checkInner" /\ node'[t] = child /\ parent'[t] = parent[t] /\ from'[t] = from[t]
  BY <1>2 DEF TypeOK, result
<1>4. LocalStep(t)
  BY <1>2, <1>3, SameWords DEF TypeOK, LocalStep, SearchElsewhere, result, bound
<1>5. Quiet(t)
  BY <1>1, <1>2, <1>3, <1>4, LocalStepQuiet DEF SeenBefore
<1>6. ASSUME NEW cov, NEW lev, Layout(cov, lev), Knows(t, cov, lev)
      PROVE  Knows(t, cov, lev)'
  <2>1. PICK p, k : p = parent[t] /\ k = from[t]
    OBVIOUS
  <2>2. p # None /\ ParentCurrent(t)' => k \in cov[p] /\ Child(p, k) = child
    <3> SUFFICES ASSUME p # None, ParentCurrent(t)' PROVE k \in cov[p] /\ Child(p, k) = child
      OBVIOUS
    <3>1. word[parent[t]] = versionParent[t]
      BY <1>2, <1>3 DEF ParentCurrent, ParentHeld
    <3>2. QED
      BY <1>1, <1>2, <1>6, <2>1, <3>1 DEF Knows, KnowsParent, ParentCurrent
  <2>3. QED
    BY <1>3, <1>4, <2>1, <2>2, KnowsAfter DEF LocalStep, BeyondRootCheck, AtRoot
<1>7. QED
  BY <1>5, <1>6, QuietSearch

\* The check keeps what was read from a node that has not changed.
LEMMA CheckInnerSearch ==
  ASSUME LockInv, SafeInv, SafeInv', SearchInv, NEW t \in Threads, CheckInner(t)
  PROVE  SearchInv'
<1> USE ThreadParts
<1>1. CASE Restart(t)
  BY <1>1, RestartSearch, SameWords DEF CheckInner, result, bound
<1>2. CASE ~Restart(t)
  <2>1. /\ pc[t] = "checkInner" /\ pc' = [pc EXCEPT ![t] = "childLock"]
        /\ UNCHANGED <<tree, word, search, sibling, sep, result, bound>>
    BY <1>2 DEF CheckInner, Validate, Goto
  <2>2. LocalStep(t) /\ pc'[t] = "childLock" /\ from'[t] = from[t]
    BY <2>1, SameWords DEF TypeOK, LocalStep, SearchElsewhere, search, result, bound
  <2>3. QED
    BY <2>1, <2>2, SameSearch DEF ParentHeld, AtRoot, BeyondRootCheck
<1>3. QED
  BY <1>1, <1>2

\* Every step of the way down keeps the search invariant.
LEMMA DescendSearch ==
  ASSUME LockInv, SafeInv, SafeInv', SearchInv, NEW t \in Threads, Descend(t)
  PROVE  SearchInv'
<1>1. CASE LockRoot(t)
  BY <1>1, ReadLockSearch DEF LockRoot
<1>2. CASE LockChild(t)
  BY <1>2, ReadLockSearch DEF LockChild
<1>3. QED
  BY <1>1, <1>2, ReadRootSearch, CheckRootSearch, VisitSearch, CheckParentSearch,
     ReadChildSearch, CheckInnerSearch DEF Descend

-------------------------------------------------------------------------------
\* Taking locks and giving them back.
LEMMA LocksGrow ==
  ASSUME SafeInv, NEW n, setLock(n) \/ writeUnlock(n)
  PROVE  WordsGrow
BY WordGrows DEF setLock, writeUnlock, SafeInv, TypeOK

\* Giving a lock back and starting again gives up all that was known.
LEMMA UnlockAndRestartSearch ==
  ASSUME LockInv, SafeInv, SafeInv', SearchInv, NEW t \in Threads, NEW n,
         UnlockAndRestart(t, n), pc[t] # "link",
         UNCHANGED <<tree, sibling, sep, result, bound>>
  PROVE  SearchInv'
BY LocksGrow, RestartSearch DEF UnlockAndRestart, result, bound

\* A parent that is locked as it was remembered is known as before.
LEMMA LockParentSearch ==
  ASSUME LockInv, SafeInv, SafeInv', SearchInv, NEW t \in Threads, LockParent(t)
  PROVE  SearchInv'
<1> USE ThreadParts
<1>1. CASE word[parent[t]] = versionParent[t]
  <2>1. /\ pc[t] = "lockParent" /\ setLock(parent[t]) /\ pc' = [pc EXCEPT ![t] = "lockNode"]
        /\ UNCHANGED search /\ UNCHANGED <<tree, sibling, sep, result, bound>>
    BY <1>1 DEF LockParent, Upgrade, Goto
  <2>2. LocalStep(t) /\ pc'[t] = "lockNode" /\ from'[t] = from[t]
    BY <2>1, LocksGrow DEF TypeOK, LocalStep, SearchElsewhere, search, result, bound
  <2>3. ParentCurrent(t) /\ parent[t] # None
    BY <1>1, <2>1 DEF ParentCurrent, Where
  <2>4. QED
    BY <2>1, <2>2, <2>3, SameSearch DEF NodeRead, AtRoot
<1>2. CASE word[parent[t]] # versionParent[t]
  <2>1. /\ pc[t] = "lockParent" /\ Restart(t) /\ UNCHANGED word
        /\ UNCHANGED <<tree, sibling, sep, result, bound>>
    BY <1>2 DEF LockParent, Upgrade
  <2>2. QED
    BY <2>1, RestartSearch, SameWords DEF result, bound
<1>3. QED
  BY <1>1, <1>2

\* The same of the node.
LEMMA LockNodeSearch ==
  ASSUME LockInv, SafeInv, SafeInv', SearchInv, NEW t \in Threads, LockNode(t)
  PROVE  SearchInv'
<1> USE ThreadParts
<1>1. pc[t] = "lockNode" /\ UNCHANGED <<tree, sibling, sep, result, bound>>
  BY DEF LockNode
<1>2. ParentCurrent(t)
  BY <1>1 DEF ParentCurrent, ParentHeld
<1>3. CASE word[node[t]] = versionNode[t]
  <2>1. PICK label \in {"recheckRoot", "split"} : pc' = [pc EXCEPT ![t] = label]
    BY <1>3 DEF LockNode, Upgrade, Goto
  <2>2. setLock(node[t]) /\ UNCHANGED search
    BY <1>3 DEF LockNode, Upgrade
  <2>3. LocalStep(t) /\ pc'[t] = label /\ from'[t] = from[t]
    BY <1>1, <2>1, <2>2, LocksGrow DEF TypeOK, LocalStep, SearchElsewhere, search, result, bound
  <2>4. NodeCurrent(t)
    BY <1>3 DEF NodeCurrent
  <2>5. QED
    BY <1>1, <1>2, <2>2, <2>3, <2>4, SameSearch DEF NodeRead, AtRoot, BeyondRootCheck
<1>4. CASE word[node[t]] # versionNode[t] /\ parent[t] = None
  <2>1. Restart(t) /\ UNCHANGED word
    BY <1>4 DEF LockNode, Upgrade
  <2>2. QED
    BY <1>1, <2>1, RestartSearch, SameWords DEF result, bound
<1>5. CASE word[node[t]] # versionNode[t] /\ parent[t] # None
  <2>1. pc' = [pc EXCEPT ![t] = "giveBackParent"] /\ UNCHANGED search /\ UNCHANGED word
    BY <1>5 DEF LockNode, Upgrade, Goto
  <2>2. LocalStep(t) /\ pc'[t] = "giveBackParent" /\ from'[t] = from[t]
    BY <1>1, <2>1, SameWords DEF TypeOK, LocalStep, SearchElsewhere, search, result, bound
  <2>3. QED
    BY <1>1, <1>2, <2>1, <2>2, SameSearch DEF NodeRead, AtRoot, BeyondRootCheck
<1>6. QED
  BY <1>3, <1>4, <1>5

\* A node without a parent that is locked is split only if it is the root.
LEMMA RecheckRootSearch ==
  ASSUME LockInv, SafeInv, SafeInv', SearchInv, NEW t \in Threads, RecheckRoot(t)
  PROVE  SearchInv'
<1> USE ThreadParts
<1>1. PICK label \in {"split", "giveBackNode"} :
        /\ pc[t] = "recheckRoot" /\ pc' = [pc EXCEPT ![t] = label]
        /\ UNCHANGED <<tree, word, search, sibling, sep, result, bound>>
  BY DEF RecheckRoot, Goto
<1>2. LocalStep(t) /\ pc'[t] = label /\ from'[t] = from[t]
  BY <1>1, SameWords DEF TypeOK, LocalStep, SearchElsewhere, search, result, bound
<1>3. NodeCurrent(t) /\ parent[t] = None
  BY <1>1 DEF NodeCurrent, NodeHeld, LockInv, Apart
<1>4. QED
  BY <1>1, <1>2, <1>3, SameSearch DEF NodeHeld, AtRoot, BeyondRootCheck

\* After the link nothing is claimed of the halves any more.
LEMMA UnlockNodeSearch ==
  ASSUME LockInv, SafeInv, SafeInv', SearchInv, NEW t \in Threads, UnlockNode(t)
  PROVE  SearchInv'
<1> USE ThreadParts
<1>1. /\ pc[t] = "unlockNode" /\ writeUnlock(node[t])
      /\ UNCHANGED <<tree, sibling, sep, result, bound>>
  BY DEF UnlockNode
<1>2. CASE parent[t] = None
  BY <1>1, <1>2, UnlockAndRestartSearch DEF UnlockNode, UnlockAndRestart
<1>3. CASE parent[t] # None
  <2>1. pc' = [pc EXCEPT ![t] = "unlockParent"] /\ UNCHANGED search
    BY <1>3 DEF UnlockNode, Goto
  <2>2. LocalStep(t) /\ pc'[t] = "unlockParent" /\ from'[t] = from[t]
    BY <1>1, <2>1, LocksGrow DEF TypeOK, LocalStep, SearchElsewhere, search, result, bound
  <2>3. QED
    BY <1>1, <2>1, <2>2, SameSearch DEF NodeHeld, AtRoot, BeyondRootCheck
<1>4. QED
  BY <1>2, <1>3

\* The leaf that is to be written covers the key: without a parent because it was
\* the root and has not changed, with one because the parent has not.
LEMMA LockLeafSearch ==
  ASSUME LockInv, SafeInv, SafeInv', SearchInv, NEW t \in Threads, LockLeaf(t)
  PROVE  SearchInv'
<1> USE ThreadParts
<1>1. pc[t] = "leafLock" /\ UNCHANGED <<tree, sibling, sep, result, bound>>
  BY DEF LockLeaf
<1>2. CASE word[node[t]] = versionNode[t]
  <2>1. PICK label \in {"put", "leafCheckParent"} :
          /\ pc' = [pc EXCEPT ![t] = label]
          /\ label = "put" <=> parent[t] = None
    BY <1>2 DEF LockLeaf, Upgrade, Goto
  <2>2. setLock(node[t]) /\ UNCHANGED search
    BY <1>2 DEF LockLeaf, Upgrade
  <2>3. LocalStep(t) /\ pc'[t] = label /\ from'[t] = from[t]
    BY <1>1, <2>1, <2>2, LocksGrow DEF TypeOK, LocalStep, SearchElsewhere, search, result, bound
  <2>4. NodeCurrent(t)
    BY <1>2 DEF NodeCurrent
  <2>5. ASSUME NEW cov, NEW lev, Layout(cov, lev), Knows(t, cov, lev), parent[t] = None
        PROVE  from[t] \in cov[node[t]]
    <3>1. node[t] = root
      BY <1>1, <2>4, <2>5 DEF Knows, KnowsRoot, BeyondRootCheck
    <3>2. QED
      BY <1>1, <2>4, <2>5, <3>1, NodeCovers DEF NodeRead
  <2>6. QED
    BY <1>1, <2>1, <2>2, <2>3, <2>4, <2>5, SameSearch
       DEF NodeRead, ParentHeld, AtRoot, BeyondRootCheck
<1>3. CASE word[node[t]] # versionNode[t]
  <2>1. Restart(t) /\ UNCHANGED word
    BY <1>3 DEF LockLeaf, Upgrade
  <2>2. QED
    BY <1>1, <2>1, RestartSearch, SameWords DEF result, bound
<1>4. QED
  BY <1>2, <1>3

\* The parent that is as it was proves that the leaf covers the key.
LEMMA LeafCheckParentSearch ==
  ASSUME LockInv, SafeInv, SafeInv', SearchInv, NEW t \in Threads, LeafCheckParent(t)
  PROVE  SearchInv'
<1> USE ThreadParts
<1>1. PICK label \in {"put", "giveBackNode"} :
        /\ pc[t] = "leafCheckParent" /\ pc' = [pc EXCEPT ![t] = label]
        /\ label = "put" <=> word[parent[t]] = versionParent[t]
        /\ UNCHANGED <<tree, word, search, sibling, sep, result, bound>>
  BY DEF LeafCheckParent, Goto
<1>2. LocalStep(t) /\ pc'[t] = label /\ from'[t] = from[t]
  BY <1>1, SameWords DEF TypeOK, LocalStep, SearchElsewhere, search, result, bound
<1>3. NodeCurrent(t)
  BY <1>1 DEF NodeCurrent, NodeHeld
<1>4. parent[t] # None
  BY <1>1 DEF SearchInv, Knows, KnowsParent
<1>5. ASSUME NEW cov, NEW lev, Layout(cov, lev), Knows(t, cov, lev), label = "put"
      PROVE  from[t] \in cov[node[t]]
  <2>1. ParentCurrent(t)
    BY <1>1, <1>5 DEF ParentCurrent
  <2>2. QED
    BY <1>1, <1>3, <1>4, <1>5, <2>1, NodeCovers DEF NodeHeld
<1>6. QED
  BY <1>1, <1>2, <1>3, <1>4, <1>5, SameSearch
     DEF NodeHeld, ParentHeld, AtRoot, BeyondRootCheck

\* The insert gives the leaf back and returns.
LEMMA UnlockLeafSearch ==
  ASSUME LockInv, SafeInv, SafeInv', SearchInv, NEW t \in Threads, UnlockLeaf(t)
  PROVE  SearchInv'
BY LocksGrow, LeaveSearch DEF UnlockLeaf

-------------------------------------------------------------------------------
\* lookup and scan.
LEMMA ReadLeafSearch ==
  ASSUME LockInv, SafeInv, SafeInv', SearchInv, NEW t \in Threads, ReadLeaf(t)
  PROVE  SearchInv'
<1> USE ThreadParts
<1>1. PICK read :
        /\ pc[t] = "read" /\ pc' = [pc EXCEPT ![t] = "readCheckParent"]
        /\ batch' = [batch EXCEPT ![t] = read]
        /\ UNCHANGED <<tree, word, search, sibling, sep, from, out, bound>>
  BY DEF ReadLeaf, Goto
<1>2. LocalStep(t) /\ pc'[t] = "readCheckParent" /\ from'[t] = from[t]
  BY <1>1, SameWords DEF TypeOK, LocalStep, SearchElsewhere, search, bound
<1>3. QED
  BY <1>1, <1>2, SameSearch DEF NodeRead, NodeHeld, ParentHeld, AtRoot, BeyondRootCheck

\* The leaf that was read covers the key, if it has not changed.
LEMMA ReadCheckParentSearch ==
  ASSUME LockInv, SafeInv, SafeInv', SearchInv, NEW t \in Threads, ReadCheckParent(t)
  PROVE  SearchInv'
<1> USE ThreadParts
<1>1. pc[t] = "readCheckParent" /\ UNCHANGED <<tree, word, sibling, sep, from, out, bound>>
  BY DEF ReadCheckParent
<1>2. CASE Restart(t) /\ batch' = [batch EXCEPT ![t] = <<>>]
  <2>1. \A s \in Threads \ {t} : batch'[s] = batch[s] /\ from'[s] = from[s]
    BY <1>1, <1>2 DEF TypeOK
  <2>2. QED
    BY <1>1, <1>2, <2>1, RestartSearch, SameWords DEF bound
<1>3. CASE ~(Restart(t) /\ batch' = [batch EXCEPT ![t] = <<>>])
  <2>1. /\ pc' = [pc EXCEPT ![t] = "readCheckNode"] /\ UNCHANGED <<search, batch>>
        /\ parent[t] = None \/ word[parent[t]] = versionParent[t]
    BY <1>3 DEF ReadCheckParent, Goto
  <2>2. LocalStep(t) /\ pc'[t] = "readCheckNode" /\ from'[t] = from[t]
    BY <1>1, <2>1, SameWords DEF TypeOK, LocalStep, SearchElsewhere, search, bound
  <2>3. ASSUME NEW cov, NEW lev, Layout(cov, lev), Knows(t, cov, lev), NodeCurrent(t)'
        PROVE  from[t] \in cov[node[t]]
    <3>1. NodeCurrent(t)
      BY <1>1, <2>1, <2>2, <2>3 DEF NodeCurrent, NodeHeld, search
    <3>2. parent[t] = None => node[t] = root
      BY <1>1, <2>3, <3>1 DEF Knows, KnowsRoot, BeyondRootCheck
    <3>3. parent[t] # None => ParentCurrent(t)
      BY <2>1 DEF ParentCurrent
    <3>4. QED
      BY <1>1, <2>3, <3>1, <3>2, <3>3, NodeCovers DEF NodeRead
  <2>4. QED
    BY <1>1, <2>1, <2>2, <2>3, SameSearch
       DEF NodeRead, NodeHeld, ParentHeld, AtRoot, BeyondRootCheck
<1>4. QED
  BY <1>2, <1>3 DEF ReadCheckParent

\* The search starts again at the next key, or the call is over.
LEMMA ReadCheckNodeSearch ==
  ASSUME LockInv, SafeInv, SafeInv', SearchInv, NEW t \in Threads, ReadCheckNode(t)
  PROVE  SearchInv'
<1> USE ThreadParts
<1>1. /\ pc[t] = "readCheckNode" /\ batch' = [batch EXCEPT ![t] = <<>>]
      /\ UNCHANGED <<tree, word, sibling, sep, bound>>
  BY DEF ReadCheckNode
<1>2. \A s \in Threads \ {t} : batch'[s] = batch[s] /\ from'[s] = from[s]
  <2>1. PICK k : from' = from \/ from' = [from EXCEPT ![t] = k]
    BY DEF ReadCheckNode, Accept
  <2>2. QED
    BY <1>1, <2>1 DEF TypeOK
<1>3. CASE Restart(t)
  BY <1>1, <1>2, <1>3, RestartSearch, SameWords DEF bound
<1>4. CASE ~Restart(t)
  <2>1. pc' = [pc EXCEPT ![t] = "return"] /\ UNCHANGED <<search, from>>
    BY <1>4 DEF ReadCheckNode, Accept, Goto
  <2>2. LocalStep(t) /\ pc'[t] = "return" /\ from'[t] = from[t]
    BY <1>1, <1>2, <2>1, SameWords DEF TypeOK, LocalStep, SearchElsewhere, search, bound
  <2>3. QED
    BY <1>1, <2>1, <2>2, SameSearch
       DEF NodeRead, NodeHeld, ParentHeld, AtRoot, BeyondRootCheck
<1>5. QED
  BY <1>3, <1>4

\* The call returns.
LEMMA ReturnSearch ==
  ASSUME LockInv, SafeInv, SafeInv', SearchInv, NEW t \in Threads, Return(t)
  PROVE  SearchInv'
BY SameWords, LeaveSearch DEF Return

\* Every step that reads a leaf keeps the search invariant.
LEMMA ReadOnlySearch ==
  ASSUME LockInv, SafeInv, SafeInv', SearchInv, NEW t \in Threads, ReadOnly(t)
  PROVE  SearchInv'
BY ReadLeafSearch, ReadCheckParentSearch, ReadCheckNodeSearch, ReturnSearch DEF ReadOnly

\* A call starts with nothing known.
LEMMA StartSearch ==
  ASSUME LockInv, SafeInv, SafeInv', SearchInv, NEW t \in Threads, NEW c, Start(t, c)
  PROVE  SearchInv'
<1> USE ThreadParts
<1>1. /\ pc[t] = "idle" /\ pc' = [pc EXCEPT ![t] = "root"]
      /\ call' = [call EXCEPT ![t] = c] /\ from' = [from EXCEPT ![t] = c.key]
      /\ UNCHANGED <<tree, word, search, sibling, sep, batch>>
  BY DEF Start, Goto
<1>2. LocalStep(t)
  BY <1>1, SameWords DEF TypeOK, LocalStep, SearchElsewhere, search
<1>3. pc'[t] = "root" /\ parent'[t] = None
  BY <1>1 DEF TypeOK, Where, search
<1>4. QED
  BY <1>2, <1>3, ForgetSearch

-------------------------------------------------------------------------------
\* The steps that write nodes.
LEMMA UnseenKept ==
  ASSUME LockInv, SafeInv, NEW t \in Threads, NEW s \in Threads \ {t}, Unseen(s), pc[s] = "link",
         Elsewhere(t), node'[t] = node[t], parent'[t] = parent[t], pc[t] \in WithNode,
         root' # sibling[s],
         \A p \in Nodes, k \in Nat : kind'[p] = "inner" => Child(p, k)' # sibling[s],
         pc'[t] = "link" => sibling'[t] # sibling[s]
  PROVE  Unseen(s)'
<1>1. sibling'[s] = sibling[s] /\ pc'[s] = "link"
  BY DEF Elsewhere
<1>2. \A r \in Threads : /\ pc[r] \in WithNode => node[r] # sibling[s]
                         /\ parent[r] # sibling[s]
                         /\ r # s /\ pc[r] = "link" => sibling[r] # sibling[s]
  BY DEF Unseen, WithNode
<1>3. \A r \in Threads : /\ pc'[r] \in WithNode => node'[r] # sibling[s]
                         /\ parent'[r] # sibling[s]
                         /\ r # s /\ pc'[r] = "link" => sibling'[r] # sibling[s]
  BY <1>2 DEF Elsewhere
<1>4. QED
  BY <1>1, <1>3 DEF Unseen, WithNode

\* An entry is written into a leaf that covers its key.
LEMMA PutSearch ==
  ASSUME LockInv, SafeInv, SafeInv', SearchInv, NEW t \in Threads, Put(t)
  PROVE  SearchInv'
<1> USE ThreadParts
<1>1. /\ pc[t] = "put" /\ pc' = [pc EXCEPT ![t] = "unlockLeaf"]
      /\ UNCHANGED <<root, kind, below, beyond, word, search, sibling, sep, result, bound>>
  BY DEF Put, Goto
<1>2. PICK n \in Holds(t) : n = node[t] /\ n \in Nodes /\ kind[n] = "leaf"
  BY <1>1 DEF Where, Allocated, NodeSeen, NodeHeld, Holds
<1>3. PICK k \in Keys, v \in Payloads : k = from[t] /\ ents' = [ents EXCEPT ![n][k] = v]
  <2>1. from[t] \in Keys /\ call[t].val \in Payloads
    BY <1>1, CallTypes DEF CallOK, InsertLabels, inserting
  <2>2. QED
    BY <1>2, <2>1 DEF Put
<1>4. /\ \A m \in Nodes \ {n} : ents'[m] = ents[m]
      /\ \A j \in Keys : ents'[n][j] = IF j = k THEN v ELSE ents[n][j]
  BY <1>2, <1>3 DEF TypeOK
<1>5. PICK cov, lev : Layout(cov, lev) /\ \A s \in Threads : Knows(s, cov, lev)
  BY DEF SearchInv
<1>6. k \in cov[n]
  BY <1>1, <1>2, <1>3, <1>5 DEF Knows, KnowsLeaf
<1>7. /\ \A m \in Nodes \ {n} : EntryKeys(m)' = EntryKeys(m)
      /\ EntryKeys(n)' = EntryKeys(n) \cup {k}
      /\ \A m : Seps(m)' = Seps(m)
      /\ \A m, j : Child(m, j)' = Child(m, j)
      /\ Inner' = Inner
  BY <1>1, <1>4, PayloadsAssumption DEF EntryKeys, Seps, Child, Inner
<1>8. pc'[t] = "unlockLeaf" /\ Elsewhere(t) /\ WordsGrow
  BY <1>1, SameWords DEF TypeOK, Elsewhere, search, result, bound
<1>9. LinkersStay
  BY <1>1, <1>8 DEF Elsewhere, LinkersStay
<1>10. Layout(cov, lev)'
  <2>1. \A m, j : Rightwards(m, j)' = Rightwards(m, j)
    BY <1>9, RightwardsStays
  <2>2. \A m, j : \A c : Child(m, j) = c => Rightwards(Child(m, j), j)' = Rightwards(c, j)'
    BY <1>7
  <2>3. \A m, j : Rightwards(Child(m, j), j)' = Rightwards(Child(m, j), j)
    BY <2>1, <2>2
  <2>4. \A j : Rightwards(root, j)' = Rightwards(root, j)
    BY <1>1, <2>1
  <2>5. RootOK(cov, lev)'
    BY <1>1, <1>5, <2>4 DEF Layout, RootOK, Allocated
  <2>6. ASSUME NEW m \in Nodes, kind[m] = "inner" PROVE InnerOK(m, cov, lev)'
    BY <1>1, <1>5, <1>7, <2>3, <2>6 DEF Layout, InnerOK, SameSlot, Allocated
  <2>7. ASSUME NEW m \in Nodes, kind[m] = "leaf" PROVE LeafOK(m, cov, lev)'
    <3>1. LeafOK(m, cov, lev)
      BY <1>5, <2>7 DEF Layout
    <3>2. CASE m # n
      BY <1>7, <3>1, <3>2 DEF LeafOK
    <3>3. CASE m = n
      BY <1>6, <1>7, <3>1, <3>3 DEF LeafOK
    <3>4. QED
      BY <3>2, <3>3
  <2>8. Disjoint(cov, lev)' /\ Convex(cov)' /\ IsFiniteSet(Inner)'
    BY <1>1, <1>5, <1>7 DEF Layout, Disjoint, Convex
  <2>9. QED
    BY <1>1, <1>5, <2>5, <2>6, <2>7, <2>8 DEF Layout
<1>11. Spares(t, cov, lev, cov, lev)
  BY <1>1, <1>2, <1>4, <1>8 DEF Spares
<1>12. \A s \in Threads \ {t} : Knows(s, cov, lev)'
  BY <1>5, <1>11, OthersKnow DEF SearchInv
<1>13. Knows(t, cov, lev)'
  <2>1. ParentCurrent(t)' => ParentCurrent(t)
    BY <1>1, <1>8 DEF ParentCurrent, ParentHeld, search
  <2>2. Child(parent[t], from[t])' = Child(parent[t], from[t])
    BY <1>1, <1>7 DEF search, result
  <2>3. KnowsParent(t, cov)'
    BY <1>1, <1>5, <1>8, <2>1, <2>2 DEF Knows, KnowsParent, AtRoot, search, result
  <2>4. KnowsRoot(t)' /\ KnowsLeaf(t, cov)' /\ KnowsHalves(t, cov, lev)'
    BY <1>8 DEF KnowsRoot, KnowsLeaf, KnowsHalves, BeyondRootCheck
  <2>5. QED
    BY <2>3, <2>4 DEF Knows
<1>14. ASSUME NEW s \in Threads PROVE Unseen(s)'
  <2>1. CASE s = t \/ pc[s] # "link"
    BY <1>8, <2>1 DEF Unseen, Elsewhere
  <2>2. CASE s # t /\ pc[s] = "link"
    <3>1. /\ root' # sibling[s]
          /\ \A p \in Nodes, j \in Nat : kind'[p] = "inner" => Child(p, j)' # sibling[s]
      BY <1>1, <1>7, <2>2 DEF SearchInv, Unseen
    <3>2. node'[t] = node[t] /\ parent'[t] = parent[t] /\ pc[t] \in WithNode /\ pc'[t] # "link"
      BY <1>1, <1>8 DEF search, WithNode, NodeSeen, NodeHeld
    <3>3. QED
      BY <1>8, <2>2, <3>1, <3>2, UnseenKept DEF SearchInv
  <2>3. QED
    BY <2>1, <2>2
<1>15. QED
  BY <1>10, <1>12, <1>13, <1>14 DEF SearchInv

\* Every step of the insert into a leaf keeps the search invariant.
LEMMA InsertIntoLeafSearch ==
  ASSUME LockInv, SafeInv, SafeInv', SearchInv, NEW t \in Threads, InsertIntoLeaf(t)
  PROVE  SearchInv'
BY LockLeafSearch, LeafCheckParentSearch, PutSearch, UnlockLeafSearch DEF InsertIntoLeaf

(***************************************************************************)
(* A split of a leaf divides its entries at the separator, with entries on *)
(* both sides of it.                                                       *)
(***************************************************************************)
LEMMA SplitLeafHalves ==
  ASSUME TypeOK, Shape, NEW t \in Threads,
         NEW new \in Nodes, new = NewNode, NEW n \in Nodes, n = node[t],
         n # new, kind[n] = "leaf", leafIsFull(n), SplitLeaf(t)
  PROVE  /\ \E s \in EntryKeys(n) :
              /\ sep' = [sep EXCEPT ![t] = s]
              /\ \E e \in EntryKeys(n) : e > s
              /\ \A e \in Keys :
                   /\ ents'[n][e] = IF e <= s THEN ents[n][e] ELSE None
                   /\ ents'[new][e] = IF e > s THEN ents[n][e] ELSE None
         /\ kind' = [kind EXCEPT ![new] = "leaf"]
         /\ \A m \in Nodes \ {n, new} : ents'[m] = ents[m]
         /\ UNCHANGED <<below, beyond>>
<1> DEFINE E == EntryKeys(n)
           count == Cardinality(E)
           smaller(k) == {j \in E : j < k}
           stay  == {k \in E : Cardinality(smaller(k)) < count \div 2}
           moved == E \ stay
           lower == [k \in Keys |-> IF k \in stay THEN ents[n][k] ELSE None]
           upper == [k \in Keys |-> IF k \in moved THEN ents[n][k] ELSE None]
<1>1. /\ sep' = [sep EXCEPT ![t] = leafSeparator(stay, moved)]
      /\ ents' = [ents EXCEPT ![n] = lower, ![new] = upper]
      /\ kind' = [kind EXCEPT ![new] = "leaf"]
      /\ UNCHANGED <<below, beyond>>
  BY DEF SplitLeaf
<1>2. /\ IsFiniteSet(E) /\ count = LeafMax /\ count \in Nat /\ count >= 2
      /\ \A k \in E : k \in Keys /\ k \in Nat
  <2>1. IsFiniteSet(E) /\ count = LeafMax
    BY DEF Shape, NodeOK, leafIsFull
  <2>2. QED
    BY <2>1, KeysAreNumbers, SizeAssumption
<1>3. \A k \in E : IsFiniteSet(smaller(k)) /\ Cardinality(smaller(k)) \in Nat
  <2> TAKE k \in E
  <2>1. IsFiniteSet(smaller(k))
    BY <1>2, FS_Subset
  <2>2. QED
    BY <2>1, FS_CardinalityType
<1>4. \A j, k \in E : j <= k => Cardinality(smaller(j)) <= Cardinality(smaller(k))
  <2> TAKE j, k \in E
  <2> SUFFICES ASSUME j <= k PROVE Cardinality(smaller(j)) <= Cardinality(smaller(k))
    OBVIOUS
  <2>1. smaller(j) \subseteq smaller(k)
    BY <1>2
  <2>2. QED
    BY <1>3, <2>1, FS_Subset
<1>5. PICK first \in E : Cardinality(smaller(first)) = 0
  <2>1. 0 \in 0..(count - 1)
    BY <1>2
  <2>2. QED
    BY <1>2, <2>1, AtIndexOf
<1>6. PICK last \in E : Cardinality(smaller(last)) = count - 1
  <2>1. count - 1 \in 0..(count - 1)
    BY <1>2
  <2>2. QED
    BY <1>2, <2>1, AtIndexOf
<1> HIDE DEF count, smaller
<1>7. first \in stay /\ last \notin stay
  BY <1>2, <1>5, <1>6
<1>8. \A k \in stay : k \in E /\ k \in Nat
  BY <1>2
<1>9. IsFiniteSet(stay)
  <2>1. stay \subseteq E
    OBVIOUS
  <2>2. QED
    BY <1>2, <2>1, FS_Subset
<1>10. PICK s \in stay : s = leafSeparator(stay, moved) /\ \A k \in stay : k <= s
  <2> HIDE DEF stay
  <2>1. QED
    BY <1>7, <1>8, <1>9, GreatestOf DEF leafSeparator
<1>11. \A k \in E : k \in stay <=> k <= s
  <2> SUFFICES ASSUME NEW k \in E, k <= s PROVE k \in stay
    BY <1>10
  <2>1. Cardinality(smaller(k)) <= Cardinality(smaller(s))
    BY <1>4, <1>10
  <2>2. QED
    BY <1>2, <1>3, <1>10, <2>1
<1> HIDE DEF stay
<1>12. s \in E /\ s \in Nat /\ last > s
  <2>1. s \in E /\ s \in Nat /\ last \in Nat
    BY <1>2, <1>8, <1>10
  <2>2. ~(last <= s)
    BY <1>7, <1>11
  <2>3. QED
    BY <2>1, <2>2
<1>13. \A e \in Keys : /\ lower[e] = IF e <= s THEN ents[n][e] ELSE None
                       /\ upper[e] = IF e > s THEN ents[n][e] ELSE None
  <2> SUFFICES ASSUME NEW e \in Keys
               PROVE  /\ lower[e] = IF e <= s THEN ents[n][e] ELSE None
                      /\ upper[e] = IF e > s THEN ents[n][e] ELSE None
    OBVIOUS
  <2>1. e \in Nat /\ (e > s <=> ~(e <= s))
    BY <1>12, KeysAssumption
  <2>2. CASE e \in E
    BY <1>11, <2>1, <2>2
  <2>3. CASE e \notin E
    <3>1. ents[n][e] = None /\ e \notin stay
      BY <1>8, <2>3 DEF EntryKeys
    <3>2. QED
      BY <2>3, <3>1
  <2>4. QED
    BY <2>2, <2>3
<1>14. /\ ents'[n] = lower /\ ents'[new] = upper
       /\ \A m \in Nodes \ {n, new} : ents'[m] = ents[m]
  <2> HIDE DEF lower, upper
  <2>1. QED
    BY <1>1 DEF TypeOK
<1> HIDE DEF lower, upper
<1>15. \A e \in Keys : /\ ents'[n][e] = IF e <= s THEN ents[n][e] ELSE None
                       /\ ents'[new][e] = IF e > s THEN ents[n][e] ELSE None
  BY <1>13, <1>14
<1>16. QED
  BY <1>1, <1>10, <1>12, <1>14, <1>15

(***************************************************************************)
(* A split of an inner node takes one of its separators out, with          *)
(* separators on both sides of it, and sends every key on to the child it  *)
(* was sent to before: in the old half the keys up to it, in the new half  *)
(* the keys beyond.                                                        *)
(***************************************************************************)
LEMMA SplitInnerHalves ==
  ASSUME TypeOK, Shape, NEW t \in Threads,
         NEW new \in Nodes, new = NewNode, NEW n \in Nodes, n = node[t],
         n # new, kind[n] = "inner", innerIsFull(n), SplitInner(t)
  PROVE  /\ \E s \in Seps(n) :
              /\ sep' = [sep EXCEPT ![t] = s]
              /\ \E q \in Seps(n) : q > s
              /\ Seps(n)' = {q \in Seps(n) : q < s}
              /\ Seps(new)' = {q \in Seps(n) : q > s}
              /\ \A k \in Nat :
                   /\ k <= s => Child(n, k)' = Child(n, k)
                   /\ k > s => Child(new, k)' = Child(n, k)
                   /\ \E j \in Nat : Child(n, k)' = Child(n, j)
                   /\ \E j \in Nat : Child(new, k)' = Child(n, j)
         /\ kind' = [kind EXCEPT ![new] = "inner"]
         /\ \A m \in Nodes \ {n, new} : below'[m] = below[m] /\ beyond'[m] = beyond[m]
         /\ UNCHANGED ents
<1> DEFINE S == Seps(n)
           count == Cardinality(S)
           keep  == count - (count - (count \div 2)) - 1
           smaller(k) == {j \in S : j < k}
<1>1. PICK s : s = AtIndex(S, keep)
  OBVIOUS
<1> DEFINE lower == [k \in Keys |-> IF k < s THEN below[n][k] ELSE None]
           upper == [k \in Keys |-> IF k > s THEN below[n][k] ELSE None]
<1>2. /\ sep' = [sep EXCEPT ![t] = s]
      /\ below' = [below EXCEPT ![n] = lower, ![new] = upper]
      /\ beyond' = [beyond EXCEPT ![n] = below[n][s], ![new] = beyond[n]]
      /\ kind' = [kind EXCEPT ![new] = "inner"]
      /\ UNCHANGED ents
  BY <1>1 DEF SplitInner
<1>3. /\ IsFiniteSet(S) /\ count = InnerMax - 1 /\ count \in Nat /\ count >= 4
      /\ \A k \in S : k \in Keys /\ k \in Nat
  <2>1. IsFiniteSet(S) /\ count = InnerMax - 1
    BY DEF Shape, NodeOK, innerIsFull
  <2>2. QED
    BY <2>1, KeysAreNumbers, SizeAssumption
<1>4. keep \in 0..(count - 1) /\ keep + 1 \in 0..(count - 1)
  <2> HIDE DEF count
  <2>1. QED
    BY <1>3
<1>5. s \in S /\ Cardinality(smaller(s)) = keep
  <2> HIDE DEF count, keep
  <2>1. QED
    BY <1>1, <1>3, <1>4, AtIndexOf DEF count
<1>6. PICK next \in S : Cardinality(smaller(next)) = keep + 1
  <2> HIDE DEF count, keep
  <2>1. QED
    BY <1>3, <1>4, AtIndexOf DEF count
<1>7. next > s
  <2>1. keep \in Nat /\ s \in Nat /\ next \in Nat
    BY <1>3, <1>4, <1>5
  <2> HIDE DEF keep
  <2>2. next # s
    BY <1>5, <1>6, <2>1
  <2>3. ~(next < s)
    <3> SUFFICES ASSUME next < s PROVE FALSE
      OBVIOUS
    <3>1. smaller(next) \subseteq smaller(s)
      <4>1. \A j \in S : j \in Nat
        BY <1>3
      <4>2. \A j \in S : j < next => j < s
        <5> HIDE DEF S
        <5>1. QED
          BY <2>1, <4>1
      <4>3. QED
        BY <4>2
    <3>2. IsFiniteSet(smaller(s))
      <4>1. smaller(s) \subseteq S
        OBVIOUS
      <4>2. QED
        BY <1>3, <4>1, FS_Subset
    <3>3. Cardinality(smaller(next)) <= Cardinality(smaller(s))
      BY <3>1, <3>2, FS_Subset
    <3>4. QED
      BY <1>5, <1>6, <2>1, <3>3
  <2>4. QED
    BY <2>1, <2>2, <2>3
<1>8. s \in Keys /\ s \in Nat
  BY <1>3, <1>5
<1>9. /\ below'[n] = lower /\ below'[new] = upper
      /\ beyond'[n] = below[n][s] /\ beyond'[new] = beyond[n]
      /\ \A m \in Nodes \ {n, new} : below'[m] = below[m] /\ beyond'[m] = beyond[m]
  <2> HIDE DEF lower, upper
  <2>1. QED
    BY <1>2 DEF TypeOK
<1>10. \A k \in Keys : /\ below'[n][k] = IF k < s THEN below[n][k] ELSE None
                       /\ below'[new][k] = IF k > s THEN below[n][k] ELSE None
  BY <1>9
<1> HIDE DEF lower, upper
<1>11. /\ Seps(n)' = {q \in S : q < s}
       /\ Seps(new)' = {q \in S : q > s}
  <2>1. \A q : q \in Seps(n)' <=> q \in S /\ q < s
    BY <1>10 DEF Seps
  <2>2. \A q : q \in Seps(new)' <=> q \in S /\ q > s
    BY <1>10 DEF Seps
  <2>3. QED
    BY <2>1, <2>2
<1>12. Child(n, s) = below[n][s]
  <2>1. s >= s /\ \A q \in Seps(n) : q >= s => s <= q
    BY <1>3, <1>8
  <2>2. QED
    BY <1>5, <2>1, ChildAt
<1>13. ASSUME NEW k \in Nat
       PROVE  /\ k <= s => Child(n, k)' = Child(n, k)
              /\ k > s => Child(n, k)' = Child(n, s)
  <2>1. CASE \A q \in S : q < s => ~(q >= k)
    <3>1. Child(n, k)' = below[n][s]
      <4>1. \A q \in Seps(n)' : ~(q >= k)
        BY <1>11, <2>1
      <4>2. Child(n, k)' = beyond'[n]
        BY <4>1 DEF Child
      <4>3. QED
        BY <1>9, <4>2
    <3>2. k <= s => Child(n, k) = below[n][s]
      <4> SUFFICES ASSUME k <= s PROVE Child(n, k) = below[n][s]
        OBVIOUS
      <4>1. s >= k /\ \A q \in Seps(n) : q >= k => s <= q
        BY <1>3, <1>8, <2>1
      <4>2. QED
        BY <1>5, <4>1, ChildAt
    <3>3. QED
      BY <1>12, <3>1, <3>2
  <2>2. CASE \E q \in S : q < s /\ q >= k
    <3>1. PICK q \in Seps(n) : q >= k /\ \A r \in Seps(n) : r >= k => q <= r
      BY <1>3, <2>2, ChildCases
    <3>2. q < s /\ q \in Keys /\ k <= s /\ ~(k > s)
      BY <1>3, <1>8, <2>2, <3>1
    <3>3. q \in Seps(n)' /\ \A r \in Seps(n)' : r >= k => q <= r
      BY <1>11, <3>1, <3>2
    <3>4. Child(n, k) = below[n][q]
      BY <3>1, ChildAt
    <3>5. Child(n, k)' = below'[n][q]
      BY <3>1, <3>3, LaterChildAt
    <3>6. QED
      BY <1>10, <3>2, <3>4, <3>5
  <2>3. QED
    BY <2>1, <2>2
<1>14. ASSUME NEW k \in Nat
       PROVE  /\ k > s => Child(new, k)' = Child(n, k)
              /\ \E j \in Nat : Child(new, k)' = Child(n, j)
  <2>1. CASE \A q \in S : q > s => ~(q >= k)
    <3>1. Child(new, k)' = beyond[n]
      <4>1. \A q \in Seps(new)' : ~(q >= k)
        BY <1>11, <2>1
      <4>2. Child(new, k)' = beyond'[new]
        BY <4>1 DEF Child
      <4>3. QED
        BY <1>9, <4>2
    <3>2. k > s
      BY <1>3, <1>7, <1>8, <2>1
    <3>3. \A q \in Seps(n) : ~(q >= k)
      BY <1>3, <1>8, <2>1, <3>2
    <3>4. Child(n, k) = beyond[n]
      BY <3>3, ChildBeyond
    <3>5. QED
      BY <3>1, <3>4
  <2>2. CASE \E q \in S : q > s /\ q >= k
    <3>1. PICK q \in S : q > s /\ q >= k /\ \A r \in S : r > s /\ r >= k => q <= r
      <4> DEFINE R == {r \in S : r > s /\ r >= k}
      <4>1. IsFiniteSet(R) /\ R # {} /\ \A r \in R : r \in Nat
        BY <1>3, <2>2, FS_Subset
      <4>2. Least(R) \in R /\ \A r \in R : Least(R) <= r
        BY <4>1, LeastOf
      <4>3. QED
        BY <4>2
    <3>2. q \in Seps(new)' /\ \A r \in Seps(new)' : r >= k => q <= r
      BY <1>11, <3>1
    <3>3. Child(new, k)' = below'[new][q]
      BY <3>1, <3>2, LaterChildAt
    <3>4. Child(n, q) = below[n][q]
      <4>1. q >= q /\ \A r \in Seps(n) : r >= q => q <= r
        BY <1>3
      <4>2. QED
        BY <4>1, ChildAt
    <3>5. k > s => Child(n, k) = below[n][q]
      <4> SUFFICES ASSUME k > s PROVE Child(n, k) = below[n][q]
        OBVIOUS
      <4>1. \A r \in Seps(n) : r >= k => q <= r
        BY <1>3, <1>8, <3>1
      <4>2. QED
        BY <3>1, <4>1, ChildAt
    <3>6. below'[new][q] = below[n][q] /\ q \in Nat
      BY <1>3, <1>10, <3>1
    <3>7. QED
      BY <3>3, <3>4, <3>5, <3>6
  <2>3. QED
    BY <2>1, <2>2
<1>15. \A k \in Nat : \E j \in Nat : Child(n, k)' = Child(n, j)
  <2> SUFFICES ASSUME NEW k \in Nat PROVE \E j \in Nat : Child(n, k)' = Child(n, j)
    OBVIOUS
  <2>1. k <= s \/ k > s
    BY <1>8
  <2>2. QED
    BY <1>8, <1>13, <2>1
<1>16. QED
  BY <1>2, <1>5, <1>7, <1>9, <1>11, <1>13, <1>14, <1>15, ZenonT(30)

-------------------------------------------------------------------------------
(***************************************************************************)
(* A split of node n of thread t at s, as the rest of the proof sees it.   *)
(***************************************************************************)
LeafHalves(n, new, s) ==
  kind[n] = "leaf" =>
    /\ s \in EntryKeys(n) /\ \E e \in EntryKeys(n) : e > s
    /\ EntryKeys(n)' = {e \in EntryKeys(n) : e <= s}
    /\ EntryKeys(new)' = {e \in EntryKeys(n) : e > s}

InnerHalves(n, new, s) ==
  kind[n] = "inner" =>
    /\ s \in Seps(n) /\ \E q \in Seps(n) : q > s
    /\ Seps(n)' = {q \in Seps(n) : q < s}
    /\ Seps(new)' = {q \in Seps(n) : q > s}
    /\ \A k \in Nat :
         /\ k <= s => Child(n, k)' = Child(n, k)
         /\ k > s => Child(new, k)' = Child(n, k)
         /\ \E j \in Nat : Child(n, k)' = Child(n, j)
         /\ \E j \in Nat : Child(new, k)' = Child(n, j)

Halves(t, n, new, s) ==
  /\ pc[t] = "split" /\ pc'[t] = "link"
  /\ n = node[t] /\ n \in Holds(t) /\ kind[n] \in {"leaf", "inner"}
  /\ n # new /\ kind[new] = "free"
  /\ root' = root /\ node'[t] = n /\ parent'[t] = parent[t]
  /\ sibling'[t] = new /\ sep'[t] = s
  /\ Elsewhere(t) /\ WordsGrow
  /\ kind' = [kind EXCEPT ![new] = kind[n]]
  /\ \A m \in Nodes \ {n, new} :
       ents'[m] = ents[m] /\ below'[m] = below[m] /\ beyond'[m] = beyond[m]
  /\ LeafHalves(n, new, s)
  /\ InnerHalves(n, new, s)

\* Both kinds of split make such halves.
LEMMA SplitHalves ==
  ASSUME LockInv, SafeInv, NEW t \in Threads, Split(t)
  PROVE  \E n, new \in Nodes, s \in Keys : Halves(t, n, new, s)
<1> USE ThreadParts
<1>1. /\ pc[t] = "split" /\ pc' = [pc EXCEPT ![t] = "link"]
      /\ sibling' = [sibling EXCEPT ![t] = NewNode]
      /\ UNCHANGED <<root, word, search, result, bound>>
  BY DEF Split, Goto
<1>2. PICK new \in Nodes : new = NewNode /\ kind[new] = "free"
  BY DEF Split, NewNode, Free
<1>3. PICK n \in Holds(t) : n = node[t] /\ n \in Nodes /\ kind[n] \in {"leaf", "inner"}
  BY <1>1 DEF Where, Allocated, NodeSeen, NodeHeld, Holds, TypeOK
<1>4. isFull(n) /\ n # new
  BY <1>1, <1>2, <1>3 DEF CallOK, InsertLabels, Fullness, NodeCurrent, NodeHeld
<1>5. ASSUME NEW s \in Keys, sep' = [sep EXCEPT ![t] = s],
             kind' = [kind EXCEPT ![new] = kind[n]],
             \A m \in Nodes \ {n, new} :
               ents'[m] = ents[m] /\ below'[m] = below[m] /\ beyond'[m] = beyond[m],
             LeafHalves(n, new, s), InnerHalves(n, new, s)
      PROVE  Halves(t, n, new, s)
  <2>1. Elsewhere(t)
    BY <1>1, <1>5 DEF TypeOK, Elsewhere, search, result, bound
  <2>2. WordsGrow
    BY <1>1, SameWords DEF TypeOK
  <2>3. /\ pc'[t] = "link" /\ sibling'[t] = new /\ sep'[t] = s
        /\ node'[t] = n /\ parent'[t] = parent[t]
    BY <1>1, <1>2, <1>3, <1>5 DEF TypeOK, search
  <2>4. QED
    BY <1>1, <1>2, <1>3, <1>4, <1>5, <2>1, <2>2, <2>3 DEF Halves
<1>6. CASE kind[n] = "leaf"
  <2>1. SplitLeaf(t) /\ leafIsFull(n)
    BY <1>3, <1>4, <1>6 DEF Split, isFull
  <2>2. /\ kind' = [kind EXCEPT ![new] = "leaf"]
        /\ \A m \in Nodes \ {n, new} : ents'[m] = ents[m]
        /\ UNCHANGED <<below, beyond>>
    BY <1>2, <1>3, <1>4, <1>6, <2>1, SplitLeafHalves
  <2>3. PICK s \in EntryKeys(n) :
              /\ sep' = [sep EXCEPT ![t] = s]
              /\ \E e \in EntryKeys(n) : e > s
              /\ \A e \in Keys :
                   /\ ents'[n][e] = IF e <= s THEN ents[n][e] ELSE None
                   /\ ents'[new][e] = IF e > s THEN ents[n][e] ELSE None
    BY <1>2, <1>3, <1>4, <1>6, <2>1, SplitLeafHalves
  <2>4. s \in Keys
    BY KeysAreNumbers
  <2>5. LeafHalves(n, new, s)
    <3>1. \A e : e \in EntryKeys(n)' <=> e \in EntryKeys(n) /\ e <= s
      BY <2>3 DEF EntryKeys
    <3>2. \A e : e \in EntryKeys(new)' <=> e \in EntryKeys(n) /\ e > s
      BY <2>3 DEF EntryKeys
    <3>3. EntryKeys(n)' = {e \in EntryKeys(n) : e <= s}
      BY <3>1
    <3>4. EntryKeys(new)' = {e \in EntryKeys(n) : e > s}
      BY <3>2
    <3>5. QED
      BY <2>3, <3>3, <3>4 DEF LeafHalves
  <2>6. InnerHalves(n, new, s)
    BY <1>6 DEF InnerHalves
  <2>7. Halves(t, n, new, s)
    BY <1>5, <1>6, <2>2, <2>3, <2>4, <2>5, <2>6
  <2>8. QED
    BY <1>3, <2>4, <2>7
<1>7. CASE kind[n] = "inner"
  <2>1. SplitInner(t) /\ innerIsFull(n)
    BY <1>3, <1>4, <1>7 DEF Split, isFull
  <2>2. /\ kind' = [kind EXCEPT ![new] = "inner"]
        /\ \A m \in Nodes \ {n, new} : below'[m] = below[m] /\ beyond'[m] = beyond[m]
        /\ UNCHANGED ents
    BY <1>2, <1>3, <1>4, <1>7, <2>1, SplitInnerHalves
  <2>3. PICK s \in Seps(n) :
              /\ sep' = [sep EXCEPT ![t] = s]
              /\ \E q \in Seps(n) : q > s
              /\ Seps(n)' = {q \in Seps(n) : q < s}
              /\ Seps(new)' = {q \in Seps(n) : q > s}
              /\ \A k \in Nat :
                   /\ k <= s => Child(n, k)' = Child(n, k)
                   /\ k > s => Child(new, k)' = Child(n, k)
                   /\ \E j \in Nat : Child(n, k)' = Child(n, j)
                   /\ \E j \in Nat : Child(new, k)' = Child(n, j)
    BY <1>2, <1>3, <1>4, <1>7, <2>1, SplitInnerHalves
  <2>4. s \in Keys
    BY KeysAreNumbers
  <2>5. InnerHalves(n, new, s)
    BY <2>3 DEF InnerHalves
  <2>6. LeafHalves(n, new, s)
    BY <1>7 DEF LeafHalves
  <2>7. Halves(t, n, new, s)
    BY <1>5, <1>7, <2>2, <2>3, <2>4, <2>5, <2>6
  <2>8. QED
    BY <1>3, <2>4, <2>7
<1>8. QED
  BY <1>3, <1>6, <1>7

\* From the old half a search steps to the new one, as long as it is not linked.
LEMMA RightwardsSplit ==
  ASSUME LockInv, SafeInv, NEW t \in Threads, NEW n \in Nodes, NEW new \in Nodes,
         NEW s \in Keys, Halves(t, n, new, s)
  PROVE  /\ \A k : Rightwards(n, k) = n
         /\ \A k : Rightwards(n, k)' = IF k > s THEN new ELSE n
         /\ \A x, k : x # n => Rightwards(x, k)' = Rightwards(x, k)
<1>1. /\ pc[t] = "split" /\ pc'[t] = "link" /\ n = node[t] /\ n \in Holds(t)
      /\ node'[t] = n /\ sibling'[t] = new /\ sep'[t] = s
      /\ \A r \in Threads \ {t} : /\ pc'[r] = pc[r] /\ node'[r] = node[r]
                                  /\ sibling'[r] = sibling[r] /\ sep'[r] = sep[r]
  BY DEF Halves, Elsewhere
<1>2. \A r \in Threads : pc[r] = "link" => node[r] # n /\ r # t
  BY <1>1, LinkingHeld, HeldByOne
<1>3. \A k : Rightwards(n, k) = n
  BY <1>2, RightwardsSelf
<1>4. ASSUME NEW k PROVE Rightwards(n, k)' = IF k > s THEN new ELSE n
  <2>1. Linking(n, k)' = IF k > s THEN {t} ELSE {}
    BY <1>1, <1>2 DEF Linking
  <2>2. CASE k > s
    <3>1. Linking(n, k)' = {t}
      BY <2>1, <2>2
    <3>2. (CHOOSE r \in {t} : TRUE) = t
      OBVIOUS
    <3>3. QED
      BY <1>1, <2>2, <3>1, <3>2 DEF Rightwards
  <2>3. CASE ~(k > s)
    BY <2>1, <2>3 DEF Rightwards
  <2>4. QED
    BY <2>2, <2>3
<1>5. ASSUME NEW x, NEW k, x # n PROVE Rightwards(x, k)' = Rightwards(x, k)
  <2>1. \A r \in Threads : pc'[r] = "link" /\ node'[r] = x /\ k > sep'[r]
                           <=> pc[r] = "link" /\ node[r] = x /\ k > sep[r]
    BY <1>1, <1>2, <1>5
  <2>2. Linking(x, k)' = Linking(x, k)
    BY <2>1 DEF Linking
  <2>3. Linking(x, k) # {} => (CHOOSE r \in Linking(x, k) : TRUE) \in Linking(x, k)
    OBVIOUS
  <2>4. \A r \in Linking(x, k) : sibling'[r] = sibling[r]
    BY <1>1 DEF Linking
  <2>5. QED
    BY <2>2, <2>3, <2>4 DEF Rightwards
<1>6. QED
  BY <1>3, <1>4, <1>5

\* The keys of the halves.
Parted(n, new, s, cov, lev, cov2, lev2) ==
  /\ cov2 \in [Nodes -> SUBSET Nat] /\ lev2 \in [Nodes -> Nat]
  /\ \A m \in Nodes \ {n, new} : cov2[m] = cov[m]
  /\ \A k : k \in cov2[n] <=> k \in cov[n] /\ k <= s
  /\ \A k : k \in cov2[new] <=> k \in cov[n] /\ k > s
  /\ \A m \in Nodes \ {new} : lev2[m] = lev[m]
  /\ lev2[new] = lev[n]

\* The halves of the range divide it at the separator.
LEMMA PartedRanges ==
  ASSUME NEW n \in Nodes, NEW new \in Nodes, n # new, NEW s,
         NEW cov \in [Nodes -> SUBSET Nat], NEW lev \in [Nodes -> Nat]
  PROVE  \E cov2, lev2 : Parted(n, new, s, cov, lev, cov2, lev2)
<1> DEFINE low == {k \in cov[n] : k <= s}
           high == {k \in cov[n] : k > s}
           cov2 == [cov EXCEPT ![n] = low, ![new] = high]
           lev2 == [lev EXCEPT ![new] = lev[n]]
<1>1. low \in SUBSET Nat /\ high \in SUBSET Nat
  OBVIOUS
<1>2. /\ \A k : k \in low <=> k \in cov[n] /\ k <= s
      /\ \A k : k \in high <=> k \in cov[n] /\ k > s
  OBVIOUS
<1> HIDE DEF low, high
<1>3. /\ cov2 \in [Nodes -> SUBSET Nat] /\ cov2[n] = low /\ cov2[new] = high
      /\ \A m \in Nodes \ {n, new} : cov2[m] = cov[m]
  BY <1>1
<1>4. /\ lev2 \in [Nodes -> Nat] /\ lev2[new] = lev[n]
      /\ \A m \in Nodes \ {new} : lev2[m] = lev[m]
  OBVIOUS
<1> HIDE DEF cov2, lev2
<1>5. Parted(n, new, s, cov, lev, cov2, lev2)
  BY <1>2, <1>3, <1>4 DEF Parted
<1>6. QED
  BY <1>5

\* A search that is at a node that covers its key is at one that covers it after
\* the split too, on the same level and with no other keys.
LEMMA SplitGoesOn ==
  ASSUME LockInv, SafeInv, NEW t \in Threads, Unseen(t), \A r \in Threads : Unseen(r),
         NEW n \in Nodes, NEW new \in Nodes, NEW s \in Keys, Halves(t, n, new, s),
         NEW cov, NEW lev, NEW cov2, NEW lev2, Parted(n, new, s, cov, lev, cov2, lev2),
         NEW x, NEW k, NEW c, c = Rightwards(x, k), Allocated(c), k \in cov[c], k \in Nat
  PROVE  \E d \in Nodes : /\ d = Rightwards(x, k)' /\ kind'[d] # "free"
                          /\ k \in cov2[d] /\ lev2[d] = lev[c]
                          /\ \A j \in cov2[d] : j \in cov[c]
<1>1. c \in Nodes /\ kind[c] # "free" /\ kind[new] = "free" /\ kind[n] # "free" /\ n # new
      /\ kind' = [kind EXCEPT ![new] = kind[n]]
      /\ pc[t] = "split" /\ n = node[t]
  BY DEF Allocated, Halves
<1>2. /\ kind \in [Nodes -> {"free", "leaf", "inner"}]
      /\ kind'[new] = kind[n] /\ \A m \in Nodes \ {new} : kind'[m] = kind[m]
  BY <1>1 DEF SafeInv, TypeOK
<1>3. s \in Nat
  BY KeysAssumption
<1>4. CASE x = n
  <2>1. c = n /\ Rightwards(x, k)' = IF k > s THEN new ELSE n
    BY <1>4, RightwardsSplit
  <2>2. k <= s \/ k > s
    BY <1>3
  <2>3. CASE k > s
    <3>1. new = Rightwards(x, k)' /\ k \in cov2[new] /\ lev2[new] = lev[c]
          /\ \A j \in cov2[new] : j \in cov[c]
      BY <2>1, <2>3 DEF Parted
    <3>2. QED
      BY <1>1, <1>2, <3>1
  <2>4. CASE ~(k > s)
    <3>1. n = Rightwards(x, k)' /\ k \in cov2[n] /\ lev2[n] = lev[c]
          /\ \A j \in cov2[n] : j \in cov[c]
      BY <1>1, <2>1, <2>2, <2>4 DEF Parted
    <3>2. QED
      BY <1>1, <1>2, <3>1
  <2>5. QED
    BY <2>3, <2>4
<1>5. CASE x # n
  <2>1. c = Rightwards(x, k)'
    BY <1>5, RightwardsSplit
  <2>2. c # n
    <3>1. Linking(x, k) # {} => \E r \in Threads : pc[r] = "link" /\ c = sibling[r]
      BY DEF Rightwards, Linking
    <3>2. \A r \in Threads : pc[r] = "link" => sibling[r] # n
      BY <1>1 DEF Unseen, NodeSeen, NodeHeld
    <3>3. Linking(x, k) = {} => c = x
      BY DEF Rightwards
    <3>4. QED
      BY <1>5, <3>1, <3>2, <3>3
  <2>3. c # new
    BY <1>1
  <2>4. cov2[c] = cov[c] /\ lev2[c] = lev[c] /\ kind'[c] # "free"
    BY <1>1, <1>2, <2>2, <2>3 DEF Parted
  <2>5. QED
    BY <1>1, <2>1, <2>4
<1>6. QED
  BY <1>4, <1>5

\* The halves of the node take the halves of its range, on its level.
LEMMA SplitLayout ==
  ASSUME LockInv, SafeInv, NEW t \in Threads, \A r \in Threads : Unseen(r),
         NEW n \in Nodes, NEW new \in Nodes, NEW s \in Keys, Halves(t, n, new, s),
         NEW cov, NEW lev, NEW cov2, NEW lev2, Parted(n, new, s, cov, lev, cov2, lev2),
         Layout(cov, lev)
  PROVE  Layout(cov2, lev2)'
<1> DEFINE GoesOn(x, k, c) ==
             \E d \in Nodes : /\ d = Rightwards(x, k)' /\ kind'[d] # "free"
                              /\ k \in cov2[d] /\ lev2[d] = lev[c]
                              /\ \A j \in cov2[d] : j \in cov[c]
<1>1. \A x, k : k \in Nat /\ Allocated(Rightwards(x, k)) /\ k \in cov[Rightwards(x, k)] =>
                  GoesOn(x, k, Rightwards(x, k))
  <2> TAKE x, k
  <2> SUFFICES ASSUME k \in Nat, Allocated(Rightwards(x, k)), k \in cov[Rightwards(x, k)]
               PROVE  GoesOn(x, k, Rightwards(x, k))
    OBVIOUS
  <2>1. PICK c : c = Rightwards(x, k)
    OBVIOUS
  <2>2. GoesOn(x, k, c)
    BY <2>1, SplitGoesOn
  <2>3. QED
    BY <2>1, <2>2
<1> HIDE DEF GoesOn
<1>2. /\ n # new /\ kind[new] = "free" /\ kind[n] \in {"leaf", "inner"}
      /\ root' = root /\ kind'[new] = kind[n] /\ \A m \in Nodes \ {new} : kind'[m] = kind[m]
      /\ s \in Nat /\ root \in Nodes \ {new} /\ kind[root] # "free"
      /\ kind \in [Nodes -> {"free", "leaf", "inner"}]
  BY KeysAssumption DEF Halves, SafeInv, TypeOK, Shape, Allocated
<1>3. /\ cov \in [Nodes -> SUBSET Nat] /\ lev \in [Nodes -> Nat]
      /\ cov2 \in [Nodes -> SUBSET Nat] /\ lev2 \in [Nodes -> Nat]
      /\ \A m \in Nodes \ {n, new} : cov2[m] = cov[m]
      /\ \A k : k \in cov2[n] <=> k \in cov[n] /\ k <= s
      /\ \A k : k \in cov2[new] <=> k \in cov[n] /\ k > s
      /\ \A m \in Nodes \ {new} : lev2[m] = lev[m]
      /\ lev2[new] = lev[n]
  BY DEF Layout, Parted
<1>4. IsFiniteSet(Inner')
  <2>1. IsFiniteSet(Inner)
    BY DEF Layout
  <2>2. IsFiniteSet(Inner \cup {new})
    BY <2>1, FS_AddElement
  <2>3. Inner' \subseteq Inner \cup {new}
    BY <1>2 DEF Inner
  <2>4. QED
    BY <2>2, <2>3, FS_Subset
<1>5. RootOK(cov2, lev2)'
  <2>1. /\ \A k \in Nat : /\ Allocated(Rightwards(root, k)) /\ k \in cov[Rightwards(root, k)]
                          /\ lev[Rightwards(root, k)] = lev[root]
        /\ \A m \in Nodes : kind[m] # "free" => lev[m] <= lev[root]
    BY DEF Layout, RootOK
  <2>2. \A k \in Nat : GoesOn(root, k, Rightwards(root, k))
    BY <1>1, <2>1
  <2>3. \A k \in Nat : \E d \in Nodes :
          /\ d = Rightwards(root, k)' /\ kind'[d] # "free" /\ k \in cov2[d]
          /\ lev2[d] = lev[root]
    BY <2>1, <2>2 DEF GoesOn
  <2>4. lev2[root] = lev[root]
    BY <1>2, <1>3
  <2>5. \A m \in Nodes : kind'[m] # "free" => lev2[m] <= lev[root]
    BY <1>2, <1>3, <2>1
  <2>6. QED
    BY <1>2, <2>3, <2>4, <2>5 DEF RootOK, Allocated
<1>6. Disjoint(cov2, lev2)' /\ Convex(cov2)'
  <2>1. Disjoint(cov, lev) /\ Convex(cov)
    BY DEF Layout
  <2>2. Disjoint(cov2, lev2)'
    <3> SUFFICES ASSUME NEW a \in Nodes, NEW b \in Nodes, kind'[a] # "free", kind'[b] # "free",
                        a # b, lev2[a] = lev2[b], NEW k \in cov2[a], k \in cov2[b]
                 PROVE  FALSE
      BY DEF Disjoint
    <3>1. k \in Nat /\ ~(k <= s /\ k > s)
      BY <1>2, <1>3
    <3>2. CASE a = new
      <4>1. b # n /\ b # new
        BY <1>3, <3>1, <3>2
      <4>2. k \in cov[n] /\ k \in cov[b] /\ lev[n] = lev[b] /\ kind[b] # "free"
        BY <1>2, <1>3, <3>2, <4>1
      <4>3. QED
        BY <1>2, <2>1, <4>1, <4>2 DEF Disjoint
    <3>3. CASE b = new
      <4>1. a # n /\ a # new
        BY <1>3, <3>1, <3>3
      <4>2. k \in cov[n] /\ k \in cov[a] /\ lev[n] = lev[a] /\ kind[a] # "free"
        BY <1>2, <1>3, <3>3, <4>1
      <4>3. QED
        BY <1>2, <2>1, <4>1, <4>2 DEF Disjoint
    <3>4. CASE a # new /\ b # new
      <4>1. k \in cov[a] /\ k \in cov[b] /\ lev[a] = lev[b]
            /\ kind[a] # "free" /\ kind[b] # "free"
        BY <1>2, <1>3, <3>4
      <4>2. QED
        BY <2>1, <4>1 DEF Disjoint
    <3>5. QED
      BY <3>2, <3>3, <3>4
  <2>3. Convex(cov2)'
    <3> SUFFICES ASSUME NEW m \in Nodes, kind'[m] # "free", NEW i \in cov2[m], NEW k \in cov2[m],
                        NEW j \in Nat, i <= j, j <= k
                 PROVE  j \in cov2[m]
      BY DEF Convex
    <3>1. i \in Nat /\ k \in Nat
      BY <1>3
    <3>2. CASE m \notin {n, new}
      BY <1>2, <1>3, <2>1, <3>2 DEF Convex
    <3>3. CASE m \in {n, new}
      <4>1. j \in cov[n]
        BY <1>2, <1>3, <2>1, <3>3 DEF Convex
      <4>2. CASE m = n
        <5>1. j <= s
          BY <1>2, <1>3, <3>1, <4>2
        <5>2. QED
          BY <1>3, <4>1, <4>2, <5>1
      <4>3. CASE m = new
        <5>1. j > s
          BY <1>2, <1>3, <3>1, <4>3
        <5>2. QED
          BY <1>3, <4>1, <4>3, <5>1
      <4>4. QED
        BY <3>3, <4>2, <4>3
    <3>4. QED
      BY <3>2, <3>3
  <2>4. QED
    BY <2>2, <2>3
<1>7. ASSUME NEW m \in Nodes, kind'[m] = "leaf" PROVE LeafOK(m, cov2, lev2)'
  <2>1. CASE m \notin {n, new}
    <3>1. LeafOK(m, cov, lev)
      BY <1>2, <1>7, <2>1 DEF Layout
    <3>2. EntryKeys(m)' = EntryKeys(m) /\ cov2[m] = cov[m] /\ lev2[m] = lev[m]
      BY <1>3, <2>1 DEF Halves, EntryKeys
    <3>3. QED
      BY <3>1, <3>2 DEF LeafOK
  <2>2. CASE m \in {n, new}
    <3>1. kind[n] = "leaf" /\ LeafOK(n, cov, lev)
      BY <1>2, <1>7, <2>2 DEF Layout
    <3>2. /\ s \in EntryKeys(n)
          /\ EntryKeys(n)' = {e \in EntryKeys(n) : e <= s}
          /\ EntryKeys(new)' = {e \in EntryKeys(n) : e > s}
      BY <3>1 DEF Halves, LeafHalves
    <3>3. \A e \in EntryKeys(n) : e \in cov[n] /\ e \in Nat
      BY <3>1, KeysAreNumbers DEF LeafOK
    <3>4. CASE m = n
      <4>1. \A k \in cov2[n] : \E e \in EntryKeys(n)' : k <= e
        BY <1>2, <1>3, <3>2
      <4>2. \A e \in EntryKeys(n)' : e \in cov2[n]
        BY <1>3, <3>2, <3>3
      <4>3. lev2[n] = 0
        BY <1>2, <1>3, <3>1 DEF LeafOK
      <4>4. QED
        BY <3>4, <4>1, <4>2, <4>3 DEF LeafOK
    <3>5. CASE m = new
      <4>1. ASSUME NEW k \in cov2[new], NEW j \in Nat, j > k, j \notin cov2[new]
            PROVE  \E e \in EntryKeys(new)' : k <= e
        <5>1. k \in Nat /\ k \in cov[n] /\ k > s
          BY <1>3
        <5>2. j \notin cov[n]
          BY <1>2, <1>3, <4>1, <5>1
        <5>3. PICK e \in EntryKeys(n) : k <= e
          BY <3>1, <4>1, <5>1, <5>2 DEF LeafOK
        <5>4. e > s
          BY <1>2, <3>3, <5>1, <5>3
        <5>5. QED
          BY <3>2, <5>3, <5>4
      <4>2. \A e \in EntryKeys(new)' : e \in cov2[new]
        BY <1>3, <3>2, <3>3
      <4>3. lev2[new] = 0
        BY <1>3, <3>1 DEF LeafOK
      <4>4. QED
        BY <3>5, <4>1, <4>2, <4>3 DEF LeafOK
    <3>6. QED
      BY <2>2, <3>4, <3>5
  <2>3. QED
    BY <2>1, <2>2
<1>8. ASSUME NEW m \in Nodes, kind'[m] = "inner" PROVE InnerOK(m, cov2, lev2)'
  <2>1. ASSUME NEW m0 \in Nodes, kind[m0] = "inner", NEW k \in cov[m0], NEW x, x = Child(m0, k)
        PROVE  \E d \in Nodes : /\ d = Rightwards(x, k)' /\ kind'[d] # "free"
                                /\ k \in cov2[d] /\ lev[m0] = lev2[d] + 1
                                /\ \A j \in cov2[d] : j \in cov[m0] /\ SameSlot(m0, j, k)
    <3>1. k \in Nat
      BY <1>3
    <3>2. PICK c : c = Rightwards(x, k)
      OBVIOUS
    <3>3. /\ Allocated(c) /\ k \in cov[c] /\ lev[m0] = lev[c] + 1
          /\ \A j \in cov[c] : j \in cov[m0] /\ SameSlot(m0, j, k)
      BY <2>1, <3>2 DEF Layout, InnerOK
    <3>4. GoesOn(x, k, c)
      BY <1>1, <3>1, <3>2, <3>3
    <3>5. QED
      BY <3>3, <3>4 DEF GoesOn
  <2>2. CASE m \notin {n, new}
    <3>1. /\ kind[m] = "inner" /\ cov2[m] = cov[m] /\ lev2[m] = lev[m]
          /\ Seps(m)' = Seps(m) /\ \A k : Child(m, k)' = Child(m, k)
      <4>1. kind[m] = "inner" /\ cov2[m] = cov[m] /\ lev2[m] = lev[m]
        BY <1>2, <1>3, <1>8, <2>2
      <4>2. below'[m] = below[m] /\ beyond'[m] = beyond[m]
        BY <2>2 DEF Halves
      <4>3. QED
        BY <4>1, <4>2 DEF Seps, Child
    <3>2. \A q \in Seps(m)' : q \in cov2[m]
      BY <3>1 DEF Layout, InnerOK
    <3>3. ASSUME NEW k \in cov2[m]
          PROVE  \E d \in Nodes : /\ d = Rightwards(Child(m, k), k)' /\ kind'[d] # "free"
                                  /\ k \in cov2[d] /\ lev2[m] = lev2[d] + 1
                                  /\ \A j \in cov2[d] : j \in cov2[m] /\ SameSlot(m, j, k)'
      <4>1. PICK x : x = Child(m, k)
        OBVIOUS
      <4>2. x = Child(m, k)'
        BY <3>1, <4>1
      <4>3. PICK d \in Nodes : /\ d = Rightwards(x, k)' /\ kind'[d] # "free"
                               /\ k \in cov2[d] /\ lev[m] = lev2[d] + 1
                               /\ \A j \in cov2[d] : j \in cov[m] /\ SameSlot(m, j, k)
        BY <2>1, <3>1, <4>1
      <4>4. d = Rightwards(Child(m, k), k)'
        BY <4>2, <4>3
      <4>5. \A j \in cov2[d] : j \in cov2[m] /\ SameSlot(m, j, k)'
        BY <3>1, <4>3 DEF SameSlot
      <4>6. QED
        BY <3>1, <4>3, <4>4, <4>5
    <3>4. QED
      BY <3>2, <3>3 DEF InnerOK, Allocated
  <2>3. CASE m \in {n, new}
    <3>1. kind[n] = "inner" /\ InnerOK(n, cov, lev)
      BY <1>2, <1>8, <2>3 DEF Layout
    <3>2. /\ s \in Seps(n)
          /\ Seps(n)' = {q \in Seps(n) : q < s}
          /\ Seps(new)' = {q \in Seps(n) : q > s}
          /\ \A k \in Nat : /\ k <= s => Child(n, k)' = Child(n, k)
                            /\ k > s => Child(new, k)' = Child(n, k)
      BY <3>1 DEF Halves, InnerHalves
    <3>3. \A q \in Seps(n) : q \in cov[n] /\ (q < s => q <= s)
      <4>1. \A q \in Seps(n) : q \in cov[n] /\ q \in Nat
        BY <3>1, KeysAreNumbers DEF InnerOK
      <4>2. s \in Nat
        BY KeysAssumption
      <4>3. QED
        BY <4>1, <4>2
    <3>4. \A q \in Seps(m)' : q \in cov2[m]
      <4>1. \A q \in Seps(n)' : q \in cov[n] /\ q <= s
        BY <3>2, <3>3
      <4>2. \A q \in Seps(new)' : q \in cov[n] /\ q > s
        BY <3>2, <3>3
      <4>3. QED
        BY <1>3, <2>3, <4>1, <4>2
    <3>5. ASSUME NEW k \in cov2[m]
          PROVE  \E d \in Nodes : /\ d = Rightwards(Child(m, k), k)' /\ kind'[d] # "free"
                                  /\ k \in cov2[d] /\ lev2[m] = lev2[d] + 1
                                  /\ \A j \in cov2[d] : j \in cov2[m] /\ SameSlot(m, j, k)'
      <4>1. PICK x : x = Child(n, k)
        OBVIOUS
      <4>2. k \in Nat /\ k \in cov[n] /\ (m = n => k <= s) /\ (m = new => k > s)
        BY <1>2, <1>3, <2>3
      <4>3. x = Child(m, k)'
        BY <2>3, <3>2, <4>1, <4>2
      <4>4. PICK d \in Nodes : /\ d = Rightwards(x, k)' /\ kind'[d] # "free"
                               /\ k \in cov2[d] /\ lev[n] = lev2[d] + 1
                               /\ \A j \in cov2[d] : j \in cov[n] /\ SameSlot(n, j, k)
        BY <2>1, <3>1, <4>1, <4>2
      <4>5. d = Rightwards(Child(m, k), k)'
        BY <4>3, <4>4
      <4>6. lev2[m] = lev[n]
        BY <1>2, <1>3, <2>3
      <4>7. ASSUME NEW j \in cov2[d] PROVE j \in cov2[m] /\ SameSlot(m, j, k)'
        <5>1. j \in cov[n] /\ j \in Nat /\ \A q \in Seps(n) : j <= q <=> k <= q
          BY <1>3, <4>4 DEF SameSlot
        <5>2. (m = n => j <= s) /\ (m = new => j > s)
          BY <1>2, <3>2, <4>2, <5>1
        <5>3. j \in cov2[m]
          BY <1>3, <2>3, <5>1, <5>2
        <5>4. \A q \in Seps(m)' : j <= q <=> k <= q
          BY <2>3, <3>2, <5>1
        <5>5. QED
          BY <5>3, <5>4 DEF SameSlot
      <4>8. QED
        BY <4>4, <4>5, <4>6, <4>7
    <3>6. QED
      BY <3>4, <3>5 DEF InnerOK, Allocated
  <2>4. QED
    BY <2>2, <2>3
<1>9. QED
  BY <1>3, <1>4, <1>5, <1>6, <1>7, <1>8 DEF Layout

\* Nothing leads to the new half yet.
LEMMA SplitUnseen ==
  ASSUME LockInv, SafeInv, NEW t \in Threads, \A r \in Threads : Unseen(r),
         NEW n \in Nodes, NEW new \in Nodes, NEW s \in Keys, Halves(t, n, new, s)
  PROVE  \A r \in Threads : Unseen(r)'
<1> USE ThreadParts
<1>1. /\ pc[t] = "split" /\ pc'[t] = "link" /\ n = node[t] /\ n # new
      /\ kind[new] = "free" /\ kind[n] \in {"leaf", "inner"} /\ root' = root
      /\ node'[t] = n /\ parent'[t] = parent[t] /\ sibling'[t] = new /\ Elsewhere(t)
  BY DEF Halves
<1>2. kind'[new] = kind[n] /\ \A m \in Nodes \ {new} : kind'[m] = kind[m]
  BY DEF Halves, SafeInv, TypeOK
\* A child of any node was the child of some node before.
<1>3. ASSUME NEW p \in Nodes, NEW k \in Nat, kind'[p] = "inner"
      PROVE  \E m \in Nodes, j \in Nat : kind[m] = "inner" /\ Child(p, k)' = Child(m, j)
  <2>1. CASE p \notin {n, new}
    <3>1. below'[p] = below[p] /\ beyond'[p] = beyond[p]
      BY <2>1 DEF Halves
    <3>2. kind[p] = "inner" /\ Child(p, k)' = Child(p, k)
      BY <1>2, <1>3, <2>1, <3>1 DEF Child, Seps
    <3>3. QED
      BY <3>2
  <2>2. CASE p \in {n, new}
    <3>1. kind[n] = "inner"
      BY <1>1, <1>2, <1>3, <2>2
    <3>2. \E j \in Nat : Child(p, k)' = Child(n, j)
      BY <2>2, <3>1 DEF Halves, InnerHalves
    <3>3. QED
      BY <3>1, <3>2
  <2>3. QED
    BY <2>1, <2>2
<1>4. ASSUME NEW r \in Threads \ {t}, pc'[r] = "link" PROVE Unseen(r)'
  <2>1. pc[r] = "link" /\ sibling'[r] = sibling[r]
    BY <1>1, <1>4 DEF Elsewhere
  <2>2. sibling[r] \in Nodes /\ kind[sibling[r]] # "free"
    BY <2>1, LinkingHeld
  <2>3. root' # sibling[r] /\ \A m \in Nodes, j \in Nat : kind[m] = "inner" => Child(m, j) # sibling[r]
    BY <1>1, <2>1 DEF Unseen
  <2>4. \A p \in Nodes, k \in Nat : kind'[p] = "inner" => Child(p, k)' # sibling[r]
    BY <1>3, <2>3
  <2>5. pc[t] \in WithNode /\ node'[t] = node[t] /\ sibling'[t] # sibling[r]
    BY <1>1, <2>2 DEF WithNode, NodeSeen, NodeHeld
  <2>6. QED
    BY <1>1, <2>1, <2>3, <2>4, <2>5, UnseenKept
<1>5. Unseen(t)'
  <2>1. root # new /\ new # None /\ new # Torn
    BY <1>1, NodesAssumption DEF SafeInv, Shape, Allocated
  <2>2. \A p \in Nodes, k \in Nat : kind'[p] = "inner" => Child(p, k)' # new
    <3> SUFFICES ASSUME NEW p \in Nodes, NEW k \in Nat, kind'[p] = "inner"
                 PROVE  Child(p, k)' # new
      OBVIOUS
    <3>1. PICK m \in Nodes, j \in Nat : kind[m] = "inner" /\ Child(p, k)' = Child(m, j)
      BY <1>3
    <3>2. Allocated(Child(m, j))
      BY <3>1, ChildOf DEF SafeInv
    <3>3. QED
      BY <1>1, <3>1, <3>2 DEF Allocated
  <2>3. ASSUME NEW r \in Threads \ {t}
        PROVE  /\ pc'[r] \in WithNode => node'[r] # new
               /\ parent'[r] # new
               /\ pc'[r] = "link" => sibling'[r] # new
    <3>1. /\ pc'[r] = pc[r] /\ node'[r] = node[r] /\ parent'[r] = parent[r]
          /\ sibling'[r] = sibling[r]
      BY <1>1 DEF Elsewhere
    <3>2. /\ pc[r] \in WithNode => node[r] # new
          /\ parent[r] # new
          /\ pc[r] = "link" => sibling[r] # new
      BY <1>1, <2>1 DEF Where, Allocated, WithNode
    <3>3. QED
      BY <3>1, <3>2
  <2>4. parent[t] # new
    BY <1>1, <2>1 DEF Where, Allocated
  <2>5. QED
    BY <1>1, <2>1, <2>2, <2>3, <2>4 DEF Unseen, WithNode
<1>6. QED
  BY <1>4, <1>5 DEF Unseen

\* The thread knows its halves: what the node covered is all of the tree, or all
\* that the parent sends to the node.
LEMMA SplitKnowsHalves ==
  ASSUME LockInv, SafeInv, NEW t \in Threads,
         NEW n \in Nodes, NEW new \in Nodes, NEW s \in Keys, Halves(t, n, new, s),
         NEW cov, NEW lev, NEW cov2, NEW lev2, Parted(n, new, s, cov, lev, cov2, lev2),
         Layout(cov, lev), Knows(t, cov, lev)
  PROVE  KnowsHalves(t, cov2, lev2)'
<1> USE ThreadParts
<1>1. /\ pc[t] = "split" /\ pc'[t] = "link" /\ n = node[t] /\ n # new
      /\ kind[new] = "free" /\ kind[n] \in {"leaf", "inner"} /\ root' = root
      /\ node'[t] = n /\ parent'[t] = parent[t] /\ sibling'[t] = new /\ sep'[t] = s
  BY DEF Halves
<1>2. s \in Nat /\ from[t] \in Nat
  BY KeysAssumption DEF TypeOK
<1>3. /\ \A m \in Nodes \ {n, new} : cov2[m] = cov[m]
      /\ \A k : k \in cov2[n] <=> k \in cov[n] /\ k <= s
      /\ \A k : k \in cov2[new] <=> k \in cov[n] /\ k > s
      /\ \A m \in Nodes \ {new} : lev2[m] = lev[m]
      /\ lev2[new] = lev[n] /\ lev \in [Nodes -> Nat] /\ cov \in [Nodes -> SUBSET Nat]
  BY DEF Parted, Layout
<1>4. s \in cov[n] /\ \E j \in cov[n] : j > s
  <2>1. CASE kind[n] = "leaf"
    BY <1>1, <2>1 DEF Halves, LeafHalves, Layout, LeafOK
  <2>2. CASE kind[n] = "inner"
    BY <1>1, <2>2 DEF Halves, InnerHalves, Layout, InnerOK
  <2>3. QED
    BY <1>1, <2>1, <2>2
<1>5. /\ s \in cov2[n] /\ \E j \in Nat : j \in cov2[new]
      /\ \A j \in cov2[n] : j <= s
      /\ \A j \in cov2[new] : j > s
      /\ lev2[n] = lev2[new]
      /\ \A j \in Nat : j \in cov2[n] \/ j \in cov2[new] <=> j \in cov[n]
  BY <1>1, <1>2, <1>3, <1>4
<1>6. \A k : Rightwards(n, k) = n
  BY RightwardsSplit
<1>7. NodeCurrent(t) /\ ParentCurrent(t)
  BY <1>1 DEF NodeCurrent, ParentCurrent, NodeHeld, ParentHeld
<1>8. CASE parent[t] = None
  <2>1. root = n
    BY <1>1, <1>7, <1>8 DEF Knows, KnowsRoot, BeyondRootCheck
  <2>2. \A j \in Nat : j \in cov[n]
    BY <1>6, <2>1 DEF Layout, RootOK
  <2>3. parent'[t] = None /\ root' = n /\ \A j \in Nat : j \in cov2[n] \/ j \in cov2[new]
    BY <1>1, <1>5, <1>8, <2>1, <2>2
  <2>4. QED
    BY <1>1, <1>5, <2>3 DEF KnowsHalves
<1>9. CASE parent[t] # None
  <2>1. PICK p, k : p = parent[t] /\ k = from[t]
    OBVIOUS
  <2>2. p \in Nodes /\ kind[p] = "inner" /\ k \in Nat /\ p # None
    BY <1>2, <1>9, <2>1 DEF Where, Allocated
  <2>3. k \in cov[p] /\ Child(p, k) = n
    BY <1>1, <1>7, <1>9, <2>1 DEF Knows, KnowsParent
  <2>4. InnerOK(p, cov, lev)
    BY <2>2 DEF Layout
  <2>5. lev[p] = lev[n] + 1 /\ \A j \in cov[n] : j \in cov[p] /\ SameSlot(p, j, k)
    BY <1>6, <2>3, <2>4 DEF InnerOK
  <2>6. p # n /\ p # new
    <3>1. lev[n] \in Nat
      BY <1>3
    <3>2. QED
      BY <1>1, <2>2, <2>5, <3>1
  <2>7. SameSlot(p, s, k)
    BY <1>4, <2>5
  <2>8. Child(p, s) = n
    BY <1>2, <2>2, <2>3, <2>7, SameSlotSameChild
  <2>9. Seps(p)' = Seps(p) /\ Child(p, s)' = Child(p, s)
    <3>1. below'[p] = below[p] /\ beyond'[p] = beyond[p]
      BY <2>2, <2>6 DEF Halves
    <3>2. QED
      BY <3>1 DEF Seps, Child
  <2>10. cov2[p] = cov[p] /\ lev2[p] = lev2[n] + 1
    BY <1>1, <1>3, <2>2, <2>5, <2>6
  <2>11. \A j \in Nat : j \in cov2[n] \/ j \in cov2[new] => j \in cov2[p] /\ SameSlot(p, j, s)'
    <3> SUFFICES ASSUME NEW j \in Nat, j \in cov[n] PROVE j \in cov2[p] /\ SameSlot(p, j, s)'
      BY <1>5
    <3>1. j \in cov2[p] /\ SameSlot(p, j, k)
      BY <2>5, <2>10
    <3>2. SameSlot(p, j, s)'
      BY <2>7, <2>9, <3>1 DEF SameSlot
    <3>3. QED
      BY <3>1, <3>2
  <2>12. p = parent'[t]
    BY <1>1, <2>1
  <2>13. /\ p = None => /\ root' = n
                        /\ \A j \in Nat : j \in cov2[n] \/ j \in cov2[new]
         /\ p # None => /\ lev2[p] = lev2[n] + 1
                        /\ Child(p, s)' = n
                        /\ \A j \in Nat : j \in cov2[n] \/ j \in cov2[new] =>
                             j \in cov2[p] /\ SameSlot(p, j, s)'
    BY <2>2, <2>8, <2>9, <2>10, <2>11
  <2>14. QED
    BY <1>1, <1>5, <2>12, <2>13 DEF KnowsHalves
<1>10. QED
  BY <1>8, <1>9

\* A split keeps the search invariant.
LEMMA SplitSearch ==
  ASSUME LockInv, SafeInv, SafeInv', SearchInv, NEW t \in Threads, Split(t)
  PROVE  SearchInv'
<1>1. PICK n \in Nodes, new \in Nodes, s \in Keys : Halves(t, n, new, s)
  BY SplitHalves
<1>2. /\ pc[t] = "split" /\ pc'[t] = "link" /\ n # new /\ n \in Holds(t)
      /\ kind[new] = "free" /\ kind[n] # "free" /\ root' = root
      /\ kind' = [kind EXCEPT ![new] = kind[n]]
      /\ \A m \in Nodes \ {n, new} :
           ents'[m] = ents[m] /\ below'[m] = below[m] /\ beyond'[m] = beyond[m]
      /\ Elsewhere(t) /\ WordsGrow
  BY <1>1 DEF Halves
<1>3. PICK cov, lev : Layout(cov, lev) /\ \A r \in Threads : Knows(r, cov, lev)
  BY DEF SearchInv
<1>4. PICK cov2, lev2 : Parted(n, new, s, cov, lev, cov2, lev2)
  BY <1>2, <1>3, PartedRanges DEF Layout
<1>5. \A r \in Threads : Unseen(r)
  BY DEF SearchInv
<1>6. Layout(cov2, lev2)'
  BY <1>1, <1>3, <1>4, <1>5, SplitLayout
<1>7. \A r \in Threads : Unseen(r)'
  BY <1>1, <1>5, SplitUnseen
<1>8. Spares(t, cov, lev, cov2, lev2)
  <2>1. \A m \in Nodes : kind[m] # "free" => kind'[m] = kind[m] /\ m # new
    BY <1>2 DEF SafeInv, TypeOK
  <2>2. QED
    BY <1>2, <1>4, <2>1 DEF Spares, Parted
<1>9. \A r \in Threads \ {t} : Knows(r, cov2, lev2)'
  BY <1>3, <1>5, <1>8, OthersKnow
<1>10. Knows(t, cov2, lev2)'
  <2>1. KnowsHalves(t, cov2, lev2)'
    BY <1>1, <1>3, <1>4, SplitKnowsHalves
  <2>2. KnowsParent(t, cov2)' /\ KnowsRoot(t)' /\ KnowsLeaf(t, cov2)'
    BY <1>2 DEF KnowsParent, KnowsRoot, KnowsLeaf, AtRoot, BeyondRootCheck
  <2>3. QED
    BY <2>1, <2>2 DEF Knows
<1>11. QED
  BY <1>6, <1>7, <1>9, <1>10 DEF SearchInv

-------------------------------------------------------------------------------
\* When the halves are linked no search steps from one to the other any more.
LinksNow(t, n, new, s) ==
  /\ pc[t] = "link" /\ pc'[t] = "unlockNode"
  /\ n = node[t] /\ new = sibling[t] /\ s = sep[t]
  /\ node'[t] = n /\ parent'[t] = parent[t]
  /\ Elsewhere(t) /\ WordsGrow

\* Once it is linked a search steps to the sibling no more, elsewhere as before.
LEMMA RightwardsLink ==
  ASSUME LockInv, SafeInv, NEW t \in Threads, \A r \in Threads : Unseen(r),
         NEW n, NEW new, NEW s, LinksNow(t, n, new, s), n # new
  PROVE  /\ \A k : Rightwards(n, k) = IF k > s THEN new ELSE n
         /\ \A k : Rightwards(n, k)' = n
         /\ \A k : Rightwards(new, k) = new
         /\ \A x, k : x # n => Rightwards(x, k)' = Rightwards(x, k)
<1>1. /\ pc[t] = "link" /\ pc'[t] = "unlockNode" /\ n = node[t] /\ new = sibling[t] /\ s = sep[t]
      /\ \A r \in Threads \ {t} : /\ pc'[r] = pc[r] /\ node'[r] = node[r]
                                  /\ sibling'[r] = sibling[r] /\ sep'[r] = sep[r]
  BY DEF LinksNow, Elsewhere
<1>2. \A k : Rightwards(n, k) = IF k > s THEN new ELSE n
  BY <1>1, RightwardsOf
<1>3. \A r \in Threads \ {t} : pc[r] = "link" => node[r] # n
  BY <1>1, LinkingHeld, HeldByOne
<1>4. ASSUME NEW k PROVE Rightwards(n, k)' = n
  <2>1. Linking(n, k)' = {}
    BY <1>1, <1>3 DEF Linking
  <2>2. QED
    BY <2>1 DEF Rightwards
<1>5. ASSUME NEW k PROVE Rightwards(new, k) = new
  <2>1. \A r \in Threads : pc[r] = "link" => node[r] # new
    BY <1>1 DEF Unseen, NodeSeen, NodeHeld
  <2>2. QED
    BY <2>1, RightwardsSelf
<1>6. ASSUME NEW x, NEW k, x # n PROVE Rightwards(x, k)' = Rightwards(x, k)
  <2>1. \A r \in Threads : pc'[r] = "link" /\ node'[r] = x /\ k > sep'[r]
                           <=> pc[r] = "link" /\ node[r] = x /\ k > sep[r]
    BY <1>1, <1>6
  <2>2. Linking(x, k)' = Linking(x, k)
    BY <2>1 DEF Linking
  <2>3. Linking(x, k) # {} => (CHOOSE r \in Linking(x, k) : TRUE) \in Linking(x, k)
    OBVIOUS
  <2>4. \A r \in Linking(x, k) : sibling'[r] = sibling[r]
    BY <1>1, <1>6 DEF Linking
  <2>5. QED
    BY <2>2, <2>3, <2>4 DEF Rightwards
<1>7. QED
  BY <1>2, <1>4, <1>5, <1>6

\* A node that does not lead to the halves goes on to the same nodes.
LEMMA InnerKept ==
  ASSUME NEW m \in Nodes, NEW n, NEW cov, NEW lev, NEW cov2, NEW lev2, InnerOK(m, cov, lev),
         Seps(m)' = Seps(m), \A k : Child(m, k)' = Child(m, k),
         \A k \in cov[m] : Child(m, k) # n,
         \A x, k : x # n => Rightwards(x, k)' = Rightwards(x, k),
         cov2[m] = cov[m], lev2[m] = lev[m],
         \A c \in Nodes : kind[c] # "free" =>
           kind'[c] # "free" /\ cov2[c] = cov[c] /\ lev2[c] = lev[c]
  PROVE  InnerOK(m, cov2, lev2)'
<1>1. \A q \in Seps(m)' : q \in cov2[m]
  BY DEF InnerOK
<1>2. ASSUME NEW k \in cov2[m]
      PROVE  \E d \in Nodes : /\ d = Rightwards(Child(m, k), k)' /\ kind'[d] # "free"
                              /\ k \in cov2[d] /\ lev2[m] = lev2[d] + 1
                              /\ \A j \in cov2[d] : j \in cov2[m] /\ SameSlot(m, j, k)'
  <2>1. PICK x, d : x = Child(m, k) /\ d = Rightwards(x, k)
    OBVIOUS
  <2>2. /\ d \in Nodes /\ kind[d] # "free" /\ k \in cov[d] /\ lev[m] = lev[d] + 1
        /\ \A j \in cov[d] : j \in cov[m] /\ SameSlot(m, j, k)
    BY <2>1 DEF InnerOK, Allocated
  <2>3. d = Rightwards(x, k)' /\ x = Child(m, k)'
    BY <2>1
  <2>4. d = Rightwards(Child(m, k), k)'
    BY <2>3
  <2>5. \A j \in cov2[d] : j \in cov2[m] /\ SameSlot(m, j, k)'
    BY <2>2 DEF SameSlot
  <2>6. QED
    BY <2>2, <2>4, <2>5
<1>3. QED
  BY <1>1, <1>2 DEF InnerOK, Allocated

\* Nothing leads to the new halves of the other threads.
LEMMA LinkUnseen ==
  ASSUME LockInv, SafeInv, NEW t \in Threads, \A r \in Threads : Unseen(r),
         NEW n, NEW new, NEW s, LinksNow(t, n, new, s),
         root' = root \/ (root' \in Nodes /\ kind[root'] = "free"),
         \A p \in Nodes, k \in Nat : kind'[p] = "inner" =>
           Child(p, k)' \in {n, new} \/ (kind[p] = "inner" /\ Child(p, k)' = Child(p, k))
  PROVE  \A r \in Threads : Unseen(r)'
<1> SUFFICES ASSUME NEW r \in Threads, pc'[r] = "link" PROVE Unseen(r)'
  BY DEF Unseen
<1>1. r # t /\ pc[r] = "link" /\ pc[t] = "link" /\ n = node[t] /\ new = sibling[t] /\ Elsewhere(t)
      /\ pc'[t] # "link" /\ node'[t] = node[t] /\ parent'[t] = parent[t]
  BY DEF LinksNow, Elsewhere
<1>2. pc[t] \in WithNode
  BY <1>1 DEF WithNode, NodeSeen, NodeHeld
<1>3. sibling[r] # n /\ sibling[r] # new /\ sibling[r] # root
  BY <1>1, <1>2 DEF Unseen, WithNode
<1>4. kind[sibling[r]] # "free"
  BY <1>1, LinkingHeld
<1>5. root' # sibling[r]
  BY <1>3, <1>4
<1>6. \A p \in Nodes, k \in Nat : kind'[p] = "inner" => Child(p, k)' # sibling[r]
  BY <1>1, <1>3 DEF Unseen
<1>7. QED
  BY <1>1, <1>2, <1>5, <1>6, UnseenKept

\* The thread that has linked a node knows nothing.
LEMMA LinkKnows ==
  ASSUME NEW t \in Threads, pc'[t] = "unlockNode", NEW cov, NEW lev
  PROVE  Knows(t, cov, lev)'
BY DEF Knows, KnowsParent, KnowsRoot, KnowsLeaf, KnowsHalves, AtRoot, BeyondRootCheck

\* Where a new root leads.
LEMMA NewRootChildren ==
  ASSUME TypeOK, Shape, NEW t \in Threads, NEW r \in Nodes, r = NewNode, kind[r] = "free",
         NEW n \in Nodes, n = node[t], NEW new \in Nodes, new = sibling[t],
         NEW s \in Keys, s = sep[t], makeRoot(t)
  PROVE  /\ root' = r /\ kind' = [kind EXCEPT ![r] = "inner"] /\ UNCHANGED ents
         /\ \A m \in Nodes \ {r} : below'[m] = below[m] /\ beyond'[m] = beyond[m]
         /\ Seps(r)' = {s}
         /\ \A k \in Nat : Child(r, k)' = IF k > s THEN new ELSE n
<1>1. /\ kind' = [kind EXCEPT ![r] = "inner"]
      /\ below' = [below EXCEPT ![r][s] = n]
      /\ beyond' = [beyond EXCEPT ![r] = new]
      /\ root' = r /\ UNCHANGED ents
  BY DEF makeRoot
<1>2. \A k \in Keys : below[r][k] = None
  BY DEF Shape, NodeOK, Seps
<1>3. /\ beyond'[r] = new
      /\ \A k \in Keys : below'[r][k] = IF k = s THEN n ELSE None
      /\ \A m \in Nodes \ {r} : below'[m] = below[m] /\ beyond'[m] = beyond[m]
  BY <1>1, <1>2 DEF TypeOK
<1>4. Seps(r)' = {s}
  BY <1>3, NodesAssumption DEF Seps
<1>5. ASSUME NEW k \in Nat PROVE Child(r, k)' = IF k > s THEN new ELSE n
  <2>1. s \in Nat
    BY KeysAssumption
  <2>2. CASE k > s
    <3>1. \A q \in Seps(r)' : ~(q >= k)
      BY <1>4, <2>1, <2>2
    <3>2. Child(r, k)' = beyond'[r]
      BY <3>1 DEF Child
    <3>3. QED
      BY <1>3, <2>2, <3>2
  <2>3. CASE ~(k > s)
    <3>1. s \in Seps(r)' /\ s >= k /\ \A q \in Seps(r)' : q >= k => s <= q
      BY <1>4, <2>1, <2>3
    <3>2. Child(r, k)' = below'[r][s]
      BY <3>1, LaterChildAt
    <3>3. QED
      BY <1>3, <2>3, <3>2
  <2>4. QED
    BY <2>2, <2>3
<1>6. QED
  BY <1>1, <1>3, <1>4, <1>5

(***************************************************************************)
(* Where the parent leads once the new half is linked: the keys of the     *)
(* slot of the separator are divided between the halves, and for all other *)
(* keys nothing changes.                                                   *)
(***************************************************************************)
LEMMA SiblingChildren ==
  ASSUME TypeOK, NEW t \in Threads, NEW p \in Nodes, p = parent[t], IsFiniteSet(Seps(p)),
         NEW n \in Nodes, NEW new \in Nodes, new = sibling[t],
         NEW s \in Keys, s = sep[t], s \notin Seps(p), Child(p, s) = n, LinkSibling(t)
  PROVE  /\ UNCHANGED <<root, kind, ents>>
         /\ \A m \in Nodes \ {p} : below'[m] = below[m] /\ beyond'[m] = beyond[m]
         /\ Seps(p)' = Seps(p) \cup {s}
         /\ \A k \in Nat :
              Child(p, k)' = IF SameSlot(p, k, s) THEN IF k > s THEN new ELSE n
                             ELSE Child(p, k)
<1> DEFINE S == Seps(p)
           notBelow == {k \in S : k >= s}
           least == Least(notBelow)
<1>1. /\ UNCHANGED <<root, kind, ents>>
      /\ notBelow = {} => /\ below' = [below EXCEPT ![p][s] = n]
                          /\ beyond' = [beyond EXCEPT ![p] = new]
      /\ notBelow # {} => /\ below' = [below EXCEPT ![p][least] = new, ![p][s] = n]
                          /\ beyond' = beyond
  BY DEF LinkSibling
<1>2. /\ s \in Nat /\ \A q \in S : q \in Keys /\ q \in Nat
      /\ n # None /\ new # None
  BY KeysAssumption, KeysAreNumbers, NodesAssumption
<1>3. notBelow # {} => /\ least \in S /\ least > s
                       /\ \A q \in S : q >= s => least <= q
  <2>1. IsFiniteSet(notBelow) /\ \A q \in notBelow : q \in Nat
    BY <1>2, FS_Subset
  <2>2. notBelow # {} => least \in notBelow /\ \A q \in notBelow : least <= q
    <3> HIDE DEF notBelow
    <3>1. QED
      BY <2>1, LeastOf
  <2>3. QED
    BY <1>2, <2>2
<1>4. notBelow = {} <=> \A q \in S : ~(q >= s)
  OBVIOUS
<1> HIDE DEF notBelow, least
<1>5. \A m \in Nodes \ {p} : below'[m] = below[m] /\ beyond'[m] = beyond[m]
  BY <1>1 DEF TypeOK
<1>6. /\ below'[p][s] = n
      /\ notBelow = {} => /\ beyond'[p] = new
                          /\ \A q \in Keys \ {s} : below'[p][q] = below[p][q]
      /\ notBelow # {} => /\ beyond'[p] = beyond[p] /\ below'[p][least] = new
                          /\ \A q \in Keys \ {s, least} : below'[p][q] = below[p][q]
  <2>1. CASE notBelow = {}
    BY <1>1, <2>1 DEF TypeOK
  <2>2. CASE notBelow # {}
    <3> DEFINE row == [below[p] EXCEPT ![least] = new, ![s] = n]
    <3>1. least \in Keys /\ least # s
      BY <1>2, <1>3, <2>2
    <3>2. /\ row[s] = n /\ row[least] = new
          /\ \A q \in Keys \ {s, least} : row[q] = below[p][q]
      BY <3>1 DEF TypeOK
    <3>3. below' = [below EXCEPT ![p] = row]
      BY <1>1, <2>2 DEF TypeOK
    <3> HIDE DEF row
    <3>4. below'[p] = row /\ beyond'[p] = beyond[p]
      BY <1>1, <2>2, <3>3 DEF TypeOK
    <3>5. QED
      BY <2>2, <3>2, <3>4
  <2>3. QED
    BY <2>1, <2>2
<1>7. Seps(p)' = S \cup {s}
  <2>1. ASSUME NEW q \in Keys PROVE q \in Seps(p)' <=> q \in S \cup {s}
    <3>1. q \in Seps(p)' <=> below'[p][q] # None
      BY DEF Seps
    <3>2. q \in S <=> below[p][q] # None
      BY DEF Seps
    <3>3. CASE q = s
      BY <1>2, <1>6, <3>1, <3>3
    <3>4. CASE q # s /\ notBelow # {} /\ q = least
      BY <1>2, <1>3, <1>6, <3>1, <3>4
    <3>5. CASE q # s /\ ~(notBelow # {} /\ q = least)
      BY <1>6, <3>1, <3>2, <3>5
    <3>6. QED
      BY <3>3, <3>4, <3>5
  <2>2. \A q \in Seps(p)' : q \in Keys
    BY DEF Seps
  <2>3. QED
    BY <1>2, <2>1, <2>2
<1>8. ASSUME NEW k \in Nat, SameSlot(p, k, s) PROVE Child(p, k)' = IF k > s THEN new ELSE n
  <2>1. \A q \in S : k <= q <=> s <= q
    BY <1>8 DEF SameSlot
  <2>2. CASE ~(k > s)
    <3>1. s \in Seps(p)' /\ s >= k /\ \A q \in Seps(p)' : q >= k => s <= q
      BY <1>2, <1>7, <2>1, <2>2
    <3>2. Child(p, k)' = below'[p][s]
      BY <3>1, LaterChildAt
    <3>3. QED
      BY <1>6, <2>2, <3>2
  <2>3. CASE k > s /\ notBelow = {}
    <3>1. \A q \in Seps(p)' : ~(q >= k)
      BY <1>2, <1>4, <1>7, <2>1, <2>3
    <3>2. Child(p, k)' = beyond'[p]
      BY <3>1 DEF Child
    <3>3. QED
      BY <1>6, <2>3, <3>2
  <2>4. CASE k > s /\ notBelow # {}
    <3>1. least \in Seps(p)' /\ least >= k
      BY <1>2, <1>3, <1>7, <2>1, <2>4
    <3>2. \A q \in Seps(p)' : q >= k => least <= q
      BY <1>2, <1>3, <1>7, <2>1, <2>4
    <3>3. Child(p, k)' = below'[p][least]
      BY <3>1, <3>2, LaterChildAt
    <3>4. QED
      BY <1>6, <2>4, <3>3
  <2>5. QED
    BY <2>2, <2>3, <2>4
<1>9. ASSUME NEW k \in Nat, ~SameSlot(p, k, s) PROVE Child(p, k)' = Child(p, k)
  <2>1. CASE \A q \in S : ~(q >= k)
    <3>1. PICK q \in S : s <= q /\ ~(k <= q)
      BY <1>9, <2>1 DEF SameSlot
    <3>2. s < k /\ notBelow # {}
      BY <1>2, <1>4, <3>1
    <3>3. \A r \in Seps(p)' : ~(r >= k)
      BY <1>2, <1>7, <2>1, <3>2
    <3>4. Child(p, k)' = beyond'[p]
      BY <3>3 DEF Child
    <3>5. Child(p, k) = beyond[p]
      BY <2>1, ChildBeyond
    <3>6. QED
      BY <1>6, <3>2, <3>4, <3>5
  <2>2. CASE \E q \in S : q >= k /\ \A r \in S : r >= k => q <= r
    <3>1. PICK f \in S : f >= k /\ \A r \in S : r >= k => f <= r
      BY <2>2
    <3>2. f \in Nat /\ f \in Keys /\ f # s
      BY <1>2
    <3>3. ~(k <= s /\ s <= f)
      <4> SUFFICES ASSUME k <= s, s <= f PROVE FALSE
        OBVIOUS
      <4>1. \A r \in S : k <= r <=> s <= r
        BY <1>2, <3>1, <3>2
      <4>2. QED
        BY <1>9, <4>1 DEF SameSlot
    <3>4. f \in Seps(p)' /\ \A r \in Seps(p)' : r >= k => f <= r
      BY <1>2, <1>7, <3>1, <3>2, <3>3
    <3>5. Child(p, k) = below[p][f]
      BY <3>1, ChildAt
    <3>6. Child(p, k)' = below'[p][f]
      BY <3>1, <3>4, LaterChildAt
    <3>7. ~(notBelow # {} /\ f = least)
      <4> SUFFICES ASSUME notBelow # {}, f = least PROVE FALSE
        OBVIOUS
      <4>1. f > s /\ \A q \in S : q >= s => f <= q
        BY <1>3
      <4>2. \A r \in S : k <= r <=> s <= r
        BY <1>2, <3>1, <3>2, <4>1
      <4>3. QED
        BY <1>9, <4>2 DEF SameSlot
    <3>8. QED
      BY <1>6, <3>2, <3>5, <3>6, <3>7
  <2>3. QED
    BY <2>1, <2>2, ChildCases
<1>10. QED
  BY <1>1, <1>5, <1>7, <1>8, <1>9

\* Linking the halves of the root under a new one keeps the search invariant.
LEMMA NewRootSearch ==
  ASSUME LockInv, SafeInv, SafeInv', SearchInv, NEW t \in Threads, Link(t), parent[t] = None
  PROVE  SearchInv'
<1> USE ThreadParts
<1>1. PICK n, new, s : n = node[t] /\ new = sibling[t] /\ s = sep[t]
  OBVIOUS
<1>2. /\ pc[t] = "link" /\ pc' = [pc EXCEPT ![t] = "unlockNode"]
      /\ sibling' = [sibling EXCEPT ![t] = None] /\ sep' = [sep EXCEPT ![t] = 0]
      /\ UNCHANGED <<word, search, result, bound>> /\ makeRoot(t)
  BY DEF Link, Goto
<1>3. /\ n \in Nodes /\ kind[n] # "free" /\ n \in Holds(t)
      /\ new \in Nodes /\ kind[new] # "free" /\ s \in Keys /\ s \in Nat
  BY <1>1, <1>2, LinkingHeld
<1>4. PICK r \in Nodes : r = NewNode /\ kind[r] = "free"
  BY DEF Link, NewNode, Free
<1>5. /\ root' = r /\ kind' = [kind EXCEPT ![r] = "inner"] /\ UNCHANGED ents
      /\ \A m \in Nodes \ {r} : below'[m] = below[m] /\ beyond'[m] = beyond[m]
      /\ Seps(r)' = {s}
      /\ \A k \in Nat : Child(r, k)' = IF k > s THEN new ELSE n
  BY <1>1, <1>2, <1>3, <1>4, NewRootChildren
<1>6. kind'[r] = "inner" /\ \A m \in Nodes \ {r} : kind'[m] = kind[m]
  BY <1>5 DEF TypeOK
<1>7. LinksNow(t, n, new, s)
  <2>1. Elsewhere(t) /\ pc'[t] = "unlockNode" /\ node'[t] = node[t] /\ parent'[t] = parent[t]
    BY <1>2 DEF TypeOK, Elsewhere, search, result, bound
  <2>2. QED
    BY <1>1, <1>2, <2>1, SameWords DEF LinksNow, TypeOK
<1>8. \A q \in Threads : Unseen(q)
  BY DEF SearchInv
<1>9. PICK cov, lev : Layout(cov, lev) /\ \A q \in Threads : Knows(q, cov, lev)
  BY DEF SearchInv
<1>10. /\ n # new /\ lev[n] = lev[new] /\ root = n
       /\ \A j \in cov[n] : j <= s
       /\ \A j \in cov[new] : j > s
       /\ \A j \in Nat : j \in cov[n] \/ j \in cov[new]
  <2>1. Knows(t, cov, lev)
    BY <1>9
  <2>2. QED
    BY <1>1, <1>2, <2>1 DEF Knows, KnowsHalves
<1>11. /\ cov \in [Nodes -> SUBSET Nat] /\ lev \in [Nodes -> Nat]
       /\ lev[n] \in Nat
       /\ \A m \in Nodes : kind[m] # "free" => lev[m] <= lev[n]
  BY <1>3, <1>9, <1>10 DEF Layout, RootOK
<1>12. /\ \A k : Rightwards(n, k) = IF k > s THEN new ELSE n
       /\ \A k : Rightwards(n, k)' = n
       /\ \A k : Rightwards(new, k) = new
       /\ \A x, k : x # n => Rightwards(x, k)' = Rightwards(x, k)
  BY <1>7, <1>8, <1>10, RightwardsLink
<1>13. PICK cov2, lev2 :
         /\ cov2 \in [Nodes -> SUBSET Nat] /\ lev2 \in [Nodes -> Nat]
         /\ cov2[r] = Nat /\ lev2[r] = lev[n] + 1
         /\ \A m \in Nodes \ {r} : cov2[m] = cov[m] /\ lev2[m] = lev[m]
  <2>1. WITNESS [cov EXCEPT ![r] = Nat], [lev EXCEPT ![r] = lev[n] + 1]
  <2>2. [cov EXCEPT ![r] = Nat] \in [Nodes -> SUBSET Nat]
    BY <1>11
  <2>3. lev[n] + 1 \in Nat
    BY <1>11
  <2>4. [lev EXCEPT ![r] = lev[n] + 1] \in [Nodes -> Nat]
    BY <1>11, <2>3
  <2>5. QED
    BY <1>11, <2>2, <2>4
<1>14. Layout(cov2, lev2)'
  <2>1. n # r /\ new # r
    BY <1>3, <1>4
  <2>2. \A k : Rightwards(r, k)' = r
    <3>1. \A q \in Threads : pc[q] = "link" => node[q] # r
      BY <1>4, LinkingHeld
    <3>2. QED
      BY <1>12, <2>1, <3>1, RightwardsSelf
  <2>3. RootOK(cov2, lev2)'
    <3>1. \A m \in Nodes : kind'[m] # "free" => lev2[m] <= lev2[r]
      BY <1>6, <1>11, <1>13
    <3>2. QED
      BY <1>5, <1>6, <1>13, <2>2, <3>1 DEF RootOK, Allocated
  <2>4. InnerOK(r, cov2, lev2)'
    <3>1. ASSUME NEW k \in Nat
          PROVE  \E d \in Nodes : /\ d = Rightwards(Child(r, k), k)' /\ kind'[d] # "free"
                                  /\ k \in cov2[d] /\ lev2[r] = lev2[d] + 1
                                  /\ \A j \in cov2[d] : j \in Nat /\ SameSlot(r, j, k)'
      <4>1. PICK d \in {n, new} : d = IF k > s THEN new ELSE n
        OBVIOUS
      <4>2. d = Child(r, k)' /\ Rightwards(d, k)' = d
        BY <1>5, <1>10, <1>12, <4>1
      <4>3. d = Rightwards(Child(r, k), k)'
        BY <4>2
      <4>4. d \in Nodes /\ kind'[d] # "free" /\ cov2[d] = cov[d] /\ lev2[r] = lev2[d] + 1
        BY <1>3, <1>6, <1>10, <1>13, <2>1
      <4>5. \A j \in cov[d] : j \in Nat
        BY <1>3, <1>11
      <4>6. k \in cov[d]
        BY <1>3, <1>10, <4>1
      <4>7. \A j \in cov[d] : j <= s <=> k <= s
        BY <1>3, <1>10, <4>1, <4>5
      <4>8. \A j \in cov[d] : SameSlot(r, j, k)'
        BY <1>5, <4>7 DEF SameSlot
      <4>9. QED
        BY <4>3, <4>4, <4>5, <4>6, <4>8
    <3>2. \A q \in Seps(r)' : q \in cov2[r]
      BY <1>3, <1>5, <1>13
    <3>3. QED
      BY <1>13, <3>1, <3>2 DEF InnerOK, Allocated
  <2>5. ASSUME NEW m \in Nodes \ {r}, kind[m] = "inner" PROVE InnerOK(m, cov2, lev2)'
    <3>1. InnerOK(m, cov, lev)
      BY <1>9, <2>5 DEF Layout
    <3>2. Seps(m)' = Seps(m) /\ \A k : Child(m, k)' = Child(m, k)
      <4>1. below'[m] = below[m] /\ beyond'[m] = beyond[m]
        BY <1>5, <2>5
      <4>2. QED
        BY <4>1 DEF Seps, Child
    <3>3. ASSUME NEW k \in cov[m], Child(m, k) = n PROVE FALSE
      <4>1. lev[m] = lev[n] + 1
        BY <1>10, <1>12, <3>1, <3>3 DEF InnerOK
      <4>2. lev[m] <= lev[n] /\ lev[n] \in Nat
        BY <1>11, <2>5
      <4>3. QED
        BY <4>1, <4>2
    <3>4. \A c \in Nodes : kind[c] # "free" =>
            kind'[c] # "free" /\ cov2[c] = cov[c] /\ lev2[c] = lev[c]
      BY <1>4, <1>6, <1>13
    <3>5. \A k \in cov[m] : Child(m, k) # n
      BY <3>3
    <3>6. cov2[m] = cov[m] /\ lev2[m] = lev[m]
      BY <1>13, <2>5
    <3>7. \A x, k : x # n => Rightwards(x, k)' = Rightwards(x, k)
      BY <1>12
    <3>8. QED
      BY <3>1, <3>2, <3>4, <3>5, <3>6, <3>7, InnerKept
  <2>6. ASSUME NEW m \in Nodes, kind'[m] = "leaf" PROVE LeafOK(m, cov2, lev2)'
    <3>1. m # r /\ LeafOK(m, cov, lev)
      BY <1>6, <1>9, <2>6 DEF Layout
    <3>2. EntryKeys(m)' = EntryKeys(m) /\ cov2[m] = cov[m] /\ lev2[m] = lev[m]
      BY <1>5, <1>13, <3>1 DEF EntryKeys
    <3>3. QED
      BY <3>1, <3>2 DEF LeafOK
  <2>7. Disjoint(cov2, lev2)' /\ Convex(cov2)'
    <3>1. \A m \in Nodes \ {r} : kind'[m] # "free" => lev2[m] # lev2[r]
      BY <1>6, <1>11, <1>13
    <3>2. Disjoint(cov2, lev2)'
      BY <1>6, <1>9, <1>13, <3>1 DEF Layout, Disjoint
    <3>3. Convex(cov2)'
      BY <1>6, <1>9, <1>13 DEF Layout, Convex
    <3>4. QED
      BY <3>2, <3>3
  <2>8. IsFiniteSet(Inner')
    <3>1. IsFiniteSet(Inner)
      BY <1>9 DEF Layout
    <3>2. IsFiniteSet(Inner \cup {r})
      BY <3>1, FS_AddElement
    <3>3. Inner' \subseteq Inner \cup {r}
      BY <1>6 DEF Inner
    <3>4. QED
      BY <3>2, <3>3, FS_Subset
  <2>9. QED
    BY <1>6, <1>13, <2>3, <2>4, <2>5, <2>6, <2>7, <2>8 DEF Layout
<1>15. \A q \in Threads : Unseen(q)'
  <2>1. \A p \in Nodes, k \in Nat : kind'[p] = "inner" =>
           Child(p, k)' \in {n, new} \/ (kind[p] = "inner" /\ Child(p, k)' = Child(p, k))
    <3> SUFFICES ASSUME NEW p \in Nodes, NEW k \in Nat, kind'[p] = "inner"
                 PROVE  Child(p, k)' \in {n, new}
                        \/ (kind[p] = "inner" /\ Child(p, k)' = Child(p, k))
      OBVIOUS
    <3>1. CASE p = r
      BY <1>5, <3>1
    <3>2. CASE p # r
      <4>1. below'[p] = below[p] /\ beyond'[p] = beyond[p] /\ kind[p] = "inner"
        BY <1>5, <1>6, <3>2
      <4>2. QED
        BY <4>1 DEF Child, Seps
    <3>3. QED
      BY <3>1, <3>2
  <2>2. QED
    BY <1>4, <1>5, <1>7, <1>8, <2>1, LinkUnseen
<1>16. Spares(t, cov, lev, cov2, lev2)
  BY <1>3, <1>4, <1>5, <1>6, <1>7, <1>10, <1>13 DEF Spares, LinksNow
<1>17. \A q \in Threads \ {t} : Knows(q, cov2, lev2)'
  BY <1>8, <1>9, <1>16, OthersKnow
<1>18. Knows(t, cov2, lev2)'
  BY <1>7, LinkKnows DEF LinksNow
<1>19. QED
  BY <1>14, <1>15, <1>17, <1>18 DEF SearchInv

\* Linking the halves of a node under its parent keeps the search invariant.
LEMMA SiblingSearch ==
  ASSUME LockInv, SafeInv, SafeInv', SearchInv, NEW t \in Threads, Link(t), parent[t] # None
  PROVE  SearchInv'
<1> USE ThreadParts
<1>1. PICK n, new, s, p : n = node[t] /\ new = sibling[t] /\ s = sep[t] /\ p = parent[t]
  OBVIOUS
<1>2. /\ pc[t] = "link" /\ pc' = [pc EXCEPT ![t] = "unlockNode"]
      /\ sibling' = [sibling EXCEPT ![t] = None] /\ sep' = [sep EXCEPT ![t] = 0]
      /\ UNCHANGED <<word, search, result, bound>> /\ LinkSibling(t)
  BY DEF Link, Goto
<1>3. /\ n \in Nodes /\ kind[n] # "free" /\ n \in Holds(t)
      /\ new \in Nodes /\ kind[new] # "free" /\ s \in Keys /\ s \in Nat
      /\ p \in Nodes /\ p \in Holds(t) /\ kind[p] = "inner" /\ p # n /\ p # None
  BY <1>1, <1>2, LinkingHeld
<1>4. PICK cov, lev : Layout(cov, lev) /\ \A q \in Threads : Knows(q, cov, lev)
  BY DEF SearchInv
<1>5. /\ n # new /\ lev[n] = lev[new] /\ lev[p] = lev[n] + 1 /\ Child(p, s) = n
      /\ s \in cov[n] /\ \E j \in Nat : j \in cov[new]
      /\ \A j \in cov[n] : j <= s
      /\ \A j \in cov[new] : j > s
      /\ \A j \in Nat : j \in cov[n] \/ j \in cov[new] => j \in cov[p] /\ SameSlot(p, j, s)
  <2>1. Knows(t, cov, lev)
    BY <1>4
  <2>2. QED
    BY <1>1, <1>2, <1>3, <2>1 DEF Knows, KnowsHalves
<1>6. /\ cov \in [Nodes -> SUBSET Nat] /\ lev \in [Nodes -> Nat] /\ lev[n] \in Nat
      /\ \A m \in Nodes : \A j \in cov[m] : j \in Nat
  BY <1>3, <1>4 DEF Layout
<1>7. s \notin Seps(p)
  <2>1. PICK j \in Nat : j \in cov[new] /\ j > s /\ SameSlot(p, j, s)
    BY <1>5
  <2>2. QED
    BY <1>3, <2>1 DEF SameSlot
<1>8. /\ UNCHANGED <<root, kind, ents>>
      /\ \A m \in Nodes \ {p} : below'[m] = below[m] /\ beyond'[m] = beyond[m]
      /\ Seps(p)' = Seps(p) \cup {s}
      /\ \A k \in Nat :
           Child(p, k)' = IF SameSlot(p, k, s) THEN IF k > s THEN new ELSE n
                          ELSE Child(p, k)
  <2>1. IsFiniteSet(Seps(p))
    BY <1>3 DEF Shape, NodeOK
  <2>2. QED
    BY <1>1, <1>2, <1>3, <1>5, <1>7, <2>1, SiblingChildren
<1>9. LinksNow(t, n, new, s)
  <2>1. Elsewhere(t) /\ pc'[t] = "unlockNode" /\ node'[t] = node[t] /\ parent'[t] = parent[t]
    BY <1>2 DEF TypeOK, Elsewhere, search, result, bound
  <2>2. QED
    BY <1>1, <1>2, <2>1, SameWords DEF LinksNow, TypeOK
<1>10. \A q \in Threads : Unseen(q)
  BY DEF SearchInv
<1>11. /\ \A k : Rightwards(n, k) = IF k > s THEN new ELSE n
       /\ \A k : Rightwards(n, k)' = n
       /\ \A k : Rightwards(new, k) = new
       /\ \A x, k : x # n => Rightwards(x, k)' = Rightwards(x, k)
  BY <1>5, <1>9, <1>10, RightwardsLink
\* Only the slot of the separator in the parent leads to the halves.
<1>12. ASSUME NEW m \in Nodes, kind[m] = "inner", NEW k \in cov[m], Child(m, k) = n
       PROVE  m = p /\ SameSlot(p, k, s)
  <2>1. InnerOK(m, cov, lev)
    BY <1>4, <1>12 DEF Layout
  <2>2. PICK c \in {n, new} : c = Rightwards(n, k)
    BY <1>11
  <2>3. k \in cov[c] /\ lev[m] = lev[c] + 1
    BY <1>12, <2>1, <2>2 DEF InnerOK
  <2>4. k \in Nat /\ k \in cov[p] /\ SameSlot(p, k, s) /\ lev[m] = lev[p]
    BY <1>5, <1>6, <2>2, <2>3
  <2>5. m = p
    BY <1>3, <1>4, <1>12, <2>4 DEF Layout, Disjoint
  <2>6. QED
    BY <2>4, <2>5
<1>13. Layout(cov, lev)'
  <2>1. RootOK(cov, lev)'
    <3>1. RootOK(cov, lev)
      BY <1>4 DEF Layout
    <3>2. root # n
      BY <1>3, <1>5, <1>6, <3>1 DEF RootOK
    <3>3. \A k : Rightwards(root, k)' = Rightwards(root, k)
      BY <1>8, <1>11, <3>2
    <3>4. QED
      BY <1>8, <3>1, <3>3 DEF RootOK, Allocated
  <2>2. InnerOK(p, cov, lev)'
    <3>1. InnerOK(p, cov, lev)
      BY <1>3, <1>4 DEF Layout
    <3>2. \A q \in Seps(p)' : q \in cov[p]
      BY <1>3, <1>5, <1>8, <3>1 DEF InnerOK
    <3>3. ASSUME NEW k \in cov[p]
          PROVE  \E d \in Nodes : /\ d = Rightwards(Child(p, k), k)' /\ kind'[d] # "free"
                                  /\ k \in cov[d] /\ lev[p] = lev[d] + 1
                                  /\ \A j \in cov[d] : j \in cov[p] /\ SameSlot(p, j, k)'
      <4>1. k \in Nat
        BY <1>3, <1>6
      <4>2. PICK x, d : x = Child(p, k) /\ d = Rightwards(x, k)
        OBVIOUS
      <4>3. /\ d \in Nodes /\ kind[d] # "free" /\ k \in cov[d] /\ lev[p] = lev[d] + 1
            /\ \A j \in cov[d] : j \in cov[p] /\ SameSlot(p, j, k)
        BY <3>1, <4>2 DEF InnerOK, Allocated
      <4>4. d = Rightwards(Child(p, k), k)' /\ \A j \in cov[d] : j <= s <=> k <= s
        <5>1. CASE SameSlot(p, k, s)
          <6>1. x = n
            BY <1>3, <1>5, <4>1, <4>2, <5>1, SameSlotSameChild
          <6>2. d = (IF k > s THEN new ELSE n) /\ d = Child(p, k)'
            BY <1>8, <1>11, <4>1, <4>2, <5>1, <6>1
          <6>3. Rightwards(d, k)' = d
            BY <1>5, <1>11, <6>2
          <6>4. d = Rightwards(Child(p, k), k)'
            BY <6>2, <6>3
          <6>5. \A j \in cov[d] : j \in Nat
            BY <1>6, <4>3
          <6>6. \A j \in cov[d] : j <= s <=> k <= s
            BY <1>3, <1>5, <4>1, <6>2, <6>5
          <6>7. QED
            BY <6>4, <6>6
        <5>2. CASE ~SameSlot(p, k, s)
          <6>1. x # n
            BY <1>3, <1>12, <4>2, <5>2
          <6>2. x = Child(p, k)' /\ Rightwards(x, k)' = d
            BY <1>8, <1>11, <4>1, <4>2, <5>2, <6>1
          <6>3. d = Rightwards(Child(p, k), k)'
            BY <6>2
          <6>4. ASSUME NEW j \in cov[d], ~(j <= s <=> k <= s) PROVE FALSE
            <7>1. j \in Nat /\ \A q \in Seps(p) : q \in Nat /\ (j <= q <=> k <= q)
              BY <1>6, <4>3, KeysAreNumbers DEF SameSlot
            <7>2. \A q \in Seps(p) : k <= q <=> s <= q
              BY <1>3, <4>1, <6>4, <7>1
            <7>3. QED
              BY <5>2, <7>2 DEF SameSlot
          <6>5. QED
            BY <6>3, <6>4
        <5>3. QED
          BY <5>1, <5>2
      <4>5. \A j \in cov[d] : SameSlot(p, j, k)'
        BY <1>8, <4>3, <4>4 DEF SameSlot
      <4>6. QED
        BY <1>8, <4>3, <4>4, <4>5
    <3>4. QED
      BY <3>2, <3>3 DEF InnerOK, Allocated
  <2>3. ASSUME NEW m \in Nodes \ {p}, kind[m] = "inner" PROVE InnerOK(m, cov, lev)'
    <3>1. InnerOK(m, cov, lev)
      BY <1>4, <2>3 DEF Layout
    <3>2. Seps(m)' = Seps(m) /\ \A k : Child(m, k)' = Child(m, k)
      BY <1>8 DEF Seps, Child
    <3>3. \A k \in cov[m] : Child(m, k) # n
      BY <1>12, <2>3
    <3>4. QED
      BY <1>8, <1>11, <3>1, <3>2, <3>3, InnerKept
  <2>4. ASSUME NEW m \in Nodes, kind[m] = "leaf" PROVE LeafOK(m, cov, lev)'
    <3>1. LeafOK(m, cov, lev) /\ EntryKeys(m)' = EntryKeys(m)
      BY <1>4, <1>8, <2>4 DEF Layout, EntryKeys
    <3>2. QED
      BY <3>1 DEF LeafOK
  <2>5. Disjoint(cov, lev)' /\ Convex(cov)' /\ IsFiniteSet(Inner)'
    BY <1>4, <1>8 DEF Layout, Disjoint, Convex, Inner
  <2>6. QED
    BY <1>6, <1>8, <2>1, <2>2, <2>3, <2>4, <2>5 DEF Layout
<1>14. \A q \in Threads : Unseen(q)'
  <2>1. \A m \in Nodes, k \in Nat : kind'[m] = "inner" =>
           Child(m, k)' \in {n, new} \/ (kind[m] = "inner" /\ Child(m, k)' = Child(m, k))
    <3> SUFFICES ASSUME NEW m \in Nodes, NEW k \in Nat, kind'[m] = "inner"
                 PROVE  Child(m, k)' \in {n, new}
                        \/ (kind[m] = "inner" /\ Child(m, k)' = Child(m, k))
      OBVIOUS
    <3>1. CASE m = p
      BY <1>8, <3>1
    <3>2. CASE m # p
      BY <1>8, <3>2 DEF Child, Seps
    <3>3. QED
      BY <3>1, <3>2
  <2>2. QED
    BY <1>8, <1>9, <1>10, <2>1, LinkUnseen
<1>15. Spares(t, cov, lev, cov, lev)
  BY <1>3, <1>8, <1>9 DEF Spares, LinksNow
<1>16. \A q \in Threads \ {t} : Knows(q, cov, lev)'
  BY <1>4, <1>10, <1>15, OthersKnow
<1>17. Knows(t, cov, lev)'
  BY <1>9, LinkKnows DEF LinksNow
<1>18. QED
  BY <1>13, <1>14, <1>16, <1>17 DEF SearchInv

\* Every step that splits a node keeps the search invariant.
LEMMA SplitFullSearch ==
  ASSUME LockInv, SafeInv, SafeInv', SearchInv, NEW t \in Threads, SplitFull(t)
  PROVE  SearchInv'
<1>1. CASE GiveBackParent(t) \/ GiveBackNode(t) \/ UnlockParent(t)
  BY <1>1, UnlockAndRestartSearch DEF GiveBackParent, GiveBackNode, UnlockParent
<1>2. CASE Split(t) \/ Link(t)
  BY <1>2, SplitSearch, NewRootSearch, SiblingSearch
<1>3. CASE LockParent(t) \/ LockNode(t) \/ RecheckRoot(t) \/ UnlockNode(t)
  BY <1>3, LockParentSearch, LockNodeSearch, RecheckRootSearch, UnlockNodeSearch
<1>4. QED
  BY <1>1, <1>2, <1>3 DEF SplitFull

\* A step that changes nothing keeps the search invariant.
LEMMA StutterSearch ==
  ASSUME SearchInv, UNCHANGED vars
  PROVE  SearchInv'
<1>1. UNCHANGED <<tree, word, pc, search, sibling, sep, result, bound>>
  BY DEF vars
<1>2. /\ root' = root /\ kind' = kind /\ pc' = pc /\ node' = node /\ parent' = parent
      /\ sibling' = sibling /\ sep' = sep /\ from' = from /\ word' = word
      /\ versionNode' = versionNode /\ versionParent' = versionParent
      /\ \A n, k : Child(n, k)' = Child(n, k)
      /\ \A n : Seps(n)' = Seps(n)
  BY <1>1 DEF tree, search, result, Child, Seps
<1>3. \A t \in Threads : Unseen(t)'
  BY <1>2 DEF SearchInv, Unseen
<1>4. PICK cov, lev : Layout(cov, lev) /\ \A t \in Threads : Knows(t, cov, lev)
  BY DEF SearchInv
<1>5. LinkersStay
  BY <1>2 DEF LinkersStay
<1>6. Layout(cov, lev)'
  BY <1>1, <1>4, <1>5, LayoutStays
<1>7. ASSUME NEW t \in Threads PROVE Knows(t, cov, lev)'
  <2>1. PICK n, new, p, s, k :
          n = node[t] /\ new = sibling[t] /\ p = parent[t] /\ s = sep[t] /\ k = from[t]
    OBVIOUS
  <2>2. /\ n = node'[t] /\ new = sibling'[t] /\ p = parent'[t] /\ s = sep'[t] /\ k = from'[t]
        /\ (NodeCurrent(t)' <=> NodeCurrent(t)) /\ (ParentCurrent(t)' <=> ParentCurrent(t))
    BY <1>2, <2>1 DEF NodeCurrent, ParentCurrent
  <2>3. Child(p, k)' = Child(p, k) /\ Child(p, s)' = Child(p, s) /\ Seps(p)' = Seps(p)
    BY <1>2
  <2>4. Knows(t, cov, lev)
    BY <1>4
  <2>5. KnowsParent(t, cov)' /\ KnowsRoot(t)' /\ KnowsLeaf(t, cov)'
    BY <1>2, <2>1, <2>2, <2>3, <2>4 DEF Knows, KnowsParent, KnowsRoot, KnowsLeaf
  <2>6. KnowsHalves(t, cov, lev)'
    BY <1>2, <2>1, <2>2, <2>3, <2>4 DEF Knows, KnowsHalves, SameSlot
  <2>7. QED
    BY <2>5, <2>6 DEF Knows
<1>8. QED
  BY <1>3, <1>6, <1>7 DEF SearchInv

\* At first the one leaf covers all keys.
LEMMA InitSearch == Init => SearchInv
<1> SUFFICES ASSUME Init PROVE SearchInv
  OBVIOUS
<1>1. /\ FirstNode \in Nodes /\ root = FirstNode
      /\ \A n \in Nodes : kind[n] = IF n = FirstNode THEN "leaf" ELSE "free"
      /\ \A n \in Nodes : EntryKeys(n) = {}
      /\ \A t \in Threads : pc[t] = "idle" /\ parent[t] = None
  BY NodesAssumption DEF Init, FirstNode, EntryKeys, NoEntries
<1>2. \A t \in Threads : Unseen(t)
  BY <1>1 DEF Unseen
<1>3. PICK cov, lev : /\ cov = [n \in Nodes |-> IF n = FirstNode THEN Nat ELSE {}]
                      /\ lev = [n \in Nodes |-> 0]
  OBVIOUS
<1>4. cov \in [Nodes -> SUBSET Nat] /\ lev \in [Nodes -> Nat]
  BY <1>3
<1>5. IsFiniteSet(Inner)
  <2>1. Inner = {}
    BY <1>1 DEF Inner
  <2>2. QED
    BY <2>1, FS_EmptySet
<1>6. RootOK(cov, lev)
  <2>1. \A k : Rightwards(root, k) = root
    BY <1>1, RightwardsSelf
  <2>2. QED
    BY <1>1, <1>3, <2>1 DEF RootOK, Allocated
<1>7. ASSUME NEW n \in Nodes
      PROVE  /\ kind[n] = "inner" => InnerOK(n, cov, lev)
             /\ kind[n] = "leaf" => LeafOK(n, cov, lev)
  <2>1. kind[n] = "leaf" => cov[n] = Nat /\ lev[n] = 0 /\ EntryKeys(n) = {}
    BY <1>1, <1>3
  <2>2. QED
    BY <1>1, <2>1 DEF LeafOK
<1>8. Disjoint(cov, lev) /\ Convex(cov)
  BY <1>1, <1>3 DEF Disjoint, Convex
<1>9. Layout(cov, lev)
  BY <1>4, <1>5, <1>6, <1>7, <1>8 DEF Layout
<1>10. \A t \in Threads : Knows(t, cov, lev)
  BY <1>1 DEF Knows, KnowsParent, KnowsRoot, KnowsLeaf, KnowsHalves, AtRoot, BeyondRootCheck
<1>11. QED
  BY <1>2, <1>9, <1>10 DEF SearchInv

\* Every step keeps the search invariant.
LEMMA NextSearch == LockInv /\ SafeInv /\ SearchInv /\ [Next]_vars => SearchInv'
<1> SUFFICES ASSUME LockInv, SafeInv, SearchInv, [Next]_vars PROVE SearchInv'
  OBVIOUS
<1>1. SafeInv'
  BY NextSafe
<1>2. ASSUME NEW t \in Threads, Step(t) PROVE SearchInv'
  BY <1>1, <1>2, DescendSearch, SplitFullSearch, InsertIntoLeafSearch, ReadOnlySearch DEF Step
<1>3. QED
  BY <1>1, <1>2, StartSearch, StutterSearch DEF Next, Finished

(***************************************************************************)
(* The inductive invariant: the nodes of each level divide the keys among  *)
(* them and lead to each other accordingly, and what a thread has seen of  *)
(* the way to a node still holds while the node and its parent have not    *)
(* changed, however the splits of several threads interleave.              *)
(***************************************************************************)
THEOREM Search == Spec => [](LockInv /\ SafeInv /\ SearchInv)
<1>1. LockInv /\ SafeInv /\ SearchInv /\ [Next]_vars => (LockInv /\ SafeInv /\ SearchInv)'
  BY NextLockInv, NextSafe, NextSearch
<1>2. Init => LockInv /\ SafeInv /\ SearchInv
  BY InitLockInv, InitSafe, InitSearch
<1>3. QED
  BY <1>1, <1>2, PTL DEF Spec

-------------------------------------------------------------------------------
\* The node of a level that covers a key.
Covers(n, k, h, cov, lev) ==
  n \in Nodes /\ kind[n] # "free" /\ k \in cov[n] /\ lev[n] = h

\* No level has two such nodes.
LEMMA OneOnLevel ==
  ASSUME NEW cov, NEW lev, Layout(cov, lev), NEW k, NEW h, NEW m, NEW n,
         Covers(m, k, h, cov, lev), Covers(n, k, h, cov, lev)
  PROVE  m = n
BY DEF Covers, Layout, Disjoint

\* A search goes on to the node one level down, and stays at a leaf.
LEMMA OneLevelDown ==
  ASSUME TypeOK, NEW cov, NEW lev, Layout(cov, lev), NEW k \in Nat, NEW h \in Nat, NEW n,
         Covers(n, k, h, cov, lev)
  PROVE  /\ h # 0 => /\ kind[n] = "inner"
                     /\ Covers(Below(n, k), k, h - 1, cov, lev)
         /\ h = 0 => /\ kind[n] = "leaf"
                     /\ Below(n, k) = n
<1>1. n \in Nodes /\ kind[n] \in {"leaf", "inner"} /\ k \in cov[n] /\ lev[n] = h
  BY DEF Covers, TypeOK
<1>2. CASE kind[n] = "leaf"
  BY <1>1, <1>2 DEF Layout, LeafOK, Below
<1>3. CASE kind[n] = "inner"
  <2>1. PICK c : c = Rightwards(Child(n, k), k)
    OBVIOUS
  <2>2. Allocated(c) /\ k \in cov[c] /\ lev[n] = lev[c] + 1
    BY <1>1, <1>3, <2>1 DEF Layout, InnerOK
  <2>3. lev[c] \in Nat
    BY <2>2 DEF Layout, Allocated
  <2>4. h # 0 /\ lev[c] = h - 1
    BY <1>1, <2>2, <2>3
  <2>5. Below(n, k) = c
    BY <1>3, <2>1 DEF Below
  <2>6. QED
    BY <1>3, <2>2, <2>4, <2>5 DEF Covers, Allocated
<1>4. QED
  BY <1>1, <1>2, <1>3

\* Every level has a node for every key.
LEMMA NodeOnLevel ==
  ASSUME TypeOK, NEW cov, NEW lev, Layout(cov, lev), NEW k \in Nat, NEW h \in 0..lev[root]
  PROVE  \E n : Covers(n, k, h, cov, lev)
<1> DEFINE H == lev[root]
           missing == {g \in 0..H : ~ \E n : Covers(n, k, g, cov, lev)}
<1>1. H \in Nat
  BY DEF Layout, TypeOK
<1> HIDE DEF H
<1>2. IsFiniteSet(missing) /\ \A g \in missing : g \in Nat
  <2>1. IsFiniteSet(0..H)
    BY <1>1, FS_Interval
  <2>2. missing \subseteq 0..H
    OBVIOUS
  <2>3. QED
    BY <1>1, <2>1, <2>2, FS_Subset
<1>3. H \notin missing
  BY <1>1 DEF Layout, RootOK, Covers, Allocated, H
<1>4. missing = {}
  <2> SUFFICES ASSUME missing # {} PROVE FALSE
    OBVIOUS
  <2>1. PICK g \in missing : \A i \in missing : i <= g
    <3> HIDE DEF missing
    <3>1. QED
      BY <1>2, GreatestOf
  <2>2. g \in Nat /\ g + 1 \in 0..H /\ g + 1 \notin missing
    BY <1>1, <1>3, <2>1
  <2>3. PICK n : Covers(n, k, g + 1, cov, lev)
    BY <2>2
  <2>4. Covers(Below(n, k), k, (g + 1) - 1, cov, lev)
    BY <2>2, <2>3, OneLevelDown
  <2>5. (g + 1) - 1 = g
    BY <2>2
  <2>6. QED
    BY <2>1, <2>4, <2>5
<1>5. QED
  BY <1>4 DEF H

\* There are no more levels above the leaves than inner nodes.
LEMMA LevelsBound ==
  ASSUME TypeOK, NEW cov, NEW lev, Layout(cov, lev)
  PROVE  /\ lev[root] \in Nat /\ Cardinality(Inner) \in Nat
         /\ lev[root] <= Cardinality(Inner)
<1> DEFINE H == lev[root]
           f == [h \in 1..H |-> CHOOSE n : Covers(n, 0, h, cov, lev)]
<1>1. H \in Nat /\ IsFiniteSet(Inner)
  BY DEF Layout, TypeOK
<1>2. \A h \in 1..H : f[h] \in Inner /\ lev[f[h]] = h
  <2> SUFFICES ASSUME NEW h \in 1..H PROVE f[h] \in Inner /\ lev[f[h]] = h
    OBVIOUS
  <2>1. h \in 0..H /\ h \in Nat /\ h # 0
    BY <1>1
  <2>2. \E n : Covers(n, 0, h, cov, lev)
    BY <2>1, NodeOnLevel
  <2>3. Covers(f[h], 0, h, cov, lev)
    BY <2>2
  <2> HIDE DEF f
  <2>4. kind[f[h]] = "inner"
    BY <2>1, <2>3, OneLevelDown
  <2>5. QED
    BY <2>3, <2>4 DEF Covers, Inner
<1>3. f \in Injection(1..H, Inner)
  <2>1. f \in [1..H -> Inner]
    <3> DEFINE g(h) == CHOOSE n : Covers(n, 0, h, cov, lev)
    <3>1. \A h \in 1..H : g(h) \in Inner
      BY <1>2
    <3> HIDE DEF g
    <3>2. [h \in 1..H |-> g(h)] \in [1..H -> Inner]
      BY <3>1
    <3>3. QED
      BY <3>2 DEF g
  <2> HIDE DEF f
  <2>2. \A a, b \in 1..H : f[a] = f[b] => a = b
    BY <1>2
  <2>3. QED
    BY <2>1, <2>2 DEF Injection, IsInjective
<1>4. Cardinality(1..H) <= Cardinality(Inner)
  BY <1>1, <1>3, FS_Injection
<1>5. Cardinality(1..H) = H
  <2>1. Cardinality(1..H) = IF 1 > H THEN 0 ELSE H - 1 + 1
    BY <1>1, FS_Interval, SMTT(30)
  <2>2. QED
    BY <1>1, <2>1
<1>6. Cardinality(Inner) \in Nat
  BY <1>1, FS_CardinalityType
<1>7. QED
  BY <1>1, <1>4, <1>5, <1>6

\* The level a search is at after d steps.
LevelAfter(d, H) == IF d <= H THEN H - d ELSE 0

\* The path is as its definition says: there is a function that satisfies it.
LEMMA PathEquation ==
  ASSUME TypeOK, NEW cov, NEW lev, Layout(cov, lev), NEW k \in Nat
  PROVE  SearchPath(k) = [d \in 0..Cardinality(Inner) |->
                            IF d = 0 THEN Rightwards(root, k)
                            ELSE Below(SearchPath(k)[d - 1], k)]
<1>1. PICK H, N : H = lev[root] /\ N = Cardinality(Inner)
  OBVIOUS
<1>2. H \in Nat /\ N \in Nat /\ H <= N
  BY <1>1, LevelsBound
<1> DEFINE W(h) == CHOOSE n : Covers(n, k, h, cov, lev)
           f == [d \in 0..N |-> W(LevelAfter(d, H))]
<1>3. \A h \in 0..H : Covers(W(h), k, h, cov, lev)
  BY <1>1, NodeOnLevel
<1> HIDE DEF W
<1>4. \A d \in 0..N : LevelAfter(d, H) \in 0..H
  BY <1>2 DEF LevelAfter
<1>5. \A d \in 0..N : Covers(f[d], k, LevelAfter(d, H), cov, lev)
  BY <1>3, <1>4
<1>6. f[0] = Rightwards(root, k)
  <2>1. Covers(Rightwards(root, k), k, H, cov, lev)
    BY <1>1 DEF Layout, RootOK, Covers, Allocated
  <2>2. LevelAfter(0, H) = H /\ 0 \in 0..N
    BY <1>2 DEF LevelAfter
  <2> HIDE DEF f
  <2>3. QED
    BY <1>5, <2>1, <2>2, OneOnLevel
<1>7. ASSUME NEW d \in 0..N, d # 0 PROVE f[d] = Below(f[d - 1], k)
  <2> HIDE DEF f
  <2>1. d - 1 \in 0..N
    BY <1>2, <1>7
  <2>2. /\ Covers(f[d - 1], k, LevelAfter(d - 1, H), cov, lev)
        /\ LevelAfter(d - 1, H) \in Nat
        /\ Covers(f[d], k, LevelAfter(d, H), cov, lev)
    BY <1>2, <1>4, <1>5, <2>1
  <2>3. CASE LevelAfter(d - 1, H) # 0
    <3>1. LevelAfter(d, H) = LevelAfter(d - 1, H) - 1
      BY <1>2, <1>7, <2>3 DEF LevelAfter
    <3>2. Covers(Below(f[d - 1], k), k, LevelAfter(d - 1, H) - 1, cov, lev)
      BY <2>2, <2>3, OneLevelDown
    <3>3. QED
      BY <2>2, <3>1, <3>2, OneOnLevel
  <2>4. CASE LevelAfter(d - 1, H) = 0
    <3>1. LevelAfter(d, H) = 0
      BY <1>2, <1>7, <2>4 DEF LevelAfter
    <3>2. Below(f[d - 1], k) = f[d - 1]
      BY <2>2, <2>4, OneLevelDown
    <3>3. QED
      BY <2>2, <2>4, <3>1, <3>2, OneOnLevel
  <2>5. QED
    BY <2>3, <2>4
<1>8. f = [d \in 0..N |-> IF d = 0 THEN Rightwards(root, k) ELSE Below(f[d - 1], k)]
  <2> DEFINE e(d) == IF d = 0 THEN Rightwards(root, k) ELSE Below(f[d - 1], k)
  <2>1. \A d \in 0..N : f[d] = e(d)
    BY <1>6, <1>7
  <2> HIDE DEF e
  <2>2. f = [d \in 0..N |-> e(d)]
    BY <2>1
  <2>3. QED
    BY <2>2 DEF e
<1>9. PICK at : at = [d \in 0..Cardinality(Inner) |->
                        IF d = 0 THEN Rightwards(root, k) ELSE Below(at[d - 1], k)]
  <2> HIDE DEF f
  <2>1. QED
    BY <1>1, <1>8
<1>10. QED
  BY <1>9, Zenon DEF SearchPath

\* The path visits the node of each level that covers the key.
LEMMA PathOf ==
  ASSUME TypeOK, NEW cov, NEW lev, Layout(cov, lev), NEW k \in Nat
  PROVE  \A d \in 0..Cardinality(Inner) :
           Covers(SearchPath(k)[d], k, LevelAfter(d, lev[root]), cov, lev)
<1>1. PICK H, N, at : H = lev[root] /\ N = Cardinality(Inner) /\ at = SearchPath(k)
  OBVIOUS
<1>2. H \in Nat /\ N \in Nat /\ H <= N
  BY <1>1, LevelsBound
<1>3. \A d \in 0..N : at[d] = IF d = 0 THEN Rightwards(root, k) ELSE Below(at[d - 1], k)
  BY <1>1, PathEquation
<1> DEFINE off == {d \in 0..N : ~Covers(at[d], k, LevelAfter(d, H), cov, lev)}
<1>4. IsFiniteSet(off) /\ \A d \in off : d \in Nat
  <2>1. IsFiniteSet(0..N)
    BY <1>2, FS_Interval
  <2>2. off \subseteq 0..N
    OBVIOUS
  <2>3. QED
    BY <1>2, <2>1, <2>2, FS_Subset
<1>5. off = {}
  <2> SUFFICES ASSUME off # {} PROVE FALSE
    OBVIOUS
  <2>1. PICK d \in off : \A i \in off : d <= i
    <3> HIDE DEF off
    <3>1. QED
      BY <1>4, LeastOf
  <2>2. d \in 0..N /\ d \in Nat
    BY <1>2
  <2>3. CASE d = 0
    <3>1. Covers(Rightwards(root, k), k, H, cov, lev)
      BY <1>1 DEF Layout, RootOK, Covers, Allocated
    <3>2. LevelAfter(0, H) = H /\ at[0] = Rightwards(root, k)
      BY <1>2, <1>3, <2>2, <2>3 DEF LevelAfter
    <3>3. QED
      BY <2>1, <2>3, <3>1, <3>2
  <2>4. CASE d # 0
    <3>1. d - 1 \in 0..N /\ ~(d <= d - 1)
      BY <1>2, <2>2, <2>4
    <3>2. Covers(at[d - 1], k, LevelAfter(d - 1, H), cov, lev)
      BY <2>1, <3>1
    <3>3. LevelAfter(d - 1, H) \in Nat
      BY <1>2, <3>1 DEF LevelAfter
    <3>4. at[d] = Below(at[d - 1], k)
      BY <1>3, <2>2, <2>4
    <3>5. CASE LevelAfter(d - 1, H) # 0
      <4>1. LevelAfter(d, H) = LevelAfter(d - 1, H) - 1
        BY <1>2, <2>2, <2>4, <3>5 DEF LevelAfter
      <4>2. Covers(Below(at[d - 1], k), k, LevelAfter(d - 1, H) - 1, cov, lev)
        BY <3>2, <3>3, <3>5, OneLevelDown
      <4>3. QED
        BY <2>1, <3>4, <4>1, <4>2
    <3>6. CASE LevelAfter(d - 1, H) = 0
      <4>1. LevelAfter(d, H) = 0
        BY <1>2, <2>2, <2>4, <3>6 DEF LevelAfter
      <4>2. Below(at[d - 1], k) = at[d - 1]
        BY <3>2, <3>3, <3>6, OneLevelDown
      <4>3. QED
        BY <2>1, <3>2, <3>4, <3>6, <4>1, <4>2
    <3>7. QED
      BY <3>5, <3>6
  <2>5. QED
    BY <2>3, <2>4
<1>6. QED
  BY <1>1, <1>5

\* So a search ends at the leaf that covers its key, at the depth of all leaves.
LEMMA EndsAtLeaf ==
  ASSUME TypeOK, NEW cov, NEW lev, Layout(cov, lev), NEW k \in Nat
  PROVE  /\ Covers(LeafOf(k), k, 0, cov, lev) /\ kind[LeafOf(k)] = "leaf"
         /\ Height(k) = lev[root]
         /\ lev[root] \in 0..Cardinality(Inner)
<1>1. PICK H, N, at : H = lev[root] /\ N = Cardinality(Inner) /\ at = SearchPath(k)
  OBVIOUS
<1>2. H \in Nat /\ N \in Nat /\ H <= N
  BY <1>1, LevelsBound
<1>3. \A d \in 0..N : Covers(at[d], k, LevelAfter(d, H), cov, lev)
  BY <1>1, PathOf
<1>4. Covers(LeafOf(k), k, 0, cov, lev) /\ kind[LeafOf(k)] = "leaf"
  <2>1. N \in 0..N /\ LevelAfter(N, H) = 0
    BY <1>2 DEF LevelAfter
  <2>2. Covers(at[N], k, 0, cov, lev)
    BY <1>3, <2>1
  <2>3. kind[at[N]] = "leaf"
    BY <2>2, OneLevelDown
  <2>4. LeafOf(k) = at[N]
    BY <1>1 DEF LeafOf
  <2>5. QED
    BY <2>2, <2>3, <2>4
<1>5. \A d \in 0..N : at[d] \in Inner <=> d < H
  <2> SUFFICES ASSUME NEW d \in 0..N PROVE at[d] \in Inner <=> d < H
    OBVIOUS
  <2>1. LevelAfter(d, H) \in Nat /\ (LevelAfter(d, H) # 0 <=> d < H)
    BY <1>2 DEF LevelAfter
  <2>2. at[d] \in Inner <=> LevelAfter(d, H) # 0
    BY <1>3, <2>1, OneLevelDown DEF Inner, Covers
  <2>3. QED
    BY <2>1, <2>2
<1>6. {d \in 0..N : at[d] \in Inner} = 0..(H - 1)
  BY <1>2, <1>5
<1>7. Cardinality(0..(H - 1)) = H
  <2>1. Cardinality(0..(H - 1)) = IF 0 > H - 1 THEN 0 ELSE (H - 1) - 0 + 1
    BY <1>2, FS_Interval
  <2>2. QED
    BY <1>2, <2>1
<1>8. Height(k) = H
  BY <1>1, <1>6, <1>7 DEF Height
<1>9. QED
  BY <1>1, <1>2, <1>4, <1>8

\* The leaf that covers a key, and any leaf that holds it, is where its search ends.
LEMMA LeafOfCovered ==
  ASSUME TypeOK, NEW cov, NEW lev, Layout(cov, lev),
         NEW n \in Nodes, kind[n] = "leaf", NEW k \in Nat, k \in cov[n]
  PROVE  LeafOf(k) = n
<1>1. Covers(n, k, 0, cov, lev)
  BY DEF Layout, LeafOK, Covers
<1>2. QED
  BY <1>1, EndsAtLeaf, OneOnLevel

(***************************************************************************)
(* However the splits of any number of threads interleave, a search for a  *)
(* key in the tree ends at the leaf that holds it, and all leaves are      *)
(* equally deep, in trees of any size and shape.                           *)
(***************************************************************************)
THEOREM AllReachable == Spec => []Reachable
<1>1. SafeInv /\ SearchInv => Reachable
  <2> SUFFICES ASSUME SafeInv, SearchInv PROVE Reachable
    OBVIOUS
  <2>1. PICK cov, lev : Layout(cov, lev)
    BY DEF SearchInv
  <2>2. TypeOK
    BY DEF SafeInv
  <2>3. ASSUME NEW n \in Nodes, kind[n] = "leaf", NEW k \in EntryKeys(n) PROVE LeafOf(k) = n
    <3>1. k \in Nat /\ k \in cov[n]
      BY <2>1, <2>3, KeysAreNumbers DEF Layout, LeafOK
    <3>2. QED
      BY <2>1, <2>2, <2>3, <3>1, LeafOfCovered
  <2>4. \A k \in Keys : Height(k) = lev[root]
    BY <2>1, <2>2, EndsAtLeaf, KeysAssumption
  <2>5. lev[root] \in 0..Cardinality(Inner)
    BY <2>1, <2>2, LevelsBound
  <2>6. QED
    BY <2>3, <2>4, <2>5 DEF Reachable
<1>2. QED
  BY <1>1, Search, PTL

(***************************************************************************)
(* insert writes its entry into the leaf a search for the key ends at: the *)
(* parent that was valid after the leaf was locked is enough, though it is *)
(* not locked, and nothing is split in between.                            *)
(***************************************************************************)
THEOREM RightLeaf == Spec => []InsertsIntoRightLeaf
<1>1. SafeInv /\ SearchInv => InsertsIntoRightLeaf
  <2> SUFFICES ASSUME SafeInv, SearchInv, NEW t \in Threads, pc[t] = "put"
               PROVE  LeafOf(from[t]) = node[t]
    BY DEF InsertsIntoRightLeaf
  <2>1. PICK cov, lev : Layout(cov, lev) /\ \A r \in Threads : Knows(r, cov, lev)
    BY DEF SearchInv
  <2>2. from[t] \in cov[node[t]]
    BY <2>1 DEF Knows, KnowsLeaf
  <2>3. TypeOK /\ node[t] \in Nodes /\ kind[node[t]] = "leaf" /\ from[t] \in Nat
    BY ThreadParts DEF Where, Allocated, NodeSeen, NodeHeld, TypeOK
  <2>4. QED
    BY <2>1, <2>2, <2>3, LeafOfCovered
<1>2. QED
  BY <1>1, Search, PTL

(***************************************************************************)
(* The scan of BTreeOLCIndex may stop at an empty result: if the leaf a    *)
(* search ends at has no key from there on, the tree has none.             *)
(***************************************************************************)
THEOREM NoMore == Spec => []EmptyMeansNoMore
<1>1. SafeInv /\ SearchInv => EmptyMeansNoMore
  <2> SUFFICES ASSUME SafeInv, SearchInv, NEW k \in Keys, \A j \in EntryKeys(LeafOf(k)) : j < k,
                      NEW j \in Present
               PROVE  j < k
    BY DEF EmptyMeansNoMore
  <2>1. PICK cov, lev : Layout(cov, lev)
    BY DEF SearchInv
  <2>2. TypeOK /\ k \in Nat /\ j \in Keys /\ j \in Nat
    BY KeysAssumption DEF SafeInv, Present
  <2>3. PICK n \in Nodes : kind[n] = "leaf" /\ j \in EntryKeys(n)
    BY <2>2 DEF Present, Holders, EntryKeys
  <2>4. PICK leaf : leaf = LeafOf(k)
    OBVIOUS
  <2>5. leaf \in Nodes /\ kind[leaf] = "leaf" /\ k \in cov[leaf]
    BY <2>1, <2>2, <2>4, EndsAtLeaf DEF Covers
  <2>6. CASE n = leaf
    BY <2>3, <2>4, <2>6
  <2>7. CASE n # leaf
    <3>1. j \in cov[n] /\ lev[n] = 0 /\ lev[leaf] = 0
      BY <2>1, <2>3, <2>5 DEF Layout, LeafOK
    <3>2. j \notin cov[leaf]
      BY <2>1, <2>3, <2>5, <2>7, <3>1 DEF Layout, Disjoint
    <3>3. \A e \in EntryKeys(leaf) : e < k /\ e \in Nat /\ ~(k <= e)
      BY <2>2, <2>4, KeysAreNumbers
    <3>4. ~(j > k)
      BY <2>1, <2>2, <2>5, <3>2, <3>3 DEF Layout, LeafOK
    <3>5. j # k
      BY <2>5, <3>2
    <3>6. QED
      BY <2>2, <3>4, <3>5
  <2>8. QED
    BY <2>6, <2>7
<1>2. QED
  BY <1>1, Search, PTL

-------------------------------------------------------------------------------
\* What a find and a scan read of a leaf that does not change meanwhile.
WhatIsRead(t) ==
  IF call[t].op = "scan"
    THEN LeafEntries(node[t], from[t], call[t].range - Len(out[t]))
  ELSE IF ents[node[t]][from[t]] = None THEN <<Unset>>
  ELSE <<ents[node[t]][from[t]]>>

\* A scan that goes on has room left in its results; a call without results has
\* returned none.
OutOK(t) ==
  /\ pc[t] = "idle" => out[t] = <<>>
  /\ pc[t] \notin {"idle", "return"} =>
       IF call[t].op = "scan" THEN Len(out[t]) < call[t].range ELSE out[t] = <<>>

AtLeaf == {"read", "readCheckParent", "readCheckNode"}
ReadOK(t) ==
  /\ pc[t] \in AtLeaf => kind[node[t]] = "leaf"
  /\ pc[t] \in {"readCheckParent", "readCheckNode"} /\ word[node[t]] = versionNode[t] =>
       batch[t] = WhatIsRead(t)

RefInv == IsFiniteSet(Present) /\ \A t \in Threads : OutOK(t) /\ ReadOK(t)

-------------------------------------------------------------------------------
\* The map, key by key: what the one leaf holds that covers the key.
LEMMA ContentsCovered ==
  ASSUME NEW cov, NEW lev, Layout(cov, lev),
         NEW n \in Nodes, kind[n] = "leaf", NEW k \in Keys, k \in cov[n]
  PROVE  /\ Contents[k] = ents[n][k]
         /\ Holders(k) = IF ents[n][k] = None THEN {} ELSE {n}
<1>1. ASSUME NEW m \in Holders(k) PROVE m = n
  <2>1. m \in Nodes /\ kind[m] = "leaf" /\ k \in EntryKeys(m)
    BY DEF Holders, EntryKeys
  <2>2. k \in cov[m] /\ lev[m] = 0 /\ lev[n] = 0
    BY <2>1 DEF Layout, LeafOK
  <2>3. QED
    BY <2>1, <2>2 DEF Layout, Disjoint
<1>2. Holders(k) = IF ents[n][k] = None THEN {} ELSE {n}
  <2>1. \A m : m \in Holders(k) <=> m = n /\ ents[n][k] # None
    BY <1>1 DEF Holders
  <2>2. QED
    BY <2>1
<1>3. Contents[k] = IF Holders(k) = {} THEN None ELSE ents[CHOOSE m \in Holders(k) : TRUE][k]
  BY DEF Contents
<1>4. (CHOOSE m \in {n} : TRUE) = n
  OBVIOUS
<1>5. QED
  <2>1. CASE ents[n][k] = None
    BY <1>2, <1>3, <2>1
  <2>2. CASE ents[n][k] # None
    <3>1. Holders(k) = {n}
      BY <1>2, <2>2
    <3>2. Contents[k] = ents[CHOOSE m \in {n} : TRUE][k]
      BY <1>3, <3>1
    <3>3. QED
      BY <1>2, <1>4, <3>2
  <2>3. QED
    BY <2>1, <2>2

\* The keys of the map, before and after a step.
LEMMA PresentOf ==
  /\ Present = {k \in Keys : Contents[k] # None}
  /\ Present' = {k \in Keys : Contents'[k] # None}
<1>1. ASSUME NEW k \in Keys PROVE Holders(k) # {} <=> Contents[k] # None
  <2>1. Contents[k] = IF Holders(k) = {} THEN None ELSE ents[CHOOSE m \in Holders(k) : TRUE][k]
    BY DEF Contents
  <2>2. Holders(k) # {} => (CHOOSE m \in Holders(k) : TRUE) \in Holders(k)
    OBVIOUS
  <2>3. \A m \in Holders(k) : ents[m][k] # None
    BY DEF Holders
  <2>4. QED
    BY <2>1, <2>2, <2>3
<1>2. ASSUME NEW k \in Keys PROVE Holders(k)' # {} <=> Contents'[k] # None
  <2>1. Contents'[k] = IF Holders(k)' = {} THEN None
                       ELSE ents'[CHOOSE m \in Holders(k)' : TRUE][k]
    BY DEF Contents
  <2>2. Holders(k)' # {} => (CHOOSE m \in Holders(k)' : TRUE) \in Holders(k)'
    OBVIOUS
  <2>3. \A m \in Holders(k)' : ents'[m][k] # None
    BY DEF Holders
  <2>4. QED
    BY <2>1, <2>2, <2>3
<1>3. QED
  BY <1>1, <1>2 DEF Present

\* What a step that leaves the entries of a key where they are does to its payload.
LEMMA ContentsAt ==
  ASSUME NEW k \in Keys, Holders(k)' = Holders(k), \A m \in Holders(k) : ents'[m][k] = ents[m][k]
  PROVE  Contents'[k] = Contents[k]
<1>1. PICK H : H = Holders(k)
  OBVIOUS
<1>2. /\ Contents[k] = IF H = {} THEN None ELSE ents[CHOOSE m \in H : TRUE][k]
      /\ Contents'[k] = IF H = {} THEN None ELSE ents'[CHOOSE m \in H : TRUE][k]
  BY <1>1 DEF Contents
<1>3. H # {} => (CHOOSE m \in H : TRUE) \in H
  OBVIOUS
<1>4. QED
  BY <1>1, <1>2, <1>3

\* And one after which a node is the only holder.
LEMMA ContentsNow ==
  ASSUME NEW k \in Keys, NEW n, Holders(k)' = {n}
  PROVE  Contents'[k] = ents'[n][k]
<1>1. Contents'[k] = IF Holders(k)' = {} THEN None
                     ELSE ents'[CHOOSE m \in Holders(k)' : TRUE][k]
  BY DEF Contents
<1>2. (CHOOSE m \in {n} : TRUE) = n
  OBVIOUS
<1>3. Contents'[k] = ents'[CHOOSE m \in {n} : TRUE][k]
  BY <1>1
<1>4. QED
  BY <1>2, <1>3

\* Maps that agree on every key are the same map.
LEMMA SameContents ==
  ASSUME \A k \in Keys : Contents'[k] = Contents[k]
  PROVE  Contents' = Contents
<1>1. /\ Contents = [k \in Keys |-> Contents[k]]
      /\ Contents' = [k \in Keys |-> Contents'[k]]
  BY DEF Contents
<1>2. QED
  BY <1>1

\* No entry is written and no leaf comes or goes.
LEMMA ContentsStay ==
  ASSUME UNCHANGED ents, \A n \in Nodes : kind'[n] = "leaf" <=> kind[n] = "leaf"
  PROVE  Contents' = Contents
<1>1. \A k \in Keys : Holders(k)' = Holders(k)
  BY DEF Holders
<1>2. \A k \in Keys : Contents'[k] = Contents[k]
  BY <1>1, ContentsAt
<1>3. QED
  BY <1>2, SameContents

-------------------------------------------------------------------------------
\* What there is from a key on, in a leaf and in the map.
EntriesFrom(n, k) == {j \in EntryKeys(n) : j >= k}
PresentFrom(k)    == {j \in Present : j >= k}

\* Two elements of a set of numbers with equally many up to them are the same.
LEMMA OneOfRank ==
  ASSUME NEW S, \A j \in S : j \in Nat, IsFiniteSet(S), NEW a \in S, NEW b \in S,
         Cardinality({h \in S : h <= a}) = Cardinality({h \in S : h <= b})
  PROVE  a = b
<1>1. ASSUME NEW x \in S, NEW y \in S, x < y
      PROVE  Cardinality({h \in S : h <= x}) # Cardinality({h \in S : h <= y})
  <2> DEFINE X == {h \in S : h <= x}
             Y == {h \in S : h <= y}
  <2>1. X \subseteq Y /\ y \in Y /\ y \notin X
    BY <1>1
  <2>2. IsFiniteSet(Y)
    BY FS_Subset
  <2>3. Cardinality(X) = Cardinality(Y) => X = Y
    BY <2>1, <2>2, FS_Subset
  <2>4. QED
    BY <2>1, <2>3
<1>2. ~(a < b) /\ ~(b < a)
  BY <1>1
<1>3. QED
  BY <1>2

\* The first elements of a set are those of a subset that the others are beyond.
LEMMA LowerSegment ==
  ASSUME NEW S, \A j \in S : j \in Nat, IsFiniteSet(S),
         NEW T, \A j \in T : j \in S, \A s \in S : s \notin T => \A e \in T : e < s,
         NEW i \in 1..Cardinality(T)
  PROVE  (CHOOSE j \in S : Cardinality({h \in S : h <= j}) = i) = AtIndex(T, i - 1)
<1>1. T \subseteq S /\ IsFiniteSet(T) /\ Cardinality(T) \in Nat
  <2>1. T \subseteq S
    OBVIOUS
  <2>2. QED
    BY <2>1, FS_Subset, FS_CardinalityType
<1>2. PICK a : a = AtIndex(T, i - 1)
  OBVIOUS
<1>3. a \in T /\ Cardinality({j \in T : j < a}) = i - 1
  <2>1. i - 1 \in 0..(Cardinality(T) - 1)
    BY <1>1
  <2>2. \A j \in T : j \in Nat
    OBVIOUS
  <2>3. QED
    BY <1>1, <1>2, <2>1, <2>2, AtIndexOf
<1>4. Cardinality({h \in S : h <= a}) = i
  <2> DEFINE less == {j \in T : j < a}
             upTo == {h \in S : h <= a}
  <2>1. upTo = less \cup {a}
    <3>1. ASSUME NEW h \in S PROVE h <= a <=> (h \in T /\ h < a) \/ h = a
      <4>1. h \notin T => a < h
        BY <1>3
      <4>2. h \in Nat /\ a \in Nat
        BY <1>3
      <4>3. QED
        BY <4>1, <4>2
    <3>2. a \in S /\ \A h \in T : h \in S
      BY <1>3
    <3>3. \A h : h \in upTo <=> h \in less \cup {a}
      <4>1. ASSUME NEW h \in S PROVE h \in upTo <=> h \in less \cup {a}
        BY <3>1
      <4>2. \A h : h \in less \cup {a} => h \in S
        BY <3>2
      <4>3. \A h \in upTo : h \in S
        OBVIOUS
      <4> HIDE DEF less, upTo
      <4>4. QED
        BY <4>1, <4>2, <4>3
    <3> HIDE DEF less, upTo
    <3>4. QED
      BY <3>3
  <2>2. IsFiniteSet(less) /\ a \notin less
    <3>1. less \subseteq T
      OBVIOUS
    <3>2. a \in Nat
      BY <1>3
    <3>3. QED
      BY <1>1, <3>1, <3>2, FS_Subset
  <2>3. Cardinality(less \cup {a}) = Cardinality(less) + 1
    BY <2>2, FS_AddElement
  <2>4. Cardinality(less) = i - 1
    BY <1>3
  <2>5. Cardinality(upTo) = i
    <3> HIDE DEF less, upTo
    <3>1. QED
      BY <1>1, <2>1, <2>3, <2>4
  <2>6. QED
    BY <2>5
<1>5. a \in S
  BY <1>3
<1>6. \A j \in S : Cardinality({h \in S : h <= j}) = i => j = a
  BY <1>4, <1>5, OneOfRank
<1>7. QED
  BY <1>2, <1>4, <1>5, <1>6

\* A leaf-level scan copies the first payloads from a key on, as many as it wants or
\* as there are.
LEMMA LeafEntriesOf ==
  ASSUME Shape, NEW n \in Nodes, NEW k \in Nat, NEW most \in Nat \ {0}
  PROVE  /\ IsFiniteSet(EntriesFrom(n, k)) /\ \A j \in EntriesFrom(n, k) : j \in Nat
         /\ \E size, count \in Nat :
              /\ size = Cardinality(EntriesFrom(n, k))
              /\ count = IF size < most THEN size ELSE most
              /\ LeafEntries(n, k, most) =
                   [i \in 1..count |-> ents[n][AtIndex(EntriesFrom(n, k), i - 1)]]
<1> DEFINE T == EntriesFrom(n, k)
<1>1. IsFiniteSet(T) /\ Cardinality(T) \in Nat /\ \A j \in T : j \in Nat
  <2>1. IsFiniteSet(EntryKeys(n)) /\ T \subseteq EntryKeys(n)
    BY DEF Shape, NodeOK, EntriesFrom
  <2>2. QED
    BY <2>1, FS_Subset, FS_CardinalityType, KeysAreNumbers
<1>2. PICK size, count \in Nat :
            size = Cardinality(T) /\ count = IF size < most THEN size ELSE most
  BY <1>1
<1>3. Len(Sorted(T)) = size /\ \A i \in 1..size : Sorted(T)[i] = AtIndex(T, i - 1)
  BY <1>1, <1>2 DEF Sorted
<1>4. LeafEntries(n, k, most) = [i \in 1..count |-> ents[n][Sorted(T)[i]]]
  BY <1>2, <1>3 DEF LeafEntries, EntriesFrom
<1>5. 1..count \subseteq 1..size
  BY <1>1, <1>2
<1>6. LeafEntries(n, k, most) = [i \in 1..count |-> ents[n][AtIndex(T, i - 1)]]
  BY <1>3, <1>4, <1>5
<1>7. QED
  BY <1>1, <1>2, <1>6

\* The entries of a leaf from a key on that it covers come first in the map.
LEMMA FirstEntries ==
  ASSUME NEW cov, NEW lev, Layout(cov, lev),
         NEW n \in Nodes, kind[n] = "leaf", NEW k \in Nat, k \in cov[n],
         NEW T, T = EntriesFrom(n, k), NEW S, S = PresentFrom(k)
  PROVE  /\ \A j \in T : j \in S /\ Contents[j] = ents[n][j]
         /\ \A s \in S : s \notin T => \A e \in T : e < s
         /\ T = {} => S = {}
<1> USE KeysAssumption DEF EntriesFrom, PresentFrom
<1>1. /\ lev[n] = 0 /\ \A e \in EntryKeys(n) : e \in cov[n]
      /\ \A i \in cov[n], j \in Nat :
           j > i /\ j \notin cov[n] => \E e \in EntryKeys(n) : i <= e
      /\ \A i, j \in cov[n], m \in Nat : i <= m /\ m <= j => m \in cov[n]
  BY DEF Layout, LeafOK, Convex
<1>2. ASSUME NEW j \in T PROVE j \in S /\ Contents[j] = ents[n][j]
  <2>1. j \in Keys /\ j \in Nat /\ j >= k /\ j \in cov[n] /\ ents[n][j] # None
    BY <1>1, KeysAreNumbers DEF EntryKeys
  <2>2. Contents[j] = ents[n][j] /\ Holders(j) = {n}
    BY <2>1, ContentsCovered
  <2>3. QED
    BY <2>1, <2>2 DEF Present
<1>3. ASSUME NEW s \in S, s \notin T PROVE s \in Nat /\ s >= k /\ s \notin cov[n]
  <2>1. s \in Keys /\ s \in Nat /\ s >= k /\ Holders(s) # {}
    BY DEF Present
  <2>2. SUFFICES ASSUME s \in cov[n] PROVE FALSE
    BY <2>1
  <2>3. ents[n][s] # None
    BY <2>1, <2>2, ContentsCovered
  <2>4. s \in T
    BY <2>1, <2>3 DEF EntryKeys
  <2>5. QED
    BY <1>3, <2>4
<1>4. ASSUME NEW s \in S, s \notin T, NEW e \in T PROVE e < s
  <2>1. e \in cov[n] /\ e \in Nat
    BY <1>1, KeysAreNumbers
  <2>2. ~(s <= e)
    BY <1>1, <1>3, <1>4, <2>1
  <2>3. QED
    BY <1>3, <1>4, <2>1, <2>2
<1>5. ASSUME T = {}, NEW s \in S PROVE FALSE
  <2>1. s \in Nat /\ s > k /\ s \notin cov[n]
    <3>1. s \in Nat /\ s >= k /\ s \notin cov[n]
      BY <1>3, <1>5
    <3>2. QED
      BY <3>1
  <2>2. PICK e \in EntryKeys(n) : k <= e
    BY <1>1, <2>1
  <2>3. e \in T
    BY <2>2, KeysAreNumbers
  <2>4. QED
    BY <1>5, <2>3
<1>6. QED
  BY <1>2, <1>4, <1>5


\* So what a leaf-level scan copied is a fetch of the map.
LEMMA FetchOf ==
  ASSUME Shape, NEW cov, NEW lev, Layout(cov, lev), IsFiniteSet(Present),
         NEW n \in Nodes, kind[n] = "leaf", NEW k \in Nat, k \in cov[n],
         NEW most \in Nat \ {0},
         NEW read, read = LeafEntries(n, k, most),
         NEW rest, rest = Index!Ascending(Contents, k)
  PROVE  \E count \in 0..most :
           /\ count <= Len(rest) /\ (count = 0 <=> rest = <<>>)
           /\ read = Index!PayloadsOf(Contents, SubSeq(rest, 1, count))
           /\ Len(read) = count /\ (count = 0 <=> read = <<>>)
<1> DEFINE T == EntriesFrom(n, k)
           S == PresentFrom(k)
           paid(i) == ents[n][AtIndex(T, i - 1)]
<1>1. IsFiniteSet(T) /\ \A j \in T : j \in Nat
  BY LeafEntriesOf
<1>2. PICK t \in Nat, count \in Nat :
        /\ t = Cardinality(T)
        /\ count = IF t < most THEN t ELSE most
        /\ read = [i \in 1..count |-> paid(i)]
  <2>1. \E size, count \in Nat :
          /\ size = Cardinality(T)
          /\ count = IF size < most THEN size ELSE most
          /\ LeafEntries(n, k, most) = [i \in 1..count |-> paid(i)]
    BY LeafEntriesOf, Zenon
  <2> HIDE DEF T, paid
  <2>2. QED
    BY <2>1
<1>3. count <= t /\ count <= most /\ (count = 0 <=> t = 0)
  BY <1>2
<1>4. \A s \in S : s \in Present /\ s >= k
  BY DEF PresentFrom
<1>5. /\ \A j \in T : j \in S /\ Contents[j] = ents[n][j]
      /\ \A s \in S : s \notin T => \A e \in T : e < s
      /\ T = {} => S = {}
  BY FirstEntries
<1>6. IsFiniteSet(S) /\ \A j \in S : j \in Nat
  <2>1. S \subseteq Present /\ \A j \in Present : j \in Nat
    BY <1>4, KeysAssumption DEF Present
  <2>2. QED
    BY <2>1, FS_Subset
<1>7. PICK size \in Nat : size = Cardinality(S)
  BY <1>6, FS_CardinalityType
<1>8. rest = [i \in 1..size |-> CHOOSE j \in S : Cardinality({h \in S : h <= j}) = i]
  <2> DEFINE R == {j \in Index!Present(Contents) : j >= k}
  <2>1. R = S
    BY PresentOf DEF Index!Present, PresentFrom
  <2>2. rest = [i \in 1..Cardinality(R) |->
                  CHOOSE j \in R : Cardinality({h \in R : h <= j}) = i]
    BY Zenon DEF Index!Ascending, Index!Cardinality, Cardinality
  <2> HIDE DEF R, S
  <2>3. QED
    BY <1>7, <2>1, <2>2
<1> HIDE DEF T, S
<1>9. t <= size /\ (t = 0 <=> T = {}) /\ (size = 0 <=> S = {})
  <2>1. T \subseteq S
    BY <1>5
  <2>2. QED
    BY <1>1, <1>2, <1>6, <1>7, <2>1, FS_Subset, FS_EmptySet
<1>10. \A i \in 1..count : rest[i] = AtIndex(T, i - 1) /\ AtIndex(T, i - 1) \in T
  <2> SUFFICES ASSUME NEW i \in 1..count
               PROVE  rest[i] = AtIndex(T, i - 1) /\ AtIndex(T, i - 1) \in T
    OBVIOUS
  <2>1. i \in 1..Cardinality(T) /\ i \in 1..size /\ i - 1 \in 0..(Cardinality(T) - 1)
    BY <1>2, <1>3, <1>9
  <2>2. (CHOOSE j \in S : Cardinality({h \in S : h <= j}) = i) = AtIndex(T, i - 1)
    BY <1>5, <1>6, <2>1, LowerSegment
  <2>3. AtIndex(T, i - 1) \in T
    BY <1>1, <2>1, AtIndexOf
  <2>4. QED
    BY <1>8, <2>1, <2>2, <2>3
<1>11. Len(rest) = size /\ count <= size /\ count \in 0..most
  BY <1>3, <1>8, <1>9
<1>12. count = 0 <=> rest = <<>>
  <2>1. rest = <<>> <=> size = 0
    BY <1>8, <1>11
  <2>2. QED
    BY <1>3, <1>5, <1>9, <2>1
<1>13. SubSeq(rest, 1, count) = [i \in 1..count |-> rest[i]]
  BY <1>8, <1>11
<1>14. read = Index!PayloadsOf(Contents, SubSeq(rest, 1, count))
  <2> DEFINE got(i) == Contents[rest[i]]
  <2>1. Index!PayloadsOf(Contents, SubSeq(rest, 1, count)) = [i \in 1..count |-> got(i)]
    BY <1>13 DEF Index!PayloadsOf
  <2>2. \A i \in 1..count : got(i) = paid(i)
    BY <1>5, <1>10
  <2> HIDE DEF got, paid
  <2>3. QED
    BY <1>2, <2>1, <2>2
<1>15. Len(read) = count /\ (count = 0 <=> read = <<>>)
  <2> HIDE DEF paid
  <2>1. Len(read) = count
    BY <1>2
  <2>2. count = 0 <=> read = <<>>
    BY <1>2, <2>1
  <2>3. QED
    BY <2>1, <2>2
<1>16. QED
  BY <1>11, <1>12, <1>14, <1>15

-------------------------------------------------------------------------------
(***************************************************************************)
(* Steps the map does not see: the call has not taken effect before, and   *)
(* has not after the step, and no key has another payload.                 *)
(***************************************************************************)
Open == Label \ {"idle", "unlockLeaf", "return"}
Hidden(t) ==
  /\ pc[t] \in Open /\ pc'[t] \in Open
  /\ Elsewhere(t) /\ WordsGrow /\ TreeGrows(t)
  /\ UNCHANGED <<call, from, out>>
  /\ Contents' = Contents

\* What another thread has read it can go on relying on.
LEMMA OthersRead ==
  ASSUME LockInv, SafeInv, SafeInv', NEW t \in Threads, NEW s \in Threads \ {t},
         OutOK(s), ReadOK(s), Elsewhere(t), WordsGrow, TreeGrows(t), out'[s] = out[s]
  PROVE  OutOK(s)' /\ ReadOK(s)'
<1> USE ThreadParts
<1>1. /\ pc'[s] = pc[s] /\ call'[s] = call[s] /\ node'[s] = node[s]
      /\ versionNode'[s] = versionNode[s] /\ batch'[s] = batch[s] /\ from'[s] = from[s]
  BY DEF Elsewhere
<1>2. OutOK(s)'
  BY <1>1 DEF OutOK
<1>3. pc[s] \in AtLeaf => kind'[node[s]] = "leaf"
  BY DEF ReadOK, AtLeaf, TreeGrows, Where, Allocated, NodeSeen, NodeRead
<1>4. ASSUME pc[s] \in {"readCheckParent", "readCheckNode"}, word'[node[s]] = versionNode[s]
      PROVE  batch[s] = WhatIsRead(s)'
  <2>1. NodeCurrent(s)' /\ pc[s] \in NodeRead \cup NodeHeld
    BY <1>1, <1>4 DEF NodeCurrent, NodeRead
  <2>2. /\ NodeCurrent(s) /\ node[s] \in Nodes /\ kind[node[s]] # "free"
        /\ node[s] \notin Holds(t)
    BY <2>1, CurrentNodeStays
  <2>3. ents'[node[s]] = ents[node[s]]
    BY <2>2 DEF TreeGrows
  <2>4. batch[s] = WhatIsRead(s)
    BY <1>4, <2>2 DEF ReadOK, NodeCurrent, NodeHeld
  <2>5. EntryKeys(node[s])' = EntryKeys(node[s])
    BY <1>1, <2>3 DEF EntryKeys
  <2>6. WhatIsRead(s)' = WhatIsRead(s)
    BY <1>1, <2>3, <2>5 DEF WhatIsRead, LeafEntries
  <2>7. QED
    BY <2>4, <2>6
<1>5. ReadOK(s)'
  BY <1>1, <1>3, <1>4 DEF ReadOK
<1>6. QED
  BY <1>2, <1>5

\* Such a step is one the map does not see, and it keeps the invariant.
LEMMA HiddenStep ==
  ASSUME LockInv, SafeInv, SafeInv', RefInv, NEW t \in Threads, Hidden(t), ReadOK(t)'
  PROVE  RefInv' /\ UNCHANGED Index!kvVars
<1>1. IsFiniteSet(Present')
  <2>1. Present' = Present
    BY PresentOf DEF Hidden
  <2>2. QED
    BY <2>1 DEF RefInv
<1>2. \A s \in Threads \ {t} : OutOK(s)' /\ ReadOK(s)'
  BY OthersRead DEF RefInv, Hidden
<1>3. OutOK(t)'
  BY DEF Hidden, Open, OutOK, RefInv
<1>4. RefInv'
  BY <1>1, <1>2, <1>3 DEF RefInv
<1>5. \A s \in Threads :
        /\ pc'[s] = "idle" <=> pc[s] = "idle"
        /\ pc'[s] \in {"unlockLeaf", "return"} <=> pc[s] \in {"unlockLeaf", "return"}
  BY DEF Hidden, Open, Elsewhere
<1>6. UNCHANGED Index!kvVars
  BY <1>5 DEF Index!kvVars, Hidden
<1>7. QED
  BY <1>4, <1>6

\* A step of the search that writes no node.
LEMMA SearchHidden ==
  ASSUME NEW t \in Threads, UNCHANGED <<tree, sibling, sep, from, out, bound>>,
         SearchElsewhere(t), \A s \in Threads \ {t} : batch'[s] = batch[s], WordsGrow,
         pc[t] \in Open, pc'[t] \in Open
  PROVE  Hidden(t)
<1>1. Elsewhere(t) /\ TreeGrows(t) /\ UNCHANGED <<call, from, out>>
  BY DEF SearchElsewhere, Elsewhere, TreeGrows, tree, bound
<1>2. Contents' = Contents
  BY ContentsStay DEF tree
<1>3. QED
  BY <1>1, <1>2 DEF Hidden

\* Starting again from the root.
LEMMA RestartHidden ==
  ASSUME SafeInv, NEW t \in Threads, Restart(t), pc[t] \in Open,
         UNCHANGED <<tree, sibling, sep, from, out, bound>>, WordsGrow,
         \A s \in Threads \ {t} : batch'[s] = batch[s]
  PROVE  Hidden(t) /\ ReadOK(t)'
<1>1. SearchElsewhere(t) /\ pc'[t] = "root"
  BY RestartFresh DEF SafeInv
<1>2. Hidden(t)
  BY <1>1, SearchHidden DEF Open, Label
<1>3. QED
  BY <1>1, <1>2 DEF ReadOK, AtLeaf

\* The way down.
LEMMA DescendHidden ==
  ASSUME SafeInv, NEW t \in Threads, Descend(t)
  PROVE  Hidden(t) /\ ReadOK(t)'
<1> USE ThreadParts
<1>1. /\ UNCHANGED <<tree, word, sibling, sep, result, bound>>
      /\ UNCHANGED <<tree, sibling, sep, from, out, bound>>
      /\ \A s \in Threads : batch'[s] = batch[s]
  BY DEF Descend, ReadRoot, LockRoot, CheckRoot, Visit, CheckParent, ReadChild, CheckInner,
         LockChild, result
<1>2. WordsGrow
  BY <1>1, SameWords DEF TypeOK
<1>3. pc[t] \in Open
  BY DEF Descend, ReadRoot, LockRoot, CheckRoot, Visit, CheckParent, ReadChild, CheckInner,
         LockChild, Open, Label
<1>4. CASE Restart(t)
  BY <1>1, <1>2, <1>3, <1>4, RestartHidden
<1>5. ASSUME SearchElsewhere(t), pc'[t] \in Open \ AtLeaf
      PROVE  Hidden(t) /\ ReadOK(t)'
  BY <1>1, <1>2, <1>3, <1>5, SearchHidden DEF ReadOK, AtLeaf
<1>6. CASE ReadRoot(t)
  <2>1. SearchElsewhere(t) /\ pc'[t] = "rootLock"
    BY <1>6 DEF ReadRoot, Goto, TypeOK, SearchElsewhere
  <2>2. QED
    BY <1>5, <2>1 DEF Open, Label, AtLeaf
<1>7. CASE LockRoot(t) /\ ~Restart(t)
  <2>1. SearchElsewhere(t) /\ pc'[t] = "rootCheck"
    BY <1>7 DEF LockRoot, ReadLock, Goto, TypeOK, SearchElsewhere
  <2>2. QED
    BY <1>5, <2>1 DEF Open, Label, AtLeaf
<1>8. CASE CheckRoot(t) /\ ~Restart(t)
  <2>1. SearchElsewhere(t) /\ pc'[t] = "visit"
    BY <1>8 DEF CheckRoot, Goto, TypeOK, SearchElsewhere, search
  <2>2. QED
    BY <1>5, <2>1 DEF Open, Label, AtLeaf
<1>9. CASE Visit(t)
  <2>1. PICK label \in {"lockNode", "lockParent", "checkParent", "leafLock", "read"} :
          /\ Goto(t, label) /\ UNCHANGED search
          /\ label = "read" => kind[node[t]] # "inner"
    BY <1>9 DEF Visit
  <2>2. SearchElsewhere(t) /\ pc'[t] = label /\ node'[t] = node[t]
    BY <2>1 DEF Goto, TypeOK, SearchElsewhere, search
  <2>3. label = "read" => kind'[node'[t]] = "leaf"
    <3>1. node[t] \in Nodes /\ kind[node[t]] # "free"
      BY <1>9 DEF Visit, Where, Allocated, NodeSeen, NodeRead
    <3>2. QED
      BY <1>1, <2>1, <2>2, <3>1 DEF TypeOK, tree
  <2>4. Hidden(t)
    BY <1>1, <1>2, <1>3, <2>2, SearchHidden DEF Open, Label
  <2>5. QED
    BY <2>2, <2>3, <2>4 DEF ReadOK, AtLeaf
<1>10. CASE CheckParent(t) /\ ~Restart(t)
  <2>1. SearchElsewhere(t) /\ pc'[t] = "child"
    BY <1>10 DEF CheckParent, Goto, TypeOK, SearchElsewhere
  <2>2. QED
    BY <1>5, <2>1 DEF Open, Label, AtLeaf
<1>11. CASE ReadChild(t)
  <2>1. SearchElsewhere(t) /\ pc'[t] = "checkInner"
    BY <1>11 DEF ReadChild, Goto, TypeOK, SearchElsewhere
  <2>2. QED
    BY <1>5, <2>1 DEF Open, Label, AtLeaf
<1>12. CASE CheckInner(t) /\ ~Restart(t)
  <2>1. SearchElsewhere(t) /\ pc'[t] = "childLock"
    BY <1>12 DEF CheckInner, Validate, Goto, TypeOK, SearchElsewhere, search
  <2>2. QED
    BY <1>5, <2>1 DEF Open, Label, AtLeaf
<1>13. CASE LockChild(t) /\ ~Restart(t)
  <2>1. SearchElsewhere(t) /\ pc'[t] = "visit"
    BY <1>13 DEF LockChild, ReadLock, Goto, TypeOK, SearchElsewhere
  <2>2. QED
    BY <1>5, <2>1 DEF Open, Label, AtLeaf
<1>14. QED
  BY <1>4, <1>6, <1>7, <1>8, <1>9, <1>10, <1>11, <1>12, <1>13 DEF Descend


\* Locking and giving back, on the way to a split and into a leaf.
LEMMA LocksHidden ==
  ASSUME SafeInv, NEW t \in Threads,
         \/ LockParent(t) \/ LockNode(t) \/ GiveBackParent(t) \/ RecheckRoot(t)
         \/ GiveBackNode(t) \/ UnlockNode(t) \/ UnlockParent(t)
         \/ LockLeaf(t) \/ LeafCheckParent(t)
  PROVE  Hidden(t) /\ ReadOK(t)'
<1> USE ThreadParts
<1>1. /\ UNCHANGED <<tree, sibling, sep, from, out, bound>>
      /\ \A s \in Threads : batch'[s] = batch[s]
  BY DEF LockParent, LockNode, GiveBackParent, RecheckRoot, GiveBackNode, UnlockNode,
         UnlockParent, LockLeaf, LeafCheckParent, result
<1>2. pc[t] \in Open
  BY DEF LockParent, LockNode, GiveBackParent, RecheckRoot, GiveBackNode, UnlockNode,
         UnlockParent, LockLeaf, LeafCheckParent, Open, Label
<1>3. WordsGrow
  <2>1. word' = word \/ \E n : word' = [word EXCEPT ![n] = @ + 2]
    BY DEF LockParent, LockNode, GiveBackParent, RecheckRoot, GiveBackNode, UnlockNode,
           UnlockParent, LockLeaf, LeafCheckParent, Upgrade, UnlockAndRestart, setLock,
           writeUnlock
  <2>2. QED
    BY <2>1, WordGrows, SameWords DEF TypeOK
<1>4. CASE Restart(t)
  BY <1>1, <1>2, <1>3, <1>4, RestartHidden
<1>5. ASSUME ~Restart(t)
      PROVE  \E label \in {"lockNode", "giveBackParent", "recheckRoot", "split",
                           "giveBackNode", "unlockParent", "put", "leafCheckParent"} :
               Goto(t, label) /\ UNCHANGED search
  BY <1>5 DEF LockParent, LockNode, GiveBackParent, RecheckRoot, GiveBackNode, UnlockNode,
         UnlockParent, LockLeaf, LeafCheckParent, Upgrade, UnlockAndRestart
<1>6. CASE ~Restart(t)
  <2>1. PICK label \in Open \ AtLeaf : Goto(t, label) /\ UNCHANGED search
    BY <1>5, <1>6 DEF Open, Label, AtLeaf
  <2>2. SearchElsewhere(t) /\ pc'[t] = label
    BY <2>1 DEF Goto, TypeOK, SearchElsewhere, search
  <2>3. Hidden(t)
    BY <1>1, <1>2, <1>3, <2>1, <2>2, SearchHidden
  <2>4. QED
    BY <2>1, <2>2, <2>3 DEF ReadOK, AtLeaf
<1>7. QED
  BY <1>4, <1>6

\* A leaf that is read while it does not change; what was read is kept until the
\* leaf is validated.
LEMMA ReadHidden ==
  ASSUME SafeInv, NEW t \in Threads, RefInv,
         ReadLeaf(t) \/ ReadCheckParent(t) \/ (ReadCheckNode(t) /\ ~NodeCurrent(t))
  PROVE  Hidden(t) /\ ReadOK(t)'
<1> USE ThreadParts
<1>1. /\ UNCHANGED <<tree, word, sibling, sep, from, out, bound>>
      /\ pc[t] \in AtLeaf /\ pc[t] \in Open /\ kind[node[t]] = "leaf"
  <2>1. /\ UNCHANGED <<tree, word, sibling, sep, from, out, bound>>
        /\ pc[t] \in AtLeaf /\ pc[t] \in Open
    BY DEF ReadLeaf, ReadCheckParent, ReadCheckNode, NodeCurrent, Accept, AtLeaf, Open, Label
  <2>2. QED
    BY <2>1 DEF RefInv, ReadOK
<1>2. \A s \in Threads \ {t} : batch'[s] = batch[s]
  BY DEF ReadLeaf, ReadCheckParent, ReadCheckNode, TypeOK
<1>3. WordsGrow
  BY <1>1, SameWords DEF TypeOK
<1>4. CASE Restart(t)
  BY <1>1, <1>2, <1>3, <1>4, RestartHidden
<1>5. CASE ReadLeaf(t)
  <2>1. /\ pc'[t] = "readCheckParent" /\ SearchElsewhere(t)
        /\ node'[t] = node[t] /\ versionNode'[t] = versionNode[t]
    BY <1>5 DEF ReadLeaf, Goto, TypeOK, SearchElsewhere, search
  <2>2. Hidden(t)
    BY <1>1, <1>2, <1>3, <2>1, SearchHidden DEF Open, Label
  <2>3. word[node[t]] = versionNode[t] => batch'[t] = WhatIsRead(t)
    BY <1>5 DEF ReadLeaf, TypeOK, WhatIsRead
  <2>4. WhatIsRead(t)' = WhatIsRead(t)
    BY <1>1, <2>1 DEF WhatIsRead, LeafEntries, EntryKeys, tree, bound
  <2>5. QED
    BY <1>1, <2>1, <2>2, <2>3, <2>4 DEF ReadOK, tree
<1>6. CASE ReadCheckParent(t) /\ ~Restart(t)
  <2>1. /\ pc[t] = "readCheckParent" /\ pc'[t] = "readCheckNode" /\ SearchElsewhere(t)
        /\ node'[t] = node[t] /\ versionNode'[t] = versionNode[t] /\ batch'[t] = batch[t]
    BY <1>6 DEF ReadCheckParent, Goto, TypeOK, SearchElsewhere, search
  <2>2. Hidden(t)
    BY <1>1, <1>2, <1>3, <2>1, SearchHidden DEF Open, Label
  <2>3. word[node[t]] = versionNode[t] => batch[t] = WhatIsRead(t)
    BY <2>1 DEF RefInv, ReadOK
  <2>4. WhatIsRead(t)' = WhatIsRead(t)
    BY <1>1, <2>1 DEF WhatIsRead, LeafEntries, EntryKeys, tree, bound
  <2>5. QED
    BY <1>1, <2>1, <2>2, <2>3, <2>4 DEF ReadOK, tree
<1>7. ReadCheckNode(t) /\ ~NodeCurrent(t) => Restart(t)
  BY DEF ReadCheckNode, NodeCurrent
<1>8. QED
  BY <1>4, <1>5, <1>6, <1>7

-------------------------------------------------------------------------------
\* A split leaves every entry in the one half or the other.
LEMMA SplitHidden ==
  ASSUME LockInv, SafeInv, SearchInv, NEW t \in Threads, Split(t)
  PROVE  Hidden(t) /\ ReadOK(t)'
<1> USE ThreadParts
<1>1. PICK n \in Nodes, new \in Nodes, s \in Keys : Halves(t, n, new, s)
  BY SplitHalves
<1>2. /\ pc[t] = "split" /\ pc'[t] = "link" /\ n # new /\ n \in Holds(t) /\ n = node[t]
      /\ kind[new] = "free" /\ kind[n] \in {"leaf", "inner"}
      /\ kind' = [kind EXCEPT ![new] = kind[n]]
      /\ \A m \in Nodes \ {n, new} :
           ents'[m] = ents[m] /\ below'[m] = below[m] /\ beyond'[m] = beyond[m]
      /\ Elsewhere(t) /\ WordsGrow
  BY <1>1 DEF Halves
<1>3. TreeGrows(t)
  BY <1>2 DEF TreeGrows, TypeOK
<1>4. UNCHANGED <<call, from, out>>
  BY DEF Split, result, bound
<1>5. Contents' = Contents
  <2>1. CASE kind[n] = "leaf"
    <3>1. SplitLeaf(t) /\ leafIsFull(n) /\ new = NewNode
      <4>1. isFull(n)
        BY <1>2 DEF Fullness, NodeCurrent, NodeHeld
      <4>2. sibling'[t] = NewNode
        BY DEF Split, TypeOK
      <4>3. QED
        BY <1>1, <1>2, <2>1, <4>1, <4>2 DEF Split, isFull, Halves
    <3>2. PICK q \in EntryKeys(n) :
            \A e \in Keys :
              /\ ents'[n][e] = IF e <= q THEN ents[n][e] ELSE None
              /\ ents'[new][e] = IF e > q THEN ents[n][e] ELSE None
      BY <1>2, <2>1, <3>1, SplitLeafHalves
    <3>3. PICK cov, lev : Layout(cov, lev)
      BY DEF SearchInv
    <3>4. ASSUME NEW k \in Keys PROVE Contents'[k] = Contents[k]
      <4>1. k \in Nat /\ q \in Nat
        BY KeysAssumption, KeysAreNumbers
      <4>2. CASE ents[n][k] = None
        <5>1. ents'[n][k] = None /\ ents'[new][k] = None
          BY <3>2, <4>2
        <5>2. \A m : m \in Holders(k)' <=> m \in Holders(k)
          BY <1>2, <4>2, <5>1 DEF Holders, TypeOK
        <5>3. \A m \in Holders(k) : ents'[m][k] = ents[m][k]
          BY <1>2, <4>2 DEF Holders
        <5>4. Holders(k)' = Holders(k)
          BY <5>2 DEF Holders
        <5>5. QED
          BY <5>3, <5>4, ContentsAt
      <4>3. CASE ents[n][k] # None
        <5>1. k \in cov[n]
          BY <2>1, <3>3, <4>3 DEF Layout, LeafOK, EntryKeys
        <5>2. Contents[k] = ents[n][k] /\ Holders(k) = {n}
          BY <2>1, <3>3, <4>3, <5>1, ContentsCovered
        <5>3. PICK h \in Nodes : h = IF k <= q THEN n ELSE new
          OBVIOUS
        <5>4. ents'[h][k] = ents[n][k] /\ \A m \in {n, new} : m # h => ents'[m][k] = None
          BY <1>2, <3>2, <4>1, <5>3
        <5>5. \A m \in Nodes \ {n, new} : m \notin Holders(k)'
          BY <1>2, <5>2 DEF Holders, TypeOK
        <5>6. h \in Holders(k)'
          BY <1>2, <2>1, <4>3, <5>3, <5>4 DEF Holders, TypeOK
        <5>7. \A m : m \in Holders(k)' <=> m = h
          BY <5>3, <5>4, <5>5, <5>6 DEF Holders
        <5>8. Holders(k)' = {h}
          BY <5>7
        <5>9. QED
          BY <5>2, <5>4, <5>8, ContentsNow
      <4>4. QED
        BY <4>2, <4>3
    <3>5. QED
      BY <3>4, SameContents
  <2>2. CASE kind[n] = "inner"
    <3>1. SplitInner(t)
      BY <1>2, <2>2 DEF Split
    <3>2. QED
      BY <1>2, <2>2, <3>1, ContentsStay DEF SplitInner, TypeOK
  <2>3. QED
    BY <1>2, <2>1, <2>2
<1>6. QED
  BY <1>2, <1>3, <1>4, <1>5 DEF Hidden, Open, Label, ReadOK, AtLeaf


\* Linking the new half moves no entry.
LEMMA LinkHidden ==
  ASSUME LockInv, SafeInv, NEW t \in Threads, Link(t)
  PROVE  Hidden(t) /\ ReadOK(t)'
<1> USE ThreadParts
<1>1. /\ pc[t] = "link" /\ pc'[t] = "unlockNode"
      /\ UNCHANGED <<word, search, result, bound>>
      /\ \A s \in Threads \ {t} : pc'[s] = pc[s] /\ sibling'[s] = sibling[s] /\ sep'[s] = sep[s]
  BY DEF Link, Goto, TypeOK
<1>2. Elsewhere(t) /\ UNCHANGED <<call, from, out>>
  BY <1>1 DEF Elsewhere, search, result, bound
<1>3. WordsGrow
  BY <1>1, SameWords DEF TypeOK
<1>4. CASE parent[t] = None
  <2>1. PICK r \in Nodes : r = NewNode /\ kind[r] = "free"
    BY <1>4 DEF Link, NewNode, Free
  <2>2. /\ kind' = [kind EXCEPT ![r] = "inner"] /\ UNCHANGED ents
        /\ below' = [below EXCEPT ![r][sep[t]] = node[t]]
    BY <1>4, <2>1 DEF Link, makeRoot
  <2>3. TreeGrows(t)
    BY <2>1, <2>2 DEF TreeGrows, TypeOK
  <2>4. Contents' = Contents
    BY <2>1, <2>2, ContentsStay DEF TypeOK
  <2>5. QED
    BY <1>1, <1>2, <1>3, <2>3, <2>4 DEF Hidden, Open, Label, ReadOK, AtLeaf
<1>5. CASE parent[t] # None
  <2>1. PICK p \in Holds(t) : p = parent[t] /\ p \in Nodes
    BY <1>1, <1>5, LinkingHeld
  <2>2. UNCHANGED <<kind, ents>> /\ \A m \in Nodes \ {p} : below'[m] = below[m]
    <3>1. PICK f, g, x : below' = [below EXCEPT ![p] = f] \/ below' = [below EXCEPT ![p] = g, ![p] = x]
      BY <1>5, <2>1 DEF Link, LinkSibling
    <3>2. QED
      BY <1>5, <3>1 DEF Link, LinkSibling, TypeOK
  <2>3. TreeGrows(t)
    BY <2>1, <2>2 DEF TreeGrows
  <2>4. Contents' = Contents
    BY <2>2, ContentsStay
  <2>5. QED
    BY <1>1, <1>2, <1>3, <2>3, <2>4 DEF Hidden, Open, Label, ReadOK, AtLeaf
<1>6. QED
  BY <1>4, <1>5

-------------------------------------------------------------------------------
(***************************************************************************)
(* The steps of the map: a call begins, takes effect, or returns.          *)
(***************************************************************************)
phase == [t \in Threads |->
            IF pc[t] = "idle" THEN "idle"
            ELSE IF pc[t] \in {"unlockLeaf", "return"} THEN "done"
            ELSE "open"]

\* How the phase of a call follows from where its thread stands.
LEMMA PhaseOf ==
  ASSUME NEW t \in Threads, \A s \in Threads \ {t} : pc'[s] = pc[s]
  PROVE  /\ phase[t] = IF pc[t] = "idle" THEN "idle"
                       ELSE IF pc[t] \in {"unlockLeaf", "return"} THEN "done" ELSE "open"
         /\ pc'[t] = "idle" => phase' = [phase EXCEPT ![t] = "idle"]
         /\ pc'[t] \in {"unlockLeaf", "return"} => phase' = [phase EXCEPT ![t] = "done"]
         /\ pc'[t] \in Open => phase' = [phase EXCEPT ![t] = "open"]
BY DEF phase, Open

\* What every step leaves of the other threads' readings.
LEMMA RefInvAfter ==
  ASSUME LockInv, SafeInv, SafeInv', RefInv, NEW t \in Threads,
         Elsewhere(t), WordsGrow, TreeGrows(t),
         \A s \in Threads \ {t} : out'[s] = out[s],
         OutOK(t)', ReadOK(t)', IsFiniteSet(Present')
  PROVE  RefInv'
BY OthersRead DEF RefInv

\* A call begins.
LEMMA StartSteps ==
  ASSUME LockInv, SafeInv, SafeInv', RefInv, NEW t \in Threads,
         NEW c \in Calls \cup {Load[i] : i \in DOMAIN Load}, Start(t, c)
  PROVE  RefInv' /\ Index!Invoke(t, c)
<1> USE ThreadParts
<1>1. /\ pc[t] = "idle" /\ pc' = [pc EXCEPT ![t] = "root"]
      /\ call' = [call EXCEPT ![t] = c] /\ from' = [from EXCEPT ![t] = c.key]
      /\ UNCHANGED <<tree, word, search, sibling, sep, batch, out>>
  BY DEF Start, Goto
<1>2. Elsewhere(t) /\ WordsGrow /\ TreeGrows(t) /\ Contents' = Contents
  BY <1>1, ContentsStay DEF TypeOK, Elsewhere, WordsGrow, TreeGrows, tree, search
<1>3. out[t] = <<>>
  BY <1>1 DEF RefInv, OutOK
<1>4. pc'[t] = "root" /\ call'[t] = c
  BY <1>1 DEF TypeOK
<1>5. OutOK(t)' /\ ReadOK(t)'
  <2>1. c.op = "scan" => c.range \in Nat \ {0}
    BY CallsAssumption
  <2>2. c.op = "scan" => Len(out[t]) < c.range
    BY <1>3, <2>1
  <2>3. QED
    BY <1>1, <1>3, <1>4, <2>2 DEF OutOK, ReadOK, AtLeaf
<1>6. RefInv'
  <2>1. IsFiniteSet(Present')
    BY <1>2, PresentOf DEF RefInv
  <2>2. QED
    BY <1>1, <1>2, <1>5, <2>1, RefInvAfter
<1>7. phase[t] = "idle" /\ phase' = [phase EXCEPT ![t] = "open"]
  BY <1>1, <1>4, PhaseOf DEF TypeOK, Open, Label
<1>8. out' = [out EXCEPT ![t] = <<>>]
  BY <1>1, <1>3 DEF TypeOK
<1>9. Index!Invoke(t, c)
  BY <1>1, <1>2, <1>7, <1>8 DEF Index!Invoke, phase
<1>10. QED
  BY <1>6, <1>9

\* The results go with the call.
LEMMA LeaveSteps ==
  ASSUME LockInv, SafeInv, SafeInv', RefInv, NEW t \in Threads, UnlockLeaf(t) \/ Return(t)
  PROVE  RefInv' /\ Index!Return(t)
<1> USE ThreadParts
<1>1. /\ pc[t] \in {"unlockLeaf", "return"} /\ pc' = [pc EXCEPT ![t] = "idle"]
      /\ call' = [call EXCEPT ![t] = None]
      /\ node' = [node EXCEPT ![t] = None] /\ parent' = [parent EXCEPT ![t] = None]
      /\ versionNode' = [versionNode EXCEPT ![t] = 0]
      /\ versionParent' = [versionParent EXCEPT ![t] = 0]
      /\ from' = [from EXCEPT ![t] = 0] /\ out' = [out EXCEPT ![t] = <<>>]
      /\ UNCHANGED <<tree, sibling, sep, batch>>
      /\ word' = word \/ word' = [word EXCEPT ![node[t]] = @ + 2]
  BY DEF UnlockLeaf, Return, Leave, Goto, writeUnlock
<1>2. WordsGrow
  BY <1>1, WordGrows, SameWords DEF TypeOK
<1>3. Elsewhere(t) /\ TreeGrows(t) /\ Contents' = Contents
  BY <1>1, ContentsStay DEF TypeOK, Elsewhere, TreeGrows, tree
<1>4. pc'[t] = "idle" /\ out'[t] = <<>> /\ \A s \in Threads \ {t} : out'[s] = out[s]
  BY <1>1 DEF TypeOK
<1>5. RefInv'
  <2>1. OutOK(t)' /\ ReadOK(t)'
    BY <1>4 DEF OutOK, ReadOK, AtLeaf
  <2>2. IsFiniteSet(Present')
    BY <1>3, PresentOf DEF RefInv
  <2>3. QED
    BY <1>2, <1>3, <1>4, <2>1, <2>2, RefInvAfter
<1>6. phase[t] = "done" /\ phase' = [phase EXCEPT ![t] = "idle"]
  BY <1>1, <1>4, PhaseOf DEF TypeOK
<1>7. Index!Return(t)
  BY <1>1, <1>3, <1>6 DEF Index!Return, phase
<1>8. QED
  BY <1>5, <1>7


\* Writing the leaf is the instant at which the insert takes effect: no other leaf
\* holds the key.
LEMMA PutSteps ==
  ASSUME LockInv, SafeInv, SafeInv', SearchInv, RefInv, NEW t \in Threads, Put(t)
  PROVE  RefInv' /\ Index!Insert(t)
<1> USE ThreadParts
<1>1. /\ pc[t] = "put" /\ pc' = [pc EXCEPT ![t] = "unlockLeaf"]
      /\ ents' = [ents EXCEPT ![node[t]][from[t]] = call[t].val]
      /\ UNCHANGED <<root, kind, below, beyond, word, search, sibling, sep, result, bound>>
  BY DEF Put, Goto
<1>2. PICK n \in Holds(t) : n = node[t] /\ n \in Nodes /\ kind[n] = "leaf"
  BY <1>1 DEF Where, Allocated, NodeSeen, NodeHeld, Holds
<1>3. inserting(t) /\ call[t] # None /\ from[t] = call[t].key
  BY <1>1 DEF CallOK, InsertLabels, inserting
<1>4. PICK k \in Keys, v \in Payloads :
        k = call[t].key /\ v = call[t].val /\ ents' = [ents EXCEPT ![n][k] = v]
  BY <1>1, <1>2, <1>3, CallTypes DEF inserting
<1>5. /\ \A m \in Nodes \ {n} : ents'[m] = ents[m]
      /\ \A j \in Keys : ents'[n][j] = IF j = k THEN v ELSE ents[n][j]
      /\ kind' = kind
  BY <1>1, <1>2, <1>4 DEF TypeOK
<1>6. Elsewhere(t) /\ WordsGrow /\ TreeGrows(t)
  BY <1>1, <1>2, <1>5 DEF TypeOK, Elsewhere, WordsGrow, TreeGrows, search, result, bound
<1>7. pc'[t] = "unlockLeaf" /\ UNCHANGED <<call, from, out>>
  BY <1>1 DEF TypeOK, result, bound
<1>8. Contents'[k] = v
  <2>1. PICK cov, lev : Layout(cov, lev) /\ Knows(t, cov, lev)
    BY DEF SearchInv
  <2>2. k \in cov[n]
    BY <1>1, <1>2, <1>3, <1>4, <2>1 DEF Knows, KnowsLeaf
  <2>3. \A m \in Nodes \ {n} : m \notin Holders(k)
    BY <1>2, <2>1, <2>2, ContentsCovered
  <2>4. \A m : m \in Holders(k)' <=> m = n
    BY <1>2, <1>5, <2>3, PayloadsAssumption DEF Holders
  <2>5. Holders(k)' = {n}
    BY <2>4
  <2>6. QED
    BY <1>5, <2>5, ContentsNow
<1>9. ASSUME NEW j \in Keys \ {k} PROVE Contents'[j] = Contents[j]
  <2>1. \A m \in Nodes : ents'[m][j] = ents[m][j]
    BY <1>5
  <2>2. Holders(j)' = Holders(j) /\ \A m \in Holders(j) : ents'[m][j] = ents[m][j]
    BY <1>5, <2>1 DEF Holders
  <2>3. QED
    BY <2>2, ContentsAt
<1>10. Contents' = [Contents EXCEPT ![k] = v]
  <2>1. /\ Contents = [j \in Keys |-> Contents[j]]
        /\ Contents' = [j \in Keys |-> Contents'[j]]
    BY DEF Contents
  <2>2. QED
    BY <1>8, <1>9, <2>1
<1>11. RefInv'
  <2>1. Present' = Present \cup {k}
    <3>1. \A j : j \in Present' <=> j \in Present \/ j = k
      BY <1>8, <1>9, PresentOf, PayloadsAssumption
    <3>2. QED
      BY <3>1
  <2>2. IsFiniteSet(Present')
    BY <2>1, FS_AddElement DEF RefInv
  <2>3. OutOK(t)
    BY DEF RefInv
  <2>4. OutOK(t)' /\ ReadOK(t)'
    BY <1>1, <1>7, <2>3 DEF OutOK, ReadOK, AtLeaf
  <2>5. QED
    BY <1>6, <1>7, <2>2, <2>4, RefInvAfter
<1>12. phase[t] = "open" /\ phase' = [phase EXCEPT ![t] = "done"]
  BY <1>1, <1>7, PhaseOf DEF TypeOK
<1>13. Index!Insert(t)
  BY <1>3, <1>4, <1>7, <1>10, <1>12 DEF Index!Insert, phase, inserting
<1>14. QED
  BY <1>11, <1>13

(***************************************************************************)
(* Validating the leaf that was read is the instant at which a find, and a *)
(* fetch of a scan, takes effect: the leaf still holds what was read.      *)
(***************************************************************************)
LEMMA AcceptSteps ==
  ASSUME LockInv, SafeInv, SafeInv', SearchInv, RefInv, NEW t \in Threads,
         ReadCheckNode(t), NodeCurrent(t)
  PROVE  RefInv' /\ (Index!Find(t) \/ Index!Fetch(t))
<1> USE ThreadParts
<1>1. /\ pc[t] = "readCheckNode" /\ word[node[t]] = versionNode[t] /\ Accept(t)
      /\ batch' = [batch EXCEPT ![t] = <<>>]
      /\ UNCHANGED <<tree, word, sibling, sep, bound>>
  BY DEF ReadCheckNode, NodeCurrent, NodeHeld
<1>2. PICK n \in Nodes : n = node[t] /\ kind[n] = "leaf"
  BY <1>1 DEF Where, Allocated, NodeSeen, NodeRead, RefInv, ReadOK, AtLeaf
<1>3. /\ call[t] # None /\ call[t].op \in {"find", "scan"}
      /\ call[t] \in Calls \cup {Load[i] : i \in DOMAIN Load}
  BY <1>1, CallTypes DEF CallOK, ReadLabels, inserting, TypeOK
<1>4. PICK k, had, read, got :
        /\ k \in Nat /\ k = from[t] /\ had = out[t] /\ read = batch[t] /\ got = had \o read
        /\ out' = [out EXCEPT ![t] = got]
  BY <1>1 DEF Accept, TypeOK
<1>5. had \in Seq(Payloads \cup {Unset}) /\ read \in Seq(Payloads \cup {Unset})
  BY <1>1, <1>4 DEF TypeOK, BatchOK
<1>6. read = WhatIsRead(t)
  BY <1>1, <1>4 DEF RefInv, ReadOK
<1>7. PICK cov, lev : Layout(cov, lev) /\ k \in cov[n]
  BY <1>1, <1>2, <1>4 DEF SearchInv, Knows, KnowsLeaf
<1>8. /\ SearchElsewhere(t) /\ \A s \in Threads \ {t} : from'[s] = from[s]
      /\ pc'[t] \in {"root", "return"}
  <2>1. Restart(t) \/ (Goto(t, "return") /\ UNCHANGED search)
    BY <1>1 DEF Accept
  <2>2. Goto(t, "return") /\ UNCHANGED search => SearchElsewhere(t) /\ pc'[t] = "return"
    BY DEF Goto, SearchElsewhere, TypeOK, search
  <2>3. Restart(t) => SearchElsewhere(t) /\ pc'[t] = "root"
    BY RestartFresh
  <2>4. from' = from \/ \E x : from' = [from EXCEPT ![t] = x]
    BY <1>1 DEF Accept
  <2>5. \A s \in Threads \ {t} : from'[s] = from[s]
    BY <2>4 DEF TypeOK
  <2>6. QED
    BY <2>1, <2>2, <2>3, <2>5
<1>9. /\ Elsewhere(t) /\ WordsGrow /\ TreeGrows(t) /\ Contents' = Contents
      /\ call' = call /\ \A s \in Threads \ {t} : out'[s] = out[s]
  <2>1. \A s \in Threads \ {t} : batch'[s] = batch[s] /\ out'[s] = out[s]
    BY <1>1, <1>4 DEF TypeOK
  <2>2. Elsewhere(t) /\ call' = call
    BY <1>1, <1>8, <2>1 DEF Elsewhere, SearchElsewhere, bound
  <2>3. WordsGrow /\ TreeGrows(t) /\ Contents' = Contents
    BY <1>1, SameWords, ContentsStay DEF TypeOK, TreeGrows, tree
  <2>4. QED
    BY <2>1, <2>2, <2>3
<1>10. out'[t] = got
  BY <1>4 DEF TypeOK
<1>11. ASSUME OutOK(t)' PROVE RefInv'
  <2>1. ReadOK(t)'
    BY <1>8 DEF ReadOK, AtLeaf
  <2>2. IsFiniteSet(Present')
    BY <1>9, PresentOf DEF RefInv
  <2>3. QED
    BY <1>9, <1>11, <2>1, <2>2, RefInvAfter
<1>12. phase[t] = "open"
  BY <1>1, PhaseOf, <1>8 DEF SearchElsewhere
<1>13. CASE call[t].op = "find"
  <2>1. pc'[t] = "return" /\ from' = from
    <3>1. Goto(t, "return") /\ UNCHANGED <<search, from>>
      BY <1>1, <1>13 DEF Accept
    <3>2. QED
      BY <3>1 DEF Goto, TypeOK
  <2>2. had = <<>>
    BY <1>1, <1>4, <1>13 DEF RefInv, OutOK
  <2>3. k \in Keys
    BY <1>3, <1>4, <1>13, CallTypes DEF CallOK
  <2>4. Contents[k] = ents[n][k]
    BY <1>2, <1>7, <2>3, ContentsCovered
  <2>5. PICK x : x = IF Contents[k] = None THEN Unset ELSE Contents[k]
    OBVIOUS
  <2>6. read = <<x>>
    BY <1>2, <1>4, <1>6, <1>13, <2>4, <2>5 DEF WhatIsRead
  <2>7. got = <<x>>
    BY <1>4, <2>2, <2>6
  <2>8. out' = [out EXCEPT ![t] = <<IF Contents[from[t]] = None THEN Unset ELSE Contents[from[t]]>>]
    BY <1>4, <2>5, <2>7
  <2>9. phase' = [phase EXCEPT ![t] = "done"]
    BY <2>1, <1>8, PhaseOf DEF SearchElsewhere
  <2>10. Index!Find(t)
    BY <1>9, <1>12, <1>13, <2>1, <2>8, <2>9 DEF Index!Find, phase
  <2>11. OutOK(t)'
    BY <2>1 DEF OutOK
  <2>12. QED
    BY <1>11, <2>10, <2>11
<1>14. CASE call[t].op = "scan"
  <2>1. PICK most \in Nat \ {0} : most = call[t].range - Len(had)
    <3>1. call[t].range \in Nat /\ Len(had) \in Nat /\ Len(had) < call[t].range
      BY <1>1, <1>3, <1>4, <1>5, <1>14, CallTypes DEF RefInv, OutOK
    <3>2. call[t].range - Len(had) \in Nat \ {0}
      BY <3>1
    <3>3. QED
      BY <3>2
  <2>2. read = LeafEntries(n, k, most)
    BY <1>2, <1>4, <1>6, <1>14, <2>1 DEF WhatIsRead
  <2>3. PICK rest : rest = Index!Ascending(Contents, k)
    OBVIOUS
  <2>4. PICK count \in 0..most :
          /\ count <= Len(rest) /\ (count = 0 <=> rest = <<>>)
          /\ read = Index!PayloadsOf(Contents, SubSeq(rest, 1, count))
          /\ Len(read) = count /\ (count = 0 <=> read = <<>>)
    BY <1>2, <1>4, <1>7, <2>2, <2>3, FetchOf DEF RefInv
  <2>5. Len(got) = Len(had) + count
    <3>1. Len(had \o read) = Len(had) + Len(read)
      BY <1>5
    <3>2. Len(read) = count
      BY <2>4
    <3>3. QED
      BY <1>4, <3>1, <3>2
  <2>6. Len(got) < call[t].range <=> count # most
    <3>1. call[t].range \in Nat /\ Len(had) \in Nat
      BY <1>3, <1>5, <1>14, CallTypes
    <3>2. QED
      BY <2>1, <2>5, <3>1
  <2>7. /\ count # 0 /\ count # most =>
             /\ pc'[t] = "root"
             /\ from' = [from EXCEPT ![t] = KeyAt(Last(read)) + 1]
        /\ count = 0 \/ count = most => pc'[t] = "return" /\ from' = from
    <3>1. count # 0 /\ count # most =>
            Restart(t) /\ from' = [from EXCEPT ![t] = KeyAt(Last(read)) + 1]
      BY <1>1, <1>4, <1>14, <2>4, <2>6 DEF Accept, nextKey
    <3>2. count = 0 \/ count = most => Goto(t, "return") /\ UNCHANGED from
      BY <1>1, <1>4, <1>14, <2>4, <2>6 DEF Accept
    <3>3. Restart(t) => pc'[t] = "root"
      BY RestartFresh
    <3>4. Goto(t, "return") => pc'[t] = "return"
      BY DEF Goto, TypeOK
    <3>5. QED
      BY <3>1, <3>2, <3>3, <3>4
  <2>8. /\ count # 0 /\ count # most => phase' = phase
        /\ count = 0 \/ count = most => phase' = [phase EXCEPT ![t] = "done"]
    <3>1. [phase EXCEPT ![t] = "open"] = phase
      BY <1>12 DEF phase
    <3>2. \A s \in Threads \ {t} : pc'[s] = pc[s]
      BY <1>8 DEF SearchElsewhere
    <3>3. QED
      BY <2>7, <3>1, <3>2, PhaseOf DEF Open, Label
  <2>9. Index!Fetch(t)
    <3>1. count \in 0..(call[t].range - Len(out[t]))
      BY <1>4, <2>1, <2>4
    <3>2. out' = [out EXCEPT ![t] = @ \o Index!PayloadsOf(Contents, SubSeq(rest, 1, count))]
      BY <1>4, <2>4
    <3>3. Index!Last(read) = Last(read)
      BY DEF Index!Last, Last
    <3>4. IF count = 0 \/ count = call[t].range - Len(out[t])
            THEN phase' = [phase EXCEPT ![t] = "done"] /\ from' = from
            ELSE /\ from' = [from EXCEPT ![t] = KeyAt(Index!Last(
                               Index!PayloadsOf(Contents, SubSeq(rest, 1, count)))) + 1]
                 /\ phase' = phase
      BY <1>4, <2>1, <2>4, <2>7, <2>8, <3>3
    <3>5. QED
      BY <1>4, <1>9, <1>12, <1>14, <2>3, <2>4, <3>1, <3>2, <3>4 DEF Index!Fetch, phase
  <2>10. OutOK(t)'
    BY <1>8, <1>9, <1>10, <1>14, <2>6, <2>7 DEF OutOK
  <2>11. QED
    BY <1>11, <2>9, <2>10
<1>15. QED
  BY <1>3, <1>13, <1>14

-------------------------------------------------------------------------------
\* A step that changes nothing at all.
LEMMA StutterRef ==
  ASSUME RefInv, UNCHANGED vars
  PROVE  RefInv' /\ UNCHANGED Index!kvVars
<1>1. UNCHANGED <<tree, word, pc, search, sibling, sep, result, bound>>
  BY DEF vars
<1>2. /\ kind' = kind /\ ents' = ents /\ pc' = pc /\ node' = node /\ word' = word
      /\ versionNode' = versionNode /\ batch' = batch /\ from' = from /\ out' = out
      /\ call' = call
  BY <1>1 DEF tree, search, result, bound
<1>3. Contents' = Contents
  BY <1>2, ContentsStay
<1>4. IsFiniteSet(Present')
  <2>1. Present' = Present
    BY <1>3, PresentOf
  <2>2. QED
    BY <2>1 DEF RefInv
<1>5. ASSUME NEW t \in Threads PROVE OutOK(t)' /\ ReadOK(t)'
  <2>1. WhatIsRead(t)' = WhatIsRead(t)
    BY <1>2 DEF WhatIsRead, LeafEntries, EntryKeys
  <2>2. QED
    BY <1>2, <2>1 DEF RefInv, OutOK, ReadOK
<1>6. UNCHANGED Index!kvVars
  BY <1>2, <1>3 DEF Index!kvVars
<1>7. QED
  BY <1>4, <1>5, <1>6 DEF RefInv

\* The empty tree is the empty map.
LEMMA InitRef == Init => RefInv /\ Index!Init
<1> SUFFICES ASSUME Init PROVE RefInv /\ Index!Init
  OBVIOUS
<1>1. /\ \A t \in Threads : pc[t] = "idle" /\ out[t] = <<>>
      /\ ents = [n \in Nodes |-> NoEntries]
  BY DEF Init
<1>2. \A k \in Keys : Holders(k) = {}
  BY <1>1 DEF Holders, NoEntries
<1>3. Contents = [k \in Keys |-> None]
  BY <1>2 DEF Contents
<1>4. IsFiniteSet(Present)
  <2>1. Present = {}
    BY <1>2 DEF Present
  <2>2. QED
    BY <2>1, FS_EmptySet
<1>5. RefInv
  BY <1>1, <1>4 DEF RefInv, OutOK, ReadOK, AtLeaf
<1>6. phase = [t \in Threads |-> "idle"]
  BY <1>1 DEF phase
<1>7. QED
  BY <1>3, <1>5, <1>6 DEF Index!Init, Init, phase

\* Every step of a thread is a step of the map or leaves it as it is.
LEMMA StepRef ==
  ASSUME LockInv, SafeInv, SafeInv', SearchInv, RefInv, NEW t \in Threads, Step(t)
  PROVE  RefInv' /\ [Index!Next]_(Index!kvVars)
<1>1. ASSUME Hidden(t), ReadOK(t)' PROVE RefInv' /\ UNCHANGED Index!kvVars
  BY <1>1, HiddenStep
<1>2. ASSUME Index!Insert(t) \/ Index!Find(t) \/ Index!Fetch(t) \/ Index!Return(t)
      PROVE  Index!Next
  BY <1>2 DEF Index!Next
<1>3. CASE Descend(t)
  BY <1>1, <1>3, DescendHidden
<1>4. CASE SplitFull(t)
  <2>1. CASE Split(t)
    BY <1>1, <2>1, SplitHidden
  <2>2. CASE Link(t)
    BY <1>1, <2>2, LinkHidden
  <2>3. CASE ~Split(t) /\ ~Link(t)
    BY <1>1, <1>4, <2>3, LocksHidden DEF SplitFull
  <2>4. QED
    BY <2>1, <2>2, <2>3
<1>5. CASE InsertIntoLeaf(t)
  <2>1. CASE Put(t)
    BY <1>2, <2>1, PutSteps
  <2>2. CASE UnlockLeaf(t)
    BY <1>2, <2>2, LeaveSteps
  <2>3. CASE ~Put(t) /\ ~UnlockLeaf(t)
    BY <1>1, <1>5, <2>3, LocksHidden DEF InsertIntoLeaf
  <2>4. QED
    BY <2>1, <2>2, <2>3
<1>6. CASE ReadOnly(t)
  <2>1. CASE ReadCheckNode(t) /\ NodeCurrent(t)
    BY <1>2, <2>1, AcceptSteps
  <2>2. CASE Return(t)
    BY <1>2, <2>2, LeaveSteps
  <2>3. CASE ReadLeaf(t) \/ ReadCheckParent(t) \/ (ReadCheckNode(t) /\ ~NodeCurrent(t))
    BY <1>1, <2>3, ReadHidden
  <2>4. QED
    BY <1>6, <2>1, <2>2, <2>3 DEF ReadOnly
<1>7. QED
  BY <1>3, <1>4, <1>5, <1>6 DEF Step

\* So is every step.
LEMMA NextRef ==
  LockInv /\ SafeInv /\ SearchInv /\ RefInv /\ [Next]_vars =>
    RefInv' /\ [Index!Next]_(Index!kvVars)
<1> SUFFICES ASSUME LockInv, SafeInv, SearchInv, RefInv, [Next]_vars
             PROVE  RefInv' /\ [Index!Next]_(Index!kvVars)
  OBVIOUS
<1>1. SafeInv'
  BY NextSafe
<1>2. ASSUME NEW t \in Threads, Step(t) PROVE RefInv' /\ [Index!Next]_(Index!kvVars)
  BY <1>1, <1>2, StepRef
<1>3. ASSUME NEW t \in Threads, NEW c \in Calls \cup {Load[i] : i \in DOMAIN Load}, Start(t, c)
      PROVE  RefInv' /\ [Index!Next]_(Index!kvVars)
  <2>1. RefInv' /\ Index!Invoke(t, c)
    BY <1>1, <1>3, StartSteps
  <2>2. QED
    BY <2>1 DEF Index!Next
<1>4. QED
  BY <1>2, <1>3, StutterRef DEF Next, Finished

(***************************************************************************)
(* The tree implements the ordered map, whatever the threads, the calls    *)
(* and the sizes of the nodes: every insert takes effect at the instant    *)
(* its leaf is written and every find and every fetch of a scan at the     *)
(* instant its leaf is validated, and no other step, no split and no       *)
(* restart among them, changes what the map holds or what a call returns.  *)
(***************************************************************************)
THEOREM Implements == Spec => IndexSpec
<1>1. LockInv /\ SafeInv /\ SearchInv /\ RefInv /\ [Next]_vars =>
        (LockInv /\ SafeInv /\ SearchInv /\ RefInv)' /\ [Index!Next]_(Index!kvVars)
  BY NextLockInv, NextSafe, NextSearch, NextRef
<1>2. Init => LockInv /\ SafeInv /\ SearchInv /\ RefInv /\ Index!Init
  BY InitLockInv, InitSafe, InitSearch, InitRef
<1>3. QED
  BY <1>1, <1>2, PTL DEF Spec, IndexSpec, Index!Spec

-------------------------------------------------------------------------------
(***************************************************************************)
(* What a scan returns.  It is a sequence of fetches of the map, so its    *)
(* results follow from the map's steps alone: keys are never taken out,    *)
(* and each fetch takes up where the one before ended.                     *)
(***************************************************************************)

\* The payload an insert stores points to the key it is stored under.
PayloadsNameKeys ==
  \A c \in Calls \cup {Load[i] : i \in DOMAIN Load} :
    c.op = "insert" => KeyAt(c.val) = c.key

\* A scan that is to go on has returned every key it should up to where it goes on.
Gathered(t) ==
  LET found == [i \in DOMAIN out[t] |-> KeyAt(out[t][i])]
  IN  /\ call[t].key <= from[t]
      /\ \A i \in DOMAIN found : found[i] < from[t]
      /\ \A k \in snap[t] :
           k >= call[t].key /\ k < from[t] => \E i \in DOMAIN found : found[i] = k

\* One that has ended, up to where it stops: what ScanComplete says.
Complete(t) ==
  LET found == [i \in DOMAIN out[t] |-> KeyAt(out[t][i])]
      filled == Len(out[t]) = call[t].range
  IN  \A k \in snap[t] :
        k >= call[t].key /\ (filled => k <= Last(found)) =>
          \E i \in DOMAIN found : found[i] = k

ScanOK(t) ==
  phase[t] # "idle" /\ call[t].op = "scan" =>
    /\ \A i \in DOMAIN out[t] : KeyAt(out[t][i]) \in Nat
    /\ \A i, j \in DOMAIN out[t] : i < j => KeyAt(out[t][i]) < KeyAt(out[t][j])
    /\ phase[t] = "open" => Gathered(t)
    /\ phase[t] = "done" => Complete(t)

ScanInv ==
  /\ \A k \in Present : KeyAt(Contents[k]) = k
  /\ \A t \in Threads : ScanOK(t) /\ \A k \in snap[t] : k \in Present

\* The map holds payloads.
LEMMA HeldPayload ==
  ASSUME SafeInv, NEW k \in Present
  PROVE  Contents[k] \in Payloads
<1>1. k \in Keys /\ Holders(k) # {}
  BY DEF Present
<1>2. PICK m \in Holders(k) : Contents[k] = ents[m][k]
  BY <1>1 DEF Contents
<1>3. ents[m][k] # None /\ ents[m][k] \in Payloads \cup {None}
  BY <1>1, <1>2 DEF Holders, SafeInv, TypeOK
<1>4. QED
  BY <1>2, <1>3

\* f lists the members of S in ascending order.
Lists(f, size, S) ==
  /\ \A i \in 1..size : f[i] \in S
  /\ \A i, j \in 1..size : i < j => f[i] < f[j]
  /\ \A s \in S : \E i \in 1..size : f[i] = s

\* Entry by entry, a finite set of numbers.
LEMMA InOrder ==
  ASSUME NEW S, \A j \in S : j \in Nat, IsFiniteSet(S), NEW size, size = Cardinality(S),
         NEW f, \A i \in 1..size : f[i] = AtIndex(S, i - 1)
  PROVE  size \in Nat /\ Lists(f, size, S)
<1>1. size \in Nat
  BY FS_CardinalityType
<1>2. ASSUME NEW i \in 1..size
      PROVE  f[i] \in S /\ Cardinality({j \in S : j < f[i]}) = i - 1
  <2>1. i - 1 \in 0..(Cardinality(S) - 1)
    BY <1>1
  <2>2. QED
    BY <2>1, AtIndexOf
<1>3. ASSUME NEW i \in 1..size, NEW j \in 1..size, i < j PROVE f[i] < f[j]
  <2> DEFINE smaller(a) == {h \in S : h < a}
  <2>1. PICK a \in S, b \in S : a = f[i] /\ b = f[j] /\ a \in Nat /\ b \in Nat
    BY <1>2
  <2>2. Cardinality(smaller(a)) = i - 1 /\ Cardinality(smaller(b)) = j - 1
    BY <1>2, <2>1
  <2>3. SUFFICES ASSUME b <= a PROVE FALSE
    BY <2>1
  <2>4. smaller(b) \subseteq smaller(a)
    <3>1. \A h \in S : h < b => h < a
      BY <2>1, <2>3
    <3>2. QED
      BY <3>1
  <2>5. IsFiniteSet(smaller(a))
    <3>1. smaller(a) \subseteq S
      OBVIOUS
    <3>2. QED
      BY <3>1, FS_Subset
  <2>6. Cardinality(smaller(b)) <= Cardinality(smaller(a))
    BY <2>4, <2>5, FS_Subset
  <2> HIDE DEF smaller
  <2>7. QED
    BY <1>1, <1>3, <2>2, <2>6
<1>4. ASSUME NEW s \in S PROVE \E i \in 1..size : f[i] = s
  <2> DEFINE upTo(a) == {h \in S : h <= a}
  <2>1. /\ upTo(s) \subseteq S /\ s \in upTo(s)
    OBVIOUS
  <2>2. /\ IsFiniteSet(upTo(s)) /\ Cardinality(upTo(s)) <= size
        /\ Cardinality(upTo(s)) \in Nat
    BY <2>1, FS_Subset, FS_CardinalityType
  <2>3. Cardinality(upTo(s)) # 0
    BY <2>1, <2>2, FS_EmptySet
  <2>4. PICK i \in 1..size : i = Cardinality(upTo(s))
    <3> HIDE DEF upTo
    <3>1. QED
      BY <1>1, <2>2, <2>3
  <2>5. f[i] \in S /\ Cardinality(upTo(f[i])) = i
    <3> DEFINE a == f[i]
               smaller == {h \in S : h < a}
    <3>1. a \in S /\ a \in Nat /\ Cardinality(smaller) = i - 1
      BY <1>2
    <3>2. upTo(a) = smaller \cup {a}
      <4> HIDE DEF a
      <4>1. \A h \in S : h <= a <=> h < a \/ h = a
        BY <3>1
      <4>2. \A h : h \in upTo(a) <=> h \in smaller \cup {a}
        BY <3>1, <4>1
      <4> HIDE DEF smaller, upTo
      <4>3. QED
        BY <4>2
    <3>3. IsFiniteSet(smaller) /\ a \notin smaller
      <4>1. smaller \subseteq S /\ ~(a < a)
        BY <3>1
      <4>2. IsFiniteSet(smaller)
        BY <4>1, FS_Subset
      <4>3. QED
        BY <4>1, <4>2
    <3>4. Cardinality(smaller \cup {a}) = i
      <4>1. Cardinality(smaller \cup {a}) = Cardinality(smaller) + 1
        BY <3>3, FS_AddElement
      <4>2. Cardinality(smaller) = i - 1
        BY <3>1
      <4> HIDE DEF a, smaller
      <4>3. QED
        BY <1>1, <4>1, <4>2
    <3>5. QED
      BY <3>1, <3>2, <3>4
  <2>6. f[i] = s
    BY <2>4, <2>5, OneOfRank
  <2>7. QED
    BY <2>6
<1>5. QED
  BY <1>1, <1>2, <1>3, <1>4 DEF Lists

\* What a fetch of n entries from a key on must bring.
Brings(read, n, k) ==
  /\ read \in Seq(Payloads) /\ Len(read) = n
  /\ \A i \in 1..n : KeyAt(read[i]) \in Nat /\ KeyAt(read[i]) >= k
  /\ \A i, j \in 1..n : i < j => KeyAt(read[i]) < KeyAt(read[j])
  /\ \A s \in Present : s >= k /\ n # 0 /\ s <= KeyAt(read[n]) =>
       \E i \in 1..n : KeyAt(read[i]) = s

\* One fetch adds the first entries from where the scan is, with none left out.
LEMMA FetchedOf ==
  ASSUME SafeInv, RefInv, ScanInv, NEW k \in Nat,
         NEW rest, rest = Index!Ascending(Contents, k),
         NEW n \in Nat, n <= Len(rest),
         NEW read, read = Index!PayloadsOf(Contents, SubSeq(rest, 1, n))
  PROVE  /\ Brings(read, n, k)
         /\ rest = <<>> => \A s \in Present : ~(s >= k)
<1> DEFINE S == PresentFrom(k)
<1>1. /\ \A j \in S : j \in Nat /\ j >= k /\ j \in Present
      /\ \A j \in Present : j >= k => j \in S
      /\ IsFiniteSet(S)
  <2>1. S \subseteq Present /\ \A j \in Present : j \in Nat
    BY KeysAssumption DEF PresentFrom, Present
  <2>2. QED
    BY <2>1, FS_Subset DEF PresentFrom, RefInv
<1>2. PICK size : size = Cardinality(S)
  OBVIOUS
<1>3. rest = [i \in 1..size |-> CHOOSE j \in S : Cardinality({h \in S : h <= j}) = i]
  <2> DEFINE R == {j \in Index!Present(Contents) : j >= k}
  <2>1. R = S
    BY PresentOf DEF Index!Present, PresentFrom
  <2>2. rest = [i \in 1..Cardinality(R) |->
                  CHOOSE j \in R : Cardinality({h \in R : h <= j}) = i]
    BY Zenon DEF Index!Ascending, Index!Cardinality, Cardinality
  <2> HIDE DEF R, S
  <2>3. QED
    BY <1>2, <2>1, <2>2
<1> HIDE DEF S
<1>4. /\ size \in Nat
      /\ \A i \in 1..size : rest[i] \in S
      /\ \A i, j \in 1..size : i < j => rest[i] < rest[j]
      /\ \A s \in S : \E i \in 1..size : rest[i] = s
  <2> DEFINE ranked(i) == CHOOSE j \in S : Cardinality({h \in S : h <= j}) = i
  <2>1. ASSUME NEW i \in 1..size PROVE rest[i] = AtIndex(S, i - 1)
    <3>1. PICK T : T = S
      OBVIOUS
    <3>2. /\ \A j \in S : j \in Nat
          /\ \A j \in T : j \in S
          /\ \A s \in S : s \notin T => \A e \in T : e < s
          /\ i \in 1..Cardinality(T)
      BY <1>1, <1>2, <3>1
    <3>3. (CHOOSE j \in S : Cardinality({h \in S : h <= j}) = i) = AtIndex(T, i - 1)
      BY <1>1, <3>2, LowerSegment
    <3>4. (CHOOSE j \in S : Cardinality({h \in S : h <= j}) = i) = AtIndex(S, i - 1)
      BY <3>1, <3>3, Zenon
    <3>5. ranked(i) = AtIndex(S, i - 1)
      BY <3>4
    <3>6. rest = [m \in 1..size |-> ranked(m)]
      BY <1>3
    <3> HIDE DEF ranked
    <3>7. rest[i] = ranked(i)
      BY <3>6
    <3>8. QED
      BY <3>5, <3>7
  <2>2. \A j \in S : j \in Nat
    BY <1>1
  <2>3. \A i \in 1..size : rest[i] = AtIndex(S, i - 1)
    BY <2>1
  <2>4. size \in Nat /\ Lists(rest, size, S)
    BY <1>1, <1>2, <2>2, <2>3, InOrder
  <2>5. QED
    BY <2>4 DEF Lists
<1>5. Len(rest) = size /\ n <= size
  BY <1>3, <1>4
<1>6. read = [i \in 1..n |-> Contents[rest[i]]]
  <2>1. SubSeq(rest, 1, n) = [i \in 1..n |-> rest[i]]
    BY <1>3, <1>4, <1>5
  <2>2. QED
    BY <2>1 DEF Index!PayloadsOf
<1>7. \A i \in 1..n : i \in 1..size
  BY <1>4, <1>5
<1>8. ASSUME NEW i \in 1..n
      PROVE  read[i] = Contents[rest[i]] /\ read[i] \in Payloads /\ KeyAt(read[i]) = rest[i]
  <2>1. rest[i] \in Present
    BY <1>1, <1>4, <1>7
  <2>2. Contents[rest[i]] \in Payloads
    BY <2>1, HeldPayload
  <2>3. QED
    BY <1>6, <2>1, <2>2 DEF ScanInv
<1>9. read \in Seq(Payloads) /\ Len(read) = n
  BY <1>6, <1>8
<1>10. ASSUME NEW i \in 1..n PROVE KeyAt(read[i]) \in Nat /\ KeyAt(read[i]) >= k
  <2>1. KeyAt(read[i]) = rest[i] /\ i \in 1..size
    BY <1>7, <1>8
  <2>2. rest[i] \in Nat /\ rest[i] >= k
    BY <1>1, <1>4, <2>1
  <2>3. QED
    BY <2>1, <2>2
<1>11. ASSUME NEW i \in 1..n, NEW j \in 1..n, i < j PROVE KeyAt(read[i]) < KeyAt(read[j])
  <2>1. KeyAt(read[i]) = rest[i] /\ KeyAt(read[j]) = rest[j] /\ i \in 1..size /\ j \in 1..size
    BY <1>7, <1>8
  <2>2. rest[i] < rest[j]
    BY <1>4, <1>11, <2>1
  <2>3. QED
    BY <2>1, <2>2
<1>12. ASSUME NEW s \in Present, s >= k, n # 0, s <= KeyAt(read[n])
       PROVE  \E i \in 1..n : KeyAt(read[i]) = s
  <2>1. PICK i \in 1..size : rest[i] = s
    BY <1>1, <1>4, <1>12
  <2>2. n \in 1..size /\ rest[n] \in Nat /\ s \in Nat /\ s <= rest[n]
    BY <1>1, <1>4, <1>5, <1>8, <1>12
  <2>3. i <= n
    BY <1>4, <2>1, <2>2
  <2>4. QED
    BY <1>4, <1>8, <2>1, <2>3
<1>13. ASSUME rest = <<>>, NEW s \in Present, s >= k PROVE FALSE
  <2>1. size = 0
    BY <1>4, <1>5, <1>13
  <2>2. QED
    BY <1>1, <1>4, <1>13, <2>1
<1>14. QED
  BY <1>9, <1>10, <1>11, <1>12, <1>13 DEF Brings

\* A fetch of a scan.
LEMMA FetchScan ==
  ASSUME SafeInv, RefInv, ScanInv, NEW t \in Threads, Index!Fetch(t), snap' = snap
  PROVE  ScanOK(t)'
<1> USE ThreadParts
<1>1. /\ phase[t] = "open" /\ call[t].op = "scan" /\ call' = call
  BY DEF Index!Fetch, phase
<1>2. /\ pc[t] \notin {"idle", "return", "unlockLeaf"} /\ call[t] # None
      /\ call[t] \in Calls \cup {Load[i] : i \in DOMAIN Load}
  <2>1. pc[t] \notin {"idle", "return", "unlockLeaf"}
    BY <1>1 DEF phase
  <2>2. QED
    BY <2>1 DEF CallOK, TypeOK
<1>3. PICK range \in Nat \ {0} : range = call[t].range
  BY <1>1, <1>2, CallsAssumption
<1>4. PICK start \in Nat : start = call[t].key
  BY <1>2, CallsAssumption, KeysAssumption
<1>5. PICK k \in Nat : k = from[t]
  BY DEF TypeOK
<1>6. PICK had \in Seq(Payloads \cup {Unset}) : had = out[t]
  BY DEF TypeOK
<1>7. PICK len \in Nat : len = Len(had) /\ len < range /\ DOMAIN had = 1..len
  BY <1>1, <1>2, <1>3, <1>6 DEF RefInv, OutOK
<1>8. PICK rest, n, read :
        /\ n \in 0..(range - len) /\ rest = Index!Ascending(Contents, k)
        /\ read = Index!PayloadsOf(Contents, SubSeq(rest, 1, n))
        /\ n <= Len(rest) /\ (n = 0 <=> rest = <<>>)
        /\ out' = [out EXCEPT ![t] = @ \o read]
        /\ IF n = 0 \/ n = range - len
             THEN phase' = [phase EXCEPT ![t] = "done"] /\ from' = from
             ELSE /\ from' = [from EXCEPT ![t] = KeyAt(Index!Last(read)) + 1]
                  /\ phase' = phase
  BY <1>3, <1>5, <1>6, <1>7 DEF Index!Fetch, phase
<1>9. n \in Nat
  BY <1>7, <1>8
<1>10. /\ read \in Seq(Payloads) /\ Len(read) = n
       /\ \A i \in 1..n : KeyAt(read[i]) \in Nat /\ KeyAt(read[i]) >= k
       /\ \A i, j \in 1..n : i < j => KeyAt(read[i]) < KeyAt(read[j])
       /\ \A s \in Present : s >= k /\ n # 0 /\ s <= KeyAt(read[n]) =>
            \E i \in 1..n : KeyAt(read[i]) = s
       /\ rest = <<>> => \A s \in Present : ~(s >= k)
  <2>1. Brings(read, n, k) /\ (rest = <<>> => \A s \in Present : ~(s >= k))
    BY <1>8, <1>9, FetchedOf
  <2>2. QED
    BY <2>1 DEF Brings
<1>11. /\ \A i \in 1..len : KeyAt(had[i]) \in Nat /\ KeyAt(had[i]) < k
       /\ \A i, j \in 1..len : i < j => KeyAt(had[i]) < KeyAt(had[j])
       /\ start <= k
       /\ \A s \in snap[t] : s >= start /\ s < k => \E i \in 1..len : KeyAt(had[i]) = s
  <2>1. ScanOK(t)
    BY DEF ScanInv
  <2>2. QED
    BY <1>1, <1>4, <1>5, <1>6, <1>7, <2>1 DEF ScanOK, Gathered
<1>12. \A s \in snap[t] : s \in Present /\ s \in Nat
  BY KeysAssumption DEF ScanInv, Present
<1>13. PICK got : /\ got = had \o read /\ out'[t] = got /\ Len(got) = len + n
                  /\ DOMAIN got = 1..(len + n)
                  /\ \A i \in 1..len : got[i] = had[i]
                  /\ \A i \in 1..n : got[len + i] = read[i]
  <2>1. out'[t] = had \o read
    BY <1>6, <1>8 DEF TypeOK
  <2>2. read \in Seq(Payloads \cup {Unset})
    BY <1>10
  <2>3. /\ Len(had \o read) = len + n /\ DOMAIN (had \o read) = 1..(len + n)
        /\ \A i \in 1..len : (had \o read)[i] = had[i]
        /\ \A i \in 1..n : (had \o read)[len + i] = read[i]
    BY <1>6, <1>7, <1>9, <1>10, <2>2
  <2>4. QED
    BY <2>1, <2>3
<1>14. \A i \in 1..(len + n) : i \in 1..len \/ \E j \in 1..n : i = len + j
  <2> TAKE i \in 1..(len + n)
  <2>1. CASE i <= len
    BY <1>7, <2>1
  <2>2. CASE i > len
    <3>1. i - len \in 1..n /\ i = len + (i - len)
      BY <1>7, <1>9, <2>2
    <3>2. QED
      BY <3>1
  <2>3. QED
    BY <1>7, <1>9, <2>1, <2>2
<1>15. ASSUME NEW i \in 1..(len + n)
       PROVE  KeyAt(got[i]) \in Nat
  BY <1>10, <1>11, <1>13, <1>14
<1>16. ASSUME NEW i \in 1..(len + n), NEW j \in 1..(len + n), i < j
       PROVE  KeyAt(got[i]) < KeyAt(got[j])
  <2>1. CASE i \in 1..len /\ j \in 1..len
    BY <1>11, <1>13, <1>16, <2>1
  <2>2. CASE i \in 1..len /\ j \notin 1..len
    <3>1. PICK b \in 1..n : j = len + b
      BY <1>14, <2>2
    <3>2. /\ KeyAt(got[i]) \in Nat /\ KeyAt(got[i]) < k
          /\ KeyAt(got[j]) \in Nat /\ KeyAt(got[j]) >= k
      BY <1>10, <1>11, <1>13, <2>2, <3>1
    <3>3. QED
      BY <3>2
  <2>3. CASE i \notin 1..len
    <3>1. j \notin 1..len
      BY <1>7, <1>9, <1>16, <2>3
    <3>2. PICK a \in 1..n, b \in 1..n : i = len + a /\ j = len + b
      BY <1>14, <2>3, <3>1
    <3>3. a < b
      BY <1>7, <1>16, <3>2
    <3>4. QED
      BY <1>10, <1>13, <3>2, <3>3
  <2>4. QED
    BY <2>1, <2>2, <2>3
<1>17. ASSUME NEW s \in snap[t], s >= start, s < k
       PROVE  \E i \in 1..(len + n) : KeyAt(got[i]) = s
  <2>1. PICK i \in 1..len : KeyAt(had[i]) = s
    BY <1>11, <1>17
  <2>2. i \in 1..(len + n)
    BY <1>7, <1>9
  <2>3. QED
    BY <1>13, <2>1, <2>2
<1>18. ASSUME NEW s \in snap[t], s >= k, n # 0, s <= KeyAt(read[n])
       PROVE  \E i \in 1..(len + n) : KeyAt(got[i]) = s
  <2>1. PICK i \in 1..n : KeyAt(read[i]) = s
    BY <1>10, <1>12, <1>18
  <2>2. len + i \in 1..(len + n)
    BY <1>7, <1>9
  <2>3. QED
    BY <1>13, <2>1, <2>2
<1>19. n # 0 => Index!Last(read) = read[n] /\ got[len + n] = read[n]
  <2>1. n # 0 => n \in 1..n
    BY <1>9
  <2>2. QED
    BY <1>10, <1>13, <2>1 DEF Index!Last
<1>20. call'[t] = call[t] /\ snap'[t] = snap[t]
  BY <1>1
<1>21. CASE n # 0 /\ n # range - len
  <2>1. PICK last \in Nat : last = KeyAt(read[n])
    <3>1. n \in 1..n
      BY <1>9, <1>21
    <3>2. QED
      BY <1>10, <3>1
  <2>2. from'[t] = last + 1 /\ phase'[t] = "open"
    BY <1>1, <1>8, <1>19, <1>21, <2>1 DEF TypeOK
  <2>3. start <= last + 1
    <3>1. k <= last
      <4>1. n \in 1..n
        BY <1>9, <1>21
      <4>2. QED
        BY <1>10, <2>1, <4>1
    <3>2. QED
      BY <1>11, <3>1
  <2>4. ASSUME NEW i \in 1..(len + n) PROVE KeyAt(got[i]) < last + 1
    <3>1. len + n \in 1..(len + n) /\ (i = len + n \/ i < len + n)
      BY <1>7, <1>9, <1>21
    <3>2. KeyAt(got[len + n]) = last
      BY <1>19, <1>21, <2>1
    <3>3. KeyAt(got[i]) \in Nat /\ (KeyAt(got[i]) = last \/ KeyAt(got[i]) < last)
      BY <1>15, <1>16, <3>1, <3>2
    <3>4. QED
      BY <3>3
  <2>5. ASSUME NEW s \in snap[t], s >= start, s < last + 1
        PROVE  \E i \in 1..(len + n) : KeyAt(got[i]) = s
    <3>1. s < k \/ (s >= k /\ s <= last)
      BY <1>12, <2>5
    <3>2. QED
      BY <1>17, <1>18, <1>21, <2>1, <2>5, <3>1
  <2>6. Gathered(t)'
    BY <1>4, <1>13, <1>20, <2>2, <2>3, <2>4, <2>5 DEF Gathered
  <2>7. QED
    BY <1>13, <1>15, <1>16, <2>2, <2>6 DEF ScanOK
<1>22. CASE n = 0 \/ n = range - len
  <2>1. phase'[t] = "done"
    BY <1>8, <1>22 DEF phase
  <2> DEFINE found == [i \in 1..(len + n) |-> KeyAt(got[i])]
  <2>2. ASSUME NEW s \in snap[t], s >= start, len + n = range => s <= Last(found)
        PROVE  \E i \in 1..(len + n) : found[i] = s
    <3>1. CASE s < k
      BY <1>17, <2>2, <3>1
    <3>2. CASE s >= k
      <4>1. n # 0
        BY <1>8, <1>10, <1>12, <3>2
      <4>2. len + n = range /\ len + n \in 1..(len + n) /\ len + n \in Nat
        BY <1>7, <1>9, <1>22, <4>1
      <4>3. Len(found) = len + n /\ Last(found) = KeyAt(got[len + n])
        BY <4>2 DEF Last
      <4>4. s <= KeyAt(read[n])
        BY <1>19, <2>2, <4>1, <4>2, <4>3
      <4>5. QED
        BY <1>18, <3>2, <4>1, <4>4
    <3>3. QED
      BY <1>12, <3>1, <3>2
  <2>3. Complete(t)'
    <3>1. found = [i \in DOMAIN out'[t] |-> KeyAt(out'[t][i])]
      BY <1>13
    <3>2. Len(out'[t]) = range <=> len + n = range
      BY <1>13
    <3>3. DOMAIN found = 1..(len + n)
      OBVIOUS
    <3> HIDE DEF found
    <3>4. QED
      BY <1>3, <1>4, <1>20, <2>2, <3>1, <3>2, <3>3 DEF Complete
  <2>4. QED
    BY <1>13, <1>15, <1>16, <2>1, <2>3 DEF ScanOK
<1>23. QED
  BY <1>21, <1>22

\* A call that begins has gathered nothing; its keys are those of the map.
LEMMA InvokeScan ==
  ASSUME SafeInv, RefInv, NEW t \in Threads,
         NEW c \in Calls \cup {Load[i] : i \in DOMAIN Load}, Index!Invoke(t, c),
         \A k \in snap'[t] : k \in Keys
  PROVE  ScanOK(t)'
<1>1. /\ call'[t] = c /\ from'[t] = c.key /\ out'[t] = <<>> /\ phase'[t] = "open"
  BY DEF Index!Invoke, phase, SafeInv, TypeOK
<1>2. c.key \in Nat
  BY CallsAssumption, KeysAssumption
<1>3. Gathered(t)'
  <2>1. \A k \in snap'[t] : ~(k >= c.key /\ k < c.key)
    <3>1. PICK start \in Nat : start = c.key
      BY <1>2
    <3>2. ASSUME NEW k \in snap'[t] PROVE ~(k >= start /\ k < start)
      <4>1. k \in Nat
        BY KeysAssumption
      <4>2. QED
        BY <4>1
    <3>3. QED
      BY <3>1, <3>2
  <2>2. QED
    BY <1>1, <1>2, <2>1 DEF Gathered
<1>4. QED
  BY <1>1, <1>3 DEF ScanOK

\* A scan depends only on what its thread can see of the map's steps.
LEMMA SameScan ==
  ASSUME NEW s \in Threads, ScanOK(s), call'[s] = call[s], phase'[s] = phase[s],
         from'[s] = from[s], out'[s] = out[s], snap'[s] = snap[s]
  PROVE  ScanOK(s)'
<1>1. ScanOK(s)' <=> ScanOK(s)
  BY DEF ScanOK, Gathered, Complete
<1>2. QED
  BY <1>1

\* No step takes a key out of the map, and each stores a payload under its own key.
LEMMA KeysStay ==
  ASSUME SafeInv, ScanInv, PayloadsNameKeys, NEW t \in Threads,
         Contents' = Contents \/ Index!Insert(t)
  PROVE  /\ \A k \in Present : k \in Present'
         /\ \A k \in Present' : KeyAt(Contents'[k]) = k
<1> USE ThreadParts
<1>1. CASE Contents' = Contents
  BY <1>1, PresentOf DEF ScanInv
<1>2. CASE Index!Insert(t)
  <2>1. /\ phase[t] = "open" /\ call[t].op = "insert"
        /\ Contents' = [Contents EXCEPT ![call[t].key] = call[t].val]
    BY <1>2 DEF Index!Insert, phase
  <2>2. call[t] \in Calls \cup {Load[i] : i \in DOMAIN Load}
    <3>1. pc[t] # "idle"
      BY <2>1 DEF phase
    <3>2. QED
      BY <3>1 DEF CallOK, TypeOK
  <2>3. PICK j \in Keys, v \in Payloads : j = call[t].key /\ v = call[t].val /\ KeyAt(v) = j
    BY <2>1, <2>2, CallsAssumption DEF PayloadsNameKeys
  <2>4. \A k \in Keys : Contents'[k] = IF k = j THEN v ELSE Contents[k]
    BY <2>1, <2>3 DEF Contents
  <2>5. v # None
    BY <2>3, PayloadsAssumption
  <2>6. \A k \in Keys : k \in Present' <=> k \in Present \/ k = j
    BY <2>4, <2>5, PresentOf
  <2>7. \A k \in Present : k \in Keys
    BY DEF Present
  <2>8. \A k \in Present' : k \in Keys
    BY PresentOf
  <2>9. QED
    BY <2>3, <2>4, <2>6, <2>7, <2>8 DEF ScanInv
<1>3. QED
  BY <1>1, <1>2

\* What a step of a thread does to its scan.
LEMMA StepScan ==
  ASSUME LockInv, SafeInv, SafeInv', SearchInv, RefInv, ScanInv, PayloadsNameKeys,
         NEW t \in Threads, Step(t)
  PROVE  ScanInv'
<1> USE ThreadParts
<1>1. CASE UnlockLeaf(t) \/ Return(t)
  <2>1. Index!Return(t) /\ snap' = [snap EXCEPT ![t] = {}]
    BY <1>1, LeaveSteps DEF UnlockLeaf, Return, Leave
  <2>2. /\ Contents' = Contents /\ phase' = [phase EXCEPT ![t] = "idle"]
        /\ call' = [call EXCEPT ![t] = None] /\ from' = [from EXCEPT ![t] = 0]
        /\ out' = [out EXCEPT ![t] = <<>>]
    BY <2>1 DEF Index!Return, phase
  <2>3. ASSUME NEW s \in Threads \ {t} PROVE ScanOK(s)'
    BY <2>1, <2>2, SameScan DEF TypeOK, ScanInv, phase
  <2>4. ScanOK(t)'
    BY <2>2 DEF ScanOK, phase
  <2>5. \A s \in Threads : \A k \in snap'[s] : k \in snap[s]
    BY <2>1 DEF TypeOK
  <2>6. QED
    BY <2>2, <2>3, <2>4, <2>5, KeysStay DEF ScanInv
<1>2. CASE ~UnlockLeaf(t) /\ ~Return(t)
  <2>1. snap' = snap
    BY <1>2 DEF Step, Descend, SplitFull, InsertIntoLeaf, ReadOnly, ReadRoot, LockRoot,
         CheckRoot, Visit, CheckParent, ReadChild, CheckInner, LockChild, LockParent, LockNode,
         GiveBackParent, RecheckRoot, GiveBackNode, Split, Link, UnlockNode, UnlockParent,
         LockLeaf, LeafCheckParent, Put, ReadLeaf, ReadCheckParent, ReadCheckNode, bound
  <2>2. \/ UNCHANGED Index!kvVars
        \/ Index!Insert(t) \/ Index!Find(t) \/ Index!Fetch(t)
    <3>1. ASSUME Hidden(t), ReadOK(t)' PROVE UNCHANGED Index!kvVars
      BY <3>1, HiddenStep
    <3>2. CASE Descend(t)
      BY <3>1, <3>2, DescendHidden
    <3>3. CASE Split(t)
      BY <3>1, <3>3, SplitHidden
    <3>4. CASE Link(t)
      BY <3>1, <3>4, LinkHidden
    <3>5. CASE (SplitFull(t) /\ ~Split(t) /\ ~Link(t)) \/ (InsertIntoLeaf(t) /\ ~Put(t))
      BY <1>2, <3>1, <3>5, LocksHidden DEF SplitFull, InsertIntoLeaf
    <3>6. CASE Put(t)
      BY <3>6, PutSteps
    <3>7. CASE ReadCheckNode(t) /\ NodeCurrent(t)
      BY <3>7, AcceptSteps
    <3>8. CASE ReadLeaf(t) \/ ReadCheckParent(t) \/ (ReadCheckNode(t) /\ ~NodeCurrent(t))
      BY <3>1, <3>8, ReadHidden
    <3>9. QED
      BY <1>2, <3>2, <3>3, <3>4, <3>5, <3>6, <3>7, <3>8 DEF Step, InsertIntoLeaf, ReadOnly
  <2>3. Contents' = Contents \/ Index!Insert(t)
    BY <2>2 DEF Index!kvVars, Index!Find, Index!Fetch
  <2>4. \A s \in Threads \ {t} :
          /\ call'[s] = call[s] /\ phase'[s] = phase[s]
          /\ from'[s] = from[s] /\ out'[s] = out[s]
    <3> SUFFICES ASSUME NEW s \in Threads \ {t}
                 PROVE  /\ call'[s] = call[s] /\ phase'[s] = phase[s]
                        /\ from'[s] = from[s] /\ out'[s] = out[s]
      OBVIOUS
    <3>1. CASE UNCHANGED Index!kvVars
      BY <3>1 DEF Index!kvVars, phase
    <3>2. CASE Index!Insert(t)
      BY <3>2 DEF Index!Insert, phase
    <3>3. CASE Index!Find(t)
      BY <3>3 DEF Index!Find, phase, TypeOK
    <3>4. CASE Index!Fetch(t)
      <4>1. /\ call' = call
            /\ from' = from \/ \E x : from' = [from EXCEPT ![t] = x]
            /\ \E x : out' = [out EXCEPT ![t] = x]
            /\ phase' = phase \/ phase' = [phase EXCEPT ![t] = "done"]
        BY <3>4 DEF Index!Fetch, phase
      <4>2. QED
        BY <4>1 DEF phase, TypeOK
    <3>5. QED
      BY <2>2, <3>1, <3>2, <3>3, <3>4
  <2>5. ASSUME NEW s \in Threads \ {t} PROVE ScanOK(s)'
    BY <2>1, <2>4, SameScan DEF ScanInv
  <2>6. ScanOK(t)'
    <3>1. CASE UNCHANGED Index!kvVars
      <4>1. /\ call' = call /\ phase' = phase /\ from' = from /\ out' = out
        BY <3>1 DEF Index!kvVars, phase
      <4>2. QED
        BY <2>1, <4>1, SameScan DEF ScanInv
    <3>2. CASE Index!Insert(t) \/ Index!Find(t)
      BY <3>2 DEF Index!Insert, Index!Find, ScanOK
    <3>3. CASE Index!Fetch(t)
      BY <2>1, <3>3, FetchScan
    <3>4. QED
      BY <2>2, <3>1, <3>2, <3>3
  <2>7. QED
    BY <2>1, <2>3, <2>5, <2>6, KeysStay DEF ScanInv
<1>3. QED
  BY <1>1, <1>2

\* And every step keeps what is known of the scans.
LEMMA NextScan ==
  ASSUME PayloadsNameKeys
  PROVE  LockInv /\ SafeInv /\ SearchInv /\ RefInv /\ ScanInv /\ [Next]_vars => ScanInv'
<1> SUFFICES ASSUME LockInv, SafeInv, SearchInv, RefInv, ScanInv, [Next]_vars
             PROVE  ScanInv'
  OBVIOUS
<1>1. SafeInv'
  BY NextSafe
<1>2. CASE \E t \in Threads : Step(t)
  BY <1>1, <1>2, StepScan
<1>3. ASSUME NEW t \in Threads, NEW c \in Calls \cup {Load[i] : i \in DOMAIN Load}, Start(t, c)
      PROVE  ScanInv'
  <2>1. Index!Invoke(t, c) /\ snap' = [snap EXCEPT ![t] = Present]
    BY <1>1, <1>3, StartSteps DEF Start
  <2>2. /\ Contents' = Contents /\ phase' = [phase EXCEPT ![t] = "open"]
        /\ call' = [call EXCEPT ![t] = c] /\ from' = [from EXCEPT ![t] = c.key]
        /\ out' = [out EXCEPT ![t] = <<>>]
    BY <2>1 DEF Index!Invoke, phase
  <2>3. ASSUME NEW s \in Threads \ {t} PROVE ScanOK(s)' /\ snap'[s] = snap[s]
    BY <2>1, <2>2, SameScan DEF SafeInv, TypeOK, ScanInv, phase
  <2>4. snap'[t] = Present
    BY <2>1 DEF SafeInv, TypeOK
  <2>5. ScanOK(t)'
    BY <2>1, <2>4, InvokeScan DEF Present
  <2>6. QED
    BY <2>2, <2>3, <2>4, <2>5, KeysStay DEF ScanInv
<1>4. CASE UNCHANGED vars
  <2>1. UNCHANGED Index!kvVars /\ snap' = snap
    BY <1>4, StutterRef DEF vars, bound
  <2>2. /\ call' = call /\ phase' = phase /\ from' = from /\ out' = out
        /\ Contents' = Contents
    BY <2>1 DEF Index!kvVars, phase
  <2>3. \A s \in Threads : ScanOK(s)'
    BY <2>1, <2>2, SameScan DEF ScanInv
  <2>4. QED
    BY <2>1, <2>2, <2>3, PresentOf DEF ScanInv
<1>5. QED
  BY <1>2, <1>3, <1>4 DEF Next, Finished

\* A scan that returns has ended.
LEMMA ScansEnd == ScanInv => ScanComplete
<1> SUFFICES ASSUME ScanInv, NEW t \in Threads, pc[t] = "return", call[t].op = "scan"
             PROVE  LET found == [i \in DOMAIN out[t] |-> KeyAt(out[t][i])]
                        filled == Len(out[t]) = call[t].range
                    IN  /\ \A i, j \in DOMAIN found : i < j => found[i] < found[j]
                        /\ \A k \in snap[t] :
                             k >= call[t].key /\ (filled => k <= Last(found)) =>
                               \E i \in DOMAIN found : found[i] = k
  BY DEF ScanComplete
<1>1. phase[t] = "done"
  BY DEF phase
<1>2. /\ \A i, j \in DOMAIN out[t] : i < j => KeyAt(out[t][i]) < KeyAt(out[t][j])
      /\ Complete(t)
  BY <1>1 DEF ScanInv, ScanOK
<1>3. QED
  BY <1>2 DEF Complete

(***************************************************************************)
(* A scan returns entries in ascending order, none twice, and none missing *)
(* of those that were in the tree when it started, up to where it stops:   *)
(* however its restarts and fetches interleave with the inserts and splits *)
(* of the other threads.  It goes on behind the key the last payload       *)
(* points to, so it takes payloads that point to their keys.               *)
(***************************************************************************)
THEOREM ScansComplete ==
  ASSUME PayloadsNameKeys
  PROVE  Spec => []ScanComplete
<1>1. LockInv /\ SafeInv /\ SearchInv /\ RefInv /\ ScanInv /\ [Next]_vars =>
        (LockInv /\ SafeInv /\ SearchInv /\ RefInv /\ ScanInv)'
  BY NextLockInv, NextSafe, NextSearch, NextRef, NextScan
<1>2. Init => LockInv /\ SafeInv /\ SearchInv /\ RefInv /\ ScanInv
  <2>1. Init => LockInv /\ SafeInv /\ SearchInv /\ RefInv
    BY InitLockInv, InitSafe, InitSearch, InitRef
  <2>2. ASSUME Init PROVE ScanInv
    <3>1. /\ \A t \in Threads : pc[t] = "idle" /\ snap[t] = {}
          /\ ents = [n \in Nodes |-> NoEntries]
      BY <2>2 DEF Init
    <3>2. \A k \in Keys : Holders(k) = {}
      BY <3>1 DEF Holders, NoEntries
    <3>3. QED
      BY <3>1, <3>2 DEF ScanInv, ScanOK, phase, Present
  <2>3. QED
    BY <2>1, <2>2
<1>3. ScanInv => ScanComplete
  BY ScansEnd
<1>4. QED
  BY <1>1, <1>2, <1>3, PTL DEF Spec

===============================================================================
