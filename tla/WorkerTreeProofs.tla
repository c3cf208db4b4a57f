-------------------------- MODULE WorkerTreeProofs --------------------------
(* Proofs about WorkerTree: however the tree of search threads is changed   *)
(* between searches, it is complete when the next one begins, and only a    *)
(* node that is being destroyed may see its list of children change.        *)
EXTENDS WorkerTree, FiniteSetTheorems, SequenceTheorems, WellFoundedInduction, TLAPS

Running == {"wait", "woken", "walk", "poll"}
Starts == {"start", "build"}
IsLive(w) == node[w].pc # "free"
Dying == ToSet(dying)
KidAt(p, j) == node[p].kids[j]
Places(p) == 1 .. Len(node[p].kids)
Building(p) == IF p = Root THEN phase = "build" ELSE node[p].pc = "build"

(***************************************************************************)
(* The inductive invariant.                                                *)
(***************************************************************************)
(* What is queued and what is waited for plays no part in it.               *)
NodeFields == {"pc", "no", "size", "parent", "kids", "list", "i", "first", "left", "fresh",
               "initialized", "notified", "terminate", "queue", "waitSelf", "waitKids"}
IsNode(nd) ==
    /\ DOMAIN nd = NodeFields
    /\ nd.pc \in {"free", "start", "build", "exited", "idle"} \cup Running
    /\ nd.no \in Nat /\ nd.size \in Nat /\ nd.parent \in Nodes
    /\ nd.kids \in Seq(Nodes) /\ nd.list \subseteq Ids
    /\ nd.i \in Nat /\ nd.first \in Nat /\ nd.left \in Nat /\ nd.fresh \subseteq Ids
    /\ nd.initialized \in BOOLEAN /\ nd.terminate \in BOOLEAN
Types ==
    /\ DOMAIN node = Nodes /\ \A w \in Nodes : IsNode(node[w])
    /\ dying \in Seq(Ids) /\ threads \in Nat
    /\ phase \in {"idle", "build", "search", "stop"}

(* Where a thread is, and what that says about its object.                  *)
Kinds ==
    /\ node[Root].pc \in Running \cup {"idle"} /\ node[Root].no = 0 /\ ~node[Root].terminate
    /\ node[Root].pc = "idle" <=> phase # "stop"
    /\ \A w \in Ids :
        /\ node[w].pc # "idle"
        /\ node[w].initialized <=> node[w].pc \in Running \cup {"exited"}
        /\ node[w].pc = "exited" => node[w].terminate
        /\ node[w].terminate => w \in Dying /\ node[w].kids = <<>>
        /\ node[w].pc = "free" => node[w] = Free
        /\ node[w].pc # "free" => node[w].size > 0
        /\ node[w].pc = "start" => node[w].kids = <<>>

(* Who owns whom.  A live object is owned by its parent or being destroyed; *)
(* the list of a Communicator holds the children whose threads have begun;  *)
(* a child that is not ready yet is one that its parent waits for.          *)
Owned(w) == w \in Dying \/ \E j \in Places(node[w].parent) : KidAt(node[w].parent, j) = w
Awaited(w) ==
    node[w].pc \in Starts => w \in node[node[w].parent].fresh /\ Building(node[w].parent)
Children(p) ==
    \A j \in Places(p) : KidAt(p, j) # NoWorker =>
        /\ IsLive(KidAt(p, j)) /\ node[KidAt(p, j)].parent = p /\ KidAt(p, j) \notin Dying
        /\ \A k \in Places(p) : k # j => KidAt(p, k) # KidAt(p, j)
Complete(p) ==
    ~Building(p) => node[p].fresh = {} /\ \A j \in Places(p) : KidAt(p, j) # NoWorker
FirstTime(p) ==
    p # Root /\ Building(p) => \A j \in Places(p) : j >= node[p].i => KidAt(p, j) = NoWorker
Listed(p) ==
    node[p].list = {w \in Ids : IsLive(w) /\ node[w].pc # "start" /\ node[w].parent = p}
Fresh(p) == \A w \in node[p].fresh : \E j \in Places(p) : j < node[p].i /\ KidAt(p, j) = w
Kinship ==
    /\ \A w \in Ids : IsLive(w) => Owned(w) /\ Awaited(w)
    /\ \A p \in Nodes : Children(p) /\ Complete(p) /\ FirstTime(p) /\ Listed(p) /\ Fresh(p)

(* The objects being destroyed, each before its parent.                     *)
Destruction ==
    /\ dying # <<>> => phase = "build"
    /\ \A m \in 1 .. Len(dying) :
        /\ node[dying[m]].initialized
        /\ \A n \in 1 .. Len(dying) : n # m => dying[n] # dying[m]
        /\ \/ node[dying[m]].parent = Root
           \/ \E n \in 1 .. Len(dying) : n > m /\ dying[n] = node[dying[m]].parent

(* A worker and those below it have consecutive numbers, starting with its  *)
(* own; the children placed so far have divided the numbers below first.    *)
Base(p) == node[p].no + 1
Total(p) == IF p = Root THEN threads ELSE node[p].size - 1
End(w) == node[w].no + node[w].size
Placed(p) == 1 .. node[p].i - 1
Numbered(p) ==
    /\ node[p].i \in 1 .. Len(node[p].kids) + 1
    /\ node[p].first >= Base(p) /\ node[p].first + node[p].left = Base(p) + Total(p)
    /\ node[p].left >= Len(node[p].kids) - node[p].i + 1
    /\ node[p].i > Len(node[p].kids) => node[p].left = 0
    /\ ~Building(p) => node[p].i > Len(node[p].kids)
    /\ \A j \in Placed(p) :
        /\ KidAt(p, j) # NoWorker
        /\ Base(p) <= node[KidAt(p, j)].no /\ End(KidAt(p, j)) <= node[p].first
        /\ \A k \in Placed(p) : j < k => End(KidAt(p, j)) <= node[KidAt(p, k)].no
    /\ \A x \in Base(p) .. node[p].first - 1 : \E j \in Placed(p) :
        node[KidAt(p, j)].no <= x /\ x < End(KidAt(p, j))
InTree(p) == IF p = Root THEN phase # "idle" ELSE node[p].pc \notin {"free", "start"} /\ p \notin Dying
Numbers == \A p \in Nodes : InTree(p) => Numbered(p)

IInv == Types /\ Kinds /\ Kinship /\ Destruction /\ Numbers

(***************************************************************************)
(* What a thread does, other than building and ending.                     *)
(***************************************************************************)
(* f differs from node only in what is no part of the tree.                 *)
SameTree(f, w) ==
    /\ f[w].no = node[w].no /\ f[w].size = node[w].size /\ f[w].parent = node[w].parent
    /\ f[w].kids = node[w].kids /\ f[w].list = node[w].list /\ f[w].i = node[w].i
    /\ f[w].first = node[w].first /\ f[w].left = node[w].left /\ f[w].fresh = node[w].fresh
    /\ f[w].initialized = node[w].initialized
    /\ \/ f[w].terminate = node[w].terminate
       \/ f[w].terminate = TRUE /\ w \in Dying /\ node[w].kids = <<>>
Alike(f) ==
    DOMAIN f = Nodes /\ \A w \in Nodes : IsNode(f[w]) /\ SameTree(f, w)
(* A running thread goes on, or ends when it has been told to.              *)
GoesOn(w) ==
    \/ node'[w] = node[w]
    \/ node[w].pc = node'[w].pc /\ node[w].pc # "free"
    \/ node[w].pc \in Running /\ node'[w].pc \in Running
    \/ node[w].pc \in Running /\ node'[w].pc = "exited" /\ node[w].terminate
(* No thread sees a list change, unless its object is being destroyed.      *)
Undisturbed ==
    \A v \in Nodes : node[v].pc \in {"walk", "poll"} => node'[v].list = node[v].list \/ v \in Dying

LEMMA NodeLike ==
    ASSUME Types, NEW w \in Nodes, NEW f, DOMAIN f[w] = NodeFields, SameTree(f, w),
           f[w].pc \in {"free", "start", "build", "exited", "idle"} \cup Running
    PROVE  IsNode(f[w])
  BY DEF Types, IsNode, SameTree

LEMMA NodeFacts ==
    ASSUME Types
    PROVE  \A w \in Nodes :
            /\ node[w].pc \in {"free", "start", "build", "exited", "idle"} \cup Running
            /\ node[w].no \in Nat /\ node[w].size \in Nat /\ node[w].parent \in Nodes
            /\ node[w].kids \in Seq(Nodes) /\ node[w].list \subseteq Ids /\ node[w].i \in Nat
            /\ node[w].first \in Nat /\ node[w].left \in Nat /\ node[w].fresh \subseteq Ids
            /\ node[w].initialized \in BOOLEAN /\ node[w].terminate \in BOOLEAN
            /\ Len(node[w].kids) \in Nat /\ DOMAIN node[w].kids = Places(w)
            /\ \A j \in Places(w) : KidAt(w, j) \in Nodes
  BY DEF Types, IsNode, Places, KidAt

LEMMA DyingFacts ==
    ASSUME Types
    PROVE  /\ Len(dying) \in Nat /\ Dying \subseteq Ids
           /\ \A w \in Dying : \E m \in 1 .. Len(dying) : dying[m] = w
           /\ \A m \in 1 .. Len(dying) : dying[m] \in Dying /\ dying[m] \in Ids
  BY DEF Types, Dying, ToSet

(* What a node says about the numbers of its children depends on it and them*)
(* only.                                                                    *)
LEMMA SameNumbers ==
    ASSUME NEW p \in Nodes, Numbered(p), p = Root => threads' = threads,
           node'[p].no = node[p].no, node'[p].size = node[p].size, node'[p].kids = node[p].kids,
           node'[p].i = node[p].i, node'[p].first = node[p].first, node'[p].left = node[p].left,
           Building(p) => Building(p)' \/ node[p].i > Len(node[p].kids),
           \A j \in Placed(p) : /\ node'[KidAt(p, j)].no = node[KidAt(p, j)].no
                                /\ node'[KidAt(p, j)].size = node[KidAt(p, j)].size
    PROVE  Numbered(p)'
<1>1. Placed(p)' = Placed(p) /\ Base(p)' = Base(p) /\ Total(p)' = Total(p)
  BY DEF Placed, Base, Total
<1>2. \A j : node'[p].kids[j] = KidAt(p, j)
  BY DEF KidAt
<1>3. /\ node'[p].i \in 1 .. Len(node'[p].kids) + 1
      /\ node'[p].first >= Base(p)' /\ node'[p].first + node'[p].left = Base(p)' + Total(p)'
      /\ node'[p].left >= Len(node'[p].kids) - node'[p].i + 1
      /\ node'[p].i > Len(node'[p].kids) => node'[p].left = 0
      /\ ~Building(p)' => node'[p].i > Len(node'[p].kids)
  BY <1>1 DEF Numbered
<1>4. ASSUME NEW j \in Placed(p)
      PROVE  /\ node'[p].kids[j] # NoWorker
             /\ Base(p)' <= node'[node'[p].kids[j]].no
             /\ node'[node'[p].kids[j]].no + node'[node'[p].kids[j]].size <= node'[p].first
             /\ \A k \in Placed(p) : j < k =>
                    node'[node'[p].kids[j]].no + node'[node'[p].kids[j]].size <= node'[node'[p].kids[k]].no
  <2>1. /\ KidAt(p, j) # NoWorker
        /\ Base(p) <= node[KidAt(p, j)].no
        /\ node[KidAt(p, j)].no + node[KidAt(p, j)].size <= node[p].first
        /\ \A k \in Placed(p) : j < k =>
                node[KidAt(p, j)].no + node[KidAt(p, j)].size <= node[KidAt(p, k)].no
    BY DEF Numbered, End
  <2> QED
    BY <1>1, <1>2, <2>1
<1>5. ASSUME NEW x \in Base(p) .. node[p].first - 1
      PROVE  \E j \in Placed(p) : /\ node'[node'[p].kids[j]].no <= x
                                  /\ x < node'[node'[p].kids[j]].no + node'[node'[p].kids[j]].size
  <2>1. PICK j \in Placed(p) : node[KidAt(p, j)].no <= x /\ x < node[KidAt(p, j)].no + node[KidAt(p, j)].size
    BY DEF Numbered, End
  <2> QED
    BY <1>2, <2>1
<1> HIDE DEF Building
<1> QED
  BY <1>1, <1>3, <1>4, <1>5 DEF Numbered, KidAt, End

LEMMA Calm ==
    ASSUME IInv, Alike(node'), \A w \in Ids : GoesOn(w),
           UNCHANGED <<dying, threads>>,
           node'[Root].pc \in Running \cup {"idle"}, node'[Root].pc = "idle" <=> phase' # "stop",
           phase' \in {"idle", "build", "search", "stop"},
           phase' = "build" <=> phase = "build", phase' # "idle" => phase # "idle"
    PROVE  IInv' /\ Undisturbed
<1> USE DEF IInv, NoWorker
<1>1. Types'
  BY DEF Types, Alike
<1>2. Root \in Nodes /\ Root \notin Ids /\ Ids \subseteq Nodes /\ Nodes = Ids \cup {Root}
  BY TreeAssumption DEF Nodes, Root
<1>3. Dying' = Dying
  BY DEF Dying
<1>4. \A p \in Nodes : Places(p)' = Places(p) /\ \A j : KidAt(p, j)' = KidAt(p, j)
  BY DEF Alike, SameTree, Places, KidAt
<1>5. \A w \in Ids : /\ IsLive(w)' <=> IsLive(w)
                     /\ node'[w].pc \in Starts \cup {"free"} \/ node[w].pc \in Starts \cup {"free"}
                        => node'[w].pc = node[w].pc
  BY DEF GoesOn, IsLive, Starts, Running
<1>6. \A p \in Nodes : Building(p)' <=> Building(p)
  BY <1>2, <1>5 DEF Building, Starts
<1>7. Kinds'
  <2>1. ASSUME NEW w \in Ids
        PROVE  /\ node'[w].pc # "idle"
               /\ node'[w].initialized <=> node'[w].pc \in Running \cup {"exited"}
               /\ node'[w].pc = "exited" => node'[w].terminate
               /\ node'[w].terminate => w \in Dying' /\ node'[w].kids = <<>>
               /\ node'[w].pc = "free" => node'[w] = Free
               /\ node'[w].pc # "free" => node'[w].size > 0
               /\ node'[w].pc = "start" => node'[w].kids = <<>>
    <3>1. SameTree(node', w) /\ GoesOn(w)
      BY <1>2 DEF Alike
    <3> QED
      BY <1>3, <3>1 DEF Kinds, SameTree, GoesOn, Running
  <2>2. Root \notin Dying
    BY <1>2, DyingFacts
  <2> QED
    BY <1>2, <2>1, <2>2 DEF Kinds, Alike, SameTree
<1>8. ASSUME NEW w \in Ids, IsLive(w)' PROVE Owned(w)' /\ Awaited(w)'
  <2>1. node'[w].parent = node[w].parent /\ node[w].parent \in Nodes /\ IsLive(w)
    BY <1>2, <1>5, <1>8, NodeFacts DEF Alike, SameTree
  <2>2. Owned(w) /\ Awaited(w)
    BY <2>1 DEF Kinship
  <2>3. Owned(w)'
    BY <1>3, <1>4, <2>1, <2>2 DEF Owned, KidAt, Places
  <2>4. Awaited(w)'
    BY <1>5, <1>6, <2>1, <2>2 DEF Awaited, Alike, SameTree, Starts, Building, IsLive
  <2> QED
    BY <2>3, <2>4
<1>9. ASSUME NEW p \in Nodes
      PROVE  Children(p)' /\ Complete(p)' /\ FirstTime(p)' /\ Listed(p)' /\ Fresh(p)'
  <2>1. Children(p) /\ Complete(p) /\ FirstTime(p) /\ Listed(p) /\ Fresh(p)
    BY DEF Kinship
  <2>2. \A j \in Places(p) : KidAt(p, j) # NoWorker => KidAt(p, j) \in Ids
    BY <1>2, NodeFacts DEF Root
  <2>3. Children(p)'
    BY <1>2, <1>3, <1>5, <2>1, <2>2 DEF Children, Alike, SameTree, IsLive, KidAt, Places
  <2>4. Complete(p)' /\ FirstTime(p)' /\ Fresh(p)'
    BY <1>4, <1>6, <2>1 DEF Complete, FirstTime, Fresh, Alike, SameTree
  <2>5. Listed(p)'
    BY <1>2, <1>5, <2>1 DEF Listed, Alike, SameTree, Starts, IsLive
  <2> QED
    BY <2>3, <2>4, <2>5
<1>10. Destruction'
  BY <1>2, DyingFacts DEF Destruction, Alike, SameTree
<1>11. ASSUME NEW p \in Nodes, InTree(p)' PROVE Numbered(p)'
  <2>1. InTree(p)
    BY <1>2, <1>3, <1>5, <1>11 DEF InTree, Starts
  <2>2. Numbered(p)
    BY <2>1 DEF Numbers
  <2>3. \A j \in Placed(p) : KidAt(p, j) \in Nodes
    BY <2>2, NodeFacts DEF Numbered, Placed, Places
  <2> QED
    BY <1>6, <2>2, <2>3, SameNumbers DEF Alike, SameTree
<1>12. Undisturbed
  BY DEF Alike, SameTree, Undisturbed
<1> QED
  BY <1>1, <1>7, <1>8, <1>9, <1>10, <1>11, <1>12 DEF Numbers, Kinship

LEMMA NodeSets == Root \in Nodes /\ Root \notin Ids /\ Ids \subseteq Nodes /\ Nodes = Ids \cup {Root}
  BY TreeAssumption DEF Nodes, Root

(* A live object has a parent, whose thread has begun.                      *)
LEMMA Parents ==
    ASSUME IInv, NEW w \in Ids, IsLive(w)
    PROVE  /\ node[w].parent \in Nodes
           /\ node[w].parent # Root =>
                /\ node[w].parent \in Ids /\ IsLive(node[w].parent)
                /\ node[node[w].parent].pc # "start"
<1> DEFINE p == node[w].parent
<1>1. p \in Nodes
  BY NodeFacts, NodeSets DEF IInv
<1>2. SUFFICES ASSUME p # Root PROVE p \in Ids /\ node[p].pc # "free" /\ node[p].pc # "start"
  BY <1>1, NodeSets DEF IsLive
<1>3. p \in Ids
  BY <1>1, <1>2, NodeSets
<1>4. CASE w \in Dying
  <2>1. PICK m \in 1 .. Len(dying) : dying[m] = w
    BY <1>4, DyingFacts DEF IInv
  <2>2. PICK n \in 1 .. Len(dying) : dying[n] = p
    BY <1>2, <2>1 DEF IInv, Destruction
  <2>3. node[p].initialized
    BY <2>2 DEF IInv, Destruction
  <2> QED
    BY <1>3, <2>3 DEF IInv, Kinds, Running
<1>5. CASE w \notin Dying
  <2>1. Places(p) # {}
    BY <1>5 DEF IInv, Kinship, Owned
  <2>2. node[p].kids # <<>>
    BY <2>1 DEF Places
  <2> QED
    BY <1>3, <2>2 DEF IInv, Kinds, Free
<1> QED
  BY <1>4, <1>5

(* The children of what is ready are there and ready.                       *)
LEMMA ReadyKids ==
    ASSUME IInv, NEW p \in Nodes, ~Building(p), p # Root => node[p].pc # "start", NEW j \in Places(p)
    PROVE  /\ KidAt(p, j) \in Ids /\ IsLive(KidAt(p, j)) /\ node[KidAt(p, j)].parent = p
           /\ node[KidAt(p, j)].initialized /\ KidAt(p, j) \notin Dying
<1>1. KidAt(p, j) # NoWorker
  BY DEF IInv, Kinship, Complete
<1>2. KidAt(p, j) \in Ids
  BY <1>1, NodeFacts, NodeSets DEF IInv, NoWorker, Root
<1>3. IsLive(KidAt(p, j)) /\ node[KidAt(p, j)].parent = p /\ KidAt(p, j) \notin Dying
  BY <1>1 DEF IInv, Kinship, Children
<1>4. node[KidAt(p, j)].pc \notin Starts
  BY <1>2, <1>3 DEF IInv, Kinship, Awaited
<1>5. node[KidAt(p, j)].initialized
  BY <1>2, <1>3, <1>4, NodeFacts, NodeSets DEF IInv, Kinds, IsLive, Starts, Running
<1> QED
  BY <1>2, <1>3, <1>5

-----------------------------------------------------------------------------
LEMMA Sent ==
    ASSUME IInv, NEW f, Alike(f), NEW w \in Nodes, \A v \in Nodes : f[v].pc = node[v].pc
    PROVE  /\ Alike(SendStopSearch(f, w))
           /\ \A v \in Nodes : SendStopSearch(f, w)[v].pc = node[v].pc
           /\ \A v \in Ids : v # w /\ node[v].pc = "free" => SendStopSearch(f, w)[v] = f[v]
<1> DEFINE g == SendStopSearch(f, w)
<1>1. DOMAIN g = Nodes
  BY DEF SendStopSearch
<1>2. \A v \in Nodes : v \in f[w].list => v \in Ids /\ node[v].pc # "free"
  BY DEF IInv, Kinship, Listed, Alike, SameTree, IsLive
<1>3. ASSUME NEW v \in Nodes
      PROVE  IsNode(g[v]) /\ SameTree(g, v) /\ g[v].pc = node[v].pc
  <2>1. IsNode(f[v]) /\ SameTree(f, v) /\ f[v].pc = node[v].pc
    BY DEF Alike
  <2>2. CASE v = w
    <3>1. g[w].pc = f[w].pc /\ SameTree(g, w) /\ DOMAIN g[w] = NodeFields
      BY <2>1, <2>2 DEF SendStopSearch, SameTree, IsNode, NodeFields
    <3> HIDE DEF g
    <3>2. IsNode(g[w])
      BY <2>1, <2>2, <3>1, NodeLike, NodeFacts DEF IInv
    <3> QED
      BY <2>1, <2>2, <3>1, <3>2
  <2>3. CASE v # w /\ v \in f[w].list
    <3>1. PICK q : g[v] = [f[v] EXCEPT !.queue = q, !.notified = TRUE]
      BY <2>3 DEF SendStopSearch
    <3> HIDE DEF g
    <3> QED
      BY <2>1, <3>1 DEF IsNode, NodeFields, SameTree
  <2>4. CASE v # w /\ v \notin f[w].list
    <3>1. g[v] = f[v]
      BY <2>4 DEF SendStopSearch
    <3> HIDE DEF g
    <3> QED
      BY <2>1, <3>1 DEF IsNode, NodeFields, SameTree
  <2> QED
    BY <2>2, <2>3, <2>4
<1>4. \A v \in Ids : v # w /\ node[v].pc = "free" => g[v] = f[v]
  BY <1>2, NodeSets DEF SendStopSearch
<1> QED
  BY <1>1, <1>3, <1>4 DEF Alike

LEMMA AckSent ==
    ASSUME IInv, NEW f, Alike(f), NEW w \in Nodes, w # Root => IsLive(w)
    PROVE  /\ Alike(Acked(f, w))
           /\ \A v \in Nodes : Acked(f, w)[v].pc = f[v].pc
           /\ \A v \in Ids : node[v].pc = "free" => Acked(f, w)[v] = f[v]
<1> DEFINE g == Acked(f, w)
           p == f[w].parent
<1>1. CASE g = f
  BY <1>1
<1>2. CASE g # f
  <2>1. w # Root /\ g = [f EXCEPT ![p].queue = Append(@, "STOP_ACK"), ![p].notified = TRUE]
    BY <1>2 DEF Acked
  <2>2. w \in Ids /\ p = node[w].parent
    BY <2>1, NodeSets DEF Alike, SameTree
  <2>3. p \in Nodes /\ (p \in Ids => node[p].pc # "free")
    BY <2>1, <2>2, Parents, NodeSets DEF IsLive
  <2>4. PICK q : g = [f EXCEPT ![p] = [f[p] EXCEPT !.queue = q, !.notified = TRUE]]
    BY <2>1, <2>3 DEF Alike
  <2> HIDE DEF g, p
  <2>5. ASSUME NEW v \in Nodes
        PROVE  IsNode(g[v]) /\ SameTree(g, v) /\ g[v].pc = f[v].pc
    <3>1. IsNode(f[v]) /\ SameTree(f, v)
      BY DEF Alike
    <3>2. CASE v = p
      <4>1. g[v] = [f[v] EXCEPT !.queue = q, !.notified = TRUE]
        BY <2>3, <2>4, <3>2 DEF Alike
      <4> QED
        BY <3>1, <4>1 DEF IsNode, NodeFields, SameTree
    <3>3. CASE v # p
      <4>1. g[v] = f[v]
        BY <2>3, <2>4, <3>3 DEF Alike
      <4> QED
        BY <3>1, <4>1 DEF SameTree
    <3> QED
      BY <3>2, <3>3
  <2>6. DOMAIN g = Nodes /\ \A v \in Nodes : v # p => g[v] = f[v]
    BY <2>3, <2>4 DEF Alike
  <2> QED
    BY <2>3, <2>5, <2>6, NodeSets DEF Alike, g
<1> QED
  BY <1>1, <1>2

(* The steps of a thread once it has its children.                          *)
LEMMA StopSearchStep == ASSUME IInv, StopSearch PROVE IInv' /\ Undisturbed
<1> DEFINE g == SendStopSearch(node, Root)
<1>1. Alike(node)
  BY DEF Alike, SameTree, IInv, Types
<1>2. /\ Alike(g) /\ \A v \in Nodes : g[v].pc = node[v].pc
      /\ \A v \in Ids : node[v].pc = "free" => g[v] = node[v]
  BY <1>1, Sent, NodeSets
<1> HIDE DEF g
<1>3. node' = [g EXCEPT ![Root] = [g[Root] EXCEPT !.waitSelf = FALSE, !.pc = "walk"]]
  BY <1>2, NodeSets DEF StopSearch, g, Alike
<1>4. \A v \in Ids : node'[v] = g[v]
  BY <1>2, <1>3, NodeSets DEF Alike
<1>5. node'[Root] = [g[Root] EXCEPT !.waitSelf = FALSE, !.pc = "walk"] /\ DOMAIN node' = Nodes
  BY <1>2, <1>3, NodeSets DEF Alike
<1>6. IsNode(node'[Root]) /\ SameTree(node', Root) /\ node'[Root].pc = "walk"
  BY <1>2, <1>5, NodeSets DEF Alike, IsNode, NodeFields, SameTree, Running
<1>7. Alike(node')
  <2>1. ASSUME NEW v \in Ids PROVE IsNode(node'[v]) /\ SameTree(node', v)
    BY <1>2, <1>4, NodeSets DEF Alike, SameTree
  <2> QED
    BY <1>5, <1>6, <2>1, NodeSets DEF Alike
<1>8. \A v \in Ids : GoesOn(v)
  BY <1>2, <1>4, NodeSets DEF GoesOn
<1> QED
  BY <1>6, <1>7, <1>8, Calm DEF StopSearch, Running

(* A thread that only goes to another place of its own program.             *)
LEMMA Goes ==
    ASSUME IInv, NEW w \in Nodes, NEW f, DOMAIN f = Nodes, \A v \in Nodes \ {w} : f[v] = node[v],
           DOMAIN f[w] = NodeFields, SameTree(f, w), f[w].pc \in Running \cup {"exited", "idle"}
    PROVE  Alike(f)
<1>1. IsNode(f[w])
  BY DEF IInv, Types, IsNode, SameTree, Running
<1> QED
  BY <1>1 DEF Alike, SameTree, IInv, Types

LEMMA WalkStep ==
    ASSUME IInv, NEW w \in Nodes, Wait(w) \/ Woken(w) \/ Walk(w)
    PROVE  IInv' /\ Undisturbed
<1>1. DOMAIN node[w] = NodeFields /\ DOMAIN node = Nodes
  BY DEF IInv, Types, IsNode
<1>2. /\ DOMAIN node' = Nodes /\ \A v \in Nodes \ {w} : node'[v] = node[v]
      /\ DOMAIN node'[w] = NodeFields /\ SameTree(node', w)
      /\ node[w].pc \in Running
      /\ \/ node'[w].pc \in Running
         \/ node'[w].pc = "exited" /\ node[w].terminate
  <2>1. CASE Wait(w)
    BY <1>1, <2>1 DEF Wait, NodeFields, Running, SameTree
  <2>2. CASE Woken(w)
    BY <1>1, <2>2 DEF Woken, NodeFields, Running, SameTree
  <2>3. CASE Walk(w)
    BY <1>1, <2>3 DEF Walk, NodeFields, Running, SameTree
  <2> QED
    BY <2>1, <2>2, <2>3
<1>3. Alike(node')
  BY <1>2, Goes
<1>4. \A v \in Ids : GoesOn(v)
  BY <1>2, <1>3, NodeSets DEF GoesOn
<1>5. UNCHANGED <<dying, threads, phase>>
  BY DEF Wait, Woken, Walk
<1>6. node'[Root].pc \in Running \cup {"idle"} /\ (node'[Root].pc = "idle" <=> phase' # "stop")
  BY <1>2, <1>3, <1>5, NodeSets DEF IInv, Kinds, Running
<1>7. phase \in {"idle", "build", "search", "stop"}
  BY DEF IInv, Types
<1> QED
  BY <1>3, <1>4, <1>5, <1>6, <1>7, Calm

(* The hypotheses of Calm that only concern the root and the phase.         *)
LEMMA SamePhase ==
    ASSUME IInv, UNCHANGED <<dying, threads, phase>>, Alike(node'), \A v \in Ids : GoesOn(v),
           node'[Root].pc = node[Root].pc
    PROVE  IInv' /\ Undisturbed
<1>1. phase \in {"idle", "build", "search", "stop"}
  BY DEF IInv, Types
<1>2. node[Root].pc \in Running \cup {"idle"} /\ (node[Root].pc = "idle" <=> phase # "stop")
  BY DEF IInv, Kinds
<1> QED
  BY <1>1, <1>2, Calm

LEMMA HandleStopStep == ASSUME IInv, NEW w \in Nodes, HandleStop(w) PROVE IInv' /\ Undisturbed
<1> DEFINE f == [node EXCEPT ![w].queue = Tail(@)]
           g == SendStopSearch(f, w)
<1>1. DOMAIN node[w] = NodeFields /\ DOMAIN node = Nodes
  BY DEF IInv, Types, IsNode
<1>2. /\ DOMAIN f = Nodes /\ \A v \in Nodes \ {w} : f[v] = node[v]
      /\ DOMAIN f[w] = NodeFields /\ SameTree(f, w) /\ f[w].pc = "poll"
  BY <1>1 DEF HandleStop, NodeFields, SameTree
<1> HIDE DEF f
<1>3. Alike(f)
  BY <1>2, Goes DEF Running
<1>4. \A v \in Nodes : f[v].pc = node[v].pc
  BY <1>2 DEF HandleStop
<1>5. /\ Alike(g) /\ \A v \in Nodes : g[v].pc = node[v].pc
      /\ \A v \in Ids : v # w /\ node[v].pc = "free" => g[v] = node[v]
  BY <1>2, <1>3, <1>4, Sent, NodeSets
<1>6. node' = g
  BY DEF HandleStop, f
<1> HIDE DEF g
<1>7. \A v \in Ids : GoesOn(v)
  BY <1>5, <1>6, NodeSets DEF GoesOn, HandleStop
<1> QED
  BY <1>5, <1>6, <1>7, SamePhase, NodeSets DEF HandleStop

(* A thread in poll is that of a live object, or the main thread.           *)
LEMMA HandleStopAckStep == ASSUME IInv, NEW w \in Nodes, HandleStopAck(w) PROVE IInv' /\ Undisturbed
<1> DEFINE f == [node EXCEPT ![w].queue = Tail(@), ![w].waitKids = @ - 1]
           g == Acked(f, w)
<1>1. DOMAIN node[w] = NodeFields /\ DOMAIN node = Nodes
  BY DEF IInv, Types, IsNode
<1>2. /\ DOMAIN f = Nodes /\ \A v \in Nodes \ {w} : f[v] = node[v]
      /\ DOMAIN f[w] = NodeFields /\ SameTree(f, w) /\ f[w].pc = "poll"
  BY <1>1 DEF HandleStopAck, NodeFields, SameTree
<1> HIDE DEF f
<1>3. Alike(f) /\ (w # Root => IsLive(w))
  BY <1>2, Goes DEF Running, HandleStopAck, IsLive
<1>4. \A v \in Nodes : f[v].pc = node[v].pc
  BY <1>2 DEF HandleStopAck
<1>5. /\ Alike(g) /\ \A v \in Nodes : g[v].pc = node[v].pc
      /\ \A v \in Ids : node[v].pc = "free" => g[v] = node[v]
  <2> HIDE DEF g
  <2>1. /\ Alike(g) /\ \A v \in Nodes : g[v].pc = f[v].pc
        /\ \A v \in Ids : node[v].pc = "free" => g[v] = f[v]
    BY <1>3, AckSent DEF g
  <2>2. \A v \in Ids : node[v].pc = "free" => f[v] = node[v]
    BY <1>2, <1>4, NodeSets
  <2> QED
    BY <1>4, <2>1, <2>2, NodeSets
<1>6. node' = g
  BY DEF HandleStopAck, f
<1> HIDE DEF g
<1>7. \A v \in Ids : GoesOn(v)
  BY <1>5, <1>6, NodeSets DEF GoesOn
<1> QED
  BY <1>5, <1>6, <1>7, SamePhase, NodeSets DEF HandleStopAck

LEMMA EndPollStep == ASSUME IInv, NEW w \in Ids, EndPoll(w) PROVE IInv' /\ Undisturbed
<1> DEFINE f == IF node[w].waitSelf THEN [node EXCEPT ![w].pc = "wait", ![w].waitSelf = FALSE]
                                    ELSE [node EXCEPT ![w].pc = "wait"]
           g == IF node[w].waitSelf THEN Acked(f, w) ELSE f
<1>1. DOMAIN node[w] = NodeFields /\ DOMAIN node = Nodes /\ w \in Nodes
  BY NodeSets DEF IInv, Types, IsNode
<1>2. /\ DOMAIN f = Nodes /\ \A v \in Nodes \ {w} : f[v] = node[v]
      /\ DOMAIN f[w] = NodeFields /\ SameTree(f, w) /\ f[w].pc = "wait"
  BY <1>1 DEF NodeFields, SameTree
<1>3. node' = g
  BY <1>1 DEF EndPoll, NodeFields
<1> HIDE DEF f
<1>4. Alike(f) /\ IsLive(w)
  BY <1>1, <1>2, Goes DEF Running, EndPoll, IsLive
<1>5. /\ Alike(g) /\ \A v \in Nodes : g[v].pc = f[v].pc
      /\ \A v \in Ids : node[v].pc = "free" => g[v] = f[v]
  BY <1>1, <1>4, AckSent, NodeSets
<1> HIDE DEF g
<1>6. \A v \in Ids : GoesOn(v)
  BY <1>2, <1>3, <1>5, NodeSets DEF GoesOn, EndPoll, Running
<1> QED
  BY <1>2, <1>3, <1>5, <1>6, SamePhase, NodeSets DEF EndPoll

LEMMA EndRootPollStep == ASSUME IInv, EndRootPoll PROVE IInv' /\ Undisturbed
<1>1. DOMAIN node[Root] = NodeFields /\ DOMAIN node = Nodes /\ Root \in Nodes
  BY NodeSets DEF IInv, Types, IsNode
<1>2. /\ DOMAIN node' = Nodes /\ \A v \in Nodes \ {Root} : node'[v] = node[v]
      /\ DOMAIN node'[Root] = NodeFields /\ SameTree(node', Root)
  BY <1>1 DEF EndRootPoll, NodeFields, SameTree
<1>3. phase = "stop"
  BY DEF IInv, Kinds, EndRootPoll
<1>4. \/ node'[Root].pc = "idle" /\ phase' = "idle"
      \/ node'[Root].pc = "wait" /\ phase' = phase
  BY <1>1 DEF EndRootPoll, NodeFields
<1>5. Alike(node')
  BY <1>1, <1>2, <1>4, Goes DEF Running
<1>6. \A v \in Ids : GoesOn(v)
  BY <1>2, NodeSets DEF GoesOn
<1> QED
  BY <1>3, <1>4, <1>5, <1>6, Calm DEF EndRootPoll, Running

(***************************************************************************)
(* The destructor and the building of the tree.                            *)
(***************************************************************************)
LEMMA TerminateStep == ASSUME IInv, Terminate PROVE IInv' /\ Undisturbed
<1> DEFINE w == Head(dying)
<1>1. dying[1] = w /\ 1 \in 1 .. Len(dying) /\ w \in Ids /\ w \in Dying
  BY DEF IInv, Types, Terminate, Dying, ToSet
<1>2. DOMAIN node[w] = NodeFields /\ DOMAIN node = Nodes /\ w \in Nodes
  BY <1>1, NodeSets DEF IInv, Types, IsNode
<1>b. node[w].kids = <<>>
  BY DEF Terminate, Ending
<1>3. node[w].pc # "free" /\ node[w].pc \in Running \cup {"exited"}
  BY <1>1 DEF IInv, Destruction, Kinds, Running
<1>a. node' = [node EXCEPT ![w] = [node[w] EXCEPT !.terminate = TRUE, !.notified = TRUE]]
  BY <1>2 DEF Terminate
<1> HIDE DEF w
<1>4. /\ DOMAIN node' = Nodes /\ \A v \in Nodes \ {w} : node'[v] = node[v]
      /\ DOMAIN node'[w] = NodeFields /\ SameTree(node', w) /\ node'[w].pc = node[w].pc
  <2>1. node'[w] = [node[w] EXCEPT !.terminate = TRUE, !.notified = TRUE]
    BY <1>2, <1>a
  <2> QED
    <3>1. SameTree(node', w) /\ DOMAIN node'[w] = NodeFields /\ node'[w].pc = node[w].pc
      BY <1>1, <1>2, <1>b, <2>1 DEF NodeFields, SameTree
    <3> QED
      BY <1>2, <1>a, <3>1
<1>5. Alike(node')
  BY <1>2, <1>3, <1>4, Goes
<1>6. \A v \in Ids : GoesOn(v)
  BY <1>3, <1>4, NodeSets DEF GoesOn
<1> QED
  BY <1>1, <1>4, <1>5, <1>6, SamePhase, NodeSets DEF Terminate

LEMMA ChildrenCount ==
    ASSUME NEW n, n \in Nat
    PROVE  NumChildren(n) \in Nat /\ NumChildren(n) <= n /\ (NumChildren(n) = 0 => n = 0)
  BY TreeAssumption DEF NumChildren

(* A node p where createWorkers has begun, for n workers from number at on. *)
Started(r, p, n, at) ==
    /\ DOMAIN r = NodeFields /\ r.kids \in Seq(Nodes) /\ Len(r.kids) = NumChildren(n)
    /\ \A j \in 1 .. NumChildren(n) :
            r.kids[j] = IF j <= Len(node[p].kids) THEN KidAt(p, j) ELSE NoWorker
    /\ r.i = 1 /\ r.first = at /\ r.left = n /\ r.fresh = {}
    /\ r.pc = node[p].pc /\ r.no = node[p].no /\ r.size = node[p].size
    /\ r.parent = node[p].parent /\ r.list = node[p].list
    /\ r.initialized = node[p].initialized /\ r.terminate = node[p].terminate

LEMMA StartFacts ==
    ASSUME Types, NEW p \in Nodes, NEW n, n \in Nat, NEW at, at \in Nat
    PROVE  Started(Starting(p, n, at), p, n, at)
<1> DEFINE r == Starting(p, n, at)
<1>1. DOMAIN node[p] = NodeFields /\ node[p].kids \in Seq(Nodes) /\ NoWorker \in Nodes
  BY NodeSets DEF Types, IsNode, NoWorker, Root
<1>2. Resized(p, n) \in [1 .. NumChildren(n) -> Nodes]
  <2>1. \A j \in 1 .. NumChildren(n) : (IF j <= Len(node[p].kids) THEN node[p].kids[j] ELSE NoWorker) \in Nodes
    BY <1>1, ChildrenCount, NodeFacts DEF Places, KidAt
  <2> QED
    BY <2>1 DEF Resized
<1>3. Resized(p, n) \in Seq(Nodes) /\ Len(Resized(p, n)) = NumChildren(n)
  <2>1. NumChildren(n) \in Nat /\ DOMAIN Resized(p, n) = 1 .. NumChildren(n)
    BY <1>2, ChildrenCount
  <2>2. Resized(p, n) \in Seq(Nodes)
    BY <1>2, <2>1, SeqDef
  <2> QED
    BY <2>1, <2>2, LenProperties
<1>4. \A j \in 1 .. NumChildren(n) :
        Resized(p, n)[j] = IF j <= Len(node[p].kids) THEN KidAt(p, j) ELSE NoWorker
  BY DEF Resized, KidAt
<1>5. r = [node[p] EXCEPT !.kids = Resized(p, n), !.i = 1, !.first = at, !.left = n, !.fresh = {}]
  BY DEF Starting
<1> HIDE DEF r
<1>6. /\ DOMAIN r = NodeFields /\ r.kids = Resized(p, n)
      /\ r.i = 1 /\ r.first = at /\ r.left = n /\ r.fresh = {}
      /\ r.pc = node[p].pc /\ r.no = node[p].no /\ r.size = node[p].size
      /\ r.parent = node[p].parent /\ r.list = node[p].list
      /\ r.initialized = node[p].initialized /\ r.terminate = node[p].terminate
  BY <1>1, <1>5 DEF NodeFields
<1>7. Started(r, p, n, at)
  BY <1>3, <1>4, <1>6 DEF Started
<1> QED
  BY <1>7 DEF r

LEMMA StartThreadStep == ASSUME IInv, NEW w \in Ids, StartThread(w) PROVE IInv' /\ Undisturbed
<1> DEFINE p == node[w].parent
           r == Starting(w, node[w].size - 1, node[w].no + 1)
           n == node[w].size - 1
<1> USE DEF IInv
<1>1. /\ node[w].pc = "start" /\ IsLive(w) /\ w \in Nodes /\ p \in Nodes
      /\ n \in Nat /\ node[w].no \in Nat /\ node[w].kids = <<>> /\ ~node[w].initialized
  <2>1. node[w].pc = "start" /\ w \in Nodes
    BY NodeSets DEF StartThread
  <2>2. node[w].size > 0 /\ node[w].kids = <<>> /\ ~node[w].initialized
    BY <2>1 DEF Kinds, Running
  <2> QED
    BY <2>1, <2>2, NodeFacts DEF IsLive
<1>2. w \notin Dying
  BY <1>1, DyingFacts DEF Destruction
<1>3. p # w
  BY <1>1, <1>2 DEF Kinship, Owned, Places
<1>4. DOMAIN node = Nodes /\ \A v \in Nodes : DOMAIN node[v] = NodeFields
  BY DEF Types, IsNode
<1>5. /\ DOMAIN r = NodeFields /\ r.kids \in Seq(Nodes) /\ Len(r.kids) = NumChildren(n)
      /\ \A j \in 1 .. NumChildren(n) : r.kids[j] = NoWorker
      /\ r.i = 1 /\ r.first = node[w].no + 1 /\ r.left = n /\ r.fresh = {}
      /\ r.no = node[w].no /\ r.size = node[w].size
      /\ r.parent = node[w].parent /\ r.list = node[w].list
      /\ r.initialized = node[w].initialized /\ r.terminate = node[w].terminate
  <2>1. Len(node[w].kids) = 0 /\ NumChildren(n) \in Nat /\ node[w].no + 1 \in Nat
    <3>1. Len(node[w].kids) = 0
      BY <1>1
    <3>2. n \in Nat
      BY <1>1
    <3> HIDE DEF n
    <3>3. NumChildren(n) \in Nat
      BY <3>2, ChildrenCount
    <3>4. node[w].no + 1 \in Nat
      BY <1>1
    <3> QED
      BY <3>1, <3>3, <3>4
  <2>2. /\ DOMAIN r = NodeFields /\ r.kids \in Seq(Nodes) /\ Len(r.kids) = NumChildren(n)
        /\ \A j \in 1 .. NumChildren(n) :
                r.kids[j] = IF j <= Len(node[w].kids) THEN KidAt(w, j) ELSE NoWorker
        /\ r.i = 1 /\ r.first = node[w].no + 1 /\ r.left = n /\ r.fresh = {}
        /\ r.no = node[w].no /\ r.size = node[w].size
        /\ r.parent = node[w].parent /\ r.list = node[w].list
        /\ r.initialized = node[w].initialized /\ r.terminate = node[w].terminate
    <3>1. n \in Nat /\ node[w].no + 1 \in Nat /\ w \in Nodes /\ Types
      BY <1>1, <2>1
    <3>2. Started(r, w, n, node[w].no + 1)
      BY <3>1, StartFacts
    <3> HIDE DEF n, r
    <3> QED
      BY <3>2 DEF Started
  <2> HIDE DEF r, n
  <2> QED
    BY <2>1, <2>2
<1>6. node' = [node EXCEPT ![w] = [r EXCEPT !.pc = "build"], ![p].list = @ \cup {w}]
  BY DEF StartThread
<1> HIDE DEF r, n
<1>7. node'[w] = [r EXCEPT !.pc = "build"] /\ DOMAIN node' = Nodes
  BY <1>1, <1>3, <1>4, <1>6
<1>8. node'[p] = [node[p] EXCEPT !.list = @ \cup {w}]
  BY <1>1, <1>3, <1>4, <1>6
<1>9. \A v \in Nodes : v # w /\ v # p => node'[v] = node[v]
  BY <1>1, <1>3, <1>4, <1>6
<1> HIDE DEF p
<1>10. /\ DOMAIN node'[w] = NodeFields /\ node'[w].kids \in Seq(Nodes)
       /\ Len(node'[w].kids) = NumChildren(n)
       /\ \A j \in 1 .. NumChildren(n) : node'[w].kids[j] = NoWorker
       /\ node'[w].pc = "build" /\ node'[w].i = 1 /\ node'[w].first = node[w].no + 1
       /\ node'[w].left = n /\ node'[w].fresh = {}
       /\ node'[w].no = node[w].no /\ node'[w].size = node[w].size
       /\ node'[w].parent = node[w].parent /\ node'[w].list = node[w].list
       /\ node'[w].initialized = node[w].initialized /\ node'[w].terminate = node[w].terminate
  BY <1>5, <1>7 DEF NodeFields
<1>11. \A v \in Nodes : v # w =>
        /\ DOMAIN node'[v] = NodeFields /\ node'[v].pc = node[v].pc
        /\ node'[v].no = node[v].no /\ node'[v].size = node[v].size
        /\ node'[v].parent = node[v].parent /\ node'[v].kids = node[v].kids
        /\ node'[v].i = node[v].i /\ node'[v].first = node[v].first
        /\ node'[v].left = node[v].left /\ node'[v].fresh = node[v].fresh
        /\ node'[v].initialized = node[v].initialized /\ node'[v].terminate = node[v].terminate
        /\ node'[v].list = IF v = p THEN node[v].list \cup {w} ELSE node[v].list
  <2>1. ASSUME NEW v \in Nodes, v # w PROVE DOMAIN node[v] = NodeFields /\ DOMAIN node[p] = NodeFields
    BY <1>1, <1>4
  <2> QED
    BY <1>8, <1>9, <2>1 DEF NodeFields
<1>12. UNCHANGED <<dying, phase, threads>> /\ Dying' = Dying
  BY DEF StartThread, Dying
<1>13. Types'
  <2>1. IsNode(node'[w])
    BY <1>1, <1>5, <1>10, NodeFacts DEF IsNode
  <2>2. ASSUME NEW v \in Nodes, v # w PROVE IsNode(node'[v])
    <3>1. IsNode(node[v])
      BY DEF Types
    <3>2. node'[v].list = node[v].list \/ node'[v].list = node[v].list \cup {w}
      BY <1>11, <2>2
    <3>3. node'[v].list \subseteq Ids
      BY <3>1, <3>2 DEF IsNode
    <3> QED
      BY <1>11, <2>2, <3>1, <3>3 DEF IsNode
  <2> QED
    BY <1>7, <1>12, <2>1, <2>2 DEF Types
<1>14. Kinds'
  <2>1. ASSUME NEW v \in Ids
        PROVE  /\ node'[v].pc # "idle"
               /\ node'[v].initialized <=> node'[v].pc \in Running \cup {"exited"}
               /\ node'[v].pc = "exited" => node'[v].terminate
               /\ node'[v].terminate => v \in Dying' /\ node'[v].kids = <<>>
               /\ node'[v].pc = "free" => node'[v] = Free
               /\ node'[v].pc # "free" => node'[v].size > 0
               /\ node'[v].pc = "start" => node'[v].kids = <<>>
    <3>1. CASE v = w
      BY <1>1, <1>2, <1>10, <1>12, <3>1 DEF Kinds, Running
    <3>2. CASE v # w
      <4>1. node[v].pc = "free" => node'[v] = node[v]
        BY <1>1, <1>9, <3>2, Parents, NodeSets DEF p, IsLive
      <4>2. /\ node[v].pc # "idle"
            /\ node[v].initialized <=> node[v].pc \in Running \cup {"exited"}
            /\ node[v].pc = "exited" => node[v].terminate
            /\ node[v].terminate => v \in Dying /\ node[v].kids = <<>>
            /\ node[v].pc = "free" => node[v] = Free
            /\ node[v].pc # "free" => node[v].size > 0
            /\ node[v].pc = "start" => node[v].kids = <<>>
        BY DEF Kinds
      <4>3. /\ node'[v].pc = node[v].pc /\ node'[v].initialized = node[v].initialized
            /\ node'[v].terminate = node[v].terminate /\ node'[v].size = node[v].size
            /\ node'[v].kids = node[v].kids
        BY <1>11, <3>2, NodeSets
      <4> QED
        BY <1>12, <4>1, <4>2, <4>3
    <3> QED
      BY <3>1, <3>2
  <2>2. node'[Root].pc = node[Root].pc /\ node'[Root].no = node[Root].no
        /\ node'[Root].terminate = node[Root].terminate
    BY <1>11, NodeSets
  <2> QED
    BY <1>12, <2>1, <2>2 DEF Kinds
<1>15. \A v \in Nodes : Building(v)' <=> Building(v) \/ v = w
  <2>1. Building(w)'
    BY <1>1, <1>10, NodeSets DEF Building
  <2>2. ASSUME NEW v \in Nodes, v # w PROVE Building(v)' <=> Building(v)
    <3>1. node'[v].pc = node[v].pc /\ phase' = phase
      BY <1>11, <1>12, <2>2
    <3> QED
      BY <3>1 DEF Building
  <2> QED
    BY <2>1, <2>2
<1>16. ASSUME NEW v \in Ids, IsLive(v)' PROVE Owned(v)' /\ Awaited(v)'
  <2>1. IsLive(v) /\ node'[v].parent = node[v].parent /\ node[v].parent \in Nodes
    BY <1>1, <1>10, <1>11, <1>16, NodeFacts, NodeSets DEF IsLive
  <2>2. Owned(v) /\ Awaited(v)
    BY <2>1 DEF Kinship
  <2>3. CASE node[v].parent = w
    <3>1. v \in Dying
      BY <1>1, <2>2, <2>3 DEF Owned, Places
    <3> QED
      BY <1>2, <1>12, <2>1, <2>3, <3>1, DyingFacts, NodeSets DEF Destruction
  <2>4. CASE node[v].parent # w
    <3>1. node'[node[v].parent].kids = node[node[v].parent].kids
          /\ node'[node[v].parent].fresh = node[node[v].parent].fresh
      BY <1>11, <2>1, <2>4
    <3>2. Owned(v)'
      BY <1>12, <2>1, <2>2, <3>1 DEF Owned, KidAt, Places
    <3>3. node'[v].pc \in Starts => node[v].pc \in Starts
      BY <1>1, <1>11, NodeSets DEF Starts
    <3>4. Awaited(v)'
      BY <1>12, <1>15, <2>1, <2>2, <3>1, <3>3 DEF Awaited
    <3> QED
      BY <3>2, <3>4
  <2> QED
    BY <2>3, <2>4
<1>17. ASSUME NEW q \in Nodes
       PROVE  Children(q)' /\ Complete(q)' /\ FirstTime(q)' /\ Listed(q)' /\ Fresh(q)'
  <2>1. Children(q) /\ Complete(q) /\ FirstTime(q) /\ Listed(q) /\ Fresh(q)
    BY DEF Kinship
  <2>2. \A v \in Nodes : IsLive(v)' <=> IsLive(v)
    BY <1>1, <1>10, <1>11 DEF IsLive
  <2>3. Listed(q)'
    <3>1. node[q].list = {v \in Ids : IsLive(v) /\ node[v].pc # "start" /\ node[v].parent = q}
      BY <2>1 DEF Listed
    <3>2. \A v \in Ids : node'[v].parent = node[v].parent
          /\ (node'[v].pc # "start" <=> v = w \/ node[v].pc # "start")
      BY <1>10, <1>11, NodeSets
    <3>3. node'[q].list = IF q = p THEN node[q].list \cup {w} ELSE node[q].list
      BY <1>3, <1>10, <1>11
    <3> QED
      BY <1>1, <2>2, <3>1, <3>2, <3>3, NodeSets DEF Listed, p
  <2>4. CASE q = w
    <3>1. Building(q)' /\ \A j \in 1 .. NumChildren(n) : node'[q].kids[j] = NoWorker
      BY <1>10, <1>15, <2>4
    <3> QED
      BY <1>10, <2>3, <2>4, <3>1 DEF Children, Complete, FirstTime, Fresh, Places, KidAt
  <2>5. CASE q # w
    <3>1. node'[q].kids = node[q].kids /\ node'[q].i = node[q].i /\ node'[q].fresh = node[q].fresh
          /\ (Building(q)' <=> Building(q))
      BY <1>11, <1>15, <2>5
    <3>2. Complete(q)' /\ FirstTime(q)' /\ Fresh(q)'
      BY <2>1, <3>1 DEF Complete, FirstTime, Fresh, Places, KidAt
    <3>3. \A j \in Places(q) : KidAt(q, j) \in Nodes
      BY NodeFacts
    <3>4. \A v \in Nodes : node'[v].parent = node[v].parent
      BY <1>10, <1>11
    <3>5. Children(q)'
      BY <1>12, <2>1, <2>2, <3>1, <3>3, <3>4 DEF Children, Places, KidAt, IsLive
    <3> QED
      BY <2>3, <3>2, <3>5
  <2> QED
    BY <2>4, <2>5
<1>18. Destruction'
  <2>1. \A v \in Ids : node'[v].initialized = node[v].initialized /\ node'[v].parent = node[v].parent
    BY <1>10, <1>11, NodeSets
  <2> QED
    BY <1>12, <2>1, DyingFacts DEF Destruction
<1>19. ASSUME NEW q \in Nodes, InTree(q)' PROVE Numbered(q)'
  <2>1. CASE q = w
    <3>1. Base(w)' = node[w].no + 1 /\ Total(w)' = n
      BY <1>1, <1>10, NodeSets DEF Base, Total, n
    <3>2. Placed(w)' = {}
      BY <1>10 DEF Placed
    <3>3. Building(w)'
      BY <1>1, <1>15
    <3>4. n \in Nat /\ NumChildren(n) \in Nat /\ NumChildren(n) <= n /\ (NumChildren(n) = 0 => n = 0)
      BY <1>1, ChildrenCount
    <3> QED
      BY <1>1, <1>10, <2>1, <3>1, <3>2, <3>3, <3>4 DEF Numbered
  <2>2. CASE q # w
    <3>1. InTree(q)
      BY <1>11, <1>12, <1>19, <2>2 DEF InTree
    <3>2. Numbered(q)
      BY <3>1 DEF Numbers
    <3>3. \A j \in Placed(q) : KidAt(q, j) \in Nodes
      BY <3>2, NodeFacts DEF Numbered, Placed, Places
    <3>4. \A v \in Nodes : node'[v].no = node[v].no /\ node'[v].size = node[v].size
      BY <1>10, <1>11
    <3> QED
      BY <1>11, <1>12, <1>15, <2>2, <3>2, <3>3, <3>4, SameNumbers
  <2> QED
    BY <2>1, <2>2
<1>20. Undisturbed
  <2>1. ASSUME NEW v \in Nodes, node[v].pc \in {"walk", "poll"}, node'[v].list # node[v].list
        PROVE  FALSE
    <3>1. v = p
      BY <1>10, <1>11, <2>1
    <3>2. Building(v)
      BY <1>1, <3>1 DEF Kinship, Awaited, Starts, p
    <3> QED
      BY <2>1, <3>2 DEF Building, Kinds
  <2> QED
    BY <2>1 DEF Undisturbed
<1> QED
  BY <1>13, <1>14, <1>16, <1>17, <1>18, <1>19, <1>20 DEF Kinship, Numbers

LEMMA GoStep == ASSUME IInv, NEW n \in Sizes, Go(n) PROVE IInv' /\ Undisturbed
<1> DEFINE r == Starting(Root, n, 1)
           m == NumChildren(n)
           L == Len(node[Root].kids)
<1> USE DEF IInv
<1>1. phase = "idle" /\ dying = <<>> /\ Dying = {} /\ node[Root].pc = "idle"
  BY DEF Go, Destruction, Kinds, Dying, ToSet
<1>2. n \in Nat /\ m \in Nat /\ m <= n /\ (m = 0 => n = 0) /\ L \in Nat /\ Root \in Nodes
  BY TreeAssumption, ChildrenCount, NodeSets, NodeFacts
<1>3. \A j \in 1 .. L : /\ KidAt(Root, j) \in Ids /\ IsLive(KidAt(Root, j))
                        /\ node[KidAt(Root, j)].parent = Root /\ node[KidAt(Root, j)].initialized
  BY <1>1, <1>2, ReadyKids DEF Building, Places
<1>4. \A j, k \in 1 .. L : j # k => KidAt(Root, j) # KidAt(Root, k)
  <2>1. \A j \in 1 .. L : KidAt(Root, j) # NoWorker
    BY <1>3, NodeSets DEF NoWorker, Root
  <2> QED
    BY <1>2, <2>1 DEF Kinship, Children, Places
<1>5. Started(r, Root, n, 1)
  BY <1>2, StartFacts
<1>6. DOMAIN node = Nodes
  BY DEF Types
<1>7. node' = [node EXCEPT ![Root] = r] /\ phase' = "build" /\ threads' = n
  BY DEF Go
<1>8. /\ dying' \in Seq(Ids) /\ Len(dying') = (IF m < L THEN L - m ELSE 0)
      /\ \A x \in 1 .. L - m : dying'[x] = KidAt(Root, m + x)
  <2>1. dying' = SubSeq(node[Root].kids, m + 1, L)
    BY DEF Go, Surplus
  <2>2. \A i \in m + 1 .. L : node[Root].kids[i] \in Ids
    BY <1>2, <1>3 DEF KidAt
  <2> HIDE DEF m, L
  <2>3. /\ dying' \in Seq(Ids) /\ Len(dying') = (IF m + 1 <= L THEN L - (m + 1) + 1 ELSE 0)
        /\ \A x \in 1 .. L - (m + 1) + 1 : dying'[x] = node[Root].kids[m + 1 + x - 1]
    BY <1>2, <2>1, <2>2, SubSeqProperties
  <2>4. \A x \in Nat : m + 1 + x - 1 = m + x
    BY <1>2
  <2> QED
    BY <1>2, <2>3, <2>4 DEF KidAt
<1> HIDE DEF r, m, L
<1>9. node'[Root] = r /\ DOMAIN node' = Nodes /\ \A v \in Ids : node'[v] = node[v]
  BY <1>2, <1>6, <1>7, NodeSets
<1>10. /\ DOMAIN node'[Root] = NodeFields /\ node'[Root].kids \in Seq(Nodes)
       /\ Len(node'[Root].kids) = m
       /\ \A j \in 1 .. m : node'[Root].kids[j] = IF j <= L THEN KidAt(Root, j) ELSE NoWorker
       /\ node'[Root].i = 1 /\ node'[Root].first = 1 /\ node'[Root].left = n
       /\ node'[Root].fresh = {} /\ node'[Root].pc = "idle" /\ node'[Root].no = node[Root].no
       /\ node'[Root].size = node[Root].size /\ node'[Root].parent = node[Root].parent
       /\ node'[Root].list = node[Root].list /\ node'[Root].initialized = node[Root].initialized
       /\ node'[Root].terminate = node[Root].terminate
  BY <1>1, <1>5, <1>9 DEF Started, m, L
<1>11. \A v \in Ids : v \in Dying' <=> \E j \in m + 1 .. L : v = KidAt(Root, j)
  <2>1. ASSUME NEW v, v \in Dying' PROVE \E j \in m + 1 .. L : v = KidAt(Root, j)
    <3>1. PICK x \in 1 .. Len(dying') : v = dying'[x]
      BY <1>8, <2>1 DEF Dying, ToSet
    <3>2. x \in 1 .. L - m /\ m + x \in m + 1 .. L
      BY <1>2, <1>8, <3>1
    <3> QED
      BY <1>8, <3>1, <3>2
  <2>2. ASSUME NEW j \in m + 1 .. L PROVE KidAt(Root, j) \in Dying'
    <3>1. j - m \in 1 .. L - m /\ j - m \in 1 .. Len(dying') /\ m + (j - m) = j
      BY <1>2, <1>8
    <3> HIDE DEF KidAt
    <3>2. dying'[j - m] = KidAt(Root, j)
      BY <1>8, <3>1
    <3> QED
      BY <1>8, <3>1, <3>2 DEF Dying, ToSet
  <2> QED
    BY <2>1, <2>2
<1>12. Types'
  <2>1. IsNode(node'[Root])
    BY <1>2, <1>10, NodeFacts DEF IsNode
  <2> QED
    BY <1>2, <1>7, <1>8, <1>9, <2>1, NodeSets DEF Types
<1>13. Kinds'
  <2>1. \A v \in Ids : ~node[v].terminate
    BY <1>1 DEF Kinds
  <2> QED
    BY <1>7, <1>9, <1>10, <2>1, NodeSets DEF Kinds
<1>14. \A v \in Ids : (IsLive(v)' <=> IsLive(v)) /\ (Building(v)' <=> Building(v))
  BY <1>9, NodeSets DEF IsLive, Building
<1>15. ASSUME NEW v \in Ids, IsLive(v)' PROVE Owned(v)' /\ Awaited(v)'
  <2>1. IsLive(v) /\ node[v].parent \in Nodes /\ node'[v] = node[v]
    BY <1>9, <1>14, <1>15, NodeFacts, NodeSets
  <2>2. Owned(v) /\ Awaited(v)
    BY <2>1 DEF Kinship
  <2>3. CASE node[v].parent = Root
    <3>1. ~Building(Root)
      BY <1>1 DEF Building
    <3>2. Awaited(v)'
      BY <2>1, <2>2, <2>3, <3>1 DEF Awaited
    <3>3. PICK j \in 1 .. L : KidAt(Root, j) = v
      BY <1>1, <2>2, <2>3 DEF Owned, Places, L
    <3>4. CASE j <= m
      <4>1. j \in 1 .. m /\ node'[Root].kids[j] = v
        BY <1>2, <1>10, <3>3, <3>4
      <4> QED
        BY <1>10, <2>1, <2>3, <3>2, <4>1 DEF Owned, Places, KidAt
    <3>5. CASE j > m
      <4>1. v \in Dying'
        BY <1>2, <1>11, <3>3, <3>5
      <4> QED
        BY <3>2, <4>1 DEF Owned
    <3> QED
      BY <1>2, <3>4, <3>5
  <2>4. CASE node[v].parent # Root
    <3>1. node[v].parent \in Ids /\ node'[node[v].parent] = node[node[v].parent]
      BY <1>9, <2>1, <2>4, NodeSets
    <3>2. Building(node[v].parent)' <=> Building(node[v].parent)
      BY <1>9, <3>1, NodeSets DEF Building
    <3> QED
      BY <1>1, <2>1, <2>2, <3>1, <3>2 DEF Owned, Awaited, Places, KidAt, Building
  <2> QED
    BY <2>3, <2>4
<1>16. ASSUME NEW q \in Nodes
       PROVE  Children(q)' /\ Complete(q)' /\ FirstTime(q)' /\ Listed(q)' /\ Fresh(q)'
  <2>1. Children(q) /\ Complete(q) /\ FirstTime(q) /\ Listed(q) /\ Fresh(q)
    BY DEF Kinship
  <2>2. Listed(q)'
    BY <1>9, <1>10, <1>14, <2>1, NodeSets DEF Listed
  <2>3. CASE q = Root
    <3>1. Building(Root)'
      BY <1>7 DEF Building
    <3>2. ASSUME NEW j \in Places(Root)', KidAt(Root, j)' # NoWorker
          PROVE  /\ IsLive(KidAt(Root, j))' /\ node'[KidAt(Root, j)'].parent = Root
                 /\ KidAt(Root, j)' \notin Dying'
                 /\ \A k \in Places(Root)' : k # j => KidAt(Root, k)' # KidAt(Root, j)'
      <4>1. j \in 1 .. m /\ j \in 1 .. L /\ KidAt(Root, j)' = KidAt(Root, j)
        BY <1>2, <1>10, <3>2 DEF Places, KidAt
      <4>2. KidAt(Root, j) \in Ids /\ IsLive(KidAt(Root, j)) /\ node[KidAt(Root, j)].parent = Root
        BY <1>3, <4>1 DEF L
      <4>3. KidAt(Root, j) \notin Dying'
        BY <1>2, <1>4, <1>11, <4>1, <4>2 DEF L
      <4>4. ASSUME NEW k \in 1 .. m, k # j PROVE KidAt(Root, k)' # KidAt(Root, j)
        <5>1. node'[Root].kids[k] = IF k <= L THEN KidAt(Root, k) ELSE NoWorker
          BY <1>10
        <5>2. KidAt(Root, j) # NoWorker
          BY <3>2, <4>1
        <5>3. k <= L => k \in 1 .. L /\ KidAt(Root, k) # KidAt(Root, j)
          BY <1>2, <1>4, <4>1, <4>4 DEF L
        <5> QED
          BY <5>1, <5>2, <5>3 DEF KidAt
      <4>5. Places(Root)' = 1 .. m
        BY <1>10 DEF Places
      <4> QED
        BY <1>9, <1>14, <4>1, <4>2, <4>3, <4>4, <4>5 DEF IsLive
    <3> QED
      BY <1>10, <2>2, <2>3, <3>1, <3>2 DEF Children, Complete, FirstTime, Fresh
  <2>4. CASE q # Root
    <3>1. q \in Ids /\ node'[q] = node[q] /\ (Building(q)' <=> Building(q))
      BY <1>9, <1>14, <2>4, NodeSets
    <3>2. Complete(q)' /\ FirstTime(q)' /\ Fresh(q)'
      BY <2>1, <3>1 DEF Complete, FirstTime, Fresh, Places, KidAt
    <3>3. \A j \in Places(q) : KidAt(q, j) # NoWorker => KidAt(q, j) \in Ids
      BY NodeFacts, NodeSets DEF NoWorker, Root
    <3>4. \A v \in Dying' : node[v].parent = Root
      BY <1>3, <1>8, <1>11, <1>2 DEF L, Dying, ToSet
    <3>5. Children(q)'
      BY <1>9, <1>14, <2>1, <2>4, <3>1, <3>3, <3>4 DEF Children, Places, KidAt, IsLive
    <3> QED
      BY <2>2, <3>2, <3>5
  <2> QED
    BY <2>3, <2>4
<1>17. Destruction'
  <2>1. ASSUME NEW x \in 1 .. Len(dying')
        PROVE  /\ node'[dying'[x]].initialized /\ node'[dying'[x]].parent = Root
               /\ \A y \in 1 .. Len(dying') : y # x => dying'[y] # dying'[x]
    <3>1. \A y \in 1 .. Len(dying') : /\ y \in 1 .. L - m /\ m + y \in 1 .. L
                                      /\ dying'[y] = KidAt(Root, m + y)
      BY <1>2, <1>8
    <3>2. KidAt(Root, m + x) \in Ids /\ node[KidAt(Root, m + x)].initialized
          /\ node[KidAt(Root, m + x)].parent = Root
      BY <1>3, <3>1 DEF L
    <3>3. \A y \in 1 .. Len(dying') : y # x => KidAt(Root, m + y) # KidAt(Root, m + x)
      BY <1>2, <1>4, <3>1 DEF L
    <3> QED
      BY <1>9, <3>1, <3>2, <3>3
  <2> QED
    BY <1>7, <2>1 DEF Destruction
<1>18. ASSUME NEW q \in Nodes, InTree(q)' PROVE Numbered(q)'
  <2>1. CASE q = Root
    <3>1. Base(Root)' = 1 /\ Total(Root)' = n /\ Placed(Root)' = {} /\ Building(Root)'
      BY <1>7, <1>10 DEF Base, Total, Placed, Building, Kinds
    <3> QED
      BY <1>2, <1>10, <2>1, <3>1 DEF Numbered
  <2>2. CASE q # Root
    <3>1. q \in Ids /\ node'[q] = node[q] /\ InTree(q)
      BY <1>1, <1>9, <1>18, <2>2, NodeSets DEF InTree
    <3>2. Numbered(q)
      BY <3>1 DEF Numbers
    <3>3. \A j \in Placed(q) : KidAt(q, j) \in Ids
      BY <3>2, NodeFacts, NodeSets DEF Numbered, Placed, Places, NoWorker, Root
    <3> QED
      BY <1>9, <1>14, <2>2, <3>1, <3>2, <3>3, SameNumbers
  <2> QED
    BY <2>1, <2>2
<1>19. Undisturbed
  BY <1>9, <1>10, NodeSets DEF Undisturbed
<1> QED
  BY <1>12, <1>13, <1>15, <1>16, <1>17, <1>18, <1>19 DEF Kinship, Numbers

(* What is being destroyed is ready, and its children are, too.             *)
LEMMA DyingNode ==
    ASSUME IInv, dying # <<>>
    PROVE  /\ Head(dying) = dying[1] /\ Len(dying) \in Nat \ {0}
           /\ dying[1] \in Ids /\ dying[1] \in Dying /\ phase = "build"
           /\ node[dying[1]].pc \in Running \cup {"exited"}
           /\ node[dying[1]].parent # dying[1]
<1>1. dying \in Seq(Ids) /\ phase = "build"
  BY DEF IInv, Types, Destruction
<1>2. Head(dying) = dying[1] /\ Len(dying) \in Nat \ {0} /\ 1 \in 1 .. Len(dying)
  BY <1>1
<1>3. dying[1] \in Ids /\ dying[1] \in Dying
  BY <1>2, DyingFacts DEF IInv
<1>4. node[dying[1]].pc \in Running \cup {"exited"}
  BY <1>2, <1>3 DEF IInv, Destruction, Kinds
<1>5. node[dying[1]].parent # dying[1]
  BY <1>2, <1>3, NodeSets DEF IInv, Destruction
<1> QED
  BY <1>1, <1>2, <1>3, <1>4, <1>5

LEMMA ClearChildrenStep == ASSUME IInv, ClearChildren PROVE IInv' /\ Undisturbed
<1> DEFINE w == dying[1]
           K == Len(node[w].kids)
           D == Len(dying)
<1> USE DEF IInv
<1>1. /\ dying # <<>> /\ Head(dying) = w /\ D \in Nat \ {0}
      /\ w \in Ids /\ w \in Dying /\ phase = "build"
      /\ node[w].pc \in Running \cup {"exited"} /\ node[w].parent # w
  BY DyingNode DEF ClearChildren
<1>2. w \in Nodes /\ K \in Nat /\ ~Building(w) /\ node[w].pc \notin {"free", "start"} /\ w # Root
  BY <1>1, NodeSets, NodeFacts DEF Building, Running
<1>3. \A j \in 1 .. K : /\ KidAt(w, j) \in Ids /\ IsLive(KidAt(w, j)) /\ node[KidAt(w, j)].parent = w
                        /\ node[KidAt(w, j)].initialized /\ KidAt(w, j) \notin Dying
  BY <1>2, ReadyKids DEF Places
<1>4. \A j, k \in 1 .. K : j # k => KidAt(w, j) # KidAt(w, k)
  <2>1. \A j \in 1 .. K : KidAt(w, j) # NoWorker
    BY <1>3, NodeSets DEF NoWorker, Root
  <2> QED
    BY <1>2, <2>1 DEF Kinship, Children, Places
<1>5. node[w].kids \in Seq(Ids)
  <2>1. node[w].kids \in Seq(Nodes)
    BY <1>2, NodeFacts
  <2>2. node[w].kids \in [1 .. K -> Ids]
    BY <1>3, <2>1 DEF KidAt
  <2> QED
    BY <1>2, <2>2, SeqDef
<1>6. dying \in Seq(Ids) /\ DOMAIN node = Nodes
  BY DEF Types
<1>7. dying' = node[w].kids \o dying /\ node' = [node EXCEPT ![w].kids = <<>>]
      /\ UNCHANGED <<phase, threads>>
  BY <1>1 DEF ClearChildren
<1> HIDE DEF w, K, D
<1>8. /\ dying' \in Seq(Ids) /\ Len(dying') = K + D
      /\ \A x \in 1 .. K + D : dying'[x] = IF x <= K THEN KidAt(w, x) ELSE dying[x - K]
  BY <1>5, <1>6, <1>7, ConcatProperties DEF K, D, KidAt
<1>9. /\ DOMAIN node' = Nodes /\ \A v \in Nodes : v # w => node'[v] = node[v]
      /\ node'[w] = [node[w] EXCEPT !.kids = <<>>]
  BY <1>2, <1>6, <1>7
<1>10. DOMAIN node[w] = NodeFields
  BY <1>2 DEF Types, IsNode
<1>11. /\ DOMAIN node'[w] = NodeFields /\ node'[w].kids = <<>>
       /\ node'[w].pc = node[w].pc /\ node'[w].no = node[w].no
       /\ node'[w].size = node[w].size /\ node'[w].parent = node[w].parent
       /\ node'[w].list = node[w].list /\ node'[w].i = node[w].i
       /\ node'[w].first = node[w].first /\ node'[w].left = node[w].left
       /\ node'[w].fresh = node[w].fresh /\ node'[w].initialized = node[w].initialized
       /\ node'[w].terminate = node[w].terminate
  BY <1>9, <1>10 DEF NodeFields
<1>12. \A v \in Nodes : /\ node'[v].pc = node[v].pc /\ node'[v].no = node[v].no
                        /\ node'[v].size = node[v].size /\ node'[v].parent = node[v].parent
                        /\ node'[v].list = node[v].list /\ node'[v].i = node[v].i
                        /\ node'[v].fresh = node[v].fresh
                        /\ node'[v].initialized = node[v].initialized
                        /\ node'[v].terminate = node[v].terminate
  BY <1>9, <1>11
<1>13. \A v : v \in Dying' <=> v \in Dying \/ \E j \in 1 .. K : v = KidAt(w, j)
  <2>1. ASSUME NEW v, v \in Dying' PROVE v \in Dying \/ \E j \in 1 .. K : v = KidAt(w, j)
    <3>1. PICK x \in 1 .. K + D : v = dying'[x]
      BY <1>8, <2>1 DEF Dying, ToSet
    <3>2. CASE x <= K
      BY <1>2, <1>8, <3>1, <3>2
    <3>3. CASE x > K
      <4>1. x - K \in 1 .. D /\ v = dying[x - K]
        BY <1>1, <1>2, <1>8, <3>1, <3>3
      <4> QED
        BY <4>1, DyingFacts DEF D
    <3> QED
      BY <1>2, <3>2, <3>3
  <2>2. ASSUME NEW j \in 1 .. K PROVE KidAt(w, j) \in Dying'
    <3>1. j \in 1 .. K + D /\ j <= K
      BY <1>1, <1>2
    <3> HIDE DEF KidAt
    <3>2. dying'[j] = KidAt(w, j)
      BY <1>8, <3>1
    <3> QED
      BY <1>8, <3>1, <3>2 DEF Dying, ToSet
  <2>3. ASSUME NEW v, v \in Dying PROVE v \in Dying'
    <3>1. PICK m \in 1 .. D : dying[m] = v
      BY <2>3, DyingFacts DEF D
    <3>a. PICK z : z = K + m
      OBVIOUS
    <3>2. z \in 1 .. K + D /\ ~(z <= K) /\ z - K = m
      BY <1>1, <1>2, <3>1, <3>a
    <3>3. dying'[z] = v
      BY <1>8, <3>1, <3>2
    <3> QED
      BY <1>8, <3>2, <3>3 DEF Dying, ToSet
  <2> QED
    BY <2>1, <2>2, <2>3
<1>14. Types'
  <2>1. IsNode(node'[w])
    BY <1>2, <1>11, NodeFacts DEF IsNode
  <2> QED
    BY <1>7, <1>8, <1>9, <2>1 DEF Types
<1>15. Kinds'
  <2>1. ASSUME NEW v \in Ids, v # w PROVE node'[v] = node[v] /\ (v \in Dying => v \in Dying')
    BY <1>9, <1>13, <2>1, NodeSets
  <2>2. w \in Dying'
    BY <1>1, <1>13
  <2>3. Root # w /\ node'[Root] = node[Root]
    BY <1>2, <1>9, NodeSets
  <2> QED
    BY <1>1, <1>2, <1>7, <1>11, <2>1, <2>2, <2>3 DEF Kinds
<1>16. \A v \in Nodes : (IsLive(v)' <=> IsLive(v)) /\ (Building(v)' <=> Building(v))
  BY <1>7, <1>12 DEF IsLive, Building
<1>17. ASSUME NEW v \in Ids, IsLive(v)' PROVE Owned(v)' /\ Awaited(v)'
  <2>1. IsLive(v) /\ node[v].parent \in Nodes /\ v \in Nodes
    BY <1>16, <1>17, NodeFacts, NodeSets
  <2>2. Owned(v) /\ Awaited(v)
    BY <2>1 DEF Kinship
  <2>3. node'[v].parent = node[v].parent /\ node'[v].pc = node[v].pc
        /\ node'[node[v].parent].fresh = node[node[v].parent].fresh
        /\ (Building(node[v].parent)' <=> Building(node[v].parent))
    BY <1>7, <1>12, <2>1 DEF Building
  <2>4. Awaited(v)'
    BY <1>7, <2>2, <2>3 DEF Awaited, Building
  <2>5. CASE v \in Dying'
    BY <2>4, <2>5 DEF Owned
  <2>6. CASE v \notin Dying'
    <3>1. PICK j \in Places(node[v].parent) : KidAt(node[v].parent, j) = v
      BY <1>13, <2>2, <2>6 DEF Owned
    <3>2. node[v].parent # w
      BY <1>13, <2>6, <3>1 DEF Places, K
    <3>3. node'[node[v].parent] = node[node[v].parent]
      BY <1>9, <2>1, <3>2
    <3> QED
      BY <2>3, <2>4, <3>1, <3>3 DEF Owned, Places, KidAt
  <2> QED
    BY <2>5, <2>6
<1>18. ASSUME NEW q \in Nodes
       PROVE  Children(q)' /\ Complete(q)' /\ FirstTime(q)' /\ Listed(q)' /\ Fresh(q)'
  <2>1. Children(q) /\ Complete(q) /\ FirstTime(q) /\ Listed(q) /\ Fresh(q)
    BY DEF Kinship
  <2>2. Listed(q)'
    BY <1>12, <1>16, <2>1, NodeSets DEF Listed
  <2>3. CASE q = w
    <3>1. Places(q)' = {}
      BY <1>11, <2>3 DEF Places
    <3>2. node'[q].fresh = {}
      BY <1>2, <1>11, <2>1, <2>3 DEF Complete
    <3> QED
      BY <2>2, <3>1, <3>2 DEF Children, Complete, FirstTime, Fresh
  <2>4. CASE q # w
    <3>1. node'[q] = node[q] /\ (Building(q)' <=> Building(q))
      BY <1>9, <1>16, <2>4
    <3>2. Complete(q)' /\ FirstTime(q)' /\ Fresh(q)'
      BY <2>1, <3>1 DEF Complete, FirstTime, Fresh, Places, KidAt
    <3>3. \A j \in Places(q) : KidAt(q, j) # NoWorker => KidAt(q, j) \in Ids
      BY NodeFacts, NodeSets DEF NoWorker, Root
    <3>4. \A v \in Dying' : v \in Dying \/ node[v].parent = w
      BY <1>3, <1>13 DEF K
    <3>5. Children(q)'
      BY <1>12, <1>16, <2>1, <2>4, <3>1, <3>3, <3>4, NodeSets DEF Children, Places, KidAt, IsLive
    <3> QED
      BY <2>2, <3>2, <3>5
  <2> QED
    BY <2>3, <2>4
<1>19. Destruction'
  <2>1. ASSUME NEW x \in 1 .. Len(dying')
        PROVE  /\ node'[dying'[x]].initialized
               /\ \/ node'[dying'[x]].parent = Root
                  \/ \E y \in 1 .. Len(dying') : y > x /\ dying'[y] = node'[dying'[x]].parent
               /\ \A y \in 1 .. Len(dying') : y # x => dying'[y] # dying'[x]
    <3>1. \A y \in 1 .. Len(dying') : /\ y \in 1 .. K + D
                                      /\ y <= K => y \in 1 .. K /\ dying'[y] = KidAt(w, y)
                                      /\ y > K => y - K \in 1 .. D /\ dying'[y] = dying[y - K]
      BY <1>1, <1>2, <1>8
    <3>2. \A y \in 1 .. Len(dying') : dying'[y] \in Nodes /\ (y <= K <=> dying'[y] \notin Dying)
      <4>1. SUFFICES ASSUME NEW y \in 1 .. Len(dying')
                     PROVE  dying'[y] \in Nodes /\ (y <= K <=> dying'[y] \notin Dying)
        OBVIOUS
      <4>2. CASE y <= K
        BY <1>3, <3>1, <4>2, NodeSets
      <4>3. CASE ~(y <= K)
        <5>1. y - K \in 1 .. D /\ dying'[y] = dying[y - K]
          <6>1. y \in Int /\ K \in Int
            BY <1>2, <1>8
          <6> QED
            BY <3>1, <4>3, <6>1
        <5>2. dying[y - K] \in Dying /\ dying[y - K] \in Nodes
          BY <5>1, DyingFacts, NodeSets DEF D
        <5> QED
          BY <4>3, <5>1, <5>2
      <4> QED
        BY <4>2, <4>3
    <3>3. CASE x <= K
      <4>1. dying'[x] = KidAt(w, x) /\ x \in 1 .. K /\ KidAt(w, x) \in Nodes
        BY <3>1, <3>2, <3>3
      <4>2. node'[dying'[x]].initialized /\ node'[dying'[x]].parent = w
        BY <1>3, <1>12, <4>1 DEF K
      <4>3. K + 1 \in 1 .. Len(dying') /\ K + 1 > x /\ dying'[K + 1] = w
        <5>1. PICK z : z = K + 1
          OBVIOUS
        <5>2. z \in 1 .. Len(dying') /\ z > x /\ z > K /\ z - K = 1
          BY <1>1, <1>2, <1>8, <3>3, <5>1
        <5>3. dying'[z] = dying[1]
          BY <3>1, <5>2
        <5> QED
          BY <5>1, <5>2, <5>3 DEF w
      <4>4. \A y \in 1 .. Len(dying') : y # x => dying'[y] # dying'[x]
        BY <1>2, <1>4, <3>1, <3>2, <3>3, <4>1 DEF K
      <4> QED
        BY <4>2, <4>3, <4>4
    <3>4. CASE x > K
      <4>1. x - K \in 1 .. D /\ dying'[x] = dying[x - K] /\ dying[x - K] \in Nodes
        BY <3>1, <3>2, <3>4
      <4>2. /\ node[dying[x - K]].initialized
            /\ \/ node[dying[x - K]].parent = Root
               \/ \E m \in 1 .. D : m > x - K /\ dying[m] = node[dying[x - K]].parent
            /\ \A m \in 1 .. D : m # x - K => dying[m] # dying[x - K]
        BY <4>1 DEF Destruction, D
      <4>3. ASSUME NEW m \in 1 .. D, m > x - K
            PROVE  K + m \in 1 .. Len(dying') /\ K + m > x /\ dying'[K + m] = dying[m]
        <5>1. PICK z : z = K + m
          OBVIOUS
        <5>2. z \in 1 .. Len(dying') /\ z > x /\ z > K /\ z - K = m
          BY <1>1, <1>2, <1>8, <4>3, <5>1
        <5>3. dying'[z] = dying[m]
          BY <3>1, <5>2
        <5> QED
          BY <5>1, <5>2, <5>3
      <4>4. ASSUME NEW y \in 1 .. Len(dying'), y # x PROVE dying'[y] # dying'[x]
        <5>1. CASE y <= K
          BY <1>2, <3>1, <3>2, <3>4, <5>1
        <5>2. CASE y > K
          <6>1. y - K \in 1 .. D /\ y - K # x - K /\ dying'[y] = dying[y - K]
            BY <1>2, <3>1, <4>4, <5>2
          <6> QED
            BY <4>1, <4>2, <6>1
        <5> QED
          BY <1>2, <5>1, <5>2
      <4>5. node'[dying'[x]].initialized /\ node'[dying'[x]].parent = node[dying[x - K]].parent
        BY <1>12, <4>1, <4>2
      <4> QED
        BY <4>2, <4>3, <4>4, <4>5
    <3> QED
      BY <1>2, <3>3, <3>4
  <2> QED
    BY <1>1, <1>7, <2>1 DEF Destruction
<1>20. ASSUME NEW q \in Nodes, InTree(q)' PROVE Numbered(q)'
  <2>1. q # w /\ InTree(q)
    BY <1>1, <1>2, <1>7, <1>12, <1>13, <1>20 DEF InTree
  <2>2. Numbered(q)
    BY <2>1 DEF Numbers
  <2>3. \A j \in Placed(q) : KidAt(q, j) \in Nodes
    BY <2>2, NodeFacts DEF Numbered, Placed, Places
  <2>4. node'[q] = node[q] /\ (Building(q)' <=> Building(q))
    BY <1>9, <1>16, <2>1
  <2> QED
    BY <1>7, <1>12, <2>2, <2>3, <2>4, SameNumbers
<1>21. Undisturbed
  BY <1>12 DEF Undisturbed
<1> QED
  BY <1>14, <1>15, <1>17, <1>18, <1>19, <1>20, <1>21 DEF Kinship, Numbers

LEMMA JoinStep == ASSUME IInv, Join PROVE IInv' /\ Undisturbed
<1> DEFINE w == dying[1]
           p == node[w].parent
           D == Len(dying)
<1> USE DEF IInv
<1>1. /\ dying # <<>> /\ Head(dying) = w /\ D \in Nat \ {0}
      /\ w \in Ids /\ w \in Dying /\ phase = "build" /\ p # w
      /\ node[w].pc = "exited" /\ node[w].kids = <<>>
  BY DyingNode DEF Join, Kinds
<1>2. w \in Nodes /\ w # Root /\ p \in Nodes /\ ~Building(w)
  BY <1>1, NodeSets, NodeFacts DEF Building
<1>3. \A v \in Ids : IsLive(v) => node[v].parent # w
  <2>1. SUFFICES ASSUME NEW v \in Ids, IsLive(v), node[v].parent = w PROVE FALSE
    OBVIOUS
  <2>2. v \in Dying
    BY <1>1, <2>1 DEF Kinship, Owned, Places
  <2>3. PICK m \in 1 .. D : dying[m] = v
    BY <2>2, DyingFacts DEF D
  <2>4. PICK n \in 1 .. D : n > m /\ dying[n] = w
    BY <1>2, <2>1, <2>3 DEF Destruction, D
  <2> QED
    BY <1>1, <2>4 DEF Destruction, D
<1>4. dying \in Seq(Ids) /\ DOMAIN node = Nodes /\ \A v \in Nodes : DOMAIN node[v] = NodeFields
  BY DEF Types, IsNode
<1>5. /\ node' = [node EXCEPT ![p].list = @ \ {w}, ![w] = Free]
      /\ dying' = Tail(dying) /\ UNCHANGED <<phase, threads>>
  BY <1>1 DEF Join
<1>6. /\ dying' \in Seq(Ids) /\ Len(dying') = D - 1
      /\ \A x \in 1 .. D - 1 : dying'[x] = dying[x + 1]
  BY <1>1, <1>4, <1>5, HeadTailProperties
<1> HIDE DEF w, p, D
<1>7. /\ DOMAIN node' = Nodes /\ node'[w] = Free
      /\ \A v \in Nodes : v # w /\ v # p => node'[v] = node[v]
      /\ node'[p] = [node[p] EXCEPT !.list = @ \ {w}]
  BY <1>1, <1>2, <1>4, <1>5
<1>8. /\ DOMAIN Free = NodeFields /\ Free.pc = "free" /\ Free.no = 0 /\ Free.size = 0
      /\ Free.parent = Root /\ Free.kids = <<>> /\ Free.list = {} /\ Free.i = 1
      /\ Free.first = 0 /\ Free.left = 0 /\ Free.fresh = {} /\ ~Free.initialized /\ ~Free.terminate
  BY DEF Free, NodeFields
<1>9. \A v \in Nodes : v # w =>
        /\ DOMAIN node'[v] = NodeFields /\ node'[v].pc = node[v].pc
        /\ node'[v].no = node[v].no /\ node'[v].size = node[v].size
        /\ node'[v].parent = node[v].parent /\ node'[v].kids = node[v].kids
        /\ node'[v].i = node[v].i /\ node'[v].first = node[v].first
        /\ node'[v].left = node[v].left /\ node'[v].fresh = node[v].fresh
        /\ node'[v].initialized = node[v].initialized /\ node'[v].terminate = node[v].terminate
        /\ node'[v].list = IF v = p THEN node[v].list \ {w} ELSE node[v].list
  <2>1. DOMAIN node[p] = NodeFields
    BY <1>2, <1>4
  <2>2. ASSUME NEW v \in Nodes, v # w, v # p PROVE node'[v] = node[v] /\ DOMAIN node[v] = NodeFields
    BY <1>4, <1>7, <2>2
  <2>3. /\ DOMAIN node'[p] = NodeFields /\ node'[p].list = node[p].list \ {w}
        /\ \A x \in NodeFields : x # "list" => node'[p][x] = node[p][x]
    BY <1>7, <2>1 DEF NodeFields
  <2> QED
    BY <2>2, <2>3 DEF NodeFields
<1>10. \A v : v \in Dying' <=> v \in Dying /\ v # w
  <2>1. ASSUME NEW v, v \in Dying' PROVE v \in Dying /\ v # w
    <3>1. PICK x \in 1 .. D - 1 : v = dying'[x]
      BY <1>6, <2>1 DEF Dying, ToSet
    <3>2. PICK y \in 1 .. D : y # 1 /\ y = x + 1
      BY <1>1, <3>1
    <3>3. v = dying[y]
      BY <1>6, <3>1, <3>2
    <3> QED
      BY <1>1, <3>2, <3>3, DyingFacts DEF Destruction, D, w
  <2>2. ASSUME NEW v, v \in Dying, v # w PROVE v \in Dying'
    <3>1. PICK y \in 1 .. D : v = dying[y]
      BY <2>2, DyingFacts DEF D
    <3>2. PICK x \in 1 .. D - 1 : y = x + 1
      <4>1. y # 1
        BY <2>2, <3>1 DEF w
      <4>2. y - 1 \in 1 .. D - 1 /\ y = (y - 1) + 1
        BY <1>1, <4>1
      <4> QED
        BY <4>2
    <3>3. dying'[x] = v
      BY <1>6, <3>1, <3>2
    <3> QED
      BY <1>6, <3>3 DEF Dying, ToSet
  <2> QED
    BY <2>1, <2>2
<1>11. Types'
  <2>1. IsNode(node'[w])
    <3>1. <<>> \in Seq(Nodes)
      OBVIOUS
    <3>2. 0 \in Nat /\ 1 \in Nat /\ FALSE \in BOOLEAN /\ Root \in Nodes
      BY NodeSets
    <3>3. IsNode(Free)
      BY <3>1, <3>2 DEF IsNode, Free, NodeFields
    <3> QED
      BY <1>7, <3>3
  <2>2. ASSUME NEW v \in Nodes, v # w PROVE IsNode(node'[v])
    <3>1. IsNode(node[v])
      BY DEF Types
    <3>2. node'[v].list \subseteq node[v].list
      BY <1>9, <2>2
    <3>3. node'[v].list \subseteq Ids
      BY <3>1, <3>2 DEF IsNode
    <3> QED
      BY <1>9, <2>2, <3>1, <3>3 DEF IsNode
  <2> QED
    BY <1>5, <1>6, <1>7, <2>1, <2>2 DEF Types
<1>12. Kinds'
  <2>1. ASSUME NEW v \in Ids
        PROVE  /\ node'[v].pc # "idle"
               /\ node'[v].initialized <=> node'[v].pc \in Running \cup {"exited"}
               /\ node'[v].pc = "exited" => node'[v].terminate
               /\ node'[v].terminate => v \in Dying' /\ node'[v].kids = <<>>
               /\ node'[v].pc = "free" => node'[v] = Free
               /\ node'[v].pc # "free" => node'[v].size > 0
               /\ node'[v].pc = "start" => node'[v].kids = <<>>
    <3>1. CASE v = w
      BY <1>7, <1>8, <3>1 DEF Running
    <3>2. CASE v # w
      <4>1. node[v].pc = "free" => node'[v] = node[v]
        BY <1>1, <1>2, <1>7, <3>2, Parents, NodeSets DEF p, IsLive
      <4>2. /\ node[v].pc # "idle"
            /\ node[v].initialized <=> node[v].pc \in Running \cup {"exited"}
            /\ node[v].pc = "exited" => node[v].terminate
            /\ node[v].terminate => v \in Dying /\ node[v].kids = <<>>
            /\ node[v].pc = "free" => node[v] = Free
            /\ node[v].pc # "free" => node[v].size > 0
            /\ node[v].pc = "start" => node[v].kids = <<>>
        BY DEF Kinds
      <4>3. /\ node'[v].pc = node[v].pc /\ node'[v].initialized = node[v].initialized
            /\ node'[v].terminate = node[v].terminate /\ node'[v].size = node[v].size
            /\ node'[v].kids = node[v].kids
        BY <1>9, <3>2, NodeSets
      <4> QED
        BY <1>10, <3>2, <4>1, <4>2, <4>3
    <3> QED
      BY <3>1, <3>2
  <2>2. node'[Root].pc = node[Root].pc /\ node'[Root].no = node[Root].no
        /\ node'[Root].terminate = node[Root].terminate
    BY <1>2, <1>9, NodeSets
  <2> QED
    BY <1>5, <2>1, <2>2 DEF Kinds
<1>13. \A v \in Nodes : Building(v)' <=> Building(v)
  <2>1. ASSUME NEW v \in Nodes, v = w PROVE ~Building(v)' /\ ~Building(v)
    BY <1>2, <1>7, <1>8, <2>1 DEF Building
  <2>2. ASSUME NEW v \in Nodes, v # w PROVE Building(v)' <=> Building(v)
    BY <1>5, <1>9, <2>2 DEF Building
  <2> QED
    BY <2>1, <2>2
<1>14. \A v \in Nodes : IsLive(v)' <=> IsLive(v) /\ v # w
  <2>1. ASSUME NEW v \in Nodes, v = w PROVE ~IsLive(v)'
    BY <1>7, <1>8, <2>1 DEF IsLive
  <2>2. ASSUME NEW v \in Nodes, v # w PROVE IsLive(v)' <=> IsLive(v)
    BY <1>9, <2>2 DEF IsLive
  <2> QED
    BY <2>1, <2>2
<1>15. ASSUME NEW v \in Ids, IsLive(v)' PROVE Owned(v)' /\ Awaited(v)'
  <2>1. v # w /\ IsLive(v) /\ node[v].parent \in Nodes /\ v \in Nodes /\ node[v].parent # w
    BY <1>3, <1>14, <1>15, NodeFacts, NodeSets
  <2>2. Owned(v) /\ Awaited(v)
    BY <2>1 DEF Kinship
  <2>3. node'[v].parent = node[v].parent /\ node'[v].pc = node[v].pc
        /\ node'[node[v].parent].fresh = node[node[v].parent].fresh
        /\ node'[node[v].parent].kids = node[node[v].parent].kids
    BY <1>9, <2>1
  <2>4. Awaited(v)'
    BY <1>5, <1>13, <2>1, <2>2, <2>3 DEF Awaited
  <2>5. Owned(v)'
    BY <1>10, <2>1, <2>2, <2>3 DEF Owned, Places, KidAt
  <2> QED
    BY <2>4, <2>5
<1>16. ASSUME NEW q \in Nodes
       PROVE  Children(q)' /\ Complete(q)' /\ FirstTime(q)' /\ Listed(q)' /\ Fresh(q)'
  <2>1. Children(q) /\ Complete(q) /\ FirstTime(q) /\ Listed(q) /\ Fresh(q)
    BY DEF Kinship
  <2>2. node[q].list = {v \in Ids : IsLive(v) /\ node[v].pc # "start" /\ node[v].parent = q}
    BY <2>1 DEF Listed
  <2>3. CASE q = w
    <3>1. ASSUME NEW v \in Ids, IsLive(v)' PROVE node'[v].parent # w
      <4>1. v \in Nodes /\ v # w /\ IsLive(v)
        BY <1>14, <3>1, NodeSets
      <4> QED
        BY <1>3, <1>9, <4>1
    <3>2. Listed(q)'
      BY <1>7, <1>8, <2>3, <3>1 DEF Listed
    <3>3. Places(q)' = {} /\ node'[q].fresh = {}
      BY <1>7, <1>8, <2>3 DEF Places
    <3> QED
      BY <3>2, <3>3 DEF Children, Complete, FirstTime, Fresh
  <2>4. CASE q # w
    <3>1. /\ node'[q].kids = node[q].kids /\ node'[q].i = node[q].i
          /\ node'[q].fresh = node[q].fresh /\ (Building(q)' <=> Building(q))
      BY <1>9, <1>13, <2>4
    <3>2. Complete(q)' /\ FirstTime(q)' /\ Fresh(q)'
      BY <2>1, <3>1 DEF Complete, FirstTime, Fresh, Places, KidAt
    <3>3. \A j \in Places(q) : KidAt(q, j) # NoWorker =>
                KidAt(q, j) \in Nodes /\ KidAt(q, j) # w
      BY <1>1, <2>1, NodeFacts DEF Children
    <3>4. \A v \in Nodes : v # w => node'[v].parent = node[v].parent /\ node'[v].pc = node[v].pc
      BY <1>9
    <3>5. Children(q)'
      BY <1>10, <1>14, <2>1, <3>1, <3>3, <3>4 DEF Children, Places, KidAt
    <3>6. Listed(q)'
      <4>1. node'[q].list = IF q = p THEN node[q].list \ {w} ELSE node[q].list
        BY <1>9, <2>4
      <4>2. w \in Ids /\ node[w].parent = p
        BY <1>1 DEF p
      <4> QED
        BY <1>14, <2>2, <3>4, <4>1, <4>2, NodeSets DEF Listed
    <3> QED
      BY <3>2, <3>5, <3>6
  <2> QED
    BY <2>3, <2>4
<1>17. Destruction'
  <2>1. ASSUME NEW x \in 1 .. Len(dying')
        PROVE  /\ node'[dying'[x]].initialized
               /\ \/ node'[dying'[x]].parent = Root
                  \/ \E y \in 1 .. Len(dying') : y > x /\ dying'[y] = node'[dying'[x]].parent
               /\ \A y \in 1 .. Len(dying') : y # x => dying'[y] # dying'[x]
    <3>1. PICK m \in 1 .. D : m = x + 1 /\ dying'[x] = dying[m]
      <4>1. x + 1 \in 1 .. D /\ dying'[x] = dying[x + 1]
        BY <1>1, <1>6
      <4> QED
        BY <4>1
    <3>2. /\ node[dying[m]].initialized
          /\ \/ node[dying[m]].parent = Root
             \/ \E n \in 1 .. D : n > m /\ dying[n] = node[dying[m]].parent
          /\ \A n \in 1 .. D : n # m => dying[n] # dying[m]
      BY <3>1 DEF Destruction, D
    <3>3. dying[m] \in Nodes /\ dying[m] # w
      BY <1>1, <1>6, <3>1, <3>2, DyingFacts, NodeSets DEF w, D
    <3>4. node'[dying[m]].initialized /\ node'[dying[m]].parent = node[dying[m]].parent
      BY <1>9, <3>2, <3>3
    <3>5. ASSUME NEW n \in 1 .. D, n > m
          PROVE  \E y \in 1 .. Len(dying') : y > x /\ dying'[y] = dying[n]
      <4>1. PICK y \in 1 .. D - 1 : n = y + 1 /\ y > x
        <5>1. n - 1 \in 1 .. D - 1 /\ n = (n - 1) + 1 /\ n - 1 > x
          BY <1>1, <1>6, <3>1, <3>5
        <5> QED
          BY <5>1
      <4>2. dying'[y] = dying[n]
        BY <1>6, <4>1
      <4> QED
        BY <1>6, <4>1, <4>2
    <3>6. ASSUME NEW y \in 1 .. Len(dying'), y # x PROVE dying'[y] # dying'[x]
      <4>1. PICK n \in 1 .. D : n = y + 1 /\ dying'[y] = dying[n]
        <5>1. y + 1 \in 1 .. D /\ dying'[y] = dying[y + 1]
          BY <1>1, <1>6
        <5> QED
          BY <5>1
      <4>2. n # m
        BY <1>1, <1>6, <3>1, <3>6, <4>1
      <4> QED
        BY <3>1, <3>2, <4>1, <4>2
    <3> QED
      BY <3>1, <3>2, <3>4, <3>5, <3>6
  <2> QED
    BY <1>1, <1>5, <2>1 DEF Destruction
<1>18. ASSUME NEW q \in Nodes, InTree(q)' PROVE Numbered(q)'
  <2>1. q # w /\ InTree(q)
    BY <1>2, <1>5, <1>7, <1>8, <1>9, <1>10, <1>18 DEF InTree
  <2>2. Numbered(q)
    BY <2>1 DEF Numbers
  <2>3. \A j \in Placed(q) : KidAt(q, j) \in Nodes /\ KidAt(q, j) # w
    BY <1>1, <2>2, NodeFacts DEF Numbered, Placed, Places, Kinship, Children
  <2> QED
    BY <1>5, <1>9, <1>13, <2>1, <2>2, <2>3, SameNumbers
<1>19. Undisturbed
  <2>1. ASSUME NEW v \in Nodes, node[v].pc \in {"walk", "poll"}, node'[v].list # node[v].list
        PROVE  v \in Dying
    <3>1. v = p
      BY <1>1, <1>9, <2>1
    <3>2. p # Root
      BY <1>1, <2>1, <3>1 DEF Kinds
    <3>3. PICK m \in 1 .. D : dying[m] = p
      BY <1>1, <3>2 DEF Destruction, D, w, p
    <3> QED
      BY <3>1, <3>3, DyingFacts DEF D
  <2> QED
    BY <2>1 DEF Undisturbed
<1> QED
  BY <1>11, <1>12, <1>15, <1>16, <1>17, <1>18, <1>19 DEF Kinship, Numbers

(* The destructor may be at work under the root only while it is building.  *)
LEMMA BuilderFacts ==
    ASSUME IInv, NEW p \in Nodes, Builds(p)
    PROVE  /\ Building(p) /\ p \notin Dying /\ InTree(p) /\ Numbered(p)
           /\ node[p].pc \in {"idle", "build"} /\ ~node[p].terminate
           /\ p = Root => phase = "build" /\ dying = <<>> /\ node[p].pc = "idle"
           /\ p # Root => p \in Ids /\ node[p].pc = "build"
<1> USE DEF IInv
<1>1. CASE p = Root
  <2>1. phase = "build" /\ dying = <<>>
    BY <1>1 DEF Builds
  <2>2. node[p].pc = "idle" /\ ~node[p].terminate
    BY <1>1, <2>1 DEF Kinds
  <2>3. p \notin Dying
    BY <1>1, DyingFacts, NodeSets
  <2> QED
    BY <1>1, <2>1, <2>2, <2>3 DEF Building, InTree, Numbers
<1>2. CASE p # Root
  <2>1. p \in Ids /\ node[p].pc = "build"
    BY <1>2, NodeSets DEF Builds
  <2>2. ~node[p].initialized
    BY <2>1 DEF Kinds, Running
  <2>3. p \notin Dying
    BY <2>2, DyingFacts DEF Destruction
  <2>4. ~node[p].terminate
    BY <2>1, <2>3 DEF Kinds
  <2> QED
    BY <1>2, <2>1, <2>3, <2>4 DEF Building, InTree, Numbers
<1> QED
  BY <1>1, <1>2

LEMMA EndCreateStep == ASSUME IInv, NEW p \in Nodes, EndCreate(p) PROVE IInv' /\ Undisturbed
<1> USE DEF IInv
<1>1. /\ Building(p) /\ p \notin Dying /\ InTree(p) /\ Numbered(p)
      /\ node[p].pc \in {"idle", "build"} /\ ~node[p].terminate
      /\ p = Root => phase = "build" /\ dying = <<>> /\ node[p].pc = "idle"
      /\ p # Root => p \in Ids /\ node[p].pc = "build"
  BY BuilderFacts DEF EndCreate
<1>2. /\ node[p].i \in Nat /\ Len(node[p].kids) \in Nat
      /\ node[p].i > Len(node[p].kids) /\ \A v \in node[p].fresh : node[v].initialized
  BY NodeFacts DEF EndCreate, WaitInitialized
<1>3. Placed(p) = Places(p) /\ \A j \in Places(p) : KidAt(p, j) # NoWorker
  <2>1. node[p].i = Len(node[p].kids) + 1
    BY <1>1, <1>2 DEF Numbered
  <2>2. Placed(p) = Places(p)
    BY <1>2, <2>1 DEF Placed, Places
  <2> QED
    BY <1>1, <2>2 DEF Numbered
<1>4. \A v \in Ids : node[v].pc \in Starts => node[v].parent # p
  <2>1. SUFFICES ASSUME NEW v \in Ids, node[v].pc \in Starts, node[v].parent = p PROVE FALSE
    OBVIOUS
  <2>2. v \in node[p].fresh
    BY <2>1 DEF Kinship, Awaited, IsLive, Starts
  <2> QED
    BY <1>2, <2>1, <2>2 DEF Kinds, Starts, Running
<1>5. DOMAIN node = Nodes /\ \A v \in Nodes : DOMAIN node[v] = NodeFields
  BY DEF Types, IsNode
<1>6. UNCHANGED <<dying, threads>> /\ Dying' = Dying
  BY DEF EndCreate, Dying
<1>7. DOMAIN node' = Nodes /\ \A v \in Nodes : v # p => node'[v] = node[v]
  <2>1. CASE p = Root
    BY <1>5, <2>1 DEF EndCreate
  <2>2. CASE p # Root
    BY <1>5, <2>2 DEF EndCreate
  <2> QED
    BY <2>1, <2>2
<1>8. /\ DOMAIN node'[p] = NodeFields
      /\ node'[p].no = node[p].no /\ node'[p].size = node[p].size
      /\ node'[p].parent = node[p].parent /\ node'[p].kids = node[p].kids
      /\ node'[p].list = node[p].list /\ node'[p].i = node[p].i
      /\ node'[p].first = node[p].first /\ node'[p].left = node[p].left
      /\ node'[p].fresh = {} /\ node'[p].terminate = node[p].terminate
      /\ p = Root => /\ phase' = "search" /\ node'[p].pc = "idle"
                     /\ node'[p].initialized = node[p].initialized
      /\ p # Root => /\ phase' = phase /\ node'[p].pc = "wait" /\ node'[p].initialized
  <2>1. CASE p = Root
    <3>1. node'[p] = [node[p] EXCEPT !.fresh = {}] /\ phase' = "search"
      BY <1>5, <2>1 DEF EndCreate
    <3> QED
      BY <1>1, <1>5, <2>1, <3>1 DEF NodeFields
  <2>2. CASE p # Root
    <3>1. node'[p] = [node[p] EXCEPT !.pc = "wait", !.fresh = {}, !.initialized = TRUE] /\ phase' = phase
      BY <1>5, <2>2 DEF EndCreate
    <3> QED
      BY <1>1, <1>5, <2>2, <3>1 DEF NodeFields
  <2> QED
    BY <2>1, <2>2
<1>9. \A v \in Nodes : /\ node'[v].no = node[v].no /\ node'[v].size = node[v].size
                       /\ node'[v].parent = node[v].parent /\ node'[v].kids = node[v].kids
                       /\ node'[v].list = node[v].list /\ node'[v].i = node[v].i
                       /\ node'[v].terminate = node[v].terminate
                       /\ node[v].initialized => node'[v].initialized
                       /\ IsLive(v)' <=> IsLive(v)
                       /\ node'[v].pc = "start" <=> node[v].pc = "start"
  BY <1>1, <1>7, <1>8 DEF IsLive
<1>10. ~Building(p)' /\ \A v \in Nodes : v # p => (Building(v)' <=> Building(v))
  <2>1. ~Building(p)'
    BY <1>8 DEF Building
  <2>2. \A v \in Nodes : v # p => (Building(v)' <=> Building(v))
    BY <1>1, <1>7, <1>8 DEF Building
  <2> QED
    BY <2>1, <2>2
<1>11. Types'
  <2>1. IsNode(node'[p])
    <3>1. IsNode(node[p])
      BY DEF Types
    <3> QED
      BY <1>8, <3>1 DEF IsNode, Running
  <2> QED
    BY <1>6, <1>7, <1>8, <2>1 DEF Types
<1>12. Kinds'
  <2>1. ASSUME NEW v \in Ids
        PROVE  /\ node'[v].pc # "idle"
               /\ node'[v].initialized <=> node'[v].pc \in Running \cup {"exited"}
               /\ node'[v].pc = "exited" => node'[v].terminate
               /\ node'[v].terminate => v \in Dying' /\ node'[v].kids = <<>>
               /\ node'[v].pc = "free" => node'[v] = Free
               /\ node'[v].pc # "free" => node'[v].size > 0
               /\ node'[v].pc = "start" => node'[v].kids = <<>>
    <3>1. CASE v = p
      <4>1. v # Root /\ node[v].pc # "free" /\ node[v].size > 0
        BY <1>1, <3>1, NodeSets DEF Kinds
      <4> QED
        BY <1>1, <1>8, <3>1, <4>1 DEF Running
    <3>2. CASE v # p
      BY <1>6, <1>7, <3>2, NodeSets DEF Kinds
    <3> QED
      BY <3>1, <3>2
  <2>2. /\ node'[Root].pc \in Running \cup {"idle"} /\ node'[Root].no = 0 /\ ~node'[Root].terminate
        /\ node'[Root].pc = "idle" <=> phase' # "stop"
    BY <1>1, <1>7, <1>8, NodeSets DEF Kinds
  <2> QED
    BY <2>1, <2>2 DEF Kinds
<1>13. ASSUME NEW v \in Ids, IsLive(v)' PROVE Owned(v)' /\ Awaited(v)'
  <2>1. v \in Nodes /\ IsLive(v) /\ node[v].parent \in Nodes
    BY <1>9, <1>13, NodeFacts, NodeSets
  <2>2. Owned(v) /\ Awaited(v)
    BY <2>1 DEF Kinship
  <2>3. Owned(v)'
    BY <1>6, <1>9, <2>1, <2>2 DEF Owned, Places, KidAt
  <2>4. ASSUME node'[v].pc \in Starts
        PROVE  v \in node'[node'[v].parent].fresh /\ Building(node[v].parent)'
    <3>1. node[v].pc \in Starts
      BY <1>7, <1>8, <2>1, <2>4 DEF Starts, Root
    <3>2. node[v].parent # p
      BY <1>4, <3>1
    <3> QED
      BY <1>7, <1>9, <1>10, <2>1, <2>2, <3>1, <3>2 DEF Awaited
  <2>5. Awaited(v)'
    BY <1>9, <2>1, <2>4 DEF Awaited, Building
  <2> QED
    BY <2>3, <2>5
<1>14. ASSUME NEW q \in Nodes
       PROVE  Children(q)' /\ Complete(q)' /\ FirstTime(q)' /\ Listed(q)' /\ Fresh(q)'
  <2>1. Children(q) /\ Complete(q) /\ FirstTime(q) /\ Listed(q) /\ Fresh(q)
    BY DEF Kinship
  <2>2. Listed(q)'
    BY <1>9, <2>1, NodeSets DEF Listed
  <2>3. \A j \in Places(q) : KidAt(q, j) \in Nodes
    BY NodeFacts
  <2>4. Children(q)'
    BY <1>6, <1>9, <2>1, <2>3 DEF Children, Places, KidAt
  <2>5. CASE q = p
    BY <1>3, <1>8, <1>10, <2>2, <2>4, <2>5 DEF Complete, FirstTime, Fresh, Places, KidAt
  <2>6. CASE q # p
    BY <1>7, <1>10, <2>1, <2>2, <2>4, <2>6 DEF Complete, FirstTime, Fresh, Places, KidAt
  <2> QED
    BY <2>5, <2>6
<1>15. Destruction'
  <2>1. dying # <<>> => phase' = phase
    BY <1>1, <1>8
  <2> QED
    BY <1>6, <1>9, <2>1, DyingFacts, NodeSets DEF Destruction
<1>16. ASSUME NEW q \in Nodes, InTree(q)' PROVE Numbered(q)'
  <2>1. InTree(q)
    <3>1. CASE q = p
      BY <1>1, <3>1
    <3>2. CASE q # p
      BY <1>1, <1>6, <1>7, <1>8, <1>16, <3>2, NodeSets DEF InTree
    <3> QED
      BY <3>1, <3>2
  <2>2. Numbered(q)
    BY <2>1 DEF Numbers
  <2>3. \A j \in Placed(q) : KidAt(q, j) \in Nodes
    BY <2>2, NodeFacts DEF Numbered, Placed, Places
  <2>4. Building(q) => Building(q)' \/ node[q].i > Len(node[q].kids)
    BY <1>2, <1>10
  <2>5. node'[q].first = node[q].first /\ node'[q].left = node[q].left
    BY <1>7, <1>8
  <2> QED
    BY <1>6, <1>9, <2>2, <2>3, <2>4, <2>5, SameNumbers
<1>17. Undisturbed
  BY <1>9 DEF Undisturbed
<1> QED
  BY <1>11, <1>12, <1>13, <1>14, <1>15, <1>16, <1>17 DEF Kinship, Numbers

(* The workers that are left are divided so that each child that is still   *)
(* to come can have one, and the last one has all.                          *)
LEMMA Euclid ==
    ASSUME NEW a \in Int, NEW c \in Int, c > 0
    PROVE  a = c * (a \div c) + (a % c)
  OBVIOUS

LEMMA Division ==
    ASSUME NEW left \in Nat, NEW rest \in Nat, rest > 0, rest <= left
    PROVE  LET n == (left + rest - 1) \div rest
           IN  /\ n \in Nat /\ n > 0 /\ left - n >= rest - 1 /\ n <= left
               /\ rest = 1 => n = left
<1> DEFINE a == left + rest - 1
           n == a \div rest
<1>1. a \in Nat
  OBVIOUS
<1> HIDE DEF a
<1>2. a = rest * n + (a % rest)
  <2>1. a \in Int /\ rest \in Int /\ rest > 0
    BY <1>1
  <2> QED
    BY <2>1, Euclid, Zenon
<1>3. a % rest \in 0 .. rest - 1 /\ n \in Nat
  BY <1>1
<1> HIDE DEF n
<1>4. rest * n <= a /\ a < rest * n + rest
  <2>1. rest * n \in Nat
    BY <1>3
  <2> QED
    BY <1>2, <1>3, <2>1
<1>5. n > 0
  <2>1. n = 0 => rest * n = 0
    BY <1>3
  <2> QED
    BY <1>3, <1>4, <2>1 DEF a
<1>6. n <= left - rest + 1
  <2>1. SUFFICES ASSUME n > left - rest + 1 PROVE FALSE
    BY <1>3
  <2>2. PICK t : t = left - rest + 2
    OBVIOUS
  <2>3. t \in Int /\ t >= 2 /\ t <= n
    BY <1>3, <2>1, <2>2
  <2>4. (rest - 1) * (t - 2) >= 0
    BY <2>3
  <2>5. (rest - 1) * (t - 2) = rest * t - t - 2 * rest + 2
    BY <2>3
  <2>6. rest * t <= rest * n
    BY <1>3, <2>3
  <2> QED
    BY <1>3, <1>4, <2>2, <2>3, <2>4, <2>5, <2>6 DEF a
<1>7. rest = 1 => n = left
  <2>1. rest = 1 => rest * n = n
    BY <1>3
  <2> QED
    BY <1>3, <1>4, <2>1 DEF a
<1>8. n \in Nat /\ n > 0 /\ left - n >= rest - 1 /\ n <= left /\ (rest = 1 => n = left)
  BY <1>3, <1>5, <1>6, <1>7
<1> QED
  BY <1>8 DEF n, a

LEMMA ShareFacts ==
    ASSUME IInv, NEW p \in Nodes, Numbered(p), node[p].i <= Len(node[p].kids)
    PROVE  /\ Share(p) \in Nat /\ Share(p) > 0 /\ Share(p) <= node[p].left
           /\ node[p].left - Share(p) >= Len(node[p].kids) - node[p].i
           /\ node[p].i = Len(node[p].kids) => Share(p) = node[p].left
<1>1. PICK rest : rest = Len(node[p].kids) - node[p].i + 1
  OBVIOUS
<1>2. /\ node[p].left \in Nat /\ node[p].i \in Nat /\ Len(node[p].kids) \in Nat
      /\ rest \in Nat /\ rest > 0 /\ rest <= node[p].left
  BY <1>1, NodeFacts DEF Numbered, IInv
<1>3. Share(p) = (node[p].left + rest - 1) \div rest
  BY <1>1 DEF Share
<1>4. Share(p) \in Nat /\ Share(p) > 0 /\ node[p].left - Share(p) >= rest - 1
      /\ Share(p) <= node[p].left /\ (rest = 1 => Share(p) = node[p].left)
  BY <1>2, <1>3, Division
<1> HIDE DEF Share
<1> QED
  BY <1>1, <1>2, <1>4

(* The next child takes the numbers from first on.                          *)
Took(p, i, n, c) ==
    /\ i = node[p].i /\ i <= Len(node[p].kids) /\ n = Share(p)
    /\ node'[p].no = node[p].no /\ node'[p].size = node[p].size
    /\ Len(node'[p].kids) = Len(node[p].kids) /\ node'[p].i = i + 1
    /\ node'[p].first = node[p].first + n /\ node'[p].left = node[p].left - n
    /\ node'[p].kids[i] = c /\ c # NoWorker /\ node'[c].no = node[p].first /\ node'[c].size = n
    /\ \A j \in Placed(p) : /\ node'[p].kids[j] = KidAt(p, j)
                            /\ node'[KidAt(p, j)].no = node[KidAt(p, j)].no
                            /\ node'[KidAt(p, j)].size = node[KidAt(p, j)].size

LEMMA PlaceNumbers ==
    ASSUME IInv, NEW p \in Nodes, Numbered(p), Building(p), Building(p)', UNCHANGED threads,
           NEW i, NEW n, NEW c, Took(p, i, n, c)
    PROVE  Numbered(p)'
<1>0. PICK f, l, K : f = node[p].first /\ l = node[p].left /\ K = Len(node[p].kids)
  OBVIOUS
<1>a. /\ Len(node'[p].kids) = K /\ node'[p].i = i + 1 /\ node'[p].first = f + n /\ node'[p].left = l - n
      /\ node'[p].kids[i] = c /\ c # NoWorker /\ node'[c].no = f /\ node'[c].size = n
  BY <1>0 DEF Took
<1>b. \A j \in Placed(p) : /\ node'[p].kids[j] = KidAt(p, j)
                           /\ node'[KidAt(p, j)].no = node[KidAt(p, j)].no
                           /\ node'[KidAt(p, j)].size = node[KidAt(p, j)].size
  BY DEF Took
<1>1. /\ n \in Nat /\ n > 0 /\ n <= l /\ l - n >= K - i /\ (i = K => n = l)
  BY <1>0, ShareFacts DEF Took
<1>2. /\ i \in Nat \ {0} /\ i <= K /\ K \in Nat /\ f \in Nat /\ l \in Nat
      /\ node[p].no \in Nat /\ node[p].size \in Nat /\ threads \in Nat
  BY <1>0, NodeFacts DEF Numbered, IInv, Types, Took
<1>3. /\ Base(p)' = Base(p) /\ Total(p)' = Total(p) /\ Base(p) \in Nat /\ Total(p) \in Int
  BY <1>2 DEF Base, Total, Took
<1>c. f >= Base(p) /\ f + l = Base(p) + Total(p)
  BY <1>0 DEF Numbered
<1>d. Placed(p) = 1 .. i - 1 /\ Placed(p)' = Placed(p) \cup {i} /\ i \notin Placed(p)
  <2>1. Placed(p) = 1 .. i - 1 /\ Placed(p)' = 1 .. i
    BY <1>2, <1>a DEF Placed, Took
  <2>2. 1 .. i = (1 .. i - 1) \cup {i} /\ i \notin 1 .. i - 1
    BY <1>2
  <2> QED
    BY <2>1, <2>2
<1>4. /\ node'[p].i \in 1 .. Len(node'[p].kids) + 1
      /\ node'[p].first >= Base(p)' /\ node'[p].first + node'[p].left = Base(p)' + Total(p)'
      /\ node'[p].left >= Len(node'[p].kids) - node'[p].i + 1
      /\ node'[p].i > Len(node'[p].kids) => node'[p].left = 0
  <2>1. i + 1 \in 1 .. K + 1 /\ l - n >= K - (i + 1) + 1 /\ (i + 1 > K => l - n = 0)
    BY <1>1, <1>2
  <2>2. f + n >= Base(p) /\ (f + n) + (l - n) = Base(p) + Total(p)
    BY <1>1, <1>2, <1>3, <1>c
  <2> QED
    BY <1>3, <1>a, <2>1, <2>2
<1>5. \A j \in Placed(p) : /\ KidAt(p, j) # NoWorker
                           /\ node[KidAt(p, j)].no \in Nat /\ node[KidAt(p, j)].size \in Nat
                           /\ Base(p) <= node[KidAt(p, j)].no
                           /\ node[KidAt(p, j)].no + node[KidAt(p, j)].size <= f
                           /\ \A k \in Placed(p) : j < k =>
                                node[KidAt(p, j)].no + node[KidAt(p, j)].size <= node[KidAt(p, k)].no
  <2>1. \A j \in Placed(p) : j \in Places(p)
    BY <1>0, <1>2, <1>d DEF Places
  <2> QED
    BY <1>0, <2>1, NodeFacts DEF Numbered, End, IInv
<1>6. ASSUME NEW j \in Placed(p)'
      PROVE  /\ node'[p].kids[j] # NoWorker
             /\ Base(p) <= node'[node'[p].kids[j]].no
             /\ node'[node'[p].kids[j]].no + node'[node'[p].kids[j]].size <= f + n
             /\ \A k \in Placed(p)' : j < k =>
                    node'[node'[p].kids[j]].no + node'[node'[p].kids[j]].size <= node'[node'[p].kids[k]].no
  <2>1. CASE j = i
    <3>1. \A k \in Placed(p)' : ~(j < k)
      BY <1>2, <1>d, <2>1
    <3>2. node'[p].kids[j] = c
      BY <1>a, <2>1
    <3>3. Base(p) <= f
      BY <1>2, <1>3, <1>c
    <3>4. f + n <= f + n
      BY <1>1, <1>2
    <3> QED
      BY <1>a, <3>1, <3>2, <3>3, <3>4
  <2>2. CASE j # i
    <3>1. j \in Placed(p)
      BY <1>d, <2>2
    <3>2. PICK a, s : a = node'[node'[p].kids[j]].no /\ s = node'[node'[p].kids[j]].size
      OBVIOUS
    <3>3. /\ node'[p].kids[j] # NoWorker /\ a \in Nat /\ s \in Nat
          /\ Base(p) <= a /\ a + s <= f
      BY <1>5, <1>b, <3>1, <3>2
    <3>4. a + s <= f + n
      BY <1>1, <1>2, <3>3
    <3>5. ASSUME NEW k \in Placed(p)', j < k PROVE a + s <= node'[node'[p].kids[k]].no
      <4>1. CASE k = i
        BY <1>a, <3>3, <4>1
      <4>2. CASE k # i
        <5>1. k \in Placed(p)
          BY <1>d, <4>2
        <5> QED
          BY <1>5, <1>b, <3>1, <3>2, <3>5, <5>1
      <4> QED
        BY <4>1, <4>2
    <3> QED
      BY <3>2, <3>3, <3>4, <3>5
  <2> QED
    BY <2>1, <2>2
<1>7. ASSUME NEW x \in Base(p) .. f + n - 1
      PROVE  \E j \in Placed(p)' : /\ node'[node'[p].kids[j]].no <= x
                                   /\ x < node'[node'[p].kids[j]].no + node'[node'[p].kids[j]].size
  <2>1. CASE x < f
    <3>1. x \in Base(p) .. node[p].first - 1
      BY <1>0, <1>1, <1>2, <1>3, <2>1
    <3>2. PICK j \in Placed(p) : node[KidAt(p, j)].no <= x /\ x < node[KidAt(p, j)].no + node[KidAt(p, j)].size
      BY <3>1 DEF Numbered, End
    <3> QED
      BY <1>b, <1>d, <3>2
  <2>2. CASE x >= f
    <3>1. f <= x /\ x < f + n
      BY <1>1, <1>2, <1>3, <2>2
    <3>2. i \in Placed(p)'
      BY <1>d
    <3> QED
      BY <1>a, <3>1, <3>2
  <2> QED
    BY <1>1, <1>2, <1>3, <2>1, <2>2
<1>8. ASSUME NEW x \in Base(p)' .. node'[p].first - 1 PROVE x \in Base(p) .. f + n - 1
  <2>1. PICK b, e : b = Base(p)' /\ e = node'[p].first
    OBVIOUS
  <2>2. b = Base(p) /\ e = f + n /\ x \in b .. e - 1
    BY <1>3, <1>a, <2>1
  <2>3. b \in Nat /\ e \in Nat
    BY <1>1, <1>2, <1>3, <2>2
  <2> QED
    BY <1>1, <1>2, <2>2, <2>3
<1> QED
  BY <1>3, <1>4, <1>6, <1>7, <1>8, <1>a DEF Numbered, KidAt, End

(* The child that is there is kept.                                         *)
KeepChild(p) ==
    /\ Keeps(KidAt(p, node[p].i), node[p].first, Share(p))
    /\ node' = [node EXCEPT ![p] = [node[p] EXCEPT !.i = @ + 1, !.first = @ + Share(p),
                                                    !.left = @ - Share(p)]]
    /\ UNCHANGED dying
(* The new thread w gets its place.                                         *)
PlaceChild(p, w) ==
    LET old == KidAt(p, node[p].i) IN
    /\ w \in Ids /\ node[w].pc = "free"
    /\ node' = [node EXCEPT ![p] = [[node[p] EXCEPT !.i = @ + 1, !.first = @ + Share(p),
                                                    !.left = @ - Share(p)]
                                        EXCEPT !.kids[node[p].i] = w, !.fresh = @ \cup {w}],
                            ![w] = WorkerThread(node[p].first, Share(p), p)]
    /\ dying' = IF old = NoWorker THEN dying ELSE <<old>>

LEMMA CreateCases ==
    ASSUME NEW p \in Nodes, CreateChild(p)
    PROVE  /\ Builds(p) /\ node[p].i <= Len(node[p].kids) /\ UNCHANGED <<phase, threads, gos>>
           /\ KeepChild(p) \/ \E w \in Ids : PlaceChild(p, w)
  BY DEF CreateChild, KeepChild, PlaceChild, KidAt

LEMMA KeepChildStep ==
    ASSUME IInv, NEW p \in Nodes, Builds(p), node[p].i <= Len(node[p].kids),
           UNCHANGED <<phase, threads>>, KeepChild(p)
    PROVE  IInv' /\ Undisturbed
<1> USE DEF IInv
<1>1. PICK i, n, c : i = node[p].i /\ n = Share(p) /\ c = KidAt(p, node[p].i)
  OBVIOUS
<1>2. Building(p) /\ Numbered(p) /\ p \notin Dying
  BY BuilderFacts
<1>3. /\ i \in Nat /\ i > 0 /\ i <= Len(node[p].kids) /\ n \in Nat /\ n <= node[p].left
      /\ node[p].first \in Nat /\ node[p].left \in Nat
  BY <1>1, <1>2, ShareFacts, NodeFacts DEF Numbered
<1>4. c # NoWorker /\ node[c].no = node[p].first /\ node[c].size = n
  BY <1>1 DEF KeepChild, Keeps
<1>5. DOMAIN node = Nodes /\ DOMAIN node[p] = NodeFields
  BY DEF Types, IsNode
<1>6. /\ DOMAIN node' = Nodes /\ \A v \in Nodes : v # p => node'[v] = node[v]
      /\ node'[p] = [node[p] EXCEPT !.i = i + 1, !.first = node[p].first + n, !.left = node[p].left - n]
  BY <1>1, <1>5 DEF KeepChild
<1>7. /\ DOMAIN node'[p] = NodeFields
      /\ node'[p].pc = node[p].pc /\ node'[p].no = node[p].no /\ node'[p].size = node[p].size
      /\ node'[p].parent = node[p].parent /\ node'[p].kids = node[p].kids
      /\ node'[p].list = node[p].list /\ node'[p].fresh = node[p].fresh
      /\ node'[p].initialized = node[p].initialized /\ node'[p].terminate = node[p].terminate
      /\ node'[p].i = i + 1 /\ node'[p].first = node[p].first + n /\ node'[p].left = node[p].left - n
  BY <1>5, <1>6 DEF NodeFields
<1>8. \A v \in Nodes : /\ node'[v].pc = node[v].pc
                       /\ node'[v].no = node[v].no /\ node'[v].size = node[v].size
                       /\ node'[v].parent = node[v].parent /\ node'[v].kids = node[v].kids
                       /\ node'[v].list = node[v].list /\ node'[v].fresh = node[v].fresh
                       /\ node'[v].initialized = node[v].initialized
                       /\ node'[v].terminate = node[v].terminate
                       /\ IsLive(v)' <=> IsLive(v)
                       /\ Building(v)' <=> Building(v)
  BY <1>6, <1>7 DEF IsLive, Building
<1>9. Dying' = Dying /\ UNCHANGED dying
  BY DEF KeepChild, Dying
<1>10. Types'
  <2>1. IsNode(node'[p])
    <3>1. IsNode(node[p]) /\ i + 1 \in Nat /\ node[p].first + n \in Nat /\ node[p].left - n \in Nat
      BY <1>3 DEF Types
    <3> QED
      BY <1>7, <3>1 DEF IsNode
  <2> QED
    BY <1>6, <1>9, <2>1 DEF Types
<1>11. Kinds'
  <2>1. ASSUME NEW v \in Ids, node[v].pc = "free" PROVE node'[v] = node[v]
    <3>1. v # p
      BY <2>1, BuilderFacts DEF Root
    <3> QED
      BY <1>6, <3>1, NodeSets
  <2> QED
    BY <1>8, <1>9, <2>1, NodeSets DEF Kinds
<1>12. ASSUME NEW v \in Ids, IsLive(v)' PROVE Owned(v)' /\ Awaited(v)'
  <2>1. v \in Nodes /\ IsLive(v) /\ node[v].parent \in Nodes
    BY <1>8, <1>12, NodeFacts, NodeSets
  <2>2. Owned(v) /\ Awaited(v)
    BY <2>1 DEF Kinship
  <2>3. Owned(v)'
    BY <1>8, <1>9, <2>1, <2>2 DEF Owned, Places, KidAt
  <2>4. Building(node[v].parent) => Building(node[v].parent)' /\ node'[v].parent = node[v].parent
    BY <1>8, <2>1
  <2>6. Awaited(v)'
    BY <1>8, <2>1, <2>2, <2>4 DEF Awaited, Building
  <2> QED
    BY <2>3, <2>6
<1>13. ASSUME NEW q \in Nodes
       PROVE  Children(q)' /\ Complete(q)' /\ FirstTime(q)' /\ Listed(q)' /\ Fresh(q)'
  <2>1. Children(q) /\ Complete(q) /\ FirstTime(q) /\ Listed(q) /\ Fresh(q)
    BY DEF Kinship
  <2>2. \A j \in Places(q) : KidAt(q, j) \in Nodes
    BY NodeFacts
  <2>3. Children(q)' /\ Complete(q)' /\ Listed(q)'
    BY <1>8, <1>9, <2>1, <2>2, NodeSets DEF Children, Complete, Listed, Places, KidAt
  <2>4. \A j \in Nat : (j >= node'[q].i => j >= node[q].i) /\ (j < node[q].i => j < node'[q].i)
    <3>1. CASE q = p
      BY <1>1, <1>3, <1>7, <3>1
    <3>2. CASE q # p
      BY <1>6, <3>2
    <3> QED
      BY <3>1, <3>2
  <2>5. FirstTime(q)' /\ Fresh(q)'
    BY <1>8, <2>1, <2>4 DEF FirstTime, Fresh, Places, KidAt
  <2> QED
    BY <2>3, <2>5
<1>14. Destruction'
  BY <1>8, <1>9, DyingFacts, NodeSets DEF Destruction
<1>15. ASSUME NEW q \in Nodes, InTree(q)' PROVE Numbered(q)'
  <2>1. InTree(q)
    BY <1>8, <1>9, <1>15 DEF InTree
  <2>2. Numbered(q)
    BY <2>1 DEF Numbers
  <2>3. \A j \in Placed(q) : KidAt(q, j) \in Nodes
    BY <2>2, NodeFacts DEF Numbered, Placed, Places
  <2>4. CASE q = p
    <3>1. c \in Nodes
      BY <1>1, <1>3, NodeFacts DEF Places
    <3>2. Took(p, i, n, c)
      <4>1. /\ i = node[p].i /\ i <= Len(node[p].kids) /\ n = Share(p)
            /\ node'[p].no = node[p].no /\ node'[p].size = node[p].size
            /\ Len(node'[p].kids) = Len(node[p].kids) /\ node'[p].i = i + 1
        BY <1>1, <1>3, <1>7
      <4>2. /\ node'[p].first = node[p].first + n /\ node'[p].left = node[p].left - n
            /\ node'[p].kids[i] = c /\ c # NoWorker /\ node'[c].no = node[p].first /\ node'[c].size = n
        BY <1>1, <1>4, <1>7, <1>8, <3>1 DEF KidAt
      <4>3. \A j \in Placed(p) : /\ node'[p].kids[j] = KidAt(p, j)
                                 /\ node'[KidAt(p, j)].no = node[KidAt(p, j)].no
                                 /\ node'[KidAt(p, j)].size = node[KidAt(p, j)].size
        BY <1>7, <1>8, <2>3, <2>4 DEF KidAt
      <4> QED
        BY <4>1, <4>2, <4>3 DEF Took
    <3>3. Building(p)'
      BY <1>2, <1>8
    <3> QED
      BY <1>2, <2>4, <3>2, <3>3, PlaceNumbers
  <2>5. CASE q # p
    <3>1. node'[q] = node[q] /\ (Building(q)' <=> Building(q))
      BY <1>6, <1>8, <2>5
    <3> QED
      BY <1>8, <2>2, <2>3, <3>1, SameNumbers
  <2> QED
    BY <2>4, <2>5
<1>16. Undisturbed
  BY <1>8 DEF Undisturbed
<1> QED
  BY <1>10, <1>11, <1>12, <1>13, <1>14, <1>15, <1>16 DEF Kinship, Numbers

LEMMA PlaceChildStep ==
    ASSUME IInv, NEW p \in Nodes, Builds(p), node[p].i <= Len(node[p].kids),
           UNCHANGED <<phase, threads>>, NEW w, PlaceChild(p, w)
    PROVE  IInv' /\ Undisturbed
<1> USE DEF IInv
<1>1. PICK i, n, old, K :
        i = node[p].i /\ n = Share(p) /\ old = KidAt(p, node[p].i) /\ K = Len(node[p].kids)
  OBVIOUS
<1>2. /\ Building(p) /\ Numbered(p) /\ p \notin Dying /\ ~node[p].terminate
      /\ node[p].pc \in {"idle", "build"}
      /\ p = Root => phase = "build" /\ dying = <<>>
  BY BuilderFacts
<1>3. /\ i \in Nat /\ i > 0 /\ i <= K /\ K \in Nat /\ n \in Nat /\ n > 0 /\ n <= node[p].left
      /\ node[p].first \in Nat /\ node[p].left \in Nat
      /\ i \in Places(p) /\ old \in Nodes
  <2>1. n \in Nat /\ n > 0 /\ n <= node[p].left
    BY <1>1, <1>2, ShareFacts
  <2>2. K \in Nat /\ node[p].first \in Nat /\ node[p].left \in Nat /\ i \in 1 .. K + 1 /\ i <= K
    BY <1>1, <1>2, NodeFacts DEF Numbered
  <2>3. i \in Nat /\ i > 0 /\ i \in 1 .. K
    BY <2>2
  <2>4. i \in Places(p)
    BY <1>1, <2>3 DEF Places
  <2> QED
    BY <1>1, <2>1, <2>2, <2>3, <2>4, NodeFacts
(* w was free: nothing refers to it.                                        *)
<1>4. /\ w \in Ids /\ w \in Nodes /\ w # Root /\ w # p /\ ~IsLive(w)
      /\ node[w] = Free /\ w \notin Dying
  <2>1. w \in Ids /\ node[w].pc = "free"
    BY DEF PlaceChild
  <2>2. node[w] = Free /\ ~node[w].initialized
    BY <2>1 DEF Kinds, Running
  <2>3. w \notin Dying
    BY <2>2, DyingFacts DEF Destruction
  <2> QED
    BY <1>2, <2>1, <2>2, <2>3, NodeSets DEF IsLive
<1>5. \A v \in Ids : IsLive(v) => node[v].parent # w /\ v # w
  BY <1>4, Parents, NodeSets DEF IsLive
<1>6. \A q \in Nodes : \A j \in Places(q) : KidAt(q, j) \in Nodes /\ KidAt(q, j) # w
  <2>1. \A q \in Nodes : \A j \in Places(q) : KidAt(q, j) \in Nodes
    BY NodeFacts
  <2> QED
    BY <1>4, <2>1 DEF Kinship, Children, NoWorker, Root
(* A child that is there is one of the root's, from an earlier search.      *)
<1>7. old # NoWorker => /\ p = Root /\ old \in Ids /\ IsLive(old) /\ node[old].parent = p
                        /\ old \notin Dying /\ node[old].initialized /\ old # w /\ old # p
                        /\ \A j \in Places(p) : j # i => KidAt(p, j) # old
  <2>1. SUFFICES ASSUME old # NoWorker
                 PROVE  /\ p = Root /\ old \in Ids /\ IsLive(old) /\ node[old].parent = p
                        /\ old \notin Dying /\ node[old].initialized /\ old # w /\ old # p
                        /\ \A j \in Places(p) : j # i => KidAt(p, j) # old
    OBVIOUS
  <2>2. p = Root
    BY <1>1, <1>2, <1>3, <2>1 DEF Kinship, FirstTime
  <2>3. old \in Ids
    BY <1>3, <2>1, NodeSets DEF NoWorker, Root
  <2>4. /\ IsLive(old) /\ node[old].parent = p /\ old \notin Dying
        /\ \A j \in Places(p) : j # i => KidAt(p, j) # old
    BY <1>1, <1>3, <2>1 DEF Kinship, Children
  <2>5. node[old].initialized
    <3>1. CASE node[old].pc \in Starts
      <4>1. old \in node[p].fresh
        BY <2>3, <2>4, <3>1 DEF Kinship, Awaited
      <4>2. PICK j \in Places(p) : j < i /\ KidAt(p, j) = old
        BY <1>1, <4>1 DEF Kinship, Fresh
      <4> QED
        BY <1>3, <2>4, <4>2
    <3>2. CASE node[old].pc \notin Starts
      BY <2>3, <2>4, <3>2, NodeFacts, NodeSets DEF Kinds, Starts, Running, IsLive
    <3> QED
      BY <3>1, <3>2
  <2> QED
    BY <1>5, <2>2, <2>3, <2>4, <2>5, NodeSets
<1>8. /\ DOMAIN node = Nodes /\ DOMAIN node[p] = NodeFields /\ node[p].kids \in Seq(Nodes)
      /\ DOMAIN node[p].kids = 1 .. K
  <2>1. DOMAIN node = Nodes /\ DOMAIN node[p] = NodeFields /\ node[p].kids \in Seq(Nodes)
    BY DEF Types, IsNode
  <2> QED
    BY <1>1, <2>1, LenProperties
<1>9. /\ DOMAIN node' = Nodes /\ \A v \in Nodes : v # p /\ v # w => node'[v] = node[v]
      /\ node'[w] = WorkerThread(node[p].first, n, p)
      /\ node'[p] = [node[p] EXCEPT !.i = i + 1, !.first = node[p].first + n, !.left = node[p].left - n,
                                    !.kids = [node[p].kids EXCEPT ![i] = w],
                                    !.fresh = node[p].fresh \cup {w}]
  <2>1. node' = [node EXCEPT ![p] = [[node[p] EXCEPT !.i = @ + 1, !.first = @ + n, !.left = @ - n]
                                        EXCEPT !.kids[i] = w, !.fresh = @ \cup {w}],
                            ![w] = WorkerThread(node[p].first, n, p)]
    BY <1>1 DEF PlaceChild
  <2>2. /\ DOMAIN node' = Nodes /\ \A v \in Nodes : v # p /\ v # w => node'[v] = node[v]
        /\ node'[w] = WorkerThread(node[p].first, n, p)
        /\ node'[p] = [[node[p] EXCEPT !.i = @ + 1, !.first = @ + n, !.left = @ - n]
                                        EXCEPT !.kids[i] = w, !.fresh = @ \cup {w}]
    BY <1>4, <1>8, <2>1
  <2>3. node'[p] = [node[p] EXCEPT !.i = i + 1, !.first = node[p].first + n, !.left = node[p].left - n,
                                   !.kids = [node[p].kids EXCEPT ![i] = w],
                                   !.fresh = node[p].fresh \cup {w}]
    BY <1>1, <1>8, <2>2 DEF NodeFields
  <2> QED
    BY <2>2, <2>3
<1>10. /\ DOMAIN node'[p] = NodeFields
       /\ node'[p].pc = node[p].pc /\ node'[p].no = node[p].no /\ node'[p].size = node[p].size
       /\ node'[p].parent = node[p].parent /\ node'[p].kids = [node[p].kids EXCEPT ![i] = w]
       /\ node'[p].list = node[p].list /\ node'[p].fresh = node[p].fresh \cup {w}
       /\ node'[p].initialized = node[p].initialized /\ node'[p].terminate = node[p].terminate
       /\ node'[p].i = i + 1 /\ node'[p].first = node[p].first + n /\ node'[p].left = node[p].left - n
  BY <1>8, <1>9 DEF NodeFields
<1>11. /\ node'[p].kids \in Seq(Nodes) /\ Len(node'[p].kids) = K /\ Places(p)' = Places(p)
       /\ KidAt(p, i)' = w /\ \A j \in Places(p) : j # i => KidAt(p, j)' = KidAt(p, j)
  <2>0. \A j \in 1 .. K : node[p].kids[j] \in Nodes
    BY <1>1, <1>6 DEF Places, KidAt
  <2>1. node'[p].kids \in [1 .. K -> Nodes]
    BY <1>4, <1>8, <1>10, <2>0
  <2>2. node'[p].kids \in Seq(Nodes)
    BY <1>3, <2>1, SeqDef
  <2>3. Len(node'[p].kids) = K
    BY <1>3, <2>1, <2>2, LenProperties
  <2> QED
    BY <1>1, <1>3, <1>8, <1>10, <2>2, <2>3 DEF Places, KidAt
<1>12. /\ DOMAIN node'[w] = NodeFields /\ node'[w].pc = "start"
       /\ node'[w].no = node[p].first /\ node'[w].size = n
       /\ node'[w].parent = p /\ node'[w].kids = <<>> /\ node'[w].list = {} /\ node'[w].i = 1
       /\ node'[w].first = 0 /\ node'[w].left = 0 /\ node'[w].fresh = {}
       /\ node'[w].initialized = FALSE /\ node'[w].terminate = FALSE
  BY <1>9 DEF WorkerThread, Free, NodeFields
<1>13. \A v \in Nodes : v # w =>
            /\ node'[v].pc = node[v].pc /\ node'[v].no = node[v].no
            /\ node'[v].size = node[v].size /\ node'[v].parent = node[v].parent
            /\ node'[v].list = node[v].list /\ node'[v].initialized = node[v].initialized
            /\ node'[v].terminate = node[v].terminate
  BY <1>9, <1>10
<1>14. \A v \in Nodes : IsLive(v)' <=> IsLive(v) \/ v = w
  <2>1. ASSUME NEW v \in Nodes, v = w PROVE IsLive(v)'
    BY <1>12, <2>1 DEF IsLive
  <2>2. ASSUME NEW v \in Nodes, v # w PROVE IsLive(v)' <=> IsLive(v)
    BY <1>13, <2>2 DEF IsLive
  <2> QED
    BY <2>1, <2>2
<1>15. \A v \in Nodes : Building(v)' <=> Building(v)
  <2>1. ASSUME NEW v \in Nodes, v = w PROVE ~Building(v)' /\ ~Building(v)
    BY <1>4, <1>12, <2>1 DEF Building, Free
  <2>2. ASSUME NEW v \in Nodes, v # w PROVE Building(v)' <=> Building(v)
    BY <1>13, <2>2 DEF Building
  <2> QED
    BY <2>1, <2>2
<1>16. /\ dying' \in Seq(Ids) /\ \A v : v \in Dying' <=> v \in Dying \/ (old # NoWorker /\ v = old)
       /\ old = NoWorker => dying' = dying
       /\ old # NoWorker => dying' = <<old>>
  <2>1. dying' = IF old = NoWorker THEN dying ELSE <<old>>
    BY <1>1 DEF PlaceChild
  <2>2. CASE old = NoWorker
    BY <2>1, <2>2 DEF Types, Dying
  <2>3. CASE old # NoWorker
    <3>1. dying = <<>> /\ dying' = <<old>> /\ old \in Ids
      BY <1>2, <1>7, <2>1, <2>3
    <3>2. dying' \in Seq(Ids) /\ Dying = {} /\ Dying' = {old}
      BY <3>1 DEF Dying, ToSet
    <3> QED
      BY <2>3, <3>1, <3>2
  <2> QED
    BY <2>2, <2>3
<1>17. Types'
  <2>1. IsNode(node'[p])
    <3>1. IsNode(node[p]) /\ i + 1 \in Nat /\ node[p].first + n \in Nat /\ node[p].left - n \in Nat
      BY <1>3 DEF Types
    <3>2. node[p].fresh \cup {w} \subseteq Ids
      BY <1>4, <3>1 DEF IsNode
    <3> QED
      BY <1>10, <1>11, <3>1, <3>2 DEF IsNode
  <2>2. IsNode(node'[w])
    <3>1. <<>> \in Seq(Nodes) /\ 0 \in Nat /\ 1 \in Nat /\ FALSE \in BOOLEAN
      OBVIOUS
    <3> QED
      BY <1>3, <1>12, <3>1 DEF IsNode
  <2> QED
    BY <1>9, <1>16, <2>1, <2>2 DEF Types
<1>18. Kinds'
  <2>1. ASSUME NEW v \in Ids
        PROVE  /\ node'[v].pc # "idle"
               /\ node'[v].initialized <=> node'[v].pc \in Running \cup {"exited"}
               /\ node'[v].pc = "exited" => node'[v].terminate
               /\ node'[v].terminate => v \in Dying' /\ node'[v].kids = <<>>
               /\ node'[v].pc = "free" => node'[v] = Free
               /\ node'[v].pc # "free" => node'[v].size > 0
               /\ node'[v].pc = "start" => node'[v].kids = <<>>
    <3>1. /\ node[v].pc # "idle"
          /\ node[v].initialized <=> node[v].pc \in Running \cup {"exited"}
          /\ node[v].pc = "exited" => node[v].terminate
          /\ node[v].terminate => v \in Dying /\ node[v].kids = <<>>
          /\ node[v].pc = "free" => node[v] = Free
          /\ node[v].pc # "free" => node[v].size > 0
          /\ node[v].pc = "start" => node[v].kids = <<>>
      BY DEF Kinds
    <3>2. CASE v = w
      BY <1>3, <1>12, <3>2 DEF Running
    <3>3. CASE v # w /\ v # p
      BY <1>9, <1>16, <3>1, <3>3, NodeSets
    <3>4. CASE v = p
      <4>1. node[v].pc = "build"
        BY <1>2, <3>1, <3>4
      <4> QED
        BY <1>2, <1>10, <3>1, <3>4, <4>1
    <3> QED
      BY <3>2, <3>3, <3>4
  <2>2. node'[Root].pc = node[Root].pc /\ node'[Root].no = node[Root].no
        /\ node'[Root].terminate = node[Root].terminate
    BY <1>4, <1>13, NodeSets
  <2> QED
    BY <2>1, <2>2 DEF Kinds
<1>19. ASSUME NEW v \in Ids, IsLive(v)' PROVE Owned(v)' /\ Awaited(v)'
  <2>1. CASE v = w
    <3>1. Owned(v)'
      BY <1>3, <1>11, <1>12, <2>1 DEF Owned, Places, KidAt
    <3>2. Awaited(v)'
      BY <1>2, <1>10, <1>12, <1>15, <2>1 DEF Awaited, Building
    <3> QED
      BY <3>1, <3>2
  <2>2. CASE v # w
    <3>1. v \in Nodes /\ IsLive(v) /\ node[v].parent \in Nodes /\ node[v].parent # w
      BY <1>5, <1>14, <1>19, <2>2, NodeFacts, NodeSets
    <3>2. Owned(v) /\ Awaited(v)
      BY <3>1 DEF Kinship
    <3>3. node'[v].parent = node[v].parent /\ node'[v].pc = node[v].pc
      BY <1>13, <2>2, <3>1
    <3>4. Building(node[v].parent) => Building(node[v].parent)'
      <4>1. PICK q \in Nodes : q = node[v].parent
        BY <3>1
      <4>2. Building(q)' <=> Building(q)
        BY <1>15
      <4> QED
        BY <3>3, <4>1, <4>2 DEF Building
    <3>5. node[node[v].parent].fresh \subseteq node'[node[v].parent].fresh
      BY <1>9, <1>10, <3>1
    <3>6. Awaited(v)'
      BY <3>2, <3>3, <3>4, <3>5 DEF Awaited, Building
    <3>7. Owned(v)'
      <4>1. CASE v \in Dying'
        BY <4>1 DEF Owned
      <4>2. CASE v \notin Dying'
        <5>1. PICK j \in Places(node[v].parent) : KidAt(node[v].parent, j) = v
          BY <1>16, <3>2, <4>2 DEF Owned
        <5>2. CASE node[v].parent = p
          <6>1. j # i
            <7>1. v # NoWorker
              BY NodeSets DEF NoWorker, Root
            <7>2. j = i => v = old
              BY <1>1, <5>1, <5>2
            <7> QED
              BY <1>16, <4>2, <7>1, <7>2
          <6>2. j \in Places(p)' /\ KidAt(p, j)' = v
            BY <1>11, <5>1, <5>2, <6>1
          <6> QED
            BY <3>3, <5>2, <6>2 DEF Owned, Places, KidAt
        <5>3. CASE node[v].parent # p
          <6>1. node'[node[v].parent] = node[node[v].parent]
            BY <1>9, <3>1, <5>3
          <6> QED
            BY <3>3, <5>1, <6>1 DEF Owned, Places, KidAt
        <5> QED
          BY <5>2, <5>3
      <4> QED
        BY <4>1, <4>2
    <3> QED
      BY <3>6, <3>7
  <2> QED
    BY <2>1, <2>2
<1>20. ASSUME NEW q \in Nodes
       PROVE  Children(q)' /\ Complete(q)' /\ FirstTime(q)' /\ Listed(q)' /\ Fresh(q)'
  <2>1. Children(q) /\ Complete(q) /\ FirstTime(q) /\ Listed(q) /\ Fresh(q)
    BY DEF Kinship
  <2>2. Listed(q)'
    <3>1. \A v \in Ids : IsLive(v)' /\ node'[v].pc # "start" /\ node'[v].parent = q
                            <=> v # w /\ IsLive(v) /\ node[v].pc # "start" /\ node[v].parent = q
      <4>1. ASSUME NEW v \in Ids, v = w
            PROVE  ~(IsLive(v)' /\ node'[v].pc # "start" /\ node'[v].parent = q)
        BY <1>12, <4>1
      <4>2. ASSUME NEW v \in Ids, v # w
            PROVE  IsLive(v)' /\ node'[v].pc # "start" /\ node'[v].parent = q
                            <=> IsLive(v) /\ node[v].pc # "start" /\ node[v].parent = q
        BY <1>13, <1>14, <4>2, NodeSets
      <4> QED
        BY <4>1, <4>2
    <3>2. \A v \in Ids : IsLive(v) => v # w
      BY <1>5
    <3>3. CASE q = w
      BY <1>5, <1>12, <3>1, <3>3 DEF Listed
    <3>4. CASE q # w
      <4>1. node'[q].list = node[q].list
        BY <1>13, <3>4
      <4> QED
        BY <2>1, <3>1, <3>2, <4>1 DEF Listed
    <3> QED
      BY <3>3, <3>4
  <2>3. CASE q = w
    <3>1. Places(q)' = {} /\ node'[q].fresh = {} /\ ~Building(q)'
      BY <1>4, <1>12, <2>3 DEF Places, Building
    <3> QED
      BY <2>2, <3>1 DEF Children, Complete, FirstTime, Fresh
  <2>4. CASE q = p
    <3>1. Building(q)' /\ Places(q)' = Places(p)
      BY <1>2, <1>11, <1>15, <2>4
    <3>2. Complete(q)'
      BY <3>1 DEF Complete
    <3>3. FirstTime(q)'
      <4>1. ASSUME q # Root, NEW j \in Places(p), j >= i + 1 PROVE KidAt(p, j)' = NoWorker
        <5>1. j \in Nat /\ j # i /\ j >= i
          BY <1>3, <4>1 DEF Places
        <5> QED
          BY <1>1, <1>2, <1>11, <2>1, <2>4, <4>1, <5>1 DEF FirstTime
      <4>2. node'[q].i = i + 1
        BY <1>10, <2>4
      <4> QED
        BY <2>4, <3>1, <4>1, <4>2 DEF FirstTime
    <3>4. Fresh(q)'
      <4>1. ASSUME NEW v \in node'[p].fresh
            PROVE  \E j \in Places(p) : j < i + 1 /\ KidAt(p, j)' = v
        <5>1. CASE v = w
          BY <1>3, <1>11, <5>1
        <5>2. CASE v # w
          <6>1. v \in node[p].fresh
            BY <1>10, <4>1, <5>2
          <6>2. PICK j \in Places(p) : j < i /\ KidAt(p, j) = v
            BY <1>1, <2>1, <2>4, <6>1 DEF Fresh
          <6>3. j # i /\ j < i + 1
            BY <1>3, <6>2 DEF Places
          <6> QED
            BY <1>11, <6>2, <6>3
        <5> QED
          BY <5>1, <5>2
      <4>2. node'[q].i = i + 1
        BY <1>10, <2>4
      <4> QED
        BY <2>4, <3>1, <4>1, <4>2 DEF Fresh
    <3>5. Children(q)'
      <4>1. ASSUME NEW j \in Places(p), KidAt(p, j)' # NoWorker
            PROVE  /\ IsLive(KidAt(p, j))' /\ node'[KidAt(p, j)'].parent = p /\ KidAt(p, j)' \notin Dying'
                   /\ \A k \in Places(p) : k # j => KidAt(p, k)' # KidAt(p, j)'
        <5>1. CASE j = i
          <6>1. KidAt(p, j)' = w /\ w # old
            BY <1>4, <1>7, <1>11, <5>1, NodeSets DEF NoWorker, Root
          <6>2. w \notin Dying'
            BY <1>4, <1>16, <6>1
          <6>3. \A k \in Places(p) : k # j => KidAt(p, k)' # w
            BY <1>6, <1>11, <5>1
          <6> QED
            BY <1>12, <6>1, <6>2, <6>3 DEF IsLive
        <5>2. CASE j # i
          <6>1. PICK v : v = KidAt(p, j)
            OBVIOUS
          <6>2. KidAt(p, j)' = v /\ v # NoWorker /\ v \in Nodes /\ v # w
            BY <1>6, <1>11, <4>1, <5>2, <6>1
          <6>3. /\ IsLive(v) /\ node[v].parent = p /\ v \notin Dying
                /\ \A k \in Places(p) : k # j => KidAt(p, k) # v
            BY <2>1, <2>4, <6>1, <6>2 DEF Children
          <6>4. v \notin Dying'
            BY <1>1, <1>3, <1>16, <5>2, <6>3
          <6>5. \A k \in Places(p) : k # j => KidAt(p, k)' # v
            BY <1>11, <6>2, <6>3
          <6>6. IsLive(v)' /\ node'[v].parent = p
            BY <1>13, <1>14, <6>2, <6>3
          <6> QED
            BY <6>2, <6>4, <6>5, <6>6 DEF IsLive
        <5> QED
          BY <5>1, <5>2
      <4> QED
        BY <2>4, <3>1, <4>1 DEF Children
    <3> QED
      BY <2>2, <3>2, <3>3, <3>4, <3>5
  <2>5. CASE q # w /\ q # p
    <3>1. node'[q] = node[q] /\ (Building(q)' <=> Building(q))
      BY <1>9, <1>15, <2>5
    <3>2. Complete(q)' /\ FirstTime(q)' /\ Fresh(q)'
      BY <2>1, <3>1 DEF Complete, FirstTime, Fresh, Places, KidAt
    <3>3. Children(q)'
      <4>1. ASSUME NEW j \in Places(q), KidAt(q, j) # NoWorker
            PROVE  /\ IsLive(KidAt(q, j)) /\ node[KidAt(q, j)].parent = q
                   /\ KidAt(q, j) \in Nodes /\ KidAt(q, j) # w /\ KidAt(q, j) \notin Dying'
                   /\ \A k \in Places(q) : k # j => KidAt(q, k) # KidAt(q, j)
        <5>1. /\ IsLive(KidAt(q, j)) /\ node[KidAt(q, j)].parent = q /\ KidAt(q, j) \notin Dying
              /\ \A k \in Places(q) : k # j => KidAt(q, k) # KidAt(q, j)
          BY <2>1, <4>1 DEF Children
        <5> QED
          BY <1>6, <1>7, <1>16, <2>5, <5>1
      <4>2. \A v \in Nodes : v # w /\ IsLive(v) => IsLive(v)' /\ node'[v].parent = node[v].parent
        BY <1>13, <1>14
      <4> QED
        BY <3>1, <4>1, <4>2 DEF Children, Places, KidAt, IsLive
    <3> QED
      BY <2>2, <3>2, <3>3
  <2> QED
    BY <2>3, <2>4, <2>5
<1>21. Destruction'
  <2>1. CASE old = NoWorker
    <3>1. \A v \in Dying : v \in Ids /\ v # w
      BY <1>4, DyingFacts
    <3> QED
      BY <1>13, <1>16, <2>1, <3>1, DyingFacts, NodeSets DEF Destruction
  <2>2. CASE old # NoWorker
    <3>1. dying' = <<old>> /\ phase' = "build" /\ node'[old].initialized /\ node'[old].parent = Root
      BY <1>2, <1>7, <1>13, <1>16, <2>2, NodeSets
    <3> QED
      BY <3>1 DEF Destruction
  <2> QED
    BY <2>1, <2>2
<1>22. ASSUME NEW q \in Nodes, InTree(q)' PROVE Numbered(q)'
  <2>1. q # w
    BY <1>4, <1>12, <1>22 DEF InTree
  <2>2. InTree(q)
    BY <1>13, <1>16, <1>22, <2>1 DEF InTree
  <2>3. Numbered(q)
    BY <2>2 DEF Numbers
  <2>4. \A j \in Placed(q) : KidAt(q, j) \in Nodes /\ KidAt(q, j) # w
    BY <1>6, <2>3, NodeFacts DEF Numbered, Placed, Places
  <2>5. CASE q = p
    <3>1. /\ i = node[p].i /\ i <= Len(node[p].kids) /\ n = Share(p)
          /\ node'[p].no = node[p].no /\ node'[p].size = node[p].size
          /\ Len(node'[p].kids) = Len(node[p].kids) /\ node'[p].i = i + 1
      BY <1>1, <1>3, <1>10, <1>11
    <3>2. /\ node'[p].first = node[p].first + n /\ node'[p].left = node[p].left - n
          /\ node'[p].kids[i] = w /\ w # NoWorker /\ node'[w].no = node[p].first /\ node'[w].size = n
      BY <1>4, <1>10, <1>11, <1>12 DEF KidAt, NoWorker, Root
    <3>3. \A j \in Placed(p) : /\ node'[p].kids[j] = KidAt(p, j)
                               /\ node'[KidAt(p, j)].no = node[KidAt(p, j)].no
                               /\ node'[KidAt(p, j)].size = node[KidAt(p, j)].size
      <4>1. \A j \in Placed(p) : j \in Places(p) /\ j # i
        BY <1>1, <1>3, <2>3 DEF Placed, Places
      <4> QED
        BY <1>11, <1>13, <2>4, <2>5, <4>1 DEF KidAt
    <3>4. Took(p, i, n, w)
      BY <3>1, <3>2, <3>3 DEF Took
    <3>5. Building(p)'
      BY <1>2, <1>15
    <3> QED
      BY <1>2, <2>5, <3>4, <3>5, PlaceNumbers
  <2>6. CASE q # p
    <3>1. node'[q] = node[q] /\ (Building(q)' <=> Building(q))
      BY <1>9, <1>15, <2>1, <2>6
    <3> QED
      BY <1>13, <2>3, <2>4, <3>1, SameNumbers
  <2> QED
    BY <2>5, <2>6
<1>23. Undisturbed
  <2>1. node[w].pc \notin {"walk", "poll"}
    BY <1>4 DEF Free
  <2> QED
    BY <1>13, <2>1 DEF Undisturbed
<1> QED
  BY <1>17, <1>18, <1>19, <1>20, <1>21, <1>22, <1>23 DEF Kinship, Numbers

LEMMA CreateChildStep == ASSUME IInv, NEW p \in Nodes, CreateChild(p) PROVE IInv' /\ Undisturbed
  BY CreateCases, KeepChildStep, PlaceChildStep

(***************************************************************************)
(* The theorems.                                                           *)
(***************************************************************************)
LEMMA Initially == Init => IInv
<1> SUFFICES ASSUME Init PROVE IInv
  OBVIOUS
<1> USE DEF Init
<1>1. /\ DOMAIN node = Nodes /\ \A w \in Ids : node[w] = Free
      /\ node[Root] = [Free EXCEPT !.pc = "idle"]
  BY NodeSets
<1>2. /\ DOMAIN Free = NodeFields /\ Free.pc = "free" /\ Free.no = 0 /\ Free.size = 0
      /\ Free.parent = Root /\ Free.kids = <<>> /\ Free.list = {} /\ Free.i = 1
      /\ Free.first = 0 /\ Free.left = 0 /\ Free.fresh = {} /\ ~Free.initialized /\ ~Free.terminate
      /\ Free.initialized \in BOOLEAN /\ Free.terminate \in BOOLEAN
  BY DEF Free, NodeFields
<1>3. /\ DOMAIN node[Root] = NodeFields /\ node[Root].pc = "idle"
      /\ node[Root].no = 0 /\ node[Root].size = 0 /\ node[Root].parent = Root
      /\ node[Root].kids = <<>> /\ node[Root].list = {} /\ node[Root].i = 1
      /\ node[Root].first = 0 /\ node[Root].left = 0 /\ node[Root].fresh = {}
      /\ ~node[Root].initialized /\ ~node[Root].terminate
      /\ node[Root].initialized \in BOOLEAN /\ node[Root].terminate \in BOOLEAN
  BY <1>1, <1>2 DEF NodeFields
<1>4. dying = <<>> /\ Dying = {} /\ Len(dying) = 0
  BY DEF Dying, ToSet
<1>5. Types
  <2>1. <<>> \in Seq(Nodes) /\ <<>> \in Seq(Ids) /\ 0 \in Nat /\ 1 \in Nat
    OBVIOUS
  <2>2. IsNode(Free) /\ IsNode(node[Root])
    BY <1>2, <1>3, <2>1, NodeSets DEF IsNode
  <2> QED
    BY <1>1, <1>4, <2>1, <2>2, NodeSets DEF Types
<1>6. Kinds
  BY <1>1, <1>2, <1>3 DEF Kinds, Running
<1>7. \A p \in Nodes : Places(p) = {} /\ node[p].fresh = {} /\ node[p].list = {} /\ ~Building(p)
  BY <1>1, <1>2, <1>3, NodeSets DEF Places, Building
<1>8. \A w \in Ids : ~IsLive(w)
  BY <1>1, <1>2 DEF IsLive
<1>9. Kinship
  BY <1>7, <1>8 DEF Kinship, Children, Complete, FirstTime, Listed, Fresh
<1>10. Destruction
  BY <1>4 DEF Destruction
<1>11. Numbers
  BY <1>1, <1>2, NodeSets DEF Numbers, InTree
<1> QED
  BY <1>5, <1>6, <1>9, <1>10, <1>11 DEF IInv

LEMMA Stuttering == IInv /\ UNCHANGED vars => IInv' /\ Undisturbed
<1> SUFFICES ASSUME IInv, UNCHANGED vars PROVE IInv' /\ Undisturbed
  OBVIOUS
<1>1. Alike(node)
  BY DEF Alike, SameTree, IInv, Types
<1>2. node' = node /\ UNCHANGED <<dying, threads, phase>>
  BY DEF vars
<1>3. Alike(node') /\ \A v \in Ids : GoesOn(v)
  BY <1>1, <1>2 DEF GoesOn
<1> QED
  BY <1>2, <1>3, SamePhase

LEMMA Invariance == IInv /\ [Next]_vars => IInv' /\ Undisturbed
<1> SUFFICES ASSUME IInv, [Next]_vars PROVE IInv' /\ Undisturbed
  OBVIOUS
<1>1. CASE \E n \in Sizes : Go(n)
  BY <1>1, GoStep
<1>2. CASE Uci
  BY <1>2, CreateChildStep, EndCreateStep, ClearChildrenStep, TerminateStep, JoinStep, NodeSets DEF Uci
<1>3. ASSUME NEW w \in Nodes, Thread(w) PROVE IInv' /\ Undisturbed
  <2>1. CASE Wait(w) \/ Woken(w) \/ Walk(w)
    BY <2>1, WalkStep
  <2>2. CASE HandleStop(w)
    BY <2>2, HandleStopStep
  <2>3. CASE HandleStopAck(w)
    BY <2>3, HandleStopAckStep
  <2>4. CASE w \in Ids /\ StartThread(w)
    BY <2>4, StartThreadStep
  <2>5. CASE w \in Ids /\ CreateChild(w)
    BY <2>5, CreateChildStep
  <2>6. CASE w \in Ids /\ EndCreate(w)
    BY <2>6, EndCreateStep
  <2>7. CASE w \in Ids /\ EndPoll(w)
    BY <2>7, EndPollStep
  <2>8. CASE StopSearch
    BY <2>8, StopSearchStep
  <2>9. CASE EndRootPoll
    BY <2>9, EndRootPollStep
  <2> QED
    BY <1>3, <2>1, <2>2, <2>3, <2>4, <2>5, <2>6, <2>7, <2>8, <2>9 DEF Thread
<1>4. CASE UNCHANGED vars
  BY <1>4, Stuttering
<1> QED
  BY <1>1, <1>2, <1>3, <1>4 DEF Next

(* In every reachable state each live thread's object is owned by its       *)
(* parent or on its way out, the numbers below each node are divided among  *)
(* its children, and what is destroyed comes before its parent.             *)
THEOREM Inductive == Spec => []IInv
<1>1. Init => IInv
  BY Initially
<1>2. IInv /\ [Next]_vars => IInv'
  BY Invariance
<1> QED
  BY <1>1, <1>2, PTL DEF Spec

(* A thread that goes through the children of its Communicator sees one     *)
(* come or go only while its own WorkerThread is being destroyed.           *)
THEOREM Races == Spec => RacesOnlyIfDestroyed
<1>1. Init => IInv
  BY Initially
<1>2. IInv /\ [Next]_vars => IInv'
  BY Invariance
<1>3. IInv /\ [Next]_vars =>
        [\A p \in Nodes : node[p].pc \in {"walk", "poll"} /\ node'[p].list # node[p].list
                                => p \in ToSet(dying)]_vars
  BY Invariance DEF Undisturbed, Dying
<1> QED
  BY <1>1, <1>2, <1>3, PTL DEF Spec, RacesOnlyIfDestroyed

(***************************************************************************)
(* The whole tree, while a search runs.                                    *)
(***************************************************************************)
Searching == phase \in {"search", "stop"}
Tree == Live \cup {Root}
(* The numbers of a node and of those below it.                             *)
Block(p) == node[p].no .. node[p].no + Total(p)

(* A nonempty set of natural numbers has a least element.                   *)
LEMMA Least ==
    ASSUME NEW T \in SUBSET Nat, T # {}
    PROVE  \E x \in T : \A y \in T : x <= y
<1> DEFINE R == OpToRel(<, Nat)
<1>1. IsWellFoundedOn(R, Nat)
  BY NatLessThanWellFounded
<1>2. \A x, y \in Nat : y < x => <<y, x>> \in R
  BY Zenon DEF OpToRel
<1> HIDE DEF R
<1>3. PICK x \in T : \A y \in T : ~ (<<y, x>> \in R)
  BY <1>1, WFMin, Zenon
<1>4. ASSUME NEW y \in T PROVE x <= y
  <2>1. ~ (<<y, x>> \in R)
    BY <1>3, Zenon
  <2>2. x \in Nat /\ y \in Nat
    OBVIOUS
  <2>3. ~(y < x)
    BY <1>2, <2>1, <2>2, Zenon
  <2> QED
    BY <2>2, <2>3
<1> QED
  BY <1>4

(* No thread is still starting: it would have an ancestor that is, with the *)
(* smallest number of all, and the one above it waits for it.               *)
LEMMA AllReady ==
    ASSUME IInv, Searching
    PROVE  /\ Dying = {}
           /\ \A w \in Ids : node[w].pc \notin Starts
<1> USE DEF IInv
<1>1. dying = <<>> /\ Dying = {} /\ phase # "build"
  BY DEF Searching, Destruction, Dying, ToSet
<1> DEFINE Bad == {w \in Ids : node[w].pc \in Starts}
           T == {node[w].no : w \in Bad}
<1>2. SUFFICES ASSUME Bad # {} PROVE FALSE
  BY <1>1
<1>3. T \in SUBSET Nat /\ T # {}
  <2>1. \A w \in Bad : w \in Nodes /\ node[w].no \in Nat
    BY NodeFacts, NodeSets
  <2> QED
    BY <1>2, <2>1
<1>4. PICK w \in Bad : \A v \in Bad : node[w].no <= node[v].no
  <2>1. PICK x \in T : \A y \in T : x <= y
    BY <1>3, Least
  <2> QED
    BY <2>1
<1>5. PICK p \in Nodes : p = node[w].parent
  BY NodeFacts, NodeSets
<1>6. w \in node[p].fresh /\ Building(p)
  BY <1>5 DEF Kinship, Awaited, IsLive, Starts
<1>7. p \in Ids /\ node[p].pc = "build" /\ p # Root
  BY <1>1, <1>6, NodeSets DEF Building
<1>8. p \in Bad
  BY <1>7 DEF Starts
<1>9. Numbered(p)
  BY <1>1, <1>7 DEF Numbers, InTree
<1>10. PICK j \in Places(p) : j < node[p].i /\ KidAt(p, j) = w
  BY <1>6 DEF Kinship, Fresh
<1>11. Base(p) <= node[w].no
  <2>1. j \in Placed(p)
    BY <1>9, <1>10 DEF Placed, Places, Numbered
  <2> QED
    BY <1>9, <1>10, <2>1 DEF Numbered
<1>12. node[w].no <= node[p].no /\ node[p].no \in Nat /\ node[w].no \in Nat
  BY <1>4, <1>8, NodeFacts, NodeSets
<1> QED
  BY <1>11, <1>12 DEF Base

LEMMA TreeFacts ==
    ASSUME IInv, Searching
    PROVE  /\ \A w \in Live : /\ w \in Ids /\ w \in Nodes /\ w # Root /\ IsLive(w)
                              /\ node[w].initialized /\ ~node[w].terminate
                              /\ node[w].pc # "start"
                              /\ node[w].parent \in Tree
                              /\ \E j \in Places(node[w].parent) : KidAt(node[w].parent, j) = w
           /\ \A p \in Tree : /\ p \in Nodes /\ ~Building(p) /\ Numbered(p) /\ Placed(p) = Places(p)
                              /\ node[p].no \in Nat /\ Total(p) \in Nat /\ node[p].left = 0
                              /\ \A j \in Places(p) : KidAt(p, j) \in Live /\ node[KidAt(p, j)].parent = p
<1> USE DEF IInv
<1>1. Dying = {} /\ \A w \in Ids : node[w].pc \notin Starts
  BY AllReady
<1>2. ASSUME NEW w \in Live
      PROVE  /\ w \in Ids /\ w \in Nodes /\ w # Root /\ IsLive(w) /\ node[w].pc # "start"
             /\ node[w].pc # "build" /\ node[w].initialized /\ ~node[w].terminate
  <2>1. w \in Ids /\ IsLive(w) /\ w \in Nodes /\ w # Root
    BY NodeSets DEF Live, IsLive
  <2>2. node[w].pc # "start" /\ node[w].pc # "build"
    BY <1>1, <2>1 DEF Starts
  <2>3. node[w].initialized
    BY <2>1, <2>2, NodeFacts DEF Kinds, IsLive, Running
  <2>4. ~node[w].terminate
    BY <1>1, <2>1 DEF Kinds
  <2> QED
    BY <2>1, <2>2, <2>3, <2>4
<1>3. ASSUME NEW w \in Live
      PROVE  /\ node[w].parent \in Tree
             /\ \E j \in Places(node[w].parent) : KidAt(node[w].parent, j) = w
  <2>1. node[w].parent \in Tree
    BY <1>2, Parents DEF Tree, Live, IsLive
  <2>2. Owned(w)
    BY <1>2 DEF Kinship
  <2> QED
    BY <1>1, <2>1, <2>2 DEF Owned
<1>4. ASSUME NEW p \in Tree
      PROVE  /\ p \in Nodes /\ ~Building(p) /\ Numbered(p) /\ Placed(p) = Places(p)
             /\ node[p].no \in Nat /\ Total(p) \in Nat /\ node[p].left = 0
             /\ \A j \in Places(p) : KidAt(p, j) \in Live /\ node[KidAt(p, j)].parent = p
  <2>1. p \in Nodes /\ (p # Root => p \in Live)
    BY NodeSets DEF Tree, Live
  <2>2. ~Building(p) /\ (p # Root => node[p].pc # "start")
    BY <1>2, <2>1 DEF Building, Searching
  <2>3. InTree(p)
    BY <1>1, <1>2, <2>1 DEF InTree, Searching, IsLive
  <2>4. Numbered(p)
    BY <2>1, <2>3 DEF Numbers
  <2>5. /\ node[p].i \in Nat /\ Len(node[p].kids) \in Nat /\ node[p].no \in Nat /\ node[p].size \in Nat
        /\ threads \in Nat
    BY <2>1, NodeFacts DEF Types
  <2>6. node[p].i = Len(node[p].kids) + 1 /\ node[p].left = 0
    BY <2>2, <2>4, <2>5 DEF Numbered
  <2>7. Placed(p) = Places(p)
    BY <2>5, <2>6 DEF Placed, Places
  <2>8. Total(p) \in Nat
    <3>1. p # Root => node[p].size > 0
      BY <1>2, <2>1 DEF Kinds, IsLive
    <3> QED
      BY <2>5, <3>1 DEF Total
  <2>9. \A j \in Places(p) : KidAt(p, j) \in Live /\ node[KidAt(p, j)].parent = p
    BY <2>1, <2>2, ReadyKids DEF Live, IsLive
  <2> QED
    BY <2>1, <2>2, <2>4, <2>5, <2>6, <2>7, <2>8, <2>9
<1> QED
  BY <1>2, <1>3, <1>4

(* The block of a child is in that of its parent, without the number of the *)
(* parent; those of two children have nothing in common, and together they  *)
(* are all but that number.                                                 *)
LEMMA Blocks ==
    ASSUME IInv, Searching
    PROVE  /\ \A w \in Live : /\ node[node[w].parent].no < node[w].no
                              /\ Block(w) \subseteq Block(node[w].parent)
           /\ \A v, w \in Live : v # w /\ node[v].parent = node[w].parent => Block(v) \cap Block(w) = {}
           /\ \A p \in Tree : \A x \in Block(p) :
                x # node[p].no => \E w \in Live : node[w].parent = p /\ x \in Block(w)
<1> USE DEF IInv
<1>1. ASSUME NEW w \in Live
      PROVE  /\ node[w].no \in Nat /\ Total(w) \in Nat /\ Block(w) = node[w].no .. End(w) - 1
             /\ w # Root /\ w \in Tree /\ node[w].parent \in Tree
  <2>1. w # Root /\ w \in Tree /\ node[w].parent \in Tree /\ w \in Nodes
    BY TreeFacts DEF Tree
  <2>2. node[w].no \in Nat /\ Total(w) \in Nat
    BY <2>1, TreeFacts
  <2>3. node[w].size \in Nat
    BY <2>1, NodeFacts
  <2>4. node[w].no + Total(w) = End(w) - 1
    BY <2>1, <2>2, <2>3 DEF Total, End
  <2> QED
    BY <2>1, <2>2, <2>4 DEF Block
<1>2. ASSUME NEW p \in Tree, NEW j \in Places(p)
      PROVE  /\ KidAt(p, j) \in Live /\ node[KidAt(p, j)].parent = p
             /\ node[p].no + 1 <= node[KidAt(p, j)].no
             /\ End(KidAt(p, j)) <= node[p].no + 1 + Total(p)
             /\ \A k \in Places(p) : j < k => End(KidAt(p, j)) <= node[KidAt(p, k)].no
  <2>1. Placed(p) = Places(p) /\ Numbered(p) /\ KidAt(p, j) \in Live /\ node[KidAt(p, j)].parent = p
    BY TreeFacts
  <2>2. node[p].first = node[p].no + 1 + Total(p)
    <3>1. node[p].left = 0 /\ p \in Nodes
      BY TreeFacts
    <3>2. node[p].first \in Nat
      BY <3>1, NodeFacts
    <3> QED
      BY <2>1, <3>1, <3>2 DEF Numbered, Base
  <2> QED
    BY <2>1, <2>2 DEF Numbered, Base
<1>3. ASSUME NEW w \in Live
      PROVE  node[node[w].parent].no < node[w].no /\ Block(w) \subseteq Block(node[w].parent)
  <2>1. PICK p \in Tree : p = node[w].parent
    BY <1>1
  <2>2. PICK j \in Places(p) : KidAt(p, j) = w
    BY <2>1, TreeFacts
  <2>3. node[p].no + 1 <= node[w].no /\ End(w) <= node[p].no + 1 + Total(p)
    BY <1>2, <2>2
  <2>4. node[p].no \in Nat /\ Total(p) \in Nat /\ node[w].no \in Nat /\ End(w) \in Int
    <3>1. w \in Nodes /\ p \in Nodes
      BY TreeFacts
    <3>2. node[w].size \in Nat /\ node[w].no \in Nat
      BY <3>1, NodeFacts
    <3>3. End(w) \in Int
      BY <3>2 DEF End
    <3> QED
      BY <3>2, <3>3, TreeFacts
  <2>5. node[p].no < node[w].no
    BY <2>3, <2>4
  <2>6. Block(w) \subseteq Block(p)
    <3>1. PICK a, e, b, t : a = node[w].no /\ e = End(w) /\ b = node[p].no /\ t = Total(p)
      OBVIOUS
    <3>2. Block(w) = a .. e - 1 /\ Block(p) = b .. b + t
      BY <1>1, <3>1 DEF Block
    <3>3. /\ a \in Nat /\ e \in Int /\ b \in Nat /\ t \in Nat
          /\ b + 1 <= a /\ e <= b + 1 + t
      BY <2>3, <2>4, <3>1
    <3> QED
      BY <3>2, <3>3
  <2> QED
    BY <2>1, <2>5, <2>6
<1>4. ASSUME NEW v \in Live, NEW w \in Live, v # w, node[v].parent = node[w].parent,
             NEW x \in Block(v), x \in Block(w)
      PROVE  FALSE
  <2>1. PICK p \in Tree : p = node[w].parent
    BY <1>1
  <2>2. PICK j \in Places(p), k \in Places(p) : KidAt(p, j) = w /\ KidAt(p, k) = v
    BY <1>4, <2>1, TreeFacts
  <2>3. /\ j # k /\ j \in Nat /\ k \in Nat
    BY <1>4, <2>2 DEF Places
  <2>4. \/ End(w) <= node[v].no
        \/ End(v) <= node[w].no
    BY <1>2, <2>2, <2>3
  <2>5. x \in node[v].no .. End(v) - 1 /\ x \in node[w].no .. End(w) - 1
    BY <1>1, <1>4
  <2>6. /\ node[v].no \in Nat /\ node[w].no \in Nat /\ End(v) \in Int /\ End(w) \in Int
    <3>1. v \in Nodes /\ w \in Nodes
      BY TreeFacts
    <3>2. node[w].size \in Nat /\ node[w].no \in Nat /\ node[v].size \in Nat /\ node[v].no \in Nat
      BY <3>1, NodeFacts
    <3> QED
      BY <3>2 DEF End
  <2>7. x \in Int /\ node[v].no <= x /\ x <= End(v) - 1 /\ node[w].no <= x /\ x <= End(w) - 1
    BY <2>5, <2>6
  <2> QED
    BY <2>4, <2>6, <2>7
<1>5. ASSUME NEW p \in Tree, NEW x \in Block(p), x # node[p].no
      PROVE  \E w \in Live : node[w].parent = p /\ x \in Block(w)
  <2>1. /\ Placed(p) = Places(p) /\ Numbered(p) /\ node[p].left = 0 /\ p \in Nodes
        /\ node[p].no \in Nat /\ Total(p) \in Nat
    BY TreeFacts
  <2>2. node[p].first \in Nat
    BY <2>1, NodeFacts
  <2>3. node[p].first = node[p].no + 1 + Total(p)
    BY <2>1, <2>2 DEF Numbered, Base
  <2>4. x \in Base(p) .. node[p].first - 1
    BY <1>5, <2>1, <2>3 DEF Block, Base
  <2>5. PICK j \in Places(p) : node[KidAt(p, j)].no <= x /\ x < End(KidAt(p, j))
    BY <2>1, <2>4 DEF Numbered
  <2>6. KidAt(p, j) \in Live /\ node[KidAt(p, j)].parent = p
    BY TreeFacts
  <2>7. x \in Block(KidAt(p, j))
    <3>1. PICK w \in Live : w = KidAt(p, j)
      BY <2>6
    <3>2. w \in Nodes
      BY TreeFacts
    <3>3. node[w].no \in Nat /\ node[w].size \in Nat
      BY <3>2, NodeFacts
    <3>4. Block(w) = node[w].no .. End(w) - 1
      BY <1>1
    <3>5. x \in Int
      BY <2>1, <2>2, <2>4 DEF Base
    <3>6. End(w) \in Int /\ node[w].no <= x /\ x < End(w)
      BY <2>5, <3>1, <3>3 DEF End
    <3>7. x \in Block(w)
      BY <3>3, <3>4, <3>5, <3>6
    <3> QED
      BY <3>1, <3>7
  <2> QED
    BY <2>6, <2>7
<1> QED
  BY <1>3, <1>4, <1>5

(* Of two nodes whose blocks overlap one is above the other.  By induction  *)
(* on the sum of their numbers: it is so for each one and the parent of the *)
(* other, or they would be two children of one node.                        *)
Above(b, a) ==
    /\ node[b].no < node[a].no
    /\ node[a].parent = b \/ node[b].no < node[node[a].parent].no

LEMMA Nested ==
    ASSUME IInv, Searching, NEW v \in Tree, NEW w \in Tree, v # w, NEW x \in Block(v), x \in Block(w)
    PROVE  Above(v, w) \/ Above(w, v)
<1> DEFINE Sum(a, b) == node[a].no + node[b].no
           Bad(a, b) == /\ a # b /\ Block(a) \cap Block(b) # {}
                        /\ ~Above(a, b) /\ ~Above(b, a)
           T == {Sum(pr[1], pr[2]) : pr \in {z \in Tree \X Tree : Bad(z[1], z[2])}}
<1>1. \A p \in Tree : /\ node[p].no \in Nat
                      /\ p # Root => /\ p \in Live /\ node[p].parent \in Tree
                                     /\ node[node[p].parent].no < node[p].no
                                     /\ Block(p) \subseteq Block(node[p].parent)
  <2>1. \A p \in Tree : node[p].no \in Nat /\ (p # Root => p \in Live)
    BY TreeFacts DEF Tree
  <2>2. \A p \in Live : node[p].parent \in Tree
    BY TreeFacts
  <2> QED
    BY <2>1, <2>2, Blocks
<1>2. SUFFICES ASSUME Bad(v, w) PROVE FALSE
  <2>1. x \in Block(v) \cap Block(w)
    OBVIOUS
  <2> QED
    BY <2>1
<1>3. T \in SUBSET Nat /\ T # {}
  <2>1. \A a, b \in Tree : Sum(a, b) \in Nat
    BY <1>1
  <2>2. <<v, w>> \in {z \in Tree \X Tree : Bad(z[1], z[2])}
    BY <1>2
  <2> HIDE DEF Sum, Bad
  <2> QED
    BY <2>1, <2>2
<1>4. PICK a \in Tree, b \in Tree :
        Bad(a, b) /\ \A c, d \in Tree : Bad(c, d) => Sum(a, b) <= Sum(c, d)
  <2>1. PICK s \in T : \A t \in T : s <= t
    BY <1>3, Least
  <2> HIDE DEF Sum, Bad
  <2>2. PICK z \in Tree \X Tree : Bad(z[1], z[2]) /\ s = Sum(z[1], z[2])
    OBVIOUS
  <2>3. \A c, d \in Tree : Bad(c, d) => Sum(c, d) \in T
    <3>1. ASSUME NEW c \in Tree, NEW d \in Tree, Bad(c, d) PROVE Sum(c, d) \in T
      <4>1. <<c, d>> \in Tree \X Tree /\ <<c, d>>[1] = c /\ <<c, d>>[2] = d
        OBVIOUS
      <4> QED
        BY <3>1, <4>1
    <3> QED
      BY <3>1
  <2>4. z[1] \in Tree /\ z[2] \in Tree
    BY <2>2
  <2> HIDE DEF T
  <2> QED
    BY <2>1, <2>2, <2>3, <2>4
<1>5. PICK y : y \in Block(a) /\ y \in Block(b)
  BY <1>4
<1>6. ASSUME NEW c \in Tree, NEW d \in Tree, c # d, y \in Block(c), y \in Block(d),
             node[c].no + node[d].no < node[a].no + node[b].no
      PROVE  Above(c, d) \/ Above(d, c)
  <2>1. node[a].no \in Nat /\ node[b].no \in Nat /\ node[c].no \in Nat /\ node[d].no \in Nat
    BY <1>1
  <2>2. ~Bad(c, d)
    <3>1. ~(Sum(a, b) <= Sum(c, d))
      BY <1>6, <2>1
    <3> HIDE DEF Sum, Bad
    <3> QED
      BY <1>4, <3>1
  <2>3. y \in Block(c) \cap Block(d)
    BY <1>6
  <2> HIDE DEF T
  <2> QED
    BY <1>6, <2>2, <2>3
<1>7. a # b /\ ~Above(a, b) /\ ~Above(b, a)
  BY <1>4
<1> HIDE DEF T, Bad, Sum
(* Everything else is below the root.                                       *)
<1>8. \A c \in Tree : c # Root => Above(Root, c)
  <2>1. ASSUME NEW c \in Tree, c # Root PROVE node[Root].no < node[c].no
    <3>1. node[node[c].parent].no < node[c].no /\ node[c].no \in Nat /\ node[node[c].parent].no \in Nat
      BY <1>1, <2>1
    <3>2. node[Root].no = 0
      BY DEF IInv, Kinds
    <3> QED
      BY <3>1, <3>2
  <2>2. ASSUME NEW c \in Tree, c # Root PROVE Above(Root, c)
    <3>1. node[c].parent \in Tree
      BY <1>1, <2>2
    <3> QED
      BY <2>1, <2>2, <3>1 DEF Above
  <2> QED
    BY <2>2
<1>9. a # Root /\ b # Root
  BY <1>7, <1>8
<1>10. PICK r \in Tree, q \in Tree : r = node[a].parent /\ q = node[b].parent
  BY <1>1, <1>9
<1>11. /\ node[r].no < node[a].no /\ node[q].no < node[b].no /\ y \in Block(r) /\ y \in Block(q)
       /\ a \in Live /\ b \in Live
       /\ node[r].no \in Nat /\ node[q].no \in Nat /\ node[a].no \in Nat /\ node[b].no \in Nat
  BY <1>1, <1>5, <1>9, <1>10
<1>12. r # b /\ q # a
  BY <1>7, <1>10, <1>11 DEF Above
<1>13. Above(r, b)
  <2>1. Above(r, b) \/ Above(b, r)
    BY <1>5, <1>6, <1>11, <1>12
  <2>2. ~Above(b, r)
    BY <1>7, <1>10, <1>11 DEF Above
  <2> QED
    BY <2>1, <2>2
<1>14. Above(q, a)
  <2>1. Above(q, a) \/ Above(a, q)
    BY <1>5, <1>6, <1>11, <1>12
  <2>2. ~Above(a, q)
    BY <1>7, <1>10, <1>11 DEF Above
  <2> QED
    BY <2>1, <2>2
<1>15. r = q
  BY <1>10, <1>11, <1>13, <1>14 DEF Above
<1> QED
  BY <1>5, <1>7, <1>10, <1>11, <1>15, Blocks

LEMMA Distinct ==
    ASSUME IInv, Searching, NEW v \in Live, NEW w \in Live, node[v].no = node[w].no
    PROVE  v = w
<1>1. v \in Tree /\ w \in Tree
  BY DEF Tree
<1>2. node[v].no \in Nat /\ Total(v) \in Nat /\ Total(w) \in Nat
  BY <1>1, TreeFacts
<1>3. node[v].no \in Block(v) /\ node[v].no \in Block(w)
  BY <1>2 DEF Block
<1>4. ~Above(v, w) /\ ~Above(w, v)
  BY <1>2 DEF Above
<1> QED
  BY <1>1, <1>3, <1>4, Nested

LEMMA InRange ==
    ASSUME IInv, Searching, NEW w \in Live
    PROVE  node[w].no \in 1 .. threads
<1> DEFINE Out == {v \in Live : ~(Block(v) \subseteq Block(Root))}
           T == {node[v].no : v \in Out}
<1>1. Block(Root) = 0 .. threads /\ threads \in Nat
  <2>1. node[Root].no = 0 /\ threads \in Nat
    BY DEF IInv, Kinds, Types
  <2> QED
    BY <2>1 DEF Block, Total
<1>2. \A v \in Live : node[v].no \in Nat /\ Total(v) \in Nat
  BY TreeFacts DEF Tree
<1>3. Out = {}
  <2>1. SUFFICES ASSUME Out # {} PROVE FALSE
    OBVIOUS
  <2>2. T \in SUBSET Nat /\ T # {}
    BY <1>2, <2>1
  <2>3. PICK v \in Out : \A u \in Out : node[v].no <= node[u].no
    <3>1. PICK s \in T : \A t \in T : s <= t
      BY <2>2, Least
    <3> QED
      BY <3>1
  <2>4. PICK p \in Tree : p = node[v].parent
    BY TreeFacts
  <2>5. Block(v) \subseteq Block(p) /\ node[p].no < node[v].no
    BY <2>4, Blocks
  <2>6. p # Root /\ ~(Block(p) \subseteq Block(Root))
    BY <2>5
  <2>7. p \in Out
    BY <2>6 DEF Tree
  <2> QED
    BY <1>2, <2>3, <2>5, <2>7
<1>4. node[w].no \in Block(w)
  BY <1>2 DEF Block
<1>5. node[w].no \in 0 .. threads
  BY <1>1, <1>3, <1>4
<1>6. node[w].no # 0
  <2>1. node[w].parent \in Tree
    BY TreeFacts
  <2>2. node[node[w].parent].no \in Nat
    BY <2>1, TreeFacts
  <2>3. node[node[w].parent].no < node[w].no
    BY Blocks
  <2> QED
    BY <1>2, <2>2, <2>3
<1> QED
  BY <1>1, <1>2, <1>5, <1>6

LEMMA AllThere ==
    ASSUME IInv, Searching, NEW k \in 1 .. threads
    PROVE  \E w \in Live : node[w].no = k
<1> DEFINE Q == {p \in Tree : k \in Block(p)}
           T == {k - node[p].no : p \in Q}
<1>1. threads \in Nat /\ node[Root].no = 0
  BY DEF IInv, Kinds, Types
<1>2. k \in Nat /\ k > 0 /\ Root \in Q
  <2>1. Block(Root) = 0 .. threads
    BY <1>1 DEF Block, Total
  <2> QED
    BY <1>1, <2>1 DEF Tree
<1>3. \A p \in Q : node[p].no \in Nat /\ node[p].no <= k
  <2>1. ASSUME NEW p \in Q PROVE node[p].no \in Nat /\ node[p].no <= k
    <3>1. node[p].no \in Nat /\ Total(p) \in Nat /\ k \in Block(p)
      BY TreeFacts
    <3> QED
      BY <1>2, <3>1 DEF Block
  <2> QED
    BY <2>1
<1>4. PICK p \in Q : \A u \in Q : k - node[p].no <= k - node[u].no
  <2>1. T \in SUBSET Nat
    BY <1>2, <1>3
  <2>2. T # {}
    BY <1>2
  <2>3. PICK s \in T : \A t \in T : s <= t
    BY <2>1, <2>2, Least
  <2> QED
    BY <2>3
<1>5. CASE node[p].no = k
  <2>1. p # Root
    BY <1>1, <1>2, <1>5
  <2>2. p \in Live
    BY <2>1 DEF Tree
  <2> QED
    BY <1>5, <2>2
<1>6. CASE node[p].no # k
  <2>1. PICK w \in Live : node[w].parent = p /\ k \in Block(w)
    BY <1>6, Blocks
  <2>2. w \in Q
    BY <2>1 DEF Tree
  <2>3. node[p].no < node[w].no
    BY <2>1, Blocks
  <2> QED
    BY <1>2, <1>3, <1>4, <2>2, <2>3
<1> QED
  BY <1>5, <1>6

LEMMA Numbering ==
    ASSUME IInv, Searching
    PROVE  {node[w].no : w \in Live} = 1 .. threads /\ Cardinality(Live) = threads
<1>1. {node[w].no : w \in Live} = 1 .. threads
  BY InRange, AllThere
<1> DEFINE f == [w \in Live |-> node[w].no]
<1>2. f \in Bijection(Live, 1 .. threads)
  <2>1. f \in [Live -> 1 .. threads]
    BY InRange
  <2>2. \A v, w \in Live : f[v] = f[w] => v = w
    BY Distinct
  <2>3. \A k \in 1 .. threads : \E w \in Live : f[w] = k
    BY AllThere
  <2> HIDE DEF f
  <2> QED
    BY <2>1, <2>2, <2>3 DEF Bijection, Injection, Surjection, IsInjective
<1>3. threads \in Nat
  BY DEF IInv, Types
<1>4. IsFiniteSet(Live)
  <2>1. Live \subseteq Ids
    BY DEF Live
  <2> QED
    BY <2>1, TreeAssumption, FS_Subset
<1>5. Cardinality(1 .. threads) = threads
  BY <1>3, FS_Interval
<1>6. Cardinality(1 .. threads) = Cardinality(Live)
  <2>1. ExistsBijection(Live, 1 .. threads)
    BY <1>2 DEF ExistsBijection
  <2> QED
    BY <1>4, <2>1, FS_Bijection
<1> QED
  BY <1>1, <1>5, <1>6

LEMMA Whole == IInv => TreeComplete
<1> SUFFICES ASSUME IInv, Searching PROVE
        /\ {node[w].no : w \in Live} = 1 .. threads /\ Cardinality(Live) = threads
        /\ \A w \in Live : node[w].initialized /\ ~node[w].terminate /\ w \in node[node[w].parent].list
        /\ \A p \in Live \cup {Root} : node[p].list = ToSet(node[p].kids)
  BY DEF TreeComplete, Searching
<1>1. ASSUME NEW w \in Live
      PROVE  node[w].initialized /\ ~node[w].terminate /\ w \in node[node[w].parent].list
  <2>1. /\ node[w].initialized /\ ~node[w].terminate /\ w \in Ids /\ IsLive(w) /\ node[w].pc # "start"
        /\ node[w].parent \in Tree
    BY TreeFacts
  <2>2. node[w].parent \in Nodes
    BY <2>1, TreeFacts
  <2> QED
    BY <2>1, <2>2 DEF IInv, Kinship, Listed
<1>2. ASSUME NEW p \in Tree
      PROVE  node[p].list = ToSet(node[p].kids)
  <2>1. p \in Nodes /\ \A j \in Places(p) : KidAt(p, j) \in Live /\ node[KidAt(p, j)].parent = p
    BY TreeFacts
  <2>2. node[p].list = {v \in Ids : IsLive(v) /\ node[v].pc # "start" /\ node[v].parent = p}
    BY <2>1 DEF IInv, Kinship, Listed
  <2>3. ToSet(node[p].kids) = {KidAt(p, j) : j \in Places(p)}
    <3>1. DOMAIN node[p].kids = Places(p)
      BY <2>1, NodeFacts DEF IInv
    <3> QED
      BY <3>1 DEF ToSet, KidAt
  <2>4. ASSUME NEW v \in node[p].list PROVE v \in ToSet(node[p].kids)
    <3>1. v \in Live /\ node[v].parent = p
      BY <2>2 DEF Live, IsLive
    <3> QED
      BY <2>3, <3>1, TreeFacts
  <2>5. ASSUME NEW j \in Places(p) PROVE KidAt(p, j) \in node[p].list
    <3>1. KidAt(p, j) \in Live /\ node[KidAt(p, j)].parent = p
      BY <2>1
    <3>2. KidAt(p, j) \in Ids /\ IsLive(KidAt(p, j)) /\ node[KidAt(p, j)].pc # "start"
      BY <3>1, TreeFacts
    <3> QED
      BY <2>2, <3>1, <3>2
  <2> QED
    BY <2>3, <2>4, <2>5
<1> QED
  BY <1>1, <1>2, Numbering DEF Tree

(* Whatever tree there was before: when a search begins, and until it ends, *)
(* there are as many threads as were asked for, numbered from 1 on, all of  *)
(* them ready, and each Communicator has the children its thread owns.      *)
THEOREM TreeIsComplete == Spec => []TreeComplete
  BY Inductive, Whole, PTL
=============================================================================
