------------------------- MODULE CommunicatorProofs -------------------------
(***************************************************************************)
(* The safety properties of Communicator, proved for every tree of nodes   *)
(* and every sequence of jobs from the invariant of CommunicatorInvariant. *)
(* First come lemmas about the tree, the queues and what the invariant     *)
(* says of a node, then the actions, those alike together: a lemma         *)
(* ...Moves says what a step does to the state in terms of Sent or         *)
(* Replaced and shows that the invariant holds after it, and a lemma       *)
(* ...Step shows that an action is such a step.  The theorems are at the   *)
(* end.                                                                    *)
(***************************************************************************)
EXTENDS CommunicatorInvariant, FiniteSetTheorems, SequenceTheorems, TLAPS

(***************************************************************************)
(* The tree.                                                               *)
(***************************************************************************)
(* The root is no worker; every worker is a child of its parent, and not   *)
(* its own.                                                                *)
LEMMA Tree ==
    /\ IsFiniteSet(Nodes) /\ Root \in Nodes /\ Root \notin Workers
    /\ \A n \in Nodes : Children(n) \subseteq Workers /\ IsFiniteSet(Children(n))
    /\ \A n \in Nodes : Cardinality(Children(n)) \in 0 .. Cardinality(Nodes)
    /\ \A n \in Workers : Parent[n] \in Nodes /\ Parent[n] # n /\ n \in Children(Parent[n])
    /\ \A n \in Nodes : \A c \in Children(n) : c \in Workers /\ c # n /\ Parent[c] = n
<1>1. IsFiniteSet(Nodes) /\ Root \in Nodes /\ Root \notin Workers
  BY TreeAssumption DEF Workers
<1>2. ASSUME NEW n \in Nodes
      PROVE  /\ Children(n) \subseteq Workers /\ IsFiniteSet(Children(n))
             /\ Cardinality(Children(n)) \in 0 .. Cardinality(Nodes)
  <2>1. Children(n) \subseteq Workers
    BY DEF Children
  <2>2. Children(n) \subseteq Nodes
    BY <2>1 DEF Workers
  <2>3. IsFiniteSet(Children(n)) /\ Cardinality(Children(n)) <= Cardinality(Nodes)
    BY <1>1, <2>2, FS_Subset
  <2> QED
    BY <1>1, <2>1, <2>3, FS_CardinalityType
<1>3. ASSUME NEW n \in Workers
      PROVE  Parent[n] \in Nodes /\ Parent[n] # n
  <2>1. PICK m \in {n} : Parent[m] \notin {n}
    BY TreeAssumption
  <2> QED
    BY <2>1, TreeAssumption
<1> QED
  BY <1>1, <1>2, <1>3 DEF Children

(* Subtree(m) is m and what is below its children; every worker is below a  *)
(* child of the root.                                                       *)
LEMMA Below ==
    /\ \A m \in Nodes : Subtree(m) \subseteq Nodes /\ m \in Subtree(m)
    /\ \A m \in Nodes, c \in Workers : Parent[c] \in Subtree(m) => c \in Subtree(m)
    /\ \A m \in Nodes, n \in Workers : n \in Subtree(m) /\ n # m => Parent[n] \in Subtree(m)
    /\ \A m \in Nodes, n \in Nodes : n \in Subtree(m) /\ n # m =>
            n \in Workers /\ \E c \in Children(m) : n \in Subtree(c)
    /\ \A n \in Workers : \E c \in Children(Root) : n \in Subtree(c)
<1>1. \A m \in Nodes : Subtree(m) \subseteq Nodes /\ m \in Subtree(m)
  BY DEF Subtree
<1>2. ASSUME NEW m \in Nodes, NEW c \in Workers, Parent[c] \in Subtree(m)
      PROVE  c \in Subtree(m)
  <2>1. c \in Nodes
    BY DEF Workers
  <2> QED
    BY <1>2, <2>1 DEF Subtree
<1>3. ASSUME NEW m \in Nodes, NEW n \in Workers, n \in Subtree(m), n # m
      PROVE  Parent[n] \in Subtree(m)
  <2> SUFFICES ASSUME Parent[n] \notin Subtree(m) PROVE FALSE
    OBVIOUS
  <2> DEFINE S == Subtree(m) \ {n}
  <2>1. S \in SUBSET Nodes /\ m \in S
    BY <1>1, <1>3
  <2>2. ASSUME NEW c \in Workers, Parent[c] \in S PROVE c \in S
    <3>1. c \in Subtree(m)
      BY <1>2, <2>2
    <3>2. c # n
      BY <2>2
    <3> QED
      BY <3>1, <3>2
  <2>3. n \in S
    <3> HIDE DEF S
    <3> QED
      BY <1>3, <2>1, <2>2 DEF Subtree
  <2> QED
    BY <2>3
<1>4. ASSUME NEW m \in Nodes, NEW n \in Nodes, n \in Subtree(m), n # m
      PROVE  n \in Workers /\ \E c \in Children(m) : n \in Subtree(c)
  <2> DEFINE S == {m} \cup {k \in Workers : \E c \in Children(m) : k \in Subtree(c)}
  <2>1. S \in SUBSET Nodes /\ m \in S
    BY DEF Workers
  <2>2. ASSUME NEW c \in Workers, Parent[c] \in S PROVE c \in S
    <3>1. CASE Parent[c] = m
      BY <3>1, <1>1, Tree DEF Workers
    <3>2. CASE Parent[c] # m
      <4>1. PICK d \in Children(m) : Parent[c] \in Subtree(d)
        BY <2>2, <3>2
      <4>2. d \in Nodes
        BY Tree DEF Workers
      <4> QED
        BY <4>1, <4>2, <1>2
    <3> QED
      BY <3>1, <3>2
  <2>3. n \in S
    <3> HIDE DEF S
    <3> QED
      BY <1>4, <2>1, <2>2 DEF Subtree
  <2> QED
    BY <1>4, <2>3
<1>5. ASSUME NEW n \in Workers
      PROVE  \E c \in Children(Root) : n \in Subtree(c)
  <2> DEFINE S == {k \in Workers : ~\E c \in Children(Root) : k \in Subtree(c)}
  <2> SUFFICES ASSUME S # {} PROVE FALSE
    OBVIOUS
  <2>1. PICK k \in S : Parent[k] \notin S
    <3>1. S \in SUBSET Workers
      OBVIOUS
    <3> HIDE DEF S
    <3> QED
      BY <3>1, TreeAssumption
  <2>2. CASE Parent[k] = Root
    BY <2>1, <2>2, <1>1, Tree DEF Workers
  <2>3. CASE Parent[k] # Root
    <3>1. Parent[k] \in Workers
      BY <2>3, Tree DEF Workers
    <3>2. PICK c \in Children(Root) : Parent[k] \in Subtree(c)
      BY <2>1, <3>1
    <3>3. c \in Nodes
      BY Tree DEF Workers
    <3> QED
      BY <3>2, <3>3, <2>1, <1>2
  <2> QED
    BY <2>2, <2>3
<1> QED
  BY <1>1, <1>2, <1>3, <1>4, <1>5

(* Subtree is transitive, and no node is below one of its children.         *)
LEMMA Acyclic ==
    /\ \A m \in Nodes, n \in Nodes, k \in Nodes :
            n \in Subtree(m) /\ k \in Subtree(n) => k \in Subtree(m)
    /\ \A n \in Nodes : \A c \in Children(n) : n \notin Subtree(c)
<1>1. ASSUME NEW m \in Nodes, NEW n \in Nodes, NEW k \in Nodes, n \in Subtree(m), k \in Subtree(n)
      PROVE  k \in Subtree(m)
  <2>1. Subtree(m) \in SUBSET Nodes /\ \A c \in Workers : Parent[c] \in Subtree(m) => c \in Subtree(m)
    BY Below
  <2> DEFINE S == Subtree(m)
  <2>2. S \in SUBSET Nodes /\ n \in S /\ \A c \in Workers : Parent[c] \in S => c \in S
    BY <1>1, <2>1
  <2>3. k \in S
    <3> HIDE DEF S
    <3> QED
      BY <1>1, <2>2 DEF Subtree
  <2> QED
    BY <2>3
<1>2. ASSUME NEW n \in Nodes, NEW c \in Children(n), n \in Subtree(c)
      PROVE  FALSE
  <2>1. c \in Workers /\ c \in Nodes /\ Parent[c] = n /\ c # n /\ n \in Workers
    BY <1>2, Tree, Below DEF Workers
  <2>2. c \in Subtree(c) /\ c \in Subtree(n) /\ n \in Subtree(n)
    BY <2>1, Below
  <2> DEFINE S == {k \in Workers : k \in Subtree(c) /\ c \in Subtree(k)}
  <2>3. PICK k \in S : Parent[k] \notin S
    <3>1. S \in SUBSET Workers /\ c \in S
      BY <2>1, <2>2
    <3> HIDE DEF S
    <3> QED
      BY <3>1, TreeAssumption
  <2>4. k \in Workers /\ k \in Nodes /\ Parent[k] \in Nodes /\ k \in Children(Parent[k])
    BY <2>3, Tree DEF Workers
  <2>5. Parent[k] \in Subtree(c)
    BY <1>2, <2>1, <2>3, <2>4, Below
  <2>6. c \in Subtree(Parent[k])
    <3>1. Parent[k] \in Subtree(Parent[k])
      BY <2>4, Below
    <3>2. k \in Subtree(Parent[k])
      BY <2>4, <3>1, Below
    <3> QED
      BY <1>1, <2>1, <2>3, <2>4, <3>2
  <2>7. Parent[k] \in Workers
    BY <2>1, <2>4, <2>5, Below
  <2> QED
    BY <2>3, <2>5, <2>6, <2>7
<1> QED
  BY <1>1, <1>2

(***************************************************************************)
(* Queues.                                                                 *)
(***************************************************************************)
Of(s, type) == {i \in DOMAIN s : s[i].type = type}

(* The indexes of a queue, and of the commands of one type in it.           *)
LEMMA Indexes ==
    ASSUME NEW s \in Seq(Cmds)
    PROVE  /\ Len(s) \in Nat /\ DOMAIN s = 1 .. Len(s)
           /\ \A i \in DOMAIN s : s[i] \in Cmds
           /\ \A type : IsFiniteSet(Of(s, type)) /\ Cardinality(Of(s, type)) \in Nat
           /\ \A type : Of(s, type) = {} <=> Cardinality(Of(s, type)) = 0
           /\ s = <<>> <=> Len(s) = 0
<1>1. Len(s) \in Nat /\ DOMAIN s = 1 .. Len(s) /\ \A i \in DOMAIN s : s[i] \in Cmds
  OBVIOUS
<1>2. IsFiniteSet(DOMAIN s)
  BY <1>1, FS_Interval
<1>3. \A type : IsFiniteSet(Of(s, type))
  BY <1>2, FS_Subset DEF Of
<1>4. \A type : Cardinality(Of(s, type)) \in Nat /\ (Of(s, type) = {} <=> Cardinality(Of(s, type)) = 0)
  BY <1>3, FS_CardinalityType, FS_EmptySet
<1> QED
  BY <1>1, <1>3, <1>4

(* What Head and Tail say of the commands of a queue and of their numbers.  *)
LEMMA Popped ==
    ASSUME NEW s \in Seq(Cmds), s # <<>>
    PROVE  /\ Head(s) = s[1] /\ 1 \in DOMAIN s /\ Head(s) \in Cmds
           /\ Tail(s) \in Seq(Cmds) /\ Len(Tail(s)) = Len(s) - 1
           /\ \A i \in DOMAIN Tail(s) : i + 1 \in DOMAIN s /\ Tail(s)[i] = s[i + 1]
           /\ \A i \in DOMAIN s : i # 1 => i - 1 \in DOMAIN Tail(s) /\ Tail(s)[i - 1] = s[i]
           /\ \A type : Cardinality(Of(Tail(s), type)) =
                IF Head(s).type = type THEN Cardinality(Of(s, type)) - 1
                                       ELSE Cardinality(Of(s, type))
<1>1. /\ Head(s) = s[1] /\ 1 \in DOMAIN s /\ Head(s) \in Cmds
      /\ Tail(s) \in Seq(Cmds) /\ Len(Tail(s)) = Len(s) - 1
      /\ \A i \in DOMAIN Tail(s) : i + 1 \in DOMAIN s /\ Tail(s)[i] = s[i + 1]
      /\ \A i \in DOMAIN s : i # 1 => i - 1 \in DOMAIN Tail(s) /\ Tail(s)[i - 1] = s[i]
  BY HeadTailProperties
<1>2. ASSUME NEW type
      PROVE  Cardinality(Of(Tail(s), type)) =
                IF Head(s).type = type THEN Cardinality(Of(s, type)) - 1
                                       ELSE Cardinality(Of(s, type))
  <2> DEFINE rest == Of(s, type) \ {1}
             f == [i \in Of(Tail(s), type) |-> i + 1]
  <2>1. f \in Bijection(Of(Tail(s), type), rest)
    <3>1. f \in [Of(Tail(s), type) -> rest]
      BY <1>1, Indexes DEF Of
    <3>2. \A i, j \in Of(Tail(s), type) : f[i] = f[j] => i = j
      BY <1>1, Indexes DEF Of
    <3>3. ASSUME NEW j \in rest PROVE \E i \in Of(Tail(s), type) : f[i] = j
      <4>1. j - 1 \in Of(Tail(s), type) /\ j \in Int
        BY <1>1, <3>3, Indexes DEF Of
      <4> QED
        BY <4>1
    <3> HIDE DEF f, rest
    <3> QED
      BY <3>1, <3>2, <3>3 DEF Bijection, Injection, Surjection, IsInjective
  <2>2. IsFiniteSet(Of(s, type)) /\ IsFiniteSet(Of(Tail(s), type))
    BY <1>1, Indexes
  <2>3. Cardinality(Of(Tail(s), type)) = Cardinality(rest)
    <3> HIDE DEF f, rest
    <3> QED
      BY <2>1, <2>2, FS_Bijection DEF ExistsBijection
  <2>4. CASE Head(s).type = type
    BY <1>1, <2>2, <2>3, <2>4, FS_RemoveElement DEF Of
  <2>5. CASE Head(s).type # type
    <3>1. rest = Of(s, type)
      BY <1>1, <2>5 DEF Of
    <3> QED
      BY <2>3, <2>5, <3>1
  <2> QED
    BY <2>4, <2>5
<1> QED
  BY <1>1, <1>2

(* The same of Append.                                                      *)
LEMMA Appended ==
    ASSUME NEW s \in Seq(Cmds), NEW cmd \in Cmds
    PROVE  /\ Append(s, cmd) \in Seq(Cmds) /\ Len(Append(s, cmd)) = Len(s) + 1
           /\ \A i \in DOMAIN s : i \in DOMAIN Append(s, cmd) /\ Append(s, cmd)[i] = s[i]
           /\ Len(s) + 1 \in DOMAIN Append(s, cmd) /\ Append(s, cmd)[Len(s) + 1] = cmd
           /\ \A i \in DOMAIN Append(s, cmd) : i \in DOMAIN s \/ i = Len(s) + 1
           /\ \A type : Cardinality(Of(Append(s, cmd), type)) =
                IF cmd.type = type THEN Cardinality(Of(s, type)) + 1
                                   ELSE Cardinality(Of(s, type))
<1>1. /\ Append(s, cmd) \in Seq(Cmds) /\ Len(Append(s, cmd)) = Len(s) + 1
      /\ \A i \in DOMAIN s : i \in DOMAIN Append(s, cmd) /\ Append(s, cmd)[i] = s[i]
      /\ Len(s) + 1 \in DOMAIN Append(s, cmd) /\ Append(s, cmd)[Len(s) + 1] = cmd
      /\ \A i \in DOMAIN Append(s, cmd) : i \in DOMAIN s \/ i = Len(s) + 1
      /\ Len(s) + 1 \notin DOMAIN s
  BY AppendProperties
<1>2. ASSUME NEW type
      PROVE  Cardinality(Of(Append(s, cmd), type)) =
                IF cmd.type = type THEN Cardinality(Of(s, type)) + 1
                                   ELSE Cardinality(Of(s, type))
  <2>1. Of(Append(s, cmd), type) =
            IF cmd.type = type THEN Of(s, type) \cup {Len(s) + 1} ELSE Of(s, type)
    BY <1>1 DEF Of
  <2>2. IsFiniteSet(Of(s, type)) /\ Len(s) + 1 \notin Of(s, type)
    <3>1. IsFiniteSet(Of(s, type)) /\ Of(s, type) \subseteq DOMAIN s
      BY Indexes DEF Of
    <3> QED
      BY <1>1, <3>1
  <2> QED
    BY <2>1, <2>2, FS_AddElement
<1> QED
  BY <1>1, <1>2

(* What is left of a queue that is superseded as a whole, or after its INIT. *)
LEMMA OthersLeft ==
    ASSUME NEW s \in Seq(Cmds)
    PROVE  /\ (\A i \in DOMAIN s : Superseded(s[i])) => Others(s) = <<>>
           /\ /\ s # <<>> /\ ~Superseded(s[1])
              /\ \A i \in DOMAIN s : i # 1 => Superseded(s[i])
              => Others(s) = <<s[1]>>
<1> DEFINE keep == {i \in DOMAIN s : ~Superseded(s[i])}
           o == [k \in 1 .. Cardinality(keep) |->
                    s[CHOOSE i \in keep : Cardinality({j \in keep : j < i}) = k - 1]]
<1>1. Others(s) = o
  BY DEF Others
<1>2. ASSUME \A i \in DOMAIN s : Superseded(s[i]) PROVE Others(s) = <<>>
  <2>1. keep = {}
    BY <1>2
  <2>2. Cardinality(keep) = 0
    BY <2>1, FS_EmptySet
  <2> HIDE DEF keep
  <2> QED
    BY <1>1, <2>2
<1>3. ASSUME s # <<>>, ~Superseded(s[1]), \A i \in DOMAIN s : i # 1 => Superseded(s[i])
      PROVE  Others(s) = <<s[1]>>
  <2>1. keep = {1}
    BY <1>3, Indexes
  <2>2. Cardinality(keep) = 1
    BY <2>1, FS_Singleton
  <2>3. {j \in keep : j < 1} = {}
    BY <2>1
  <2>4. Cardinality({j \in keep : j < 1}) = 0
    BY <2>3, FS_EmptySet
  <2> HIDE DEF keep
  <2>5. ASSUME NEW k \in 1 .. 1
        PROVE  s[CHOOSE i \in keep : Cardinality({j \in keep : j < i}) = k - 1] = s[1]
    <3>1. k - 1 = 0
      OBVIOUS
    <3>2. (CHOOSE i \in keep : Cardinality({j \in keep : j < i}) = 0) = 1
      BY <2>1, <2>4
    <3> QED
      BY <3>1, <3>2
  <2>6. o = [k \in 1 .. 1 |-> s[1]]
    BY <2>2, <2>5
  <2>7. [k \in 1 .. 1 |-> s[1]] = <<s[1]>>
    OBVIOUS
  <2> QED
    BY <1>1, <2>6, <2>7
<1> QED
  BY <1>2, <1>3

(* A node has a command of a type if and only if it has a positive number   *)
(* of them.                                                                 *)
LEMMA Counting ==
    ASSUME TypeOK, NEW n \in Nodes
    PROVE  /\ cmdQueue[n] \in Seq(Cmds)
           /\ \A type : Num(n, type) \in Nat /\ (Has(n, type) <=> Num(n, type) # 0)
           /\ \A type : Has(n, type) <=> \E i \in DOMAIN cmdQueue[n] : cmdQueue[n][i].type = type
<1>1. cmdQueue[n] \in Seq(Cmds)
  BY DEF TypeOK
<1>2. ASSUME NEW type
      PROVE  /\ Num(n, type) \in Nat /\ (Has(n, type) <=> Num(n, type) # 0)
             /\ Has(n, type) <=> \E i \in DOMAIN cmdQueue[n] : cmdQueue[n][i].type = type
  <2>1. Queued(n, type) = Of(cmdQueue[n], type)
    BY DEF Queued, Of
  <2>2. /\ Cardinality(Of(cmdQueue[n], type)) \in Nat
        /\ Of(cmdQueue[n], type) = {} <=> Cardinality(Of(cmdQueue[n], type)) = 0
    BY <1>1, Indexes
  <2>3. Has(n, type) <=> \E i \in DOMAIN cmdQueue[n] : cmdQueue[n][i].type = type
    BY DEF Has, Queued
  <2> QED
    BY <2>1, <2>2, <2>3 DEF Num, Has
<1> QED
  BY <1>1, <1>2

(* Node m has taken the first command of its queue.                         *)
Took(m) ==
    /\ cmdQueue'[m] = Tail(cmdQueue[m]) /\ cmdQueue[m][1] = Head(cmdQueue[m])
    /\ 1 \in DOMAIN cmdQueue[m]
    /\ \A i \in DOMAIN cmdQueue'[m] :
            i + 1 \in DOMAIN cmdQueue[m] /\ cmdQueue'[m][i] = cmdQueue[m][i + 1]
    /\ \A i \in DOMAIN cmdQueue[m] :
            i # 1 => i - 1 \in DOMAIN cmdQueue'[m] /\ cmdQueue'[m][i - 1] = cmdQueue[m][i]
    /\ \A type \in CmdTypes :
            Num(m, type)' = IF Head(cmdQueue[m]).type = type THEN Num(m, type) - 1
                                                             ELSE Num(m, type)

(* A step that takes the first command of the queues of P and appends cmd   *)
(* to those of to.                                                          *)
Sent(P, to, cmd) ==
    /\ cmdQueue' \in [Nodes -> Seq(Cmds)]
    /\ \A m \in P : Took(m)
    /\ \A m \in to :
        /\ cmdQueue'[m] = Append(cmdQueue[m], cmd)
        /\ \A i \in DOMAIN cmdQueue[m] :
                i \in DOMAIN cmdQueue'[m] /\ cmdQueue'[m][i] = cmdQueue[m][i]
        /\ \A i \in DOMAIN cmdQueue'[m] : i \in DOMAIN cmdQueue[m] \/ cmdQueue'[m][i] = cmd
        /\ \E j \in DOMAIN cmdQueue'[m] :
                cmdQueue'[m][j] = cmd /\ \A i \in DOMAIN cmdQueue[m] : i < j
        /\ \A type \in CmdTypes :
                Num(m, type)' = IF cmd.type = type THEN Num(m, type) + 1 ELSE Num(m, type)
    /\ \A m \in Nodes \ (P \union to) :
        cmdQueue'[m] = cmdQueue[m] /\ \A type \in CmdTypes : Num(m, type)' = Num(m, type)
    /\ \A m \in Nodes, type \in CmdTypes :
        /\ Num(m, type) \in Nat /\ Num(m, type)' \in Nat
        /\ Has(m, type)' <=> Num(m, type)' # 0
        /\ Has(m, type) <=> Num(m, type) # 0

(* Num is a cardinality of indexes, before a step and after it.             *)
LEMMA Numbers ==
    ASSUME NEW m, cmdQueue[m] \in Seq(Cmds), cmdQueue'[m] \in Seq(Cmds), NEW type
    PROVE  /\ Num(m, type) = Cardinality(Of(cmdQueue[m], type))
           /\ Num(m, type)' = Cardinality(Of(cmdQueue'[m], type))
           /\ Num(m, type) \in Nat /\ Num(m, type)' \in Nat
           /\ Has(m, type)' <=> Num(m, type)' # 0
           /\ Has(m, type) <=> Num(m, type) # 0
<1>1. Queued(m, type) = Of(cmdQueue[m], type) /\ Queued(m, type)' = Of(cmdQueue'[m], type)
  BY DEF Queued, Of
<1>2. /\ Cardinality(Of(cmdQueue[m], type)) \in Nat
      /\ Of(cmdQueue[m], type) = {} <=> Cardinality(Of(cmdQueue[m], type)) = 0
  BY Indexes
<1>3. /\ Cardinality(Of(cmdQueue'[m], type)) \in Nat
      /\ Of(cmdQueue'[m], type) = {} <=> Cardinality(Of(cmdQueue'[m], type)) = 0
  BY Indexes
<1> QED
  BY <1>1, <1>2, <1>3 DEF Num, Has

(* Took follows from the Tail of the code.                                  *)
LEMMA Taking ==
    ASSUME NEW m, cmdQueue[m] \in Seq(Cmds), cmdQueue[m] # <<>>,
           cmdQueue'[m] = Tail(cmdQueue[m])
    PROVE  Took(m) /\ cmdQueue'[m] \in Seq(Cmds)
<1>1. /\ Head(cmdQueue[m]) = cmdQueue[m][1] /\ 1 \in DOMAIN cmdQueue[m]
      /\ \A i \in DOMAIN Tail(cmdQueue[m]) :
              i + 1 \in DOMAIN cmdQueue[m] /\ Tail(cmdQueue[m])[i] = cmdQueue[m][i + 1]
      /\ \A i \in DOMAIN cmdQueue[m] :
              i # 1 => i - 1 \in DOMAIN Tail(cmdQueue[m])
                       /\ Tail(cmdQueue[m])[i - 1] = cmdQueue[m][i]
      /\ cmdQueue'[m] \in Seq(Cmds)
  BY Popped
<1>2. ASSUME NEW type \in CmdTypes
      PROVE  Num(m, type)' = IF Head(cmdQueue[m]).type = type THEN Num(m, type) - 1
                                                              ELSE Num(m, type)
  <2>1. Cardinality(Of(Tail(cmdQueue[m]), type)) =
          IF Head(cmdQueue[m]).type = type THEN Cardinality(Of(cmdQueue[m], type)) - 1
                                           ELSE Cardinality(Of(cmdQueue[m], type))
    BY Popped
  <2>2. /\ Num(m, type) = Cardinality(Of(cmdQueue[m], type))
        /\ Num(m, type)' = Cardinality(Of(cmdQueue'[m], type))
    BY <1>1, Numbers
  <2> QED
    BY <2>1, <2>2
<1> QED
  BY <1>1, <1>2 DEF Took

(* Sent follows from the queues the handlers compute.                       *)
LEMMA Sending ==
    ASSUME TypeOK, NEW P \in SUBSET Nodes, NEW to \in SUBSET Nodes, P \cap to = {},
           NEW cmd \in Cmds, \A m \in P : cmdQueue[m] # <<>>,
           cmdQueue' = [m \in Nodes |-> IF m \in P THEN Tail(cmdQueue[m])
                                        ELSE IF m \in to THEN Append(cmdQueue[m], cmd)
                                        ELSE cmdQueue[m]]
    PROVE  Sent(P, to, cmd)
<1>1. \A m \in Nodes : cmdQueue[m] \in Seq(Cmds)
  BY DEF TypeOK
<1>2. \A m \in Nodes : cmdQueue'[m] = IF m \in P THEN Tail(cmdQueue[m])
                                      ELSE IF m \in to THEN Append(cmdQueue[m], cmd)
                                      ELSE cmdQueue[m]
  OBVIOUS
<1>6. ASSUME NEW m \in P
      PROVE  Took(m) /\ cmdQueue'[m] \in Seq(Cmds)
  <2>1. cmdQueue'[m] = Tail(cmdQueue[m]) /\ cmdQueue[m] \in Seq(Cmds) /\ cmdQueue[m] # <<>>
    BY <1>1, <1>2
  <2> QED
    BY <2>1, Taking
<1>3. ASSUME NEW m \in Nodes
      PROVE  cmdQueue'[m] \in Seq(Cmds)
  <2>1. Append(cmdQueue[m], cmd) \in Seq(Cmds)
    BY <1>1, Appended
  <2> QED
    BY <2>1, <1>1, <1>2, <1>6
<1>4. cmdQueue' \in [Nodes -> Seq(Cmds)]
  BY <1>3
<1>5. ASSUME NEW m \in Nodes, NEW type
      PROVE  /\ Num(m, type) = Cardinality(Of(cmdQueue[m], type))
             /\ Num(m, type)' = Cardinality(Of(cmdQueue'[m], type))
             /\ Num(m, type) \in Nat /\ Num(m, type)' \in Nat
             /\ Has(m, type)' <=> Num(m, type)' # 0
             /\ Has(m, type) <=> Num(m, type) # 0
  <2>1. cmdQueue[m] \in Seq(Cmds) /\ cmdQueue'[m] \in Seq(Cmds)
    BY <1>1, <1>3
  <2> QED
    BY <2>1, Numbers
<1>7. ASSUME NEW m \in to
      PROVE  /\ cmdQueue'[m] = Append(cmdQueue[m], cmd)
             /\ \A i \in DOMAIN cmdQueue[m] :
                    i \in DOMAIN cmdQueue'[m] /\ cmdQueue'[m][i] = cmdQueue[m][i]
             /\ \A i \in DOMAIN cmdQueue'[m] : i \in DOMAIN cmdQueue[m] \/ cmdQueue'[m][i] = cmd
             /\ \E j \in DOMAIN cmdQueue'[m] :
                    cmdQueue'[m][j] = cmd /\ \A i \in DOMAIN cmdQueue[m] : i < j
             /\ \A type \in CmdTypes :
                    Num(m, type)' = IF cmd.type = type THEN Num(m, type) + 1 ELSE Num(m, type)
  <2>1. cmdQueue'[m] = Append(cmdQueue[m], cmd) /\ cmdQueue[m] \in Seq(Cmds)
    BY <1>1, <1>2
  <2> DEFINE s == cmdQueue[m]
             r == cmdQueue'[m]
  <2>2. /\ \A i \in DOMAIN s : i \in DOMAIN r /\ r[i] = s[i]
        /\ Len(s) + 1 \in DOMAIN r /\ r[Len(s) + 1] = cmd
        /\ \A i \in DOMAIN r : i \in DOMAIN s \/ i = Len(s) + 1
    BY <2>1, Appended
  <2>3. \A i \in DOMAIN s : i < Len(s) + 1
    BY <2>1, Indexes
  <2>4. ASSUME NEW type \in CmdTypes
        PROVE  Num(m, type)' = IF cmd.type = type THEN Num(m, type) + 1 ELSE Num(m, type)
    <3>1. Cardinality(Of(Append(s, cmd), type)) =
            IF cmd.type = type THEN Cardinality(Of(s, type)) + 1 ELSE Cardinality(Of(s, type))
      BY <2>1, Appended
    <3> QED
      BY <2>1, <3>1, <1>5
  <2>5. \E j \in DOMAIN r : r[j] = cmd /\ \A i \in DOMAIN s : i < j
    BY <2>2, <2>3
  <2>6. \A i \in DOMAIN r : i \in DOMAIN s \/ r[i] = cmd
    BY <2>2
  <2> QED
    BY <2>1, <2>2, <2>4, <2>5, <2>6
<1>8. ASSUME NEW m \in Nodes \ (P \union to)
      PROVE  cmdQueue'[m] = cmdQueue[m] /\ \A type \in CmdTypes : Num(m, type)' = Num(m, type)
  <2>1. cmdQueue'[m] = cmdQueue[m]
    BY <1>2
  <2> QED
    BY <2>1, <1>5
<1> QED
  BY <1>4, <1>5, <1>6, <1>7, <1>8, ZenonT(60) DEF Sent, Took

(***************************************************************************)
(* What the invariant says of a node.                                      *)
(***************************************************************************)
(* A node that waits for no child is owed nothing by its children.          *)
LEMMA NoChildOwes ==
    ASSUME IInv, NEW n \in Nodes
    PROVE  /\ stopAckWaitChildren[n] = 0 =>
                ~Has(n, "STOP_ACK") /\ \A c \in Children(n) : ~OwesStopAck(c)
           /\ Cardinality({c \in Children(n) : OwesStopAck(c)}) \in Nat
           /\ stopAckWaitChildren[n] =
                Cardinality({c \in Children(n) : OwesStopAck(c)}) + Num(n, "STOP_ACK")
<1> DEFINE owing == {c \in Children(n) : OwesStopAck(c)}
<1>1. IsFiniteSet(owing)
  BY Tree, FS_Subset
<1>2. stopAckWaitChildren[n] = Cardinality(owing) + Num(n, "STOP_ACK")
  BY DEF IInv, Acks, StopAcksBalance, Num
<1>3. Cardinality(owing) \in Nat /\ (Cardinality(owing) = 0 <=> owing = {})
  BY <1>1, FS_CardinalityType, FS_EmptySet
<1>4. Num(n, "STOP_ACK") \in Nat /\ (Has(n, "STOP_ACK") <=> Num(n, "STOP_ACK") # 0)
  BY Counting DEF IInv
<1> QED
  BY <1>2, <1>3, <1>4

(* When the root waits for nobody, no acknowledgement is owed anywhere: a   *)
(* node that owes one has a parent that waits, and the tree ends at the     *)
(* root.                                                                    *)
LEMMA NobodyOwes ==
    ASSUME IInv, stopAckWaitChildren[Root] = 0
    PROVE  \A n \in Workers : ~OwesStopAck(n) /\ ~Coming(n, "STOP_SEARCH")
<1> DEFINE S == {n \in Workers : OwesStopAck(n)}
<1>1. S = {}
  <2> SUFFICES ASSUME S # {} PROVE FALSE
    OBVIOUS
  <2>1. PICK n \in S : Parent[n] \notin S
    <3>1. S \in SUBSET Workers
      OBVIOUS
    <3> HIDE DEF S
    <3> QED
      BY <3>1, TreeAssumption
  <2>2. Parent[n] \in Nodes /\ n \in Children(Parent[n])
    BY Tree
  <2>3. stopAckWaitChildren[Parent[n]] = 0
    BY <2>1, <2>2 DEF Workers, OwesStopAck, hasStopAck
  <2> QED
    BY <2>2, <2>3, NoChildOwes
<1> QED
  BY <1>1 DEF Coming, OwesStopAck, Has

(* Between two searches and after a quit, a worker has no job, does not     *)
(* search, owes nothing and has no command but of the quit.                 *)
LEMMA Rest ==
    ASSUME IInv, Resting, NEW n \in Workers
    PROVE  /\ jobId[n] = -1 /\ ~Searching(n) /\ hasStopAck(n) /\ ~OwesStopAck(n)
           /\ \A i \in DOMAIN cmdQueue[n] : cmdQueue[n][i].type \in {"QUIT", "QUIT_ACK"}
           /\ pc[Root] = "idle" => cmdQueue[n] = <<>>
<1>1. ~Stopping
  BY DEF Resting, Stopping, Quitting
<1>2. stopAckWaitChildren[Root] = 0
  BY <1>1 DEF IInv, Acks
<1>3. ~OwesStopAck(n) /\ PastStop(n) /\ \A c \in Children(n) : ~OwesStopAck(c)
  BY <1>2, NobodyOwes, Tree DEF PastStop, Workers
<1>4. hasStopAck(n) /\ ~Has(n, "STOP_ACK")
  BY <1>3, NoChildOwes DEF OwesStopAck, hasStopAck, Workers
<1>5. jobId[n] = -1 /\ ~Searching(n)
  BY <1>3, <1>4 DEF IInv, StopWave, hasStopAck
<1>6. ASSUME NEW i \in DOMAIN cmdQueue[n]
      PROVE  cmdQueue[n][i].type \in {"QUIT", "QUIT_ACK"}
  <2>1. \A j \in DOMAIN cmdQueue[n] : cmdQueue[n][j].type # "STOP_ACK"
    BY <1>4 DEF Has, Queued
  <2> QED
    BY <1>3, <2>1 DEF IInv, StopWave
<1>7. pc[Root] = "idle" => cmdQueue[n] = <<>>
  <2> SUFFICES ASSUME pc[Root] = "idle", cmdQueue[n] # <<>> PROVE FALSE
    OBVIOUS
  <2>1. 1 \in DOMAIN cmdQueue[n] /\ n \in Nodes
    BY Popped DEF IInv, TypeOK, Workers
  <2>2. Quitting
    BY <1>6, <2>1 DEF IInv, Queues
  <2> QED
    BY <2>2 DEF Quitting
<1> QED
  BY <1>3, <1>4, <1>5, <1>6, <1>7

(* Where a search starts or stops, no node is leaving.                      *)
LEMMA Front ==
    ASSUME IInv, NEW n \in Workers, Has(n, "START_SEARCH") \/ Has(n, "STOP_SEARCH")
    PROVE  /\ ~Resting /\ ~Quitting /\ hasStopAck(n)
           /\ ~Has(n, "STOP_ACK") /\ \A c \in Children(n) : ~OwesStopAck(c)
<1>1. ~Resting
  BY Rest DEF Has, Queued
<1>2. hasStopAck(n)
  BY DEF IInv, Acks
<1> QED
  BY <1>1, <1>2, NoChildOwes DEF Resting, hasStopAck, Workers

(* What a start or stop command leaves in a queue: at most an INIT.         *)
LEMMA Left ==
    ASSUME IInv, NEW n \in Workers, hasStopAck(n), ~Quitting
    PROVE  /\ Has(n, "INIT_SEARCH") => Others(cmdQueue[n]) = <<cmdQueue[n][1]>>
                                       /\ cmdQueue[n][1].type = "INIT_SEARCH"
                                       /\ cmdQueue[n][1] \in Cmds
           /\ ~Has(n, "INIT_SEARCH") => Others(cmdQueue[n]) = <<>>
<1> n \in Nodes
  BY DEF Workers
<1>1. cmdQueue[n] \in Seq(Cmds) /\ \A i \in DOMAIN cmdQueue[n] : cmdQueue[n][i] \in Cmds
  BY Indexes DEF IInv, TypeOK
<1>2. \A i \in DOMAIN cmdQueue[n] :
        Superseded(cmdQueue[n][i]) \/ cmdQueue[n][i].type = "INIT_SEARCH"
  <2>1. \A i \in DOMAIN cmdQueue[n] : cmdQueue[n][i].type \notin {"STOP_ACK", "QUIT", "QUIT_ACK"}
    <3>1. ~Has(n, "STOP_ACK")
      BY NoChildOwes DEF hasStopAck
    <3> QED
      BY <3>1 DEF IInv, Queues, Has, Queued
  <2>2. \A i \in DOMAIN cmdQueue[n] : cmdQueue[n][i].type \in CmdTypes
    BY <1>1 DEF Cmds
  <2> QED
    BY <2>1, <2>2 DEF Superseded, CmdTypes
<1>3. CASE Has(n, "INIT_SEARCH")
  <2>1. /\ cmdQueue[n][1].type = "INIT_SEARCH"
        /\ \A i \in DOMAIN cmdQueue[n] :
                i # 1 => cmdQueue[n][i].type \in {"START_SEARCH", "STOP_SEARCH"}
    BY <1>3 DEF IInv, InitWave
  <2>2. cmdQueue[n] # <<>>
    BY <1>3, <1>1 DEF Has, Queued
  <2>3. /\ ~Superseded(cmdQueue[n][1])
        /\ \A i \in DOMAIN cmdQueue[n] : i # 1 => Superseded(cmdQueue[n][i])
    BY <2>1 DEF Superseded
  <2>4. cmdQueue[n][1] \in Cmds
    BY <1>1, <2>2, Popped
  <2> QED
    BY <1>1, <1>3, <2>1, <2>2, <2>3, <2>4, OthersLeft
<1>4. CASE ~Has(n, "INIT_SEARCH")
  BY <1>1, <1>2, <1>4, OthersLeft DEF Has, Queued
<1> QED
  BY <1>3, <1>4

(***************************************************************************)
(* Steps that leave the queues and what is waited for alone.               *)
(***************************************************************************)
(* Queues that stay hold what they held.                                    *)
LEMMA SameQueues ==
    ASSUME cmdQueue' = cmdQueue
    PROVE  /\ \A n, type : /\ Queued(n, type)' = Queued(n, type) /\ Num(n, type)' = Num(n, type)
                           /\ Has(n, type)' = Has(n, type)
                           /\ Coming(n, type)' = Coming(n, type)
<1>1. \A n, type : Queued(n, type)' = Queued(n, type)
  BY DEF Queued
<1>2. \A n, type : Has(n, type)' = Has(n, type) /\ Num(n, type)' = Num(n, type)
  BY <1>1 DEF Has, Num
<1>3. \A n, type : Coming(n, type)' = Coming(n, type)
  BY <1>2 DEF Coming
<1> QED
  BY <1>1, <1>2, <1>3

(* With the same queues and counters, the same acknowledgements are owed.   *)
LEMMA SameAcks ==
    ASSUME cmdQueue' = cmdQueue, UNCHANGED ackVars
    PROVE  /\ \A n : hasStopAck(n)' = hasStopAck(n) /\ OwesStopAck(n)' = OwesStopAck(n)
           /\ \A n : {c \in Children(n) : OwesStopAck(c)}' = {c \in Children(n) : OwesStopAck(c)}
           /\ StopAcksBalance' = StopAcksBalance
<1>1. \A n : hasStopAck(n)' = hasStopAck(n)
  BY DEF hasStopAck, ackVars
<1>2. \A n : OwesStopAck(n)' = OwesStopAck(n)
  BY <1>1, SameQueues DEF OwesStopAck
<1>3. \A n : {c \in Children(n) : OwesStopAck(c)}' = {c \in Children(n) : OwesStopAck(c)}
  BY <1>2
<1>4. StopAcksBalance' = StopAcksBalance
  BY <1>3, SameQueues DEF StopAcksBalance, ackVars
<1> QED
  BY <1>1, <1>2, <1>3, <1>4

(* The same for those of a quit.                                            *)
LEMMA SameQuits ==
    ASSUME IInv, cmdQueue' = cmdQueue, UNCHANGED ackVars, ~Quitting' => ~Quitting
    PROVE  Quits'
<1>1. quitAckWaitChildren' = quitAckWaitChildren
  BY DEF ackVars
<1>2. \A n, type : /\ Queued(n, type)' = Queued(n, type) /\ Num(n, type)' = Num(n, type)
                   /\ Has(n, type)' = Has(n, type)
  BY SameQueues
<1>3. \A n : {c \in Children(n) : quitAckWaitChildren'[c] # 0}
                = {c \in Children(n) : quitAckWaitChildren[c] # 0}
  BY <1>1
<1> QED
  BY <1>1, <1>2, <1>3 DEF IInv, Quits

(* A step that changes the place of worker n, and perhaps its stop handler  *)
(* and flag, and nothing else.                                              *)
LEMMA WorkerMoves ==
    ASSUME IInv, NEW n \in Workers, NEW p \in {"wait", "poll", "search", "searchPoll", "exited"},
           UNCHANGED <<cmdQueue, ackVars, jobId, hasResult, search, accepted, stats>>,
           pc' = [pc EXCEPT ![n] = p],
           stopAckWaitSelf[n] => p \in {"poll", "searchPoll"},
           handlerJob' \in [Workers -> JobIds \union {-1}], handlerSearch' \in [Workers -> Searches],
           \A m \in Workers : m # n => handlerJob'[m] = handlerJob[m]
                                       /\ handlerSearch'[m] = handlerSearch[m],
           p = "search" => jobId[n] = handlerJob'[n] /\ jobId[n] # -1,
           p \in {"search", "searchPoll"} => handlerJob'[n] # -1 /\ handlerSearch'[n] = search[Root],
           p = "searchPoll" => jobId[n] # -1,
           Notifications', notified' \in [Nodes -> BOOLEAN]
    PROVE  IInv'
<1> n \in Nodes /\ n # Root
  BY Tree DEF Workers
<1>1. /\ pc'[Root] = pc[Root] /\ pc'[n] = p
      /\ \A m \in Workers : m # n => pc'[m] = pc[m]
  BY DEF IInv, TypeOK
<1>2. /\ Active' = Active /\ Stopping' = Stopping /\ Quitting' = Quitting /\ Resting' = Resting
  BY <1>1 DEF Active, Stopping, Quitting, Resting
<1>3. TypeOK'
  BY DEF IInv, TypeOK, ackVars
<1>4. Places'
  BY <1>1, <1>2 DEF IInv, Places
<1>5. Queues'
  BY <1>1, <1>2, SameQueues DEF IInv, Queues
<1>6. Acks'
  BY <1>1, <1>2, SameQueues, SameAcks DEF IInv, Acks, ackVars, Searching
<1>7. StopWave'
  <2>1. \A m \in Workers : PastStop(m)' = PastStop(m)
    BY <1>2, SameQueues DEF PastStop
  <2>2. Searching(n)' /\ PastStop(n) => stopAckWaitSelf[n]
    BY <1>1 DEF Searching, IInv, StopWave
  <2>3. \A m \in Workers : m # n => Searching(m)' = Searching(m)
    BY <1>1 DEF Searching
  <2> QED
    BY <2>1, <2>2, <2>3, SameAcks DEF IInv, StopWave, ackVars
<1>8. InitWave'
  <2>1. \A m \in Workers : m # n => Searching(m)' = Searching(m)
    BY <1>1 DEF Searching
  <2>2. Searching(n)' => jobId[n] # -1
    BY <1>1 DEF Searching
  <2> QED
    BY <2>1, <2>2, SameAcks, SameQueues DEF IInv, InitWave
<1>9. Current'
  BY <1>1, <1>2, SameQueues DEF IInv, Current, Searching, ResultsAreCurrent
<1>10. Quits'
  BY <1>2, SameQuits
<1> QED
  BY <1>3, <1>4, <1>5, <1>6, <1>7, <1>8, <1>9, <1>10 DEF IInv

(* The flags of a step that changes the place of worker n only.             *)
LEMMA WakeUpStep ==
    ASSUME IInv, NEW n \in Workers, WakeUp(n)
    PROVE  IInv'
<1> n \in Nodes
  BY DEF Workers
<1>1. /\ UNCHANGED <<cmdQueue, ackVars, handlerVars, jobId, hasResult, search, accepted, stats>>
      /\ pc' = [pc EXCEPT ![n] = "poll"] /\ notified' = [notified EXCEPT ![n] = FALSE]
  BY DEF WakeUp
<1>2. Notifications'
  BY <1>1 DEF IInv, Notifications, NoLostNotification, Searching, TypeOK, ackVars, handlerVars
<1>3. notified' \in [Nodes -> BOOLEAN]
  BY <1>1 DEF IInv, TypeOK
<1> QED
  BY <1>1, <1>2, <1>3, WorkerMoves DEF IInv, TypeOK, handlerVars

(* Before the root quits no node waits for the acknowledgement of a quit.   *)
LEMMA NobodyQuits ==
    ASSUME IInv, ~Quitting
    PROVE  \A n \in Nodes : quitAckWaitChildren[n] = -1
<1> DEFINE S == {n \in Workers : quitAckWaitChildren[n] # -1}
<1> SUFFICES ASSUME S # {} PROVE FALSE
  BY DEF Workers, IInv, Quits
<1>1. PICK n \in S : Parent[n] \notin S
  <2>1. S \in SUBSET Workers
    OBVIOUS
  <2> HIDE DEF S
  <2> QED
    BY <2>1, TreeAssumption
<1>2. Parent[n] \in Nodes /\ n \in Children(Parent[n])
  BY <1>1, Tree
<1>3. quitAckWaitChildren[Parent[n]] = -1
  BY <1>1, <1>2 DEF Workers, IInv, Quits
<1> QED
  BY <1>1, <1>2, <1>3 DEF IInv, Quits

(* A worker that leaves its loop has nothing left to acknowledge.           *)
LEMMA ExitThreadStep ==
    ASSUME IInv, NEW n \in Workers, ExitThread(n)
    PROVE  IInv'
<1> n \in Nodes
  BY DEF Workers
<1> ~stopAckWaitSelf[n]
  <2>1. Quitting
    BY NobodyQuits DEF ExitThread, hasQuitAck
  <2> QED
    BY <2>1, Rest DEF Resting, hasStopAck
<1>1. /\ UNCHANGED <<cmdQueue, notified, ackVars, handlerVars, jobId, hasResult, search, accepted, stats>>
      /\ pc' = [pc EXCEPT ![n] = "exited"]
  BY DEF ExitThread, commVars
<1>2. Notifications'
  BY <1>1 DEF IInv, Notifications, NoLostNotification, Searching, TypeOK, ackVars, handlerVars
<1> QED
  BY <1>1, <1>2, WorkerMoves DEF IInv, TypeOK, handlerVars

(* The stop handler of a search that begins has the worker's job.           *)
LEMMA BeginSearchStep ==
    ASSUME IInv, NEW n \in Workers, BeginSearch(n)
    PROVE  IInv'
<1> n \in Nodes
  BY DEF Workers
<1>1. /\ UNCHANGED <<cmdQueue, notified, ackVars, jobId, hasResult, search, accepted, stats>>
      /\ pc' = [pc EXCEPT ![n] = "search"] /\ jobId[n] # -1 /\ cmdQueue[n] = <<>>
      /\ handlerJob' = [handlerJob EXCEPT ![n] = jobId[n]]
      /\ handlerSearch' = [handlerSearch EXCEPT ![n] = search[n]]
  BY DEF BeginSearch, commVars
<1>2. Notifications'
  BY <1>1 DEF IInv, Notifications, NoLostNotification, Searching, TypeOK, ackVars
<1>3. ~stopAckWaitSelf[n] /\ search[n] = search[Root]
  BY <1>1 DEF IInv, Acks, Current
<1> QED
  BY <1>1, <1>2, <1>3, WorkerMoves DEF IInv, TypeOK

(* A worker that starts to poll in its search keeps its job.                *)
LEMMA EnterPollStep ==
    ASSUME IInv, NEW n \in Workers, EnterPoll(n)
    PROVE  IInv'
<1> n \in Nodes
  BY DEF Workers
<1>1. /\ UNCHANGED <<cmdQueue, notified, ackVars, handlerVars, jobId, hasResult, search, accepted, stats>>
      /\ pc' = [pc EXCEPT ![n] = "searchPoll"] /\ pc[n] = "search"
  BY DEF EnterPoll, commVars
<1>2. Notifications'
  BY <1>1 DEF IInv, Notifications, NoLostNotification, Searching, TypeOK, ackVars, handlerVars
<1>3. jobId[n] = handlerJob[n] /\ handlerJob[n] # -1 /\ handlerSearch[n] = search[Root]
  BY <1>1 DEF IInv, Acks, Current, Searching
<1> QED
  BY <1>1, <1>2, <1>3, WorkerMoves DEF IInv, TypeOK, handlerVars

(* A worker whose job is that of its stop handler searches on.              *)
LEMMA ContinueSearchStep ==
    ASSUME IInv, NEW n \in Workers, ContinueSearch(n)
    PROVE  IInv'
<1> n \in Nodes
  BY DEF Workers
<1>1. /\ UNCHANGED <<cmdQueue, notified, ackVars, handlerVars, jobId, hasResult, search, accepted, stats>>
      /\ pc' = [pc EXCEPT ![n] = "search"] /\ pc[n] = "searchPoll" /\ jobId[n] = handlerJob[n]
  BY DEF ContinueSearch, commVars
<1>2. Notifications'
  BY <1>1 DEF IInv, Notifications, NoLostNotification, Searching, TypeOK, ackVars, handlerVars
<1>3. handlerJob[n] # -1 /\ handlerSearch[n] = search[Root] /\ ~stopAckWaitSelf[n]
  BY <1>1 DEF IInv, Acks, Current, Searching
<1> QED
  BY <1>1, <1>2, <1>3, WorkerMoves DEF IInv, TypeOK, handlerVars

(* Node counts go up from a node that has taken the INIT of the search, as  *)
(* its parent has.                                                          *)
LEMMA CountsGoUp ==
    ASSUME IInv, NEW n \in Workers, Searching(n), stats' = Reported(n),
           Active' => Active
    PROVE  /\ stats' \in [Nodes -> SUBSET Searches]
           /\ Active' => /\ stats'[Root] \subseteq {search[Root]}
                         /\ \A m \in Workers : ~Coming(m, "INIT_SEARCH") => stats'[m] \subseteq {search[Root]}
<1> n \in Nodes /\ Parent[n] \in Nodes /\ Parent[n] # n /\ Root \in Nodes
  BY Tree DEF Workers
<1>1. ~Coming(n, "INIT_SEARCH")
  BY DEF IInv, InitWave
<1>2. Parent[n] \in Workers => ~Coming(Parent[n], "INIT_SEARCH")
  BY <1>1, Below DEF Coming, Workers
<1>3. handlerSearch[n] = search[Root] /\ search[Root] \in Searches
  BY DEF IInv, Current, TypeOK
<1>4. /\ stats \in [Nodes -> SUBSET Searches]
      /\ \A m \in Nodes : stats'[m] = IF m = Parent[n] THEN stats[m] \union stats[n] \union {search[Root]}
                                      ELSE IF m = n THEN {} ELSE stats[m]
  BY <1>3 DEF Reported, IInv, TypeOK
<1>5. stats' \in [Nodes -> SUBSET Searches]
  BY <1>3, <1>4 DEF Reported
<1>6. ASSUME Active'
      PROVE  /\ stats'[Root] \subseteq {search[Root]}
             /\ \A m \in Workers : ~Coming(m, "INIT_SEARCH") => stats'[m] \subseteq {search[Root]}
  <2>1. /\ stats[Root] \subseteq {search[Root]}
        /\ \A m \in Workers : ~Coming(m, "INIT_SEARCH") => stats[m] \subseteq {search[Root]}
    BY <1>6 DEF IInv, Current
  <2> QED
    BY <2>1, <1>1, <1>2, <1>4 DEF Workers
<1> QED
  BY <1>5, <1>6

(* Node counts that go up are of the root's search.                         *)
LEMMA ReportNodesStep ==
    ASSUME IInv, NEW n \in Workers, ReportNodes(n)
    PROVE  IInv'
<1>1. /\ UNCHANGED <<cmdQueue, notified, ackVars, handlerVars, jobId, hasResult, pc, search, accepted>>
      /\ stats' = Reported(n) /\ Searching(n)
  BY DEF ReportNodes, Searching, commVars
<1>2. /\ Active' = Active /\ Stopping' = Stopping /\ Quitting' = Quitting /\ Resting' = Resting
      /\ \A m : Searching(m)' = Searching(m)
  BY <1>1 DEF Active, Stopping, Quitting, Resting, Searching
<1>3. /\ stats' \in [Nodes -> SUBSET Searches]
      /\ Active' => /\ stats'[Root] \subseteq {search[Root]}
                    /\ \A m \in Workers : ~Coming(m, "INIT_SEARCH")' => stats'[m] \subseteq {search[Root]}
  BY <1>1, <1>2, CountsGoUp, SameQueues
<1>4. TypeOK' /\ Places' /\ Queues' /\ Notifications'
  BY <1>1, <1>2, <1>3, SameQueues
  DEF IInv, TypeOK, Places, Queues, Notifications, NoLostNotification, ackVars, handlerVars
<1>5. Acks' /\ InitWave' /\ Quits'
  BY <1>1, <1>2, SameQueues, SameAcks, SameQuits DEF IInv, Acks, InitWave, ackVars, handlerVars
<1>6. StopWave'
  BY <1>1, <1>2, SameQueues, SameAcks DEF IInv, StopWave, PastStop, ackVars
<1>7. Current'
  BY <1>1, <1>2, <1>3, SameQueues DEF IInv, Current, ResultsAreCurrent, handlerVars
<1> QED
  BY <1>4, <1>5, <1>6, <1>7 DEF IInv

(* A step that changes the place of the root, and nothing else but its      *)
(* flag.                                                                    *)
LEMMA RootMoves ==
    ASSUME IInv, NEW p \in {"between", "search", "searchPoll", "stopPoll", "stopWait",
                            "idle", "quitPoll", "quitWait", "exited"},
           UNCHANGED <<cmdQueue, ackVars, handlerVars, jobId, hasResult, search, accepted, stats>>,
           pc' = [pc EXCEPT ![Root] = p],
           Active' = Active, Quitting' = Quitting, (Stopping \/ Resting)' = (Stopping \/ Resting),
           ~Stopping' => stopAckWaitChildren[Root] = 0,
           p = "idle" => cmdQueue[Root] = <<>>,
           p \in {"stopWait", "quitWait"} /\ ~notified'[Root] => cmdQueue[Root] = <<>>,
           notified' \in [Nodes -> BOOLEAN], \A n \in Workers : notified'[n] = notified[n]
    PROVE  IInv'
<1> Root \in Nodes /\ Root \notin Workers
  BY Tree
<1>1. pc'[Root] = p /\ \A m \in Workers : pc'[m] = pc[m] /\ Searching(m)' = Searching(m)
  BY DEF IInv, TypeOK, Workers, Searching
<1>2. TypeOK' /\ Places'
  BY <1>1 DEF IInv, TypeOK, Places, ackVars, handlerVars
<1>3. Queues'
  BY <1>1, SameQueues DEF IInv, Queues
<1>4. Acks'
  BY <1>1, SameQueues, SameAcks DEF IInv, Acks, ackVars, handlerVars
<1>5. StopWave'
  BY <1>1, SameQueues, SameAcks DEF IInv, StopWave, PastStop, ackVars
<1>6. InitWave'
  BY <1>1, SameQueues, SameAcks DEF IInv, InitWave
<1>9. Quits'
  BY SameQuits
<1>7. Current'
  BY <1>1, SameQueues DEF IInv, Current, ResultsAreCurrent, handlerVars
<1>8. Notifications'
  <2>1. pc'[Root] # "wait"
    BY <1>1
  <2>2. \A m \in Workers : pc'[m] \notin {"stopWait", "quitWait"}
    BY <1>1 DEF IInv, Places
  <2> QED
    BY <1>1, <2>1, <2>2 DEF IInv, Notifications, NoLostNotification, ackVars, handlerVars, Workers
<1> QED
  BY <1>2, <1>3, <1>4, <1>5, <1>6, <1>7, <1>8, <1>9 DEF IInv

(* The steps of the root that send and take nothing.                        *)
LEMMA RootMovesStep ==
    ASSUME IInv, RootCompletes \/ RootEnterPoll \/ RootContinue \/ RootStopWait \/ RootStopped
                 \/ RootQuitWait \/ RootWakeUp
    PROVE  IInv'
<1> Root \in Nodes
  BY Tree
<1>1. pc[Root] = "idle" => stopAckWaitChildren[Root] = 0
  BY DEF IInv, Acks, Stopping
<1>2. ~Stopping => stopAckWaitChildren[Root] = 0
  BY DEF IInv, Acks
<1> pc \in [Nodes -> {"wait", "poll", "search", "searchPoll", "exited", "idle", "between",
                         "stopPoll", "stopWait", "quitPoll", "quitWait"}]
    /\ notified \in [Nodes -> BOOLEAN]
  BY DEF IInv, TypeOK
<1> DEFINE Moves(p) ==
        /\ UNCHANGED <<cmdQueue, ackVars, handlerVars, jobId, hasResult, search, accepted, stats>>
        /\ pc' = [pc EXCEPT ![Root] = p]
        /\ p \in {"stopWait", "quitWait"} => cmdQueue[Root] = <<>>
        /\ notified' \in [Nodes -> BOOLEAN] /\ \A n \in Workers : notified'[n] = notified[n]
<1>3. CASE RootCompletes \/ RootEnterPoll \/ RootContinue
  <2>1. PICK p \in {"between", "search", "searchPoll"} : Moves(p)
    BY <1>3 DEF RootCompletes, RootEnterPoll, RootContinue, commVars
  <2>2. pc[Root] \in {"search", "searchPoll"} /\ pc'[Root] = p
    BY <1>3, <2>1 DEF RootCompletes, RootEnterPoll, RootContinue
  <2>3. /\ Active' = Active /\ Quitting' = Quitting /\ Stopping' = Stopping
        /\ (Stopping \/ Resting)' = (Stopping \/ Resting)
    BY <2>2 DEF Active, Quitting, Stopping, Resting
  <2> QED
    BY <1>2, <2>1, <2>2, <2>3, RootMoves
<1>4. CASE RootStopWait \/ (RootWakeUp /\ pc[Root] = "stopWait")
  <2>1. PICK p \in {"stopPoll", "stopWait"} : Moves(p)
    <3>1. RootStopWait => Moves("stopWait")
      BY DEF RootStopWait, commVars
    <3>2. RootWakeUp /\ pc[Root] = "stopWait" => Moves("stopPoll")
      BY Tree DEF RootWakeUp, Workers
    <3> QED
      BY <1>4, <3>1, <3>2, Zenon
  <2>2. pc[Root] \in {"stopPoll", "stopWait"} /\ pc'[Root] = p
    BY <1>4, <2>1 DEF RootStopWait
  <2>3. /\ Active' = Active /\ Quitting' = Quitting /\ Stopping' = Stopping
        /\ (Stopping \/ Resting)' = (Stopping \/ Resting)
    BY <2>2 DEF Active, Quitting, Stopping, Resting
  <2> QED
    BY <1>2, <2>1, <2>2, <2>3, RootMoves
<1>5. CASE RootQuitWait \/ (RootWakeUp /\ pc[Root] = "quitWait")
  <2>1. PICK p \in {"quitPoll", "quitWait", "exited"} : Moves(p)
    <3>1. RootQuitWait => Moves("quitWait") \/ Moves("exited")
      BY DEF RootQuitWait, commVars
    <3>2. RootWakeUp /\ pc[Root] = "quitWait" => Moves("quitPoll")
      BY Tree DEF RootWakeUp, Workers
    <3> QED
      BY <1>5, <3>1, <3>2, Zenon
  <2>2. pc[Root] \in {"quitPoll", "quitWait"} /\ pc'[Root] = p
    BY <1>5, <2>1 DEF RootQuitWait
  <2>3. /\ Active' = Active /\ Quitting' = Quitting /\ Stopping' = Stopping
        /\ (Stopping \/ Resting)' = (Stopping \/ Resting)
    BY <2>2 DEF Active, Quitting, Stopping, Resting
  <2> QED
    BY <1>2, <2>1, <2>2, <2>3, RootMoves
<1>6. CASE RootStopped
  <2>1. Moves("idle") /\ cmdQueue[Root] = <<>> /\ stopAckWaitChildren[Root] = 0
    BY <1>6, Tree DEF RootStopped, Workers, hasStopAck
  <2>2. pc[Root] = "stopPoll" /\ pc'[Root] = "idle"
    BY <1>6, <2>1 DEF RootStopped
  <2>3. /\ Active' = Active /\ Quitting' = Quitting
        /\ (Stopping \/ Resting)' = (Stopping \/ Resting)
    BY <2>2 DEF Active, Quitting, Stopping, Resting
  <2> QED
    BY <2>1, <2>2, <2>3, RootMoves
<1> QED
  BY <1>3, <1>4, <1>5, <1>6 DEF RootWakeUp

(***************************************************************************)
(* Results on their way to the root.                                       *)
(***************************************************************************)
(* Only reports have come and gone.                                         *)
LEMMA OnlyReports ==
    ASSUME IInv, UNCHANGED ackVars,
           \A m \in Nodes, type \in CmdTypes \ {"REPORT_RESULT"} :
                Num(m, type)' = Num(m, type) /\ (Has(m, type)' <=> Has(m, type))
    PROVE  /\ \A m \in Nodes, type \in CmdTypes \ {"REPORT_RESULT"} :
                /\ Num(m, type)' = Num(m, type) /\ (Has(m, type)' <=> Has(m, type))
                /\ Coming(m, type)' <=> Coming(m, type)
           /\ \A m \in Nodes : /\ hasStopAck(m)' = hasStopAck(m)
                               /\ OwesStopAck(m)' <=> OwesStopAck(m)
           /\ StopAcksBalance'
           /\ (~Quitting' => ~Quitting) => Quits'
<1>1. \A m \in Nodes, type \in CmdTypes \ {"REPORT_RESULT"} : Coming(m, type)' <=> Coming(m, type)
  BY DEF Coming, Workers
<1>2. \A m \in Nodes : hasStopAck(m)' = hasStopAck(m)
  BY DEF hasStopAck, ackVars
<1>3. \A m \in Nodes : OwesStopAck(m)' <=> OwesStopAck(m)
  <2>1. "STOP_SEARCH" \in CmdTypes \ {"REPORT_RESULT"}
    BY DEF CmdTypes
  <2> QED
    BY <1>2, <2>1 DEF OwesStopAck, Has
<1>4. StopAcksBalance'
  <2>1. \A m \in Nodes : {c \in Children(m) : OwesStopAck(c)'} = {c \in Children(m) : OwesStopAck(c)}
    BY <1>3, Tree DEF Workers
  <2>2. \A m \in Nodes : Num(m, "STOP_ACK")' = Num(m, "STOP_ACK")
    BY DEF CmdTypes
  <2>3. stopAckWaitChildren' = stopAckWaitChildren
    BY DEF ackVars
  <2> QED
    BY <2>1, <2>2, <2>3 DEF StopAcksBalance, IInv, Acks, Num
<1>5. ASSUME ~Quitting' => ~Quitting
      PROVE  Quits'
  <2>1. quitAckWaitChildren' = quitAckWaitChildren
    BY DEF ackVars
  <2>2. \A m \in Nodes : /\ Num(m, "QUIT")' = Num(m, "QUIT") /\ (Has(m, "QUIT")' <=> Has(m, "QUIT"))
                         /\ Num(m, "QUIT_ACK")' = Num(m, "QUIT_ACK")
                         /\ Has(m, "QUIT_ACK")' <=> Has(m, "QUIT_ACK")
    BY DEF CmdTypes
  <2>3. \A n : {c \in Children(n) : quitAckWaitChildren'[c] # 0}
                = {c \in Children(n) : quitAckWaitChildren[c] # 0}
    BY <2>1
  <2> QED
    BY <1>5, <2>1, <2>2, <2>3, Tree DEF IInv, Quits, Num, Workers
<1> QED
  BY <1>1, <1>2, <1>3, <1>4, <1>5

(* Taking and sending keep the queues' part of the invariant.               *)
LEMMA QueuesKept ==
    ASSUME IInv, NEW P \in SUBSET Nodes, NEW to \in SUBSET Nodes, NEW cmd, Sent(P, to, cmd),
           cmd.type \in CmdTypes \ {"START_SEARCH", "STOP_SEARCH"},
           search'[Root] = search[Root] \/ \A m \in Nodes : cmdQueue[m] = <<>>,
           Quitting => Quitting',
           Root \in to => cmd.type \in {"REPORT_RESULT", "STOP_ACK", "QUIT_ACK"},
           pc'[Root] = "idle" => pc[Root] = "idle" /\ Root \notin to,
           cmd.type = "REPORT_RESULT" =>
                cmd.search = search'[Root] /\ \A m \in to : Children(m) # {},
           cmd.type \in {"QUIT", "QUIT_ACK"} => Quitting'
    PROVE  Queues'
<1> Root \in Nodes
  BY Tree
<1>1. ASSUME NEW m \in Nodes, NEW i \in DOMAIN cmdQueue'[m]
      PROVE  \/ \E j \in DOMAIN cmdQueue[m] : cmdQueue'[m][i] = cmdQueue[m][j]
             \/ m \in to /\ cmdQueue'[m][i] = cmd
  <2>1. m \in P \/ m \in to \/ m \in Nodes \ (P \union to)
    OBVIOUS
  <2>2. CASE m \in P
    BY <1>1, <2>2 DEF Sent, Took
  <2>3. CASE m \in to
    BY <1>1, <2>3 DEF Sent, Took
  <2>4. CASE m \in Nodes \ (P \union to)
    BY <1>1, <2>4 DEF Sent, Took
  <2> QED
    BY <2>1, <2>2, <2>3, <2>4
<1>2. \A i \in DOMAIN cmdQueue'[Root] :
            cmdQueue'[Root][i].type \in {"REPORT_RESULT", "STOP_ACK", "QUIT_ACK"}
  BY <1>1 DEF IInv, Queues
<1>3. ASSUME NEW m \in Nodes, NEW i \in DOMAIN cmdQueue'[m]
      PROVE  /\ cmdQueue'[m][i].type \in {"START_SEARCH", "REPORT_RESULT"} =>
                    cmdQueue'[m][i].search = search'[Root]
             /\ cmdQueue'[m][i].type \in {"QUIT", "QUIT_ACK"} => Quitting'
             /\ cmdQueue'[m][i].type = "REPORT_RESULT" => Children(m) # {}
  <2>1. CASE m \in to /\ cmdQueue'[m][i] = cmd
    BY <2>1
  <2>2. ASSUME NEW j \in DOMAIN cmdQueue[m], cmdQueue'[m][i] = cmdQueue[m][j]
        PROVE  /\ cmdQueue'[m][i].type \in {"START_SEARCH", "REPORT_RESULT"} =>
                        cmdQueue'[m][i].search = search'[Root]
               /\ cmdQueue'[m][i].type \in {"QUIT", "QUIT_ACK"} => Quitting'
               /\ cmdQueue'[m][i].type = "REPORT_RESULT" => Children(m) # {}
    <3>1. cmdQueue[m] # <<>>
      BY <2>2
    <3>2. search'[Root] = search[Root]
      BY <3>1
    <3> QED
      BY <2>2, <3>2 DEF IInv, Queues
  <2> QED
    BY <1>1, <1>3, <2>1, <2>2
<1>4. ASSUME NEW m \in Workers
      PROVE  Num(m, "START_SEARCH")' + Num(m, "STOP_SEARCH")' <= 1
  <2>1. \A type \in {"START_SEARCH", "STOP_SEARCH"} :
            /\ Num(m, type) \in Nat /\ Num(m, type)' \in Nat
            /\ Num(m, type)' <= Num(m, type)
    <3>1. ASSUME NEW type \in {"START_SEARCH", "STOP_SEARCH"}
          PROVE  /\ Num(m, type) \in Nat /\ Num(m, type)' \in Nat
                 /\ Num(m, type)' <= Num(m, type)
      <4>1. type \in CmdTypes /\ m \in Nodes /\ cmd.type # type
        BY DEF CmdTypes, Workers
      <4>2. Num(m, type) \in Nat /\ Num(m, type)' \in Nat
        BY <4>1 DEF Sent, Took
      <4>3. m \in P => Num(m, type)' \in {Num(m, type), Num(m, type) - 1}
        BY <4>1 DEF Sent, Took
      <4>4. m \in to => Num(m, type)' = Num(m, type)
        BY <4>1 DEF Sent, Took
      <4>5. m \notin P /\ m \notin to => Num(m, type)' = Num(m, type)
        BY <4>1 DEF Sent, Took
      <4> QED
        BY <4>2, <4>3, <4>4, <4>5
    <3> QED
      BY <3>1
  <2>2. Num(m, "START_SEARCH") + Num(m, "STOP_SEARCH") <= 1
    BY DEF IInv, Queues
  <2> QED
    BY <2>1, <2>2
<1>5. pc'[Root] = "idle" => cmdQueue'[Root] = <<>>
  <2> SUFFICES ASSUME pc'[Root] = "idle" PROVE cmdQueue'[Root] = <<>>
    OBVIOUS
  <2>1. cmdQueue[Root] = <<>> /\ Root \notin to
    BY DEF IInv, Queues
  <2>2. Root \notin P
    BY <2>1 DEF Sent, Took
  <2> QED
    BY <2>1, <2>2 DEF Sent, Took
<1> QED
  BY <1>2, <1>3, <1>4, <1>5 DEF Queues

(* What a step without quit commands keeps.                                 *)
LEMMA QuitsKept ==
    ASSUME IInv, quitAckWaitChildren' = quitAckWaitChildren, ~Quitting' => ~Quitting,
           \A m \in Nodes, type \in {"QUIT", "QUIT_ACK"} :
                Num(m, type)' = Num(m, type) /\ (Has(m, type)' <=> Has(m, type))
    PROVE  Quits'
<1>1. \A m \in Nodes : /\ Num(m, "QUIT")' = Num(m, "QUIT") /\ (Has(m, "QUIT")' <=> Has(m, "QUIT"))
                       /\ Num(m, "QUIT_ACK")' = Num(m, "QUIT_ACK")
                       /\ Has(m, "QUIT_ACK")' <=> Has(m, "QUIT_ACK")
  OBVIOUS
<1>2. \A n : {c \in Children(n) : quitAckWaitChildren'[c] # 0}
                = {c \in Children(n) : quitAckWaitChildren[c] # 0}
  OBVIOUS
<1> QED
  BY <1>1, <1>2, Tree, ZenonT(60) DEF IInv, Quits, Num, Workers

(* A node below one for which a command is coming waits for it too.         *)
LEMMA ComingDown ==
    /\ \A n \in Nodes, c \in Workers : \A type :
            Parent[c] = n /\ Coming(n, type) => Coming(c, type)
    /\ \A n \in Workers : \A type : Has(n, type) => Coming(n, type)
    /\ \A n \in Workers : \A type : Coming(n, type) => Has(n, type) \/ Coming(Parent[n], type)
    /\ \A type : ~Coming(Root, type)
<1>1. \A n \in Nodes, c \in Workers : \A type :
            Parent[c] = n /\ Coming(n, type) => Coming(c, type)
  BY Below DEF Coming, Workers
<1>2. \A n \in Workers : \A type : Has(n, type) => Coming(n, type)
  BY Below DEF Coming, Workers
<1>3. \A n \in Workers : \A type : Coming(n, type) => Has(n, type) \/ Coming(Parent[n], type)
  BY Below DEF Coming, Workers
<1>4. \A type : ~Coming(Root, type)
  BY Below, Tree DEF Coming, Workers
<1> QED
  BY <1>1, <1>2, <1>3, <1>4

(* A command is coming if it was, when every worker has it if it had it.    *)
LEMMA SameComing ==
    ASSUME NEW type, \A m \in Workers : Has(m, type)' <=> Has(m, type)
    PROVE  \A n \in Nodes : Coming(n, type)' <=> Coming(n, type)
BY DEF Coming

(***************************************************************************)
(* The root drops a result or takes it.                                    *)
(***************************************************************************)
(* The root removes a result from its queue.                                *)
LEMMA RootPops ==
    ASSUME IInv, cmdQueue[Root] # <<>>, Head(cmdQueue[Root]).type = "REPORT_RESULT",
           cmdQueue' = [cmdQueue EXCEPT ![Root] = Tail(@)],
           UNCHANGED <<notified, ackVars, handlerVars, jobId, hasResult, search, stats>>,
           \/ pc' = pc /\ pc[Root] \in {"searchPoll", "stopPoll", "quitPoll"}
           \/ Active /\ pc' = [pc EXCEPT ![Root] = "between"],
           accepted' \in Cmds \union {Plain("none")},
           accepted'.type = "REPORT_RESULT" => accepted'.search = search[Root]
    PROVE  IInv'
<1> Root \in Nodes /\ Root \notin Workers
  BY Tree
<1>1. Sent({Root}, {}, Plain("STOP_ACK"))
  <2>1. Plain("STOP_ACK") \in Cmds
    BY TreeAssumption DEF Plain, Cmd, Cmds, CmdTypes, JobIds, Searches
  <2>2. cmdQueue' = [m \in Nodes |-> IF m \in {Root} THEN Tail(cmdQueue[m])
                                     ELSE IF m \in {} THEN Append(cmdQueue[m], Plain("STOP_ACK"))
                                     ELSE cmdQueue[m]]
    BY DEF IInv, TypeOK
  <2>3. TypeOK /\ {Root} \in SUBSET Nodes /\ {} \in SUBSET Nodes /\ {Root} \cap {} = {}
    BY DEF IInv
  <2> QED
    BY <2>1, <2>2, <2>3, Sending
<1>3. /\ cmdQueue' \in [Nodes -> Seq(Cmds)]
      /\ \A m \in Workers : cmdQueue'[m] = cmdQueue[m]
      /\ \A m \in Nodes : \A i \in DOMAIN cmdQueue'[m] :
            \E j \in DOMAIN cmdQueue[m] : cmdQueue'[m][i] = cmdQueue[m][j]
      /\ \A m \in Nodes, type \in CmdTypes \ {"REPORT_RESULT"} :
            Num(m, type)' = Num(m, type) /\ (Has(m, type)' <=> Has(m, type))
  BY <1>1 DEF Sent, Took, Workers
<1>4. /\ pc' \in [Nodes -> {"wait", "poll", "search", "searchPoll", "exited", "idle", "between",
                           "stopPoll", "stopWait", "quitPoll", "quitWait"}]
      /\ pc'[Root] \in {"between", "searchPoll", "stopPoll", "quitPoll"}
      /\ \A m \in Workers : pc'[m] = pc[m] /\ (Searching(m)' <=> Searching(m))
      /\ Active' <=> Active
      /\ Quitting' <=> Quitting
      /\ Stopping' <=> Stopping
      /\ Resting' <=> Resting
  BY DEF IInv, TypeOK, Workers, Active, Quitting, Stopping, Resting, Searching
<1>5. /\ \A m \in Nodes, type \in CmdTypes \ {"REPORT_RESULT"} :
            /\ Num(m, type)' = Num(m, type) /\ (Has(m, type)' <=> Has(m, type))
            /\ Coming(m, type)' <=> Coming(m, type)
      /\ \A m \in Nodes : (hasStopAck(m)' <=> hasStopAck(m)) /\ (OwesStopAck(m)' <=> OwesStopAck(m))
      /\ StopAcksBalance' /\ Quits'
  BY <1>3, <1>4, OnlyReports
<1>6. \A m \in Workers : /\ Has(m, "START_SEARCH")' <=> Has(m, "START_SEARCH")
                         /\ Has(m, "STOP_SEARCH")' <=> Has(m, "STOP_SEARCH")
                         /\ Has(m, "INIT_SEARCH")' <=> Has(m, "INIT_SEARCH")
                         /\ Num(m, "START_SEARCH")' = Num(m, "START_SEARCH")
                         /\ Num(m, "STOP_SEARCH")' = Num(m, "STOP_SEARCH")
                         /\ Coming(m, "STOP_SEARCH")' <=> Coming(m, "STOP_SEARCH")
                         /\ Coming(m, "INIT_SEARCH")' <=> Coming(m, "INIT_SEARCH")
                         /\ Coming(Parent[m], "INIT_SEARCH")' <=> Coming(Parent[m], "INIT_SEARCH")
  BY <1>5, Tree DEF CmdTypes, Workers
<1>7. TypeOK' /\ Places'
  BY <1>3, <1>4 DEF IInv, TypeOK, Places, ackVars, handlerVars
<1>8. Queues'
  <2>1. Plain("STOP_ACK").type = "STOP_ACK"
    BY DEF Plain, Cmd
  <2>2. {Root} \in SUBSET Nodes /\ {} \in SUBSET Nodes
    OBVIOUS
  <2>3. /\ Plain("STOP_ACK").type \in CmdTypes \ {"START_SEARCH", "STOP_SEARCH"}
        /\ Plain("STOP_ACK").type \notin {"REPORT_RESULT", "QUIT", "QUIT_ACK"}
    BY <2>1 DEF CmdTypes
  <2>4. search'[Root] = search[Root] /\ pc'[Root] # "idle"
    BY <1>4
  <2> QED
    BY <1>1, <1>4, <2>2, <2>3, <2>4, QueuesKept
<1>9. Acks'
  BY <1>4, <1>5, <1>6 DEF IInv, Acks, ackVars, handlerVars, Workers
<1>10. StopWave'
  <2>1. \A m \in Workers : PastStop(m)' <=> PastStop(m)
    BY <1>4, <1>6 DEF PastStop
  <2>2. \A m \in Workers : \A c \in Children(m) : OwesStopAck(c)' <=> OwesStopAck(c)
    BY <1>5, Tree DEF Workers
  <2>3. ASSUME NEW m \in Workers, PastStop(m)'
        PROVE  /\ jobId[m] = -1
               /\ Searching(m) => stopAckWaitSelf[m]
               /\ \A i \in DOMAIN cmdQueue[m] :
                    /\ cmdQueue[m][i].type \in {"REPORT_RESULT", "STOP_ACK", "QUIT", "QUIT_ACK"}
                    /\ cmdQueue[m][i].type = "REPORT_RESULT" =>
                        \/ \E c \in Children(m) : OwesStopAck(c)'
                        \/ \E j \in DOMAIN cmdQueue[m] : j > i /\ cmdQueue[m][j].type = "STOP_ACK"
    BY <2>1, <2>2, <2>3 DEF IInv, StopWave
  <2>4. UNCHANGED <<jobId, stopAckWaitSelf>>
    BY DEF ackVars
  <2> QED
    BY <1>3, <1>4, <2>3, <2>4, SMTT(30) DEF StopWave
<1>11. InitWave'
  BY <1>3, <1>4, <1>5, <1>6 DEF IInv, InitWave, Workers
<1>12. Current'
  BY <1>4, <1>6 DEF IInv, Current, ResultsAreCurrent, handlerVars
<1>13. Notifications'
  <2>1. /\ pc'[Root] \notin {"wait", "stopWait", "quitWait"}
        /\ \A m \in Workers : pc'[m] \notin {"stopWait", "quitWait"}
    BY <1>4 DEF IInv, Places
  <2> QED
    BY <1>3, <1>4, <2>1 DEF IInv, Notifications, NoLostNotification, ackVars, handlerVars, Workers
<1> QED
  BY <1>5, <1>7, <1>8, <1>9, <1>10, <1>11, <1>12, <1>13 DEF IInv

(* The root takes the result of its job, and drops every other.             *)
LEMMA RootDropsStep ==
    ASSUME IInv, RootPoll \/ (RootStopPoll /\ Head(cmdQueue[Root]).type # "STOP_ACK")
                 \/ (RootQuitPoll /\ Head(cmdQueue[Root]).type # "QUIT_ACK")
    PROVE  IInv'
<1> Root \in Nodes /\ Root \notin Workers
  BY Tree
<1>1. cmdQueue[Root] # <<>> /\ pc[Root] \in {"searchPoll", "stopPoll", "quitPoll"}
  BY DEF RootPoll, RootStopPoll, RootQuitPoll
<1>2. /\ Head(cmdQueue[Root]) = cmdQueue[Root][1] /\ 1 \in DOMAIN cmdQueue[Root]
      /\ Head(cmdQueue[Root]) \in Cmds
  BY <1>1, Popped DEF IInv, TypeOK
<1>3. Head(cmdQueue[Root]).type = "REPORT_RESULT"
  <2>1. Head(cmdQueue[Root]).type \in {"REPORT_RESULT", "STOP_ACK", "QUIT_ACK"}
    BY <1>2 DEF IInv, Queues
  <2>2. Head(cmdQueue[Root]).type = "STOP_ACK" => pc[Root] = "stopPoll"
    <3>1. ~Stopping => ~Has(Root, "STOP_ACK")
      BY NoChildOwes DEF IInv, Acks
    <3> QED
      BY <1>1, <1>2, <3>1 DEF Has, Queued, Stopping
  <2>3. Head(cmdQueue[Root]).type = "QUIT_ACK" => Quitting
    BY <1>2 DEF IInv, Queues
  <2> QED
    BY <1>1, <2>1, <2>2, <2>3 DEF RootPoll, RootStopPoll, RootQuitPoll, Quitting
<1>4. Head(cmdQueue[Root]).search = search[Root]
  BY <1>2, <1>3 DEF IInv, Queues
<1> DEFINE drops ==
        /\ cmdQueue' = [cmdQueue EXCEPT ![Root] = Tail(@)]
        /\ UNCHANGED <<notified, ackVars, handlerVars, jobId, hasResult, search, stats>>
<1>5. CASE RootPoll /\ RootTakeResult([cmdQueue EXCEPT ![Root] = Tail(@)], Head(cmdQueue[Root]))
  <2>1. drops /\ Active /\ pc' = [pc EXCEPT ![Root] = "between"] /\ accepted' = Head(cmdQueue[Root])
    BY <1>5 DEF RootPoll, RootTakeResult, Active
  <2> QED
    BY <1>1, <1>2, <1>3, <1>4, <2>1, RootPops
<1>6. ASSUME Ignore([cmdQueue EXCEPT ![Root] = Tail(@)])
      PROVE  IInv'
  <2>1. drops /\ pc' = pc /\ accepted' = accepted
    BY <1>6 DEF Ignore
  <2>2. /\ accepted' \in Cmds \union {Plain("none")}
        /\ accepted'.type = "REPORT_RESULT" => accepted'.search = search[Root]
    BY <2>1 DEF IInv, TypeOK, Current, ResultsAreCurrent
  <2> QED
    BY <1>1, <1>3, <2>1, <2>2, RootPops
<1>7. \/ Ignore([cmdQueue EXCEPT ![Root] = Tail(@)])
      \/ RootPoll /\ RootTakeResult([cmdQueue EXCEPT ![Root] = Tail(@)], Head(cmdQueue[Root]))
  BY DEF RootPoll, RootStopPoll, RootQuitPoll
<1> QED
  BY <1>5, <1>6, <1>7

(* Who gets a command or loses sleep over one has been notified.            *)
LEMMA NotificationsKept ==
    ASSUME IInv, NEW n \in Nodes, NEW W \in SUBSET Nodes,
           \A m \in Nodes : notified'[m] = (m \in W \/ notified[m]),
           \A m \in Nodes : m \notin W /\ cmdQueue'[m] # <<>> => cmdQueue[m] # <<>>,
           \A m \in Nodes : pc'[m] \in {"stopWait", "quitWait"} => pc'[m] = pc[m],
           \A m \in Nodes : m # n => pc'[m] = pc[m] /\ jobId'[m] = jobId[m]
                                     /\ stopAckWaitSelf'[m] = stopAckWaitSelf[m],
           \A m \in Workers : m # n => handlerJob'[m] = handlerJob[m],
           pc'[n] = "wait" /\ ~notified[n] =>
                cmdQueue'[n] = <<>> /\ jobId'[n] = -1 /\ ~stopAckWaitSelf'[n],
           n \in Workers /\ pc'[n] \in {"search", "searchPoll"} =>
                pc[n] \in {"search", "searchPoll"}
                /\ (jobId'[n] # handlerJob'[n] => jobId[n] # handlerJob[n] \/ notified[n])
    PROVE  Notifications'
<1>1. NoLostNotification'
  <2>1. ASSUME NEW m \in Nodes
        PROVE  /\ pc'[m] = "wait" /\ ~notified'[m] =>
                    cmdQueue'[m] = <<>> /\ jobId'[m] = -1 /\ ~stopAckWaitSelf'[m]
               /\ pc'[m] \in {"stopWait", "quitWait"} /\ ~notified'[m] => cmdQueue'[m] = <<>>
    <3>1. ~notified'[m] => ~notified[m] /\ m \notin W
      OBVIOUS
    <3>2. /\ pc[m] = "wait" /\ ~notified[m] =>
                cmdQueue[m] = <<>> /\ jobId[m] = -1 /\ ~stopAckWaitSelf[m]
          /\ pc[m] \in {"stopWait", "quitWait"} /\ ~notified[m] => cmdQueue[m] = <<>>
      BY DEF IInv, Notifications, NoLostNotification
    <3>3. m \notin W /\ cmdQueue'[m] # <<>> => cmdQueue[m] # <<>>
      OBVIOUS
    <3>4. CASE m = n
      BY <3>1, <3>2, <3>3, <3>4
    <3>5. CASE m # n
      BY <3>1, <3>2, <3>3, <3>5
    <3> QED
      BY <3>4, <3>5
  <2> QED
    BY <2>1 DEF NoLostNotification
<1>2. ASSUME NEW m \in Workers, Searching(m)',
             cmdQueue'[m] # <<>> \/ jobId'[m] # handlerJob'[m]
      PROVE  notified'[m]
  <2>1. m \in Nodes
    BY DEF Workers
  <2>2. m \notin W /\ cmdQueue'[m] # <<>> => cmdQueue[m] # <<>>
    BY <2>1
  <2>3. Searching(m) /\ (cmdQueue[m] # <<>> \/ jobId[m] # handlerJob[m]) => notified[m]
    BY DEF IInv, Notifications
  <2>4. Searching(m)
    BY <1>2, <2>1 DEF Searching
  <2>5. jobId'[m] # handlerJob'[m] => jobId[m] # handlerJob[m] \/ notified[m]
    BY <1>2, <2>1 DEF Searching
  <2> QED
    BY <1>2, <2>1, <2>2, <2>3, <2>4, <2>5
<1> QED
  BY <1>1, <1>2 DEF Notifications

(* A worker passes a report on, or drops it; it may have found it itself.   *)
LEMMA ReportMoves ==
    ASSUME IInv, NEW n \in Workers, NEW P \in SUBSET {n}, NEW to \in SUBSET {Parent[n]}, NEW cmd,
           Sent(P, to, cmd), cmd.type = "REPORT_RESULT", cmd.search = search[Root],
           P = {n} => Head(cmdQueue[n]).type = "REPORT_RESULT",
           to # {} => jobId[n] # -1,
           UNCHANGED <<ackVars, search, accepted>>,
           TypeOK', \A m \in Nodes : notified'[m] = (m \in to \/ notified[m]),
           \A m \in Nodes : m # n => pc'[m] = pc[m] /\ jobId'[m] = jobId[m],
           \A m \in Workers : m # n => handlerJob'[m] = handlerJob[m]
                                       /\ handlerSearch'[m] = handlerSearch[m],
           pc[n] \in {"poll", "search", "searchPoll"},
           \/ pc'[n] = pc[n] /\ jobId'[n] = jobId[n]
           \/ pc[n] = "search" /\ pc'[n] = "wait" /\ jobId'[n] = -1,
           pc'[n] = "search" => jobId'[n] = handlerJob'[n],
           pc'[n] = "searchPoll" => handlerJob'[n] = handlerJob[n],
           Searching(n)' => handlerJob'[n] # -1 /\ handlerSearch'[n] = search[Root],
           stopAckWaitSelf[n] => pc'[n] = pc[n] /\ jobId'[n] = jobId[n],
           Active' => /\ stats'[Root] \subseteq {search[Root]}
                      /\ \A m \in Workers : ~Coming(m, "INIT_SEARCH") => stats'[m] \subseteq {search[Root]}
    PROVE  IInv'
<1> P \in {{}, {n}} /\ to \in {{}, {Parent[n]}}
  OBVIOUS
<1> n \in Nodes /\ n # Root /\ Parent[n] \in Nodes /\ Parent[n] # n /\ n \in Children(Parent[n])
  BY Tree DEF Workers
<1>0. /\ pc'[Root] = pc[Root] /\ Root \in Nodes
      /\ \A m \in Workers : m \in Nodes /\ (m # n => pc'[m] = pc[m])
      /\ pc'[n] \in {"search", "searchPoll"} => pc[n] \in {"search", "searchPoll"}
      /\ pc'[n] \in {"wait", "poll", "search", "searchPoll"}
  BY Tree DEF Workers
<1>1. /\ pc'[Root] = pc[Root]
      /\ Active' <=> Active
      /\ Quitting' <=> Quitting
      /\ Stopping' <=> Stopping
      /\ Resting' <=> Resting
      /\ \A m \in Workers : m # n => (Searching(m)' <=> Searching(m))
      /\ Searching(n)' => Searching(n)
      /\ search'[Root] = search[Root]
  BY <1>0 DEF Active, Quitting, Stopping, Resting, Searching
<1>2. \A m \in Nodes, type \in CmdTypes \ {"REPORT_RESULT"} :
            Num(m, type)' = Num(m, type) /\ (Has(m, type)' <=> Has(m, type))
  <2>1. ASSUME NEW m \in Nodes, NEW type \in CmdTypes \ {"REPORT_RESULT"}
        PROVE  Num(m, type)' = Num(m, type)
    <3>1. m \in P \/ m \in to \/ m \in Nodes \ (P \union to)
      OBVIOUS
    <3>2. CASE m \in P
      BY <3>2 DEF Sent, Took
    <3>3. CASE m \in to
      BY <3>3 DEF Sent, Took
    <3>4. CASE m \in Nodes \ (P \union to)
      BY <3>4 DEF Sent, Took
    <3> QED
      BY <3>1, <3>2, <3>3, <3>4
  <2> QED
    BY <2>1 DEF Sent, Took
<1>3. /\ \A m \in Nodes, type \in CmdTypes \ {"REPORT_RESULT"} :
            /\ Num(m, type)' = Num(m, type) /\ (Has(m, type)' <=> Has(m, type))
            /\ Coming(m, type)' <=> Coming(m, type)
      /\ \A m \in Nodes : (hasStopAck(m)' <=> hasStopAck(m)) /\ (OwesStopAck(m)' <=> OwesStopAck(m))
      /\ StopAcksBalance' /\ Quits'
  BY <1>1, <1>2, OnlyReports
<1>4. \A m \in Workers : /\ Has(m, "START_SEARCH")' <=> Has(m, "START_SEARCH")
                         /\ Has(m, "STOP_SEARCH")' <=> Has(m, "STOP_SEARCH")
                         /\ Has(m, "INIT_SEARCH")' <=> Has(m, "INIT_SEARCH")
                         /\ Coming(m, "STOP_SEARCH")' <=> Coming(m, "STOP_SEARCH")
                         /\ Coming(m, "INIT_SEARCH")' <=> Coming(m, "INIT_SEARCH")
                         /\ Coming(Parent[m], "INIT_SEARCH")' <=> Coming(Parent[m], "INIT_SEARCH")
  BY <1>3, Tree DEF CmdTypes, Workers
<1>5. Places'
  BY <1>0 DEF IInv, Places, Active
<1>6. P \in SUBSET Nodes /\ to \in SUBSET Nodes
  OBVIOUS
<1>7. Queues'
  <2>1. \A m \in to : Children(m) # {}
    OBVIOUS
  <2>2. cmd.type \in CmdTypes \ {"START_SEARCH", "STOP_SEARCH"}
    BY DEF CmdTypes
  <2>3. pc[Root] = "idle" => to = {}
    BY Rest DEF Resting
  <2> QED
    BY <1>1, <1>6, <2>1, <2>2, <2>3, QueuesKept
<1>8. Acks'
  <2>1. ASSUME NEW m \in Workers
        PROVE  /\ Has(m, "STOP_SEARCH")' \/ Has(m, "START_SEARCH")' => hasStopAck(m)'
               /\ stopAckWaitSelf'[m] => pc'[m] \in {"poll", "searchPoll"} /\ jobId'[m] = -1
               /\ pc'[m] = "search" => jobId'[m] = handlerJob'[m]
               /\ Searching(m)' => handlerJob'[m] # -1
    <3>1. m \in Nodes
      BY DEF Workers
    <3>2. Has(m, "STOP_SEARCH")' \/ Has(m, "START_SEARCH")' => hasStopAck(m)'
      BY <1>3, <1>4, <3>1 DEF IInv, Acks
    <3>3. stopAckWaitSelf'[m] => pc[m] \in {"poll", "searchPoll"} /\ jobId[m] = -1
      BY DEF IInv, Acks, ackVars
    <3>4. stopAckWaitSelf'[m] = stopAckWaitSelf[m]
      BY DEF ackVars
    <3>5. CASE m = n
      BY <3>2, <3>3, <3>4, <3>5
    <3>6. CASE m # n
      BY <1>1, <3>1, <3>2, <3>3, <3>4, <3>6 DEF IInv, Acks
    <3> QED
      BY <3>5, <3>6
  <2> QED
    BY <1>1, <1>3, <2>1 DEF IInv, Acks, ackVars
<1>9. StopWave'
  <2>1. ASSUME NEW m \in Workers, PastStop(m)'
        PROVE  /\ jobId'[m] = -1
               /\ Searching(m)' => stopAckWaitSelf'[m]
               /\ \A i \in DOMAIN cmdQueue'[m] :
                    /\ cmdQueue'[m][i].type \in {"REPORT_RESULT", "STOP_ACK", "QUIT", "QUIT_ACK"}
                    /\ cmdQueue'[m][i].type = "REPORT_RESULT" =>
                        \/ \E c \in Children(m) : OwesStopAck(c)'
                        \/ \E j \in DOMAIN cmdQueue'[m] : j > i /\ cmdQueue'[m][j].type = "STOP_ACK"
    <3>1. PastStop(m) /\ m \in Nodes
      BY <1>1, <1>4, <2>1 DEF PastStop, Workers
    <3>2. /\ jobId[m] = -1
          /\ Searching(m) => stopAckWaitSelf[m]
          /\ \A i \in DOMAIN cmdQueue[m] :
                /\ cmdQueue[m][i].type \in {"REPORT_RESULT", "STOP_ACK", "QUIT", "QUIT_ACK"}
                /\ cmdQueue[m][i].type = "REPORT_RESULT" =>
                    \/ \E c \in Children(m) : OwesStopAck(c)
                    \/ \E j \in DOMAIN cmdQueue[m] : j > i /\ cmdQueue[m][j].type = "STOP_ACK"
      BY <3>1 DEF IInv, StopWave
    <3>3. \A c \in Children(m) : OwesStopAck(c)' <=> OwesStopAck(c)
      BY <1>3, <3>1, Tree DEF Workers
    <3>4. jobId'[m] = -1 /\ (Searching(m)' => stopAckWaitSelf'[m])
      BY <1>1, <3>1, <3>2 DEF ackVars
    <3>5. CASE m \in P
      <4>1. /\ \A i \in DOMAIN cmdQueue'[m] :
                    i + 1 \in DOMAIN cmdQueue[m] /\ cmdQueue'[m][i] = cmdQueue[m][i + 1]
            /\ \A i \in DOMAIN cmdQueue[m] :
                    i # 1 => i - 1 \in DOMAIN cmdQueue'[m] /\ cmdQueue'[m][i - 1] = cmdQueue[m][i]
        BY <3>5 DEF Sent, Took
      <4>2. DOMAIN cmdQueue[m] \subseteq Nat /\ DOMAIN cmdQueue'[m] \subseteq Nat \ {0}
        <5>1. cmdQueue[m] \in Seq(Cmds) /\ cmdQueue'[m] \in Seq(Cmds)
          BY <3>1 DEF IInv, TypeOK
        <5> QED
          BY <5>1, Indexes
      <4>3. ASSUME NEW i \in DOMAIN cmdQueue'[m], cmdQueue'[m][i].type = "REPORT_RESULT"
            PROVE  \/ \E c \in Children(m) : OwesStopAck(c)'
                   \/ \E j \in DOMAIN cmdQueue'[m] : j > i /\ cmdQueue'[m][j].type = "STOP_ACK"
        <5>1. i + 1 \in DOMAIN cmdQueue[m] /\ cmdQueue[m][i + 1].type = "REPORT_RESULT"
          BY <4>1, <4>3
        <5>2. CASE \E c \in Children(m) : OwesStopAck(c)
          BY <3>3, <5>2
        <5>3. CASE \E j \in DOMAIN cmdQueue[m] : j > i + 1 /\ cmdQueue[m][j].type = "STOP_ACK"
          <6>1. PICK j \in DOMAIN cmdQueue[m] : j > i + 1 /\ cmdQueue[m][j].type = "STOP_ACK"
            BY <5>3
          <6>2. j - 1 \in DOMAIN cmdQueue'[m] /\ cmdQueue'[m][j - 1] = cmdQueue[m][j] /\ j - 1 > i
            BY <4>1, <4>2, <6>1
          <6> QED
            BY <6>1, <6>2
        <5> QED
          BY <3>2, <5>1, <5>2, <5>3
      <4> QED
        BY <3>2, <3>4, <4>1, <4>3
    <3>6. CASE m \in to
      <4>1. OwesStopAck(n) /\ n \in Children(m)
        <5>1. m = Parent[n] /\ jobId[n] # -1
          BY <3>6
        <5>2. ~PastStop(n)
          BY <5>1 DEF IInv, StopWave
        <5>3. Coming(n, "STOP_SEARCH") /\ ~Coming(m, "STOP_SEARCH")
          BY <3>1, <5>2 DEF PastStop
        <5>4. Has(n, "STOP_SEARCH")
          BY <5>1, <5>3, ComingDown
        <5> QED
          BY <5>1, <5>4 DEF OwesStopAck, Has
      <4>2. \A i \in DOMAIN cmdQueue'[m] :
                \/ i \in DOMAIN cmdQueue[m] /\ cmdQueue'[m][i] = cmdQueue[m][i]
                \/ cmdQueue'[m][i] = cmd
        BY <3>6 DEF Sent, Took
      <4> QED
        BY <3>2, <3>3, <3>4, <4>1, <4>2
    <3>7. CASE m \notin P /\ m \notin to
      <4>1. cmdQueue'[m] = cmdQueue[m]
        BY <3>1, <3>7 DEF Sent, Took
      <4> QED
        BY <3>2, <3>3, <3>4, <4>1
    <3> QED
      BY <3>5, <3>6, <3>7
  <2> QED
    BY <2>1 DEF StopWave
<1>10. InitWave'
  <2>1. ASSUME NEW m \in Workers
        PROVE  /\ Coming(m, "INIT_SEARCH") => jobId'[m] = -1 /\ ~Searching(m)' /\ hasStopAck(m)'
               /\ Coming(Parent[m], "INIT_SEARCH") => cmdQueue'[m] = <<>>
               /\ Has(m, "INIT_SEARCH") =>
                    /\ cmdQueue'[m][1].type = "INIT_SEARCH"
                    /\ \A i \in DOMAIN cmdQueue'[m] :
                            i # 1 => cmdQueue'[m][i].type \in {"START_SEARCH", "STOP_SEARCH"}
    <3>1. /\ Coming(m, "INIT_SEARCH") => jobId[m] = -1 /\ ~Searching(m) /\ hasStopAck(m)
          /\ Coming(Parent[m], "INIT_SEARCH") => cmdQueue[m] = <<>>
          /\ Has(m, "INIT_SEARCH") =>
                /\ cmdQueue[m][1].type = "INIT_SEARCH"
                /\ \A i \in DOMAIN cmdQueue[m] :
                        i # 1 => cmdQueue[m][i].type \in {"START_SEARCH", "STOP_SEARCH"}
      BY DEF IInv, InitWave
    <3>2. m \in Nodes
      BY DEF Workers
    <3>3. Coming(m, "INIT_SEARCH") => jobId'[m] = -1 /\ ~Searching(m)' /\ hasStopAck(m)'
      BY <1>1, <1>3, <3>1, <3>2
    <3>4. CASE m \in P
      <4>1. cmdQueue[m] # <<>> /\ cmdQueue[m][1].type = "REPORT_RESULT"
        BY <3>4 DEF Sent, Took
      <4> QED
        BY <3>1, <3>3, <4>1
    <3>5. CASE m \in to
      <4>1. jobId[n] # -1 /\ m = Parent[n]
        BY <3>5
      <4>2. ~Coming(n, "INIT_SEARCH")
        BY <4>1 DEF IInv, InitWave
      <4>3. ~Coming(m, "INIT_SEARCH") /\ ~Has(m, "INIT_SEARCH") /\ ~Coming(Parent[m], "INIT_SEARCH")
        BY <4>1, <4>2, ComingDown, Tree
      <4> QED
        BY <3>3, <4>3
    <3>6. CASE m \notin P /\ m \notin to
      <4>1. cmdQueue'[m] = cmdQueue[m]
        BY <3>2, <3>6 DEF Sent, Took
      <4> QED
        BY <3>1, <3>3, <4>1
    <3> QED
      BY <3>4, <3>5, <3>6
  <2> QED
    BY <1>4, <2>1 DEF InitWave
<1>11. Current'
  <2>1. ASSUME NEW m \in Workers
        PROVE  /\ jobId'[m] # -1 => search'[m] = search[Root]
               /\ Searching(m)' => handlerSearch'[m] = search[Root]
    <3>1. m \in Nodes
      BY DEF Workers
    <3> QED
      BY <1>1, <3>1 DEF IInv, Current
  <2>2. ResultsAreCurrent'
    BY <1>1 DEF IInv, Current, ResultsAreCurrent
  <2>3. Active' => /\ stats'[Root] \subseteq {search[Root]}
                   /\ \A m \in Workers : ~Coming(m, "INIT_SEARCH")' => stats'[m] \subseteq {search[Root]}
    BY <1>4
  <2> QED
    BY <1>1, <2>1, <2>2, <2>3 DEF Current
<1>12. Notifications'
  <2>1. \A m \in Nodes : m \notin to /\ cmdQueue'[m] # <<>> => cmdQueue[m] # <<>>
    <3>1. ASSUME NEW m \in Nodes, m \notin to, cmdQueue'[m] # <<>> PROVE cmdQueue[m] # <<>>
      BY <3>1 DEF Sent, Took
    <3> QED
      BY <3>1
  <2>2. pc'[n] = "wait" /\ ~notified[n] =>
            cmdQueue'[n] = <<>> /\ jobId'[n] = -1 /\ ~stopAckWaitSelf'[n]
    <3> SUFFICES ASSUME pc'[n] = "wait", ~notified[n]
                 PROVE  cmdQueue'[n] = <<>> /\ jobId'[n] = -1 /\ ~stopAckWaitSelf'[n]
      OBVIOUS
    <3>1. jobId'[n] = -1 /\ ~stopAckWaitSelf'[n] /\ n \notin to
      BY DEF ackVars
    <3>2. cmdQueue[n] = <<>>
      BY DEF IInv, Notifications, Searching
    <3> QED
      BY <2>1, <3>1, <3>2
  <2>3. \A m \in Nodes : /\ pc'[m] \in {"stopWait", "quitWait"} => pc'[m] = pc[m]
                         /\ stopAckWaitSelf'[m] = stopAckWaitSelf[m]
    BY DEF ackVars
  <2>4. Searching(n)' => Searching(n)
                         /\ (jobId'[n] # handlerJob'[n] => jobId[n] # handlerJob[n] \/ notified[n])
    BY <1>1 DEF Searching
  <2> QED
    BY <1>6, <2>1, <2>2, <2>3, <2>4, NotificationsKept, ZenonT(60) DEF Searching
<1> QED
  BY <1>3, <1>5, <1>7, <1>8, <1>9, <1>10, <1>11, <1>12 DEF IInv

(* A handler of a polled command that sends cmd to the nodes to.            *)
LEMMA PopSends ==
    ASSUME IInv, NEW n \in Nodes, cmdQueue[n] # <<>>, NEW to \in SUBSET Nodes, n \notin to,
           NEW cmd \in Cmds,
           \/ cmdQueue' = Push([cmdQueue EXCEPT ![n] = Tail(@)], to, cmd)
           \/ to = {} /\ cmdQueue' = [cmdQueue EXCEPT ![n] = Tail(@)]
    PROVE  Sent({n}, to, cmd) /\ cmdQueue' \in [Nodes -> Seq(Cmds)]
<1>1. TypeOK /\ {n} \in SUBSET Nodes /\ {n} \cap to = {} /\ \A m \in {n} : cmdQueue[m] # <<>>
  BY DEF IInv
<1>2. cmdQueue' = [m \in Nodes |-> IF m \in {n} THEN Tail(cmdQueue[m])
                                   ELSE IF m \in to THEN Append(cmdQueue[m], cmd)
                                   ELSE cmdQueue[m]]
  BY <1>1 DEF Push, TypeOK
<1>3. Sent({n}, to, cmd)
  BY <1>1, <1>2, Sending
<1> QED
  BY <1>3 DEF Sent, Took

(* A step that polls nothing and sends cmd to the nodes to.                 *)
LEMMA PushSends ==
    ASSUME IInv, NEW to \in SUBSET Nodes, NEW cmd \in Cmds,
           \/ cmdQueue' = Push(cmdQueue, to, cmd)
           \/ to = {} /\ cmdQueue' = cmdQueue
    PROVE  Sent({}, to, cmd) /\ cmdQueue' \in [Nodes -> Seq(Cmds)]
<1>1. TypeOK /\ {} \in SUBSET Nodes /\ {} \cap to = {} /\ \A m \in {} : cmdQueue[m] # <<>>
  BY DEF IInv
<1>2. cmdQueue' = [m \in Nodes |-> IF m \in {} THEN Tail(cmdQueue[m])
                                   ELSE IF m \in to THEN Append(cmdQueue[m], cmd)
                                   ELSE cmdQueue[m]]
  BY <1>1 DEF Push, TypeOK
<1>3. Sent({}, to, cmd)
  BY <1>1, <1>2, Sending
<1> QED
  BY <1>3 DEF Sent, Took

(* The commands the handlers build have their types.                        *)
LEMMA Commands ==
    /\ \A type \in CmdTypes : Plain(type) \in Cmds /\ Plain(type).type = type
    /\ \A type \in CmdTypes, job \in JobIds, s \in Searches :
            /\ Cmd(type, job, s) \in Cmds /\ Cmd(type, job, s).type = type
            /\ Cmd(type, job, s).search = s /\ Cmd(type, job, s).job = job
    /\ \A cmd \in Cmds : cmd.type \in CmdTypes /\ cmd.job \in JobIds /\ cmd.search \in Searches
<1>1. Len(Jobs) \in Nat /\ 0 \in JobIds /\ 0 \in Searches
  BY TreeAssumption DEF JobIds, Searches
<1> QED
  BY <1>1 DEF Cmd, Plain, Cmds

(* Jobs and searches are numbered by naturals.                              *)
LEMMA JobNumbers ==
    JobIds \subseteq Nat /\ 0 \in JobIds /\ Searches \subseteq Nat /\ 0 \in Searches
<1>1. \A s \in DOMAIN Jobs : Jobs[s] \in Nat
  BY TreeAssumption
<1>2. Len(Jobs) \in Nat
  BY TreeAssumption
<1> QED
  BY <1>1, <1>2 DEF JobIds, Searches

(* A polled command: where it is handled, and what it says.                 *)
LEMMA Polled ==
    ASSUME IInv, NEW n \in Workers, cmdQueue[n] # <<>>
    PROVE  /\ Head(cmdQueue[n]) \in Cmds /\ Head(cmdQueue[n]) = cmdQueue[n][1]
           /\ 1 \in DOMAIN cmdQueue[n] /\ Has(n, Head(cmdQueue[n]).type)
           /\ Head(cmdQueue[n]).type \in {"START_SEARCH", "REPORT_RESULT"} =>
                    Head(cmdQueue[n]).search = search[Root]
<1> n \in Nodes
  BY DEF Workers
<1>1. /\ Head(cmdQueue[n]) \in Cmds /\ Head(cmdQueue[n]) = cmdQueue[n][1]
      /\ 1 \in DOMAIN cmdQueue[n]
  BY Popped DEF IInv, TypeOK
<1> QED
  BY <1>1 DEF Has, Queued, IInv, Queues

(* A worker polls a result of a child.                                      *)
LEMMA ReportResultStep ==
    ASSUME IInv, NEW n \in Workers, pc[n] \in {"poll", "searchPoll"}, cmdQueue[n] # <<>>,
           Head(cmdQueue[n]).type = "REPORT_RESULT",
           ReportResult(n, [cmdQueue EXCEPT ![n] = Tail(@)], Head(cmdQueue[n]))
    PROVE  IInv'
<1> n \in Nodes /\ Parent[n] \in Nodes /\ Parent[n] # n /\ n # Root
  BY Tree DEF Workers
<1> DEFINE q == [cmdQueue EXCEPT ![n] = Tail(@)]
           cmd == Head(cmdQueue[n])
           sent == Cmd("REPORT_RESULT", cmd.job, cmd.search)
           to == IF ~hasResult[n] /\ jobId[n] = cmd.job THEN {Parent[n]} ELSE {}
<1>1. cmd \in Cmds /\ cmd.search = search[Root]
  BY Polled
<1>2. /\ sent \in Cmds /\ sent.type = "REPORT_RESULT" /\ sent.search = search[Root]
      /\ cmd.job \in Nat
  <2>1. cmd.job \in JobIds /\ cmd.search \in Searches /\ "REPORT_RESULT" \in CmdTypes
    BY <1>1, Commands DEF CmdTypes
  <2>2. cmd.job \in Nat
    BY <2>1, JobNumbers
  <2> HIDE DEF cmd
  <2> QED
    BY <1>1, <2>1, <2>2, Commands
<1>3. /\ to \in SUBSET {Parent[n]} /\ {n} \in SUBSET {n}
      /\ to \in SUBSET Nodes /\ n \notin to
      /\ to # {} => jobId[n] = cmd.job
  OBVIOUS
<1>4. \/ cmdQueue' = Push(q, to, sent)
      \/ to = {} /\ cmdQueue' = q
  BY DEF ReportResult, sendReportResult, Parents
<1>5. /\ UNCHANGED <<ackVars, handlerVars, jobId, pc, search, stats, accepted>>
      /\ hasResult' \in [Workers -> BOOLEAN]
      /\ notified' \in [Nodes -> BOOLEAN]
      /\ \A m \in Nodes : notified'[m] = (m \in to \/ notified[m])
  <2>1. hasResult \in [Workers -> BOOLEAN] /\ notified \in [Nodes -> BOOLEAN]
    BY DEF IInv, TypeOK
  <2>2. UNCHANGED <<ackVars, handlerVars, jobId, pc, search, stats, accepted>>
    BY DEF ReportResult
  <2>3. CASE ~hasResult[n] /\ jobId[n] = cmd.job
    <3>1. notified' = Wake({Parent[n]}) /\ hasResult' = [hasResult EXCEPT ![n] = TRUE]
      BY <2>3 DEF ReportResult, sendReportResult, Parents
    <3> QED
      BY <2>1, <2>2, <2>3, <3>1 DEF Wake
  <2>4. CASE ~(~hasResult[n] /\ jobId[n] = cmd.job)
    <3>1. notified' = notified /\ hasResult' = hasResult
      BY <2>4 DEF ReportResult, sendReportResult
    <3> QED
      BY <2>1, <2>2, <2>4, <3>1
  <2> QED
    BY <2>3, <2>4
<1>6. Sent({n}, to, sent) /\ cmdQueue' \in [Nodes -> Seq(Cmds)]
  <2> HIDE DEF to, sent
  <2> QED
    BY <1>2, <1>3, <1>4, PopSends
<1>7. TypeOK'
  BY <1>5, <1>6 DEF IInv, TypeOK, ackVars, handlerVars
<1>8. /\ pc'[n] = "search" => jobId'[n] = handlerJob'[n]
      /\ Searching(n)' => handlerJob'[n] # -1 /\ handlerSearch'[n] = search[Root]
      /\ Active' => /\ stats'[Root] \subseteq {search[Root]}
                    /\ \A m \in Workers : ~Coming(m, "INIT_SEARCH") => stats'[m] \subseteq {search[Root]}
  BY <1>5 DEF IInv, Acks, Current, Active, Searching, handlerVars
<1>9. /\ pc' = pc /\ jobId' = jobId /\ handlerJob' = handlerJob /\ handlerSearch' = handlerSearch
      /\ UNCHANGED <<ackVars, search, accepted>>
  BY <1>5 DEF handlerVars
<1>10. to # {} => jobId[n] # -1
  BY <1>2, <1>3
<1> HIDE DEF to, sent, cmd
<1> QED
  BY <1>2, <1>3, <1>5, <1>6, <1>7, <1>8, <1>9, <1>10, ReportMoves DEF cmd

(* A worker ends an iteration, or its last one.                             *)
LEMMA CompleteIterationStep ==
    ASSUME IInv, NEW n \in Workers, CompleteIteration(n) \/ CompleteLastIteration(n)
    PROVE  IInv'
<1> n \in Nodes /\ Parent[n] \in Nodes /\ Parent[n] # n /\ n # Root
  BY Tree DEF Workers
<1> DEFINE sent == Cmd("REPORT_RESULT", jobId[n], handlerSearch[n])
           to == IF ~hasResult[n] THEN {Parent[n]} ELSE {}
<1>1. /\ pc[n] = "search" /\ Searching(n) /\ ~stopAckWaitSelf[n]
      /\ jobId[n] = handlerJob[n] /\ jobId[n] \in JobIds /\ handlerSearch[n] = search[Root]
      /\ jobId[n] # -1 /\ search[n] = search[Root] /\ search[Root] \in Searches
  <2>1. pc[n] = "search" /\ Searching(n)
    BY DEF CompleteIteration, CompleteLastIteration, Searching
  <2> QED
    BY <2>1, Tree DEF IInv, Acks, Current, TypeOK
<1>2. sent \in Cmds /\ sent.type = "REPORT_RESULT" /\ sent.search = search[Root]
  BY <1>1, Commands DEF CmdTypes
<1>3. /\ to \in SUBSET {Parent[n]} /\ {} \in SUBSET {n}
      /\ to \in SUBSET Nodes
  OBVIOUS
<1>4. /\ \/ cmdQueue' = Push(cmdQueue, to, sent)
         \/ to = {} /\ cmdQueue' = cmdQueue
      /\ notified' \in [Nodes -> BOOLEAN]
      /\ \A m \in Nodes : notified'[m] = (m \in to \/ notified[m])
      /\ hasResult' \in [Workers -> BOOLEAN]
      /\ UNCHANGED <<ackVars, search, accepted>> /\ stats' = Reported(n)
      /\ \/ pc' = pc /\ jobId' = jobId
            /\ handlerJob' = [handlerJob EXCEPT ![n] = jobId[n]]
            /\ handlerSearch' = [handlerSearch EXCEPT ![n] = search[n]]
         \/ pc' = [pc EXCEPT ![n] = "wait"] /\ jobId' = [jobId EXCEPT ![n] = -1]
            /\ UNCHANGED handlerVars
  <2>1. CASE CompleteIteration(n)
    BY <2>1, ZenonT(60) DEF CompleteIteration, sendReportResult, Parents, Wake, IInv, TypeOK
  <2>2. CASE CompleteLastIteration(n)
    <3>1. /\ cmdQueue' = Push(Push(cmdQueue, to, sent), {}, Plain("STOP_ACK"))
          /\ notified' = [m \in Nodes |-> m \in {} \/ Wake(to)[m]]
          /\ hasResult' = [hasResult EXCEPT ![n] = TRUE]
          /\ stopAckWaitSelf' = [stopAckWaitSelf EXCEPT ![n] = FALSE]
          /\ UNCHANGED <<stopAckWaitChildren, quitAckWaitChildren, search, accepted, handlerVars>>
          /\ pc' = [pc EXCEPT ![n] = "wait"] /\ jobId' = [jobId EXCEPT ![n] = -1]
          /\ stats' = Reported(n)
      BY <1>1, <2>2 DEF CompleteLastIteration, sendStopAckSelf, Parents
    <3>2. cmdQueue' = Push(cmdQueue, to, sent)
      BY <3>1 DEF Push
    <3>3. /\ notified' \in [Nodes -> BOOLEAN]
          /\ \A m \in Nodes : notified'[m] = (m \in to \/ notified[m])
      BY <3>1 DEF Wake, IInv, TypeOK
    <3>4. stopAckWaitSelf' = stopAckWaitSelf /\ hasResult' \in [Workers -> BOOLEAN]
      BY <1>1, <3>1 DEF IInv, TypeOK
    <3> QED
      BY <3>1, <3>2, <3>3, <3>4 DEF ackVars
  <2> QED
    BY <2>1, <2>2
<1>5. Sent({}, to, sent) /\ cmdQueue' \in [Nodes -> Seq(Cmds)]
  <2> HIDE DEF to, sent
  <2> QED
    BY <1>2, <1>3, <1>4, PushSends
<1>6. /\ \A m \in Nodes : m # n => pc'[m] = pc[m] /\ jobId'[m] = jobId[m]
      /\ \A m \in Workers : m # n => handlerJob'[m] = handlerJob[m]
                                     /\ handlerSearch'[m] = handlerSearch[m]
      /\ \/ pc'[n] = pc[n] /\ jobId'[n] = jobId[n] /\ handlerJob'[n] = jobId[n]
            /\ handlerSearch'[n] = search[n]
         \/ pc'[n] = "wait" /\ jobId'[n] = -1
  BY <1>4 DEF IInv, TypeOK, handlerVars
<1>7. Active' => Active
  BY <1>6, Tree DEF Active
<1>8. /\ stats' \in [Nodes -> SUBSET Searches]
      /\ Active' => /\ stats'[Root] \subseteq {search[Root]}
                    /\ \A m \in Workers : ~Coming(m, "INIT_SEARCH") => stats'[m] \subseteq {search[Root]}
  BY <1>1, <1>4, <1>7, CountsGoUp
<1>9. TypeOK'
  BY <1>4, <1>5, <1>8, <1>1, ZenonT(60) DEF IInv, TypeOK, ackVars, handlerVars
<1>10. /\ pc'[n] = "search" => jobId'[n] = handlerJob'[n]
       /\ pc'[n] # "searchPoll"
       /\ Searching(n)' => handlerJob'[n] # -1 /\ handlerSearch'[n] = search[Root]
  BY <1>1, <1>6 DEF Searching
<1> HIDE DEF to, sent
<1> QED
  BY <1>1, <1>2, <1>3, <1>4, <1>5, <1>6, <1>8, <1>9, <1>10, ReportMoves, ZenonT(60)

(***************************************************************************)
(* Acknowledgements.                                                       *)
(***************************************************************************)
(* A worker counts an acknowledgement of a child, or it comes to rest; if   *)
(* nothing below it works any more it acknowledges to its parent.           *)
LEMMA AckMoves ==
    ASSUME IInv, NEW n \in Workers, NEW P \in SUBSET {n}, NEW to \in SUBSET {Parent[n]},
           Sent(P, to, Plain("STOP_ACK")),
           P = {n} => Head(cmdQueue[n]).type = "STOP_ACK",
           stopAckWaitChildren'[n] = IF P = {n} THEN stopAckWaitChildren[n] - 1
                                                ELSE stopAckWaitChildren[n],
           \A m \in Nodes : m # n => stopAckWaitChildren'[m] = stopAckWaitChildren[m]
                                     /\ stopAckWaitSelf'[m] = stopAckWaitSelf[m],
           to # {} => ~hasStopAck(n) /\ hasStopAck(n)',
           to = {} => (hasStopAck(n)' <=> hasStopAck(n)),
           stopAckWaitSelf'[n] => stopAckWaitSelf[n] /\ pc'[n] = pc[n],
           UNCHANGED <<quitAckWaitChildren, jobId, handlerVars, search, accepted>>,
           TypeOK', \A m \in Nodes : notified'[m] = (m \in to \/ notified[m]),
           \A m \in Nodes : m # n => pc'[m] = pc[m],
           pc'[n] = pc[n] \/ pc'[n] = "wait", pc[n] \in {"poll", "searchPoll"},
           pc'[n] = "wait" /\ ~notified[n] =>
                P = {} /\ cmdQueue[n] = <<>> /\ jobId[n] = -1 /\ ~stopAckWaitSelf'[n],
           pc'[n] # "wait" => stopAckWaitSelf'[n] = stopAckWaitSelf[n],
           Active' => /\ stats'[Root] \subseteq {search[Root]}
                      /\ \A m \in Workers : ~Coming(m, "INIT_SEARCH") => stats'[m] \subseteq {search[Root]}
    PROVE  IInv'
<1> P \in {{}, {n}} /\ to \in {{}, {Parent[n]}}
  OBVIOUS
<1> DEFINE cmd == Plain("STOP_ACK")
<1> n \in Nodes /\ n # Root /\ Parent[n] \in Nodes /\ Parent[n] # n /\ n \in Children(Parent[n])
  BY Tree DEF Workers
<1>c. cmd.type = "STOP_ACK" /\ cmd.type \in CmdTypes
  BY DEF Plain, Cmd, CmdTypes
<1>0. /\ pc'[Root] = pc[Root] /\ Root \in Nodes
      /\ \A m \in Workers : m \in Nodes /\ (m # n => pc'[m] = pc[m])
      /\ pc'[n] \in {"wait", "poll", "searchPoll"}
      /\ pc'[n] = "searchPoll" => pc[n] = "searchPoll"
  BY Tree DEF Workers
<1>1. /\ Active' <=> Active
      /\ Quitting' <=> Quitting
      /\ Stopping' <=> Stopping
      /\ Resting' <=> Resting
      /\ \A m \in Workers : m # n => (Searching(m)' <=> Searching(m))
      /\ Searching(n)' => Searching(n)
      /\ search'[Root] = search[Root]
  BY <1>0 DEF Active, Quitting, Stopping, Resting, Searching
<1>2. /\ \A m \in Nodes, type \in CmdTypes \ {"STOP_ACK"} :
            Num(m, type)' = Num(m, type) /\ (Has(m, type)' <=> Has(m, type))
      /\ \A m \in Nodes : m \notin P /\ m \notin to => Num(m, "STOP_ACK")' = Num(m, "STOP_ACK")
      /\ \A m \in P : Num(m, "STOP_ACK")' = Num(m, "STOP_ACK") - 1
      /\ \A m \in to : Num(m, "STOP_ACK")' = Num(m, "STOP_ACK") + 1
      /\ \A m \in Nodes : Num(m, "STOP_ACK") \in Nat
  <2> HIDE DEF cmd
  <2>1. ASSUME NEW m \in Nodes, NEW type \in CmdTypes \ {"STOP_ACK"}
        PROVE  Num(m, type)' = Num(m, type)
    <3>1. m \in P \/ m \in to \/ m \in Nodes \ (P \union to)
      OBVIOUS
    <3>2. CASE m \in P
      <4>1. m = n /\ Head(cmdQueue[m]).type = "STOP_ACK" /\ type \in CmdTypes /\ type # "STOP_ACK"
        BY <3>2
      <4>2. Num(m, type)' = IF Head(cmdQueue[m]).type = type THEN Num(m, type) - 1
                                                             ELSE Num(m, type)
        BY <3>2, <4>1 DEF Sent, Took
      <4> QED
        BY <4>1, <4>2
    <3>3. CASE m \in to
      BY <1>c, <3>3 DEF Sent, Took, cmd
    <3>4. CASE m \in Nodes \ (P \union to)
      BY <3>4 DEF Sent, Took
    <3> QED
      BY <3>1, <3>2, <3>3, <3>4
  <2>2. \A m \in P : Num(m, "STOP_ACK")' = Num(m, "STOP_ACK") - 1
    BY <1>c DEF Sent, Took
  <2>3. \A m \in to : Num(m, "STOP_ACK")' = Num(m, "STOP_ACK") + 1
    BY <1>c DEF Sent, Took, cmd
  <2>4. \A m \in Nodes : Num(m, "STOP_ACK") \in Nat
    BY <1>c DEF Sent, Took
  <2>5. \A m \in Nodes : m \notin P /\ m \notin to => Num(m, "STOP_ACK")' = Num(m, "STOP_ACK")
    BY <1>c DEF Sent, Took
  <2> QED
    BY <2>1, <2>2, <2>3, <2>4, <2>5 DEF Sent, Took
<1>3. /\ \A m \in Nodes, type \in CmdTypes \ {"STOP_ACK"} : Coming(m, type)' <=> Coming(m, type)
      /\ \A m \in Nodes : m # n => (hasStopAck(m)' <=> hasStopAck(m))
      /\ \A m \in Nodes : m # n => (OwesStopAck(m)' <=> OwesStopAck(m))
      /\ to = {} => (OwesStopAck(n)' <=> OwesStopAck(n))
      /\ to # {} => OwesStopAck(n) /\ ~OwesStopAck(n)'
  <2>1. \A m \in Nodes, type \in CmdTypes \ {"STOP_ACK"} : Coming(m, type)' <=> Coming(m, type)
    BY <1>2 DEF Coming, Workers
  <2>2. \A m \in Nodes : m # n => (hasStopAck(m)' <=> hasStopAck(m))
    BY DEF hasStopAck
  <2>3. \A m \in Nodes : Has(m, "STOP_SEARCH")' <=> Has(m, "STOP_SEARCH")
    BY <1>2 DEF CmdTypes
  <2>4. \A m \in Nodes : m # n => (OwesStopAck(m)' <=> OwesStopAck(m))
    BY <2>2, <2>3 DEF OwesStopAck, Has
  <2>5. to # {} => ~Has(n, "STOP_SEARCH")
    BY DEF IInv, Acks
  <2>6. /\ to = {} => (OwesStopAck(n)' <=> OwesStopAck(n))
        /\ to # {} => OwesStopAck(n) /\ ~OwesStopAck(n)'
    BY <2>3, <2>5 DEF OwesStopAck, Has
  <2> QED
    BY <2>1, <2>2, <2>4, <2>6
<1>4. \A m \in Workers : /\ Has(m, "START_SEARCH")' <=> Has(m, "START_SEARCH")
                         /\ Has(m, "STOP_SEARCH")' <=> Has(m, "STOP_SEARCH")
                         /\ Has(m, "INIT_SEARCH")' <=> Has(m, "INIT_SEARCH")
                         /\ Coming(m, "STOP_SEARCH")' <=> Coming(m, "STOP_SEARCH")
                         /\ Coming(m, "INIT_SEARCH")' <=> Coming(m, "INIT_SEARCH")
                         /\ Coming(Parent[m], "INIT_SEARCH")' <=> Coming(Parent[m], "INIT_SEARCH")
  BY <1>2, <1>3, Tree DEF CmdTypes, Workers
<1>5. Places'
  BY <1>0 DEF IInv, Places, Active
<1>6. P \in SUBSET Nodes /\ to \in SUBSET Nodes
  OBVIOUS
<1>r. ~hasStopAck(n) => ~Resting /\ ~Quitting /\ ~Coming(n, "INIT_SEARCH")
  BY Rest DEF Resting, IInv, InitWave
<1>7. Queues'
  <2>1. cmd.type \in CmdTypes \ {"START_SEARCH", "STOP_SEARCH"}
        /\ cmd.type \notin {"REPORT_RESULT", "QUIT", "QUIT_ACK"}
    BY <1>c
  <2>2. pc[Root] = "idle" => to = {}
    BY <1>r DEF Resting
  <2> QED
    BY <1>1, <1>0, <1>6, <1>c, <2>1, <2>2, QueuesKept
<1>8. StopAcksBalance'
  <2> DEFINE Owing(m) == {c \in Children(m) : OwesStopAck(c)}
             OwingNow(m) == {c \in Children(m) : OwesStopAck(c)'}
  <2>1. \A m \in Nodes : /\ stopAckWaitChildren[m] = Cardinality(Owing(m)) + Num(m, "STOP_ACK")
                         /\ Cardinality(Owing(m)) \in Nat
    BY NoChildOwes
  <2>2. ASSUME NEW m \in Nodes, m # Parent[n] \/ to = {}
        PROVE  OwingNow(m) = Owing(m)
    BY <1>3, <2>2, Tree DEF Workers
  <2>3. ASSUME to # {}
        PROVE  Cardinality(OwingNow(Parent[n])) = Cardinality(Owing(Parent[n])) - 1
    <3>1. OwingNow(Parent[n]) = Owing(Parent[n]) \ {n} /\ n \in Owing(Parent[n])
      BY <1>3, <2>3, Tree DEF Workers
    <3>2. IsFiniteSet(Owing(Parent[n]))
      BY Tree, FS_Subset
    <3> DEFINE owed == Owing(Parent[n])
    <3>3. IsFiniteSet(owed) /\ n \in owed
      BY <3>1, <3>2
    <3> HIDE DEF Owing, OwingNow, owed
    <3>4. Cardinality(owed \ {n}) = Cardinality(owed) - 1
      BY <3>3, FS_RemoveElement
    <3> QED
      BY <3>1, <3>4 DEF owed
  <2>4. ASSUME NEW m \in Nodes
        PROVE  stopAckWaitChildren'[m] = Cardinality(OwingNow(m)) + Num(m, "STOP_ACK")'
    <3> HIDE DEF Owing, OwingNow
    <3>1. CASE m = n
      <4>1. Num(n, "STOP_ACK")' = IF P = {n} THEN Num(n, "STOP_ACK") - 1 ELSE Num(n, "STOP_ACK")
        BY <1>2
      <4> QED
        BY <1>2, <2>1, <2>2, <3>1, <4>1
    <3>2. CASE m = Parent[n]
      <4>1. Num(m, "STOP_ACK")' = IF to = {} THEN Num(m, "STOP_ACK") ELSE Num(m, "STOP_ACK") + 1
        BY <1>2, <3>2
      <4>2. /\ stopAckWaitChildren'[m] = stopAckWaitChildren[m] /\ Num(m, "STOP_ACK") \in Nat
            /\ stopAckWaitChildren[m] = Cardinality(Owing(m)) + Num(m, "STOP_ACK")
            /\ Cardinality(Owing(m)) \in Nat
        BY <1>2, <2>1, <3>2
      <4>3. CASE to = {}
        <5>1. Cardinality(OwingNow(m)) = Cardinality(Owing(m))
          BY <2>2, <4>3
        <5> QED
          BY <4>1, <4>2, <4>3, <5>1
      <4>4. CASE to # {}
        <5>1. Cardinality(OwingNow(m)) = Cardinality(Owing(m)) - 1
          BY <2>3, <3>2, <4>4
        <5> QED
          BY <4>1, <4>2, <4>4, <5>1
      <4> QED
        BY <4>3, <4>4
    <3>3. CASE m # n /\ m # Parent[n]
      <4>1. Num(m, "STOP_ACK")' = Num(m, "STOP_ACK")
        BY <1>2, <3>3
      <4> QED
        BY <2>1, <2>2, <3>3, <4>1
    <3> QED
      BY <3>1, <3>2, <3>3
  <2> QED
    BY <2>4 DEF StopAcksBalance, Num
<1>9. Acks'
  <2>1. ASSUME NEW m \in Workers
        PROVE  /\ Has(m, "STOP_SEARCH")' \/ Has(m, "START_SEARCH")' => hasStopAck(m)'
               /\ stopAckWaitSelf'[m] => pc'[m] \in {"poll", "searchPoll"} /\ jobId'[m] = -1
               /\ pc'[m] = "search" => jobId'[m] = handlerJob'[m]
               /\ Searching(m)' => handlerJob'[m] # -1
    <3>1. /\ Has(m, "STOP_SEARCH") \/ Has(m, "START_SEARCH") => hasStopAck(m)
          /\ stopAckWaitSelf[m] => pc[m] \in {"poll", "searchPoll"} /\ jobId[m] = -1
          /\ pc[m] = "search" => jobId[m] = handlerJob[m]
          /\ Searching(m) => handlerJob[m] # -1
      BY DEF IInv, Acks
    <3>2. CASE m = n
      BY <1>0, <1>1, <1>4, <3>1, <3>2 DEF handlerVars
    <3>3. CASE m # n
      BY <1>0, <1>1, <1>3, <1>4, <3>1, <3>3 DEF handlerVars
    <3> QED
      BY <3>2, <3>3
  <2> QED
    BY <1>0, <1>1, <1>8, <2>1 DEF IInv, Acks
<1>10. StopWave'
  <2>1. ASSUME NEW m \in Workers, PastStop(m)'
        PROVE  /\ jobId'[m] = -1
               /\ Searching(m)' => stopAckWaitSelf'[m]
               /\ \A i \in DOMAIN cmdQueue'[m] :
                    /\ cmdQueue'[m][i].type \in {"REPORT_RESULT", "STOP_ACK", "QUIT", "QUIT_ACK"}
                    /\ cmdQueue'[m][i].type = "REPORT_RESULT" =>
                        \/ \E c \in Children(m) : OwesStopAck(c)'
                        \/ \E j \in DOMAIN cmdQueue'[m] : j > i /\ cmdQueue'[m][j].type = "STOP_ACK"
    <3>1. PastStop(m) /\ m \in Nodes
      BY <1>1, <1>4, <2>1 DEF PastStop, Workers
    <3>2. /\ jobId[m] = -1
          /\ Searching(m) => stopAckWaitSelf[m]
          /\ \A i \in DOMAIN cmdQueue[m] :
                /\ cmdQueue[m][i].type \in {"REPORT_RESULT", "STOP_ACK", "QUIT", "QUIT_ACK"}
                /\ cmdQueue[m][i].type = "REPORT_RESULT" =>
                    \/ \E c \in Children(m) : OwesStopAck(c)
                    \/ \E j \in DOMAIN cmdQueue[m] : j > i /\ cmdQueue[m][j].type = "STOP_ACK"
      BY <3>1 DEF IInv, StopWave
    <3>3. m \notin to => \A c \in Children(m) : OwesStopAck(c)' <=> OwesStopAck(c)
      BY <1>3, <3>1, Tree DEF Workers
    <3>4. jobId'[m] = -1 /\ (Searching(m)' => stopAckWaitSelf'[m])
      <4>1. CASE m = n
        BY <1>0, <1>1, <3>2, <4>1 DEF Searching
      <4>2. CASE m # n
        BY <1>1, <3>1, <3>2, <4>2
      <4> QED
        BY <4>1, <4>2
    <3>5. CASE m \in P
      <4>1. /\ \A i \in DOMAIN cmdQueue'[m] :
                    i + 1 \in DOMAIN cmdQueue[m] /\ cmdQueue'[m][i] = cmdQueue[m][i + 1]
            /\ \A i \in DOMAIN cmdQueue[m] :
                    i # 1 => i - 1 \in DOMAIN cmdQueue'[m] /\ cmdQueue'[m][i - 1] = cmdQueue[m][i]
        BY <3>5 DEF Sent, Took
      <4>2. DOMAIN cmdQueue[m] \subseteq Nat /\ DOMAIN cmdQueue'[m] \subseteq Nat \ {0}
        <5>1. cmdQueue[m] \in Seq(Cmds) /\ cmdQueue'[m] \in Seq(Cmds)
          BY <3>1 DEF IInv, TypeOK
        <5> QED
          BY <5>1, Indexes
      <4>3. ASSUME NEW i \in DOMAIN cmdQueue'[m], cmdQueue'[m][i].type = "REPORT_RESULT"
            PROVE  \/ \E c \in Children(m) : OwesStopAck(c)'
                   \/ \E j \in DOMAIN cmdQueue'[m] : j > i /\ cmdQueue'[m][j].type = "STOP_ACK"
        <5>1. i + 1 \in DOMAIN cmdQueue[m] /\ cmdQueue[m][i + 1].type = "REPORT_RESULT"
          BY <4>1, <4>3
        <5>2. CASE \E c \in Children(m) : OwesStopAck(c)
          <6>1. m \notin to
            BY <3>5
          <6> QED
            BY <3>3, <5>2, <6>1
        <5>3. CASE \E j \in DOMAIN cmdQueue[m] : j > i + 1 /\ cmdQueue[m][j].type = "STOP_ACK"
          <6>1. PICK j \in DOMAIN cmdQueue[m] : j > i + 1 /\ cmdQueue[m][j].type = "STOP_ACK"
            BY <5>3
          <6>2. j - 1 \in DOMAIN cmdQueue'[m] /\ cmdQueue'[m][j - 1] = cmdQueue[m][j] /\ j - 1 > i
            BY <4>1, <4>2, <6>1
          <6> QED
            BY <6>1, <6>2
        <5> QED
          BY <3>2, <5>1, <5>2, <5>3
      <4> QED
        BY <3>2, <3>4, <4>1, <4>3
    <3>6. CASE m \in to
      <4>1. /\ \A i \in DOMAIN cmdQueue[m] :
                    i \in DOMAIN cmdQueue'[m] /\ cmdQueue'[m][i] = cmdQueue[m][i]
            /\ \A i \in DOMAIN cmdQueue'[m] : i \in DOMAIN cmdQueue[m] \/ cmdQueue'[m][i] = cmd
        BY <3>6 DEF Sent, Took
      <4>2. PICK j \in DOMAIN cmdQueue'[m] :
                    cmdQueue'[m][j] = cmd /\ \A i \in DOMAIN cmdQueue[m] : i < j
        BY <3>6 DEF Sent, Took
      <4>3. DOMAIN cmdQueue[m] \subseteq Nat /\ DOMAIN cmdQueue'[m] \subseteq Nat \ {0}
        <5>1. cmdQueue[m] \in Seq(Cmds) /\ cmdQueue'[m] \in Seq(Cmds)
          BY <3>1 DEF IInv, TypeOK
        <5> QED
          BY <5>1, Indexes
      <4> HIDE DEF cmd
      <4>4. ASSUME NEW i \in DOMAIN cmdQueue'[m]
            PROVE  /\ cmdQueue'[m][i].type \in {"REPORT_RESULT", "STOP_ACK", "QUIT", "QUIT_ACK"}
                   /\ cmdQueue'[m][i].type = "REPORT_RESULT" =>
                        j > i /\ cmdQueue'[m][j].type = "STOP_ACK"
        BY <1>c, <3>2, <4>1, <4>2, <4>3
      <4> QED
        BY <3>4, <4>4
    <3>7. CASE m \notin P /\ m \notin to
      <4>1. cmdQueue'[m] = cmdQueue[m]
        BY <3>1, <3>7 DEF Sent, Took
      <4> QED
        BY <3>2, <3>3, <3>4, <3>7, <4>1
    <3> QED
      BY <3>5, <3>6, <3>7
  <2> QED
    BY <2>1 DEF StopWave
<1>11. InitWave'
  <2>1. ASSUME NEW m \in Workers
        PROVE  /\ Coming(m, "INIT_SEARCH") => jobId'[m] = -1 /\ ~Searching(m)' /\ hasStopAck(m)'
               /\ Coming(Parent[m], "INIT_SEARCH") => cmdQueue'[m] = <<>>
               /\ Has(m, "INIT_SEARCH") =>
                    /\ cmdQueue'[m][1].type = "INIT_SEARCH"
                    /\ \A i \in DOMAIN cmdQueue'[m] :
                            i # 1 => cmdQueue'[m][i].type \in {"START_SEARCH", "STOP_SEARCH"}
    <3>1. /\ Coming(m, "INIT_SEARCH") => jobId[m] = -1 /\ ~Searching(m) /\ hasStopAck(m)
          /\ Coming(Parent[m], "INIT_SEARCH") => cmdQueue[m] = <<>>
          /\ Has(m, "INIT_SEARCH") =>
                /\ cmdQueue[m][1].type = "INIT_SEARCH"
                /\ \A i \in DOMAIN cmdQueue[m] :
                        i # 1 => cmdQueue[m][i].type \in {"START_SEARCH", "STOP_SEARCH"}
      BY DEF IInv, InitWave
    <3>2. m \in Nodes
      BY DEF Workers
    <3>3. Coming(m, "INIT_SEARCH") => jobId'[m] = -1 /\ ~Searching(m)' /\ hasStopAck(m)'
      <4>1. m = n /\ hasStopAck(n) => hasStopAck(m)'
        OBVIOUS
      <4> QED
        BY <1>1, <1>3, <3>1, <3>2, <4>1
    <3>4. CASE m \in P
      <4>1. cmdQueue[m] # <<>> /\ cmdQueue[m][1].type = "STOP_ACK"
        BY <3>4 DEF Sent, Took
      <4> QED
        BY <3>1, <3>3, <4>1
    <3>5. CASE m \in to
      <4>1. m = Parent[n] /\ ~Coming(n, "INIT_SEARCH")
        BY <1>r, <3>5
      <4>2. ~Coming(m, "INIT_SEARCH") /\ ~Has(m, "INIT_SEARCH") /\ ~Coming(Parent[m], "INIT_SEARCH")
        BY <4>1, ComingDown, Tree
      <4> QED
        BY <3>3, <4>2
    <3>6. CASE m \notin P /\ m \notin to
      <4>1. cmdQueue'[m] = cmdQueue[m]
        BY <3>2, <3>6 DEF Sent, Took
      <4> QED
        BY <3>1, <3>3, <4>1
    <3> QED
      BY <3>4, <3>5, <3>6
  <2> QED
    BY <1>4, <2>1 DEF InitWave
<1>12. Current'
  <2>1. ASSUME NEW m \in Workers
        PROVE  /\ jobId'[m] # -1 => search'[m] = search[Root]
               /\ Searching(m)' => handlerSearch'[m] = search[Root]
    BY <1>1 DEF IInv, Current, handlerVars
  <2>2. ResultsAreCurrent'
    BY <1>1 DEF IInv, Current, ResultsAreCurrent
  <2>3. Active' => /\ stats'[Root] \subseteq {search[Root]}
                   /\ \A m \in Workers : ~Coming(m, "INIT_SEARCH")' => stats'[m] \subseteq {search[Root]}
    BY <1>4
  <2> QED
    BY <1>1, <2>1, <2>2, <2>3 DEF Current
<1>13. Quits'
  <2>1. \A m \in Nodes, type \in {"QUIT", "QUIT_ACK"} :
            Num(m, type)' = Num(m, type) /\ (Has(m, type)' <=> Has(m, type))
    BY <1>2 DEF CmdTypes
  <2> QED
    BY <1>1, <2>1, QuitsKept
<1>14. Notifications'
  <2>1. \A m \in Nodes : m \notin to /\ cmdQueue'[m] # <<>> => cmdQueue[m] # <<>>
    <3>1. ASSUME NEW m \in Nodes, m \notin to, cmdQueue'[m] # <<>> PROVE cmdQueue[m] # <<>>
      BY <3>1 DEF Sent, Took
    <3> QED
      BY <3>1
  <2>2. pc'[n] = "wait" /\ ~notified[n] =>
            cmdQueue'[n] = <<>> /\ jobId'[n] = -1 /\ ~stopAckWaitSelf'[n]
    <3> SUFFICES ASSUME pc'[n] = "wait", ~notified[n]
                 PROVE  cmdQueue'[n] = <<>> /\ jobId'[n] = -1 /\ ~stopAckWaitSelf'[n]
      OBVIOUS
    <3>1. n \notin to
      OBVIOUS
    <3> QED
      BY <2>1, <3>1
  <2>3. \A m \in Nodes : pc'[m] \in {"stopWait", "quitWait"} => pc'[m] = pc[m]
    BY <1>0
  <2>4. pc'[n] \in {"search", "searchPoll"} => pc[n] \in {"search", "searchPoll"}
            /\ (jobId'[n] # handlerJob'[n] => jobId[n] # handlerJob[n] \/ notified[n])
    BY <1>0 DEF handlerVars
  <2>5. handlerJob' = handlerJob /\ jobId' = jobId
    BY DEF handlerVars
  <2> QED
    BY <1>6, <2>1, <2>2, <2>3, <2>4, <2>5, NotificationsKept
<1> QED
  BY <1>5, <1>7, <1>9, <1>10, <1>11, <1>12, <1>13, <1>14 DEF IInv

(* A worker polls the acknowledgement of a child.                           *)
LEMMA StopAckStep ==
    ASSUME IInv, NEW n \in Workers, pc[n] \in {"poll", "searchPoll"}, cmdQueue[n] # <<>>,
           Head(cmdQueue[n]).type = "STOP_ACK",
           StopAck(n, [cmdQueue EXCEPT ![n] = Tail(@)])
    PROVE  IInv'
<1> n \in Nodes /\ Parent[n] \in Nodes /\ Parent[n] # n /\ n # Root
  BY Tree DEF Workers
<1> DEFINE cmd == Plain("STOP_ACK")
           to == IF stopAckWaitChildren[n] = 1 /\ ~stopAckWaitSelf[n] THEN {Parent[n]} ELSE {}
<1>1. Has(n, "STOP_ACK")
  BY Polled
<1>2. stopAckWaitChildren[n] \in 1 .. Cardinality(Nodes) /\ Cardinality(Nodes) \in Nat
  <2>1. stopAckWaitChildren[n] \in 0 .. Cardinality(Nodes) /\ stopAckWaitChildren[n] # 0
    BY <1>1, NoChildOwes DEF IInv, TypeOK
  <2> QED
    BY <2>1, Tree, FS_CardinalityType
<1>3. /\ cmdQueue' = Push([cmdQueue EXCEPT ![n] = Tail(@)], to, cmd)
      /\ stopAckWaitChildren' = [stopAckWaitChildren EXCEPT ![n] = stopAckWaitChildren[n] - 1]
      /\ notified' = Wake(to)
      /\ UNCHANGED <<stopAckWaitSelf, quitAckWaitChildren, handlerVars, jobId, hasResult, pc,
                     search, stats, accepted>>
  BY DEF StopAck, Parents
<1>4. /\ to \in SUBSET {Parent[n]} /\ {n} \in SUBSET {n} /\ to \in SUBSET Nodes /\ n \notin to
      /\ cmd \in Cmds
      /\ to # {} <=> stopAckWaitChildren[n] = 1 /\ ~stopAckWaitSelf[n]
  BY Commands DEF CmdTypes
<1> HIDE DEF to
<1>5. Sent({n}, to, Plain("STOP_ACK")) /\ cmdQueue' \in [Nodes -> Seq(Cmds)]
  BY <1>3, <1>4, PopSends
<1>6. /\ notified' \in [Nodes -> BOOLEAN]
      /\ \A m \in Nodes : notified'[m] = (m \in to \/ notified[m])
  BY <1>3 DEF Wake, IInv, TypeOK
<1>7. /\ stopAckWaitChildren' \in [Nodes -> 0 .. Cardinality(Nodes)]
      /\ stopAckWaitChildren'[n] = stopAckWaitChildren[n] - 1
      /\ \A m \in Nodes : m # n => stopAckWaitChildren'[m] = stopAckWaitChildren[m]
                                   /\ stopAckWaitSelf'[m] = stopAckWaitSelf[m]
      /\ pc' = pc /\ stopAckWaitSelf' = stopAckWaitSelf
  BY <1>2, <1>3 DEF IInv, TypeOK
<1>8. TypeOK'
  BY <1>3, <1>5, <1>6, <1>7 DEF IInv, TypeOK, handlerVars
<1>9. /\ to # {} => ~hasStopAck(n) /\ hasStopAck(n)'
      /\ to = {} => (hasStopAck(n)' <=> hasStopAck(n))
  BY <1>2, <1>4, <1>7 DEF hasStopAck
<1>10. Active' => /\ stats'[Root] \subseteq {search[Root]}
                  /\ \A m \in Workers : ~Coming(m, "INIT_SEARCH") => stats'[m] \subseteq {search[Root]}
  BY <1>3 DEF IInv, Current, Active
<1>11. /\ stopAckWaitChildren'[n] = IF {n} = {n} THEN stopAckWaitChildren[n] - 1
                                                  ELSE stopAckWaitChildren[n]
       /\ UNCHANGED <<quitAckWaitChildren, jobId, handlerVars, search, accepted>>
       /\ \A m \in Nodes : m # n => pc'[m] = pc[m]
       /\ pc'[n] = pc[n] /\ pc'[n] # "wait"
       /\ stopAckWaitSelf'[n] = stopAckWaitSelf[n]
       /\ {n} = {n} => Head(cmdQueue[n]).type = "STOP_ACK"
  BY <1>3, <1>7
<1>12. to \in SUBSET {Parent[n]} /\ {n} \in SUBSET {n}
  BY <1>4
<1>13. \A m \in Nodes : m # n => stopAckWaitChildren'[m] = stopAckWaitChildren[m]
                                 /\ stopAckWaitSelf'[m] = stopAckWaitSelf[m]
  BY <1>7
<1> HIDE DEF cmd
<1> QED
  BY <1>5, <1>6, <1>8, <1>9, <1>10, <1>11, <1>12, <1>13, AckMoves, ZenonT(60)

(* A worker without a job, or whose job has changed, comes to rest.         *)
LEMMA StopAckSelfStep ==
    ASSUME IInv, NEW n \in Workers, NoJob(n) \/ AbortSearch(n)
    PROVE  IInv'
<1> n \in Nodes /\ Parent[n] \in Nodes /\ Parent[n] # n /\ n # Root
  BY Tree DEF Workers
<1> DEFINE cmd == Plain("STOP_ACK")
           to == IF stopAckWaitSelf[n] /\ stopAckWaitChildren[n] = 0 THEN {Parent[n]} ELSE {}
<1>1. /\ cmdQueue' = Push(cmdQueue, to, cmd)
      /\ stopAckWaitSelf' = [stopAckWaitSelf EXCEPT ![n] = FALSE]
      /\ notified' = [m \in Nodes |-> m \in to \/ notified[m]]
      /\ pc' = [pc EXCEPT ![n] = "wait"]
      /\ UNCHANGED <<stopAckWaitChildren, quitAckWaitChildren, handlerVars, jobId, hasResult,
                     search, accepted>>
      /\ cmdQueue[n] = <<>>
  BY DEF NoJob, AbortSearch, sendStopAckSelf, Parents
<1>2. /\ \/ pc[n] = "poll" /\ jobId[n] = -1 /\ stats' = stats
         \/ Searching(n) /\ pc[n] = "searchPoll" /\ jobId[n] # handlerJob[n] /\ stats' = Reported(n)
  BY DEF NoJob, AbortSearch, Searching
<1>3. /\ to \in SUBSET {Parent[n]} /\ {} \in SUBSET {n} /\ to \in SUBSET Nodes
      /\ cmd \in Cmds
      /\ to # {} <=> stopAckWaitSelf[n] /\ stopAckWaitChildren[n] = 0
  BY Commands DEF CmdTypes
<1> HIDE DEF to
<1>4. Sent({}, to, Plain("STOP_ACK")) /\ cmdQueue' \in [Nodes -> Seq(Cmds)]
  BY <1>1, <1>3, PushSends
<1>5. /\ notified' \in [Nodes -> BOOLEAN]
      /\ \A m \in Nodes : notified'[m] = (m \in to \/ notified[m])
  BY <1>1 DEF IInv, TypeOK
<1>6. /\ stopAckWaitSelf' \in [Nodes -> BOOLEAN] /\ ~stopAckWaitSelf'[n]
      /\ stopAckWaitChildren' = stopAckWaitChildren
      /\ \A m \in Nodes : m # n => stopAckWaitSelf'[m] = stopAckWaitSelf[m] /\ pc'[m] = pc[m]
      /\ pc'[n] = "wait"
  BY <1>1 DEF IInv, TypeOK
<1>7. Active' => Active
  BY <1>6, Tree DEF Active
<1>8. /\ stats' \in [Nodes -> SUBSET Searches]
      /\ Active' => /\ stats'[Root] \subseteq {search[Root]}
                    /\ \A m \in Workers : ~Coming(m, "INIT_SEARCH") => stats'[m] \subseteq {search[Root]}
  <2>1. CASE stats' = stats
    BY <1>7, <2>1 DEF IInv, Current, TypeOK
  <2>2. CASE Searching(n) /\ stats' = Reported(n)
    BY <1>7, <2>2, CountsGoUp
  <2> QED
    BY <1>2, <2>1, <2>2
<1>9. TypeOK'
  BY <1>1, <1>4, <1>5, <1>6, <1>8 DEF IInv, TypeOK, handlerVars
<1>10. /\ to # {} => ~hasStopAck(n) /\ hasStopAck(n)'
       /\ to = {} => (hasStopAck(n)' <=> hasStopAck(n))
  BY <1>3, <1>6 DEF hasStopAck
<1>11. ~notified[n] => jobId[n] = -1
  BY <1>2 DEF IInv, Notifications
<1>12. pc[n] \in {"poll", "searchPoll"}
  BY <1>2
<1>13. /\ stopAckWaitChildren'[n] = IF {} = {n} THEN stopAckWaitChildren[n] - 1
                                                 ELSE stopAckWaitChildren[n]
       /\ UNCHANGED <<quitAckWaitChildren, jobId, handlerVars, search, accepted>>
       /\ \A m \in Nodes : m # n => stopAckWaitChildren'[m] = stopAckWaitChildren[m]
                                    /\ stopAckWaitSelf'[m] = stopAckWaitSelf[m]
       /\ {} = {n} => Head(cmdQueue[n]).type = "STOP_ACK"
       /\ \A m \in Nodes : m # n => pc'[m] = pc[m]
       /\ pc'[n] = pc[n] \/ pc'[n] = "wait"
       /\ stopAckWaitSelf'[n] => stopAckWaitSelf[n] /\ pc'[n] = pc[n]
       /\ pc'[n] # "wait" => stopAckWaitSelf'[n] = stopAckWaitSelf[n]
       /\ pc'[n] = "wait" /\ ~notified[n] =>
            {} = {} /\ cmdQueue[n] = <<>> /\ jobId[n] = -1 /\ ~stopAckWaitSelf'[n]
  BY <1>1, <1>6, <1>11
<1> HIDE DEF cmd
<1> QED
  BY <1>3, <1>4, <1>5, <1>8, <1>9, <1>10, <1>12, <1>13, AckMoves

(***************************************************************************)
(* Start and stop commands.                                                *)
(***************************************************************************)
(* Node n, which takes its command if it is in P, replaces what its         *)
(* children have not polled yet, but for an INIT, by cmd.                   *)
Replaced(n, P, cmd) ==
    /\ cmdQueue' \in [Nodes -> Seq(Cmds)]
    /\ \A m \in P : Took(m)
    /\ \A c \in Children(n) :
        /\ cmdQueue'[c] # <<>> /\ \E i \in DOMAIN cmdQueue'[c] : cmdQueue'[c][i] = cmd
        /\ \A i \in DOMAIN cmdQueue'[c] :
            IF Has(c, "INIT_SEARCH") /\ i = 1 THEN cmdQueue'[c][i].type = "INIT_SEARCH"
                                              ELSE cmdQueue'[c][i] = cmd
        /\ Has(c, "INIT_SEARCH") => cmdQueue'[c][1].type = "INIT_SEARCH" /\ 1 \in DOMAIN cmdQueue'[c]
        /\ \A type \in CmdTypes \ {"INIT_SEARCH"} :
                Num(c, type)' = IF cmd.type = type THEN 1 ELSE 0
    /\ \A m \in Nodes \ (P \union Children(n)) :
        cmdQueue'[m] = cmdQueue[m] /\ \A type \in CmdTypes : Num(m, type)' = Num(m, type)
    /\ \A m \in Nodes, type \in CmdTypes :
        /\ Num(m, type) \in Nat /\ Num(m, type)' \in Nat
        /\ Has(m, type)' <=> Num(m, type)' # 0
        /\ Has(m, type) <=> Num(m, type) # 0
    /\ \A m \in Nodes : \A i \in DOMAIN cmdQueue'[m] :
        \/ \E j \in DOMAIN cmdQueue[m] : cmdQueue'[m][i] = cmdQueue[m][j]
        \/ m \in Children(n) /\ cmdQueue'[m][i] = cmd

(* A queue of one command, or of an INIT and one command.                   *)
Short(s, r, cmd) ==
    /\ s \in Seq(Cmds) /\ s # <<>> /\ 1 \in DOMAIN s /\ \E i \in DOMAIN s : s[i] = cmd
    /\ \A type \in CmdTypes \ {"INIT_SEARCH"} :
            Cardinality(Of(s, type)) = IF cmd.type = type THEN 1 ELSE 0
    /\ Len(r) = 0 => \A i \in DOMAIN s : s[i] = cmd
    /\ Len(r) = 1 => s[1] = r[1] /\ \A i \in DOMAIN s : i # 1 => s[i] = cmd

(* Appending to nothing, or to an INIT, gives such a queue.                 *)
LEMMA ShortQueues ==
    ASSUME NEW r \in Seq(Cmds), NEW cmd \in Cmds,
           Len(r) = 0 \/ (Len(r) = 1 /\ r[1].type = "INIT_SEARCH"),
           NEW s, s = Append(r, cmd)
    PROVE  Short(s, r, cmd)
<1>1. /\ s \in Seq(Cmds) /\ Len(s) = Len(r) + 1 /\ DOMAIN s = 1 .. Len(s) /\ Len(r) \in {0, 1}
      /\ DOMAIN r = 1 .. Len(r)
      /\ \A i \in DOMAIN r : i \in DOMAIN s /\ s[i] = r[i]
      /\ s[Len(r) + 1] = cmd
      /\ \A i \in DOMAIN s : i \in DOMAIN r \/ i = Len(r) + 1
  BY Appended, Indexes
<1>2. ASSUME NEW type \in CmdTypes \ {"INIT_SEARCH"}
      PROVE  Cardinality(Of(s, type)) = IF cmd.type = type THEN 1 ELSE 0
  <2>1. Of(r, type) = {}
    BY <1>1 DEF Of
  <2>2. Cardinality(Of(r, type)) = 0
    BY <2>1, FS_EmptySet
  <2>3. Cardinality(Of(s, type)) =
            IF cmd.type = type THEN Cardinality(Of(r, type)) + 1 ELSE Cardinality(Of(r, type))
    BY Appended
  <2> QED
    BY <2>2, <2>3
<1>3. s # <<>>
  BY <1>1
<1> QED
  BY <1>1, <1>2, <1>3 DEF Short

(* Replaced follows from PushOver: what a child of a node at rest leaves in *)
(* its queue is at most an INIT.                                            *)
LEMMA Replacing ==
    ASSUME IInv, NEW n \in Nodes, NEW P \in SUBSET {n}, P = {n} => cmdQueue[n] # <<>>,
           ~Quitting, \A c \in Children(n) : hasStopAck(c),
           NEW cmd \in Cmds,
           \/ P = {n} /\ cmdQueue' = PushOver([cmdQueue EXCEPT ![n] = Tail(@)], Children(n), cmd)
           \/ P = {} /\ cmdQueue' = PushOver(cmdQueue, Children(n), cmd)
    PROVE  Replaced(n, P, cmd)
<1>1. \A m \in Nodes : cmdQueue[m] \in Seq(Cmds)
  BY DEF IInv, TypeOK
<1>2. /\ Children(n) \subseteq Workers /\ n \notin Children(n)
      /\ Children(n) \subseteq Nodes
  BY Tree DEF Workers
<1>3. /\ \A m \in Nodes : cmdQueue'[m] = IF m \in Children(n) THEN Append(Others(cmdQueue[m]), cmd)
                                         ELSE IF m \in P THEN Tail(cmdQueue[m])
                                         ELSE cmdQueue[m]
      /\ DOMAIN cmdQueue' = Nodes
      /\ cmdQueue' = [m \in Nodes |-> cmdQueue'[m]]
  <2>1. CASE P = {n} /\ cmdQueue' = PushOver([cmdQueue EXCEPT ![n] = Tail(@)], Children(n), cmd)
    BY <2>1, <1>2 DEF PushOver, IInv, TypeOK
  <2>2. CASE P = {} /\ cmdQueue' = PushOver(cmdQueue, Children(n), cmd)
    BY <2>2, <1>2 DEF PushOver, IInv, TypeOK
  <2> QED
    BY <2>1, <2>2
<1>4. ASSUME NEW m \in P
      PROVE  Took(m) /\ cmdQueue'[m] \in Seq(Cmds)
  <2>1. cmdQueue'[m] = Tail(cmdQueue[m]) /\ cmdQueue[m] \in Seq(Cmds) /\ cmdQueue[m] # <<>>
    BY <1>1, <1>2, <1>3
  <2> QED
    BY <2>1, Taking
<1>5. ASSUME NEW c \in Children(n)
      PROVE  /\ cmdQueue'[c] \in Seq(Cmds)
             /\ cmdQueue'[c] # <<>> /\ \E i \in DOMAIN cmdQueue'[c] : cmdQueue'[c][i] = cmd
             /\ \A i \in DOMAIN cmdQueue'[c] :
                 IF Has(c, "INIT_SEARCH") /\ i = 1 THEN cmdQueue'[c][i].type = "INIT_SEARCH"
                                                   ELSE cmdQueue'[c][i] = cmd
             /\ Has(c, "INIT_SEARCH") => cmdQueue'[c][1].type = "INIT_SEARCH"
                                         /\ 1 \in DOMAIN cmdQueue'[c]
             /\ \A type \in CmdTypes \ {"INIT_SEARCH"} :
                    Cardinality(Of(cmdQueue'[c], type)) = IF cmd.type = type THEN 1 ELSE 0
             /\ \A i \in DOMAIN cmdQueue'[c] :
                    \/ \E j \in DOMAIN cmdQueue[c] : cmdQueue'[c][i] = cmdQueue[c][j]
                    \/ cmdQueue'[c][i] = cmd
  <2>1. cmdQueue'[c] = Append(Others(cmdQueue[c]), cmd) /\ c \in Workers /\ cmdQueue[c] \in Seq(Cmds)
    BY <1>1, <1>2, <1>3
  <2>2. /\ Has(c, "INIT_SEARCH") => Others(cmdQueue[c]) = <<cmdQueue[c][1]>>
                                    /\ cmdQueue[c][1].type = "INIT_SEARCH"
                                    /\ cmdQueue[c][1] \in Cmds
        /\ ~Has(c, "INIT_SEARCH") => Others(cmdQueue[c]) = <<>>
    BY <2>1, Left
  <2> DEFINE r == Others(cmdQueue[c])
             s == cmdQueue'[c]
  <2>3. /\ r \in Seq(Cmds) /\ s = Append(r, cmd)
        /\ Has(c, "INIT_SEARCH") => Len(r) = 1 /\ r[1] = cmdQueue[c][1]
        /\ ~Has(c, "INIT_SEARCH") => Len(r) = 0
    <3>1. /\ \A e \in Cmds : <<e>> \in Seq(Cmds) /\ Len(<<e>>) = 1 /\ <<e>>[1] = e
          /\ <<>> \in Seq(Cmds) /\ Len(<<>>) = 0
      OBVIOUS
    <3>2. s = Append(r, cmd)
      BY <2>1
    <3> HIDE DEF s
    <3>3. CASE Has(c, "INIT_SEARCH")
      BY <2>2, <3>1, <3>2, <3>3
    <3>4. CASE ~Has(c, "INIT_SEARCH")
      BY <2>2, <3>1, <3>2, <3>4
    <3> QED
      BY <3>3, <3>4
  <2>4. /\ s \in Seq(Cmds) /\ s # <<>> /\ 1 \in DOMAIN s /\ \E i \in DOMAIN s : s[i] = cmd
        /\ \A type \in CmdTypes \ {"INIT_SEARCH"} :
                    Cardinality(Of(s, type)) = IF cmd.type = type THEN 1 ELSE 0
        /\ Len(r) = 0 => \A i \in DOMAIN s : s[i] = cmd
        /\ Len(r) = 1 => s[1] = r[1] /\ \A i \in DOMAIN s : i # 1 => s[i] = cmd
    <3>1. Len(r) = 0 \/ (Len(r) = 1 /\ r[1].type = "INIT_SEARCH")
      BY <2>2, <2>3
    <3> HIDE DEF r, s
    <3>2. Short(s, r, cmd)
      BY <2>3, <3>1, ShortQueues
    <3> QED
      BY <3>2 DEF Short
  <2>5. Has(c, "INIT_SEARCH") => 1 \in DOMAIN cmdQueue[c]
    <3>1. cmdQueue[c] # <<>> => 1 \in DOMAIN cmdQueue[c]
      BY <2>1
    <3> QED
      BY <2>1, <3>1 DEF Has, Queued
  <2> HIDE DEF r, s
  <2> QED
    BY <2>2, <2>3, <2>4, <2>5 DEF s
<1>6. \A m \in Nodes : cmdQueue'[m] \in Seq(Cmds)
  BY <1>1, <1>3, <1>4, <1>5
<1>7. ASSUME NEW m \in Nodes, NEW type \in CmdTypes
      PROVE  /\ Num(m, type) = Cardinality(Of(cmdQueue[m], type))
             /\ Num(m, type)' = Cardinality(Of(cmdQueue'[m], type))
             /\ Num(m, type) \in Nat /\ Num(m, type)' \in Nat
             /\ Has(m, type)' <=> Num(m, type)' # 0
             /\ Has(m, type) <=> Num(m, type) # 0
  BY <1>1, <1>6, Numbers
<1>8. ASSUME NEW m \in Nodes \ (P \union Children(n))
      PROVE  cmdQueue'[m] = cmdQueue[m] /\ \A type \in CmdTypes : Num(m, type)' = Num(m, type)
  <2>1. cmdQueue'[m] = cmdQueue[m]
    BY <1>3
  <2> QED
    BY <2>1, <1>7
<1>9. ASSUME NEW m \in Nodes, NEW i \in DOMAIN cmdQueue'[m]
      PROVE  \/ \E j \in DOMAIN cmdQueue[m] : cmdQueue'[m][i] = cmdQueue[m][j]
             \/ m \in Children(n) /\ cmdQueue'[m][i] = cmd
  <2>1. CASE m \in P
    BY <1>4, <1>9, <2>1 DEF Took
  <2>2. CASE m \in Children(n)
    BY <1>5, <1>9, <2>2
  <2>3. CASE m \in Nodes \ (P \union Children(n))
    BY <1>8, <1>9, <2>3
  <2> QED
    BY <2>1, <2>2, <2>3
<1>10. cmdQueue' \in [Nodes -> Seq(Cmds)]
  BY <1>3, <1>6
<1>11. \A c \in Children(n), type \in CmdTypes \ {"INIT_SEARCH"} :
            Num(c, type)' = IF cmd.type = type THEN 1 ELSE 0
  BY <1>2, <1>5, <1>7
<1>12. \A m \in P : Took(m)
  BY <1>4
<1> QED
  BY <1>5, <1>7, <1>8, <1>9, <1>10, <1>11, <1>12 DEF Replaced

(* What is queued where after that, but for results.                        *)
View(n, P, new) ==
    /\ \A c \in Children(n) :
            Has(c, new)' /\ \A type \in CmdTypes \ {new, "INIT_SEARCH"} : ~Has(c, type)'
    /\ \A m \in P : ~Has(m, "START_SEARCH")' /\ ~Has(m, "STOP_SEARCH")'
    /\ \A m \in Nodes, type \in CmdTypes :
            m \notin P /\ m \notin Children(n) => (Has(m, type)' <=> Has(m, type))
    /\ \A m \in Nodes, type \in {"STOP_ACK", "QUIT", "QUIT_ACK"} :
            Num(m, type)' = Num(m, type) /\ (Has(m, type)' <=> Has(m, type))
    /\ \A m \in Nodes : /\ Has(m, "INIT_SEARCH")' <=> Has(m, "INIT_SEARCH")
                        /\ Coming(m, "INIT_SEARCH")' <=> Coming(m, "INIT_SEARCH")
    /\ \A m \in Workers : Num(m, "START_SEARCH")' + Num(m, "STOP_SEARCH")' <= 1

(* The same in terms of what nodes have and what is coming to them.         *)
LEMMA ReplacedView ==
    ASSUME IInv, NEW n \in Nodes, NEW P \in SUBSET {n}, NEW cmd,
           cmd.type \in {"START_SEARCH", "STOP_SEARCH"}, Replaced(n, P, cmd),
           P = {n} => n \in Workers /\ Head(cmdQueue[n]).type = cmd.type,
           ~Quitting, \A c \in Children(n) : ~OwesStopAck(c)
    PROVE  View(n, P, cmd.type)
<1>0. /\ Children(n) \subseteq Workers /\ n \notin Children(n) /\ Children(n) \subseteq Nodes
      /\ {"START_SEARCH", "STOP_SEARCH", "STOP_ACK", "QUIT", "QUIT_ACK", "INIT_SEARCH"} \subseteq CmdTypes
  BY Tree DEF Workers, CmdTypes
<1>1. ASSUME NEW c \in Children(n)
      PROVE  Has(c, cmd.type)' /\ \A type \in CmdTypes \ {cmd.type, "INIT_SEARCH"} : ~Has(c, type)'
  <2>1. \A type \in CmdTypes \ {"INIT_SEARCH"} :
            /\ Num(c, type)' = IF cmd.type = type THEN 1 ELSE 0
            /\ Has(c, type)' <=> Num(c, type)' # 0
    BY <1>0 DEF Replaced
  <2>2. cmd.type \in CmdTypes \ {"INIT_SEARCH"}
    BY <1>0
  <2> QED
    BY <2>1, <2>2
<1>2. ASSUME NEW m \in P
      PROVE  ~Has(m, "START_SEARCH")' /\ ~Has(m, "STOP_SEARCH")'
  <2>1. m = n /\ n \in Workers /\ Head(cmdQueue[n]).type = cmd.type
    OBVIOUS
  <2>2. Took(n)
    BY <1>2, <2>1 DEF Replaced
  <2>3. Num(n, "START_SEARCH") + Num(n, "STOP_SEARCH") <= 1
    BY <2>1 DEF IInv, Queues
  <2>4. \A type \in {"START_SEARCH", "STOP_SEARCH"} :
            /\ Num(n, type) \in Nat /\ Num(n, type)' \in Nat
            /\ Has(n, type)' <=> Num(n, type)' # 0
            /\ Num(n, type)' = IF cmd.type = type THEN Num(n, type) - 1 ELSE Num(n, type)
    <3>1. \A type \in {"START_SEARCH", "STOP_SEARCH"} :
            /\ Num(n, type) \in Nat /\ Num(n, type)' \in Nat
            /\ Has(n, type)' <=> Num(n, type)' # 0
      BY <1>0 DEF Replaced
    <3>2. \A type \in {"START_SEARCH", "STOP_SEARCH"} :
            Num(n, type)' = IF cmd.type = type THEN Num(n, type) - 1 ELSE Num(n, type)
      BY <1>0, <2>1, <2>2 DEF Took
    <3> QED
      BY <3>1, <3>2
  <2> QED
    BY <2>1, <2>3, <2>4
<1>3. \A m \in Nodes, type \in CmdTypes :
            m \notin P /\ m \notin Children(n) =>
                Num(m, type)' = Num(m, type) /\ (Has(m, type)' <=> Has(m, type))
  BY DEF Replaced
<1>4. ASSUME NEW m \in Nodes, NEW type \in {"STOP_ACK", "QUIT", "QUIT_ACK"}
      PROVE  Num(m, type)' = Num(m, type)
  <2>0. type \in CmdTypes /\ type \in CmdTypes \ {"INIT_SEARCH"} /\ cmd.type # type
    BY <1>0
  <2>1. CASE m \in P
    <3>1. Took(m) /\ Head(cmdQueue[m]).type = cmd.type
      BY <2>1 DEF Replaced
    <3> QED
      BY <2>0, <3>1 DEF Took
  <2>2. CASE m \in Children(n)
    <3>1. Num(m, type)' = 0
      BY <2>0, <2>2 DEF Replaced
    <3>2. ~Has(m, "STOP_ACK")
      BY <1>0, <2>2, NoChildOwes DEF OwesStopAck, hasStopAck
    <3>3. ~Has(m, "QUIT") /\ ~Has(m, "QUIT_ACK")
      BY DEF IInv, Queues, Has, Queued
    <3>4. Has(m, type) <=> Num(m, type) # 0
      BY <2>0 DEF Replaced
    <3> QED
      BY <3>1, <3>2, <3>3, <3>4
  <2>3. CASE m \notin P /\ m \notin Children(n)
    BY <1>0, <1>3, <2>3
  <2> QED
    BY <2>1, <2>2, <2>3
<1>5. ASSUME NEW m \in Nodes, NEW type \in {"STOP_ACK", "QUIT", "QUIT_ACK"}
      PROVE  Has(m, type)' <=> Has(m, type)
  <2>1. /\ Has(m, type)' <=> Num(m, type)' # 0
        /\ Has(m, type) <=> Num(m, type) # 0
    <3>1. type \in CmdTypes
      BY <1>0
    <3> QED
      BY <3>1 DEF Replaced
  <2> QED
    BY <1>4, <2>1
<1>6. ASSUME NEW m \in Nodes
      PROVE  Has(m, "INIT_SEARCH")' <=> Has(m, "INIT_SEARCH")
  <2>1. CASE m \in P
    <3>1. Took(m) /\ Head(cmdQueue[m]).type # "INIT_SEARCH"
      BY <2>1 DEF Replaced
    <3>2. Num(m, "INIT_SEARCH")' = Num(m, "INIT_SEARCH")
      BY <1>0, <3>1 DEF Took
    <3> QED
      BY <1>0, <3>2 DEF Replaced
  <2>2. CASE m \in Children(n)
    <3>1. \A i \in DOMAIN cmdQueue'[m] :
            IF Has(m, "INIT_SEARCH") /\ i = 1 THEN cmdQueue'[m][i].type = "INIT_SEARCH"
                                              ELSE cmdQueue'[m][i] = cmd
      BY <2>2 DEF Replaced
    <3>2. Has(m, "INIT_SEARCH") => cmdQueue'[m][1].type = "INIT_SEARCH" /\ 1 \in DOMAIN cmdQueue'[m]
      BY <2>2 DEF Replaced
    <3>3. Has(m, "INIT_SEARCH")' <=> \E i \in DOMAIN cmdQueue'[m] : cmdQueue'[m][i].type = "INIT_SEARCH"
      BY DEF Has, Queued
    <3> QED
      BY <3>1, <3>2, <3>3
  <2>3. CASE m \notin P /\ m \notin Children(n)
    BY <1>0, <1>3, <2>3
  <2> QED
    BY <2>1, <2>2, <2>3
<1>7. \A m \in Nodes : Coming(m, "INIT_SEARCH")' <=> Coming(m, "INIT_SEARCH")
  BY <1>6, SameComing DEF Workers
<1>8. ASSUME NEW m \in Workers
      PROVE  Num(m, "START_SEARCH")' + Num(m, "STOP_SEARCH")' <= 1
  <2>0. m \in Nodes
    BY DEF Workers
  <2>1. CASE m \in P
    <3>1. \A type \in {"START_SEARCH", "STOP_SEARCH"} : Num(m, type)' = 0
      BY <1>0, <1>2, <2>0, <2>1 DEF Replaced
    <3> QED
      BY <3>1
  <2>2. CASE m \in Children(n)
    <3>1. \A type \in {"START_SEARCH", "STOP_SEARCH"} :
            Num(m, type)' = IF cmd.type = type THEN 1 ELSE 0
      <4>1. {"START_SEARCH", "STOP_SEARCH"} \subseteq CmdTypes \ {"INIT_SEARCH"}
        BY <1>0
      <4> QED
        BY <2>2, <4>1 DEF Replaced
    <3> QED
      BY <3>1
  <2>3. CASE m \notin P /\ m \notin Children(n)
    <3>1. \A type \in {"START_SEARCH", "STOP_SEARCH"} : Num(m, type)' = Num(m, type)
      BY <1>0, <1>3, <2>0, <2>3
    <3> QED
      BY <3>1 DEF IInv, Queues
  <2> QED
    BY <2>1, <2>2, <2>3
<1> QED
  BY <1>1, <1>2, <1>3, <1>4, <1>5, <1>6, <1>7, <1>8 DEF View

(* Replacing keeps the queues' part of the invariant.                       *)
LEMMA QueuesReplaced ==
    ASSUME IInv, NEW n \in Nodes, NEW P \in SUBSET {n}, NEW cmd,
           cmd.type \in {"START_SEARCH", "STOP_SEARCH"}, Replaced(n, P, cmd),
           P = {n} => n \in Workers,
           \A m \in Workers : Num(m, "START_SEARCH")' + Num(m, "STOP_SEARCH")' <= 1,
           cmd.type = "START_SEARCH" => cmd.search = search'[Root],
           search'[Root] = search[Root] \/ \A m \in Nodes : cmdQueue[m] = <<>>,
           Quitting => Quitting', pc'[Root] = "idle" => pc[Root] = "idle"
    PROVE  Queues'
<1>1. \A m \in Nodes : \A i \in DOMAIN cmdQueue'[m] :
        \/ \E j \in DOMAIN cmdQueue[m] : cmdQueue'[m][i] = cmdQueue[m][j]
        \/ m \in Children(n) /\ cmdQueue'[m][i] = cmd
  BY DEF Replaced
<1>2. cmdQueue'[Root] = cmdQueue[Root] /\ Root \in Nodes
  <2>1. Root \in Nodes /\ Root \notin Children(n) /\ Root \notin P
    BY Tree
  <2> QED
    BY <2>1 DEF Replaced
<1>3. ASSUME NEW m \in Nodes, NEW i \in DOMAIN cmdQueue'[m]
      PROVE  /\ cmdQueue'[m][i].type \in {"START_SEARCH", "REPORT_RESULT"} =>
                    cmdQueue'[m][i].search = search'[Root]
             /\ cmdQueue'[m][i].type \in {"QUIT", "QUIT_ACK"} => Quitting'
             /\ cmdQueue'[m][i].type = "REPORT_RESULT" => Children(m) # {}
  <2>1. CASE m \in Children(n) /\ cmdQueue'[m][i] = cmd
    BY <2>1
  <2>2. ASSUME NEW j \in DOMAIN cmdQueue[m], cmdQueue'[m][i] = cmdQueue[m][j]
        PROVE  /\ cmdQueue'[m][i].type \in {"START_SEARCH", "REPORT_RESULT"} =>
                        cmdQueue'[m][i].search = search'[Root]
               /\ cmdQueue'[m][i].type \in {"QUIT", "QUIT_ACK"} => Quitting'
               /\ cmdQueue'[m][i].type = "REPORT_RESULT" => Children(m) # {}
    <3>1. cmdQueue[m] # <<>>
      BY <2>2
    <3>2. search'[Root] = search[Root]
      BY <3>1
    <3> QED
      BY <2>2, <3>2 DEF IInv, Queues
  <2> QED
    BY <1>1, <1>3, <2>1, <2>2
<1>4. \A i \in DOMAIN cmdQueue'[Root] :
            cmdQueue'[Root][i].type \in {"REPORT_RESULT", "STOP_ACK", "QUIT_ACK"}
  BY <1>2 DEF IInv, Queues
<1>5. pc'[Root] = "idle" => cmdQueue'[Root] = <<>>
  BY <1>2 DEF IInv, Queues
<1> QED
  BY <1>3, <1>4, <1>5 DEF Queues

(* Node n, a worker that has polled a stop command or the root, stops the   *)
(* search below it.                                                         *)
LEMMA StopMoves ==
    ASSUME IInv, NEW n \in Nodes, NEW P \in SUBSET {n}, Replaced(n, P, Plain("STOP_SEARCH")),
           P = {n} <=> n \in Workers,
           n \in Workers => Head(cmdQueue[n]).type = "STOP_SEARCH" /\ pc' = pc
                            /\ pc[n] \in {"poll", "searchPoll"} /\ jobId'[n] = -1
                            /\ stopAckWaitSelf'[n] /\ search' = search /\ accepted' = accepted,
           n = Root => pc'[Root] = "stopPoll" /\ ~stopAckWaitSelf'[n] /\ ~Quitting,
           stopAckWaitChildren[n] = 0,
           stopAckWaitChildren'[n] = Cardinality(Children(n)),
           \A m \in Nodes : m # n =>
                /\ stopAckWaitChildren'[m] = stopAckWaitChildren[m]
                /\ stopAckWaitSelf'[m] = stopAckWaitSelf[m]
                /\ jobId'[m] = jobId[m] /\ pc'[m] = pc[m] /\ search'[m] = search[m],
           \/ search' = search /\ accepted' = accepted
           \/ accepted'.type # "REPORT_RESULT" /\ Resting /\ pc[Root] = "idle"
              /\ \A m \in Nodes : cmdQueue[m] = <<>>,
           UNCHANGED <<quitAckWaitChildren, handlerVars, stats>>,
           TypeOK', \A m \in Nodes : notified'[m] = (m \in Children(n) \union {n} \/ notified[m])
    PROVE  IInv'
<1> DEFINE cmd == Plain("STOP_SEARCH")
<1>c. cmd.type = "STOP_SEARCH" /\ cmd \in Cmds
  BY Commands DEF CmdTypes
<1>0. /\ Children(n) \subseteq Workers /\ n \notin Children(n) /\ Children(n) \subseteq Nodes
      /\ IsFiniteSet(Children(n)) /\ Root \in Nodes /\ Root \notin Children(n) /\ Root \notin Workers
      /\ (n \in Workers <=> n # Root) /\ Workers \subseteq Nodes
      /\ \A m \in Nodes : m # n => n \in Children(m) \/ n \notin Children(m)
      /\ \A m \in Nodes, c \in Children(n) : m # n => c \notin Children(m)
      /\ {"START_SEARCH", "STOP_SEARCH", "STOP_ACK", "QUIT", "QUIT_ACK", "INIT_SEARCH"} \subseteq CmdTypes
  BY Tree DEF Workers, CmdTypes
<1>1. /\ \A c \in Children(n) : ~OwesStopAck(c)
      /\ ~Has(n, "STOP_ACK") /\ ~stopAckWaitSelf[n] /\ ~Quitting
      /\ n \in Workers => /\ cmdQueue[n] # <<>> /\ cmdQueue[n][1].type = "STOP_SEARCH" /\ ~Resting
                          /\ OwesStopAck(n) /\ Has(n, "STOP_SEARCH") /\ hasStopAck(n)
                          /\ ~Has(n, "INIT_SEARCH") /\ ~Coming(n, "INIT_SEARCH")
                          /\ ~Coming(Parent[n], "INIT_SEARCH")
  <2>1. \A c \in Children(n) : ~OwesStopAck(c)
    BY NoChildOwes
  <2>2. ~Has(n, "STOP_ACK")
    BY NoChildOwes
  <2>3. CASE n \in Workers
    <3>1. Took(n) /\ n \in P
      BY <2>3 DEF Replaced
    <3>2. /\ cmdQueue[n] # <<>> /\ cmdQueue[n][1].type = "STOP_SEARCH" /\ 1 \in DOMAIN cmdQueue[n]
      BY <2>3, <3>1 DEF Took
    <3>3. Has(n, "STOP_SEARCH")
      BY <3>2 DEF Has, Queued
    <3>4. hasStopAck(n) /\ ~Resting /\ ~Quitting
      BY <2>3, <3>3, Front
    <3>5. ~Has(n, "INIT_SEARCH") /\ ~Coming(Parent[n], "INIT_SEARCH")
      BY <2>3, <3>2 DEF IInv, InitWave
    <3>6. ~Coming(n, "INIT_SEARCH")
      BY <2>3, <3>5, ComingDown
    <3> QED
      BY <2>1, <2>2, <2>3, <3>2, <3>3, <3>4, <3>5, <3>6 DEF OwesStopAck, hasStopAck, Has
  <2>4. CASE n = Root
    BY <1>0, <2>1, <2>2, <2>4 DEF IInv, Acks
  <2> QED
    BY <1>0, <2>3, <2>4
<1>2. View(n, P, "STOP_SEARCH")
  <2>1. ~Quitting /\ \A c \in Children(n) : ~OwesStopAck(c)
    BY <1>1
  <2>2. /\ P = {n} => n \in Workers /\ Head(cmdQueue[n]).type = "STOP_SEARCH"
        /\ cmd.type = "STOP_SEARCH" /\ Replaced(n, P, cmd) /\ P \in {{}, {n}}
    BY <1>c
  <2> HIDE DEF cmd
  <2>3. PICK new : new = cmd
    OBVIOUS
  <2>4. /\ Replaced(n, P, new) /\ new.type \in {"START_SEARCH", "STOP_SEARCH"}
        /\ P = {n} => n \in Workers /\ Head(cmdQueue[n]).type = new.type
    BY <2>2, <2>3
  <2>5. View(n, P, new.type)
    BY <2>1, <2>4, ReplacedView
  <2> QED
    BY <2>2, <2>3, <2>5
<1>2a. \A m \in Nodes, type \in CmdTypes :
            m # n /\ m \notin Children(n) => (Has(m, type)' <=> Has(m, type))
  BY <1>2 DEF View
<1>3. /\ \A m \in Nodes : m # n => (hasStopAck(m)' <=> hasStopAck(m))
      /\ \A c \in Children(n) : OwesStopAck(c)'
      /\ \A m \in Nodes : m \notin Children(n) /\ m # Root => (OwesStopAck(m)' <=> OwesStopAck(m))
  <2>1. \A m \in Nodes : m # n => (hasStopAck(m)' <=> hasStopAck(m))
    BY DEF hasStopAck
  <2>2. \A c \in Children(n) : OwesStopAck(c)'
    BY <1>0, <1>2 DEF OwesStopAck, Has, View
  <2>3. ASSUME NEW m \in Nodes, m \notin Children(n), m # Root
        PROVE  OwesStopAck(m)' <=> OwesStopAck(m)
    <3>1. CASE m = n
      BY <1>0, <1>1, <2>3, <3>1 DEF OwesStopAck, hasStopAck
    <3>2. CASE m # n
      BY <1>0, <1>2a, <2>1, <2>3, <3>2 DEF OwesStopAck, Has
    <3> QED
      BY <3>1, <3>2
  <2> QED
    BY <2>1, <2>2, <2>3
<1>4. /\ Places'
      /\ \A m \in Workers : pc'[m] = pc[m] /\ (Searching(m)' <=> Searching(m))
      /\ ~Quitting'
      /\ n \in Workers => /\ Active' <=> Active
                          /\ Stopping' <=> Stopping
                          /\ Resting' <=> Resting
      /\ n = Root => Stopping' /\ ~Active'
  <2>1. \A m \in Workers : pc'[m] = pc[m]
    BY <1>0
  <2>2. n \in Workers => pc'[Root] = pc[Root]
    BY <1>0
  <2>3. Places'
    BY <1>0, <2>1, <2>2 DEF IInv, Places, Active
  <2> QED
    BY <1>0, <1>1, <2>1, <2>2, <2>3 DEF Searching, Quitting, Active, Stopping, Resting
<1>5. Queues'
  <2>1. /\ cmd.type \in {"START_SEARCH", "STOP_SEARCH"} /\ cmd.type # "START_SEARCH"
        /\ Replaced(n, P, cmd)
        /\ search'[Root] = search[Root] \/ \A m \in Nodes : cmdQueue[m] = <<>>
        /\ pc'[Root] = "idle" => pc[Root] = "idle"
    BY <1>0, <1>c
  <2>2. \A m \in Workers : Num(m, "START_SEARCH")' + Num(m, "STOP_SEARCH")' <= 1
    BY <1>2 DEF View
  <2>3. /\ P = {n} => n \in Workers
        /\ cmd.type = "START_SEARCH" => cmd.search = search'[Root]
        /\ Quitting => Quitting'
        /\ P \in SUBSET {n}
    BY <1>1, <2>1
  <2> HIDE DEF cmd
  <2> QED
    BY <2>1, <2>2, <2>3, QueuesReplaced
<1>6. StopAcksBalance'
  <2> DEFINE Owing(m) == {c \in Children(m) : OwesStopAck(c)}
             OwingNow(m) == {c \in Children(m) : OwesStopAck(c)'}
  <2>1. /\ \A m \in Nodes : stopAckWaitChildren[m] = Cardinality(Owing(m)) + Num(m, "STOP_ACK")
        /\ Num(n, "STOP_ACK") = 0 /\ Cardinality(Children(n)) \in Nat
    <3>1. \A m \in Nodes : stopAckWaitChildren[m] = Cardinality(Owing(m)) + Num(m, "STOP_ACK")
      BY NoChildOwes
    <3>2. Num(n, "STOP_ACK") = 0
      BY <1>1, Counting DEF IInv
    <3> QED
      BY <1>0, <3>1, <3>2, FS_CardinalityType
  <2>2. OwingNow(n) = Children(n)
    BY <1>3
  <2>3. ASSUME NEW m \in Nodes, m # n
        PROVE  OwingNow(m) = Owing(m)
    BY <1>0, <1>3, <2>3, Tree DEF Workers
  <2>4. ASSUME NEW m \in Nodes
        PROVE  stopAckWaitChildren'[m] = Cardinality(OwingNow(m)) + Num(m, "STOP_ACK")'
    <3> HIDE DEF Owing, OwingNow
    <3>1. CASE m = n
      BY <1>2, <2>1, <2>2, <3>1 DEF View
    <3>2. CASE m # n
      BY <1>2, <2>1, <2>3, <3>2 DEF View
    <3> QED
      BY <3>1, <3>2
  <2> QED
    BY <2>4 DEF StopAcksBalance, Num
<1>7. Acks'
  <2>1. ASSUME NEW m \in Workers
        PROVE  /\ Has(m, "STOP_SEARCH")' \/ Has(m, "START_SEARCH")' => hasStopAck(m)'
               /\ stopAckWaitSelf'[m] => pc'[m] \in {"poll", "searchPoll"} /\ jobId'[m] = -1
               /\ pc'[m] = "search" => jobId'[m] = handlerJob'[m]
               /\ Searching(m)' => handlerJob'[m] # -1
    <3>0. m \in Nodes /\ handlerJob' = handlerJob
      BY <1>0 DEF handlerVars
    <3>1. CASE m = n
      <4>1. ~Has(m, "START_SEARCH")' /\ ~Has(m, "STOP_SEARCH")'
        BY <1>2, <2>1, <3>1 DEF View
      <4> QED
        BY <2>1, <3>0, <3>1, <4>1, <1>4 DEF IInv, Acks
    <3>2. CASE m # n
      <4>1. Has(m, "STOP_SEARCH")' \/ Has(m, "START_SEARCH")' => hasStopAck(m)'
        <5>1. CASE m \in Children(n)
          BY <1>1, <1>3, <3>0, <3>2, <5>1 DEF OwesStopAck
        <5>2. CASE m \notin Children(n)
          BY <1>0, <1>2a, <1>3, <3>0, <3>2, <5>2 DEF IInv, Acks
        <5> QED
          BY <5>1, <5>2
      <4> QED
        BY <2>1, <3>0, <3>2, <4>1, <1>4 DEF IInv, Acks
    <3> QED
      BY <3>1, <3>2
  <2>2. ~stopAckWaitSelf'[Root] /\ (~Stopping' => stopAckWaitChildren'[Root] = 0)
    BY <1>0, <1>4 DEF IInv, Acks
  <2> QED
    BY <1>6, <2>1, <2>2 DEF Acks
<1>8. StopWave'
  <2>1. CASE n = Root
    <3>1. ASSUME NEW m \in Workers PROVE Coming(m, "STOP_SEARCH")'
      <4>1. PICK c \in Children(n) : m \in Subtree(c)
        BY <2>1, Below
      <4>2. c \in Workers /\ Has(c, "STOP_SEARCH")'
        BY <1>0, <1>2 DEF View
      <4> QED
        BY <4>1, <4>2 DEF Coming
    <3> QED
      BY <3>1 DEF StopWave, PastStop
  <2>2. CASE n \in Workers
    <3>1. ASSUME NEW m \in Workers, m # n, PastStop(m)'
          PROVE  PastStop(m) /\ m \notin Children(n)
      <4>1. m \notin Children(n)
        <5> SUFFICES ASSUME m \in Children(n) PROVE FALSE
          OBVIOUS
        <5>1. Has(m, "STOP_SEARCH")' /\ m \in Subtree(m)
          BY <1>0, <1>2, Below DEF View
        <5> QED
          BY <3>1, <5>1 DEF PastStop, Coming
      <4>2. ASSUME NEW k \in Workers, m \in Subtree(k), Has(k, "STOP_SEARCH")
            PROVE  Coming(m, "STOP_SEARCH")'
        <5>1. CASE k = n
          <6>1. PICK c \in Children(n) : m \in Subtree(c)
            BY <1>0, <3>1, <4>2, <5>1, Below
          <6>2. c \in Workers /\ Has(c, "STOP_SEARCH")'
            BY <1>0, <1>2 DEF View
          <6> QED
            BY <6>1, <6>2 DEF Coming
        <5>2. CASE k \in Children(n)
          BY <1>2, <4>2, <5>2 DEF Coming, View
        <5>3. CASE k # n /\ k \notin Children(n)
          BY <1>0, <1>2a, <4>2, <5>3 DEF Coming
        <5> QED
          BY <5>1, <5>2, <5>3
      <4> QED
        BY <1>4, <2>2, <3>1, <4>1, <4>2 DEF PastStop, Coming
    <3>2. ASSUME NEW m \in Workers, m # n, PastStop(m)'
          PROVE  /\ jobId'[m] = -1
                 /\ Searching(m)' => stopAckWaitSelf'[m]
                 /\ \A i \in DOMAIN cmdQueue'[m] :
                    /\ cmdQueue'[m][i].type \in {"REPORT_RESULT", "STOP_ACK", "QUIT", "QUIT_ACK"}
                    /\ cmdQueue'[m][i].type = "REPORT_RESULT" =>
                        \/ \E c \in Children(m) : OwesStopAck(c)'
                        \/ \E j \in DOMAIN cmdQueue'[m] : j > i /\ cmdQueue'[m][j].type = "STOP_ACK"
      <4>1. PastStop(m) /\ m \notin Children(n)
        BY <3>1, <3>2
      <4>2. cmdQueue'[m] = cmdQueue[m]
        BY <1>0, <3>2, <4>1 DEF Replaced
      <4>3. \A c \in Children(m) : OwesStopAck(c)' <=> OwesStopAck(c)
        BY <1>0, <1>3, <3>2, Tree DEF Workers
      <4>4. /\ jobId'[m] = jobId[m] /\ stopAckWaitSelf'[m] = stopAckWaitSelf[m]
            /\ Searching(m)' <=> Searching(m)
        BY <1>0, <1>4, <3>2
      <4> QED
        BY <4>1, <4>2, <4>3, <4>4 DEF IInv, StopWave
    <3>3. ASSUME NEW i \in DOMAIN cmdQueue'[n]
          PROVE  /\ cmdQueue'[n][i].type = "REPORT_RESULT"
                 /\ \E c \in Children(n) : OwesStopAck(c)'
      <4>1. /\ ~Has(n, "START_SEARCH")' /\ ~Has(n, "STOP_SEARCH")'
            /\ ~Has(n, "STOP_ACK")' /\ ~Has(n, "INIT_SEARCH")'
        BY <1>1, <1>2, <2>2 DEF View
      <4>2. cmdQueue'[n][i].type \notin {"START_SEARCH", "STOP_SEARCH", "STOP_ACK", "INIT_SEARCH"}
        BY <3>3, <4>1 DEF Has, Queued
      <4>3. cmdQueue'[n][i].type \notin {"QUIT", "QUIT_ACK"}
        BY <1>4, <1>5, <3>3 DEF Queues
      <4>4. cmdQueue'[n][i].type \in CmdTypes
        <5>1. cmdQueue'[n] \in Seq(Cmds)
          BY DEF Replaced
        <5>2. cmdQueue'[n][i] \in Cmds
          BY <5>1, <3>3
        <5> QED
          BY <5>2, Commands
      <4>5. cmdQueue'[n][i].type = "REPORT_RESULT"
        BY <4>2, <4>3, <4>4 DEF CmdTypes
      <4>6. Children(n) # {}
        BY <1>5, <3>3, <4>5 DEF Queues
      <4> QED
        BY <1>3, <4>5, <4>6
    <3> QED
      BY <2>2, <3>2, <3>3 DEF StopWave
  <2> QED
    BY <1>0, <2>1, <2>2
<1>9. InitWave'
  <2>1. ASSUME NEW m \in Workers
        PROVE  /\ Coming(m, "INIT_SEARCH")' => jobId'[m] = -1 /\ ~Searching(m)' /\ hasStopAck(m)'
               /\ Coming(Parent[m], "INIT_SEARCH")' => cmdQueue'[m] = <<>>
               /\ Has(m, "INIT_SEARCH")' =>
                    /\ cmdQueue'[m][1].type = "INIT_SEARCH"
                    /\ \A i \in DOMAIN cmdQueue'[m] :
                            i # 1 => cmdQueue'[m][i].type \in {"START_SEARCH", "STOP_SEARCH"}
    <3>1. /\ m \in Nodes /\ Parent[m] \in Nodes
          /\ m \in Children(n) => Parent[m] = n
      BY <1>0, Tree
    <3>2. /\ Coming(m, "INIT_SEARCH")' <=> Coming(m, "INIT_SEARCH")
          /\ Coming(Parent[m], "INIT_SEARCH")' <=> Coming(Parent[m], "INIT_SEARCH")
          /\ Has(m, "INIT_SEARCH")' <=> Has(m, "INIT_SEARCH")
      BY <1>2, <3>1 DEF View
    <3>3. CASE m = n
      BY <1>1, <2>1, <3>2, <3>3
    <3>4. CASE m # n
      <4>1. Coming(m, "INIT_SEARCH")' => jobId'[m] = -1 /\ ~Searching(m)' /\ hasStopAck(m)'
        BY <1>3, <1>4, <3>1, <3>2, <3>4 DEF IInv, InitWave
      <4>2. CASE m \in Children(n)
        <5>1. ~Coming(n, "INIT_SEARCH")
          BY <1>0, <1>1, ComingDown
        <5>2. \A i \in DOMAIN cmdQueue'[m] :
                IF Has(m, "INIT_SEARCH") /\ i = 1 THEN cmdQueue'[m][i].type = "INIT_SEARCH"
                                                  ELSE cmdQueue'[m][i] = cmd
          BY <4>2 DEF Replaced
        <5>3. Has(m, "INIT_SEARCH") => cmdQueue'[m][1].type = "INIT_SEARCH" /\ 1 \in DOMAIN cmdQueue'[m]
          BY <4>2 DEF Replaced
        <5>4. Coming(Parent[m], "INIT_SEARCH")' => cmdQueue'[m] = <<>>
          BY <3>1, <3>2, <4>2, <5>1
        <5>5. Has(m, "INIT_SEARCH")' =>
                    /\ cmdQueue'[m][1].type = "INIT_SEARCH"
                    /\ \A i \in DOMAIN cmdQueue'[m] :
                            i # 1 => cmdQueue'[m][i].type \in {"START_SEARCH", "STOP_SEARCH"}
          <6> HIDE DEF cmd
          <6> QED
            BY <1>c, <3>2, <5>2, <5>3
        <5> QED
          BY <4>1, <5>4, <5>5
      <4>3. CASE m \notin Children(n)
        <5>1. cmdQueue'[m] = cmdQueue[m]
          BY <3>1, <3>4, <4>3 DEF Replaced
        <5> QED
          BY <3>2, <4>1, <5>1 DEF IInv, InitWave
      <4> QED
        BY <4>2, <4>3
    <3> QED
      BY <3>3, <3>4
  <2> QED
    BY <2>1 DEF InitWave
<1>10. Current'
  <2>1. ASSUME NEW m \in Workers
        PROVE  /\ jobId'[m] # -1 => search'[m] = search'[Root]
               /\ Searching(m)' => handlerSearch'[m] = search'[Root]
    <3>1. CASE search' = search
      BY <1>0, <1>4, <2>1, <3>1 DEF IInv, Current, handlerVars
    <3>2. CASE Resting
      <4>1. n = Root /\ m # n /\ m \in Nodes
        BY <1>0, <1>1, <3>2
      <4>2. jobId[m] = -1 /\ ~Searching(m)
        BY <3>2, Rest
      <4> QED
        BY <1>4, <4>1, <4>2
    <3> QED
      BY <3>1, <3>2
  <2>2. ResultsAreCurrent'
    BY DEF IInv, Current, ResultsAreCurrent
  <2>3. ASSUME Active'
        PROVE  /\ stats'[Root] \subseteq {search'[Root]}
               /\ \A m \in Workers : ~Coming(m, "INIT_SEARCH")' => stats'[m] \subseteq {search'[Root]}
    <3>1. n \in Workers /\ Active
      BY <1>0, <1>4, <2>3
    <3>2. search'[Root] = search[Root] /\ stats' = stats
      BY <1>0, <3>1
    <3>3. \A m \in Workers : Coming(m, "INIT_SEARCH")' <=> Coming(m, "INIT_SEARCH")
      BY <1>0, <1>2 DEF View
    <3> QED
      BY <3>1, <3>2, <3>3 DEF IInv, Current
  <2> QED
    BY <2>1, <2>2, <2>3 DEF Current
<1>11. Quits'
  <2>1. /\ \A m \in Nodes, type \in {"QUIT", "QUIT_ACK"} :
                Num(m, type)' = Num(m, type) /\ (Has(m, type)' <=> Has(m, type))
        /\ ~Quitting' => ~Quitting
        /\ quitAckWaitChildren' = quitAckWaitChildren
    BY <1>1, <1>2 DEF View
  <2> QED
    BY <2>1, QuitsKept
<1>12. Notifications'
  <2> DEFINE W == Children(n) \union {n}
  <2>1. W \in SUBSET Nodes /\ n \in W /\ Children(n) \subseteq W
    BY <1>0
  <2>2. \A m \in Nodes : m \notin W /\ cmdQueue'[m] # <<>> => cmdQueue[m] # <<>>
    <3>1. \A m \in Nodes : m \notin W => m \notin P /\ m \notin Children(n)
      OBVIOUS
    <3> QED
      BY <3>1 DEF Replaced
  <2>3. /\ \A m \in Nodes : notified'[m] = (m \in W \/ notified[m])
        /\ \A m \in Workers : m # n => handlerJob'[m] = handlerJob[m]
        /\ \A m \in Nodes : m # n => pc'[m] = pc[m] /\ jobId'[m] = jobId[m]
                                     /\ stopAckWaitSelf'[m] = stopAckWaitSelf[m]
    BY DEF handlerVars
  <2>4. /\ pc'[n] \in {"poll", "searchPoll", "stopPoll"}
        /\ \A m \in Nodes : pc'[m] \in {"stopWait", "quitWait"} => pc'[m] = pc[m]
    BY <1>0
  <2>5. n \in Workers /\ pc'[n] \in {"search", "searchPoll"} =>
                pc[n] \in {"search", "searchPoll"}
                /\ (jobId'[n] # handlerJob'[n] => jobId[n] # handlerJob[n] \/ notified[n])
    <3> SUFFICES ASSUME n \in Workers, pc'[n] \in {"search", "searchPoll"}
                 PROVE  pc[n] \in {"search", "searchPoll"} /\ notified[n]
      OBVIOUS
    <3>1. Searching(n) /\ cmdQueue[n] # <<>>
      BY <1>1, <1>4 DEF Searching
    <3> QED
      BY <3>1 DEF IInv, Notifications, Searching
  <2>6. pc'[n] = "wait" /\ ~notified[n] =>
                cmdQueue'[n] = <<>> /\ jobId'[n] = -1 /\ ~stopAckWaitSelf'[n]
    BY <2>4
  <2> HIDE DEF W
  <2> QED
    BY <2>1, <2>2, <2>3, <2>4, <2>5, <2>6, NotificationsKept
<1> QED
  BY <1>4, <1>5, <1>7, <1>8, <1>9, <1>10, <1>11, <1>12 DEF IInv

(* A worker polls a stop command.                                           *)
LEMMA StopSearchStep ==
    ASSUME IInv, NEW n \in Workers, pc[n] \in {"poll", "searchPoll"}, cmdQueue[n] # <<>>,
           Head(cmdQueue[n]).type = "STOP_SEARCH",
           StopSearch(n, [cmdQueue EXCEPT ![n] = Tail(@)])
    PROVE  IInv'
<1> n \in Nodes /\ n # Root /\ Children(n) \subseteq Nodes
  BY Tree DEF Workers
<1> DEFINE cmd == Plain("STOP_SEARCH")
<1>1. /\ cmdQueue' = PushOver([cmdQueue EXCEPT ![n] = Tail(@)], Children(n), cmd)
      /\ stopAckWaitChildren' = [stopAckWaitChildren EXCEPT ![n] = Cardinality(Children(n))]
      /\ stopAckWaitSelf' = [stopAckWaitSelf EXCEPT ![n] = TRUE]
      /\ jobId' = [jobId EXCEPT ![n] = -1]
      /\ notified' = Wake(Children(n) \union {n})
      /\ UNCHANGED <<quitAckWaitChildren, handlerVars, hasResult, pc, search, stats, accepted>>
  BY DEF StopSearch, sendStopSearch
<1>2. Has(n, "STOP_SEARCH")
  BY Polled
<1>3. /\ ~Quitting /\ hasStopAck(n) /\ stopAckWaitChildren[n] = 0
      /\ \A c \in Children(n) : hasStopAck(c)
  BY <1>2, Front DEF OwesStopAck, hasStopAck
<1>4. {n} \in SUBSET {n} /\ cmd \in Cmds /\ {n} = {n}
  BY Commands DEF CmdTypes
<1>5. Replaced(n, {n}, cmd)
  <2> HIDE DEF cmd
  <2> QED
    BY <1>1, <1>3, <1>4, Replacing
<1>6. /\ stopAckWaitChildren' \in [Nodes -> 0 .. Cardinality(Nodes)]
      /\ stopAckWaitChildren'[n] = Cardinality(Children(n))
      /\ stopAckWaitSelf' \in [Nodes -> BOOLEAN] /\ stopAckWaitSelf'[n]
      /\ jobId' \in [Nodes -> JobIds \union {-1}] /\ jobId'[n] = -1
      /\ \A m \in Nodes : m # n =>
            /\ stopAckWaitChildren'[m] = stopAckWaitChildren[m]
            /\ stopAckWaitSelf'[m] = stopAckWaitSelf[m]
            /\ jobId'[m] = jobId[m]
  BY <1>1, Tree DEF IInv, TypeOK
<1>7. /\ notified' \in [Nodes -> BOOLEAN]
      /\ \A m \in Nodes : notified'[m] = (m \in Children(n) \union {n} \/ notified[m])
  BY <1>1 DEF Wake, IInv, TypeOK
<1>8. cmdQueue' \in [Nodes -> Seq(Cmds)]
  BY <1>5 DEF Replaced
<1>9. TypeOK'
  BY <1>1, <1>6, <1>7, <1>8 DEF IInv, TypeOK, handlerVars
<1>10. /\ {n} = {n} <=> n \in Workers
       /\ n \in Workers => Head(cmdQueue[n]).type = "STOP_SEARCH" /\ pc' = pc
                            /\ pc[n] \in {"poll", "searchPoll"} /\ jobId'[n] = -1
                            /\ stopAckWaitSelf'[n] /\ search' = search /\ accepted' = accepted
       /\ UNCHANGED <<quitAckWaitChildren, handlerVars, stats>>
       /\ \A m \in Nodes : m # n =>
                /\ stopAckWaitChildren'[m] = stopAckWaitChildren[m]
                /\ stopAckWaitSelf'[m] = stopAckWaitSelf[m]
                /\ jobId'[m] = jobId[m] /\ pc'[m] = pc[m] /\ search'[m] = search[m]
  BY <1>1, <1>6
<1> HIDE DEF cmd
<1> QED
  BY <1>3, <1>4, <1>5, <1>6, <1>7, <1>9, <1>10, StopMoves DEF cmd

(* The root stops a search, or begins one that is over at once.             *)
LEMMA RootStopStep ==
    ASSUME IInv, RootStop \/ RootNoMoves
    PROVE  IInv'
<1> DEFINE cmd == Plain("STOP_SEARCH")
<1> Root \in Nodes /\ Root \notin Workers /\ Children(Root) \subseteq Nodes
    /\ Children(Root) \subseteq Workers
  BY Tree DEF Workers
<1>1. /\ cmdQueue' = PushOver(cmdQueue, Children(Root), cmd)
      /\ stopAckWaitChildren' = [stopAckWaitChildren EXCEPT ![Root] = Cardinality(Children(Root))]
      /\ notified' = Wake(Children(Root) \union {Root})
      /\ pc' = [pc EXCEPT ![Root] = "stopPoll"]
      /\ pc[Root] \in {"between", "searchPoll", "idle"}
      /\ UNCHANGED <<stopAckWaitSelf, quitAckWaitChildren, handlerVars, hasResult, stats>>
  BY DEF RootStop, RootNoMoves, sendStopSearch
<1>2. \/ UNCHANGED <<search, accepted, jobId>>
      \/ /\ pc[Root] = "idle" /\ search[Root] < Len(Jobs)
         /\ search' = [search EXCEPT ![Root] = @ + 1] /\ jobId' = [jobId EXCEPT ![Root] = 0]
         /\ accepted' = Plain("none")
  BY DEF RootStop, RootNoMoves
<1>3. ~Quitting /\ ~Stopping /\ ~stopAckWaitSelf[Root] /\ stopAckWaitChildren[Root] = 0
  BY <1>1 DEF Quitting, Stopping, IInv, Acks
<1>4. \A c \in Children(Root) : hasStopAck(c)
  BY <1>3, NobodyOwes DEF OwesStopAck
<1>5. {} \in SUBSET {Root} /\ cmd \in Cmds /\ {} # {Root}
  BY Commands DEF CmdTypes
<1>6. Replaced(Root, {}, cmd)
  <2> HIDE DEF cmd
  <2> QED
    BY <1>1, <1>3, <1>4, <1>5, Replacing
<1>7. /\ stopAckWaitChildren' \in [Nodes -> 0 .. Cardinality(Nodes)]
      /\ stopAckWaitChildren'[Root] = Cardinality(Children(Root))
      /\ pc' \in [Nodes -> {"wait", "poll", "search", "searchPoll", "exited", "idle", "between",
                            "stopPoll", "stopWait", "quitPoll", "quitWait"}]
      /\ pc'[Root] = "stopPoll"
      /\ \A m \in Nodes : m # Root =>
            stopAckWaitChildren'[m] = stopAckWaitChildren[m] /\ pc'[m] = pc[m]
  BY <1>1, Tree DEF IInv, TypeOK
<1>8. /\ notified' \in [Nodes -> BOOLEAN]
      /\ \A m \in Nodes : notified'[m] = (m \in Children(Root) \union {Root} \/ notified[m])
  BY <1>1 DEF Wake, IInv, TypeOK
<1>9. /\ search' \in [Nodes -> Searches] /\ jobId' \in [Nodes -> JobIds \union {-1}]
      /\ accepted' \in Cmds \union {Plain("none")}
      /\ \A m \in Nodes : m # Root => jobId'[m] = jobId[m] /\ search'[m] = search[m]
  <2>1. search \in [Nodes -> Searches] /\ jobId \in [Nodes -> JobIds \union {-1}]
        /\ accepted \in Cmds \union {Plain("none")}
    BY DEF IInv, TypeOK
  <2>2. search[Root] < Len(Jobs) => search[Root] + 1 \in Searches
    BY <2>1, TreeAssumption DEF Searches
  <2> QED
    BY <1>2, <2>1, <2>2, JobNumbers
<1>10. cmdQueue' \in [Nodes -> Seq(Cmds)]
  BY <1>6 DEF Replaced
<1>11. TypeOK'
  BY <1>1, <1>7, <1>8, <1>9, <1>10 DEF IInv, TypeOK, handlerVars
<1>12. pc[Root] = "idle" => Resting /\ \A m \in Nodes : cmdQueue[m] = <<>>
  <2>1. pc[Root] = "idle" => Resting /\ cmdQueue[Root] = <<>>
    BY DEF Resting, IInv, Queues
  <2> QED
    BY <2>1, Rest DEF Workers
<1>13. \/ search' = search /\ accepted' = accepted
       \/ accepted'.type # "REPORT_RESULT" /\ Resting /\ pc[Root] = "idle"
           /\ \A m \in Nodes : cmdQueue[m] = <<>>
  <2>1. Plain("none").type = "none"
    BY DEF Plain, Cmd
  <2> QED
    BY <1>2, <1>12, <2>1
<1>14. /\ {} = {Root} <=> Root \in Workers
       /\ Root = Root => pc'[Root] = "stopPoll" /\ ~stopAckWaitSelf'[Root] /\ ~Quitting
       /\ UNCHANGED <<quitAckWaitChildren, handlerVars, stats>>
       /\ \A m \in Nodes : m # Root =>
                /\ stopAckWaitChildren'[m] = stopAckWaitChildren[m]
                /\ stopAckWaitSelf'[m] = stopAckWaitSelf[m]
                /\ jobId'[m] = jobId[m] /\ pc'[m] = pc[m] /\ search'[m] = search[m]
  BY <1>1, <1>3, <1>5, <1>7, <1>9
<1> HIDE DEF cmd
<1> QED
  BY <1>3, <1>5, <1>6, <1>7, <1>8, <1>11, <1>13, <1>14, StopMoves DEF cmd

(* Node n, a worker that has polled a start command or the root, starts a   *)
(* job below it.                                                            *)
LEMMA StartMoves ==
    ASSUME IInv, NEW n \in Nodes, NEW P \in SUBSET {n}, NEW cmd, cmd.type = "START_SEARCH",
           cmd.search = search[Root], Replaced(n, P, cmd), P = {n} <=> n \in Workers,
           ~Quitting, stopAckWaitChildren[n] = 0,
           n \in Workers => Head(cmdQueue[n]).type = "START_SEARCH" /\ pc' = pc
                            /\ pc[n] \in {"poll", "searchPoll"} /\ search'[n] = search[Root],
           n = Root => pc[Root] = "between" /\ pc'[Root] = "search" /\ search' = search,
           \A m \in Nodes : m # n =>
                jobId'[m] = jobId[m] /\ pc'[m] = pc[m] /\ search'[m] = search[m],
           UNCHANGED <<ackVars, handlerVars, stats, accepted>>,
           TypeOK', \A m \in Nodes : notified'[m] = (m \in Children(n) \/ notified[m])
    PROVE  IInv'
<1>0. /\ Children(n) \subseteq Workers /\ n \notin Children(n) /\ Children(n) \subseteq Nodes
      /\ Root \in Nodes /\ Root \notin Children(n) /\ Root \notin Workers
      /\ (n \in Workers <=> n # Root) /\ Workers \subseteq Nodes
      /\ {"START_SEARCH", "STOP_SEARCH", "STOP_ACK", "QUIT", "QUIT_ACK", "INIT_SEARCH"} \subseteq CmdTypes
  BY Tree DEF Workers, CmdTypes
<1>1. /\ \A c \in Children(n) : ~OwesStopAck(c) /\ ~Has(c, "STOP_SEARCH")
      /\ n \in Workers => /\ cmdQueue[n] # <<>> /\ cmdQueue[n][1].type = "START_SEARCH" /\ ~Resting
                          /\ 1 \in DOMAIN cmdQueue[n]
                          /\ hasStopAck(n) /\ ~Has(n, "STOP_SEARCH") /\ ~stopAckWaitSelf[n]
                          /\ ~Has(n, "INIT_SEARCH") /\ ~Coming(n, "INIT_SEARCH")
                          /\ ~Coming(Parent[n], "INIT_SEARCH")
  <2>1. \A c \in Children(n) : ~OwesStopAck(c) /\ ~Has(c, "STOP_SEARCH")
    BY NoChildOwes DEF OwesStopAck, Has
  <2>2. CASE n \in Workers
    <3>1. Took(n) /\ n \in P
      BY <2>2 DEF Replaced
    <3>2. /\ cmdQueue[n] # <<>> /\ cmdQueue[n][1].type = "START_SEARCH" /\ 1 \in DOMAIN cmdQueue[n]
      BY <2>2, <3>1 DEF Took
    <3>3. Has(n, "START_SEARCH")
      BY <3>2 DEF Has, Queued
    <3>4. hasStopAck(n) /\ ~Resting
      BY <2>2, <3>3, Front
    <3>5. ~Has(n, "STOP_SEARCH")
      <4>1. Num(n, "START_SEARCH") + Num(n, "STOP_SEARCH") <= 1
        BY <2>2 DEF IInv, Queues
      <4>2. \A type \in {"START_SEARCH", "STOP_SEARCH"} :
                Num(n, type) \in Nat /\ (Has(n, type) <=> Num(n, type) # 0)
        BY Counting DEF IInv
      <4> QED
        BY <3>3, <4>1, <4>2
    <3>6. ~Has(n, "INIT_SEARCH") /\ ~Coming(Parent[n], "INIT_SEARCH")
      BY <2>2, <3>2 DEF IInv, InitWave
    <3>7. ~Coming(n, "INIT_SEARCH")
      BY <2>2, <3>6, ComingDown
    <3> QED
      BY <2>1, <2>2, <3>2, <3>4, <3>5, <3>6, <3>7 DEF hasStopAck
  <2> QED
    BY <1>0, <2>1, <2>2
<1>2. View(n, P, "START_SEARCH")
  <2>1. /\ \A c \in Children(n) : ~OwesStopAck(c)
        /\ P = {n} => n \in Workers /\ Head(cmdQueue[n]).type = cmd.type
        /\ cmd.type \in {"START_SEARCH", "STOP_SEARCH"}
    BY <1>1
  <2>2. View(n, P, cmd.type)
    BY <2>1, ReplacedView
  <2> QED
    BY <2>2
<1>3. /\ ackVars' = ackVars /\ \A m : hasStopAck(m)' <=> hasStopAck(m)
      /\ \A m \in Workers : Has(m, "STOP_SEARCH")' <=> Has(m, "STOP_SEARCH")
      /\ \A m \in Workers : OwesStopAck(m)' <=> OwesStopAck(m)
      /\ \A m \in Nodes : Coming(m, "STOP_SEARCH")' <=> Coming(m, "STOP_SEARCH")
  <2>1. \A m : hasStopAck(m)' <=> hasStopAck(m)
    BY DEF hasStopAck, ackVars
  <2>2. ASSUME NEW m \in Workers
        PROVE  Has(m, "STOP_SEARCH")' <=> Has(m, "STOP_SEARCH")
    <3>1. CASE m = n
      BY <1>0, <1>1, <1>2, <2>2, <3>1 DEF View
    <3>2. CASE m \in Children(n)
      BY <1>0, <1>1, <1>2, <3>2 DEF View
    <3>3. CASE m # n /\ m \notin Children(n)
      BY <1>0, <1>2, <2>2, <3>3 DEF View
    <3> QED
      BY <3>1, <3>2, <3>3
  <2>3. \A m \in Workers : OwesStopAck(m)' <=> OwesStopAck(m)
    BY <2>1, <2>2 DEF OwesStopAck, Has
  <2>4. \A m \in Nodes : Coming(m, "STOP_SEARCH")' <=> Coming(m, "STOP_SEARCH")
    BY <2>2, SameComing
  <2> QED
    BY <2>1, <2>2, <2>3, <2>4
<1>4. /\ Places'
      /\ \A m \in Workers : pc'[m] = pc[m] /\ (Searching(m)' <=> Searching(m))
      /\ ~Quitting' /\ search'[Root] = search[Root]
      /\ Active' <=> Active
      /\ Stopping' <=> Stopping
      /\ Resting' <=> Resting
      /\ n = Root => ~Stopping' /\ ~Resting' /\ ~Stopping
  <2>1. \A m \in Workers : pc'[m] = pc[m]
    BY <1>0
  <2>2. n \in Workers => pc'[Root] = pc[Root]
    BY <1>0
  <2>3. Places'
    BY <1>0, <2>1, <2>2 DEF IInv, Places, Active
  <2>4. search'[Root] = search[Root]
    BY <1>0
  <2> QED
    BY <1>0, <2>1, <2>2, <2>3, <2>4 DEF Searching, Quitting, Active, Stopping, Resting
<1>5. Queues'
  <2>1. /\ cmd.type \in {"START_SEARCH", "STOP_SEARCH"}
        /\ cmd.type = "START_SEARCH" => cmd.search = search'[Root]
        /\ search'[Root] = search[Root] \/ \A m \in Nodes : cmdQueue[m] = <<>>
        /\ pc'[Root] = "idle" => pc[Root] = "idle"
        /\ P = {n} => n \in Workers
        /\ Quitting => Quitting'
    BY <1>0, <1>4
  <2>2. \A m \in Workers : Num(m, "START_SEARCH")' + Num(m, "STOP_SEARCH")' <= 1
    BY <1>2 DEF View
  <2> QED
    BY <2>1, <2>2, QueuesReplaced
<1>6. StopAcksBalance'
  <2>1. \A m \in Nodes : {c \in Children(m) : OwesStopAck(c)'} = {c \in Children(m) : OwesStopAck(c)}
    BY <1>3, Tree
  <2>2. \A m \in Nodes : Num(m, "STOP_ACK")' = Num(m, "STOP_ACK")
    BY <1>2 DEF View
  <2>3. stopAckWaitChildren' = stopAckWaitChildren
    BY DEF ackVars
  <2> QED
    BY <2>1, <2>2, <2>3 DEF StopAcksBalance, IInv, Acks, Num
<1>7. Acks'
  <2>1. ASSUME NEW m \in Workers
        PROVE  /\ Has(m, "STOP_SEARCH")' \/ Has(m, "START_SEARCH")' => hasStopAck(m)'
               /\ stopAckWaitSelf'[m] => pc'[m] \in {"poll", "searchPoll"} /\ jobId'[m] = -1
               /\ pc'[m] = "search" => jobId'[m] = handlerJob'[m]
               /\ Searching(m)' => handlerJob'[m] # -1
    <3>0. m \in Nodes /\ handlerJob' = handlerJob /\ stopAckWaitSelf' = stopAckWaitSelf
      BY <1>0 DEF handlerVars, ackVars
    <3>1. CASE m = n
      BY <1>1, <1>3, <1>4, <2>1, <3>0, <3>1 DEF IInv, Acks
    <3>2. CASE m # n
      <4>1. Has(m, "STOP_SEARCH")' \/ Has(m, "START_SEARCH")' => hasStopAck(m)'
        <5>1. CASE m \in Children(n)
          BY <1>1, <1>3, <5>1 DEF OwesStopAck
        <5>2. CASE m \notin Children(n)
          <6>1. Has(m, "START_SEARCH")' <=> Has(m, "START_SEARCH")
            BY <1>0, <1>2, <3>0, <3>2, <5>2 DEF View
          <6> QED
            BY <1>3, <6>1 DEF IInv, Acks
        <5> QED
          BY <5>1, <5>2
      <4> QED
        BY <1>4, <3>0, <3>2, <4>1 DEF IInv, Acks
    <3> QED
      BY <3>1, <3>2
  <2>2. ~stopAckWaitSelf'[Root] /\ (~Stopping' => stopAckWaitChildren'[Root] = 0)
    BY <1>4 DEF IInv, Acks, ackVars
  <2> QED
    BY <1>6, <2>1, <2>2 DEF Acks
<1>8. StopWave'
  <2>1. CASE n = Root
    BY <1>4, <2>1 DEF StopWave, PastStop
  <2>2. CASE n \in Workers
    <3>1. ~PastStop(n)
      BY <1>1, <2>2 DEF IInv, StopWave
    <3>2. ASSUME NEW m \in Workers, PastStop(m)'
          PROVE  PastStop(m) /\ m # n /\ m \notin Children(n)
      <4>1. PastStop(m)
        BY <1>0, <1>3, <1>4, <3>2 DEF PastStop
      <4>2. m \notin Children(n)
        <5> SUFFICES ASSUME m \in Children(n) PROVE FALSE
          OBVIOUS
        <5>1. Parent[m] = n
          BY Tree
        <5>2. Coming(n, "STOP_SEARCH")
          BY <3>1, <4>1 DEF PastStop
        <5> QED
          BY <4>1, <5>1, <5>2, ComingDown DEF PastStop
      <4> QED
        BY <3>1, <4>1, <4>2
    <3>3. ASSUME NEW m \in Workers, PastStop(m)'
          PROVE  /\ jobId'[m] = -1
                 /\ Searching(m)' => stopAckWaitSelf'[m]
                 /\ \A i \in DOMAIN cmdQueue'[m] :
                    /\ cmdQueue'[m][i].type \in {"REPORT_RESULT", "STOP_ACK", "QUIT", "QUIT_ACK"}
                    /\ cmdQueue'[m][i].type = "REPORT_RESULT" =>
                        \/ \E c \in Children(m) : OwesStopAck(c)'
                        \/ \E j \in DOMAIN cmdQueue'[m] : j > i /\ cmdQueue'[m][j].type = "STOP_ACK"
      <4>1. PastStop(m) /\ m # n /\ m \notin Children(n) /\ m \in Nodes
        BY <1>0, <3>2, <3>3
      <4>2. cmdQueue'[m] = cmdQueue[m]
        BY <4>1 DEF Replaced
      <4>3. \A c \in Children(m) : OwesStopAck(c)' <=> OwesStopAck(c)
        BY <1>3, <4>1, Tree
      <4>4. /\ jobId'[m] = jobId[m] /\ stopAckWaitSelf'[m] = stopAckWaitSelf[m]
            /\ Searching(m)' <=> Searching(m)
        BY <1>4, <4>1 DEF ackVars
      <4> QED
        BY <4>1, <4>2, <4>3, <4>4 DEF IInv, StopWave
    <3> QED
      BY <3>3 DEF StopWave
  <2> QED
    BY <1>0, <2>1, <2>2
<1>9. InitWave'
  <2>1. ASSUME NEW m \in Workers
        PROVE  /\ Coming(m, "INIT_SEARCH")' => jobId'[m] = -1 /\ ~Searching(m)' /\ hasStopAck(m)'
               /\ Coming(Parent[m], "INIT_SEARCH")' => cmdQueue'[m] = <<>>
               /\ Has(m, "INIT_SEARCH")' =>
                    /\ cmdQueue'[m][1].type = "INIT_SEARCH"
                    /\ \A i \in DOMAIN cmdQueue'[m] :
                            i # 1 => cmdQueue'[m][i].type \in {"START_SEARCH", "STOP_SEARCH"}
    <3>1. /\ m \in Nodes /\ Parent[m] \in Nodes
          /\ m \in Children(n) => Parent[m] = n
      BY <1>0, Tree
    <3>2. /\ Coming(m, "INIT_SEARCH")' <=> Coming(m, "INIT_SEARCH")
          /\ Coming(Parent[m], "INIT_SEARCH")' <=> Coming(Parent[m], "INIT_SEARCH")
          /\ Has(m, "INIT_SEARCH")' <=> Has(m, "INIT_SEARCH")
      BY <1>2, <3>1 DEF View
    <3>3. CASE m = n
      BY <1>1, <2>1, <3>2, <3>3
    <3>4. CASE m # n
      <4>1. Coming(m, "INIT_SEARCH")' => jobId'[m] = -1 /\ ~Searching(m)' /\ hasStopAck(m)'
        BY <1>3, <1>4, <3>1, <3>2, <3>4 DEF IInv, InitWave
      <4>2. CASE m \in Children(n)
        <5>1. ~Coming(n, "INIT_SEARCH")
          BY <1>0, <1>1, ComingDown
        <5>2. \A i \in DOMAIN cmdQueue'[m] :
                IF Has(m, "INIT_SEARCH") /\ i = 1 THEN cmdQueue'[m][i].type = "INIT_SEARCH"
                                                  ELSE cmdQueue'[m][i] = cmd
          BY <4>2 DEF Replaced
        <5>3. Has(m, "INIT_SEARCH") => cmdQueue'[m][1].type = "INIT_SEARCH" /\ 1 \in DOMAIN cmdQueue'[m]
          BY <4>2 DEF Replaced
        <5>4. Coming(Parent[m], "INIT_SEARCH")' => cmdQueue'[m] = <<>>
          BY <3>1, <3>2, <4>2, <5>1
        <5>5. Has(m, "INIT_SEARCH")' =>
                    /\ cmdQueue'[m][1].type = "INIT_SEARCH"
                    /\ \A i \in DOMAIN cmdQueue'[m] :
                            i # 1 => cmdQueue'[m][i].type \in {"START_SEARCH", "STOP_SEARCH"}
          BY <3>2, <5>2, <5>3
        <5> QED
          BY <4>1, <5>4, <5>5
      <4>3. CASE m \notin Children(n)
        <5>1. cmdQueue'[m] = cmdQueue[m]
          BY <3>1, <3>4, <4>3 DEF Replaced
        <5> QED
          BY <3>2, <4>1, <5>1 DEF IInv, InitWave
      <4> QED
        BY <4>2, <4>3
    <3> QED
      BY <3>3, <3>4
  <2> QED
    BY <2>1 DEF InitWave
<1>10. Current'
  <2>1. ASSUME NEW m \in Workers
        PROVE  /\ jobId'[m] # -1 => search'[m] = search'[Root]
               /\ Searching(m)' => handlerSearch'[m] = search'[Root]
    <3>1. m \in Nodes
      BY <1>0
    <3>2. CASE m = n
      BY <1>4, <2>1, <3>2 DEF IInv, Current, handlerVars
    <3>3. CASE m # n
      BY <1>4, <2>1, <3>1, <3>3 DEF IInv, Current, handlerVars
    <3> QED
      BY <3>2, <3>3
  <2>2. ResultsAreCurrent'
    BY <1>4 DEF IInv, Current, ResultsAreCurrent
  <2>3. \A m \in Workers : Coming(m, "INIT_SEARCH")' <=> Coming(m, "INIT_SEARCH")
    BY <1>0, <1>2 DEF View
  <2> QED
    BY <1>4, <2>1, <2>2, <2>3 DEF IInv, Current
<1>11. Quits'
  <2>1. /\ \A m \in Nodes, type \in {"QUIT", "QUIT_ACK"} :
                Num(m, type)' = Num(m, type) /\ (Has(m, type)' <=> Has(m, type))
        /\ ~Quitting' => ~Quitting
        /\ quitAckWaitChildren' = quitAckWaitChildren
    BY <1>2 DEF View, ackVars
  <2> QED
    BY <2>1, QuitsKept
<1>12. Notifications'
  <2> DEFINE W == Children(n)
  <2>1. W \in SUBSET Nodes
    BY <1>0
  <2>2. \A m \in Nodes : m \notin W /\ cmdQueue'[m] # <<>> => cmdQueue[m] # <<>>
    <3>1. ASSUME NEW m \in Nodes, m \notin W, cmdQueue'[m] # <<>>
          PROVE  cmdQueue[m] # <<>>
      <4>1. CASE m = n /\ n \in Workers
        BY <1>1, <4>1
      <4>2. CASE m \notin P
        BY <3>1, <4>2 DEF Replaced
      <4> QED
        BY <4>1, <4>2
    <3> QED
      BY <3>1
  <2>3. /\ \A m \in Nodes : notified'[m] = (m \in W \/ notified[m])
        /\ \A m \in Workers : m # n => handlerJob'[m] = handlerJob[m]
        /\ \A m \in Nodes : m # n => pc'[m] = pc[m] /\ jobId'[m] = jobId[m]
                                     /\ stopAckWaitSelf'[m] = stopAckWaitSelf[m]
    BY DEF handlerVars, ackVars
  <2>4. /\ pc'[n] \in {"poll", "searchPoll", "search"}
        /\ \A m \in Nodes : pc'[m] \in {"stopWait", "quitWait"} => pc'[m] = pc[m]
    BY <1>0
  <2>5. n \in Workers /\ pc'[n] \in {"search", "searchPoll"} =>
                pc[n] \in {"search", "searchPoll"}
                /\ (jobId'[n] # handlerJob'[n] => jobId[n] # handlerJob[n] \/ notified[n])
    <3> SUFFICES ASSUME n \in Workers, pc'[n] \in {"search", "searchPoll"}
                 PROVE  pc[n] \in {"search", "searchPoll"} /\ notified[n]
      OBVIOUS
    <3>1. Searching(n) /\ cmdQueue[n] # <<>>
      BY <1>1, <1>4 DEF Searching
    <3> QED
      BY <3>1 DEF IInv, Notifications, Searching
  <2>6. pc'[n] = "wait" /\ ~notified[n] =>
                cmdQueue'[n] = <<>> /\ jobId'[n] = -1 /\ ~stopAckWaitSelf'[n]
    BY <2>4
  <2> HIDE DEF W
  <2> QED
    BY <2>1, <2>2, <2>3, <2>4, <2>5, <2>6, NotificationsKept
<1> QED
  BY <1>4, <1>5, <1>7, <1>8, <1>9, <1>10, <1>11, <1>12 DEF IInv

(* A worker polls a start command.                                          *)
LEMMA StartSearchStep ==
    ASSUME IInv, NEW n \in Workers, pc[n] \in {"poll", "searchPoll"}, cmdQueue[n] # <<>>,
           Head(cmdQueue[n]).type = "START_SEARCH",
           StartSearch(n, [cmdQueue EXCEPT ![n] = Tail(@)], Head(cmdQueue[n]))
    PROVE  IInv'
<1> n \in Nodes /\ n # Root /\ Children(n) \subseteq Nodes
  BY Tree DEF Workers
<1> DEFINE polled == Head(cmdQueue[n])
           cmd == Cmd("START_SEARCH", polled.job, polled.search)
<1>1. /\ cmdQueue' = PushOver([cmdQueue EXCEPT ![n] = Tail(@)], Children(n), cmd)
      /\ jobId' = [jobId EXCEPT ![n] = polled.job]
      /\ search' = [search EXCEPT ![n] = polled.search]
      /\ hasResult' = [hasResult EXCEPT ![n] = FALSE]
      /\ notified' = Wake(Children(n))
      /\ UNCHANGED <<ackVars, handlerVars, pc, stats, accepted>>
  BY DEF StartSearch, sendStartSearch
<1>2. /\ Has(n, "START_SEARCH") /\ polled \in Cmds /\ polled.search = search[Root]
  BY Polled
<1>3. /\ ~Quitting /\ hasStopAck(n) /\ stopAckWaitChildren[n] = 0
      /\ \A c \in Children(n) : hasStopAck(c)
  BY <1>2, Front DEF OwesStopAck, hasStopAck
<1>4. /\ {n} \in SUBSET {n} /\ cmd \in Cmds /\ {n} = {n}
      /\ cmd.type = "START_SEARCH" /\ cmd.search = search[Root]
      /\ polled.job \in JobIds /\ polled.search \in Searches
  <2> HIDE DEF polled
  <2> QED
    BY <1>2, Commands DEF CmdTypes
<1> HIDE DEF cmd, polled
<1>5. Replaced(n, {n}, cmd)
  BY <1>1, <1>3, <1>4, Replacing
<1>6. /\ jobId' \in [Nodes -> JobIds \union {-1}] /\ search' \in [Nodes -> Searches]
      /\ search'[n] = search[Root] /\ hasResult' \in [Workers -> BOOLEAN]
      /\ \A m \in Nodes : m # n => jobId'[m] = jobId[m] /\ search'[m] = search[m]
  BY <1>1, <1>2, <1>4 DEF IInv, TypeOK
<1>7. /\ notified' \in [Nodes -> BOOLEAN]
      /\ \A m \in Nodes : notified'[m] = (m \in Children(n) \/ notified[m])
  BY <1>1 DEF Wake, IInv, TypeOK
<1>8. cmdQueue' \in [Nodes -> Seq(Cmds)]
  BY <1>5 DEF Replaced
<1>9. TypeOK'
  BY <1>1, <1>6, <1>7, <1>8 DEF IInv, TypeOK, handlerVars, ackVars
<1>10. /\ {n} = {n} <=> n \in Workers
       /\ n \in Workers => Head(cmdQueue[n]).type = "START_SEARCH" /\ pc' = pc
                            /\ pc[n] \in {"poll", "searchPoll"} /\ search'[n] = search[Root]
       /\ UNCHANGED <<ackVars, handlerVars, stats, accepted>>
       /\ \A m \in Nodes : m # n =>
                jobId'[m] = jobId[m] /\ pc'[m] = pc[m] /\ search'[m] = search[m]
  BY <1>1, <1>6
<1> QED
  BY <1>3, <1>4, <1>5, <1>7, <1>9, <1>10, StartMoves

(* The root starts a job.                                                   *)
LEMMA RootStartJobStep ==
    ASSUME IInv, RootStartJob
    PROVE  IInv'
<1> Root \in Nodes /\ Root \notin Workers /\ Children(Root) \subseteq Nodes
    /\ Children(Root) \subseteq Workers
  BY Tree DEF Workers
<1> DEFINE cmd == Cmd("START_SEARCH", jobId[Root] + 1, search[Root])
<1>1. /\ cmdQueue' = PushOver(cmdQueue, Children(Root), cmd)
      /\ jobId' = [jobId EXCEPT ![Root] = jobId[Root] + 1]
      /\ notified' = Wake(Children(Root))
      /\ pc' = [pc EXCEPT ![Root] = "search"]
      /\ pc[Root] = "between" /\ jobId[Root] < Jobs[search[Root]]
      /\ UNCHANGED <<ackVars, handlerVars, hasResult, search, stats, accepted>>
  BY DEF RootStartJob, sendStartSearch
<1>2. ~Quitting /\ ~Stopping /\ stopAckWaitChildren[Root] = 0
  BY <1>1 DEF Quitting, Stopping, IInv, Acks
<1>3. \A c \in Children(Root) : hasStopAck(c)
  BY <1>2, NobodyOwes DEF OwesStopAck
<1>4. jobId[Root] + 1 \in JobIds /\ search[Root] \in Searches
  <2>1. /\ search[Root] \in Searches /\ jobId[Root] \in JobIds \union {-1}
        /\ search[Root] # 0
    BY <1>1 DEF IInv, TypeOK, Places, Active
  <2>2. search[Root] \in DOMAIN Jobs /\ Jobs[search[Root]] \in Nat
    BY <2>1, TreeAssumption DEF Searches
  <2>3. jobId[Root] + 1 \in 0 .. Jobs[search[Root]]
    <3>1. jobId[Root] \in Int /\ jobId[Root] >= -1
      <4>1. \A j \in JobIds : j \in Int /\ j >= 0
        BY JobNumbers
      <4> HIDE DEF cmd
      <4> QED
        BY <2>1, <4>1
    <3> QED
      BY <1>1, <2>2, <3>1
  <2> QED
    BY <2>1, <2>2, <2>3 DEF JobIds
<1>5. /\ {} \in SUBSET {Root} /\ cmd \in Cmds /\ {} # {Root}
      /\ cmd.type = "START_SEARCH" /\ cmd.search = search[Root]
  BY <1>4, Commands DEF CmdTypes
<1> HIDE DEF cmd
<1>6. Replaced(Root, {}, cmd)
  BY <1>1, <1>2, <1>3, <1>5, Replacing
<1>7. /\ pc' \in [Nodes -> {"wait", "poll", "search", "searchPoll", "exited", "idle", "between",
                            "stopPoll", "stopWait", "quitPoll", "quitWait"}]
      /\ pc'[Root] = "search" /\ jobId' \in [Nodes -> JobIds \union {-1}]
      /\ \A m \in Nodes : m # Root => pc'[m] = pc[m] /\ jobId'[m] = jobId[m]
  BY <1>1, <1>4 DEF IInv, TypeOK
<1>8. /\ notified' \in [Nodes -> BOOLEAN]
      /\ \A m \in Nodes : notified'[m] = (m \in Children(Root) \/ notified[m])
  BY <1>1 DEF Wake, IInv, TypeOK
<1>9. cmdQueue' \in [Nodes -> Seq(Cmds)]
  BY <1>6 DEF Replaced
<1>10. TypeOK'
  BY <1>1, <1>7, <1>8, <1>9 DEF IInv, TypeOK, handlerVars, ackVars
<1>11. /\ {} = {Root} <=> Root \in Workers
       /\ Root = Root => pc[Root] = "between" /\ pc'[Root] = "search" /\ search' = search
       /\ UNCHANGED <<ackVars, handlerVars, stats, accepted>>
       /\ \A m \in Nodes : m # Root =>
                jobId'[m] = jobId[m] /\ pc'[m] = pc[m] /\ search'[m] = search[m]
  BY <1>1, <1>5, <1>7
<1> QED
  BY <1>2, <1>5, <1>6, <1>8, <1>10, <1>11, StartMoves

(***************************************************************************)
(* A new search.                                                           *)
(***************************************************************************)
(* Node n, a worker that has polled an INIT or the root, passes it to its   *)
(* children, whose queues are empty.                                        *)
LEMMA InitMoves ==
    ASSUME IInv, NEW n \in Nodes, NEW P \in SUBSET {n},
           Sent(P, Children(n), Plain("INIT_SEARCH")), P = {n} <=> n \in Workers,
           ~Quitting,
           n \in Workers => Head(cmdQueue[n]).type = "INIT_SEARCH" /\ pc' = pc
                            /\ jobId'[n] = -1 /\ search' = search /\ accepted' = accepted,
           n = Root => pc[Root] = "idle" /\ pc'[Root] = "between" /\ search'[Root] # 0
                       /\ accepted'.type # "REPORT_RESULT",
           stats'[n] = {}, \A m \in Nodes : m # n => stats'[m] = stats[m],
           \A m \in Nodes : m # n =>
                jobId'[m] = jobId[m] /\ pc'[m] = pc[m] /\ search'[m] = search[m],
           UNCHANGED <<ackVars, handlerVars>>,
           TypeOK', \A m \in Nodes : notified'[m] = (m \in Children(n) \/ notified[m])
    PROVE  IInv'
<1> DEFINE cmd == Plain("INIT_SEARCH")
<1>c. cmd.type = "INIT_SEARCH" /\ cmd \in Cmds
  BY Commands DEF CmdTypes
<1>0. /\ Children(n) \subseteq Workers /\ n \notin Children(n) /\ Children(n) \subseteq Nodes
      /\ Root \in Nodes /\ Root \notin Children(n) /\ Root \notin Workers
      /\ (n \in Workers <=> n # Root) /\ Workers \subseteq Nodes
      /\ {"START_SEARCH", "STOP_SEARCH", "STOP_ACK", "QUIT", "QUIT_ACK", "INIT_SEARCH"} \subseteq CmdTypes
  BY Tree DEF Workers, CmdTypes
<1>1. n \in Workers =>
        /\ cmdQueue[n] # <<>> /\ Has(n, "INIT_SEARCH") /\ cmdQueue[n][1].type = "INIT_SEARCH"
        /\ Coming(n, "INIT_SEARCH") /\ ~Coming(Parent[n], "INIT_SEARCH")
        /\ jobId[n] = -1 /\ ~Searching(n) /\ hasStopAck(n)
        /\ \A i \in DOMAIN cmdQueue[n] :
                i # 1 => cmdQueue[n][i].type \in {"START_SEARCH", "STOP_SEARCH"}
        /\ \A c \in Children(n) : cmdQueue[c] = <<>>
  <2> SUFFICES ASSUME n \in Workers
               PROVE  /\ cmdQueue[n] # <<>> /\ Has(n, "INIT_SEARCH") /\ cmdQueue[n][1].type = "INIT_SEARCH"
                      /\ Coming(n, "INIT_SEARCH") /\ ~Coming(Parent[n], "INIT_SEARCH")
                      /\ jobId[n] = -1 /\ ~Searching(n) /\ hasStopAck(n)
                      /\ \A i \in DOMAIN cmdQueue[n] :
                            i # 1 => cmdQueue[n][i].type \in {"START_SEARCH", "STOP_SEARCH"}
                      /\ \A c \in Children(n) : cmdQueue[c] = <<>>
    OBVIOUS
  <2>1. Took(n) /\ n \in P
    BY DEF Sent
  <2>2. cmdQueue[n] # <<>> /\ cmdQueue[n][1].type = "INIT_SEARCH" /\ 1 \in DOMAIN cmdQueue[n]
    BY <2>1 DEF Took
  <2>3. Has(n, "INIT_SEARCH")
    BY <2>2 DEF Has, Queued
  <2>4. Coming(n, "INIT_SEARCH")
    BY <2>3, ComingDown
  <2>5. \A c \in Children(n) : cmdQueue[c] = <<>>
    BY <1>0, <2>4, Tree DEF IInv, InitWave
  <2> QED
    BY <2>2, <2>3, <2>4, <2>5 DEF IInv, InitWave
<1>2. n = Root => /\ Resting /\ \A m \in Nodes : cmdQueue[m] = <<>>
                  /\ \A m \in Workers : jobId[m] = -1 /\ ~Searching(m) /\ hasStopAck(m)
  <2> SUFFICES ASSUME n = Root
               PROVE  /\ Resting /\ \A m \in Nodes : cmdQueue[m] = <<>>
                      /\ \A m \in Workers : jobId[m] = -1 /\ ~Searching(m) /\ hasStopAck(m)
    OBVIOUS
  <2>1. Resting /\ cmdQueue[Root] = <<>> /\ pc[Root] = "idle"
    BY DEF IInv, Queues, Resting
  <2>2. \A m \in Workers : cmdQueue[m] = <<>> /\ jobId[m] = -1 /\ ~Searching(m) /\ hasStopAck(m)
    BY <2>1, Rest
  <2> QED
    BY <2>1, <2>2 DEF Workers
<1>3. \A c \in Children(n) :
        /\ cmdQueue[c] = <<>> /\ cmdQueue'[c][1] = cmd /\ 1 \in DOMAIN cmdQueue'[c]
        /\ \A i \in DOMAIN cmdQueue'[c] : i = 1 /\ cmdQueue'[c][i] = cmd
  <2>1. \A c \in Children(n) : cmdQueue[c] = <<>> /\ cmdQueue'[c] = Append(cmdQueue[c], cmd)
    BY <1>0, <1>1, <1>2 DEF Sent, Took
  <2>2. /\ Append(<<>>, cmd)[1] = cmd /\ 1 \in DOMAIN Append(<<>>, cmd)
        /\ \A i \in DOMAIN Append(<<>>, cmd) : i = 1
    <3> HIDE DEF cmd
    <3> QED
      OBVIOUS
  <2> QED
    BY <2>1, <2>2
<1>4. \A m \in Nodes, type \in CmdTypes \ {"INIT_SEARCH"} :
            Num(m, type)' = Num(m, type) /\ (Has(m, type)' <=> Has(m, type))
  <2>1. ASSUME NEW m \in Nodes, NEW type \in CmdTypes \ {"INIT_SEARCH"}
        PROVE  Num(m, type)' = Num(m, type) /\ (Has(m, type)' <=> Has(m, type))
    <3>0. type \in CmdTypes /\ type # "INIT_SEARCH"
      OBVIOUS
    <3>1. CASE m \in P
      <4>0. m = n /\ n \in Workers
        BY <3>1
      <4>1. Took(m) /\ Head(cmdQueue[m]).type = "INIT_SEARCH"
        BY <3>1, <4>0 DEF Sent
      <4>2. Num(m, type)' = Num(m, type)
        BY <3>0, <4>1 DEF Took
      <4> QED
        BY <3>0, <4>2 DEF Sent
    <3>2. CASE m \in Children(n)
      BY <1>c, <3>0, <3>2 DEF Sent
    <3>3. CASE m \notin P /\ m \notin Children(n)
      BY <3>0, <3>3 DEF Sent
    <3> QED
      BY <3>1, <3>2, <3>3
  <2> QED
    BY <2>1
<1>5. /\ \A c \in Children(n) : Has(c, "INIT_SEARCH")'
      /\ n \in Workers => ~Has(n, "INIT_SEARCH")'
      /\ \A m \in Nodes : m # n /\ m \notin Children(n) => cmdQueue'[m] = cmdQueue[m]
      /\ \A m \in Nodes : m # n /\ m \notin Children(n) =>
            (Has(m, "INIT_SEARCH")' <=> Has(m, "INIT_SEARCH"))
  <2>1. \A c \in Children(n) : Has(c, "INIT_SEARCH")'
    BY <1>c, <1>3 DEF Has, Queued
  <2>2. n \in Workers => ~Has(n, "INIT_SEARCH")'
    <3> SUFFICES ASSUME n \in Workers PROVE ~Has(n, "INIT_SEARCH")'
      OBVIOUS
    <3>1. Took(n) /\ cmdQueue[n] \in Seq(Cmds)
      BY DEF Sent, IInv, TypeOK
    <3>2. ASSUME NEW i \in DOMAIN cmdQueue'[n]
          PROVE  cmdQueue'[n][i].type # "INIT_SEARCH"
      <4>1. i + 1 \in DOMAIN cmdQueue[n] /\ cmdQueue'[n][i] = cmdQueue[n][i + 1]
        BY <3>1 DEF Took
      <4>2. i + 1 # 1
        <5>1. cmdQueue'[n] \in Seq(Cmds)
          BY DEF Sent
        <5>2. i \in 1 .. Len(cmdQueue'[n]) /\ Len(cmdQueue'[n]) \in Nat
          BY <5>1, Indexes
        <5> QED
          BY <5>2
      <4> QED
        BY <1>1, <4>1, <4>2
    <3> QED
      BY <3>2 DEF Has, Queued
  <2>3. \A m \in Nodes : m # n /\ m \notin Children(n) => cmdQueue'[m] = cmdQueue[m]
    BY DEF Sent
  <2>4. \A m \in Nodes : m # n /\ m \notin Children(n) =>
            (Has(m, "INIT_SEARCH")' <=> Has(m, "INIT_SEARCH"))
    BY <2>3 DEF Has, Queued
  <2> QED
    BY <2>1, <2>2, <2>3, <2>4
<1>6. /\ \A m \in Nodes : n \in Workers /\ m # n /\ Coming(m, "INIT_SEARCH") => Coming(m, "INIT_SEARCH")'
      /\ \A m \in Nodes : n \in Workers /\ Coming(m, "INIT_SEARCH")' => Coming(m, "INIT_SEARCH")
      /\ n \in Workers => ~Coming(n, "INIT_SEARCH")'
      /\ n = Root => \A m \in Workers : Coming(m, "INIT_SEARCH")'
      /\ ~Coming(Root, "INIT_SEARCH")'
  <2>1. ASSUME NEW m \in Nodes, NEW k \in Workers, n \in Workers, m # n, m \in Subtree(k),
               Has(k, "INIT_SEARCH")
        PROVE  Coming(m, "INIT_SEARCH")'
    <3>1. CASE k = n
      <4>1. PICK c \in Children(n) : m \in Subtree(c)
        BY <2>1, <3>1, Below
      <4> QED
        BY <1>0, <1>5, <4>1 DEF Coming
    <3>2. CASE k \in Children(n)
      BY <1>5, <2>1, <3>2 DEF Coming
    <3>3. CASE k # n /\ k \notin Children(n)
      BY <1>0, <1>5, <2>1, <3>3 DEF Coming
    <3> QED
      BY <3>1, <3>2, <3>3
  <2>2. ASSUME NEW m \in Nodes, NEW k \in Workers, n \in Workers, m \in Subtree(k),
               Has(k, "INIT_SEARCH")'
        PROVE  Coming(m, "INIT_SEARCH") /\ m # n
    <3>0. k # n
      BY <1>5, <2>2
    <3>1. CASE k \in Children(n)
      <4>1. k \in Subtree(n) /\ n \notin Subtree(k) /\ k \in Nodes
        BY <1>0, <3>1, Below, Acyclic, Tree
      <4>2. m \in Subtree(n) /\ m # n
        BY <2>2, <4>1, Acyclic
      <4> QED
        BY <1>1, <2>2, <4>2 DEF Coming
    <3>2. CASE k \notin Children(n)
      <4>1. Has(k, "INIT_SEARCH") /\ k \in Nodes
        BY <1>0, <1>5, <2>2, <3>0, <3>2
      <4>2. m # n
        <5> SUFFICES ASSUME m = n PROVE FALSE
          OBVIOUS
        <5>1. Parent[n] \in Subtree(k)
          BY <2>2, <3>0, <4>1, Below
        <5> QED
          BY <1>1, <2>2, <4>1, <5>1 DEF Coming
      <4> QED
        BY <2>2, <4>1, <4>2 DEF Coming
    <3> QED
      BY <3>1, <3>2
  <2>3. ASSUME NEW m \in Workers, n = Root
        PROVE  Coming(m, "INIT_SEARCH")'
    <3>1. PICK c \in Children(n) : m \in Subtree(c)
      BY <2>3, Below
    <3> QED
      BY <1>0, <1>5, <3>1 DEF Coming
  <2>4. ~Coming(Root, "INIT_SEARCH")'
    BY <1>0, Below DEF Coming
  <2> QED
    BY <1>0, <2>1, <2>2, <2>3, <2>4 DEF Coming
<1>7. /\ ackVars' = ackVars /\ \A m : hasStopAck(m)' <=> hasStopAck(m)
      /\ \A m \in Workers : OwesStopAck(m)' <=> OwesStopAck(m)
      /\ \A m \in Nodes : Coming(m, "STOP_SEARCH")' <=> Coming(m, "STOP_SEARCH")
  <2>1. \A m : hasStopAck(m)' <=> hasStopAck(m)
    BY DEF hasStopAck, ackVars
  <2>2. \A m \in Workers : Has(m, "STOP_SEARCH")' <=> Has(m, "STOP_SEARCH")
    BY <1>0, <1>4
  <2>3. \A m \in Workers : OwesStopAck(m)' <=> OwesStopAck(m)
    BY <2>1, <2>2 DEF OwesStopAck, Has
  <2>4. \A m \in Nodes : Coming(m, "STOP_SEARCH")' <=> Coming(m, "STOP_SEARCH")
    BY <2>2, SameComing
  <2> QED
    BY <2>1, <2>2, <2>3, <2>4
<1>8. /\ Places'
      /\ \A m \in Workers : pc'[m] = pc[m] /\ (Searching(m)' <=> Searching(m))
      /\ ~Quitting'
      /\ n \in Workers => /\ Active' <=> Active
                          /\ Stopping' <=> Stopping
                          /\ Resting' <=> Resting
      /\ n = Root => ~Stopping' /\ ~Resting' /\ ~Stopping
  <2>1. \A m \in Workers : pc'[m] = pc[m]
    BY <1>0
  <2>2. n \in Workers => pc'[Root] = pc[Root]
    BY <1>0
  <2>3. Places'
    BY <1>0, <2>1, <2>2 DEF IInv, Places, Active
  <2> QED
    BY <1>0, <2>1, <2>2, <2>3 DEF Searching, Quitting, Active, Stopping, Resting
<1>9. Queues'
  <2>1. /\ P \in SUBSET Nodes /\ Children(n) \in SUBSET Nodes /\ Sent(P, Children(n), cmd)
        /\ cmd.type \in CmdTypes \ {"START_SEARCH", "STOP_SEARCH"}
        /\ cmd.type \notin {"REPORT_RESULT", "QUIT", "QUIT_ACK"}
        /\ search'[Root] = search[Root] \/ \A m \in Nodes : cmdQueue[m] = <<>>
        /\ Root \notin Children(n)
        /\ pc'[Root] = "idle" => pc[Root] = "idle"
    BY <1>0, <1>2, <1>c
  <2> HIDE DEF cmd
  <2>2. /\ Root \in Children(n) => cmd.type \in {"REPORT_RESULT", "STOP_ACK", "QUIT_ACK"}
        /\ pc'[Root] = "idle" => pc[Root] = "idle" /\ Root \notin Children(n)
        /\ cmd.type = "REPORT_RESULT" =>
                cmd.search = search'[Root] /\ \A m \in Children(n) : Children(m) # {}
        /\ cmd.type \in {"QUIT", "QUIT_ACK"} => Quitting'
        /\ Quitting => Quitting'
    BY <2>1
  <2> QED
    BY <2>1, <2>2, QueuesKept
<1>10. Acks'
  <2>1. \A m \in Nodes : {c \in Children(m) : OwesStopAck(c)'} = {c \in Children(m) : OwesStopAck(c)}
    BY <1>7, Tree
  <2>2. \A m \in Nodes : Num(m, "STOP_ACK")' = Num(m, "STOP_ACK")
    BY <1>0, <1>4
  <2>3. StopAcksBalance'
    BY <1>7, <2>1, <2>2 DEF StopAcksBalance, IInv, Acks, Num, ackVars
  <2>4. ASSUME NEW m \in Workers
        PROVE  /\ Has(m, "STOP_SEARCH")' \/ Has(m, "START_SEARCH")' => hasStopAck(m)'
               /\ stopAckWaitSelf'[m] => pc'[m] \in {"poll", "searchPoll"} /\ jobId'[m] = -1
               /\ pc'[m] = "search" => jobId'[m] = handlerJob'[m]
               /\ Searching(m)' => handlerJob'[m] # -1
    <3>1. /\ Has(m, "STOP_SEARCH")' <=> Has(m, "STOP_SEARCH")
          /\ Has(m, "START_SEARCH")' <=> Has(m, "START_SEARCH")
      BY <1>0, <1>4
    <3>2. /\ handlerJob' = handlerJob /\ stopAckWaitSelf' = stopAckWaitSelf
          /\ jobId'[m] = jobId[m] /\ m \in Nodes
      BY <1>0, <1>1 DEF handlerVars, ackVars
    <3> QED
      BY <1>7, <1>8, <2>4, <3>1, <3>2 DEF IInv, Acks
  <2>5. ~stopAckWaitSelf'[Root] /\ (~Stopping' => stopAckWaitChildren'[Root] = 0)
    BY <1>0, <1>8 DEF IInv, Acks, ackVars
  <2> QED
    BY <2>3, <2>4, <2>5 DEF Acks
<1>11. StopWave'
  <2>1. CASE n = Root
    BY <1>8, <2>1 DEF StopWave, PastStop
  <2>2. CASE n \in Workers
    <3>1. ~PastStop(n)
      <4>1. 1 \in DOMAIN cmdQueue[n]
        BY <1>1, <2>2, Popped DEF IInv, TypeOK, Workers
      <4> QED
        BY <1>1, <2>2, <4>1 DEF IInv, StopWave
    <3>2. ASSUME NEW m \in Workers, PastStop(m)'
          PROVE  PastStop(m) /\ m # n /\ m \notin Children(n)
      <4>1. PastStop(m)
        BY <1>0, <1>7, <1>8, <2>2, <3>2 DEF PastStop
      <4>2. m \notin Children(n)
        <5> SUFFICES ASSUME m \in Children(n) PROVE FALSE
          OBVIOUS
        <5>1. Parent[m] = n
          BY Tree
        <5>2. Coming(n, "STOP_SEARCH")
          BY <3>1, <4>1 DEF PastStop
        <5> QED
          BY <4>1, <5>1, <5>2, ComingDown DEF PastStop
      <4> QED
        BY <3>1, <4>1, <4>2
    <3>3. ASSUME NEW m \in Workers, PastStop(m)'
          PROVE  /\ jobId'[m] = -1
                 /\ Searching(m)' => stopAckWaitSelf'[m]
                 /\ \A i \in DOMAIN cmdQueue'[m] :
                    /\ cmdQueue'[m][i].type \in {"REPORT_RESULT", "STOP_ACK", "QUIT", "QUIT_ACK"}
                    /\ cmdQueue'[m][i].type = "REPORT_RESULT" =>
                        \/ \E c \in Children(m) : OwesStopAck(c)'
                        \/ \E j \in DOMAIN cmdQueue'[m] : j > i /\ cmdQueue'[m][j].type = "STOP_ACK"
      <4>1. PastStop(m) /\ m # n /\ m \notin Children(n) /\ m \in Nodes
        BY <1>0, <3>2, <3>3
      <4>2. cmdQueue'[m] = cmdQueue[m]
        BY <1>5, <4>1
      <4>3. \A c \in Children(m) : OwesStopAck(c)' <=> OwesStopAck(c)
        BY <1>7, <4>1, Tree
      <4>4. /\ jobId'[m] = jobId[m] /\ stopAckWaitSelf'[m] = stopAckWaitSelf[m]
            /\ Searching(m)' <=> Searching(m)
        BY <1>8, <4>1 DEF ackVars
      <4> QED
        BY <4>1, <4>2, <4>3, <4>4 DEF IInv, StopWave
    <3> QED
      BY <3>3 DEF StopWave
  <2> QED
    BY <1>0, <2>1, <2>2
<1>12. InitWave'
  <2>1. ASSUME NEW m \in Workers
        PROVE  /\ Coming(m, "INIT_SEARCH")' => jobId'[m] = -1 /\ ~Searching(m)' /\ hasStopAck(m)'
               /\ Coming(Parent[m], "INIT_SEARCH")' => cmdQueue'[m] = <<>>
               /\ Has(m, "INIT_SEARCH")' =>
                    /\ cmdQueue'[m][1].type = "INIT_SEARCH"
                    /\ \A i \in DOMAIN cmdQueue'[m] :
                            i # 1 => cmdQueue'[m][i].type \in {"START_SEARCH", "STOP_SEARCH"}
    <3>1. /\ m \in Nodes /\ Parent[m] \in Nodes
          /\ m \in Children(n) <=> Parent[m] = n
      BY <1>0, Tree
    <3>2. Coming(m, "INIT_SEARCH")' => jobId'[m] = -1 /\ ~Searching(m)' /\ hasStopAck(m)'
      <4>1. CASE n = Root
        <5>1. m # n
          BY <1>0, <4>1
        <5> QED
          BY <1>2, <1>7, <1>8, <3>1, <4>1, <5>1
      <4>2. CASE m = n
        BY <1>1, <1>7, <1>8, <4>2
      <4>3. CASE m # n /\ n \in Workers
        BY <1>6, <1>7, <1>8, <3>1, <4>3 DEF IInv, InitWave
      <4> QED
        BY <1>0, <4>1, <4>2, <4>3
    <3>3. CASE m = n
      <4>1. Coming(Parent[m], "INIT_SEARCH")' => cmdQueue'[m] = <<>>
        BY <1>1, <1>6, <3>1, <3>3
      <4> QED
        BY <1>5, <3>2, <3>3, <4>1
    <3>4. CASE m \in Children(n)
      <4>1. ~Coming(Parent[m], "INIT_SEARCH")'
        BY <1>0, <1>6, <3>1, <3>4
      <4>2. /\ cmdQueue'[m][1].type = "INIT_SEARCH"
            /\ \A i \in DOMAIN cmdQueue'[m] : i = 1
        BY <1>c, <1>3, <3>4
      <4> QED
        BY <3>2, <4>1, <4>2
    <3>5. CASE m # n /\ m \notin Children(n)
      <4>1. cmdQueue'[m] = cmdQueue[m] /\ (Has(m, "INIT_SEARCH")' <=> Has(m, "INIT_SEARCH"))
        BY <1>5, <3>1, <3>5
      <4>2. Coming(Parent[m], "INIT_SEARCH")' => cmdQueue[m] = <<>>
        <5>1. CASE n = Root
          BY <1>2, <3>1, <5>1
        <5>2. CASE n \in Workers
          BY <1>6, <3>1, <5>2 DEF IInv, InitWave
        <5> QED
          BY <1>0, <5>1, <5>2
      <4> QED
        BY <3>2, <4>1, <4>2 DEF IInv, InitWave
    <3> QED
      BY <3>3, <3>4, <3>5
  <2> QED
    BY <2>1 DEF InitWave
<1>13. Current'
  <2>1. ASSUME NEW m \in Workers
        PROVE  /\ jobId'[m] # -1 => search'[m] = search'[Root]
               /\ Searching(m)' => handlerSearch'[m] = search'[Root]
    <3>1. m \in Nodes
      BY <1>0
    <3>2. CASE n = Root
      <4>1. m # n
        BY <1>0, <3>2
      <4> QED
        BY <1>2, <1>8, <2>1, <3>1, <3>2, <4>1
    <3>3. CASE n \in Workers
      BY <1>8, <2>1, <3>1, <3>3 DEF IInv, Current, handlerVars
    <3> QED
      BY <1>0, <3>2, <3>3
  <2>2. ResultsAreCurrent'
    BY <1>0 DEF IInv, Current, ResultsAreCurrent
  <2>3. ASSUME Active'
        PROVE  /\ stats'[Root] \subseteq {search'[Root]}
               /\ \A m \in Workers : ~Coming(m, "INIT_SEARCH")' => stats'[m] \subseteq {search'[Root]}
    <3>1. CASE n = Root
      BY <1>6, <3>1
    <3>2. CASE n \in Workers
      <4>1. Active /\ search' = search /\ stats'[Root] = stats[Root]
        BY <1>0, <1>8, <2>3, <3>2
      <4>2. \A m \in Workers : ~Coming(m, "INIT_SEARCH")' =>
                m = n \/ (~Coming(m, "INIT_SEARCH") /\ stats'[m] = stats[m])
        BY <1>0, <1>6, <3>2
      <4> QED
        BY <4>1, <4>2 DEF IInv, Current
    <3> QED
      BY <1>0, <3>1, <3>2
  <2> QED
    BY <2>1, <2>2, <2>3 DEF Current
<1>14. Quits'
  <2>1. /\ \A m \in Nodes, type \in {"QUIT", "QUIT_ACK"} :
                Num(m, type)' = Num(m, type) /\ (Has(m, type)' <=> Has(m, type))
        /\ ~Quitting' => ~Quitting
        /\ quitAckWaitChildren' = quitAckWaitChildren
    BY <1>0, <1>4 DEF ackVars
  <2> QED
    BY <2>1, QuitsKept
<1>15. Notifications'
  <2> DEFINE W == Children(n)
  <2>1. W \in SUBSET Nodes
    BY <1>0
  <2>2. \A m \in Nodes : m \notin W /\ cmdQueue'[m] # <<>> => cmdQueue[m] # <<>>
    <3>1. ASSUME NEW m \in Nodes, m \notin W, cmdQueue'[m] # <<>>
          PROVE  cmdQueue[m] # <<>>
      <4>1. CASE m = n /\ n \in Workers
        BY <1>1, <4>1
      <4>2. CASE m \notin P
        BY <3>1, <4>2 DEF Sent
      <4> QED
        BY <4>1, <4>2
    <3> QED
      BY <3>1
  <2>3. /\ \A m \in Nodes : notified'[m] = (m \in W \/ notified[m])
        /\ \A m \in Workers : m # n => handlerJob'[m] = handlerJob[m]
        /\ \A m \in Nodes : m # n => pc'[m] = pc[m] /\ jobId'[m] = jobId[m]
                                     /\ stopAckWaitSelf'[m] = stopAckWaitSelf[m]
    BY DEF handlerVars, ackVars
  <2>4. \A m \in Nodes : pc'[m] \in {"stopWait", "quitWait"} => pc'[m] = pc[m]
    BY <1>0
  <2>5. n \in Workers => /\ pc'[n] = pc[n] /\ pc[n] \notin {"search", "searchPoll"}
                         /\ pc[n] = "wait" => notified[n]
    <3> SUFFICES ASSUME n \in Workers
                 PROVE  /\ pc'[n] = pc[n] /\ pc[n] \notin {"search", "searchPoll"}
                        /\ pc[n] = "wait" => notified[n]
      OBVIOUS
    <3>1. pc'[n] = pc[n] /\ pc[n] \notin {"search", "searchPoll"}
      BY <1>1 DEF Searching
    <3>2. pc[n] = "wait" => notified[n]
      BY <1>1 DEF IInv, Notifications, NoLostNotification
    <3> QED
      BY <3>1, <3>2
  <2>6. /\ pc'[n] = "wait" /\ ~notified[n] =>
                cmdQueue'[n] = <<>> /\ jobId'[n] = -1 /\ ~stopAckWaitSelf'[n]
        /\ n \in Workers /\ pc'[n] \in {"search", "searchPoll"} =>
                pc[n] \in {"search", "searchPoll"}
                /\ (jobId'[n] # handlerJob'[n] => jobId[n] # handlerJob[n] \/ notified[n])
    BY <1>0, <2>5
  <2> HIDE DEF W
  <2> QED
    BY <2>1, <2>2, <2>3, <2>4, <2>6, NotificationsKept
<1> QED
  BY <1>8, <1>9, <1>10, <1>11, <1>12, <1>13, <1>14, <1>15 DEF IInv

(* A worker polls an init command.                                          *)
LEMMA InitSearchStep ==
    ASSUME IInv, NEW n \in Workers, pc[n] \in {"poll", "searchPoll"}, cmdQueue[n] # <<>>,
           Head(cmdQueue[n]).type = "INIT_SEARCH",
           InitSearch(n, [cmdQueue EXCEPT ![n] = Tail(@)])
    PROVE  IInv'
<1> n \in Nodes /\ n # Root /\ Children(n) \subseteq Nodes /\ n \notin Children(n)
  BY Tree DEF Workers
<1> DEFINE cmd == Plain("INIT_SEARCH")
<1>1. /\ cmdQueue' = Push([cmdQueue EXCEPT ![n] = Tail(@)], Children(n), cmd)
      /\ jobId' = [jobId EXCEPT ![n] = -1] /\ stats' = [stats EXCEPT ![n] = {}]
      /\ notified' = Wake(Children(n))
      /\ UNCHANGED <<ackVars, handlerVars, hasResult, pc, search, accepted>>
  BY DEF InitSearch, sendInitSearch
<1>2. ~Quitting
  <2>1. Has(n, "INIT_SEARCH")
    BY Polled
  <2> QED
    BY <2>1, Rest DEF Has, Queued, Resting
<1>3. cmd \in Cmds /\ Children(n) \in SUBSET Nodes
  BY Commands DEF CmdTypes
<1>4. Sent({n}, Children(n), cmd) /\ cmdQueue' \in [Nodes -> Seq(Cmds)]
  <2> HIDE DEF cmd
  <2> QED
    BY <1>1, <1>3, PopSends
<1>5. /\ jobId' \in [Nodes -> JobIds \union {-1}] /\ stats' \in [Nodes -> SUBSET Searches]
      /\ jobId'[n] = -1 /\ stats'[n] = {}
      /\ \A m \in Nodes : m # n => jobId'[m] = jobId[m] /\ stats'[m] = stats[m]
  BY <1>1 DEF IInv, TypeOK
<1>6. /\ notified' \in [Nodes -> BOOLEAN]
      /\ \A m \in Nodes : notified'[m] = (m \in Children(n) \/ notified[m])
  BY <1>1 DEF Wake, IInv, TypeOK
<1>7. TypeOK'
  BY <1>1, <1>4, <1>5, <1>6 DEF IInv, TypeOK, handlerVars, ackVars
<1>8. /\ {n} \in SUBSET {n} /\ ({n} = {n} <=> n \in Workers)
      /\ n \in Workers => Head(cmdQueue[n]).type = "INIT_SEARCH" /\ pc' = pc
                            /\ jobId'[n] = -1 /\ search' = search /\ accepted' = accepted
      /\ UNCHANGED <<ackVars, handlerVars>>
      /\ \A m \in Nodes : m # n =>
                jobId'[m] = jobId[m] /\ pc'[m] = pc[m] /\ search'[m] = search[m]
  BY <1>1, <1>5
<1> HIDE DEF cmd
<1> QED
  BY <1>2, <1>4, <1>5, <1>6, <1>7, <1>8, InitMoves DEF cmd

(* The root begins a search.                                                *)
LEMMA RootInitSearchStep ==
    ASSUME IInv, RootInitSearch
    PROVE  IInv'
<1> Root \in Nodes /\ Root \notin Workers /\ Children(Root) \subseteq Nodes
  BY Tree DEF Workers
<1> DEFINE cmd == Plain("INIT_SEARCH")
<1>1. /\ cmdQueue' = Push(cmdQueue, Children(Root), cmd)
      /\ jobId' = [jobId EXCEPT ![Root] = 0] /\ stats' = [stats EXCEPT ![Root] = {}]
      /\ search' = [search EXCEPT ![Root] = @ + 1] /\ search[Root] < Len(Jobs)
      /\ pc' = [pc EXCEPT ![Root] = "between"] /\ pc[Root] = "idle"
      /\ notified' = Wake(Children(Root)) /\ accepted' = Plain("none")
      /\ UNCHANGED <<ackVars, handlerVars, hasResult>>
  BY DEF RootInitSearch, sendInitSearch
<1>2. ~Quitting
  BY <1>1 DEF Quitting
<1>3. cmd \in Cmds /\ Children(Root) \in SUBSET Nodes
  BY Commands DEF CmdTypes
<1>4. Sent({}, Children(Root), cmd) /\ cmdQueue' \in [Nodes -> Seq(Cmds)]
  <2> HIDE DEF cmd
  <2> QED
    BY <1>1, <1>3, PushSends
<1>5. /\ jobId' \in [Nodes -> JobIds \union {-1}] /\ stats' \in [Nodes -> SUBSET Searches]
      /\ pc' \in [Nodes -> {"wait", "poll", "search", "searchPoll", "exited", "idle", "between",
                            "stopPoll", "stopWait", "quitPoll", "quitWait"}]
      /\ stats'[Root] = {} /\ pc'[Root] = "between"
      /\ \A m \in Nodes : m # Root => /\ jobId'[m] = jobId[m] /\ stats'[m] = stats[m]
                                      /\ pc'[m] = pc[m] /\ search'[m] = search[m]
  BY <1>1, JobNumbers DEF IInv, TypeOK
<1>6. search' \in [Nodes -> Searches] /\ search'[Root] # 0
  <2>1. search \in [Nodes -> Searches]
    BY DEF IInv, TypeOK
  <2>2. search[Root] + 1 \in Searches /\ search[Root] + 1 # 0
    BY <1>1, <2>1, TreeAssumption DEF Searches
  <2> QED
    BY <1>1, <2>1, <2>2
<1>7. /\ notified' \in [Nodes -> BOOLEAN]
      /\ \A m \in Nodes : notified'[m] = (m \in Children(Root) \/ notified[m])
  BY <1>1 DEF Wake, IInv, TypeOK
<1>8. TypeOK'
  BY <1>1, <1>4, <1>5, <1>6, <1>7 DEF IInv, TypeOK, handlerVars, ackVars
<1>9. accepted'.type # "REPORT_RESULT"
  BY <1>1 DEF Plain, Cmd
<1>10. /\ {} \in SUBSET {Root} /\ ({} = {Root} <=> Root \in Workers)
       /\ Root = Root => pc[Root] = "idle" /\ pc'[Root] = "between" /\ search'[Root] # 0
                          /\ accepted'.type # "REPORT_RESULT"
       /\ UNCHANGED <<ackVars, handlerVars>>
  BY <1>1, <1>5, <1>6, <1>9
<1> HIDE DEF cmd
<1> QED
  BY <1>2, <1>4, <1>5, <1>7, <1>8, <1>10, InitMoves DEF cmd

(***************************************************************************)
(* Quitting.                                                               *)
(***************************************************************************)
(* Node n begins to quit or counts an acknowledgement; what it waits for   *)
(* is left to the two lemmas below.                                        *)
LEMMA QuitMoves ==
    ASSUME IInv, NEW n \in Nodes, NEW P \in SUBSET {n}, NEW to \in SUBSET Nodes, NEW cmd,
           Sent(P, to, cmd), cmd.type \in {"QUIT", "QUIT_ACK"}, n \notin to,
           Root \in to => cmd.type = "QUIT_ACK",
           P = {n} => Head(cmdQueue[n]).type \in {"QUIT", "QUIT_ACK"},
           Resting, Quits', TypeOK',
           \/ pc' = pc /\ Quitting /\ pc[n] \in {"poll", "searchPoll", "quitPoll"}
           \/ n = Root /\ pc[Root] = "idle" /\ pc' = [pc EXCEPT ![Root] = "quitPoll"],
           UNCHANGED <<stopAckWaitSelf, stopAckWaitChildren, handlerVars, jobId, search,
                       stats, accepted>>,
           \A m \in Nodes : notified'[m] = (m \in to \/ notified[m])
    PROVE  IInv'
<1>0. /\ Root \in Nodes /\ Root \notin Workers /\ Workers \subseteq Nodes
      /\ {"START_SEARCH", "STOP_SEARCH", "STOP_ACK", "QUIT", "QUIT_ACK", "INIT_SEARCH"} \subseteq CmdTypes
  BY Tree DEF Workers, CmdTypes
<1>1. /\ \A m \in Workers : pc'[m] = pc[m] /\ (Searching(m)' <=> Searching(m))
      /\ pc'[Root] = IF pc[Root] = "idle" THEN "quitPoll" ELSE pc[Root]
      /\ Quitting' /\ ~Active' /\ ~Stopping' /\ ~Stopping
      /\ Quitting => pc' = pc
      /\ Resting'
  <2>1. pc \in [Nodes -> {"wait", "poll", "search", "searchPoll", "exited", "idle", "between",
                         "stopPoll", "stopWait", "quitPoll", "quitWait"}]
    BY DEF IInv, TypeOK
  <2>2. CASE pc' = pc /\ Quitting
    BY <1>0, <2>2 DEF Searching, Quitting, Active, Stopping, Resting
  <2>3. CASE n = Root /\ pc[Root] = "idle" /\ pc' = [pc EXCEPT ![Root] = "quitPoll"]
    BY <1>0, <2>1, <2>3 DEF Searching, Quitting, Active, Stopping, Resting
  <2> QED
    BY <2>2, <2>3
<1>2. \A m \in Workers :
        /\ jobId[m] = -1 /\ ~Searching(m) /\ hasStopAck(m)
        /\ \A i \in DOMAIN cmdQueue[m] : cmdQueue[m][i].type \in {"QUIT", "QUIT_ACK"}
  BY Rest
<1>3. ASSUME NEW m \in Nodes, NEW i \in DOMAIN cmdQueue'[m]
      PROVE  \/ \E j \in DOMAIN cmdQueue[m] : cmdQueue'[m][i] = cmdQueue[m][j]
             \/ m \in to /\ cmdQueue'[m][i] = cmd
  <2>2. CASE m \in P
    BY <1>3, <2>2 DEF Sent, Took
  <2>3. CASE m \in to
    BY <1>3, <2>3 DEF Sent
  <2>4. CASE m \in Nodes \ (P \union to)
    BY <1>3, <2>4 DEF Sent
  <2> QED
    BY <2>2, <2>3, <2>4
<1>4. \A m \in Nodes, type \in CmdTypes \ {"QUIT", "QUIT_ACK"} :
            Num(m, type)' = Num(m, type) /\ (Has(m, type)' <=> Has(m, type))
  <2>1. ASSUME NEW m \in Nodes, NEW type \in CmdTypes \ {"QUIT", "QUIT_ACK"}
        PROVE  Num(m, type)' = Num(m, type) /\ (Has(m, type)' <=> Has(m, type))
    <3>0. type \in CmdTypes /\ type # "QUIT" /\ type # "QUIT_ACK" /\ cmd.type # type
      OBVIOUS
    <3>1. CASE m \in P
      <4>0. m = n /\ P = {n}
        BY <3>1
      <4>1. Took(m) /\ Head(cmdQueue[m]).type # type
        BY <3>0, <3>1, <4>0 DEF Sent
      <4>2. Num(m, type)' = Num(m, type)
        BY <3>0, <4>1 DEF Took
      <4> QED
        BY <3>0, <4>2 DEF Sent
    <3>2. CASE m \in to
      BY <3>0, <3>2 DEF Sent
    <3>3. CASE m \notin P /\ m \notin to
      BY <3>0, <3>3 DEF Sent
    <3> QED
      BY <3>1, <3>2, <3>3
  <2> QED
    BY <2>1
<1>5. \A m \in Workers : \A i \in DOMAIN cmdQueue'[m] : cmdQueue'[m][i].type \in {"QUIT", "QUIT_ACK"}
  BY <1>0, <1>2, <1>3
<1>6. /\ \A m : hasStopAck(m)' <=> hasStopAck(m)
      /\ \A m \in Workers : OwesStopAck(m)' <=> OwesStopAck(m)
      /\ \A m \in Workers : /\ Has(m, "STOP_SEARCH")' <=> Has(m, "STOP_SEARCH")
                            /\ Has(m, "START_SEARCH")' <=> Has(m, "START_SEARCH")
  <2>1. \A m : hasStopAck(m)' <=> hasStopAck(m)
    BY DEF hasStopAck
  <2>2. \A m \in Workers : /\ Has(m, "STOP_SEARCH")' <=> Has(m, "STOP_SEARCH")
                           /\ Has(m, "START_SEARCH")' <=> Has(m, "START_SEARCH")
    BY <1>0, <1>4
  <2> QED
    BY <2>1, <2>2 DEF OwesStopAck, Has
<1>7. Places'
  BY <1>0, <1>1 DEF IInv, Places
<1>8. Queues'
  <2>1. /\ P \in SUBSET Nodes
        /\ cmd.type \in CmdTypes \ {"START_SEARCH", "STOP_SEARCH"}
        /\ search'[Root] = search[Root] \/ \A m \in Nodes : cmdQueue[m] = <<>>
        /\ Root \in to => cmd.type \in {"REPORT_RESULT", "STOP_ACK", "QUIT_ACK"}
        /\ pc'[Root] = "idle" => pc[Root] = "idle" /\ Root \notin to
        /\ cmd.type = "REPORT_RESULT" =>
                cmd.search = search'[Root] /\ \A m \in to : Children(m) # {}
        /\ cmd.type \in {"QUIT", "QUIT_ACK"} => Quitting'
        /\ Quitting => Quitting'
    BY <1>0, <1>1
  <2> QED
    BY <2>1, QueuesKept
<1>9. Acks'
  <2>1. \A m \in Nodes : {c \in Children(m) : OwesStopAck(c)'} = {c \in Children(m) : OwesStopAck(c)}
    BY <1>6, Tree
  <2>2. \A m \in Nodes : Num(m, "STOP_ACK")' = Num(m, "STOP_ACK")
    BY <1>0, <1>4
  <2>3. StopAcksBalance'
    BY <2>1, <2>2 DEF StopAcksBalance, IInv, Acks, Num
  <2>4. ASSUME NEW m \in Workers
        PROVE  /\ Has(m, "STOP_SEARCH")' \/ Has(m, "START_SEARCH")' => hasStopAck(m)'
               /\ stopAckWaitSelf'[m] => pc'[m] \in {"poll", "searchPoll"} /\ jobId'[m] = -1
               /\ pc'[m] = "search" => jobId'[m] = handlerJob'[m]
               /\ Searching(m)' => handlerJob'[m] # -1
    BY <1>1, <1>6, <2>4 DEF IInv, Acks, handlerVars
  <2>5. ~stopAckWaitSelf'[Root] /\ (~Stopping' => stopAckWaitChildren'[Root] = 0)
    BY <1>1 DEF IInv, Acks
  <2> QED
    BY <2>3, <2>4, <2>5 DEF Acks
<1>10. StopWave'
  BY <1>1, <1>2, <1>5 DEF StopWave
<1>11. InitWave'
  <2>1. \A m \in Workers : ~Has(m, "INIT_SEARCH")'
    BY <1>5 DEF Has, Queued
  <2>2. \A m \in Nodes : ~Coming(m, "INIT_SEARCH")'
    BY <2>1 DEF Coming
  <2> QED
    BY <2>1, <2>2, Tree DEF InitWave, Workers
<1>12. Current'
  BY <1>1, <1>2 DEF IInv, Current, ResultsAreCurrent
<1>13. Notifications'
  <2>1. \A m \in Nodes : m \notin to /\ cmdQueue'[m] # <<>> => cmdQueue[m] # <<>>
    <3>1. ASSUME NEW m \in Nodes, m \notin to, cmdQueue'[m] # <<>>
          PROVE  cmdQueue[m] # <<>>
      <4>1. CASE m \in P
        BY <4>1 DEF Sent, Took
      <4>2. CASE m \notin P
        BY <3>1, <4>2 DEF Sent
      <4> QED
        BY <4>1, <4>2
    <3> QED
      BY <3>1
  <2>2. /\ \A m \in Workers : m # n => handlerJob'[m] = handlerJob[m]
        /\ \A m \in Nodes : m # n => pc'[m] = pc[m] /\ jobId'[m] = jobId[m]
                                     /\ stopAckWaitSelf'[m] = stopAckWaitSelf[m]
        /\ \A m \in Nodes : pc'[m] \in {"stopWait", "quitWait"} => pc'[m] = pc[m]
        /\ pc'[n] # "wait"
    <3>1. CASE pc' = pc /\ pc[n] \in {"poll", "searchPoll", "quitPoll"}
      BY <3>1 DEF handlerVars
    <3>2. CASE n = Root /\ pc' = [pc EXCEPT ![Root] = "quitPoll"]
      BY <3>2 DEF handlerVars, IInv, TypeOK
    <3> QED
      BY <3>1, <3>2
  <2>3. n \in Workers => pc'[n] \notin {"search", "searchPoll"}
    BY <1>1, <1>2 DEF Searching
  <2>4. /\ pc'[n] = "wait" /\ ~notified[n] =>
                cmdQueue'[n] = <<>> /\ jobId'[n] = -1 /\ ~stopAckWaitSelf'[n]
        /\ n \in Workers /\ pc'[n] \in {"search", "searchPoll"} =>
                pc[n] \in {"search", "searchPoll"}
                /\ (jobId'[n] # handlerJob'[n] => jobId[n] # handlerJob[n] \/ notified[n])
    BY <2>2, <2>3
  <2> QED
    BY <2>1, <2>2, <2>4, NotificationsKept
<1> QED
  BY <1>7, <1>8, <1>9, <1>10, <1>11, <1>12, <1>13 DEF IInv

(* A node that had none to wait for waits for all its children.             *)
LEMMA QuitCounts ==
    ASSUME IInv, NEW n \in Nodes, NEW P \in SUBSET {n}, Sent(P, Children(n), Plain("QUIT")),
           P = {n} => n \in Workers /\ Head(cmdQueue[n]).type = "QUIT",
           n \in Workers => P = {n},
           quitAckWaitChildren[n] = -1, Children(n) # {}, Quitting',
           quitAckWaitChildren'[n] = Cardinality(Children(n)),
           \A m \in Nodes : m # n => quitAckWaitChildren'[m] = quitAckWaitChildren[m]
    PROVE  Quits'
<1>c. Plain("QUIT").type = "QUIT"
  BY Commands DEF CmdTypes
<1>0. /\ Children(n) \subseteq Workers /\ n \notin Children(n) /\ Children(n) \subseteq Nodes
      /\ IsFiniteSet(Children(n)) /\ Workers \subseteq Nodes
      /\ {"QUIT", "QUIT_ACK"} \subseteq CmdTypes
  BY Tree DEF Workers, CmdTypes
<1>1. /\ ~Has(n, "QUIT_ACK")
      /\ \A c \in Children(n) : quitAckWaitChildren[c] = -1 /\ ~Has(c, "QUIT")
  BY DEF IInv, Quits
<1>2. Cardinality(Children(n)) \in Nat \ {0}
  BY <1>0, FS_CardinalityType, FS_EmptySet
<1>3. n \in Workers => Took(n) /\ Has(n, "QUIT")
  <2> SUFFICES ASSUME n \in Workers PROVE Took(n) /\ Has(n, "QUIT")
    OBVIOUS
  <2>1. Took(n)
    BY DEF Sent
  <2> QED
    BY <2>1 DEF Took, Has, Queued
<1>4. \A m \in Nodes : /\ Num(m, "QUIT_ACK")' = Num(m, "QUIT_ACK")
                       /\ Has(m, "QUIT_ACK")' <=> Has(m, "QUIT_ACK")
  <2>1. ASSUME NEW m \in Nodes
        PROVE  Num(m, "QUIT_ACK")' = Num(m, "QUIT_ACK")
    <3>1. CASE m \in P
      <4>1. m = n /\ Took(n) /\ Head(cmdQueue[n]).type = "QUIT"
        BY <1>3, <3>1
      <4> QED
        BY <1>0, <4>1 DEF Took
    <3>2. CASE m \in Children(n)
      BY <1>0, <1>c, <3>2 DEF Sent
    <3>3. CASE m \notin P /\ m \notin Children(n)
      BY <1>0, <3>3 DEF Sent
    <3> QED
      BY <3>1, <3>2, <3>3
  <2> QED
    BY <1>0, <2>1 DEF Sent
<1>5. /\ \A m \in Workers : m # n /\ m \notin Children(n) =>
            Num(m, "QUIT")' = Num(m, "QUIT") /\ (Has(m, "QUIT")' <=> Has(m, "QUIT"))
      /\ n \in Workers => ~Has(n, "QUIT")' /\ Num(n, "QUIT")' = 0
      /\ \A c \in Children(n) : Num(c, "QUIT")' = 1
  <2>1. \A m \in Workers : m # n /\ m \notin Children(n) =>
            Num(m, "QUIT")' = Num(m, "QUIT") /\ (Has(m, "QUIT")' <=> Has(m, "QUIT"))
    BY <1>0, ZenonT(60) DEF Sent
  <2>2. n \in Workers => ~Has(n, "QUIT")' /\ Num(n, "QUIT")' = 0
    <3> SUFFICES ASSUME n \in Workers PROVE ~Has(n, "QUIT")' /\ Num(n, "QUIT")' = 0
      OBVIOUS
    <3>1. Num(n, "QUIT")' = Num(n, "QUIT") - 1
      BY <1>0, <1>3 DEF Took
    <3>2. Num(n, "QUIT") <= 1 /\ Num(n, "QUIT") \in Nat /\ Num(n, "QUIT")' \in Nat
          /\ (Has(n, "QUIT") <=> Num(n, "QUIT") # 0)
          /\ (Has(n, "QUIT")' <=> Num(n, "QUIT")' # 0)
      BY <1>0 DEF Sent, IInv, Quits
    <3> QED
      BY <1>3, <3>1, <3>2
  <2>3. \A c \in Children(n) : Num(c, "QUIT")' = 1
    <3>1. \A c \in Children(n) : Num(c, "QUIT")' = Num(c, "QUIT") + 1
      BY <1>0, <1>c DEF Sent
    <3>2. \A c \in Children(n) : Num(c, "QUIT") = 0
      BY <1>0, <1>1 DEF Sent
    <3> QED
      BY <3>1, <3>2
  <2> QED
    BY <2>1, <2>2, <2>3
<1>6. ASSUME NEW m \in Nodes
      PROVE  IF quitAckWaitChildren'[m] = -1
             THEN /\ ~Has(m, "QUIT_ACK")'
                  /\ \A c \in Children(m) : quitAckWaitChildren'[c] = -1 /\ ~Has(c, "QUIT")'
             ELSE quitAckWaitChildren'[m] = Cardinality({c \in Children(m) : quitAckWaitChildren'[c] # 0})
                                            + Num(m, "QUIT_ACK")'
  <2>1. CASE m = n
    <3>1. {c \in Children(n) : quitAckWaitChildren'[c] # 0} = Children(n)
      BY <1>0, <1>1
    <3>2. Num(n, "QUIT_ACK")' = 0
      BY <1>0, <1>1, <1>4 DEF Sent
    <3> QED
      BY <1>2, <2>1, <3>1, <3>2
  <2>2. CASE m # n
    <3>1. quitAckWaitChildren'[m] = quitAckWaitChildren[m]
      BY <2>2
    <3>2. CASE quitAckWaitChildren[m] = -1
      <4>1. ~Has(m, "QUIT_ACK")' /\ \A c \in Children(m) : quitAckWaitChildren[c] = -1 /\ ~Has(c, "QUIT")
        BY <1>4, <3>2 DEF IInv, Quits
      <4>2. n \notin Children(m)
        BY <1>3, <4>1, Tree
      <4>3. \A c \in Children(m) : c \in Workers /\ c # n /\ c \notin Children(n)
        BY <2>2, <4>2, Tree
      <4> QED
        BY <1>0, <1>5, <3>1, <3>2, <4>1, <4>3
    <3>3. CASE quitAckWaitChildren[m] # -1
      <4>1. \A c \in Children(m) : c \in Nodes /\ (quitAckWaitChildren'[c] # 0 <=> quitAckWaitChildren[c] # 0)
        <5>1. \A c \in Children(m) : c \in Nodes
          BY <1>0, Tree
        <5> QED
          BY <1>2, <5>1
      <4>2. {c \in Children(m) : quitAckWaitChildren'[c] # 0} = {c \in Children(m) : quitAckWaitChildren[c] # 0}
        BY <4>1
      <4> QED
        BY <1>4, <3>1, <3>3, <4>2 DEF IInv, Quits, Num
    <3> QED
      BY <3>2, <3>3
  <2> QED
    BY <2>1, <2>2
<1>7. ASSUME NEW m \in Workers
      PROVE  (Has(m, "QUIT")' => quitAckWaitChildren'[m] = -1) /\ Num(m, "QUIT")' <= 1
  <2>1. CASE m = n
    BY <1>5, <1>7, <2>1
  <2>2. CASE m \in Children(n)
    BY <1>0, <1>1, <1>5, <2>2
  <2>3. CASE m # n /\ m \notin Children(n)
    BY <1>0, <1>5, <1>7, <2>3 DEF IInv, Quits
  <2> QED
    BY <2>1, <2>2, <2>3
<1> QED
  BY <1>6, <1>7 DEF Quits, Num

(* A node waits for one less, and tells its parent when there is none left. *)
LEMMA QuitAckCounts ==
    ASSUME IInv, NEW n \in Nodes, NEW P \in SUBSET {n}, NEW to, Sent(P, to, Plain("QUIT_ACK")),
           n \in Workers => to = IF quitAckWaitChildren'[n] = 0 THEN {Parent[n]} ELSE {},
           n = Root => to = {},
           quitAckWaitChildren[n] # 0, quitAckWaitChildren'[n] # -1, Quitting',
           quitAckWaitChildren'[n] = Cardinality({c \in Children(n) : quitAckWaitChildren[c] # 0})
                                     + Num(n, "QUIT_ACK")',
           n \in Workers => ~Has(n, "QUIT")' /\ quitAckWaitChildren[Parent[n]] # -1,
           \A m \in Nodes : m # n => quitAckWaitChildren'[m] = quitAckWaitChildren[m]
    PROVE  Quits'
<1>c. Plain("QUIT_ACK").type = "QUIT_ACK"
  BY Commands DEF CmdTypes
<1>0. /\ Workers \subseteq Nodes /\ (n \in Workers <=> n # Root) /\ Root \notin Workers
      /\ n \in Workers => Parent[n] \in Nodes /\ Parent[n] # n /\ n \in Children(Parent[n])
      /\ {"QUIT", "QUIT_ACK"} \subseteq CmdTypes
      /\ to \subseteq Nodes /\ n \notin to
  BY Tree DEF Workers, CmdTypes
<1>1. \A m \in Nodes : m # n => /\ Num(m, "QUIT")' = Num(m, "QUIT")
                                /\ Has(m, "QUIT")' <=> Has(m, "QUIT")
                                /\ Num(m, "QUIT_ACK")' = IF m \in to THEN Num(m, "QUIT_ACK") + 1
                                                         ELSE Num(m, "QUIT_ACK")
                                /\ m \notin to => (Has(m, "QUIT_ACK")' <=> Has(m, "QUIT_ACK"))
  <2>1. ASSUME NEW m \in Nodes, m # n
        PROVE  /\ Num(m, "QUIT")' = Num(m, "QUIT")
               /\ Num(m, "QUIT_ACK")' = IF m \in to THEN Num(m, "QUIT_ACK") + 1
                                        ELSE Num(m, "QUIT_ACK")
    <3>0. m \notin P
      BY <2>1
    <3>1. CASE m \in to
      BY <1>0, <1>c, <3>1 DEF Sent
    <3>2. CASE m \notin to
      BY <1>0, <3>0, <3>2 DEF Sent
    <3> QED
      BY <3>1, <3>2
  <2>2. \A m \in Nodes : \A type \in {"QUIT", "QUIT_ACK"} :
            (Has(m, type)' <=> Num(m, type)' # 0) /\ (Has(m, type) <=> Num(m, type) # 0)
    BY <1>0 DEF Sent
  <2> QED
    BY <2>1, <2>2
<1>2. ASSUME NEW m \in Nodes
      PROVE  IF quitAckWaitChildren'[m] = -1
             THEN /\ ~Has(m, "QUIT_ACK")'
                  /\ \A c \in Children(m) : quitAckWaitChildren'[c] = -1 /\ ~Has(c, "QUIT")'
             ELSE quitAckWaitChildren'[m] = Cardinality({c \in Children(m) : quitAckWaitChildren'[c] # 0})
                                            + Num(m, "QUIT_ACK")'
  <2> DEFINE Waiting == {c \in Children(m) : quitAckWaitChildren[c] # 0}
             WaitingNow == {c \in Children(m) : quitAckWaitChildren'[c] # 0}
  <2>0. \A c \in Children(m) : c \in Nodes /\ c \in Workers /\ Parent[c] = m /\ c # m
    BY <1>0, Tree
  <2>1. CASE m = n
    <3>1. WaitingNow = Waiting
      BY <2>0, <2>1
    <3> QED
      BY <2>1, <3>1
  <2>2. CASE m # n /\ ~(n \in Workers /\ m = Parent[n])
    <3>1. /\ quitAckWaitChildren'[m] = quitAckWaitChildren[m] /\ m \notin to
          /\ \A c \in Children(m) : c # n /\ quitAckWaitChildren'[c] = quitAckWaitChildren[c]
      BY <1>0, <2>0, <2>2
    <3>2. WaitingNow = Waiting
      BY <3>1
    <3>3. /\ Num(m, "QUIT_ACK")' = Num(m, "QUIT_ACK")
          /\ Has(m, "QUIT_ACK")' <=> Has(m, "QUIT_ACK")
          /\ \A c \in Children(m) : Has(c, "QUIT")' <=> Has(c, "QUIT")
      BY <1>1, <2>0, <2>2, <3>1
    <3>4. IF quitAckWaitChildren[m] = -1
          THEN ~Has(m, "QUIT_ACK") /\ \A c \in Children(m) : quitAckWaitChildren[c] = -1 /\ ~Has(c, "QUIT")
          ELSE quitAckWaitChildren[m] = Cardinality(Waiting) + Num(m, "QUIT_ACK")
      BY DEF IInv, Quits, Num
    <3> HIDE DEF Waiting, WaitingNow
    <3>5. IF quitAckWaitChildren'[m] = -1
          THEN ~Has(m, "QUIT_ACK")' /\ \A c \in Children(m) : quitAckWaitChildren'[c] = -1 /\ ~Has(c, "QUIT")'
          ELSE quitAckWaitChildren'[m] = Cardinality(WaitingNow) + Num(m, "QUIT_ACK")'
      BY <3>1, <3>2, <3>3, <3>4
    <3> QED
      BY <3>5 DEF WaitingNow
  <2>3. CASE n \in Workers /\ m = Parent[n]
    <3>1. /\ quitAckWaitChildren'[m] = quitAckWaitChildren[m] /\ quitAckWaitChildren[m] # -1
          /\ n \in Waiting /\ m # n
      BY <1>0, <2>3
    <3>2. quitAckWaitChildren[m] = Cardinality(Waiting) + Num(m, "QUIT_ACK")
      BY <3>1 DEF IInv, Quits, Num
    <3>3. IsFiniteSet(Waiting) /\ Cardinality(Waiting) \in Nat /\ Cardinality(Waiting \ {n}) = Cardinality(Waiting) - 1
      <4>1. IsFiniteSet(Waiting)
        BY Tree, FS_Subset
      <4> HIDE DEF Waiting
      <4> QED
        BY <3>1, <4>1, FS_CardinalityType, FS_RemoveElement
    <3>4. Num(m, "QUIT_ACK") \in Nat
      BY <1>0 DEF Sent
    <3>5. CASE quitAckWaitChildren'[n] = 0
      <4>1. WaitingNow = Waiting \ {n} /\ m \in to
        BY <2>0, <2>3, <3>5
      <4>2. Num(m, "QUIT_ACK")' = Num(m, "QUIT_ACK") + 1
        BY <1>1, <3>1, <4>1
      <4> HIDE DEF Waiting, WaitingNow
      <4>3. quitAckWaitChildren'[m] = Cardinality(WaitingNow) + Num(m, "QUIT_ACK")'
        BY <3>1, <3>2, <3>3, <3>4, <4>1, <4>2
      <4> QED
        BY <3>1, <4>3 DEF WaitingNow
    <3>6. CASE quitAckWaitChildren'[n] # 0
      <4>1. WaitingNow = Waiting /\ m \notin to
        BY <2>0, <2>3, <3>6
      <4>2. Num(m, "QUIT_ACK")' = Num(m, "QUIT_ACK")
        BY <1>1, <3>1, <4>1
      <4> HIDE DEF Waiting, WaitingNow
      <4>3. quitAckWaitChildren'[m] = Cardinality(WaitingNow) + Num(m, "QUIT_ACK")'
        BY <3>1, <3>2, <3>3, <3>4, <4>1, <4>2
      <4> QED
        BY <3>1, <4>3 DEF WaitingNow
    <3> QED
      BY <3>5, <3>6
  <2> QED
    BY <2>1, <2>2, <2>3
<1>3. ASSUME NEW m \in Workers
      PROVE  (Has(m, "QUIT")' => quitAckWaitChildren'[m] = -1) /\ Num(m, "QUIT")' <= 1
  <2>1. CASE m = n
    <3>1. Has(n, "QUIT")' <=> Num(n, "QUIT")' # 0
      BY <1>0 DEF Sent
    <3> QED
      BY <1>3, <2>1, <3>1
  <2>2. CASE m # n
    BY <1>0, <1>1, <1>3, <2>2 DEF IInv, Quits
  <2> QED
    BY <2>1, <2>2
<1> QED
  BY <1>2, <1>3 DEF Quits, Num

(* A node that polls a quit command, or the root that begins to quit.       *)
LEMMA QuitHandled ==
    ASSUME IInv, NEW n \in Nodes, NEW P \in SUBSET {n}, P = {n} <=> n \in Workers,
           P = {n} => cmdQueue[n] # <<>> /\ Head(cmdQueue[n]).type = "QUIT",
           sendQuit(n, IF P = {n} THEN [cmdQueue EXCEPT ![n] = Tail(@)] ELSE cmdQueue),
           \/ n \in Workers /\ pc' = pc /\ pc[n] \in {"poll", "searchPoll"}
           \/ n = Root /\ pc[Root] = "idle" /\ pc' = [pc EXCEPT ![Root] = "quitPoll"],
           UNCHANGED <<stopAckWaitSelf, stopAckWaitChildren, handlerVars, jobId, hasResult,
                       search, stats, accepted>>
    PROVE  IInv'
<1>0. /\ Workers \subseteq Nodes /\ (n \in Workers <=> n # Root) /\ Root \notin Workers /\ Root \in Nodes
      /\ n \in Workers => Parent[n] \in Nodes /\ Parent[n] # n /\ n \in Children(Parent[n])
      /\ Children(n) \subseteq Nodes /\ n \notin Children(n) /\ Root \notin Children(n)
      /\ {"QUIT", "QUIT_ACK"} \subseteq CmdTypes
      /\ Cardinality(Children(n)) \in 0 .. Cardinality(Nodes)
      /\ Cardinality(Nodes) \in Nat /\ Cardinality(Nodes) >= 1
  <2>1. Cardinality(Nodes) \in Nat /\ Cardinality(Nodes) # 0
    BY Tree, FS_CardinalityType, FS_EmptySet
  <2> QED
    BY <2>1, Tree DEF Workers, CmdTypes
<1>1. n \in Workers => Has(n, "QUIT")
  BY Polled
<1>2. /\ Resting
      /\ n \in Workers => Quitting /\ quitAckWaitChildren[Parent[n]] # -1
      /\ quitAckWaitChildren[n] = -1 /\ ~Has(n, "QUIT_ACK")
  <2>1. n \in Workers => /\ quitAckWaitChildren[n] = -1 /\ quitAckWaitChildren[Parent[n]] # -1
                         /\ Quitting
    <3> SUFFICES ASSUME n \in Workers
                 PROVE  /\ quitAckWaitChildren[n] = -1 /\ quitAckWaitChildren[Parent[n]] # -1
                        /\ Quitting
      OBVIOUS
    <3>1. Quitting
      BY <1>1 DEF IInv, Queues, Has, Queued
    <3> QED
      BY <1>0, <1>1, <3>1 DEF IInv, Quits
  <2>2. n = Root => quitAckWaitChildren[n] = -1 /\ pc[Root] = "idle"
    BY <1>0 DEF IInv, Quits, Quitting
  <2> QED
    BY <1>0, <2>1, <2>2 DEF IInv, Quits, Resting
<1>3. /\ pc' \in [Nodes -> {"wait", "poll", "search", "searchPoll", "exited", "idle", "between",
                            "stopPoll", "stopWait", "quitPoll", "quitWait"}]
      /\ Quitting'
      /\ \/ pc' = pc /\ Quitting /\ pc[n] \in {"poll", "searchPoll", "quitPoll"}
         \/ n = Root /\ pc[Root] = "idle" /\ pc' = [pc EXCEPT ![Root] = "quitPoll"]
  BY <1>0, <1>2 DEF IInv, TypeOK, Quitting
<1> DEFINE q == IF P = {n} THEN [cmdQueue EXCEPT ![n] = Tail(@)] ELSE cmdQueue
<1>4. ASSUME NEW to \in SUBSET Nodes, n \notin to, NEW cmd \in Cmds,
             cmdQueue' = Push(q, to, cmd), notified' = Wake(to)
      PROVE  /\ Sent(P, to, cmd) /\ cmdQueue' \in [Nodes -> Seq(Cmds)]
             /\ notified' \in [Nodes -> BOOLEAN]
             /\ \A m \in Nodes : notified'[m] = (m \in to \/ notified[m])
  <2>1. Sent(P, to, cmd) /\ cmdQueue' \in [Nodes -> Seq(Cmds)]
    <3>1. CASE P = {n}
      BY <1>4, <3>1, PopSends
    <3>2. CASE P = {}
      BY <1>4, <3>2, PushSends
    <3> QED
      BY <3>1, <3>2
  <2> QED
    BY <1>4, <2>1 DEF Wake, IInv, TypeOK
<1>5. CASE Children(n) # {}
  <2> DEFINE cmd == Plain("QUIT")
  <2>1. /\ quitAckWaitChildren' = [quitAckWaitChildren EXCEPT ![n] = Cardinality(Children(n))]
        /\ cmdQueue' = Push(q, Children(n), cmd) /\ notified' = Wake(Children(n))
    BY <1>5 DEF sendQuit
  <2>2. cmd \in Cmds /\ cmd.type = "QUIT"
    BY <1>0, Commands
  <2> HIDE DEF cmd, q
  <2>3. /\ Sent(P, Children(n), cmd) /\ cmdQueue' \in [Nodes -> Seq(Cmds)]
        /\ notified' \in [Nodes -> BOOLEAN]
        /\ \A m \in Nodes : notified'[m] = (m \in Children(n) \/ notified[m])
    BY <1>0, <1>4, <2>1, <2>2
  <2>4. /\ quitAckWaitChildren' \in [Nodes -> -1 .. Cardinality(Nodes)]
        /\ quitAckWaitChildren'[n] = Cardinality(Children(n))
        /\ \A m \in Nodes : m # n => quitAckWaitChildren'[m] = quitAckWaitChildren[m]
    BY <1>0, <2>1 DEF IInv, TypeOK
  <2>5. TypeOK'
    BY <1>3, <2>3, <2>4 DEF IInv, TypeOK, handlerVars
  <2>6. Quits'
    BY <1>2, <1>3, <1>5, <2>3, <2>4, QuitCounts DEF cmd
  <2>7. /\ cmd.type \in {"QUIT", "QUIT_ACK"} /\ Children(n) \in SUBSET Nodes
        /\ Root \in Children(n) => cmd.type = "QUIT_ACK"
        /\ P = {n} => Head(cmdQueue[n]).type \in {"QUIT", "QUIT_ACK"}
        /\ UNCHANGED <<stopAckWaitSelf, stopAckWaitChildren, handlerVars, jobId, search,
                       stats, accepted>>
    BY <1>0, <2>2
  <2> QED
    BY <1>0, <1>2, <1>3, <2>3, <2>5, <2>6, <2>7, QuitMoves
<1>6. CASE Children(n) = {}
  <2> DEFINE cmd == Plain("QUIT_ACK")
             to == IF n \in Workers THEN {Parent[n]} ELSE {}
  <2>1. /\ quitAckWaitChildren' = [quitAckWaitChildren EXCEPT ![n] = 0]
        /\ cmdQueue' = Push(q, to, cmd) /\ notified' = Wake(to)
    BY <1>0, <1>6 DEF sendQuit, sendQuitAck, Parents
  <2>2. cmd \in Cmds /\ cmd.type = "QUIT_ACK" /\ to \in SUBSET Nodes /\ n \notin to
    BY <1>0, Commands
  <2>t. (n \in Workers => to = {Parent[n]}) /\ (n = Root => to = {})
    BY <1>0
  <2> HIDE DEF cmd, to, q
  <2>3. /\ Sent(P, to, cmd) /\ cmdQueue' \in [Nodes -> Seq(Cmds)]
        /\ notified' \in [Nodes -> BOOLEAN]
        /\ \A m \in Nodes : notified'[m] = (m \in to \/ notified[m])
    BY <1>4, <2>1, <2>2
  <2>4. /\ quitAckWaitChildren' \in [Nodes -> -1 .. Cardinality(Nodes)]
        /\ quitAckWaitChildren'[n] = 0
        /\ \A m \in Nodes : m # n => quitAckWaitChildren'[m] = quitAckWaitChildren[m]
    BY <1>0, <2>1 DEF IInv, TypeOK
  <2>5. TypeOK'
    BY <1>3, <2>3, <2>4 DEF IInv, TypeOK, handlerVars
  <2>6. Num(n, "QUIT_ACK")' = 0 /\ (n \in Workers => ~Has(n, "QUIT")')
    <3>1. /\ Num(n, "QUIT_ACK") = 0 /\ Num(n, "QUIT") \in Nat /\ Num(n, "QUIT")' \in Nat
          /\ Has(n, "QUIT")' <=> Num(n, "QUIT")' # 0
          /\ Has(n, "QUIT") <=> Num(n, "QUIT") # 0
      BY <1>0, <1>2, <2>3 DEF Sent
    <3>2. CASE P = {n}
      <4>1. Took(n) /\ n \in Workers
        BY <2>3, <3>2 DEF Sent
      <4>2. Num(n, "QUIT_ACK")' = Num(n, "QUIT_ACK") /\ Num(n, "QUIT")' = Num(n, "QUIT") - 1
        BY <1>0, <3>2, <4>1 DEF Took
      <4>3. Num(n, "QUIT") <= 1
        BY <4>1 DEF IInv, Quits
      <4> QED
        BY <1>1, <3>1, <4>1, <4>2, <4>3
    <3>3. CASE P = {}
      BY <1>0, <2>2, <2>3, <3>1, <3>3 DEF Sent
    <3> QED
      BY <3>2, <3>3
  <2>7. quitAckWaitChildren'[n] = Cardinality({c \in Children(n) : quitAckWaitChildren[c] # 0})
                                  + Num(n, "QUIT_ACK")'
    <3>1. {c \in Children(n) : quitAckWaitChildren[c] # 0} = {}
      BY <1>6
    <3>2. Cardinality({c \in Children(n) : quitAckWaitChildren[c] # 0}) = 0
      BY <3>1, FS_EmptySet
    <3> QED
      BY <2>4, <2>6, <3>2
  <2>8. Quits'
    <3>1. /\ n \in Workers => to = IF quitAckWaitChildren'[n] = 0 THEN {Parent[n]} ELSE {}
          /\ quitAckWaitChildren[n] # 0 /\ quitAckWaitChildren'[n] # -1
          /\ n \in Workers => ~Has(n, "QUIT")' /\ quitAckWaitChildren[Parent[n]] # -1
      BY <1>2, <2>t, <2>4, <2>6
    <3> QED
      BY <1>3, <2>t, <2>3, <2>4, <2>7, <3>1, QuitAckCounts DEF cmd
  <2>9. /\ cmd.type \in {"QUIT", "QUIT_ACK"}
        /\ P = {n} => Head(cmdQueue[n]).type \in {"QUIT", "QUIT_ACK"}
        /\ Root \in to => cmd.type = "QUIT_ACK"
        /\ UNCHANGED <<stopAckWaitSelf, stopAckWaitChildren, handlerVars, jobId, search,
                       stats, accepted>>
    BY <2>2
  <2> QED
    BY <1>2, <1>3, <2>2, <2>3, <2>5, <2>8, <2>9, QuitMoves
<1> QED
  BY <1>5, <1>6

(* The root quits, or a worker polls a quit command.                        *)
LEMMA QuitStep ==
    ASSUME IInv, \/ RootQuit
                 \/ \E n \in Workers : /\ pc[n] \in {"poll", "searchPoll"} /\ cmdQueue[n] # <<>>
                                       /\ Head(cmdQueue[n]).type = "QUIT"
                                       /\ Quit(n, [cmdQueue EXCEPT ![n] = Tail(@)])
    PROVE  IInv'
<1>0. Root \in Nodes /\ Root \notin Workers /\ Workers \subseteq Nodes
  BY Tree DEF Workers
<1>1. CASE RootQuit
  <2>1. /\ {} \in SUBSET {Root} /\ ({} = {Root} <=> Root \in Workers) /\ {} # {Root}
        /\ sendQuit(Root, cmdQueue)
        /\ pc[Root] = "idle" /\ pc' = [pc EXCEPT ![Root] = "quitPoll"]
        /\ UNCHANGED <<stopAckWaitSelf, stopAckWaitChildren, handlerVars, jobId, hasResult,
                       search, stats, accepted>>
    BY <1>0, <1>1 DEF RootQuit
  <2>2. sendQuit(Root, IF {} = {Root} THEN [cmdQueue EXCEPT ![Root] = Tail(@)] ELSE cmdQueue)
    BY <2>1
  <2> QED
    BY <1>0, <2>1, <2>2, QuitHandled
<1>2. ASSUME NEW n \in Workers, pc[n] \in {"poll", "searchPoll"}, cmdQueue[n] # <<>>,
             Head(cmdQueue[n]).type = "QUIT", Quit(n, [cmdQueue EXCEPT ![n] = Tail(@)])
      PROVE  IInv'
  <2>1. /\ {n} \in SUBSET {n} /\ ({n} = {n} <=> n \in Workers) /\ n \in Nodes
        /\ sendQuit(n, [cmdQueue EXCEPT ![n] = Tail(@)]) /\ pc' = pc
        /\ UNCHANGED <<stopAckWaitSelf, stopAckWaitChildren, handlerVars, jobId, hasResult,
                       search, stats, accepted>>
    BY <1>0, <1>2 DEF Quit
  <2>2. sendQuit(n, IF {n} = {n} THEN [cmdQueue EXCEPT ![n] = Tail(@)] ELSE cmdQueue)
    BY <2>1
  <2> QED
    BY <1>2, <2>1, <2>2, QuitHandled
<1> QED
  BY <1>1, <1>2

(* A node learns that a child and all below it have quit.                   *)
LEMMA QuitAckStep ==
    ASSUME IInv, NEW n \in Nodes, cmdQueue[n] # <<>>, Head(cmdQueue[n]).type = "QUIT_ACK",
           pc[n] \in {"poll", "searchPoll", "quitPoll"},
           QuitAck(n, [cmdQueue EXCEPT ![n] = Tail(@)])
    PROVE  IInv'
<1>0. /\ Workers \subseteq Nodes /\ (n \in Workers <=> n # Root) /\ Root \in Nodes
      /\ n \in Workers => Parent[n] \in Nodes /\ Parent[n] # n /\ n \in Children(Parent[n])
      /\ {"QUIT", "QUIT_ACK"} \subseteq CmdTypes
      /\ Cardinality(Nodes) \in Nat
  BY Tree, FS_CardinalityType DEF Workers, CmdTypes
<1> DEFINE cmd == Plain("QUIT_ACK")
           to == IF quitAckWaitChildren[n] = 1 THEN Parents(n) ELSE {}
           q == [cmdQueue EXCEPT ![n] = Tail(@)]
<1>1. /\ Has(n, "QUIT_ACK") /\ Quitting
      /\ quitAckWaitChildren[n] \in 1 .. Cardinality(Nodes)
      /\ quitAckWaitChildren[n] = Cardinality({c \in Children(n) : quitAckWaitChildren[c] # 0})
                                  + Num(n, "QUIT_ACK")
      /\ Num(n, "QUIT_ACK") \in Nat
  <2>1. /\ 1 \in DOMAIN cmdQueue[n] /\ cmdQueue[n][1] = Head(cmdQueue[n])
    BY Popped DEF IInv, TypeOK
  <2>2. Has(n, "QUIT_ACK") /\ Quitting
    BY <2>1 DEF Has, Queued, IInv, Queues
  <2>3. Num(n, "QUIT_ACK") \in Nat \ {0}
    <3>1. Queued(n, "QUIT_ACK") = Of(cmdQueue[n], "QUIT_ACK") /\ cmdQueue[n] \in Seq(Cmds)
      BY DEF Queued, Of, IInv, TypeOK
    <3> QED
      BY <2>2, <3>1, Indexes DEF Num, Has
  <2>4. /\ quitAckWaitChildren[n] # -1
        /\ quitAckWaitChildren[n] = Cardinality({c \in Children(n) : quitAckWaitChildren[c] # 0})
                                    + Num(n, "QUIT_ACK")
    BY <2>2 DEF IInv, Quits, Num
  <2>5. Cardinality({c \in Children(n) : quitAckWaitChildren[c] # 0}) \in Nat
    BY Tree, FS_Subset, FS_CardinalityType
  <2>6. quitAckWaitChildren[n] \in -1 .. Cardinality(Nodes)
    BY DEF IInv, TypeOK
  <2> QED
    BY <1>0, <2>2, <2>3, <2>4, <2>5, <2>6
<1>2. /\ quitAckWaitChildren' = [quitAckWaitChildren EXCEPT ![n] = quitAckWaitChildren[n] - 1]
      /\ cmdQueue' = Push(q, to, cmd) /\ notified' = Wake(to) /\ pc' = pc
      /\ UNCHANGED <<stopAckWaitSelf, stopAckWaitChildren, handlerVars, jobId, hasResult,
                     search, stats, accepted>>
  BY DEF QuitAck, sendQuitAck
<1>3. cmd \in Cmds /\ cmd.type = "QUIT_ACK" /\ to \in SUBSET Nodes /\ n \notin to
  BY <1>0, Commands DEF Parents
<1>4. /\ n \in Workers => to = IF quitAckWaitChildren[n] - 1 = 0 THEN {Parent[n]} ELSE {}
      /\ n = Root => to = {}
  BY <1>0, <1>1 DEF Parents
<1> HIDE DEF to, cmd
<1>5. Sent({n}, to, cmd) /\ cmdQueue' \in [Nodes -> Seq(Cmds)]
  BY <1>2, <1>3, PopSends
<1>6. /\ notified' \in [Nodes -> BOOLEAN]
      /\ \A m \in Nodes : notified'[m] = (m \in to \/ notified[m])
  BY <1>2 DEF Wake, IInv, TypeOK
<1>7. /\ quitAckWaitChildren' \in [Nodes -> -1 .. Cardinality(Nodes)]
      /\ quitAckWaitChildren'[n] = quitAckWaitChildren[n] - 1
      /\ \A m \in Nodes : m # n => quitAckWaitChildren'[m] = quitAckWaitChildren[m]
  BY <1>0, <1>1, <1>2 DEF IInv, TypeOK
<1>8. TypeOK'
  BY <1>2, <1>5, <1>6, <1>7 DEF IInv, TypeOK, handlerVars
<1>9. /\ Num(n, "QUIT_ACK")' = Num(n, "QUIT_ACK") - 1
      /\ n \in Workers => ~Has(n, "QUIT")' /\ quitAckWaitChildren[Parent[n]] # -1
  <2>1. Took(n)
    BY <1>5 DEF Sent
  <2>2. Num(n, "QUIT_ACK")' = Num(n, "QUIT_ACK") - 1 /\ Num(n, "QUIT")' = Num(n, "QUIT")
    BY <1>0, <2>1 DEF Took
  <2>3. n \in Workers => ~Has(n, "QUIT") /\ quitAckWaitChildren[Parent[n]] # -1
    BY <1>0, <1>1 DEF IInv, Quits
  <2>4. Has(n, "QUIT")' <=> Has(n, "QUIT")
    BY <1>0, <1>5, <2>2 DEF Sent
  <2> QED
    BY <2>2, <2>3, <2>4
<1>10. Quits'
  <2>1. /\ {n} \in SUBSET {n} /\ Quitting'
        /\ n \in Workers => to = IF quitAckWaitChildren'[n] = 0 THEN {Parent[n]} ELSE {}
        /\ quitAckWaitChildren[n] # 0 /\ quitAckWaitChildren'[n] # -1
    BY <1>1, <1>2, <1>4, <1>7 DEF Quitting
  <2>2. quitAckWaitChildren'[n] = Cardinality({c \in Children(n) : quitAckWaitChildren[c] # 0})
                                  + Num(n, "QUIT_ACK")'
    <3>1. Cardinality({c \in Children(n) : quitAckWaitChildren[c] # 0}) \in Nat
      BY Tree, FS_Subset, FS_CardinalityType
    <3> QED
      BY <1>1, <1>7, <1>9, <3>1
  <2> QED
    BY <1>4, <1>5, <1>7, <1>9, <2>1, <2>2, QuitAckCounts DEF cmd
<1>11. /\ cmd.type \in {"QUIT", "QUIT_ACK"} /\ {n} \in SUBSET {n}
       /\ {n} = {n} => Head(cmdQueue[n]).type \in {"QUIT", "QUIT_ACK"}
       /\ Root \in to => cmd.type = "QUIT_ACK"
       /\ Resting
       /\ pc' = pc /\ Quitting /\ pc[n] \in {"poll", "searchPoll", "quitPoll"}
       /\ UNCHANGED <<stopAckWaitSelf, stopAckWaitChildren, handlerVars, jobId, search,
                      stats, accepted>>
  BY <1>1, <1>2, <1>3 DEF Resting
<1> QED
  BY <1>3, <1>5, <1>6, <1>8, <1>10, <1>11, QuitMoves

(***************************************************************************)
(* The root counts an acknowledgement.                                     *)
(***************************************************************************)
(* The root removes the acknowledgement of a child from its queue.         *)
LEMMA RootStopAckStep ==
    ASSUME IInv, pc[Root] = "stopPoll", cmdQueue[Root] # <<>>,
           Head(cmdQueue[Root]).type = "STOP_ACK",
           StopAck(Root, [cmdQueue EXCEPT ![Root] = Tail(@)])
    PROVE  IInv'
<1> Root \in Nodes /\ Root \notin Workers
  BY Tree
<1>1. /\ stopAckWaitChildren[Root] \in 1 .. Cardinality(Nodes) /\ Cardinality(Nodes) \in Nat
      /\ Num(Root, "STOP_ACK") \in Nat /\ cmdQueue[Root] \in Seq(Cmds)
  <2>0. cmdQueue[Root] \in Seq(Cmds) /\ 1 \in DOMAIN cmdQueue[Root]
        /\ cmdQueue[Root][1].type = "STOP_ACK"
    BY Popped DEF IInv, TypeOK
  <2>1. stopAckWaitChildren[Root] \in 0 .. Cardinality(Nodes) /\ stopAckWaitChildren[Root] # 0
    BY <2>0, NoChildOwes DEF IInv, TypeOK, Has, Queued
  <2>2. Queued(Root, "STOP_ACK") = Of(cmdQueue[Root], "STOP_ACK")
    BY DEF Queued, Of
  <2> QED
    BY <2>0, <2>1, <2>2, Tree, FS_CardinalityType, Indexes DEF Num
<1>2. /\ cmdQueue' = Push([cmdQueue EXCEPT ![Root] = Tail(@)], {}, Plain("STOP_ACK"))
      /\ stopAckWaitChildren' = [stopAckWaitChildren EXCEPT ![Root] = stopAckWaitChildren[Root] - 1]
      /\ notified' = Wake({})
      /\ UNCHANGED <<stopAckWaitSelf, quitAckWaitChildren, handlerVars, jobId, hasResult, pc,
                     search, stats, accepted>>
  BY DEF StopAck, Parents
<1>3. Plain("STOP_ACK") \in Cmds /\ {} \in SUBSET Nodes /\ Root \notin {}
      /\ {"STOP_SEARCH", "START_SEARCH", "INIT_SEARCH", "STOP_ACK"} \subseteq CmdTypes
      /\ Plain("STOP_ACK").type = "STOP_ACK"
  BY Commands DEF CmdTypes
<1>4. Sent({Root}, {}, Plain("STOP_ACK")) /\ cmdQueue' \in [Nodes -> Seq(Cmds)]
  BY <1>2, <1>3, PopSends
<1>5. /\ \A m \in Workers : cmdQueue'[m] = cmdQueue[m]
      /\ \A m \in Nodes : m # Root => cmdQueue'[m] = cmdQueue[m]
      /\ \A m \in Nodes, type \in CmdTypes \ {"STOP_ACK"} :
            Num(m, type)' = Num(m, type) /\ (Has(m, type)' <=> Has(m, type))
      /\ Num(Root, "STOP_ACK")' = Num(Root, "STOP_ACK") - 1
      /\ \A m \in Workers : Num(m, "STOP_ACK")' = Num(m, "STOP_ACK")
  <2>1. Took(Root)
    BY <1>4 DEF Sent
  <2>2. \A m \in Nodes : m # Root =>
            cmdQueue'[m] = cmdQueue[m] /\ \A type \in CmdTypes : Num(m, type)' = Num(m, type)
    BY <1>4 DEF Sent
  <2>3. ASSUME NEW m \in Nodes, NEW type \in CmdTypes, type # "STOP_ACK"
        PROVE  Num(m, type)' = Num(m, type)
    <3>1. CASE m = Root
      BY <2>1, <2>3, <3>1 DEF Took
    <3>2. CASE m # Root
      BY <2>2, <2>3, <3>2
    <3> QED
      BY <3>1, <3>2
  <2>4. \A m \in Nodes, type \in CmdTypes \ {"STOP_ACK"} :
            Num(m, type)' = Num(m, type) /\ (Has(m, type)' <=> Has(m, type))
    BY <1>4, <2>3 DEF Sent
  <2>5. Num(Root, "STOP_ACK")' = Num(Root, "STOP_ACK") - 1
    BY <1>3, <2>1 DEF Took
  <2> QED
    BY <1>3, <2>2, <2>4, <2>5 DEF Workers
<1>6. /\ stopAckWaitChildren' \in [Nodes -> 0 .. Cardinality(Nodes)]
      /\ stopAckWaitChildren'[Root] = stopAckWaitChildren[Root] - 1
      /\ \A m \in Workers : stopAckWaitChildren'[m] = stopAckWaitChildren[m]
      /\ stopAckWaitSelf' = stopAckWaitSelf
      /\ notified' \in [Nodes -> BOOLEAN] /\ \A m \in Nodes : notified'[m] = notified[m]
  BY <1>1, <1>2 DEF IInv, TypeOK, Wake, Workers
<1>7. /\ \A m \in Workers : (hasStopAck(m)' <=> hasStopAck(m)) /\ (OwesStopAck(m)' <=> OwesStopAck(m))
      /\ \A m \in Workers : Searching(m)' <=> Searching(m)
      /\ Active' = Active /\ Stopping' = Stopping /\ Quitting' = Quitting /\ Resting' = Resting
      /\ Stopping
      /\ \A m \in Workers : m \in Nodes
                         /\ (Has(m, "START_SEARCH")' <=> Has(m, "START_SEARCH"))
                         /\ (Has(m, "STOP_SEARCH")' <=> Has(m, "STOP_SEARCH"))
                         /\ (Has(m, "INIT_SEARCH")' <=> Has(m, "INIT_SEARCH"))
  <2>1. \A m \in Workers : m \in Nodes
                         /\ (Has(m, "START_SEARCH")' <=> Has(m, "START_SEARCH"))
                         /\ (Has(m, "STOP_SEARCH")' <=> Has(m, "STOP_SEARCH"))
                         /\ (Has(m, "INIT_SEARCH")' <=> Has(m, "INIT_SEARCH"))
    BY <1>3, <1>5 DEF Workers
  <2>2. \A m \in Workers : hasStopAck(m)' <=> hasStopAck(m)
    BY <1>6 DEF hasStopAck
  <2> QED
    BY <1>2, <2>1, <2>2 DEF OwesStopAck, Has, Searching, Active, Stopping, Quitting, Resting
<1>8. \A m \in Nodes : /\ Coming(m, "STOP_SEARCH")' <=> Coming(m, "STOP_SEARCH")
                       /\ Coming(m, "INIT_SEARCH")' <=> Coming(m, "INIT_SEARCH")
  BY <1>7, SameComing
<1>9. TypeOK' /\ Places'
  BY <1>2, <1>4, <1>6 DEF IInv, TypeOK, Places, Active, handlerVars
<1>10. Queues'
  <2>1. /\ {Root} \in SUBSET Nodes
        /\ Plain("STOP_ACK").type \in CmdTypes \ {"START_SEARCH", "STOP_SEARCH"}
        /\ Plain("STOP_ACK").type \notin {"REPORT_RESULT", "QUIT", "QUIT_ACK"}
        /\ search'[Root] = search[Root] /\ pc'[Root] # "idle" /\ (Quitting => Quitting')
    BY <1>2, <1>3, <1>7
  <2> QED
    BY <1>3, <1>4, <2>1, QueuesKept
<1>11. Acks'
  <2>1. ASSUME NEW m \in Nodes
        PROVE  stopAckWaitChildren'[m] = Cardinality({c \in Children(m) : OwesStopAck(c)'})
                                         + Num(m, "STOP_ACK")'
    <3>1. {c \in Children(m) : OwesStopAck(c)'} = {c \in Children(m) : OwesStopAck(c)}
      BY <1>7, Tree
    <3>2. stopAckWaitChildren[m] = Cardinality({c \in Children(m) : OwesStopAck(c)})
                                   + Num(m, "STOP_ACK")
      BY DEF IInv, Acks, StopAcksBalance, Num
    <3>3. Cardinality({c \in Children(m) : OwesStopAck(c)}) \in Nat
      BY Tree, FS_Subset, FS_CardinalityType
    <3>4. CASE m = Root
      <4> DEFINE owing == Cardinality({c \in Children(m) : OwesStopAck(c)})
      <4>1. /\ stopAckWaitChildren[Root] = owing + Num(Root, "STOP_ACK") /\ owing \in Nat
            /\ stopAckWaitChildren[Root] \in Nat
        BY <1>1, <3>2, <3>3, <3>4
      <4> HIDE DEF owing
      <4>2. stopAckWaitChildren'[Root] = owing + Num(Root, "STOP_ACK")'
        BY <1>1, <1>5, <1>6, <4>1
      <4> QED
        BY <3>1, <3>4, <4>2 DEF owing
    <3>5. CASE m # Root
      BY <1>5, <1>6, <3>1, <3>2, <3>5 DEF Workers
    <3> QED
      BY <3>4, <3>5
  <2>2. StopAcksBalance'
    BY <2>1 DEF StopAcksBalance, Num
  <2>3. ASSUME NEW m \in Workers
        PROVE  /\ Has(m, "STOP_SEARCH")' \/ Has(m, "START_SEARCH")' => hasStopAck(m)'
               /\ stopAckWaitSelf'[m] => pc'[m] \in {"poll", "searchPoll"} /\ jobId'[m] = -1
               /\ pc'[m] = "search" => jobId'[m] = handlerJob'[m]
               /\ Searching(m)' => handlerJob'[m] # -1
    BY <1>2, <1>7, <2>3 DEF IInv, Acks, handlerVars
  <2> QED
    BY <1>6, <1>7, <2>2, <2>3 DEF IInv, Acks
<1>12. StopWave'
  <2>1. \A m \in Workers : PastStop(m)' <=> PastStop(m)
    BY <1>7, <1>8 DEF PastStop
  <2>2. \A m \in Workers : \A c \in Children(m) : OwesStopAck(c)' <=> OwesStopAck(c)
    BY <1>7, Tree DEF Workers
  <2>3. ASSUME NEW m \in Workers, PastStop(m)'
        PROVE  /\ jobId[m] = -1
               /\ Searching(m) => stopAckWaitSelf[m]
               /\ \A i \in DOMAIN cmdQueue[m] :
                    /\ cmdQueue[m][i].type \in {"REPORT_RESULT", "STOP_ACK", "QUIT", "QUIT_ACK"}
                    /\ cmdQueue[m][i].type = "REPORT_RESULT" =>
                        \/ \E c \in Children(m) : OwesStopAck(c)'
                        \/ \E j \in DOMAIN cmdQueue[m] : j > i /\ cmdQueue[m][j].type = "STOP_ACK"
    BY <2>1, <2>2, <2>3 DEF IInv, StopWave
  <2>4. jobId' = jobId /\ stopAckWaitSelf' = stopAckWaitSelf
    BY <1>2
  <2> QED
    BY <1>5, <1>7, <2>3, <2>4 DEF StopWave
<1>13. InitWave'
  BY <1>2, <1>5, <1>7, <1>8, Tree, ZenonT(60) DEF IInv, InitWave
<1>14. Current'
  BY <1>2, <1>7, <1>8 DEF IInv, Current, ResultsAreCurrent, handlerVars
<1>15. Quits'
  <2>1. \A m \in Nodes, type \in {"QUIT", "QUIT_ACK"} :
            Num(m, type)' = Num(m, type) /\ (Has(m, type)' <=> Has(m, type))
    BY <1>5 DEF CmdTypes
  <2> QED
    BY <1>2, <1>7, <2>1, QuitsKept
<1>16. Notifications'
  <2>1. /\ pc'[Root] \notin {"wait", "stopWait", "quitWait"}
        /\ \A m \in Workers : pc'[m] \notin {"stopWait", "quitWait"}
    BY <1>2 DEF IInv, Places
  <2> QED
    BY <1>2, <1>5, <1>6, <1>7, <2>1, ZenonT(60)
    DEF IInv, Notifications, NoLostNotification, handlerVars, Workers
<1> QED
  BY <1>9, <1>10, <1>11, <1>12, <1>13, <1>14, <1>15, <1>16 DEF IInv

(***************************************************************************)
(* The invariant.                                                          *)
(***************************************************************************)
(* The tree is at rest when the threads start.                             *)
LEMMA Initially == Init => IInv
<1> SUFFICES ASSUME Init PROVE IInv
  OBVIOUS
<1>0. /\ Root \in Nodes /\ Root \notin Workers /\ Workers \subseteq Nodes
      /\ Cardinality(Nodes) \in Nat /\ Len(Jobs) \in Nat /\ 0 \in Searches /\ 0 \in JobIds
  BY Tree, JobNumbers, TreeAssumption, FS_CardinalityType DEF Workers
<1>1. /\ pc[Root] = "idle" /\ \A n \in Workers : pc[n] = "wait"
      /\ \A n \in Nodes : /\ cmdQueue[n] = <<>> /\ stopAckWaitChildren[n] = 0
                          /\ ~stopAckWaitSelf[n] /\ quitAckWaitChildren[n] = -1 /\ hasStopAck(n)
      /\ \A n \in Workers : jobId[n] = -1 /\ ~Searching(n)
      /\ ~Active /\ ~Stopping /\ ~Quitting /\ Resting
  BY <1>0 DEF Init, Active, Stopping, Quitting, Resting, Searching, hasStopAck
<1>2. \A n \in Nodes : \A type :
                             /\ ~Has(n, type) /\ Num(n, type) = 0 /\ DOMAIN cmdQueue[n] = {}
                             /\ ~OwesStopAck(n)
  <2>1. ASSUME NEW n \in Nodes, NEW type
        PROVE  Queued(n, type) = {} /\ DOMAIN cmdQueue[n] = {}
    BY <1>1 DEF Queued
  <2> QED
    BY <1>1, <2>1, FS_EmptySet DEF Has, Num, OwesStopAck
<1>3. \A n \in Nodes : \A type : ~Coming(n, type)
  BY <1>0, <1>2 DEF Coming
<1>4. TypeOK
  BY <1>0 DEF Init, TypeOK
<1>5. Places
  BY <1>1 DEF Places
<1>6. Queues
  BY <1>0, <1>1, <1>2 DEF Queues
<1>7. Acks
  <2>1. ASSUME NEW n \in Nodes
        PROVE  stopAckWaitChildren[n] = Cardinality({c \in Children(n) : OwesStopAck(c)})
                                        + Num(n, "STOP_ACK")
    <3>1. {c \in Children(n) : OwesStopAck(c)} = {}
      BY <1>0, <1>2, Tree
    <3>2. Cardinality({c \in Children(n) : OwesStopAck(c)}) = 0
      BY <3>1, FS_EmptySet
    <3> QED
      BY <1>1, <1>2, <3>2
  <2>2. StopAcksBalance
    BY <2>1 DEF StopAcksBalance, Num
  <2> QED
    BY <1>0, <1>1, <1>2, <2>2 DEF Acks
<1>8. StopWave
  BY <1>0, <1>1, <1>2 DEF StopWave
<1>9. InitWave
  BY <1>0, <1>1, <1>2 DEF InitWave
<1>10. Current
  <2>1. accepted.type = "none"
    BY DEF Init, Plain, Cmd
  <2> QED
    BY <1>1, <2>1 DEF Current, ResultsAreCurrent
<1>11. Quits
  BY <1>0, <1>1, <1>2, Tree DEF Quits
<1>12. Notifications
  BY <1>0, <1>1 DEF Notifications, NoLostNotification, Workers
<1> QED
  BY <1>4, <1>5, <1>6, <1>7, <1>8, <1>9, <1>10, <1>11, <1>12 DEF IInv

(* The invariant reads the variables only.                                  *)
LEMMA Stuttering == IInv /\ UNCHANGED vars => IInv'
<1> SUFFICES ASSUME IInv, UNCHANGED vars PROVE IInv'
  OBVIOUS
<1>1. /\ cmdQueue' = cmdQueue /\ notified' = notified /\ stopAckWaitSelf' = stopAckWaitSelf
      /\ stopAckWaitChildren' = stopAckWaitChildren /\ quitAckWaitChildren' = quitAckWaitChildren
      /\ handlerJob' = handlerJob /\ handlerSearch' = handlerSearch /\ jobId' = jobId
      /\ hasResult' = hasResult /\ pc' = pc /\ search' = search /\ stats' = stats
      /\ accepted' = accepted
  BY DEF vars, commVars, ackVars, handlerVars
<1>2. /\ Active' = Active /\ Stopping' = Stopping /\ Quitting' = Quitting /\ Resting' = Resting
  BY <1>1 DEF Active, Stopping, Quitting, Resting
<1>3. TypeOK' /\ Places'
  BY <1>1, <1>2 DEF IInv, TypeOK, Places
<1>4. Queues'
  BY <1>1, <1>2, SameQueues DEF IInv, Queues
<1>5. Acks'
  BY <1>1, <1>2, SameQueues, SameAcks DEF IInv, Acks, ackVars, Searching
<1>6. StopWave'
  BY <1>1, <1>2, SameQueues, SameAcks DEF IInv, StopWave, PastStop, ackVars, Searching
<1>7. InitWave'
  BY <1>1, SameQueues, SameAcks DEF IInv, InitWave, ackVars, Searching
<1>8. Current'
  BY <1>1, <1>2, SameQueues DEF IInv, Current, Searching, ResultsAreCurrent
<1>9. Quits'
  BY <1>1, <1>2, SameQuits DEF ackVars
<1>10. Notifications'
  BY <1>1 DEF IInv, Notifications, NoLostNotification, Searching
<1> QED
  BY <1>3, <1>4, <1>5, <1>6, <1>7, <1>8, <1>9, <1>10 DEF IInv

(* Whatever a worker polls, the invariant holds after it.                   *)
LEMMA PollWorkerStep ==
    ASSUME IInv, NEW n \in Workers, PollWorker(n)
    PROVE  IInv'
<1> DEFINE q == [cmdQueue EXCEPT ![n] = Tail(@)]
           cmd == Head(cmdQueue[n])
<1>1. pc[n] \in {"poll", "searchPoll"} /\ cmdQueue[n] # <<>> /\ n \in Nodes
  BY DEF PollWorker, Workers
<1>2. \/ cmd.type = "INIT_SEARCH"   /\ InitSearch(n, q)
      \/ cmd.type = "START_SEARCH"  /\ StartSearch(n, q, cmd)
      \/ cmd.type = "STOP_SEARCH"   /\ StopSearch(n, q)
      \/ cmd.type = "REPORT_RESULT" /\ ReportResult(n, q, cmd)
      \/ cmd.type = "STOP_ACK"      /\ StopAck(n, q)
      \/ cmd.type = "QUIT"          /\ Quit(n, q)
      \/ cmd.type = "QUIT_ACK"      /\ QuitAck(n, q)
  BY DEF PollWorker
<1>3. CASE cmd.type = "INIT_SEARCH" /\ InitSearch(n, q)
  BY <1>1, <1>3, InitSearchStep
<1>4. CASE cmd.type = "START_SEARCH" /\ StartSearch(n, q, cmd)
  BY <1>1, <1>4, StartSearchStep
<1>5. CASE cmd.type = "STOP_SEARCH" /\ StopSearch(n, q)
  BY <1>1, <1>5, StopSearchStep
<1>6. CASE cmd.type = "REPORT_RESULT" /\ ReportResult(n, q, cmd)
  BY <1>1, <1>6, ReportResultStep
<1>7. CASE cmd.type = "STOP_ACK" /\ StopAck(n, q)
  BY <1>1, <1>7, StopAckStep
<1>8. CASE cmd.type = "QUIT" /\ Quit(n, q)
  BY <1>1, <1>8, QuitStep
<1>9. CASE cmd.type = "QUIT_ACK" /\ QuitAck(n, q)
  BY <1>1, <1>9, QuitAckStep
<1> QED
  BY <1>2, <1>3, <1>4, <1>5, <1>6, <1>7, <1>8, <1>9

(* Every step keeps the invariant: one case per action.                     *)
LEMMA Invariance == IInv /\ [Next]_vars => IInv'
<1> SUFFICES ASSUME IInv, [Next]_vars PROVE IInv'
  OBVIOUS
<1>1. ASSUME NEW n \in Workers, WorkerLoop(n)
      PROVE  IInv'
  BY <1>1, PollWorkerStep, WakeUpStep, ExitThreadStep, BeginSearchStep, StopAckSelfStep,
     ContinueSearchStep DEF WorkerLoop
<1>2. ASSUME NEW n \in Workers, EnterPoll(n) \/ WorkerSearch(n)
      PROVE  IInv'
  BY <1>2, EnterPollStep, ReportNodesStep, CompleteIterationStep DEF WorkerSearch
<1>3. CASE RootSearch
  BY <1>3, RootInitSearchStep, RootStartJobStep, RootMovesStep, RootDropsStep, RootStopStep
  DEF RootSearch
<1>4. CASE RootStopPoll
  <2>1. pc[Root] = "stopPoll" /\ cmdQueue[Root] # <<>>
    BY <1>4 DEF RootStopPoll
  <2>2. CASE Head(cmdQueue[Root]).type # "STOP_ACK"
    BY <1>4, <2>2, RootDropsStep
  <2>3. CASE Head(cmdQueue[Root]).type = "STOP_ACK"
    BY <1>4, <2>1, <2>3, RootStopAckStep DEF RootStopPoll
  <2> QED
    BY <2>2, <2>3
<1>5. CASE RootQuitPoll
  <2>1. pc[Root] = "quitPoll" /\ cmdQueue[Root] # <<>> /\ Root \in Nodes
    BY <1>5, Tree DEF RootQuitPoll
  <2>2. CASE Head(cmdQueue[Root]).type # "QUIT_ACK"
    BY <1>5, <2>2, RootDropsStep
  <2>3. CASE Head(cmdQueue[Root]).type = "QUIT_ACK"
    BY <1>5, <2>1, <2>3, QuitAckStep DEF RootQuitPoll
  <2> QED
    BY <2>2, <2>3
<1>6. CASE RootStopWait \/ RootStopped \/ RootQuitWait \/ RootWakeUp
  BY <1>6, RootMovesStep
<1>7. CASE RootQuit
  BY <1>7, QuitStep
<1>8. CASE UNCHANGED vars
  BY <1>8, Stuttering
<1> QED
  BY <1>1, <1>2, <1>3, <1>4, <1>5, <1>6, <1>7, <1>8 DEF Next, RootLoop, Terminated

(* The invariant holds in every state, whatever the tree and the jobs.      *)
LEMMA Inductive == Spec => []IInv
<1> QED
  BY Initially, Invariance, PTL DEF Spec

(***************************************************************************)
(* The properties of the runs, for every tree and every sequence of jobs.  *)
(***************************************************************************)
(* Every variable has its type, and the acknowledgement counters stay in   *)
(* range.                                                                  *)
THEOREM Typing == Spec => []TypeOK
<1>1. IInv => TypeOK
  BY DEF IInv
<1> QED
  BY <1>1, Inductive, PTL

(* The waiting counts fit the messages under way, and the root returns to  *)
(* its main loop only when the tree is at rest.                            *)
THEOREM StopsExact == Spec => []StopsAreExact
<1>1. ASSUME IInv PROVE StopsAreExact
  <2>1. StopAcksBalance
    BY <1>1 DEF IInv, Acks
  <2>2. QuietBetweenSearches
    <3> SUFFICES ASSUME pc[Root] = "idle", NEW n \in Workers
                 PROVE  /\ ~Searching(n) /\ jobId[n] = -1
                        /\ hasStopAck(n)
                        /\ \A i \in DOMAIN cmdQueue[n] : FALSE
      BY DEF QuietBetweenSearches
    <3>1. Resting
      BY DEF Resting
    <3> QED
      BY <1>1, <3>1, Rest
  <2> QED
    BY <2>1, <2>2 DEF StopsAreExact
<1> QED
  BY <1>1, Inductive, PTL

(* No thread sleeps through a command.                                     *)
THEOREM NoneLost == Spec => []NoLostNotification
<1>1. IInv => NoLostNotification
  BY DEF IInv, Notifications
<1> QED
  BY <1>1, Inductive, PTL

(* Nothing of one search reaches the next.                                 *)
THEOREM Separate == Spec => []SearchesAreSeparate
<1>1. ASSUME IInv PROVE SearchesAreSeparate
  <2>1. ResultsAreCurrent
    BY <1>1 DEF IInv, Current
  <2>2. JobsAreCurrent
    BY <1>1 DEF IInv, Current, Acks, JobsAreCurrent
  <2>3. StatsAreCurrent
    BY <1>1 DEF IInv, Current, StatsAreCurrent, Active
  <2> QED
    BY <2>1, <2>2, <2>3 DEF SearchesAreSeparate
<1> QED
  BY <1>1, Inductive, PTL

=============================================================================
