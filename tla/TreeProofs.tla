----------------------------- MODULE TreeProofs -----------------------------
(***************************************************************************)
(* Theorems about the AVL tree and its two users, for any number of nodes: *)
(* searches, insertions, removals and the walk are those of a sorted set,  *)
(* whatever the heights make TREE_BALANCE do.                              *)
(*                                                                         *)
(* While a function runs, the links its callers will store are stale.  The *)
(* invariant speaks of the tree as it is when every result has been stored:*)
(* v has the links, U the nodes below each node, and X are the nodes the   *)
(* functions still carry to their place below the nodes in open.           *)
(*                                                                         *)
(* The heights come last: a node that nobody waits with and that is not    *)
(* being balanced has one that fits those of its children.                 *)
(***************************************************************************)
EXTENDS RecordOrder, ProcessTree, SumLemmas

Lt(K, m, n) == K[m] < K[n] \/ (K[m] = K[n] /\ m < n)

OnSide(K, x, n, side) == IF side = "left" THEN Lt(K, x, n) ELSE Lt(K, n, x)

Sub(U, n) == IF n = Nil THEN {} ELSE U[n]

Carried(X, open, n) == IF n \in open THEN X ELSE {}

-----------------------------------------------------------------------------
(* A search tree of the nodes M with the keys K.                           *)

Types(M, K, U, v, top, X, open) ==
  /\ M \subseteq Nodes
  /\ \A n \in M : K[n] \in Keys
  /\ U \in [Nodes -> SUBSET Nodes]
  /\ \A n \in M : U[n] \subseteq M
  /\ v \in [Nodes -> [Sides -> Nodes \cup {Nil}]]
  /\ \A n \in M, s \in Sides : v[n][s] \in M \cup {Nil}
  /\ top \in M \cup {Nil}
  /\ open \subseteq M

Sets(M, U, v, top, X, open) ==
  /\ Sub(U, top) \cup (IF open = {} THEN X ELSE {}) = M
  /\ \A n \in M :
       U[n] = {n} \cup Sub(U, v[n]["left"]) \cup Sub(U, v[n]["right"]) \cup Carried(X, open, n)

Order(M, K, U, v) ==
  \A n \in M, s \in Sides : \A x \in Sub(U, v[n][s]) : OnSide(K, x, n, s)

Parents(M, v, top) ==
  /\ \A n \in M, s \in Sides : v[n][s] # Nil => v[n][s] # top
  /\ \A m, n \in M, s, t \in Sides :
       v[m][s] = v[n][t] /\ v[m][s] # Nil => m = n /\ s = t

Shape(M, K, U, v, top, X, open) ==
  /\ Types(M, K, U, v, top, X, open)
  /\ Sets(M, U, v, top, X, open)
  /\ Order(M, K, U, v)
  /\ Parents(M, v, top)

-----------------------------------------------------------------------------
(* The invariant.                                                          *)

Mutating == pc \in {"insert", "remove", "move_right", "rotl", "rotr", "balance", "return"}

TopOf(stk, s) == IF stk = << >> THEN s ELSE stk[1].self

OpenOf(stk) == {stk[i].self : i \in DOMAIN stk}

\* The links v are those in memory, but for the ones the callers wait for.
View(M, lnk, stk, s, v) ==
  /\ \A i \in 1 .. Len(stk) :
       v[stk[i].self][stk[i].side] = IF i = Len(stk) THEN s ELSE stk[i + 1].self
  /\ \A n \in M, d \in Sides :
       (\A i \in 1 .. Len(stk) : ~(stk[i].self = n /\ stk[i].side = d)) => v[n][d] = lnk[n][d]
  /\ \A i, j \in 1 .. Len(stk) : i # j => stk[i].self # stk[j].self
  /\ s \notin OpenOf(stk)

Load(U) == IF pc \in {"insert", "move_right"} THEN Sub(U, arg) ELSE {}

\* The subtree that is carried has no parent, and its place is below self.
Carrying(U, v) ==
  pc \in {"insert", "move_right"} =>
    /\ arg \in members \cup {Nil}
    /\ arg # Nil => /\ arg \notin OpenOf(stack) \cup {TopOf(stack, self)}
                    /\ \A n \in members, s \in Sides : v[n][s] # arg
    /\ stack # << >> =>
         \A x \in Load(U) : OnSide(key, x, stack[Len(stack)].self, stack[Len(stack)].side)
    /\ pc = "insert" =>
         /\ arg # Nil /\ U[arg] = {arg} /\ key[arg] = want
         /\ \A m \in members \ {arg} : key[m] = want => m < arg
    /\ pc = "move_right" =>
         \A x \in Sub(U, self), y \in Load(U) : Lt(key, x, y)

Searching(U) ==
  pc \in {"find", "remove"} =>
    \A m \in members : key[m] = want => m \in Sub(U, self)

Removing(U) ==
  pc = "remove" => \A i \in DOMAIN stack : Sub(U, self) \subseteq U[stack[i].self]

Changes(U, v) ==
  /\ Shape(members, key, U, v, TopOf(stack, self), Load(U), OpenOf(stack))
  /\ View(members, link, stack, self, v)
  /\ Carrying(U, v)
  /\ Removing(U)
  /\ Searching(U)

\* What a waiting caller still visits, of a node n.
Awaits(U, v, n) == {n} \cup Sub(U, v[n]["right"])

Rest == members \ {visited[i] : i \in DOMAIN visited}

\* Nodes the walk has reached are visited in the order of the stack.
Walking(U, v) ==
  pc = "apply" =>
    /\ \A i \in DOMAIN visited : visited[i] \in members
    /\ \A x \in members : x \in Rest <=>
         x \in Sub(U, self) \/ \E i \in DOMAIN stack : x \in Awaits(U, v, stack[i].self)
    /\ \A i \in DOMAIN visited : \A y \in Rest : Lt(key, visited[i], y)
    /\ \A i, j \in DOMAIN visited : i < j => Lt(key, visited[i], visited[j])
    /\ \A i \in DOMAIN stack : \A x \in Sub(U, self) : Lt(key, x, stack[i].self)
    /\ \A i, j \in DOMAIN stack : i < j =>
         \A x \in Awaits(U, v, stack[j].self) : Lt(key, x, stack[i].self)

Reads(U, v) ==
  /\ Shape(members, key, U, v, root, {}, {})
  /\ \A n \in members, s \in Sides : v[n][s] = link[n][s]
  /\ Searching(U)
  /\ Walking(U, v)

\* What the activations expect of each other.
Control ==
  /\ \A n \in Nodes \ members : height[n] = 0 /\ \A s \in Sides : link[n][s] = Nil
  /\ pc \in {"rotl", "rotr", "balance"} => self \in members
  /\ pc = "rotl" => link[self]["right"] \in members
  /\ pc = "rotr" => link[self]["left"] \in members
  /\ self \in members \cup {Nil}
  /\ \A i \in DOMAIN stack :
       /\ stack[i].self \in members
       /\ pc = "apply" <=> stack[i].next = "visit"
       /\ stack[i].next = "rotl" => stack[i].side = "right"
       /\ stack[i].next = "rotr" => stack[i].side = "left"
       /\ stack[i].next \in {"rotl", "rotr"} =>
            pc \in {"rotl", "rotr", "balance", "return"} /\ self # Nil
  /\ pc \in {"idle", "find", "found", "walked"} => stack = << >>
  /\ pc \in {"insert", "remove", "find", "found"} => want \in Keys

TreeInv ==
  /\ TypeOK
  /\ Control
  /\ FindsMembers
  /\ WalkIsSorted
  /\ \E U, v : IF Mutating THEN Changes(U, v) ELSE Reads(U, v)

-----------------------------------------------------------------------------
(* The order of the nodes.                                                 *)

Keyed(M, K) == M \subseteq Nodes /\ \A n \in M : K[n] \in Keys

LEMMA LtIsOrder ==
  ASSUME NEW M, NEW K, Keyed(M, K)
  PROVE  /\ \A a \in M : ~Lt(K, a, a)
         /\ \A a, b, c \in M : Lt(K, a, b) /\ Lt(K, b, c) => Lt(K, a, c)
<1>1. \A a \in M : a \in Nat /\ K[a] \in Nat
  BY AvlTreeAssumption DEF Keyed
<1> QED
  BY <1>1 DEF Lt

\* What lies on one side of a node has the node on its other side.
LEMMA SideIsOrder ==
  ASSUME NEW M, NEW K, Keyed(M, K), NEW s \in Sides
  PROVE  /\ \A a \in M : ~OnSide(K, a, a, s)
         /\ \A a, b, c \in M : OnSide(K, a, b, s) /\ OnSide(K, b, c, s) => OnSide(K, a, c, s)
         /\ \A a, b \in M : OnSide(K, a, b, s) => OnSide(K, b, a, Other(s))
BY LtIsOrder DEF OnSide, Other, Sides

LEMMA SidesDiffer ==
  /\ \A s \in Sides : Other(s) \in Sides /\ Other(s) # s /\ Other(Other(s)) = s
  /\ \A s, t \in Sides : t = s \/ t = Other(s)
  /\ \A s \in Sides : {s, Other(s)} = {"left", "right"}
BY DEF Sides, Other

-----------------------------------------------------------------------------
(* Facts about a search tree.                                              *)

\* The nodes below n, from either side.
LEMMA SetOf ==
  ASSUME NEW M, NEW U, NEW v, NEW top, NEW X, NEW open, Sets(M, U, v, top, X, open),
         NEW n \in M, NEW s \in Sides
  PROVE  U[n] = {n} \cup Sub(U, v[n][s]) \cup Sub(U, v[n][Other(s)]) \cup Carried(X, open, n)
BY DEF Sets, Sides, Other

LEMMA Below ==
  ASSUME NEW M, NEW K, NEW U, NEW v, NEW top, NEW X, NEW open,
         Shape(M, K, U, v, top, X, open), NEW n \in M, NEW s \in Sides
  PROVE  /\ Sub(U, v[n][s]) \subseteq U[n]
         /\ n \in U[n]
         /\ U[n] \subseteq Nodes
         /\ n \notin Sub(U, v[n][s])
         /\ v[n][s] # Nil => v[n][s] \in M /\ v[n][s] \in Sub(U, v[n][s]) /\ v[n][s] # n
<1>1. Sub(U, v[n][s]) \subseteq U[n] /\ n \in U[n]
  BY SetOf DEF Shape
<1>2. n \notin Sub(U, v[n][s])
  <2>1. Keyed(M, K)
    BY DEF Shape, Types, Keyed
  <2> QED
    BY <2>1, SideIsOrder DEF Shape, Order
<1>3. n \in Nodes /\ Nil \notin Nodes /\ U[n] \in SUBSET Nodes
  BY AvlTreeAssumption DEF Shape, Types
<1>4. ASSUME v[n][s] # Nil
      PROVE  v[n][s] \in M /\ v[n][s] \in Sub(U, v[n][s]) /\ v[n][s] # n
  <2>1. v[n][s] \in M
    BY <1>4 DEF Shape, Types
  <2>2. v[n][s] \in U[v[n][s]]
    BY <2>1 DEF Shape, Sets
  <2>3. v[n][s] \in Sub(U, v[n][s])
    BY <1>4, <2>2 DEF Sub
  <2> QED
    BY <1>2, <2>1, <2>3
<1> QED
  BY <1>1, <1>2, <1>3, <1>4

(***************************************************************************)
(* One more caller waits: its subtree will hold what is carried.           *)
(***************************************************************************)
LEMMA PushShape ==
  ASSUME NEW M, NEW K, NEW U, NEW v, NEW top, NEW X, NEW open,
         Shape(M, K, U, v, top, X, open), X \subseteq M,
         NEW n \in M, n \notin open,
         IF open = {} THEN n = top
         ELSE \E p \in M, s \in Sides :
                p \in open /\ v[p][s] = n /\ \A x \in X : OnSide(K, x, p, s)
  PROVE  Shape(M, K, [U EXCEPT ![n] = @ \cup X], v, top, X, open \cup {n})
<1> DEFINE W == [U EXCEPT ![n] = @ \cup X]
           more == open \cup {n}
<1>1. /\ M \subseteq Nodes /\ U \in [Nodes -> SUBSET Nodes] /\ Nil \notin Nodes
      /\ W \in [Nodes -> SUBSET Nodes]
      /\ W[n] = U[n] \cup X
      /\ \A m \in Nodes : m # n => W[m] = U[m]
  BY AvlTreeAssumption DEF Shape, Types
<1>2. Types(M, K, W, v, top, X, more)
  BY <1>1 DEF Shape, Types
<1> HIDE DEF W
<1>3. ASSUME NEW m \in M, NEW s \in Sides
      PROVE  Sub(W, v[m][s]) = Sub(U, v[m][s]) \cup (IF v[m][s] = n THEN X ELSE {})
  <2>1. v[m][s] = Nil \/ v[m][s] \in Nodes
    BY <1>1 DEF Shape, Types
  <2> QED
    BY <1>1, <2>1 DEF Sub
\* A parent of n carries already what n is going to carry.
<1>4. ASSUME NEW m \in M, NEW s \in Sides, v[m][s] = n
      PROVE  m \in open /\ m # n /\ \A x \in X : OnSide(K, x, m, s)
  <2>1. n # Nil /\ m # n
    BY <1>1, <1>4, Below
  <2>2. open # {}
    BY <1>4, <2>1 DEF Shape, Parents
  <2>3. PICK p \in M, t \in Sides :
          p \in open /\ v[p][t] = n /\ \A x \in X : OnSide(K, x, p, t)
    BY <2>2
  <2>4. p = m /\ t = s
    BY <1>4, <2>1, <2>3 DEF Shape, Parents
  <2> QED
    BY <2>1, <2>3, <2>4
<1>5. Sets(M, W, v, top, X, more)
  <2>1. Sub(W, top) \cup (IF more = {} THEN X ELSE {}) = M
    <3>1. CASE open = {}
      BY <1>1, <3>1 DEF Sub, Shape, Sets
    <3>2. CASE open # {}
      <4>1. PICK p \in M, s \in Sides : v[p][s] = n
        BY <3>2
      <4>2. n # top
        BY <1>1, <4>1 DEF Shape, Parents
      <4> QED
        BY <1>1, <3>2, <4>2 DEF Sub, Shape, Sets, Types
    <3> QED
      BY <3>1, <3>2
  <2>2. ASSUME NEW m \in M
        PROVE  W[m] = {m} \cup Sub(W, v[m]["left"]) \cup Sub(W, v[m]["right"]) \cup Carried(X, more, m)
    <3> DEFINE l == v[m]["left"]
               r == v[m]["right"]
    <3>1. U[m] = {m} \cup Sub(U, l) \cup Sub(U, r) \cup Carried(X, open, m)
      BY DEF Shape, Sets
    <3>2. /\ Sub(W, l) = Sub(U, l) \cup (IF l = n THEN X ELSE {})
          /\ Sub(W, r) = Sub(U, r) \cup (IF r = n THEN X ELSE {})
      BY <1>3 DEF Sides
    <3>3. l = n \/ r = n => m \in open /\ m # n
      BY <1>4 DEF Sides
    <3>4. /\ Carried(X, open, m) = IF m \in open THEN X ELSE {}
          /\ Carried(X, more, m) = IF m \in open \/ m = n THEN X ELSE {}
      BY DEF Carried
    <3> HIDE DEF l, r, more
    <3>5. ASSUME m = n
          PROVE  W[m] = {m} \cup Sub(W, l) \cup Sub(W, r) \cup Carried(X, more, m)
      <4>1. W[m] = U[m] \cup X /\ Sub(W, l) = Sub(U, l) /\ Sub(W, r) = Sub(U, r)
        BY <1>1, <3>2, <3>3, <3>5
      <4>2. Carried(X, open, m) = {} /\ Carried(X, more, m) = X
        BY <3>4, <3>5
      <4> QED
        BY <3>1, <4>1, <4>2
    <3>6. ASSUME m # n, l = n \/ r = n
          PROVE  W[m] = {m} \cup Sub(W, l) \cup Sub(W, r) \cup Carried(X, more, m)
      <4>1. W[m] = U[m]
        BY <1>1, <3>6
      <4>2. Carried(X, open, m) = X /\ Carried(X, more, m) = X
        BY <3>3, <3>4, <3>6
      <4>3. /\ Sub(W, l) = Sub(U, l) \/ Sub(W, l) = Sub(U, l) \cup X
            /\ Sub(W, r) = Sub(U, r) \/ Sub(W, r) = Sub(U, r) \cup X
        BY <3>2
      <4> QED
        BY <3>1, <4>1, <4>2, <4>3
    <3>7. ASSUME m # n, l # n, r # n
          PROVE  W[m] = {m} \cup Sub(W, l) \cup Sub(W, r) \cup Carried(X, more, m)
      <4>1. W[m] = U[m] /\ Carried(X, more, m) = Carried(X, open, m)
        BY <1>1, <3>4, <3>7
      <4>2. Sub(W, l) = Sub(U, l) /\ Sub(W, r) = Sub(U, r)
        BY <3>2, <3>7
      <4> QED
        BY <3>1, <4>1, <4>2
    <3>8. W[m] = {m} \cup Sub(W, l) \cup Sub(W, r) \cup Carried(X, more, m)
      BY <3>5, <3>6, <3>7
    <3> QED
      BY <3>8 DEF l, r
  <2> QED
    BY <2>1, <2>2 DEF Sets
<1>6. Order(M, K, W, v)
  <2>1. ASSUME NEW m \in M, NEW s \in Sides, NEW x \in Sub(W, v[m][s])
        PROVE  OnSide(K, x, m, s)
    <3>1. CASE x \in Sub(U, v[m][s])
      BY <3>1 DEF Shape, Order
    <3>2. CASE x \notin Sub(U, v[m][s])
      BY <1>3, <1>4, <3>2
    <3> QED
      BY <3>1, <3>2
  <2> QED
    BY <2>1 DEF Order
<1> QED
  BY <1>2, <1>5, <1>6 DEF Shape, W

(***************************************************************************)
(* A rotation: c, the child of d on side s, takes the place of d.          *)
(***************************************************************************)
RotatedLinks(v, d, s) ==
  LET c == v[d][s]
      o == Other(s)
  IN  [n \in Nodes |-> [t \in Sides |->
         IF n = d /\ t = s THEN v[c][o]
         ELSE IF n = c /\ t = o THEN d
         ELSE IF v[n][t] = d THEN c
         ELSE v[n][t]]]

RotatedSets(U, v, d, s) ==
  LET c == v[d][s]
      o == Other(s)
  IN  [n \in Nodes |->
         IF n = c THEN U[d]
         ELSE IF n = d THEN {d} \cup Sub(U, v[d][o]) \cup Sub(U, v[c][o])
         ELSE U[n]]

LEMMA RotateShape ==
  ASSUME NEW M, NEW K, NEW U, NEW v, NEW top, NEW open,
         Shape(M, K, U, v, top, {}, open),
         NEW d \in M, NEW s \in Sides, v[d][s] # Nil
  PROVE  Shape(M, K, RotatedSets(U, v, d, s), RotatedLinks(v, d, s),
               IF top = d THEN v[d][s] ELSE top, {}, open)
<1> DEFINE c == v[d][s]
           o == Other(s)
           W == RotatedSets(U, v, d, s)
           w == RotatedLinks(v, d, s)
           new == IF top = d THEN c ELSE top
\* The two nodes and the links that change.
<1>1. o \in Sides /\ o # s /\ \A t \in Sides : t = s \/ t = o
  BY SidesDiffer
<1>2. c \in M /\ c # d /\ d # Nil /\ c # Nil /\ c \in Nodes /\ d \in Nodes /\ M \subseteq Nodes
  <2>1. M \subseteq Nodes /\ Nil \notin Nodes
    BY AvlTreeAssumption DEF Shape, Types
  <2> QED
    BY <2>1, Below
<1>3. d \notin U[c] /\ U[c] \subseteq U[d] /\ c \in U[c]
  BY <1>2, Below DEF Sub
<1>4. ASSUME NEW n \in M, NEW t \in Sides
      PROVE  v[n][t] # n
  <2>1. n # Nil
    BY <1>2, AvlTreeAssumption
  <2> QED
    BY <2>1, Below
<1>5. \A t \in Sides : v[c][t] # d
  BY <1>2, <1>3, Below DEF Sub
<1>6. \A n \in M, t \in Sides : v[n][t] = c => n = d /\ t = s
  BY <1>2 DEF Shape, Parents
<1>7. top # c
  BY <1>2 DEF Shape, Parents
<1>8. /\ w[d][s] = v[c][o]
      /\ w[c][o] = d
      /\ w[d][o] = v[d][o]
      /\ w[c][s] = v[c][s]
      /\ \A n \in Nodes, t \in Sides : n # d /\ n # c =>
           w[n][t] = IF v[n][t] = d THEN c ELSE v[n][t]
  BY <1>1, <1>2, <1>4, <1>5 DEF RotatedLinks
<1>9. /\ W \in [Nodes -> SUBSET Nodes]
      /\ W[c] = U[d]
      /\ W[d] = {d} \cup Sub(U, v[d][o]) \cup Sub(U, v[c][o])
      /\ \A n \in Nodes : n # d /\ n # c => W[n] = U[n]
  <2>1. U \in [Nodes -> SUBSET Nodes]
    BY DEF Shape, Types
  <2>2. Sub(U, v[d][o]) \subseteq Nodes /\ Sub(U, v[c][o]) \subseteq Nodes
    BY <1>1, <1>2, Below
  <2> QED
    BY <1>2, <2>1, <2>2 DEF RotatedSets
<1>10. \A n \in M \cup {Nil} : n # d /\ n # c => Sub(W, n) = Sub(U, n)
  BY <1>2, <1>9 DEF Sub
<1>11. /\ Sub(W, c) = U[d]
       /\ Sub(W, d) = {d} \cup Sub(U, v[d][o]) \cup Sub(U, v[c][o])
  BY <1>2, <1>9 DEF Sub
<1>12. \A n \in M, t \in Sides : v[n][t] \in M \cup {Nil}
  BY DEF Shape, Types
<1>13. /\ w \in [Nodes -> [Sides -> Nodes \cup {Nil}]]
       /\ \A n \in M, t \in Sides : w[n][t] \in M \cup {Nil}
  <2>1. v \in [Nodes -> [Sides -> Nodes \cup {Nil}]]
    BY DEF Shape, Types
  <2>2. w \in [Nodes -> [Sides -> Nodes \cup {Nil}]]
    BY <1>1, <1>2, <2>1 DEF RotatedLinks
  <2>3. \A n \in M, t \in Sides : w[n][t] \in M \cup {Nil}
    BY <1>1, <1>2, <1>8, <1>12
  <2> QED
    BY <2>2, <2>3
<1> HIDE DEF w, W, c, o
<1>14. Types(M, K, W, w, new, {}, open)
  <2>1. \A n \in M : U[n] \subseteq M
    BY DEF Shape, Types
  <2>2. \A n \in M, t \in Sides : Sub(U, v[n][t]) \subseteq M
    BY <1>12, <2>1 DEF Sub
  <2>3. ASSUME NEW n \in M
        PROVE  W[n] \subseteq M
    BY <1>1, <1>2, <1>9, <2>1, <2>2
  <2> QED
    BY <1>2, <1>9, <1>13, <2>3 DEF Shape, Types
<1>15. Sets(M, W, w, new, {}, open)
  <2>1. Sub(W, new) = M
    BY <1>7, <1>10, <1>11, <1>2 DEF Shape, Types, Sets, Sub
  <2>2. \A n \in M : W[n] = {n} \cup Sub(W, w[n][s]) \cup Sub(W, w[n][o])
    <3>1. \A n \in M : U[n] = {n} \cup Sub(U, v[n][s]) \cup Sub(U, v[n][o])
      BY SetOf DEF Shape, Carried, o
    <3>2. W[d] = {d} \cup Sub(W, w[d][s]) \cup Sub(W, w[d][o])
      <4>1. v[c][o] # d /\ v[c][o] # c /\ v[d][o] # d /\ v[d][o] # c
        BY <1>1, <1>2, <1>4, <1>5, <1>6
      <4> QED
        BY <1>1, <1>2, <1>8, <1>9, <1>10, <1>12, <4>1
    <3>3. W[c] = {c} \cup Sub(W, w[c][s]) \cup Sub(W, w[c][o])
      <4>1. v[c][s] # d /\ v[c][s] # c
        BY <1>2, <1>4, <1>5
      <4>2. Sub(W, w[c][s]) = Sub(U, v[c][s])
        BY <1>2, <1>8, <1>10, <1>12, <4>1
      <4>3. Sub(W, w[c][o]) = {d} \cup Sub(U, v[d][o]) \cup Sub(U, v[c][o])
        BY <1>8, <1>11
      <4>4. Sub(U, v[d][s]) = U[c]
        BY <1>2 DEF c, Sub
      <4> QED
        BY <1>2, <1>9, <3>1, <4>2, <4>3, <4>4
    <3>4. ASSUME NEW n \in M, n # d, n # c
          PROVE  W[n] = {n} \cup Sub(W, w[n][s]) \cup Sub(W, w[n][o])
      <4>1. ASSUME NEW t \in Sides
            PROVE  Sub(W, w[n][t]) = Sub(U, v[n][t])
        <5>1. v[n][t] # c
          BY <1>6, <3>4
        <5>2. w[n][t] = IF v[n][t] = d THEN c ELSE v[n][t]
          BY <1>2, <1>8, <3>4
        <5>3. CASE v[n][t] = d
          BY <1>2, <1>11, <5>2, <5>3 DEF Sub
        <5>4. CASE v[n][t] # d
          BY <1>10, <1>12, <5>1, <5>2, <5>4
        <5> QED
          BY <5>3, <5>4
      <4> QED
        BY <1>1, <1>2, <1>9, <3>1, <3>4, <4>1
    <3> QED
      BY <3>2, <3>3, <3>4
  <2>3. {s, o} = {"left", "right"}
    BY SidesDiffer DEF o
  <2>4. \A n \in M : W[n] = {n} \cup Sub(W, w[n]["left"]) \cup Sub(W, w[n]["right"])
    <3>1. CASE s = "left" /\ o = "right"
      BY <2>2, <3>1
    <3>2. CASE s = "right" /\ o = "left"
      BY <2>2, <3>2
    <3> QED
      BY <2>3, <3>1, <3>2, <1>1
  <2> QED
    BY <2>1, <2>4 DEF Sets, Carried
<1>16. Order(M, K, W, w)
  <2>1. Keyed(M, K)
    BY DEF Shape, Types, Keyed
  <2>2. \A n \in M, t \in Sides : \A x \in Sub(U, v[n][t]) : OnSide(K, x, n, t)
    BY DEF Shape, Order
  <2>3. \A n \in M, t \in Sides : Sub(U, v[n][t]) \subseteq M
    BY <1>12 DEF Sub, Shape, Types
  <2>4. \A x \in Sub(U, v[d][o]) \cup Sub(U, v[c][o]) \cup {d} : OnSide(K, x, c, o)
    <3>1. OnSide(K, d, c, o)
      <4>1. c \in Sub(U, v[d][s])
        BY <1>2, <1>3 DEF Sub, c
      <4>2. OnSide(K, c, d, s)
        BY <2>2, <4>1
      <4> QED
        BY <1>2, <2>1, <4>2, SideIsOrder DEF o
    <3>2. ASSUME NEW x \in Sub(U, v[d][o])
          PROVE  OnSide(K, x, c, o)
      <4>1. x \in M /\ OnSide(K, x, d, o)
        BY <1>1, <2>2, <2>3
      <4> QED
        BY <1>1, <1>2, <2>1, <3>1, <4>1, SideIsOrder
    <3>3. ASSUME NEW x \in Sub(U, v[c][o])
          PROVE  OnSide(K, x, c, o)
      BY <1>1, <1>2, <2>2
    <3> QED
      BY <3>1, <3>2, <3>3
  <2>5. \A x \in Sub(U, v[c][o]) : OnSide(K, x, d, s)
    <3>1. Sub(U, v[c][o]) \subseteq Sub(U, v[d][s])
      BY <1>1, <1>2, Below DEF c, Sub
    <3> QED
      BY <2>2, <3>1
  <2>6. ASSUME NEW n \in M, NEW t \in Sides, NEW x \in Sub(W, w[n][t])
        PROVE  OnSide(K, x, n, t)
    <3>1. CASE n = c /\ t = o
      BY <1>8, <1>11, <2>4, <2>6, <3>1
    <3>2. CASE n = d /\ t = s
      <4>1. v[c][o] # d /\ v[c][o] # c
        BY <1>1, <1>2, <1>4, <1>5
      <4>2. Sub(W, w[n][t]) = Sub(U, v[c][o])
        BY <1>1, <1>2, <1>8, <1>10, <1>12, <3>2, <4>1
      <4> QED
        BY <2>5, <2>6, <3>2, <4>2
    <3>3. CASE (n = c /\ t = s) \/ (n = d /\ t = o)
      <4>1. w[n][t] = v[n][t] /\ v[n][t] # c /\ v[n][t] # d
        BY <1>1, <1>2, <1>4, <1>5, <1>6, <1>8, <3>3
      <4>2. Sub(W, w[n][t]) = Sub(U, v[n][t])
        BY <1>10, <1>12, <4>1
      <4> QED
        BY <2>2, <2>6, <4>2
    <3>4. CASE n # c /\ n # d
      <4>1. Sub(W, w[n][t]) = Sub(U, v[n][t])
        <5>1. v[n][t] # c
          BY <1>6, <3>4
        <5>2. w[n][t] = IF v[n][t] = d THEN c ELSE v[n][t]
          BY <1>2, <1>8, <3>4
        <5>3. CASE v[n][t] = d
          BY <1>2, <1>11, <5>2, <5>3 DEF Sub
        <5>4. CASE v[n][t] # d
          BY <1>10, <1>12, <5>1, <5>2, <5>4
        <5> QED
          BY <5>3, <5>4
      <4> QED
        BY <2>2, <2>6, <4>1
    <3> QED
      BY <1>1, <3>1, <3>2, <3>3, <3>4
  <2> QED
    BY <2>6 DEF Order
<1>17. Parents(M, w, new)
  \* Where the values of the new links come from.
  <2>1. \A n \in M, t \in Sides : w[n][t] = d => n = c /\ t = o
    BY <1>1, <1>2, <1>4, <1>5, <1>8
  <2>2. \A n \in M, t \in Sides : w[n][t] = c => v[n][t] = d
    BY <1>1, <1>2, <1>4, <1>6, <1>8
  <2>3. \A n \in M, t \in Sides : w[n][t] # c /\ w[n][t] # d =>
          \/ n = d /\ t = s /\ w[n][t] = v[c][o]
          \/ ~(n = c /\ t = o) /\ ~(n = d /\ t = s) /\ w[n][t] = v[n][t]
    BY <1>1, <1>2, <1>8
  <2>4. /\ \A n \in M, t \in Sides : v[n][t] # Nil => v[n][t] # top
        /\ \A m, n \in M, a, b \in Sides :
             v[m][a] = v[n][b] /\ v[m][a] # Nil => m = n /\ a = b
    BY DEF Shape, Parents
  <2>5. ASSUME NEW n \in M, NEW t \in Sides, w[n][t] # Nil
        PROVE  w[n][t] # new
    <3>1. CASE top = d
      BY <1>2, <2>2, <2>4, <3>1
    <3>2. CASE top # d
      BY <1>1, <1>2, <1>7, <2>3, <2>4, <2>5, <3>2
    <3> QED
      BY <3>1, <3>2
  <2>6. ASSUME NEW m \in M, NEW n \in M, NEW a \in Sides, NEW b \in Sides,
               w[m][a] = w[n][b], w[m][a] # Nil
        PROVE  m = n /\ a = b
    <3>1. CASE w[m][a] = d
      <4>1. w[n][b] = d
        BY <2>6, <3>1
      <4>2. m = c /\ a = o /\ n = c /\ b = o
        BY <2>1, <3>1, <4>1
      <4> QED
        BY <4>2
    <3>2. CASE w[m][a] = c
      <4>1. w[n][b] = c
        BY <2>6, <3>2
      <4>2. v[m][a] = d /\ v[n][b] = d
        BY <2>2, <3>2, <4>1
      <4> QED
        BY <1>2, <2>4, <4>2
    <3>3. CASE w[m][a] # c /\ w[m][a] # d
      BY <1>1, <1>2, <2>3, <2>4, <2>6, <3>3
    <3> QED
      BY <3>1, <3>2, <3>3
  <2> QED
    BY <2>5, <2>6 DEF Parents
<1> QED
  BY <1>14, <1>15, <1>16, <1>17 DEF Shape, c, w, W

(***************************************************************************)
(* What is carried is stored in an empty link, or is the whole tree.       *)
(***************************************************************************)
PlacedLinks(v, n, s, a) ==
  [m \in Nodes |-> [t \in Sides |-> IF m = n /\ t = s THEN a ELSE v[m][t]]]

LEMMA PlaceShape ==
  ASSUME NEW M, NEW K, NEW U, NEW v, NEW top, NEW open,
         NEW a \in M \cup {Nil},
         Shape(M, K, U, v, top, Sub(U, a), open),
         NEW n \in open, NEW s \in Sides, v[n][s] = Nil,
         \A x \in Sub(U, a) : OnSide(K, x, n, s),
         a # Nil => a # top /\ \A m \in M, t \in Sides : v[m][t] # a,
         \A p \in open \ {n} : \E t \in Sides : v[p][t] \in open
  PROVE  Shape(M, K, U, PlacedLinks(v, n, s, a), top, {}, open)
<1> DEFINE w == PlacedLinks(v, n, s, a)
           X == Sub(U, a)
<1>1. /\ M \subseteq Nodes /\ Nil \notin Nodes /\ open \subseteq M /\ n \in M
      /\ \A m \in M, t \in Sides : v[m][t] \in M \cup {Nil}
  BY AvlTreeAssumption DEF Shape, Types
<1>2. /\ w[n][s] = a
      /\ \A m \in M, t \in Sides : m # n \/ t # s => w[m][t] = v[m][t]
  BY <1>1 DEF PlacedLinks
<1>3. w \in [Nodes -> [Sides -> Nodes \cup {Nil}]]
  BY <1>1 DEF PlacedLinks, Shape, Types
<1> HIDE DEF w
<1>4. Types(M, K, U, w, top, {}, open)
  BY <1>1, <1>2, <1>3 DEF Shape, Types
<1>5. Sets(M, U, w, top, {}, open)
  <2>1. Sub(U, top) = M
    BY DEF Shape, Sets
  <2>2. ASSUME NEW m \in M
        PROVE  U[m] = {m} \cup Sub(U, w[m]["left"]) \cup Sub(U, w[m]["right"])
    <3>1. U[m] = {m} \cup Sub(U, v[m]["left"]) \cup Sub(U, v[m]["right"]) \cup Carried(X, open, m)
      BY DEF Shape, Sets
    <3>2. CASE m = n
      <4>1. Carried(X, open, m) = X
        BY <3>2 DEF Carried
      <4>2. Sub(U, w[m][s]) = X /\ Sub(U, v[m][s]) = {} /\ w[m][Other(s)] = v[m][Other(s)]
        BY <1>2, <3>2, SidesDiffer DEF Sub
      <4>3. CASE s = "left"
        BY <3>1, <4>1, <4>2, <4>3 DEF Other
      <4>4. CASE s = "right"
        BY <3>1, <4>1, <4>2, <4>4 DEF Other
      <4> QED
        BY <4>3, <4>4 DEF Sides
    <3>3. CASE m # n
      <4>1. w[m]["left"] = v[m]["left"] /\ w[m]["right"] = v[m]["right"]
        BY <1>2, <3>3 DEF Sides
      <4>2. Carried(X, open, m) \subseteq Sub(U, v[m]["left"]) \cup Sub(U, v[m]["right"])
        <5>1. CASE m \in open
          <6>1. PICK t \in Sides : v[m][t] \in open
            BY <3>3, <5>1
          <6>2. X \subseteq U[v[m][t]]
            BY <1>1, <6>1 DEF Shape, Sets, Carried
          <6>3. U[v[m][t]] = Sub(U, v[m][t])
            BY <1>1, <6>1 DEF Sub
          <6>4. Sub(U, v[m][t]) \subseteq Sub(U, v[m]["left"]) \cup Sub(U, v[m]["right"])
            BY DEF Sides
          <6> QED
            BY <6>2, <6>3, <6>4 DEF Carried
        <5>2. CASE m \notin open
          BY <5>2 DEF Carried
        <5> QED
          BY <5>1, <5>2
      <4> QED
        BY <3>1, <4>1, <4>2
    <3> QED
      BY <3>2, <3>3
  <2> QED
    BY <2>1, <2>2 DEF Sets, Carried
<1>6. Order(M, K, U, w)
  <2>1. ASSUME NEW m \in M, NEW t \in Sides, NEW x \in Sub(U, w[m][t])
        PROVE  OnSide(K, x, m, t)
    <3>1. CASE m = n /\ t = s
      BY <1>2, <2>1, <3>1
    <3>2. CASE m # n \/ t # s
      <4>1. w[m][t] = v[m][t]
        BY <1>2, <3>2
      <4> QED
        BY <2>1, <4>1 DEF Shape, Order
    <3> QED
      BY <3>1, <3>2
  <2> QED
    BY <2>1 DEF Order
<1>7. Parents(M, w, top)
  BY <1>1, <1>2 DEF Shape, Parents
<1> QED
  BY <1>4, <1>5, <1>6, <1>7 DEF Shape, w

LEMMA PlaceTop ==
  ASSUME NEW M, NEW K, NEW U, NEW v, NEW a \in M \cup {Nil},
         Shape(M, K, U, v, Nil, Sub(U, a), {}),
         a # Nil => \A m \in M, t \in Sides : v[m][t] # a
  PROVE  Shape(M, K, U, v, a, {}, {})
<1>1. Sub(U, Nil) = {}
  BY DEF Sub
<1>2. Types(M, K, U, v, a, {}, {}) /\ Sets(M, U, v, a, {}, {}) /\ Parents(M, v, a)
  BY <1>1 DEF Shape, Types, Sets, Parents, Carried
<1> QED
  BY <1>2 DEF Shape

(***************************************************************************)
(* A removal: the left subtree of d takes its place, the right one is      *)
(* carried.                                                                *)
(***************************************************************************)
RemovedLinks(v, d) ==
  [n \in Nodes |-> [t \in Sides |-> IF v[n][t] = d THEN v[d]["left"] ELSE v[n][t]]]

RemovedSets(U, d) == [n \in Nodes |-> U[n] \ {d}]

LEMMA RemoveShape ==
  ASSUME NEW M, NEW K, NEW K2, NEW U, NEW v, NEW top, NEW open,
         Shape(M, K, U, v, top, {}, open),
         NEW d \in M, d \notin open,
         \A n \in M \ {d} : K2[n] = K[n],
         \A p \in open : U[d] \subseteq U[p],
         \A n \in M, t \in Sides : v[n][t] = d => n \in open,
         top = d <=> open = {},
         NEW new, new = IF top = d THEN v[d]["left"] ELSE top
  PROVE  Shape(M \ {d}, K2, RemovedSets(U, d), RemovedLinks(v, d), new,
               Sub(RemovedSets(U, d), v[d]["right"]), open)
<1> DEFINE l == v[d]["left"]
           r == v[d]["right"]
           N == M \ {d}
           W == RemovedSets(U, d)
           w == RemovedLinks(v, d)
           X == Sub(W, r)
<1>1. /\ M \subseteq Nodes /\ Nil \notin Nodes /\ open \subseteq M
      /\ \A m \in M, t \in Sides : v[m][t] \in M \cup {Nil}
      /\ l \in M \cup {Nil} /\ r \in M \cup {Nil}
      /\ new = IF top = d THEN l ELSE top
  BY AvlTreeAssumption DEF Shape, Types, Sides
<1>2. l # d /\ r # d /\ d \notin Sub(U, l) /\ d \notin Sub(U, r)
  <2>1. d # Nil
    BY <1>1
  <2> QED
    BY <2>1, Below DEF Sides
<1>3. \A n \in M \cup {Nil} : Sub(W, n) = Sub(U, n) \ {d}
  BY <1>1 DEF Sub, RemovedSets
<1>4. /\ Sub(W, l) = Sub(U, l) /\ Sub(W, r) = Sub(U, r) /\ X = Sub(U, r)
      /\ U[d] = {d} \cup Sub(U, l) \cup Sub(U, r)
  <2>1. U[d] = {d} \cup Sub(U, l) \cup Sub(U, r)
    BY DEF Shape, Sets, Carried
  <2> HIDE DEF l, r, W
  <2>2. Sub(W, l) = Sub(U, l) /\ Sub(W, r) = Sub(U, r)
    BY <1>1, <1>2, <1>3
  <2> QED
    BY <2>1, <2>2
<1>5. \A n \in M, t \in Sides : w[n][t] = IF v[n][t] = d THEN l ELSE v[n][t]
  BY <1>1 DEF RemovedLinks
<1>6. W \in [Nodes -> SUBSET Nodes] /\ \A n \in N : W[n] = U[n] \ {d}
  BY <1>1 DEF RemovedSets, Shape, Types
<1>7. /\ w \in [Nodes -> [Sides -> Nodes \cup {Nil}]]
      /\ \A n \in N, t \in Sides : w[n][t] \in N \cup {Nil}
  <2>1. w \in [Nodes -> [Sides -> Nodes \cup {Nil}]]
    BY <1>1 DEF RemovedLinks, Shape, Types
  <2> QED
    BY <1>1, <1>2, <1>5, <2>1
<1> HIDE DEF w, W, l, r, X
<1>8. Types(N, K2, W, w, new, X, open)
  <2>1. new \in N \cup {Nil} /\ open \subseteq N
    BY <1>1, <1>2 DEF Shape, Types
  <2>2. \A n \in N : W[n] \subseteq N
    BY <1>6 DEF Shape, Types
  <2>3. \A n \in N : K2[n] \in Keys
    BY DEF Shape, Types
  <2> QED
    BY <1>1, <1>6, <1>7, <2>1, <2>2, <2>3 DEF Types
<1>9. Sets(N, W, w, new, X, open)
  <2>1. Sub(W, new) \cup (IF open = {} THEN X ELSE {}) = N
    <3>1. Sub(U, top) = M
      BY DEF Shape, Sets
    <3>2. CASE open = {}
      <4>1. U[d] = M
        BY <1>1, <3>1, <3>2 DEF Sub
      <4> QED
        BY <1>1, <1>2, <1>4, <3>2, <4>1
    <3>3. CASE open # {}
      <4>1. Sub(W, top) = M \ {d}
        BY <1>3, <3>1 DEF Shape, Types
      <4> QED
        BY <3>3, <4>1
    <3> QED
      BY <3>2, <3>3
  <2>2. ASSUME NEW n \in N
        PROVE  W[n] = {n} \cup Sub(W, w[n]["left"]) \cup Sub(W, w[n]["right"]) \cup Carried(X, open, n)
    <3> DEFINE a == v[n]["left"]
               b == v[n]["right"]
    <3>1. U[n] = {n} \cup Sub(U, a) \cup Sub(U, b)
      BY DEF Shape, Sets, Carried
    <3>2. /\ w[n]["left"] = IF a = d THEN l ELSE a
          /\ w[n]["right"] = IF b = d THEN l ELSE b
          /\ a \in M \cup {Nil} /\ b \in M \cup {Nil}
      BY <1>1, <1>5 DEF Sides
    <3>3. a = d \/ b = d => n \in open
      BY DEF Sides
    <3> HIDE DEF a, b
    <3>4. n \in open => U[d] \subseteq U[n]
      OBVIOUS
    <3>5. W[n] = U[n] \ {d} /\ Carried(X, open, n) = IF n \in open THEN X ELSE {}
      BY <1>6 DEF Carried
    <3>6. Sub(U, d) = U[d]
      BY <1>1 DEF Sub
    <3>7. ASSUME NEW c \in M \cup {Nil}
          PROVE  Sub(U, c) \ {d} = Sub(W, IF c = d THEN l ELSE c) \cup (IF c = d THEN X ELSE {})
      <4>1. CASE c = d
        BY <1>2, <1>4, <3>6, <4>1
      <4>2. CASE c # d
        BY <1>3, <4>2
      <4> QED
        BY <4>1, <4>2
    <3>8. /\ Sub(U, a) \ {d} = Sub(W, w[n]["left"]) \cup (IF a = d THEN X ELSE {})
          /\ Sub(U, b) \ {d} = Sub(W, w[n]["right"]) \cup (IF b = d THEN X ELSE {})
      BY <3>2, <3>7
    <3>9. n \in open => X \subseteq U[n] \ {d}
      BY <1>2, <1>4, <3>4
    <3>10. CASE n \in open
      <4>1. Carried(X, open, n) = X
        BY <3>5, <3>10
      <4> QED
        BY <3>1, <3>5, <3>8, <3>9, <3>10, <4>1
    <3>11. CASE n \notin open
      <4>1. a # d /\ b # d /\ Carried(X, open, n) = {}
        BY <3>3, <3>5, <3>11
      <4> QED
        BY <3>1, <3>5, <3>8, <4>1
    <3> QED
      BY <3>10, <3>11
  <2> QED
    BY <2>1, <2>2 DEF Sets
<1>10. Order(N, K2, W, w)
  <2>1. ASSUME NEW n \in N, NEW t \in Sides, NEW x \in Sub(W, w[n][t])
        PROVE  OnSide(K2, x, n, t)
    <3>1. x \in Sub(U, v[n][t])
      <4>1. CASE v[n][t] = d
        <5>1. x \in Sub(U, l)
          BY <1>4, <1>5, <2>1, <4>1
        <5>2. Sub(U, v[n][t]) = U[d]
          BY <1>1, <4>1 DEF Sub
        <5> QED
          BY <1>4, <5>1, <5>2
      <4>2. CASE v[n][t] # d
        BY <1>1, <1>3, <1>5, <2>1, <4>2
      <4> QED
        BY <4>1, <4>2
    <3>2. OnSide(K, x, n, t)
      BY <3>1 DEF Shape, Order
    <3>3. x \in N
      <4>1. w[n][t] \in N \cup {Nil}
        BY <1>7
      <4>2. Sub(W, w[n][t]) \subseteq N
        BY <1>8, <4>1 DEF Types, Sub
      <4> QED
        BY <2>1, <4>2
    <3>4. K2[x] = K[x] /\ K2[n] = K[n]
      BY <3>3
    <3> QED
      BY <3>2, <3>4 DEF OnSide, Lt
  <2> QED
    BY <2>1 DEF Order
<1>11. Parents(N, w, new)
  <2>1. /\ \A n \in M, t \in Sides : v[n][t] # Nil => v[n][t] # top
        /\ \A m, n \in M, a, b \in Sides :
             v[m][a] = v[n][b] /\ v[m][a] # Nil => m = n /\ a = b
    BY DEF Shape, Parents
  <2>2. \A n \in N, t \in Sides : v[n][t] = l => l = Nil
    BY <2>1 DEF l, Sides
  <2>3. l # Nil => l # top
    BY <2>1 DEF l, Sides
  <2>4. ASSUME NEW n \in N, NEW t \in Sides, w[n][t] # Nil
        PROVE  w[n][t] # new
    <3>1. CASE v[n][t] = d
      BY <1>1, <1>5, <2>1, <2>3, <2>4, <3>1
    <3>2. CASE v[n][t] # d
      BY <1>1, <1>5, <2>1, <2>2, <2>4, <3>2
    <3> QED
      BY <3>1, <3>2
  <2>5. ASSUME NEW m \in N, NEW n \in N, NEW a \in Sides, NEW b \in Sides,
               w[m][a] = w[n][b], w[m][a] # Nil
        PROVE  m = n /\ a = b
    <3>1. /\ w[m][a] = IF v[m][a] = d THEN l ELSE v[m][a]
          /\ w[n][b] = IF v[n][b] = d THEN l ELSE v[n][b]
      BY <1>5
    <3>2. v[m][a] = v[n][b] /\ v[m][a] # Nil
      BY <1>1, <2>2, <2>5, <3>1
    <3> QED
      BY <2>1, <3>2
  <2> QED
    BY <2>4, <2>5 DEF Parents
<1> QED
  BY <1>8, <1>9, <1>10, <1>11 DEF Shape, w, W, l, r, X

(***************************************************************************)
(* A new node, that is carried to its place.                               *)
(***************************************************************************)
LEMMA InsertShape ==
  ASSUME NEW M, NEW K, NEW K2, NEW U, NEW v, NEW top,
         Shape(M, K, U, v, top, {}, {}),
         NEW e \in Nodes \ M,
         \A n \in M : K2[n] = K[n], K2[e] \in Keys
  PROVE  Shape(M \cup {e}, K2, [U EXCEPT ![e] = {e}], [v EXCEPT ![e] = NoLinks],
               top, {e}, {})
<1> DEFINE N == M \cup {e}
           W == [U EXCEPT ![e] = {e}]
           w == [v EXCEPT ![e] = NoLinks]
<1>1. /\ M \subseteq Nodes /\ Nil \notin Nodes
      /\ \A m \in M, t \in Sides : v[m][t] \in M \cup {Nil}
      /\ \A m \in M : U[m] \subseteq M
      /\ top \in M \cup {Nil}
  BY AvlTreeAssumption DEF Shape, Types
<1>2. /\ W \in [Nodes -> SUBSET Nodes] /\ w \in [Nodes -> [Sides -> Nodes \cup {Nil}]]
      /\ W[e] = {e} /\ \A t \in Sides : w[e][t] = Nil
      /\ \A m \in M : W[m] = U[m] /\ w[m] = v[m]
  BY <1>1 DEF Shape, Types, NoLinks
<1> HIDE DEF w, W
<1>3. \A m \in M \cup {Nil} : Sub(W, m) = Sub(U, m)
  BY <1>2 DEF Sub
<1>4. Types(N, K2, W, w, top, {e}, {})
  BY <1>1, <1>2 DEF Shape, Types
<1>5. Sets(N, W, w, top, {e}, {})
  <2>1. Sub(W, top) = M
    BY <1>1, <1>3 DEF Shape, Sets
  <2>2. ASSUME NEW m \in M
        PROVE  W[m] = {m} \cup Sub(W, w[m]["left"]) \cup Sub(W, w[m]["right"])
    <3>1. U[m] = {m} \cup Sub(U, v[m]["left"]) \cup Sub(U, v[m]["right"])
      BY DEF Shape, Sets, Carried
    <3>2. v[m]["left"] \in M \cup {Nil} /\ v[m]["right"] \in M \cup {Nil}
      BY <1>1 DEF Sides
    <3> QED
      BY <1>2, <1>3, <3>1, <3>2
  <2>3. W[e] = {e} \cup Sub(W, w[e]["left"]) \cup Sub(W, w[e]["right"])
    BY <1>2 DEF Sub, Sides
  <2> QED
    BY <2>1, <2>2, <2>3 DEF Sets, Carried
<1>6. Order(N, K2, W, w)
  <2>1. ASSUME NEW n \in M, NEW t \in Sides, NEW x \in Sub(W, w[n][t])
        PROVE  OnSide(K2, x, n, t)
    <3>1. x \in Sub(U, v[n][t])
      BY <1>1, <1>2, <1>3, <2>1
    <3>2. OnSide(K, x, n, t) /\ x \in M
      BY <1>1, <3>1 DEF Shape, Order, Sub
    <3> QED
      BY <3>2 DEF OnSide, Lt
  <2>2. \A t \in Sides : Sub(W, w[e][t]) = {}
    BY <1>2 DEF Sub
  <2> QED
    BY <2>1, <2>2 DEF Order
<1>7. Parents(N, w, top)
  BY <1>2 DEF Shape, Parents
<1> QED
  BY <1>4, <1>5, <1>6, <1>7 DEF Shape, w, W

-----------------------------------------------------------------------------
(* Facts about the callers that wait.                                      *)

Waiting(M, K, U, v, lnk, stk, s, X) ==
  /\ stk \in Seq(Frames)
  /\ Shape(M, K, U, v, TopOf(stk, s), X, OpenOf(stk))
  /\ View(M, lnk, stk, s, v)

\* The last caller is the parent of the node that runs.
CallerIsParent(M, v, stk, s) ==
  \A n \in M, t \in Sides : v[n][t] = s =>
    stk # << >> /\ n = stk[Len(stk)].self /\ t = stk[Len(stk)].side

LEMMA ParentOf ==
  ASSUME NEW M, NEW K, NEW U, NEW v, NEW lnk, NEW stk, NEW s \in M, NEW X,
         Waiting(M, K, U, v, lnk, stk, s, X)
  PROVE  CallerIsParent(M, v, stk, s)
<1> SUFFICES ASSUME NEW n \in M, NEW t \in Sides, v[n][t] = s
             PROVE  stk # << >> /\ n = stk[Len(stk)].self /\ t = stk[Len(stk)].side
  BY DEF CallerIsParent
<1>1. s # Nil
  BY AvlTreeAssumption DEF Waiting, Shape, Types
<1>2. stk # << >>
  BY <1>1 DEF Waiting, Shape, Parents, TopOf
<1> DEFINE f == stk[Len(stk)]
<1>3. Len(stk) \in 1 .. Len(stk) /\ Len(stk) \in DOMAIN stk /\ f \in Frames
  BY <1>2 DEF Waiting
<1>4. f.self \in M /\ f.side \in Sides /\ v[f.self][f.side] = s
  <2>1. f.self \in OpenOf(stk)
    BY <1>3 DEF OpenOf
  <2>2. f.side \in Sides
    BY <1>3 DEF Frames
  <2> QED
    BY <1>3, <2>1, <2>2 DEF Waiting, View, Shape, Types
<1> QED
  BY <1>1, <1>2, <1>4 DEF Waiting, Shape, Parents

\* The links of the node that runs, and of its children, are up to date.
LEMMA Current ==
  ASSUME NEW M, NEW K, NEW U, NEW v, NEW lnk, NEW stk, NEW s, NEW X,
         Waiting(M, K, U, v, lnk, stk, s, X),
         NEW n \in M \ OpenOf(stk), NEW t \in Sides
  PROVE  lnk[n][t] = v[n][t]
<1>1. \A i \in 1 .. Len(stk) : stk[i].self # n
  BY DEF OpenOf, Waiting
<1> QED
  BY <1>1 DEF Waiting, View

LEMMA ChildWaitsNot ==
  ASSUME NEW M, NEW K, NEW U, NEW v, NEW lnk, NEW stk, NEW s \in M, NEW X,
         Waiting(M, K, U, v, lnk, stk, s, X), NEW t \in Sides
  PROVE  v[s][t] \notin OpenOf(stk) \cup {s}
<1>1. s \in M /\ s # Nil /\ s \notin OpenOf(stk) /\ Nil \notin M
  BY AvlTreeAssumption DEF Waiting, Shape, Types, View
<1>2. v[s][t] # s
  <2>1. v[s][t] # Nil => v[s][t] # s
    BY Below DEF Waiting
  <2> QED
    BY <1>1, <2>1
<1>3. ASSUME NEW i \in DOMAIN stk, stk[i].self = v[s][t]
      PROVE  FALSE
  <2>1. stk[i].self \in OpenOf(stk)
    BY DEF OpenOf
  <2>2. v[s][t] # Nil
    BY <1>1, <1>3, <2>1 DEF Waiting, Shape, Types
  <2>3. CASE i = 1
    <3>1. TopOf(stk, s) = stk[1].self
      BY <1>3 DEF TopOf, Waiting
    <3> QED
      BY <1>3, <2>2, <2>3, <3>1 DEF Waiting, Shape, Parents
  <2>4. CASE i # 1
    <3>1. i - 1 \in 1 .. Len(stk) /\ i - 1 # Len(stk) /\ i - 1 \in DOMAIN stk /\ (i - 1) + 1 = i
      BY <1>3, <2>4 DEF Waiting
    <3> DEFINE p == stk[i - 1]
    <3>2. v[p.self][p.side] = stk[(i - 1) + 1].self
      BY <3>1 DEF Waiting, View
    <3>3. p.self \in OpenOf(stk) /\ p.side \in Sides
      <4>1. p \in Frames
        BY <3>1 DEF Waiting
      <4>2. p.side \in Sides
        BY <4>1 DEF Frames
      <4> QED
        BY <3>1, <4>2 DEF OpenOf
    <3>4. p.self \in M
      BY <3>3 DEF Waiting, Shape, Types
    <3>5. v[p.self][p.side] = v[s][t]
      BY <1>3, <3>1, <3>2
    <3>6. p.self = s
      BY <2>2, <3>3, <3>4, <3>5 DEF Waiting, Shape, Parents
    <3> QED
      BY <1>1, <3>3, <3>6
  <2> QED
    BY <2>3, <2>4
<1> QED
  BY <1>2, <1>3 DEF OpenOf

\* The node that runs calls itself for one of its children.
LEMMA PushOpen ==
  ASSUME NEW stk \in Seq(Frames), NEW f
  PROVE  OpenOf(Append(stk, f)) = OpenOf(stk) \cup {f.self}
<1>1. /\ DOMAIN stk = 1 .. Len(stk) /\ Len(stk) \in Nat
      /\ DOMAIN Append(stk, f) = 1 .. Len(stk) + 1
      /\ \A i \in 1 .. Len(stk) : Append(stk, f)[i] = stk[i]
      /\ Append(stk, f)[Len(stk) + 1] = f
  OBVIOUS
<1> QED
  BY <1>1 DEF OpenOf

LEMMA PushTop ==
  ASSUME NEW stk \in Seq(Frames), NEW f, NEW s
  PROVE  TopOf(Append(stk, f), s) = TopOf(stk, f.self)
<1>1. /\ Append(stk, f) # << >>
      /\ stk = << >> => Append(stk, f)[1] = f
      /\ stk # << >> => Append(stk, f)[1] = stk[1]
  OBVIOUS
<1> QED
  BY <1>1 DEF TopOf

LEMMA PushView ==
  ASSUME NEW M, NEW K, NEW U, NEW v, NEW lnk, NEW stk, NEW s \in M, NEW X,
         Waiting(M, K, U, v, lnk, stk, s, X), NEW t \in Sides,
         NEW f, f.self = s, f.side = t, NEW stk2, stk2 = Append(stk, f)
  PROVE  View(M, lnk, stk2, v[s][t], v)
<1>1. s \notin OpenOf(stk)
  BY DEF Waiting, View
<1>3. /\ stk \in Seq(Frames)
      /\ Len(stk2) = Len(stk) + 1
      /\ Len(stk) \in Nat
      /\ \A i \in 1 .. Len(stk) : stk2[i] = stk[i]
      /\ stk2[Len(stk) + 1].self = s
      /\ stk2[Len(stk) + 1].side = t
      /\ DOMAIN stk = 1 .. Len(stk)
      /\ DOMAIN stk2 = 1 .. Len(stk) + 1
  BY DEF Waiting
<1>4. OpenOf(stk2) = OpenOf(stk) \cup {s}
  BY <1>3, PushOpen
<1> DEFINE k == Len(stk)
<1>7. /\ \A i \in 1 .. k :
           v[stk[i].self][stk[i].side] = IF i = k THEN s ELSE stk[i + 1].self
      /\ \A i, j \in 1 .. k : i # j => stk[i].self # stk[j].self
  BY DEF Waiting, View
<1>8. /\ Len(stk2) = k + 1 /\ k \in Nat
      /\ \A i \in 1 .. k : stk2[i] = stk[i]
      /\ stk2[k + 1].self = s /\ stk2[k + 1].side = t
  BY <1>3
<1> HIDE DEF k
<1>6. View(M, lnk, stk2, v[s][t], v)
  <2>1. ASSUME NEW i \in 1 .. Len(stk2)
        PROVE  v[stk2[i].self][stk2[i].side] =
                 IF i = Len(stk2) THEN v[s][t] ELSE stk2[i + 1].self
    <3>1. CASE i = k + 1
      BY <1>8, <3>1
    <3>2. CASE i = k /\ k # 0
      <4>1. v[stk[i].self][stk[i].side] = s
        BY <1>7, <1>8, <3>2
      <4>2. i # Len(stk2) /\ stk2[i] = stk[i] /\ stk2[i + 1].self = s
        BY <1>8, <3>2
      <4> QED
        BY <4>1, <4>2
    <3>3. CASE i < k
      <4>1. i \in 1 .. k /\ i + 1 \in 1 .. k /\ i # k /\ i # Len(stk2)
        BY <1>8, <3>3
      <4>2. v[stk[i].self][stk[i].side] = stk[i + 1].self
        BY <1>7, <4>1
      <4>3. stk2[i] = stk[i] /\ stk2[i + 1] = stk[i + 1]
        BY <1>8, <4>1
      <4> QED
        BY <4>1, <4>2, <4>3
    <3>4. i = k + 1 \/ (i = k /\ k # 0) \/ i < k
      BY <1>8
    <3> QED
      BY <3>1, <3>2, <3>3, <3>4
  <2>2. ASSUME NEW n \in M, NEW d \in Sides,
               \A i \in 1 .. Len(stk2) : ~(stk2[i].self = n /\ stk2[i].side = d)
        PROVE  v[n][d] = lnk[n][d]
    <3>1. \A i \in 1 .. Len(stk) : ~(stk[i].self = n /\ stk[i].side = d)
      BY <1>3, <2>2
    <3> QED
      BY <3>1 DEF Waiting, View
  <2>3. ASSUME NEW i \in 1 .. Len(stk2), NEW j \in 1 .. Len(stk2), i # j
        PROVE  stk2[i].self # stk2[j].self
    <3>1. \A l \in 1 .. Len(stk) : stk[l].self # s
      BY <1>1, <1>3 DEF OpenOf
    <3>2. CASE i \in 1 .. k /\ j \in 1 .. k
      BY <1>7, <1>8, <2>3, <3>2
    <3>3. \A l \in 1 .. k : stk2[l].self # s
      BY <1>8, <3>1 DEF k
    <3>4. CASE i = k + 1
      BY <1>8, <2>3, <3>3, <3>4
    <3>5. CASE j = k + 1
      BY <1>8, <2>3, <3>3, <3>5
    <3> QED
      BY <1>8, <3>2, <3>4, <3>5
  <2>4. v[s][t] \notin OpenOf(stk2)
    BY <1>4, ChildWaitsNot
  <2> QED
    BY <2>1, <2>2, <2>3, <2>4 DEF View
<1> QED
  BY <1>6

-----------------------------------------------------------------------------
(* Every step keeps the types.                                             *)

LEMMA LinkTypes ==
  ASSUME TypeOK, NEW n \in Nodes, NEW s \in Sides
  PROVE  link[n][s] \in Nodes \cup {Nil}
BY DEF TypeOK

LEMMA PushTypes ==
  ASSUME TypeOK, NEW n \in Nodes, NEW s \in Sides,
         NEW next \in {"balance", "rotl", "rotr", "visit"}, Push(n, s, next)
  PROVE  stack' \in Seq(Frames)
<1>1. [self |-> n, side |-> s, next |-> next] \in Frames
  BY DEF Frames
<1> QED
  BY <1>1 DEF TypeOK, Push

LEMMA PopTypes ==
  ASSUME TypeOK, stack # << >>
  PROVE  /\ stack[Len(stack)] \in Frames
         /\ stack[Len(stack)].self \in Nodes /\ stack[Len(stack)].side \in Sides
         /\ stack[Len(stack)].next \in {"balance", "rotl", "rotr", "visit"}
         /\ SubSeq(stack, 1, Len(stack) - 1) \in Seq(Frames)
<1>1. stack[Len(stack)] \in Frames /\ SubSeq(stack, 1, Len(stack) - 1) \in Seq(Frames)
  BY DEF TypeOK
<1> QED
  BY <1>1 DEF Frames

LEMMA StepTypes == TypeOK /\ Control /\ Step => TypeOK'
<1> SUFFICES ASSUME TypeOK, Control, Step PROVE TypeOK'
  OBVIOUS
<1> USE DEF Functions
<1>1. ASSUME Descend PROVE TypeOK'
  <2>1. self \in Nodes /\ SideOf(self) \in Sides /\ pc \in {"insert", "remove"}
    BY <1>1 DEF Descend, SideOf, Sides, TypeOK
  <2>2. link[self][SideOf(self)] \in Nodes \cup {Nil}
    BY <2>1, LinkTypes
  <2>3. stack' \in Seq(Frames)
    BY <1>1, <2>1, PushTypes DEF Descend
  <2> QED
    BY <1>1, <2>1, <2>2, <2>3 DEF Descend, TypeOK, Run, memory
<1>2. ASSUME Place PROVE TypeOK'
  BY <1>2 DEF Place, Return, TypeOK, Run, memory
<1>3. ASSUME RemoveSelf PROVE TypeOK'
  <2>1. self \in Nodes /\ "left" \in Sides /\ "right" \in Sides
    BY <1>3 DEF RemoveSelf, Sides, TypeOK
  <2>2. link[self]["left"] \in Nodes \cup {Nil} /\ link[self]["right"] \in Nodes \cup {Nil}
    BY <2>1, LinkTypes
  <2>3. NoLinks \in [Sides -> Nodes \cup {Nil}]
    BY DEF NoLinks
  <2> QED
    BY <1>3, <2>1, <2>2, <2>3 DEF RemoveSelf, TypeOK, Run
<1>4. ASSUME TREE_MOVE_RIGHT PROVE TypeOK'
  <2>1. self \in Nodes /\ "right" \in Sides
    BY <1>4 DEF TREE_MOVE_RIGHT, Sides, TypeOK
  <2>2. link[self]["right"] \in Nodes \cup {Nil}
    BY <2>1, LinkTypes
  <2>3. stack' \in Seq(Frames)
    BY <1>4, <2>1, PushTypes DEF TREE_MOVE_RIGHT
  <2> QED
    BY <1>4, <2>1, <2>2, <2>3 DEF TREE_MOVE_RIGHT, TypeOK, Run, memory
<1>5. ASSUME NEW side \in Sides, self \in members, link[self][side] \in members, Rotate(side)
      PROVE  TypeOK'
  <2>1. self \in Nodes /\ link[self][side] \in Nodes /\ Other(side) \in Sides
    BY <1>5, SidesDiffer DEF TypeOK
  <2>2. link[link[self][side]][Other(side)] \in Nodes \cup {Nil}
    BY <2>1, LinkTypes
  <2>3. stack' \in Seq(Frames)
    BY <1>5, <2>1, PushTypes DEF Rotate
  <2> QED
    BY <1>5, <2>1, <2>2, <2>3 DEF Rotate, TypeOK, Run
<1>6. ASSUME TREE_ROTL \/ TREE_ROTR PROVE TypeOK'
  BY <1>5, <1>6 DEF TREE_ROTL, TREE_ROTR, Control, Sides
<1>7. ASSUME NEW side \in Sides, NEW lean \in {-1, 1}, NEW rotate \in {"rotl", "rotr"},
             NEW back \in {"rotl", "rotr"}, BalanceSide(side, lean, rotate, back)
      PROVE  TypeOK'
  <2>1. self \in Nodes
    BY <1>7 DEF BalanceSide, Control, TypeOK
  <2>2. link[self][side] \in Nodes \cup {Nil}
    BY <2>1, LinkTypes
  <2>3. /\ UNCHANGED <<root, memory, visited>>
        /\ \/ Run(rotate, self, arg, want) /\ UNCHANGED stack
           \/ Push(self, side, rotate) /\ Run(back, link[self][side], arg, want)
    BY <1>7 DEF BalanceSide
  <2>4. stack' \in Seq(Frames)
    <3>1. ASSUME Push(self, side, rotate) PROVE stack' \in Seq(Frames)
      BY <2>1, <3>1, PushTypes
    <3> QED
      BY <2>3, <3>1 DEF TypeOK
  <2> QED
    BY <2>1, <2>2, <2>3, <2>4 DEF TypeOK, Run, memory
<1>8. ASSUME Balanced PROVE TypeOK'
  <2>1. self \in Nodes /\ link[self]["left"] \in Nodes \cup {Nil}
        /\ link[self]["right"] \in Nodes \cup {Nil}
    BY <1>8, LinkTypes DEF Balanced, Control, TypeOK, Sides
  <2>2. HeightOf(link[self]["left"]) \in Nat /\ HeightOf(link[self]["right"]) \in Nat
    BY <2>1 DEF HeightOf, TypeOK
  <2> DEFINE h == LET l == HeightOf(link[self]["left"])
                      r == HeightOf(link[self]["right"])
                  IN  (IF l > r THEN l ELSE r) + 1
  <2>3. h \in Nat
    BY <2>2
  <2>4. height' = [height EXCEPT ![self] = h]
    BY <1>8 DEF Balanced
  <2> HIDE DEF h
  <2>5. height' \in [Nodes -> Nat]
    BY <2>3, <2>4 DEF TypeOK
  <2> QED
    BY <1>8, <2>1, <2>5 DEF Balanced, Return, Run, TypeOK
<1>9. ASSUME TREE_BALANCE PROVE TypeOK'
  BY <1>7, <1>8, <1>9 DEF TREE_BALANCE, Sides
<1>10. ASSUME Resume PROVE TypeOK'
  <2> DEFINE f == stack[Len(stack)]
  <2>1. f.self \in Nodes /\ f.side \in Sides /\ f.next \in {"balance", "rotl", "rotr", "visit"}
        /\ SubSeq(stack, 1, Len(stack) - 1) \in Seq(Frames)
    BY <1>10, PopTypes DEF Resume
  <2>2. f.next # "visit"
    <3>1. Len(stack) \in DOMAIN stack /\ pc # "apply"
      BY <1>10 DEF Resume, TypeOK
    <3> QED
      BY <3>1 DEF Control
  <2>3. link' = [link EXCEPT ![f.self][f.side] = self] /\ Run(f.next, f.self, arg, want)
    BY <1>10 DEF Resume
  <2> HIDE DEF f
  <2>4. link' \in [Nodes -> [Sides -> Nodes \cup {Nil}]]
    BY <2>1, <2>3 DEF TypeOK
  <2> QED
    BY <1>10, <2>1, <2>2, <2>3, <2>4 DEF Resume, Run, TypeOK
<1>11. ASSUME Finish PROVE TypeOK'
  BY <1>11 DEF Finish, Run, TypeOK, memory
<1>12. ASSUME Find PROVE TypeOK'
  <2>1. self # Nil => self \in Nodes /\ SideOf(self) \in Sides
    BY DEF SideOf, Sides, TypeOK
  <2>2. self # Nil => link[self][SideOf(self)] \in Nodes \cup {Nil}
    BY <2>1, LinkTypes
  <2> QED
    BY <1>12, <2>1, <2>2 DEF Find, TypeOK, Run, memory
<1>13. ASSUME ApplyLeft PROVE TypeOK'
  <2>1. self \in Nodes /\ "left" \in Sides
    BY <1>13 DEF ApplyLeft, Sides, TypeOK
  <2>2. link[self]["left"] \in Nodes \cup {Nil}
    BY <2>1, LinkTypes
  <2>3. stack' \in Seq(Frames)
    BY <1>13, <2>1, PushTypes DEF ApplyLeft
  <2> QED
    BY <1>13, <2>1, <2>2, <2>3 DEF ApplyLeft, TypeOK, Run, memory
<1>14. ASSUME ApplyVisit PROVE TypeOK'
  <2> DEFINE f == stack[Len(stack)]
  <2>1. f.self \in Nodes /\ SubSeq(stack, 1, Len(stack) - 1) \in Seq(Frames)
    BY <1>14, PopTypes DEF ApplyVisit
  <2>2. link[f.self]["right"] \in Nodes \cup {Nil}
    BY <2>1, LinkTypes DEF Sides
  <2>3. Run(pc, link[f.self]["right"], arg, want) /\ visited' = Append(visited, f.self)
    BY <1>14 DEF ApplyVisit
  <2> HIDE DEF f
  <2>4. visited' \in Seq(Nodes)
    BY <2>1, <2>3 DEF TypeOK
  <2> QED
    BY <1>14, <2>1, <2>2, <2>3, <2>4 DEF ApplyVisit, Run, TypeOK, memory
<1>15. ASSUME ApplyEnd PROVE TypeOK'
  BY <1>15 DEF ApplyEnd, Run, TypeOK, memory
<1> QED
  BY <1>1, <1>2, <1>3, <1>4, <1>6, <1>9, <1>10, <1>11, <1>12, <1>13, <1>14, <1>15 DEF Step

-----------------------------------------------------------------------------
(* Every step keeps the expectations of the activations.                   *)

\* What the shape of the tree says of the links a step follows.
Linked ==
  /\ self \in members => \A s \in Sides :
       /\ link[self][s] \in (members \ {self}) \cup {Nil}
       /\ link[self][s] # Nil => \A t \in Sides : link[link[self][s]][t] \in members \cup {Nil}
  /\ Mutating => self \notin OpenOf(stack)
  /\ pc \in {"insert", "move_right"} => arg \in members \cup {Nil}
  /\ ~Mutating => \A n \in members, s \in Sides : link[n][s] \in members \cup {Nil}

\* TREE_BALANCE rotates to the side of a child that is there.
LEMMA HigherChild ==
  ASSUME TypeOK, NEW n \in Nodes,
         NEW side \in Sides, NEW lean, lean = IF side = "left" THEN 1 ELSE -1
  PROVE  /\ lean * TREE_DELTA(n) > 0 => link[n][side] # Nil
         /\ lean * TREE_DELTA(n) < 0 => link[n][Other(side)] # Nil
<1> DEFINE l == HeightOf(link[n]["left"])
           r == HeightOf(link[n]["right"])
<1>1. link[n]["left"] \in Nodes \cup {Nil} /\ link[n]["right"] \in Nodes \cup {Nil}
  BY LinkTypes DEF Sides
<1>2. /\ l \in Nat /\ (link[n]["left"] = Nil => l = 0)
      /\ r \in Nat /\ (link[n]["right"] = Nil => r = 0)
  BY <1>1 DEF HeightOf, TypeOK
<1>3. TREE_DELTA(n) = l - r
  BY DEF TREE_DELTA
<1> HIDE DEF l, r
<1>4. CASE side = "left"
  BY <1>2, <1>3, <1>4 DEF Other
<1>5. CASE side = "right"
  BY <1>2, <1>3, <1>5 DEF Other
<1> QED
  BY <1>4, <1>5 DEF Sides

\* The expectations when one more activation waits.
LEMMA PushControl ==
  ASSUME TypeOK, Control, UNCHANGED memory, self \in members,
         NEW s \in Sides, NEW next \in {"balance", "rotl", "rotr", "visit"}, Push(self, s, next),
         self' \in members \cup {Nil},
         pc' = "apply" <=> pc = "apply", pc' = "apply" <=> next = "visit",
         next = "rotl" => s = "right", next = "rotr" => s = "left",
         pc \in {"balance"} \/ next \notin {"rotl", "rotr"},
         pc \in {"rotl", "rotr", "balance", "return"} =>
           pc' \in {"rotl", "rotr", "balance", "return"} /\ self' # Nil
  PROVE  \A i \in DOMAIN stack' :
           /\ stack'[i].self \in members'
           /\ pc' = "apply" <=> stack'[i].next = "visit"
           /\ stack'[i].next = "rotl" => stack'[i].side = "right"
           /\ stack'[i].next = "rotr" => stack'[i].side = "left"
           /\ stack'[i].next \in {"rotl", "rotr"} =>
                pc' \in {"rotl", "rotr", "balance", "return"} /\ self' # Nil
<1> SUFFICES ASSUME NEW i \in DOMAIN stack'
             PROVE  /\ stack'[i].self \in members'
                    /\ pc' = "apply" <=> stack'[i].next = "visit"
                    /\ stack'[i].next = "rotl" => stack'[i].side = "right"
                    /\ stack'[i].next = "rotr" => stack'[i].side = "left"
                    /\ stack'[i].next \in {"rotl", "rotr"} =>
                         pc' \in {"rotl", "rotr", "balance", "return"} /\ self' # Nil
  OBVIOUS
<1>1. /\ stack \in Seq(Frames) /\ Len(stack) \in Nat
      /\ stack' = Append(stack, [self |-> self, side |-> s, next |-> next])
      /\ members' = members
  BY DEF TypeOK, Push, memory
<1>2. CASE i \in DOMAIN stack
  <2>1. stack'[i] = stack[i]
    BY <1>1, <1>2
  <2> QED
    BY <1>1, <1>2, <2>1 DEF Control
<1>3. CASE i = Len(stack) + 1
  <2>1. stack'[i] = [self |-> self, side |-> s, next |-> next]
    BY <1>1, <1>3
  <2>2. stack'[i].self = self /\ stack'[i].side = s /\ stack'[i].next = next
    BY <2>1
  <2> QED
    BY <1>1, <2>2
<1> QED
  BY <1>1, <1>2, <1>3

LEMMA StepControl == TypeOK /\ Control /\ Linked /\ Step => Control'
<1> SUFFICES ASSUME TypeOK, Control, Linked, Step PROVE Control'
  OBVIOUS
<1> DEFINE Frame(i) ==
      /\ stack[i].self \in members
      /\ pc = "apply" <=> stack[i].next = "visit"
      /\ stack[i].next = "rotl" => stack[i].side = "right"
      /\ stack[i].next = "rotr" => stack[i].side = "left"
      /\ stack[i].next \in {"rotl", "rotr"} =>
           pc \in {"rotl", "rotr", "balance", "return"} /\ self # Nil
<1>0. /\ \A i \in DOMAIN stack : Frame(i)
      /\ \A n \in Nodes \ members : height[n] = 0 /\ \A s \in Sides : link[n][s] = Nil
      /\ members \subseteq Nodes /\ Nil \notin Nodes
      /\ self \in members \cup {Nil}
  BY AvlTreeAssumption DEF Control, TypeOK
<1>1. ASSUME Descend PROVE Control'
  <2>1. self \in members /\ SideOf(self) \in Sides /\ link[self][SideOf(self)] \in members \cup {Nil}
    BY <1>1 DEF Descend, Control, Linked, SideOf, Sides
  <2>2. pc' = pc /\ self' = link[self][SideOf(self)] /\ want' = want
    BY <1>1 DEF Descend, Run
  <2>3. UNCHANGED memory /\ Push(self, SideOf(self), "balance") /\ pc \in {"insert", "remove"}
    BY <1>1 DEF Descend
  <2>4. (\A i \in DOMAIN stack : Frame(i))'
    BY <2>1, <2>2, <2>3, PushControl
  <2> QED
    BY <1>0, <2>1, <2>2, <2>3, <2>4 DEF Control, memory
<1>2. ASSUME Place PROVE Control'
  <2>1. pc \in {"insert", "move_right", "remove"} /\ pc' = "return" /\ self' \in members \cup {Nil}
    BY <1>2 DEF Place, Return, Run, Linked
  <2>2. UNCHANGED <<memory, stack>>
    BY <1>2 DEF Place
  <2>3. (\A i \in DOMAIN stack : Frame(i))'
    BY <1>0, <2>1, <2>2 DEF memory
  <2> QED
    BY <1>0, <2>1, <2>2, <2>3 DEF Control, memory
<1>3. ASSUME RemoveSelf PROVE Control'
  <2>1. self \in members /\ link[self]["left"] \in (members \ {self}) \cup {Nil}
    BY <1>0, <1>3 DEF RemoveSelf, Linked, Sides
  <2>2. /\ pc = "remove" /\ pc' = "move_right" /\ self' = link[self]["left"]
        /\ members' = members \ {self} /\ stack' = stack
        /\ link' = [link EXCEPT ![self] = NoLinks] /\ height' = [height EXCEPT ![self] = 0]
    BY <1>3 DEF RemoveSelf, Run
  <2>3. \A i \in DOMAIN stack : stack[i].self # self
    BY <2>2 DEF Linked, Mutating, OpenOf
  <2>4. (\A i \in DOMAIN stack : Frame(i))'
    BY <1>0, <2>2, <2>3
  <2>5. \A n \in Nodes \ members' : height'[n] = 0 /\ \A s \in Sides : link'[n][s] = Nil
    BY <1>0, <2>1, <2>2 DEF TypeOK, NoLinks
  <2> QED
    BY <2>1, <2>2, <2>4, <2>5 DEF Control
<1>4. ASSUME TREE_MOVE_RIGHT PROVE Control'
  <2>1. self \in members /\ "right" \in Sides /\ link[self]["right"] \in members \cup {Nil}
    BY <1>0, <1>4 DEF TREE_MOVE_RIGHT, Linked, Sides
  <2>2. pc' = "move_right" /\ pc = "move_right" /\ self' = link[self]["right"]
    BY <1>4 DEF TREE_MOVE_RIGHT, Run
  <2>3. UNCHANGED memory /\ Push(self, "right", "balance")
    BY <1>4 DEF TREE_MOVE_RIGHT
  <2>4. (\A i \in DOMAIN stack : Frame(i))'
    BY <2>1, <2>2, <2>3, PushControl
  <2> QED
    BY <1>0, <2>1, <2>2, <2>3, <2>4 DEF Control, memory
<1>5. ASSUME TREE_ROTL \/ TREE_ROTR PROVE Control'
  <2>1. PICK side \in Sides : Rotate(side) /\ link[self][side] \in members
    BY <1>5 DEF TREE_ROTL, TREE_ROTR, Control, Sides
  <2> DEFINE c == link[self][side]
  <2>2. self \in members /\ pc \in {"rotl", "rotr"}
    BY <1>5 DEF TREE_ROTL, TREE_ROTR, Control
  <2>3. /\ pc' = "balance" /\ self' = self /\ members' = members /\ height' = height
        /\ link' = [link EXCEPT ![self][side] = link[c][Other(side)]]
        /\ stack' = Append(stack, [self |-> c, side |-> Other(side), next |-> "balance"])
    BY <2>1 DEF Rotate, Run, Push
  <2>4. (\A i \in DOMAIN stack : Frame(i))'
    <3> SUFFICES ASSUME NEW i \in DOMAIN stack' PROVE Frame(i)'
      OBVIOUS
    <3> HIDE DEF c
    <3>1. stack \in Seq(Frames)
      BY DEF TypeOK
    <3>2. CASE i \in DOMAIN stack
      <4>1. stack'[i] = stack[i]
        BY <2>3, <3>1, <3>2
      <4> QED
        BY <1>0, <2>2, <2>3, <3>2, <4>1
    <3>3. CASE i = Len(stack) + 1
      <4>1. stack'[i] = [self |-> c, side |-> Other(side), next |-> "balance"]
        BY <2>3, <3>1, <3>3
      <4>2. stack'[i].self = c /\ stack'[i].next = "balance"
        BY <4>1
      <4> QED
        BY <2>1, <2>3, <4>2 DEF c
    <3> QED
      BY <2>3, <3>1, <3>2, <3>3
  <2>5. \A n \in Nodes \ members : link'[n] = link[n]
    BY <2>2, <2>3 DEF TypeOK
  <2> QED
    BY <1>0, <2>2, <2>3, <2>4, <2>5 DEF Control
<1>6. ASSUME NEW side \in Sides, NEW lean, lean = IF side = "left" THEN 1 ELSE -1,
             NEW rotate, rotate = IF side = "left" THEN "rotr" ELSE "rotl",
             NEW back, back = IF side = "left" THEN "rotl" ELSE "rotr",
             BalanceSide(side, lean, rotate, back)
      PROVE  Control'
  <2> DEFINE c == link[self][side]
  <2>1. /\ pc = "balance" /\ lean * TREE_DELTA(self) > 1 /\ UNCHANGED memory
        /\ \/ Run(rotate, self, arg, want) /\ UNCHANGED stack
           \/ /\ lean * TREE_DELTA(c) < 0
              /\ Push(self, side, rotate) /\ Run(back, c, arg, want)
    BY <1>6 DEF BalanceSide, TREE_DELTA_MAX
  <2>2. self \in members /\ self \in Nodes
    BY <1>0, <2>1 DEF Control
  <2>3. c \in members
    <3>1. HeightOf(link[self]["left"]) \in Nat /\ HeightOf(link[self]["right"]) \in Nat
      BY <2>2, LinkTypes DEF HeightOf, TypeOK, Sides
    <3>2. lean * TREE_DELTA(self) \in Int
      BY <1>6, <3>1 DEF TREE_DELTA
    <3>3. lean * TREE_DELTA(self) > 0
      BY <2>1, <3>2
    <3>4. c # Nil
      BY <1>6, <2>2, <3>3, HigherChild
    <3> QED
      BY <2>2, <3>4 DEF Linked
  <2>4. /\ rotate \in {"rotl", "rotr"} /\ back \in {"rotl", "rotr"}
        /\ rotate = "rotl" <=> side = "right"
        /\ rotate = "rotr" <=> side = "left"
        /\ back = "rotl" <=> side = "left"
        /\ back = "rotr" <=> side = "right"
    BY <1>6 DEF Sides
  <2> HIDE DEF c
  <2>5. ASSUME Run(rotate, self, arg, want), UNCHANGED stack
        PROVE  Control'
    <3>1. pc' = rotate /\ self' = self
      BY <2>5 DEF Run
    <3>2. (\A i \in DOMAIN stack : Frame(i))'
      BY <1>0, <2>1, <2>2, <2>4, <2>5, <3>1 DEF memory
    <3>3. link[self][side] \in members
      BY <2>3 DEF c
    <3>4. /\ rotate = "rotl" => link[self]["right"] \in members
          /\ rotate = "rotr" => link[self]["left"] \in members
      BY <2>4, <3>3
    <3> QED
      BY <1>0, <2>1, <2>2, <2>4, <3>1, <3>2, <3>4, <2>5 DEF Control, memory
  <2>6. ASSUME lean * TREE_DELTA(c) < 0, Push(self, side, rotate), Run(back, c, arg, want)
        PROVE  Control'
    <3>1. pc' = back /\ self' = c /\ c # Nil /\ c \in Nodes
      BY <1>0, <2>3, <2>6 DEF Run
    <3>2. (\A i \in DOMAIN stack : Frame(i))'
      BY <2>1, <2>2, <2>3, <2>4, <2>6, <3>1, PushControl
    <3>3. link[c][Other(side)] \in members
      <4>1. link[c][Other(side)] # Nil
        BY <1>6, <2>6, <3>1, HigherChild
      <4> QED
        BY <2>2, <3>1, <4>1, SidesDiffer DEF c, Linked
    <3>4. /\ back = "rotl" => link[c]["right"] \in members
          /\ back = "rotr" => link[c]["left"] \in members
      BY <2>4, <3>3 DEF Other
    <3> QED
      BY <1>0, <2>1, <2>3, <2>4, <3>1, <3>2, <3>4 DEF Control, memory
  <2> QED
    BY <2>1, <2>5, <2>6
<1>7. ASSUME Balanced PROVE Control'
  <2>1. self \in members
    BY <1>7 DEF Balanced, Control
  <2>2. /\ pc' = "return" /\ self' = self /\ UNCHANGED <<link, stack, members>>
        /\ pc = "balance"
        /\ \A n \in Nodes \ members : height'[n] = height[n]
    BY <1>7, <2>1 DEF Balanced, Return, Run, TypeOK
  <2>3. (\A i \in DOMAIN stack : Frame(i))'
    BY <1>0, <2>1, <2>2
  <2> QED
    BY <1>0, <2>1, <2>2, <2>3 DEF Control
<1>8. ASSUME TREE_BALANCE PROVE Control'
  BY <1>6, <1>7, <1>8 DEF TREE_BALANCE, Sides
<1>9. ASSUME Resume PROVE Control'
  <2> DEFINE f == stack[Len(stack)]
  <2>1. /\ f.self \in Nodes /\ f.side \in Sides /\ f.next \in {"balance", "rotl", "rotr", "visit"}
        /\ Len(stack) \in DOMAIN stack /\ stack \in Seq(Frames)
    BY <1>9, PopTypes DEF Resume, TypeOK
  <2>2. Frame(Len(stack))
    BY <1>0, <2>1
  <2>3. /\ pc = "return" /\ pc' = f.next /\ self' = f.self
        /\ link' = [link EXCEPT ![f.self][f.side] = self]
        /\ stack' = SubSeq(stack, 1, Len(stack) - 1)
        /\ UNCHANGED <<height, members>>
    BY <1>9 DEF Resume, Run
  <2>4. \A i \in DOMAIN stack' : i \in DOMAIN stack /\ stack'[i] = stack[i]
    BY <2>1, <2>3
  <2>5. f.self \in members /\ f.next \in {"balance", "rotl", "rotr"}
    BY <2>1, <2>2, <2>3
  <2>6. (\A i \in DOMAIN stack : Frame(i))'
    BY <1>0, <2>3, <2>4, <2>5
  <2>7. link'[f.self][f.side] = self /\ \A n \in Nodes \ members : link'[n] = link[n]
    BY <2>1, <2>3, <2>5 DEF TypeOK
  <2>8. f.next = "rotl" => link'[f.self]["right"] \in members
    BY <1>0, <2>2, <2>7
  <2>9. f.next = "rotr" => link'[f.self]["left"] \in members
    BY <1>0, <2>2, <2>7
  <2> HIDE DEF f
  <2> QED
    BY <1>0, <2>3, <2>5, <2>6, <2>7, <2>8, <2>9 DEF Control
<1>10. ASSUME Finish PROVE Control'
  BY <1>0, <1>10 DEF Finish, Run, Control, memory
<1>11. ASSUME Find PROVE Control'
  <2>1. pc = "find" /\ stack = << >> /\ want \in Keys
    BY <1>11 DEF Find, Control
  <2>2. self # Nil => link[self][SideOf(self)] \in members \cup {Nil}
    BY <1>0 DEF Linked, SideOf, Sides
  <2>3. /\ pc' \in {"find", "found"} /\ self' \in members \cup {Nil}
        /\ want' = want /\ UNCHANGED <<memory, stack>>
    BY <1>0, <1>11, <2>2 DEF Find, Run
  <2> QED
    BY <1>0, <2>1, <2>3 DEF Control, memory
<1>12. ASSUME ApplyLeft PROVE Control'
  <2>1. self \in members /\ "left" \in Sides /\ link[self]["left"] \in members \cup {Nil}
    BY <1>0, <1>12 DEF ApplyLeft, Linked, Sides
  <2>2. pc' = "apply" /\ pc = "apply" /\ self' = link[self]["left"]
    BY <1>12 DEF ApplyLeft, Run
  <2>3. UNCHANGED memory /\ Push(self, "left", "visit")
    BY <1>12 DEF ApplyLeft
  <2>4. (\A i \in DOMAIN stack : Frame(i))'
    BY <2>1, <2>2, <2>3, PushControl
  <2> QED
    BY <1>0, <2>1, <2>2, <2>3, <2>4 DEF Control, memory
<1>13. ASSUME ApplyVisit PROVE Control'
  <2> DEFINE f == stack[Len(stack)]
  <2>1. Len(stack) \in DOMAIN stack /\ stack \in Seq(Frames) /\ pc = "apply"
    BY <1>13 DEF ApplyVisit, TypeOK
  <2>2. f.self \in members
    BY <1>0, <2>1
  <2>3. /\ pc' = "apply" /\ self' = link[f.self]["right"]
        /\ stack' = SubSeq(stack, 1, Len(stack) - 1)
        /\ UNCHANGED memory
    BY <1>13 DEF ApplyVisit, Run
  <2>4. \A i \in DOMAIN stack' : i \in DOMAIN stack /\ stack'[i] = stack[i]
    BY <2>1, <2>3
  <2>5. self' \in members \cup {Nil}
    BY <2>1, <2>2, <2>3 DEF Linked, Mutating, Sides
  <2>6. (\A i \in DOMAIN stack : Frame(i))'
    BY <1>0, <2>1, <2>3, <2>4 DEF memory
  <2> QED
    BY <1>0, <2>3, <2>5, <2>6 DEF Control, memory
<1>14. ASSUME ApplyEnd PROVE Control'
  BY <1>0, <1>14 DEF ApplyEnd, Run, Control, memory
<1> QED
  BY <1>1, <1>2, <1>3, <1>4, <1>5, <1>8, <1>9, <1>10, <1>11, <1>12, <1>13, <1>14 DEF Step

-----------------------------------------------------------------------------
(* Every step of a change has the next tree.                               *)

LEMMA ChangesWaits ==
  ASSUME TypeOK, NEW U, NEW v, Changes(U, v)
  PROVE  /\ Waiting(members, key, U, v, link, stack, self, Load(U))
         /\ Shape(members, key, U, v, TopOf(stack, self), Load(U), OpenOf(stack))
         /\ View(members, link, stack, self, v)
         /\ self \notin OpenOf(stack) /\ OpenOf(stack) \subseteq members
         /\ members \subseteq Nodes /\ Nil \notin Nodes
         /\ stack \in Seq(Frames) /\ Len(stack) \in Nat /\ DOMAIN stack = 1 .. Len(stack)
         /\ stack # << >> => Len(stack) \in 1 .. Len(stack)
         /\ \A i \in 1 .. Len(stack) : stack[i].self \in OpenOf(stack)
<1>1. stack \in Seq(Frames)
  BY DEF TypeOK
<1>2. stack # << >> => Len(stack) \in 1 .. Len(stack)
  BY <1>1
<1> QED
  BY <1>1, <1>2, AvlTreeAssumption DEF Changes, Waiting, View, Shape, Types, OpenOf

\* With nothing carried it does not matter who waits.
LEMMA OpenShape ==
  ASSUME NEW M, NEW K, NEW U, NEW v, NEW top, NEW open, NEW open2,
         Shape(M, K, U, v, top, {}, open), open2 \subseteq M
  PROVE  Shape(M, K, U, v, top, {}, open2)
BY DEF Shape, Types, Sets, Carried

LEMMA ResumeChanges ==
  ASSUME TypeOK, Control, NEW U, NEW v, Changes(U, v), Resume
  PROVE  Mutating' /\ Changes(U, v)'
<1> DEFINE n == Len(stack)
           f == stack[n]
<1>1. /\ stack \in Seq(Frames) /\ n \in Nat /\ n # 0 /\ n \in DOMAIN stack
      /\ DOMAIN stack = 1 .. n /\ f \in Frames
  BY DEF Resume, TypeOK
<1>2. /\ pc = "return" /\ pc' = f.next /\ self' = f.self
      /\ link' = [link EXCEPT ![f.self][f.side] = self]
      /\ stack' = SubSeq(stack, 1, n - 1)
      /\ UNCHANGED <<key, members>>
  BY DEF Resume, Run
<1>3. f.next \in {"balance", "rotl", "rotr"} /\ f.self \in members /\ f.side \in Sides
  BY <1>1, <1>2 DEF Control, Frames
<1>4. /\ Len(stack') = n - 1 /\ n - 1 \in Nat
      /\ \A i \in 1 .. n - 1 : stack'[i] = stack[i]
      /\ DOMAIN stack' = 1 .. n - 1
  BY <1>1, <1>2
<1>5. Load(U) = {} /\ Load(U)' = {}
  BY <1>2, <1>3 DEF Load
<1>6. OpenOf(stack') \subseteq OpenOf(stack)
  BY <1>1, <1>4 DEF OpenOf
<1>7. TopOf(stack', self') = TopOf(stack, self)
  <2>1. CASE n = 1
    BY <1>1, <1>2, <1>4, <2>1 DEF TopOf
  <2>2. CASE n # 1
    <3>1. 1 \in 1 .. n - 1 /\ stack' # << >> /\ stack # << >>
      BY <1>1, <1>4, <2>2
    <3> QED
      BY <1>4, <3>1 DEF TopOf
  <2> QED
    BY <2>1, <2>2
<1> HIDE DEF n, f
<1>8. Shape(members, key, U, v, TopOf(stack, self), {}, OpenOf(stack'))
  <2>1. OpenOf(stack) \subseteq members
    BY ChangesWaits
  <2> QED
    BY <1>5, <1>6, <2>1, OpenShape DEF Changes
<1>9. View(members, link', stack', self', v)
  <2>1. View(members, link, stack, self, v)
    BY DEF Changes
  <2>2. /\ \A i \in 1 .. n : v[stack[i].self][stack[i].side] = IF i = n THEN self ELSE stack[i + 1].self
        /\ \A i, j \in 1 .. n : i # j => stack[i].self # stack[j].self
    BY <2>1 DEF View, n
  <2>3. ASSUME NEW i \in 1 .. Len(stack')
        PROVE  v[stack'[i].self][stack'[i].side] =
                 IF i = Len(stack') THEN self' ELSE stack'[i + 1].self
    <3>1. i \in 1 .. n /\ i # n /\ stack'[i] = stack[i]
      BY <1>1, <1>4
    <3>2. v[stack[i].self][stack[i].side] = stack[i + 1].self
      BY <2>2, <3>1
    <3>3. CASE i = n - 1
      BY <1>1, <1>2, <1>4, <3>1, <3>2, <3>3 DEF f
    <3>4. CASE i # n - 1
      <4>1. i + 1 \in 1 .. n - 1
        BY <1>1, <1>4, <3>4
      <4> QED
        BY <1>4, <3>1, <3>2, <3>4, <4>1
    <3> QED
      BY <3>3, <3>4
  <2>4. ASSUME NEW m \in members, NEW d \in Sides,
               \A i \in 1 .. Len(stack') : ~(stack'[i].self = m /\ stack'[i].side = d)
        PROVE  v[m][d] = link'[m][d]
    <3>1. f.self \in Nodes /\ m \in Nodes /\ link \in [Nodes -> [Sides -> Nodes \cup {Nil}]]
      BY <1>3 DEF TypeOK
    <3>2. CASE m = f.self /\ d = f.side
      <4>1. link'[m][d] = self
        BY <1>2, <3>1, <3>2
      <4>2. v[m][d] = self
        BY <1>1, <2>2, <3>2 DEF f
      <4> QED
        BY <4>1, <4>2
    <3>3. CASE ~(m = f.self /\ d = f.side)
      <4>1. link'[m][d] = link[m][d]
        BY <1>2, <3>1, <3>3
      <4>2. \A i \in 1 .. n : i = n \/ i \in 1 .. n - 1
        BY <1>1
      <4>3. \A i \in 1 .. Len(stack) : ~(stack[i].self = m /\ stack[i].side = d)
        BY <1>4, <2>4, <3>3, <4>2 DEF f, n
      <4> QED
        BY <2>1, <4>1, <4>3 DEF View
    <3> QED
      BY <3>2, <3>3
  <2>5. \A i, j \in 1 .. Len(stack') : i # j => stack'[i].self # stack'[j].self
    <3>1. \A i \in 1 .. Len(stack') : i \in 1 .. n /\ stack'[i] = stack[i]
      BY <1>1, <1>4
    <3> QED
      BY <2>2, <3>1
  <2>6. self' \notin OpenOf(stack')
    <3>1. \A i \in 1 .. n - 1 : i \in 1 .. n /\ i # n
      BY <1>1
    <3> QED
      BY <1>1, <1>2, <1>4, <2>2, <3>1 DEF OpenOf, f
  <2> QED
    BY <2>3, <2>4, <2>5, <2>6 DEF View
<1>10. Carrying(U, v)' /\ Removing(U)' /\ Searching(U)'
  BY <1>2, <1>3 DEF Carrying, Removing, Searching
<1>11. Mutating'
  BY <1>2, <1>3 DEF Mutating
<1> QED
  BY <1>2, <1>5, <1>7, <1>8, <1>9, <1>10, <1>11 DEF Changes

\* The node that runs goes on with the same callers, and carries nothing.
LEMMA SameChanges ==
  ASSUME TypeOK, NEW U, NEW v, Changes(U, v), Load(U) = {},
         UNCHANGED <<key, link, members, stack, self>>,
         pc' \in {"balance", "rotl", "rotr", "return"}
  PROVE  Mutating' /\ Changes(U, v)'
<1>1. Load(U)' = {}
  BY DEF Load
<1>2. Carrying(U, v)' /\ Removing(U)' /\ Searching(U)' /\ Mutating'
  BY DEF Carrying, Removing, Searching, Mutating
<1>3. Shape(members, key, U, v, TopOf(stack, self), {}, OpenOf(stack))
      /\ View(members, link, stack, self, v)
  BY DEF Changes
<1> QED
  BY <1>1, <1>2, <1>3 DEF Changes

LEMMA PlaceChanges ==
  ASSUME TypeOK, Control, NEW U, NEW v, Changes(U, v), Place, pc # "remove"
  PROVE  Mutating' /\ \E w : Changes(U, w)'
<1>1. /\ pc \in {"insert", "move_right"} /\ self = Nil
      /\ pc' = "return" /\ self' = arg
      /\ UNCHANGED <<key, link, members, stack>>
  BY DEF Place, Return, Run, memory
<1>2. Load(U) = Sub(U, arg) /\ Load(U)' = {}
  BY <1>1 DEF Load
<1>3. Carrying(U, v)' /\ Removing(U)' /\ Searching(U)' /\ Mutating'
  BY <1>1 DEF Carrying, Removing, Searching, Mutating
<1>4. /\ arg \in members \cup {Nil}
      /\ arg # Nil => /\ arg \notin OpenOf(stack) \cup {TopOf(stack, self)}
                      /\ \A n \in members, s \in Sides : v[n][s] # arg
      /\ stack # << >> => \A x \in Sub(U, arg) :
           OnSide(key, x, stack[Len(stack)].self, stack[Len(stack)].side)
  BY <1>1, <1>2 DEF Changes, Carrying
<1>5. Shape(members, key, U, v, TopOf(stack, self), Sub(U, arg), OpenOf(stack))
      /\ View(members, link, stack, self, v)
  BY <1>2 DEF Changes
<1>6. /\ stack \in Seq(Frames) /\ DOMAIN stack = 1 .. Len(stack) /\ Len(stack) \in Nat
      /\ OpenOf(stack) \subseteq members /\ Nil \notin members
      /\ members \subseteq Nodes
  BY ChangesWaits
<1>7. ASSUME stack = << >>
      PROVE  Changes(U, v)'
  <2>1. TopOf(stack, self) = Nil /\ TopOf(stack, self') = arg /\ OpenOf(stack) = {}
    BY <1>1, <1>7 DEF TopOf, OpenOf
  <2>2. Shape(members, key, U, v, arg, {}, {})
    BY <1>4, <1>5, <2>1, PlaceTop
  <2>3. View(members, link, stack, arg, v)
    BY <1>5, <1>7, <2>1 DEF View
  <2> QED
    BY <1>1, <1>2, <1>3, <2>1, <2>2, <2>3 DEF Changes
<1>8. ASSUME stack # << >>
      PROVE  \E w : Changes(U, w)'
  <2> DEFINE f == stack[Len(stack)]
             n == Len(stack)
  <2>0. PICK w : w = PlacedLinks(v, f.self, f.side, arg)
    OBVIOUS
  <2>1. f \in Frames /\ n \in 1 .. n /\ stack[n] = f
    BY <1>6, <1>8
  <2>2. f.self \in OpenOf(stack) /\ f.side \in Sides /\ f.self \in members
    BY <1>6, <2>1 DEF OpenOf, Frames
  <2>3. /\ v[f.self][f.side] = Nil
        /\ \A i \in 1 .. n : i # n => v[stack[i].self][stack[i].side] = stack[i + 1].self
        /\ \A i, j \in 1 .. n : i # j => stack[i].self # stack[j].self
        /\ TopOf(stack, self') = TopOf(stack, self)
    BY <1>1, <1>5, <1>8, <2>1 DEF View, TopOf
  <2>4. /\ w[f.self][f.side] = arg
        /\ \A m \in members, d \in Sides : m # f.self \/ d # f.side => w[m][d] = v[m][d]
    BY <1>6, <2>0, <2>2 DEF PlacedLinks
  <2> HIDE DEF f, n
  <2>5. \A i \in 1 .. n : stack[i].side \in Sides /\ stack[i].self \in OpenOf(stack)
    <3>1. \A i \in 1 .. n : stack[i] \in Frames /\ stack[i].self \in OpenOf(stack)
      BY <1>6 DEF OpenOf, n
    <3> QED
      BY <3>1 DEF Frames
  <2>6. \A p \in OpenOf(stack) \ {f.self} : \E t \in Sides : v[p][t] \in OpenOf(stack)
    <3> SUFFICES ASSUME NEW p \in OpenOf(stack), p # f.self
                 PROVE  \E t \in Sides : v[p][t] \in OpenOf(stack)
      OBVIOUS
    <3>1. PICK i \in 1 .. n : stack[i].self = p
      BY <1>6 DEF OpenOf, n
    <3>2. i # n
      BY <2>1, <3>1
    <3>3. i + 1 \in 1 .. n
      <4>1. i \in 1 .. n /\ n \in Nat
        BY <1>6, <3>1 DEF n
      <4> QED
        BY <3>2, <4>1
    <3> QED
      BY <2>3, <2>5, <3>1, <3>2, <3>3
  <2>7. Shape(members, key, U, w, TopOf(stack, self), {}, OpenOf(stack))
    <3>1. \A x \in Sub(U, arg) : OnSide(key, x, f.self, f.side)
      BY <1>4, <1>8 DEF f
    <3> QED
      BY <1>4, <1>5, <2>0, <2>2, <2>3, <2>6, <3>1, PlaceShape
  <2>8. View(members, link, stack, arg, w)
    <3>1. ASSUME NEW i \in 1 .. Len(stack)
          PROVE  w[stack[i].self][stack[i].side] =
                   IF i = Len(stack) THEN arg ELSE stack[i + 1].self
      <4>1. CASE i = n
        BY <2>1, <2>4, <4>1 DEF n
      <4>2. CASE i # n
        <5>1. stack[i].self # f.self /\ stack[i].self \in members /\ stack[i].side \in Sides
          BY <1>6, <2>1, <2>3, <2>5, <3>1, <4>2 DEF n
        <5> QED
          BY <2>3, <2>4, <4>2, <5>1 DEF n
      <4> QED
        BY <4>1, <4>2
    <3>2. ASSUME NEW m \in members, NEW d \in Sides,
                 \A i \in 1 .. Len(stack) : ~(stack[i].self = m /\ stack[i].side = d)
          PROVE  w[m][d] = link[m][d]
      <4>1. v[m][d] = link[m][d]
        BY <1>5, <3>2 DEF View
      <4>2. m # f.self \/ d # f.side
        BY <2>1, <3>2 DEF n
      <4> QED
        BY <2>4, <4>1, <4>2
    <3>3. arg \notin OpenOf(stack)
      BY <1>4, <1>6
    <3> QED
      BY <2>3, <3>1, <3>2, <3>3 DEF View, n
  <2>9. Carrying(U, w)'
    BY <1>1 DEF Carrying
  <2>10. Changes(U, w)'
    BY <1>1, <1>2, <1>3, <2>3, <2>7, <2>8, <2>9 DEF Changes
  <2> QED
    BY <2>10
<1> QED
  BY <1>3, <1>7, <1>8

LEMMA RemoveNothingChanges ==
  ASSUME TypeOK, NEW U, NEW v, Changes(U, v), Place, pc = "remove"
  PROVE  Mutating' /\ Changes(U, v)'
<1>1. pc = "remove" /\ pc' = "return" /\ self' = self
      /\ UNCHANGED <<key, link, members, stack>>
  BY DEF Place, Return, Run, memory
<1> QED
  BY <1>1, SameChanges DEF Load

LEMMA BalancedChanges ==
  ASSUME TypeOK, NEW U, NEW v, Changes(U, v), Balanced
  PROVE  Mutating' /\ Changes(U, v)'
<1>1. pc = "balance" /\ pc' = "return" /\ self' = self
      /\ UNCHANGED <<key, link, members, stack>>
  BY DEF Balanced, Return, Run
<1> QED
  BY <1>1, SameChanges DEF Load

\* One more caller waits, and its child runs.
LEMMA PushCall ==
  ASSUME TypeOK, NEW U, NEW v, Changes(U, v), self \in members,
         NEW side \in Sides, NEW next, Push(self, side, next), self' = link[self][side]
  PROVE  /\ self' = v[self][side]
         /\ View(members, link, stack', self', v)
         /\ TopOf(stack', self') = TopOf(stack, self)
         /\ OpenOf(stack') = OpenOf(stack) \cup {self}
         /\ stack' # << >>
         /\ stack'[Len(stack')].self = self /\ stack'[Len(stack')].side = side
<1> DEFINE f == [self |-> self, side |-> side, next |-> next]
<1>1. f.self = self /\ f.side = side /\ stack' = Append(stack, f) /\ stack \in Seq(Frames)
  BY ChangesWaits DEF Push
<1> HIDE DEF f
<1>2. Waiting(members, key, U, v, link, stack, self, Load(U))
  BY ChangesWaits
<1>3. View(members, link, stack', v[self][side], v)
  BY <1>1, <1>2, PushView
<1>4. link[self][side] = v[self][side]
  <2>1. self \in members \ OpenOf(stack)
    BY ChangesWaits
  <2> QED
    BY <1>2, <2>1, Current
<1>5. TopOf(stack', self') = TopOf(stack, self) /\ OpenOf(stack') = OpenOf(stack) \cup {self}
  BY <1>1, PushOpen, PushTop
<1>6. stack' # << >> /\ stack'[Len(stack')] = f
  BY <1>1
<1> QED
  BY <1>1, <1>3, <1>4, <1>5, <1>6

LEMMA BalanceSideChanges ==
  ASSUME TypeOK, Control, NEW U, NEW v, Changes(U, v),
         NEW side \in Sides, NEW lean, NEW rotate \in {"rotl", "rotr"},
         NEW back \in {"rotl", "rotr"}, BalanceSide(side, lean, rotate, back)
  PROVE  Mutating' /\ Changes(U, v)'
<1>1. /\ pc = "balance" /\ UNCHANGED <<key, link, members>> /\ self \in members
      /\ \/ Run(rotate, self, arg, want) /\ UNCHANGED stack
         \/ Push(self, side, rotate) /\ Run(back, link[self][side], arg, want)
  BY DEF BalanceSide, memory, Control
<1>2. Load(U) = {}
  BY <1>1 DEF Load
<1>3. ASSUME Run(rotate, self, arg, want), UNCHANGED stack
      PROVE  Mutating' /\ Changes(U, v)'
  BY <1>1, <1>2, <1>3, SameChanges DEF Run
<1>4. ASSUME Push(self, side, rotate), Run(back, link[self][side], arg, want)
      PROVE  Mutating' /\ Changes(U, v)'
  <2>1. pc' = back /\ self' = link[self][side]
    BY <1>4 DEF Run
  <2>3. /\ View(members, link, stack', self', v)
        /\ TopOf(stack', self') = TopOf(stack, self)
        /\ OpenOf(stack') = OpenOf(stack) \cup {self}
    BY <1>1, <1>4, <2>1, PushCall
  <2>4. Shape(members, key, U, v, TopOf(stack', self'), {}, OpenOf(stack'))
    <3>1. OpenOf(stack') \subseteq members
      BY <1>1, <2>3, ChangesWaits
    <3> QED
      BY <1>2, <2>3, <3>1, OpenShape DEF Changes
  <2>5. Load(U)' = {}
    BY <2>1 DEF Load
  <2>6. Carrying(U, v)' /\ Removing(U)' /\ Searching(U)' /\ Mutating'
    BY <2>1 DEF Carrying, Removing, Searching, Mutating
  <2> QED
    BY <1>1, <2>3, <2>4, <2>5, <2>6 DEF Changes
<1> QED
  BY <1>1, <1>3, <1>4

\* The last caller waits for the node that runs.
LEMMA LastCaller ==
  ASSUME TypeOK, NEW U, NEW v, Changes(U, v)
  PROVE  /\ stack = << >> => OpenOf(stack) = {} /\ TopOf(stack, self) = self
         /\ stack # << >> =>
              LET f == stack[Len(stack)]
              IN  f.self \in OpenOf(stack) /\ f.self \in members /\ f.side \in Sides
                  /\ v[f.self][f.side] = self
<1>1. stack = << >> => OpenOf(stack) = {} /\ TopOf(stack, self) = self
  BY DEF OpenOf, TopOf
<1>2. ASSUME stack # << >>
      PROVE  LET f == stack[Len(stack)]
             IN  f.self \in OpenOf(stack) /\ f.self \in members /\ f.side \in Sides
                 /\ v[f.self][f.side] = self
  <2>1. stack[Len(stack)].self \in OpenOf(stack) /\ stack[Len(stack)].self \in members
    BY <1>2, ChangesWaits
  <2>2. stack[Len(stack)].side \in Sides
    BY <1>2, PopTypes
  <2>3. v[stack[Len(stack)].self][stack[Len(stack)].side] = self
    BY <1>2, ChangesWaits DEF View
  <2> QED
    BY <2>1, <2>2, <2>3
<1> QED
  BY <1>1, <1>2

LEMMA DescendChanges ==
  ASSUME TypeOK, Control, NEW U, NEW v, Changes(U, v), Descend
  PROVE  Mutating' /\ \E W : Changes(W, v)'
<1> DEFINE side == SideOf(self)
           X == Load(U)
<1>1. /\ pc \in {"insert", "remove"} /\ pc' = pc /\ self # Nil /\ self \in members
      /\ pc = "remove" => key[self] # want
      /\ Push(self, side, "balance") /\ self' = link[self][side]
      /\ arg' = arg /\ want' = want /\ UNCHANGED <<key, link, members>>
      /\ side \in Sides
  BY DEF Descend, Run, memory, Control, SideOf, Sides
<1>2. Mutating'
  BY <1>1 DEF Mutating
<1>3. /\ self' = v[self][side]
      /\ View(members, link, stack', self', v)
      /\ TopOf(stack', self') = TopOf(stack, self)
      /\ OpenOf(stack') = OpenOf(stack) \cup {self}
      /\ stack' # << >>
      /\ stack'[Len(stack')].self = self /\ stack'[Len(stack')].side = side
  BY <1>1, PushCall
<1>4. Shape(members, key, U, v, TopOf(stack, self), X, OpenOf(stack))
  BY DEF Changes
<1>5. Keyed(members, key) /\ self \in Nat /\ key[self] \in Nat
  BY <1>1, <1>4, AvlTreeAssumption DEF Shape, Types, Keyed
<1>6. want \in Nat
  BY <1>1, AvlTreeAssumption DEF Control
<1>7. Sub(U, self) = U[self]
  BY <1>1 DEF Sub
<1> HIDE DEF side, X
<1>8. ASSUME pc = "insert"
      PROVE  \E W : Changes(W, v)'
  <2>1. PICK W : W = [U EXCEPT ![self] = @ \cup X]
    OBVIOUS
  <2>2. /\ arg \in members /\ arg # Nil /\ U[arg] = {arg} /\ key[arg] = want
        /\ arg \notin OpenOf(stack) \cup {TopOf(stack, self)}
        /\ \A n \in members, s \in Sides : v[n][s] # arg
        /\ \A m \in members \ {arg} : key[m] = want => m < arg
        /\ X = {arg}
        /\ stack # << >> =>
             \A x \in X : OnSide(key, x, stack[Len(stack)].self, stack[Len(stack)].side)
    BY <1>8 DEF Changes, Carrying, Load, X, Sub
  \* The node that runs is in the tree already.
  <2>3. /\ stack = << >> => OpenOf(stack) = {} /\ TopOf(stack, self) = self
        /\ stack # << >> =>
             LET f == stack[Len(stack)]
             IN  f.self \in OpenOf(stack) /\ f.self \in members /\ f.side \in Sides
                 /\ v[f.self][f.side] = self
    BY LastCaller
  <2>4. arg # self
    BY <1>1, <2>2, <2>3
  <2>5. self \notin OpenOf(stack) /\ X \subseteq members
    BY <2>2, ChangesWaits
  <2>6. IF OpenOf(stack) = {} THEN self = TopOf(stack, self)
        ELSE \E p \in members, s \in Sides :
               p \in OpenOf(stack) /\ v[p][s] = self /\ \A x \in X : OnSide(key, x, p, s)
    BY <2>2, <2>3
  <2>7. Shape(members, key, W, v, TopOf(stack', self'), X, OpenOf(stack'))
    <3>1. self \in members
      BY <1>1
    <3>2. Shape(members, key, [U EXCEPT ![self] = @ \cup X], v, TopOf(stack, self), X,
                OpenOf(stack) \cup {self})
      BY <1>4, <2>5, <2>6, <3>1, PushShape
    <3> QED
      BY <1>3, <2>1, <3>2
  <2>8. W[arg] = {arg} /\ Sub(W, arg) = X
    BY <2>1, <2>2, <2>4, <1>4 DEF Shape, Types, Sub
  <2>9. Load(W)' = X
    BY <1>1, <1>8, <2>8 DEF Load
  <2>10. OnSide(key, arg, self, side)
    BY <1>1, <1>5, <1>6, <2>2, <2>4, AvlTreeAssumption
       DEF side, SideOf, Less, OnSide, Lt, Shape, Types, TypeOK
  <2>11. Carrying(W, v)'
    <3>1. pc' = "insert" /\ arg' = arg /\ want' = want /\ key' = key /\ members' = members
      BY <1>1, <1>8
    <3>2. arg \notin OpenOf(stack') \cup {TopOf(stack', self')}
      BY <1>3, <2>2, <2>4
    <3>3. \A x \in X : OnSide(key, x, stack'[Len(stack')].self, stack'[Len(stack')].side)
      BY <1>3, <2>2, <2>10
    <3> QED
      BY <2>2, <2>8, <2>9, <3>1, <3>2, <3>3 DEF Carrying
  <2>12. Removing(W)' /\ Searching(W)'
    BY <1>1, <1>8 DEF Removing, Searching
  <2>13. Changes(W, v)'
    BY <1>1, <1>3, <2>7, <2>9, <2>11, <2>12 DEF Changes
  <2> QED
    BY <2>13
<1>9. ASSUME pc = "remove"
      PROVE  Changes(U, v)'
  <2>1. X = {} /\ Load(U)' = {}
    BY <1>1, <1>9 DEF Load, X
  <2>2. Shape(members, key, U, v, TopOf(stack', self'), {}, OpenOf(stack'))
    <3>1. OpenOf(stack') \subseteq members
      BY <1>1, <1>3, ChangesWaits
    <3> QED
      BY <1>3, <1>4, <2>1, <3>1, OpenShape
  <2>3. Sub(U, self') \subseteq U[self]
    BY <1>1, <1>3, <1>4, Below
  <2>4. Removing(U)'
    <3>1. \A i \in DOMAIN stack : U[self] \subseteq U[stack[i].self]
      BY <1>7, <1>9 DEF Changes, Removing
    <3>2. \A n \in OpenOf(stack') : Sub(U, self') \subseteq U[n]
      BY <1>3, <2>3, <3>1 DEF OpenOf
    <3>3. \A i \in DOMAIN stack' : stack'[i].self \in OpenOf(stack')
      BY DEF OpenOf
    <3> QED
      BY <3>2, <3>3 DEF Removing
  <2>5. Searching(U)'
    <3> SUFFICES ASSUME NEW m \in members, key[m] = want
                 PROVE  m \in Sub(U, self')
      BY <1>1 DEF Searching
    <3>1. m \in U[self] /\ m # self
      BY <1>1, <1>7, <1>9 DEF Changes, Searching
    <3>2. U[self] = {self} \cup Sub(U, v[self][side]) \cup Sub(U, v[self][Other(side)])
      BY <1>1, <1>4, <2>1, SetOf DEF Shape, Carried
    <3>3. ~OnSide(key, m, self, Other(side))
      BY <1>1, <1>5, <1>6, <1>9, AvlTreeAssumption
         DEF side, SideOf, Less, OnSide, Lt, Other
    <3>4. m \notin Sub(U, v[self][Other(side)])
      BY <1>1, <1>4, <3>3, SidesDiffer DEF Shape, Order
    <3> QED
      BY <1>3, <3>1, <3>2, <3>4
  <2>6. Carrying(U, v)'
    BY <1>1, <1>9 DEF Carrying
  <2> QED
    BY <1>1, <1>3, <2>1, <2>2, <2>4, <2>5, <2>6 DEF Changes
<1> QED
  BY <1>1, <1>2, <1>8, <1>9

LEMMA MoveRightChanges ==
  ASSUME TypeOK, Control, NEW U, NEW v, Changes(U, v), TREE_MOVE_RIGHT
  PROVE  Mutating' /\ \E W : Changes(W, v)'
<1> DEFINE X == Sub(U, arg)
<1>1. /\ pc = "move_right" /\ pc' = pc /\ self # Nil /\ self \in members
      /\ Push(self, "right", "balance") /\ self' = link[self]["right"]
      /\ arg' = arg /\ UNCHANGED <<key, link, members>>
      /\ "right" \in Sides
  BY DEF TREE_MOVE_RIGHT, Run, memory, Control, Sides
<1>2. Mutating' /\ Removing(U)' /\ Searching(U)'
  BY <1>1 DEF Mutating, Removing, Searching
<1>3. /\ self' = v[self]["right"]
      /\ View(members, link, stack', self', v)
      /\ TopOf(stack', self') = TopOf(stack, self)
      /\ OpenOf(stack') = OpenOf(stack) \cup {self}
      /\ stack' # << >>
      /\ stack'[Len(stack')].self = self /\ stack'[Len(stack')].side = "right"
  BY <1>1, PushCall
<1>4. Load(U) = X
  BY <1>1 DEF Load
<1>5. Shape(members, key, U, v, TopOf(stack, self), X, OpenOf(stack))
  BY <1>4 DEF Changes
<1>6. PICK W : W = [U EXCEPT ![self] = @ \cup X]
  OBVIOUS
<1>7. /\ arg \in members \cup {Nil}
      /\ arg # Nil => /\ arg \notin OpenOf(stack) \cup {TopOf(stack, self)}
                      /\ \A n \in members, s \in Sides : v[n][s] # arg
      /\ stack # << >> =>
           \A x \in X : OnSide(key, x, stack[Len(stack)].self, stack[Len(stack)].side)
      /\ \A x \in Sub(U, self), y \in X : Lt(key, x, y)
  BY <1>1, <1>4 DEF Changes, Carrying
<1>8. self \notin OpenOf(stack) /\ X \subseteq members /\ members \subseteq Nodes /\ Nil \notin Nodes
  BY <1>5, <1>7, ChangesWaits DEF Shape, Types, Sub
<1>9. arg # self
  BY <1>1, <1>7, LastCaller
<1> HIDE DEF X
<1>10. Shape(members, key, W, v, TopOf(stack', self'), X, OpenOf(stack'))
  <2>1. self \in members
    BY <1>1
  <2>2. IF OpenOf(stack) = {} THEN self = TopOf(stack, self)
        ELSE \E p \in members, s \in Sides :
               p \in OpenOf(stack) /\ v[p][s] = self /\ \A x \in X : OnSide(key, x, p, s)
    BY <1>7, LastCaller
  <2>3. Shape(members, key, [U EXCEPT ![self] = @ \cup X], v, TopOf(stack, self), X,
              OpenOf(stack) \cup {self})
    BY <1>5, <1>8, <2>1, <2>2, PushShape
  <2> QED
    BY <1>3, <1>6, <2>3
<1>11. \A n \in members \cup {Nil} : n # self => Sub(W, n) = Sub(U, n)
  BY <1>5, <1>6, <1>8 DEF Sub, Shape, Types
<1>12. Sub(W, arg) = X /\ Load(W)' = X
  <2>1. Sub(W, arg) = X
    BY <1>7, <1>9, <1>11 DEF X
  <2> QED
    BY <1>1, <2>1 DEF Load
<1>13. Carrying(W, v)'
  <2>1. self \in Sub(U, self) /\ self' # self /\ self' \in members \cup {Nil}
        /\ Sub(U, self') \subseteq Sub(U, self)
    <3>1. self \in U[self] /\ Sub(U, v[self]["right"]) \subseteq U[self]
      BY <1>1, <1>5, Below
    <3>2. v[self]["right"] # Nil => v[self]["right"] # self /\ v[self]["right"] \in members
      BY <1>1, <1>5, Below
    <3> QED
      BY <1>1, <1>3, <3>1, <3>2 DEF Sub
  <2>2. \A x \in Sub(W, self'), y \in X : Lt(key, x, y)
    BY <1>7, <1>11, <2>1
  <2>3. \A x \in X : OnSide(key, x, self, "right")
    BY <1>7, <2>1 DEF OnSide
  <2>4. arg # Nil => arg \notin OpenOf(stack') \cup {TopOf(stack', self')}
    BY <1>3, <1>7, <1>9
  <2>5. \A x \in X : OnSide(key, x, stack'[Len(stack')].self, stack'[Len(stack')].side)
    BY <1>3, <2>3
  <2> QED
    BY <1>1, <1>7, <1>12, <2>2, <2>4, <2>5 DEF Carrying
<1>14. Changes(W, v)'
  <2>1. Removing(W)' /\ Searching(W)'
    BY <1>1 DEF Removing, Searching
  <2> QED
    BY <1>1, <1>3, <1>10, <1>12, <1>13, <2>1 DEF Changes
<1> QED
  BY <1>2, <1>14

\* A rotation, of either side.
LEMMA RotateChanges ==
  ASSUME TypeOK, Control, NEW U, NEW v, Changes(U, v), pc \in {"rotl", "rotr"},
         NEW side \in Sides, Rotate(side), link[self][side] \in members
  PROVE  Mutating' /\ \E W, w : Changes(W, w)'
<1> DEFINE n == Len(stack)
           f == stack[n]
           o == Other(side)
<1>0. PICK d, c : d = self /\ c = link[self][side]
  OBVIOUS
<1>1. /\ d \in members /\ c \in members /\ self' = d
      /\ link' = [link EXCEPT ![d][side] = link[c][o]]
      /\ pc' = "balance" /\ UNCHANGED <<key, members>>
      /\ stack' = Append(stack, [self |-> c, side |-> o, next |-> "balance"])
  BY <1>0 DEF Control, Rotate, Run, Push
<1>2. /\ Waiting(members, key, U, v, link, stack, d, {})
      /\ Shape(members, key, U, v, TopOf(stack, d), {}, OpenOf(stack))
      /\ View(members, link, stack, d, v)
      /\ d \notin OpenOf(stack) /\ OpenOf(stack) \subseteq members
      /\ members \subseteq Nodes /\ Nil \notin Nodes
      /\ stack \in Seq(Frames) /\ n \in Nat /\ DOMAIN stack = 1 .. n
      /\ \A i \in 1 .. n : stack[i].self \in OpenOf(stack)
  BY <1>0, ChangesWaits DEF Load
<1>3. /\ o \in Sides /\ o # side /\ \A t \in Sides : t = side \/ t = o
  BY SidesDiffer
<1>4. \A m \in members \ OpenOf(stack), t \in Sides : link[m][t] = v[m][t]
  BY <1>2, Current
<1>5. /\ c = v[d][side] /\ c # Nil /\ c # d /\ c \notin OpenOf(stack)
      /\ link[c][o] = v[c][o]
  <2>1. c = v[d][side]
    BY <1>0, <1>1, <1>2, <1>4
  <2>2. c \notin OpenOf(stack) \cup {d}
    BY <1>1, <1>2, <2>1, ChildWaitsNot
  <2> QED
    BY <1>1, <1>2, <1>3, <1>4, <2>1, <2>2
<1>6. PICK w, W : w = RotatedLinks(v, d, side) /\ W = RotatedSets(U, v, d, side)
  OBVIOUS
<1>7. \A m \in members, t \in Sides :
        w[m][t] = IF m = d /\ t = side THEN v[c][o]
                  ELSE IF m = c /\ t = o THEN d
                  ELSE IF v[m][t] = d THEN c
                  ELSE v[m][t]
  BY <1>2, <1>5, <1>6 DEF RotatedLinks
<1>8. Shape(members, key, W, w, IF TopOf(stack, d) = d THEN c ELSE TopOf(stack, d), {}, OpenOf(stack))
  <2>1. Shape(members, key, RotatedSets(U, v, d, side), RotatedLinks(v, d, side),
               IF TopOf(stack, d) = d THEN v[d][side] ELSE TopOf(stack, d), {}, OpenOf(stack))
    BY <1>1, <1>2, <1>5, RotateShape
  <2> QED
    BY <1>5, <1>6, <2>1
<1>9. OpenOf(stack') = OpenOf(stack) \cup {c}
  BY <1>1, <1>2, PushOpen
<1>10. TopOf(stack', self') = IF TopOf(stack, d) = d THEN c ELSE TopOf(stack, d)
  <2>1. TopOf(stack', self') = TopOf(stack, c)
    BY <1>1, <1>2, PushTop
  <2>2. CASE stack = << >>
    BY <2>1, <2>2 DEF TopOf
  <2>3. CASE stack # << >>
    <3>1. 1 \in 1 .. n
      BY <1>2, <2>3
    <3>2. TopOf(stack, d) \in OpenOf(stack)
      BY <1>2, <2>3, <3>1 DEF TopOf
    <3> QED
      BY <1>2, <2>1, <2>3, <3>2 DEF TopOf
  <2> QED
    BY <2>2, <2>3
<1>11. Shape(members, key, W, w, TopOf(stack', self'), {}, OpenOf(stack'))
  <2>1. OpenOf(stack') \subseteq members
    BY <1>1, <1>2, <1>9
  <2> QED
    BY <1>8, <1>10, <2>1, OpenShape
\* Only the last caller's link led to d.
<1>12. \A m \in members, t \in Sides : v[m][t] = d => n # 0 /\ m = f.self /\ t = f.side
  <2>1. d \in members /\ Waiting(members, key, U, v, link, stack, d, {})
    BY <1>1, <1>2
  <2>2. CallerIsParent(members, v, stack, d)
    BY <2>1, ParentOf
  <2> QED
    BY <1>2, <2>2 DEF CallerIsParent
<1>13. /\ \A i \in 1 .. n : v[stack[i].self][stack[i].side] = IF i = n THEN d ELSE stack[i + 1].self
       /\ \A i, j \in 1 .. n : i # j => stack[i].self # stack[j].self
       /\ \A m \in members, t \in Sides :
            (\A i \in 1 .. n : ~(stack[i].self = m /\ stack[i].side = t)) => v[m][t] = link[m][t]
  BY <1>2 DEF View
<1>14. /\ Len(stack') = n + 1
       /\ \A i \in 1 .. n : stack'[i] = stack[i]
       /\ stack'[n + 1].self = c /\ stack'[n + 1].side = o
  BY <1>1, <1>2
<1>15. \A i \in 1 .. n : stack[i].side \in Sides /\ stack[i].self \in members
  <2>1. \A i \in 1 .. n : stack[i] \in Frames
    BY <1>2
  <2> QED
    BY <1>2, <2>1 DEF Frames
<1>16. link \in [Nodes -> [Sides -> Nodes \cup {Nil}]]
  BY DEF TypeOK
<1> HIDE DEF n, f, o
<1>17. View(members, link', stack', self', w)
  <2>1. ASSUME NEW i \in 1 .. Len(stack')
        PROVE  w[stack'[i].self][stack'[i].side] =
                 IF i = Len(stack') THEN self' ELSE stack'[i + 1].self
    <3>1. CASE i = n + 1
      <4>1. w[c][o] = d
        BY <1>1, <1>3, <1>5, <1>7
      <4> QED
        BY <1>1, <1>14, <3>1, <4>1
    <3>2. CASE i \in 1 .. n
      <4> DEFINE m == stack[i].self
                 t == stack[i].side
      <4>1. m \in members /\ t \in Sides /\ m # d /\ m # c
            /\ stack'[i] = stack[i] /\ i # Len(stack')
        BY <1>2, <1>5, <1>14, <1>15, <3>2
      <4> HIDE DEF m, t
      <4>2. w[m][t] = IF v[m][t] = d THEN c ELSE v[m][t]
        BY <1>7, <4>1
      <4>3. v[m][t] = IF i = n THEN d ELSE stack[i + 1].self
        BY <1>13, <3>2 DEF m, t
      <4>4. CASE i = n
        BY <1>14, <4>1, <4>2, <4>3, <4>4 DEF m, t
      <4>5. CASE i # n
        <5>1. i + 1 \in 1 .. n
          BY <1>2, <3>2, <4>5
        <5>2. stack[i + 1].self # d /\ stack'[i + 1] = stack[i + 1]
          BY <1>2, <1>14, <5>1
        <5> QED
          BY <4>1, <4>2, <4>3, <4>5, <5>2 DEF m, t
      <4> QED
        BY <4>4, <4>5
    <3>3. i = n + 1 \/ i \in 1 .. n
      BY <1>2, <1>14
    <3> QED
      BY <3>1, <3>2, <3>3
  <2>2. ASSUME NEW m \in members, NEW t \in Sides,
               \A i \in 1 .. Len(stack') : ~(stack'[i].self = m /\ stack'[i].side = t)
        PROVE  w[m][t] = link'[m][t]
    <3>1. \A i \in 1 .. n : i \in 1 .. Len(stack')
      BY <1>2, <1>14
    <3>2. n + 1 \in 1 .. Len(stack')
      BY <1>2, <1>14
    <3>3. \A i \in 1 .. n : ~(stack[i].self = m /\ stack[i].side = t)
      BY <1>14, <2>2, <3>1
    <3>4. ~(m = c /\ t = o)
      BY <1>14, <2>2, <3>2
    <3>5. v[m][t] = link[m][t]
      BY <1>13, <3>3
    <3>6. v[m][t] # d
      <4>1. n # 0 => n \in 1 .. n
        BY <1>2
      <4> QED
        BY <1>12, <3>3, <4>1 DEF f
    <3>7. w[m][t] = IF m = d /\ t = side THEN v[c][o] ELSE v[m][t]
      BY <1>7, <3>4, <3>6
    <3>8. link'[m][t] = IF m = d /\ t = side THEN link[c][o] ELSE link[m][t]
      BY <1>1, <1>2, <1>16
    <3> QED
      BY <1>5, <3>5, <3>7, <3>8
  <2>3. ASSUME NEW i \in 1 .. Len(stack'), NEW j \in 1 .. Len(stack'), i # j
        PROVE  stack'[i].self # stack'[j].self
    <3>1. \A l \in 1 .. n : stack'[l].self # c /\ stack'[l].self = stack[l].self
      BY <1>2, <1>5, <1>14
    <3>2. (i = n + 1 \/ i \in 1 .. n) /\ (j = n + 1 \/ j \in 1 .. n)
      BY <1>2, <1>14
    <3>3. CASE i \in 1 .. n /\ j \in 1 .. n
      BY <1>13, <2>3, <3>1, <3>3
    <3>4. CASE i = n + 1 \/ j = n + 1
      BY <1>14, <2>3, <3>1, <3>2, <3>4
    <3> QED
      BY <3>2, <3>3, <3>4
  <2>4. self' \notin OpenOf(stack')
    BY <1>1, <1>2, <1>5, <1>9
  <2> QED
    BY <2>1, <2>2, <2>3, <2>4 DEF View
<1>18. Load(W)' = {} /\ Carrying(W, w)' /\ Removing(W)' /\ Searching(W)' /\ Mutating'
  BY <1>1 DEF Load, Carrying, Removing, Searching, Mutating
<1>19. Changes(W, w)'
  BY <1>1, <1>11, <1>17, <1>18 DEF Changes
<1> QED
  BY <1>18, <1>19

LEMMA RemoveSelfChanges ==
  ASSUME TypeOK, Control, NEW U, NEW v, Changes(U, v), RemoveSelf
  PROVE  Mutating' /\ \E W, w : Changes(W, w)'
<1> DEFINE n == Len(stack)
           f == stack[n]
<1>0. PICK d, l, r : d = self /\ l = link[self]["left"] /\ r = link[self]["right"]
  OBVIOUS
<1>1. /\ pc = "remove" /\ pc' = "move_right" /\ d \in members
      /\ self' = l /\ arg' = r
      /\ members' = members \ {d}
      /\ key' = [key EXCEPT ![d] = Nil]
      /\ link' = [link EXCEPT ![d] = NoLinks]
      /\ stack' = stack
      /\ "left" \in Sides /\ "right" \in Sides
  BY <1>0 DEF Control, RemoveSelf, Run, Sides
<1>2. /\ Waiting(members, key, U, v, link, stack, d, {})
      /\ Shape(members, key, U, v, TopOf(stack, d), {}, OpenOf(stack))
      /\ View(members, link, stack, d, v)
      /\ d \notin OpenOf(stack) /\ OpenOf(stack) \subseteq members
      /\ members \subseteq Nodes /\ Nil \notin Nodes
      /\ stack \in Seq(Frames) /\ n \in Nat /\ DOMAIN stack = 1 .. n
      /\ \A i \in 1 .. n : stack[i].self \in OpenOf(stack)
  BY <1>0, <1>1, ChangesWaits DEF Load
<1>3. /\ l = v[d]["left"] /\ r = v[d]["right"]
      /\ l \in (members \ {d}) \cup {Nil} /\ r \in (members \ {d}) \cup {Nil}
      /\ l \notin OpenOf(stack) /\ r \notin OpenOf(stack)
  <2>1. d \in members \ OpenOf(stack)
    BY <1>1, <1>2
  <2>2. l = v[d]["left"] /\ r = v[d]["right"]
    BY <1>0, <1>1, <1>2, <2>1, Current
  <2>3. v[d]["left"] \notin OpenOf(stack) \cup {d} /\ v[d]["right"] \notin OpenOf(stack) \cup {d}
    BY <1>1, <1>2, ChildWaitsNot
  <2>4. v[d]["left"] \in members \cup {Nil} /\ v[d]["right"] \in members \cup {Nil}
    BY <1>1, <1>2 DEF Shape, Types
  <2> QED
    BY <2>2, <2>3, <2>4
<1>4. PICK w, W : w = RemovedLinks(v, d) /\ W = RemovedSets(U, d)
  OBVIOUS
<1>5. \A m \in members, t \in Sides : w[m][t] = IF v[m][t] = d THEN l ELSE v[m][t]
  BY <1>2, <1>3, <1>4 DEF RemovedLinks
<1>6. \A m \in members : W[m] = U[m] \ {d}
  BY <1>2, <1>4 DEF RemovedSets
<1>7. \A m \in members, t \in Sides : v[m][t] = d => n # 0 /\ m = f.self /\ t = f.side
  <2>1. d \in members /\ Waiting(members, key, U, v, link, stack, d, {})
    BY <1>1, <1>2
  <2>2. CallerIsParent(members, v, stack, d)
    BY <2>1, ParentOf
  <2> QED
    BY <1>2, <2>2 DEF CallerIsParent
<1>8. /\ \A i \in 1 .. n : v[stack[i].self][stack[i].side] = IF i = n THEN d ELSE stack[i + 1].self
      /\ \A i, j \in 1 .. n : i # j => stack[i].self # stack[j].self
      /\ \A m \in members, t \in Sides :
           (\A i \in 1 .. n : ~(stack[i].self = m /\ stack[i].side = t)) => v[m][t] = link[m][t]
  BY <1>2 DEF View
<1>9. \A i \in 1 .. n : stack[i].side \in Sides /\ stack[i].self \in members
  <2>1. \A i \in 1 .. n : stack[i] \in Frames
    BY <1>2
  <2> QED
    BY <1>2, <2>1 DEF Frames
<1>10. /\ TopOf(stack, d) = d <=> OpenOf(stack) = {}
       /\ TopOf(stack, l) = IF TopOf(stack, d) = d THEN l ELSE TopOf(stack, d)
       /\ OpenOf(stack) = {} <=> stack = << >>
  <2>1. CASE stack = << >>
    BY <2>1 DEF TopOf, OpenOf
  <2>2. CASE stack # << >>
    <3>1. 1 \in 1 .. n
      BY <1>2, <2>2
    <3>2. TopOf(stack, d) = stack[1].self /\ TopOf(stack, l) = stack[1].self
      BY <2>2 DEF TopOf
    <3>3. stack[1].self \in OpenOf(stack)
      BY <1>2, <3>1
    <3> QED
      BY <1>2, <2>2, <3>2, <3>3
  <2> QED
    BY <2>1, <2>2
<1>11. \A x \in members \ {d} : key'[x] = key[x]
  BY <1>1, <1>2 DEF TypeOK
<1>12. \A p \in OpenOf(stack) : U[d] \subseteq U[p]
  <2>1. Sub(U, d) = U[d]
    BY <1>1, <1>2 DEF Sub
  <2> QED
    BY <1>0, <1>1, <2>1 DEF Changes, Removing, OpenOf
<1>13. Shape(members', key', W, w, TopOf(stack', self'), Sub(W, r), OpenOf(stack'))
  <2>1. \A m \in members, t \in Sides : v[m][t] = d => m \in OpenOf(stack)
    <3>1. n # 0 => n \in 1 .. n
      BY <1>2
    <3> QED
      BY <1>2, <1>7, <3>1
  <2>2. PICK top, new : top = TopOf(stack, d) /\ new = TopOf(stack, l)
    OBVIOUS
  <2>3. /\ d \in members /\ d \notin OpenOf(stack) /\ (top = d <=> OpenOf(stack) = {})
        /\ Shape(members, key, U, v, top, {}, OpenOf(stack))
        /\ new = IF top = d THEN v[d]["left"] ELSE top
    BY <1>1, <1>2, <1>3, <1>10, <2>2
  <2>4. Shape(members \ {d}, key', RemovedSets(U, d), RemovedLinks(v, d), new,
              Sub(RemovedSets(U, d), v[d]["right"]), OpenOf(stack))
    BY <1>11, <1>12, <2>1, <2>3, RemoveShape
  <2> QED
    BY <1>1, <1>3, <1>4, <2>2, <2>4
<1>14. link' = [link EXCEPT ![d] = NoLinks] /\ link \in [Nodes -> [Sides -> Nodes \cup {Nil}]]
  BY <1>1 DEF TypeOK
<1> HIDE DEF n, f
<1>15. View(members', link', stack', self', w)
  <2>1. ASSUME NEW i \in 1 .. n
        PROVE  w[stack[i].self][stack[i].side] = IF i = n THEN l ELSE stack[i + 1].self
    <3> DEFINE m == stack[i].self
               t == stack[i].side
    <3>1. m \in members /\ t \in Sides
      BY <1>9
    <3>2. v[m][t] = IF i = n THEN d ELSE stack[i + 1].self
      BY <1>8
    <3> HIDE DEF m, t
    <3>3. w[m][t] = IF v[m][t] = d THEN l ELSE v[m][t]
      BY <1>5, <3>1
    <3>4. CASE i = n
      BY <3>2, <3>3, <3>4 DEF m, t
    <3>5. CASE i # n
      <4>1. i + 1 \in 1 .. n
        BY <1>2, <3>5
      <4>2. stack[i + 1].self # d
        BY <1>2, <4>1
      <4> QED
        BY <3>2, <3>3, <3>5, <4>2 DEF m, t
    <3> QED
      BY <3>4, <3>5
  <2>2. ASSUME NEW m \in members \ {d}, NEW t \in Sides,
               \A i \in 1 .. n : ~(stack[i].self = m /\ stack[i].side = t)
        PROVE  w[m][t] = link'[m][t]
    <3>1. v[m][t] = link[m][t]
      BY <1>8, <2>2
    <3>2. v[m][t] # d
      <4>1. n # 0 => n \in 1 .. n
        BY <1>2
      <4> QED
        BY <1>7, <2>2, <4>1 DEF f
    <3>3. link'[m][t] = link[m][t]
      BY <1>2, <1>14
    <3> QED
      BY <1>5, <3>1, <3>2, <3>3
  <2> QED
    BY <1>1, <1>3, <1>8, <2>1, <2>2 DEF View, n
<1>16. Load(W)' = Sub(W, r)
  BY <1>1 DEF Load
<1>17. \A x \in members \cup {Nil} : Sub(W, x) \subseteq Sub(U, x)
  BY <1>2, <1>6 DEF Sub
<1>18. Sub(U, l) \subseteq U[d] /\ Sub(U, r) \subseteq U[d] /\ U[d] \subseteq members
  <2>1. Sub(U, v[d]["left"]) \subseteq U[d] /\ Sub(U, v[d]["right"]) \subseteq U[d]
    BY <1>1, <1>2, Below
  <2> QED
    BY <1>1, <1>2, <1>3, <2>1 DEF Shape, Types
<1>19. Carrying(W, w)'
  <2>1. r # Nil => r # l
    BY <1>1, <1>2, <1>3 DEF Shape, Parents
  <2>2. r # Nil => r \notin OpenOf(stack) \cup {TopOf(stack, l)}
    <3>1. stack # << >> => TopOf(stack, l) \in OpenOf(stack)
      <4>1. stack # << >> => 1 \in 1 .. n
        BY <1>2 DEF n
      <4> QED
        BY <1>2, <4>1 DEF TopOf
    <3>2. stack = << >> => TopOf(stack, l) = l
      BY DEF TopOf
    <3> QED
      BY <1>3, <2>1, <3>1, <3>2
  <2>3. ASSUME r # Nil, NEW m \in members \ {d}, NEW s \in Sides
        PROVE  w[m][s] # r
    <3>1. v[m][s] # r
      BY <1>1, <1>2, <1>3, <2>3 DEF Shape, Parents
    <3> QED
      BY <1>5, <2>1, <2>3, <3>1
  <2>4. ASSUME stack # << >>, NEW x \in Sub(W, r)
        PROVE  OnSide(key', x, stack[n].self, stack[n].side)
    <3> DEFINE p == stack[n].self
               s == stack[n].side
    <3>1. n \in 1 .. n
      BY <1>2, <2>4 DEF n
    <3>2. p \in members /\ s \in Sides /\ v[p][s] = d /\ p # d
      BY <1>2, <1>8, <1>9, <3>1
    <3> HIDE DEF p, s
    <3>3. x \in U[d] /\ x # d /\ x \in members
      <4>1. x \in Sub(U, r)
        BY <1>3, <1>17, <2>4
      <4>2. x # d
        <5>1. d \notin Sub(U, v[d]["right"])
          BY <1>1, <1>2, Below
        <5> QED
          BY <1>3, <4>1, <5>1
      <4> QED
        BY <1>18, <4>1, <4>2
    <3>4. Sub(U, v[p][s]) = U[d]
      BY <1>1, <1>2, <3>2 DEF Sub
    <3>5. OnSide(key, x, p, s)
      BY <1>2, <3>2, <3>3, <3>4 DEF Shape, Order
    <3>6. key'[x] = key[x] /\ key'[p] = key[p]
      BY <1>11, <3>2, <3>3
    <3>7. OnSide(key', x, p, s)
      BY <3>5, <3>6 DEF OnSide, Lt
    <3> QED
      BY <3>7 DEF p, s
  <2>5. ASSUME NEW x \in Sub(W, l), NEW y \in Sub(W, r)
        PROVE  Lt(key', x, y)
    <3>1. x \in Sub(U, v[d]["left"]) /\ y \in Sub(U, v[d]["right"])
      BY <1>3, <1>17, <2>5
    <3>2. Lt(key, x, d) /\ Lt(key, d, y)
      BY <1>1, <1>2, <3>1 DEF Shape, Order, OnSide
    <3>3. x # d /\ y # d
      BY <1>1, <1>2, <3>1, Below
    <3>4. x \in members /\ y \in members
      BY <1>3, <1>18, <3>1
    <3>5. Keyed(members, key)
      BY <1>2 DEF Shape, Types, Keyed
    <3>6. Lt(key, x, y)
      BY <1>1, <3>2, <3>4, <3>5, LtIsOrder
    <3>7. key'[x] = key[x] /\ key'[y] = key[y]
      BY <1>11, <3>3, <3>4
    <3> QED
      BY <3>6, <3>7 DEF Lt
  <2> QED
    BY <1>1, <1>3, <1>16, <2>2, <2>3, <2>4, <2>5 DEF Carrying, n
<1>20. Removing(W)' /\ Searching(W)' /\ Mutating'
  BY <1>1 DEF Removing, Searching, Mutating
<1>21. Changes(W, w)'
  BY <1>13, <1>15, <1>16, <1>19, <1>20 DEF Changes
<1> QED
  BY <1>20, <1>21

-----------------------------------------------------------------------------
(* The steps that leave the tree alone.                                    *)

LEMMA FinishReads ==
  ASSUME TypeOK, Control, NEW U, NEW v, Changes(U, v), Finish
  PROVE  ~Mutating' /\ Reads(U, v)'
<1>1. /\ pc = "return" /\ stack = << >> /\ root' = self /\ pc' = "idle"
      /\ UNCHANGED <<key, link, members, visited>>
  BY DEF Finish, Run, memory
<1>2. Load(U) = {} /\ OpenOf(stack) = {} /\ TopOf(stack, self) = self /\ Len(stack) = 0
  BY <1>1 DEF Load, OpenOf, TopOf
<1>3. Shape(members, key, U, v, self, {}, {}) /\ View(members, link, stack, self, v)
  BY <1>2 DEF Changes
<1>4. \A n \in members, s \in Sides : v[n][s] = link[n][s]
  BY <1>2, <1>3 DEF View
<1>5. ~Mutating' /\ Searching(U)' /\ Walking(U, v)'
  BY <1>1 DEF Mutating, Searching, Walking
<1> QED
  BY <1>1, <1>3, <1>4, <1>5 DEF Reads

\* The nodes with the key are on the side the search goes to.
LEMMA SearchSide ==
  ASSUME NEW M, NEW K, NEW U, NEW v, NEW top, NEW open,
         Shape(M, K, U, v, top, {}, open), NEW n \in M, NEW w \in Keys, K[n] # w,
         NEW s, s = IF w < K[n] THEN "left" ELSE "right",
         NEW m \in M, K[m] = w, m \in U[n]
  PROVE  m \in Sub(U, v[n][s])
<1>1. s \in Sides /\ Other(s) \in Sides
  BY DEF Sides, Other
<1>2. K[n] \in Nat /\ w \in Nat
  BY AvlTreeAssumption DEF Shape, Types
<1>3. m \in {n} \cup Sub(U, v[n][s]) \cup Sub(U, v[n][Other(s)])
  BY <1>1, SetOf DEF Shape, Carried
<1>4. ~OnSide(K, m, n, Other(s))
  BY <1>2 DEF OnSide, Lt, Other
<1>5. m \notin Sub(U, v[n][Other(s)])
  BY <1>1, <1>4 DEF Shape, Order
<1> QED
  BY <1>3, <1>5

LEMMA FindReads ==
  ASSUME TypeOK, Control, NEW U, NEW v, Reads(U, v), Find
  PROVE  ~Mutating' /\ Reads(U, v)' /\ FindsMembers' /\ WalkIsSorted'
<1>1. /\ pc = "find" /\ UNCHANGED <<root, key, link, members, visited, want>> /\ pc' \in {"find", "found"}
      /\ want \in Keys /\ self \in members \cup {Nil}
  BY DEF Find, Run, memory, Control
<1>2. ~Mutating' /\ WalkIsSorted' /\ Walking(U, v)'
  BY <1>1 DEF Mutating, WalkIsSorted, Walking
<1>3. /\ Shape(members, key, U, v, root, {}, {})
      /\ \A n \in members, s \in Sides : v[n][s] = link[n][s]
      /\ \A m \in members : key[m] = want => m \in Sub(U, self)
  BY <1>1 DEF Reads, Searching
<1>4. ASSUME self # Nil => key[self] = want, pc' = "found", self' = self
      PROVE  Searching(U)' /\ FindsMembers'
  <2>1. Searching(U)'
    BY <1>4 DEF Searching
  <2>2. CASE self = Nil
    BY <1>1, <1>3, <1>4, <2>1, <2>2 DEF FindsMembers, Sub
  <2>3. CASE self # Nil
    BY <1>1, <1>4, <2>1, <2>3 DEF FindsMembers
  <2> QED
    BY <2>1, <2>2, <2>3
<1>5. ASSUME self # Nil, key[self] # want, pc' = "find", self' = link[self][SideOf(self)]
      PROVE  Searching(U)' /\ FindsMembers'
  <2>1. self \in members /\ Sub(U, self) = U[self]
    BY <1>1, <1>5 DEF Sub
  <2>2. SideOf(self) = (IF want < key[self] THEN "left" ELSE "right") /\ SideOf(self) \in Sides
    BY DEF SideOf, Less, Sides
  <2>3. \A m \in members : key[m] = want => m \in Sub(U, v[self][SideOf(self)])
    BY <1>1, <1>3, <1>5, <2>1, <2>2, SearchSide
  <2>4. self' = v[self][SideOf(self)]
    BY <1>3, <1>5, <2>1, <2>2
  <2> QED
    BY <1>1, <1>5, <2>3, <2>4 DEF Searching, FindsMembers
<1>6. Searching(U)' /\ FindsMembers'
  BY <1>4, <1>5 DEF Find, Run
<1> QED
  BY <1>1, <1>2, <1>3, <1>6 DEF Reads

LEMMA ApplyLeftReads ==
  ASSUME TypeOK, Control, NEW U, NEW v, Reads(U, v), ApplyLeft
  PROVE  ~Mutating' /\ Reads(U, v)'
<1> DEFINE n == Len(stack)
<1>0. PICK d : d = self
  OBVIOUS
<1>1. /\ pc = "apply" /\ pc' = "apply" /\ d \in members /\ self' = link[d]["left"]
      /\ stack' = Append(stack, [self |-> d, side |-> "left", next |-> "visit"])
      /\ UNCHANGED <<root, key, link, members, visited>>
      /\ "left" \in Sides /\ "right" \in Sides
  BY <1>0 DEF ApplyLeft, Run, Push, memory, Control, Sides
<1>2. /\ Shape(members, key, U, v, root, {}, {})
      /\ \A m \in members, s \in Sides : v[m][s] = link[m][s]
      /\ \A i \in DOMAIN visited : visited[i] \in members
      /\ \A x \in members : x \in Rest <=>
           x \in Sub(U, d) \/ \E i \in DOMAIN stack : x \in Awaits(U, v, stack[i].self)
      /\ \A i \in DOMAIN visited : \A y \in Rest : Lt(key, visited[i], y)
      /\ \A i, j \in DOMAIN visited : i < j => Lt(key, visited[i], visited[j])
      /\ \A i \in DOMAIN stack : \A x \in Sub(U, d) : Lt(key, x, stack[i].self)
      /\ \A i, j \in DOMAIN stack : i < j =>
           \A x \in Awaits(U, v, stack[j].self) : Lt(key, x, stack[i].self)
  BY <1>0, <1>1 DEF Reads, Walking
<1>3. ~Mutating' /\ Searching(U)'
  BY <1>1 DEF Mutating, Searching
<1>4. self' = v[d]["left"]
  BY <1>1, <1>2
<1>5. /\ Sub(U, d) = Sub(U, v[d]["left"]) \cup Awaits(U, v, d)
      /\ \A x \in Sub(U, v[d]["left"]) : Lt(key, x, d)
  <2>1. Sub(U, d) = U[d]
    BY <1>1, <1>2, AvlTreeAssumption DEF Sub, Shape, Types
  <2>2. U[d] = {d} \cup Sub(U, v[d]["left"]) \cup Sub(U, v[d]["right"])
    BY <1>1, <1>2 DEF Shape, Sets, Carried
  <2>3. \A x \in Sub(U, v[d]["left"]) : OnSide(key, x, d, "left")
    BY <1>1, <1>2 DEF Shape, Order
  <2> QED
    BY <2>1, <2>2, <2>3 DEF OnSide, Awaits
<1>6. /\ DOMAIN stack = 1 .. n /\ n \in Nat
      /\ DOMAIN stack' = 1 .. n + 1
      /\ \A i \in 1 .. n : stack'[i] = stack[i]
      /\ stack'[n + 1].self = d
  BY <1>1 DEF TypeOK
<1>7. Rest' = Rest
  BY <1>1 DEF Rest
<1> HIDE DEF n
<1>8. \A x \in members : x \in Rest <=>
        x \in Sub(U, v[d]["left"]) \/ \E i \in DOMAIN stack' : x \in Awaits(U, v, stack'[i].self)
  <2>1. \A i \in DOMAIN stack' : i \in 1 .. n \/ i = n + 1
    BY <1>6
  <2>2. \A x : (\E i \in DOMAIN stack' : x \in Awaits(U, v, stack'[i].self)) <=>
                x \in Awaits(U, v, d) \/ \E i \in DOMAIN stack : x \in Awaits(U, v, stack[i].self)
    BY <1>6, <2>1
  <2> QED
    BY <1>2, <1>5, <2>2
<1>9. \A i \in DOMAIN stack' : \A x \in Sub(U, v[d]["left"]) : Lt(key, x, stack'[i].self)
  BY <1>2, <1>5, <1>6
<1>10. \A i, j \in DOMAIN stack' : i < j =>
          \A x \in Awaits(U, v, stack'[j].self) : Lt(key, x, stack'[i].self)
  <2> SUFFICES ASSUME NEW i \in DOMAIN stack', NEW j \in DOMAIN stack', i < j
               PROVE  \A x \in Awaits(U, v, stack'[j].self) : Lt(key, x, stack'[i].self)
    OBVIOUS
  <2>1. i \in 1 .. n /\ (j \in 1 .. n \/ j = n + 1)
    BY <1>6
  <2>2. CASE j \in 1 .. n
    BY <1>2, <1>6, <2>1, <2>2
  <2>3. CASE j = n + 1
    <3>1. \A x \in Sub(U, d) : Lt(key, x, stack[i].self)
      BY <1>2, <1>6, <2>1
    <3>2. stack'[j].self = d /\ stack'[i] = stack[i]
      BY <1>6, <2>1, <2>3
    <3> QED
      BY <1>5, <3>1, <3>2
  <2> QED
    BY <2>1, <2>2, <2>3
<1>11. Walking(U, v)'
  BY <1>1, <1>2, <1>4, <1>7, <1>8, <1>9, <1>10 DEF Walking
<1> QED
  BY <1>1, <1>2, <1>3, <1>11 DEF Reads

LEMMA ApplyVisitReads ==
  ASSUME TypeOK, Control, NEW U, NEW v, Reads(U, v), ApplyVisit
  PROVE  ~Mutating' /\ Reads(U, v)'
<1> DEFINE n == Len(stack)
           nv == Len(visited)
<1>0. PICK p : p = stack[n].self
  OBVIOUS
<1>1. /\ pc = "apply" /\ pc' = "apply" /\ self = Nil /\ stack # << >>
      /\ visited' = Append(visited, p) /\ self' = link[p]["right"]
      /\ stack' = SubSeq(stack, 1, n - 1)
      /\ UNCHANGED <<root, key, link, members>>
      /\ "right" \in Sides
  BY <1>0 DEF ApplyVisit, Run, memory, Sides
<1>2. /\ DOMAIN stack = 1 .. n /\ n \in Nat /\ n # 0 /\ n \in 1 .. n
      /\ DOMAIN stack' = 1 .. n - 1
      /\ \A i \in 1 .. n - 1 : stack'[i] = stack[i]
      /\ \A i \in 1 .. n - 1 : i \in 1 .. n /\ i < n
      /\ \A i \in 1 .. n : i \in 1 .. n - 1 \/ i = n
  BY <1>1 DEF TypeOK
<1>3. p \in members /\ \A i \in 1 .. n : stack[i].self \in members
  BY <1>0, <1>2 DEF Control
<1>4. /\ Shape(members, key, U, v, root, {}, {})
      /\ \A m \in members, s \in Sides : v[m][s] = link[m][s]
      /\ \A i \in DOMAIN visited : visited[i] \in members
      /\ \A x \in members : x \in Rest <=>
           x \in Sub(U, self) \/ \E i \in DOMAIN stack : x \in Awaits(U, v, stack[i].self)
      /\ \A i \in DOMAIN visited : \A y \in Rest : Lt(key, visited[i], y)
      /\ \A i, j \in DOMAIN visited : i < j => Lt(key, visited[i], visited[j])
      /\ \A i, j \in DOMAIN stack : i < j =>
           \A x \in Awaits(U, v, stack[j].self) : Lt(key, x, stack[i].self)
  BY <1>1 DEF Reads, Walking
<1>5. ~Mutating' /\ Searching(U)'
  BY <1>1 DEF Mutating, Searching
<1>6. self' = v[p]["right"]
  BY <1>1, <1>3, <1>4
<1>7. Keyed(members, key)
  BY <1>4 DEF Shape, Types, Keyed
<1>8. /\ \A x \in members : ~Lt(key, x, x)
      /\ \A x, y, z \in members : Lt(key, x, y) /\ Lt(key, y, z) => Lt(key, x, z)
  BY <1>7, LtIsOrder
<1>9. /\ p \in Awaits(U, v, p)
      /\ Awaits(U, v, p) = {p} \cup Sub(U, self')
      /\ p \notin Sub(U, self')
  BY <1>1, <1>3, <1>4, <1>6, Below DEF Awaits
\* The nodes to the right of a node come after it.
<1>10. \A m \in members : \A x \in Awaits(U, v, m) : x \in members /\ (x = m \/ Lt(key, m, x))
  <2> SUFFICES ASSUME NEW m \in members, NEW x \in Sub(U, v[m]["right"])
               PROVE  x \in members /\ Lt(key, m, x)
    BY DEF Awaits
  <2>1. OnSide(key, x, m, "right")
    BY <1>1, <1>4 DEF Shape, Order
  <2>2. x \in U[m] /\ U[m] \subseteq members
    BY <1>1, <1>4, Below DEF Shape, Types
  <2> QED
    BY <2>1, <2>2 DEF OnSide
<1>11. /\ DOMAIN visited = 1 .. nv /\ nv \in Nat
       /\ DOMAIN visited' = 1 .. nv + 1
       /\ \A i \in 1 .. nv : visited'[i] = visited[i]
       /\ visited'[nv + 1] = p
       /\ \A i \in 1 .. nv + 1 : i \in 1 .. nv \/ i = nv + 1
       /\ \A i \in 1 .. nv : i \in 1 .. nv + 1
       /\ nv + 1 \in 1 .. nv + 1
       /\ \A i, j \in 1 .. nv + 1 : i < j => i \in 1 .. nv
  BY <1>1 DEF TypeOK
<1>12. p \in Rest
  BY <1>0, <1>2, <1>3, <1>4, <1>9
<1> HIDE DEF n, nv
<1>13. Rest' = Rest \ {p}
  <2>1. {visited'[i] : i \in DOMAIN visited'} = {visited[i] : i \in DOMAIN visited} \cup {p}
    BY <1>11
  <2> QED
    BY <1>1, <2>1 DEF Rest
<1>14. \A i \in 1 .. n - 1 : \A x \in Awaits(U, v, p) : Lt(key, x, stack'[i].self)
  BY <1>0, <1>2, <1>4
<1>15. \A i \in 1 .. n - 1 : p \notin Awaits(U, v, stack'[i].self)
  <2> SUFFICES ASSUME NEW i \in 1 .. n - 1, p \in Awaits(U, v, stack'[i].self)
               PROVE  FALSE
    OBVIOUS
  <2>1. stack'[i].self \in members
    BY <1>2, <1>3
  <2>2. Lt(key, p, stack'[i].self)
    BY <1>9, <1>14
  <2>3. p = stack'[i].self \/ Lt(key, stack'[i].self, p)
    BY <1>10, <2>1
  <2> QED
    BY <1>3, <1>8, <2>1, <2>2, <2>3
<1>16. \A x \in members : x \in Rest' <=>
         x \in Sub(U, self') \/ \E i \in DOMAIN stack' : x \in Awaits(U, v, stack'[i].self)
  <2>1. Sub(U, self) = {}
    BY <1>1 DEF Sub
  <2>2. \A x \in members : x \in Rest <=>
          x \in Awaits(U, v, p) \/ \E i \in 1 .. n - 1 : x \in Awaits(U, v, stack'[i].self)
    BY <1>0, <1>2, <1>4, <2>1
  <2> QED
    BY <1>2, <1>9, <1>13, <1>15, <2>2
<1>17. \A i \in DOMAIN visited' : visited'[i] \in members
  BY <1>3, <1>4, <1>11
<1>18. \A y \in Rest' : Lt(key, p, y)
  <2> SUFFICES ASSUME NEW y \in Rest' PROVE Lt(key, p, y)
    OBVIOUS
  <2>1. y \in members /\ y # p
    BY <1>13 DEF Rest
  <2>2. CASE y \in Sub(U, self')
    BY <1>3, <1>9, <1>10, <2>1, <2>2
  <2>3. CASE y \notin Sub(U, self')
    <3>1. PICK i \in 1 .. n - 1 : y \in Awaits(U, v, stack'[i].self)
      BY <1>2, <1>16, <2>1, <2>3
    <3>2. stack'[i].self \in members /\ Lt(key, p, stack'[i].self)
      BY <1>2, <1>3, <1>9, <1>14, <3>1
    <3>3. y = stack'[i].self \/ Lt(key, stack'[i].self, y)
      BY <1>10, <3>1, <3>2
    <3> QED
      BY <1>3, <1>8, <2>1, <3>2, <3>3
  <2> QED
    BY <2>2, <2>3
<1>19. \A i \in DOMAIN visited' : \A y \in Rest' : Lt(key, visited'[i], y)
  BY <1>4, <1>11, <1>13, <1>18
<1>20. \A i, j \in DOMAIN visited' : i < j => Lt(key, visited'[i], visited'[j])
  BY <1>4, <1>11, <1>12
<1>21. \A i \in DOMAIN stack' : \A x \in Sub(U, self') : Lt(key, x, stack'[i].self)
  BY <1>2, <1>9, <1>14
<1>22. \A i, j \in DOMAIN stack' : i < j =>
         \A x \in Awaits(U, v, stack'[j].self) : Lt(key, x, stack'[i].self)
  BY <1>2, <1>4
<1>23. Walking(U, v)'
  BY <1>1, <1>16, <1>17, <1>19, <1>20, <1>21, <1>22 DEF Walking
<1> QED
  BY <1>1, <1>4, <1>5, <1>23 DEF Reads

LEMMA ApplyEndReads ==
  ASSUME TypeOK, Control, NEW U, NEW v, Reads(U, v), ApplyEnd
  PROVE  ~Mutating' /\ Reads(U, v)' /\ WalkIsSorted'
<1>1. /\ pc = "apply" /\ pc' = "walked" /\ self = Nil /\ stack = << >>
      /\ UNCHANGED <<root, key, link, members, visited>>
  BY DEF ApplyEnd, Run, memory
<1>2. /\ \A i \in DOMAIN visited : visited[i] \in members
      /\ \A x \in members : x \in Rest <=>
           x \in Sub(U, self) \/ \E i \in DOMAIN stack : x \in Awaits(U, v, stack[i].self)
      /\ \A i, j \in DOMAIN visited : i < j => Lt(key, visited[i], visited[j])
  BY <1>1 DEF Reads, Walking
<1>3. Rest = {}
  BY <1>1, <1>2 DEF Rest, Sub
<1>4. {visited[i] : i \in DOMAIN visited} = members
  BY <1>2, <1>3 DEF Rest
<1>5. \A i, j \in DOMAIN visited : i < j => Before(visited[i], visited[j])
  BY <1>2 DEF Lt, Before
<1>6. WalkIsSorted'
  BY <1>1, <1>4, <1>5 DEF WalkIsSorted, Before
<1>7. ~Mutating' /\ Searching(U)' /\ Walking(U, v)'
  BY <1>1 DEF Mutating, Searching, Walking
<1> QED
  BY <1>1, <1>6, <1>7 DEF Reads

-----------------------------------------------------------------------------
(* The invariant of the tree.                                              *)

LEMMA TreeInvLinked == TreeInv => Linked
<1> SUFFICES ASSUME TreeInv PROVE Linked
  OBVIOUS
<1>0. TypeOK /\ Control
  BY DEF TreeInv
<1>1. ASSUME Mutating
      PROVE  Linked
  <2>1. PICK U, v : Changes(U, v)
    BY <1>1 DEF TreeInv
  <2>2. /\ Waiting(members, key, U, v, link, stack, self, Load(U))
        /\ Shape(members, key, U, v, TopOf(stack, self), Load(U), OpenOf(stack))
        /\ self \notin OpenOf(stack) /\ Nil \notin Nodes /\ members \subseteq Nodes
    BY <1>0, <2>1, ChangesWaits
  <2>3. \A n \in members \ OpenOf(stack), t \in Sides : link[n][t] = v[n][t]
    BY <2>2, Current
  <2>4. \A n \in members, t \in Sides : v[n][t] \in members \cup {Nil}
    BY <2>2 DEF Shape, Types
  <2>5. ASSUME self \in members, NEW s \in Sides
        PROVE  /\ link[self][s] \in (members \ {self}) \cup {Nil}
               /\ link[self][s] # Nil => \A t \in Sides : link[link[self][s]][t] \in members \cup {Nil}
    <3>1. link[self][s] = v[self][s]
      BY <2>2, <2>3, <2>5
    <3>2. v[self][s] \notin OpenOf(stack) \cup {self}
      BY <2>2, <2>5, ChildWaitsNot
    <3> QED
      BY <2>3, <2>4, <2>5, <3>1, <3>2
  <2>6. pc \in {"insert", "move_right"} => arg \in members \cup {Nil}
    BY <2>1 DEF Changes, Carrying
  <2> QED
    BY <1>1, <2>2, <2>5, <2>6 DEF Linked
<1>2. ASSUME ~Mutating
      PROVE  Linked
  <2>1. PICK U, v : Reads(U, v)
    BY <1>2 DEF TreeInv
  <2>2. /\ Shape(members, key, U, v, root, {}, {}) /\ members \subseteq Nodes /\ Nil \notin Nodes
        /\ \A n \in members, t \in Sides : v[n][t] = link[n][t]
    BY <1>0, <2>1, AvlTreeAssumption DEF Reads, TypeOK
  <2>3. \A n \in members, t \in Sides : link[n][t] \in members \cup {Nil}
    BY <2>2 DEF Shape, Types
  <2>4. \A n \in members, t \in Sides : link[n][t] # Nil => link[n][t] # n
    BY <2>2, Below
  <2>5. ~(pc \in {"insert", "move_right"})
    BY <1>2 DEF Mutating
  <2> QED
    BY <1>2, <2>2, <2>3, <2>4, <2>5 DEF Linked
<1> QED
  BY <1>1, <1>2

LEMMA TreeInvInit == Init => TreeInv
<1> SUFFICES ASSUME Init PROVE TreeInv
  OBVIOUS
<1>1. TypeOK
  BY DEF Init, TypeOK, NoLinks, Functions
<1>2. Control
  BY DEF Init, Control, NoLinks
<1>3. FindsMembers /\ WalkIsSorted /\ ~Mutating
  BY DEF Init, FindsMembers, WalkIsSorted, Mutating
<1>4. PICK U : U = [n \in Nodes |-> {}]
  OBVIOUS
<1>5. Shape(members, key, U, link, root, {}, {})
  BY <1>1, <1>4 DEF Init, Shape, Types, Sets, Order, Parents, Sub, TypeOK
<1>6. Searching(U) /\ Walking(U, link)
  BY DEF Init, Searching, Walking
<1>7. Reads(U, link)
  BY <1>5, <1>6 DEF Reads
<1>8. \E W, w : Reads(W, w)
  BY <1>7
<1> QED
  BY <1>1, <1>2, <1>3, <1>8 DEF TreeInv

LEMMA TreeInvStep == TreeInv /\ Step => TreeInv'
<1> SUFFICES ASSUME TreeInv, Step PROVE TreeInv'
  OBVIOUS
<1>1. TypeOK /\ Control /\ TypeOK' /\ Control'
  BY TreeInvLinked, StepTypes, StepControl DEF TreeInv
<1>2. ASSUME Mutating, Mutating', \E W, w : Changes(W, w)'
      PROVE  TreeInv'
  <2>1. FindsMembers' /\ WalkIsSorted'
    BY <1>2 DEF Mutating, FindsMembers, WalkIsSorted
  <2> QED
    BY <1>1, <1>2, <2>1 DEF TreeInv
<1>3. ASSUME ~Mutating', \E W, w : Reads(W, w)', FindsMembers', WalkIsSorted'
      PROVE  TreeInv'
  BY <1>1, <1>3 DEF TreeInv
<1>4. ASSUME Mutating PROVE TreeInv'
  <2>1. PICK U, v : Changes(U, v)
    BY <1>4 DEF TreeInv
  <2>2. ASSUME Descend PROVE TreeInv'
    BY <1>1, <1>2, <1>4, <2>1, <2>2, DescendChanges
  <2>3. ASSUME Place, pc # "remove" PROVE TreeInv'
    BY <1>1, <1>2, <1>4, <2>1, <2>3, PlaceChanges
  <2>4. ASSUME Place, pc = "remove" PROVE TreeInv'
    BY <1>1, <1>2, <1>4, <2>1, <2>4, RemoveNothingChanges
  <2>5. ASSUME RemoveSelf PROVE TreeInv'
    BY <1>1, <1>2, <1>4, <2>1, <2>5, RemoveSelfChanges
  <2>6. ASSUME TREE_MOVE_RIGHT PROVE TreeInv'
    BY <1>1, <1>2, <1>4, <2>1, <2>6, MoveRightChanges
  <2>7. ASSUME TREE_ROTL PROVE TreeInv'
    <3>1. pc \in {"rotl", "rotr"} /\ "right" \in Sides /\ Rotate("right") /\ link[self]["right"] \in members
      BY <1>1, <2>7 DEF TREE_ROTL, Control, Sides
    <3> QED
      BY <1>1, <1>2, <1>4, <2>1, <3>1, RotateChanges
  <2>8. ASSUME TREE_ROTR PROVE TreeInv'
    <3>1. pc \in {"rotl", "rotr"} /\ "left" \in Sides /\ Rotate("left") /\ link[self]["left"] \in members
      BY <1>1, <2>8 DEF TREE_ROTR, Control, Sides
    <3> QED
      BY <1>1, <1>2, <1>4, <2>1, <3>1, RotateChanges
  <2>9. ASSUME BalanceSide("right", -1, "rotl", "rotr") PROVE TreeInv'
    BY <1>1, <1>2, <1>4, <2>1, <2>9, BalanceSideChanges DEF Sides
  <2>10. ASSUME BalanceSide("left", 1, "rotr", "rotl") PROVE TreeInv'
    BY <1>1, <1>2, <1>4, <2>1, <2>10, BalanceSideChanges DEF Sides
  <2>11. ASSUME Balanced PROVE TreeInv'
    BY <1>1, <1>2, <1>4, <2>1, <2>11, BalancedChanges
  <2>12. ASSUME Resume PROVE TreeInv'
    BY <1>1, <1>2, <1>4, <2>1, <2>12, ResumeChanges
  <2>13. ASSUME Finish PROVE TreeInv'
    <3>1. FindsMembers' /\ WalkIsSorted'
      BY <2>13 DEF Finish, Run, FindsMembers, WalkIsSorted
    <3> QED
      BY <1>1, <1>3, <2>1, <2>13, <3>1, FinishReads
  <2>14. ~Find /\ ~ApplyLeft /\ ~ApplyVisit /\ ~ApplyEnd
    BY <1>4 DEF Mutating, Find, ApplyLeft, ApplyVisit, ApplyEnd
  <2> QED
    BY <2>2, <2>3, <2>4, <2>5, <2>6, <2>7, <2>8, <2>9, <2>10, <2>11, <2>12, <2>13, <2>14
       DEF Step, TREE_BALANCE
<1>5. ASSUME ~Mutating PROVE TreeInv'
  <2>1. PICK U, v : Reads(U, v)
    BY <1>5 DEF TreeInv
  <2>2. ASSUME Find PROVE TreeInv'
    BY <1>1, <1>3, <2>1, <2>2, FindReads
  <2>3. ASSUME ApplyLeft PROVE TreeInv'
    <3>1. FindsMembers' /\ WalkIsSorted'
      BY <2>3 DEF ApplyLeft, Run, FindsMembers, WalkIsSorted
    <3> QED
      BY <1>1, <1>3, <2>1, <2>3, <3>1, ApplyLeftReads
  <2>4. ASSUME ApplyVisit PROVE TreeInv'
    <3>1. FindsMembers' /\ WalkIsSorted'
      BY <2>4 DEF ApplyVisit, Run, FindsMembers, WalkIsSorted
    <3> QED
      BY <1>1, <1>3, <2>1, <2>4, <3>1, ApplyVisitReads
  <2>5. ASSUME ApplyEnd PROVE TreeInv'
    <3>1. FindsMembers'
      BY <2>5 DEF ApplyEnd, Run, FindsMembers
    <3> QED
      BY <1>1, <1>3, <2>1, <2>5, <3>1, ApplyEndReads
  <2>6. /\ ~Descend /\ ~Place /\ ~RemoveSelf /\ ~TREE_MOVE_RIGHT
        /\ ~TREE_ROTL /\ ~TREE_ROTR /\ ~TREE_BALANCE /\ ~Resume /\ ~Finish
    BY <1>5 DEF Mutating, Descend, Place, RemoveSelf, TREE_MOVE_RIGHT,
         TREE_ROTL, TREE_ROTR, TREE_BALANCE, BalanceSide, Balanced, Resume, Finish
  <2> QED
    BY <2>2, <2>3, <2>4, <2>5, <2>6 DEF Step
<1> QED
  BY <1>4, <1>5

-----------------------------------------------------------------------------
(* The calls of the users.                                                 *)

\* Between calls the tree is the one in memory.
LEMMA BetweenCalls ==
  ASSUME TreeInv, pc \in {"idle", "found"}
  PROVE  /\ TypeOK /\ Control /\ stack = << >> /\ ~Mutating
         /\ \E U, v : Reads(U, v)
BY DEF TreeInv, Control, Mutating

\* A new node comes after those with the same key.
LEMMA InsertCall ==
  ASSUME TreeInv, pc \in {"idle", "found"},
         NEW elm \in Nodes \ members, NEW k \in Keys, TREE_INSERT(elm, k),
         \A m \in members : key[m] = k => m < elm
  PROVE  TreeInv'
<1>1. /\ TypeOK /\ Control /\ stack = << >> /\ members \subseteq Nodes /\ Nil \notin Nodes
      /\ Nil \notin Keys /\ self \in members \cup {Nil}
  BY BetweenCalls, AvlTreeAssumption DEF TypeOK, Control
<1>2. PICK U, v : Reads(U, v)
  BY BetweenCalls
<1>3. /\ Shape(members, key, U, v, root, {}, {})
      /\ \A n \in members, s \in Sides : v[n][s] = link[n][s]
  BY <1>2 DEF Reads
<1>4. /\ key' = [key EXCEPT ![elm] = k] /\ members' = members \cup {elm}
      /\ pc' = "insert" /\ self' = root /\ arg' = elm /\ want' = k
      /\ UNCHANGED <<root, link, height, stack, visited>>
  BY DEF TREE_INSERT, Run
<1>5. root \in members \cup {Nil} /\ \A n \in members, s \in Sides : v[n][s] \in members \cup {Nil}
  BY <1>3 DEF Shape, Types
<1>6. /\ key' \in [Nodes -> Keys \cup {Nil}] /\ key'[elm] = k
      /\ \A n \in members : key'[n] = key[n]
  BY <1>1, <1>4 DEF TypeOK
<1>7. TypeOK'
  BY <1>1, <1>4, <1>5, <1>6 DEF TypeOK, Functions
<1>8. Control'
  BY <1>1, <1>4, <1>5 DEF Control
<1>9. PICK W, w : W = [U EXCEPT ![elm] = {elm}] /\ w = [v EXCEPT ![elm] = NoLinks]
  OBVIOUS
<1>10. /\ W[elm] = {elm} /\ \A s \in Sides : w[elm][s] = Nil
       /\ \A n \in members : w[n] = v[n]
  BY <1>1, <1>3, <1>9 DEF Shape, Types, NoLinks
<1>11. Shape(members \cup {elm}, key', W, w, root, {elm}, {})
  BY <1>3, <1>6, <1>9, InsertShape
<1>12. /\ TopOf(stack', self') = root /\ OpenOf(stack') = {} /\ Len(stack') = 0
       /\ Load(W)' = {elm}
  BY <1>1, <1>4, <1>10 DEF TopOf, OpenOf, Load, Sub
<1>13. View(members', link', stack', self', w)
  <2>1. \A n \in members', s \in Sides : w[n][s] = link'[n][s]
    BY <1>1, <1>3, <1>4, <1>10 DEF Control
  <2> QED
    BY <1>12, <2>1 DEF View
<1>14. Carrying(W, w)'
  <2>1. elm # Nil /\ elm # root
    BY <1>1, <1>5
  <2>2. \A n \in members', s \in Sides : w[n][s] # elm
    BY <1>4, <1>5, <1>10, <2>1
  <2>3. \A m \in members : key'[m] = k => m < elm
    BY <1>6
  <2> QED
    BY <1>1, <1>4, <1>6, <1>10, <1>12, <2>1, <2>2, <2>3 DEF Carrying
<1>15. Removing(W)' /\ Searching(W)' /\ Mutating' /\ FindsMembers' /\ WalkIsSorted'
  BY <1>4 DEF Removing, Searching, Mutating, FindsMembers, WalkIsSorted
<1>16. Changes(W, w)'
  BY <1>4, <1>11, <1>12, <1>13, <1>14, <1>15 DEF Changes
<1>17. \E X, x : Changes(X, x)'
  BY <1>16
<1> QED
  BY <1>7, <1>8, <1>15, <1>17 DEF TreeInv

LEMMA ReadCall ==
  ASSUME TreeInv, pc = "idle",
         \/ \E k \in Keys : TREE_FIND(k)
         \/ TREE_FORWARD_APPLY
  PROVE  TreeInv'
<1>1. TypeOK /\ Control /\ stack = << >>
  BY BetweenCalls
<1>2. PICK U, v : Reads(U, v)
  BY BetweenCalls
<1>3. /\ Shape(members, key, U, v, root, {}, {})
      /\ \A n \in members, s \in Sides : v[n][s] = link[n][s]
  BY <1>2 DEF Reads
<1>4. /\ UNCHANGED <<root, memory, stack>> /\ self' = root /\ arg' = Nil
      /\ \/ pc' = "find" /\ want' \in Keys /\ visited' = visited
         \/ pc' = "apply" /\ want' = Nil /\ visited' = << >>
  BY DEF TREE_FIND, TREE_FORWARD_APPLY, Run
<1>5. TypeOK'
  <2>1. visited' \in Seq(Nodes) /\ want' \in Keys \cup {Nil} /\ pc' \in Functions
    <3>1. << >> \in Seq(Nodes)
      OBVIOUS
    <3>2. visited \in Seq(Nodes)
      BY <1>1 DEF TypeOK
    <3>3. visited' \in Seq(Nodes)
      BY <1>4, <3>1, <3>2
    <3> QED
      BY <1>4, <3>3 DEF Functions
  <2> QED
    BY <1>1, <1>4, <2>1 DEF TypeOK, memory
<1>6. root \in members \cup {Nil} /\ Sub(U, root) = members
  BY <1>3 DEF Shape, Types, Sets
<1>7. Control'
  BY <1>1, <1>4, <1>6 DEF Control, memory
<1>8. FindsMembers' /\ WalkIsSorted' /\ ~Mutating'
  BY <1>4 DEF FindsMembers, WalkIsSorted, Mutating
<1>9. Searching(U)'
  BY <1>4, <1>6 DEF Searching, memory
<1>10. Walking(U, v)'
  <2>1. ASSUME visited' = << >>
        PROVE  Rest' = members
    BY <1>4, <2>1 DEF Rest, memory
  <2> QED
    BY <1>1, <1>4, <1>6, <2>1 DEF Walking, memory
<1>11. Reads(U, v)'
  BY <1>3, <1>4, <1>9, <1>10 DEF Reads, memory
<1>12. \E X, x : Reads(X, x)'
  BY <1>11
<1> QED
  BY <1>5, <1>7, <1>8, <1>12 DEF TreeInv

LEMMA RemoveCall ==
  ASSUME TreeInv, pc = "found", NEW k \in Keys, TREE_REMOVE(k)
  PROVE  TreeInv'
<1>1. TypeOK /\ Control /\ stack = << >>
  BY BetweenCalls
<1>2. PICK U, v : Reads(U, v)
  BY BetweenCalls
<1>3. /\ Shape(members, key, U, v, root, {}, {})
      /\ \A n \in members, s \in Sides : v[n][s] = link[n][s]
  BY <1>2 DEF Reads
<1>4. /\ UNCHANGED <<root, memory, stack, visited>> /\ self' = root /\ arg' = Nil
      /\ pc' = "remove" /\ want' = k
  BY DEF TREE_REMOVE, Run
<1>5. TypeOK'
  BY <1>1, <1>4 DEF TypeOK, Functions, memory
<1>6. root \in members \cup {Nil} /\ Sub(U, root) = members
  BY <1>3 DEF Shape, Types, Sets
<1>7. Control'
  BY <1>1, <1>4, <1>6 DEF Control, memory
<1>8. FindsMembers' /\ WalkIsSorted' /\ Mutating'
  BY <1>4 DEF FindsMembers, WalkIsSorted, Mutating
<1>9. Searching(U)' /\ Removing(U)' /\ Carrying(U, v)'
  BY <1>1, <1>4, <1>6 DEF Searching, Removing, Carrying, memory
<1>10. /\ TopOf(stack', self') = root /\ OpenOf(stack') = {} /\ Len(stack') = 0
       /\ Load(U)' = {}
  BY <1>1, <1>4 DEF TopOf, OpenOf, Load
<1>11. View(members', link', stack', self', v)
  BY <1>3, <1>4, <1>10 DEF View, memory
<1>12. Changes(U, v)'
  BY <1>3, <1>4, <1>9, <1>10, <1>11 DEF Changes, memory
<1>13. \E X, x : Changes(X, x)'
  BY <1>12
<1> QED
  BY <1>5, <1>7, <1>8, <1>13 DEF TreeInv

LEMMA NoCall ==
  ASSUME TreeInv, UNCHANGED treeVars
  PROVE  TreeInv'
<1>1. UNCHANGED <<root, key, link, height, pc, self, arg, want, stack, members, visited>>
  BY DEF treeVars
<1>2. TypeOK' /\ Control' /\ FindsMembers' /\ WalkIsSorted' /\ (Mutating' <=> Mutating)
  BY <1>1 DEF TreeInv, TypeOK, Control, FindsMembers, WalkIsSorted, Before, Mutating
<1>3. ASSUME Mutating
      PROVE  \E U, v : Changes(U, v)'
  <2>1. PICK U, v : Changes(U, v)
    BY <1>3 DEF TreeInv
  <2>2. Changes(U, v)'
    BY <1>1, <2>1 DEF Changes, Load, Carrying, Removing, Searching
  <2> QED
    BY <2>2
<1>4. ASSUME ~Mutating
      PROVE  \E U, v : Reads(U, v)'
  <2>1. PICK U, v : Reads(U, v)
    BY <1>4 DEF TreeInv
  <2>2. Reads(U, v)'
    BY <1>1, <2>1 DEF Reads, Searching, Walking, Rest
  <2> QED
    BY <2>2
<1> QED
  BY <1>2, <1>3, <1>4 DEF TreeInv

-----------------------------------------------------------------------------
(* What the users see of a step.                                           *)

LEMMA CallerGoesOn ==
  ASSUME TypeOK, stack # << >>
  PROVE  stack[Len(stack)].next \in {"balance", "rotl", "rotr", "visit"}
<1>1. stack \in Seq(Frames)
  BY DEF TypeOK
<1>2. stack[Len(stack)] \in Frames
  BY <1>1
<1> QED
  BY <1>2 DEF Frames

\* The nodes change only where a removal has found its node.
LEMMA OnlyRemoveSelf ==
  ASSUME TypeOK, Step
  PROVE  \/ /\ RemoveSelf
            /\ self # Nil /\ key[self] = want /\ members' = members \ {self}
            /\ pc' = "move_right" /\ key' = [key EXCEPT ![self] = Nil]
         \/ /\ UNCHANGED <<key, members>>
            /\ pc' = "remove" => pc = "remove" /\ want' = want
<1>1. CASE RemoveSelf
  BY <1>1 DEF RemoveSelf, Run
<1>2. CASE ~RemoveSelf
  BY <1>2, CallerGoesOn DEF Step, Descend, Place, TREE_MOVE_RIGHT, TREE_ROTL,
       TREE_ROTR, Rotate, TREE_BALANCE, BalanceSide, Balanced, Resume, Finish, Find,
       ApplyLeft, ApplyVisit, ApplyEnd, Run, Return, memory
<1> QED
  BY <1>1, <1>2

\* The steps that neither visit a node nor end a walk.
LEMMA WalksOn ==
  ASSUME TypeOK, Step, ~ApplyVisit, ~ApplyEnd
  PROVE  visited' = visited /\ (pc' = "apply" <=> pc = "apply")
BY CallerGoesOn DEF Step, Descend, Place, RemoveSelf, TREE_MOVE_RIGHT, TREE_ROTL,
     TREE_ROTR, Rotate, TREE_BALANCE, BalanceSide, Balanced, Resume, Finish, Find,
     ApplyLeft, Run, Return, memory

\* The walk visits the least of the nodes that are left ...
LEMMA VisitsLeast ==
  ASSUME TreeInv, TreeInv', ApplyVisit
  PROVE  \E p \in Rest : /\ visited' = Append(visited, p)
                         /\ \A m \in Rest \ {p} : Lt(key, p, m)
<1>1. PICK p : p = stack[Len(stack)].self
  OBVIOUS
<1>2. /\ pc = "apply" /\ pc' = "apply" /\ visited' = Append(visited, p)
      /\ UNCHANGED <<key, members>>
  BY <1>1 DEF ApplyVisit, Run, memory
<1>3. PICK U, v : Reads(U, v)'
  BY <1>2 DEF TreeInv, Mutating
<1>4. /\ \A i \in DOMAIN visited' : visited'[i] \in members
      /\ \A i \in DOMAIN visited' : \A y \in Rest' : Lt(key, visited'[i], y)
      /\ \A i, j \in DOMAIN visited' : i < j => Lt(key, visited'[i], visited'[j])
  BY <1>2, <1>3 DEF Reads, Walking
<1>5. PICK nv \in Nat : visited \in Seq(Nodes) /\ nv = Len(visited)
  BY DEF TreeInv, TypeOK
<1>6. /\ DOMAIN visited = 1 .. nv /\ DOMAIN visited' = 1 .. nv + 1
      /\ \A i \in 1 .. nv : visited'[i] = visited[i]
      /\ visited'[nv + 1] = p
      /\ nv + 1 \in 1 .. nv + 1
      /\ \A i \in 1 .. nv : i \in 1 .. nv + 1 /\ i < nv + 1
      /\ \A i \in 1 .. nv + 1 : i \in 1 .. nv \/ i = nv + 1
  BY <1>2, <1>5
<1>7. p \in members /\ \A i \in 1 .. nv : Lt(key, visited[i], p)
  BY <1>4, <1>6
<1>8. ~Lt(key, p, p)
  <2>1. Keyed(members, key)
    BY <1>2, <1>3 DEF Reads, Shape, Types, Keyed
  <2> QED
    BY <1>7, <2>1, LtIsOrder
<1>9. p \in Rest
  BY <1>6, <1>7, <1>8 DEF Rest
<1>10. Rest' = Rest \ {p}
  <2>1. {visited'[i] : i \in DOMAIN visited'} = {visited[i] : i \in DOMAIN visited} \cup {p}
    BY <1>6
  <2> QED
    BY <1>2, <2>1 DEF Rest
<1>11. \A m \in Rest \ {p} : Lt(key, p, m)
  BY <1>4, <1>6, <1>10
<1> QED
  BY <1>2, <1>9, <1>11

\* ... and ends when none is left.
LEMMA EndsEmpty ==
  ASSUME TreeInv', ApplyEnd
  PROVE  Rest = {}
<1>1. pc' = "walked" /\ UNCHANGED <<members, visited>>
  BY DEF ApplyEnd, Run, memory
<1>2. {visited[i] : i \in DOMAIN visited} = members
  BY <1>1 DEF TreeInv, WalkIsSorted
<1> QED
  BY <1>2 DEF Rest

-----------------------------------------------------------------------------
(* The order of the records.                                               *)

\* The records added so far are the ones numbered below nr.
RecordsInv ==
  /\ TreeInv
  /\ nr \in Nat
  /\ members = {n \in Nodes : n < nr}
  /\ pc # "remove"

\* No record is ever removed.
LEMMA RecordsStay ==
  ASSUME TypeOK, pc # "remove", Step
  PROVE  pc' # "remove" /\ UNCHANGED <<key, members>>
BY OnlyRemoveSelf DEF RemoveSelf

LEMMA RecordsInit == RecordOrderInit => RecordsInv
BY TreeInvInit, AvlTreeAssumption DEF RecordOrderInit, RecordsInv, Init

LEMMA RecordsStep == RecordsInv /\ [RecordOrderNext]_recordVars => RecordsInv'
<1> SUFFICES ASSUME RecordsInv, [RecordOrderNext]_recordVars
             PROVE  RecordsInv'
  OBVIOUS
<1> USE DEF RecordsInv
<1>1. ASSUME NEW time \in Keys, add_record_order(time)
      PROVE  RecordsInv'
  <2>1. nr \in Nodes \ members /\ \A m \in members : key[m] = time => m < nr
    BY <1>1 DEF add_record_order
  <2>2. PICK elm : elm = nr
    OBVIOUS
  <2>3. elm \in Nodes \ members /\ \A m \in members : key[m] = time => m < elm
    BY <2>1, <2>2
  <2>4. TREE_INSERT(elm, time) /\ pc = "idle" /\ nr' = nr + 1
    BY <1>1, <2>2 DEF add_record_order
  <2>5. TreeInv'
    BY <2>3, <2>4, InsertCall
  <2>6. members' = members \cup {nr} /\ pc' # "remove"
    BY <2>2, <2>4 DEF TREE_INSERT, Run
  <2>7. members' = {n \in Nodes : n < nr'}
    <3>1. nr \in Nodes /\ Nodes \subseteq Nat /\ nr' = nr + 1
      BY <2>1, <2>4, AvlTreeAssumption
    <3>2. \A n \in Nodes : n < nr + 1 <=> n < nr \/ n = nr
      BY <3>1
    <3> QED
      BY <2>6, <3>1, <3>2
  <2> QED
    BY <2>4, <2>5, <2>6, <2>7
<1>2. ASSUME iterate_order
      PROVE  RecordsInv'
  <2>1. TreeInv'
    BY <1>2, ReadCall DEF iterate_order
  <2> QED
    BY <1>2, <2>1 DEF iterate_order, TREE_FORWARD_APPLY, Run, memory
<1>3. ASSUME Step, UNCHANGED nr
      PROVE  RecordsInv'
  BY <1>3, TreeInvStep, RecordsStay DEF TreeInv
<1>4. ASSUME UNCHANGED recordVars
      PROVE  RecordsInv'
  BY <1>4, NoCall DEF recordVars, treeVars
<1> QED
  BY <1>1, <1>2, <1>3, <1>4 DEF RecordOrderNext

LEMMA RecordsAlways == RecordOrderSpec => []RecordsInv
BY RecordsInit, RecordsStep, PTL DEF RecordOrderSpec

LEMMA TreeTypes == TreeInv => TypeOK
BY DEF TreeInv

LEMMA TreePointers == TreeInv => NoWildPointer
BY DEF TreeInv, Control, NoWildPointer

(***************************************************************************)
(* Inserting and walking, every variable keeps its type.                   *)
(***************************************************************************)
THEOREM RecordOrderTypes == RecordOrderSpec => []TypeOK
BY RecordsAlways, TreeTypes, PTL DEF RecordsInv

(***************************************************************************)
(* While records are added, whatever their times, no rotation and no caller*)
(* works on a null pointer.                                                *)
(***************************************************************************)
THEOREM RecordPointers == RecordOrderSpec => []NoWildPointer
BY RecordsAlways, TreePointers, PTL DEF RecordsInv

(***************************************************************************)
(* The replay visits every record of the file once, by time, and records of*)
(* the same time in the order of the file.                                 *)
(***************************************************************************)
THEOREM RecordsSorted == RecordOrderSpec => []WalkIsSorted
<1>1. RecordsInv => WalkIsSorted
  BY DEF RecordsInv, TreeInv
<1> QED
  BY <1>1, RecordsAlways, PTL

-----------------------------------------------------------------------------
(* The records refine the sorted sequence.                                 *)

LEMMA SortedInit == RecordOrderInit => Sorted!Init
BY DEF RecordOrderInit, Init, Sorted!Init

LEMMA SortedStep ==
  ASSUME RecordsInv, RecordsInv', [RecordOrderNext]_recordVars
  PROVE  [Sorted!Next]_(Sorted!vars)
<1>1. TreeInv /\ TreeInv' /\ pc # "remove" /\ TypeOK
  BY DEF RecordsInv, TreeInv
<1>2. Sorted!Added = members /\ Sorted!Left = Rest
  BY DEF Sorted!Added, Sorted!Left, Rest
<1>3. \A m, n \in members : Lt(key, m, n) <=> Sorted!Before(m, n)
  BY DEF Sorted!Before, Lt
<1>4. ASSUME NEW time \in Keys, add_record_order(time)
      PROVE  Sorted!Next
  <2>1. /\ pc = "idle" /\ pc' = "insert" /\ nr \in Nodes /\ nr \notin members
        /\ key' = [key EXCEPT ![nr] = time] /\ members' = members \cup {nr}
        /\ visited' = visited
        /\ \A m \in members : m < nr
    BY <1>4 DEF add_record_order, TREE_INSERT, Run, RecordsInv
  <2>2. [n \in members' |-> key'[n]]
          = [m \in members \cup {nr} |-> IF m = nr THEN time ELSE [n \in members |-> key[n]][m]]
    BY <1>1, <2>1 DEF TypeOK
  <2>3. Sorted!add_record(nr, time)
    BY <1>2, <2>1, <2>2 DEF Sorted!add_record
  <2> QED
    BY <2>1, <2>3 DEF Sorted!Next
<1>5. ASSUME iterate_order
      PROVE  Sorted!Next
  BY <1>5 DEF iterate_order, TREE_FORWARD_APPLY, Run, memory, Sorted!Next, Sorted!iterate_order
<1>6. ASSUME ApplyVisit
      PROVE  Sorted!Next
  <2>1. PICK p \in Rest : /\ visited' = Append(visited, p)
                          /\ \A m \in Rest \ {p} : Lt(key, p, m)
    BY <1>1, <1>6, VisitsLeast
  <2>2. /\ pc = "apply" /\ pc' = "apply" /\ UNCHANGED <<key, members>>
    BY <1>6 DEF ApplyVisit, Run, memory
  <2>3. p \in Nodes /\ Rest \subseteq members /\ p \in members
    BY <1>1 DEF Rest, TypeOK
  <2>4. \A m \in Rest \ {p} : Sorted!Before(p, m)
    BY <1>3, <2>1, <2>3
  <2>5. Sorted!callback(p)
    BY <1>2, <2>1, <2>2, <2>4 DEF Sorted!callback
  <2> QED
    BY <2>3, <2>5 DEF Sorted!Next
<1>7. ASSUME ApplyEnd
      PROVE  Sorted!Next
  <2>1. Rest = {}
    BY <1>1, <1>7, EndsEmpty
  <2>2. pc = "apply" /\ pc' = "walked" /\ UNCHANGED <<key, members, visited>>
    BY <1>7 DEF ApplyEnd, Run, memory
  <2> QED
    BY <1>2, <2>1, <2>2 DEF Sorted!iterate_end, Sorted!Next
<1>8. ASSUME UNCHANGED <<key, members, visited>>, pc' = "apply" <=> pc = "apply"
      PROVE  UNCHANGED Sorted!vars
  BY <1>8 DEF Sorted!vars
<1>9. ASSUME Step, ~ApplyVisit, ~ApplyEnd
      PROVE  UNCHANGED Sorted!vars
  BY <1>1, <1>8, <1>9, WalksOn, RecordsStay
<1>10. ASSUME UNCHANGED recordVars
       PROVE  UNCHANGED Sorted!vars
  BY <1>8, <1>10 DEF recordVars, treeVars
<1> QED
  BY <1>4, <1>5, <1>6, <1>7, <1>9, <1>10 DEF RecordOrderNext

(***************************************************************************)
(* perffile/records.c on the tree implements the sorted sequence.          *)
(***************************************************************************)
THEOREM RecordOrderSorts == RecordOrderSpec => ImplementsSorted
<1>1. RecordsInv /\ RecordsInv' /\ [RecordOrderNext]_recordVars => [Sorted!Next]_(Sorted!vars)
  BY SortedStep
<1> QED
  BY <1>1, RecordsAlways, SortedInit, PTL DEF RecordOrderSpec, ImplementsSorted, Sorted!Spec

-----------------------------------------------------------------------------
(* The processes.  A node is known by its pid, so every pid is a node.     *)

\* A process is removed only when it is there.
ProcessesInv ==
  /\ TreeInv
  /\ \A n \in members : key[n] = n
  /\ pc = "remove" => \E m \in members : key[m] = want

\* A search that knows of a node with the key has not lost it.
LEMMA NothingLost ==
  ASSUME TreeInv, pc = "remove", NEW m \in members, key[m] = want
  PROVE  self # Nil
<1>1. PICK U, v : Changes(U, v)
  BY DEF TreeInv, Mutating
<1>2. m \in Sub(U, self)
  BY <1>1 DEF Changes, Searching
<1> QED
  BY <1>2 DEF Sub

\* The user has seen what the search has found.
LEMMA KeepCall ==
  ASSUME TreeInv, keep_process
  PROVE  TreeInv'
<1>1. /\ pc = "found" /\ pc' = "idle" /\ self' = Nil /\ arg' = Nil /\ want' = Nil
      /\ UNCHANGED <<root, key, link, height, members, stack, visited>>
  BY DEF keep_process, Run, memory
<1>2. TypeOK /\ Control /\ stack = << >>
  BY <1>1, BetweenCalls
<1>3. PICK U, v : Reads(U, v)
  BY <1>1, BetweenCalls
<1>4. TypeOK'
  BY <1>1, <1>2 DEF TypeOK
<1>5. Control'
  BY <1>1, <1>2 DEF Control
<1>6. FindsMembers' /\ WalkIsSorted' /\ ~Mutating' /\ Searching(U)' /\ Walking(U, v)'
  BY <1>1 DEF FindsMembers, WalkIsSorted, Mutating, Searching, Walking
<1>7. Reads(U, v)'
  BY <1>1, <1>3, <1>6 DEF Reads
<1>8. \E X, x : Reads(X, x)'
  BY <1>7
<1> QED
  BY <1>4, <1>5, <1>6, <1>8 DEF TreeInv

\* A process is created when the search has returned the null pointer.
LEMMA CreatesNew ==
  ASSUME Keys \subseteq Nodes, ProcessesInv, pc = "found", self = Nil
  PROVE  /\ want \in Keys /\ want \in Nodes \ members
         /\ \A m \in members : key[m] # want
<1>1. want \in Keys /\ members \subseteq Nodes /\ Nil \notin Nodes
  BY AvlTreeAssumption DEF ProcessesInv, TreeInv, TypeOK, Control
<1>2. \A m \in members : key[m] # want
  BY <1>1 DEF ProcessesInv, TreeInv, FindsMembers
<1> QED
  BY <1>1, <1>2 DEF ProcessesInv

LEMMA ProcessesInit == ProcessTreeInit => ProcessesInv
BY TreeInvInit DEF ProcessTreeInit, ProcessesInv, Init

LEMMA ProcessesStep ==
  ASSUME Keys \subseteq Nodes, ProcessesInv, [ProcessTreeNext]_treeVars
  PROVE  ProcessesInv'
<1>0. /\ TreeInv /\ \A n \in members : key[n] = n
      /\ pc = "remove" => \E m \in members : key[m] = want
  BY DEF ProcessesInv
<1>1. ASSUME NEW pid \in Keys, find_process(pid)
      PROVE  ProcessesInv'
  <2>1. TreeInv'
    BY <1>0, <1>1, ReadCall DEF find_process
  <2>2. UNCHANGED <<key, members>> /\ pc' = "find"
    BY <1>1 DEF find_process, TREE_FIND, Run, memory
  <2> QED
    BY <1>0, <2>1, <2>2 DEF ProcessesInv
<1>2. ASSUME create_process
      PROVE  ProcessesInv'
  <2>1. /\ want \in Keys /\ want \in Nodes \ members
        /\ \A m \in members : key[m] # want
    BY <1>2, CreatesNew DEF create_process
  <2>2. PICK elm : elm = want
    OBVIOUS
  <2>3. /\ elm \in Keys /\ elm \in Nodes \ members /\ TREE_INSERT(elm, elm) /\ pc = "found"
        /\ \A m \in members : key[m] = elm => m < elm
    BY <1>2, <2>1, <2>2 DEF create_process
  <2>4. TreeInv'
    BY <1>0, <2>3, InsertCall
  <2>5. /\ key' = [key EXCEPT ![elm] = elm] /\ members' = members \cup {elm} /\ pc' = "insert"
        /\ key \in [Nodes -> Keys \cup {Nil}] /\ members \subseteq Nodes
    BY <1>0, <2>3 DEF TREE_INSERT, Run, TreeInv, TypeOK
  <2> QED
    BY <1>0, <2>3, <2>4, <2>5 DEF ProcessesInv
<1>3. ASSUME remove_process
      PROVE  ProcessesInv'
  <2>1. pc = "found" /\ self \in members /\ key[self] \in Keys
    <3>1. pc = "found" /\ self \in members
      BY <1>0, <1>3 DEF remove_process, TreeInv, Control
    <3>2. \E n \in members : key[n] = want
      BY <1>0, <1>3, <3>1 DEF remove_process, TreeInv, FindsMembers
    <3>3. key[self] = want /\ want \in Keys
      BY <1>0, <3>1, <3>2 DEF TreeInv, FindsMembers, Control
    <3> QED
      BY <3>1, <3>3
  <2>2. PICK k : k = key[self]
    OBVIOUS
  <2>3. TREE_REMOVE(k) /\ k \in Keys
    BY <1>3, <2>1, <2>2 DEF remove_process
  <2>4. TreeInv'
    BY <1>0, <2>1, <2>3, RemoveCall
  <2>5. UNCHANGED <<key, members>> /\ pc' = "remove" /\ want' = k
    BY <2>3 DEF TREE_REMOVE, Run, memory
  <2> QED
    BY <1>0, <2>1, <2>2, <2>4, <2>5 DEF ProcessesInv
<1>4. ASSUME keep_process
      PROVE  ProcessesInv'
  <2>1. TreeInv'
    BY <1>0, <1>4, KeepCall
  <2>2. UNCHANGED <<key, members>> /\ pc' = "idle"
    BY <1>4 DEF keep_process, Run, memory
  <2> QED
    BY <1>0, <2>1, <2>2 DEF ProcessesInv
<1>5. ASSUME iterate_processes
      PROVE  ProcessesInv'
  <2>1. TreeInv'
    BY <1>0, <1>5, ReadCall DEF iterate_processes
  <2>2. UNCHANGED <<key, members>> /\ pc' = "apply"
    BY <1>5 DEF iterate_processes, TREE_FORWARD_APPLY, Run, memory
  <2> QED
    BY <1>0, <2>1, <2>2 DEF ProcessesInv
<1>6. ASSUME Step
      PROVE  ProcessesInv'
  <2>1. TreeInv' /\ TypeOK
    BY <1>0, <1>6, TreeInvStep DEF TreeInv
  <2>2. CASE members' = members \ {self} /\ pc' = "move_right" /\ key' = [key EXCEPT ![self] = Nil]
    <3>1. \A n \in members' : key'[n] = key[n]
      BY <2>1, <2>2 DEF TypeOK
    <3> QED
      BY <1>0, <2>1, <2>2, <3>1 DEF ProcessesInv
  <2>3. CASE UNCHANGED <<key, members>> /\ (pc' = "remove" => pc = "remove" /\ want' = want)
    BY <1>0, <2>1, <2>3 DEF ProcessesInv
  <2> QED
    BY <1>6, <2>1, <2>2, <2>3, OnlyRemoveSelf
<1>7. ASSUME UNCHANGED treeVars
      PROVE  ProcessesInv'
  <2>1. TreeInv' /\ UNCHANGED <<key, members, pc, want>>
    BY <1>0, <1>7, NoCall DEF treeVars
  <2> QED
    BY <1>0, <2>1 DEF ProcessesInv
<1> QED
  BY <1>1, <1>2, <1>3, <1>4, <1>5, <1>6, <1>7 DEF ProcessTreeNext

LEMMA ProcessesAlways ==
  ASSUME Keys \subseteq Nodes
  PROVE  ProcessTreeSpec => []ProcessesInv
<1>1. ProcessesInv /\ [ProcessTreeNext]_treeVars => ProcessesInv'
  BY ProcessesStep
<1> QED
  BY <1>1, ProcessesInit, PTL DEF ProcessTreeSpec

(***************************************************************************)
(* Creating, finding and removing processes, every variable keeps its type.*)
(***************************************************************************)
THEOREM ProcessTreeTypes ==
  ASSUME Keys \subseteq Nodes
  PROVE  ProcessTreeSpec => []TypeOK
BY ProcessesAlways, TreeTypes, PTL DEF ProcessesInv

(***************************************************************************)
(* However removals and insertions have shifted the heights, no rotation   *)
(* and no caller works on a null pointer or on a process that is gone.     *)
(***************************************************************************)
THEOREM ProcessPointers ==
  ASSUME Keys \subseteq Nodes
  PROVE  ProcessTreeSpec => []NoWildPointer
BY ProcessesAlways, TreePointers, PTL DEF ProcessesInv

(***************************************************************************)
(* find_process finds every process that was created and not removed, and  *)
(* no other.                                                               *)
(***************************************************************************)
THEOREM ProcessesFound ==
  ASSUME Keys \subseteq Nodes
  PROVE  ProcessTreeSpec => []FindsMembers
<1>1. ProcessesInv => FindsMembers
  BY DEF ProcessesInv, TreeInv
<1> QED
  BY <1>1, ProcessesAlways, PTL

-----------------------------------------------------------------------------
(* The processes refine the calls about pids.                                 *)

\* What a removal has found is the process it was asked for.
LEMMA RemovesWanted ==
  ASSUME ProcessesInv, pc = "remove"
  PROVE  self # Nil /\ self \in members /\ (key[self] = want => self = want)
BY NothingLost DEF ProcessesInv, TreeInv, Control

\* The answer of a search.
LEMMA Answers ==
  ASSUME Keys \subseteq Nodes, ProcessesInv', pc' = "found"
  PROVE  want' \in Nodes /\ want' # Nil /\ self' = IF want' \in members' THEN want' ELSE Nil
<1>1. want' \in Keys /\ Nil \notin Keys /\ \A n \in members' : key'[n] = n
  BY AvlTreeAssumption DEF ProcessesInv, TreeInv, Control
<1>2. IF \E n \in members' : key'[n] = want'
        THEN self' \in members' /\ key'[self'] = want'
        ELSE self' = Nil
  BY DEF ProcessesInv, TreeInv, FindsMembers
<1> QED
  BY <1>1, <1>2

LEMMA PidCallsInit == ProcessTreeInit => Calls!CallsInit
BY DEF ProcessTreeInit, Init, Calls!CallsInit, Calls!Init

LEMMA PidCallsStep ==
  ASSUME Keys \subseteq Nodes, ProcessesInv, ProcessesInv', [ProcessTreeNext]_treeVars
  PROVE  [Calls!CallsNext]_(Calls!callVars)
<1>1. /\ TreeInv /\ TreeInv' /\ TypeOK /\ Control /\ members \subseteq Nodes
      /\ \A n \in members : key[n] = n
  BY DEF ProcessesInv, TreeInv, TypeOK
<1>2. Nil \notin Nodes /\ Nil \notin Keys
  BY AvlTreeAssumption
<1>3. ASSUME UNCHANGED <<members, visited>>,
             pc \notin {"remove", "found"}, pc' \notin {"remove", "found"},
             pc' = "apply" <=> pc = "apply"
      PROVE  UNCHANGED Calls!callVars
  BY <1>3 DEF Calls!callVars
<1>4. ASSUME NEW pid \in Keys, find_process(pid)
      PROVE  UNCHANGED Calls!callVars
  BY <1>3, <1>4 DEF find_process, TREE_FIND, Run, memory
<1>5. ASSUME create_process
      PROVE  Calls!CallsNext
  <2>1. /\ pc = "found" /\ self = Nil /\ pc' = "insert"
        /\ members' = members \cup {want} /\ visited' = visited
    BY <1>5 DEF create_process, TREE_INSERT, Run
  <2>2. want \in Keys /\ want \notin members
    BY <2>1, CreatesNew
  <2> QED
    BY <1>2, <2>1, <2>2 DEF Calls!CallsNext, Calls!create, Calls!create_process, Calls!Answered
<1>6. ASSUME remove_process
      PROVE  Calls!CallsNext
  <2>1. /\ pc = "found" /\ self # Nil /\ pc' = "remove" /\ want' = key[self]
        /\ UNCHANGED <<members, visited>>
    BY <1>6 DEF remove_process, TREE_REMOVE, Run, memory
  <2>2. self \in members /\ want \in Keys /\ want' = self
    BY <1>1, <2>1 DEF Control
  <2> QED
    BY <1>2, <2>1, <2>2 DEF Calls!CallsNext, Calls!remove, Calls!remove_process, Calls!Answered
<1>7. ASSUME keep_process
      PROVE  Calls!CallsNext
  <2>1. pc = "found" /\ pc' = "idle" /\ UNCHANGED <<members, visited>> /\ want \in Keys
    BY <1>1, <1>7 DEF keep_process, Run, memory, Control
  <2> QED
    BY <1>2, <2>1 DEF Calls!CallsNext, Calls!keep, Calls!Answered
<1>8. ASSUME iterate_processes
      PROVE  Calls!CallsNext
  <2>1. pc = "idle" /\ pc' = "apply" /\ UNCHANGED members /\ visited' = << >>
    BY <1>8 DEF iterate_processes, TREE_FORWARD_APPLY, Run, memory
  <2> QED
    BY <2>1 DEF Calls!CallsNext, Calls!iterate
<1>9. ASSUME ApplyVisit
      PROVE  Calls!CallsNext
  <2>1. PICK p \in Rest : /\ visited' = Append(visited, p)
                          /\ \A m \in Rest \ {p} : Lt(key, p, m)
    BY <1>1, <1>9, VisitsLeast
  <2>2. pc = "apply" /\ pc' = "apply" /\ UNCHANGED members
    BY <1>9 DEF ApplyVisit, Run, memory
  <2>3. Calls!Left = Rest
    BY <2>2 DEF Calls!Left, Rest
  <2>4. p \in Nodes /\ \A m \in Rest \ {p} : p < m
    BY <1>1, <2>1 DEF Rest, Lt
  <2>5. Calls!callback(p)
    BY <2>1, <2>2, <2>3, <2>4 DEF Calls!callback
  <2> QED
    BY <2>4, <2>5 DEF Calls!CallsNext
<1>10. ASSUME ApplyEnd
       PROVE  Calls!CallsNext
  <2>1. Rest = {}
    BY <1>1, <1>10, EndsEmpty
  <2>2. pc = "apply" /\ pc' = "walked" /\ UNCHANGED <<members, visited>>
    BY <1>10 DEF ApplyEnd, Run, memory
  <2>3. Calls!Left = {}
    BY <2>1, <2>2 DEF Calls!Left, Rest
  <2> QED
    BY <2>2, <2>3 DEF Calls!CallsNext, Calls!iterate_end
\* The search returns.
<1>11. ASSUME Find
       PROVE  Calls!CallsNext \/ UNCHANGED Calls!callVars
  <2>1. pc = "find" /\ pc' \in {"find", "found"} /\ UNCHANGED <<members, visited>>
    BY <1>11 DEF Find, Run, memory
  <2>2. CASE pc' = "find"
    BY <1>3, <2>1, <2>2
  <2>3. CASE pc' = "found"
    <3>1. /\ want' \in Nodes /\ want' # Nil
          /\ self' = IF want' \in members THEN want' ELSE Nil
      BY <2>1, <2>3, Answers
    <3>2. Calls!find(want')
      BY <2>1, <2>3, <3>1 DEF Calls!find
    <3> QED
      BY <3>1, <3>2 DEF Calls!CallsNext
  <2> QED
    BY <2>1, <2>2, <2>3
\* The removal goes down, and takes out what it was asked for.
<1>12. ASSUME Step, pc = "remove"
       PROVE  UNCHANGED Calls!callVars
  <2>1. self # Nil /\ (key[self] = want => self = want)
    BY <1>12, RemovesWanted
  <2>2. visited' = visited /\ pc' # "apply"
    <3>1. ~ApplyVisit /\ ~ApplyEnd
      BY <1>12 DEF ApplyVisit, ApplyEnd
    <3> QED
      BY <1>1, <1>12, <3>1, WalksOn
  <2>3. CASE RemoveSelf
    BY <1>12, <2>1, <2>2, <2>3 DEF RemoveSelf, Run, Calls!callVars
  <2>4. CASE Descend
    BY <1>12, <2>2, <2>4 DEF Descend, Run, memory, Calls!callVars
  <2> QED
    BY <1>12, <2>1, <2>3, <2>4 DEF Step, Place, TREE_MOVE_RIGHT, TREE_ROTL,
         TREE_ROTR, TREE_BALANCE, BalanceSide, Balanced, Resume, Finish, Find, ApplyLeft,
         ApplyVisit, ApplyEnd
<1>13. ASSUME Step, pc # "remove", ~Find, ~ApplyVisit, ~ApplyEnd
       PROVE  UNCHANGED Calls!callVars
  <2>1. visited' = visited /\ (pc' = "apply" <=> pc = "apply")
    BY <1>1, <1>13, WalksOn
  <2>2. UNCHANGED members /\ pc' # "remove"
    BY <1>1, <1>13, RecordsStay
  <2>3. pc # "found" /\ pc' # "found"
    BY <1>1, <1>13, CallerGoesOn DEF Step, Descend, Place, RemoveSelf,
         TREE_MOVE_RIGHT, TREE_ROTL, TREE_ROTR, Rotate, TREE_BALANCE, BalanceSide, Balanced,
         Resume, Finish, ApplyLeft, Run, Return
  <2> QED
    BY <1>3, <1>13, <2>1, <2>2, <2>3
<1>14. ASSUME UNCHANGED treeVars
       PROVE  UNCHANGED Calls!callVars
  BY <1>14 DEF treeVars, Calls!callVars
<1> QED
  BY <1>4, <1>5, <1>6, <1>7, <1>8, <1>9, <1>10, <1>11, <1>12, <1>13, <1>14 DEF ProcessTreeNext

(***************************************************************************)
(* decode/processes.c on the tree answers buildstat.c as a set of pids.    *)
(***************************************************************************)
THEOREM ProcessTreeServes ==
  ASSUME Keys \subseteq Nodes
  PROVE  ProcessTreeSpec => ImplementsPidCalls
<1>1. /\ ProcessesInv /\ ProcessesInv' /\ [ProcessTreeNext]_treeVars
      => [Calls!CallsNext]_(Calls!callVars)
  BY PidCallsStep
<1> QED
  BY <1>1, PidCallsInit, ProcessesAlways, PTL DEF ProcessTreeSpec, ImplementsPidCalls, Calls!CallsSpec

(***************************************************************************)
(* The processes that come and go are a run of PidSet, the same that       *)
(* buildstat.c is shown to keep to.                                        *)
(***************************************************************************)
THEOREM ProcessTreeIsPidSet ==
  ASSUME Keys \subseteq Nodes
  PROVE  ProcessTreeSpec => Calls!Spec
<1> DEFINE live == IF pc = "remove" THEN members \ {want} ELSE members
<1>1. ASSUME ProcessesInv, ProcessesInv', [ProcessTreeNext]_treeVars
      PROVE  [Calls!Next]_live
  <2>1. pc = "found" => want \in Nodes /\ self \in Nodes \cup {Nil} /\ want # Nil
    BY <1>1, AvlTreeAssumption DEF ProcessesInv, TreeInv, TypeOK, Control
  <2>2. [Calls!CallsNext]_(Calls!callVars)
    BY <1>1, PidCallsStep
  <2>3. CASE Calls!create
    BY <2>1, <2>3 DEF Calls!create, Calls!Answered, Calls!Next
  <2>4. CASE Calls!remove
    BY <2>1, <2>4 DEF Calls!remove, Calls!Answered, Calls!Next
  <2>5. CASE \/ \E pid \in Nodes : Calls!find(pid) \/ Calls!callback(pid)
             \/ Calls!keep \/ Calls!iterate \/ Calls!iterate_end
             \/ UNCHANGED Calls!callVars
    BY <2>5 DEF Calls!find, Calls!callback, Calls!keep, Calls!iterate, Calls!iterate_end,
         Calls!callVars
  <2> QED
    BY <2>2, <2>3, <2>4, <2>5 DEF Calls!CallsNext
<1>2. ProcessTreeInit => Calls!Init
  BY DEF ProcessTreeInit, Init, Calls!Init
<1> QED
  BY <1>1, <1>2, ProcessesAlways, PTL DEF ProcessTreeSpec, Calls!Spec

-----------------------------------------------------------------------------
(* The heights.  A node is settled when the functions have done with it:   *)
(* nobody waits with it, and it is not being balanced or rotated.          *)

Settling == {"balance", "rotl", "rotr"}

Unsettled ==
  (IF Mutating THEN OpenOf(stack) ELSE {}) \cup (IF pc \in Settling THEN {self} ELSE {})

At(hgt, n) == IF n = Nil THEN 0 ELSE hgt[n]

Higher(l, r) == IF l > r THEN l ELSE r

\* The stored heights around n; a leaf that was never balanced has the height 0.
Level(lnk, hgt, n) ==
  /\ At(hgt, lnk[n]["left"]) - At(hgt, lnk[n]["right"]) \in -TREE_DELTA_MAX .. TREE_DELTA_MAX
  /\ \/ hgt[n] = Higher(At(hgt, lnk[n]["left"]), At(hgt, lnk[n]["right"])) + 1
     \/ hgt[n] = 0 /\ \A s \in Sides : lnk[n][s] = Nil

Levels(N, lnk, hgt) == \A n \in N : Level(lnk, hgt, n)

HeightInv ==
  /\ IsFiniteSet(members)
  /\ Levels(members \ Unsettled, link, height)

\* What happens to other nodes leaves the level of a node as it is.
LEMMA LevelsKept ==
  ASSUME NEW N, NEW lnk, NEW hgt, Levels(N, lnk, hgt),
         NEW N2, NEW lnk2, NEW hgt2, N2 \subseteq N,
         \A n \in N2 : hgt2[n] = hgt[n],
         \A n \in N2, s \in Sides :
           lnk2[n][s] = lnk[n][s] /\ At(hgt2, lnk[n][s]) = At(hgt, lnk[n][s])
  PROVE  Levels(N2, lnk2, hgt2)
BY DEF Levels, Level, Sides

\* A node that nobody waits with is not the parent of the node that runs.
LEMMA NotParent ==
  ASSUME TypeOK, NEW U, NEW v, Changes(U, v), self \in members,
         NEW n \in members \ OpenOf(stack), NEW s \in Sides
  PROVE  link[n][s] # self
<1>1. /\ Waiting(members, key, U, v, link, stack, self, Load(U))
      /\ stack # << >> => stack[Len(stack)].self \in OpenOf(stack)
  BY ChangesWaits
<1>2. link[n][s] = v[n][s]
  BY <1>1, Current
<1>3. CallerIsParent(members, v, stack, self)
  BY <1>1, ParentOf
<1> QED
  BY <1>1, <1>2, <1>3 DEF CallerIsParent

\* No link and no height changes, and the nodes that are settled were settled before.
LEMMA NothingChanges ==
  ASSUME HeightInv, UNCHANGED <<members, link, height>>, Unsettled \subseteq Unsettled'
  PROVE  HeightInv'
BY DEF HeightInv, Levels

\* One link of a node changes that is not settled then.
LEMMA LinkChanges ==
  ASSUME TypeOK, HeightInv, UNCHANGED <<members, height>>, Unsettled \subseteq Unsettled',
         NEW d \in Unsettled', NEW side, NEW a, link' = [link EXCEPT ![d][side] = a]
  PROVE  HeightInv'
<1> DEFINE N == members \ Unsettled
           N2 == members \ Unsettled'
<1>1. Levels(N, link, height) /\ IsFiniteSet(members) /\ N2 \subseteq N
  BY DEF HeightInv
<1>2. \A n \in N2 : n \in Nodes /\ n # d
  BY DEF TypeOK
<1>3. \A n \in N2, s \in Sides : link'[n][s] = link[n][s]
  BY <1>2 DEF TypeOK
<1> HIDE DEF N, N2
<1>4. PICK lnk, hgt, lnk2, hgt2 :
        lnk = link /\ hgt = height /\ lnk2 = link' /\ hgt2 = height'
  OBVIOUS
<1>5. /\ Levels(N, lnk, hgt) /\ N2 \subseteq N
      /\ \A n \in N2 : hgt2[n] = hgt[n]
      /\ \A n \in N2, s \in Sides :
           lnk2[n][s] = lnk[n][s] /\ At(hgt2, lnk[n][s]) = At(hgt, lnk[n][s])
  BY <1>1, <1>3, <1>4
<1>6. Levels(N2, lnk2, hgt2)
  BY <1>5, LevelsKept
<1> QED
  BY <1>1, <1>4, <1>6 DEF HeightInv, N2

\* TREE_BALANCE stores the height.
LEMMA BalancedHeights ==
  ASSUME TypeOK, Control, NEW U, NEW v, Changes(U, v), HeightInv, Balanced
  PROVE  HeightInv'
<1>0. PICK d, l, r : d = self /\ l = At(height, link[d]["left"]) /\ r = At(height, link[d]["right"])
  OBVIOUS
<1>1. /\ pc = "balance" /\ pc' = "return" /\ d \in members /\ members \subseteq Nodes
      /\ l - r \in -TREE_DELTA_MAX .. TREE_DELTA_MAX
      /\ height' = [height EXCEPT ![d] = Higher(l, r) + 1]
      /\ UNCHANGED <<link, stack, members>>
      /\ height \in [Nodes -> Nat]
  BY <1>0 DEF Balanced, Return, Run, Control, TREE_DELTA, HeightOf, At, Higher, TypeOK
<1>2. Unsettled = OpenOf(stack) \cup {d} /\ Unsettled' = OpenOf(stack)
  BY <1>0, <1>1 DEF Unsettled, Settling, Mutating
<1>3. d \notin OpenOf(stack) /\ Nil \notin members
  BY <1>0, ChangesWaits
<1>4. \A n \in members \ OpenOf(stack), s \in Sides : link[n][s] # d
  BY <1>0, <1>1, NotParent
<1>5. \A n \in members \ OpenOf(stack), s \in Sides : At(height', link[n][s]) = At(height, link[n][s])
  <2> TAKE n \in members \ OpenOf(stack), s \in Sides
  <2>1. link[n][s] # d /\ link[n][s] \in Nodes \cup {Nil}
    BY <1>1, <1>4, LinkTypes
  <2> QED
    BY <1>1, <2>1 DEF At
<1>6. Level(link', height', d)
  <2>1. At(height', link[d]["left"]) = l /\ At(height', link[d]["right"]) = r
    BY <1>0, <1>1, <1>3, <1>5 DEF Sides
  <2> QED
    BY <1>1, <2>1 DEF Level
<1> DEFINE N == members \ (OpenOf(stack) \cup {d})
<1>7. Levels(N, link', height')
  <2>1. Levels(N, link, height)
    BY <1>2 DEF HeightInv
  <2>2. \A n \in N : height'[n] = height[n]
    BY <1>1
  <2>3. \A n \in N, s \in Sides : link'[n][s] = link[n][s] /\ At(height', link[n][s]) = At(height, link[n][s])
    BY <1>1, <1>5
  <2> HIDE DEF N
  <2> QED
    BY <2>1, <2>2, <2>3, LevelsKept
<1> QED
  BY <1>1, <1>2, <1>6, <1>7 DEF HeightInv, Levels

\* The node that is removed has no parent but the one that waits.
LEMMA RemovedHeights ==
  ASSUME TypeOK, Control, NEW U, NEW v, Changes(U, v), HeightInv, RemoveSelf
  PROVE  HeightInv'
<1>0. PICK d : d = self
  OBVIOUS
<1>1. /\ pc = "remove" /\ pc' = "move_right" /\ d \in members /\ members \subseteq Nodes
      /\ members' = members \ {d}
      /\ link' = [link EXCEPT ![d] = NoLinks]
      /\ height' = [height EXCEPT ![d] = 0]
      /\ stack' = stack
      /\ height \in [Nodes -> Nat] /\ link \in [Nodes -> [Sides -> Nodes \cup {Nil}]]
  BY <1>0 DEF RemoveSelf, Run, Control, TypeOK
<1>2. Unsettled = OpenOf(stack) /\ Unsettled' = OpenOf(stack)
  BY <1>1 DEF Unsettled, Settling, Mutating
<1>3. \A n \in members \ OpenOf(stack), s \in Sides : link[n][s] # d
  BY <1>0, <1>1, NotParent
<1> DEFINE N == members \ OpenOf(stack)
           N2 == members' \ OpenOf(stack)
<1>4. N2 \subseteq N /\ \A n \in N2 : n \in Nodes /\ n # d
  BY <1>1
<1>5. \A n \in N2, s \in Sides : link'[n][s] = link[n][s] /\ At(height', link[n][s]) = At(height, link[n][s])
  <2> TAKE n \in N2, s \in Sides
  <2>1. link[n][s] # d /\ link[n][s] \in Nodes \cup {Nil}
    BY <1>3, <1>4, LinkTypes
  <2> QED
    BY <1>1, <1>4, <2>1 DEF At
<1>6. Levels(N, link, height)
  BY <1>2 DEF HeightInv
<1>7. \A n \in N2 : height'[n] = height[n]
  BY <1>1, <1>4
<1> HIDE DEF N, N2
<1>8. Levels(N2, link', height')
  BY <1>4, <1>5, <1>6, <1>7, LevelsKept
<1>9. IsFiniteSet(members')
  BY <1>1, FS_RemoveElement DEF HeightInv
<1> QED
  BY <1>2, <1>8, <1>9 DEF HeightInv, N2

\* Pushing the node that runs, and nothing else.
LEMMA PushHeights ==
  ASSUME TypeOK, HeightInv, Mutating, Mutating', UNCHANGED <<members, link, height>>,
         NEW side, NEW next, Push(self, side, next)
  PROVE  HeightInv'
<1>1. OpenOf(stack') = OpenOf(stack) \cup {self}
  <2> DEFINE f == [self |-> self, side |-> side, next |-> next]
  <2>1. f.self = self /\ stack' = Append(stack, f) /\ stack \in Seq(Frames)
    BY DEF Push, TypeOK
  <2> HIDE DEF f
  <2> QED
    BY <2>1, PushOpen
<1>2. Unsettled \subseteq Unsettled'
  BY <1>1 DEF Unsettled
<1> QED
  BY <1>2, NothingChanges

LEMMA RotateHeights ==
  ASSUME TypeOK, Control, HeightInv, pc \in {"rotl", "rotr"},
         NEW side \in Sides, Rotate(side), link[self][side] \in members
  PROVE  HeightInv'
<1>0. PICK d, c, a : d = self /\ c = link[self][side] /\ a = link[c][Other(side)]
  OBVIOUS
<1>1. /\ link' = [link EXCEPT ![d][side] = a]
      /\ pc' = "balance" /\ self' = d /\ UNCHANGED <<members, height>>
  BY <1>0 DEF Rotate, Run
<1>2. OpenOf(stack') = OpenOf(stack) \cup {c}
  <2> DEFINE f == [self |-> c, side |-> Other(side), next |-> "balance"]
  <2>1. f.self = c /\ stack' = Append(stack, f) /\ stack \in Seq(Frames)
    BY <1>0 DEF Rotate, Push, TypeOK
  <2> HIDE DEF f
  <2> QED
    BY <2>1, PushOpen
<1>3. Unsettled \subseteq Unsettled' /\ d \in Unsettled'
  BY <1>0, <1>1, <1>2 DEF Unsettled, Settling, Mutating
<1> QED
  BY <1>1, <1>3, LinkChanges

LEMMA ResumeHeights ==
  ASSUME TypeOK, Control, NEW U, NEW v, Changes(U, v), HeightInv, Resume
  PROVE  HeightInv'
<1>0. PICK n, d, side : n = Len(stack) /\ d = stack[n].self /\ side = stack[n].side
  OBVIOUS
<1>1. /\ stack \in Seq(Frames) /\ n \in Nat /\ n # 0 /\ DOMAIN stack = 1 .. n /\ n \in DOMAIN stack
      /\ stack' = SubSeq(stack, 1, n - 1)
      /\ pc = "return" /\ self' = d
      /\ link' = [link EXCEPT ![d][side] = self]
      /\ UNCHANGED <<members, height>>
  BY <1>0 DEF Resume, Run, TypeOK
<1>2. pc' \in Settling
  <2>1. stack[n].next \in {"balance", "rotl", "rotr", "visit"} /\ pc' = stack[n].next
    BY <1>0, <1>1, PopTypes DEF Resume, Run
  <2>2. stack[n].next # "visit"
    BY <1>1 DEF Control
  <2> QED
    BY <2>1, <2>2 DEF Settling
<1>3. OpenOf(stack) \subseteq OpenOf(stack') \cup {d}
  <2>1. DOMAIN stack' = 1 .. n - 1 /\ \A i \in 1 .. n - 1 : stack'[i] = stack[i]
    BY <1>1
  <2>2. \A i \in 1 .. n : i = n \/ i \in 1 .. n - 1
    BY <1>1
  <2> QED
    BY <1>0, <1>1, <2>1, <2>2 DEF OpenOf
<1>4. Unsettled \subseteq Unsettled' /\ d \in Unsettled'
  BY <1>1, <1>2, <1>3 DEF Unsettled, Settling, Mutating
<1> QED
  BY <1>1, <1>4, LinkChanges

(***************************************************************************)
(* A step of the functions leaves the settled nodes level.                 *)
(***************************************************************************)
LEMMA HeightStep == TreeInv /\ HeightInv /\ Step => HeightInv'
<1> SUFFICES ASSUME TreeInv, HeightInv, Step PROVE HeightInv'
  OBVIOUS
<1>1. TypeOK /\ Control
  BY DEF TreeInv
<1>2. ASSUME Mutating PROVE HeightInv'
  <2>1. PICK U, v : Changes(U, v)
    BY <1>2 DEF TreeInv
  <2>2. ASSUME Descend PROVE HeightInv'
    <3>1. Push(self, SideOf(self), "balance") /\ Mutating' /\ UNCHANGED <<members, link, height>>
      BY <1>2, <2>2 DEF Descend, Run, Mutating, memory
    <3> QED
      BY <1>1, <1>2, <3>1, PushHeights
  <2>3. ASSUME Place PROVE HeightInv'
    <3>1. UNCHANGED <<members, link, height>> /\ Unsettled' = Unsettled
      BY <2>3 DEF Place, Return, Run, memory, Unsettled, Settling, Mutating
    <3> QED
      BY <3>1, NothingChanges
  <2>4. ASSUME RemoveSelf PROVE HeightInv'
    BY <1>1, <2>1, <2>4, RemovedHeights
  <2>5. ASSUME TREE_MOVE_RIGHT PROVE HeightInv'
    <3>1. Push(self, "right", "balance") /\ Mutating' /\ UNCHANGED <<members, link, height>>
      BY <1>2, <2>5 DEF TREE_MOVE_RIGHT, Run, Mutating, memory
    <3> QED
      BY <1>1, <1>2, <3>1, PushHeights
  <2>6. ASSUME TREE_ROTL PROVE HeightInv'
    <3>1. pc \in {"rotl", "rotr"} /\ "right" \in Sides /\ Rotate("right") /\ link[self]["right"] \in members
      BY <1>1, <2>6 DEF TREE_ROTL, Control, Sides
    <3> QED
      BY <1>1, <3>1, RotateHeights
  <2>7. ASSUME TREE_ROTR PROVE HeightInv'
    <3>1. pc \in {"rotl", "rotr"} /\ "left" \in Sides /\ Rotate("left") /\ link[self]["left"] \in members
      BY <1>1, <2>7 DEF TREE_ROTR, Control, Sides
    <3> QED
      BY <1>1, <3>1, RotateHeights
  <2>8. ASSUME NEW side \in Sides, NEW lean, NEW rotate \in {"rotl", "rotr"}, NEW back \in {"rotl", "rotr"},
               BalanceSide(side, lean, rotate, back)
        PROVE  HeightInv'
    <3>1. UNCHANGED <<members, link, height>> /\ pc = "balance" /\ pc' \in {"rotl", "rotr"} /\ Mutating'
      BY <2>8 DEF BalanceSide, Run, memory, Mutating
    <3>2. CASE UNCHANGED <<stack, self>>
      <4>1. Unsettled' = Unsettled
        BY <3>1, <3>2 DEF Unsettled, Settling, Mutating
      <4> QED
        BY <3>1, <4>1, NothingChanges
    <3>3. CASE Push(self, side, rotate)
      BY <1>1, <1>2, <3>1, <3>3, PushHeights
    <3> QED
      BY <2>8, <3>2, <3>3 DEF BalanceSide, Run
  <2>9. ASSUME BalanceSide("right", -1, "rotl", "rotr") \/ BalanceSide("left", 1, "rotr", "rotl")
        PROVE  HeightInv'
    <3>1. "left" \in Sides /\ "right" \in Sides
      BY DEF Sides
    <3> QED
      BY <2>8, <2>9, <3>1
  <2>10. ASSUME Balanced PROVE HeightInv'
    BY <1>1, <2>1, <2>10, BalancedHeights
  <2>11. ASSUME Resume PROVE HeightInv'
    BY <1>1, <2>1, <2>11, ResumeHeights
  <2>12. ASSUME Finish PROVE HeightInv'
    <3>1. UNCHANGED <<members, link, height>> /\ stack = << >> /\ pc = "return"
      BY <2>12 DEF Finish, memory
    <3>2. Unsettled = {}
      BY <3>1 DEF Unsettled, Settling, OpenOf
    <3> QED
      BY <3>1, <3>2, NothingChanges
  <2>13. ~Find /\ ~ApplyLeft /\ ~ApplyVisit /\ ~ApplyEnd
    BY <1>2 DEF Mutating, Find, ApplyLeft, ApplyVisit, ApplyEnd
  <2> QED
    BY <2>2, <2>3, <2>4, <2>5, <2>6, <2>7, <2>9, <2>10, <2>11, <2>12, <2>13
       DEF Step, TREE_BALANCE
<1>3. ASSUME ~Mutating PROVE HeightInv'
  <2>1. Unsettled = {}
    BY <1>3 DEF Unsettled, Settling, Mutating
  <2>2. UNCHANGED <<members, link, height>>
    BY <1>3 DEF Step, Mutating, Descend, Place, RemoveSelf, TREE_MOVE_RIGHT,
         TREE_ROTL, TREE_ROTR, TREE_BALANCE, BalanceSide, Balanced, Resume, Finish,
         Find, ApplyLeft, ApplyVisit, ApplyEnd, memory
  <2> QED
    BY <2>1, <2>2, NothingChanges
<1> QED
  BY <1>2, <1>3

LEMMA HeightInit == Init => HeightInv
<1> SUFFICES ASSUME Init PROVE HeightInv
  OBVIOUS
<1>1. IsFiniteSet(members)
  BY FS_EmptySet DEF Init
<1>2. Levels(members \ Unsettled, link, height)
  BY DEF Init, Levels
<1> QED
  BY <1>1, <1>2 DEF HeightInv

\* A new node has no links and no height, and nobody waits with it.
LEMMA InsertHeights ==
  ASSUME TreeInv, HeightInv, pc \in {"idle", "found"}, NEW elm \in Nodes \ members, NEW k,
         TREE_INSERT(elm, k)
  PROVE  HeightInv'
<1>1. TypeOK /\ Control /\ stack = << >> /\ ~Mutating
  BY BetweenCalls
<1>2. members' = members \cup {elm} /\ UNCHANGED <<link, height>>
  BY DEF TREE_INSERT
<1>3. Unsettled = {}
  BY <1>1 DEF Unsettled, Settling, Mutating
<1>4. height[elm] = 0 /\ \A s \in Sides : link[elm][s] = Nil
  BY <1>1 DEF Control
<1>5. Level(link, height, elm)
  BY <1>4 DEF Level, At, Sides, TREE_DELTA_MAX
<1>6. Levels(members' \ Unsettled', link', height')
  BY <1>2, <1>3, <1>5 DEF HeightInv, Levels
<1>7. IsFiniteSet(members')
  BY <1>2, FS_AddElement DEF HeightInv
<1> QED
  BY <1>6, <1>7 DEF HeightInv

\* Other calls leave the memory alone.
LEMMA CallHeights ==
  ASSUME TreeInv, HeightInv, pc \in {"idle", "found"}, UNCHANGED <<members, link, height>>
  PROVE  HeightInv'
<1>1. Unsettled = {}
  BY BetweenCalls DEF Unsettled, Settling
<1> QED
  BY <1>1, NothingChanges

-----------------------------------------------------------------------------
(* The depths.                                                             *)

(***************************************************************************)
(* Induction on the tree: what holds of every node whose children it holds *)
(* of holds of all nodes.                                                  *)
(***************************************************************************)
LEMMA TreeInduction ==
  ASSUME NEW M, NEW K, NEW U, NEW v, NEW top, Shape(M, K, U, v, top, {}, {}), IsFiniteSet(M),
         NEW G,
         \A n \in M : (\A s \in Sides : v[n][s] # Nil => v[n][s] \in G) => n \in G
  PROVE  M \subseteq G
<1> DEFINE T == {U[n] : n \in M \ G}
<1> SUFFICES ASSUME T # {} PROVE FALSE
  BY DEF T
<1>1. T \in SUBSET (SUBSET M)
  BY DEF Shape, Types
<1>2. PICK t \in T : \A u \in T : u \subseteq t => u = t
  <2> HIDE DEF T
  <2> QED
    BY <1>1, Smallest
<1>3. PICK n \in M \ G : t = U[n]
  BY <1>2
<1>4. PICK s \in Sides : v[n][s] # Nil /\ v[n][s] \notin G
  BY <1>3
<1>5. /\ Sub(U, v[n][s]) \subseteq U[n] /\ n \in U[n] /\ n \notin Sub(U, v[n][s])
      /\ v[n][s] \in M
  BY <1>3, <1>4, Below
<1>6. U[v[n][s]] \in T /\ Sub(U, v[n][s]) = U[v[n][s]]
  BY <1>4, <1>5 DEF Sub
<1> QED
  BY <1>2, <1>3, <1>5, <1>6

\* The subtree of n has the children of its nodes.
Closed(U, v, n) == \A x \in U[n], s \in Sides : v[x][s] \in U[n] \cup {Nil}

LEMMA SubtreesClosed ==
  ASSUME NEW M, NEW K, NEW U, NEW v, NEW top, Shape(M, K, U, v, top, {}, {}), IsFiniteSet(M)
  PROVE  \A n \in M : Closed(U, v, n)
<1> DEFINE G == {n \in M : Closed(U, v, n)}
<1>1. ASSUME NEW n \in M, \A s \in Sides : v[n][s] # Nil => v[n][s] \in G
      PROVE  n \in G
  <2> SUFFICES ASSUME NEW x \in U[n], NEW s \in Sides PROVE v[x][s] \in U[n] \cup {Nil}
    BY DEF Closed
  <2>1. \A t \in Sides : Sub(U, v[n][t]) \subseteq U[n] /\ (v[n][t] # Nil => v[n][t] \in Sub(U, v[n][t]))
    BY Below
  <2>2. CASE x = n
    BY <2>1, <2>2
  <2>3. ASSUME NEW t \in Sides, x \in Sub(U, v[n][t])
        PROVE  v[x][s] \in U[n] \cup {Nil}
    <3>1. v[n][t] # Nil /\ x \in U[v[n][t]]
      BY <2>3 DEF Sub
    <3>2. v[x][s] \in U[v[n][t]] \cup {Nil}
      BY <1>1, <3>1 DEF Closed
    <3> QED
      BY <2>1, <3>1, <3>2 DEF Sub
  <2>4. U[n] = {n} \cup Sub(U, v[n]["left"]) \cup Sub(U, v[n]["right"])
    BY DEF Shape, Sets, Carried
  <2> QED
    BY <2>2, <2>3, <2>4 DEF Sides
<1> HIDE DEF G
<1>2. M \subseteq G
  BY <1>1, TreeInduction
<1> QED
  BY <1>2 DEF G

\* e has the depths of the nodes S.
IsDepth(v, e, S) ==
  \A n \in S : e[n] = 1 + Higher(At(e, v[n]["left"]), At(e, v[n]["right"]))

(***************************************************************************)
(* Every subtree has depths: those of the children's, and one more.        *)
(***************************************************************************)
LEMMA SubtreeDepths ==
  ASSUME NEW M, NEW K, NEW U, NEW v, NEW top, Shape(M, K, U, v, top, {}, {}), IsFiniteSet(M)
  PROVE  \A n \in M : \E e \in [M -> Nat] : IsDepth(v, e, U[n])
<1> DEFINE G == {n \in M : \E e \in [M -> Nat] : IsDepth(v, e, U[n])}
<1>0. /\ \A n \in M : Closed(U, v, n) /\ U[n] \subseteq M
      /\ Nil \notin M
  BY SubtreesClosed, AvlTreeAssumption DEF Shape, Types
<1>1. ASSUME NEW n \in M, \A s \in Sides : v[n][s] # Nil => v[n][s] \in G
      PROVE  n \in G
  <2>1. \A s \in Sides : \E e \in [M -> Nat] : IsDepth(v, e, Sub(U, v[n][s]))
    <3> TAKE s \in Sides
    <3>1. CASE v[n][s] = Nil
      <4>1. [m \in M |-> 0] \in [M -> Nat] /\ Sub(U, v[n][s]) = {}
        BY <3>1 DEF Sub
      <4> QED
        BY <4>1 DEF IsDepth
    <3>2. CASE v[n][s] # Nil
      BY <1>1, <3>2 DEF Sub
    <3> QED
      BY <3>1, <3>2
  <2>2. PICK l, r, L, R : l = v[n]["left"] /\ r = v[n]["right"] /\ L = Sub(U, l) /\ R = Sub(U, r)
    OBVIOUS
  <2>3. PICK el \in [M -> Nat] : IsDepth(v, el, L)
    BY <2>1, <2>2 DEF Sides
  <2>4. PICK er \in [M -> Nat] : IsDepth(v, er, R)
    BY <2>1, <2>2 DEF Sides
  <2>5. /\ U[n] = {n} \cup L \cup R /\ n \notin L /\ n \notin R
        /\ (l = Nil \/ l \in L) /\ (r = Nil \/ r \in R)
        /\ L \subseteq M /\ R \subseteq M
    <3>1. /\ U[n] = {n} \cup L \cup R
      BY <2>2 DEF Shape, Sets, Carried
    <3>2. /\ n \notin Sub(U, l) /\ (l # Nil => l \in Sub(U, l))
          /\ n \notin Sub(U, r) /\ (r # Nil => r \in Sub(U, r))
      BY <2>2, Below DEF Sides
    <3> QED
      BY <1>0, <2>2, <3>1, <3>2
  <2>6. L \cap R = {}
    <3> SUFFICES ASSUME NEW x \in L, x \in R PROVE FALSE
      OBVIOUS
    <3>1. Lt(K, x, n) /\ Lt(K, n, x)
      BY <2>2 DEF Shape, Order, OnSide, Sides
    <3>2. Keyed(M, K)
      BY DEF Shape, Types, Keyed
    <3> QED
      BY <2>5, <3>1, <3>2, LtIsOrder
  <2>7. /\ \A x \in L, s \in Sides : v[x][s] \in L \cup {Nil}
        /\ \A x \in R, s \in Sides : v[x][s] \in R \cup {Nil}
    <3>1. (l # Nil => l \in M) /\ (r # Nil => r \in M)
      BY <2>5
    <3> QED
      BY <1>0, <2>2, <3>1 DEF Sub, Closed
  <2>8. PICK e : e = [x \in M |-> IF x \in L THEN el[x] ELSE IF x \in R THEN er[x]
                                 ELSE 1 + Higher(At(el, l), At(er, r))]
    OBVIOUS
  <2>9. At(el, l) \in Nat /\ At(er, r) \in Nat
    BY <2>5 DEF At
  <2>10. e \in [M -> Nat]
    BY <2>8, <2>9 DEF Higher
  <2>11. /\ \A x \in L \cup {Nil} : At(e, x) = At(el, x)
         /\ \A x \in R \cup {Nil} : At(e, x) = At(er, x)
    BY <2>5, <2>6, <2>8 DEF At
  <2>12. ASSUME NEW x \in L
         PROVE  e[x] = 1 + Higher(At(e, v[x]["left"]), At(e, v[x]["right"]))
    <3>1. e[x] = el[x] /\ el[x] = 1 + Higher(At(el, v[x]["left"]), At(el, v[x]["right"]))
      BY <2>3, <2>5, <2>8 DEF IsDepth
    <3>2. v[x]["left"] \in L \cup {Nil} /\ v[x]["right"] \in L \cup {Nil}
      BY <2>7 DEF Sides
    <3> QED
      BY <2>11, <3>1, <3>2
  <2>13. ASSUME NEW x \in R
         PROVE  e[x] = 1 + Higher(At(e, v[x]["left"]), At(e, v[x]["right"]))
    <3>1. e[x] = er[x] /\ er[x] = 1 + Higher(At(er, v[x]["left"]), At(er, v[x]["right"]))
      BY <2>4, <2>5, <2>6, <2>8 DEF IsDepth
    <3>2. v[x]["left"] \in R \cup {Nil} /\ v[x]["right"] \in R \cup {Nil}
      BY <2>7 DEF Sides
    <3> QED
      BY <2>11, <3>1, <3>2
  <2>14. e[n] = 1 + Higher(At(e, v[n]["left"]), At(e, v[n]["right"]))
    <3>1. e[n] = 1 + Higher(At(el, l), At(er, r))
      BY <2>5, <2>8
    <3> QED
      BY <2>2, <2>5, <2>11, <3>1
  <2>15. IsDepth(v, e, U[n])
    BY <2>5, <2>12, <2>13, <2>14 DEF IsDepth
  <2> QED
    BY <2>10, <2>15
<1> HIDE DEF G
<1>2. M \subseteq G
  BY <1>1, TreeInduction
<1> QED
  BY <1>2 DEF G

\* The tree in memory has depths, so Depth has them.
LEMMA DepthIs ==
  ASSUME NEW U, TypeOK, Control, Shape(members, key, U, link, root, {}, {}), IsFiniteSet(members)
  PROVE  /\ \A n \in members : At(Depth, n) = Depth[n]
         /\ Depth[Nil] = 0
         /\ IsDepth(link, Depth, members)
<1> DEFINE S == Nodes \cup {Nil}
           F(e) == e = [n \in S |->
             IF n = Nil THEN 0
             ELSE LET l == e[link[n]["left"]]
                      r == e[link[n]["right"]]
                  IN  1 + (IF l > r THEN l ELSE r)]
<1>1. /\ members \subseteq Nodes /\ Nil \notin Nodes
      /\ \A n \in members, s \in Sides : link[n][s] \in members \cup {Nil}
      /\ \A n \in Nodes \ members, s \in Sides : link[n][s] = Nil
      /\ "left" \in Sides /\ "right" \in Sides
  BY AvlTreeAssumption DEF TypeOK, Control, Shape, Types, Sides
<1>2. PICK e \in [members -> Nat] : IsDepth(link, e, members)
  <2>1. CASE members = {}
    <3>1. [n \in members |-> 0] \in [members -> Nat]
      OBVIOUS
    <3> QED
      BY <2>1, <3>1 DEF IsDepth
  <2>2. CASE members # {}
    <3>1. root \in members /\ U[root] = members
      BY <2>2 DEF Shape, Types, Sets, Sub
    <3>2. \A n \in members : \E e \in [members -> Nat] : IsDepth(link, e, U[n])
      BY SubtreeDepths
    <3> QED
      BY <3>1, <3>2
  <2> QED
    BY <2>1, <2>2
<1>3. PICK d : d = [n \in S |-> IF n = Nil THEN 0 ELSE IF n \in members THEN e[n] ELSE 1]
  OBVIOUS
<1>4. d[Nil] = 0 /\ \A n \in members \cup {Nil} : d[n] = At(e, n) /\ d[n] \in Nat
  BY <1>1, <1>3 DEF At
<1>5. ASSUME NEW n \in Nodes
      PROVE  d[n] = 1 + Higher(d[link[n]["left"]], d[link[n]["right"]])
  <2>1. CASE n \in members
    <3>1. link[n]["left"] \in members \cup {Nil} /\ link[n]["right"] \in members \cup {Nil}
      BY <1>1, <2>1
    <3>2. d[n] = e[n]
      BY <1>1, <1>3, <2>1
    <3> QED
      BY <1>2, <1>4, <2>1, <3>1, <3>2 DEF IsDepth
  <2>2. CASE n \notin members
    <3>1. link[n]["left"] = Nil /\ link[n]["right"] = Nil /\ d[n] = 1
      BY <1>1, <1>3, <2>2
    <3> QED
      BY <1>4, <3>1 DEF Higher
  <2> QED
    BY <2>1, <2>2
<1>6. F(d)
  <2>1. d = [n \in S |-> d[n]]
    BY <1>3
  <2>2. \A n \in S : d[n] = IF n = Nil THEN 0
                            ELSE 1 + Higher(d[link[n]["left"]], d[link[n]["right"]])
    BY <1>4, <1>5
  <2> QED
    BY <2>1, <2>2 DEF Higher
<1>7. F(Depth)
  <2>1. Depth = CHOOSE f : F(f)
    BY DEF Depth
  <2> HIDE DEF F
  <2> QED
    BY <1>6, <2>1
<1>8. PICK D : D = Depth
  OBVIOUS
<1>9. /\ D[Nil] = 0
      /\ \A n \in Nodes : D[n] = 1 + Higher(D[link[n]["left"]], D[link[n]["right"]])
  <2>1. D = [n \in S |-> IF n = Nil THEN 0
             ELSE 1 + Higher(D[link[n]["left"]], D[link[n]["right"]])]
    BY <1>7, <1>8 DEF Higher
  <2> QED
    BY <1>1, <2>1
<1>10. \A n \in members \cup {Nil} : At(D, n) = D[n]
  BY <1>9 DEF At
<1>11. IsDepth(link, D, members)
  BY <1>1, <1>9, <1>10 DEF IsDepth
<1> QED
  BY <1>1, <1>8, <1>9, <1>10, <1>11

\* Where the heights are level they are at most one below the depths.
LEMMA LevelDepths ==
  ASSUME NEW M, NEW K, NEW U, NEW v, NEW top, Shape(M, K, U, v, top, {}, {}), IsFiniteSet(M),
         NEW hgt, \A n \in M : hgt[n] \in Nat, Levels(M, v, hgt),
         NEW e, IsDepth(v, e, M)
  PROVE  \A n \in M :
           /\ At(e, v[n]["left"]) - At(e, v[n]["right"]) \in -2 .. 2
           /\ e[n] - hgt[n] \in 0 .. 1
<1> DEFINE Close(n) == e[n] \in Nat /\ e[n] - hgt[n] \in 0 .. 1
           G == {n \in M : Close(n)}
<1>0. "left" \in Sides /\ "right" \in Sides /\ Nil \notin M
      /\ \A n \in M, s \in Sides : v[n][s] \in M \cup {Nil}
  BY AvlTreeAssumption DEF Sides, Shape, Types
<1>1. ASSUME NEW n \in M, \A s \in Sides : v[n][s] # Nil => v[n][s] \in G
      PROVE  /\ n \in G
             /\ At(e, v[n]["left"]) - At(e, v[n]["right"]) \in -2 .. 2
  <2>1. PICK hl, hr, el, er :
          /\ hl = At(hgt, v[n]["left"]) /\ hr = At(hgt, v[n]["right"])
          /\ el = At(e, v[n]["left"]) /\ er = At(e, v[n]["right"])
    OBVIOUS
  <2>2. \A s \in Sides : /\ At(hgt, v[n][s]) \in Nat /\ At(e, v[n][s]) \in Nat
                         /\ At(e, v[n][s]) - At(hgt, v[n][s]) \in 0 .. 1
    BY <1>0, <1>1 DEF At
  <2>3. /\ hl \in Nat /\ hr \in Nat /\ el \in Nat /\ er \in Nat
        /\ el - hl \in 0 .. 1 /\ er - hr \in 0 .. 1
    BY <1>0, <2>1, <2>2
  <2>4. hl - hr \in -1 .. 1 /\ hgt[n] \in Nat
    BY <2>1 DEF Levels, Level, TREE_DELTA_MAX
  <2>5. e[n] = 1 + Higher(el, er)
    BY <2>1 DEF IsDepth
  <2>6. Close(n)
    <3>1. \/ hgt[n] = Higher(hl, hr) + 1
          \/ hgt[n] = 0 /\ \A s \in Sides : v[n][s] = Nil
      BY <2>1 DEF Levels, Level
    <3>2. CASE hgt[n] = Higher(hl, hr) + 1
      BY <2>3, <2>4, <2>5, <3>2 DEF Higher
    <3>3. CASE hgt[n] = 0 /\ \A s \in Sides : v[n][s] = Nil
      <4>1. el = 0 /\ er = 0
        BY <1>0, <2>1, <3>3 DEF At
      <4>2. e[n] = 1
        BY <2>5, <4>1 DEF Higher
      <4> QED
        BY <3>3, <4>2
    <3> QED
      BY <3>1, <3>2, <3>3
  <2>7. el - er \in -2 .. 2
    BY <2>3, <2>4
  <2> QED
    BY <2>1, <2>6, <2>7
<1> HIDE DEF G
<1>2. M \subseteq G
  BY <1>1, TreeInduction
<1> QED
  BY <1>0, <1>1, <1>2 DEF G

(***************************************************************************)
(* Between the calls all nodes are settled, and the tree is balanced.      *)
(***************************************************************************)
LEMMA HeightsBalance == TreeInv /\ HeightInv => AlmostBalanced
<1> SUFFICES ASSUME TreeInv, HeightInv, pc = "idle"
             PROVE  \A n \in members :
                      /\ Depth[link[n]["left"]] - Depth[link[n]["right"]] \in -2 .. 2
                      /\ Depth[n] - height[n] \in 0 .. 1
  BY DEF AlmostBalanced
<1>1. TypeOK /\ Control /\ ~Mutating
  BY BetweenCalls
<1>2. PICK U, v : Reads(U, v)
  BY BetweenCalls
<1>3. /\ Shape(members, key, U, v, root, {}, {})
      /\ \A n \in members, s \in Sides : v[n][s] = link[n][s]
      /\ members \subseteq Nodes /\ link \in [Nodes -> [Sides -> Nodes \cup {Nil}]]
      /\ Nil \notin members
  BY <1>1, <1>2, AvlTreeAssumption DEF Reads, TypeOK
<1>4. Shape(members, key, U, link, root, {}, {})
  <2>1. /\ \A n \in members, s \in Sides : link[n][s] \in members \cup {Nil}
        /\ "left" \in Sides /\ "right" \in Sides
    BY <1>3 DEF Shape, Types, Sides
  <2>2. Types(members, key, U, link, root, {}, {})
    BY <1>3, <2>1 DEF Shape, Types
  <2>3. Sets(members, U, link, root, {}, {})
    BY <1>3, <2>1 DEF Shape, Sets
  <2>4. Order(members, key, U, link)
    BY <1>3 DEF Shape, Order
  <2>5. Parents(members, link, root)
    BY <1>3 DEF Shape, Parents
  <2> QED
    BY <2>2, <2>3, <2>4, <2>5 DEF Shape
<1>5. IsFiniteSet(members) /\ Levels(members, link, height)
  <2>1. Unsettled = {}
    BY <1>1 DEF Unsettled, Settling, Mutating
  <2> QED
    BY <2>1 DEF HeightInv, Levels
<1>6. /\ \A n \in members : At(Depth, n) = Depth[n]
      /\ Depth[Nil] = 0
      /\ IsDepth(link, Depth, members)
  BY <1>1, <1>4, <1>5, DepthIs
<1>7. PICK D : D = Depth
  OBVIOUS
<1>8. \A n \in members : height[n] \in Nat
  BY <1>3, <1>1 DEF TypeOK
<1>9. IsDepth(link, D, members)
  BY <1>6, <1>7
<1>10. \A n \in members :
         /\ At(D, link[n]["left"]) - At(D, link[n]["right"]) \in -2 .. 2
         /\ D[n] - height[n] \in 0 .. 1
  BY <1>4, <1>5, <1>8, <1>9, LevelDepths
<1>11. \A n \in members, s \in Sides : At(D, link[n][s]) = D[link[n][s]]
  BY <1>6, <1>7 DEF At
<1> QED
  BY <1>7, <1>10, <1>11 DEF Sides

-----------------------------------------------------------------------------
(* Both trees stay balanced.                                               *)

LEMMA NoHeights ==
  ASSUME HeightInv, UNCHANGED treeVars
  PROVE  HeightInv'
<1>1. UNCHANGED <<members, link, height>> /\ Unsettled' = Unsettled
  BY DEF treeVars, Unsettled, Settling, Mutating
<1> QED
  BY <1>1, NothingChanges

LEMMA RecordHeights ==
  ASSUME RecordsInv, HeightInv, [RecordOrderNext]_recordVars
  PROVE  HeightInv'
<1>0. TreeInv /\ members = {n \in Nodes : n < nr} /\ nr \in Nat
  BY DEF RecordsInv
<1>1. ASSUME NEW time \in Keys, add_record_order(time)
      PROVE  HeightInv'
  <2>1. PICK elm : elm = nr
    OBVIOUS
  <2>2. elm \in Nodes \ members /\ TREE_INSERT(elm, time) /\ pc = "idle"
    BY <1>0, <1>1, <2>1 DEF add_record_order
  <2> QED
    BY <1>0, <2>2, InsertHeights
<1>2. ASSUME iterate_order
      PROVE  HeightInv'
  <2>1. UNCHANGED <<members, link, height>> /\ pc = "idle"
    BY <1>2 DEF iterate_order, TREE_FORWARD_APPLY, memory
  <2> QED
    BY <1>0, <2>1, CallHeights
<1>3. ASSUME Step PROVE HeightInv'
  BY <1>0, <1>3, HeightStep
<1>4. ASSUME UNCHANGED recordVars PROVE HeightInv'
  BY <1>4, NoHeights DEF recordVars
<1> QED
  BY <1>1, <1>2, <1>3, <1>4 DEF RecordOrderNext

(***************************************************************************)
(* Adding records never leaves two subtrees of a node more than two apart, *)
(* and no stored height is more than one below the depth.                  *)
(***************************************************************************)
THEOREM RecordsBalanced == RecordOrderSpec => []AlmostBalanced
<1>1. RecordOrderInit => HeightInv
  BY HeightInit DEF RecordOrderInit
<1>2. RecordsInv /\ HeightInv /\ [RecordOrderNext]_recordVars => HeightInv'
  BY RecordHeights
<1>3. RecordsInv /\ HeightInv => AlmostBalanced
  BY HeightsBalance DEF RecordsInv
<1> QED
  BY <1>1, <1>2, <1>3, RecordsAlways, PTL DEF RecordOrderSpec

LEMMA ProcessHeights ==
  ASSUME Keys \subseteq Nodes, ProcessesInv, HeightInv, [ProcessTreeNext]_treeVars
  PROVE  HeightInv'
<1>0. TreeInv
  BY DEF ProcessesInv
<1>1. ASSUME create_process
      PROVE  HeightInv'
  <2>1. PICK elm : elm = want
    OBVIOUS
  <2>2. elm \in Nodes \ members /\ TREE_INSERT(elm, elm) /\ pc = "found"
    BY <1>1, <2>1, CreatesNew DEF create_process
  <2> QED
    BY <1>0, <2>2, InsertHeights
<1>2. ASSUME (\E pid \in Keys : find_process(pid)) \/ remove_process \/ keep_process \/ iterate_processes
      PROVE  HeightInv'
  <2>1. UNCHANGED <<members, link, height>> /\ pc \in {"idle", "found"}
    BY <1>2 DEF find_process, TREE_FIND, remove_process, TREE_REMOVE, keep_process,
         iterate_processes, TREE_FORWARD_APPLY, memory
  <2> QED
    BY <1>0, <2>1, CallHeights
<1>3. ASSUME Step PROVE HeightInv'
  BY <1>0, <1>3, HeightStep
<1>4. ASSUME UNCHANGED treeVars PROVE HeightInv'
  BY <1>4, NoHeights
<1> QED
  BY <1>1, <1>2, <1>3, <1>4 DEF ProcessTreeNext

(***************************************************************************)
(* No sequence of creations and removals unbalances the processes: a       *)
(* removal grafts a subtree on the other one, whatever their heights, and  *)
(* the rotations on the way back still repair it.                          *)
(***************************************************************************)
THEOREM ProcessesBalanced ==
  ASSUME Keys \subseteq Nodes
  PROVE  ProcessTreeSpec => []AlmostBalanced
<1>1. ProcessTreeInit => HeightInv
  BY HeightInit DEF ProcessTreeInit
<1>2. ProcessesInv /\ HeightInv /\ [ProcessTreeNext]_treeVars => HeightInv'
  BY ProcessHeights
<1>3. ProcessesInv /\ HeightInv => AlmostBalanced
  BY HeightsBalance DEF ProcessesInv
<1> QED
  BY <1>1, <1>2, <1>3, ProcessesAlways, PTL DEF ProcessTreeSpec
=============================================================================
