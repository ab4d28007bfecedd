------------------------------ MODULE AvlTree -------------------------------
(***************************************************************************)
(* util/tree.h: the AVL tree that orders the records by time and the       *)
(* processes by pid, as the machine runs its recursive functions: nodes    *)
(* with two links and a height that are changed in place, the activation   *)
(* that runs (pc, self, arg and want), and the stack of the callers that   *)
(* wait for its result.  One action is a function from its call to the next*)
(* call or to its return.  TREE_ROTR is TREE_ROTL with the sides swapped.  *)
(*                                                                         *)
(* The functions compare a node with the key of an element, want.  Locals  *)
(* of an activation that is over are Nil.  Memory that is not in use has no*)
(* links and the height zero: processes.c clears it, and of the records,   *)
(* which are not cleared, the same is assumed.                             *)
(***************************************************************************)
EXTENDS Integers, Sequences

CONSTANTS
  Nodes,   \* the structures linked into the tree; numbers, see Before
  Keys,    \* what they are ordered by: times or pids
  Nil      \* the null pointer

ASSUME AvlTreeAssumption ==
  /\ Nodes \subseteq Nat
  /\ Keys \subseteq Nat
  /\ Nil \notin Nodes \cup Keys

VARIABLES
  root,     \* th_root
  key,      \* the field compare looks at, Nil when the node is not in use
  link,     \* avl_left and avl_right
  height,   \* avl_height
  pc,       \* what runs: a function of the tree, or its user
  self,     \* its parameter, or what it returns
  arg,      \* the element to insert, or the subtree to move
  want,     \* the key of the element to insert, to find or to remove
  stack,    \* the callers, with the link the result is for and what they do next
  members,  \* history: the nodes that have been inserted and not removed
  visited   \* history: the nodes TREE_FORWARD_APPLY has called its function with

memory == <<key, link, height, members>>
treeVars == <<root, key, link, height, pc, self, arg, want, stack, members, visited>>

Sides == {"left", "right"}
Other(side) == IF side = "left" THEN "right" ELSE "left"
NoLinks == [side \in Sides |-> Nil]
Frames == [self : Nodes, side : Sides, next : {"balance", "rotl", "rotr", "visit"}]

\* A limit that a node with one child exceeds.
TREE_DELTA_MAX_Zero == 0

TREE_DELTA_MAX == 1

HeightOf(n) == IF n = Nil THEN 0 ELSE height[n]

TREE_DELTA(n) == HeightOf(link[n]["left"]) - HeightOf(link[n]["right"])

\* The order of the walk: by key, and equal keys in the order of the nodes'
\* numbers, which is the order users add them in.
Before(m, n) == key[m] < key[n] \/ (key[m] = key[n] /\ m < n)

-----------------------------------------------------------------------------
(* Calls and returns.                                                      *)

Run(function, s, a, w) == pc' = function /\ self' = s /\ arg' = a /\ want' = w

\* The caller waits for the new value of one of the links of n.
Push(n, side, next) ==
  stack' = Append(stack, [self |-> n, side |-> side, next |-> next])

Return(n) == Run("return", n, Nil, want)

\* Equal keys go to the left.
Less_EqualLeft(n) == want <= key[n]

\* compare(elm, self) < 0
Less(n) == want < key[n]

SideOf(n) == IF Less(n) THEN "left" ELSE "right"

\* The macros that call the functions with the root.

\* A node that has been allocated has no links and the height zero.
TREE_INSERT(elm, k) ==
  /\ key' = [key EXCEPT ![elm] = k]
  /\ members' = members \cup {elm}
  /\ Run("insert", root, elm, k)
  /\ UNCHANGED <<root, link, height, stack, visited>>

TREE_FIND(k) ==
  /\ Run("find", root, Nil, k)
  /\ UNCHANGED <<root, memory, stack, visited>>

TREE_REMOVE(k) ==
  /\ Run("remove", root, Nil, k)
  /\ UNCHANGED <<root, memory, stack, visited>>

TREE_FORWARD_APPLY ==
  /\ Run("apply", root, Nil, Nil)
  /\ visited' = << >>
  /\ UNCHANGED <<root, memory, stack>>

-----------------------------------------------------------------------------
(* The functions.                                                          *)

\* TREE_INSERT and TREE_REMOVE go down to the side of the key.
Descend ==
  /\ pc \in {"insert", "remove"}
  /\ self # Nil
  /\ pc = "remove" => key[self] # want
  /\ Push(self, SideOf(self), "balance")
  /\ Run(pc, link[self][SideOf(self)], arg, want)
  /\ UNCHANGED <<root, memory, visited>>

\* The place of the new element, or of the subtree that is moved.  A removal
\* that comes here has found nothing.
Place ==
  /\ pc \in {"insert", "remove", "move_right"}
  /\ self = Nil
  /\ Return(IF pc = "remove" THEN Nil ELSE arg)
  /\ UNCHANGED <<root, memory, stack, visited>>

\* A removal that keeps only one of the two subtrees.
RemoveSelf_DropsRight ==
  /\ pc = "remove"
  /\ self # Nil
  /\ key[self] = want
  /\ Run("move_right", link[self]["left"],
         IF link[self]["left"] = Nil THEN link[self]["right"] ELSE Nil, want)
  /\ members' = members \ {self}
  /\ key' = [key EXCEPT ![self] = Nil]
  /\ link' = [link EXCEPT ![self] = NoLinks]
  /\ height' = [height EXCEPT ![self] = 0]
  /\ UNCHANGED <<root, stack, visited>>

\* The node is found: its right subtree is moved below its left one.  The code
\* clears the links when TREE_MOVE_RIGHT has returned, but it does not look at
\* them in between; the rest is cleared when the memory is used again.
RemoveSelf ==
  /\ pc = "remove"
  /\ self # Nil
  /\ key[self] = want
  /\ Run("move_right", link[self]["left"], link[self]["right"], want)
  /\ members' = members \ {self}
  /\ key' = [key EXCEPT ![self] = Nil]
  /\ link' = [link EXCEPT ![self] = NoLinks]
  /\ height' = [height EXCEPT ![self] = 0]
  /\ UNCHANGED <<root, stack, visited>>

TREE_MOVE_RIGHT ==
  /\ pc = "move_right"
  /\ self # Nil
  /\ Push(self, "right", "balance")
  /\ Run(pc, link[self]["right"], arg, want)
  /\ UNCHANGED <<root, memory, visited>>

\* The node that goes down keeps its height.
Rotate_StaleHeight(side) ==
  LET child == link[self][side]
  IN  /\ link' = [link EXCEPT ![self][side] = link[child][Other(side)],
                              ![child][Other(side)] = self]
      /\ Run("balance", child, arg, want)
      /\ UNCHANGED <<root, key, height, members, stack, visited>>

\* TREE_ROTL for the right side, TREE_ROTR for the left one.
Rotate(side) ==
  LET child == link[self][side]
  IN  /\ link' = [link EXCEPT ![self][side] = link[child][Other(side)]]
      /\ Push(child, Other(side), "balance")
      /\ Run("balance", self, arg, want)
      /\ UNCHANGED <<root, key, height, members, visited>>

TREE_ROTL == pc = "rotl" /\ Rotate("right")
TREE_ROTR == pc = "rotr" /\ Rotate("left")

\* The child is rotated back when it leans to the same side.
BalanceSide_SameLean(side, lean, rotate, back) ==
  /\ pc = "balance"
  /\ lean * TREE_DELTA(self) > TREE_DELTA_MAX
  /\ \/ /\ lean * TREE_DELTA(link[self][side]) <= 0
        /\ Run(rotate, self, arg, want)
        /\ UNCHANGED stack
     \/ /\ lean * TREE_DELTA(link[self][side]) > 0
        /\ Push(self, side, rotate)
        /\ Run(back, link[self][side], arg, want)
  /\ UNCHANGED <<root, memory, visited>>

\* TREE_BALANCE when one side is too high: a rotation, and before it one of the
\* child, if the child leans to the other side.
BalanceSide(side, lean, rotate, back) ==
  /\ pc = "balance"
  /\ lean * TREE_DELTA(self) > TREE_DELTA_MAX
  /\ \/ /\ lean * TREE_DELTA(link[self][side]) >= 0
        /\ Run(rotate, self, arg, want)
        /\ UNCHANGED stack
     \/ /\ lean * TREE_DELTA(link[self][side]) < 0
        /\ Push(self, side, rotate)
        /\ Run(back, link[self][side], arg, want)
  /\ UNCHANGED <<root, memory, visited>>

\* The height of a node is one more than that of its higher child.
Balanced ==
  /\ pc = "balance"
  /\ TREE_DELTA(self) \in -TREE_DELTA_MAX .. TREE_DELTA_MAX
  /\ height' = [height EXCEPT ![self] =
       LET l == HeightOf(link[self]["left"])
           r == HeightOf(link[self]["right"])
       IN  (IF l > r THEN l ELSE r) + 1]
  /\ Return(self)
  /\ UNCHANGED <<root, key, link, stack, members, visited>>

TREE_BALANCE ==
  \/ BalanceSide("right", -1, "rotl", "rotr")
  \/ BalanceSide("left", 1, "rotr", "rotl")
  \/ Balanced

\* The caller stores the result in its link and goes on.
Resume ==
  /\ pc = "return"
  /\ stack # << >>
  /\ LET caller == stack[Len(stack)]
     IN  /\ link' = [link EXCEPT ![caller.self][caller.side] = self]
         /\ Run(caller.next, caller.self, arg, want)
  /\ stack' = SubSeq(stack, 1, Len(stack) - 1)
  /\ UNCHANGED <<root, key, height, members, visited>>

\* The macro stores it in th_root.
Finish ==
  /\ pc = "return"
  /\ stack = << >>
  /\ root' = self
  /\ Run("idle", Nil, Nil, Nil)
  /\ UNCHANGED <<memory, stack, visited>>

\* A search that takes the wrong side.
Find_OtherSide ==
  /\ pc = "find"
  /\ \/ /\ self # Nil => key[self] = want
        /\ Run("found", self, arg, want)
     \/ /\ self # Nil /\ key[self] # want
        /\ Run(pc, link[self][Other(SideOf(self))], arg, want)
  /\ UNCHANGED <<root, memory, stack, visited>>

Find ==
  /\ pc = "find"
  /\ \/ /\ self # Nil => key[self] = want
        /\ Run("found", self, arg, want)
     \/ /\ self # Nil /\ key[self] # want
        /\ Run(pc, link[self][SideOf(self)], arg, want)
  /\ UNCHANGED <<root, memory, stack, visited>>

\* The walk goes down to the left ...
ApplyLeft ==
  /\ pc = "apply"
  /\ self # Nil
  /\ Push(self, "left", "visit")
  /\ Run(pc, link[self]["left"], arg, want)
  /\ UNCHANGED <<root, memory, visited>>

\* ... and, back from there, visits the node and goes to the right.
ApplyVisit ==
  /\ pc = "apply"
  /\ self = Nil
  /\ stack # << >>
  /\ LET caller == stack[Len(stack)]
     IN  /\ visited' = Append(visited, caller.self)
         /\ Run(pc, link[caller.self]["right"], arg, want)
  /\ stack' = SubSeq(stack, 1, Len(stack) - 1)
  /\ UNCHANGED <<root, memory>>

ApplyEnd ==
  /\ pc = "apply"
  /\ self = Nil
  /\ stack = << >>
  /\ Run("walked", Nil, Nil, Nil)
  /\ UNCHANGED <<root, memory, stack, visited>>

Step ==
  \/ Descend \/ Place \/ RemoveSelf \/ TREE_MOVE_RIGHT
  \/ TREE_ROTL \/ TREE_ROTR \/ TREE_BALANCE \/ Resume \/ Finish
  \/ Find \/ ApplyLeft \/ ApplyVisit \/ ApplyEnd

Init ==
  /\ root = Nil
  /\ key = [n \in Nodes |-> Nil]
  /\ link = [n \in Nodes |-> NoLinks]
  /\ height = [n \in Nodes |-> 0]
  /\ pc = "idle" /\ self = Nil /\ arg = Nil /\ want = Nil
  /\ stack = << >>
  /\ members = {}
  /\ visited = << >>

-----------------------------------------------------------------------------
(* Properties.                                                             *)

Functions == {"insert", "remove", "move_right", "rotl", "rotr", "balance", "return",
              "find", "apply"}

(***************************************************************************)
(* Types.                                                                  *)
(***************************************************************************)
TypeOK ==
  /\ root \in Nodes \cup {Nil}
  /\ key \in [Nodes -> Keys \cup {Nil}]
  /\ link \in [Nodes -> [Sides -> Nodes \cup {Nil}]]
  /\ height \in [Nodes -> Nat]
  /\ pc \in Functions \cup {"idle", "found", "walked"}
  /\ self \in Nodes \cup {Nil}
  /\ arg \in Nodes \cup {Nil}
  /\ want \in Keys \cup {Nil}
  /\ stack \in Seq(Frames)
  /\ members \subseteq Nodes
  /\ visited \in Seq(Nodes)

(***************************************************************************)
(* The functions never follow a null pointer or one to a node that is not  *)
(* in the tree any more: what they balance and rotate is a member, and so  *)
(* is the child a rotation puts above it, although the heights that choose *)
(* the rotations are stale below a graft.                                  *)
(***************************************************************************)
NoWildPointer ==
  /\ pc \in {"balance", "rotl", "rotr"} => self \in members
  /\ pc = "rotl" => link[self]["right"] \in members
  /\ pc = "rotr" => link[self]["left"] \in members
  /\ self \in members \cup {Nil}
  /\ \A i \in DOMAIN stack : stack[i].self \in members

(***************************************************************************)
(* A search returns a node with the key when there is one in the tree, and *)
(* the null pointer when there is none.                                    *)
(***************************************************************************)
FindsMembers ==
  pc = "found" =>
    IF \E n \in members : key[n] = want
      THEN self \in members /\ key[self] = want
      ELSE self = Nil

(***************************************************************************)
(* The walk visits every node in the tree exactly once, in ascending order *)
(* of the keys, and equal keys in the order they were added.               *)
(***************************************************************************)
WalkIsSorted ==
  pc = "walked" =>
    /\ {visited[i] : i \in DOMAIN visited} = members
    /\ \A i, j \in DOMAIN visited : i < j => Before(visited[i], visited[j])

Depth[n \in Nodes \cup {Nil}] ==
  IF n = Nil THEN 0
  ELSE LET l == Depth[link[n]["left"]]
           r == Depth[link[n]["right"]]
       IN  1 + (IF l > r THEN l ELSE r)

(***************************************************************************)
(* Between the operations the tree is balanced: the subtrees of a node     *)
(* differ in depth by at most two, and a stored height is never more than  *)
(* one below the depth of its subtree.                                     *)
(***************************************************************************)
AlmostBalanced ==
  pc = "idle" =>
    \A n \in members :
      /\ Depth[link[n]["left"]] - Depth[link[n]["right"]] \in -2 .. 2
      /\ Depth[n] - height[n] \in 0 .. 1
=============================================================================
