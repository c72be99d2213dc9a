----------------------------- MODULE ThreadTree -----------------------------
(***************************************************************************)
(* The tree of the threads of a process (containers/tree.cxx), a treap:    *)
(* sorted by the address of the nodes, and a node of higher priority is    *)
(* above one of lower. A tree is a record of its root and its nodes, a     *)
(* function from addresses.                                                *)
(***************************************************************************)
EXTENDS KernelMemory, Functions

DIR_LEFT == FALSE

DIR_RIGHT == TRUE

EmptyTree == [root |-> NULL, node |-> [n \in {} |-> {}]]

NewNode(parent, dir, priority) ==
    [parent |-> parent, child |-> [d \in BOOLEAN |-> NULL], priority |-> priority, dir |-> dir]

AddNode(tree, n, new) ==
    [tree EXCEPT !.node = [x \in DOMAIN @ \cup {n} |-> IF x = n THEN new ELSE @[x]]]

-----------------------------------------------------------------------------
\* Mutant: y is linked below the parent without being told.
Turn_untold(tree, parent, child) ==
    LET node == tree.node
        dir == node[child].dir
        G == node[parent].parent
        y == node[child].child[~dir]
    IN  [root |-> IF G = NULL THEN child ELSE tree.root,
         node |-> [n \in DOMAIN node |->
            CASE n = child  -> [node[n] EXCEPT !.parent = G, !.dir = node[parent].dir,
                                               !.child[~dir] = parent]
              [] n = parent -> [node[n] EXCEPT !.parent = child, !.dir = ~dir,
                                               !.child[dir] = y]
              [] n = G      -> [node[n] EXCEPT !.child[node[parent].dir] = child]
              [] OTHER      -> node[n]]]

\* One rotation: child takes the place of its parent, which keeps the subtree y.
Turn(tree, parent, child) ==
    LET node == tree.node
        dir == node[child].dir
        G == node[parent].parent
        y == node[child].child[~dir]
    IN  [root |-> IF G = NULL THEN child ELSE tree.root,
         node |-> [n \in DOMAIN node |->
            CASE n = child  -> [node[n] EXCEPT !.parent = G, !.dir = node[parent].dir,
                                               !.child[~dir] = parent]
              [] n = parent -> [node[n] EXCEPT !.parent = child, !.dir = ~dir,
                                               !.child[dir] = y]
              [] n = y      -> [node[n] EXCEPT !.parent = parent, !.dir = dir]
              [] n = G      -> [node[n] EXCEPT !.child[node[parent].dir] = child]
              [] OTHER      -> node[n]]]

\* Rotations, until no node above child has a lower priority
rotate_up(tree, parent, child) ==
    LET turned[k \in Nat] ==
            IF k = 0 THEN Turn(tree, parent, child)
            ELSE LET t == turned[k - 1]
                     G == t.node[child].parent
                 IN  IF G # NULL /\ t.node[child].priority > t.node[G].priority
                     THEN Turn(t, G, child) ELSE t
    IN  turned[Cardinality(DOMAIN tree.node)]

insert_root(tree, n, priority) ==
    [AddNode(tree, n, NewNode(NULL, DIR_LEFT, priority)) EXCEPT !.root = n]

insert_at(tree, parent, dir, n, priority) ==
    LET linked == [AddNode(tree, n, NewNode(parent, dir, priority))
                        EXCEPT !.node[parent].child[dir] = n]
    IN  IF priority > tree.node[parent].priority
        THEN rotate_up(linked, parent, n) ELSE linked

\* The descent of Process::spawn_thread: the address decides where n goes.
InsertBelow(tree, top, n, priority) ==
    LET last[parent \in DOMAIN tree.node] ==
            LET child == tree.node[parent].child[parent < n]
            IN  IF child = NULL THEN parent ELSE last[child]
    IN  insert_at(tree, last[top], last[top] < n, n, priority)

insert(tree, n, priority) ==
    IF tree.root # NULL THEN InsertBelow(tree, tree.root, n, priority)
    ELSE insert_root(tree, n, priority)

-----------------------------------------------------------------------------
leftmost(tree, n) ==
    LET down[x \in DOMAIN tree.node] ==
            LET left == tree.node[x].child[DIR_LEFT]
            IN  IF left = NULL THEN x ELSE down[left]
    IN  down[n]

begin(tree) == IF tree.root = NULL THEN NULL ELSE leftmost(tree, tree.root)

\* Up as long as n is a right child, then to its parent
Climb(tree, n) ==
    LET up[x \in DOMAIN tree.node] ==
            LET parent == tree.node[x].parent
            IN  IF tree.node[x].dir = DIR_RIGHT THEN up[parent] ELSE parent
    IN  up[n]

next(tree, n) ==
    IF tree.node[n].child[DIR_RIGHT] # NULL THEN leftmost(tree, tree.node[n].child[DIR_RIGHT])
    ELSE Climb(tree, n)
=============================================================================
