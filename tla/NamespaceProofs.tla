--------------------------- MODULE NamespaceProofs --------------------------
(***************************************************************************)
(* For any number of inodes and names, and inodes of any shape: no inode   *)
(* is used twice or used and free, lookups lead where the tree says, calls *)
(* change that tree as calls on trees do, refused ones leave every inode   *)
(* as it was, and inodes and the superblock get lost in two ways only.     *)
(***************************************************************************)
EXTENDS Namespace, LoopProofs

Numbers == 0 .. LAST
PageNumbers == {0} \cup 3 .. LAST
Entries == {Block} \cup ((Names \cup {Dot, DotDot}) \X Numbers)

Node ==
  [isdir : {0, 1}, nlink : Nat, pno : Numbers, ents : Seq(Entries), pages : Seq(PageNumbers)]

Tables == [Numbers -> Node]

States ==
  [inode : Tables, free : SUBSET (3 .. LAST), err : {0, -ENOSPC}, super : {"kept", "lost"}]

-----------------------------------------------------------------------------
(***************************************************************************)
(* The tree in an inode table t. Programs use paths of two names: what is  *)
(* at the end of one is a file or an empty directory.                      *)
(***************************************************************************)
Count(t, n) == Len(t[n].ents)
Slots(t, n) == 3 .. Count(t, n)
Kid(t, n, i) == t[n].ents[i][2]
Kids(t, n) == {Kid(t, n, i) : i \in Slots(t, n)}

Uppers(t) == {ROOT} \cup {k \in Kids(t, ROOT) : t[k].isdir = 1}
Reach(t) == {ROOT} \cup UNION {Kids(t, m) : m \in Uppers(t)}

Own(t, n) == {t[n].pages[k] : k \in 1 .. Len(t[n].pages)} \ {0}

(* A directory has the dots, then names, each once, of inodes that know it *)
(* as their parent.                                                        *)
DirGood(t, n) ==
  /\ Count(t, n) >= 2 /\ t[n].nlink = Count(t, n)
  /\ t[n].ents[1] = <<Dot, n>> /\ t[n].ents[2] = <<DotDot, t[n].pno>>
  /\ \A i \in Slots(t, n) :
       t[n].ents[i] \in Names \X (3 .. LAST) /\ t[Kid(t, n, i)].pno = n
  /\ \A i, j \in Slots(t, n) :
       t[n].ents[i][1] = t[n].ents[j][1] \/ Kid(t, n, i) = Kid(t, n, j) => i = j

DirsGood(t) ==
  /\ t[ROOT].isdir = 1 /\ t[ROOT].pno = ROOT
  /\ \A n \in Reach(t) : t[n].isdir = 1 => DirGood(t, n)
  /\ \A n \in Reach(t) : n \in Uppers(t) \/ (t[n].isdir = 1 => Count(t, n) = 2)

(* No page is used twice. *)
Once(t, n) ==
  \A k, l \in 1 .. Len(t[n].pages) : t[n].pages[k] = t[n].pages[l] /\ t[n].pages[k] # 0 => k = l

(* The inodes of R and their pages are all different, and none is in F. *)
Owned(t, R, F) ==
  /\ \A m \in R : Once(t, m) /\ m \notin F /\ Own(t, m) \cap (R \cup F) = {}
  /\ \A m, n \in R : m # n => Own(t, m) \cap Own(t, n) = {}

(* Nothing is kept in what is free or a page. *)
Blank(t, R, F) ==
  /\ \A j \in F : t[j] = Void
  /\ \A m \in R : \A j \in Own(t, m) : t[j] = Void

Good(t, F) == DirsGood(t) /\ Owned(t, Reach(t), F) /\ Blank(t, Reach(t), F)

PagesFit(t) == \A i \in Numbers : Len(t[i].pages) = Pages(Len(t[i].ents))

Fine(r) == r \in States /\ PagesFit(r.inode) /\ Good(r.inode, r.free)

IInv ==
  /\ Fine(State)
  /\ answer \in {0, -ENOENT, -EEXIST, -ENOSPC}
  /\ turn \in {0, 1}

-----------------------------------------------------------------------------
(***************************************************************************)
(* Calls on the bitmap and the inode table.                                *)
(***************************************************************************)
LEMMA Shape ==
  /\ LAST \in Nat /\ LAST >= 3 /\ ROOT = 2
  /\ DIRECT \in Nat \ {0} /\ PER_PAGE \in Nat \ {0} /\ DIRECT >= 2
  /\ 0 \in Numbers /\ 2 \in Numbers /\ 3 .. LAST \subseteq Numbers
  /\ PageNumbers \subseteq Numbers
BY NamespaceAssumption DEF Numbers, PageNumbers

LEMMA StateParts ==
  ASSUME NEW r \in States
  PROVE  /\ r.inode \in Tables /\ r.free \subseteq 3 .. LAST
         /\ r.err \in {0, -ENOSPC} /\ r.super \in {"kept", "lost"}
BY DEF States

LEMMA StateMade ==
  ASSUME NEW t \in Tables, NEW F \in SUBSET (3 .. LAST), NEW e \in {0, -ENOSPC},
         NEW u \in {"kept", "lost"}, NEW q,
         q = [inode |-> t, free |-> F, err |-> e, super |-> u]
  PROVE  q \in States /\ q.inode = t /\ q.free = F /\ q.err = e /\ q.super = u
BY DEF States

LEMMA NodeParts ==
  ASSUME NEW t \in Tables, NEW n \in Numbers
  PROVE  /\ t[n] \in Node
         /\ t[n].isdir \in {0, 1} /\ t[n].nlink \in Nat /\ t[n].pno \in Numbers
         /\ t[n].ents \in Seq(Entries) /\ t[n].pages \in Seq(PageNumbers)
BY DEF Tables, Node

LEMMA VoidIsNode == Void \in Node
<1>1. <<>> \in Seq(Entries) /\ <<>> \in Seq(PageNumbers) /\ 0 \in Numbers
  BY Shape
<1> QED
  BY <1>1 DEF Void, Node

(* free_inode_pop: a free inode, or 0 and an error. *)
LEMMA Popped ==
  ASSUME NEW r \in States
  PROVE  /\ Pop(r) \in States
         /\ Pop(r).inode = r.inode /\ Pop(r).super = r.super
         /\ r.free = {} =>
              PoppedInode(r) = 0 /\ Pop(r).free = {} /\ Pop(r).err = -ENOSPC
         /\ r.free # {} =>
              /\ PoppedInode(r) \in r.free /\ Pop(r).free = r.free \ {PoppedInode(r)}
              /\ Pop(r).err = r.err
<1>1. /\ r.inode \in Tables /\ r.free \subseteq 3 .. LAST
      /\ r.err \in {0, -ENOSPC} /\ r.super \in {"kept", "lost"}
  BY StateParts
<1>2. r = [inode |-> r.inode, free |-> r.free, err |-> r.err, super |-> r.super]
  BY DEF States
<1>3. CASE r.free = {}
  <2>1. Pop(r) = [inode |-> r.inode, free |-> r.free, err |-> -ENOSPC, super |-> r.super]
    BY <1>2, <1>3 DEF Pop
  <2> QED
    <3>1. /\ Pop(r) \in States /\ Pop(r).inode = r.inode /\ Pop(r).super = r.super
          /\ Pop(r).free = r.free /\ Pop(r).err = -ENOSPC
      BY <1>1, <2>1, StateMade
    <3> QED
      BY <1>3, <3>1 DEF PoppedInode
<1>4. CASE r.free # {}
  <2>1. r.free \in SUBSET Nat
    BY <1>1, Shape
  <2>2. PoppedInode(r) \in r.free
    BY <1>4, <2>1, LeastNumber DEF PoppedInode
  <2> DEFINE i == PoppedInode(r)
  <2> HIDE DEF i
  <2>3. Pop(r) = [inode |-> r.inode, free |-> r.free \ {i}, err |-> r.err, super |-> r.super]
    BY <1>2, <1>4 DEF Pop, i
  <2> QED
    <3>1. r.free \ {i} \in SUBSET (3 .. LAST)
      BY <1>1
    <3>2. /\ Pop(r) \in States /\ Pop(r).inode = r.inode /\ Pop(r).super = r.super
          /\ Pop(r).free = r.free \ {i} /\ Pop(r).err = r.err
      BY <1>1, <2>3, <3>1, StateMade
    <3> QED
      BY <1>4, <2>2, <3>2 DEF i
<1> QED
  BY <1>3, <1>4

(* free_inode_push: 0 is not pushed. *)
LEMMA Pushed ==
  ASSUME NEW r \in States, NEW i \in PageNumbers
  PROVE  /\ Push(r, i) \in States
         /\ Push(r, i).err = r.err /\ Push(r, i).super = r.super
         /\ Push(r, i).free = r.free \cup ({i} \ {0})
         /\ \A j \in Numbers : j # i => Push(r, i).inode[j] = r.inode[j]
         /\ i # 0 => Push(r, i).inode[i] = Void
         /\ i = 0 => Push(r, i) = r
<1>1. /\ r.inode \in Tables /\ r.free \subseteq 3 .. LAST
      /\ r.err \in {0, -ENOSPC} /\ r.super \in {"kept", "lost"}
  BY StateParts
<1>2. r = [inode |-> r.inode, free |-> r.free, err |-> r.err, super |-> r.super]
  BY DEF States
<1>3. CASE i = 0
  BY <1>3 DEF Push
<1>4. CASE i # 0
  <2>1. i \in 3 .. LAST /\ ~ (i < 2) /\ i \in Numbers
    BY <1>4, Shape DEF PageNumbers
  <2> DEFINE t == [r.inode EXCEPT ![i] = Void]
  <2>2. Push(r, i) = [inode |-> t, free |-> r.free \cup {i}, err |-> r.err, super |-> r.super]
    BY <1>2, <2>1 DEF Push, Forget
  <2>3. t \in Tables
    BY <1>1, VoidIsNode DEF Tables
  <2>4. t[i] = Void /\ \A j \in Numbers : j # i => t[j] = r.inode[j]
    BY <1>1, <2>1 DEF Tables
  <2> HIDE DEF t
  <2> QED
    <3>1. r.free \cup {i} \in SUBSET (3 .. LAST)
      BY <1>1, <2>1
    <3>2. /\ Push(r, i) \in States /\ Push(r, i).inode = t /\ Push(r, i).super = r.super
          /\ Push(r, i).free = r.free \cup {i} /\ Push(r, i).err = r.err
      BY <1>1, <2>2, <2>3, <3>1, StateMade
    <3> QED
      BY <1>4, <2>4, <3>2
<1> QED
  BY <1>3, <1>4

(* inode_dump. *)
LEMMA DumpedIs ==
  ASSUME NEW r \in States, NEW i \in PageNumbers, NEW node \in Node
  PROVE  /\ Dumped(r, i, node) \in States
         /\ Dumped(r, i, node).err = r.err /\ Dumped(r, i, node).free = r.free
         /\ \A j \in Numbers : j # i => Dumped(r, i, node).inode[j] = r.inode[j]
         /\ i # 0 => Dumped(r, i, node).inode[i] = node
         /\ i = 0 => Dumped(r, i, node).inode = r.inode
         /\ Dumped(r, i, node).super = IF i = 0 THEN "lost" ELSE r.super
<1>1. /\ r.inode \in Tables /\ r.free \subseteq 3 .. LAST
      /\ r.err \in {0, -ENOSPC} /\ r.super \in {"kept", "lost"}
  BY StateParts
<1>2. r = [inode |-> r.inode, free |-> r.free, err |-> r.err, super |-> r.super]
  BY DEF States
<1>3. CASE i = 0
  <2>1. Dumped(r, i, node) =
          [inode |-> r.inode, free |-> r.free, err |-> r.err, super |-> "lost"]
    BY <1>2, <1>3 DEF Dumped
  <2> QED
    <3>1. /\ Dumped(r, i, node) \in States /\ Dumped(r, i, node).inode = r.inode
          /\ Dumped(r, i, node).free = r.free /\ Dumped(r, i, node).err = r.err
          /\ Dumped(r, i, node).super = "lost"
      BY <1>1, <2>1, StateMade
    <3> QED
      BY <1>3, <3>1
<1>4. CASE i # 0
  <2>1. i \in Numbers
    BY Shape
  <2> DEFINE t == [r.inode EXCEPT ![i] = node]
  <2>2. Dumped(r, i, node) = [inode |-> t, free |-> r.free, err |-> r.err, super |-> r.super]
    BY <1>2, <1>4 DEF Dumped
  <2>3. t \in Tables
    BY <1>1 DEF Tables
  <2>4. t[i] = node /\ \A j \in Numbers : j # i => t[j] = r.inode[j]
    BY <1>1, <2>1 DEF Tables
  <2> HIDE DEF t
  <2> QED
    <3>1. /\ Dumped(r, i, node) \in States /\ Dumped(r, i, node).inode = t
          /\ Dumped(r, i, node).free = r.free /\ Dumped(r, i, node).err = r.err
          /\ Dumped(r, i, node).super = r.super
      BY <1>1, <2>2, <2>3, StateMade
    <3> QED
      BY <1>4, <2>4, <3>1
<1> QED
  BY <1>3, <1>4

LEMMA NodeFields ==
  ASSUME NEW node \in Node
  PROVE  /\ node.isdir \in {0, 1} /\ node.nlink \in Nat /\ node.pno \in Numbers
         /\ node.ents \in Seq(Entries) /\ node.pages \in Seq(PageNumbers)
         /\ node = [isdir |-> node.isdir, nlink |-> node.nlink, pno |-> node.pno,
                    ents |-> node.ents, pages |-> node.pages]
BY DEF Node

LEMMA NodeMade ==
  ASSUME NEW a \in {0, 1}, NEW b \in Nat, NEW c \in Numbers,
         NEW es \in Seq(Entries), NEW ps \in Seq(PageNumbers), NEW node,
         node = [isdir |-> a, nlink |-> b, pno |-> c, ents |-> es, pages |-> ps]
  PROVE  /\ node \in Node
         /\ node.isdir = a /\ node.nlink = b /\ node.pno = c
         /\ node.ents = es /\ node.pages = ps
BY DEF Node

(* One inode of the table stored, or a field of it. *)
WithNode(r, n, node) ==
  [inode |-> [r.inode EXCEPT ![n] = node], free |-> r.free, err |-> r.err, super |-> r.super]

WithPages(r, n, ps) == [r EXCEPT !.inode[n].pages = ps]
WithEnts(r, n, es) == [r EXCEPT !.inode[n].ents = es]
WithNlink(r, n, b) == [r EXCEPT !.inode[n].nlink = b]

LEMMA NodePut ==
  ASSUME NEW r \in States, NEW n \in Numbers, NEW node \in Node, NEW q,
         q = WithNode(r, n, node)
  PROVE  /\ q \in States
         /\ q.free = r.free /\ q.err = r.err /\ q.super = r.super
         /\ q.inode[n] = node
         /\ \A j \in Numbers : j # n => q.inode[j] = r.inode[j]
<1>1. /\ r.inode \in Tables /\ r.free \in SUBSET (3 .. LAST)
      /\ r.err \in {0, -ENOSPC} /\ r.super \in {"kept", "lost"}
  BY StateParts
<1> DEFINE t == [r.inode EXCEPT ![n] = node]
<1>3. q = [inode |-> t, free |-> r.free, err |-> r.err, super |-> r.super]
  BY DEF WithNode
<1>4. t \in Tables
  BY <1>1 DEF Tables
<1>5. t[n] = node /\ \A j \in Numbers : j # n => t[j] = r.inode[j]
  BY <1>1 DEF Tables
<1> HIDE DEF t
<1>6. /\ q \in States /\ q.inode = t
      /\ q.free = r.free /\ q.err = r.err /\ q.super = r.super
  BY <1>1, <1>3, <1>4, StateMade
<1> QED
  BY <1>5, <1>6

LEMMA PagesPut ==
  ASSUME NEW r \in States, NEW n \in Numbers, NEW ps \in Seq(PageNumbers), NEW q,
         q = WithPages(r, n, ps)
  PROVE  /\ q \in States
         /\ q.free = r.free /\ q.err = r.err /\ q.super = r.super
         /\ q.inode[n].pages = ps /\ q.inode[n].ents = r.inode[n].ents
         /\ q.inode[n].isdir = r.inode[n].isdir /\ q.inode[n].nlink = r.inode[n].nlink
         /\ q.inode[n].pno = r.inode[n].pno
         /\ \A j \in Numbers : j # n => q.inode[j] = r.inode[j]
<1> DEFINE node == r.inode[n]
           new == [node EXCEPT !.pages = ps]
<1>1. r.inode \in Tables
  BY StateParts
<1>2. node \in Node
  BY <1>1, NodeParts
<1>0. r = [inode |-> r.inode, free |-> r.free, err |-> r.err, super |-> r.super]
  BY DEF States
<1>3. q = WithNode(r, n, new)
  BY <1>0, <1>1 DEF Tables, WithNode, WithPages
<1> HIDE DEF node
<1>4. new = [isdir |-> node.isdir, nlink |-> node.nlink, pno |-> node.pno,
             ents |-> node.ents, pages |-> ps]
  BY <1>2, NodeFields
<1> HIDE DEF new
<1>5. /\ new \in Node /\ new.isdir = node.isdir /\ new.nlink = node.nlink
      /\ new.pno = node.pno /\ new.ents = node.ents /\ new.pages = ps
  BY <1>2, <1>4, NodeFields, NodeMade
<1>6. /\ q \in States /\ q.free = r.free /\ q.err = r.err /\ q.super = r.super
      /\ q.inode[n] = new /\ \A j \in Numbers : j # n => q.inode[j] = r.inode[j]
  BY <1>3, <1>5, NodePut
<1> QED
  BY <1>5, <1>6 DEF node

LEMMA EntsPut ==
  ASSUME NEW r \in States, NEW n \in Numbers, NEW es \in Seq(Entries), NEW q,
         q = WithEnts(r, n, es)
  PROVE  /\ q \in States
         /\ q.free = r.free /\ q.err = r.err /\ q.super = r.super
         /\ q.inode[n].ents = es /\ q.inode[n].pages = r.inode[n].pages
         /\ q.inode[n].isdir = r.inode[n].isdir /\ q.inode[n].nlink = r.inode[n].nlink
         /\ q.inode[n].pno = r.inode[n].pno
         /\ \A j \in Numbers : j # n => q.inode[j] = r.inode[j]
<1> DEFINE node == r.inode[n]
           new == [node EXCEPT !.ents = es]
<1>1. r.inode \in Tables
  BY StateParts
<1>2. node \in Node
  BY <1>1, NodeParts
<1>0. r = [inode |-> r.inode, free |-> r.free, err |-> r.err, super |-> r.super]
  BY DEF States
<1>3. q = WithNode(r, n, new)
  BY <1>0, <1>1 DEF Tables, WithNode, WithEnts
<1> HIDE DEF node
<1>4. new = [isdir |-> node.isdir, nlink |-> node.nlink, pno |-> node.pno,
             ents |-> es, pages |-> node.pages]
  BY <1>2, NodeFields
<1> HIDE DEF new
<1>5. /\ new \in Node /\ new.isdir = node.isdir /\ new.nlink = node.nlink
      /\ new.pno = node.pno /\ new.ents = es /\ new.pages = node.pages
  BY <1>2, <1>4, NodeFields, NodeMade
<1>6. /\ q \in States /\ q.free = r.free /\ q.err = r.err /\ q.super = r.super
      /\ q.inode[n] = new /\ \A j \in Numbers : j # n => q.inode[j] = r.inode[j]
  BY <1>3, <1>5, NodePut
<1> QED
  BY <1>5, <1>6 DEF node

LEMMA NlinkPut ==
  ASSUME NEW r \in States, NEW n \in Numbers, NEW b \in Nat, NEW q,
         q = WithNlink(r, n, b)
  PROVE  /\ q \in States
         /\ q.free = r.free /\ q.err = r.err /\ q.super = r.super
         /\ q.inode[n].ents = r.inode[n].ents /\ q.inode[n].pages = r.inode[n].pages
         /\ q.inode[n].isdir = r.inode[n].isdir /\ q.inode[n].nlink = b
         /\ q.inode[n].pno = r.inode[n].pno
         /\ \A j \in Numbers : j # n => q.inode[j] = r.inode[j]
<1> DEFINE node == r.inode[n]
           new == [node EXCEPT !.nlink = b]
<1>1. r.inode \in Tables
  BY StateParts
<1>2. node \in Node
  BY <1>1, NodeParts
<1>0. r = [inode |-> r.inode, free |-> r.free, err |-> r.err, super |-> r.super]
  BY DEF States
<1>3. q = WithNode(r, n, new)
  BY <1>0, <1>1 DEF Tables, WithNode, WithNlink
<1> HIDE DEF node
<1>4. new = [isdir |-> node.isdir, nlink |-> b, pno |-> node.pno,
             ents |-> node.ents, pages |-> node.pages]
  BY <1>2, NodeFields
<1> HIDE DEF new
<1>5. /\ new \in Node /\ new.isdir = node.isdir /\ new.nlink = b
      /\ new.pno = node.pno /\ new.ents = node.ents /\ new.pages = node.pages
  BY <1>2, <1>4, NodeFields, NodeMade
<1>6. /\ q \in States /\ q.free = r.free /\ q.err = r.err /\ q.super = r.super
      /\ q.inode[n] = new /\ \A j \in Numbers : j # n => q.inode[j] = r.inode[j]
  BY <1>3, <1>5, NodePut
<1> QED
  BY <1>5, <1>6 DEF node

-----------------------------------------------------------------------------
(***************************************************************************)
(* Pages.                                                                  *)
(***************************************************************************)
LEMMA NewPageIs ==
  ASSUME NEW r \in States, NEW n \in Numbers
  PROVE  /\ NewPage(r, n) \in States
         /\ NewPage(r, n).free = Pop(r).free /\ NewPage(r, n).err = Pop(r).err
         /\ PoppedInode(r) \in PageNumbers
         /\ NewPage(r, n).super = IF PoppedInode(r) = 0 THEN "lost" ELSE r.super
         /\ n # PoppedInode(r) \/ n = 0 =>
              /\ NewPage(r, n).inode[n].pages = Append(r.inode[n].pages, PoppedInode(r))
              /\ NewPage(r, n).inode[n].ents = r.inode[n].ents
              /\ NewPage(r, n).inode[n].isdir = r.inode[n].isdir
              /\ NewPage(r, n).inode[n].nlink = r.inode[n].nlink
              /\ NewPage(r, n).inode[n].pno = r.inode[n].pno
         /\ \A j \in Numbers :
              j # n /\ (j # PoppedInode(r) \/ j = 0) =>
                NewPage(r, n).inode[j] = r.inode[j]
         /\ \A j \in Numbers : j # n => NewPage(r, n).inode[j] \in {r.inode[j], Void}
<1> DEFINE i == PoppedInode(r)
           w == Dumped(Pop(r), i, Void)
           ps == Append(w.inode[n].pages, i)
<1>1. /\ i \in PageNumbers /\ Pop(r) \in States /\ Pop(r).inode = r.inode
      /\ Pop(r).super = r.super
  <2>1. r.free \subseteq 3 .. LAST
    BY StateParts
  <2> QED
    BY <2>1, Popped DEF PageNumbers
<1>2. NewPage(r, n) = WithPages(w, n, ps)
  BY DEF NewPage, WithPages
<1> HIDE DEF i
<1>3. /\ w \in States /\ w.err = Pop(r).err /\ w.free = Pop(r).free
      /\ \A j \in Numbers : j # i => w.inode[j] = r.inode[j]
      /\ \A j \in Numbers : w.inode[j] \in {r.inode[j], Void}
      /\ i = 0 => w.inode = r.inode
      /\ w.super = IF i = 0 THEN "lost" ELSE r.super
  BY <1>1, VoidIsNode, DumpedIs
<1> HIDE DEF w
<1>4. ps \in Seq(PageNumbers)
  <2>1. w.inode[n].pages \in Seq(PageNumbers)
    BY <1>3, StateParts, NodeParts
  <2> QED
    BY <1>1, <2>1
<1>5. n # i \/ n = 0 => w.inode[n] = r.inode[n]
  BY <1>3
<1>6. n # i \/ n = 0 => ps = Append(r.inode[n].pages, i)
  BY <1>5
<1> DEFINE q == NewPage(r, n)
<1> HIDE DEF ps, q
<1>7. /\ q \in States /\ q.free = w.free /\ q.err = w.err /\ q.super = w.super
      /\ q.inode[n].pages = ps /\ q.inode[n].ents = w.inode[n].ents
      /\ q.inode[n].isdir = w.inode[n].isdir /\ q.inode[n].nlink = w.inode[n].nlink
      /\ q.inode[n].pno = w.inode[n].pno
      /\ \A j \in Numbers : j # n => q.inode[j] = w.inode[j]
  BY <1>2, <1>3, <1>4, PagesPut DEF q
<1> QED
  BY <1>1, <1>3, <1>5, <1>6, <1>7 DEF i, q

(* A run of dnode_listing_set's loops: a state after every round. *)
Runs(h, N, r) == h \in [0 .. N -> States] /\ h[0] = r

LEMMA MorePagesRun ==
  ASSUME NEW r \in States, NEW n \in Numbers, NEW N \in Nat
  PROVE  \E h : /\ Runs(h, N, r) /\ MorePages(r, n, N) = h[N]
                /\ \A i \in 0 .. N - 1 : h[i + 1] = NewPage(h[i], n)
<1> DEFINE loop == [i \in 0 .. N - 1 |-> [x \in States |-> NewPage(x, n)]]
           Equation(h) == h = [k \in 0 .. N |-> IF k = 0 THEN r ELSE NewPage(h[k - 1], n)]
<1>1. loop \in Loops(N, States)
  BY NewPageIs DEF Loops
<1>2. PICK h : Run(h, N, States, r, loop)
  <2> HIDE DEF loop
  <2> QED
    BY <1>1, LoopRuns
<1>3. /\ h \in [0 .. N -> States] /\ h[0] = r
      /\ \A i \in 0 .. N - 1 : h[i + 1] = loop[i][h[i]]
  <2> HIDE DEF loop
  <2> QED
    BY <1>2 DEF Run
<1>4. ASSUME NEW i \in 0 .. N - 1
      PROVE  h[i + 1] = NewPage(h[i], n)
  <2>1. h[i] \in States
    BY <1>3
  <2>2. loop[i][h[i]] = NewPage(h[i], n)
    BY <2>1
  <2> QED
    BY <1>3, <2>2
<1>5. Equation(h)
  <2>1. ASSUME NEW i \in 0 .. N
        PROVE  h[i] = IF i = 0 THEN r ELSE NewPage(h[i - 1], n)
    <3>1. CASE i = 0
      BY <1>3, <3>1
    <3>2. CASE i # 0
      <4>1. i - 1 \in 0 .. N - 1 /\ (i - 1) + 1 = i
        BY <3>2
      <4> QED
        BY <1>4, <3>2, <4>1
    <3> QED
      BY <3>1, <3>2
  <2> QED
    BY <1>3, <2>1
<1> DEFINE after[k \in 0 .. N] == IF k = 0 THEN r ELSE NewPage(after[k - 1], n)
<1>6. Equation(after)
  BY <1>5
<1>7. MorePages(r, n, N) = after[N]
  BY DEF MorePages
<1> HIDE DEF after
<1>8. after[0] = r /\ \A i \in 0 .. N - 1 : after[i + 1] = NewPage(after[i], n)
  <2>1. after[0] = r
    BY <1>6
  <2>2. ASSUME NEW i \in 0 .. N - 1
        PROVE  after[i + 1] = NewPage(after[i], n)
    <3>1. i + 1 \in 0 .. N /\ i + 1 # 0 /\ (i + 1) - 1 = i
      OBVIOUS
    <3> QED
      BY <1>6, <3>1
  <2> QED
    BY <2>1, <2>2
<1>9. after \in [0 .. N -> States]
  <2> DEFINE T == {i \in 0 .. N : after[i] \in States}
  <2>1. 0 \in T
    BY <1>8
  <2>2. \A i \in 0 .. N - 1 : i \in T => i + 1 \in T
    BY <1>8, NewPageIs
  <2> HIDE DEF T
  <2>3. \A i \in 0 .. N : i \in T
    BY <2>1, <2>2, UpTo
  <2>4. after = [i \in 0 .. N |-> after[i]]
    BY <1>6
  <2> QED
    BY <2>3, <2>4 DEF T
<1> QED
  BY <1>7, <1>8, <1>9 DEF Runs

(* The states before the entries are cut. *)
Pushes(r, pages, n) ==
  LET after[k \in 0 .. Len(pages) - n] ==
        IF k = 0 THEN r ELSE Push(after[k - 1], pages[n + k])
  IN  after[Len(pages) - n]

LEMMA PushesRun ==
  ASSUME NEW r \in States, NEW ps \in Seq(PageNumbers), NEW n \in 0 .. Len(ps)
  PROVE  \E h : /\ Runs(h, Len(ps) - n, r) /\ Pushes(r, ps, n) = h[Len(ps) - n]
                /\ \A i \in 0 .. Len(ps) - n - 1 : h[i + 1] = Push(h[i], ps[n + i + 1])
<1> DEFINE N == Len(ps) - n
           loop == [i \in 0 .. N - 1 |-> [x \in States |-> Push(x, ps[n + i + 1])]]
           Equation(h) == h = [k \in 0 .. N |-> IF k = 0 THEN r ELSE Push(h[k - 1], ps[n + k])]
<1>0. N \in Nat /\ \A i \in 0 .. N - 1 : ps[n + i + 1] \in PageNumbers
  OBVIOUS
<1>1. loop \in Loops(N, States)
  <2> HIDE DEF N
  <2> QED
    BY <1>0, Pushed DEF Loops
<1>2. PICK h : Run(h, N, States, r, loop)
  <2> HIDE DEF loop, N
  <2> QED
    BY <1>0, <1>1, LoopRuns
<1>3. /\ h \in [0 .. N -> States] /\ h[0] = r
      /\ \A i \in 0 .. N - 1 : h[i + 1] = loop[i][h[i]]
  <2> HIDE DEF loop, N
  <2> QED
    BY <1>2 DEF Run
<1>4. ASSUME NEW i \in 0 .. N - 1
      PROVE  h[i + 1] = Push(h[i], ps[n + i + 1])
  <2> HIDE DEF N
  <2>1. h[i] \in States
    BY <1>0, <1>3
  <2>2. loop[i][h[i]] = Push(h[i], ps[n + i + 1])
    BY <2>1
  <2> QED
    BY <1>3, <2>2
<1>5. Equation(h)
  <2>1. ASSUME NEW i \in 0 .. N
        PROVE  h[i] = IF i = 0 THEN r ELSE Push(h[i - 1], ps[n + i])
    <3>1. CASE i = 0
      BY <1>3, <3>1
    <3>2. CASE i # 0
      <4>1. i - 1 \in 0 .. N - 1 /\ (i - 1) + 1 = i /\ n + (i - 1) + 1 = n + i
        BY <1>0, <3>2
      <4> HIDE DEF N
      <4> QED
        BY <1>4, <3>2, <4>1
    <3> QED
      BY <3>1, <3>2
  <2> HIDE DEF N
  <2> QED
    BY <1>3, <2>1
<1> DEFINE after[k \in 0 .. N] == IF k = 0 THEN r ELSE Push(after[k - 1], ps[n + k])
<1>6. Equation(after)
  BY <1>5
<1>7. Pushes(r, ps, n) = after[N]
  BY DEF Pushes
<1> HIDE DEF after
<1>8. after[0] = r /\ \A i \in 0 .. N - 1 : after[i + 1] = Push(after[i], ps[n + i + 1])
  <2>1. after[0] = r
    BY <1>0, <1>6
  <2>2. ASSUME NEW i \in 0 .. N - 1
        PROVE  after[i + 1] = Push(after[i], ps[n + i + 1])
    <3>1. i + 1 \in 0 .. N /\ i + 1 # 0 /\ (i + 1) - 1 = i /\ n + (i + 1) = n + i + 1
      BY <1>0
    <3> HIDE DEF N
    <3> QED
      BY <1>6, <3>1
  <2> QED
    BY <2>1, <2>2
<1>9. after \in [0 .. N -> States]
  <2> HIDE DEF N
  <2> DEFINE T == {i \in 0 .. N : after[i] \in States}
  <2>1. 0 \in T
    BY <1>0, <1>8
  <2>2. ASSUME NEW i \in 0 .. N - 1, i \in T
        PROVE  i + 1 \in T
    <3>1. after[i] \in States /\ ps[n + i + 1] \in PageNumbers
      BY <1>0, <2>2
    <3>2. Push(after[i], ps[n + i + 1]) \in States
      BY <3>1, Pushed
    <3>3. after[i + 1] \in States
      BY <1>8, <3>2
    <3>4. i + 1 \in 0 .. N
      BY <1>0
    <3> QED
      BY <3>3, <3>4
  <2> HIDE DEF T
  <2>3. \A i \in 0 .. N : i \in T
    BY <1>0, <2>1, <2>2, UpTo
  <2>4. after = [i \in 0 .. N |-> after[i]]
    BY <1>6
  <2> QED
    BY <2>3, <2>4 DEF T
<1> QED
  BY <1>7, <1>8, <1>9 DEF Runs

(* All but the pages. *)
SameNode(r, n, q) ==
  /\ q.inode[n].ents = r.inode[n].ents /\ q.inode[n].isdir = r.inode[n].isdir
  /\ q.inode[n].nlink = r.inode[n].nlink /\ q.inode[n].pno = r.inode[n].pno

Apart(r, n) ==
  /\ Once(r.inode, n) /\ Own(r.inode, n) \cap r.free = {}
  /\ n # 0 /\ n \notin r.free \cup Own(r.inode, n)

(* What n has and what is free is the same taken together, and no other    *)
(* inode changes.                                                          *)
Exchanges(r, n, q) ==
  /\ q \in States
  /\ Apart(q, n)
  /\ q.free \cup Own(q.inode, n) = r.free \cup Own(r.inode, n)
  /\ \A j \in Numbers :
       j # n /\ j \notin r.free \cup Own(r.inode, n) => q.inode[j] = r.inode[j]
  /\ \A j \in Numbers : j # n => q.inode[j] \in {r.inode[j], Void}
  /\ q.err = 0 => r.err = 0

LEMMA ExchangesAgain ==
  ASSUME NEW r, NEW n, NEW q, NEW w, Exchanges(r, n, q), Exchanges(q, n, w)
  PROVE  Exchanges(r, n, w)
BY DEF Exchanges

(* What is at the end of n's pages. *)
LEMMA OwnAppended ==
  ASSUME NEW ps \in Seq(PageNumbers), NEW i \in PageNumbers, NEW t, NEW u, NEW n,
         t[n].pages = ps, u[n].pages = Append(ps, i)
  PROVE  /\ Own(u, n) = Own(t, n) \cup ({i} \ {0})
         /\ Len(u[n].pages) = Len(t[n].pages) + 1
         /\ Once(t, n) /\ (i = 0 \/ i \notin Own(t, n)) => Once(u, n)
<1> DEFINE as == Append(ps, i)
<1>1. /\ Len(ps) \in Nat /\ Len(as) = Len(ps) + 1
      /\ \A k \in 1 .. Len(ps) : as[k] = ps[k]
      /\ as[Len(ps) + 1] = i
  OBVIOUS
<1>2. \A k \in 1 .. Len(ps) + 1 : k \in 1 .. Len(ps) \/ k = Len(ps) + 1
  BY <1>1
<1>3. \A k \in 1 .. Len(ps) : k \in 1 .. Len(ps) + 1
  BY <1>1
<1>4. Len(ps) + 1 \in 1 .. Len(ps) + 1
  BY <1>1
<1> HIDE DEF as
<1>5. /\ Own(t, n) = {ps[k] : k \in 1 .. Len(ps)} \ {0}
      /\ Own(u, n) = {as[k] : k \in 1 .. Len(ps) + 1} \ {0}
  BY <1>1 DEF Own, as
<1>6. Own(u, n) = Own(t, n) \cup ({i} \ {0})
  <2>1. ASSUME NEW k \in 1 .. Len(ps) + 1
        PROVE  as[k] \in {ps[l] : l \in 1 .. Len(ps)} \cup {i}
    <3>1. CASE k \in 1 .. Len(ps)
      BY <1>1, <3>1
    <3>2. CASE k = Len(ps) + 1
      BY <1>1, <3>2
    <3> QED
      BY <1>2, <3>1, <3>2
  <2> DEFINE A == {as[k] : k \in 1 .. Len(ps) + 1}
             P == {ps[l] : l \in 1 .. Len(ps)}
  <2>2. ASSUME NEW l \in 1 .. Len(ps)
        PROVE  ps[l] \in A
    BY <1>1, <1>3
  <2>3. i \in A
    BY <1>1, <1>4
  <2>4. A \subseteq P \cup {i}
    BY <2>1
  <2>5. P \subseteq A
    BY <2>2
  <2> HIDE DEF A, P
  <2>6. A = P \cup {i}
    BY <2>3, <2>4, <2>5
  <2>7. Own(u, n) = A \ {0} /\ Own(t, n) = P \ {0}
    BY <1>5 DEF A, P
  <2> QED
    BY <2>6, <2>7
<1>7. ASSUME Once(t, n), i = 0 \/ i \notin Own(t, n)
      PROVE  Once(u, n)
  <2>1. \A k, l \in 1 .. Len(ps) : ps[k] = ps[l] /\ ps[k] # 0 => k = l
    BY <1>7 DEF Once
  <2>2. \A k \in 1 .. Len(ps) : ps[k] = i => i = 0
    BY <1>5, <1>7
  <2>3. ASSUME NEW k \in 1 .. Len(ps) + 1, NEW l \in 1 .. Len(ps) + 1,
               as[k] = as[l], as[k] # 0
        PROVE  k = l
    <3>1. CASE k \in 1 .. Len(ps) /\ l \in 1 .. Len(ps)
      BY <1>1, <2>1, <2>3, <3>1
    <3>2. CASE k \in 1 .. Len(ps) /\ l = Len(ps) + 1
      BY <1>1, <2>2, <2>3, <3>2
    <3>3. CASE l \in 1 .. Len(ps) /\ k = Len(ps) + 1
      BY <1>1, <2>2, <2>3, <3>3
    <3> QED
      BY <1>2, <3>1, <3>2, <3>3
  <2> QED
    BY <1>1, <2>3 DEF Once, as
<1> QED
  BY <1>1, <1>6, <1>7 DEF as

LEMMA NewPageExchanges ==
  ASSUME NEW r \in States, NEW n \in Numbers, Apart(r, n)
  PROVE  /\ Exchanges(r, n, NewPage(r, n)) /\ SameNode(r, n, NewPage(r, n))
         /\ Len(NewPage(r, n).inode[n].pages) = Len(r.inode[n].pages) + 1
<1> DEFINE q == NewPage(r, n)
           i == PoppedInode(r)
<1>1. /\ q \in States /\ q.free = Pop(r).free /\ q.err = Pop(r).err /\ i \in PageNumbers
      /\ n # i \/ n = 0 =>
           /\ q.inode[n].pages = Append(r.inode[n].pages, i)
           /\ q.inode[n].ents = r.inode[n].ents /\ q.inode[n].isdir = r.inode[n].isdir
           /\ q.inode[n].nlink = r.inode[n].nlink /\ q.inode[n].pno = r.inode[n].pno
      /\ \A j \in Numbers : j # n /\ (j # i \/ j = 0) => q.inode[j] = r.inode[j]
      /\ \A j \in Numbers : j # n => q.inode[j] \in {r.inode[j], Void}
  BY NewPageIs
<1>2. /\ r.free = {} => i = 0 /\ Pop(r).free = {} /\ Pop(r).err = -ENOSPC
      /\ r.free # {} => i \in r.free /\ Pop(r).free = r.free \ {i} /\ Pop(r).err = r.err
  BY Popped
<1>3. 0 \notin r.free /\ -ENOSPC # 0
  BY StateParts DEF ENOSPC
<1>4. n # i /\ n # 0
  BY <1>2 DEF Apart
<1> HIDE DEF q, i
<1>5. i = 0 \/ i \in r.free
  BY <1>2
<1>6. r.inode[n].pages \in Seq(PageNumbers)
  BY StateParts, NodeParts
<1>7. i = 0 \/ i \notin Own(r.inode, n)
  BY <1>5 DEF Apart
<1>8. /\ Own(q.inode, n) = Own(r.inode, n) \cup ({i} \ {0})
      /\ Len(q.inode[n].pages) = Len(r.inode[n].pages) + 1
      /\ Once(q.inode, n)
  <2>1. Once(r.inode, n)
    BY DEF Apart
  <2>2. q.inode[n].pages = Append(r.inode[n].pages, i)
    BY <1>1, <1>4
  <2> DEFINE t == r.inode
             u == q.inode
  <2> HIDE DEF t, u
  <2>3. /\ t[n].pages \in Seq(PageNumbers) /\ i \in PageNumbers
        /\ u[n].pages = Append(t[n].pages, i)
    BY <1>1, <1>6, <2>2 DEF t, u
  <2>4. /\ Own(u, n) = Own(t, n) \cup ({i} \ {0})
        /\ Len(u[n].pages) = Len(t[n].pages) + 1
        /\ Once(t, n) /\ (i = 0 \/ i \notin Own(t, n)) => Once(u, n)
    BY <2>3, OwnAppended
  <2> QED
    BY <1>7, <2>1, <2>4 DEF t, u
<1>9. q.free = r.free \ {i}
  BY <1>1, <1>2, <1>3
<1>10. q.free \cup Own(q.inode, n) = r.free \cup Own(r.inode, n)
  BY <1>3, <1>5, <1>8, <1>9
<1>11. Apart(q, n)
  <2>1. Own(q.inode, n) \cap q.free = {}
    BY <1>3, <1>8, <1>9 DEF Apart
  <2>2. n \notin q.free \cup Own(q.inode, n)
    BY <1>10 DEF Apart
  <2> QED
    BY <1>4, <1>8, <2>1, <2>2 DEF Apart
<1>12. \A j \in Numbers :
         j # n /\ j \notin r.free \cup Own(r.inode, n) => q.inode[j] = r.inode[j]
  BY <1>1, <1>5
<1>13. q.err = 0 => r.err = 0
  BY <1>1, <1>2, <1>3
<1>14. SameNode(r, n, q)
  BY <1>1, <1>4 DEF SameNode
<1> QED
  BY <1>1, <1>8, <1>10, <1>11, <1>12, <1>13, <1>14 DEF Exchanges, q

LEMMA MorePagesExchanges ==
  ASSUME NEW r \in States, NEW n \in Numbers, Apart(r, n), NEW N \in Nat
  PROVE  /\ Exchanges(r, n, MorePages(r, n, N)) /\ SameNode(r, n, MorePages(r, n, N))
         /\ Len(MorePages(r, n, N).inode[n].pages) = Len(r.inode[n].pages) + N
<1>1. PICK h : /\ Runs(h, N, r) /\ MorePages(r, n, N) = h[N]
               /\ \A i \in 0 .. N - 1 : h[i + 1] = NewPage(h[i], n)
  BY MorePagesRun
<1>2. h \in [0 .. N -> States] /\ h[0] = r
  BY <1>1 DEF Runs
<1> DEFINE had == Len(r.inode[n].pages)
           T == {k \in 0 .. N : /\ Exchanges(r, n, h[k]) /\ SameNode(r, n, h[k])
                                /\ Len(h[k].inode[n].pages) = had + k}
<1>3. had \in Nat
  <2>1. r.inode[n].pages \in Seq(PageNumbers)
    BY StateParts, NodeParts
  <2> QED
    BY <2>1
<1> HIDE DEF had
<1>4. 0 \in T
  BY <1>2, <1>3 DEF Exchanges, SameNode, had
<1>5. ASSUME NEW k \in 0 .. N - 1, k \in T
      PROVE  k + 1 \in T
  <2>1. h[k] \in States /\ Apart(h[k], n) /\ h[k + 1] = NewPage(h[k], n)
    BY <1>1, <1>2, <1>5 DEF Exchanges
  <2>2. /\ Exchanges(h[k], n, h[k + 1]) /\ SameNode(h[k], n, h[k + 1])
        /\ Len(h[k + 1].inode[n].pages) = Len(h[k].inode[n].pages) + 1
    BY <2>1, NewPageExchanges
  <2>3. Exchanges(r, n, h[k + 1])
    BY <1>5, <2>2, ExchangesAgain
  <2>4. SameNode(r, n, h[k + 1])
    BY <1>5, <2>2 DEF SameNode
  <2>5. k + 1 \in 0 .. N /\ (had + k) + 1 = had + (k + 1)
    BY <1>3
  <2> QED
    BY <1>5, <2>2, <2>3, <2>4, <2>5
<1> HIDE DEF T
<1>6. N \in T
  BY <1>4, <1>5, UpTo
<1> QED
  BY <1>1, <1>6 DEF T, had

(* The pages ps[k], k in I. *)
Some(ps, I) == {ps[k] : k \in I} \ {0}

LEMMA PushesDo ==
  ASSUME NEW r \in States, NEW ps \in Seq(PageNumbers), NEW m \in 0 .. Len(ps), NEW q,
         q = Pushes(r, ps, m)
  PROVE  /\ q \in States /\ q.err = r.err /\ q.super = r.super
         /\ q.free = r.free \cup Some(ps, m + 1 .. Len(ps))
         /\ \A j \in Numbers : q.inode[j] \in {r.inode[j], Void}
         /\ \A j \in Numbers : j \notin Some(ps, m + 1 .. Len(ps)) => q.inode[j] = r.inode[j]
<1> DEFINE N == Len(ps) - m
<1>1. N \in Nat /\ Len(ps) = m + N /\ m \in Nat
  OBVIOUS
<1>2. PICK h : /\ Runs(h, N, r) /\ q = h[N]
               /\ \A i \in 0 .. N - 1 : h[i + 1] = Push(h[i], ps[m + i + 1])
  BY PushesRun
<1> HIDE DEF N
<1>3. h \in [0 .. N -> States] /\ h[0] = r
  BY <1>2 DEF Runs
<1> DEFINE P(k) == Some(ps, m + 1 .. m + k)
           T == {k \in 0 .. N :
                   /\ h[k].err = r.err /\ h[k].super = r.super
                   /\ h[k].free = r.free \cup P(k)
                   /\ \A j \in Numbers : h[k].inode[j] \in {r.inode[j], Void}
                   /\ \A j \in Numbers : j \notin P(k) => h[k].inode[j] = r.inode[j]}
<1>4. 0 \in T
  <2>1. P(0) = {}
    BY <1>1 DEF Some
  <2> QED
    BY <1>1, <1>3, <2>1
<1>5. ASSUME NEW k \in 0 .. N - 1, k \in T
      PROVE  k + 1 \in T
  <2> DEFINE i == ps[m + k + 1]
             w == h[k]
             v == h[k + 1]
  <2>1. w \in States /\ i \in PageNumbers /\ v = Push(w, i) /\ k \in 0 .. N /\ k + 1 \in 0 .. N
    BY <1>1, <1>2, <1>3
  <2>2. P(k + 1) = P(k) \cup ({i} \ {0})
    <3>1. m + 1 .. m + (k + 1) = (m + 1 .. m + k) \cup {m + k + 1}
      BY <1>1
    <3> QED
      BY <3>1 DEF Some
  <2> HIDE DEF i, w, v, P
  <2>3. /\ v.err = w.err /\ v.super = w.super /\ v.free = w.free \cup ({i} \ {0})
        /\ \A j \in Numbers : j # i => v.inode[j] = w.inode[j]
        /\ i # 0 => v.inode[i] = Void
        /\ i = 0 => v = w
    BY <2>1, Pushed
  <2>4. /\ w.err = r.err /\ w.super = r.super /\ w.free = r.free \cup P(k)
        /\ \A j \in Numbers : w.inode[j] \in {r.inode[j], Void}
        /\ \A j \in Numbers : j \notin P(k) => w.inode[j] = r.inode[j]
    BY <1>5 DEF w
  <2>5. \A j \in Numbers : v.inode[j] \in {r.inode[j], Void}
    BY <2>3, <2>4
  <2>6. \A j \in Numbers : j \notin P(k + 1) => v.inode[j] = r.inode[j]
    BY <2>2, <2>3, <2>4
  <2>7. v.err = r.err /\ v.super = r.super /\ v.free = r.free \cup P(k + 1)
    BY <2>2, <2>3, <2>4
  <2> QED
    BY <2>1, <2>5, <2>6, <2>7 DEF v
<1>6. N \in T
  <2> HIDE DEF T, P
  <2>1. 0 \in T /\ \A k \in 0 .. N - 1 : k \in T => k + 1 \in T
    BY <1>4, <1>5
  <2>2. N \in Nat
    BY <1>1
  <2>3. \A k \in 0 .. N : k \in T
    BY <2>1, <2>2, UpTo
  <2> QED
    BY <2>2, <2>3
<1>7. q \in States
  BY <1>1, <1>2, <1>3
<1> QED
  BY <1>1, <1>2, <1>6, <1>7 DEF T

LEMMA Cut ==
  ASSUME NEW S, NEW s \in Seq(S), NEW m \in 0 .. Len(s)
  PROVE  /\ SubSeq(s, 1, m) \in Seq(S) /\ Len(SubSeq(s, 1, m)) = m
         /\ \A k \in 1 .. m : SubSeq(s, 1, m)[k] = s[k]
OBVIOUS

LEMMA GiveUpExchanges ==
  ASSUME NEW r \in States, NEW n \in Numbers, Apart(r, n),
         NEW m \in 0 .. Len(r.inode[n].pages)
  PROVE  /\ Exchanges(r, n, GiveUp(r, n, m)) /\ SameNode(r, n, GiveUp(r, n, m))
         /\ Len(GiveUp(r, n, m).inode[n].pages) = m
         /\ GiveUp(r, n, m).err = r.err /\ GiveUp(r, n, m).super = r.super
         /\ \A k \in 1 .. m : GiveUp(r, n, m).inode[n].pages[k] = r.inode[n].pages[k]
<1> DEFINE ps == r.inode[n].pages
           w == Pushes(r, ps, m)
           cut == SubSeq(w.inode[n].pages, 1, m)
           q == GiveUp(r, n, m)
           given == Some(ps, m + 1 .. Len(ps))
           kept == Some(ps, 1 .. m)
<1>1. q = WithPages(w, n, cut)
  BY DEF GiveUp, Pushes, WithPages
<1>2. ps \in Seq(PageNumbers) /\ m \in Nat /\ Len(ps) \in Nat
  <2>1. ps \in Seq(PageNumbers)
    BY StateParts, NodeParts
  <2> QED
    BY <2>1
<1>3. Own(r.inode, n) = kept \cup given
  <2>1. 1 .. Len(ps) = (1 .. m) \cup (m + 1 .. Len(ps))
    BY <1>2
  <2> QED
    BY <2>1 DEF Own, Some
<1>4. kept \cap given = {}
  <2>1. \A k \in 1 .. m, l \in m + 1 .. Len(ps) :
          k \in 1 .. Len(ps) /\ l \in 1 .. Len(ps) /\ k # l
    BY <1>2
  <2> QED
    BY <2>1 DEF Some, Apart, Once
<1> HIDE DEF given, kept
<1>5. n # 0 /\ n \notin r.free \cup kept \cup given
  BY <1>3 DEF Apart
<1>6. /\ w \in States /\ w.err = r.err /\ w.super = r.super /\ w.free = r.free \cup given
      /\ \A j \in Numbers : w.inode[j] \in {r.inode[j], Void}
      /\ \A j \in Numbers : j \notin given => w.inode[j] = r.inode[j]
  <2> HIDE DEF ps, w
  <2> QED
    BY <1>2, PushesDo DEF given, w, ps
<1> HIDE DEF w, q
<1>7. w.inode[n] = r.inode[n]
  BY <1>5, <1>6
<1>8. cut = SubSeq(ps, 1, m)
  BY <1>7
<1> HIDE DEF cut, ps
<1>9. /\ cut \in Seq(PageNumbers) /\ Len(cut) = m
      /\ \A k \in 1 .. m : cut[k] = ps[k]
  <2>1. m \in 0 .. Len(ps)
    BY DEF ps
  <2> QED
    BY <1>2, <1>8, <2>1, Cut
<1>10. /\ q \in States /\ q.free = w.free /\ q.err = w.err /\ q.super = w.super
       /\ q.inode[n].pages = cut /\ q.inode[n].ents = w.inode[n].ents
       /\ q.inode[n].isdir = w.inode[n].isdir /\ q.inode[n].nlink = w.inode[n].nlink
       /\ q.inode[n].pno = w.inode[n].pno
       /\ \A j \in Numbers : j # n => q.inode[j] = w.inode[j]
  BY <1>1, <1>6, <1>9, PagesPut
<1>11. Own(q.inode, n) = kept
  BY <1>9, <1>10 DEF Own, Some, kept
<1>12. Once(q.inode, n)
  <2>1. \A k, l \in 1 .. m : k \in 1 .. Len(ps) /\ l \in 1 .. Len(ps)
    BY <1>2 DEF ps
  <2> QED
    BY <1>9, <1>10, <2>1 DEF Once, Apart, ps
<1>13. Own(q.inode, n) \cap q.free = {}
  <2>1. kept \cap r.free = {}
    BY <1>3 DEF Apart
  <2> QED
    BY <1>4, <1>6, <1>10, <1>11, <2>1
<1>14. Apart(q, n)
  BY <1>5, <1>6, <1>10, <1>11, <1>12, <1>13 DEF Apart
<1>15. q.free \cup Own(q.inode, n) = r.free \cup Own(r.inode, n)
  BY <1>3, <1>6, <1>10, <1>11
<1>16. \A j \in Numbers : j # n =>
         /\ q.inode[j] \in {r.inode[j], Void}
         /\ j \notin r.free \cup Own(r.inode, n) => q.inode[j] = r.inode[j]
  BY <1>3, <1>6, <1>10
<1>17. SameNode(r, n, q)
  BY <1>7, <1>10 DEF SameNode
<1>18. Exchanges(r, n, q)
  BY <1>6, <1>10, <1>14, <1>15, <1>16 DEF Exchanges
<1>19. \A k \in 1 .. m : q.inode[n].pages[k] = r.inode[n].pages[k]
  BY <1>9, <1>10 DEF ps
<1> QED
  BY <1>6, <1>9, <1>10, <1>17, <1>18, <1>19 DEF q

LEMMA PagesNatural ==
  ASSUME NEW k \in Nat
  PROVE  Pages(k) \in Nat
<1>1. CASE k <= DIRECT
  BY <1>1 DEF Pages
<1>2. CASE ~ (k <= DIRECT)
  <2>1. k - DIRECT - 1 \in Nat /\ PER_PAGE \in Nat \ {0}
    BY <1>2, Shape
  <2>2. (k - DIRECT - 1) \div PER_PAGE \in Nat
    BY <2>1, Quotient
  <2> QED
    BY <1>2, <2>2 DEF Pages
<1> QED
  BY <1>1, <1>2

(* Another field of n, or none, is stored. *)
LEMMA FieldExchanges ==
  ASSUME NEW r \in States, NEW n \in Numbers, Apart(r, n), NEW q \in States,
         q.free = r.free, q.err = r.err, q.inode[n].pages = r.inode[n].pages,
         \A j \in Numbers : j # n => q.inode[j] = r.inode[j]
  PROVE  Exchanges(r, n, q)
<1>1. Own(q.inode, n) = Own(r.inode, n)
  BY DEF Own
<1>2. Once(q.inode, n)
  BY DEF Apart, Once
<1> QED
  BY <1>1, <1>2 DEF Exchanges, Apart

(* dnode_listing_set, fnode_listing_set. *)
LEMMA SetExchanges ==
  ASSUME NEW r \in States, NEW n \in Numbers, Apart(r, n), NEW es \in Seq(Entries), NEW q,
         q = listing_set(r, n, es)
  PROVE  /\ Exchanges(r, n, q)
         /\ q.inode[n].ents = es /\ q.inode[n].isdir = r.inode[n].isdir
         /\ q.inode[n].nlink = r.inode[n].nlink /\ q.inode[n].pno = r.inode[n].pno
         /\ Len(q.inode[n].pages) = Pages(Len(es))
<1> DEFINE have == Len(r.inode[n].pages)
           need == Pages(Len(es))
           w == IF need > have THEN MorePages(r, n, need - have) ELSE GiveUp(r, n, need)
<1>1. have \in Nat /\ need \in Nat
  <2>1. r.inode[n].pages \in Seq(PageNumbers)
    BY StateParts, NodeParts
  <2>2. Len(es) \in Nat
    OBVIOUS
  <2>3. need \in Nat
    BY <2>2, PagesNatural
  <2> HIDE DEF need
  <2> QED
    BY <2>1, <2>3
<1>2. q = WithEnts(w, n, es)
  BY DEF listing_set, WithEnts
<1>3. /\ Exchanges(r, n, w) /\ SameNode(r, n, w)
      /\ Len(w.inode[n].pages) = need
  <2>1. CASE need > have
    <3>2. w = MorePages(r, n, need - have)
      BY <2>1
    <3> HIDE DEF need, have, w
    <3>1. need - have \in Nat /\ have + (need - have) = need
      BY <1>1, <2>1
    <3> QED
      BY <3>1, <3>2, MorePagesExchanges DEF have
  <2>2. CASE ~ (need > have)
    <3>1. need \in 0 .. Len(r.inode[n].pages)
      BY <1>1, <2>2
    <3>2. w = GiveUp(r, n, need)
      BY <2>2
    <3> HIDE DEF need, w
    <3> QED
      BY <3>1, <3>2, GiveUpExchanges
  <2> QED
    BY <2>1, <2>2
<1> HIDE DEF w, need
<1>4. w \in States /\ Apart(w, n)
  BY <1>3 DEF Exchanges
<1>5. /\ q \in States
      /\ q.free = w.free /\ q.err = w.err
      /\ q.inode[n].ents = es /\ q.inode[n].pages = w.inode[n].pages
      /\ q.inode[n].isdir = w.inode[n].isdir /\ q.inode[n].nlink = w.inode[n].nlink
      /\ q.inode[n].pno = w.inode[n].pno
      /\ \A j \in Numbers : j # n => q.inode[j] = w.inode[j]
  BY <1>2, <1>4, EntsPut
<1>6. Exchanges(w, n, q)
  BY <1>4, <1>5, FieldExchanges
<1>7. Exchanges(r, n, q)
  BY <1>3, <1>6, ExchangesAgain
<1>8. SameNode(r, n, w)
  BY <1>3
<1> QED
  BY <1>3, <1>5, <1>7, <1>8 DEF SameNode, need

(* Where the name is, or 0. *)
SlotOf(es, name) == SelectInSeq(es, LAMBDA e : e[1] = name)

LEMMA NameFound ==
  ASSUME NEW S, NEW es \in Seq(S), NEW name
  PROVE  /\ SlotOf(es, name) \in 0 .. Len(es)
         /\ SlotOf(es, name) = 0 => \A i \in 1 .. Len(es) : es[i][1] # name
         /\ SlotOf(es, name) # 0 => es[SlotOf(es, name)][1] = name
<1> DEFINE I == {i \in 1 .. Len(es) : es[i][1] = name}
<1>1. SlotOf(es, name) = IF I # {} THEN Min(I) ELSE 0
  BY DEF SlotOf, SelectInSeq
<1>2. CASE I = {}
  BY <1>1, <1>2
<1>3. CASE I # {}
  <2>1. I \in SUBSET Nat
    OBVIOUS
  <2> HIDE DEF I
  <2>2. Min(I) \in I
    BY <1>3, <2>1, LeastNumber DEF Min
  <2>3. SlotOf(es, name) \in I
    BY <1>1, <1>3, <2>2
  <2> QED
    BY <2>3 DEF I
<1> QED
  BY <1>2, <1>3

(* dnode_append: an entry more, and a link. *)
LEMMA AppendExchanges ==
  ASSUME NEW r \in States, NEW n \in Numbers, Apart(r, n), NEW e \in Entries, NEW q,
         q = dnode_append(r, n, e)
  PROVE  /\ Exchanges(r, n, q)
         /\ q.inode[n].ents = Append(r.inode[n].ents, e)
         /\ q.inode[n].isdir = r.inode[n].isdir
         /\ q.inode[n].nlink = r.inode[n].nlink + 1 /\ q.inode[n].pno = r.inode[n].pno
         /\ Len(q.inode[n].pages) = Pages(Len(q.inode[n].ents))
<1> DEFINE es == Append(r.inode[n].ents, e)
           w == listing_set(r, n, es)
           b == w.inode[n].nlink + 1
<1>1. es \in Seq(Entries) /\ r.inode[n].nlink \in Nat
  <2>1. r.inode[n].ents \in Seq(Entries) /\ r.inode[n].nlink \in Nat
    BY StateParts, NodeParts
  <2> QED
    BY <2>1
<1>2. q = WithNlink(w, n, b)
  BY DEF dnode_append, WithNlink
<1> HIDE DEF es, w
<1>3. /\ Exchanges(r, n, w)
      /\ w.inode[n].ents = es /\ w.inode[n].isdir = r.inode[n].isdir
      /\ w.inode[n].nlink = r.inode[n].nlink /\ w.inode[n].pno = r.inode[n].pno
      /\ Len(w.inode[n].pages) = Pages(Len(es))
  BY <1>1, SetExchanges DEF w
<1>4. w \in States /\ Apart(w, n)
  BY <1>3 DEF Exchanges
<1>5. b \in Nat /\ b = r.inode[n].nlink + 1
  BY <1>1, <1>3 DEF b
<1> HIDE DEF b
<1>9. b \in Nat
  BY <1>5
<1>6. /\ q \in States
      /\ q.free = w.free /\ q.err = w.err
      /\ q.inode[n].ents = w.inode[n].ents /\ q.inode[n].pages = w.inode[n].pages
      /\ q.inode[n].isdir = w.inode[n].isdir /\ q.inode[n].nlink = b
      /\ q.inode[n].pno = w.inode[n].pno
      /\ \A j \in Numbers : j # n => q.inode[j] = w.inode[j]
  BY <1>2, <1>4, <1>9, NlinkPut
<1>7. Exchanges(w, n, q)
  BY <1>4, <1>6, FieldExchanges
<1>8. Exchanges(r, n, q)
  BY <1>3, <1>7, ExchangesAgain
<1> QED
  BY <1>3, <1>5, <1>6, <1>8 DEF es

(* The entries after the one at i is removed. *)
Swapped(es, i) == Front([es EXCEPT ![i] = Last(es)])

LEMMA SwappedIs ==
  ASSUME NEW S, NEW es \in Seq(S), NEW i \in 1 .. Len(es)
  PROVE  /\ Swapped(es, i) \in Seq(S) /\ Len(Swapped(es, i)) = Len(es) - 1
         /\ \A k \in 1 .. Len(es) - 1 :
              Swapped(es, i)[k] = IF k = i THEN es[Len(es)] ELSE es[k]
<1> DEFINE xs == [es EXCEPT ![i] = es[Len(es)]]
<1>1. /\ xs \in Seq(S) /\ Len(xs) = Len(es)
      /\ \A k \in 1 .. Len(es) : xs[k] = IF k = i THEN es[Len(es)] ELSE es[k]
  OBVIOUS
<1>2. Swapped(es, i) = SubSeq(xs, 1, Len(es) - 1)
  BY <1>1 DEF Swapped, Front, Last
<1>3. Len(es) - 1 \in 0 .. Len(es)
  OBVIOUS
<1> HIDE DEF xs
<1> QED
  BY <1>1, <1>2, <1>3, Cut

(* dnode_remove: an entry less, and a link, if the name is there. *)
LEMMA RemoveExchanges ==
  ASSUME NEW r \in States, NEW n \in Numbers, Apart(r, n), NEW name, NEW i,
         i = SlotOf(r.inode[n].ents, name), i # 0, r.inode[n].nlink # 0,
         NEW q, q = dnode_remove(r, n, name)
  PROVE  /\ Exchanges(r, n, q)
         /\ i \in 1 .. Len(r.inode[n].ents) /\ r.inode[n].ents[i][1] = name
         /\ q.inode[n].ents = Swapped(r.inode[n].ents, i)
         /\ q.inode[n].isdir = r.inode[n].isdir
         /\ q.inode[n].nlink = r.inode[n].nlink - 1 /\ q.inode[n].pno = r.inode[n].pno
         /\ Len(q.inode[n].pages) = Pages(Len(q.inode[n].ents))
<1> DEFINE old == r.inode[n].ents
           es == Swapped(old, i)
           w == listing_set(r, n, es)
           b == w.inode[n].nlink - 1
<1>1. old \in Seq(Entries) /\ r.inode[n].nlink \in Nat
  BY StateParts, NodeParts
<1>2. q = WithNlink(w, n, b)
  BY DEF dnode_remove, WithNlink, SlotOf, Swapped
<1> HIDE DEF old
<1>3. i \in 1 .. Len(old) /\ old[i][1] = name
  <2>1. /\ SlotOf(old, name) \in 0 .. Len(old)
        /\ SlotOf(old, name) # 0 => old[SlotOf(old, name)][1] = name
    BY <1>1, NameFound
  <2>2. SlotOf(old, name) = i
    BY DEF old
  <2> QED
    BY <1>1, <2>1, <2>2
<1>4. es \in Seq(Entries)
  BY <1>1, <1>3, SwappedIs
<1> HIDE DEF es, w
<1>5. /\ Exchanges(r, n, w)
      /\ w.inode[n].ents = es /\ w.inode[n].isdir = r.inode[n].isdir
      /\ w.inode[n].nlink = r.inode[n].nlink /\ w.inode[n].pno = r.inode[n].pno
      /\ Len(w.inode[n].pages) = Pages(Len(es))
  BY <1>4, SetExchanges DEF w
<1>6. w \in States /\ Apart(w, n)
  BY <1>5 DEF Exchanges
<1>7. b \in Nat /\ b = r.inode[n].nlink - 1
  BY <1>1, <1>5 DEF b
<1> HIDE DEF b
<1>8. b \in Nat
  BY <1>7
<1>9. /\ q \in States
      /\ q.free = w.free /\ q.err = w.err
      /\ q.inode[n].ents = w.inode[n].ents /\ q.inode[n].pages = w.inode[n].pages
      /\ q.inode[n].isdir = w.inode[n].isdir /\ q.inode[n].nlink = b
      /\ q.inode[n].pno = w.inode[n].pno
      /\ \A j \in Numbers : j # n => q.inode[j] = w.inode[j]
  <2> DEFINE z == WithNlink(w, n, b)
  <2>1. /\ z \in States
        /\ z.free = w.free /\ z.err = w.err
        /\ z.inode[n].ents = w.inode[n].ents /\ z.inode[n].pages = w.inode[n].pages
        /\ z.inode[n].isdir = w.inode[n].isdir /\ z.inode[n].nlink = b
        /\ z.inode[n].pno = w.inode[n].pno
        /\ \A j \in Numbers : j # n => z.inode[j] = w.inode[j]
    BY <1>6, <1>8, NlinkPut
  <2>2. z = q
    BY <1>2
  <2> HIDE DEF z
  <2> QED
    BY <2>1, <2>2
<1>10. Exchanges(w, n, q)
  BY <1>6, <1>9, FieldExchanges
<1>11. Exchanges(r, n, q)
  BY <1>5, <1>10, ExchangesAgain
<1> QED
  BY <1>3, <1>5, <1>7, <1>9, <1>11 DEF es, old

LEMMA NoneRemoved ==
  ASSUME NEW r, NEW n, NEW name, SlotOf(r.inode[n].ents, name) = 0
  PROVE  dnode_remove(r, n, name) = r
BY DEF dnode_remove, SlotOf

(* What pages n gets or gives up: the first are as they were; only when    *)
(* there are more can there be an error, and only when no inode is free is *)
(* the superblock written over.                                            *)
Paged(r, n, q) ==
  LET old == r.inode[n].pages
      new == q.inode[n].pages
  IN  /\ \A k \in 1 .. Len(old) : k <= Len(new) => new[k] = old[k]
      /\ q.super = r.super \/ (q.super = "lost" /\ q.free = {} /\ q.err # 0)
      /\ Len(new) <= Len(old) => q.err = r.err /\ q.super = r.super
      /\ Len(new) <= Len(old) + 1 /\ q.super # r.super => r.free = {}

LEMMA FieldPaged ==
  ASSUME NEW r, NEW n, NEW w, Paged(r, n, w), NEW q, q.inode[n].pages = w.inode[n].pages,
         q.free = w.free, q.err = w.err, q.super = w.super
  PROVE  Paged(r, n, q)
BY DEF Paged

(* While pages are added. *)
Adds(r, n, q) ==
  /\ \A k \in 1 .. Len(r.inode[n].pages) : q.inode[n].pages[k] = r.inode[n].pages[k]
  /\ q.free \subseteq r.free /\ (q.err = 0 => r.err = 0)
  /\ q.super = r.super \/ (q.super = "lost" /\ q.free = {} /\ q.err # 0)

LEMMA NewPageAdds ==
  ASSUME NEW r \in States, NEW n \in Numbers, Apart(r, n)
  PROVE  /\ Adds(r, n, NewPage(r, n))
         /\ NewPage(r, n).super # r.super => r.free = {}
<1> DEFINE q == NewPage(r, n)
           i == PoppedInode(r)
<1>1. /\ q.free = Pop(r).free /\ q.err = Pop(r).err /\ i \in PageNumbers
      /\ q.super = IF i = 0 THEN "lost" ELSE r.super
      /\ n # i \/ n = 0 => q.inode[n].pages = Append(r.inode[n].pages, i)
  BY NewPageIs
<1>2. /\ r.free = {} => i = 0 /\ Pop(r).free = {} /\ Pop(r).err = -ENOSPC
      /\ r.free # {} => i \in r.free /\ Pop(r).free = r.free \ {i} /\ Pop(r).err = r.err
  BY Popped
<1>3. 0 \notin r.free /\ -ENOSPC # 0
  BY StateParts DEF ENOSPC
<1>4. n # i
  BY <1>2 DEF Apart
<1>5. r.inode[n].pages \in Seq(PageNumbers)
  BY StateParts, NodeParts
<1> HIDE DEF q, i
<1>6. q.inode[n].pages = Append(r.inode[n].pages, i)
  BY <1>1, <1>4
<1>7. \A k \in 1 .. Len(r.inode[n].pages) : q.inode[n].pages[k] = r.inode[n].pages[k]
  BY <1>1, <1>5, <1>6
<1>8. q.super # r.super => r.free = {}
  BY <1>1, <1>2, <1>3
<1>9. q.super = r.super \/ (q.super = "lost" /\ q.free = {} /\ q.err # 0)
  BY <1>1, <1>2, <1>3, <1>8
<1>10. q.free \subseteq r.free /\ (q.err = 0 => r.err = 0)
  BY <1>1, <1>2, <1>3
<1> QED
  BY <1>7, <1>8, <1>9, <1>10 DEF Adds, q

LEMMA MorePagesAdds ==
  ASSUME NEW r \in States, NEW n \in Numbers, Apart(r, n), NEW N \in Nat, NEW q,
         q = MorePages(r, n, N)
  PROVE  /\ Adds(r, n, q)
         /\ N = 0 => q = r
         /\ N = 1 /\ q.super # r.super => r.free = {}
<1>1. PICK h : /\ Runs(h, N, r) /\ MorePages(r, n, N) = h[N]
               /\ \A i \in 0 .. N - 1 : h[i + 1] = NewPage(h[i], n)
  BY MorePagesRun
<1>2. h \in [0 .. N -> States] /\ h[0] = r /\ q = h[N]
  BY <1>1 DEF Runs
<1> DEFINE had == Len(r.inode[n].pages)
           T == {k \in 0 .. N : /\ Adds(r, n, h[k]) /\ Exchanges(r, n, h[k])
                                /\ Len(h[k].inode[n].pages) = had + k}
<1>3. had \in Nat
  <2>1. r.inode[n].pages \in Seq(PageNumbers)
    BY StateParts, NodeParts
  <2> QED
    BY <2>1
<1> HIDE DEF had
<1>4. 0 \in T
  BY <1>2, <1>3 DEF Adds, Exchanges, had
<1>5. ASSUME NEW k \in 0 .. N - 1, k \in T
      PROVE  k + 1 \in T
  <2>1. /\ h[k] \in States /\ Apart(h[k], n) /\ h[k + 1] = NewPage(h[k], n)
        /\ Len(h[k].inode[n].pages) = had + k /\ k \in Nat
    BY <1>1, <1>2, <1>5 DEF Exchanges
  <2>2. /\ Exchanges(h[k], n, h[k + 1]) /\ Adds(h[k], n, h[k + 1])
        /\ Len(h[k + 1].inode[n].pages) = Len(h[k].inode[n].pages) + 1
    BY <2>1, NewPageExchanges, NewPageAdds
  <2>3. Exchanges(r, n, h[k + 1])
    BY <1>5, <2>2, ExchangesAgain
  <2>4. Adds(r, n, h[k + 1])
    <3>1. Adds(r, n, h[k])
      BY <1>5
    <3>2. \A l \in 1 .. had : l \in 1 .. Len(h[k].inode[n].pages)
      BY <1>3, <2>1
    <3> QED
      BY <2>2, <3>1, <3>2 DEF Adds, had
  <2>5. k + 1 \in 0 .. N /\ (had + k) + 1 = had + (k + 1)
    BY <1>3
  <2> QED
    BY <2>1, <2>2, <2>3, <2>4, <2>5
<1> HIDE DEF T
<1>6. N \in T
  BY <1>4, <1>5, UpTo
<1>7. N = 1 /\ q.super # r.super => r.free = {}
  <2>1. ASSUME N = 1
        PROVE  q = NewPage(r, n)
    <3>1. 0 \in 0 .. N - 1 /\ 0 + 1 = N
      BY <2>1
    <3> QED
      BY <1>1, <1>2, <3>1
  <2> QED
    BY <2>1, NewPageAdds
<1> QED
  BY <1>2, <1>6, <1>7 DEF T

LEMMA SetPaged ==
  ASSUME NEW r \in States, NEW n \in Numbers, Apart(r, n), NEW es \in Seq(Entries), NEW q,
         q = listing_set(r, n, es)
  PROVE  Paged(r, n, q)
<1> DEFINE have == Len(r.inode[n].pages)
           need == Pages(Len(es))
           w == IF need > have THEN MorePages(r, n, need - have) ELSE GiveUp(r, n, need)
<1>1. have \in Nat /\ need \in Nat
  <2>1. r.inode[n].pages \in Seq(PageNumbers)
    BY StateParts, NodeParts
  <2>2. Len(es) \in Nat
    OBVIOUS
  <2>3. need \in Nat
    BY <2>2, PagesNatural
  <2> HIDE DEF need
  <2> QED
    BY <2>1, <2>3
<1>2. q = WithEnts(w, n, es)
  BY DEF listing_set, WithEnts
<1>3. w \in States /\ Paged(r, n, w)
  <2>1. CASE need > have
    <3> DEFINE N == need - have
    <3>1. w = MorePages(r, n, N)
      BY <2>1
    <3> HIDE DEF need, have, w
    <3>2. N \in Nat /\ N # 0 /\ have + N = need
      BY <1>1, <2>1
    <3> HIDE DEF N
    <3>5. Adds(r, n, w) /\ (N = 1 /\ w.super # r.super => r.free = {})
      BY <3>1, <3>2, MorePagesAdds
    <3>6. Exchanges(r, n, w) /\ Len(w.inode[n].pages) = Len(r.inode[n].pages) + N
      BY <3>1, <3>2, MorePagesExchanges
    <3>3. /\ Adds(r, n, w) /\ w \in States /\ Len(w.inode[n].pages) = have + N
          /\ N = 1 /\ w.super # r.super => r.free = {}
      BY <3>5, <3>6 DEF Exchanges, have
    <3>4. /\ ~ (Len(w.inode[n].pages) <= have)
          /\ Len(w.inode[n].pages) <= have + 1 => N = 1
      BY <1>1, <3>2, <3>3
    <3> QED
      BY <3>3, <3>4 DEF Paged, Adds, have
  <2>2. CASE ~ (need > have)
    <3>1. need \in 0 .. Len(r.inode[n].pages)
      BY <1>1, <2>2
    <3>2. w = GiveUp(r, n, need)
      BY <2>2
    <3> HIDE DEF need, w
    <3>3. /\ w \in States /\ w.err = r.err /\ w.super = r.super
          /\ Len(w.inode[n].pages) = need
          /\ \A k \in 1 .. need : w.inode[n].pages[k] = r.inode[n].pages[k]
      BY <3>1, <3>2, GiveUpExchanges DEF Exchanges
    <3>4. \A k \in 1 .. have : k <= need => k \in 1 .. need
      BY <1>1
    <3> QED
      BY <3>3, <3>4 DEF Paged, have
  <2> QED
    BY <2>1, <2>2
<1> HIDE DEF w
<1>4. /\ q.free = w.free /\ q.err = w.err /\ q.super = w.super
      /\ q.inode[n].pages = w.inode[n].pages
  BY <1>2, <1>3, EntsPut
<1> QED
  BY <1>3, <1>4, FieldPaged

(* dnode_append and dnode_remove store the link count after the entries. *)
LEMMA LinkPaged ==
  ASSUME NEW r \in States, NEW n \in Numbers, Apart(r, n), NEW es \in Seq(Entries),
         NEW b \in Nat, NEW q, q = WithNlink(listing_set(r, n, es), n, b)
  PROVE  Paged(r, n, q)
<1> DEFINE w == listing_set(r, n, es)
<1>1. w \in States /\ Paged(r, n, w)
  BY SetExchanges, SetPaged DEF Exchanges
<1> HIDE DEF w
<1>2. q = WithNlink(w, n, b)
  BY DEF w
<1>3. /\ q.free = w.free /\ q.err = w.err /\ q.super = w.super
      /\ q.inode[n].pages = w.inode[n].pages
  BY <1>1, <1>2, NlinkPut
<1> QED
  BY <1>1, <1>3, FieldPaged

LEMMA AppendPaged ==
  ASSUME NEW r \in States, NEW n \in Numbers, Apart(r, n), NEW e \in Entries, NEW q,
         q = dnode_append(r, n, e)
  PROVE  Paged(r, n, q)
<1> DEFINE es == Append(r.inode[n].ents, e)
           w == listing_set(r, n, es)
           b == w.inode[n].nlink + 1
<1>1. es \in Seq(Entries) /\ r.inode[n].nlink \in Nat
  <2>1. r.inode[n].ents \in Seq(Entries) /\ r.inode[n].nlink \in Nat
    BY StateParts, NodeParts
  <2> QED
    BY <2>1
<1>2. q = WithNlink(w, n, b)
  BY DEF dnode_append, WithNlink
<1> HIDE DEF es
<1>3. w.inode[n].nlink = r.inode[n].nlink
  BY <1>1, SetExchanges
<1>4. b \in Nat
  BY <1>1, <1>3
<1> HIDE DEF b
<1> QED
  BY <1>1, <1>2, <1>4, LinkPaged

LEMMA RemovePaged ==
  ASSUME NEW r \in States, NEW n \in Numbers, Apart(r, n), NEW name, NEW i,
         i = SlotOf(r.inode[n].ents, name), i # 0, r.inode[n].nlink # 0,
         NEW q, q = dnode_remove(r, n, name)
  PROVE  Paged(r, n, q)
<1> DEFINE old == r.inode[n].ents
           es == Swapped(old, i)
           w == listing_set(r, n, es)
           b == w.inode[n].nlink - 1
<1>1. old \in Seq(Entries) /\ r.inode[n].nlink \in Nat
  BY StateParts, NodeParts
<1>2. q = WithNlink(w, n, b)
  BY DEF dnode_remove, WithNlink, SlotOf, Swapped
<1>3. i \in 1 .. Len(old)
  BY RemoveExchanges
<1> HIDE DEF old
<1>4. es \in Seq(Entries)
  BY <1>1, <1>3, SwappedIs
<1> HIDE DEF es
<1>5. w.inode[n].nlink = r.inode[n].nlink
  BY <1>4, SetExchanges
<1>6. b \in Nat
  BY <1>1, <1>5
<1> HIDE DEF b
<1> QED
  BY <1>2, <1>4, <1>6, LinkPaged

(* An entry more or less makes at most one page. *)
LEMMA PagesStep ==
  ASSUME NEW k \in Nat
  PROVE  Pages(k) <= Pages(k + 1) /\ Pages(k + 1) <= Pages(k) + 1
<1>0. DIRECT \in Nat \ {0} /\ PER_PAGE \in Nat \ {0}
  BY Shape
<1>1. CASE k + 1 <= DIRECT
  BY <1>0, <1>1 DEF Pages
<1>2. CASE k = DIRECT
  <2>1. Pages(k) = 0
    BY <1>0, <1>2 DEF Pages
  <2>2. Pages(k + 1) = (0 \div PER_PAGE) + 1
    <3>1. ~ (k + 1 <= DIRECT) /\ (k + 1) - DIRECT - 1 = 0
      BY <1>0, <1>2
    <3> QED
      BY <3>1 DEF Pages
  <2>3. 0 \div PER_PAGE = 0
    <3>1. 0 \div PER_PAGE \in Nat /\ (0 < 1 * PER_PAGE => 0 \div PER_PAGE < 1)
      BY <1>0, Quotient, QuotientBelow
    <3> QED
      BY <1>0, <3>1
  <2> QED
    BY <2>1, <2>2, <2>3
<1>3. CASE k > DIRECT
  <2> DEFINE a == k - DIRECT - 1
             c == a \div PER_PAGE
             d == (a + 1) \div PER_PAGE
  <2>1. a \in Nat /\ a + 1 \in Nat /\ (k + 1) - DIRECT - 1 = a + 1
    BY <1>0, <1>3
  <2>2. Pages(k) = c + 1 /\ Pages(k + 1) = d + 1
    <3>1. ~ (k <= DIRECT) /\ ~ (k + 1 <= DIRECT)
      BY <1>0, <1>3
    <3> QED
      BY <2>1, <3>1 DEF Pages
  <2> HIDE DEF a
  <2>3. c \in Nat /\ a < c * PER_PAGE + PER_PAGE /\ c <= d /\ d \in Nat
    BY <1>0, <2>1, Quotient, QuotientMonotone
  <2> HIDE DEF c
  <2>4. (c + 2) * PER_PAGE = c * PER_PAGE + PER_PAGE + PER_PAGE
    BY <1>0, <2>3
  <2>5. c * PER_PAGE \in Nat
    BY <1>0, <2>3
  <2>6. a + 1 < (c + 2) * PER_PAGE
    BY <1>0, <2>1, <2>3, <2>4, <2>5
  <2>7. d < c + 2
    <3>1. c + 2 \in Nat
      BY <2>3
    <3> QED
      BY <1>0, <2>1, <2>6, <3>1, QuotientBelow
  <2> HIDE DEF d
  <2> QED
    BY <2>2, <2>3, <2>7
<1> QED
  BY <1>0, <1>1, <1>2, <1>3

-----------------------------------------------------------------------------
(***************************************************************************)
(* Inodes in R.                                                            *)
(***************************************************************************)
LEMMA OwnedIsApart ==
  ASSUME NEW r \in States, NEW R \in SUBSET Numbers, 0 \notin R, NEW n \in R,
         Owned(r.inode, R, r.free)
  PROVE  Apart(r, n)
BY DEF Owned, Apart

LEMMA OwnedKept ==
  ASSUME NEW r \in States, NEW R \in SUBSET Numbers, 0 \notin R, NEW n \in R,
         Owned(r.inode, R, r.free), NEW q, Exchanges(r, n, q)
  PROVE  /\ Owned(q.inode, R, q.free)
         /\ \A m \in R : m # n => q.inode[m] = r.inode[m]
<1> DEFINE t == r.inode
           u == q.inode
<1>1. \A m \in R : m # n => u[m] = t[m]
  BY DEF Owned, Exchanges
<1>2. /\ q.free \cup Own(u, n) = r.free \cup Own(t, n)
      /\ Once(u, n) /\ Own(u, n) \cap q.free = {}
  BY DEF Exchanges, Apart
<1>3. \A m \in R : m # n => Own(u, m) = Own(t, m) /\ Once(u, m)
  BY <1>1 DEF Own, Owned, Once
<1>9. Owned(t, R, r.free)
  OBVIOUS
<1> HIDE DEF t, u
<1>4. /\ \A m \in R : m \notin r.free /\ Own(t, m) \cap (R \cup r.free) = {}
      /\ \A m \in R : m # n => Own(t, m) \cap Own(t, n) = {}
      /\ \A m, k \in R : m # k => Own(t, m) \cap Own(t, k) = {}
  BY <1>9 DEF Owned
<1>5. R \cap (r.free \cup Own(t, n)) = {}
  BY <1>4
<1>6. \A m \in R : m \notin q.free /\ Own(u, m) \cap (R \cup q.free) = {}
  <2>1. ASSUME NEW m \in R, m # n
        PROVE  Own(u, m) \cap (R \cup q.free) = {}
    BY <1>2, <1>3, <1>4, <2>1
  <2>2. Own(u, n) \cap (R \cup q.free) = {}
    BY <1>2, <1>5
  <2> QED
    BY <1>2, <1>5, <2>1, <2>2
<1>7. ASSUME NEW m \in R, NEW k \in R, m # k
      PROVE  Own(u, m) \cap Own(u, k) = {}
  <2>1. \A l \in R : l # n => Own(u, l) \cap Own(u, n) = {}
    BY <1>2, <1>3, <1>4
  <2>2. CASE m # n /\ k # n
    BY <1>3, <1>4, <1>7, <2>2
  <2> QED
    BY <1>7, <2>1, <2>2
<1>8. Owned(u, R, q.free)
  BY <1>2, <1>3, <1>6, <1>7 DEF Owned
<1> QED
  BY <1>1, <1>8 DEF t, u

LEMMA BlankLess ==
  ASSUME NEW t, NEW R, NEW Q \in SUBSET R, NEW F, NEW E \in SUBSET F, Blank(t, R, F)
  PROVE  Blank(t, Q, E)
BY DEF Blank

(* One inode changes that is neither in R nor free, unless it is emptied. *)
LEMMA BlankSame ==
  ASSUME NEW t \in Tables, NEW R \in SUBSET Numbers, NEW F \in SUBSET Numbers, Blank(t, R, F),
         NEW x, x \notin R, NEW u, \A j \in Numbers : j # x => u[j] = t[j],
         NEW E, E \subseteq F \cup {x},
         u[x] = Void \/ (x \notin E /\ \A m \in R : x \notin Own(t, m))
  PROVE  Blank(u, R, E)
<1>1. \A m \in R : Own(u, m) = Own(t, m)
  BY DEF Own
<1>2. ASSUME NEW m \in R
      PROVE  Own(t, m) \subseteq Numbers
  <2>1. t[m].pages \in Seq(PageNumbers)
    BY NodeParts
  <2> QED
    BY <2>1, Shape DEF Own
<1>3. \A j \in E : u[j] = Void
  BY DEF Blank
<1>4. \A m \in R : \A j \in Own(u, m) : u[j] = Void
  BY <1>1, <1>2 DEF Blank
<1> QED
  BY <1>3, <1>4 DEF Blank

(* An exchange then changes n and no other inode. *)
LEMMA BlankKept ==
  ASSUME NEW r \in States, NEW R \in SUBSET Numbers, 0 \notin R, NEW n \in R,
         Owned(r.inode, R, r.free), Blank(r.inode, R, r.free), NEW q, Exchanges(r, n, q)
  PROVE  /\ Blank(q.inode, R, q.free)
         /\ \A j \in Numbers : j # n => q.inode[j] = r.inode[j]
<1> DEFINE t == r.inode
           u == q.inode
<1>1. /\ q.free \cup Own(u, n) = r.free \cup Own(t, n)
      /\ \A j \in Numbers : j # n /\ j \notin r.free \cup Own(t, n) => u[j] = t[j]
      /\ \A j \in Numbers : j # n => u[j] \in {t[j], Void}
  BY DEF Exchanges
<1>2. /\ \A j \in r.free : t[j] = Void
      /\ \A m \in R : \A j \in Own(t, m) : t[j] = Void
  BY DEF Blank
<1>3. /\ \A m \in R : m \notin r.free /\ Own(t, m) \cap R = {}
      /\ \A m \in R : m # n => Own(u, m) = Own(t, m)
  <2>1. \A m \in R : m # n => u[m] = t[m]
    BY OwnedKept
  <2> QED
    BY <2>1 DEF Owned, Own
<1>4. /\ r.free \subseteq Numbers
      /\ \A m \in R : Own(t, m) \subseteq Numbers
  <2>1. r.free \subseteq Numbers /\ t \in Tables
    BY StateParts, Shape
  <2>2. ASSUME NEW m \in R
        PROVE  Own(t, m) \subseteq Numbers
    <3>1. t[m].pages \in Seq(PageNumbers)
      BY <2>1, NodeParts
    <3> QED
      BY <3>1, Shape DEF Own
  <2> QED
    BY <2>1, <2>2
<1> HIDE DEF t, u
<1>5. \A j \in Numbers : j # n => u[j] = t[j]
  BY <1>1, <1>2
<1>6. \A j \in q.free \cup Own(u, n) : u[j] = Void
  BY <1>1, <1>2, <1>3, <1>4, <1>5
<1>7. ASSUME NEW m \in R, NEW j \in Own(u, m)
      PROVE  u[j] = Void
  <2>1. CASE m = n
    BY <1>6, <1>7, <2>1
  <2>2. CASE m # n
    <3>1. j \in Own(t, m) /\ j \in Numbers /\ j # n
      BY <1>3, <1>4, <1>7, <2>2
    <3> QED
      BY <1>2, <1>5, <3>1
  <2> QED
    BY <2>1, <2>2
<1>8. Blank(u, R, q.free)
  BY <1>6, <1>7 DEF Blank
<1> QED
  BY <1>5, <1>8 DEF t, u

(* What the inodes of R use, and that with the free ones. *)
Uses(t, R) == R \cup UNION {Own(t, m) : m \in R}

Held(r, R) == r.free \cup Uses(r.inode, R)

LEMMA UsesParts ==
  ASSUME NEW t, NEW R
  PROVE  \A j : j \in Uses(t, R) <=> j \in R \/ \E m \in R : j \in Own(t, m)
BY DEF Uses

LEMMA HeldKept ==
  ASSUME NEW r, NEW R, NEW n \in R, NEW q, Exchanges(r, n, q),
         \A m \in R : m # n => q.inode[m] = r.inode[m]
  PROVE  Held(q, R) = Held(r, R)
<1>1. q.free \cup Own(q.inode, n) = r.free \cup Own(r.inode, n)
  BY DEF Exchanges
<1>2. \A m \in R : m # n => Own(q.inode, m) = Own(r.inode, m)
  BY DEF Own
<1>3. \A j : j \in Held(q, R) <=> j \in Held(r, R)
  BY <1>1, <1>2, UsesParts DEF Held
<1> QED
  BY <1>3

LEMMA OwnedSame ==
  ASSUME NEW t, NEW u, NEW R, NEW F, Owned(t, R, F),
         \A m \in R : u[m].pages = t[m].pages
  PROVE  Owned(u, R, F)
<1>1. \A m \in R : Own(u, m) = Own(t, m) /\ (Once(t, m) => Once(u, m))
  BY DEF Own, Once
<1> QED
  BY <1>1 DEF Owned

LEMMA OwnedLess ==
  ASSUME NEW t, NEW R, NEW Q \in SUBSET R, NEW F, NEW E \in SUBSET F, Owned(t, R, F)
  PROVE  Owned(t, Q, E)
BY DEF Owned

(* One more that has no pages. *)
LEMMA OwnedMore ==
  ASSUME NEW t, NEW R, NEW F, Owned(t, R, F), NEW x, x \notin F,
         \A m \in R : x \notin Own(t, m), t[x].pages = <<>>
  PROVE  Owned(t, R \cup {x}, F)
<1>1. Own(t, x) = {} /\ Once(t, x)
  BY DEF Own, Once
<1>2. \A m \in R : Once(t, m) /\ m \notin F /\ Own(t, m) \cap (R \cup F) = {}
  BY DEF Owned
<1>3. \A m \in R \cup {x} :
        Once(t, m) /\ m \notin F /\ Own(t, m) \cap ((R \cup {x}) \cup F) = {}
  BY <1>1, <1>2
<1>4. \A m, n \in R \cup {x} : m # n => Own(t, m) \cap Own(t, n) = {}
  BY <1>1 DEF Owned
<1> QED
  BY <1>3, <1>4 DEF Owned

(* One more that is free. *)
LEMMA OwnedFreed ==
  ASSUME NEW t, NEW R, NEW F, Owned(t, R, F), NEW x, x \notin R,
         \A m \in R : x \notin Own(t, m)
  PROVE  Owned(t, R, F \cup {x})
BY DEF Owned

-----------------------------------------------------------------------------
(***************************************************************************)
(* The tree in a table.                                                    *)
(***************************************************************************)
LEMMA InReach ==
  ASSUME NEW t
  PROVE  /\ \A k : k \in Reach(t) <=> k = ROOT \/ \E m \in Uppers(t) : k \in Kids(t, m)
         /\ \A k : k \in Uppers(t) <=> k = ROOT \/ (k \in Kids(t, ROOT) /\ t[k].isdir = 1)
BY DEF Reach, Uppers

LEMMA UpperParts ==
  ASSUME NEW t, DirsGood(t)
  PROVE  /\ Uppers(t) \subseteq Reach(t)
         /\ \A n \in Uppers(t) :
              /\ t[n].isdir = 1 /\ DirGood(t, n)
              /\ \A k \in Kids(t, n) : k \in Reach(t) /\ k \in 3 .. LAST /\ t[k].pno = n
         /\ Reach(t) \subseteq {2} \cup 3 .. LAST
<1>1. Uppers(t) \subseteq Reach(t)
  BY InReach
<1>2. ASSUME NEW n \in Uppers(t)
      PROVE  /\ t[n].isdir = 1 /\ DirGood(t, n)
             /\ \A k \in Kids(t, n) : k \in Reach(t) /\ k \in 3 .. LAST /\ t[k].pno = n
  <2>1. t[n].isdir = 1
    BY InReach DEF DirsGood
  <2>2. DirGood(t, n)
    BY <1>1, <2>1 DEF DirsGood
  <2>3. ASSUME NEW k \in Kids(t, n)
        PROVE  k \in Reach(t) /\ k \in 3 .. LAST /\ t[k].pno = n
    <3>1. PICK i \in Slots(t, n) : k = Kid(t, n, i)
      BY DEF Kids
    <3>2. t[n].ents[i] \in Names \X (3 .. LAST) /\ t[k].pno = n
      BY <2>2, <3>1 DEF DirGood
    <3> QED
      BY <3>1, <3>2, InReach DEF Kid
  <2> QED
    BY <2>1, <2>2, <2>3
<1>3. Reach(t) \subseteq {2} \cup 3 .. LAST
  BY <1>2, InReach, Shape
<1> QED
  BY <1>1, <1>2, <1>3

(* Files may be written to. *)
Alike(t, u) ==
  \A m \in Reach(t) :
    /\ u[m].isdir = t[m].isdir /\ u[m].pno = t[m].pno
    /\ t[m].isdir = 1 => u[m].ents = t[m].ents /\ u[m].nlink = t[m].nlink

LEMMA SameTree ==
  ASSUME NEW t, NEW u, DirsGood(t),
         \A m \in Reach(t) :
           /\ u[m].isdir = t[m].isdir /\ u[m].pno = t[m].pno
           /\ t[m].isdir = 1 => u[m].ents = t[m].ents /\ u[m].nlink = t[m].nlink
  PROVE  DirsGood(u) /\ Reach(u) = Reach(t)
<1>1. \A n \in Uppers(t) : Kids(u, n) = Kids(t, n)
  BY UpperParts DEF Kids, Kid, Slots, Count
<1>2. Uppers(u) = Uppers(t)
  <2>1. ROOT \in Uppers(t)
    BY InReach
  <2>2. \A k \in Kids(t, ROOT) : u[k].isdir = t[k].isdir
    BY <2>1, UpperParts
  <2>3. Kids(u, ROOT) = Kids(t, ROOT)
    BY <1>1, <2>1
  <2> QED
    BY <2>2, <2>3 DEF Uppers
<1>3. Reach(u) = Reach(t)
  BY <1>1, <1>2 DEF Reach
<1>4. ROOT \in Reach(t)
  BY InReach
<1>5. ASSUME NEW n \in Reach(t), u[n].isdir = 1
      PROVE  DirGood(u, n)
  <2>1. t[n].isdir = 1 /\ DirGood(t, n)
    BY <1>5 DEF DirsGood
  <2>2. u[n].ents = t[n].ents /\ u[n].nlink = t[n].nlink /\ u[n].pno = t[n].pno
    BY <2>1
  <2>3. n \in Uppers(t) \/ Count(t, n) = 2
    BY <2>1 DEF DirsGood
  <2>4. \A i \in Slots(t, n) : Kid(t, n, i) \in Reach(t)
    <3>1. CASE n \in Uppers(t)
      BY <3>1, UpperParts DEF Kids
    <3>2. CASE Count(t, n) = 2
      BY <3>2 DEF Slots
    <3> QED
      BY <2>3, <3>1, <3>2
  <2>5. \A i \in Slots(t, n) : u[Kid(t, n, i)].pno = t[Kid(t, n, i)].pno
    BY <2>4
  <2>6. Slots(u, n) = Slots(t, n) /\ Count(u, n) = Count(t, n)
    BY <2>2 DEF Slots, Count
  <2>7. \A i \in Slots(t, n) : Kid(u, n, i) = Kid(t, n, i)
    BY <2>2 DEF Kid
  <2> QED
    BY <2>1, <2>2, <2>5, <2>6, <2>7 DEF DirGood
<1>6. ASSUME NEW n \in Reach(t)
      PROVE  n \in Uppers(t) \/ (u[n].isdir = 1 => Count(u, n) = 2)
  BY DEF DirsGood, Count
<1>7. u[ROOT].isdir = 1 /\ u[ROOT].pno = ROOT
  BY <1>4 DEF DirsGood
<1> QED
  BY <1>2, <1>3, <1>5, <1>6, <1>7 DEF DirsGood

(* An entry of n more, for a file or an empty directory. *)
Appended(t, u, n, name, x) ==
  /\ u[n].ents = Append(t[n].ents, <<name, x>>) /\ u[n].nlink = t[n].nlink + 1
  /\ u[n].isdir = 1 /\ u[n].pno = t[n].pno
  /\ u[x].pno = n /\ (u[x].isdir = 1 => DirGood(u, x) /\ Count(u, x) = 2)
  /\ \A m \in Reach(t) : m # n => u[m] = t[m]

LEMMA AppendedTree ==
  ASSUME NEW t \in Tables, NEW u, DirsGood(t), NEW n \in Uppers(t), NEW name \in Names,
         NEW x \in 3 .. LAST, x \notin Reach(t), Appended(t, u, n, name, x),
         \A i \in Slots(t, n) : t[n].ents[i][1] # name
  PROVE  DirsGood(u) /\ Reach(u) = Reach(t) \cup {x}
<1>1. /\ n \in Reach(t) /\ n \in Numbers /\ ROOT \in Uppers(t) /\ ROOT \in Reach(t)
      /\ x # n /\ x # ROOT /\ t[n].isdir = 1 /\ DirGood(t, n)
  BY Shape, UpperParts, InReach
<1>2. t[n].ents \in Seq(Entries) /\ Len(t[n].ents) \in Nat /\ Count(t, n) >= 2
  BY <1>1, NodeParts DEF DirGood
<1> DEFINE es == t[n].ents
           C == Len(es)
<1>3. /\ Count(t, n) = C /\ Count(u, n) = C + 1
      /\ \A i \in 1 .. C : u[n].ents[i] = es[i]
      /\ u[n].ents[C + 1] = <<name, x>>
  BY <1>2 DEF Count, Appended
<1>4. Slots(t, n) = 3 .. C /\ Slots(u, n) = 3 .. C + 1
  BY <1>3 DEF Slots
<1>5. \A i \in Slots(t, n) : Kid(u, n, i) = Kid(t, n, i) /\ u[n].ents[i] = t[n].ents[i]
  BY <1>3, <1>4 DEF Kid
<1>6. Kid(u, n, C + 1) = x
  BY <1>3 DEF Kid
<1>7. /\ C + 1 \in Slots(u, n) /\ C + 1 \notin Slots(t, n)
      /\ \A i : i \in Slots(u, n) <=> i \in Slots(t, n) \/ i = C + 1
  BY <1>2, <1>3, <1>4
<1> HIDE DEF C, es
<1>8. Kids(u, n) = Kids(t, n) \cup {x}
  BY <1>5, <1>6, <1>7 DEF Kids
<1>9. \A m \in Uppers(t) : m # n => Kids(u, m) = Kids(t, m)
  BY UpperParts DEF Appended, Kids, Kid, Slots, Count
<1>10. Kids(u, ROOT) \subseteq Kids(t, ROOT) \cup {x} /\ Kids(t, ROOT) \subseteq Kids(u, ROOT)
  BY <1>1, <1>8, <1>9
<1>11. \A m \in Reach(t) : u[m].isdir = t[m].isdir /\ u[m].pno = t[m].pno
  BY <1>1 DEF Appended
<1>12. \A m : m \in Uppers(u) => m \in Uppers(t) \/ (m = x /\ n = ROOT)
  <2>1. ASSUME NEW m, m \in Kids(u, ROOT), u[m].isdir = 1
        PROVE  m \in Uppers(t) \/ (m = x /\ n = ROOT)
    <3>1. CASE m \in Kids(t, ROOT)
      <4>1. t[m].isdir = 1
        BY <1>1, <1>11, <2>1, <3>1, UpperParts
      <4> QED
        BY <3>1, <4>1, InReach
    <3>2. CASE m \notin Kids(t, ROOT)
      BY <1>1, <1>8, <1>9, <2>1, <3>2
    <3> QED
      BY <3>1, <3>2
  <2> QED
    BY <1>1, <2>1, InReach
<1>13. Uppers(t) \subseteq Uppers(u)
  <2>1. ASSUME NEW m \in Uppers(t)
        PROVE  m \in Uppers(u)
    BY <1>10, <1>11, UpperParts, InReach
  <2> QED
    BY <2>1
<1>14. x \in Uppers(u) => Kids(u, x) = {}
  <2>1. x \in Uppers(u) => u[x].isdir = 1
    BY <1>1, InReach
  <2>2. u[x].isdir = 1 => Count(u, x) = 2
    BY DEF Appended
  <2> QED
    BY <2>1, <2>2 DEF Kids, Slots
<1>15. Reach(u) = Reach(t) \cup {x}
  <2>1. ASSUME NEW k \in Reach(u)
        PROVE  k \in Reach(t) \cup {x}
    <3>1. CASE k = ROOT
      BY <1>1, <3>1
    <3>2. ASSUME NEW m \in Uppers(u), k \in Kids(u, m)
          PROVE  k \in Reach(t) \cup {x}
      <4>1. m # x
        BY <1>14, <3>2
      <4>2. m \in Uppers(t)
        BY <1>12, <4>1
      <4>3. k \in Kids(t, m) \cup {x}
        BY <1>8, <1>9, <3>2, <4>2
      <4> QED
        BY <4>2, <4>3, InReach
    <3> QED
      BY <3>1, <3>2, InReach
  <2>2. ASSUME NEW k \in Reach(t)
        PROVE  k \in Reach(u)
    <3>1. ASSUME NEW m \in Uppers(t), k \in Kids(t, m)
          PROVE  k \in Kids(u, m) /\ m \in Uppers(u)
      BY <1>8, <1>9, <1>13, <3>1
    <3> QED
      BY <3>1, InReach
  <2>3. x \in Reach(u)
    BY <1>8, <1>13, InReach
  <2> QED
    BY <2>1, <2>2, <2>3
<1>16. DirGood(u, n)
  <2>1. Count(u, n) >= 2 /\ u[n].nlink = Count(u, n)
    <3>1. t[n].nlink = C /\ C \in Nat /\ C >= 2
      BY <1>1, <1>2, <1>3 DEF DirGood, C, es
    <3> QED
      BY <1>3, <3>1 DEF Appended, C, es
  <2>2. u[n].ents[1] = <<Dot, n>> /\ u[n].ents[2] = <<DotDot, u[n].pno>>
    <3>1. 1 \in 1 .. C /\ 2 \in 1 .. C
      BY <1>2 DEF C, es, Count
    <3>2. t[n].ents[1] = <<Dot, n>> /\ t[n].ents[2] = <<DotDot, t[n].pno>>
      BY <1>1 DEF DirGood
    <3>3. \A i \in 1 .. C : u[n].ents[i] = t[n].ents[i]
      BY <1>3 DEF C, es
    <3> QED
      BY <3>1, <3>2, <3>3 DEF Appended
  <2>3. ASSUME NEW i \in Slots(u, n)
        PROVE  u[n].ents[i] \in Names \X (3 .. LAST) /\ u[Kid(u, n, i)].pno = n
    <3>1. CASE i \in Slots(t, n)
      <4>1. t[n].ents[i] \in Names \X (3 .. LAST) /\ t[Kid(t, n, i)].pno = n
        BY <1>1, <3>1 DEF DirGood
      <4>2. Kid(t, n, i) \in Reach(t)
        BY <3>1, UpperParts DEF Kids
      <4> QED
        BY <1>5, <1>11, <3>1, <4>1, <4>2
    <3>2. CASE i = C + 1
      BY <1>3, <1>6, <3>2 DEF Appended, C, es
    <3> QED
      BY <1>7, <3>1, <3>2
  <2>4. ASSUME NEW i \in Slots(u, n), NEW j \in Slots(u, n),
               u[n].ents[i][1] = u[n].ents[j][1] \/ Kid(u, n, i) = Kid(u, n, j)
        PROVE  i = j
    <3>1. u[n].ents[C + 1][1] = name
      BY <1>3 DEF C, es
    <3>2. \A k \in Slots(t, n) : u[n].ents[k][1] # name /\ Kid(u, n, k) # x
      <4>1. \A k \in Slots(t, n) : Kid(t, n, k) \in Reach(t)
        BY UpperParts DEF Kids
      <4> QED
        BY <1>5, <4>1
    <3>3. CASE i \in Slots(t, n) /\ j \in Slots(t, n)
      BY <1>1, <1>5, <2>4, <3>3 DEF DirGood
    <3> QED
      BY <1>6, <1>7, <2>4, <3>1, <3>2, <3>3
  <2> QED
    BY <2>1, <2>2, <2>3, <2>4 DEF DirGood
<1>17. ASSUME NEW m \in Reach(u), u[m].isdir = 1
       PROVE  DirGood(u, m)
  <2>1. CASE m = x
    BY <1>17, <2>1 DEF Appended
  <2>2. CASE m = n
    BY <1>16, <2>2
  <2>3. CASE m # x /\ m # n
    <3>1. m \in Reach(t) /\ u[m] = t[m]
      BY <1>15, <2>3 DEF Appended
    <3>2. DirGood(t, m)
      BY <1>17, <3>1 DEF DirsGood
    <3>3. Slots(u, m) = Slots(t, m) /\ Count(u, m) = Count(t, m)
      BY <3>1 DEF Slots, Count
    <3>4. \A i \in Slots(t, m) : Kid(u, m, i) = Kid(t, m, i)
      BY <3>1 DEF Kid
    <3>5. \A i \in Slots(t, m) : Kid(t, m, i) \in Reach(t)
      <4>1. m \in Uppers(t) \/ Count(t, m) = 2
        BY <1>17, <3>1 DEF DirsGood
      <4>2. CASE m \in Uppers(t)
        BY <4>2, UpperParts DEF Kids
      <4>3. CASE Count(t, m) = 2
        BY <4>3 DEF Slots
      <4> QED
        BY <4>1, <4>2, <4>3
    <3>6. \A i \in Slots(t, m) : u[Kid(t, m, i)].pno = t[Kid(t, m, i)].pno
      BY <1>11, <3>5
    <3> QED
      BY <3>1, <3>2, <3>3, <3>4, <3>6 DEF DirGood
  <2> QED
    BY <2>1, <2>2, <2>3
<1>18. ASSUME NEW m \in Reach(u), m \notin Uppers(u), u[m].isdir = 1
       PROVE  Count(u, m) = 2
  <2>1. CASE m = x
    BY <1>18, <2>1 DEF Appended
  <2>2. CASE m # x
    <3>1. m \in Reach(t) /\ m \notin Uppers(t) /\ m # n
      BY <1>13, <1>15, <1>18, <2>2
    <3>2. u[m] = t[m]
      BY <3>1 DEF Appended
    <3> QED
      BY <1>18, <3>1, <3>2 DEF DirsGood, Count
  <2> QED
    BY <2>1, <2>2
<1>19. u[ROOT].isdir = 1 /\ u[ROOT].pno = ROOT
  BY <1>1, <1>11 DEF DirsGood
<1> QED
  BY <1>15, <1>17, <1>18, <1>19 DEF DirsGood

(* An entry of n, for x, less; what becomes of x is of no matter. *)
Removed(t, u, n, i) ==
  /\ u[n].ents = Swapped(t[n].ents, i) /\ u[n].nlink = t[n].nlink - 1
  /\ u[n].isdir = 1 /\ u[n].pno = t[n].pno
  /\ \A m \in Reach(t) : m # n /\ m # Kid(t, n, i) => u[m] = t[m]

(* Which entry is at k then. *)
Before(c, i, k) == IF k = i THEN c ELSE k

LEMMA RemovedEntries ==
  ASSUME NEW t \in Tables, NEW u, NEW n \in Numbers, DirGood(t, n), NEW i \in Slots(t, n),
         Removed(t, u, n, i)
  PROVE  /\ Count(t, n) \in Nat /\ Count(u, n) = Count(t, n) - 1 /\ Count(t, n) >= 3
         /\ u[n].ents[1] = t[n].ents[1] /\ u[n].ents[2] = t[n].ents[2]
         /\ \A k \in Slots(u, n) :
              /\ Before(Count(t, n), i, k) \in Slots(t, n)
              /\ Before(Count(t, n), i, k) # i
              /\ u[n].ents[k] = t[n].ents[Before(Count(t, n), i, k)]
         /\ \A k, l \in Slots(u, n) :
              Before(Count(t, n), i, k) = Before(Count(t, n), i, l) => k = l
         /\ \A l \in Slots(t, n) :
              l # i => \E k \in Slots(u, n) : Before(Count(t, n), i, k) = l
<1> DEFINE es == t[n].ents
           C == Len(es)
<1>1. es \in Seq(Entries) /\ C \in Nat /\ C = Count(t, n)
  <2>1. es \in Seq(Entries)
    BY NodeParts
  <2> QED
    BY <2>1 DEF Count
<1> HIDE DEF es
<1>2. C >= 3 /\ i \in 3 .. C /\ i \in 1 .. Len(es)
  BY <1>1 DEF Slots
<1>3. /\ Len(u[n].ents) = C - 1
      /\ \A k \in 1 .. C - 1 : u[n].ents[k] = es[Before(C, i, k)]
  <2>1. u[n].ents = Swapped(es, i)
    BY DEF Removed, es
  <2>2. /\ Len(Swapped(es, i)) = Len(es) - 1
        /\ \A k \in 1 .. Len(es) - 1 :
             Swapped(es, i)[k] = IF k = i THEN es[Len(es)] ELSE es[k]
    BY <1>1, <1>2, SwappedIs
  <2> QED
    BY <2>1, <2>2 DEF Before
<1>4. Count(u, n) = C - 1 /\ Slots(u, n) = 3 .. C - 1 /\ Slots(t, n) = 3 .. C
  BY <1>1, <1>3 DEF Count, Slots
<1> HIDE DEF C
<1>5. u[n].ents[1] = es[1] /\ u[n].ents[2] = es[2]
  BY <1>1, <1>2, <1>3 DEF Before
<1>6. \A k \in 3 .. C - 1 :
        /\ Before(C, i, k) \in 3 .. C /\ Before(C, i, k) # i
        /\ u[n].ents[k] = es[Before(C, i, k)]
  <2>1. \A k \in 3 .. C - 1 : k \in 1 .. C - 1
    BY <1>1
  <2>2. \A k \in 3 .. C - 1 : u[n].ents[k] = es[Before(C, i, k)]
    BY <1>3, <2>1
  <2>3. \A k \in 3 .. C - 1 : Before(C, i, k) \in 3 .. C /\ Before(C, i, k) # i
    BY <1>1, <1>2 DEF Before
  <2> QED
    BY <2>2, <2>3
<1>7. \A k, l \in 3 .. C - 1 : Before(C, i, k) = Before(C, i, l) => k = l
  BY <1>1, <1>2 DEF Before
<1>8. ASSUME NEW l \in 3 .. C, l # i
      PROVE  \E k \in 3 .. C - 1 : Before(C, i, k) = l
  <2>1. CASE l = C
    <3>1. i \in 3 .. C - 1 /\ Before(C, i, i) = l
      BY <1>1, <1>2, <1>8, <2>1 DEF Before
    <3> QED
      BY <3>1
  <2>2. CASE l # C
    <3>1. l \in 3 .. C - 1 /\ Before(C, i, l) = l
      BY <1>1, <1>8, <2>2 DEF Before
    <3> QED
      BY <3>1
  <2> QED
    BY <2>1, <2>2
<1> QED
  BY <1>1, <1>2, <1>4, <1>5, <1>6, <1>7, <1>8 DEF es

LEMMA RemovedTree ==
  ASSUME NEW t \in Tables, NEW u, DirsGood(t), NEW n \in Uppers(t), NEW i \in Slots(t, n),
         Removed(t, u, n, i)
  PROVE  /\ DirsGood(u) /\ Reach(u) \subseteq Reach(t) \ {Kid(t, n, i)}
         /\ Kid(t, n, i) # n /\ n \in Reach(u)
<1> DEFINE x == Kid(t, n, i)
           c == Count(t, n)
<1>1. /\ n \in Reach(t) /\ n \in Numbers /\ ROOT \in Uppers(t) /\ ROOT \in Reach(t)
      /\ t[n].isdir = 1 /\ DirGood(t, n) /\ x \in Kids(t, n)
  BY Shape, UpperParts, InReach DEF Kids
<1>2. /\ c \in Nat /\ Count(u, n) = c - 1 /\ c >= 3
      /\ u[n].ents[1] = t[n].ents[1] /\ u[n].ents[2] = t[n].ents[2]
      /\ \A k \in Slots(u, n) :
           /\ Before(c, i, k) \in Slots(t, n) /\ Before(c, i, k) # i
           /\ u[n].ents[k] = t[n].ents[Before(c, i, k)]
      /\ \A k, l \in Slots(u, n) : Before(c, i, k) = Before(c, i, l) => k = l
      /\ \A l \in Slots(t, n) : l # i => \E k \in Slots(u, n) : Before(c, i, k) = l
  BY <1>1, RemovedEntries
<1> HIDE DEF c
<1>3. x \in 3 .. LAST /\ t[x].pno = n /\ x # ROOT /\ x \in Reach(t)
  BY <1>1, UpperParts, Shape
<1>4. x # n
  <2>1. n # ROOT => t[n].pno = ROOT
    BY UpperParts, InReach
  <2> QED
    BY <1>3, <2>1
<1>5. \A k \in Slots(u, n) : Kid(u, n, k) = Kid(t, n, Before(c, i, k))
  BY <1>2 DEF Kid
<1>6. \A l \in Slots(t, n) : Kid(t, n, l) = x => l = i
  BY <1>1 DEF DirGood
<1> HIDE DEF x
<1>7. Kids(u, n) = Kids(t, n) \ {x}
  <2>1. ASSUME NEW y \in Kids(u, n)
        PROVE  y \in Kids(t, n) \ {x}
    <3>1. PICK k \in Slots(u, n) : y = Kid(u, n, k)
      BY DEF Kids
    <3>2. Before(c, i, k) \in Slots(t, n) /\ Before(c, i, k) # i
      BY <1>2
    <3> QED
      BY <1>5, <1>6, <3>1, <3>2 DEF Kids
  <2>2. ASSUME NEW y \in Kids(t, n) \ {x}
        PROVE  y \in Kids(u, n)
    <3>1. PICK l \in Slots(t, n) : y = Kid(t, n, l)
      BY DEF Kids
    <3>2. l # i
      BY <3>1 DEF x
    <3>3. PICK k \in Slots(u, n) : Before(c, i, k) = l
      BY <1>2, <3>2
    <3> QED
      BY <1>5, <3>1, <3>3 DEF Kids
  <2> QED
    BY <2>1, <2>2
<1>8. \A m \in Reach(t) : m # n /\ m # x => u[m] = t[m]
  BY DEF Removed, x
<1>9. \A m \in Reach(t) : m # n /\ m # x => Kids(u, m) = Kids(t, m)
  BY <1>8 DEF Kids, Kid, Slots, Count
<1>10. \A m \in Uppers(t) : m # n => x \notin Kids(t, m)
  BY <1>3, UpperParts
<1>11. \A m \in Reach(t) : m # x => u[m].isdir = t[m].isdir /\ u[m].pno = t[m].pno
  BY <1>1, <1>8 DEF Removed
<1>12. Kids(u, ROOT) = Kids(t, ROOT) \ {x}
  BY <1>1, <1>3, <1>7, <1>9, <1>10
<1>13. \A m : m \in Uppers(u) <=> m \in Uppers(t) /\ m # x
  <2>1. ASSUME NEW m, m # x, m \in Kids(t, ROOT)
        PROVE  u[m].isdir = t[m].isdir
    BY <1>1, <1>11, <2>1, UpperParts
  <2> QED
    BY <1>3, <1>12, <2>1, InReach
<1>14. \A m \in Uppers(u) : x \notin Kids(u, m) /\ Kids(u, m) \subseteq Kids(t, m)
  <2>1. ASSUME NEW m \in Uppers(u)
        PROVE  x \notin Kids(u, m) /\ Kids(u, m) \subseteq Kids(t, m)
    <3>1. CASE m = n
      BY <1>7, <3>1
    <3>2. CASE m # n
      <4>1. m \in Uppers(t) /\ m # x /\ m \in Reach(t)
        BY <1>13, UpperParts
      <4> QED
        BY <1>9, <1>10, <3>2, <4>1
    <3> QED
      BY <3>1, <3>2
  <2> QED
    BY <2>1
<1>15. Reach(u) \subseteq Reach(t) \ {x}
  BY <1>3, <1>13, <1>14, InReach
<1>16. n \in Uppers(u)
  BY <1>4, <1>13
<1>17. DirGood(u, n)
  <2>1. Count(u, n) >= 2 /\ u[n].nlink = Count(u, n)
    BY <1>1, <1>2 DEF DirGood, Removed, c
  <2>2. u[n].ents[1] = <<Dot, n>> /\ u[n].ents[2] = <<DotDot, u[n].pno>>
    BY <1>1, <1>2 DEF DirGood, Removed
  <2>3. ASSUME NEW k \in Slots(u, n)
        PROVE  u[n].ents[k] \in Names \X (3 .. LAST) /\ u[Kid(u, n, k)].pno = n
    <3> DEFINE l == Before(c, i, k)
    <3>1. l \in Slots(t, n) /\ l # i /\ u[n].ents[k] = t[n].ents[l]
      BY <1>2
    <3> HIDE DEF l
    <3>2. t[n].ents[l] \in Names \X (3 .. LAST) /\ t[Kid(t, n, l)].pno = n
      BY <1>1, <3>1 DEF DirGood
    <3>3. Kid(t, n, l) \in Reach(t) /\ Kid(t, n, l) # x
      BY <1>6, <3>1, UpperParts DEF Kids
    <3>4. Kid(u, n, k) = Kid(t, n, l)
      BY <3>1 DEF Kid
    <3> QED
      BY <1>11, <3>1, <3>2, <3>3, <3>4
  <2>4. ASSUME NEW k \in Slots(u, n), NEW l \in Slots(u, n),
               u[n].ents[k][1] = u[n].ents[l][1] \/ Kid(u, n, k) = Kid(u, n, l)
        PROVE  k = l
    <3> DEFINE a == Before(c, i, k)
               b == Before(c, i, l)
    <3>1. /\ a \in Slots(t, n) /\ b \in Slots(t, n) /\ (a = b => k = l)
          /\ u[n].ents[k] = t[n].ents[a] /\ u[n].ents[l] = t[n].ents[b]
          /\ Kid(u, n, k) = Kid(t, n, a) /\ Kid(u, n, l) = Kid(t, n, b)
      BY <1>2, <1>5
    <3> HIDE DEF a, b
    <3>2. a = b
      BY <1>1, <2>4, <3>1 DEF DirGood
    <3> QED
      BY <3>1, <3>2
  <2> QED
    BY <2>1, <2>2, <2>3, <2>4 DEF DirGood
<1>18. ASSUME NEW m \in Reach(u), u[m].isdir = 1
       PROVE  /\ DirGood(u, m)
              /\ m \in Uppers(u) \/ Count(u, m) = 2
  <2>1. CASE m = n
    BY <1>16, <1>17, <2>1
  <2>2. CASE m # n
    <3>1. m \in Reach(t) /\ m # x /\ u[m] = t[m]
      BY <1>8, <1>15, <2>2
    <3>2. DirGood(t, m) /\ (m \in Uppers(t) \/ Count(t, m) = 2)
      BY <1>18, <3>1 DEF DirsGood
    <3>3. Slots(u, m) = Slots(t, m) /\ Count(u, m) = Count(t, m)
      BY <3>1 DEF Slots, Count
    <3>4. \A k \in Slots(t, m) : Kid(u, m, k) = Kid(t, m, k)
      BY <3>1 DEF Kid
    <3>5. \A k \in Slots(t, m) : Kid(t, m, k) \in Reach(t) /\ Kid(t, m, k) # x
      <4>1. CASE m \in Uppers(t)
        BY <1>10, <2>2, <4>1, UpperParts DEF Kids
      <4>2. CASE Count(t, m) = 2
        BY <4>2 DEF Slots
      <4> QED
        BY <3>2, <4>1, <4>2
    <3>6. \A k \in Slots(t, m) : u[Kid(t, m, k)].pno = t[Kid(t, m, k)].pno
      BY <1>11, <3>5
    <3>7. DirGood(u, m)
      BY <3>1, <3>2, <3>3, <3>4, <3>6 DEF DirGood
    <3> QED
      BY <1>13, <3>1, <3>2, <3>3, <3>7
  <2> QED
    BY <2>1, <2>2
<1>19. u[ROOT].isdir = 1 /\ u[ROOT].pno = ROOT
  BY <1>1, <1>3, <1>11 DEF DirsGood
<1>20. DirsGood(u)
  BY <1>18, <1>19 DEF DirsGood
<1>21. n \in Reach(u)
  BY <1>16, <1>20, UpperParts
<1> QED
  BY <1>4, <1>15, <1>20, <1>21 DEF x

-----------------------------------------------------------------------------
(***************************************************************************)
(* Lookups.                                                                *)
(***************************************************************************)
LEMMA WalkNone ==
  ASSUME NEW L
  PROVE  Walk(L, <<>>) = ROOT
<1> DEFINE Equation(h) ==
             h = [i \in 0 .. 0 |-> IF i = 0 THEN ROOT
                                   ELSE path_to_inum_elem(L, <<>>[i], h[i - 1])]
           inum[i \in 0 .. 0] ==
             IF i = 0 THEN ROOT ELSE path_to_inum_elem(L, <<>>[i], inum[i - 1])
<1>1. Equation([i \in 0 .. 0 |-> ROOT])
  OBVIOUS
<1>2. Equation(inum)
  BY <1>1
<1>3. Walk(L, <<>>) = inum[0]
  BY DEF Walk
<1> HIDE DEF inum
<1> QED
  BY <1>2, <1>3

LEMMA WalkOne ==
  ASSUME NEW L, NEW a
  PROVE  Walk(L, <<a>>) = path_to_inum_elem(L, a, ROOT)
<1> DEFINE first == path_to_inum_elem(L, a, ROOT)
           Equation(h) ==
             h = [i \in 0 .. 1 |-> IF i = 0 THEN ROOT
                                   ELSE path_to_inum_elem(L, <<a>>[i], h[i - 1])]
           inum[i \in 0 .. 1] ==
             IF i = 0 THEN ROOT ELSE path_to_inum_elem(L, <<a>>[i], inum[i - 1])
           g == [i \in 0 .. 1 |-> IF i = 0 THEN ROOT ELSE first]
<1>1. Equation(g)
  <2>1. ASSUME NEW i \in 0 .. 1
        PROVE  g[i] = IF i = 0 THEN ROOT ELSE path_to_inum_elem(L, <<a>>[i], g[i - 1])
    <3>1. CASE i = 0
      BY <3>1
    <3>2. CASE i = 1
      <4>1. g[i - 1] = ROOT /\ <<a>>[i] = a /\ g[i] = first
        BY <3>2
      <4> QED
        BY <3>2, <4>1
    <3> QED
      BY <3>1, <3>2
  <2> QED
    BY <2>1
<1>2. Equation(inum)
  BY <1>1
<1>3. Walk(L, <<a>>) = inum[1]
  BY DEF Walk
<1> HIDE DEF inum
<1>4. inum[0] = ROOT
  BY <1>2
<1>5. inum[1] = path_to_inum_elem(L, <<a>>[1], inum[0])
  BY <1>2
<1> QED
  BY <1>3, <1>4, <1>5

LEMMA WalkTwo ==
  ASSUME NEW L, NEW a, NEW b
  PROVE  Walk(L, <<a, b>>) = path_to_inum_elem(L, b, path_to_inum_elem(L, a, ROOT))
<1> DEFINE first == path_to_inum_elem(L, a, ROOT)
           second == path_to_inum_elem(L, b, first)
           Equation(h) ==
             h = [i \in 0 .. 2 |-> IF i = 0 THEN ROOT
                                   ELSE path_to_inum_elem(L, <<a, b>>[i], h[i - 1])]
           inum[i \in 0 .. 2] ==
             IF i = 0 THEN ROOT ELSE path_to_inum_elem(L, <<a, b>>[i], inum[i - 1])
           g == [i \in 0 .. 2 |-> IF i = 0 THEN ROOT ELSE IF i = 1 THEN first ELSE second]
<1>1. Equation(g)
  <2>1. ASSUME NEW i \in 0 .. 2
        PROVE  g[i] = IF i = 0 THEN ROOT ELSE path_to_inum_elem(L, <<a, b>>[i], g[i - 1])
    <3>1. CASE i = 0
      BY <3>1
    <3>2. CASE i = 1
      <4>1. g[i - 1] = ROOT /\ <<a, b>>[i] = a /\ g[i] = first
        BY <3>2
      <4> QED
        BY <3>2, <4>1
    <3>3. CASE i = 2
      <4>1. g[i - 1] = first /\ <<a, b>>[i] = b /\ g[i] = second
        BY <3>3
      <4> QED
        BY <3>3, <4>1
    <3> QED
      BY <3>1, <3>2, <3>3
  <2> QED
    BY <2>1
<1>2. Equation(inum)
  BY <1>1
<1>3. Walk(L, <<a, b>>) = inum[2]
  BY DEF Walk
<1> HIDE DEF inum
<1>4. inum[0] = ROOT
  BY <1>2
<1>5. inum[1] = path_to_inum_elem(L, <<a, b>>[1], inum[0])
  BY <1>2
<1>6. inum[2] = path_to_inum_elem(L, <<a, b>>[2], inum[1])
  BY <1>2
<1> QED
  BY <1>3, <1>4, <1>5, <1>6

(* A number as a ushort; -1 is the last. *)
LEMMA AsUShort ==
  /\ USHORTS \in Nat /\ USHORTS >= 2
  /\ \A n \in 0 .. USHORTS - 1 : (USHORTS + n) % USHORTS = n
  /\ (USHORTS + NotFound) % USHORTS = USHORTS - 1
<1>1. USHORTS \in Nat /\ USHORTS >= 2
  BY DEF USHORTS
<1>2. ASSUME NEW n \in 0 .. USHORTS - 1
      PROVE  (USHORTS + n) % USHORTS = n
  <2> DEFINE a == USHORTS + n
             k == a \div USHORTS
             m == a % USHORTS
  <2>1. a \in Nat /\ a = USHORTS + n
    BY <1>1
  <2> HIDE DEF a
  <2>0. a \in Nat /\ USHORTS \in Nat \ {0}
    BY <1>1, <2>1
  <2>2. /\ k \in Nat /\ k * USHORTS <= a /\ a < k * USHORTS + USHORTS
        /\ m \in 0 .. USHORTS - 1 /\ a = k * USHORTS + m
    BY <2>0, Quotient
  <2>3. m = (USHORTS + n) % USHORTS
    BY <2>1
  <2> HIDE DEF k, m
  <2>4. k = 1
    <3>1. CASE k = 0
      BY <1>1, <2>1, <2>2, <3>1
    <3>2. CASE k >= 2
      <4>1. 2 * USHORTS <= k * USHORTS
        BY <1>1, <2>2, <3>2
      <4> QED
        BY <1>1, <2>1, <2>2, <4>1
    <3> QED
      BY <2>2, <3>1, <3>2
  <2> QED
    BY <1>1, <2>1, <2>2, <2>3, <2>4
<1>3. (USHORTS + NotFound) % USHORTS = USHORTS - 1
  <2> DEFINE a == USHORTS + NotFound
             k == a \div USHORTS
             m == a % USHORTS
  <2>1. a \in Nat /\ a = USHORTS - 1
    BY <1>1 DEF NotFound
  <2> HIDE DEF a
  <2>2. /\ k \in Nat /\ k * USHORTS <= a
        /\ m \in 0 .. USHORTS - 1 /\ a = k * USHORTS + m
    BY <1>1, <2>1, Quotient
  <2>3. m = (USHORTS + NotFound) % USHORTS
    BY DEF a
  <2> HIDE DEF k, m
  <2>4. k = 0
    <3>1. CASE k >= 1
      <4>1. USHORTS <= k * USHORTS
        BY <1>1, <2>2, <3>1
      <4> QED
        BY <1>1, <2>1, <2>2, <4>1
    <3> QED
      BY <2>2, <3>1
  <2> QED
    BY <1>1, <2>1, <2>2, <2>3, <2>4
<1> QED
  BY <1>1, <1>2, <1>3

(* A name in a directory. *)
LEMMA ElemIs ==
  ASSUME inode \in Tables, NEW n \in Numbers, n >= 2, NEW name, name # Dot
  PROVE  path_to_inum_elem(Listings, name, n) =
           IF SlotOf(inode[n].ents, name) = 0 THEN NotFound
           ELSE inode[n].ents[SlotOf(inode[n].ents, name)][2]
<1>1. (USHORTS + n) % USHORTS = n /\ ~ (n < 2)
  <2>1. n \in 0 .. USHORTS - 1
    BY NamespaceAssumption, AsUShort DEF Numbers
  <2> QED
    BY <2>1, AsUShort
<1>2. n \in DOMAIN Listings /\ Listings[n] = inode[n].ents
  BY DEF Listings, Tables
<1> QED
  BY <1>1, <1>2 DEF path_to_inum_elem, SlotOf

(* A name after one that was not found is not found. *)
LEMMA ElemOfNone ==
  ASSUME inode \in Tables, NEW name, name # Dot
  PROVE  path_to_inum_elem(Listings, name, NotFound) = NotFound
<1>1. (USHORTS + NotFound) % USHORTS = USHORTS - 1
  BY AsUShort
<1>2. USHORTS - 1 \notin DOMAIN Listings
  BY NamespaceAssumption, AsUShort DEF Listings, Tables, Numbers
<1>3. SelectInSeq(<<>>, LAMBDA e : e[1] = name) = 0
  BY DEF SelectInSeq
<1> QED
  BY <1>1, <1>2, <1>3 DEF path_to_inum_elem

LEMMA PathParts ==
  /\ \A a : Front(<<a>>) = <<>> /\ Last(<<a>>) = a /\ <<a>> # <<>>
  /\ \A a, b : Front(<<a, b>>) = <<a>> /\ Last(<<a, b>>) = b /\ <<a, b>> # <<>>
<1>1. ASSUME NEW a
      PROVE  Front(<<a>>) = <<>> /\ Last(<<a>>) = a /\ <<a>> # <<>>
  <2>1. <<a>> \in Seq({a}) /\ Len(<<a>>) = 1
    OBVIOUS
  <2>2. SubSeq(<<a>>, 1, 0) \in Seq({a}) /\ Len(SubSeq(<<a>>, 1, 0)) = 0
    BY <2>1, Cut
  <2>3. SubSeq(<<a>>, 1, 0) = <<>>
    BY <2>2
  <2> QED
    BY <2>1, <2>3 DEF Front, Last
<1>2. ASSUME NEW a, NEW b
      PROVE  Front(<<a, b>>) = <<a>> /\ Last(<<a, b>>) = b /\ <<a, b>> # <<>>
  <2> DEFINE s == <<a, b>>
  <2>1. s \in Seq({a, b}) /\ Len(s) = 2 /\ s[1] = a /\ s[2] = b
    OBVIOUS
  <2> HIDE DEF s
  <2>2. /\ SubSeq(s, 1, 1) \in Seq({a, b}) /\ Len(SubSeq(s, 1, 1)) = 1
        /\ SubSeq(s, 1, 1)[1] = a
    BY <2>1, Cut
  <2>3. SubSeq(s, 1, 1) = <<a>>
    <3> DEFINE c == SubSeq(s, 1, 1)
    <3>1. c \in Seq({a, b}) /\ Len(c) = 1 /\ c[1] = a
      BY <2>2
    <3> HIDE DEF c
    <3>2. c = [i \in 1 .. 1 |-> a]
      BY <3>1
    <3>3. <<a>> = [i \in 1 .. 1 |-> a]
      OBVIOUS
    <3> QED
      BY <3>2, <3>3 DEF c
  <2>4. Front(s) = <<a>> /\ Last(s) = b
    BY <2>1, <2>3 DEF Front, Last
  <2>5. s # <<>>
    BY <2>1
  <2> QED
    BY <2>4, <2>5 DEF s
<1> QED
  BY <1>1, <1>2

(* The entry of a name in a directory, or none. *)
Slot(n, name) == SlotOf(inode[n].ents, name)

LEMMA NameInDirectory ==
  ASSUME inode \in Tables, DirsGood(inode), NEW n \in Uppers(inode), NEW name \in Names
  PROVE  /\ Slot(n, name) = 0 => /\ path_to_inum_elem(Listings, name, n) = NotFound
                                 /\ \A i \in Slots(inode, n) : inode[n].ents[i][1] # name
         /\ Slot(n, name) # 0 =>
              /\ Slot(n, name) \in Slots(inode, n)
              /\ inode[n].ents[Slot(n, name)][1] = name
              /\ path_to_inum_elem(Listings, name, n) = Kid(inode, n, Slot(n, name))
              /\ Kid(inode, n, Slot(n, name)) \in Kids(inode, n)
              /\ Kid(inode, n, Slot(n, name)) \in 3 .. LAST
<1>1. n \in Numbers /\ n >= 2 /\ DirGood(inode, n) /\ name # Dot /\ name # DotDot
  BY Shape, UpperParts, NamespaceAssumption
<1> DEFINE es == inode[n].ents
           s == Slot(n, name)
<1>2. es \in Seq(Entries)
  BY <1>1, NodeParts
<1>3. /\ s \in 0 .. Len(es)
      /\ s = 0 => \A i \in 1 .. Len(es) : es[i][1] # name
      /\ s # 0 => es[s][1] = name
  BY <1>2, NameFound DEF Slot
<1>4. path_to_inum_elem(Listings, name, n) = IF s = 0 THEN NotFound ELSE es[s][2]
  BY <1>1, ElemIs DEF Slot
<1>5. /\ es[1][1] = Dot /\ es[2][1] = DotDot
  BY <1>1 DEF DirGood
<1>6. Slots(inode, n) = 3 .. Len(es) /\ Len(es) \in Nat
  BY <1>2 DEF Slots, Count
<1> HIDE DEF es, s
<1>7. CASE s = 0
  BY <1>3, <1>4, <1>6, <1>7 DEF s, es
<1>8. CASE s # 0
  <2>1. s # 1 /\ s # 2
    BY <1>1, <1>3, <1>5, <1>8
  <2>2. s \in Slots(inode, n)
    BY <1>3, <1>6, <1>8, <2>1
  <2>3. Kid(inode, n, s) = es[s][2]
    BY DEF Kid, es
  <2>4. Kid(inode, n, s) \in Kids(inode, n)
    BY <2>2 DEF Kids
  <2>5. Kid(inode, n, s) \in 3 .. LAST
    BY <2>4, UpperParts
  <2> QED
    BY <1>3, <1>4, <1>8, <2>2, <2>3, <2>4, <2>5 DEF s, es
<1> QED
  BY <1>7, <1>8 DEF s

(* What the kernel has looked up before a call. *)
LEMMA CallLooksUp ==
  ASSUME inode \in Tables, DirsGood(inode), NEW p \in UsedPaths, IsDir(Front(p))
  PROVE  /\ Parent(p) \in Uppers(inode) /\ path_basename(p) \in Names
         /\ Parent(p) = Inum(Front(p))
         /\ Inum(p) = path_to_inum_elem(Listings, path_basename(p), Parent(p))
<1>1. ROOT \in Uppers(inode)
  BY InReach
<1>2. ASSUME NEW a \in Names, p = <<a>>
      PROVE  /\ Parent(p) = ROOT /\ path_basename(p) = a /\ Inum(Front(p)) = ROOT
             /\ Inum(p) = path_to_inum_elem(Listings, a, ROOT)
  <2>1. Front(p) = <<>> /\ Last(p) = a /\ p # <<>>
    BY <1>2, PathParts
  <2>2. Walk(Listings, <<>>) = ROOT /\ Walk(Listings, p) = path_to_inum_elem(Listings, a, ROOT)
    BY <1>2, WalkNone, WalkOne
  <2> QED
    BY <2>1, <2>2 DEF Parent, Inum, path_to_inum, path_basename
<1>3. ASSUME NEW a \in Names, NEW b \in Names, p = <<a, b>>
      PROVE  /\ Parent(p) \in Uppers(inode) /\ path_basename(p) = b
             /\ Parent(p) = Inum(Front(p))
             /\ Inum(p) = path_to_inum_elem(Listings, b, Parent(p))
  <2> DEFINE d == path_to_inum_elem(Listings, a, ROOT)
  <2>1. Front(p) = <<a>> /\ Last(p) = b /\ p # <<>>
    BY <1>3, PathParts
  <2>2. Walk(Listings, <<a>>) = d /\ Walk(Listings, p) = path_to_inum_elem(Listings, b, d)
    BY <1>3, WalkOne, WalkTwo
  <2>3. Parent(p) = d /\ Inum(Front(p)) = d
    BY <2>1, <2>2 DEF Parent, Inum, path_to_inum
  <2>4. d # NotFound /\ inode[d].isdir = 1
    BY <2>3 DEF IsDir, Found, NotFound
  <2>5. d \in Kids(inode, ROOT)
    BY <1>1, <2>4, NameInDirectory
  <2>6. d \in Uppers(inode)
    BY <2>4, <2>5, InReach
  <2> QED
    BY <2>1, <2>2, <2>3, <2>6 DEF Inum, path_to_inum, path_basename
<1>4. p \in Top \/ p \in Deep
  BY DEF UsedPaths
<1>5. CASE p \in Top
  BY <1>1, <1>2, <1>5 DEF Top
<1>6. CASE p \in Deep
  BY <1>3, <1>6 DEF Deep
<1> QED
  BY <1>4, <1>5, <1>6

-----------------------------------------------------------------------------
(***************************************************************************)
(* The calls.                                                              *)
(***************************************************************************)
LEMMA FineParts ==
  ASSUME NEW r, Fine(r)
  PROVE  /\ r \in States /\ r.inode \in Tables /\ PagesFit(r.inode)
         /\ DirsGood(r.inode) /\ Owned(r.inode, Reach(r.inode), r.free)
         /\ Blank(r.inode, Reach(r.inode), r.free)
         /\ Reach(r.inode) \subseteq Numbers /\ 0 \notin Reach(r.inode)
         /\ r.free \subseteq 3 .. LAST /\ r.free \subseteq Numbers
<1>1. r \in States /\ PagesFit(r.inode) /\ DirsGood(r.inode)
      /\ Owned(r.inode, Reach(r.inode), r.free)
      /\ Blank(r.inode, Reach(r.inode), r.free)
  BY DEF Fine, Good
<1>2. Reach(r.inode) \subseteq Numbers /\ 0 \notin Reach(r.inode)
  BY <1>1, UpperParts, Shape
<1> QED
  BY <1>1, <1>2, StateParts, Shape

LEMMA FewPages == Pages(0) = 0 /\ Pages(2) = 0
BY Shape DEF Pages

LEMMA VoidFits == Len(Void.pages) = Pages(Len(Void.ents))
BY FewPages DEF Void

LEMMA PagesFitKept ==
  ASSUME NEW r, PagesFit(r.inode), NEW n \in Numbers, NEW q, Exchanges(r, n, q),
         Len(q.inode[n].pages) = Pages(Len(q.inode[n].ents))
  PROVE  PagesFit(q.inode)
<1>1. ASSUME NEW j \in Numbers
      PROVE  Len(q.inode[j].pages) = Pages(Len(q.inode[j].ents))
  <2>1. CASE j = n
    BY <2>1
  <2>2. CASE j # n
    <3>1. q.inode[j] \in {r.inode[j], Void}
      BY <2>2 DEF Exchanges
    <3>2. CASE q.inode[j] = Void
      BY <3>2, VoidFits
    <3>3. CASE q.inode[j] = r.inode[j]
      BY <3>3 DEF PagesFit
    <3> QED
      BY <3>1, <3>2, <3>3
  <2> QED
    BY <2>1, <2>2
<1> QED
  BY <1>1 DEF PagesFit

(* An error, as it is raised or collected. *)
WithErr(r, e) == [r EXCEPT !.err = e]

LEMMA ErrPut ==
  ASSUME NEW r \in States, NEW e \in {0, -ENOSPC}
  PROVE  /\ WithErr(r, e) \in States /\ WithErr(r, e).err = e
         /\ WithErr(r, e).inode = r.inode /\ WithErr(r, e).free = r.free
         /\ WithErr(r, e).super = r.super
<1>1. /\ r.inode \in Tables /\ r.free \in SUBSET (3 .. LAST)
      /\ r.super \in {"kept", "lost"}
  BY StateParts
<1>2. r = [inode |-> r.inode, free |-> r.free, err |-> r.err, super |-> r.super]
  BY DEF States
<1>3. WithErr(r, e) = [inode |-> r.inode, free |-> r.free, err |-> e, super |-> r.super]
  BY <1>2 DEF WithErr
<1> QED
  BY <1>1, <1>3, StateMade

LEMMA ErrFine ==
  ASSUME NEW r, Fine(r), NEW e \in {0, -ENOSPC}
  PROVE  Fine(WithErr(r, e))
BY ErrPut DEF Fine

LEMMA PopFine ==
  ASSUME NEW r, Fine(r)
  PROVE  Fine(Pop(r))
<1>1. /\ r \in States /\ Owned(r.inode, Reach(r.inode), r.free)
      /\ Blank(r.inode, Reach(r.inode), r.free)
  BY FineParts
<1>2. Pop(r) \in States /\ Pop(r).inode = r.inode /\ Pop(r).free \subseteq r.free
  BY <1>1, Popped
<1>3. /\ Owned(r.inode, Reach(r.inode), Pop(r).free)
      /\ Blank(r.inode, Reach(r.inode), Pop(r).free)
  BY <1>1, <1>2, OwnedLess, BlankLess
<1> QED
  BY <1>2, <1>3 DEF Fine, Good

(* An inode that nothing leads to is given back. *)
LEMMA PushFine ==
  ASSUME NEW r, Fine(r), NEW x \in PageNumbers, x \notin Reach(r.inode),
         \A m \in Reach(r.inode) : x \notin Own(r.inode, m)
  PROVE  Fine(Push(r, x))
<1> DEFINE q == Push(r, x)
           t == r.inode
           u == q.inode
           R == Reach(t)
<1>1. /\ r \in States /\ PagesFit(t) /\ DirsGood(t) /\ Owned(t, R, r.free)
      /\ R \subseteq Numbers /\ Blank(t, R, r.free) /\ t \in Tables /\ r.free \subseteq Numbers
  BY FineParts
<1>2. CASE x = 0
  BY <1>1, <1>2, Pushed
<1>3. CASE x # 0
  <2>1. /\ q \in States /\ q.free = r.free \cup {x}
        /\ \A j \in Numbers : j # x => u[j] = t[j]
        /\ u[x] = Void
    BY <1>1, <1>3, Pushed
  <2> HIDE DEF q, t, u, R
  <2>2. x \notin R /\ \A m \in R : x \notin Own(t, m)
    BY DEF R, t
  <2>3. \A m \in R : u[m] = t[m]
    BY <1>1, <2>1, <2>2
  <2>4. Owned(u, R, q.free)
    BY <1>1, <2>1, <2>2, <2>3, OwnedFreed, OwnedSame
  <2>5. DirsGood(u) /\ Reach(u) = R
    BY <1>1, <2>3, SameTree DEF R
  <2>6. PagesFit(u)
    BY <1>1, <2>1, VoidFits DEF PagesFit
  <2>7. Blank(u, R, q.free)
    BY <1>1, <2>1, <2>2, BlankSame
  <2> QED
    BY <2>1, <2>4, <2>5, <2>6, <2>7 DEF Fine, Good, u, q
<1> QED
  BY <1>2, <1>3

(* No inode is lost. *)
Kept(r, q) == Held(r, Reach(r.inode)) \subseteq Held(q, Reach(q.inode))

(* A file has other entries. *)
LEMMA WriteFine ==
  ASSUME NEW r, Fine(r), NEW x \in Reach(r.inode), r.inode[x].isdir = 0,
         NEW es \in Seq(Entries)
  PROVE  /\ Fine(listing_set(r, x, es)) /\ Alike(r.inode, listing_set(r, x, es).inode)
         /\ Kept(r, listing_set(r, x, es)) /\ Paged(r, x, listing_set(r, x, es))
<1> DEFINE q == listing_set(r, x, es)
           R == Reach(r.inode)
<1>1. /\ r \in States /\ PagesFit(r.inode) /\ DirsGood(r.inode)
      /\ Owned(r.inode, R, r.free) /\ Blank(r.inode, R, r.free)
      /\ R \subseteq Numbers /\ 0 \notin R /\ x \in Numbers
  BY FineParts
<1>2. Apart(r, x)
  BY <1>1, OwnedIsApart
<1>3. /\ Exchanges(r, x, q)
      /\ q.inode[x].ents = es /\ q.inode[x].isdir = r.inode[x].isdir
      /\ q.inode[x].nlink = r.inode[x].nlink /\ q.inode[x].pno = r.inode[x].pno
      /\ Len(q.inode[x].pages) = Pages(Len(es))
  BY <1>1, <1>2, SetExchanges
<1>10. Paged(r, x, q)
  BY <1>1, <1>2, SetPaged
<1> HIDE DEF q
<1>4. Owned(q.inode, R, q.free) /\ \A m \in R : m # x => q.inode[m] = r.inode[m]
  BY <1>1, <1>3, OwnedKept
<1>11. Blank(q.inode, R, q.free)
  BY <1>1, <1>3, BlankKept
<1>8. Alike(r.inode, q.inode)
  BY <1>3, <1>4 DEF Alike
<1>5. DirsGood(q.inode) /\ Reach(q.inode) = R
  <2> DEFINE t == r.inode
             u == q.inode
  <2>1. ASSUME NEW m \in R
        PROVE  /\ u[m].isdir = t[m].isdir /\ u[m].pno = t[m].pno
               /\ t[m].isdir = 1 => u[m].ents = t[m].ents /\ u[m].nlink = t[m].nlink
    BY <1>8 DEF Alike
  <2>2. DirsGood(t) /\ R = Reach(t)
    BY <1>1
  <2> HIDE DEF t, u, R
  <2>3. DirsGood(u) /\ Reach(u) = R
    BY <2>1, <2>2, SameTree
  <2> QED
    BY <2>3 DEF u
<1>6. PagesFit(q.inode)
  BY <1>1, <1>3, PagesFitKept
<1>7. q \in States
  BY <1>3 DEF Exchanges
<1>9. Kept(r, q)
  <2>1. Held(q, R) = Held(r, R)
    BY <1>3, <1>4, HeldKept
  <2> QED
    BY <1>5, <2>1 DEF Kept
<1> QED
  BY <1>4, <1>5, <1>6, <1>7, <1>8, <1>9, <1>10, <1>11 DEF Fine, Good, q

(* What a call that removes the entry i of n makes of r. *)
Removes(r, w, n, i) == Fine(w) /\ Removed(r.inode, w.inode, n, i)

(* The inodes of Q that are no more in the tree are lost, with their pages. *)
Sheds(t, Q, q, w) ==
  \A j \in Held(q, Q) : j \in Held(w, Reach(w.inode)) \/ j \in Uses(t, Q \ Reach(w.inode))

(* An entry is removed, of an inode x that nothing else leads to. *)
LEMMA RemoveFine ==
  ASSUME NEW r, Fine(r), NEW n \in Uppers(r.inode), NEW name \in Names, NEW i,
         i = SlotOf(r.inode[n].ents, name), i \in Slots(r.inode, n), NEW x,
         x = Kid(r.inode, n, i), NEW q \in States, PagesFit(q.inode),
         Owned(q.inode, Reach(r.inode) \ {x}, q.free),
         Blank(q.inode, Reach(r.inode) \ {x}, q.free),
         \A m \in Reach(r.inode) : m # x => q.inode[m] = r.inode[m]
  PROVE  /\ Removes(r, dnode_remove(q, n, name), n, i)
         /\ dnode_remove(q, n, name).super = q.super
         /\ Sheds(r.inode, Reach(r.inode) \ {x}, q, dnode_remove(q, n, name))
<1> DEFINE w == dnode_remove(q, n, name)
           t == r.inode
           R == Reach(t)
           Q == R \ {x}
<1>1. /\ t \in Tables /\ DirsGood(t) /\ R \subseteq Numbers /\ 0 \notin R
      /\ Q \subseteq Numbers /\ 0 \notin Q
  BY FineParts
<1>2. n \in R /\ DirGood(t, n) /\ t[n].isdir = 1 /\ n \in Numbers
  BY <1>1, UpperParts
<1>3. x # n
  <2>1. x \in Kids(t, n)
    BY DEF Kids
  <2>2. t[x].pno = n /\ x # ROOT
    BY <1>1, <2>1, UpperParts, Shape
  <2>3. n # ROOT => t[n].pno = ROOT
    BY <1>1, UpperParts, InReach
  <2> QED
    BY <2>2, <2>3
<1>4. n \in Q /\ q.inode[n] = t[n]
  BY <1>2, <1>3
<1> HIDE DEF w, t
<1>5. Apart(q, n)
  <2>1. Owned(q.inode, Q, q.free)
    BY DEF t
  <2> HIDE DEF Q
  <2> QED
    BY <1>1, <1>4, <2>1, OwnedIsApart
<1>6. i # 0 /\ t[n].nlink # 0 /\ i = SlotOf(t[n].ents, name) /\ i \in Slots(t, n)
  <2>1. Count(t, n) \in Nat /\ Count(t, n) >= 2 /\ t[n].nlink = Count(t, n)
    BY <1>1, <1>2, NodeParts DEF DirGood, Count
  <2> QED
    BY <2>1 DEF t, Slots
<1>7. /\ Exchanges(q, n, w)
      /\ w.inode[n].ents = Swapped(t[n].ents, i)
      /\ w.inode[n].isdir = t[n].isdir
      /\ w.inode[n].nlink = t[n].nlink - 1 /\ w.inode[n].pno = t[n].pno
      /\ Len(w.inode[n].pages) = Pages(Len(w.inode[n].ents))
  BY <1>2, <1>4, <1>5, <1>6, RemoveExchanges DEF w
<1>15. w.super = q.super
  <2>1. Paged(q, n, w)
    BY <1>2, <1>4, <1>5, <1>6, RemovePaged DEF w
  <2> DEFINE es == t[n].ents
  <2>2. es \in Seq(Entries) /\ i \in 1 .. Len(es) /\ Len(q.inode[n].pages) = Pages(Len(es))
    <3>1. es \in Seq(Entries)
      BY <1>1, <1>2, NodeParts
    <3> HIDE DEF es
    <3>2. Len(q.inode[n].pages) = Pages(Len(es))
      BY <1>2, <1>4 DEF PagesFit, es
    <3>3. i \in 3 .. Len(es)
      BY <1>6 DEF Slots, Count, es
    <3> QED
      BY <3>1, <3>2, <3>3
  <2>3. Len(w.inode[n].pages) = Pages(Len(Swapped(es, i)))
    BY <1>7
  <2> HIDE DEF es
  <2>4. Len(Swapped(es, i)) = Len(es) - 1
    BY <2>2, SwappedIs
  <2> DEFINE k == Len(es) - 1
  <2>5. k \in Nat /\ k + 1 = Len(es)
    BY <2>2
  <2>6. Len(w.inode[n].pages) = Pages(k) /\ Len(q.inode[n].pages) = Pages(k + 1)
    BY <2>2, <2>3, <2>4, <2>5
  <2> HIDE DEF k
  <2>7. Pages(k) <= Pages(k + 1)
    BY <2>5, PagesStep
  <2> QED
    BY <2>1, <2>6, <2>7 DEF Paged
<1>8. Owned(w.inode, Q, w.free) /\ \A m \in Q : m # n => w.inode[m] = q.inode[m]
  <2>1. Owned(q.inode, Q, q.free)
    BY DEF t
  <2> HIDE DEF Q
  <2> QED
    BY <1>1, <1>4, <1>7, <2>1, OwnedKept
<1>9. Removed(t, w.inode, n, i)
  <2>1. \A m \in R : m # n /\ m # x => w.inode[m] = t[m]
    BY <1>8 DEF t
  <2>2. x = Kid(t, n, i)
    BY DEF t
  <2> QED
    BY <1>2, <1>7, <2>1, <2>2 DEF Removed
<1>10. DirsGood(w.inode) /\ Reach(w.inode) \subseteq Q /\ n \in Reach(w.inode)
  <2>1. n \in Uppers(t) /\ x = Kid(t, n, i)
    BY DEF t
  <2> QED
    BY <1>1, <1>6, <1>9, <2>1, RemovedTree
<1>11. Owned(w.inode, Reach(w.inode), w.free) /\ Blank(w.inode, Reach(w.inode), w.free)
  <2>1. Owned(q.inode, Q, q.free) /\ Blank(q.inode, Q, q.free)
    BY DEF t
  <2> HIDE DEF Q
  <2>2. Blank(w.inode, Q, w.free)
    BY <1>1, <1>4, <1>7, <2>1, BlankKept
  <2> QED
    BY <1>8, <1>10, <2>2, OwnedLess, BlankLess
<1>12. PagesFit(w.inode)
  BY <1>2, <1>7, PagesFitKept
<1>13. w \in States
  BY <1>7 DEF Exchanges
<1>14. Sheds(t, Q, q, w)
  <2>1. Held(w, Q) = Held(q, Q)
    BY <1>4, <1>7, <1>8, HeldKept
  <2>2. ASSUME NEW m \in Q \ Reach(w.inode)
        PROVE  Own(w.inode, m) = Own(t, m)
    <3>1. w.inode[m] = t[m]
      BY <1>8, <1>10, <2>2 DEF t
    <3> QED
      BY <3>1 DEF Own
  <2> HIDE DEF Q
  <2>3. ASSUME NEW j \in Held(q, Q), j \notin Held(w, Reach(w.inode))
        PROVE  j \in Uses(t, Q \ Reach(w.inode))
    <3>1. j \in Q \/ \E m \in Q : j \in Own(w.inode, m)
      BY <2>1, <2>3, UsesParts DEF Held
    <3>2. j \notin Reach(w.inode) /\ \A m \in Reach(w.inode) : j \notin Own(w.inode, m)
      BY <2>3, UsesParts DEF Held
    <3> QED
      BY <2>2, <3>1, <3>2, UsesParts
  <2> QED
    BY <2>3 DEF Sheds
<1> QED
  BY <1>9, <1>10, <1>11, <1>12, <1>13, <1>14, <1>15 DEF Removes, Fine, Good, w, t

LEMMA Forgot ==
  ASSUME NEW r \in States, NEW x \in Numbers
  PROVE  /\ Forget(r, x) \in States /\ Forget(r, x).free = r.free
         /\ Forget(r, x).err = r.err /\ Forget(r, x).super = r.super
         /\ Forget(r, x).inode[x] = Void
         /\ \A j \in Numbers : j # x => Forget(r, x).inode[j] = r.inode[j]
<1>1. r = [inode |-> r.inode, free |-> r.free, err |-> r.err, super |-> r.super]
  BY DEF States
<1>2. Forget(r, x) = WithNode(r, x, Void)
  BY <1>1 DEF Forget, WithNode
<1> QED
  BY <1>2, VoidIsNode, NodePut

(* What sfs_unlink and sfs_rmdir make of r. *)
Unlinks(r, x, n, name) == dnode_remove(Push(listing_set(r, x, <<>>), x), n, name)
Rmdirs(r, x, n, name) == dnode_remove(Forget(listing_set(r, x, <<>>), x), n, name)

(* The inode x may be lost, and those that only it led to. *)
Loses(r, w, x) ==
  \A j \in Held(r, Reach(r.inode)) :
    \/ j = x \/ j \in Held(w, Reach(w.inode))
    \/ j \in Uses(r.inode, (Reach(r.inode) \ {x}) \ Reach(w.inode))

(* An entry and the inode it is of: its entries first. *)
LEMMA TakenFine ==
  ASSUME NEW r, Fine(r), NEW n \in Uppers(r.inode), NEW name \in Names, NEW i,
         i = SlotOf(r.inode[n].ents, name), i \in Slots(r.inode, n), NEW x,
         x = Kid(r.inode, n, i)
  PROVE  /\ \A w \in {Unlinks(r, x, n, name), Rmdirs(r, x, n, name)} :
              Removes(r, w, n, i) /\ Loses(r, w, x) /\ w.super = r.super
         /\ x \in Held(Unlinks(r, x, n, name), Reach(Unlinks(r, x, n, name).inode))
<1> DEFINE q == listing_set(r, x, <<>>)
           t == r.inode
           R == Reach(t)
           Q == R \ {x}
<1>1. /\ r \in States /\ PagesFit(t) /\ DirsGood(t) /\ Owned(t, R, r.free)
      /\ R \subseteq Numbers /\ 0 \notin R /\ Blank(t, R, r.free)
  BY FineParts
<1>2. x \in R /\ x \in 3 .. LAST /\ x \in Numbers /\ x \in PageNumbers /\ x # 0
  <2>1. x \in Kids(t, n)
    BY DEF Kids
  <2> QED
    BY <1>1, <2>1, UpperParts, Shape DEF PageNumbers
<1>3. Apart(r, x)
  BY <1>1, <1>2, OwnedIsApart
<1>4. Exchanges(r, x, q) /\ Len(q.inode[x].pages) = Pages(Len(q.inode[x].ents))
      /\ Len(q.inode[x].pages) = 0 /\ q.super = r.super
  <2> DEFINE none == <<>>
  <2>1. none \in Seq(Entries) /\ q = listing_set(r, x, none)
    OBVIOUS
  <2> HIDE DEF none, q
  <2>2. Exchanges(r, x, q) /\ q.inode[x].ents = none /\ Len(q.inode[x].pages) = Pages(Len(none))
    BY <1>1, <1>2, <1>3, <2>1, SetExchanges
  <2>3. Len(none) = 0
    BY DEF none
  <2>4. Len(q.inode[x].pages) = 0
    BY <2>2, <2>3, FewPages
  <2>5. q.super = r.super
    <3>1. Paged(r, x, q)
      BY <1>1, <1>2, <1>3, <2>1, SetPaged
    <3>2. Len(r.inode[x].pages) \in Nat
      <4>1. r.inode[x].pages \in Seq(PageNumbers)
        BY <1>1, <1>2, StateParts, NodeParts
      <4> QED
        BY <4>1
    <3> QED
      BY <2>4, <3>1, <3>2 DEF Paged
  <2> QED
    BY <2>2, <2>3, <2>4, <2>5
<1> HIDE DEF q
<1>5. Owned(q.inode, R, q.free) /\ \A m \in R : m # x => q.inode[m] = t[m]
  <2>1. /\ r \in States /\ R \in SUBSET Numbers /\ 0 \notin R /\ x \in R
        /\ Owned(r.inode, R, r.free) /\ Exchanges(r, x, q)
    BY <1>1, <1>2, <1>4
  <2> HIDE DEF R, t
  <2>2. Owned(q.inode, R, q.free) /\ \A m \in R : m # x => q.inode[m] = r.inode[m]
    BY <2>1, OwnedKept
  <2> QED
    BY <2>2 DEF t
<1>6. PagesFit(q.inode) /\ q \in States
  <2>1. PagesFit(q.inode)
    BY <1>1, <1>2, <1>4, PagesFitKept
  <2> QED
    BY <1>4, <2>1 DEF Exchanges
<1>13. Blank(q.inode, R, q.free)
  <2>1. /\ r \in States /\ R \in SUBSET Numbers /\ 0 \notin R /\ x \in R
        /\ Owned(r.inode, R, r.free) /\ Blank(r.inode, R, r.free) /\ Exchanges(r, x, q)
    BY <1>1, <1>2, <1>4
  <2> HIDE DEF R, t
  <2> QED
    BY <2>1, BlankKept
<1>7. Own(q.inode, x) = {} /\ Held(q, R) = Held(r, R)
  <2>1. Own(q.inode, x) = {}
    BY <1>4 DEF Own
  <2>2. Held(q, R) = Held(r, R)
    BY <1>2, <1>4, <1>5, HeldKept
  <2> QED
    BY <2>1, <2>2
<1>8. \A m \in R : x \notin Own(t, m) /\ x \notin Own(q.inode, m)
  BY <1>1, <1>2, <1>5 DEF Owned
<1>9. ASSUME NEW w \in States, w.inode[x] = Void, w.super = q.super,
             q.free \subseteq w.free, w.free \subseteq q.free \cup {x},
             \A j \in Numbers : j # x => w.inode[j] = q.inode[j]
      PROVE  /\ Removes(r, dnode_remove(w, n, name), n, i)
             /\ Loses(r, dnode_remove(w, n, name), x)
             /\ dnode_remove(w, n, name).super = r.super
             /\ x \in w.free => x \in Held(dnode_remove(w, n, name),
                                           Reach(dnode_remove(w, n, name).inode))
  <2> DEFINE v == dnode_remove(w, n, name)
  <2>1. \A m \in R : m # x => w.inode[m] = t[m]
    BY <1>1, <1>5, <1>9
  <2>2. PagesFit(w.inode)
    BY <1>6, <1>9, VoidFits DEF PagesFit
  <2>3. Owned(q.inode, Q, q.free)
    BY <1>5, OwnedLess
  <2>4. x \notin Q /\ \A m \in Q : x \notin Own(q.inode, m)
    BY <1>8
  <2>5. \A m \in Q : w.inode[m] = q.inode[m]
    BY <1>1, <1>9
  <2>6. Owned(w.inode, Q, w.free)
    <3> HIDE DEF Q
    <3>1. Owned(q.inode, Q, q.free \cup {x})
      BY <2>3, <2>4, OwnedFreed
    <3>2. Owned(q.inode, Q, w.free)
      BY <1>9, <3>1, OwnedLess
    <3> QED
      BY <2>5, <3>2, OwnedSame
  <2>13. Blank(w.inode, Q, w.free)
    <3>1. Blank(q.inode, Q, q.free)
      BY <1>13, BlankLess
    <3>2. Q \in SUBSET Numbers /\ x \notin Q /\ q.inode \in Tables /\ q.free \in SUBSET Numbers
      BY <1>1, <1>6, StateParts, Shape
    <3> HIDE DEF Q
    <3> QED
      BY <1>9, <3>1, <3>2, BlankSame
  <2>7. /\ Removes(r, v, n, i) /\ Sheds(r.inode, Reach(r.inode) \ {x}, w, v)
        /\ v.super = w.super
    <3>1. /\ Owned(w.inode, Reach(r.inode) \ {x}, w.free)
          /\ Blank(w.inode, Reach(r.inode) \ {x}, w.free)
      BY <2>6, <2>13
    <3>2. \A m \in Reach(r.inode) : m # x => w.inode[m] = r.inode[m]
      BY <2>1
    <3> HIDE DEF t, R, Q
    <3> QED
      BY <2>2, <3>1, <3>2, RemoveFine
  <2> HIDE DEF v
  <2>8. \A j \in Held(w, Q) : j \in Held(v, Reach(v.inode)) \/ j \in Uses(t, Q \ Reach(v.inode))
    BY <2>7 DEF Sheds
  <2>9. \A j \in Held(q, R) : j = x \/ j \in Held(w, Q)
    <3>1. \A m \in Q : Own(w.inode, m) = Own(q.inode, m)
      BY <2>5 DEF Own
    <3>2. \A m \in R : m = x \/ m \in Q
      OBVIOUS
    <3> HIDE DEF R, Q
    <3> QED
      BY <1>7, <1>9, <3>1, <3>2, UsesParts DEF Held
  <2>10. Loses(r, v, x)
    BY <1>7, <2>8, <2>9 DEF Loses
  <2>11. x \notin Uses(t, Q \ Reach(v.inode))
    BY <1>8, UsesParts
  <2>12. x \in w.free => x \in Held(v, Reach(v.inode))
    BY <2>8, <2>11 DEF Held
  <2> QED
    BY <1>4, <1>9, <2>7, <2>10, <2>12 DEF v
<1>10. ASSUME NEW w, w = Push(q, x)
       PROVE  /\ Removes(r, dnode_remove(w, n, name), n, i)
              /\ Loses(r, dnode_remove(w, n, name), x)
              /\ dnode_remove(w, n, name).super = r.super
              /\ x \in Held(dnode_remove(w, n, name), Reach(dnode_remove(w, n, name).inode))
  <2>1. /\ w \in States /\ w.inode[x] = Void /\ w.free = q.free \cup {x} /\ w.super = q.super
        /\ \A j \in Numbers : j # x => w.inode[j] = q.inode[j]
    BY <1>2, <1>6, <1>10, Pushed
  <2>2. q.free \subseteq w.free /\ w.free \subseteq q.free \cup {x} /\ x \in w.free
    BY <2>1
  <2> QED
    BY <1>9, <2>1, <2>2
<1>11. ASSUME NEW w, w = Forget(q, x)
       PROVE  /\ Removes(r, dnode_remove(w, n, name), n, i)
              /\ Loses(r, dnode_remove(w, n, name), x)
              /\ dnode_remove(w, n, name).super = r.super
  <2>1. /\ w \in States /\ w.inode[x] = Void /\ w.free = q.free /\ w.super = q.super
        /\ \A j \in Numbers : j # x => w.inode[j] = q.inode[j]
    BY <1>2, <1>6, <1>11, Forgot
  <2>2. q.free \subseteq w.free /\ w.free \subseteq q.free \cup {x}
    BY <2>1
  <2> QED
    BY <1>9, <2>1, <2>2
<1>12. /\ Unlinks(r, x, n, name) = dnode_remove(Push(q, x), n, name)
       /\ Rmdirs(r, x, n, name) = dnode_remove(Forget(q, x), n, name)
  BY DEF Unlinks, Rmdirs, q
<1> QED
  BY <1>10, <1>11, <1>12

(* Removing what has just been appended leaves the entries as they were. *)
LEMMA SwappedBack ==
  ASSUME NEW es \in Seq(Entries), NEW e \in Entries, NEW name, e[1] = name,
         \A i \in 1 .. Len(es) : es[i][1] # name
  PROVE  /\ SlotOf(Append(es, e), name) = Len(es) + 1
         /\ Swapped(Append(es, e), Len(es) + 1) = es
<1> DEFINE as == Append(es, e)
           k == Len(es) + 1
<1>1. /\ as \in Seq(Entries) /\ Len(as) = k /\ k \in 1 .. Len(as) /\ Len(es) \in Nat
      /\ as[k] = e /\ \A i \in 1 .. Len(es) : as[i] = es[i]
  OBVIOUS
<1> HIDE DEF as
<1>2. /\ SlotOf(as, name) \in 0 .. Len(as)
      /\ SlotOf(as, name) = 0 => \A i \in 1 .. Len(as) : as[i][1] # name
      /\ SlotOf(as, name) # 0 => as[SlotOf(as, name)][1] = name
  BY <1>1, NameFound
<1>3. SlotOf(as, name) = k
  <2> DEFINE s == SlotOf(as, name)
  <2> HIDE DEF s
  <2>0. /\ s \in 0 .. Len(as)
        /\ s = 0 => \A i \in 1 .. Len(as) : as[i][1] # name
        /\ s # 0 => as[s][1] = name
    BY <1>2 DEF s
  <2>1. s # 0
    BY <1>1, <2>0
  <2>2. s \in 1 .. Len(es) + 1 /\ as[s][1] = name
    <3>1. s \in 0 .. Len(es) + 1
      BY <1>1, <2>0
    <3>2. Len(es) \in Nat
      BY <1>1
    <3>3. s \in 1 .. Len(es) + 1
      BY <2>1, <3>1, <3>2
    <3>4. as[s][1] = name
      BY <2>0, <2>1
    <3> QED
      BY <3>3, <3>4
  <2>3. s \notin 1 .. Len(es)
    BY <1>1, <2>2
  <2>4. s = k
    BY <1>1, <2>2, <2>3
  <2> QED
    BY <2>4 DEF s
<1>4. Swapped(as, k) = es
  <2> DEFINE z == Swapped(as, k)
  <2>1. /\ z \in Seq(Entries) /\ Len(z) = Len(as) - 1
        /\ \A l \in 1 .. Len(as) - 1 : z[l] = IF l = k THEN as[Len(as)] ELSE as[l]
    <3>1. as \in Seq(Entries)
      BY <1>1
    <3>2. k \in 1 .. Len(as)
      BY <1>1
    <3> HIDE DEF k
    <3> QED
      BY <3>1, <3>2, SwappedIs
  <2> HIDE DEF z
  <2>2. Len(z) = Len(es)
    BY <1>1, <2>1
  <2>3. ASSUME NEW l \in 1 .. Len(es)
        PROVE  z[l] = es[l]
    <3>1. l \in 1 .. Len(as) - 1 /\ l # k
      BY <1>1
    <3>2. z[l] = as[l]
      BY <2>1, <3>1
    <3> QED
      BY <1>1, <3>2
  <2>4. z = es
    BY <2>1, <2>2, <2>3
  <2> QED
    BY <2>4 DEF z
<1> QED
  BY <1>3, <1>4 DEF as

(* An inode for a new file, or a new directory. *)
NewNode(node, i, n) ==
  /\ node \in Node /\ node.pno = n /\ node.pages = <<>>
  /\ \/ node.isdir = 0 /\ node.ents = <<>>
     \/ node.isdir = 1 /\ node.nlink = 2 /\ node.ents = <<<<Dot, i>>, <<DotDot, n>>>>

LEMMA NewNodeGood ==
  ASSUME NEW t, NEW i, NEW n, NewNode(t[i], i, n)
  PROVE  /\ Len(t[i].pages) = Pages(Len(t[i].ents))
         /\ t[i].isdir = 1 => DirGood(t, i) /\ Count(t, i) = 2
<1>1. CASE t[i].isdir = 0
  BY <1>1, FewPages DEF NewNode
<1>2. CASE t[i].isdir # 0
  <2>0. t[i].ents = <<<<Dot, i>>, <<DotDot, n>>>>
    BY <1>2 DEF NewNode
  <2>1. Count(t, i) = 2 /\ Slots(t, i) = {}
    BY <2>0 DEF Count, Slots
  <2>2. DirGood(t, i)
    BY <1>2, <2>1 DEF NewNode, DirGood
  <2> QED
    BY <1>2, <2>1, <2>2, FewPages DEF NewNode, Count
<1> QED
  BY <1>1, <1>2

LEMMA NoSlot ==
  ASSUME NEW t \in Tables, NEW n \in Numbers, DirGood(t, n), NEW name \in Names,
         \A i \in Slots(t, n) : t[n].ents[i][1] # name
  PROVE  \A i \in 1 .. Len(t[n].ents) : t[n].ents[i][1] # name
<1>1. t[n].ents[1][1] = Dot /\ t[n].ents[2][1] = DotDot /\ name # Dot /\ name # DotDot
  BY NamespaceAssumption DEF DirGood
<1>2. t[n].ents \in Seq(Entries)
  BY NodeParts
<1>3. \A i \in 1 .. Len(t[n].ents) : i = 1 \/ i = 2 \/ i \in Slots(t, n)
  BY <1>2 DEF Slots, Count
<1> QED
  BY <1>1, <1>3

(* What sfs_create and sfs_mkdir make of a state, before they look whether *)
(* there was an error.                                                     *)
Made(r, n, name, node) ==
  dnode_append(Dumped(Pop(r), PoppedInode(r), node), n, <<name, PoppedInode(r)>>)

Makes(t, n, name, i, node, q) ==
  /\ i \in PageNumbers /\ i \notin Reach(t)
  /\ \A m \in Reach(t) : i \notin Own(q.inode, m)
  /\ i \notin q.free
  /\ q.err = 0 => i # 0
  /\ q \in States /\ PagesFit(q.inode) /\ Owned(q.inode, Reach(t), q.free)
  /\ q.inode[n].ents = Append(t[n].ents, <<name, i>>)
  /\ q.inode[n].nlink = t[n].nlink + 1
  /\ q.inode[n].isdir = t[n].isdir /\ q.inode[n].pno = t[n].pno
  /\ \A m \in Reach(t) : m # n => q.inode[m] = t[m]
  /\ i # 0 => q.inode[i] = node

(* And what it leaves as it was. The superblock is written over when there *)
(* is at most one free inode, and with an error.                           *)
Spares(r, n, i, q) ==
  /\ i = 0 \/ i \in r.free
  /\ \A j \in Numbers : j # n /\ (j # i \/ i = 0) => q.inode[j] = r.inode[j]
  /\ q.free \cup Own(q.inode, n) = (r.free \ {i}) \cup Own(r.inode, n)
  /\ Blank(q.inode, Reach(r.inode), q.free)
  /\ \A k \in 1 .. Len(r.inode[n].pages) : q.inode[n].pages[k] = r.inode[n].pages[k]
  /\ q.super = r.super \/ (q.super = "lost" /\ q.err # 0 /\ r.free \subseteq {i})

LEMMA MadeIs ==
  ASSUME NEW r, Fine(r), NEW n \in Uppers(r.inode), NEW name \in Names, NEW i,
         i = PoppedInode(r), NEW node, NewNode(node, i, n), NEW q, q = Made(r, n, name, node)
  PROVE  /\ Makes(r.inode, n, name, i, node, q) /\ Spares(r, n, i, q)
         /\ Held(r, Reach(r.inode)) \subseteq Held(q, Reach(r.inode)) \cup {i}
<1> DEFINE t == r.inode
           R == Reach(t)
           v == Pop(r)
           w == Dumped(v, i, node)
           e == <<name, i>>
<1>1. /\ r \in States /\ t \in Tables /\ PagesFit(t) /\ DirsGood(t) /\ Owned(t, R, r.free)
      /\ R \subseteq Numbers /\ 0 \notin R /\ r.free \subseteq 3 .. LAST
      /\ Blank(t, R, r.free) /\ r.free \subseteq Numbers
  BY FineParts
<1>2. n \in R /\ n \in Numbers
  BY <1>1, UpperParts
<1>3. /\ v \in States /\ v.inode = t /\ v.super = r.super
      /\ r.free = {} => i = 0 /\ v.free = {} /\ v.err = -ENOSPC
      /\ r.free # {} => i \in r.free /\ v.free = r.free \ {i} /\ v.err = r.err
  BY <1>1, Popped
<1> HIDE DEF v
<1>4. /\ i \in PageNumbers /\ i \in Numbers /\ (i = 0 \/ i \in r.free)
      /\ v.free = r.free \ {i}
  BY <1>1, <1>3, Shape DEF PageNumbers
<1>5. i \notin R
  BY <1>1, <1>4 DEF Owned
<1>6. /\ w \in States /\ w.err = v.err /\ w.free = v.free
      /\ \A j \in Numbers : j # i => w.inode[j] = t[j]
      /\ i # 0 => w.inode[i] = node
      /\ i = 0 => w.inode = t
      /\ w.super = IF i = 0 THEN "lost" ELSE r.super
  <2>1. node \in Node
    BY DEF NewNode
  <2> QED
    BY <1>3, <1>4, <2>1, DumpedIs
<1> HIDE DEF w
<1>7. \A m \in R : w.inode[m] = t[m]
  BY <1>1, <1>5, <1>6
<1>8. Owned(w.inode, R, w.free)
  <2>1. Owned(t, R, w.free)
    BY <1>1, <1>4, <1>6, OwnedLess
  <2> HIDE DEF t, R
  <2> QED
    BY <1>7, <2>1, OwnedSame
<1>9. PagesFit(w.inode)
  <2>1. CASE i = 0
    BY <1>1, <1>6, <2>1
  <2>2. CASE i # 0
    <3>1. w.inode[i] = node
      BY <1>6, <2>2
    <3>2. Len(w.inode[i].pages) = Pages(Len(w.inode[i].ents))
      BY <3>1, NewNodeGood
    <3> QED
      BY <1>1, <1>6, <3>2 DEF PagesFit
  <2> QED
    BY <2>1, <2>2
<1>10. Apart(w, n)
  BY <1>1, <1>2, <1>6, <1>8, OwnedIsApart
<1>11. e \in Entries
  BY <1>4 DEF Entries
<1>12. /\ Exchanges(w, n, q)
       /\ q.inode[n].ents = Append(w.inode[n].ents, e)
       /\ q.inode[n].isdir = w.inode[n].isdir
       /\ q.inode[n].nlink = w.inode[n].nlink + 1 /\ q.inode[n].pno = w.inode[n].pno
       /\ Len(q.inode[n].pages) = Pages(Len(q.inode[n].ents))
       /\ Paged(w, n, q)
  <2>1. q = dnode_append(w, n, e)
    BY DEF Made, v, w
  <2> HIDE DEF e
  <2> QED
    BY <1>2, <1>6, <1>10, <1>11, <2>1, AppendExchanges, AppendPaged
<1>13. Owned(q.inode, R, q.free) /\ \A m \in R : m # n => q.inode[m] = w.inode[m]
  <2>1. /\ w \in States /\ R \in SUBSET Numbers /\ 0 \notin R /\ n \in R
        /\ Owned(w.inode, R, w.free) /\ Exchanges(w, n, q)
    BY <1>1, <1>2, <1>6, <1>8, <1>12
  <2> HIDE DEF R, t
  <2> QED
    BY <2>1, OwnedKept
<1>14. q.free \cup Own(q.inode, n) = w.free \cup Own(w.inode, n)
  BY <1>12 DEF Exchanges
<1>15. \A m \in R : Own(w.inode, m) = Own(t, m) /\ i \notin Own(t, m)
  <2>1. \A m \in R : Own(w.inode, m) = Own(t, m)
    BY <1>7 DEF Own
  <2>2. \A m \in R : i \notin Own(t, m)
    <3>1. CASE i = 0
      BY <3>1 DEF Own
    <3>2. CASE i \in r.free
      BY <1>1, <3>2 DEF Owned
    <3> QED
      BY <1>4, <3>1, <3>2
  <2> QED
    BY <2>1, <2>2
<1>16. i \notin w.free \cup Own(w.inode, n)
  BY <1>2, <1>4, <1>6, <1>15
<1>17. \A m \in R : i \notin Own(q.inode, m)
  <2>1. \A m \in R : m # n => Own(q.inode, m) = Own(w.inode, m)
    BY <1>13 DEF Own
  <2> QED
    BY <1>14, <1>15, <1>16, <2>1
<1>18. q.err = 0 => i # 0
  <2>1. q.err = 0 => w.err = 0
    BY <1>12 DEF Exchanges
  <2>2. -ENOSPC # 0
    BY DEF ENOSPC
  <2>3. r.free # {} => i # 0
    BY <1>1, <1>3
  <2> QED
    BY <1>3, <1>6, <2>1, <2>2, <2>3
<1>19. PagesFit(q.inode) /\ q \in States
  <2>1. PagesFit(q.inode)
    BY <1>2, <1>9, <1>12, PagesFitKept
  <2> QED
    BY <1>12, <2>1 DEF Exchanges
<1>20. i # 0 => q.inode[i] = node
  <2>1. i # n
    BY <1>2, <1>5
  <2>2. q.inode[i] = w.inode[i]
    BY <1>4, <1>12, <1>16, <2>1 DEF Exchanges
  <2> QED
    BY <1>6, <2>2
<1>21. /\ q.inode[n].ents = Append(t[n].ents, <<name, i>>)
       /\ q.inode[n].nlink = t[n].nlink + 1
       /\ q.inode[n].isdir = t[n].isdir /\ q.inode[n].pno = t[n].pno
  BY <1>2, <1>7, <1>12
<1>22. \A m \in R : m # n => q.inode[m] = t[m]
  BY <1>7, <1>13
<1>23. i \notin q.free
  BY <1>14, <1>16
<1>24. Held(r, R) \subseteq Held(q, R) \cup {i}
  <2>1. Held(q, R) = Held(w, R)
    BY <1>2, <1>12, <1>13, HeldKept
  <2>2. \A j \in Held(r, R) : j = i \/ j \in Held(w, R)
    <3> HIDE DEF R
    <3> QED
      BY <1>4, <1>6, <1>15, UsesParts DEF Held
  <2> QED
    BY <2>1, <2>2
<1>25. Blank(q.inode, R, q.free) /\ \A j \in Numbers : j # n => q.inode[j] = w.inode[j]
  <2>1. Blank(w.inode, R, w.free)
    <3>1. /\ i \notin w.free /\ w.free \subseteq r.free \cup {i}
          /\ \A m \in R : i \notin Own(t, m)
      BY <1>4, <1>6, <1>15
    <3> HIDE DEF R, t
    <3> QED
      BY <1>1, <1>5, <1>6, <3>1, BlankSame
  <2>2. /\ w \in States /\ R \in SUBSET Numbers /\ 0 \notin R /\ n \in R
        /\ Owned(w.inode, R, w.free) /\ Exchanges(w, n, q)
    BY <1>1, <1>2, <1>6, <1>8, <1>12
  <2> HIDE DEF R, t
  <2> QED
    BY <2>1, <2>2, BlankKept
<1>26. /\ w.inode[n].pages = t[n].pages /\ Own(w.inode, n) = Own(t, n)
       /\ Len(t[n].pages) \in Nat
       /\ Len(t[n].pages) <= Len(q.inode[n].pages)
       /\ Len(q.inode[n].pages) <= Len(t[n].pages) + 1
  <2>1. w.inode[n].pages = t[n].pages /\ Own(w.inode, n) = Own(t, n)
    BY <1>2, <1>7 DEF Own
  <2> DEFINE es == t[n].ents
             k == Len(es)
  <2>2. es \in Seq(Entries) /\ t[n].pages \in Seq(PageNumbers)
    BY <1>1, <1>2, NodeParts
  <2>3. Len(t[n].pages) = Pages(k)
    BY <1>1, <1>2 DEF PagesFit
  <2>4. q.inode[n].ents = Append(es, e)
    BY <1>2, <1>7, <1>12
  <2> HIDE DEF es, e
  <2>5. k \in Nat /\ Len(Append(es, e)) = k + 1
    BY <1>11, <2>2
  <2>6. Len(q.inode[n].pages) = Pages(k + 1)
    BY <1>12, <2>4, <2>5
  <2> HIDE DEF k
  <2>7. Pages(k) <= Pages(k + 1) /\ Pages(k + 1) <= Pages(k) + 1 /\ Pages(k) \in Nat
    BY <2>5, PagesStep, PagesNatural
  <2> QED
    BY <2>1, <2>3, <2>6, <2>7
<1>27. \A k \in 1 .. Len(t[n].pages) : q.inode[n].pages[k] = t[n].pages[k]
  <2>1. q.inode[n].pages \in Seq(PageNumbers)
    BY <1>2, <1>19, StateParts, NodeParts
  <2>2. Len(q.inode[n].pages) \in Nat
    BY <2>1
  <2>3. \A k \in 1 .. Len(t[n].pages) : k <= Len(q.inode[n].pages)
    BY <1>26, <2>2
  <2> QED
    BY <1>12, <1>26, <2>3 DEF Paged
<1>28. q.super = r.super \/ (q.super = "lost" /\ q.err # 0 /\ r.free \subseteq {i})
  <2>1. CASE i = 0
    <3>1. r.free = {}
      BY <1>1, <1>3, <2>1
    <3>2. w.super = "lost" /\ (q.super = w.super \/ q.super = "lost")
      BY <1>6, <1>12, <2>1 DEF Paged
    <3> QED
      BY <1>18, <2>1, <3>1, <3>2
  <2>2. CASE i # 0
    <3>1. w.super = r.super
      BY <1>6, <2>2
    <3>2. CASE q.super = w.super
      BY <3>1, <3>2
    <3>3. CASE q.super # w.super
      <4>1. q.super = "lost" /\ q.err # 0 /\ w.free = {}
        BY <1>12, <1>26, <3>3 DEF Paged
      <4> QED
        BY <1>4, <1>6, <4>1
    <3> QED
      BY <3>2, <3>3
  <2> QED
    BY <2>1, <2>2
<1>29. Spares(r, n, i, q)
  <2>1. \A j \in Numbers : j # n /\ (j # i \/ i = 0) => q.inode[j] = t[j]
    BY <1>6, <1>25
  <2>2. q.free \cup Own(q.inode, n) = (r.free \ {i}) \cup Own(t, n)
    BY <1>4, <1>6, <1>14, <1>26
  <2> QED
    BY <1>4, <1>25, <1>27, <1>28, <2>1, <2>2 DEF Spares
<1> QED
  BY <1>29, <1>4, <1>5, <1>13, <1>17, <1>18, <1>19, <1>20, <1>21, <1>22, <1>23, <1>24 DEF Makes

(* A new file or directory. *)
LEMMA MadeFine ==
  ASSUME NEW r, Fine(r), NEW n \in Uppers(r.inode), NEW name \in Names, NEW i,
         i = PoppedInode(r), NEW node, NewNode(node, i, n), NEW q, q = Made(r, n, name, node),
         \A k \in Slots(r.inode, n) : r.inode[n].ents[k][1] # name, q.err = 0
  PROVE  /\ Fine(q) /\ Appended(r.inode, q.inode, n, name, i)
         /\ i \in 3 .. LAST /\ i \notin Reach(r.inode) /\ Kept(r, q) /\ q.super = r.super
<1> DEFINE t == r.inode
           u == q.inode
           R == Reach(t)
<1>1. t \in Tables /\ DirsGood(t) /\ n \in R /\ t[n].isdir = 1 /\ DirGood(t, n)
  BY FineParts, UpperParts
<1>2. /\ i \in PageNumbers /\ i # 0 /\ i \notin R /\ i \notin q.free
      /\ \A m \in R : i \notin Own(u, m)
      /\ q \in States /\ PagesFit(u) /\ Owned(u, R, q.free)
      /\ u[n].ents = Append(t[n].ents, <<name, i>>) /\ u[n].nlink = t[n].nlink + 1
      /\ u[n].isdir = t[n].isdir /\ u[n].pno = t[n].pno
      /\ \A m \in R : m # n => u[m] = t[m]
      /\ u[i] = node
  <2>1. Makes(r.inode, n, name, i, node, q)
    BY MadeIs
  <2> QED
    BY <2>1 DEF Makes
<1> HIDE DEF u
<1>3. i \in 3 .. LAST
  BY <1>2 DEF PageNumbers
<1>4. u[i].pno = n /\ u[i].pages = <<>> /\ (u[i].isdir = 1 => DirGood(u, i) /\ Count(u, i) = 2)
  <2>1. NewNode(u[i], i, n)
    BY <1>2
  <2> QED
    BY <2>1, NewNodeGood DEF NewNode
<1>5. Appended(t, u, n, name, i)
  BY <1>1, <1>2, <1>4 DEF Appended
<1>6. DirsGood(u) /\ Reach(u) = R \cup {i}
  <2>1. n \in Uppers(t) /\ \A k \in Slots(t, n) : t[n].ents[k][1] # name
    OBVIOUS
  <2> HIDE DEF t
  <2> QED
    BY <1>1, <1>2, <1>3, <1>5, <2>1, AppendedTree
<1>7. Owned(u, R \cup {i}, q.free)
  BY <1>2, <1>4, OwnedMore
<1>8. Kept(r, q)
  <2>1. Held(r, R) \subseteq Held(q, R) \cup {i}
    BY MadeIs
  <2>2. Held(q, R) \cup {i} \subseteq Held(q, R \cup {i})
    <3> HIDE DEF R
    <3> QED
      BY UsesParts DEF Held
  <2> QED
    BY <1>6, <2>1, <2>2 DEF Kept, u
<1>9. Blank(u, R \cup {i}, q.free) /\ q.super = r.super
  <2>1. Blank(u, R, q.free) /\ q.super = r.super
    <3>1. Spares(r, n, i, q)
      BY MadeIs
    <3> QED
      BY <3>1 DEF Spares, u
  <2>2. Own(u, i) = {}
    BY <1>4 DEF Own
  <2> QED
    BY <2>1, <2>2 DEF Blank
<1> QED
  BY <1>9, <1>2, <1>3, <1>5, <1>6, <1>7, <1>8 DEF Fine, Good, u

(* What it was before, if there was an error: every inode, every page. *)
Restores(r, w) == w \in States /\ w.inode = r.inode /\ w.free = r.free /\ w.err = 0

LEMMA Reverts ==
  ASSUME NEW r, Fine(r), NEW n \in Uppers(r.inode), NEW name \in Names, NEW i,
         i = PoppedInode(r), NEW node, NewNode(node, i, n), NEW q, q = Made(r, n, name, node),
         \A k \in Slots(r.inode, n) : r.inode[n].ents[k][1] # name
  PROVE  /\ Restores(r, Push(dnode_remove(WithErr(q, 0), n, name), i))
         /\ Push(dnode_remove(WithErr(q, 0), n, name), i).super = q.super
<1> DEFINE t == r.inode
           R == Reach(t)
           c == WithErr(q, 0)
           v == dnode_remove(c, n, name)
           w == Push(v, i)
           es == t[n].ents
           k == Len(es) + 1
<1>1. /\ t \in Tables /\ DirsGood(t) /\ n \in R /\ t[n].isdir = 1 /\ DirGood(t, n)
      /\ R \subseteq Numbers /\ 0 \notin R /\ n \in Numbers /\ PagesFit(t)
      /\ Owned(t, R, r.free) /\ Blank(t, R, r.free) /\ 0 \notin r.free /\ r.free \subseteq Numbers
  BY FineParts, UpperParts
<1>2. /\ i \in PageNumbers /\ i \notin R
      /\ q \in States /\ PagesFit(q.inode) /\ Owned(q.inode, R, q.free)
      /\ q.inode[n].ents = Append(es, <<name, i>>) /\ q.inode[n].nlink = t[n].nlink + 1
      /\ q.inode[n].isdir = t[n].isdir /\ q.inode[n].pno = t[n].pno
  <2>1. Makes(r.inode, n, name, i, node, q)
    BY MadeIs
  <2> QED
    BY <2>1 DEF Makes
<1>3. c \in States /\ c.inode = q.inode /\ c.free = q.free /\ c.err = 0 /\ c.super = q.super
  BY <1>2, ErrPut
<1>4. t[n].nlink \in Nat /\ es \in Seq(Entries) /\ Len(es) \in Nat
  <2>1. t[n].nlink \in Nat /\ es \in Seq(Entries)
    BY <1>1, NodeParts
  <2> QED
    BY <2>1
<1>5. \A j \in 1 .. Len(es) : es[j][1] # name
  <2>1. \A j \in Slots(t, n) : t[n].ents[j][1] # name
    OBVIOUS
  <2> HIDE DEF t
  <2> QED
    BY <1>1, <2>1, NoSlot
<1>10. /\ i = 0 \/ i \in r.free
       /\ \A j \in Numbers : j # n /\ (j # i \/ i = 0) => q.inode[j] = t[j]
       /\ q.free \cup Own(q.inode, n) = (r.free \ {i}) \cup Own(t, n)
       /\ Blank(q.inode, R, q.free)
       /\ \A l \in 1 .. Len(t[n].pages) : q.inode[n].pages[l] = t[n].pages[l]
  <2>1. Spares(r, n, i, q)
    BY MadeIs
  <2> QED
    BY <2>1 DEF Spares
<1> HIDE DEF es, c
<1>6. SlotOf(c.inode[n].ents, name) = k /\ Swapped(c.inode[n].ents, k) = es
  <2> DEFINE e == <<name, i>>
  <2>1. e \in Entries /\ e[1] = name
    BY <1>2, Shape DEF Entries
  <2>2. c.inode[n].ents = Append(es, e)
    BY <1>2, <1>3
  <2> HIDE DEF e
  <2> QED
    BY <1>4, <1>5, <2>1, <2>2, SwappedBack
<1>7. k # 0 /\ c.inode[n].nlink # 0 /\ c.inode[n].nlink - 1 = t[n].nlink
  BY <1>2, <1>3, <1>4
<1>8. Apart(c, n) /\ Owned(c.inode, R, c.free)
  BY <1>1, <1>2, <1>3, OwnedIsApart
<1> HIDE DEF v, w, k
<1>9. /\ Exchanges(c, n, v) /\ Paged(c, n, v)
      /\ v.inode[n].ents = es
      /\ v.inode[n].isdir = t[n].isdir
      /\ v.inode[n].nlink = t[n].nlink /\ v.inode[n].pno = t[n].pno
      /\ Len(v.inode[n].pages) = Pages(Len(es))
  <2>1. /\ Exchanges(c, n, v) /\ Paged(c, n, v)
        /\ v.inode[n].ents = Swapped(c.inode[n].ents, k)
        /\ v.inode[n].isdir = c.inode[n].isdir
        /\ v.inode[n].nlink = c.inode[n].nlink - 1 /\ v.inode[n].pno = c.inode[n].pno
        /\ Len(v.inode[n].pages) = Pages(Len(v.inode[n].ents))
    BY <1>1, <1>3, <1>6, <1>7, <1>8, RemoveExchanges, RemovePaged DEF v
  <2> QED
    BY <1>2, <1>3, <1>6, <1>7, <2>1
<1>11. \A j \in Numbers : j # n => v.inode[j] = c.inode[j]
  <2>1. /\ c \in States /\ R \in SUBSET Numbers /\ 0 \notin R /\ n \in R
        /\ Owned(c.inode, R, c.free) /\ Exchanges(c, n, v) /\ Blank(c.inode, R, c.free)
    BY <1>1, <1>3, <1>8, <1>9, <1>10
  <2> HIDE DEF R, t
  <2> QED
    BY <2>1, BlankKept
<1>12. /\ Len(t[n].pages) = Pages(Len(es)) /\ Len(t[n].pages) <= Len(c.inode[n].pages)
       /\ Len(t[n].pages) \in Nat
  <2>1. Len(t[n].pages) = Pages(Len(es))
    BY <1>1 DEF PagesFit, es
  <2>2. Len(c.inode[n].pages) = Pages(Len(es) + 1)
    <3>1. Len(q.inode[n].pages) = Pages(Len(q.inode[n].ents))
      BY <1>1, <1>2 DEF PagesFit
    <3>2. Len(q.inode[n].ents) = Len(es) + 1
      BY <1>2, <1>4
    <3> QED
      BY <1>3, <3>1, <3>2
  <2>3. Pages(Len(es)) <= Pages(Len(es) + 1) /\ Pages(Len(es)) \in Nat
    BY <1>4, PagesStep, PagesNatural
  <2> QED
    BY <2>1, <2>2, <2>3
<1>13. v \in States /\ v.err = 0 /\ v.super = q.super
  BY <1>3, <1>9, <1>12 DEF Exchanges, Paged
<1>14. v.inode[n].pages = t[n].pages
  <2> DEFINE ps == v.inode[n].pages
             os == t[n].pages
             cs == c.inode[n].pages
  <2>1. ps \in Seq(PageNumbers) /\ os \in Seq(PageNumbers) /\ cs \in Seq(PageNumbers)
    BY <1>1, <1>3, <1>13, StateParts, NodeParts
  <2>2. Len(ps) = Len(os) /\ Len(os) <= Len(cs)
    BY <1>9, <1>12
  <2>3. /\ \A l \in 1 .. Len(cs) : l <= Len(ps) => ps[l] = cs[l]
        /\ \A l \in 1 .. Len(os) : cs[l] = os[l]
    BY <1>3, <1>9, <1>10 DEF Paged
  <2> HIDE DEF ps, os, cs
  <2>4. \A l \in 1 .. Len(os) : l \in 1 .. Len(cs) /\ l <= Len(ps)
    BY <2>1, <2>2
  <2>5. \A l \in 1 .. Len(os) : ps[l] = os[l]
    BY <2>3, <2>4
  <2>6. ps = os
    BY <2>1, <2>2, <2>5
  <2> QED
    BY <2>6 DEF ps, os
<1>15. v.inode[n] = t[n]
  <2>1. v.inode[n] \in Node /\ t[n] \in Node
    BY <1>1, <1>13, StateParts, NodeParts
  <2> DEFINE x == v.inode[n]
             y == t[n]
  <2>2. /\ x.isdir = y.isdir /\ x.nlink = y.nlink /\ x.pno = y.pno
        /\ x.ents = y.ents /\ x.pages = y.pages
    BY <1>9, <1>14 DEF es
  <2> HIDE DEF x, y
  <2>3. x = y
    <3>1. x \in Node /\ y \in Node
      BY <2>1 DEF x, y
    <3> QED
      BY <2>2, <3>1, NodeFields
  <2> QED
    BY <2>3 DEF x, y
<1>16. v.free = r.free \ {i}
  <2>1. Own(v.inode, n) = Own(t, n)
    BY <1>15 DEF Own
  <2>2. v.free \cup Own(v.inode, n) = q.free \cup Own(q.inode, n)
    BY <1>3, <1>9 DEF Exchanges
  <2>3. Own(v.inode, n) \cap v.free = {}
    BY <1>9 DEF Exchanges, Apart
  <2>4. Own(t, n) \cap r.free = {}
    BY <1>1 DEF Owned
  <2> HIDE DEF t
  <2> QED
    BY <1>10, <2>1, <2>2, <2>3, <2>4
<1>17. /\ w \in States /\ w.err = v.err /\ w.super = v.super
       /\ w.free = v.free \cup ({i} \ {0})
       /\ \A j \in Numbers : j # i => w.inode[j] = v.inode[j]
       /\ i # 0 => w.inode[i] = Void
       /\ i = 0 => w = v
  BY <1>2, <1>13, Pushed DEF w
<1>18. w.free = r.free
  BY <1>1, <1>10, <1>16, <1>17
<1>19. ASSUME NEW j \in Numbers
       PROVE  w.inode[j] = t[j]
  <2>1. CASE j = i /\ i # 0
    BY <1>1, <1>10, <1>17, <2>1 DEF Blank
  <2>2. CASE ~ (j = i /\ i # 0)
    <3>1. w.inode[j] = v.inode[j]
      BY <1>17, <2>2
    <3>2. CASE j = n
      BY <1>15, <3>1, <3>2
    <3>3. CASE j # n /\ j # i
      BY <1>3, <1>10, <1>11, <3>1, <3>3
    <3>4. CASE j # n /\ i = 0
      BY <1>3, <1>10, <1>11, <3>1, <3>4
    <3> QED
      BY <2>2, <3>2, <3>3, <3>4
  <2> QED
    BY <2>1, <2>2
<1>20. w.inode = t
  <2>1. w.inode \in Tables
    BY <1>17, StateParts
  <2> HIDE DEF t
  <2> QED
    BY <1>1, <1>19, <2>1 DEF Tables
<1> QED
  BY <1>3, <1>13, <1>17, <1>18, <1>20 DEF Restores, w, v, c

LEMMA RevertedFine ==
  ASSUME NEW r, Fine(r), NEW w, Restores(r, w)
  PROVE  Fine(w) /\ Alike(r.inode, w.inode) /\ Kept(r, w)
BY DEF Restores, Fine, Alike, Kept, Held

-----------------------------------------------------------------------------
(***************************************************************************)
(* Steps.                                                                  *)
(***************************************************************************)
LEMMA StateNow ==
  State.inode = inode /\ State.free = free /\ State.err = ERRNO /\ State.super = superblock
BY DEF State

LEMMA BecomesFine ==
  ASSUME NEW r, Fine(r), Becomes(r)
  PROVE  Fine(State)'
<1>1. r = [inode |-> r.inode, free |-> r.free, err |-> r.err, super |-> r.super]
  BY FineParts DEF States
<1>2. State' = r
  BY <1>1 DEF State, Becomes
<1> QED
  BY <1>2

LEMMA FormattedFine == Fine(Formatted)
<1> DEFINE t == Formatted.inode
           root == dnode(ROOT, ROOT)
<1>1. root \in Node /\ root.pages = <<>> /\ root.isdir = 1 /\ root.nlink = 2
      /\ root.pno = ROOT /\ root.ents = <<<<Dot, ROOT>>, <<DotDot, ROOT>>>>
  <2>1. <<<<Dot, ROOT>>, <<DotDot, ROOT>>>> \in Seq(Entries) /\ <<>> \in Seq(PageNumbers)
    BY Shape DEF Entries
  <2> QED
    BY <2>1, Shape DEF dnode, Node
<1> HIDE DEF root
<1>2. t = [i \in Numbers |-> IF i = ROOT THEN root ELSE Void]
  BY DEF Formatted, Numbers, root
<1>3. Formatted.free = 3 .. LAST /\ Formatted.err = 0 /\ Formatted.super = "kept"
  BY DEF Formatted
<1>4. t \in Tables
  BY <1>1, <1>2, VoidIsNode DEF Tables
<1>5. Formatted \in States
  <2>1. Formatted = [inode |-> t, free |-> 3 .. LAST, err |-> 0, super |-> "kept"]
    BY DEF Formatted
  <2>2. 0 \in {0, -ENOSPC} /\ 3 .. LAST \in SUBSET (3 .. LAST) /\ "kept" \in {"kept", "lost"}
    OBVIOUS
  <2> HIDE DEF t
  <2> QED
    BY <1>4, <2>1, <2>2 DEF States
<1>6. t[ROOT] = root
  BY <1>2, Shape
<1>7. Len(root.ents) = 2 /\ Len(root.pages) = 0
  BY <1>1
<1>8. PagesFit(t)
  <2>1. ASSUME NEW i \in Numbers
        PROVE  Len(t[i].pages) = Pages(Len(t[i].ents))
    <3>1. CASE i = ROOT
      BY <1>6, <1>7, <3>1, FewPages
    <3>2. CASE i # ROOT
      BY <1>2, <3>2, VoidFits
    <3> QED
      BY <3>1, <3>2
  <2> QED
    BY <2>1 DEF PagesFit
<1> HIDE DEF t
<1>9. Count(t, ROOT) = 2 /\ Slots(t, ROOT) = {} /\ Kids(t, ROOT) = {}
  BY <1>6, <1>7 DEF Count, Slots, Kids
<1>10. Reach(t) = {ROOT} /\ Uppers(t) = {ROOT}
  BY <1>9 DEF Uppers, Reach
<1>11. DirGood(t, ROOT)
  BY <1>1, <1>6, <1>9 DEF DirGood
<1>12. DirsGood(t)
  BY <1>1, <1>6, <1>10, <1>11 DEF DirsGood
<1>13. Owned(t, Reach(t), 3 .. LAST)
  <2>1. Own(t, ROOT) = {} /\ Once(t, ROOT)
    BY <1>6, <1>7 DEF Own, Once
  <2>2. ROOT \notin 3 .. LAST
    BY Shape
  <2> QED
    BY <1>10, <2>1, <2>2 DEF Owned
<1>14. Blank(t, Reach(t), 3 .. LAST)
  <2>1. Own(t, ROOT) = {}
    BY <1>6, <1>7 DEF Own
  <2>2. \A j \in 3 .. LAST : j \in Numbers /\ j # ROOT
    BY Shape
  <2> QED
    BY <1>2, <1>10, <2>1, <2>2 DEF Blank
<1> QED
  BY <1>3, <1>5, <1>8, <1>12, <1>13, <1>14 DEF Fine, Good, t

LEMMA NewFile ==
  ASSUME NEW i \in Numbers, NEW n \in Numbers
  PROVE  NewNode(fnode(i, n), i, n)
<1>1. fnode(i, n) = [isdir |-> 0, nlink |-> 1, pno |-> n, ents |-> <<>>, pages |-> <<>>]
  <2> DEFINE v == [Void EXCEPT !.nlink = 1]
  <2>1. v = [isdir |-> 0, nlink |-> 1, pno |-> 0, ents |-> <<>>, pages |-> <<>>]
    BY DEF Void
  <2>2. fnode(i, n) = [v EXCEPT !.pno = n]
    BY DEF fnode, Void
  <2> HIDE DEF v
  <2> QED
    BY <2>1, <2>2
<1>2. <<>> \in Seq(Entries) /\ <<>> \in Seq(PageNumbers)
  OBVIOUS
<1> QED
  BY <1>1, <1>2 DEF NewNode, Node

LEMMA NewDirectory ==
  ASSUME NEW i \in Numbers, NEW n \in Numbers
  PROVE  NewNode(dnode(i, n), i, n)
<1> DEFINE es == <<<<Dot, i>>, <<DotDot, n>>>>
<1>1. dnode(i, n) = [isdir |-> 1, nlink |-> 2, pno |-> n, ents |-> es, pages |-> <<>>]
  BY DEF dnode
<1>2. es \in Seq(Entries) /\ <<>> \in Seq(PageNumbers)
  BY DEF Entries
<1> QED
  BY <1>1, <1>2 DEF NewNode, Node

(* sfs_create, sfs_mkdir. *)
MakeNode(p, i, node, q) ==
  /\ NewNode(node, i, Parent(p)) /\ q = Made(State, Parent(p), path_basename(p), node)
  /\ IF Inum(p) > 0
     THEN /\ Answer(-EEXIST)
          /\ UNCHANGED <<inode, free, ERRNO, superblock>>
     ELSE /\ Answer(q.err)
          /\ Becomes(IF q.err = 0 THEN q
                     ELSE Push(dnode_remove(WithErr(q, 0), Parent(p), path_basename(p)), i))

LEMMA CallParts ==
  ASSUME IInv, NEW p \in UsedPaths, IsDir(Front(p))
  PROVE  /\ inode \in Tables /\ DirsGood(inode) /\ Fine(State)
         /\ Parent(p) \in Uppers(State.inode) /\ Parent(p) \in Numbers
         /\ path_basename(p) \in Names
         /\ ~ (Inum(p) > 0) =>
              /\ Inum(p) = NotFound
              /\ \A k \in Slots(State.inode, Parent(p)) :
                   State.inode[Parent(p)].ents[k][1] # path_basename(p)
         /\ Found(p) =>
              /\ Inum(p) \in Kids(inode, Parent(p))
              /\ \E k \in Slots(State.inode, Parent(p)) :
                   /\ k = SlotOf(State.inode[Parent(p)].ents, path_basename(p))
                   /\ Inum(p) = Kid(State.inode, Parent(p), k)
<1>1. Fine(State) /\ inode \in Tables /\ DirsGood(inode)
  BY FineParts, StateNow DEF IInv
<1>2. /\ Parent(p) \in Uppers(inode) /\ path_basename(p) \in Names
      /\ Inum(p) = path_to_inum_elem(Listings, path_basename(p), Parent(p))
  BY <1>1, CallLooksUp
<1>3. Parent(p) \in Numbers
  BY <1>1, <1>2, UpperParts, Shape
<1> DEFINE s == Slot(Parent(p), path_basename(p))
<1>4. /\ s = 0 => /\ Inum(p) = NotFound
                  /\ \A i \in Slots(inode, Parent(p)) :
                       inode[Parent(p)].ents[i][1] # path_basename(p)
      /\ s # 0 =>
           /\ s \in Slots(inode, Parent(p))
           /\ Inum(p) = Kid(inode, Parent(p), s)
           /\ Kid(inode, Parent(p), s) \in Kids(inode, Parent(p))
           /\ Kid(inode, Parent(p), s) \in 3 .. LAST
  BY <1>1, <1>2, NameInDirectory
<1>5. s = SlotOf(State.inode[Parent(p)].ents, path_basename(p))
  BY StateNow DEF Slot
<1> HIDE DEF s
<1>6. ASSUME ~ (Inum(p) > 0)
      PROVE  s = 0
  <2>1. s # 0 => Inum(p) \in 3 .. LAST
    BY <1>4
  <2> QED
    BY <1>6, <2>1
<1>7. ASSUME Found(p)
      PROVE  s # 0
  BY <1>4, <1>7 DEF Found, NotFound
<1> QED
  BY <1>1, <1>2, <1>3, <1>4, <1>5, <1>6, <1>7, StateNow

LEMMA AnswerKept ==
  ASSUME IInv, NEW a \in {0, -ENOENT, -EEXIST, -ENOSPC}, Answer(a), Fine(State)'
  PROVE  IInv'
<1>1. turn' \in {0, 1}
  BY DEF Answer, IInv
<1>2. answer' \in {0, -ENOENT, -EEXIST, -ENOSPC}
  BY DEF Answer
<1> QED
  BY <1>1, <1>2 DEF IInv

LEMMA SameFine ==
  ASSUME IInv, UNCHANGED <<inode, free, ERRNO, superblock>>
  PROVE  Fine(State)'
<1>1. State' = State
  BY DEF State
<1> QED
  BY <1>1 DEF IInv

LEMMA MakeKeeps ==
  ASSUME IInv, NEW p \in UsedPaths, IsDir(Front(p)), NEW i, i = PoppedInode(State),
         NEW node, NEW q, MakeNode(p, i, node, q)
  PROVE  IInv'
<1>1. CASE Inum(p) > 0
  <2>1. Answer(-EEXIST) /\ Fine(State)'
    BY <1>1, SameFine DEF MakeNode
  <2> QED
    BY <2>1, AnswerKept
<1>2. CASE ~ (Inum(p) > 0)
  <2> DEFINE n == Parent(p)
             name == path_basename(p)
             w == Push(dnode_remove(WithErr(q, 0), n, name), i)
  <2>1. /\ Fine(State) /\ n \in Uppers(State.inode) /\ name \in Names
        /\ \A k \in Slots(State.inode, n) : State.inode[n].ents[k][1] # name
    BY <1>2, CallParts
  <2>2. /\ NewNode(node, i, n) /\ q = Made(State, n, name, node)
        /\ Answer(q.err) /\ Becomes(IF q.err = 0 THEN q ELSE w)
    BY <1>2 DEF MakeNode
  <2> HIDE DEF n, name
  <2>3. q \in States
    <3>1. Makes(State.inode, n, name, i, node, q)
      BY <2>1, <2>2, MadeIs
    <3> QED
      BY <3>1 DEF Makes
  <2>4. q.err \in {0, -ENOENT, -EEXIST, -ENOSPC}
    BY <2>3, StateParts
  <2>5. Fine(State)'
    <3>1. CASE q.err = 0
      <4>1. Fine(q)
        BY <2>1, <2>2, <3>1, MadeFine
      <4> QED
        BY <2>2, <3>1, <4>1, BecomesFine
    <3>2. CASE q.err # 0
      <4>1. Restores(State, w)
        BY <2>1, <2>2, Reverts
      <4> HIDE DEF w
      <4>2. Fine(w)
        BY <2>1, <4>1, RevertedFine
      <4> QED
        BY <2>2, <3>2, <4>2, BecomesFine
    <3> QED
      BY <3>1, <3>2
  <2> QED
    BY <2>2, <2>4, <2>5, AnswerKept
<1> QED
  BY <1>1, <1>2

LEMMA CreateMakes ==
  ASSUME NEW p
  PROVE  /\ sfs_create(p) =>
              LET i == PoppedInode(State)
                  node == fnode(i, Parent(p))
                  q == Made(State, Parent(p), path_basename(p), node)
              IN  NewNode(node, i, Parent(p)) => MakeNode(p, i, node, q)
         /\ sfs_mkdir(p) =>
              LET i == PoppedInode(State)
                  node == dnode(i, Parent(p))
                  q == Made(State, Parent(p), path_basename(p), node)
              IN  NewNode(node, i, Parent(p)) => MakeNode(p, i, node, q)
BY DEF sfs_create, sfs_mkdir, Make, MakeNode, Made, Reverted, WithErr

LEMMA CallMakes ==
  ASSUME IInv, NEW p \in UsedPaths, IsDir(Front(p)), sfs_create(p) \/ sfs_mkdir(p)
  PROVE  \E node, q : MakeNode(p, PoppedInode(State), node, q)
<1> DEFINE i == PoppedInode(State)
<1>1. i \in Numbers /\ Parent(p) \in Numbers
  <2>1. State \in States /\ Parent(p) \in Numbers
    BY CallParts, FineParts
  <2>2. State.free \subseteq 3 .. LAST
    BY <2>1, StateParts
  <2> QED
    BY <2>1, <2>2, Popped, Shape
<1>2. NewNode(fnode(i, Parent(p)), i, Parent(p)) /\ NewNode(dnode(i, Parent(p)), i, Parent(p))
  BY <1>1, NewFile, NewDirectory
<1> QED
  BY <1>2, CreateMakes

(* What a directory's entry is taken away by. *)
Unlinked(p) == Unlinks(State, Inum(p), Parent(p), path_basename(p))
Takings(p) == {Unlinked(p), Rmdirs(State, Inum(p), Parent(p), path_basename(p))}

LEMMA TakenRemoves ==
  ASSUME IInv, NEW p \in UsedPaths, IsDir(Front(p)), Found(p), NEW q \in Takings(p)
  PROVE  /\ \E k \in Slots(inode, Parent(p)) :
              /\ Removes(State, q, Parent(p), k)
              /\ path_basename(p) = inode[Parent(p)].ents[k][1]
         /\ Loses(State, q, Inum(p)) /\ q.super = superblock
         /\ q = Unlinked(p) => Inum(p) \in Held(q, Reach(q.inode))
<1> DEFINE n == Parent(p)
           name == path_basename(p)
           x == Inum(p)
           t == State.inode
<1>1. Fine(State) /\ n \in Uppers(t) /\ name \in Names /\ inode \in Tables /\ n \in Numbers
  BY CallParts
<1>2. PICK k \in Slots(t, n) : k = SlotOf(t[n].ents, name) /\ x = Kid(t, n, k)
  BY CallParts
<1>3. /\ q \in {Unlinks(State, x, n, name), Rmdirs(State, x, n, name)}
      /\ Unlinked(p) = Unlinks(State, x, n, name)
  BY DEF Takings, Unlinked
<1> HIDE DEF n, name, x
<1>4. /\ Removes(State, q, n, k) /\ Loses(State, q, x) /\ q.super = State.super
      /\ q = Unlinked(p) => x \in Held(q, Reach(q.inode))
  BY <1>1, <1>2, <1>3, TakenFine
<1>5. name = t[n].ents[k][1]
  <2> DEFINE es == t[n].ents
  <2>1. es \in Seq(Entries) /\ k = SlotOf(es, name) /\ k # 0
    <3>1. es \in Seq(Entries)
      BY <1>1, NodeParts, StateNow
    <3> QED
      BY <1>2, <3>1 DEF Slots
  <2> HIDE DEF es
  <2>2. es[k][1] = name
    BY <2>1, NameFound
  <2> QED
    BY <2>2 DEF es
<1> QED
  BY <1>2, <1>4, <1>5, StateNow DEF n, name, x

LEMMA TakenKeeps ==
  ASSUME IInv, NEW p \in UsedPaths, IsDir(Front(p)), Found(p), Answer(0),
         NEW q \in Takings(p), Becomes(q)
  PROVE  IInv'
<1>1. Fine(q)
  BY TakenRemoves DEF Removes
<1>2. Fine(State)'
  BY <1>1, BecomesFine
<1> QED
  BY <1>2, AnswerKept

(* sfs_unlink and sfs_rmdir. *)
LEMMA RemovalTakes ==
  ASSUME NEW p, sfs_rmdir(p) \/ sfs_unlink(p)
  PROVE  Refused(p) \/ (Found(p) /\ Answer(0) /\ \E q \in Takings(p) : Becomes(q))
BY DEF sfs_rmdir, sfs_unlink, Takings, Unlinked, Unlinks, Rmdirs

LEMMA RefusedKeeps ==
  ASSUME IInv, NEW p, Refused(p)
  PROVE  IInv'
<1>1. Answer(-ENOENT) /\ Fine(State)'
  BY SameFine DEF Refused
<1> QED
  BY <1>1, AnswerKept

LEMMA FileParts ==
  ASSUME IInv, NEW p \in UsedPaths, IsDir(Front(p)), IsFile(p)
  PROVE  /\ Inum(p) \in Reach(State.inode) /\ State.inode[Inum(p)].isdir = 0
         /\ \A n \in Sizes : BlocksOf(n) \in Seq(Entries)
<1>1. Found(p) /\ inode[Inum(p)].isdir = 0
  BY DEF IsFile
<1>2. /\ Inum(p) \in Kids(inode, Parent(p)) /\ Parent(p) \in Uppers(inode)
  BY <1>1, CallParts, StateNow
<1>3. Inum(p) \in Reach(inode)
  BY <1>2, InReach
<1>4. \A n \in Sizes : BlocksOf(n) \in Seq(Entries)
  BY NamespaceAssumption DEF BlocksOf, Entries
<1> QED
  BY <1>1, <1>3, <1>4, StateNow

(* The state with the error of a free list that had not enough. *)
Short(enough) == WithErr(State, IF enough THEN ERRNO ELSE -ENOSPC)

LEMMA WrittenFine ==
  ASSUME IInv, NEW p \in UsedPaths, IsDir(Front(p)), IsFile(p), NEW n \in Sizes,
         NEW enough \in BOOLEAN
  PROVE  /\ Fine(listing_set(Short(enough), Inum(p), BlocksOf(n)))
         /\ Alike(inode, listing_set(Short(enough), Inum(p), BlocksOf(n)).inode)
         /\ Kept(State, listing_set(Short(enough), Inum(p), BlocksOf(n)))
         /\ Paged(Short(enough), Inum(p), listing_set(Short(enough), Inum(p), BlocksOf(n)))
         /\ Short(enough).super = superblock
<1> DEFINE e == IF enough THEN ERRNO ELSE -ENOSPC
           r == Short(enough)
<1>1. Fine(State) /\ State \in States
  BY CallParts, FineParts
<1>2. e \in {0, -ENOSPC}
  BY <1>1, StateParts, StateNow
<1>3. r = WithErr(State, e)
  BY DEF Short
<1> HIDE DEF e, r
<1>4. /\ Fine(r) /\ r.inode = State.inode /\ r.free = State.free
      /\ r.super = State.super
  BY <1>1, <1>2, <1>3, ErrFine, ErrPut
<1>5. /\ Fine(listing_set(r, Inum(p), BlocksOf(n)))
      /\ Alike(r.inode, listing_set(r, Inum(p), BlocksOf(n)).inode)
      /\ Kept(r, listing_set(r, Inum(p), BlocksOf(n)))
      /\ Paged(r, Inum(p), listing_set(r, Inum(p), BlocksOf(n)))
  BY <1>4, FileParts, WriteFine
<1> QED
  BY <1>4, <1>5, StateNow DEF r, Kept, Held

LEMMA WriteBecomes ==
  ASSUME NEW p, NEW n, NEW enough \in BOOLEAN,
         sfs_write(p, n, enough) \/ sfs_truncate(p, n, enough)
  PROVE  /\ UNCHANGED <<answer, turn>>
         /\ \/ Becomes(listing_set(Short(enough), Inum(p), BlocksOf(n)))
            \/ Becomes(WithErr(Pop(listing_set(Short(enough), Inum(p), BlocksOf(n))), 0))
<1>1. Short(enough) = [State EXCEPT !.err = IF enough THEN @ ELSE -ENOSPC]
  BY DEF Short, WithErr, State
<1>2. CASE sfs_write(p, n, enough)
  BY <1>1, <1>2 DEF sfs_write, WithErr
<1>3. CASE sfs_truncate(p, n, enough)
  BY <1>1, <1>3 DEF sfs_truncate
<1> QED
  BY <1>2, <1>3

LEMMA WriteKeeps ==
  ASSUME IInv, NEW p \in UsedPaths, IsDir(Front(p)), IsFile(p), NEW n \in Sizes,
         NEW enough \in BOOLEAN, sfs_write(p, n, enough) \/ sfs_truncate(p, n, enough)
  PROVE  IInv'
<1> DEFINE w == listing_set(Short(enough), Inum(p), BlocksOf(n))
           v == WithErr(Pop(w), 0)
<1>1. Fine(w) /\ Fine(v)
  <2>1. Fine(w)
    BY WrittenFine
  <2> HIDE DEF w
  <2>2. Fine(Pop(w))
    BY <2>1, PopFine
  <2> QED
    BY <2>1, <2>2, ErrFine
<1>3. UNCHANGED <<answer, turn>> /\ (Becomes(w) \/ Becomes(v))
  BY WriteBecomes
<1> HIDE DEF w, v
<1>4. Fine(State)'
  BY <1>1, <1>3, BecomesFine
<1> QED
  BY <1>3, <1>4 DEF IInv

LEMMA Inductive == Spec => []IInv
<1>1. Init => IInv
  <2> SUFFICES ASSUME Init PROVE IInv
    OBVIOUS
  <2>1. State = Formatted
    BY DEF Init, State, Formatted
  <2>2. answer \in {0, -ENOENT, -EEXIST, -ENOSPC} /\ turn \in {0, 1}
    BY DEF Init
  <2> QED
    BY <2>1, <2>2, FormattedFine DEF IInv
<1>2. IInv /\ [Next]_vars => IInv'
  <2> SUFFICES ASSUME IInv, [Next]_vars PROVE IInv'
    OBVIOUS
  <2>1. ASSUME NEW p \in UsedPaths, IsDir(Front(p)), sfs_create(p) \/ sfs_mkdir(p)
        PROVE  IInv'
    <3> DEFINE i == PoppedInode(State)
    <3>1. \E node, q : MakeNode(p, i, node, q)
      BY <2>1, CallMakes
    <3> HIDE DEF i
    <3>2. i = PoppedInode(State)
      BY DEF i
    <3> QED
      BY <2>1, <3>1, <3>2, MakeKeeps
  <2>2. ASSUME NEW p \in UsedPaths, IsDir(Front(p)), sfs_rmdir(p) \/ sfs_unlink(p)
        PROVE  IInv'
    <3>1. CASE Refused(p)
      BY <3>1, RefusedKeeps
    <3>2. CASE Found(p) /\ Answer(0) /\ \E q \in Takings(p) : Becomes(q)
      BY <2>2, <3>2, TakenKeeps
    <3> QED
      BY <2>2, <3>1, <3>2, RemovalTakes
  <2>3. ASSUME NEW p \in UsedPaths, IsDir(Front(p)), IsFile(p),
               \E n \in Sizes, enough \in BOOLEAN :
                 sfs_write(p, n, enough) \/ sfs_truncate(p, n, enough)
        PROVE  IInv'
    BY <2>3, WriteKeeps
  <2>4. CASE sfs_init
    <3>1. Fine(State)'
      BY <2>4, FormattedFine, BecomesFine DEF sfs_init
    <3> QED
      BY <2>4, <3>1 DEF IInv, sfs_init
  <2>5. CASE UNCHANGED vars
    <3>1. Fine(State)'
      BY <2>5, SameFine DEF vars
    <3> QED
      BY <2>5, <3>1 DEF IInv, vars
  <2> QED
    BY <2>1, <2>2, <2>3, <2>4, <2>5 DEF Next
<1> QED
  BY <1>1, <1>2, PTL DEF Spec

-----------------------------------------------------------------------------
(***************************************************************************)
(* The invariants.                                                         *)
(***************************************************************************)
LEMMA InvariantParts ==
  ASSUME IInv
  PROVE  /\ inode \in Tables /\ PagesFit(inode) /\ DirsGood(inode)
         /\ Owned(inode, Reach(inode), free) /\ free \subseteq 3 .. LAST
         /\ ERRNO \in {0, -ENOSPC} /\ superblock \in {"kept", "lost"}
         /\ answer \in {0, -ENOENT, -EEXIST, -ENOSPC} /\ turn \in {0, 1}
<1>1. Fine(State)
  BY DEF IInv
<1>2. State \in States
  BY <1>1, FineParts
<1>3. ERRNO \in {0, -ENOSPC} /\ superblock \in {"kept", "lost"}
  BY <1>2, StateParts, StateNow
<1> QED
  BY <1>1, <1>3, FineParts, StateNow DEF IInv

(* The types of the variables: an inode has the pages that its entries     *)
(* need, whatever calls failed while pages were added.                     *)
THEOREM TypesStay == Spec => []TypeOK
<1>1. IInv => TypeOK
  <2> SUFFICES ASSUME IInv PROVE TypeOK
    OBVIOUS
  <2>1. ASSUME NEW i \in 0 .. LAST
        PROVE  /\ inode[i].isdir \in {0, 1} /\ inode[i].nlink \in Nat
               /\ inode[i].pno \in 0 .. LAST
               /\ Len(inode[i].pages) = Pages(Len(inode[i].ents))
               /\ Range(inode[i].pages) \subseteq {0} \cup 3 .. LAST
    <3>1. i \in Numbers /\ inode \in Tables /\ PagesFit(inode)
      BY InvariantParts DEF Numbers
    <3>2. /\ inode[i].isdir \in {0, 1} /\ inode[i].nlink \in Nat /\ inode[i].pno \in 0 .. LAST
          /\ inode[i].pages \in Seq(PageNumbers)
      BY <3>1, NodeParts DEF Numbers
    <3>3. Range(inode[i].pages) \subseteq {0} \cup 3 .. LAST
      BY <3>2 DEF Range, PageNumbers
    <3> QED
      BY <3>1, <3>2, <3>3 DEF PagesFit
  <2> QED
    BY <2>1, InvariantParts DEF TypeOK
<1> QED
  BY <1>1, Inductive, PTL

LEMMA BelowIs ==
  ASSUME IInv, NEW n \in Uppers(inode)
  PROVE  /\ \A e \in Below(n) : \E i \in Slots(inode, n) : e = inode[n].ents[i]
         /\ \A i \in Slots(inode, n) : inode[n].ents[i] \in Below(n)
         /\ \A e \in Below(n) :
              /\ e \in Names \X (3 .. LAST) /\ e[2] \in Kids(inode, n)
              /\ inode[e[2]].pno = n
         /\ \A e, g \in Below(n) : e[1] = g[1] \/ e[2] = g[2] => e = g
<1>1. DirsGood(inode)
  BY InvariantParts
<1>2. DirGood(inode, n)
  BY <1>1, UpperParts
<1>3. Below(n) = {inode[n].ents[i] : i \in Slots(inode, n)}
  BY DEF Below, Slots, Count
<1>4. \A i \in Slots(inode, n) :
        /\ inode[n].ents[i] \in Names \X (3 .. LAST)
        /\ inode[n].ents[i][2] = Kid(inode, n, i) /\ Kid(inode, n, i) \in Kids(inode, n)
        /\ inode[Kid(inode, n, i)].pno = n
  BY <1>2 DEF DirGood, Kid, Kids
<1>5. \A e, g \in Below(n) : e[1] = g[1] \/ e[2] = g[2] => e = g
  <2>1. ASSUME NEW e \in Below(n), NEW g \in Below(n), e[1] = g[1] \/ e[2] = g[2]
        PROVE  e = g
    <3>1. PICK i \in Slots(inode, n) : e = inode[n].ents[i]
      BY <1>3
    <3>2. PICK j \in Slots(inode, n) : g = inode[n].ents[j]
      BY <1>3
    <3>3. i = j
      BY <1>2, <2>1, <3>1, <3>2 DEF DirGood, Kid
    <3> QED
      BY <3>1, <3>2, <3>3
  <2> QED
    BY <2>1
<1> QED
  BY <1>3, <1>4, <1>5

(* What is at a path of no, one or two names. *)
Here(x) == x = <<<<>>, ROOT>>
OneDown(x, e) == e \in Below(ROOT) /\ x = <<<<e[1]>>, e[2]>>
TwoDown(x, e, g) ==
  e \in Below(ROOT) /\ Dir(e[2]) /\ g \in Below(e[2]) /\ x = <<<<e[1], g[1]>>, g[2]>>

LEMMA StoredIs ==
  /\ \A x \in Stored : Here(x) \/ (\E e : OneDown(x, e)) \/ (\E e, g : TwoDown(x, e, g))
  /\ \A x : Here(x) => x \in Stored
  /\ \A x, e : OneDown(x, e) => x \in Stored
  /\ \A x, e, g : TwoDown(x, e, g) => x \in Stored
BY DEF Stored, Here, OneDown, TwoDown

LEMMA DownParts ==
  ASSUME IInv
  PROVE  /\ \A x : Here(x) => x[1] = <<>> /\ x[2] = ROOT /\ inode[ROOT].pno = ROOT
         /\ \A x, e : OneDown(x, e) =>
              /\ x[1] = <<e[1]>> /\ x[2] = e[2] /\ inode[x[2]].pno = ROOT
              /\ x[2] \in 3 .. LAST /\ x[2] \in Kids(inode, ROOT) /\ e[1] \in Names
              /\ e \in Names \X (3 .. LAST)
         /\ \A x, e, g : TwoDown(x, e, g) =>
              /\ x[1] = <<e[1], g[1]>> /\ x[2] = g[2] /\ inode[x[2]].pno = e[2]
              /\ x[2] \in 3 .. LAST /\ x[2] \in Kids(inode, e[2]) /\ g[1] \in Names
              /\ e[2] \in Uppers(inode) /\ e[2] # ROOT /\ e[1] \in Names
              /\ e \in Names \X (3 .. LAST) /\ g \in Names \X (3 .. LAST)
<1>1. ROOT \in Uppers(inode) /\ DirsGood(inode)
  BY InReach, InvariantParts
<1>2. \A x : Here(x) => x[1] = <<>> /\ x[2] = ROOT /\ inode[ROOT].pno = ROOT
  BY <1>1 DEF Here, DirsGood
<1>3. ASSUME NEW x, NEW e, OneDown(x, e)
      PROVE  /\ x[1] = <<e[1]>> /\ x[2] = e[2] /\ inode[x[2]].pno = ROOT
             /\ x[2] \in 3 .. LAST /\ x[2] \in Kids(inode, ROOT) /\ e[1] \in Names
             /\ e \in Names \X (3 .. LAST)
  <2>1. x[1] = <<e[1]>> /\ x[2] = e[2] /\ e \in Below(ROOT)
    BY <1>3 DEF OneDown
  <2>2. e \in Names \X (3 .. LAST) /\ e[2] \in Kids(inode, ROOT) /\ inode[e[2]].pno = ROOT
    BY <1>1, <2>1, BelowIs
  <2> QED
    BY <2>1, <2>2
<1>4. ASSUME NEW x, NEW e, NEW g, TwoDown(x, e, g)
      PROVE  /\ x[1] = <<e[1], g[1]>> /\ x[2] = g[2] /\ inode[x[2]].pno = e[2]
             /\ x[2] \in 3 .. LAST /\ x[2] \in Kids(inode, e[2]) /\ g[1] \in Names
             /\ e[2] \in Uppers(inode) /\ e[2] # ROOT /\ e[1] \in Names
             /\ e \in Names \X (3 .. LAST) /\ g \in Names \X (3 .. LAST)
  <2>1. /\ x[1] = <<e[1], g[1]>> /\ x[2] = g[2] /\ e \in Below(ROOT) /\ g \in Below(e[2])
        /\ inode[e[2]].isdir = 1
    BY <1>4 DEF TwoDown, Dir
  <2>2. e \in Names \X (3 .. LAST) /\ e[2] \in Kids(inode, ROOT)
    BY <1>1, <2>1, BelowIs
  <2>3. e[2] \in Uppers(inode) /\ e[2] # ROOT
    BY <2>1, <2>2, InReach, Shape
  <2>4. g \in Names \X (3 .. LAST) /\ g[2] \in Kids(inode, e[2]) /\ inode[g[2]].pno = e[2]
    BY <2>1, <2>3, BelowIs
  <2> QED
    BY <2>1, <2>2, <2>3, <2>4
<1> QED
  BY <1>2, <1>3, <1>4

LEMMA PathsApart ==
  /\ \A a : Len(<<a>>) = 1
  /\ \A a, b : Len(<<a, b>>) = 2
  /\ Len(<<>>) = 0
  /\ \A a, b : <<a>> = <<b>> => a = b
  /\ \A a, b, c, d : <<a, b>> = <<c, d>> => a = c /\ b = d
OBVIOUS

(* A path leads to one inode, and an inode is at one path. *)
LEMMA StoredOnce ==
  ASSUME IInv, NEW x \in Stored, NEW y \in Stored, x[1] = y[1] \/ x[2] = y[2]
  PROVE  x = y
<1>1. ROOT \in Uppers(inode) /\ ROOT \notin 3 .. LAST
  BY InReach, Shape
<1>2. ASSUME NEW v, NEW w, Here(v), v[1] = w[1] \/ v[2] = w[2],
             Here(w) \/ (\E e : OneDown(w, e)) \/ (\E e, g : TwoDown(w, e, g))
      PROVE  v = w
  <2>1. v[1] = <<>> /\ v[2] = ROOT
    BY <1>2, DownParts
  <2>2. \A e : ~ OneDown(w, e)
    BY <1>1, <1>2, <2>1, DownParts, PathsApart
  <2>3. \A e, g : ~ TwoDown(w, e, g)
    BY <1>1, <1>2, <2>1, DownParts, PathsApart
  <2> QED
    BY <1>2, <2>2, <2>3 DEF Here
<1>3. ASSUME NEW v, NEW w, NEW e, OneDown(v, e), v[1] = w[1] \/ v[2] = w[2],
             (\E f : OneDown(w, f)) \/ (\E f, g : TwoDown(w, f, g))
      PROVE  v = w
  <2>1. v[1] = <<e[1]>> /\ v[2] = e[2] /\ inode[v[2]].pno = ROOT
    BY <1>3, DownParts
  <2>2. ASSUME NEW f, OneDown(w, f)
        PROVE  v = w
    <3>1. w[1] = <<f[1]>> /\ w[2] = f[2]
      BY <2>2, DownParts
    <3>2. e[1] = f[1] \/ e[2] = f[2]
      BY <1>3, <2>1, <3>1, PathsApart
    <3>3. e \in Below(ROOT) /\ f \in Below(ROOT)
      BY <1>3, <2>2 DEF OneDown
    <3>4. e = f
      BY <1>1, <3>2, <3>3, BelowIs
    <3> QED
      BY <1>3, <2>2, <3>4 DEF OneDown
  <2>3. \A f, g : ~ TwoDown(w, f, g)
    BY <1>3, <2>1, DownParts, PathsApart
  <2> QED
    BY <1>3, <2>2, <2>3
<1>4. ASSUME NEW v, NEW w, NEW e, NEW g, NEW f, NEW h, TwoDown(v, e, g), TwoDown(w, f, h),
             v[1] = w[1] \/ v[2] = w[2]
      PROVE  v = w
  <2>1. /\ v[1] = <<e[1], g[1]>> /\ v[2] = g[2] /\ inode[v[2]].pno = e[2]
        /\ e[2] \in Uppers(inode)
    BY <1>4, DownParts
  <2>2. w[1] = <<f[1], h[1]>> /\ w[2] = h[2] /\ inode[w[2]].pno = f[2]
    BY <1>4, DownParts
  <2>3. e[1] = f[1] \/ e[2] = f[2]
    BY <1>4, <2>1, <2>2, PathsApart
  <2>4. e \in Below(ROOT) /\ f \in Below(ROOT) /\ g \in Below(e[2]) /\ h \in Below(f[2])
    BY <1>4 DEF TwoDown
  <2>5. e = f
    BY <1>1, <2>3, <2>4, BelowIs
  <2>6. g[1] = h[1] \/ g[2] = h[2]
    BY <1>4, <2>1, <2>2, PathsApart
  <2>7. g = h
    BY <2>1, <2>4, <2>5, <2>6, BelowIs
  <2> QED
    BY <1>4, <2>5, <2>7 DEF TwoDown
<1>5. /\ Here(x) \/ (\E e : OneDown(x, e)) \/ (\E e, g : TwoDown(x, e, g))
      /\ Here(y) \/ (\E e : OneDown(y, e)) \/ (\E e, g : TwoDown(y, e, g))
  BY StoredIs
<1>6. CASE Here(x)
  BY <1>2, <1>5, <1>6
<1>7. CASE Here(y)
  BY <1>2, <1>5, <1>7
<1>8. CASE ~ Here(x) /\ ~ Here(y)
  <2>1. CASE \E e : OneDown(x, e)
    BY <1>3, <1>5, <1>8, <2>1
  <2>2. CASE \E e : OneDown(y, e)
    BY <1>3, <1>5, <1>8, <2>2
  <2>3. CASE (\E e, g : TwoDown(x, e, g)) /\ (\E e, g : TwoDown(y, e, g))
    <3>1. PICK e, g : TwoDown(x, e, g)
      BY <2>3
    <3>2. PICK f, h : TwoDown(y, f, h)
      BY <2>3
    <3> QED
      BY <1>4, <3>1, <3>2
  <2> QED
    BY <1>5, <1>8, <2>1, <2>2, <2>3
<1> QED
  BY <1>6, <1>7, <1>8

LEMMA StoredReached ==
  ASSUME IInv, NEW x \in Stored
  PROVE  /\ x[2] \in Reach(inode) /\ x[2] \in Numbers /\ x[2] >= 2
         /\ PagesOf(x[2]) = Own(inode, x[2])
<1>1. x[2] \in Reach(inode)
  <2>1. Here(x) \/ (\E e : OneDown(x, e)) \/ (\E e, g : TwoDown(x, e, g))
    BY StoredIs
  <2>2. CASE Here(x)
    BY <2>2, DownParts, InReach
  <2>3. CASE \E e : OneDown(x, e)
    <3>1. x[2] \in Kids(inode, ROOT) /\ ROOT \in Uppers(inode)
      BY <2>3, DownParts, InReach
    <3> QED
      BY <3>1, InReach
  <2>4. CASE \E e, g : TwoDown(x, e, g)
    <3>1. PICK e, g : TwoDown(x, e, g)
      BY <2>4
    <3>2. x[2] \in Kids(inode, e[2]) /\ e[2] \in Uppers(inode)
      BY <3>1, DownParts
    <3> QED
      BY <3>2, InReach
  <2> QED
    BY <2>1, <2>2, <2>3, <2>4
<1>2. DirsGood(inode) /\ inode \in Tables
  BY InvariantParts
<1>3. x[2] \in Numbers /\ x[2] >= 2
  BY <1>1, <1>2, UpperParts, Shape
<1>4. inode[x[2]].pages \in Seq(PageNumbers)
  BY <1>2, <1>3, NodeParts
<1>5. PagesOf(x[2]) = Own(inode, x[2])
  BY <1>4 DEF PagesOf, Own, Range
<1> QED
  BY <1>1, <1>3, <1>5

(* No inode is used twice, as directory, file or page, under whatever      *)
(* path, and none that is used is free: through entries and pages that     *)
(* could not be had, reverting, and writes and removals that overlap.      *)
THEOREM InodesStayOwned == Spec => []InodesOwned
<1>1. IInv => InodesOwned
  <2> SUFFICES ASSUME IInv PROVE InodesOwned
    OBVIOUS
  <2>1. Owned(inode, Reach(inode), free)
    BY InvariantParts
  <2>2. /\ \A n \in Reach(inode) : n \notin free /\ Own(inode, n) \cap (Reach(inode) \cup free) = {}
        /\ \A m, n \in Reach(inode) : m # n => Own(inode, m) \cap Own(inode, n) = {}
    BY <2>1 DEF Owned
  <2>3. InodesOf(Stored) \cap free = {}
    <3>1. \A x \in Stored : ({x[2]} \cup PagesOf(x[2])) \cap free = {}
      BY <2>2, StoredReached
    <3> QED
      BY <3>1 DEF InodesOf
  <2>4. ASSUME NEW x \in Stored, NEW y \in Stored
        PROVE  /\ x[2] = y[2] => x = y
               /\ x[2] \notin PagesOf(y[2])
               /\ x # y => PagesOf(x[2]) \cap PagesOf(y[2]) = {}
    <3>1. /\ x[2] \in Reach(inode) /\ PagesOf(x[2]) = Own(inode, x[2])
          /\ y[2] \in Reach(inode) /\ PagesOf(y[2]) = Own(inode, y[2])
      BY StoredReached
    <3>2. x[2] = y[2] => x = y
      BY StoredOnce
    <3> QED
      BY <2>2, <3>1, <3>2
  <2> QED
    BY <2>3, <2>4 DEF InodesOwned
<1> QED
  BY <1>1, Inductive, PTL

-----------------------------------------------------------------------------
(***************************************************************************)
(* Lookups.                                                                *)
(***************************************************************************)
LEMMA NameLeads ==
  ASSUME IInv, NEW n \in Uppers(inode), NEW e \in Below(n)
  PROVE  path_to_inum_elem(Listings, e[1], n) = e[2]
<1>1. inode \in Tables /\ DirsGood(inode)
  BY InvariantParts
<1>2. e[1] \in Names
  BY BelowIs
<1>3. PICK i \in Slots(inode, n) : e = inode[n].ents[i]
  BY BelowIs
<1> DEFINE s == Slot(n, e[1])
<1>4. s # 0
  BY <1>1, <1>2, <1>3, NameInDirectory
<1>5. /\ s \in Slots(inode, n) /\ inode[n].ents[s][1] = e[1]
      /\ path_to_inum_elem(Listings, e[1], n) = Kid(inode, n, s)
  BY <1>1, <1>2, <1>4, NameInDirectory
<1> HIDE DEF s
<1>6. inode[n].ents[s] \in Below(n)
  BY <1>5, BelowIs
<1>7. inode[n].ents[s] = e
  BY <1>5, <1>6, BelowIs
<1> QED
  BY <1>5, <1>7 DEF Kid

(* The inode of the directory that a path is in. *)
Up(x) == IF x[1] = <<>> THEN ROOT ELSE (CHOOSE y \in Stored : y[1] = Front(x[1]))[2]

LEMMA UpIs ==
  ASSUME IInv, NEW x \in Stored, x[1] # <<>>, NEW y \in Stored, y[1] = Front(x[1])
  PROVE  Up(x) = y[2]
<1> DEFINE z == CHOOSE v \in Stored : v[1] = Front(x[1])
<1>1. z \in Stored /\ z[1] = Front(x[1])
  OBVIOUS
<1>2. Up(x) = z[2]
  BY DEF Up
<1> HIDE DEF z
<1>3. z = y
  BY <1>1, StoredOnce
<1> QED
  BY <1>2, <1>3

LEMMA PathLeads ==
  ASSUME IInv, NEW x \in Stored
  PROVE  /\ path_to_inum(Listings, x[1]) = [inum |-> x[2], parent |-> Up(x)]
         /\ inode[x[2]].pno = Up(x)
<1>1. ROOT \in Uppers(inode)
  BY InReach
<1>2. Here(x) \/ (\E e : OneDown(x, e)) \/ (\E e, g : TwoDown(x, e, g))
  BY StoredIs
<1>3. CASE Here(x)
  <2>1. x[1] = <<>> /\ x[2] = ROOT /\ inode[x[2]].pno = ROOT
    BY <1>3, DownParts
  <2> QED
    BY <2>1, WalkNone DEF path_to_inum, Up
<1>4. ASSUME NEW e, OneDown(x, e)
      PROVE  /\ path_to_inum(Listings, x[1]) = [inum |-> x[2], parent |-> Up(x)]
             /\ inode[x[2]].pno = Up(x)
  <2>1. x[1] = <<e[1]>> /\ x[2] = e[2] /\ inode[x[2]].pno = ROOT
    BY <1>4, DownParts
  <2>2. x[1] # <<>> /\ Front(x[1]) = <<>>
    BY <2>1, PathParts
  <2> DEFINE y == <<<<>>, ROOT>>
  <2>3. y \in Stored /\ y[1] = <<>> /\ y[2] = ROOT
    BY StoredIs DEF Here
  <2> HIDE DEF y
  <2>4. Up(x) = ROOT
    BY <2>2, <2>3, UpIs
  <2>5. e \in Below(ROOT)
    BY <1>4 DEF OneDown
  <2>6. Walk(Listings, x[1]) = x[2]
    BY <1>1, <2>1, <2>5, NameLeads, WalkOne
  <2> QED
    BY <2>1, <2>2, <2>4, <2>6, WalkNone DEF path_to_inum
<1>5. ASSUME NEW e, NEW g, TwoDown(x, e, g)
      PROVE  /\ path_to_inum(Listings, x[1]) = [inum |-> x[2], parent |-> Up(x)]
             /\ inode[x[2]].pno = Up(x)
  <2>1. /\ x[1] = <<e[1], g[1]>> /\ x[2] = g[2] /\ inode[x[2]].pno = e[2]
        /\ e[2] \in Uppers(inode)
    BY <1>5, DownParts
  <2>2. x[1] # <<>> /\ Front(x[1]) = <<e[1]>>
    BY <2>1, PathParts
  <2>3. e \in Below(ROOT) /\ g \in Below(e[2])
    BY <1>5 DEF TwoDown
  <2> DEFINE y == <<<<e[1]>>, e[2]>>
  <2>4. y \in Stored /\ y[1] = <<e[1]>> /\ y[2] = e[2]
    BY <2>3, StoredIs DEF OneDown
  <2> HIDE DEF y
  <2>5. Up(x) = e[2]
    BY <2>2, <2>4, UpIs
  <2>6. path_to_inum_elem(Listings, e[1], ROOT) = e[2]
    BY <1>1, <2>3, NameLeads
  <2>7. path_to_inum_elem(Listings, g[1], e[2]) = g[2]
    BY <2>1, <2>3, NameLeads
  <2>8. Walk(Listings, x[1]) = x[2] /\ Walk(Listings, Front(x[1])) = e[2]
    BY <2>1, <2>2, <2>6, <2>7, WalkOne, WalkTwo
  <2> QED
    BY <2>1, <2>2, <2>5, <2>8 DEF path_to_inum
<1> QED
  BY <1>2, <1>3, <1>4, <1>5

(* A directory in the tree: its dots, and as many names as links. *)
LEMMA DotsLead ==
  ASSUME inode \in Tables, NEW n \in Numbers, n >= 2, DirGood(inode, n)
  PROVE  /\ path_to_inum_elem(Listings, Dot, n) = n
         /\ path_to_inum_elem(Listings, DotDot, n) = inode[n].pno
<1>1. path_to_inum_elem(Listings, Dot, n) = n
  <2>1. n \in 0 .. USHORTS - 1
    BY NamespaceAssumption, AsUShort DEF Numbers
  <2>2. (USHORTS + n) % USHORTS = n /\ ~ (n < 2)
    BY <2>1, AsUShort
  <2> QED
    BY <2>2 DEF path_to_inum_elem
<1>2. path_to_inum_elem(Listings, DotDot, n) = inode[n].pno
  <2> DEFINE es == inode[n].ents
             s == SlotOf(es, DotDot)
  <2>1. es \in Seq(Entries)
    BY NodeParts
  <2>2. /\ s \in 0 .. Len(es)
        /\ s = 0 => \A i \in 1 .. Len(es) : es[i][1] # DotDot
        /\ s # 0 => es[s][1] = DotDot
    BY <2>1, NameFound
  <2>3. DotDot # Dot /\ DotDot \notin Names
    BY NamespaceAssumption
  <2>4. path_to_inum_elem(Listings, DotDot, n) = IF s = 0 THEN NotFound ELSE es[s][2]
    BY <2>3, ElemIs
  <2>5. /\ Len(es) \in Nat /\ Len(es) >= 2 /\ es[1] = <<Dot, n>>
        /\ es[2] = <<DotDot, inode[n].pno>>
        /\ \A i \in 3 .. Len(es) : es[i] \in Names \X (3 .. LAST)
    BY <2>1 DEF DirGood, Count, Slots
  <2> HIDE DEF es, s
  <2>6. s # 0
    BY <2>2, <2>5
  <2>7. s # 1
    BY <2>2, <2>3, <2>5
  <2>8. s \notin 3 .. Len(es)
    BY <2>2, <2>3, <2>5
  <2>9. s = 2
    BY <2>2, <2>5, <2>6, <2>7, <2>8
  <2> QED
    BY <2>4, <2>5, <2>9
<1> QED
  BY <1>1, <1>2

LEMMA NamesCounted ==
  ASSUME inode \in Tables, NEW n \in Numbers, DirGood(inode, n)
  PROVE  Cardinality({inode[n].ents[i][1] : i \in 1 .. Len(inode[n].ents)}) = Len(inode[n].ents)
<1> DEFINE es == inode[n].ents
           I == 1 .. Len(es)
           g == [i \in I |-> es[i][1]]
<1>1. es \in Seq(Entries)
  BY NodeParts
<1>2. /\ Len(es) \in Nat /\ es[1][1] = Dot /\ es[2][1] = DotDot
      /\ \A i \in 3 .. Len(es) : es[i][1] \in Names
      /\ \A i, j \in 3 .. Len(es) : es[i][1] = es[j][1] => i = j
  BY <1>1 DEF DirGood, Count, Slots
<1>3. Dot # DotDot /\ Dot \notin Names /\ DotDot \notin Names
  BY NamespaceAssumption
<1> HIDE DEF es
<1>4. \A i, j \in I : g[i] = g[j] => i = j
  <2>1. ASSUME NEW i \in I, NEW j \in I, es[i][1] = es[j][1]
        PROVE  i = j
    <3>1. i = 1 \/ i = 2 \/ i \in 3 .. Len(es)
      BY <1>2
    <3>2. j = 1 \/ j = 2 \/ j \in 3 .. Len(es)
      BY <1>2
    <3> QED
      BY <1>2, <1>3, <2>1, <3>1, <3>2
  <2> QED
    BY <2>1
<1>5. IsFiniteSet(I) /\ Cardinality(I) = Len(es)
  <2> DEFINE k == Len(es)
  <2>1. k \in Int /\ k >= 0 /\ 1 \in Int
    BY <1>2
  <2> HIDE DEF k
  <2>2. IsFiniteSet(1 .. k) /\ Cardinality(1 .. k) = IF 1 > k THEN 0 ELSE k - 1 + 1
    BY <2>1, FS_Interval
  <2>3. Cardinality(1 .. k) = k
    BY <2>1, <2>2
  <2> QED
    BY <2>2, <2>3 DEF k
<1>6. Cardinality({g[i] : i \in I}) = Cardinality(I)
  <2> HIDE DEF g, I
  <2> QED
    BY <1>4, <1>5, CountImage
<1>7. {g[i] : i \in I} = {es[i][1] : i \in 1 .. Len(es)}
  OBVIOUS
<1> QED
  BY <1>5, <1>6, <1>7 DEF es

(* A path that programs use, in a directory, leads nowhere or to what is   *)
(* stored there.                                                           *)
LEMMA OthersNotFound ==
  ASSUME IInv, NEW p \in UsedPaths, IsDir(Front(p)), \A x \in Stored : x[1] # p
  PROVE  Inum(p) = NotFound
<1>1. inode \in Tables /\ DirsGood(inode) /\ ROOT \in Uppers(inode)
  BY InvariantParts, InReach
<1> DEFINE u == Parent(p)
           a == path_basename(p)
           s == Slot(u, a)
           e == inode[u].ents[s]
<1>2. /\ u \in Uppers(inode) /\ a \in Names /\ u = Inum(Front(p))
      /\ Inum(p) = path_to_inum_elem(Listings, a, u)
  BY <1>1, CallLooksUp
<1>3. CASE s = 0
  BY <1>1, <1>2, <1>3, NameInDirectory
<1>4. CASE s # 0
  <2>1. s \in Slots(inode, u) /\ e[1] = a
    BY <1>1, <1>2, <1>4, NameInDirectory
  <2>2. e \in Below(u)
    BY <1>2, <2>1, BelowIs
  <2> HIDE DEF u, a, s, e
  <2>3. ASSUME NEW b \in Names, p = <<b>>
        PROVE  FALSE
    <3>1. Front(p) = <<>> /\ Last(p) = b
      BY <2>3, PathParts
    <3>2. u = ROOT /\ a = b
      BY <1>2, <3>1, WalkNone DEF Inum, path_to_inum, path_basename, a
    <3> DEFINE x == <<<<e[1]>>, e[2]>>
    <3>3. OneDown(x, e)
      BY <2>2, <3>2 DEF OneDown
    <3>4. x \in Stored /\ x[1] = p
      BY <2>1, <2>3, <3>2, <3>3, StoredIs
    <3> QED
      BY <3>4
  <2>4. ASSUME NEW b \in Names, NEW c \in Names, p = <<b, c>>
        PROVE  FALSE
    <3>1. Front(p) = <<b>> /\ Last(p) = c
      BY <2>4, PathParts
    <3>2. u = path_to_inum_elem(Listings, b, ROOT) /\ a = c
      BY <1>2, <3>1, WalkOne DEF Inum, path_to_inum, path_basename, a
    <3>3. u # NotFound /\ Dir(u)
      BY <1>1, <1>2, UpperParts DEF NotFound, Dir
    <3> DEFINE t == Slot(ROOT, b)
               f == inode[ROOT].ents[t]
    <3>4. t # 0
      BY <1>1, <3>2, <3>3, NameInDirectory
    <3>5. t \in Slots(inode, ROOT) /\ f[1] = b /\ u = Kid(inode, ROOT, t)
      BY <1>1, <3>2, <3>4, NameInDirectory
    <3>6. f \in Below(ROOT) /\ u = f[2]
      BY <1>1, <3>5, BelowIs DEF Kid
    <3> HIDE DEF f, t
    <3> DEFINE x == <<<<f[1], e[1]>>, e[2]>>
    <3>7. TwoDown(x, f, e)
      BY <2>2, <3>3, <3>6 DEF TwoDown
    <3>8. x \in Stored /\ x[1] = p
      BY <2>1, <2>4, <3>2, <3>5, <3>7, StoredIs
    <3> QED
      BY <3>8
  <2>5. p \in Top \/ p \in Deep
    BY DEF UsedPaths
  <2> QED
    BY <2>3, <2>4, <2>5 DEF Top, Deep
<1> QED
  BY <1>3, <1>4

(* What stat, ls and the lookup tell agrees with the tree: each path leads *)
(* to its inode and its parent's, a directory names itself and its parent, *)
(* and counts each name as a link; no other path leads anywhere.           *)
THEOREM LookupsStayExact == Spec => []LookupExact
<1>1. IInv => LookupExact
  <2> SUFFICES ASSUME IInv PROVE LookupExact
    OBVIOUS
  <2>1. inode \in Tables /\ DirsGood(inode)
    BY InvariantParts
  <2>2. ASSUME NEW x \in Stored
        PROVE  /\ path_to_inum(Listings, x[1]) = [inum |-> x[2], parent |-> Up(x)]
               /\ inode[x[2]].pno = Up(x)
               /\ Dir(x[2]) =>
                    /\ path_to_inum_elem(Listings, Dot, x[2]) = x[2]
                    /\ path_to_inum_elem(Listings, DotDot, x[2]) = Up(x)
                    /\ sfs_getattr(x[1]).nlink = Cardinality(sfs_readdir(x[1]))
                    /\ sfs_getattr(x[1]).size = Cardinality(sfs_readdir(x[1]))
    <3> DEFINE n == x[2]
    <3>1. path_to_inum(Listings, x[1]) = [inum |-> n, parent |-> Up(x)] /\ inode[n].pno = Up(x)
      BY PathLeads
    <3>2. n \in Reach(inode) /\ n \in Numbers /\ n >= 2
      BY StoredReached
    <3>3. Inum(x[1]) = n
      BY <3>1 DEF Inum
    <3> HIDE DEF n
    <3>4. ASSUME Dir(n)
          PROVE  /\ path_to_inum_elem(Listings, Dot, n) = n
                 /\ path_to_inum_elem(Listings, DotDot, n) = Up(x)
                 /\ sfs_getattr(x[1]).nlink = Cardinality(sfs_readdir(x[1]))
                 /\ sfs_getattr(x[1]).size = Cardinality(sfs_readdir(x[1]))
      <4>1. DirGood(inode, n)
        BY <2>1, <3>2, <3>4 DEF DirsGood, Dir
      <4>2. /\ path_to_inum_elem(Listings, Dot, n) = n
            /\ path_to_inum_elem(Listings, DotDot, n) = Up(x)
        BY <2>1, <3>1, <3>2, <4>1, DotsLead
      <4>3. Cardinality(sfs_readdir(x[1])) = Len(inode[n].ents)
        BY <2>1, <3>2, <3>3, <4>1, NamesCounted DEF sfs_readdir
      <4>4. sfs_getattr(x[1]).nlink = inode[n].nlink
            /\ sfs_getattr(x[1]).size = Len(inode[n].ents)
        BY <3>3 DEF sfs_getattr
      <4>5. inode[n].nlink = Len(inode[n].ents)
        BY <4>1 DEF DirGood, Count
      <4> QED
        BY <4>2, <4>3, <4>4, <4>5
    <3> QED
      BY <3>1, <3>4 DEF n
  <2>3. ASSUME NEW p \in UsedPaths \ {x[1] : x \in Stored}, IsDir(Front(p))
        PROVE  sfs_open(p) = -ENOENT
    <3>1. Inum(p) = NotFound
      BY <2>3, OthersNotFound
    <3> QED
      BY <3>1 DEF sfs_open, Found, NotFound
  <2> QED
    BY <2>2, <2>3 DEF LookupExact, Up
<1> QED
  BY <1>1, Inductive, PTL

-----------------------------------------------------------------------------
(***************************************************************************)
(* The tree of names, in an inode table t.                                 *)
(***************************************************************************)
BelowIn(t, n) == {t[n].ents[i] : i \in 3 .. Len(t[n].ents)}

StoredIn(t) ==
  {<<<<>>, ROOT>>}
    \cup {<<<<e[1]>>, e[2]>> : e \in BelowIn(t, ROOT)}
    \cup UNION {{<<<<e[1], g[1]>>, g[2]>> : g \in BelowIn(t, e[2])} :
                   e \in {x \in BelowIn(t, ROOT) : t[x[2]].isdir = 1}}

PathsIn(t) == {x[1] : x \in StoredIn(t)}

DirAt(t, p) == \E x \in StoredIn(t) : x[1] = p /\ t[x[2]].isdir = 1

TreeOf(t) == [p \in PathsIn(t) |-> IF DirAt(t, p) THEN "dir" ELSE "file"]

LEMMA TreeNow ==
  /\ TreeStored = TreeOf(inode) /\ Stored = StoredIn(inode)
  /\ \A n : Below(n) = BelowIn(inode, n)
BY DEF TreeStored, TreeOf, PathsIn, DirAt, Stored, StoredIn, Below, BelowIn, Dir

LEMMA TreeNext == TreeStored' = TreeOf(inode')
BY DEF TreeStored, TreeOf, PathsIn, DirAt, Stored, StoredIn, Below, BelowIn, Dir

LEMMA TreeParts ==
  ASSUME NEW t
  PROVE  /\ DOMAIN TreeOf(t) = PathsIn(t)
         /\ \A p \in PathsIn(t) : TreeOf(t)[p] = IF DirAt(t, p) THEN "dir" ELSE "file"
BY DEF TreeOf

One(t, x, e) == e \in BelowIn(t, ROOT) /\ x = <<<<e[1]>>, e[2]>>
Two(t, x, e, g) ==
  /\ e \in BelowIn(t, ROOT) /\ t[e[2]].isdir = 1
  /\ g \in BelowIn(t, e[2]) /\ x = <<<<e[1], g[1]>>, g[2]>>

LEMMA StoredInIs ==
  ASSUME NEW t
  PROVE  /\ \A x \in StoredIn(t) : Here(x) \/ (\E e : One(t, x, e)) \/ (\E e, g : Two(t, x, e, g))
         /\ \A x : Here(x) => x \in StoredIn(t)
         /\ \A x, e : One(t, x, e) => x \in StoredIn(t)
         /\ \A x, e, g : Two(t, x, e, g) => x \in StoredIn(t)
BY DEF StoredIn, Here, One, Two

LEMMA EntriesBelow ==
  ASSUME NEW t, DirsGood(t), NEW n \in Uppers(t)
  PROVE  /\ BelowIn(t, n) = {t[n].ents[i] : i \in Slots(t, n)}
         /\ \A e \in BelowIn(t, n) :
              /\ e \in Names \X (3 .. LAST) /\ e[2] \in Reach(t) /\ t[e[2]].pno = n
              /\ e[2] # ROOT /\ (n = ROOT /\ t[e[2]].isdir = 1 => e[2] \in Uppers(t))
         /\ \A e, g \in BelowIn(t, n) : e[1] = g[1] \/ e[2] = g[2] => e = g
<1>1. DirGood(t, n)
  BY UpperParts
<1>2. BelowIn(t, n) = {t[n].ents[i] : i \in Slots(t, n)}
  BY DEF BelowIn, Slots, Count
<1>3. ASSUME NEW i \in Slots(t, n), NEW e, e = t[n].ents[i]
      PROVE  /\ e \in Names \X (3 .. LAST) /\ e[2] \in Reach(t) /\ t[e[2]].pno = n
             /\ e[2] # ROOT /\ (n = ROOT /\ t[e[2]].isdir = 1 => e[2] \in Uppers(t))
  <2>1. e \in Names \X (3 .. LAST) /\ e[2] = Kid(t, n, i) /\ e[2] \in Kids(t, n)
    BY <1>1, <1>3 DEF DirGood, Kid, Kids
  <2>2. e[2] \in Reach(t) /\ t[e[2]].pno = n /\ e[2] \in 3 .. LAST
    BY <2>1, UpperParts
  <2>3. n = ROOT /\ t[e[2]].isdir = 1 => e[2] \in Uppers(t)
    BY <2>1, InReach
  <2> QED
    BY <2>1, <2>2, <2>3, Shape
<1>4. \A e, g \in BelowIn(t, n) : e[1] = g[1] \/ e[2] = g[2] => e = g
  <2>1. ASSUME NEW i \in Slots(t, n), NEW j \in Slots(t, n),
               t[n].ents[i][1] = t[n].ents[j][1] \/ t[n].ents[i][2] = t[n].ents[j][2]
        PROVE  i = j
    BY <1>1, <2>1 DEF DirGood, Kid
  <2> QED
    BY <1>2, <2>1
<1> QED
  BY <1>2, <1>3, <1>4

LEMMA StoredInReach ==
  ASSUME NEW t, DirsGood(t), NEW x \in StoredIn(t)
  PROVE  x[2] \in Reach(t)
<1>1. ROOT \in Uppers(t) /\ ROOT \in Reach(t)
  BY InReach
<1>2. Here(x) \/ (\E e : One(t, x, e)) \/ (\E e, g : Two(t, x, e, g))
  BY StoredInIs
<1>3. CASE Here(x)
  BY <1>1, <1>3 DEF Here
<1>4. ASSUME NEW e, One(t, x, e)
      PROVE  x[2] \in Reach(t)
  BY <1>1, <1>4, EntriesBelow DEF One
<1>5. ASSUME NEW e, NEW g, Two(t, x, e, g)
      PROVE  x[2] \in Reach(t)
  <2>1. e \in BelowIn(t, ROOT) /\ t[e[2]].isdir = 1 /\ g \in BelowIn(t, e[2]) /\ x[2] = g[2]
    BY <1>5 DEF Two
  <2>2. e[2] \in Uppers(t)
    BY <1>1, <2>1, EntriesBelow
  <2> QED
    BY <2>1, <2>2, EntriesBelow
<1> QED
  BY <1>2, <1>3, <1>4, <1>5

(* Trees are the same that have the same inodes at the same paths, and the *)
(* same directories.                                                       *)
SameKind(t, u, S) == \A x \in S : u[x[2]].isdir = t[x[2]].isdir

LEMMA SameTreeOf ==
  ASSUME NEW t, NEW u, StoredIn(u) = StoredIn(t), SameKind(t, u, StoredIn(t))
  PROVE  TreeOf(u) = TreeOf(t)
<1>1. PathsIn(u) = PathsIn(t)
  BY DEF PathsIn
<1>2. \A p : DirAt(u, p) <=> DirAt(t, p)
  BY DEF DirAt, SameKind
<1> QED
  BY <1>1, <1>2 DEF TreeOf

LEMMA GrownTree ==
  ASSUME NEW t, NEW u, NEW p, NEW k, StoredIn(u) = StoredIn(t) \cup {<<p, k>>},
         SameKind(t, u, StoredIn(t)), p \notin PathsIn(t)
  PROVE  TreeOf(u) \in Abstract!Created(TreeOf(t), p)
<1> DEFINE f == TreeOf(t)
           kind == IF DirAt(u, p) THEN "dir" ELSE "file"
<1>1. DOMAIN f = PathsIn(t) /\ PathsIn(u) = PathsIn(t) \cup {p}
  <2>1. \A x \in StoredIn(u) : x \in StoredIn(t) \/ x[1] = p
    OBVIOUS
  <2>2. <<p, k>> \in StoredIn(u) /\ <<p, k>>[1] = p /\ StoredIn(t) \subseteq StoredIn(u)
    OBVIOUS
  <2>3. PathsIn(u) = PathsIn(t) \cup {p}
    BY <2>1, <2>2 DEF PathsIn
  <2> QED
    BY <2>3, TreeParts
<1>2. \A q \in PathsIn(t) : DirAt(u, q) <=> DirAt(t, q)
  <2>1. \A x \in StoredIn(u) : x[1] # p => x \in StoredIn(t)
    OBVIOUS
  <2>2. StoredIn(t) \subseteq StoredIn(u)
    OBVIOUS
  <2> QED
    BY <2>1, <2>2 DEF DirAt, SameKind
<1>3. \A q \in PathsIn(t) : f[q] = IF DirAt(u, q) THEN "dir" ELSE "file"
  BY <1>2, TreeParts
<1> HIDE DEF f
<1>4. TreeOf(u) = [q \in DOMAIN f \cup {p} |-> IF q = p THEN kind ELSE f[q]]
  <2>1. TreeOf(u) = [q \in DOMAIN f \cup {p} |-> IF DirAt(u, q) THEN "dir" ELSE "file"]
    BY <1>1 DEF TreeOf
  <2> QED
    BY <1>1, <1>3, <2>1
<1>5. kind \in {"dir", "file"}
  OBVIOUS
<1> HIDE DEF kind
<1> QED
  BY <1>4, <1>5 DEF Abstract!Created, f

(* The module of trees has these operators of its own. *)
LEMMA SameOperators ==
  /\ \A p, o : Abstract!IsPrefix(p, o) <=> IsPrefix(p, o)
  /\ \A p : Abstract!Front(p) = Front(p)
BY DEF Abstract!IsPrefix, IsPrefix, Abstract!Front, Front

LEMMA PrunedTree ==
  ASSUME NEW t, NEW u, NEW p, StoredIn(u) = {x \in StoredIn(t) : ~ IsPrefix(p, x[1])},
         SameKind(t, u, StoredIn(u))
  PROVE  TreeOf(u) = Abstract!Pruned(TreeOf(t), p)
<1> DEFINE f == TreeOf(t)
           D == {o \in DOMAIN f : ~ IsPrefix(p, o)}
<1>1. DOMAIN f = PathsIn(t)
  BY TreeParts
<1>2. PathsIn(u) = D
  BY <1>1 DEF PathsIn
<1>3. \A q \in PathsIn(u) : DirAt(u, q) <=> DirAt(t, q)
  <2>1. ASSUME NEW q \in PathsIn(u)
        PROVE  DirAt(u, q) <=> DirAt(t, q)
    <3>1. ~ IsPrefix(p, q)
      BY <1>2
    <3>2. \A x : x \in StoredIn(t) /\ x[1] = q <=> x \in StoredIn(u) /\ x[1] = q
      BY <3>1
    <3> QED
      BY <3>2 DEF DirAt, SameKind
  <2> QED
    BY <2>1
<1>4. \A q \in D : f[q] = IF DirAt(u, q) THEN "dir" ELSE "file"
  BY <1>1, <1>2, <1>3, TreeParts
<1>5. TreeOf(u) = [q \in D |-> IF DirAt(u, q) THEN "dir" ELSE "file"]
  BY <1>2 DEF TreeOf
<1> HIDE DEF f
<1>6. [q \in D |-> f[q]] = [q \in D |-> IF DirAt(u, q) THEN "dir" ELSE "file"]
  BY <1>4
<1>7. {o \in DOMAIN f : ~ Abstract!IsPrefix(p, o)} = D
  BY SameOperators
<1> HIDE DEF D
<1> QED
  BY <1>5, <1>6, <1>7 DEF Abstract!Pruned, f

LEMMA Beginnings ==
  /\ \A a : SubSeq(<<a>>, 1, 1) = <<a>>
  /\ \A a, b : SubSeq(<<a, b>>, 1, 1) = <<a>> /\ SubSeq(<<a, b>>, 1, 2) = <<a, b>>
<1>1. ASSUME NEW a
      PROVE  SubSeq(<<a>>, 1, 1) = <<a>>
  <2> DEFINE s == <<a>>
             c == SubSeq(s, 1, 1)
  <2>1. s \in Seq({a}) /\ Len(s) = 1 /\ s[1] = a
    OBVIOUS
  <2> HIDE DEF s
  <2>2. c \in Seq({a}) /\ Len(c) = 1 /\ c[1] = a
    BY <2>1, Cut
  <2> HIDE DEF c
  <2>3. c = [i \in 1 .. 1 |-> a] /\ <<a>> = [i \in 1 .. 1 |-> a]
    BY <2>2
  <2> QED
    BY <2>3 DEF c, s
<1>2. ASSUME NEW a, NEW b
      PROVE  SubSeq(<<a, b>>, 1, 1) = <<a>> /\ SubSeq(<<a, b>>, 1, 2) = <<a, b>>
  <2> DEFINE s == <<a, b>>
             c == SubSeq(s, 1, 1)
             d == SubSeq(s, 1, 2)
  <2>1. s \in Seq({a, b}) /\ Len(s) = 2 /\ s[1] = a /\ s[2] = b
    OBVIOUS
  <2> HIDE DEF s
  <2>2. c \in Seq({a, b}) /\ Len(c) = 1 /\ c[1] = a
    BY <2>1, Cut
  <2>3. d \in Seq({a, b}) /\ Len(d) = 2 /\ d[1] = a /\ d[2] = b
    BY <2>1, Cut
  <2> HIDE DEF c, d
  <2>4. c = [i \in 1 .. 1 |-> a] /\ <<a>> = [i \in 1 .. 1 |-> a]
    BY <2>2
  <2>5. d = [i \in 1 .. 2 |-> IF i = 1 THEN a ELSE b]
    BY <2>3
  <2>6. s = [i \in 1 .. 2 |-> IF i = 1 THEN a ELSE b]
    BY <2>1
  <2> QED
    BY <2>4, <2>5, <2>6 DEF c, d, s
<1> QED
  BY <1>1, <1>2

LEMMA PrefixOne ==
  /\ \A a : ~ IsPrefix(<<a>>, <<>>)
  /\ \A a, b : IsPrefix(<<a>>, <<b>>) <=> a = b
  /\ \A a, b, c : IsPrefix(<<a>>, <<b, c>>) <=> a = b
<1>1. \A a : ~ IsPrefix(<<a>>, <<>>)
  BY PathsApart DEF IsPrefix
<1>2. \A a, b : IsPrefix(<<a>>, <<b>>) <=> <<a>> = <<b>>
  BY PathsApart, Beginnings DEF IsPrefix
<1>3. \A a, b, c : IsPrefix(<<a>>, <<b, c>>) <=> <<a>> = <<b>>
  BY PathsApart, Beginnings DEF IsPrefix
<1> QED
  BY <1>1, <1>2, <1>3, PathsApart

LEMMA PrefixTwo ==
  /\ \A a, b : ~ IsPrefix(<<a, b>>, <<>>)
  /\ \A a, b, c : ~ IsPrefix(<<a, b>>, <<c>>)
  /\ \A a, b, c, d : IsPrefix(<<a, b>>, <<c, d>>) <=> a = c /\ b = d
<1>1. \A a, b : ~ IsPrefix(<<a, b>>, <<>>)
  BY PathsApart DEF IsPrefix
<1>2. \A a, b, c : ~ IsPrefix(<<a, b>>, <<c>>)
  BY PathsApart DEF IsPrefix
<1>3. \A a, b, c, d : IsPrefix(<<a, b>>, <<c, d>>) <=> <<a, b>> = <<c, d>>
  BY PathsApart, Beginnings DEF IsPrefix
<1> QED
  BY <1>1, <1>2, <1>3, PathsApart

(* A name in the directory n is at the end of the path p. *)
At(t, n, name, p) ==
  \/ n = ROOT /\ p = <<name>>
  \/ \E d \in BelowIn(t, ROOT) : d[2] = n /\ t[n].isdir = 1 /\ p = <<d[1], name>>

(* A call that changes no directory. *)
LEMMA AlikeStored ==
  ASSUME NEW t, NEW u, DirsGood(t), Alike(t, u)
  PROVE  StoredIn(u) = StoredIn(t) /\ SameKind(t, u, StoredIn(t))
<1>1. \A n \in Uppers(t) : BelowIn(u, n) = BelowIn(t, n)
  BY UpperParts DEF Alike, BelowIn
<1>2. \A m \in Reach(t) : u[m].isdir = t[m].isdir
  BY DEF Alike
<1>3. ROOT \in Uppers(t)
  BY InReach
<1>4. \A e \in BelowIn(t, ROOT) :
        /\ u[e[2]].isdir = t[e[2]].isdir
        /\ t[e[2]].isdir = 1 => BelowIn(u, e[2]) = BelowIn(t, e[2])
  BY <1>1, <1>2, <1>3, EntriesBelow
<1>5. BelowIn(u, ROOT) = BelowIn(t, ROOT)
  BY <1>1, <1>3
<1>6. \A x, e : One(u, x, e) <=> One(t, x, e)
  BY <1>5 DEF One
<1>7. \A x, e, g : Two(u, x, e, g) <=> Two(t, x, e, g)
  BY <1>4, <1>5 DEF Two
<1>8. StoredIn(u) = StoredIn(t)
  <2>1. \A x : x \in StoredIn(u) <=> x \in StoredIn(t)
    BY <1>6, <1>7, StoredInIs
  <2> QED
    BY <2>1
<1>9. SameKind(t, u, StoredIn(t))
  BY <1>2, StoredInReach DEF SameKind
<1> QED
  BY <1>8, <1>9

LEMMA AppendedStored ==
  ASSUME NEW t \in Tables, NEW u, DirsGood(t), NEW n \in Uppers(t), NEW name \in Names,
         NEW k \in 3 .. LAST, k \notin Reach(t), Appended(t, u, n, name, k),
         NEW p, At(t, n, name, p)
  PROVE  StoredIn(u) = StoredIn(t) \cup {<<p, k>>} /\ SameKind(t, u, StoredIn(t))
<1> DEFINE a == <<name, k>>
<1>1. ROOT \in Uppers(t) /\ n \in Reach(t) /\ n \in Numbers /\ n # k /\ t[n].isdir = 1
  BY InReach, UpperParts, Shape
<1>2. BelowIn(u, n) = BelowIn(t, n) \cup {a}
  <2> DEFINE es == t[n].ents
             C == Len(es)
             us == Append(es, a)
  <2>1. es \in Seq(Entries) /\ u[n].ents = us /\ DirGood(t, n)
    BY <1>1, NodeParts, UpperParts DEF Appended
  <2>2. C \in Nat /\ C >= 2
    BY <2>1 DEF DirGood, Count
  <2>3. Len(us) = C + 1 /\ us[C + 1] = a /\ \A i \in 1 .. C : us[i] = es[i]
    BY <2>1
  <2>4. BelowIn(u, n) = {us[i] : i \in 3 .. C + 1} /\ BelowIn(t, n) = {es[i] : i \in 3 .. C}
    BY <2>1, <2>3 DEF BelowIn
  <2> HIDE DEF es, us, C, a
  <2>5. \A i \in 3 .. C : us[i] = es[i] /\ i \in 3 .. C + 1
    BY <2>2, <2>3
  <2>6. \A i \in 3 .. C + 1 : i \in 3 .. C \/ i = C + 1
    BY <2>2
  <2>7. C + 1 \in 3 .. C + 1
    BY <2>2
  <2>8. \A e : e \in BelowIn(u, n) <=> e \in BelowIn(t, n) \/ e = a
    BY <2>3, <2>4, <2>5, <2>6, <2>7
  <2> QED
    BY <2>8
<1>3. \A m \in Reach(t) : m # n => u[m] = t[m]
  BY DEF Appended
<1>4. \A m \in Uppers(t) : m # n => BelowIn(u, m) = BelowIn(t, m)
  BY <1>3, UpperParts DEF BelowIn
<1>5. \A m \in Reach(t) : u[m].isdir = t[m].isdir
  BY <1>1, <1>3 DEF Appended
<1>6. u[k].isdir = 1 => BelowIn(u, k) = {}
  BY DEF Appended, Count, BelowIn
<1>7. SameKind(t, u, StoredIn(t))
  BY <1>5, StoredInReach DEF SameKind
<1>8. \A e \in BelowIn(t, ROOT) :
        /\ e[2] \in Reach(t) /\ e[2] # ROOT /\ u[e[2]].isdir = t[e[2]].isdir
        /\ t[e[2]].isdir = 1 => e[2] \in Uppers(t)
  BY <1>1, <1>5, EntriesBelow
<1>9. CASE n = ROOT /\ p = <<name>>
  <2>1. BelowIn(u, ROOT) = BelowIn(t, ROOT) \cup {a}
    BY <1>2, <1>9
  <2>2. \A e \in BelowIn(t, ROOT) : t[e[2]].isdir = 1 => BelowIn(u, e[2]) = BelowIn(t, e[2])
    BY <1>4, <1>8, <1>9
  <2>3. \A x, e : One(u, x, e) <=> One(t, x, e) \/ (e = a /\ x = <<p, k>>)
    BY <1>9, <2>1 DEF One
  <2>4. \A x, e, g : Two(u, x, e, g) <=> Two(t, x, e, g)
    BY <1>6, <1>8, <2>1, <2>2 DEF Two
  <2>5. \A x : x \in StoredIn(u) <=> x \in StoredIn(t) \/ x = <<p, k>>
    BY <2>3, <2>4, StoredInIs
  <2> QED
    BY <1>7, <2>5
<1>10. ASSUME NEW d \in BelowIn(t, ROOT), d[2] = n, t[n].isdir = 1, p = <<d[1], name>>
       PROVE  StoredIn(u) = StoredIn(t) \cup {<<p, k>>}
  <2>1. n # ROOT
    BY <1>8, <1>10
  <2>2. BelowIn(u, ROOT) = BelowIn(t, ROOT)
    BY <1>1, <1>4, <2>1
  <2>3. \A e \in BelowIn(t, ROOT) :
          /\ e[2] = n => e = d
          /\ e[2] # n /\ t[e[2]].isdir = 1 => BelowIn(u, e[2]) = BelowIn(t, e[2])
    BY <1>1, <1>4, <1>8, <1>10, EntriesBelow
  <2>4. \A x, e : One(u, x, e) <=> One(t, x, e)
    BY <2>2 DEF One
  <2>5. ASSUME NEW x, NEW e, NEW g
        PROVE  Two(u, x, e, g) <=> Two(t, x, e, g) \/ (e = d /\ g = a /\ x = <<p, k>>)
    <3>1. CASE e \notin BelowIn(t, ROOT)
      BY <1>10, <2>2, <3>1 DEF Two
    <3>2. CASE e \in BelowIn(t, ROOT) /\ e[2] # n
      BY <1>8, <1>10, <2>2, <2>3, <3>2 DEF Two
    <3>3. CASE e = d
      <4>1. u[n].isdir = 1
        BY <1>8, <1>10
      <4>2. Two(u, x, d, g) <=> g \in BelowIn(u, n) /\ x = <<<<d[1], g[1]>>, g[2]>>
        BY <1>10, <2>2, <4>1 DEF Two
      <4>3. Two(t, x, d, g) <=> g \in BelowIn(t, n) /\ x = <<<<d[1], g[1]>>, g[2]>>
        BY <1>10 DEF Two
      <4>4. g = a => <<<<d[1], g[1]>>, g[2]>> = <<p, k>>
        BY <1>10
      <4> HIDE DEF a
      <4> QED
        BY <1>2, <3>3, <4>2, <4>3, <4>4
    <3> QED
      BY <2>3, <3>1, <3>2, <3>3
  <2>6. \A x : x \in StoredIn(u) <=> x \in StoredIn(t) \/ x = <<p, k>>
    BY <2>4, <2>5, StoredInIs
  <2> QED
    BY <2>6
<1> QED
  BY <1>7, <1>9, <1>10 DEF At

(* An entry e is no more below n; all else is as it was but for its inode. *)
Without(t, u, n, e) ==
  /\ BelowIn(u, n) = BelowIn(t, n) \ {e}
  /\ \A m \in Reach(t) : m # n /\ m # e[2] =>
       u[m].isdir = t[m].isdir /\ BelowIn(u, m) = BelowIn(t, m)

LEMMA RemovedBelow ==
  ASSUME NEW t \in Tables, NEW u, DirsGood(t), NEW n \in Uppers(t), NEW i \in Slots(t, n),
         Removed(t, u, n, i), NEW e, e = t[n].ents[i]
  PROVE  e \in BelowIn(t, n) /\ Without(t, u, n, e)
<1> DEFINE C == Count(t, n)
<1>1. DirGood(t, n) /\ n \in Numbers
  BY UpperParts, Shape
<1>2. /\ Count(u, n) \in Nat
      /\ \A k \in Slots(u, n) :
           /\ Before(C, i, k) \in Slots(t, n) /\ Before(C, i, k) # i
           /\ u[n].ents[k] = t[n].ents[Before(C, i, k)]
      /\ \A l \in Slots(t, n) : l # i => \E k \in Slots(u, n) : Before(C, i, k) = l
  <2>1. C \in Nat /\ Count(u, n) = C - 1 /\ C >= 3
    BY <1>1, RemovedEntries
  <2>2. Count(u, n) \in Nat
    BY <2>1
  <2> QED
    BY <1>1, <2>2, RemovedEntries
<1>3. BelowIn(t, n) = {t[n].ents[k] : k \in Slots(t, n)}
  BY EntriesBelow
<1>4. BelowIn(u, n) = {u[n].ents[k] : k \in Slots(u, n)}
  BY DEF BelowIn, Slots, Count
<1>5. \A k \in Slots(t, n) : t[n].ents[k] = e => k = i
  BY <1>1 DEF DirGood
<1> HIDE DEF C
<1>6. \A g : g \in BelowIn(u, n) <=> g \in BelowIn(t, n) /\ g # e
  <2>1. ASSUME NEW g \in BelowIn(u, n)
        PROVE  g \in BelowIn(t, n) /\ g # e
    <3>1. PICK k \in Slots(u, n) : g = u[n].ents[k]
      BY <1>4
    <3>2. Before(C, i, k) \in Slots(t, n) /\ g = t[n].ents[Before(C, i, k)]
      BY <1>2, <3>1
    <3> QED
      BY <1>2, <1>3, <1>5, <3>2
  <2>2. ASSUME NEW g \in BelowIn(t, n), g # e
        PROVE  g \in BelowIn(u, n)
    <3>1. PICK l \in Slots(t, n) : g = t[n].ents[l]
      BY <1>3
    <3>2. l # i
      BY <2>2, <3>1
    <3>3. PICK k \in Slots(u, n) : Before(C, i, k) = l
      BY <1>2, <3>2
    <3>4. g = u[n].ents[k]
      BY <1>2, <3>1, <3>3
    <3> QED
      BY <1>4, <3>4
  <2> QED
    BY <2>1, <2>2
<1>7. BelowIn(u, n) = BelowIn(t, n) \ {e}
  BY <1>6
<1>8. e \in BelowIn(t, n)
  BY <1>3
<1>9. \A m \in Reach(t) : m # n /\ m # e[2] => u[m] = t[m]
  BY DEF Removed, Kid
<1>10. \A m \in Reach(t) : m # n /\ m # e[2] =>
         u[m].isdir = t[m].isdir /\ BelowIn(u, m) = BelowIn(t, m)
  BY <1>9 DEF BelowIn
<1>11. Without(t, u, n, e)
  BY <1>7, <1>10 DEF Without
<1> QED
  BY <1>8, <1>11

LEMMA RemovedKind ==
  ASSUME NEW t \in Tables, NEW u, DirsGood(t), NEW n \in Uppers(t), NEW i \in Slots(t, n),
         Removed(t, u, n, i)
  PROVE  SameKind(t, u, StoredIn(u))
<1>1. DirsGood(u) /\ Reach(u) \subseteq Reach(t) \ {Kid(t, n, i)}
  BY RemovedTree
<1>2. t[n].isdir = 1
  BY UpperParts
<1>3. \A m \in Reach(u) : u[m].isdir = t[m].isdir
  BY <1>1, <1>2 DEF Removed
<1> QED
  BY <1>1, <1>3, StoredInReach DEF SameKind

(* A call that removes an entry: all that begins with its path is gone. *)
LEMMA RemovedStored ==
  ASSUME NEW t \in Tables, NEW u, DirsGood(t), NEW n \in Uppers(t), NEW i \in Slots(t, n),
         Removed(t, u, n, i), NEW name, name = t[n].ents[i][1], NEW p, At(t, n, name, p)
  PROVE  StoredIn(u) = {x \in StoredIn(t) : ~ IsPrefix(p, x[1])}
<1> DEFINE Gone(x) == IsPrefix(p, x[1])
<1>0. PICK a : a = t[n].ents[i]
  OBVIOUS
<1>1. ROOT \in Uppers(t) /\ n \in Reach(t) /\ n \in Numbers /\ t[n].isdir = 1
  BY InReach, UpperParts, Shape
<1>2. /\ a \in BelowIn(t, n) /\ BelowIn(u, n) = BelowIn(t, n) \ {a}
      /\ \A m \in Reach(t) : m # n /\ m # a[2] =>
           u[m].isdir = t[m].isdir /\ BelowIn(u, m) = BelowIn(t, m)
  <2>1. a \in BelowIn(t, n) /\ Without(t, u, n, a)
    BY <1>0, RemovedBelow
  <2> QED
    BY <2>1 DEF Without
<1>3. a[1] = name /\ a[2] # ROOT /\ t[a[2]].pno = n
  BY <1>0, <1>2, EntriesBelow
<1>4. u[n].isdir = 1
  BY DEF Removed
<1>5. \A e \in BelowIn(t, ROOT) :
        /\ e[2] \in Reach(t) /\ e[2] # ROOT /\ t[e[2]].pno = ROOT
        /\ t[e[2]].isdir = 1 => e[2] \in Uppers(t)
  BY <1>1, EntriesBelow
<1>6. CASE n = ROOT /\ p = <<name>>
  <2>1. \A e \in BelowIn(t, ROOT) :
          /\ e[1] = name <=> e = a
          /\ e # a => u[e[2]].isdir = t[e[2]].isdir /\ BelowIn(u, e[2]) = BelowIn(t, e[2])
    <3>1. \A e \in BelowIn(t, ROOT) : e[1] = a[1] \/ e[2] = a[2] => e = a
      BY <1>1, <1>2, <1>6, EntriesBelow
    <3> QED
      BY <1>2, <1>3, <1>5, <1>6, <3>1
  <2>2. \A e : e \in BelowIn(u, ROOT) <=> e \in BelowIn(t, ROOT) /\ e # a
    BY <1>2, <1>6
  <2>3. \A x : Here(x) => ~ Gone(x)
    BY <1>6, PrefixOne DEF Here
  <2>4. \A x, e : One(u, x, e) <=> One(t, x, e) /\ ~ Gone(x)
    <3>1. \A x, e : One(t, x, e) => (Gone(x) <=> e = a)
      BY <1>6, <2>1, PrefixOne DEF One
    <3>2. \A x, e : One(u, x, e) <=> One(t, x, e) /\ e # a
      BY <2>2 DEF One
    <3> QED
      BY <3>1, <3>2
  <2>5. \A x, e, g : Two(u, x, e, g) <=> Two(t, x, e, g) /\ ~ Gone(x)
    <3>1. \A x, e, g : Two(t, x, e, g) => (Gone(x) <=> e = a)
      BY <1>6, <2>1, PrefixOne DEF Two
    <3>2. \A x, e, g : Two(u, x, e, g) <=> Two(t, x, e, g) /\ e # a
      BY <2>1, <2>2 DEF Two
    <3> QED
      BY <3>1, <3>2
  <2> HIDE DEF Gone
  <2>6. \A x : x \in StoredIn(u) <=> x \in StoredIn(t) /\ ~ Gone(x)
    BY <2>3, <2>4, <2>5, StoredInIs
  <2> QED
    BY <2>6 DEF Gone
<1>7. ASSUME NEW d \in BelowIn(t, ROOT), d[2] = n, p = <<d[1], name>>
      PROVE  \A x : x \in StoredIn(u) <=> x \in StoredIn(t) /\ ~ Gone(x)
  <2>1. n # ROOT
    BY <1>5, <1>7
  <2>2. \A e \in BelowIn(t, ROOT) :
          /\ e[1] = d[1] => e = d
          /\ e[2] = n => e = d
          /\ e # d => u[e[2]].isdir = t[e[2]].isdir /\ BelowIn(u, e[2]) = BelowIn(t, e[2])
    <3>1. \A e \in BelowIn(t, ROOT) : e[1] = d[1] \/ e[2] = d[2] => e = d
      BY <1>1, <1>7, EntriesBelow
    <3>2. \A e \in BelowIn(t, ROOT) : e[2] # a[2]
      BY <1>3, <1>5, <2>1
    <3> QED
      BY <1>2, <1>5, <1>7, <3>1, <3>2
  <2>3. BelowIn(u, ROOT) = BelowIn(t, ROOT)
    <3>1. ROOT \in Reach(t) /\ ROOT # a[2]
      BY <1>3, InReach
    <3> QED
      BY <1>2, <2>1, <3>1
  <2>4. \A x : Here(x) => ~ Gone(x)
    BY <1>7, PrefixTwo DEF Here
  <2>5. \A x, e : One(u, x, e) <=> One(t, x, e) /\ ~ Gone(x)
    BY <1>7, <2>3, PrefixTwo DEF One
  <2>6. \A g \in BelowIn(t, n) : g[1] = name => g = a
    BY <1>2, <1>3, EntriesBelow
  <2>7. \A x, e, g : Two(t, x, e, g) => (Gone(x) <=> e = d /\ g = a)
    <3>1. ASSUME NEW x, NEW e, NEW g, Two(t, x, e, g)
          PROVE  Gone(x) <=> e = d /\ g = a
      <4>1. e \in BelowIn(t, ROOT) /\ g \in BelowIn(t, e[2]) /\ x[1] = <<e[1], g[1]>>
        BY <3>1 DEF Two
      <4>2. Gone(x) <=> d[1] = e[1] /\ name = g[1]
        BY <1>7, <4>1, PrefixTwo
      <4> HIDE DEF Gone
      <4> QED
        BY <1>3, <1>7, <2>2, <2>6, <4>1, <4>2
    <3> QED
      BY <3>1
  <2>8. \A x, e, g : Two(u, x, e, g) <=> Two(t, x, e, g) /\ ~ (e = d /\ g = a)
    <3>1. ASSUME NEW x, NEW e, NEW g, e # d
          PROVE  Two(u, x, e, g) <=> Two(t, x, e, g)
      BY <2>2, <2>3, <3>1 DEF Two
    <3>2. ASSUME NEW x, NEW g
          PROVE  Two(u, x, d, g) <=> Two(t, x, d, g) /\ g # a
      BY <1>1, <1>2, <1>4, <1>7, <2>3 DEF Two
    <3> QED
      BY <3>1, <3>2
  <2> HIDE DEF Gone
  <2>9. \A x, e, g : Two(u, x, e, g) <=> Two(t, x, e, g) /\ ~ Gone(x)
    BY <2>7, <2>8
  <2> QED
    BY <2>4, <2>5, <2>9, StoredInIs
<1>8. CASE \E d \in BelowIn(t, ROOT) : d[2] = n /\ p = <<d[1], name>>
  BY <1>7, <1>8
<1> QED
  BY <1>6, <1>8 DEF At

-----------------------------------------------------------------------------
(***************************************************************************)
(* Calls, as those on trees.                                               *)
(***************************************************************************)
LEMMA StoredInum ==
  ASSUME IInv, NEW x \in Stored
  PROVE  Inum(x[1]) = x[2]
<1>1. path_to_inum(Listings, x[1]) = [inum |-> x[2], parent |-> Up(x)]
  BY PathLeads
<1> QED
  BY <1>1 DEF Inum

LEMMA CallAt ==
  ASSUME IInv, NEW p \in UsedPaths, IsDir(Front(p))
  PROVE  At(inode, Parent(p), path_basename(p), p) /\ DirAt(inode, Front(p))
<1>1. inode \in Tables /\ DirsGood(inode) /\ ROOT \in Uppers(inode) /\ inode[ROOT].isdir = 1
  BY InvariantParts, InReach, UpperParts
<1>2. Parent(p) = Inum(Front(p)) /\ inode[Parent(p)].isdir = 1
  BY <1>1, CallLooksUp DEF IsDir
<1> DEFINE r == <<<<>>, ROOT>>
<1>3. r \in Stored /\ r[1] = <<>> /\ r[2] = ROOT
  BY StoredIs DEF Here
<1> HIDE DEF r
<1>4. DirAt(inode, <<>>) /\ Inum(<<>>) = ROOT /\ IsDir(<<>>)
  <2>1. DirAt(inode, <<>>)
    BY <1>1, <1>3, TreeNow DEF DirAt
  <2>2. Inum(<<>>) = ROOT
    BY WalkNone DEF Inum, path_to_inum
  <2> QED
    BY <1>1, <2>1, <2>2, Shape DEF IsDir, Found
<1>5. ASSUME NEW b \in Names, p = <<b>>
      PROVE  At(inode, Parent(p), path_basename(p), p) /\ DirAt(inode, Front(p))
  <2>1. Front(p) = <<>> /\ path_basename(p) = b
    BY <1>5, PathParts DEF path_basename
  <2> QED
    BY <1>2, <1>4, <1>5, <2>1 DEF At
<1>6. ASSUME NEW b \in Names, NEW c \in Names, p = <<b, c>>
      PROVE  At(inode, Parent(p), path_basename(p), p) /\ DirAt(inode, Front(p))
  <2> DEFINE f == <<b>>
  <2>1. Front(p) = f /\ path_basename(p) = c /\ p = <<b, c>> /\ f \in UsedPaths /\ Front(f) = <<>>
    BY <1>6, PathParts DEF path_basename, UsedPaths, Top
  <2>2. /\ Len(f) = 1
        /\ \A x, e : OneDown(x, e) /\ x[1] = f => e[1] = b
    BY DownParts, PathsApart
  <2> HIDE DEF f
  <2>3. Inum(f) # NotFound
    BY <2>1 DEF IsDir, Found, NotFound
  <2>4. PICK x \in Stored : x[1] = f
    BY <1>4, <2>1, <2>3, OthersNotFound
  <2>5. x[2] = Parent(p)
    BY <1>2, <2>1, <2>4, StoredInum
  <2>6. DirAt(inode, Front(p))
    BY <1>2, <2>1, <2>4, <2>5, TreeNow DEF DirAt
  <2>7. ~ Here(x) /\ \A e, g : ~ TwoDown(x, e, g)
    BY <2>2, <2>4, DownParts, PathsApart
  <2>8. PICK e : OneDown(x, e)
    BY <2>4, <2>7, StoredIs
  <2>9. e \in BelowIn(inode, ROOT) /\ e[1] = b /\ e[2] = Parent(p)
    BY <2>2, <2>4, <2>5, <2>8, DownParts, TreeNow DEF OneDown
  <2>10. At(inode, Parent(p), path_basename(p), p)
    BY <1>2, <2>1, <2>9 DEF At
  <2> QED
    BY <2>6, <2>10
<1>7. p \in Top \/ p \in Deep
  BY DEF UsedPaths
<1> QED
  BY <1>5, <1>6, <1>7 DEF Top, Deep

(* What calls are told of the tree. *)
LEMMA CallTree ==
  ASSUME IInv, NEW p \in UsedPaths, IsDir(Front(p))
  PROVE  /\ Front(p) \in DOMAIN TreeStored /\ TreeStored[Front(p)] = "dir"
         /\ p \in DOMAIN TreeStored <=> Found(p)
         /\ Found(p) <=> Inum(p) > 0
<1>1. TreeStored = TreeOf(inode) /\ Stored = StoredIn(inode)
  BY TreeNow
<1>2. DOMAIN TreeStored = PathsIn(inode)
  BY <1>1, TreeParts
<1>3. Front(p) \in DOMAIN TreeStored /\ TreeStored[Front(p)] = "dir"
  <2>1. DirAt(inode, Front(p))
    BY CallAt
  <2>2. Front(p) \in PathsIn(inode)
    BY <2>1 DEF DirAt, PathsIn
  <2> QED
    BY <1>1, <1>2, <2>1, <2>2, TreeParts
<1>4. p \in DOMAIN TreeStored <=> \E x \in Stored : x[1] = p
  BY <1>1, <1>2 DEF PathsIn
<1>5. ASSUME NEW x \in Stored, x[1] = p
      PROVE  Inum(p) > 0 /\ Found(p)
  <2>1. Inum(p) = x[2] /\ x[2] \in Numbers /\ x[2] >= 2
    BY <1>5, StoredInum, StoredReached
  <2> QED
    BY <2>1, Shape DEF Found, Numbers
<1>6. (\A x \in Stored : x[1] # p) => ~ Found(p) /\ ~ (Inum(p) > 0)
  BY OthersNotFound DEF Found, NotFound
<1> QED
  BY <1>3, <1>4, <1>5, <1>6

(* The three ways for a call to end. *)
LEMMA CallEnds ==
  ASSUME NEW p
  PROVE  /\ /\ p \notin DOMAIN TreeStored /\ Front(p) \in DOMAIN TreeStored
            /\ TreeStored[Front(p)] = "dir"
            /\ TreeStored' \in Abstract!Created(TreeStored, p) /\ Answer(0)
            => Abstract!Call(p)
         /\ /\ p \in DOMAIN TreeStored /\ TreeStored' = Abstract!Pruned(TreeStored, p)
            /\ Answer(0)
            => Abstract!Call(p)
         /\ /\ TreeStored' = TreeStored
            /\ \/ p \in DOMAIN TreeStored /\ Answer(-EEXIST)
               \/ p \notin DOMAIN TreeStored /\ Answer(-ENOENT)
               \/ p \notin DOMAIN TreeStored /\ Answer(-ENOSPC)
            => Abstract!Call(p)
<1> USE DEF Abstract!Call
<1>1. Answer(0) => Abstract!Succeed
  BY DEF Answer, Abstract!Succeed
<1>2. \A e \in {ENOENT, EEXIST, ENOSPC} : Answer(-e) => Abstract!Refuse(e)
  BY DEF Answer, Abstract!Refuse, ENOENT, EEXIST, ENOSPC
<1>3. Abstract!Front(p) = Front(p)
  BY SameOperators
<1>4. /\ p \notin DOMAIN TreeStored /\ Front(p) \in DOMAIN TreeStored
      /\ TreeStored[Front(p)] = "dir"
      /\ TreeStored' \in Abstract!Created(TreeStored, p) /\ Answer(0)
      => Abstract!Call(p)
  BY <1>1, <1>3
<1>5. /\ p \in DOMAIN TreeStored /\ TreeStored' = Abstract!Pruned(TreeStored, p)
      /\ Answer(0)
      => Abstract!Call(p)
  BY <1>1
<1>6. /\ TreeStored' = TreeStored
      /\ \/ p \in DOMAIN TreeStored /\ Answer(-EEXIST)
         \/ p \notin DOMAIN TreeStored /\ Answer(-ENOENT)
         \/ p \notin DOMAIN TreeStored /\ Answer(-ENOSPC)
      => Abstract!Call(p)
  BY <1>2
<1> QED
  BY <1>4, <1>5, <1>6

LEMMA TreeKept ==
  ASSUME IInv, Alike(inode, inode')
  PROVE  TreeStored' = TreeStored
<1>1. DirsGood(inode)
  BY InvariantParts
<1>2. StoredIn(inode') = StoredIn(inode) /\ SameKind(inode, inode', StoredIn(inode))
  BY <1>1, AlikeStored
<1>3. TreeOf(inode') = TreeOf(inode)
  BY <1>2, SameTreeOf
<1> QED
  BY <1>3, TreeNow, TreeNext

LEMMA SameInodes ==
  ASSUME UNCHANGED inode
  PROVE  TreeStored' = TreeStored
BY TreeNow, TreeNext

LEMMA FormattedTree ==
  ASSUME NEW t, t = Formatted.inode
  PROVE  TreeOf(t) = Abstract!Root
<1>1. t[ROOT] = dnode(ROOT, ROOT)
  <2>1. ROOT \in 0 .. LAST
    BY Shape
  <2> QED
    BY <2>1 DEF Formatted
<1>2. t[ROOT].isdir = 1 /\ Len(t[ROOT].ents) = 2
  BY <1>1 DEF dnode
<1>3. BelowIn(t, ROOT) = {}
  BY <1>2 DEF BelowIn
<1>4. \A x : x \in StoredIn(t) <=> Here(x)
  BY <1>3, StoredInIs DEF One, Two
<1>5. PathsIn(t) = {<<>>} /\ DirAt(t, <<>>)
  <2> DEFINE r == <<<<>>, ROOT>>
  <2>1. r[1] = <<>> /\ r[2] = ROOT /\ \A x : x \in StoredIn(t) <=> x = r
    BY <1>4 DEF Here
  <2> HIDE DEF r
  <2> QED
    BY <1>2, <2>1 DEF PathsIn, DirAt
<1> QED
  BY <1>5 DEF TreeOf, Abstract!Root

(* sfs_create and sfs_mkdir. *)
LEMMA MakeCalls ==
  ASSUME IInv, NEW p \in UsedPaths, IsDir(Front(p)), NEW i, i = PoppedInode(State),
         NEW node, NEW q, MakeNode(p, i, node, q)
  PROVE  Abstract!Call(p)
<1>1. CASE Inum(p) > 0
  <2>1. Answer(-EEXIST) /\ UNCHANGED inode
    BY <1>1 DEF MakeNode
  <2>2. p \in DOMAIN TreeStored
    BY <1>1, CallTree
  <2> QED
    BY <2>1, <2>2, SameInodes, CallEnds
<1>2. CASE ~ (Inum(p) > 0)
  <2> DEFINE n == Parent(p)
             name == path_basename(p)
             w == Push(dnode_remove(WithErr(q, 0), n, name), i)
  <2>1. /\ Fine(State) /\ n \in Uppers(State.inode) /\ name \in Names
        /\ \A k \in Slots(State.inode, n) : State.inode[n].ents[k][1] # name
    BY <1>2, CallParts
  <2>2. /\ NewNode(node, i, n) /\ q = Made(State, n, name, node)
        /\ Answer(q.err) /\ Becomes(IF q.err = 0 THEN q ELSE w)
    BY <1>2 DEF MakeNode
  <2>3. inode \in Tables /\ DirsGood(inode) /\ At(inode, n, name, p)
    BY CallParts, CallAt
  <2>4. /\ p \notin DOMAIN TreeStored /\ Front(p) \in DOMAIN TreeStored
        /\ TreeStored[Front(p)] = "dir"
    BY <1>2, CallTree
  <2> HIDE DEF n, name
  <2>5. CASE q.err = 0
    <3>1. Appended(State.inode, q.inode, n, name, i) /\ i \in 3 .. LAST /\ i \notin Reach(State.inode)
      BY <2>1, <2>2, <2>5, MadeFine
    <3>2. inode' = q.inode /\ Answer(0)
      BY <2>2, <2>5 DEF Becomes
    <3>3. TreeOf(q.inode) \in Abstract!Created(TreeOf(inode), p)
      <4>1. PICK t : t = inode
        OBVIOUS
      <4>2. PICK u : u = q.inode
        OBVIOUS
      <4>3. /\ t \in Tables /\ DirsGood(t) /\ n \in Uppers(t) /\ At(t, n, name, p)
            /\ Appended(t, u, n, name, i) /\ i \notin Reach(t)
        BY <2>1, <2>3, <3>1, <4>1, <4>2, StateNow
      <4>4. StoredIn(u) = StoredIn(t) \cup {<<p, i>>} /\ SameKind(t, u, StoredIn(t))
        BY <2>1, <3>1, <4>3, AppendedStored
      <4>5. p \notin PathsIn(t)
        BY <2>4, <4>1, TreeNow, TreeParts
      <4>6. TreeOf(u) \in Abstract!Created(TreeOf(t), p)
        BY <4>4, <4>5, GrownTree
      <4> QED
        BY <4>1, <4>2, <4>6
    <3>4. TreeStored' \in Abstract!Created(TreeStored, p)
      BY <3>2, <3>3, TreeNow, TreeNext
    <3> QED
      BY <2>4, <3>2, <3>4, CallEnds
  <2>6. CASE q.err # 0
    <3>1. Alike(State.inode, w.inode)
      <4>1. Restores(State, w)
        BY <2>1, <2>2, Reverts
      <4> HIDE DEF w
      <4> QED
        BY <2>1, <4>1, RevertedFine
    <3>2. q.err = -ENOSPC
      <4>1. Makes(State.inode, n, name, i, node, q)
        BY <2>1, <2>2, MadeIs
      <4> QED
        BY <2>6, <4>1, StateParts DEF Makes
    <3> HIDE DEF w
    <3>3. inode' = w.inode /\ Answer(-ENOSPC)
      BY <2>2, <2>6, <3>2 DEF Becomes
    <3>4. TreeStored' = TreeStored
      BY <3>1, <3>3, StateNow, TreeKept
    <3> QED
      BY <2>4, <3>3, <3>4, CallEnds
  <2> QED
    BY <2>5, <2>6
<1> QED
  BY <1>1, <1>2

LEMMA RefusedCalls ==
  ASSUME IInv, NEW p \in UsedPaths, IsDir(Front(p)), Refused(p)
  PROVE  Abstract!Call(p)
<1>1. p \notin DOMAIN TreeStored
  BY CallTree DEF Refused
<1>2. Answer(-ENOENT) /\ UNCHANGED inode
  BY DEF Refused
<1> QED
  BY <1>1, <1>2, SameInodes, CallEnds

(* sfs_unlink and sfs_rmdir. *)
LEMMA TakenCalls ==
  ASSUME IInv, NEW p \in UsedPaths, IsDir(Front(p)), Found(p), Answer(0),
         NEW q \in Takings(p), Becomes(q)
  PROVE  Abstract!Call(p)
<1>1. PICK k \in Slots(inode, Parent(p)) :
        /\ Removes(State, q, Parent(p), k)
        /\ path_basename(p) = inode[Parent(p)].ents[k][1]
  BY TakenRemoves
<1> DEFINE n == Parent(p)
           name == path_basename(p)
<1>2. /\ inode \in Tables /\ DirsGood(inode) /\ n \in Uppers(inode) /\ At(inode, n, name, p)
      /\ k \in Slots(inode, n) /\ name = inode[n].ents[k][1]
      /\ Removed(inode, q.inode, n, k)
  BY <1>1, CallParts, CallAt, StateNow DEF Removes
<1> HIDE DEF n, name
<1>3. PICK t : t = inode
  OBVIOUS
<1>4. PICK u : u = q.inode
  OBVIOUS
<1>5. /\ t \in Tables /\ DirsGood(t) /\ n \in Uppers(t) /\ At(t, n, name, p)
      /\ k \in Slots(t, n) /\ name = t[n].ents[k][1] /\ Removed(t, u, n, k)
  BY <1>2, <1>3, <1>4
<1>6. StoredIn(u) = {x \in StoredIn(t) : ~ IsPrefix(p, x[1])}
  BY <1>5, RemovedStored
<1>7. SameKind(t, u, StoredIn(u))
  BY <1>5, RemovedKind
<1>8. TreeOf(u) = Abstract!Pruned(TreeOf(t), p)
  BY <1>6, <1>7, PrunedTree
<1>9. TreeStored' = Abstract!Pruned(TreeStored, p)
  BY <1>3, <1>4, <1>8, TreeNow, TreeNext DEF Becomes
<1>10. p \in DOMAIN TreeStored
  BY CallTree
<1> QED
  BY <1>9, <1>10, CallEnds

(* sfs_write and sfs_truncate. *)
LEMMA WriteStutters ==
  ASSUME IInv, NEW p \in UsedPaths, IsDir(Front(p)), IsFile(p), NEW n \in Sizes,
         NEW enough \in BOOLEAN, sfs_write(p, n, enough) \/ sfs_truncate(p, n, enough)
  PROVE  UNCHANGED Abstract!treeVars
<1> DEFINE w == listing_set(Short(enough), Inum(p), BlocksOf(n))
           v == WithErr(Pop(w), 0)
<1>1. Fine(w) /\ Alike(inode, w.inode)
  BY WrittenFine
<1>2. UNCHANGED <<answer, turn>> /\ (Becomes(w) \/ Becomes(v))
  BY WriteBecomes
<1> HIDE DEF w
<1>3. v.inode = w.inode
  <2>1. w \in States
    BY <1>1 DEF Fine
  <2>2. Pop(w) \in States /\ Pop(w).inode = w.inode
    BY <2>1, Popped
  <2> QED
    BY <2>2, ErrPut
<1> HIDE DEF v
<1>4. inode' = w.inode
  BY <1>2, <1>3 DEF Becomes
<1>5. TreeStored' = TreeStored
  BY <1>1, <1>4, TreeKept
<1> QED
  BY <1>2, <1>5 DEF Abstract!treeVars

LEMMA CallsOnTrees ==
  ASSUME IInv, [Next]_vars
  PROVE  [Abstract!Next]_(Abstract!treeVars)
<1>1. ASSUME NEW p \in UsedPaths, IsDir(Front(p)), sfs_create(p) \/ sfs_mkdir(p)
      PROVE  Abstract!Call(p)
  <2> DEFINE i == PoppedInode(State)
  <2>1. \E node, q : MakeNode(p, i, node, q)
    BY <1>1, CallMakes
  <2> HIDE DEF i
  <2>2. i = PoppedInode(State)
    BY DEF i
  <2> QED
    BY <1>1, <2>1, <2>2, MakeCalls
<1>2. ASSUME NEW p \in UsedPaths, IsDir(Front(p)), sfs_rmdir(p) \/ sfs_unlink(p)
      PROVE  Abstract!Call(p)
  <2>1. CASE Refused(p)
    BY <1>2, <2>1, RefusedCalls
  <2>2. CASE Found(p) /\ Answer(0) /\ \E q \in Takings(p) : Becomes(q)
    BY <1>2, <2>2, TakenCalls
  <2> QED
    BY <1>2, <2>1, <2>2, RemovalTakes
<1>3. ASSUME NEW p \in UsedPaths, IsDir(Front(p)), IsFile(p),
             \E n \in Sizes, enough \in BOOLEAN :
               sfs_write(p, n, enough) \/ sfs_truncate(p, n, enough)
      PROVE  UNCHANGED Abstract!treeVars
  BY <1>3, WriteStutters
<1>4. CASE sfs_init
  <2>1. inode' = Formatted.inode /\ answer' = 0 /\ turn' = 0
    BY <1>4 DEF sfs_init, Becomes
  <2>2. TreeStored' = Abstract!Root
    BY <2>1, FormattedTree, TreeNext
  <2> QED
    BY <2>1, <2>2 DEF Abstract!Next, Abstract!Format
<1>5. CASE UNCHANGED vars
  <2>1. UNCHANGED inode /\ UNCHANGED <<answer, turn>>
    BY <1>5 DEF vars
  <2> QED
    BY <2>1, SameInodes DEF Abstract!treeVars
<1>6. (\E p \in UsedPaths : Abstract!Call(p)) => Abstract!Next
  BY DEF Abstract!Next
<1> QED
  BY <1>1, <1>2, <1>3, <1>4, <1>5, <1>6 DEF Next

(***************************************************************************)
(* The names form a tree: through entries, pages, lookups and reverting, a *)
(* call that returns an error has changed none of them, and any other has  *)
(* done what it was asked to, and to no other path.                        *)
(***************************************************************************)
THEOREM ImplementsTree == Spec => TreeImplemented
<1>1. Init => Abstract!Init
  <2> SUFFICES ASSUME Init PROVE Abstract!Init
    OBVIOUS
  <2>1. inode = Formatted.inode /\ answer = 0 /\ turn = 0
    BY DEF Init
  <2>2. TreeStored = Abstract!Root
    BY <2>1, FormattedTree, TreeNow
  <2> QED
    BY <2>1, <2>2 DEF Abstract!Init
<1>2. IInv /\ [Next]_vars => [Abstract!Next]_(Abstract!treeVars)
  BY CallsOnTrees
<1> QED
  BY <1>1, <1>2, Inductive, PTL DEF Spec, TreeImplemented, Abstract!Spec

-----------------------------------------------------------------------------
(***************************************************************************)
(* Lost inodes: those that neither the bitmap nor what can be reached      *)
(* holds. InodesIn and LostIn are InodesOf and Lost in a table t.          *)
(***************************************************************************)
InodesIn(t, part) == UNION {{x[2]} \cup (Range(t[x[2]].pages) \ {0}) : x \in part}

LostIn(t, F) == (3 .. LAST) \ (InodesIn(t, StoredIn(t)) \cup F)

LEMMA LostNow ==
  /\ Lost = LostIn(inode, free)
  /\ \A part : InodesOf(part) = InodesIn(inode, part)
BY TreeNow DEF Lost, LostIn, InodesOf, InodesIn, PagesOf

LEMMA LostNext ==
  Lost' = LostIn(inode', free') /\ Stored' = StoredIn(inode')
BY DEF Lost, LostIn, InodesOf, InodesIn, PagesOf, Stored, StoredIn, Below, BelowIn, Dir

LEMMA ReachStored ==
  ASSUME NEW t, DirsGood(t), NEW m \in Reach(t)
  PROVE  \E x \in StoredIn(t) : x[2] = m
<1>1. \A n \in Uppers(t) : \A k \in Kids(t, n) : \E e \in BelowIn(t, n) : e[2] = k
  <2>1. ASSUME NEW n \in Uppers(t), NEW i \in Slots(t, n)
        PROVE  \E e \in BelowIn(t, n) : e[2] = Kid(t, n, i)
    BY EntriesBelow DEF Kid
  <2> QED
    BY <2>1 DEF Kids
<1>2. ROOT \in Uppers(t)
  BY InReach
<1>3. CASE m = ROOT
  <2> DEFINE x == <<<<>>, ROOT>>
  <2>1. x \in StoredIn(t) /\ x[2] = m
    BY <1>3, StoredInIs DEF Here
  <2> QED
    BY <2>1
<1>4. ASSUME m \in Kids(t, ROOT)
      PROVE  \E x \in StoredIn(t) : x[2] = m
  <2>1. PICK e \in BelowIn(t, ROOT) : e[2] = m
    BY <1>1, <1>2, <1>4
  <2> DEFINE x == <<<<e[1]>>, e[2]>>
  <2>2. One(t, x, e) /\ x[2] = m
    BY <2>1 DEF One
  <2> HIDE DEF x
  <2> QED
    BY <2>2, StoredInIs
<1>5. ASSUME NEW n \in Uppers(t), n # ROOT, m \in Kids(t, n)
      PROVE  \E x \in StoredIn(t) : x[2] = m
  <2>1. n \in Kids(t, ROOT) /\ t[n].isdir = 1
    BY <1>5, InReach
  <2>2. PICK e \in BelowIn(t, ROOT) : e[2] = n
    BY <1>1, <1>2, <2>1
  <2>3. PICK g \in BelowIn(t, n) : g[2] = m
    BY <1>1, <1>5
  <2> DEFINE x == <<<<e[1], g[1]>>, g[2]>>
  <2>4. Two(t, x, e, g) /\ x[2] = m
    BY <2>1, <2>2, <2>3 DEF Two
  <2> HIDE DEF x
  <2> QED
    BY <2>4, StoredInIs
<1> QED
  BY <1>3, <1>4, <1>5, InReach

LEMMA InodesInIs ==
  ASSUME NEW t \in Tables, DirsGood(t), NEW part \in SUBSET StoredIn(t)
  PROVE  \A j : j \in InodesIn(t, part) <=> \E x \in part : j = x[2] \/ j \in Own(t, x[2])
<1>1. ASSUME NEW x \in part
      PROVE  Range(t[x[2]].pages) \ {0} = Own(t, x[2])
  <2>1. x[2] \in Numbers
    BY StoredInReach, UpperParts, Shape
  <2>2. t[x[2]].pages \in Seq(PageNumbers)
    BY <2>1, NodeParts
  <2> QED
    BY <2>2 DEF Own, Range
<1> QED
  BY <1>1 DEF InodesIn

LEMMA LostIs ==
  ASSUME NEW r, Fine(r)
  PROVE  LostIn(r.inode, r.free) = (3 .. LAST) \ Held(r, Reach(r.inode))
<1> DEFINE t == r.inode
           S == StoredIn(t)
<1>1. t \in Tables /\ DirsGood(t)
  BY FineParts
<1>2. \A j : j \in InodesIn(t, S) <=> \E x \in S : j = x[2] \/ j \in Own(t, x[2])
  BY <1>1, InodesInIs
<1>3. (\A x \in S : x[2] \in Reach(t)) /\ \A m \in Reach(t) : \E x \in S : x[2] = m
  BY <1>1, StoredInReach, ReachStored
<1> HIDE DEF t, S
<1>4. \A j : j \in InodesIn(t, S) <=> j \in Uses(t, Reach(t))
  BY <1>2, <1>3, UsesParts
<1> QED
  BY <1>4 DEF LostIn, Held, t, S

LEMMA LostHeld ==
  ASSUME IInv
  PROVE  /\ Lost = (3 .. LAST) \ Held(State, Reach(inode))
         /\ \A q : Fine(q) /\ Becomes(q) => Lost' = (3 .. LAST) \ Held(q, Reach(q.inode))
<1>1. Lost = (3 .. LAST) \ Held(State, Reach(inode))
  BY LostIs, LostNow, StateNow DEF IInv
<1>2. ASSUME NEW q, Fine(q), Becomes(q)
      PROVE  Lost' = (3 .. LAST) \ Held(q, Reach(q.inode))
  BY <1>2, LostIs, LostNext DEF Becomes
<1> QED
  BY <1>1, <1>2

LEMMA KeptLosesNone ==
  ASSUME IInv, NEW q, Fine(q), Becomes(q), Kept(State, q)
  PROVE  Lost' \ Lost = {}
<1>1. Held(State, Reach(inode)) \subseteq Held(q, Reach(q.inode))
  BY StateNow DEF Kept
<1> QED
  BY <1>1, LostHeld

LEMMA SameLost ==
  ASSUME UNCHANGED <<inode, free>>
  PROVE  Lost' \ Lost = {}
BY LostNow, LostNext
LEMMA FreshLost ==
  ASSUME sfs_init
  PROVE  Lost' = {}
<1>1. free' = 3 .. LAST
  BY DEF sfs_init, Becomes, Formatted
<1> QED
  BY <1>1, LostNext DEF LostIn

(* Nothing is below a file. *)
LEMMA FileLeaf ==
  ASSUME IInv, NEW x \in Stored, ~ Dir(x[2]), NEW y \in Stored, IsPrefix(x[1], y[1]),
         x[1] \in UsedPaths
  PROVE  y = x
<1>1. x[1] # <<>>
  <2>1. \A s \in UsedPaths : Len(s) # 0
    BY PathsApart DEF UsedPaths, Top, Deep
  <2> QED
    BY <2>1, PathsApart
<1>2. (\E e : OneDown(x, e)) \/ (\E e, g : TwoDown(x, e, g))
  BY <1>1, StoredIs, DownParts
<1>3. Here(y) \/ (\E f : OneDown(y, f)) \/ (\E f, h : TwoDown(y, f, h))
  BY StoredIs
<1>4. ASSUME NEW e, OneDown(x, e)
      PROVE  y = x
  <2>1. x[1] = <<e[1]>>
    BY <1>4, DownParts
  <2>2. ~ Here(y)
    BY <2>1, DownParts, PrefixOne
  <2>3. ASSUME NEW f, OneDown(y, f)
        PROVE  y = x
    <3>1. y[1] = <<f[1]>> /\ f[1] = e[1]
      BY <2>1, <2>3, DownParts, PrefixOne
    <3> QED
      BY <2>1, <3>1, StoredOnce
  <2>4. ASSUME NEW f, NEW h, TwoDown(y, f, h)
        PROVE  FALSE
    <3>1. y[1] = <<f[1], h[1]>>
      BY <2>4, DownParts
    <3>2. f[1] = e[1]
      BY <2>1, <3>1, PrefixOne
    <3> DEFINE z == <<<<f[1]>>, f[2]>>
    <3>3. OneDown(z, f) /\ Dir(f[2]) /\ z[1] = <<f[1]>> /\ z[2] = f[2]
      BY <2>4 DEF TwoDown, OneDown
    <3> HIDE DEF z
    <3>4. z \in Stored /\ z[1] = x[1]
      BY <2>1, <3>2, <3>3, StoredIs
    <3>5. z = x
      BY <3>4, StoredOnce
    <3> QED
      BY <3>3, <3>5
  <2> QED
    BY <1>3, <2>2, <2>3, <2>4
<1>5. ASSUME NEW e, NEW g, TwoDown(x, e, g)
      PROVE  y = x
  <2>1. x[1] = <<e[1], g[1]>>
    BY <1>5, DownParts
  <2>2. ~ Here(y) /\ \A f : ~ OneDown(y, f)
    <3>1. ~ Here(y)
      BY <2>1, DownParts, PrefixTwo
    <3>2. ASSUME NEW f, OneDown(y, f)
          PROVE  FALSE
      <4>1. y[1] = <<f[1]>>
        BY <3>2, DownParts
      <4>2. IsPrefix(<<e[1], g[1]>>, <<f[1]>>)
        BY <2>1, <4>1
      <4> QED
        BY <4>2, PrefixTwo
    <3> QED
      BY <3>1, <3>2
  <2>3. PICK f, h : TwoDown(y, f, h)
    BY <1>3, <2>2
  <2>4. y[1] = <<f[1], h[1]>> /\ f[1] = e[1] /\ h[1] = g[1]
    BY <2>1, <2>3, DownParts, PrefixTwo
  <2> QED
    BY <2>1, <2>4, StoredOnce
<1> QED
  BY <1>2, <1>4, <1>5

(* What is no longer stored is what was at the path or below it. *)
LEMMA TakenStored ==
  ASSUME IInv, NEW p \in UsedPaths, IsDir(Front(p)), Found(p),
         NEW q \in Takings(p), Becomes(q)
  PROVE  /\ Fine(q) /\ inode' = q.inode
         /\ Stored' = {y \in Stored : ~ IsPrefix(p, y[1])}
         /\ \E x \in Stored : x = <<p, Inum(p)>> /\ x \notin Stored'
<1>1. PICK k \in Slots(inode, Parent(p)) :
        /\ Removes(State, q, Parent(p), k)
        /\ path_basename(p) = inode[Parent(p)].ents[k][1]
  BY TakenRemoves
<1> DEFINE n == Parent(p)
           name == path_basename(p)
<1>2. /\ inode \in Tables /\ DirsGood(inode) /\ n \in Uppers(inode) /\ At(inode, n, name, p)
      /\ k \in Slots(inode, n) /\ name = inode[n].ents[k][1]
      /\ Removed(inode, q.inode, n, k)
  BY <1>1, CallParts, CallAt, StateNow DEF Removes
<1> HIDE DEF n, name
<1>3. PICK t : t = inode
  OBVIOUS
<1>4. PICK u : u = q.inode
  OBVIOUS
<1>5. /\ t \in Tables /\ DirsGood(t) /\ n \in Uppers(t) /\ At(t, n, name, p)
      /\ k \in Slots(t, n) /\ name = t[n].ents[k][1] /\ Removed(t, u, n, k)
  BY <1>2, <1>3, <1>4
<1>6. StoredIn(u) = {y \in StoredIn(t) : ~ IsPrefix(p, y[1])}
  BY <1>5, RemovedStored
<1>7. Fine(q) /\ inode' = q.inode
  BY <1>1 DEF Removes, Becomes
<1>8. Stored' = {y \in Stored : ~ IsPrefix(p, y[1])}
  BY <1>3, <1>4, <1>6, <1>7, TreeNow, LostNext
<1>9. PICK x \in Stored : x[1] = p
  BY OthersNotFound DEF Found, NotFound
<1>10. x[2] = Inum(p)
  BY <1>9, StoredInum
<1>11. IsPrefix(p, p)
  <2>1. p \in Top \/ p \in Deep
    BY DEF UsedPaths
  <2> QED
    BY <2>1, PrefixOne, PrefixTwo DEF Top, Deep
<1>12. x = <<x[1], x[2]>>
  BY StoredIs DEF Here, OneDown, TwoDown
<1>13. x \notin Stored'
  BY <1>8, <1>9, <1>11
<1> QED
  BY <1>7, <1>8, <1>9, <1>10, <1>12, <1>13
(* The inodes that a call may lose. *)
Losses(lost) ==
  \/ lost = {}
  \/ \E x \in Stored \ Stored' :
       Dir(x[2]) /\ lost \subseteq InodesOf({y \in Stored : IsPrefix(x[1], y[1])})
  \/ Stored' = Stored /\ UNCHANGED turn /\ ERRNO' = 0 /\ Cardinality(lost) = 1

(* Those lost with an entry are the one it is of and those below. *)
LEMMA LostBelow ==
  ASSUME IInv, NEW p \in UsedPaths, IsDir(Front(p)), Found(p),
         NEW q \in Takings(p), Becomes(q), NEW j \in Lost' \ Lost
  PROVE  \/ j = Inum(p) /\ q # Unlinked(p)
         \/ \E y \in Stored : /\ y[2] # Inum(p) /\ IsPrefix(p, y[1])
                              /\ j = y[2] \/ j \in Own(inode, y[2])
<1>1. Loses(State, q, Inum(p)) /\ (q = Unlinked(p) => Inum(p) \in Held(q, Reach(q.inode)))
  BY TakenRemoves
<1>2. Fine(q) /\ inode' = q.inode /\ Stored' = {y \in Stored : ~ IsPrefix(p, y[1])}
  BY TakenStored
<1>3. Lost = (3 .. LAST) \ Held(State, Reach(inode)) /\ Lost' = (3 .. LAST) \ Held(q, Reach(q.inode))
  BY <1>2, LostHeld
<1>4. j \in Held(State, Reach(State.inode)) /\ j \notin Held(q, Reach(q.inode))
  BY <1>3, StateNow
<1>5. CASE j = Inum(p)
  BY <1>1, <1>4, <1>5
<1>6. CASE j \in Uses(State.inode, (Reach(State.inode) \ {Inum(p)}) \ Reach(q.inode))
  <2>1. PICK m \in (Reach(inode) \ {Inum(p)}) \ Reach(q.inode) : j = m \/ j \in Own(inode, m)
    BY <1>6, UsesParts, StateNow
  <2>2. DirsGood(inode) /\ DirsGood(q.inode)
    BY <1>2, FineParts, InvariantParts
  <2>3. PICK y \in StoredIn(inode) : y[2] = m
    BY <2>1, <2>2, ReachStored
  <2>4. y \notin StoredIn(q.inode)
    BY <2>1, <2>2, <2>3, StoredInReach
  <2>5. y \in Stored /\ y \notin Stored'
    BY <1>2, <2>3, <2>4, TreeNow, LostNext
  <2>6. IsPrefix(p, y[1])
    BY <1>2, <2>5
  <2> QED
    BY <2>1, <2>3, <2>5, <2>6
<1> QED
  BY <1>1, <1>4, <1>5, <1>6 DEF Loses

LEMMA RmdirLoses ==
  ASSUME IInv, NEW p \in UsedPaths, IsDir(Front(p)), Found(p), ~ IsFile(p),
         NEW q \in Takings(p), Becomes(q)
  PROVE  Losses(Lost' \ Lost)
<1>1. PICK x \in Stored : x = <<p, Inum(p)>> /\ x \notin Stored'
  BY TakenStored
<1>2. x[1] = p /\ x[2] = Inum(p)
  BY <1>1
<1>3. inode \in Tables /\ DirsGood(inode)
  BY InvariantParts
<1>4. Dir(x[2])
  <2>1. x[2] \in Numbers
    BY StoredReached
  <2>2. inode[x[2]].isdir \in {0, 1}
    BY <1>3, <2>1, NodeParts
  <2> QED
    BY <1>2, <2>2 DEF IsFile, Dir
<1> DEFINE part == {y \in Stored : IsPrefix(x[1], y[1])}
<1>5. \A j : j \in InodesIn(inode, part) <=> \E y \in part : j = y[2] \/ j \in Own(inode, y[2])
  <2>1. part \in SUBSET StoredIn(inode)
    BY TreeNow
  <2> HIDE DEF part
  <2> QED
    BY <1>3, <2>1, InodesInIs
<1>6. x \in part
  <2>1. IsPrefix(p, p)
    BY <1>1, <1>2, TakenStored
  <2> QED
    BY <1>2, <2>1
<1>7. ASSUME NEW j \in Lost' \ Lost
      PROVE  j \in InodesIn(inode, part)
  <2>1. CASE j = Inum(p)
    BY <1>2, <1>5, <1>6, <2>1
  <2>2. ASSUME NEW y \in Stored, IsPrefix(p, y[1]), j = y[2] \/ j \in Own(inode, y[2])
        PROVE  j \in InodesIn(inode, part)
    <3>1. y \in part
      BY <1>2, <2>2
    <3> HIDE DEF part
    <3> QED
      BY <1>5, <2>2, <3>1
  <2> QED
    BY <2>1, <2>2, LostBelow
<1>8. Lost' \ Lost \subseteq InodesOf(part)
  <2>1. InodesOf(part) = InodesIn(inode, part)
    BY LostNow
  <2> HIDE DEF part
  <2> QED
    BY <1>7, <2>1
<1> QED
  BY <1>1, <1>4, <1>8 DEF Losses

LEMMA UnlinkLoses ==
  ASSUME IInv, NEW p \in UsedPaths, IsDir(Front(p)), Found(p), ~ IsDir(p),
         Becomes(Unlinked(p))
  PROVE  Losses(Lost' \ Lost)
<1>1. PICK q \in Takings(p) : q = Unlinked(p) /\ Becomes(q)
  BY DEF Takings
<1>2. PICK x \in Stored : x = <<p, Inum(p)>>
  BY <1>1, TakenStored
<1>3. x[1] = p /\ x[2] = Inum(p) /\ ~ Dir(x[2])
  BY <1>2 DEF IsDir, Dir
<1>4. ASSUME NEW j \in Lost' \ Lost
      PROVE  FALSE
  <2>1. PICK y \in Stored : y[2] # Inum(p) /\ IsPrefix(p, y[1])
    BY <1>1, LostBelow
  <2>2. y = x
    BY <1>3, <2>1, FileLeaf
  <2> QED
    BY <1>3, <2>1, <2>2
<1> QED
  BY <1>4 DEF Losses
LEMMA MakeLoses ==
  ASSUME IInv, NEW p \in UsedPaths, IsDir(Front(p)), NEW i, i = PoppedInode(State),
         NEW node, NEW q, MakeNode(p, i, node, q)
  PROVE  Lost' \ Lost = {}
<1>1. CASE Inum(p) > 0
  BY <1>1, SameLost DEF MakeNode
<1>2. CASE ~ (Inum(p) > 0)
  <2> DEFINE n == Parent(p)
             name == path_basename(p)
             w == Push(dnode_remove(WithErr(q, 0), n, name), i)
  <2>1. /\ Fine(State) /\ n \in Uppers(State.inode) /\ name \in Names
        /\ \A k \in Slots(State.inode, n) : State.inode[n].ents[k][1] # name
    BY <1>2, CallParts
  <2>2. /\ NewNode(node, i, n) /\ q = Made(State, n, name, node)
        /\ Becomes(IF q.err = 0 THEN q ELSE w)
    BY <1>2 DEF MakeNode
  <2> HIDE DEF n, name
  <2>3. CASE q.err = 0
    <3>1. Fine(q) /\ Kept(State, q)
      BY <2>1, <2>2, <2>3, MadeFine
    <3>2. Becomes(q)
      BY <2>2, <2>3
    <3> QED
      BY <3>1, <3>2, KeptLosesNone
  <2>4. CASE q.err # 0
    <3>1. Fine(w) /\ Kept(State, w)
      <4>1. Restores(State, w)
        BY <2>1, <2>2, Reverts
      <4> HIDE DEF w
      <4> QED
        BY <2>1, <4>1, RevertedFine
    <3> HIDE DEF w
    <3>2. Becomes(w)
      BY <2>2, <2>4
    <3> QED
      BY <3>1, <3>2, KeptLosesNone
  <2> QED
    BY <2>3, <2>4
<1> QED
  BY <1>1, <1>2

(* The inode that a write pops and keeps is one. *)
LEMMA WriteLoses ==
  ASSUME IInv, NEW p \in UsedPaths, IsDir(Front(p)), IsFile(p), NEW n \in Sizes,
         NEW enough \in BOOLEAN, sfs_write(p, n, enough) \/ sfs_truncate(p, n, enough)
  PROVE  Losses(Lost' \ Lost)
<1> DEFINE w == listing_set(Short(enough), Inum(p), BlocksOf(n))
           v == WithErr(Pop(w), 0)
           i == PoppedInode(w)
<1>1. Fine(w) /\ Alike(inode, w.inode) /\ Kept(State, w)
  BY WrittenFine
<1>2. UNCHANGED <<answer, turn>> /\ (Becomes(w) \/ Becomes(v))
  BY WriteBecomes
<1> HIDE DEF w
<1>3. CASE Becomes(w)
  BY <1>1, <1>3, KeptLosesNone DEF Losses
<1>4. CASE Becomes(v)
  <2>1. /\ w \in States /\ Pop(w) \in States /\ Pop(w).inode = w.inode
        /\ w.free \ {i} \subseteq Pop(w).free
    <3>1. w \in States
      BY <1>1 DEF Fine
    <3> QED
      BY <3>1, Popped DEF Pop
  <2>2. Fine(v) /\ v.inode = w.inode /\ v.free = Pop(w).free /\ v.err = 0
    <3>1. Fine(Pop(w))
      BY <1>1, PopFine
    <3> QED
      BY <2>1, <3>1, ErrFine, ErrPut
  <2> HIDE DEF v, i
  <2>3. inode' = w.inode /\ ERRNO' = 0
    BY <1>4, <2>2 DEF Becomes
  <2>4. Stored' = Stored
    <3>1. DirsGood(inode)
      BY InvariantParts
    <3>2. StoredIn(w.inode) = StoredIn(inode)
      BY <1>1, <3>1, AlikeStored
    <3> QED
      BY <2>3, <3>2, TreeNow, LostNext
  <2>5. Lost' \ Lost \subseteq {i}
    <3>1. Held(State, Reach(State.inode)) \subseteq Held(w, Reach(w.inode))
      BY <1>1 DEF Kept
    <3>2. Held(w, Reach(w.inode)) \subseteq Held(v, Reach(v.inode)) \cup {i}
      BY <2>1, <2>2 DEF Held
    <3>3. Lost = (3 .. LAST) \ Held(State, Reach(inode)) /\ Lost' = (3 .. LAST) \ Held(v, Reach(v.inode))
      BY <1>4, <2>2, LostHeld
    <3> QED
      BY <3>1, <3>2, <3>3, StateNow
  <2>6. CASE Lost' \ Lost = {}
    BY <2>6 DEF Losses
  <2>7. CASE Lost' \ Lost # {}
    <3>1. Lost' \ Lost = {i}
      BY <2>5, <2>7
    <3>2. Cardinality(Lost' \ Lost) = 1
      BY <3>1, FS_Singleton
    <3> QED
      BY <1>2, <2>3, <2>4, <3>2 DEF Losses
  <2> QED
    BY <2>6, <2>7
<1> QED
  BY <1>2, <1>3, <1>4

LEMMA StepLoses ==
  ASSUME IInv, Next
  PROVE  Losses(Lost' \ Lost)
<1>1. Lost' \ Lost = {} => Losses(Lost' \ Lost)
  BY DEF Losses
<1>2. ASSUME NEW p, Refused(p)
      PROVE  Lost' \ Lost = {}
  BY <1>2, SameLost DEF Refused
<1>3. ASSUME NEW p \in UsedPaths, IsDir(Front(p)), sfs_create(p) \/ sfs_mkdir(p)
      PROVE  Lost' \ Lost = {}
  <2> DEFINE i == PoppedInode(State)
  <2>1. \E node, q : MakeNode(p, i, node, q)
    BY <1>3, CallMakes
  <2> HIDE DEF i
  <2>2. i = PoppedInode(State)
    BY DEF i
  <2> QED
    BY <1>3, <2>1, <2>2, MakeLoses
<1>4. ASSUME NEW p \in UsedPaths, IsDir(Front(p)), ~ IsFile(p), sfs_rmdir(p)
      PROVE  Losses(Lost' \ Lost)
  <2>1. Refused(p) \/ (Found(p) /\ \E q \in Takings(p) : Becomes(q))
    BY <1>4, RemovalTakes
  <2> QED
    BY <1>1, <1>2, <1>4, <2>1, RmdirLoses
<1>5. ASSUME NEW p \in UsedPaths, IsDir(Front(p)), ~ IsDir(p), sfs_unlink(p)
      PROVE  Losses(Lost' \ Lost)
  <2>1. Refused(p) \/ (Found(p) /\ Becomes(Unlinked(p)))
    BY <1>5 DEF sfs_unlink, Unlinked, Unlinks
  <2> QED
    BY <1>1, <1>2, <1>5, <2>1, UnlinkLoses
<1>6. ASSUME NEW p \in UsedPaths, IsDir(Front(p)), IsFile(p),
             \E n \in Sizes, enough \in BOOLEAN :
               sfs_write(p, n, enough) \/ sfs_truncate(p, n, enough)
      PROVE  Losses(Lost' \ Lost)
  BY <1>6, WriteLoses
<1>7. CASE sfs_init
  BY <1>1, <1>7, FreshLost
<1> QED
  BY <1>1, <1>3, <1>4, <1>5, <1>6, <1>7 DEF Next

(***************************************************************************)
(* Inodes get lost in two ways only: with a directory that sfs_rmdir takes *)
(* away, together with all below it, and one at a time by a call that      *)
(* changes no name, which sfs_write is after an error. sfs_create and      *)
(* sfs_mkdir lose none, whether or not they are reverted.                  *)
(***************************************************************************)
THEOREM FewWaysToLose == Spec => LostByRmdirOrWrite
<1>1. IInv /\ [Next]_vars => [Losses(Lost' \ Lost)]_vars
  BY StepLoses
<1> QED
  BY <1>1, Inductive, PTL DEF Spec, LostByRmdirOrWrite, Losses

-----------------------------------------------------------------------------
(***************************************************************************)
(* What is taken back, and what is written over.                           *)
(***************************************************************************)
Undone == answer' # 0 => UNCHANGED <<inode, free>> /\ ERRNO' \in {0, ERRNO}

Undoes ==
  \A p \in UsedPaths :
    IsDir(Front(p)) /\ (sfs_create(p) \/ sfs_mkdir(p)) /\ answer' # 0 =>
      UNCHANGED <<inode, free>> /\ ERRNO' \in {0, ERRNO}

Overwrites ==
  superblock = "kept" /\ superblock' = "lost" =>
    \/ answer' = -ENOSPC /\ Cardinality(free) <= 1 /\ UNCHANGED <<inode, free>>
    \/ free' = {} /\ UNCHANGED <<TreeStored, answer, turn>>

LEMMA FewFree ==
  ASSUME NEW F, NEW i, F \subseteq {i}
  PROVE  Cardinality(F) <= 1
<1>1. IsFiniteSet({i}) /\ Cardinality({i}) = 1
  BY FS_Singleton
<1> QED
  BY <1>1, FS_Subset

LEMMA MakeUndone ==
  ASSUME IInv, NEW p \in UsedPaths, IsDir(Front(p)), NEW i, i = PoppedInode(State),
         NEW node, NEW q, MakeNode(p, i, node, q)
  PROVE  Undone /\ Overwrites
<1>1. CASE Inum(p) > 0
  BY <1>1 DEF MakeNode, Undone, Overwrites
<1>2. CASE ~ (Inum(p) > 0)
  <2> DEFINE n == Parent(p)
             name == path_basename(p)
             w == Push(dnode_remove(WithErr(q, 0), n, name), i)
  <2>1. /\ Fine(State) /\ n \in Uppers(State.inode) /\ name \in Names
        /\ \A k \in Slots(State.inode, n) : State.inode[n].ents[k][1] # name
    BY <1>2, CallParts
  <2>2. /\ NewNode(node, i, n) /\ q = Made(State, n, name, node)
        /\ Answer(q.err) /\ Becomes(IF q.err = 0 THEN q ELSE w)
    BY <1>2 DEF MakeNode
  <2> HIDE DEF n, name
  <2>3. CASE q.err = 0
    <3>1. q.super = State.super
      BY <2>1, <2>2, <2>3, MadeFine
    <3>2. answer' = 0 /\ superblock' = superblock
      BY <2>2, <2>3, <3>1, StateNow DEF Answer, Becomes
    <3> QED
      BY <3>2 DEF Undone, Overwrites
  <2>4. CASE q.err # 0
    <3>1. Restores(State, w) /\ w.super = q.super
      BY <2>1, <2>2, Reverts
    <3>2. Makes(State.inode, n, name, i, node, q) /\ Spares(State, n, i, q)
      BY <2>1, <2>2, MadeIs
    <3> HIDE DEF w
    <3>3. q.err = -ENOSPC
      BY <2>4, <3>2, StateParts DEF Makes
    <3>4. UNCHANGED <<inode, free>> /\ ERRNO' = 0 /\ superblock' = q.super /\ answer' = -ENOSPC
      BY <2>2, <2>4, <3>1, <3>3, StateNow DEF Restores, Becomes, Answer
    <3>5. q.super = superblock \/ free \subseteq {i}
      BY <3>2, StateNow DEF Spares
    <3>6. free \subseteq {i} => Cardinality(free) <= 1
      BY FewFree
    <3> QED
      BY <3>4, <3>5, <3>6 DEF Undone, Overwrites
  <2> QED
    BY <2>3, <2>4
<1> QED
  BY <1>1, <1>2

LEMMA WriteOverwrites ==
  ASSUME IInv, NEW p \in UsedPaths, IsDir(Front(p)), IsFile(p), NEW n \in Sizes,
         NEW enough \in BOOLEAN, sfs_write(p, n, enough) \/ sfs_truncate(p, n, enough)
  PROVE  Overwrites
<1> DEFINE r == Short(enough)
           w == listing_set(r, Inum(p), BlocksOf(n))
           v == WithErr(Pop(w), 0)
<1>1. Fine(w) /\ Paged(r, Inum(p), w) /\ r.super = superblock
  BY WrittenFine
<1>2. UNCHANGED <<answer, turn>> /\ (Becomes(w) \/ Becomes(v))
  BY WriteBecomes
<1>3. TreeStored' = TreeStored
  BY WriteStutters DEF Abstract!treeVars
<1> HIDE DEF r, w
<1>4. w.super = superblock \/ w.free = {}
  BY <1>1 DEF Paged
<1>5. v.super = w.super /\ (w.free = {} => v.free = {})
  <2>1. w \in States
    BY <1>1 DEF Fine
  <2>2. Pop(w) \in States /\ Pop(w).super = w.super /\ (w.free = {} => Pop(w).free = {})
    BY <2>1, Popped
  <2> QED
    BY <2>2, ErrPut
<1> HIDE DEF v
<1>6. superblock' = superblock \/ free' = {}
  BY <1>2, <1>4, <1>5 DEF Becomes
<1> QED
  BY <1>2, <1>3, <1>6 DEF Overwrites

LEMMA CallUndone ==
  ASSUME IInv, NEW p \in UsedPaths, IsDir(Front(p)), sfs_create(p) \/ sfs_mkdir(p)
  PROVE  Undone /\ Overwrites
<1> DEFINE i == PoppedInode(State)
<1>1. \E node, q : MakeNode(p, i, node, q)
  BY CallMakes
<1> HIDE DEF i
<1>2. i = PoppedInode(State)
  BY DEF i
<1> QED
  BY <1>1, <1>2, MakeUndone

LEMMA StepOverwrites ==
  ASSUME IInv, Next
  PROVE  Overwrites
<1>1. ASSUME NEW p \in UsedPaths, IsDir(Front(p)), sfs_create(p) \/ sfs_mkdir(p)
      PROVE  Overwrites
  BY <1>1, CallUndone
<1>2. ASSUME NEW p \in UsedPaths, IsDir(Front(p)), sfs_rmdir(p) \/ sfs_unlink(p)
      PROVE  Overwrites
  <2>1. CASE Refused(p)
    BY <2>1 DEF Refused, Overwrites
  <2>2. CASE Found(p) /\ Answer(0) /\ \E q \in Takings(p) : Becomes(q)
    <3>1. PICK q \in Takings(p) : Becomes(q)
      BY <2>2
    <3>2. q.super = superblock
      BY <1>2, <2>2, <3>1, TakenRemoves
    <3> QED
      BY <3>1, <3>2 DEF Becomes, Overwrites
  <2> QED
    BY <1>2, <2>1, <2>2, RemovalTakes
<1>3. ASSUME NEW p \in UsedPaths, IsDir(Front(p)), IsFile(p),
             \E n \in Sizes, enough \in BOOLEAN :
               sfs_write(p, n, enough) \/ sfs_truncate(p, n, enough)
      PROVE  Overwrites
  BY <1>3, WriteOverwrites
<1>4. CASE sfs_init
  BY <1>4 DEF sfs_init, Becomes, Formatted, Overwrites
<1> QED
  BY <1>1, <1>2, <1>3, <1>4 DEF Next

(***************************************************************************)
(* An sfs_create or sfs_mkdir that is refused leaves every inode, every    *)
(* page and the bitmap as they were: what they take back after an error is *)
(* what they had done, whether the inode, the page or neither was to be    *)
(* had.                                                                    *)
(***************************************************************************)
THEOREM RefusalsTakeAllBack == Spec => RefusalsUndone
<1>1. IInv => Undoes
  BY CallUndone DEF Undoes, Undone
<1>2. IInv /\ [Next]_vars => [Undoes]_vars
  BY <1>1
<1> QED
  BY <1>2, Inductive, PTL DEF Spec, RefusalsUndone, Undoes

(***************************************************************************)
(* The superblock is written over only when no inode is left, or none but  *)
(* the one the call has just taken: then sfs_create and sfs_mkdir return   *)
(* ENOSPC, with nothing else changed, and sfs_write and sfs_truncate       *)
(* change no name.                                                         *)
(***************************************************************************)
THEOREM FewWaysToOverwrite == Spec => SuperBlockLostOnlyWhenFull
<1>1. IInv /\ [Next]_vars => [Overwrites]_vars
  BY StepOverwrites
<1> QED
  BY <1>1, Inductive, PTL DEF Spec, SuperBlockLostOnlyWhenFull, Overwrites

=============================================================================
